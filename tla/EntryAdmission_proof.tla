------------------------- MODULE EntryAdmission_proof -------------------------
(***************************************************************************)
(* Proofs about EntryAdmission for every set of proposals, contracts and   *)
(* agents and any number of days.                                          *)
(*                                                                         *)
(* What was sent was charged first and is never un-charged (ChargeInv), so *)
(* the sends of a day are among its charges, and the claim keeps those     *)
(* within the budget (BudgetInv).  A charge makes a row Untouched no more, *)
(* which is what every late agent, expiry and rejection asks for; hence a  *)
(* sent entry keeps its approval and row.  A claim that is under way found *)
(* the account's other attempts over, and no other can be charged before   *)
(* it is (ClaimInv): that carries the checks of the claim to the send      *)
(* under policy 1, whose send does not repeat them.                        *)
(***************************************************************************)
EXTENDS EntryAdmission, FiniteSetTheorems, TLAPS

(* An agent at work works on one proposal.                                 *)
AgentInv ==
    \A w \in Agents : agent[w].at # "idle" =>
        \E p \in Proposals : agent[w].proposal = {p}

(* A charge is for a row, a send for a charge of its own day.              *)
ChargeInv ==
    \A p \in Proposals :
        /\ entry[p].attempt # 0 => entry[p].row # "none"
        /\ entry[p].life # "none" => entry[p].attempt # 0
        /\ sentOn[p] # 0 => sentOn[p] = entry[p].attempt /\ entry[p].life # "none"

(* Between the claim and the send the row reserves the account, and, but   *)
(* for policy 3, every other attempt is over.                              *)
ClaimInv ==
    \A p \in Proposals : call[p] = "claimed" =>
        /\ entry[p].attempt # 0 /\ entry[p].row = "PROPOSED" /\ entry[p].life = "none"
        /\ policy # 3 => \A q \in Proposals \ {p} :
                            entry[q].attempt # 0 => entry[q].life = "done"

ChargedOn(d) == {p \in Proposals : entry[p].attempt = d}

(* The charges of a day stay within the budget, on contracts of their own. *)
BudgetInv ==
    policy # 3 => \A d \in 1..MaxDay :
        /\ IsFiniteSet(ChargedOn(d)) /\ Cardinality(ChargedOn(d)) <= Cap
        /\ \A p, q \in ChargedOn(d) : contract[p] = contract[q] => p = q

(* The inductive invariant.                                                *)
Inv ==
    /\ TypeOK
    /\ AgentInv
    /\ ChargeInv
    /\ ClaimInv
    /\ BudgetInv
    /\ SentStaysApproved

(* What a decision leaves of a review is a review.                         *)
LEMMA DecidedType ==
  ASSUME NEW s \in {"APPROVED", "REJECTED", "EXPIRED"}
  PROVE  Decided(s) \in Reviews
  BY DEF Decided, NoReview, Reviews

(* Expiry leaves what is charged alone; a row it closes was untouched.     *)
LEMMA EntriesLeftFacts ==
  ASSUME TypeOK
  PROVE  /\ EntriesLeft \in [Proposals -> Entries]
         /\ \A p \in Proposals :
              /\ EntriesLeft[p].attempt = entry[p].attempt
              /\ EntriesLeft[p].life = entry[p].life
              /\ entry[p].attempt # 0 => EntriesLeft[p].row = entry[p].row
              /\ EntriesLeft[p].row # "none" <=> entry[p].row # "none"
  BY DEF TypeOK, Entries, EntriesLeft, Expirable, Untouched

(* And so it does with the review of what is charged.                      *)
LEMMA ReviewsLeftFacts ==
  ASSUME TypeOK
  PROVE  /\ ReviewsLeft \in [Proposals -> Reviews]
         /\ \A p \in Proposals : entry[p].attempt # 0 => ReviewsLeft[p] = review[p]
  BY DEF TypeOK, Reviews, ReviewsLeft, Expirable, Untouched, Decided, NoReview

(* Closing a row changes nothing but its status.                           *)
LEMMA CloseFacts ==
  ASSUME TypeOK, NEW p \in Proposals
  PROVE  /\ Close(entry, p) \in [Proposals -> Entries]
         /\ \A q \in Proposals :
              /\ Close(entry, p)[q].attempt = entry[q].attempt
              /\ Close(entry, p)[q].life = entry[q].life
              /\ q # p => Close(entry, p)[q] = entry[q]
              /\ q = p => Close(entry, p)[q].row = "closed"
  BY DEF TypeOK, Entries, Close

(* The proposal an agent at work works on.                                 *)
LEMMA OnFacts ==
  ASSUME AgentInv, NEW w \in Agents, agent[w].at # "idle"
  PROVE  On(w) \in Proposals /\ agent[w].proposal = {On(w)}
<1>1. PICK p \in Proposals : agent[w].proposal = {p}
  BY DEF AgentInv
<1>2. On(w) = p
  BY <1>1 DEF On
<1>. QED  BY <1>1, <1>2

(* The budget looks at the charges only.                                   *)
LEMMA BudgetKept ==
  ASSUME BudgetInv, UNCHANGED <<policy, contract>>,
         \A p \in Proposals : entry'[p].attempt = entry[p].attempt
  PROVE  BudgetInv'
<1>1. \A d : ChargedOn(d)' = ChargedOn(d)
  BY DEF ChargedOn
<1>. QED  BY <1>1 DEF BudgetInv, Cap

(* Charging one more proposal to a day whose budget is not consumed.       *)
LEMMA ChargeWithinBudget ==
  ASSUME AdmissionAssumption, TypeOK, BudgetInv, policy # 3,
         NEW p \in Proposals, entry[p].attempt = 0, ~Consumed(p)
  PROVE  /\ IsFiniteSet(ChargedOn(day) \cup {p})
         /\ Cardinality(ChargedOn(day) \cup {p}) <= Cap
         /\ \A q \in ChargedOn(day) : contract[q] # contract[p]
<1>1. day \in 1..MaxDay /\ Charged = ChargedOn(day)
  BY DEF TypeOK, Charged, ChargedOn
<1>2. IsFiniteSet(ChargedOn(day)) /\ p \notin ChargedOn(day)
  BY <1>1 DEF BudgetInv, ChargedOn, AdmissionAssumption
<1>3. Cardinality(ChargedOn(day)) \in Nat
  BY <1>2, FS_CardinalityType
<1>4. Cardinality(ChargedOn(day)) < Cap
  BY <1>1, <1>3 DEF Consumed, Cap
<1>5. /\ IsFiniteSet(ChargedOn(day) \cup {p})
      /\ Cardinality(ChargedOn(day) \cup {p}) = Cardinality(ChargedOn(day)) + 1
  BY <1>2, FS_AddElement
<1>. QED  BY <1>1, <1>3, <1>4, <1>5 DEF Consumed, Cap

(* The initial state.                                                      *)
LEMMA InitInv ==
  ASSUME AdmissionAssumption, Init
  PROVE  Inv
<1>1. TypeOK
  BY DEF AdmissionAssumption, Init, TypeOK, Entries, Reviews, NoEntry, NoReview, Idle
<1>2. AgentInv /\ ChargeInv /\ ClaimInv /\ SentStaysApproved
  BY DEF Init, AgentInv, ChargeInv, ClaimInv, SentStaysApproved, NoEntry, Idle
<1>3. BudgetInv
  <2>1. \A d \in 1..MaxDay : ChargedOn(d) = {}
    BY DEF AdmissionAssumption, Init, ChargedOn, NoEntry
  <2>. QED  BY <2>1, FS_EmptySet DEF BudgetInv, Cap
<1>. QED  BY <1>1, <1>2, <1>3 DEF Inv

(* A step that leaves the charged proposals alone: row, charge, life and   *)
(* the verdict of the review.                                              *)
LeavesCharged ==
    \A p \in Proposals :
        /\ entry'[p].attempt = entry[p].attempt
        /\ entry'[p].life = entry[p].life
        /\ entry[p].attempt # 0 => /\ entry'[p].row = entry[p].row
                                   /\ review'[p].status = review[p].status

LEMMA LeavesChargedKeepsInv ==
  ASSUME Inv, LeavesCharged, TypeOK', AgentInv', UNCHANGED <<policy, contract, sentOn>>,
         \A p \in Proposals : call'[p] = "claimed" => call[p] = "claimed"
  PROVE  Inv'
<1>1. ChargeInv'
  BY DEF Inv, ChargeInv, LeavesCharged
<1>2. ClaimInv'
  BY DEF Inv, ClaimInv, LeavesCharged
<1>3. BudgetInv'
  BY BudgetKept DEF Inv, LeavesCharged
<1>4. SentStaysApproved'
  BY DEF Inv, ChargeInv, SentStaysApproved, LeavesCharged
<1>. QED  BY <1>1, <1>2, <1>3, <1>4 DEF Inv

(* The expiry on the way to a claim closes only what is untouched, and the *)
(* lease it gives changes no verdict.                                      *)
LEMMA AgentClaimKeepsInv ==
  ASSUME Inv, NEW w \in Agents, AgentClaim(w)
  PROVE  Inv'
<1>1. /\ entry' \in [Proposals -> Entries]
      /\ \A p \in Proposals :
           /\ entry'[p].attempt = entry[p].attempt /\ entry'[p].life = entry[p].life
           /\ entry[p].attempt # 0 => entry'[p].row = entry[p].row
  BY EntriesLeftFacts DEF Inv, AgentClaim
<1>2. CASE \E p \in Proposals :
             /\ review' = [ReviewsLeft EXCEPT ![p].token = w, ![p].lease = TRUE]
             /\ agent' = [agent EXCEPT ![w] = [at |-> "evaluate", proposal |-> {p}]]
  <2>1. PICK p \in Proposals :
             /\ review' = [ReviewsLeft EXCEPT ![p].token = w, ![p].lease = TRUE]
             /\ agent' = [agent EXCEPT ![w] = [at |-> "evaluate", proposal |-> {p}]]
    BY <1>2
  <2>2. /\ review' \in [Proposals -> Reviews]
        /\ \A q \in Proposals : entry[q].attempt # 0 => review'[q].status = review[q].status
    <3>1. /\ ReviewsLeft \in [Proposals -> Reviews]
          /\ \A q \in Proposals :
               entry[q].attempt # 0 => ReviewsLeft[q].status = review[q].status
      BY ReviewsLeftFacts DEF Inv
    <3>. DEFINE leased == [ReviewsLeft[p] EXCEPT !.token = w, !.lease = TRUE]
    <3>2. leased \in Reviews /\ leased.status = ReviewsLeft[p].status
      BY <3>1 DEF Reviews
    <3>3. review' = [ReviewsLeft EXCEPT ![p] = leased]
      BY <2>1, <3>1 DEF Reviews
    <3>. HIDE DEF leased
    <3>. QED  BY <3>1, <3>2, <3>3
  <2>3. TypeOK'
    <3>1. agent' \in [Agents -> [at : {"idle", "evaluate", "deliver"},
                                proposal : SUBSET Proposals]]
      BY <2>1 DEF Inv, TypeOK
    <3>. QED  BY <1>1, <2>2, <3>1 DEF Inv, AgentClaim, TypeOK
  <2>4. AgentInv'
    BY <2>1 DEF Inv, TypeOK, AgentInv
  <2>. QED
    BY <1>1, <2>2, <2>3, <2>4, LeavesChargedKeepsInv DEF AgentClaim, LeavesCharged
<1>3. CASE review' = ReviewsLeft /\ UNCHANGED agent
  <2>1. TypeOK' /\ AgentInv'
    BY <1>1, <1>3, ReviewsLeftFacts DEF Inv, AgentClaim, TypeOK, AgentInv
  <2>. QED
    BY <1>1, <1>3, <2>1, ReviewsLeftFacts, LeavesChargedKeepsInv DEF Inv, AgentClaim,
      LeavesCharged
<1>. QED  BY <1>2, <1>3 DEF AgentClaim

(* A late agent finds its proposal charged and decides nothing.            *)
LEMMA FinalizeKeepsInv ==
  ASSUME Inv, NEW w \in Agents, Finalize(w)
  PROVE  Inv'
<1>1. On(w) \in Proposals
  BY OnFacts DEF Inv, Finalize, Working
<1>2. /\ entry' \in [Proposals -> Entries]
      /\ \A p \in Proposals :
           /\ entry'[p].attempt = entry[p].attempt /\ entry'[p].life = entry[p].life
           /\ entry[p].attempt # 0 => entry'[p].row = entry[p].row
  BY <1>1, CloseFacts DEF Inv, TypeOK, Finalize, Untouched
<1>3. /\ review' \in [Proposals -> Reviews]
      /\ \A p \in Proposals : entry[p].attempt # 0 => review'[p].status = review[p].status
  <2>1. Decided("APPROVED") \in Reviews /\ Decided("REJECTED") \in Reviews
    BY DecidedType
  <2>2. \/ UNCHANGED review
        \/ entry[On(w)].attempt = 0 /\ \E s \in {"APPROVED", "REJECTED"} :
             review' = [review EXCEPT ![On(w)] = Decided(s)]
    BY DEF Finalize, Untouched
  <2>. QED  BY <1>1, <2>1, <2>2 DEF Inv, TypeOK
<1>4. AgentInv' /\ agent' \in [Agents -> [at : {"idle", "evaluate", "deliver"},
                                         proposal : SUBSET Proposals]]
  <2>1. \/ agent' = [agent EXCEPT ![w].at = "deliver"]
        \/ agent' = [agent EXCEPT ![w] = Idle]
    BY DEF Finalize
  <2>. QED  BY <2>1 DEF Inv, TypeOK, AgentInv, Finalize, Working, Idle
<1>5. TypeOK'
  BY <1>2, <1>3, <1>4 DEF Inv, TypeOK, Finalize
<1>. QED
  BY <1>2, <1>3, <1>4, <1>5, LeavesChargedKeepsInv DEF Finalize, LeavesCharged

(* The delivery begins a call, it claims nothing.                          *)
LEMMA DeliverKeepsInv ==
  ASSUME Inv, NEW w \in Agents, Deliver(w)
  PROVE  Inv'
<1>1. On(w) \in Proposals
  BY OnFacts DEF Inv, Deliver, Working
<1>2. /\ call' \in [Proposals -> {"none", "begun", "claimed"}]
      /\ \A p \in Proposals : call'[p] = "claimed" => call[p] = "claimed"
  BY <1>1 DEF Inv, TypeOK, Deliver
<1>3. TypeOK' /\ AgentInv'
  BY <1>2 DEF Inv, TypeOK, AgentInv, Deliver, Idle
<1>. QED  BY <1>2, <1>3, LeavesChargedKeepsInv DEF Deliver, LeavesCharged

(* A row that is inserted has no charge yet.                               *)
LEMMA ProposeKeepsInv ==
  ASSUME Inv, NEW p \in Proposals, Propose(p)
  PROVE  Inv'
<1>1. entry[p].attempt = 0
  BY DEF Inv, ChargeInv, Propose
<1>2. /\ entry' \in [Proposals -> Entries]
      /\ \A q \in Proposals :
           /\ entry'[q].attempt = entry[q].attempt /\ entry'[q].life = entry[q].life
           /\ entry[q].attempt # 0 => entry'[q].row = entry[q].row
  BY <1>1, EntriesLeftFacts DEF Inv, Propose, Entries
<1>3. /\ review' \in [Proposals -> Reviews]
      /\ \A q \in Proposals : entry[q].attempt # 0 => review'[q].status = review[q].status
  BY <1>1, ReviewsLeftFacts DEF Inv, Propose, Reviews, NoReview
<1>4. TypeOK' /\ AgentInv'
  BY <1>2, <1>3 DEF Inv, TypeOK, AgentInv, Propose
<1>. QED
  BY <1>2, <1>3, <1>4, LeavesChargedKeepsInv DEF Propose, LeavesCharged

(* The operator rejects what is untouched.                                 *)
LEMMA RejectPendingKeepsInv ==
  ASSUME Inv, NEW p \in Proposals, RejectPending(p)
  PROVE  Inv'
<1>1. /\ entry' \in [Proposals -> Entries]
      /\ \A q \in Proposals :
           /\ entry'[q].attempt = entry[q].attempt /\ entry'[q].life = entry[q].life
           /\ entry[q].attempt # 0 => entry'[q].row = entry[q].row
  BY CloseFacts DEF Inv, RejectPending, Untouched
<1>2. /\ review' \in [Proposals -> Reviews]
      /\ \A q \in Proposals : entry[q].attempt # 0 => review'[q].status = review[q].status
  BY DEF Inv, TypeOK, RejectPending, Untouched, Reviews, Decided, NoReview
<1>3. TypeOK' /\ AgentInv'
  BY <1>1, <1>2 DEF Inv, TypeOK, AgentInv, RejectPending
<1>. QED
  BY <1>1, <1>2, <1>3, LeavesChargedKeepsInv DEF RejectPending, LeavesCharged

(* The claim charges the day within its budget, and finds every other      *)
(* attempt over, so that no other claim can be under way.                  *)
LEMMA ClaimKeepsInv ==
  ASSUME AdmissionAssumption, Inv, NEW p \in Proposals, Claim(p)
  PROVE  Inv'
<1>1. TypeOK'
  <2>1. day \in 0..MaxDay
    BY DEF AdmissionAssumption, Inv, TypeOK
  <2>2. [entry[p] EXCEPT !.attempt = day] \in Entries
    <3>1. entry[p] \in Entries
      BY DEF Inv, TypeOK
    <3>. QED  BY <2>1, <3>1 DEF Entries
  <2>3. call' \in [Proposals -> {"none", "begun", "claimed"}]
    BY DEF Inv, TypeOK, Claim
  <2>4. entry' \in [Proposals -> Entries]
    BY <2>2 DEF Inv, TypeOK, Claim
  <2>. QED  BY <2>3, <2>4 DEF Inv, TypeOK, Claim
<1>2. AgentInv'
  BY DEF Inv, Claim, AgentInv
<1>3. ChargeInv'
  BY DEF AdmissionAssumption, Inv, Claim, Untouched, TypeOK, Entries, ChargeInv
<1>4. ClaimInv'
  BY DEF AdmissionAssumption, Inv, Claim, Untouched, Unresolved, Beside, TypeOK, Entries,
    ChargeInv, ClaimInv
<1>5. BudgetInv'
  <2>1. CASE policy = 3
    BY <2>1 DEF Claim, BudgetInv
  <2>2. CASE policy # 3
    <3>1. \A d \in 1..MaxDay :
            ChargedOn(d)' = IF d = day THEN ChargedOn(day) \cup {p} ELSE ChargedOn(d)
      BY DEF AdmissionAssumption, Inv, Claim, Untouched, TypeOK, Entries, ChargedOn
    <3>2. /\ IsFiniteSet(ChargedOn(day) \cup {p})
          /\ Cardinality(ChargedOn(day) \cup {p}) <= Cap
          /\ \A q \in ChargedOn(day) : contract[q] # contract[p]
      BY <2>2, ChargeWithinBudget DEF Inv, Claim, Untouched
    <3>. QED  BY <2>2, <3>1, <3>2 DEF Inv, Claim, BudgetInv, Cap
  <2>. QED  BY <2>1, <2>2
<1>6. SentStaysApproved'
  BY DEF Inv, Claim, Untouched, TypeOK, Entries, ChargeInv, SentStaysApproved
<1>. QED  BY <1>1, <1>2, <1>3, <1>4, <1>5, <1>6 DEF Inv

(* The send is of the day that was charged, of an approved row that is     *)
(* still there.                                                            *)
LEMMA DispatchKeepsInv ==
  ASSUME AdmissionAssumption, Inv, NEW p \in Proposals, Dispatch(p)
  PROVE  Inv'
<1>1. TypeOK'
  BY DEF AdmissionAssumption, Inv, Dispatch, TypeOK, Entries
<1>2. AgentInv'
  BY DEF Inv, Dispatch, AgentInv
<1>3. ChargeInv'
  BY DEF Inv, Dispatch, OwnAttempt, TypeOK, Entries, ChargeInv, ClaimInv
<1>4. ClaimInv'
  BY DEF Inv, Dispatch, TypeOK, Entries, ClaimInv
<1>5. BudgetInv'
  BY BudgetKept DEF Inv, Dispatch, TypeOK, Entries
<1>6. SentStaysApproved'
  BY DEF Inv, Dispatch, Approved, TypeOK, Entries, ClaimInv, SentStaysApproved
<1>. QED  BY <1>1, <1>2, <1>3, <1>4, <1>5, <1>6 DEF Inv

(* The rest leaves charges and sends, except that lives go on and rows     *)
(* close behind them.                                                      *)
LEMMA LifeKeepsInv ==
  ASSUME Inv, NEW p \in Proposals, NEW new \in Entries, Becomes(p, new),
         new.attempt = entry[p].attempt, entry[p].attempt # 0 => new.row # "none",
         new.life # "none" => entry[p].attempt # 0,
         entry[p].life # "none" => new.life # "none",
         call[p] = "claimed" => new.row = entry[p].row /\ new.life = entry[p].life,
         entry[p].life = "done" => new.life = "done",
         new.life = "working" => entry[p].life = "working" /\ new.row = entry[p].row
  PROVE  Inv'
<1>1. \A q \in Proposals : entry'[q] = IF q = p THEN new ELSE entry[q]
  BY DEF Inv, TypeOK, Becomes
<1>2. TypeOK' /\ AgentInv'
  BY <1>1 DEF Inv, TypeOK, AgentInv, Becomes
<1>3. ChargeInv'
  BY <1>1 DEF Inv, ChargeInv, Becomes
<1>4. ClaimInv'
  BY <1>1 DEF Inv, ClaimInv, Becomes
<1>5. BudgetInv'
  BY <1>1, BudgetKept DEF Inv, Becomes
<1>6. SentStaysApproved'
  BY <1>1 DEF Inv, SentStaysApproved, Becomes
<1>. QED  BY <1>2, <1>3, <1>4, <1>5, <1>6 DEF Inv

(* A fill keeps the row.                                                   *)
LEMMA FillKeepsInv ==
  ASSUME Inv, NEW p \in Proposals, Fill(p)
  PROVE  Inv'
<1>. DEFINE new == [entry[p] EXCEPT !.life = "open"]
<1>1. new \in Entries /\ Becomes(p, new)
  BY DEF Inv, TypeOK, Entries, Fill
<1>. QED
  BY <1>1, LifeKeepsInv DEF Inv, TypeOK, Entries, Fill, ChargeInv, ClaimInv

(* The end is of an entry that was sent.                                   *)
LEMMA EndKeepsInv ==
  ASSUME Inv, NEW p \in Proposals, End(p)
  PROVE  Inv'
<1>. DEFINE new == [entry[p] EXCEPT !.life = "done", !.guarded = FALSE]
<1>1. new \in Entries /\ Becomes(p, new)
  BY DEF Inv, TypeOK, Entries, End
<1>. QED
  BY <1>1, LifeKeepsInv DEF Inv, TypeOK, Entries, End, ChargeInv, ClaimInv

(* A row closes when its entry no longer works.                            *)
LEMMA RowClosesKeepsInv ==
  ASSUME Inv, NEW p \in Proposals, RowCloses(p)
  PROVE  Inv'
<1>. DEFINE new == [entry[p] EXCEPT !.row = "closed"]
<1>1. new \in Entries /\ Becomes(p, new)
  BY DEF Inv, TypeOK, Entries, RowCloses
<1>. QED
  BY <1>1, LifeKeepsInv DEF Inv, TypeOK, Entries, RowCloses, ChargeInv, ClaimInv

(* An attempt is given up when no request is under way for it.             *)
LEMMA GiveUpKeepsInv ==
  ASSUME Inv, NEW p \in Proposals, GiveUp(p)
  PROVE  Inv'
<1>. DEFINE new == [entry[p] EXCEPT !.row = "closed", !.life = "done"]
<1>1. new \in Entries /\ Becomes(p, new)
  BY DEF Inv, TypeOK, Entries, GiveUp
<1>. QED
  BY <1>1, LifeKeepsInv DEF Inv, TypeOK, Entries, GiveUp

(* An observation changes nothing that is charged.                         *)
LEMMA ObserveKeepsInv ==
  ASSUME Inv, NEW p \in Proposals, Observe(p)
  PROVE  Inv'
<1>. DEFINE new == [entry[p] EXCEPT !.guarded = TRUE]
<1>1. new \in Entries /\ Becomes(p, new)
  BY DEF Inv, TypeOK, Entries, Observe
<1>. QED
  BY <1>1, LifeKeepsInv DEF Inv, TypeOK, Entries, Observe, ChargeInv

(* Nor does its age.                                                       *)
LEMMA ObservationAgesKeepsInv ==
  ASSUME Inv, NEW p \in Proposals, ObservationAges(p)
  PROVE  Inv'
<1>. DEFINE new == [entry[p] EXCEPT !.guarded = FALSE]
<1>1. new \in Entries /\ Becomes(p, new)
  BY DEF Inv, TypeOK, Entries, ObservationAges
<1>. QED
  BY <1>1, LifeKeepsInv DEF Inv, TypeOK, Entries, ObservationAges, ChargeInv

(* An older review keeps its verdict.                                      *)
LEMMA ReviewAgesKeepsInv ==
  ASSUME Inv, NEW p \in Proposals, ReviewAges(p)
  PROVE  Inv'
<1>1. /\ review' \in [Proposals -> Reviews]
      /\ \A q \in Proposals : review'[q].status = review[q].status
  <2>1. \/ review' = [review EXCEPT ![p].lease = FALSE]
        \/ review' = [review EXCEPT ![p].late = TRUE]
    BY DEF ReviewAges
  <2>2. /\ [review[p] EXCEPT !.lease = FALSE] \in Reviews
        /\ [review[p] EXCEPT !.late = TRUE] \in Reviews
    <3>1. review[p] \in Reviews
      BY DEF Inv, TypeOK
    <3>. QED  BY <3>1 DEF Reviews
  <2>3. review' \in [Proposals -> Reviews]
    <3>1. CASE review' = [review EXCEPT ![p].lease = FALSE]
      BY <2>2, <3>1 DEF Inv, TypeOK
    <3>2. CASE review' = [review EXCEPT ![p].late = TRUE]
      BY <2>2, <3>2 DEF Inv, TypeOK
    <3>. QED  BY <2>1, <3>1, <3>2
  <2>4. \A q \in Proposals : review'[q].status = review[q].status
    BY <2>1 DEF Inv, TypeOK, Reviews
  <2>. QED  BY <2>3, <2>4
<1>2. TypeOK' /\ AgentInv'
  BY <1>1 DEF Inv, TypeOK, AgentInv, ReviewAges
<1>. QED  BY <1>1, <1>2, LeavesChargedKeepsInv DEF ReviewAges, LeavesCharged

(* Every step keeps the invariant.                                         *)
LEMMA StepInv ==
  ASSUME AdmissionAssumption
  PROVE  Inv /\ [Next]_vars => Inv'
<1> SUFFICES ASSUME Inv, [Next]_vars
             PROVE  Inv'
  OBVIOUS
<1>1. ASSUME NEW w \in Agents, AgentClaim(w)
      PROVE  Inv'
  BY <1>1, AgentClaimKeepsInv
<1>2. ASSUME NEW w \in Agents, Finalize(w)
      PROVE  Inv'
  BY <1>2, FinalizeKeepsInv
<1>3. ASSUME NEW w \in Agents, Deliver(w)
      PROVE  Inv'
  BY <1>3, DeliverKeepsInv
<1>4. ASSUME NEW p \in Proposals, Propose(p)
      PROVE  Inv'
  BY <1>4, ProposeKeepsInv
<1>5. ASSUME NEW p \in Proposals, RejectPending(p)
      PROVE  Inv'
  BY <1>5, RejectPendingKeepsInv
<1>6. ASSUME NEW p \in Proposals, Claim(p)
      PROVE  Inv'
  BY <1>6, ClaimKeepsInv
<1>7. ASSUME NEW p \in Proposals, Dispatch(p)
      PROVE  Inv'
  BY <1>7, DispatchKeepsInv
<1>8. ASSUME NEW p \in Proposals, Fill(p)
      PROVE  Inv'
  BY <1>8, FillKeepsInv
<1>9. ASSUME NEW p \in Proposals, End(p)
      PROVE  Inv'
  BY <1>9, EndKeepsInv
<1>10. ASSUME NEW p \in Proposals, RowCloses(p)
      PROVE  Inv'
  BY <1>10, RowClosesKeepsInv
<1>11. ASSUME NEW p \in Proposals, GiveUp(p)
      PROVE  Inv'
  BY <1>11, GiveUpKeepsInv
<1>12. ASSUME NEW p \in Proposals, Observe(p)
      PROVE  Inv'
  BY <1>12, ObserveKeepsInv
<1>13. ASSUME NEW p \in Proposals, ObservationAges(p)
      PROVE  Inv'
  BY <1>13, ObservationAgesKeepsInv
<1>14. ASSUME NEW p \in Proposals, ReviewAges(p)
      PROVE  Inv'
  BY <1>14, ReviewAgesKeepsInv
<1>15. ASSUME NEW p \in Proposals, Refuse(p)
      PROVE  Inv'
  <2>1. TypeOK' /\ AgentInv' /\ \A q \in Proposals : call'[q] = "claimed" => call[q] = "claimed"
    BY <1>15 DEF Inv, TypeOK, AgentInv, Refuse
  <2>. QED  BY <1>15, <2>1, LeavesChargedKeepsInv DEF Refuse, LeavesCharged
<1>16. CASE SetPaused \/ Midnight \/ UNCHANGED vars
  <2>1. TypeOK'
    <3>1. paused' \in BOOLEAN
      BY <1>16 DEF Inv, TypeOK, SetPaused, Midnight, vars
    <3>2. day' \in 1..MaxDay
      BY <1>16 DEF AdmissionAssumption, Inv, TypeOK, SetPaused, Midnight, vars
    <3>. QED
      BY <1>16, <3>1, <3>2 DEF Inv, TypeOK, SetPaused, Midnight, vars
  <2>2. AgentInv' /\ UNCHANGED <<policy, contract, entry, review, call, sentOn>>
    BY <1>16 DEF Inv, AgentInv, SetPaused, Midnight, vars
  <2>. QED  BY <2>1, <2>2, LeavesChargedKeepsInv DEF LeavesCharged
<1>. QED
  BY <1>1, <1>2, <1>3, <1>4, <1>5, <1>6, <1>7, <1>8, <1>9,
    <1>10, <1>11, <1>12, <1>13, <1>14, <1>15, <1>16 DEF Next

LEMMA Invariance ==
  ASSUME AdmissionAssumption
  PROVE  Spec => []Inv
<1>1. Init => Inv
  BY InitInv
<1>2. Inv /\ [Next]_vars => Inv'
  BY StepInv
<1>. QED  BY <1>1, <1>2, PTL DEF Spec

(* Type correctness of proposals, reviews and requests.                    *)
THEOREM TypeCorrect ==
  ASSUME AdmissionAssumption
  PROVE  Spec => []TypeOK
<1>1. Inv => TypeOK
  BY DEF Inv
<1>. QED  BY <1>1, Invariance, PTL

(* paper-entry-budget.ts charges an attempt in the transaction of the      *)
(* claim and asks for it in that of the send: under policies 1 and 2 no    *)
(* day has more sends than its budget, nor two of one contract.            *)
THEOREM DailyBudgetHolds ==
  ASSUME AdmissionAssumption
  PROVE  Spec => []DailyBudget
<1>1. Inv => DailyBudget
  <2> SUFFICES ASSUME Inv, policy # 3, NEW d \in 1..MaxDay
               PROVE  /\ Cardinality(SentOn(d)) <= Cap
                      /\ \A p, q \in SentOn(d) : contract[p] = contract[q] => p = q
    BY DEF DailyBudget
  <2>1. SentOn(d) \subseteq ChargedOn(d)
    BY DEF AdmissionAssumption, Inv, ChargeInv, SentOn, ChargedOn
  <2>2. IsFiniteSet(ChargedOn(d)) /\ Cardinality(ChargedOn(d)) <= Cap
    BY DEF Inv, BudgetInv
  <2>3. /\ Cardinality(SentOn(d)) <= Cardinality(ChargedOn(d))
        /\ Cardinality(SentOn(d)) \in Nat /\ Cardinality(ChargedOn(d)) \in Nat
    BY <2>1, <2>2, FS_Subset, FS_CardinalityType
  <2>4. Cardinality(SentOn(d)) <= Cap
    BY <2>2, <2>3 DEF Cap
  <2>. QED  BY <2>1, <2>4 DEF Inv, BudgetInv
<1>. QED  BY <1>1, Invariance, PTL

(* expireAiProposals, finalize and rejectPendingProposal ask that nothing  *)
(* was charged: a sent entry keeps its approval and, while it works, its   *)
(* row.                                                                    *)
THEOREM SentStaysApprovedHolds ==
  ASSUME AdmissionAssumption
  PROVE  Spec => []SentStaysApproved
<1>1. Inv => SentStaysApproved
  BY DEF Inv
<1>. QED  BY <1>1, Invariance, PTL

(* withEntryDispatchPermit: whatever happened between claim and send, no   *)
(* entry is sent while entries are paused or beside another at risk that   *)
(* policy 3 does not allow; under policy 1, whose send does not ask again, *)
(* because ClaimInv still holds.                                           *)
THEOREM AdmissionAtSend ==
  ASSUME AdmissionAssumption
  PROVE  Spec => AdmittedWhenSent
<1>1. Inv /\ [Next]_vars =>
        [\A p \in Proposals : sentOn'[p] # sentOn[p] =>
            /\ ~paused
            /\ \A q \in Proposals \ {p} :
                 AtRisk(q) => policy = 3 /\ contract[p] # contract[q] /\ entry[q].guarded]_vars
  <2> SUFFICES ASSUME Inv, Next, NEW p \in Proposals, sentOn'[p] # sentOn[p]
               PROVE  /\ ~paused
                      /\ \A q \in Proposals \ {p} :
                           AtRisk(q) => policy = 3 /\ contract[p] # contract[q]
                                                   /\ entry[q].guarded
    OBVIOUS
  <2>1. \E r \in Proposals : Dispatch(r)
    BY DEF Next, AgentClaim, Finalize, Deliver, Propose, RejectPending, Claim, Refuse, Fill,
      End, RowCloses, GiveUp, Observe, ObservationAges, Becomes, ReviewAges, SetPaused, Midnight
  <2>2. Dispatch(p)
    BY <2>1 DEF Inv, TypeOK, Dispatch
  <2>3. \A q \in Proposals \ {p} : AtRisk(q) => entry[q].attempt # 0 /\ entry[q].life # "done"
    BY DEF Inv, ChargeInv, AtRisk
  <2>4. CASE policy = 1
    BY <2>2, <2>3, <2>4 DEF Inv, ClaimInv, Dispatch
  <2>5. CASE policy # 1
    BY <2>2, <2>3, <2>5 DEF Dispatch, Alone, Unresolved, Beside
  <2>. QED  BY <2>4, <2>5
<1>. QED  BY <1>1, Invariance, PTL DEF Spec, AdmittedWhenSent

==============================================================================
