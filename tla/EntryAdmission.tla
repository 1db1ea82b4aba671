--------------------------- MODULE EntryAdmission ---------------------------
(***************************************************************************)
(* Who may open a position, and when: a proposal is inserted, reviewed by  *)
(* an agent, delivered to the engine, claimed (which charges an attempt to *)
(* the account's day) and sent.  Each is a transaction that asks again for *)
(* what the one before was granted: the pause, the review, the budget of   *)
(* the paper policy, and the account's other entries.  Between them the    *)
(* agent, the operator, the market, midnight and the process go on.        *)
(*                                                                         *)
(* The transactions hold the account's advisory lock and each is one       *)
(* action; the send is part of the last.  Policy 1 allows one attempt a    *)
(* day, policy 2 two, one after the other, policy 3 any number, one per    *)
(* contract, beside positions that were seen protected a moment ago.       *)
(* The orders are those of the bound review: with a strategy attribution   *)
(* and under a paper policy, for which the permit asks for the approval.   *)
(* Windows, research, risk and the engine's session (a review is good for  *)
(* one process) can only refuse and are left out, and so is the change of  *)
(* a policy, which needs a flat, paused account.                           *)
(***************************************************************************)
EXTENDS Naturals, FiniteSets

CONSTANTS
    \* @type: Set(PROPOSAL);
    Proposals,
    \* @type: Set(CONTRACT);
    Contracts,
    \* @type: Set(AGENT);
    Agents,         \* review agents
    \* @type: Int;
    MaxDay          \* bound: account days

AdmissionAssumption == MaxDay \in Nat \ {0}

VARIABLES
    policy,     \* version of the paper policy
    contract,   \* contract[p]: what p trades
    entry,      \* entry[p]: proposed_orders, its attempt, and what became of it
    review,     \* review[p]: proposal_ai_reviews
    agent,      \* agent[w]: the review in progress
    call,       \* call[p]: the engine's request for p
    paused,     \* execution_entry_controls
    day,        \* account day
    sentOn      \* sentOn[p]: day of the send (history)

vars == <<policy, contract, entry, review, agent, call, paused, day, sentOn>>

NoAgent == "nobody"
NoEntry == [row |-> "none", attempt |-> 0, life |-> "none", guarded |-> FALSE]
NoReview == [status |-> "none", token |-> NoAgent, lease |-> FALSE, late |-> FALSE]
Idle == [at |-> "idle", proposal |-> {}]

Entries == [row : {"none", "PROPOSED", "closed"}, attempt : 0..MaxDay,
            life : {"none", "working", "open", "done"}, guarded : BOOLEAN]
Reviews == [status : {"none", "PENDING", "APPROVED", "REJECTED", "EXPIRED"},
            token : Agents \cup {NoAgent}, lease : BOOLEAN, late : BOOLEAN]

----------------------------------------------------------------------------
(* What the transactions ask *)

Cap == IF policy = 1 THEN 1 ELSE 2

\* Policy 3: an entry of another contract whose position was seen protected within seconds.
Beside(q, p) == policy = 3 /\ contract[q] # contract[p] /\ entry[q].guarded

\* findAccountReservation, on the rows as the transaction has left them.
Reserved(rows, p) ==
    \E q \in Proposals \ {p} : rows[q].row = "PROPOSED" /\ ~Beside(q, p)

(* Mutation of Unresolved: a row that is closed is resolved.               *)
UnresolvedRows(p) ==
    \E q \in Proposals \ {p} : entry[q].attempt # 0 /\ entry[q].row = "PROPOSED" /\ ~Beside(q, p)

\* unresolvedPaperOwnership and the active attempts of the budget: no terminal proof yet.
Unresolved(p) ==
    \E q \in Proposals \ {p} : entry[q].attempt # 0 /\ entry[q].life # "done" /\ ~Beside(q, p)

Charged == {q \in Proposals : entry[q].attempt = day}

Consumed(p) ==
    /\ policy # 3
    /\ Cardinality(Charged) >= Cap \/ \E q \in Charged : contract[q] = contract[p]

(* Mutation of OwnAttempt: an attempt of any day will do.                  *)
OwnAttemptOfAnyDay(p) == entry[p].attempt # 0

OwnAttempt(p) ==
    /\ entry[p].attempt = day
    /\ policy # 3 => /\ Cardinality(Charged) <= Cap
                     /\ \A q \in Charged \ {p} : contract[q] # contract[p]

Approved(p) == review[p].status = "APPROVED" /\ ~review[p].late

----------------------------------------------------------------------------
(* Proposals and reviews *)

\* The claim of an agent ends with the review; what it leaves is not read again.
Decided(status) == [NoReview EXCEPT !.status = status]

(* Mutation of Untouched: the row's status is enough.                      *)
UntouchedByStatus(p) == entry[p].row = "PROPOSED"

Untouched(p) == entry[p].row = "PROPOSED" /\ entry[p].attempt = 0

Expirable(p) == Untouched(p) /\ review[p].status \in {"PENDING", "APPROVED"} /\ review[p].late

Close(rows, p) == [rows EXCEPT ![p].row = "closed"]

\* expireAiProposals, the first thing a proposal or an agent's claim does.
EntriesLeft == [p \in Proposals |-> IF Expirable(p) THEN [entry[p] EXCEPT !.row = "closed"] ELSE entry[p]]
ReviewsLeft == [p \in Proposals |-> IF Expirable(p) THEN Decided("EXPIRED") ELSE review[p]]

Propose(p) ==
    /\ entry[p].row = "none" /\ ~paused
    /\ ~Reserved(EntriesLeft, p) /\ ~Unresolved(p) /\ ~Consumed(p)
    /\ entry' = [EntriesLeft EXCEPT ![p].row = "PROPOSED"]
    /\ review' = [ReviewsLeft EXCEPT ![p] = [NoReview EXCEPT !.status = "PENDING"]]
    /\ UNCHANGED <<policy, contract, agent, call, paused, day, sentOn>>

\* rejectPendingProposal
RejectPending(p) ==
    /\ Untouched(p)
    /\ entry' = Close(entry, p)
    /\ review' = [review EXCEPT ![p] = IF @.status \in {"PENDING", "APPROVED"}
                                            THEN Decided("REJECTED") ELSE @]
    /\ UNCHANGED <<policy, contract, agent, call, paused, day, sentOn>>

Working(w, at) == agent[w].at = at
On(w) == CHOOSE p \in agent[w].proposal : TRUE

\* The expired proposals are closed whether or not there is one to claim.
AgentClaim(w) ==
    /\ Working(w, "idle")
    /\ entry' = EntriesLeft
    /\ LET open == {p \in Proposals : Untouched(p) /\ review[p].status = "PENDING"
                                      /\ ~review[p].late /\ ~review[p].lease} IN
       \/ \E p \in open :
            /\ review' = [ReviewsLeft EXCEPT ![p].token = w, ![p].lease = TRUE]
            /\ agent' = [agent EXCEPT ![w] = [at |-> "evaluate", proposal |-> {p}]]
       \/ open = {} /\ review' = ReviewsLeft /\ UNCHANGED agent
    /\ UNCHANGED <<policy, contract, call, paused, day, sentOn>>

Mine(w) ==
    LET r == review[On(w)] IN r.status = "PENDING" /\ r.token = w /\ r.lease /\ ~r.late

\* finalize: the delivery is marked as started with the decision, and never starts again.
Finalize(w) ==
    /\ Working(w, "evaluate")
    /\ \/ /\ Untouched(On(w)) /\ Mine(w)
          /\ \/ /\ review' = [review EXCEPT ![On(w)] = Decided("APPROVED")]
                /\ agent' = [agent EXCEPT ![w].at = "deliver"]
                /\ UNCHANGED entry
             \/ /\ review' = [review EXCEPT ![On(w)] = Decided("REJECTED")]
                /\ entry' = Close(entry, On(w))
                /\ agent' = [agent EXCEPT ![w] = Idle]
       \/ agent' = [agent EXCEPT ![w] = Idle] /\ UNCHANGED <<entry, review>>   \* or a crash
    /\ UNCHANGED <<policy, contract, call, paused, day, sentOn>>

\* executeBoundProposed: the request arrives, or it or the agent is lost; it is not repeated.
Deliver(w) ==
    /\ Working(w, "deliver")
    /\ \/ call[On(w)] = "none" /\ call' = [call EXCEPT ![On(w)] = "begun"]
       \/ UNCHANGED call
    /\ agent' = [agent EXCEPT ![w] = Idle]
    /\ UNCHANGED <<policy, contract, entry, review, paused, day, sentOn>>

----------------------------------------------------------------------------
(* The engine's request *)

\* tryStartSubmissionWithPlan with reservePaperEntryAttempt.
Claim(p) ==
    /\ call[p] = "begun"
    /\ Untouched(p) /\ Approved(p) /\ ~paused
    /\ ~Reserved(entry, p) /\ ~Unresolved(p) /\ ~Consumed(p)
    /\ entry' = [entry EXCEPT ![p].attempt = day]
    /\ call' = [call EXCEPT ![p] = "claimed"]
    /\ UNCHANGED <<policy, contract, review, agent, paused, day, sentOn>>

(* Mutation of Alone: what the claim found is not asked again.             *)
AloneAtClaim(p) == TRUE

Alone(p) == policy # 1 => ~Unresolved(p)

\* withEntryDispatchPermit: checks and send under one lock.
Dispatch(p) ==
    /\ call[p] = "claimed"
    /\ ~paused /\ Approved(p) /\ OwnAttempt(p) /\ Alone(p)
    /\ entry' = [entry EXCEPT ![p].life = "working"]
    /\ sentOn' = [sentOn EXCEPT ![p] = day]
    /\ call' = [call EXCEPT ![p] = "none"]
    /\ UNCHANGED <<policy, contract, review, agent, paused, day>>

\* A check failed or threw, or the process died.
Refuse(p) ==
    /\ call[p] # "none"
    /\ call' = [call EXCEPT ![p] = "none"]
    /\ UNCHANGED <<policy, contract, entry, review, agent, paused, day, sentOn>>

----------------------------------------------------------------------------
(* The broker, the observer, the operator and time *)

Becomes(p, new) ==
    /\ entry' = [entry EXCEPT ![p] = new]
    /\ UNCHANGED <<policy, contract, review, agent, call, paused, day, sentOn>>

Fill(p) == entry[p].life = "working" /\ Becomes(p, [entry[p] EXCEPT !.life = "open"])

\* The position is closed or the entry cancelled, and the proof of it is recorded.
End(p) ==
    /\ entry[p].life \in {"working", "open"}
    /\ Becomes(p, [entry[p] EXCEPT !.life = "done", !.guarded = FALSE])

RowCloses(p) ==
    /\ entry[p].row = "PROPOSED" /\ entry[p].life \in {"open", "done"}
    /\ Becomes(p, [entry[p] EXCEPT !.row = "closed"])

\* An attempt that was never sent is reconciled and proven unfilled.
GiveUp(p) ==
    /\ entry[p].attempt # 0 /\ entry[p].life = "none" /\ call[p] = "none"
    /\ Becomes(p, [entry[p] EXCEPT !.row = "closed", !.life = "done"])

\* Only policy 3 asks for an observation.
Observe(p) ==
    /\ policy = 3
    /\ entry[p].life = "open" /\ ~entry[p].guarded
    /\ Becomes(p, [entry[p] EXCEPT !.guarded = TRUE])

ObservationAges(p) == entry[p].guarded /\ Becomes(p, [entry[p] EXCEPT !.guarded = FALSE])

\* Nothing looks at the age of a review once its entry is sent.
ReviewAges(p) ==
    /\ entry[p].row = "PROPOSED" /\ entry[p].life = "none"
    /\ review[p].status \in {"PENDING", "APPROVED"}
    /\ \/ review[p].lease /\ review' = [review EXCEPT ![p].lease = FALSE]
       \/ ~review[p].late /\ review' = [review EXCEPT ![p].late = TRUE]
    /\ UNCHANGED <<policy, contract, entry, agent, call, paused, day, sentOn>>

\* setPaused; the gate of a resume may refuse it.
SetPaused ==
    /\ paused' = ~paused
    /\ UNCHANGED <<policy, contract, entry, review, agent, call, day, sentOn>>

Midnight ==
    /\ day < MaxDay
    /\ day' = day + 1
    /\ UNCHANGED <<policy, contract, entry, review, agent, call, paused, sentOn>>

Init ==
    /\ policy \in 1..3
    /\ contract \in [Proposals -> Contracts]
    /\ entry = [p \in Proposals |-> NoEntry]
    /\ review = [p \in Proposals |-> NoReview]
    /\ agent = [w \in Agents |-> Idle]
    /\ call = [p \in Proposals |-> "none"]
    /\ paused = TRUE
    /\ day = 1
    /\ sentOn = [p \in Proposals |-> 0]

Next ==
    \/ \E w \in Agents : AgentClaim(w) \/ Finalize(w) \/ Deliver(w)
    \/ \E p \in Proposals :
         \/ Propose(p) \/ RejectPending(p) \/ Claim(p) \/ Dispatch(p) \/ Refuse(p)
         \/ Fill(p) \/ End(p) \/ RowCloses(p) \/ GiveUp(p)
         \/ Observe(p) \/ ObservationAges(p) \/ ReviewAges(p)
    \/ SetPaused \/ Midnight

Spec == Init /\ [][Next]_vars

----------------------------------------------------------------------------
(* Properties *)

TypeOK ==
    /\ policy \in 1..3 /\ contract \in [Proposals -> Contracts]
    /\ entry \in [Proposals -> Entries] /\ review \in [Proposals -> Reviews]
    /\ agent \in [Agents -> [at : {"idle", "evaluate", "deliver"}, proposal : SUBSET Proposals]]
    /\ call \in [Proposals -> {"none", "begun", "claimed"}]
    /\ paused \in BOOLEAN /\ day \in 1..MaxDay
    /\ sentOn \in [Proposals -> 0..MaxDay]

SentOn(d) == {p \in Proposals : sentOn[p] = d}

\* The day's budget counts sends, not claims: an attempt charged before midnight does not
\* come on top of the next day's, whichever way the days, claims and sends interleave.
DailyBudget ==
    policy # 3 => \A d \in 1..MaxDay :
        /\ Cardinality(SentOn(d)) <= Cap
        /\ \A p, q \in SentOn(d) : contract[p] = contract[q] => p = q

AtRisk(q) == entry[q].life \in {"working", "open"}

\* What the claim found still holds when the entry is sent: entries are not paused, and
\* none is sent beside another at risk, except, under policy 3, beside positions of other
\* contracts that were seen protected a moment ago.
AdmittedWhenSent ==
    [][\A p \in Proposals : sentOn'[p] # sentOn[p] =>
          /\ ~paused
          /\ \A q \in Proposals \ {p} :
               AtRisk(q) => policy = 3 /\ contract[p] # contract[q] /\ entry[q].guarded]_vars

\* An entry that was sent keeps its approval and, while it works, its row: no expiry, late
\* agent or operator's rejection closes the row that reserves the account.
SentStaysApproved ==
    \A p \in Proposals : sentOn[p] # 0 =>
        /\ review[p].status = "APPROVED"
        /\ entry[p].life = "working" => entry[p].row = "PROPOSED"

=============================================================================
