-------------------------- MODULE MCServices_proof --------------------------
(***************************************************************************)
(* Proofs about the services put together, for every value of their        *)
(* constants.  A behaviour of the services, seen through the variables of  *)
(* one part, is a behaviour of its module: every step of another part      *)
(* leaves these variables alone (the lemmas named ...Implemented).         *)
(*                                                                         *)
(* What is proved of the admission of entries and of the trading loop is   *)
(* taken from the proof modules of the two, instantiated beside the        *)
(* instances the specification uses; the definitions of both are the same  *)
(* when they are expanded.  The other four services are proved here, each  *)
(* about its instance: its inductive invariant, a lemma for every action,  *)
(* and the properties of the services that follow.                         *)
(***************************************************************************)
EXTENDS MCServices, Sequences, FiniteSetTheorems, TLAPS

AdmissionProof == INSTANCE EntryAdmission_proof
LoopProof == INSTANCE TradingLoop_proof

-----------------------------------------------------------------------------
(* The admission of entries (entry-control.ts, paper-entry-budget.ts,      *)
(* ai-proposal-review.ts)                                                  *)

(* By itself and as a part of the services the admission of entries has    *)
(* the same steps: both expand to the same formulas.                       *)
LEMMA AdmissionSteps ==
  /\ Admission!Init => AdmissionProof!Init
  /\ Admission!Next => AdmissionProof!Next
BY DEF Admission!NoAgent, Admission!NoEntry, Admission!NoReview, Admission!Idle,
       Admission!Cap, Admission!Beside, Admission!Reserved, Admission!Unresolved,
       Admission!Charged, Admission!Consumed, Admission!OwnAttempt, Admission!Approved,
       Admission!Decided, Admission!Untouched, Admission!Expirable, Admission!Close,
       Admission!EntriesLeft, Admission!ReviewsLeft, Admission!Propose,
       Admission!RejectPending, Admission!Working, Admission!On, Admission!AgentClaim,
       Admission!Mine, Admission!Finalize, Admission!Deliver, Admission!Claim,
       Admission!Alone, Admission!Dispatch, Admission!Refuse, Admission!Becomes,
       Admission!Fill, Admission!End, Admission!RowCloses, Admission!GiveUp,
       Admission!Observe, Admission!ObservationAges, Admission!ReviewAges,
       Admission!SetPaused, Admission!Midnight, Admission!Init, Admission!Next,
       Admission!Cardinality, AdmissionProof!NoAgent, AdmissionProof!NoEntry,
       AdmissionProof!NoReview, AdmissionProof!Idle, AdmissionProof!Cap,
       AdmissionProof!Beside, AdmissionProof!Reserved, AdmissionProof!Unresolved,
       AdmissionProof!Charged, AdmissionProof!Consumed, AdmissionProof!OwnAttempt,
       AdmissionProof!Approved, AdmissionProof!Decided, AdmissionProof!Untouched,
       AdmissionProof!Expirable, AdmissionProof!Close, AdmissionProof!EntriesLeft,
       AdmissionProof!ReviewsLeft, AdmissionProof!Propose, AdmissionProof!RejectPending,
       AdmissionProof!Working, AdmissionProof!On, AdmissionProof!AgentClaim,
       AdmissionProof!Mine, AdmissionProof!Finalize, AdmissionProof!Deliver,
       AdmissionProof!Claim, AdmissionProof!Alone, AdmissionProof!Dispatch,
       AdmissionProof!Refuse, AdmissionProof!Becomes, AdmissionProof!Fill,
       AdmissionProof!End, AdmissionProof!RowCloses, AdmissionProof!GiveUp,
       AdmissionProof!Observe, AdmissionProof!ObservationAges, AdmissionProof!ReviewAges,
       AdmissionProof!SetPaused, AdmissionProof!Midnight, AdmissionProof!Init,
       AdmissionProof!Next, AdmissionProof!Cardinality

(* The other parts leave its variables alone.                              *)
LEMMA AdmissionImplemented ==
  Spec => AdmissionProof!Spec
<1>1. Init => AdmissionProof!Init
  BY AdmissionSteps DEF Init
<1>2. [Next]_vars => [AdmissionProof!Next]_AdmissionProof!vars
  BY AdmissionSteps DEF Next, vars, entryVars, AdmissionProof!vars
<1>. QED  BY <1>1, <1>2, PTL DEF Spec, AdmissionProof!Spec

LEMMA AdmissionAssumed == AdmissionProof!AdmissionAssumption
BY ServicesAssumption DEF Admission!AdmissionAssumption, AdmissionProof!AdmissionAssumption

(***************************************************************************)
(* The sends of an account's day stay within the budget of the policy      *)
(* (paper-entry-budget.ts), whichever proposals, agents and days there are. *)
(***************************************************************************)
THEOREM DailyBudgetHolds == Spec => []DailyBudget
<1>1. AdmissionProof!Spec => []AdmissionProof!DailyBudget
  BY AdmissionAssumed, AdmissionProof!DailyBudgetHolds
<1>2. AdmissionProof!DailyBudget => DailyBudget
  BY DEF DailyBudget, Admission!DailyBudget, AdmissionProof!DailyBudget, Admission!Cap,
         AdmissionProof!Cap, Admission!SentOn, AdmissionProof!SentOn,
         Admission!Cardinality, AdmissionProof!Cardinality
<1>. QED  BY <1>1, <1>2, AdmissionImplemented, PTL

(***************************************************************************)
(* No expiry, late agent or rejection takes the approval or the row of an  *)
(* entry that was sent (ai-proposal-review.ts).                            *)
(***************************************************************************)
THEOREM SentStaysApprovedHolds == Spec => []SentStaysApproved
<1>1. AdmissionProof!Spec => []AdmissionProof!SentStaysApproved
  BY AdmissionAssumed, AdmissionProof!SentStaysApprovedHolds
<1>2. AdmissionProof!SentStaysApproved => SentStaysApproved
  BY DEF SentStaysApproved, Admission!SentStaysApproved, AdmissionProof!SentStaysApproved
<1>. QED  BY <1>1, <1>2, AdmissionImplemented, PTL

(***************************************************************************)
(* What the claim of an entry found still holds when it is sent: entries are *)
(* not paused and no other entry is at risk beside it (entry-control.ts).  *)
(***************************************************************************)
THEOREM AdmittedWhenSentHolds == Spec => AdmittedWhenSent
<1>1. AdmissionProof!Spec => AdmissionProof!AdmittedWhenSent
  BY AdmissionAssumed, AdmissionProof!AdmissionAtSend
<1>2. AdmissionProof!AdmittedWhenSent => AdmittedWhenSent
  BY DEF AdmittedWhenSent, Admission!AdmittedWhenSent, AdmissionProof!AdmittedWhenSent,
         Admission!AtRisk, AdmissionProof!AtRisk, Admission!vars, AdmissionProof!vars
<1>. QED  BY <1>1, <1>2, AdmissionImplemented, PTL

-----------------------------------------------------------------------------
(* The trading loop (trading-loop-service.ts, execution-runtime.ts)        *)

(* The trading loop by itself and as a part of                             *)
(* the services has the same steps: both expand to the same formulas.      *)
LEMMA LoopSteps ==
  /\ Loop!Init => LoopProof!Init
  /\ Loop!Next => LoopProof!Next
BY DEF Loop!Instrument, Loop!Bucket, Loop!NoRun, Loop!InFlight, Loop!Rank, Loop!Room,
       Loop!Started, Loop!First, Loop!Begin, Loop!ConfiguredCycle, Loop!LegacyCycle,
       Loop!Synced, Loop!Exposed, Loop!Goto, Loop!Check, Loop!Evaluate, Loop!Key,
       Loop!Submit, Loop!Finish, Loop!Receive, Loop!OrderEnds, Loop!NextBucket, Loop!Stop,
       Loop!Restart, Loop!Init, Loop!Next, Loop!Cardinality, LoopProof!Instrument,
       LoopProof!Bucket, LoopProof!NoRun, LoopProof!InFlight, LoopProof!Rank,
       LoopProof!Room, LoopProof!Started, LoopProof!First, LoopProof!Begin,
       LoopProof!ConfiguredCycle, LoopProof!LegacyCycle, LoopProof!Synced,
       LoopProof!Exposed, LoopProof!Goto, LoopProof!Check, LoopProof!Evaluate,
       LoopProof!Key, LoopProof!Submit, LoopProof!Finish, LoopProof!Receive,
       LoopProof!OrderEnds, LoopProof!NextBucket, LoopProof!Stop, LoopProof!Restart,
       LoopProof!Init, LoopProof!Next, LoopProof!Cardinality

(* The other parts leave its variables alone.                              *)
LEMMA LoopImplemented ==
  Spec => LoopProof!Spec
<1>1. Init => LoopProof!Init
  BY LoopSteps DEF Init
<1>2. [Next]_vars => [LoopProof!Next]_LoopProof!vars
  BY LoopSteps DEF Next, vars, loopVars, LoopProof!vars
<1>. QED  BY <1>1, <1>2, PTL DEF Spec, LoopProof!Spec

LEMMA LoopAssumed == LoopProof!LoopAssumption
BY ServicesAssumption DEF Loop!LoopAssumption, LoopProof!LoopAssumption

(***************************************************************************)
(* A trigger places one order, whatever is retried, overlaps or restarts   *)
(* (execution-runtime.ts).                                                 *)
(***************************************************************************)
THEOREM OneOrderPerTriggerHolds == Spec => []OneOrderPerTrigger
<1>1. LoopProof!Spec => []LoopProof!OneOrderPerTrigger
  BY LoopAssumed, LoopProof!OneOrderPerTriggerHolds
<1>2. LoopProof!OneOrderPerTrigger => OneOrderPerTrigger
  BY DEF OneOrderPerTrigger, Loop!OneOrderPerTrigger, LoopProof!OneOrderPerTrigger,
         Loop!Instrument, LoopProof!Instrument, Loop!Bucket, LoopProof!Bucket
<1>. QED  BY <1>1, <1>2, LoopImplemented, PTL

(***************************************************************************)
(* The cap on concurrent instruments starves none of them                  *)
(* (trading-loop-service.ts).                                              *)
(***************************************************************************)
THEOREM RotationReachesAllHolds == Spec => []RotationReachesAll
<1>1. LoopProof!Spec => []LoopProof!RotationReachesAll
  BY LoopAssumed, LoopProof!RotationReachesAllHolds
<1>2. LoopProof!RotationReachesAll => RotationReachesAll
  BY DEF RotationReachesAll, Loop!RotationReachesAll, LoopProof!RotationReachesAll,
         Loop!Instrument, LoopProof!Instrument
<1>. QED  BY <1>1, <1>2, LoopImplemented, PTL

(***************************************************************************)
(* stop() refuses the work of a cycle that was waiting when it was called  *)
(* (trading-loop-service.ts).                                              *)
(***************************************************************************)
THEOREM StoppedStartsNothingHolds == Spec => StoppedStartsNothing
<1>1. LoopProof!Spec => LoopProof!StoppedStartsNothing
  BY LoopAssumed, LoopProof!StoppedStartsNothingHolds
<1>2. LoopProof!StoppedStartsNothing => StoppedStartsNothing
  BY DEF StoppedStartsNothing, Loop!StoppedStartsNothing, LoopProof!StoppedStartsNothing,
         Loop!InFlight, LoopProof!InFlight, Loop!Instrument, LoopProof!Instrument,
         Loop!vars, LoopProof!vars
<1>. QED  BY <1>1, <1>2, LoopImplemented, PTL

-----------------------------------------------------------------------------
(* The research attempts (instrument-research/store.ts)                     *)
LEMMA ResearchConstants == MaxClaims \in Nat \ {0} /\ MaxReboots \in Nat
BY ServicesAssumption DEF Research!ResearchAssumption

(* Attempts are claimed in their order.                                    *)
AttemptOrderInv ==
    \A a, b \in Research!Attempt : a < b /\ att[a].state = "none" => att[b].state = "none"

(* Only the latest attempt is unresolved.                                  *)
LatestInv ==
    \A a \in Research!Unresolved, b \in Research!Attempt : a < b => att[b].state = "none"

(* A recovery ends an attempt for good.                                    *)
RecoveredInv == \A a \in Research!Attempt : att[a].recovered => att[a].state = "UNKNOWN"

AttemptBusy(t) == t.at \notin {"idle", "claim"}

(* The attempt of a process was claimed, and is unresolved until its       *)
(* margin is over; it is not over while the process waits for its answer.  *)
RefreshInv ==
    \A w \in Workers : AttemptBusy(tick[w]) =>
        /\ tick[w].attempt \in Research!Attempt
        /\ att[tick[w].attempt].state # "none"
        /\ att[tick[w].attempt].clock # "settled" => tick[w].attempt \in Research!Unresolved
        /\ tick[w].at = "wait" => att[tick[w].attempt].clock # "settled"

(* No two processes work for one attempt.                                  *)
DistinctInv ==
    \A v, w \in Workers :
        v # w /\ AttemptBusy(tick[v]) /\ AttemptBusy(tick[w]) => tick[v].attempt # tick[w].attempt

(* What a challenge names stays unresolved: nothing else can be decided    *)
(* about it any more.                                                      *)
HeldInv ==
    \A a \in Research!Held : /\ a \in Research!Unresolved
                             /\ att[a].state = "UNKNOWN" \/ att[a].clock # "ahead"

(* The news are those of an attempt.                                       *)
HeadInv == head.by # 0 => head.by \in Research!Attempt /\ att[head.by].state # "none"

ResearchInv ==
    /\ Research!TypeOK
    /\ AttemptOrderInv
    /\ LatestInv
    /\ RecoveredInv
    /\ RefreshInv
    /\ DistinctInv
    /\ HeldInv
    /\ HeadInv

(* An attempt that is not new keeps its place in the order of claims.      *)
LEMMA AttemptsStand ==
  ASSUME ResearchInv, att' \in [Research!Attempt -> Research!Rows],
         Research!Unresolved' \subseteq Research!Unresolved,
         \A a \in Research!Attempt : /\ att'[a].state = "none" <=> att[a].state = "none"
                                     /\ att'[a].recovered => att'[a].state = "UNKNOWN",
         head' = head \/ (head'.by \in Research!Attempt /\ att'[head'.by].state # "none")
  PROVE  AttemptOrderInv' /\ LatestInv' /\ RecoveredInv' /\ HeadInv'
<1>1. AttemptOrderInv'
  BY DEF ResearchInv, AttemptOrderInv
<1>2. LatestInv'
  BY DEF ResearchInv, LatestInv
<1>3. RecoveredInv'
  BY DEF RecoveredInv
<1>4. HeadInv'
  BY DEF ResearchInv, HeadInv
<1>. QED  BY <1>1, <1>2, <1>3, <1>4

(* A step of one process, at its attempt or ending it.                     *)
AttemptMoves(w) ==
    /\ tick' \in [Workers -> Research!Ticks]
    /\ \A v \in Workers \ {w} : tick'[v] = tick[v]
    /\ AttemptBusy(tick'[w]) => AttemptBusy(tick[w]) /\ tick'[w].attempt = tick[w].attempt

LEMMA AttemptMoving ==
  ASSUME Research!TypeOK, NEW w \in Workers, AttemptBusy(tick[w])
  PROVE  /\ \A at \in {"work", "send", "wait", "record", "failing", "publish", "settle"} :
              Research!Goto(w, at) => AttemptMoves(w) /\ tick'[w].at = at
         /\ \A at \in {"record", "failing"}, o \in {"SUCCEEDED", "FAILED", "UNKNOWN"} :
              tick' = [tick EXCEPT ![w].at = at, ![w].outcome = o]
                => AttemptMoves(w) /\ tick'[w].at = at
         /\ Research!Ends(w) => AttemptMoves(w) /\ tick'[w].at = "idle"
<1>1. tick[w] \in Research!Ticks
  BY DEF Research!TypeOK
<1>2. ASSUME NEW t \in Research!Ticks, tick' = [tick EXCEPT ![w] = t],
             AttemptBusy(t) => t.attempt = tick[w].attempt
      PROVE  AttemptMoves(w) /\ tick'[w] = t
  BY <1>2 DEF Research!TypeOK, AttemptMoves
<1>3. ASSUME NEW at \in {"work", "send", "wait", "record", "failing", "publish", "settle"},
             Research!Goto(w, at)
      PROVE  AttemptMoves(w) /\ tick'[w].at = at
  <2>. DEFINE t == [tick[w] EXCEPT !.at = at]
  <2>1. t \in Research!Ticks /\ t.at = at /\ t.attempt = tick[w].attempt
    BY <1>1 DEF Research!Ticks
  <2>2. tick' = [tick EXCEPT ![w] = t]
    BY <1>3 DEF Research!Goto
  <2>. HIDE DEF t
  <2>. QED  BY <2>1, <2>2, <1>2
<1>4. ASSUME NEW at \in {"record", "failing"}, NEW o \in {"SUCCEEDED", "FAILED", "UNKNOWN"},
             tick' = [tick EXCEPT ![w].at = at, ![w].outcome = o]
      PROVE  AttemptMoves(w) /\ tick'[w].at = at
  <2>. DEFINE t == [tick[w] EXCEPT !.at = at, !.outcome = o]
  <2>1. t \in Research!Ticks /\ t.at = at /\ t.attempt = tick[w].attempt
    BY <1>1 DEF Research!Ticks
  <2>2. tick' = [tick EXCEPT ![w] = t]
    BY <1>1, <1>4 DEF Research!TypeOK, Research!Ticks
  <2>. HIDE DEF t
  <2>. QED  BY <2>1, <2>2, <1>2
<1>5. Research!Ends(w) => AttemptMoves(w) /\ tick'[w].at = "idle"
  <2>1. /\ Research!NoTick \in Research!Ticks
        /\ Research!NoTick.at = "idle" /\ ~AttemptBusy(Research!NoTick)
    BY ResearchConstants DEF Research!NoTick, Research!Ticks, AttemptBusy
  <2>. QED  BY <2>1, <1>2 DEF Research!Ends
<1>. QED  BY <1>3, <1>4, <1>5

(* A step of a process that leaves the ledger alone.                       *)
LEMMA LedgerStands ==
  ASSUME ResearchInv, NEW w \in Workers, AttemptMoves(w),
         tick'[w].at = "wait" => att[tick[w].attempt].clock # "settled",
         UNCHANGED <<att, held, head, domain>>
  PROVE  ResearchInv'
<1>1. Research!TypeOK'
  BY DEF ResearchInv, Research!TypeOK, AttemptMoves
<1>2. AttemptOrderInv' /\ LatestInv' /\ RecoveredInv' /\ HeldInv' /\ HeadInv'
  BY DEF ResearchInv, AttemptOrderInv, LatestInv, RecoveredInv, HeldInv, HeadInv, Research!Held,
         Research!Unresolved
<1>3. RefreshInv'
  BY DEF ResearchInv, RefreshInv, AttemptMoves, Research!Unresolved, AttemptBusy
<1>4. DistinctInv'
  BY DEF ResearchInv, DistinctInv, AttemptMoves
<1>. QED  BY <1>1, <1>2, <1>3, <1>4 DEF ResearchInv

(* A step of a process that changes the row of its attempt, which stays as *)
(* open as it was, or is decided by its last step while no challenge names it. *)
LEMMA OwnRowMoves ==
  ASSUME ResearchInv, NEW w \in Workers, AttemptBusy(tick[w]), NEW a, a = tick[w].attempt,
         NEW r \in Research!Rows, att' = [att EXCEPT ![a] = r],
         r.state # "none", r.clock = att[a].clock, r.recovered = att[a].recovered,
         r.recovered => r.state = "UNKNOWN",
         AttemptMoves(w), tick'[w].at # "wait",
         a \in Research!Unresolved' => a \in Research!Unresolved,
         AttemptBusy(tick'[w]) => (a \in Research!Unresolved' <=> a \in Research!Unresolved),
         a \in Research!Held => /\ a \in Research!Unresolved'
                                /\ r.state = "UNKNOWN" \/ r.clock # "ahead",
         UNCHANGED <<held, domain>>,
         \/ head' = head
         \/ head' \in [by : {a}, complete : BOOLEAN]
  PROVE  ResearchInv'
<1>1. a \in Research!Attempt /\ att[a].state # "none"
  BY DEF ResearchInv, RefreshInv
<1>2. att' \in [Research!Attempt -> Research!Rows] /\ tick' \in [Workers -> Research!Ticks]
  BY <1>1 DEF ResearchInv, Research!TypeOK, AttemptMoves
<1>3. \A b \in Research!Attempt : att'[b] = IF b = a THEN r ELSE att[b]
  BY <1>1 DEF ResearchInv, Research!TypeOK
<1>4. \A b \in Research!Attempt \ {a} : b \in Research!Unresolved' <=> b \in Research!Unresolved
  BY <1>3 DEF Research!Unresolved
<1>5. Research!TypeOK'
  BY <1>1, <1>2 DEF ResearchInv, Research!TypeOK, Research!Attempt
<1>6. DistinctInv'
  BY DEF AttemptMoves, ResearchInv, DistinctInv
<1>7. RefreshInv'
  <2>1. ASSUME NEW v \in Workers \ {w}, AttemptBusy(tick'[v])
        PROVE  /\ tick'[v].attempt \in Research!Attempt
               /\ att'[tick'[v].attempt].state # "none"
               /\ att'[tick'[v].attempt].clock # "settled"
                    => tick'[v].attempt \in Research!Unresolved'
               /\ tick'[v].at = "wait" => att'[tick'[v].attempt].clock # "settled"
    <3>1. tick'[v] = tick[v] /\ tick[v].attempt # a /\ tick[v].attempt \in Research!Attempt
      BY <2>1 DEF AttemptMoves, ResearchInv, RefreshInv, DistinctInv
    <3>. QED  BY <2>1, <3>1, <1>3, <1>4 DEF ResearchInv, RefreshInv
  <2>2. ASSUME AttemptBusy(tick'[w])
        PROVE  /\ tick'[w].attempt = a /\ att'[a].state # "none"
               /\ att'[a].clock # "settled" => a \in Research!Unresolved'
    BY <1>1, <1>3, <2>2 DEF AttemptMoves, ResearchInv, RefreshInv
  <2>. QED  BY <1>1, <2>1, <2>2 DEF RefreshInv
<1>8. HeldInv'
  <2>1. Research!Held' = Research!Held /\ Research!Held \subseteq Research!Attempt
    BY DEF ResearchInv, Research!TypeOK, Research!Held
  <2>. QED  BY <2>1, <1>3, <1>4 DEF ResearchInv, HeldInv
<1>9. AttemptOrderInv' /\ LatestInv' /\ RecoveredInv' /\ HeadInv'
  <2>1. \A b \in Research!Attempt : /\ att'[b].state = "none" <=> att[b].state = "none"
                                    /\ att'[b].recovered => att'[b].state = "UNKNOWN"
    BY <1>1, <1>3 DEF ResearchInv, RecoveredInv
  <2>2. Research!Unresolved' \subseteq Research!Unresolved
    BY <1>4 DEF Research!Unresolved
  <2>3. head' = head \/ (head'.by = a /\ att'[a].state # "none")
    BY <1>1, <1>3
  <2>. QED  BY <1>1, <1>2, <2>1, <2>2, <2>3, AttemptsStand
<1>. QED  BY <1>5, <1>6, <1>7, <1>8, <1>9 DEF ResearchInv

-----------------------------------------------------------------------------
(* The actions *)

(* A process that goes on or gives up without a transaction.               *)
LEMMA CallKeepsInv ==
  ASSUME ResearchInv, NEW w \in Workers, Research!Send(w) \/ Research!Answer(w)
  PROVE  ResearchInv'
<1>1. Research!TypeOK /\ AttemptBusy(tick[w])
  BY DEF ResearchInv, Research!Send, Research!Answer, Research!At, AttemptBusy
<1>2. /\ AttemptMoves(w)
      /\ tick'[w].at = "wait" => att[tick[w].attempt].clock # "settled"
  BY <1>1, AttemptMoving DEF Research!Send, Research!Answer, Research!Mine
<1>. QED  BY <1>2, LedgerStands DEF Research!Send, Research!Answer

(* The outcome of a call, and its reservation, leave the state of the      *)
(* attempt as it is.                                                       *)
LEMMA CallRecordedKeepsInv ==
  ASSUME ResearchInv, NEW w \in Workers, Research!Reserve(w) \/ Research!Record(w)
  PROVE  ResearchInv'
<1>. DEFINE a == tick[w].attempt
<1>1. /\ Research!TypeOK /\ AttemptBusy(tick[w])
      /\ a \in Research!Attempt /\ att[a] \in Research!Rows /\ att[a].state # "none"
  BY DEF ResearchInv, Research!TypeOK, RefreshInv, Research!Reserve, Research!Record, Research!At,
         AttemptBusy
<1>2. AttemptMoves(w) /\ tick'[w].at # "wait"
  BY <1>1, AttemptMoving DEF Research!Reserve, Research!Record, Research!Fails
<1>3. CASE UNCHANGED att
  BY <1>2, <1>3, LedgerStands DEF Research!Reserve, Research!Record
<1>4. ASSUME NEW c \in {"open", "succeeded", "failed", "unknown"}, Research!Set(w, "call", c)
      PROVE  ResearchInv'
  <2>. DEFINE r == [att[a] EXCEPT !.call = c]
  <2>1. /\ r \in Research!Rows /\ r.state = att[a].state /\ r.clock = att[a].clock
        /\ r.recovered = att[a].recovered
    BY <1>1 DEF Research!Rows
  <2>2. att' = [att EXCEPT ![a] = r]
    BY <1>4 DEF Research!Set
  <2>. HIDE DEF r
  <2>3. a \in Research!Unresolved' <=> a \in Research!Unresolved
    BY <1>1, <2>1, <2>2 DEF Research!TypeOK, Research!Unresolved
  <2>4. r.recovered => r.state = "UNKNOWN"
    BY <1>1, <2>1 DEF ResearchInv, RecoveredInv
  <2>5. a \in Research!Held => /\ a \in Research!Unresolved
                               /\ r.state = "UNKNOWN" \/ r.clock # "ahead"
    BY <2>1 DEF ResearchInv, HeldInv
  <2>. QED
    BY <1>1, <1>2, <2>1, <2>2, <2>3, <2>4, <2>5, OwnRowMoves DEF Research!Reserve, Research!Record
<1>. QED  BY <1>3, <1>4 DEF Research!Reserve, Research!Record, Research!CallOf

(* A fence leaves the attempt open and finds no challenge.                 *)
LEMMA FenceKeepsInv ==
  ASSUME ResearchInv, NEW w \in Workers, Research!FenceSuccess(w) \/ Research!FenceFailure(w)
  PROVE  ResearchInv'
<1>. DEFINE a == tick[w].attempt
<1>1. /\ Research!TypeOK /\ AttemptBusy(tick[w])
      /\ a \in Research!Attempt /\ att[a] \in Research!Rows /\ att[a].state # "none"
  BY DEF ResearchInv, Research!TypeOK, RefreshInv, Research!FenceSuccess, Research!FenceFailure,
         Research!At, AttemptBusy
<1>2. AttemptMoves(w) /\ tick'[w].at # "wait"
  BY <1>1, AttemptMoving DEF Research!FenceSuccess, Research!FenceFailure
<1>3. CASE UNCHANGED att
  BY <1>2, <1>3, LedgerStands DEF Research!FenceSuccess, Research!FenceFailure
<1>4. CASE Research!MayFence(w) /\ Research!Set(w, "state", "FINALIZING")
  <2>. DEFINE r == [att[a] EXCEPT !.state = "FINALIZING"]
  <2>1. /\ r \in Research!Rows /\ r.state = "FINALIZING" /\ r.clock = att[a].clock
        /\ r.recovered = att[a].recovered
    BY <1>1 DEF Research!Rows
  <2>2. att' = [att EXCEPT ![a] = r]
    BY <1>4 DEF Research!Set
  <2>. HIDE DEF r
  <2>3. att[a].state = "STARTED" /\ ~att[a].recovered /\ Research!Held = {}
    BY <1>1, <1>4 DEF Research!MayFence, Research!Mine, ResearchInv, RecoveredInv, Research!Held
  <2>4. a \in Research!Unresolved' <=> a \in Research!Unresolved
    BY <1>1, <2>1, <2>2, <2>3 DEF Research!TypeOK, Research!Unresolved
  <2>. QED
    BY <1>1, <1>2, <2>1, <2>2, <2>3, <2>4, OwnRowMoves
    DEF Research!FenceSuccess, Research!FenceFailure
<1>. QED  BY <1>3, <1>4 DEF Research!FenceSuccess, Research!FenceFailure

(* A process decides its attempt before its deadline, so no challenge      *)
(* names it, or leaves it unknown.                                         *)
LEMMA EndKeepsInv ==
  ASSUME ResearchInv, NEW w \in Workers, Research!Publish(w) \/ Research!Settle(w)
  PROVE  ResearchInv'
<1>. DEFINE a == tick[w].attempt
<1>1. /\ Research!TypeOK /\ AttemptBusy(tick[w])
      /\ a \in Research!Attempt /\ att[a] \in Research!Rows /\ att[a].state # "none"
  BY DEF ResearchInv, Research!TypeOK, RefreshInv, Research!Publish, Research!Settle, Research!At,
         AttemptBusy
<1>2. AttemptMoves(w) /\ tick'[w].at = "idle"
  BY <1>1, AttemptMoving DEF Research!Publish, Research!Settle
<1>3. CASE UNCHANGED <<att, head>>
  BY <1>2, <1>3, LedgerStands DEF Research!Publish, Research!Settle
<1>4. ASSUME NEW s \in {"SUCCEEDED", "FAILED", "UNKNOWN"}, Research!Set(w, "state", s),
             att[a].state = "FINALIZING", s # "UNKNOWN" => att[a].clock = "ahead",
             head' = head \/ head' \in [by : {a}, complete : BOOLEAN]
      PROVE  ResearchInv'
  <2>. DEFINE r == [att[a] EXCEPT !.state = s]
  <2>1. /\ r \in Research!Rows /\ r.state = s /\ r.clock = att[a].clock
        /\ r.recovered = att[a].recovered
    BY <1>1 DEF Research!Rows
  <2>2. att' = [att EXCEPT ![a] = r]
    BY <1>4 DEF Research!Set
  <2>. HIDE DEF r
  <2>3. ~att[a].recovered /\ a \in Research!Unresolved /\ ~AttemptBusy(tick'[w])
    BY <1>1, <1>2, <1>4 DEF ResearchInv, RecoveredInv, Research!Unresolved, AttemptBusy
  <2>4. a \in Research!Held => s = "UNKNOWN" /\ a \in Research!Unresolved'
    BY <1>1, <1>4, <2>1, <2>2, <2>3 DEF ResearchInv, Research!TypeOK, HeldInv, Research!Unresolved
  <2>. QED
    BY <1>1, <1>2, <1>4, <2>1, <2>2, <2>3, <2>4, OwnRowMoves DEF Research!Publish, Research!Settle
<1>5. [by |-> a, complete |-> TRUE] \in [by : {a}, complete : BOOLEAN]
  OBVIOUS
<1>6. [by |-> a, complete |-> FALSE] \in [by : {a}, complete : BOOLEAN]
  OBVIOUS
<1>7. CASE Research!Publish(w)
  <2>1. \/ UNCHANGED <<att, head>>
        \/ /\ Research!Set(w, "state", "SUCCEEDED")
           /\ att[a].state = "FINALIZING" /\ att[a].clock = "ahead"
           /\ head' \in [by : {a}, complete : BOOLEAN]
    BY <1>5, <1>7 DEF Research!Publish, Research!Mine
  <2>. QED  BY <2>1, <1>3, <1>4
<1>8. CASE Research!Settle(w)
  <2>1. \/ UNCHANGED <<att, head>>
        \/ /\ \/ Research!Set(w, "state", "UNKNOWN")
              \/ Research!Set(w, "state", "FAILED") /\ att[a].clock = "ahead"
           /\ att[a].state = "FINALIZING"
           /\ head' = head \/ head' \in [by : {a}, complete : BOOLEAN]
    BY <1>6, <1>8 DEF Research!Settle, Research!Mine, Research!Decided
  <2>. QED  BY <2>1, <1>3, <1>4
<1>. QED  BY <1>7, <1>8

(* A new attempt is claimed when every one before it is resolved.          *)
LEMMA ClaimKeepsInv ==
  ASSUME ResearchInv, NEW w \in Workers, Research!Claim(w)
  PROVE  ResearchInv'
<1>1. CASE Research!Ends(w) /\ UNCHANGED att
  <2>1. /\ Research!NoTick \in Research!Ticks
        /\ ~AttemptBusy(Research!NoTick) /\ Research!NoTick.at # "wait"
    BY ResearchConstants DEF Research!NoTick, Research!Ticks, AttemptBusy
  <2>2. AttemptMoves(w) /\ tick'[w].at # "wait"
    BY <1>1, <2>1 DEF ResearchInv, Research!TypeOK, AttemptMoves, Research!Ends
  <2>. QED  BY <1>1, <2>2, LedgerStands DEF Research!Claim
<1>2. ASSUME NEW a \in Research!Attempt, Research!Blocks = {}, held = {},
             att[a].state = "none", \A b \in 1..(a - 1) : att[b].state # "none",
             att' = [att EXCEPT ![a].state = "STARTED", ![a].domain = domain],
             tick' = [tick EXCEPT ![w] = [Research!NoTick EXCEPT !.at = "work", !.attempt = a]]
      PROVE  ResearchInv'
  <2>. DEFINE r == [att[a] EXCEPT !.state = "STARTED", !.domain = domain]
              t == [Research!NoTick EXCEPT !.at = "work", !.attempt = a]
  <2>1. /\ r \in Research!Rows /\ r.state = "STARTED" /\ ~r.recovered
    <3>1. att[a] \in Research!Rows /\ domain \in 0..MaxReboots /\ ~att[a].recovered
      BY <1>2 DEF ResearchInv, Research!TypeOK, RecoveredInv
    <3>. QED  BY <3>1 DEF Research!Rows
  <2>2. t \in Research!Ticks /\ t.at = "work" /\ t.attempt = a
    <3>1. a \in 0..MaxClaims
      BY ResearchConstants DEF Research!Attempt
    <3>. QED  BY <3>1 DEF Research!NoTick, Research!Ticks
  <2>3. \A b \in Research!Attempt : att'[b] = IF b = a THEN r ELSE att[b]
    BY <1>2 DEF ResearchInv, Research!TypeOK
  <2>4. \A v \in Workers : tick'[v] = IF v = w THEN t ELSE tick[v]
    BY <1>2 DEF ResearchInv, Research!TypeOK
  <2>5. att' \in [Research!Attempt -> Research!Rows] /\ tick' \in [Workers -> Research!Ticks]
    <3>1. att' = [att EXCEPT ![a] = r]
      BY <1>2 DEF ResearchInv, Research!TypeOK, Research!Rows
    <3>. QED  BY <1>2, <2>1, <2>2, <3>1 DEF ResearchInv, Research!TypeOK
  <2>. HIDE DEF r, t
  <2>6. Research!Unresolved = {} /\ Research!Unresolved' = {a}
    <3>1. Research!Unresolved = {}
      BY <1>2 DEF Research!Blocks
    <3>2. \A b \in Research!Attempt : b \in Research!Unresolved' <=> b = a
      BY <2>1, <2>3, <3>1 DEF Research!Unresolved
    <3>. QED  BY <1>2, <3>1, <3>2 DEF Research!Unresolved
  <2>7. Research!TypeOK'
    BY <1>2, <2>5 DEF Research!Claim, ResearchInv, Research!TypeOK
  <2>8. \A b \in Research!Attempt : a < b => att[b].state = "none"
    BY <1>2 DEF ResearchInv, AttemptOrderInv
  <2>9. AttemptOrderInv'
    <3>1. ASSUME NEW b \in Research!Attempt, NEW c \in Research!Attempt,
                 b < c, att'[b].state = "none"
          PROVE  att'[c].state = "none"
      <4>1. b # a /\ att[b].state = "none" /\ a \in Int /\ b \in Int /\ c \in Int
        BY <2>1, <2>3, <3>1 DEF Research!Attempt
      <4>2. a < b
        BY <1>2, <4>1 DEF Research!Attempt
      <4>. QED  BY <2>3, <2>8, <3>1, <4>1, <4>2
    <3>. QED  BY <3>1 DEF AttemptOrderInv
  <2>10. LatestInv'
    BY <2>3, <2>6, <2>8 DEF LatestInv, Research!Attempt
  <2>11. RecoveredInv'
    BY <2>1, <2>3 DEF ResearchInv, RecoveredInv
  <2>12. \A v \in Workers : AttemptBusy(tick[v]) => tick[v].attempt # a
    BY <1>2 DEF ResearchInv, RefreshInv
  <2>13. RefreshInv'
    BY <2>1, <2>2, <2>3, <2>4, <2>6, <2>12 DEF ResearchInv, RefreshInv
  <2>14. DistinctInv'
    BY <2>2, <2>4, <2>12 DEF ResearchInv, DistinctInv
  <2>15. HeldInv'
    BY <1>2 DEF Research!Claim, HeldInv, Research!Held
  <2>16. HeadInv'
    BY <2>1, <2>3 DEF Research!Claim, ResearchInv, HeadInv
  <2>. QED
    BY <2>7, <2>9, <2>10, <2>11, <2>13, <2>14, <2>15, <2>16 DEF ResearchInv
<1>. QED  BY <1>1, <1>2 DEF Research!Claim

(* A recovery ends what is unresolved, when no process can still wait for  *)
(* the answer of a call of it.                                             *)
LEMMA AttemptRecovery ==
  ASSUME ResearchInv, NEW rows \in SUBSET Research!Attempt, rows \subseteq Research!Unresolved,
         att' = Research!Recovered(rows), UNCHANGED <<head, domain>>,
         tick' \in [Workers -> Research!Ticks],
         \A w \in Workers : AttemptBusy(tick'[w]) =>
            tick'[w] = tick[w] /\ \A a \in rows : att[a].clock = "settled",
         held' = {}
  PROVE  ResearchInv'
<1>1. ASSUME NEW a \in Research!Attempt
      PROVE  /\ att'[a] \in Research!Rows /\ att'[a].clock = att[a].clock
             /\ a \notin rows => att'[a] = att[a]
             /\ a \in rows => att'[a].state = "UNKNOWN" /\ att'[a].recovered
  <2>. DEFINE r == [att[a] EXCEPT !.state = "UNKNOWN", !.recovered = TRUE,
                                  !.call = IF @ = "open" THEN "unknown" ELSE @]
  <2>1. att[a] \in Research!Rows
    BY DEF ResearchInv, Research!TypeOK
  <2>2. r \in Research!Rows /\ r.clock = att[a].clock /\ r.state = "UNKNOWN" /\ r.recovered
    BY <2>1 DEF Research!Rows
  <2>3. att'[a] = IF a \in rows THEN r ELSE att[a]
    BY DEF Research!Recovered
  <2>. HIDE DEF r
  <2>. QED  BY <2>1, <2>2, <2>3
<1>2. att' \in [Research!Attempt -> Research!Rows]
  BY <1>1 DEF Research!Recovered
<1>3. \A a \in Research!Attempt : a \in rows => att[a].state # "none"
  BY DEF Research!Unresolved
<1>4. /\ Research!Unresolved' \subseteq Research!Unresolved
      /\ \A a \in Research!Unresolved : a \notin rows => a \in Research!Unresolved'
  BY <1>1 DEF Research!Unresolved
<1>5. AttemptOrderInv' /\ LatestInv' /\ RecoveredInv' /\ HeadInv'
  BY <1>1, <1>2, <1>3, <1>4, AttemptsStand DEF ResearchInv, RecoveredInv
<1>6. Research!TypeOK'
  BY <1>2 DEF ResearchInv, Research!TypeOK
<1>7. RefreshInv'
  BY <1>1, <1>3, <1>4 DEF ResearchInv, RefreshInv
<1>8. DistinctInv'
  BY DEF ResearchInv, DistinctInv
<1>9. HeldInv'
  BY DEF HeldInv, Research!Held
<1>. QED  BY <1>5, <1>6, <1>7, <1>8, <1>9 DEF ResearchInv

LEMMA RecoverKeepsInv ==
  ASSUME ResearchInv, NEW w \in Workers, Research!Recover(w)
  PROVE  ResearchInv'
<1>1. Research!Unresolved \in SUBSET Research!Attempt /\ held' = {}
  BY DEF Research!Recover, Research!Unresolved
<1>. DEFINE t == [tick[w] EXCEPT !.at = "claim"]
<1>2. t \in Research!Ticks /\ ~AttemptBusy(t)
  BY DEF ResearchInv, Research!TypeOK, Research!Ticks, AttemptBusy
<1>3. tick' = [tick EXCEPT ![w] = t]
  BY DEF Research!Recover, Research!Goto
<1>. HIDE DEF t
<1>4. /\ tick' \in [Workers -> Research!Ticks]
      /\ \A v \in Workers : AttemptBusy(tick'[v]) => tick'[v] = tick[v]
  BY <1>2, <1>3 DEF ResearchInv, Research!TypeOK
<1>. QED  BY <1>1, <1>4, AttemptRecovery DEF Research!Recover

(* The operator recovers the attempts of the challenge when no process is  *)
(* running.                                                                *)
LEMMA CommitKeepsInv ==
  ASSUME ResearchInv, Research!CommitRecovery
  PROVE  ResearchInv'
<1>1. Research!Held \in SUBSET Research!Attempt /\ Research!Held \subseteq Research!Unresolved
  BY DEF ResearchInv, HeldInv, Research!TypeOK, Research!Held
<1>2. tick' \in [Workers -> Research!Ticks] /\ \A w \in Workers : ~AttemptBusy(tick'[w])
  BY DEF Research!CommitRecovery, ResearchInv, Research!TypeOK, Research!At, AttemptBusy
<1>. QED  BY <1>1, <1>2, AttemptRecovery DEF Research!CommitRecovery

(* A challenge names what is unresolved and late.                          *)
LEMMA ChallengeKeepsInv ==
  ASSUME ResearchInv, Research!PrepareRecovery \/ Research!SupersedeRecovery
  PROVE  ResearchInv'
<1>1. held' = Research!Predecessors /\ Research!Late /\ UNCHANGED <<att, tick, head, domain>>
  BY DEF Research!PrepareRecovery, Research!SupersedeRecovery
<1>2. Research!Predecessors \subseteq Research!Attempt \X {"STARTED", "FINALIZING", "UNKNOWN"}
  BY DEF Research!Predecessors, Research!Unresolved
<1>3. Research!TypeOK'
  BY <1>1, <1>2 DEF ResearchInv, Research!TypeOK
<1>4. AttemptOrderInv' /\ LatestInv' /\ RecoveredInv' /\ RefreshInv' /\ DistinctInv' /\ HeadInv'
  BY <1>1
  DEF ResearchInv, AttemptOrderInv, LatestInv, RecoveredInv, RefreshInv, DistinctInv, HeadInv,
      Research!Unresolved
<1>5. HeldInv'
  <2>1. Research!Unresolved' = Research!Unresolved
    BY <1>1 DEF Research!Unresolved
  <2>2. \A p \in Research!Predecessors : p[1] \in Research!Unresolved
    BY DEF Research!Predecessors
  <2>3. Research!Held' \subseteq Research!Unresolved
    BY <1>1, <2>2 DEF Research!Held
  <2>. QED  BY <1>1, <2>1, <2>3 DEF HeldInv, Research!Late
<1>. QED  BY <1>3, <1>4, <1>5 DEF ResearchInv

(* Time passes; an answer is awaited at most until the margin is over.     *)
LEMMA ResearchTimeKeepsInv ==
  ASSUME ResearchInv, NEW a \in Research!Attempt,
         Research!DeadlinePasses(a) \/ Research!MarginPasses(a)
  PROVE  ResearchInv'
<1>1. PICK c \in {"late", "settled"} :
         /\ att' = [att EXCEPT ![a].clock = c]
         /\ att[a].clock # "settled"
         /\ c = "settled" => \A w \in Workers : Research!At(w, "wait") => tick[w].attempt # a
         /\ UNCHANGED <<held, tick, head, domain>>
  BY DEF Research!DeadlinePasses, Research!MarginPasses
<1>. DEFINE r == [att[a] EXCEPT !.clock = c]
<1>2. /\ r \in Research!Rows /\ r.clock = c /\ r.state = att[a].state
      /\ r.recovered = att[a].recovered
  BY DEF ResearchInv, Research!TypeOK, Research!Rows
<1>3. att' = [att EXCEPT ![a] = r]
  BY <1>1
<1>. HIDE DEF r
<1>4. \A b \in Research!Attempt : att'[b] = IF b = a THEN r ELSE att[b]
  BY <1>3 DEF ResearchInv, Research!TypeOK
<1>5. Research!Unresolved' = Research!Unresolved
  BY <1>2, <1>4 DEF Research!Unresolved
<1>6. Research!TypeOK'
  BY <1>1, <1>2, <1>3 DEF ResearchInv, Research!TypeOK
<1>7. AttemptOrderInv' /\ LatestInv' /\ RecoveredInv' /\ HeadInv'
  BY <1>1, <1>2, <1>4, <1>5, <1>6, AttemptsStand DEF ResearchInv, Research!TypeOK, RecoveredInv
<1>8. RefreshInv' /\ DistinctInv'
  BY <1>1, <1>2, <1>4, <1>5 DEF ResearchInv, RefreshInv, DistinctInv, Research!At
<1>9. HeldInv'
  BY <1>1, <1>2, <1>4, <1>5 DEF ResearchInv, HeldInv, Research!Held, Research!Unresolved
<1>. QED  BY <1>6, <1>7, <1>8, <1>9 DEF ResearchInv

(* Processes that die leave the ledger as it is.                           *)
LEMMA DeathKeepsInv ==
  ASSUME ResearchInv, tick' \in [Workers -> Research!Ticks],
         \A w \in Workers : AttemptBusy(tick'[w]) => tick'[w] = tick[w],
         UNCHANGED <<att, held, head>>, domain' \in 0..MaxReboots
  PROVE  ResearchInv'
<1>1. Research!TypeOK'
  BY DEF ResearchInv, Research!TypeOK
<1>2. AttemptOrderInv' /\ LatestInv' /\ RecoveredInv' /\ HeldInv' /\ HeadInv'
  BY DEF ResearchInv, AttemptOrderInv, LatestInv, RecoveredInv, HeldInv, HeadInv, Research!Held,
         Research!Unresolved
<1>3. RefreshInv' /\ DistinctInv'
  BY DEF ResearchInv, RefreshInv, DistinctInv, Research!Unresolved
<1>. QED  BY <1>1, <1>2, <1>3 DEF ResearchInv

LEMMA ResearchIdle == Research!NoTick \in Research!Ticks /\ ~AttemptBusy(Research!NoTick)
  BY ResearchConstants DEF Research!NoTick, Research!Ticks, AttemptBusy

LEMMA ResearchStarts == Research!Init => ResearchInv
<1>. SUFFICES ASSUME Research!Init PROVE ResearchInv
  OBVIOUS
<1>1. /\ Research!NoAttempt \in Research!Rows
      /\ Research!NoAttempt.state = "none" /\ ~Research!NoAttempt.recovered
  BY ResearchConstants DEF Research!NoAttempt, Research!Rows
<1>2. \A a \in Research!Attempt : att[a] = Research!NoAttempt
  BY DEF Research!Init
<1>3. Research!Unresolved = {} /\ Research!Held = {}
  BY <1>1, <1>2 DEF Research!Init, Research!Unresolved, Research!Held
<1>4. Research!TypeOK
  <2>1. head \in [by : 0..MaxClaims, complete : BOOLEAN] /\ domain \in 0..MaxReboots
    BY ResearchConstants DEF Research!Init
  <2>. QED  BY <1>1, <2>1, ResearchIdle DEF Research!Init, Research!TypeOK
<1>5. \A w \in Workers : ~AttemptBusy(tick[w])
  BY ResearchIdle DEF Research!Init
<1>6. head.by = 0
  BY DEF Research!Init
<1>. QED
  BY <1>1, <1>2, <1>3, <1>4, <1>5, <1>6
  DEF ResearchInv, AttemptOrderInv, LatestInv, RecoveredInv, RefreshInv, DistinctInv, HeldInv,
      HeadInv

LEMMA ResearchSteps == ResearchInv /\ [Research!Next]_Research!vars => ResearchInv'
<1>. SUFFICES ASSUME ResearchInv, [Research!Next]_Research!vars PROVE ResearchInv'
  OBVIOUS
<1>1. ASSUME NEW w \in Workers, Research!Refresh(w)
      PROVE  ResearchInv'
  BY <1>1, RecoverKeepsInv, ClaimKeepsInv, CallRecordedKeepsInv, CallKeepsInv, FenceKeepsInv,
     EndKeepsInv DEF Research!Refresh
<1>2. ASSUME NEW w \in Workers, Research!Crash(w)
      PROVE  ResearchInv'
  BY <1>2, ResearchIdle, DeathKeepsInv
  DEF Research!Crash, Research!Ends, ResearchInv, Research!TypeOK
<1>3. CASE Research!Time
  BY <1>3, ResearchTimeKeepsInv DEF Research!Time
<1>4. CASE Research!PrepareRecovery \/ Research!SupersedeRecovery \/ Research!CommitRecovery
  BY <1>4, ChallengeKeepsInv, CommitKeepsInv
<1>5. CASE Research!Reboot
  <2>1. domain' \in 0..MaxReboots
    BY <1>5, ResearchConstants DEF Research!Reboot, ResearchInv, Research!TypeOK
  <2>. QED  BY <1>5, <2>1, ResearchIdle, DeathKeepsInv DEF Research!Reboot
<1>6. CASE UNCHANGED Research!vars
  BY <1>6, DeathKeepsInv DEF Research!vars, ResearchInv, Research!TypeOK
<1>. QED  BY <1>1, <1>2, <1>3, <1>4, <1>5, <1>6 DEF Research!Next, Research!vars

(* The other parts leave its variables alone.                              *)
LEMMA ResearchImplemented == [Next]_vars => [Research!Next]_Research!vars
BY DEF Next, vars, researchVars, Research!vars

LEMMA ResearchHolds == Spec => []ResearchInv
<1>1. Init => ResearchInv
  BY ResearchStarts DEF Init
<1>2. ResearchInv /\ [Next]_vars => ResearchInv'
  BY ResearchSteps, ResearchImplemented DEF Research!vars
<1>. QED  BY <1>1, <1>2, PTL DEF Spec

LEMMA CallsCounted ==
  ASSUME NEW S
  PROVE  Research!Cardinality(S) = Cardinality(S)
BY DEF Research!Cardinality, Cardinality

(***************************************************************************)
(* Never two calls to the provider for one issuer                          *)
(* (instrument-research/store.ts): the calls of two processes belong to two *)
(* attempts; a waiting process has an unresolved one, and only the latest  *)
(* attempt is unresolved.                                                  *)
(***************************************************************************)
THEOREM OneCallAtATimeHolds == Spec => []OneCallAtATime
<1>1. ASSUME ResearchInv
      PROVE  OneCallAtATime
  <2>. DEFINE S == {w \in Workers : Research!At(w, "wait")}
  <2>1. ASSUME NEW v \in S, NEW w \in S
        PROVE  v = w
    <3>1. /\ AttemptBusy(tick[v]) /\ AttemptBusy(tick[w])
          /\ tick[v].attempt \in Research!Unresolved /\ tick[w].attempt \in Research!Unresolved
      BY <1>1 DEF ResearchInv, RefreshInv, Research!At, AttemptBusy
    <3>2. tick[v].attempt = tick[w].attempt
      BY <1>1, <3>1 DEF ResearchInv, LatestInv, Research!Unresolved, Research!Attempt
    <3>. QED  BY <1>1, <3>1, <3>2 DEF ResearchInv, DistinctInv
  <2>2. Cardinality(S) <= 1
    <3>1. CASE S = {}
      BY <3>1, FS_EmptySet
    <3>2. CASE S # {}
      <4>1. PICK w \in S : S = {w}
        BY <2>1, <3>2
      <4>2. Cardinality(S) = 1
        BY <4>1, FS_Singleton
      <4>. QED  BY <4>2
    <3>. QED  BY <3>1, <3>2
  <2>. QED  BY <2>2, CallsCounted DEF OneCallAtATime, Research!OneCallAtATime
<1>. QED  BY <1>1, ResearchHolds, PTL

(***************************************************************************)
(* A prepared challenge can be committed or replaced                       *)
(* (instrument-research/store.ts): a late process leaves its attempts alone. *)
(***************************************************************************)
THEOREM ChallengeStaysAnswerableHolds == Spec => []ChallengeStaysAnswerable
<1>1. ResearchInv => ChallengeStaysAnswerable
  BY DEF ResearchInv, HeldInv, ChallengeStaysAnswerable, Research!ChallengeStaysAnswerable
<1>. QED  BY <1>1, ResearchHolds, PTL

(***************************************************************************)
(* A late finalizer never replaces newer news (instrument-research/store.ts): *)
(* a process publishes for an unresolved attempt, which is the latest.     *)
(***************************************************************************)
THEOREM NewsNeverFallBackHolds == Spec => NewsNeverFallBack
<1>1. ASSUME ResearchInv, [Research!Next]_Research!vars
      PROVE  [head'.by >= head.by]_Research!vars
  <2>1. head.by \in 0..MaxClaims /\ head.by \in Nat
    BY <1>1, ResearchConstants DEF ResearchInv, Research!TypeOK
  <2>2. ASSUME NEW w \in Workers, Research!Publish(w) \/ Research!Settle(w)
        PROVE  head'.by >= head.by
    <3>. DEFINE a == tick[w].attempt
    <3>1. \/ head' = head
          \/ att[a].state = "FINALIZING" /\ head'.by = a
      BY <2>2 DEF Research!Publish, Research!Settle, Research!Mine
    <3>2. a \in Research!Attempt
      BY <1>1, <2>2 DEF ResearchInv, RefreshInv, Research!Publish, Research!Settle,
         Research!At, AttemptBusy
    <3>3. att[a].state = "FINALIZING" => a \in Research!Unresolved
      BY <1>1, <3>2 DEF ResearchInv, RecoveredInv, Research!Unresolved
    <3>4. a \in Research!Unresolved => a >= head.by
      BY <1>1, <2>1, <3>2 DEF ResearchInv, LatestInv, HeadInv, Research!Attempt
    <3>. QED  BY <2>1, <3>1, <3>3, <3>4
  <2>3. (\A w \in Workers : ~Research!Publish(w) /\ ~Research!Settle(w)) => head' = head
    BY <1>1
    DEF Research!Next, Research!Refresh, Research!Recover, Research!Claim, Research!Reserve,
        Research!Send, Research!Answer, Research!Record, Research!FenceSuccess,
        Research!FenceFailure, Research!Crash, Research!Time, Research!DeadlinePasses,
        Research!MarginPasses, Research!PrepareRecovery, Research!SupersedeRecovery,
        Research!CommitRecovery, Research!Reboot, Research!vars
  <2>. QED  BY <2>1, <2>2, <2>3
<1>2. ResearchInv /\ [Next]_vars => [head'.by >= head.by]_Research!vars
  BY <1>1, ResearchImplemented
<1>. QED  BY <1>2, ResearchHolds, PTL DEF Spec, NewsNeverFallBack, Research!NewsNeverFallBack

-----------------------------------------------------------------------------
(* The alerts (lifecycle-alerts.ts)                                        *)
LEMMA AlertConstants ==
  MaxAttempts \in Nat \ {0} /\ MaxEpisodes \in Nat \ {0} /\ MaxGeneration \in Nat \ {0}
BY ServicesAssumption DEF Alerts!AlertAssumption

AlertRows == [status : Alerts!Status, attempts : 0..MaxAttempts, due : BOOLEAN,
              proof : 0..MaxGeneration, promoted : BOOLEAN,
              lease : {"none", "held", "expired"}]
AlertTicks == [at : {"idle", "claim", "send", "complete"}, episode : 0..MaxEpisodes,
               token : 0..MaxAttempts]

AlertTypes ==
    /\ fault \in [Alerts!Episode -> {"none", "active", "resolved"}]
    /\ onTime \in [Alerts!Episode -> BOOLEAN]
    /\ outbox \in [Alerts!Episode -> AlertRows]
    /\ sent \in [Alerts!Episode -> Nat]
    /\ gen \in 1..MaxGeneration
    /\ owed \in [Alerts!Actor -> 0..MaxGeneration]
    /\ worker \in [Workers -> AlertTicks]
    /\ enabled \in [Workers -> BOOLEAN]

(* A lease is that of a send.                                              *)
LeaseInv == \A e \in Alerts!Episode : outbox[e].lease # "none" <=> outbox[e].status = "SENDING"

(* A fault and its row are recorded together, and one is active at most.   *)
EpisodeInv ==
    /\ \A e \in Alerts!Episode : fault[e] = "none" <=> outbox[e].status = "none"
    /\ \A e \in Alerts!Episode : outbox[e].status = "none" => outbox[e].attempts = 0
    /\ \A d, e \in Alerts!Active : d = e

InSend(t) == t.at \in {"send", "complete"}
Sending(e) == {w \in Workers : worker[w].at = "send" /\ worker[w].episode = e}

(* A message of an alert was or will be sent only for an attempt of it,    *)
(* each for one of its own.                                                *)
SentInv ==
    /\ \A w \in Workers : InSend(worker[w]) => worker[w].episode \in Alerts!Episode
    /\ \A e \in Alerts!Episode :
          /\ IsFiniteSet(Sending(e))
          /\ sent[e] + Cardinality(Sending(e)) <= outbox[e].attempts

CoalescedInv ==
    \A e \in Alerts!Episode : outbox[e].status = "COALESCED"
        => outbox[e].attempts = 0 /\ fault[e] = "resolved"

AlertInv ==
    /\ AlertTypes
    /\ LeaseInv
    /\ EpisodeInv
    /\ SentInv
    /\ CoalescedInv

(* What most steps do to a row: they send nothing, and an alert is         *)
(* coalesced before its deadline, unattempted, with its fault.             *)
RowStep(e) ==
    /\ outbox'[e] \in AlertRows
    /\ outbox'[e].attempts = outbox[e].attempts
    /\ outbox'[e].lease # "none" <=> outbox'[e].status = "SENDING"
    /\ outbox'[e].status = "none" <=> outbox[e].status = "none"
    /\ outbox[e].status = "COALESCED" => outbox'[e].status = "COALESCED"
    /\ outbox'[e].status = "COALESCED" /\ outbox[e].status # "COALESCED"
          => onTime[e] /\ outbox[e].attempts = 0 /\ fault'[e] = "resolved"

(* What every step does to a row, and to the invariant.                    *)
Silent(e) ==
    /\ outbox[e].status = "COALESCED" => outbox'[e].status = "COALESCED"
    /\ outbox'[e].status = "COALESCED" => outbox[e].status = "COALESCED" \/ onTime[e]

AlertKept == AlertInv' /\ \A e \in Alerts!Episode : Silent(e)

LEMMA QuietStep ==
  ASSUME AlertInv,
         outbox' \in [Alerts!Episode -> AlertRows], \A e \in Alerts!Episode : RowStep(e),
         fault' \in [Alerts!Episode -> {"none", "active", "resolved"}],
         \A e \in Alerts!Episode : \/ fault'[e] = fault[e]
                                   \/ fault[e] = "active" /\ fault'[e] = "resolved",
         sent' = sent,
         worker' \in [Workers -> AlertTicks],
         \A w \in Workers : InSend(worker'[w]) => worker'[w] = worker[w],
         onTime' \in [Alerts!Episode -> BOOLEAN], gen' \in 1..MaxGeneration,
         owed' \in [Alerts!Actor -> 0..MaxGeneration], enabled' \in [Workers -> BOOLEAN]
  PROVE  AlertKept
<1>1. AlertTypes'
  BY DEF AlertInv, AlertTypes
<1>2. LeaseInv'
  BY DEF LeaseInv, RowStep
<1>3. EpisodeInv'
  <2>1. \A e \in Alerts!Active' : e \in Alerts!Active
    BY DEF Alerts!Active
  <2>. QED  BY <2>1 DEF AlertInv, EpisodeInv, RowStep
<1>4. SentInv'
  <2>1. \A w \in Workers : InSend(worker'[w]) => worker'[w].episode \in Alerts!Episode
    BY DEF AlertInv, SentInv
  <2>2. ASSUME NEW e \in Alerts!Episode
        PROVE  /\ IsFiniteSet(Sending(e)')
               /\ sent'[e] + Cardinality(Sending(e)') <= outbox'[e].attempts
    <3>1. Sending(e)' \subseteq Sending(e)
      BY DEF Sending, InSend
    <3>2. IsFiniteSet(Sending(e))
      BY DEF AlertInv, SentInv
    <3>3. /\ IsFiniteSet(Sending(e)')
          /\ Cardinality(Sending(e)') <= Cardinality(Sending(e))
          /\ Cardinality(Sending(e)') \in Nat /\ Cardinality(Sending(e)) \in Nat
      BY <3>1, <3>2, FS_Subset, FS_CardinalityType
    <3>4. /\ sent[e] \in Nat /\ outbox[e].attempts \in Nat
          /\ sent[e] + Cardinality(Sending(e)) <= outbox[e].attempts
      BY AlertConstants DEF AlertInv, AlertTypes, AlertRows, SentInv
    <3>5. sent'[e] = sent[e] /\ outbox'[e].attempts = outbox[e].attempts
      BY DEF RowStep
    <3>. QED  BY <3>3, <3>4, <3>5
  <2>. QED  BY <2>1, <2>2 DEF SentInv
<1>5. CoalescedInv'
  BY DEF AlertInv, CoalescedInv, RowStep
<1>6. \A e \in Alerts!Episode : Silent(e)
  BY DEF RowStep, Silent
<1>. QED  BY <1>1, <1>2, <1>3, <1>4, <1>5, <1>6 DEF AlertInv, AlertKept

(* Rows that stay, that are promoted, or whose lease or due date changes.  *)
LEMMA RowStays ==
  ASSUME AlertInv, NEW e \in Alerts!Episode
  PROVE  /\ outbox'[e] = outbox[e] => RowStep(e)
         /\ \A proof \in 0..MaxGeneration : outbox'[e] = Alerts!Promoted(e, proof) => RowStep(e)
         /\ \A d \in BOOLEAN : outbox'[e] = [outbox[e] EXCEPT !.due = d] => RowStep(e)
<1>1. /\ outbox[e] \in AlertRows
      /\ outbox[e].lease # "none" <=> outbox[e].status = "SENDING"
  BY DEF AlertInv, AlertTypes, LeaseInv
<1>2. ASSUME outbox'[e] = outbox[e]
      PROVE  RowStep(e)
  BY <1>1, <1>2 DEF RowStep
<1>3. ASSUME NEW r \in AlertRows, outbox'[e] = r, r.attempts = outbox[e].attempts,
             r.lease = outbox[e].lease, r.status = outbox[e].status
      PROVE  RowStep(e)
  BY <1>1, <1>3 DEF RowStep
<1>4. ASSUME NEW proof \in 0..MaxGeneration, outbox'[e] = Alerts!Promoted(e, proof)
      PROVE  RowStep(e)
  <2>. DEFINE r == Alerts!Promote(outbox[e])
  <2>1. /\ r \in AlertRows /\ r.attempts = outbox[e].attempts
        /\ r.lease = outbox[e].lease /\ r.status = outbox[e].status
    BY <1>1 DEF Alerts!Promote, AlertRows
  <2>2. outbox'[e] = outbox[e] \/ outbox'[e] = r
    BY <1>4 DEF Alerts!Promoted
  <2>. HIDE DEF r
  <2>. QED  BY <1>2, <1>3, <2>1, <2>2
<1>5. ASSUME NEW d \in BOOLEAN, outbox'[e] = [outbox[e] EXCEPT !.due = d]
      PROVE  RowStep(e)
  <2>. DEFINE r == [outbox[e] EXCEPT !.due = d]
  <2>1. /\ r \in AlertRows /\ r.attempts = outbox[e].attempts
        /\ r.lease = outbox[e].lease /\ r.status = outbox[e].status
    BY <1>1 DEF AlertRows
  <2>. HIDE DEF r
  <2>2. outbox'[e] = r
    BY <1>5 DEF r
  <2>. QED  BY <1>3, <2>1, <2>2
<1>. QED  BY <1>2, <1>4, <1>5

(* A new episode is recorded with a row that was never attempted.          *)
LEMMA NewEpisode ==
  ASSUME AlertInv, NEW proof \in 0..MaxGeneration, NEW e \in Alerts!Episode,
         Alerts!Active = {}, fault[e] = "none",
         fault' = [fault EXCEPT ![e] = "active"],
         outbox' = [outbox EXCEPT ![e] = [Alerts!NoRow EXCEPT !.status = "PENDING", !.proof = proof,
                                                       !.due = proof = Alerts!NoProof]],
         UNCHANGED <<onTime, sent, gen, worker, enabled>>,
         owed' \in [Alerts!Actor -> 0..MaxGeneration]
  PROVE  AlertKept
<1>1. \E now \in BOOLEAN : outbox' = [outbox EXCEPT ![e] =
         [Alerts!NoRow EXCEPT !.status = "PENDING", !.proof = proof, !.due = now]]
  <2>1. WITNESS (proof = Alerts!NoProof) \in BOOLEAN
  <2>. QED  OBVIOUS
<1>. PICK now \in BOOLEAN : outbox' = [outbox EXCEPT ![e] =
         [Alerts!NoRow EXCEPT !.status = "PENDING", !.proof = proof, !.due = now]]
  BY <1>1
<1>. DEFINE r == [Alerts!NoRow EXCEPT !.status = "PENDING", !.proof = proof, !.due = now]
<1>2. outbox' = [outbox EXCEPT ![e] = r]
  OBVIOUS
<1>11. /\ r \in AlertRows /\ r.status = "PENDING" /\ r.attempts = 0 /\ r.lease = "none"
  <2>1. /\ Alerts!NoRow \in AlertRows /\ Alerts!NoRow.attempts = 0 /\ Alerts!NoRow.lease = "none"
    BY AlertConstants DEF Alerts!NoRow, AlertRows, Alerts!Status, Alerts!NoProof
  <2>. QED  BY <2>1 DEF AlertRows, Alerts!Status
<1>. HIDE DEF r
<1>3. /\ \A d \in Alerts!Episode : outbox'[d] = IF d = e THEN r ELSE outbox[d]
      /\ \A d \in Alerts!Episode : fault'[d] = IF d = e THEN "active" ELSE fault[d]
  BY <1>2 DEF AlertInv, AlertTypes
<1>4. outbox[e].status = "none" /\ outbox[e].attempts = 0
  BY DEF AlertInv, EpisodeInv
<1>5. AlertTypes'
  BY <1>11, <1>2 DEF AlertInv, AlertTypes
<1>6. LeaseInv'
  BY <1>11, <1>3 DEF AlertInv, LeaseInv
<1>7. EpisodeInv'
  <2>1. \A d \in Alerts!Episode : d \in Alerts!Active' <=> d = e
    BY <1>3 DEF Alerts!Active
  <2>. QED  BY <1>11, <1>3, <2>1 DEF AlertInv, EpisodeInv, Alerts!Active
<1>8. SentInv'
  <2>1. \A d \in Alerts!Episode : Sending(d)' = Sending(d)
    BY DEF Sending
  <2>2. \A d \in Alerts!Episode : outbox'[d].attempts = outbox[d].attempts
    BY <1>11, <1>3, <1>4
  <2>. QED  BY <2>1, <2>2 DEF AlertInv, SentInv
<1>9. CoalescedInv'
  BY <1>11, <1>3 DEF AlertInv, CoalescedInv
<1>10. \A d \in Alerts!Episode : Silent(d)
  BY <1>11, <1>3, <1>4 DEF Silent
<1>. QED  BY <1>5, <1>6, <1>7, <1>8, <1>9, <1>10 DEF AlertInv, AlertKept

-----------------------------------------------------------------------------
(* The actions *)

LEMMA ProofsAndOwed ==
  ASSUME AlertInv
  PROVE  /\ Alerts!Proofs \subseteq 0..MaxGeneration
         /\ Alerts!NoProof \in 0..MaxGeneration
         /\ \A a \in Alerts!Actor, proof \in 0..MaxGeneration :
               Alerts!Owe(a, proof) => owed' \in [Alerts!Actor -> 0..MaxGeneration]
BY AlertConstants DEF AlertInv, AlertTypes, Alerts!Proofs, Alerts!NoProof, Alerts!Owe

LEMMA RecordKeeps ==
  ASSUME AlertInv, NEW proof \in 0..MaxGeneration, Alerts!Record(proof),
         UNCHANGED <<onTime, sent, gen, worker, enabled>>,
         owed' \in [Alerts!Actor -> 0..MaxGeneration]
  PROVE  AlertKept
<1>1. ASSUME NEW e \in Alerts!Active, outbox' = [outbox EXCEPT ![e] = Alerts!Promoted(e, proof)],
             UNCHANGED fault
      PROVE  AlertKept
  <2>1. \A d \in Alerts!Episode : outbox'[d] = Alerts!Promoted(d, proof) \/ outbox'[d] = outbox[d]
    BY <1>1 DEF AlertInv, AlertTypes
  <2>2. \A d \in Alerts!Episode : RowStep(d)
    BY <2>1, RowStays
  <2>3. outbox' \in [Alerts!Episode -> AlertRows]
    BY <1>1, <2>2 DEF AlertInv, AlertTypes, RowStep, Alerts!Active
  <2>. QED  BY <1>1, <2>2, <2>3, QuietStep DEF AlertInv, AlertTypes
<1>. QED  BY <1>1, NewEpisode DEF Alerts!Record

LEMMA WatchdogKeeps ==
  ASSUME AlertInv, Alerts!WatchdogRecords \/ \E a \in Alerts!Actor : Alerts!CheckAgain(a)
  PROVE  AlertKept
<1>1. CASE Alerts!WatchdogRecords
  BY <1>1, ProofsAndOwed, RecordKeeps DEF Alerts!WatchdogRecords, Alerts!Actor
<1>2. ASSUME NEW a \in Alerts!Actor, Alerts!CheckAgain(a)
      PROVE  AlertKept
  <2>1. owed' \in [Alerts!Actor -> 0..MaxGeneration]
    BY <1>2, ProofsAndOwed DEF Alerts!CheckAgain
  <2>2. CASE UNCHANGED <<fault, outbox>>
    <3>1. \A e \in Alerts!Episode : RowStep(e)
      BY <2>2, RowStays
    <3>. QED  BY <1>2, <2>1, <2>2, <3>1, QuietStep DEF Alerts!CheckAgain, AlertInv, AlertTypes
  <2>3. CASE Alerts!Record(Alerts!NoProof)
    BY <1>2, <2>1, <2>3, ProofsAndOwed, RecordKeeps DEF Alerts!CheckAgain
  <2>. QED  BY <1>2, <2>2, <2>3 DEF Alerts!CheckAgain
<1>. QED  BY <1>1, <1>2

(* The observer coalesces a row before its deadline, together with its     *)
(* fault.                                                                  *)
LEMMA ObserverKeeps ==
  ASSUME AlertInv, Alerts!ObserverResolves
  PROVE  AlertKept
<1>. PICK proof \in Alerts!Proofs :
       /\ fault' = [e \in Alerts!Episode |-> IF e \in Alerts!Active THEN "resolved" ELSE fault[e]]
       /\ outbox' = [e \in Alerts!Episode |->
              CASE e \in Alerts!Active /\ proof = Alerts!NoProof
                     -> Alerts!Promoted(e, Alerts!NoProof)
                [] e \in Alerts!Active /\ proof # Alerts!NoProof /\ Alerts!Coalescable(e, proof)
                     -> [outbox[e] EXCEPT !.status = "COALESCED"]
                [] OTHER -> outbox[e]]
       /\ Alerts!Owe("observer", proof)
  BY DEF Alerts!ObserverResolves
<1>1. proof \in 0..MaxGeneration /\ owed' \in [Alerts!Actor -> 0..MaxGeneration]
  BY ProofsAndOwed DEF Alerts!Actor
<1>2. ASSUME NEW e \in Alerts!Episode
      PROVE  RowStep(e)
  <2>1. CASE outbox'[e] = outbox[e] \/ outbox'[e] = Alerts!Promoted(e, Alerts!NoProof)
    BY <2>1, RowStays, ProofsAndOwed
  <2>2. CASE e \in Alerts!Active /\ Alerts!Coalescable(e, proof)
             /\ outbox'[e] = [outbox[e] EXCEPT !.status = "COALESCED"]
    <3>. DEFINE r == [outbox[e] EXCEPT !.status = "COALESCED"]
    <3>1. outbox[e] \in AlertRows
      BY DEF AlertInv, AlertTypes
    <3>2. /\ r \in AlertRows /\ r.status = "COALESCED" /\ r.attempts = outbox[e].attempts
          /\ r.lease = outbox[e].lease
      BY <3>1 DEF AlertRows, Alerts!Status
    <3>3. outbox'[e] = r
      BY <2>2
    <3>. HIDE DEF r
    <3>4. /\ outbox[e].status = "PENDING" /\ outbox[e].attempts = 0 /\ onTime[e]
          /\ outbox[e].lease = "none" /\ fault'[e] = "resolved"
      BY <2>2 DEF Alerts!Coalescable, Alerts!Delayed, AlertInv, LeaseInv
    <3>. QED  BY <3>2, <3>3, <3>4 DEF RowStep
  <2>. QED  BY <2>1, <2>2
<1>3. /\ outbox' \in [Alerts!Episode -> AlertRows]
      /\ fault' \in [Alerts!Episode -> {"none", "active", "resolved"}]
      /\ \A e \in Alerts!Episode : \/ fault'[e] = fault[e]
                                   \/ fault[e] = "active" /\ fault'[e] = "resolved"
  <2>1. outbox' \in [Alerts!Episode -> AlertRows]
    BY <1>2 DEF RowStep
  <2>. QED  BY <2>1 DEF Alerts!Active, AlertInv, AlertTypes
<1>. QED  BY <1>1, <1>2, <1>3, QuietStep DEF Alerts!ObserverResolves, AlertInv, AlertTypes

(* A worker that has nothing of its own in flight, or gives it up.         *)
LEMMA AlertIdle == Alerts!NoTick \in AlertTicks /\ ~InSend(Alerts!NoTick)
BY AlertConstants DEF Alerts!NoTick, AlertTicks, InSend

LEMMA DisabledKeeps ==
  ASSUME AlertInv, NEW w \in Workers, Alerts!MarkDisabled(w)
  PROVE  AlertKept
<1>1. ASSUME NEW e \in Alerts!Episode
      PROVE  RowStep(e)
  <2>1. CASE outbox'[e] = outbox[e]
    BY <2>1, RowStays
  <2>2. CASE /\ outbox[e].status \in {"PENDING", "FAILED", "UNKNOWN"}
             /\ outbox'[e] = [outbox[e] EXCEPT !.status = "DISABLED"]
    <3>. DEFINE r == [outbox[e] EXCEPT !.status = "DISABLED"]
    <3>1. /\ outbox[e] \in AlertRows /\ outbox[e].lease = "none"
      BY <2>2 DEF AlertInv, AlertTypes, LeaseInv
    <3>2. /\ r \in AlertRows /\ r.status = "DISABLED" /\ r.attempts = outbox[e].attempts
          /\ r.lease = outbox[e].lease
      BY <3>1 DEF AlertRows, Alerts!Status
    <3>3. outbox'[e] = r
      BY <2>2
    <3>. HIDE DEF r
    <3>. QED  BY <2>2, <3>1, <3>2, <3>3 DEF RowStep
  <2>. QED  BY <2>1, <2>2 DEF Alerts!MarkDisabled
<1>2. outbox' \in [Alerts!Episode -> AlertRows]
  BY <1>1 DEF Alerts!MarkDisabled, RowStep
<1>. QED  BY <1>1, <1>2, QuietStep DEF Alerts!MarkDisabled, AlertInv, AlertTypes

LEMMA ScanKeeps ==
  ASSUME AlertInv, NEW w \in Workers, Alerts!Scan(w)
  PROVE  AlertKept
<1>. PICK proof \in Alerts!Proofs :
       /\ outbox' = [e \in Alerts!Episode |->
              IF outbox[e].status = "SENDING" /\ outbox[e].lease = "expired"
              THEN [outbox[e] EXCEPT !.status = "UNKNOWN", !.lease = "none", !.due = FALSE]
              ELSE Alerts!Promoted(e, proof)]
       /\ Alerts!Owe(w, IF \E e \in Alerts!Episode : Alerts!Delayed(e)
                        THEN proof ELSE Alerts!NoProof)
  BY DEF Alerts!Scan
<1>1. proof \in 0..MaxGeneration /\ owed' \in [Alerts!Actor -> 0..MaxGeneration]
  BY ProofsAndOwed DEF Alerts!Actor
<1>2. ASSUME NEW e \in Alerts!Episode
      PROVE  RowStep(e)
  <2>1. CASE outbox'[e] = Alerts!Promoted(e, proof)
    BY <1>1, <2>1, RowStays
  <2>2. CASE /\ outbox[e].status = "SENDING"
             /\ outbox'[e] = [outbox[e] EXCEPT !.status = "UNKNOWN", !.lease = "none",
                                               !.due = FALSE]
    <3>. DEFINE r == [outbox[e] EXCEPT !.status = "UNKNOWN", !.lease = "none", !.due = FALSE]
    <3>1. outbox[e] \in AlertRows
      BY DEF AlertInv, AlertTypes
    <3>2. /\ r \in AlertRows /\ r.status = "UNKNOWN" /\ r.attempts = outbox[e].attempts
          /\ r.lease = "none"
      BY <3>1 DEF AlertRows, Alerts!Status
    <3>3. outbox'[e] = r
      BY <2>2
    <3>. HIDE DEF r
    <3>. QED  BY <2>2, <3>2, <3>3 DEF RowStep
  <2>. QED  BY <2>1, <2>2
<1>3. outbox' \in [Alerts!Episode -> AlertRows]
  BY <1>2 DEF RowStep
<1>4. /\ worker' \in [Workers -> AlertTicks]
      /\ \A v \in Workers : InSend(worker'[v]) => worker'[v] = worker[v]
  <2>. DEFINE t == [worker[w] EXCEPT !.at = "claim"]
  <2>1. t \in AlertTicks /\ ~InSend(t)
    BY DEF AlertInv, AlertTypes, AlertTicks, InSend
  <2>2. worker' = [worker EXCEPT ![w] = t]
    BY DEF Alerts!Scan
  <2>. HIDE DEF t
  <2>. QED  BY <2>1, <2>2 DEF AlertInv, AlertTypes
<1>. QED  BY <1>1, <1>2, <1>3, <1>4, QuietStep DEF Alerts!Scan, AlertInv, AlertTypes

(* A claim counts the attempt before its message is sent.                  *)
LEMMA ClaimKeeps ==
  ASSUME AlertInv, NEW w \in Workers, Alerts!Claim(w)
  PROVE  AlertKept
<1>1. worker[w] \in AlertTicks /\ worker[w].at = "claim"
  BY DEF AlertInv, AlertTypes, Alerts!Claim, Alerts!Tick
<1>2. CASE worker' = [worker EXCEPT ![w].at = "idle"] /\ UNCHANGED outbox
  <2>. DEFINE t == [worker[w] EXCEPT !.at = "idle"]
  <2>1. t \in AlertTicks /\ ~InSend(t)
    BY <1>1 DEF AlertTicks, InSend
  <2>2. worker' = [worker EXCEPT ![w] = t]
    BY <1>2
  <2>. HIDE DEF t
  <2>3. /\ worker' \in [Workers -> AlertTicks]
        /\ \A v \in Workers : InSend(worker'[v]) => worker'[v] = worker[v]
    BY <2>1, <2>2 DEF AlertInv, AlertTypes
  <2>4. \A e \in Alerts!Episode : RowStep(e)
    BY <1>2, RowStays
  <2>. QED  BY <1>2, <2>3, <2>4, QuietStep DEF Alerts!Claim, AlertInv, AlertTypes
<1>3. ASSUME NEW e \in Alerts!Episode, Alerts!Claimable(e),
             outbox' = [outbox EXCEPT ![e].status = "SENDING", ![e].lease = "held",
                                      ![e].attempts = @ + 1],
             worker' = [worker EXCEPT ![w].at = "send", ![w].episode = e,
                                      ![w].token = outbox[e].attempts + 1]
      PROVE  AlertKept
  <2>. DEFINE n == outbox[e].attempts
              r == [outbox[e] EXCEPT !.status = "SENDING", !.lease = "held",
                                     !.attempts = n + 1]
              t == [worker[w] EXCEPT !.at = "send", !.episode = e, !.token = n + 1]
  <2>1. /\ outbox[e] \in AlertRows /\ outbox[e].status \in Alerts!Waiting
        /\ n \in Nat /\ n < MaxAttempts
    BY <1>3, AlertConstants DEF AlertInv, AlertTypes, AlertRows, Alerts!Claimable, Alerts!Due
  <2>2. n + 1 \in 0..MaxAttempts
    BY <2>1, AlertConstants
  <2>3. /\ r \in AlertRows /\ r.status = "SENDING" /\ r.lease = "held" /\ r.attempts = n + 1
    BY <2>1, <2>2 DEF AlertRows, Alerts!Status
  <2>4. t \in AlertTicks /\ t.at = "send" /\ t.episode = e
    <3>1. e \in 0..MaxEpisodes
      BY AlertConstants DEF Alerts!Episode
    <3>. QED  BY <1>1, <2>2, <3>1 DEF AlertTicks
  <2>5. outbox' = [outbox EXCEPT ![e] = r]
    BY <1>3, <2>1 DEF AlertInv, AlertTypes, AlertRows
  <2>6. worker' = [worker EXCEPT ![w] = t]
    BY <1>1, <1>3 DEF AlertInv, AlertTypes, AlertTicks
  <2>. HIDE DEF r, t
  <2>7. /\ \A d \in Alerts!Episode : outbox'[d] = IF d = e THEN r ELSE outbox[d]
        /\ \A v \in Workers : worker'[v] = IF v = w THEN t ELSE worker[v]
    BY <2>5, <2>6 DEF AlertInv, AlertTypes
  <2>8. AlertTypes'
    BY <2>3, <2>4, <2>5, <2>6 DEF Alerts!Claim, AlertInv, AlertTypes
  <2>9. LeaseInv'
    BY <2>3, <2>7 DEF AlertInv, LeaseInv
  <2>10. outbox[e].status # "none" /\ outbox[e].status # "COALESCED"
    BY <2>1 DEF Alerts!Waiting
  <2>11. EpisodeInv'
    <3>1. fault' = fault /\ Alerts!Active' = Alerts!Active /\ EpisodeInv
      BY DEF Alerts!Claim, Alerts!Active, AlertInv
    <3>2. \A d \in Alerts!Episode : outbox'[d].status = "none"
                             => outbox[d].status = "none" /\ outbox'[d] = outbox[d]
      BY <2>3, <2>7
    <3>3. \A d \in Alerts!Episode : outbox[d].status = "none" => outbox'[d].status = "none"
      BY <2>7, <2>10
    <3>. QED  BY <3>1, <3>2, <3>3 DEF EpisodeInv
  <2>12. SentInv'
    <3>1. \A v \in Workers : InSend(worker'[v]) => worker'[v].episode \in Alerts!Episode
      BY <2>4, <2>7 DEF AlertInv, SentInv
    <3>2. ASSUME NEW d \in Alerts!Episode, d # e
          PROVE  /\ IsFiniteSet(Sending(d)')
                 /\ sent'[d] + Cardinality(Sending(d)') <= outbox'[d].attempts
      <4>1. Sending(d)' = Sending(d)
        BY <1>1, <2>4, <2>7, <3>2 DEF Sending
      <4>. QED  BY <2>7, <3>2, <4>1 DEF Alerts!Claim, AlertInv, SentInv
    <3>3. /\ IsFiniteSet(Sending(e)')
          /\ sent'[e] + Cardinality(Sending(e)') <= outbox'[e].attempts
      <4>1. Sending(e)' = Sending(e) \cup {w}
        BY <1>1, <2>4, <2>7 DEF Sending
      <4>2. w \notin Sending(e)
        BY <1>1 DEF Sending
      <4>3. IsFiniteSet(Sending(e)) /\ sent[e] + Cardinality(Sending(e)) <= n
        BY DEF AlertInv, SentInv
      <4>4. /\ IsFiniteSet(Sending(e)') /\ Cardinality(Sending(e)) \in Nat
            /\ Cardinality(Sending(e)') = Cardinality(Sending(e)) + 1
        BY <4>1, <4>2, <4>3, FS_AddElement, FS_CardinalityType
      <4>5. outbox'[e].attempts = n + 1 /\ sent'[e] = sent[e] /\ sent[e] \in Nat
        BY <2>3, <2>7 DEF Alerts!Claim, AlertInv, AlertTypes
      <4>. QED  BY <2>1, <4>3, <4>4, <4>5
    <3>. QED  BY <3>1, <3>2, <3>3 DEF SentInv
  <2>13. CoalescedInv'
    BY <2>3, <2>7 DEF Alerts!Claim, AlertInv, CoalescedInv
  <2>14. \A d \in Alerts!Episode : Silent(d)
    BY <2>3, <2>7, <2>10 DEF Silent
  <2>. QED  BY <2>8, <2>9, <2>11, <2>12, <2>13, <2>14 DEF AlertInv, AlertKept
<1>. QED  BY <1>2, <1>3 DEF Alerts!Claim

(* A message leaves for an attempt that was counted.                       *)
LEMMA SendKeeps ==
  ASSUME AlertInv, NEW w \in Workers, Alerts!Send(w)
  PROVE  AlertKept
<1>. DEFINE t == [worker[w] EXCEPT !.at = "complete"]
<1>0. worker[w] \in AlertTicks /\ worker[w].at = "send" /\ worker[w].episode \in Alerts!Episode
  BY DEF AlertInv, AlertTypes, SentInv, InSend, Alerts!Send, Alerts!Tick
<1>. PICK e \in Alerts!Episode : e = worker[w].episode
  BY <1>0
<1>1. worker[w] \in AlertTicks /\ worker[w].at = "send"
  BY <1>0
<1>2. t \in AlertTicks /\ t.at = "complete" /\ t.episode = e
  BY <1>1 DEF AlertTicks
<1>3. /\ worker' = [worker EXCEPT ![w] = t] /\ sent' = [sent EXCEPT ![e] = sent[e] + 1]
      /\ UNCHANGED <<fault, onTime, outbox, gen, owed, enabled>>
  BY DEF Alerts!Send
<1>. HIDE DEF t
<1>4. /\ \A v \in Workers : worker'[v] = IF v = w THEN t ELSE worker[v]
      /\ \A d \in Alerts!Episode : sent'[d] = IF d = e THEN sent[d] + 1 ELSE sent[d]
      /\ sent[e] \in Nat
  BY <1>1, <1>3 DEF AlertInv, AlertTypes
<1>5. AlertTypes'
  BY <1>1, <1>2, <1>3, <1>4 DEF AlertInv, AlertTypes
<1>6. LeaseInv' /\ EpisodeInv' /\ CoalescedInv'
  BY <1>3 DEF AlertInv, LeaseInv, EpisodeInv, CoalescedInv, Alerts!Active
<1>7. SentInv'
  <2>1. \A v \in Workers : InSend(worker'[v]) => worker'[v].episode \in Alerts!Episode
    BY <1>1, <1>2, <1>4 DEF AlertInv, SentInv
  <2>2. ASSUME NEW d \in Alerts!Episode, d # e
        PROVE  /\ IsFiniteSet(Sending(d)')
               /\ sent'[d] + Cardinality(Sending(d)') <= outbox'[d].attempts
    <3>1. Sending(d)' = Sending(d)
      BY <1>2, <1>4, <2>2 DEF Sending
    <3>. QED  BY <1>3, <1>4, <2>2, <3>1 DEF AlertInv, SentInv
  <2>3. /\ IsFiniteSet(Sending(e)')
        /\ sent'[e] + Cardinality(Sending(e)') <= outbox'[e].attempts
    <3>1. Sending(e)' = Sending(e) \ {w} /\ w \in Sending(e)
      BY <1>1, <1>2, <1>4 DEF Sending
    <3>2. /\ IsFiniteSet(Sending(e))
          /\ sent[e] + Cardinality(Sending(e)) <= outbox[e].attempts
      BY <1>1 DEF AlertInv, SentInv
    <3>3. /\ IsFiniteSet(Sending(e)') /\ Cardinality(Sending(e)) \in Nat
          /\ Cardinality(Sending(e)') = Cardinality(Sending(e)) - 1
      BY <3>1, <3>2, FS_RemoveElement, FS_CardinalityType
    <3>4. outbox'[e].attempts = outbox[e].attempts /\ outbox[e].attempts \in Nat
      BY <1>1, <1>3, AlertConstants DEF AlertInv, AlertTypes, AlertRows
    <3>. QED  BY <1>1, <1>4, <3>2, <3>3, <3>4
  <2>. QED  BY <2>1, <2>2, <2>3 DEF SentInv
<1>8. \A d \in Alerts!Episode : Silent(d)
  BY <1>3 DEF Silent
<1>. QED  BY <1>5, <1>6, <1>7, <1>8 DEF AlertInv, AlertKept

(* An answer counts only under the lease of its send.                      *)
LEMMA CompleteKeeps ==
  ASSUME AlertInv, NEW w \in Workers, Alerts!Complete(w)
  PROVE  AlertKept
<1>. DEFINE e == worker[w].episode
<1>1. e \in Alerts!Episode
  BY DEF AlertInv, SentInv, InSend, Alerts!Complete, Alerts!Tick
<1>2. /\ outbox' \in [Alerts!Episode -> AlertRows]
      /\ \A d \in Alerts!Episode : RowStep(d)
  <2>1. CASE UNCHANGED outbox
    <3>1. \A d \in Alerts!Episode : outbox'[d] = outbox[d]
      BY <2>1
    <3>. QED  BY <2>1, <3>1, RowStays DEF AlertInv, AlertTypes
  <2>2. ASSUME Alerts!Holds(w), NEW outcome \in Alerts!Outcome,
               outbox' = [outbox EXCEPT ![e] = [@ EXCEPT !.status = outcome, !.lease = "none",
                                                         !.due = FALSE]]
        PROVE  /\ outbox' \in [Alerts!Episode -> AlertRows]
               /\ \A d \in Alerts!Episode : RowStep(d)
    <3>. DEFINE r == [outbox[e] EXCEPT !.status = outcome, !.lease = "none", !.due = FALSE]
    <3>1. outbox[e] \in AlertRows /\ outbox[e].status = "SENDING"
      BY <1>1, <2>2 DEF AlertInv, AlertTypes, Alerts!Holds
    <3>2. /\ r \in AlertRows /\ r.status = outcome /\ r.attempts = outbox[e].attempts
          /\ r.lease = "none"
      BY <3>1 DEF AlertRows, Alerts!Status, Alerts!Outcome
    <3>3. outbox' = [outbox EXCEPT ![e] = r]
      BY <2>2
    <3>. HIDE DEF r
    <3>4. \A d \in Alerts!Episode : outbox'[d] = IF d = e THEN r ELSE outbox[d]
      BY <3>3 DEF AlertInv, AlertTypes
    <3>5. RowStep(e)
      BY <1>1, <3>1, <3>2, <3>4 DEF RowStep, Alerts!Outcome
    <3>6. \A d \in Alerts!Episode \ {e} : RowStep(d)
      BY <3>4, RowStays
    <3>. QED  BY <3>2, <3>3, <3>5, <3>6 DEF AlertInv, AlertTypes
  <2>. QED  BY <2>1, <2>2 DEF Alerts!Complete
<1>3. /\ worker' \in [Workers -> AlertTicks]
      /\ \A v \in Workers : InSend(worker'[v]) => worker'[v] = worker[v]
  BY AlertIdle DEF Alerts!Complete, AlertInv, AlertTypes
<1>. QED  BY <1>2, <1>3, QuietStep DEF Alerts!Complete, AlertInv, AlertTypes

LEMMA AlertTimeKeeps ==
  ASSUME AlertInv, Alerts!Time
  PROVE  AlertKept
<1>. PICK e \in Alerts!Episode : \/ Alerts!DeadlinePasses(e) \/ Alerts!BackoffPasses(e)
                                 \/ Alerts!LeaseExpires(e)
  BY DEF Alerts!Time
<1>1. outbox[e] \in AlertRows
  BY DEF AlertInv, AlertTypes
<1>2. PICK r \in AlertRows :
         /\ outbox' = [outbox EXCEPT ![e] = r]
         /\ outbox'[e] = r => RowStep(e)
  <2>1. ASSUME NEW d \in BOOLEAN, outbox' = [outbox EXCEPT ![e].due = d]
        PROVE  \E r \in AlertRows : /\ outbox' = [outbox EXCEPT ![e] = r]
                                    /\ outbox'[e] = r => RowStep(e)
    <3>. DEFINE r == [outbox[e] EXCEPT !.due = d]
    <3>1. r \in AlertRows
      BY <1>1 DEF AlertRows
    <3>2. outbox' = [outbox EXCEPT ![e] = r]
      BY <2>1
    <3>3. outbox'[e] = r => RowStep(e)
      BY RowStays
    <3>. HIDE DEF r
    <3>. QED  BY <3>1, <3>2, <3>3
  <2>2. CASE Alerts!DeadlinePasses(e)
    <3>. DEFINE d == outbox[e].due \/ (Alerts!Delayed(e) \/ outbox[e].status = "DISABLED")
    <3>1. outbox' = [outbox EXCEPT ![e].due = d]
      BY <2>2 DEF Alerts!DeadlinePasses
    <3>2. d \in BOOLEAN
      OBVIOUS
    <3>. HIDE DEF d
    <3>. QED  BY <2>1, <3>1, <3>2
  <2>3. CASE Alerts!BackoffPasses(e)
    BY <2>1, <2>3 DEF Alerts!BackoffPasses
  <2>4. CASE Alerts!LeaseExpires(e)
    <3>. DEFINE r == [outbox[e] EXCEPT !.lease = "expired"]
    <3>1. outbox[e].status = "SENDING"
      BY <2>4 DEF Alerts!LeaseExpires, AlertInv, LeaseInv
    <3>2. /\ r \in AlertRows /\ r.status = "SENDING" /\ r.attempts = outbox[e].attempts
          /\ r.lease = "expired"
      BY <1>1, <3>1 DEF AlertRows
    <3>3. outbox' = [outbox EXCEPT ![e] = r]
      BY <2>4 DEF Alerts!LeaseExpires
    <3>. HIDE DEF r
    <3>4. outbox'[e] = r => RowStep(e)
      BY <3>1, <3>2 DEF RowStep
    <3>. QED  BY <3>2, <3>3, <3>4
  <2>. QED  BY <2>2, <2>3, <2>4
<1>3. /\ outbox' \in [Alerts!Episode -> AlertRows]
      /\ \A d \in Alerts!Episode : outbox'[d] = IF d = e THEN r ELSE outbox[d]
  BY <1>2 DEF AlertInv, AlertTypes
<1>4. \A d \in Alerts!Episode : RowStep(d)
  BY <1>2, <1>3, RowStays
<1>5. /\ UNCHANGED <<fault, sent, gen, owed, worker, enabled>>
      /\ onTime' \in [Alerts!Episode -> BOOLEAN]
  BY DEF Alerts!DeadlinePasses, Alerts!BackoffPasses, Alerts!LeaseExpires, AlertInv, AlertTypes
<1>. QED  BY <1>3, <1>4, <1>5, QuietStep DEF AlertInv, AlertTypes

LEMMA AlertRestartKeeps ==
  ASSUME AlertInv, Alerts!Reconnect \/ \E w \in Workers : Alerts!Restart(w)
  PROVE  AlertKept
<1>1. /\ UNCHANGED <<fault, onTime, outbox, sent>>
      /\ \A e \in Alerts!Episode : RowStep(e)
  BY RowStays DEF Alerts!Reconnect, Alerts!Restart
<1>2. gen' \in 1..MaxGeneration
  BY AlertConstants DEF Alerts!Reconnect, Alerts!Restart, AlertInv, AlertTypes
<1>3. CASE Alerts!Reconnect
  BY <1>1, <1>2, <1>3, QuietStep DEF Alerts!Reconnect, AlertInv, AlertTypes
<1>4. ASSUME NEW w \in Workers, Alerts!Restart(w)
      PROVE  AlertKept
  <2>1. /\ worker' \in [Workers -> AlertTicks]
        /\ \A v \in Workers : InSend(worker'[v]) => worker'[v] = worker[v]
    BY <1>4, AlertIdle DEF Alerts!Restart, AlertInv, AlertTypes
  <2>2. enabled' \in [Workers -> BOOLEAN]
    BY <1>4 DEF Alerts!Restart, AlertInv, AlertTypes
  <2>3. owed' \in [Alerts!Actor -> 0..MaxGeneration]
    BY <1>4, ProofsAndOwed DEF Alerts!Restart, AlertInv, AlertTypes, Alerts!Actor
  <2>. QED  BY <1>1, <1>2, <2>1, <2>2, <2>3, QuietStep DEF AlertInv, AlertTypes
<1>. QED  BY <1>3, <1>4

LEMMA AlertsStart == Alerts!Init => AlertInv
<1>. SUFFICES ASSUME Alerts!Init PROVE AlertInv
  OBVIOUS
<1>1. /\ Alerts!NoRow \in AlertRows /\ Alerts!NoRow.status = "none" /\ Alerts!NoRow.attempts = 0
      /\ Alerts!NoRow.lease = "none"
  BY AlertConstants DEF Alerts!NoRow, AlertRows, Alerts!Status, Alerts!NoProof
<1>2. AlertTypes
  <2>1. gen \in 1..MaxGeneration /\ owed \in [Alerts!Actor -> 0..MaxGeneration]
    BY AlertConstants DEF Alerts!Init, Alerts!NoProof
  <2>2. sent \in [Alerts!Episode -> Nat]
    BY DEF Alerts!Init
  <2>. QED  BY <1>1, <2>1, <2>2, AlertIdle DEF Alerts!Init, AlertTypes
<1>3. Alerts!Active = {}
  BY DEF Alerts!Init, Alerts!Active
<1>4. LeaseInv /\ EpisodeInv /\ CoalescedInv
  BY <1>1, <1>3 DEF Alerts!Init, LeaseInv, EpisodeInv, CoalescedInv
<1>5. SentInv
  <2>1. \A w \in Workers : ~InSend(worker[w]) /\ worker[w].at # "send"
    BY AlertIdle DEF Alerts!Init, Alerts!NoTick
  <2>2. \A e \in Alerts!Episode : Sending(e) = {}
    BY <2>1 DEF Sending
  <2>. QED  BY <1>1, <2>1, <2>2, FS_EmptySet DEF Alerts!Init, SentInv
<1>. QED  BY <1>2, <1>4, <1>5 DEF AlertInv

LEMMA AlertsKeep ==
  ASSUME AlertInv, [Alerts!Next]_Alerts!vars
  PROVE  AlertKept
<1>1. CASE Alerts!Next
  BY <1>1, WatchdogKeeps, ObserverKeeps, DisabledKeeps, ScanKeeps, ClaimKeeps, SendKeeps,
     CompleteKeeps, AlertTimeKeeps, AlertRestartKeeps DEF Alerts!Next, Alerts!Deliver
<1>2. CASE UNCHANGED Alerts!vars
  <2>1. \A e \in Alerts!Episode : RowStep(e)
    BY <1>2, RowStays DEF Alerts!vars
  <2>. QED  BY <1>2, <2>1, QuietStep DEF Alerts!vars, AlertInv, AlertTypes
<1>. QED  BY <1>1, <1>2 DEF Alerts!vars

(* The other parts leave its variables alone.                              *)
LEMMA AlertsImplemented == [Next]_vars => [Alerts!Next]_Alerts!vars
BY DEF Next, vars, alertVars, Alerts!vars

LEMMA AlertsHold == Spec => []AlertInv
<1>1. Init => AlertInv
  BY AlertsStart DEF Init
<1>2. AlertInv /\ [Next]_vars => AlertInv'
  BY AlertsKeep, AlertsImplemented DEF AlertKept, Alerts!vars
<1>. QED  BY <1>1, <1>2, PTL DEF Spec

LEMMA EpisodesCounted ==
  ASSUME NEW S
  PROVE  Alerts!Cardinality(S) = Cardinality(S)
BY DEF Alerts!Cardinality, Cardinality

LEMMA AlertTypeOK == AlertInv => Alerts!TypeOK
<1>. SUFFICES ASSUME AlertInv PROVE Alerts!TypeOK
  OBVIOUS
<1>1. sent \in [Alerts!Episode -> 0..MaxAttempts]
  <2>1. ASSUME NEW e \in Alerts!Episode
        PROVE  sent[e] \in 0..MaxAttempts
    <3>1. /\ sent[e] \in Nat /\ outbox[e].attempts \in 0..MaxAttempts
          /\ IsFiniteSet(Sending(e))
          /\ sent[e] + Cardinality(Sending(e)) <= outbox[e].attempts
      BY DEF AlertInv, AlertTypes, AlertRows, SentInv
    <3>2. Cardinality(Sending(e)) \in Nat
      BY <3>1, FS_CardinalityType
    <3>. QED  BY <3>1, <3>2, AlertConstants
  <2>. QED  BY <2>1 DEF AlertInv, AlertTypes
<1>2. Alerts!Cardinality(Alerts!Active) <= 1
  <2>1. CASE Alerts!Active = {}
    BY <2>1, FS_EmptySet, EpisodesCounted
  <2>2. CASE Alerts!Active # {}
    <3>1. PICK e \in Alerts!Active : Alerts!Active = {e}
      BY <2>2 DEF AlertInv, EpisodeInv
    <3>2. Cardinality(Alerts!Active) = 1
      BY <3>1, FS_Singleton
    <3>. QED  BY <3>2, EpisodesCounted
  <2>. QED  BY <2>1, <2>2
<1>. QED  BY <1>1, <1>2 DEF AlertInv, AlertTypes, LeaseInv, AlertRows, Alerts!TypeOK

(***************************************************************************)
(* A coalesced alert was resolved in time, and no message of it was or will *)
(* be sent (lifecycle-alerts.ts).                                          *)
(***************************************************************************)
THEOREM CoalescedIsSilentHolds == Spec => CoalescedIsSilent
<1>1. ASSUME AlertInv, [Next]_vars
      PROVE  [\A e \in Alerts!Episode :
                /\ outbox'[e].status = "COALESCED" =>
                      /\ sent'[e] = 0
                      /\ fault'[e] = "resolved"
                      /\ outbox[e].status = "COALESCED" \/ onTime[e]
                /\ outbox[e].status = "COALESCED" => outbox'[e].status = "COALESCED"]_Alerts!vars
  <2>1. AlertKept
    BY <1>1, AlertsKeep, AlertsImplemented DEF Alerts!vars
  <2>2. ASSUME NEW e \in Alerts!Episode, outbox'[e].status = "COALESCED"
        PROVE  sent'[e] = 0 /\ fault'[e] = "resolved"
    <3>1. /\ sent'[e] \in Nat /\ outbox'[e].attempts = 0 /\ fault'[e] = "resolved"
          /\ IsFiniteSet(Sending(e)')
          /\ sent'[e] + Cardinality(Sending(e)') <= outbox'[e].attempts
      BY <2>1, <2>2 DEF AlertKept, AlertInv, AlertTypes, SentInv, CoalescedInv
    <3>2. Cardinality(Sending(e)') \in Nat
      BY <3>1, FS_CardinalityType
    <3>. QED  BY <3>1, <3>2
  <2>. QED  BY <2>1, <2>2 DEF AlertKept, Silent
<1>. QED  BY <1>1, AlertsHold, PTL DEF Spec, CoalescedIsSilent, Alerts!CoalescedIsSilent

-----------------------------------------------------------------------------
(* The session schedules (session-schedule-refresh.ts)                     *)
LEMMA ScheduleConstants == MaxInvalidations \in Nat /\ MaxTroubles \in Nat
BY ServicesAssumption DEF Schedules!ScheduleAssumption

(* The states of a refresh that knows of n invalidations.                  *)
Refreshes(n) == [at : Schedules!Stage, v : 0..n, until : 0..n, mine : BOOLEAN]
ScheduleRows == [status : {"FAILED", "REFRESHING", "READY"}, of : Nat, aged : BOOLEAN]

ScheduleTypes ==
    /\ schedule \in ScheduleRows
    /\ version \in Nat
    /\ settled \in 0..version /\ persisted \in 0..settled /\ lost \subseteq 1..settled
    /\ ensure \in Refreshes(version)
    /\ initialized \in BOOLEAN /\ recent \in BOOLEAN
    /\ called \in 0..MaxInvalidations /\ troubles \in 0..MaxTroubles

FirstRefresh == IF initialized THEN 0 ELSE 1
AgainRefresh == IF version \in lost THEN 1 ELSE 0

(* An invalidation is a call, the first of a process, or makes good one    *)
(* that failed; the one that is still to come is counted in advance.       *)
Within(v, f, a, c, t) == v + f + a <= c + 2 * t + 1
VersionInv == Within(version, FirstRefresh, AgainRefresh, called, troubles)

(* A refresh awaits the invalidation it started with, and runs only in a   *)
(* process that has invalidated once.                                      *)
AwaitInv ==
    /\ ensure.at = "await" => ensure.until = ensure.v
    /\ ensure.at # "idle" => initialized

(* A refresh that fetches, and whose generation the row still has, is      *)
(* newer than every invalidation the row has seen; before the look at the  *)
(* version in Begun it need not be.                                        *)
FetchInv ==
    ensure.at \in {"fetch", "commit", "finish"} /\ ensure.mine => ensure.v >= persisted

ScheduleInv ==
    /\ ScheduleTypes
    /\ VersionInv
    /\ AwaitInv
    /\ FetchInv
    /\ Schedules!ReadyIsUninvalidated

(* What the steps do to the count.                                         *)
LEMMA InvalidationsCounted ==
  ASSUME NEW v \in Nat, NEW f \in {0, 1}, NEW a \in {0, 1}, NEW c \in Nat, NEW t \in Nat,
         Within(v, f, a, c, t)
  PROVE  /\ f = 1 \/ a = 1 => Within(v + 1, 0, 0, c, t)
         /\ Within(v + 1, f, 0, c + 1, t)
         /\ \A b \in {0, 1} : Within(v, f, b, c, t + 1)
         /\ Within(v + 1, 1, 0, c, t + 1)
BY DEF Within

LEMMA CountingTypes ==
  ASSUME ScheduleInv
  PROVE  /\ version \in Nat /\ FirstRefresh \in {0, 1} /\ AgainRefresh \in {0, 1}
         /\ called \in Nat /\ troubles \in Nat /\ version + 1 \notin lost
         /\ Within(version, FirstRefresh, AgainRefresh, called, troubles)
BY ScheduleConstants DEF ScheduleInv, ScheduleTypes, VersionInv, FirstRefresh, AgainRefresh

LEMMA RefreshesGrow ==
  ASSUME NEW m \in Nat, NEW n \in Nat, m <= n, NEW e \in Refreshes(m)
  PROVE  e \in Refreshes(n)
BY DEF Refreshes

(* The refresh goes on to another stage; a stage with a fetch behind it is *)
(* reached only from one, or from Begun.                                   *)
LEMMA RefreshMoves ==
  ASSUME ScheduleInv,
         ensure' \in Refreshes(version),
         ensure'.at # "idle" => initialized,
         ensure'.at = "await" => ensure'.until = ensure'.v,
         ensure'.at \in {"fetch", "commit", "finish"} /\ ensure'.mine
            => ensure'.v >= persisted,
         recent' \in BOOLEAN,
         troubles' = troubles \/ Schedules!Trouble,
         UNCHANGED <<schedule, settled, lost, persisted, version, initialized, called>>
  PROVE  ScheduleInv'
<1>1. ScheduleTypes' /\ Schedules!ReadyIsUninvalidated'
  BY ScheduleConstants
  DEF ScheduleInv, ScheduleTypes, Schedules!ReadyIsUninvalidated, Schedules!Trouble
<1>2. FirstRefresh' = FirstRefresh /\ AgainRefresh' \in {0, 1} /\ AgainRefresh' = AgainRefresh
  BY DEF FirstRefresh, AgainRefresh
<1>3. VersionInv'
  BY <1>2, InvalidationsCounted, CountingTypes DEF VersionInv, Schedules!Trouble
<1>4. AwaitInv' /\ FetchInv'
  BY DEF AwaitInv, FetchInv
<1>. QED  BY <1>1, <1>3, <1>4 DEF ScheduleInv

(* The states of a refresh.                                                *)
LEMMA RefreshStates ==
  ASSUME ScheduleInv
  PROVE  /\ ensure \in Refreshes(version) /\ Schedules!NoRefresh \in Refreshes(version)
         /\ Schedules!NoRefresh.at = "idle"
         /\ \A s \in Schedules!Stage :
              /\ [ensure EXCEPT !.at = s] \in Refreshes(version)
              /\ [ensure EXCEPT !.at = s, !.until = version] \in Refreshes(version)
              /\ [ensure EXCEPT !.at = s, !.mine = TRUE] \in Refreshes(version)
<1>1. version \in Nat /\ version \in 0..version /\ 0 \in 0..version
  BY DEF ScheduleInv, ScheduleTypes
<1>2. ensure \in Refreshes(version)
  BY DEF ScheduleInv, ScheduleTypes
<1>3. Schedules!NoRefresh \in Refreshes(version) /\ Schedules!NoRefresh.at = "idle"
  BY <1>1 DEF Schedules!NoRefresh, Refreshes, Schedules!Stage
<1>. QED  BY <1>1, <1>2, <1>3 DEF Refreshes

LEMMA ScheduleStagesKeepInv ==
  ASSUME ScheduleInv,
         \/ Schedules!Yield \/ Schedules!Read \/ Schedules!Begun
         \/ Schedules!GiveUp \/ Schedules!Fetch \/ Schedules!Commit
  PROVE  ScheduleInv'
<1>1. /\ ensure' \in Refreshes(version)
      /\ ensure'.at # "await"
      /\ ensure'.at \in {"commit", "finish"}
            => /\ ensure.at \in {"fetch", "commit"}
               /\ ensure'.mine = ensure.mine /\ ensure'.v = ensure.v
      /\ ensure'.at = "fetch" => ensure'.v = version
  <2>1. CASE Schedules!Ends
    BY <2>1, RefreshStates DEF Schedules!Ends
  <2>2. ASSUME NEW s \in {"yield", "giveUp"}, Schedules!Awaits(s)
        PROVE  ensure' \in Refreshes(version) /\ ensure'.at = s
    <3>1. s \in Schedules!Stage /\ ensure' \in Refreshes(version)
      BY <2>2, RefreshStates DEF Schedules!Awaits, Schedules!Stage
    <3>2. ensure'.at = s
      BY <2>2, RefreshStates DEF Schedules!Awaits, Refreshes
    <3>. QED  BY <3>1, <3>2
  <2>3. ASSUME NEW s \in {"begin", "fetch", "abandon", "fail", "finish"}, Schedules!Goes(s)
        PROVE  /\ ensure' \in Refreshes(version) /\ ensure'.at = s
               /\ ensure'.mine = ensure.mine /\ ensure'.v = ensure.v
    BY <2>3, RefreshStates DEF Schedules!Goes, Schedules!Stage, Refreshes
  <2>4. Schedules!Awaits("commit") => /\ ensure' \in Refreshes(version) /\ ensure'.at = "commit"
                                      /\ ensure'.mine = ensure.mine /\ ensure'.v = ensure.v
    BY RefreshStates DEF Schedules!Awaits, Schedules!Stage, Refreshes
  <2>. QED
    BY <2>1, <2>2, <2>3, <2>4, RefreshStates
    DEF Schedules!Yield, Schedules!Read, Schedules!Begun, Schedules!GiveUp, Schedules!Fetch,
        Schedules!Commit, Schedules!At, Schedules!Superseded, Schedules!Ends
<1>2. /\ initialized
      /\ ensure'.at \in {"fetch", "commit", "finish"} /\ ensure'.mine
            => ensure'.v >= persisted
  <2>1. initialized
    BY DEF ScheduleInv, AwaitInv, Schedules!Yield, Schedules!Read, Schedules!Begun,
           Schedules!GiveUp, Schedules!Fetch, Schedules!Commit, Schedules!At
  <2>2. version >= persisted
    BY DEF ScheduleInv, ScheduleTypes
  <2>. QED  BY <1>1, <2>1, <2>2 DEF ScheduleInv, FetchInv
<1>3. UNCHANGED <<schedule, settled, lost, persisted, version, initialized, called>>
  BY DEF Schedules!Yield, Schedules!Read, Schedules!Begun, Schedules!GiveUp, Schedules!Fetch,
         Schedules!Commit, Schedules!rowVars
<1>4. recent' \in BOOLEAN /\ (troubles' = troubles \/ Schedules!Trouble)
  BY DEF Schedules!Yield, Schedules!Read, Schedules!Begun, Schedules!GiveUp, Schedules!Fetch,
         Schedules!Commit, ScheduleInv, ScheduleTypes
<1>. QED  BY <1>1, <1>2, <1>3, <1>4, RefreshMoves

(* An invalidation of the refresh's own.                                   *)
LEMMA OwnInvalidationKeepsInv ==
  ASSUME ScheduleInv, Schedules!OwnInvalidation,
         initialized' = TRUE, ~initialized \/ version \in lost,
         UNCHANGED <<schedule, settled, lost, persisted, recent, called, troubles>>
  PROVE  ScheduleInv'
<1>1. version \in Nat /\ version' = version + 1 /\ version + 1 \notin lost
  BY DEF ScheduleInv, ScheduleTypes, Schedules!OwnInvalidation
<1>2. ensure' \in Refreshes(version + 1) /\ ensure'.at = "own"
  BY <1>1 DEF Schedules!OwnInvalidation, Refreshes, Schedules!Stage
<1>3. ScheduleTypes'
  BY <1>1, <1>2 DEF ScheduleInv, ScheduleTypes
<1>4. VersionInv'
  <2>1. FirstRefresh' = 0 /\ AgainRefresh' = 0 /\ (FirstRefresh = 1 \/ AgainRefresh = 1)
    BY <1>1 DEF FirstRefresh, AgainRefresh
  <2>. QED  BY <1>1, <2>1, InvalidationsCounted, CountingTypes DEF VersionInv
<1>5. AwaitInv' /\ FetchInv' /\ Schedules!ReadyIsUninvalidated'
  BY <1>2 DEF ScheduleInv, AwaitInv, FetchInv, Schedules!ReadyIsUninvalidated
<1>. QED  BY <1>3, <1>4, <1>5 DEF ScheduleInv

LEMMA EnsureKeepsInv ==
  ASSUME ScheduleInv, Schedules!Ensure
  PROVE  ScheduleInv'
<1>1. CASE initialized
  <2>1. ensure' = [at |-> "await", v |-> version, until |-> version, mine |-> FALSE]
    BY <1>1 DEF Schedules!Ensure
  <2>2. version \in Nat
    BY DEF ScheduleInv, ScheduleTypes
  <2>3. /\ ensure' \in Refreshes(version)
        /\ ensure'.at = "await" /\ ensure'.until = ensure'.v
    BY <2>1, <2>2 DEF Refreshes, Schedules!Stage
  <2>. QED
    BY <1>1, <2>3, RefreshMoves
    DEF Schedules!Ensure, Schedules!rowVars, ScheduleInv, ScheduleTypes
<1>2. CASE ~initialized
  BY <1>2, OwnInvalidationKeepsInv DEF Schedules!Ensure, Schedules!rowVars
<1>. QED  BY <1>1, <1>2 DEF ScheduleInv, ScheduleTypes

LEMMA AwaitedKeepsInv ==
  ASSUME ScheduleInv, Schedules!InvalidationAwaited
  PROVE  ScheduleInv'
<1>5. /\ initialized
      /\ UNCHANGED <<schedule, settled, lost, persisted, initialized, called, troubles>>
      /\ recent' \in BOOLEAN
  BY DEF Schedules!InvalidationAwaited, Schedules!rowVars, ScheduleInv, ScheduleTypes, AwaitInv,
         Schedules!At
<1>1. CASE Schedules!Rejected /\ Schedules!At("await") /\ ~Schedules!Superseded /\ Schedules!Retry
  <2>1. version \in lost /\ initialized
    BY <1>1 DEF ScheduleInv, AwaitInv, Schedules!At, Schedules!Superseded, Schedules!Rejected
  <2>2. initialized' = TRUE
    BY <2>1 DEF Schedules!InvalidationAwaited, ScheduleInv, ScheduleTypes
  <2>. QED
    BY <1>1, <2>1, <2>2, OwnInvalidationKeepsInv
    DEF Schedules!InvalidationAwaited, Schedules!Retry, Schedules!rowVars
<1>2. CASE Schedules!Awaits("yield") /\ UNCHANGED version
  <2>1. ensure' \in Refreshes(version) /\ ensure'.at = "yield"
    BY <1>2, RefreshStates DEF Schedules!Awaits, Schedules!Stage, Refreshes
  <2>. QED  BY <1>2, <1>5, <2>1, RefreshMoves
<1>3. CASE Schedules!Goes("read") /\ UNCHANGED version
  <2>1. ensure' \in Refreshes(version) /\ ensure'.at = "read"
    BY <1>3, RefreshStates DEF Schedules!Goes, Schedules!Stage, Refreshes
  <2>. QED  BY <1>3, <1>5, <2>1, RefreshMoves
<1>4. CASE Schedules!Ends /\ UNCHANGED version
  <2>1. ensure' \in Refreshes(version) /\ ensure'.at = "idle"
    BY <1>4, RefreshStates DEF Schedules!Ends
  <2>. QED  BY <1>4, <1>5, <2>1, RefreshMoves
<1>. QED  BY <1>1, <1>2, <1>3, <1>4 DEF Schedules!InvalidationAwaited

(* The writes of a refresh: a begin claims the row, a finish is            *)
(* conditional on it still being its own.                                  *)
LEMMA ScheduleRowMoves ==
  ASSUME ScheduleInv, initialized,
         ensure' \in Refreshes(version), ensure'.at \in {"begun", "idle", "yield", "fail"},
         schedule' \in ScheduleRows,
         schedule'.status = "READY" => schedule'.of >= persisted,
         troubles' = troubles \/ Schedules!Trouble,
         UNCHANGED <<version, settled, lost, persisted, initialized, recent, called>>
  PROVE  ScheduleInv'
<1>1. ScheduleTypes' /\ Schedules!ReadyIsUninvalidated'
  BY ScheduleConstants
  DEF ScheduleInv, ScheduleTypes, Schedules!ReadyIsUninvalidated, Schedules!Trouble
<1>2. FirstRefresh' = FirstRefresh /\ AgainRefresh' \in {0, 1} /\ AgainRefresh' = AgainRefresh
  BY DEF FirstRefresh, AgainRefresh
<1>3. VersionInv'
  BY <1>2, InvalidationsCounted, CountingTypes DEF VersionInv, Schedules!Trouble
<1>4. AwaitInv' /\ FetchInv'
  BY DEF AwaitInv, FetchInv
<1>. QED  BY <1>1, <1>3, <1>4 DEF ScheduleInv

LEMMA RowWritesKeepInv ==
  ASSUME ScheduleInv, Schedules!Begin \/ Schedules!Finish \/ Schedules!Abandon
  PROVE  ScheduleInv'
<1>1. /\ initialized /\ schedule \in ScheduleRows /\ version \in Nat
      /\ schedule.status = "READY" => schedule.of >= persisted
  BY DEF ScheduleInv, ScheduleTypes, AwaitInv, Schedules!ReadyIsUninvalidated, Schedules!Begin,
         Schedules!Finish, Schedules!Abandon, Schedules!At
<1>2. \A s \in {"REFRESHING", "FAILED"} : /\ [schedule EXCEPT !.status = s] \in ScheduleRows
                                         /\ [schedule EXCEPT !.status = s].status = s
  BY <1>1 DEF ScheduleRows
<1>3. Schedules!At("finish") => /\ Schedules!Finished("READY") \in ScheduleRows
                                /\ Schedules!Finished("READY").status = "READY"
                                      => Schedules!Finished("READY").of >= persisted
  <2>1. ASSUME Schedules!At("finish"), Schedules!Finishable
        PROVE  ensure.v \in Nat /\ ensure.v >= persisted
    <3>1. ensure.v \in 0..version /\ version \in Nat
      BY DEF ScheduleInv, ScheduleTypes, Refreshes
    <3>2. ensure.v >= persisted
      BY <2>1 DEF ScheduleInv, FetchInv, Schedules!At, Schedules!Finishable
    <3>. QED  BY <3>1, <3>2
  <2>2. CASE Schedules!Finishable
    BY <2>1, <2>2 DEF Schedules!Finished, ScheduleRows
  <2>3. CASE ~Schedules!Finishable
    BY <1>1, <2>3 DEF Schedules!Finished
  <2>. QED  BY <2>2, <2>3
<1>4. /\ Schedules!Finished("FAILED") \in ScheduleRows
      /\ Schedules!Finished("FAILED").status = "READY"
           => Schedules!Finished("FAILED").of >= persisted
  BY <1>1, <1>2 DEF Schedules!Finished
<1>5. /\ schedule' \in ScheduleRows
      /\ schedule'.status = "READY" => schedule'.of >= persisted
  BY <1>1, <1>2, <1>3, <1>4 DEF Schedules!Begin, Schedules!Finish, Schedules!Abandon
<1>6. ensure' \in Refreshes(version) /\ ensure'.at \in {"begun", "idle", "yield", "fail"}
  <2>1. Schedules!Ends => ensure' \in Refreshes(version) /\ ensure'.at = "idle"
    BY RefreshStates DEF Schedules!Ends
  <2>2. Schedules!Awaits("yield") => ensure' \in Refreshes(version) /\ ensure'.at = "yield"
    BY RefreshStates DEF Schedules!Awaits, Schedules!Stage, Refreshes
  <2>3. Schedules!Goes("fail") => ensure' \in Refreshes(version) /\ ensure'.at = "fail"
    BY RefreshStates DEF Schedules!Goes, Schedules!Stage, Refreshes
  <2>4. ensure' = [ensure EXCEPT !.at = "begun", !.mine = TRUE]
            => ensure' \in Refreshes(version) /\ ensure'.at = "begun"
    BY RefreshStates DEF Schedules!Stage, Refreshes
  <2>. QED  BY <2>1, <2>2, <2>3, <2>4 DEF Schedules!Begin, Schedules!Finish, Schedules!Abandon
<1>7. /\ troubles' = troubles \/ Schedules!Trouble
      /\ UNCHANGED <<version, settled, lost, persisted, initialized, recent, called>>
  BY DEF Schedules!Begin, Schedules!Finish, Schedules!Abandon
<1>. QED  BY <1>1, <1>5, <1>6, <1>7, ScheduleRowMoves

(* A reader that is retired invalidates; the refresh that runs is from then on *)
(* superseded.                                                             *)
LEMMA InvalidateKeepsInv ==
  ASSUME ScheduleInv, Schedules!Invalidate
  PROVE  ScheduleInv'
<1>1. version \in Nat /\ version' = version + 1 /\ ensure' \in Refreshes(version + 1)
  BY CountingTypes, RefreshesGrow DEF Schedules!Invalidate, ScheduleInv, ScheduleTypes
<1>2. ScheduleTypes'
  BY <1>1, ScheduleConstants DEF Schedules!Invalidate, ScheduleInv, ScheduleTypes
<1>3. VersionInv'
  <2>1. FirstRefresh' = FirstRefresh /\ AgainRefresh' = 0
    BY <1>1, CountingTypes DEF Schedules!Invalidate, FirstRefresh, AgainRefresh
  <2>. QED  BY <1>1, <2>1, InvalidationsCounted, CountingTypes
            DEF Schedules!Invalidate, VersionInv
<1>4. AwaitInv' /\ FetchInv' /\ Schedules!ReadyIsUninvalidated'
  BY DEF Schedules!Invalidate, ScheduleInv, AwaitInv, FetchInv, Schedules!ReadyIsUninvalidated
<1>. QED  BY <1>2, <1>3, <1>4 DEF ScheduleInv

(* An invalidation that reaches the row takes it from the refresh.         *)
LEMMA InvalidationSettlesKeepsInv ==
  ASSUME ScheduleInv, Schedules!InvalidationSettles
  PROVE  ScheduleInv'
<1>1. /\ version \in Nat /\ settled \in 0..version /\ settled + 1 \in 0..version
      /\ lost' \subseteq lost \cup {settled + 1} /\ lost \subseteq 1..settled
      /\ settled' = settled + 1
  BY DEF Schedules!InvalidationSettles, ScheduleInv, ScheduleTypes
<1>2. /\ schedule' \in ScheduleRows /\ ensure' \in Refreshes(version)
      /\ persisted' \in 0..(settled + 1)
      /\ ensure'.at = ensure.at /\ ensure'.v = ensure.v /\ ensure'.until = ensure.until
      /\ \/ UNCHANGED <<schedule, persisted, ensure>>
         \/ schedule'.status = "FAILED" /\ ~ensure'.mine
  <2>1. CASE Schedules!Persisted
    <3>1. /\ ensure' \in Refreshes(version) /\ ensure'.at = ensure.at /\ ensure'.v = ensure.v
          /\ ensure'.until = ensure.until /\ ~ensure'.mine
      BY <2>1, RefreshStates DEF Schedules!Persisted, Refreshes
    <3>2. schedule' \in ScheduleRows /\ schedule'.status = "FAILED"
      BY <2>1 DEF Schedules!Persisted, ScheduleInv, ScheduleTypes, ScheduleRows
    <3>. QED  BY <1>1, <2>1, <3>1, <3>2 DEF Schedules!Persisted
  <2>2. CASE UNCHANGED <<schedule, persisted, ensure>>
    BY <1>1, <2>2 DEF ScheduleInv, ScheduleTypes
  <2>. QED  BY <2>1, <2>2 DEF Schedules!InvalidationSettles
<1>3. ScheduleTypes'
  <2>1. troubles' \in 0..MaxTroubles
    BY ScheduleConstants
    DEF Schedules!InvalidationSettles, ScheduleInv, ScheduleTypes, Schedules!Trouble
  <2>2. lost' \subseteq 1..settled'
    BY <1>1
  <2>. QED  BY <1>1, <1>2, <2>1, <2>2
            DEF Schedules!InvalidationSettles, ScheduleInv, ScheduleTypes
<1>4. VersionInv'
  <2>1. FirstRefresh' = FirstRefresh /\ AgainRefresh' \in {0, 1}
    BY DEF Schedules!InvalidationSettles, FirstRefresh, AgainRefresh
  <2>2. CASE UNCHANGED <<lost, troubles>>
    <3>1. AgainRefresh' = AgainRefresh
      BY <2>2 DEF Schedules!InvalidationSettles, AgainRefresh
    <3>. QED  BY <2>1, <2>2, <3>1 DEF Schedules!InvalidationSettles, ScheduleInv, VersionInv
  <2>3. CASE Schedules!Trouble
    BY <2>1, <2>3, InvalidationsCounted, CountingTypes
    DEF Schedules!InvalidationSettles, VersionInv, Schedules!Trouble
  <2>. QED  BY <2>2, <2>3 DEF Schedules!InvalidationSettles
<1>5. AwaitInv' /\ FetchInv' /\ Schedules!ReadyIsUninvalidated'
  BY <1>2
  DEF Schedules!InvalidationSettles, ScheduleInv, AwaitInv, FetchInv,
      Schedules!ReadyIsUninvalidated
<1>. QED  BY <1>3, <1>4, <1>5 DEF ScheduleInv

(* A new process has invalidated once, and will once more.                 *)
LEMMA ScheduleRestartKeepsInv ==
  ASSUME ScheduleInv, Schedules!Restart
  PROVE  ScheduleInv'
<1>1. version \in Nat /\ version' = version + 1
  BY CountingTypes DEF Schedules!Restart
<1>2. Schedules!NoRefresh \in Refreshes(version + 1) /\ Schedules!NoRefresh.at = "idle"
  BY <1>1 DEF Schedules!NoRefresh, Refreshes, Schedules!Stage
<1>3. schedule' \in ScheduleRows /\ schedule'.status = "FAILED"
  BY DEF Schedules!Restart, ScheduleInv, ScheduleTypes, ScheduleRows
<1>4. ScheduleTypes'
  <2>1. troubles' \in 0..MaxTroubles
    BY ScheduleConstants DEF Schedules!Restart, ScheduleInv, ScheduleTypes, Schedules!Trouble
  <2>2. /\ version' \in Nat /\ settled' \in 0..version' /\ persisted' \in 0..settled'
        /\ lost' \subseteq 1..settled'
    BY <1>1 DEF Schedules!Restart
  <2>3. ensure' \in Refreshes(version')
    BY <1>1, <1>2 DEF Schedules!Restart
  <2>4. initialized' \in BOOLEAN /\ recent' \in BOOLEAN /\ called' \in 0..MaxInvalidations
    BY DEF Schedules!Restart, ScheduleInv, ScheduleTypes
  <2>. QED  BY <1>3, <2>1, <2>2, <2>3, <2>4 DEF ScheduleTypes
<1>5. VersionInv'
  <2>1. FirstRefresh' = 1 /\ AgainRefresh' = 0
    BY DEF Schedules!Restart, FirstRefresh, AgainRefresh
  <2>. QED  BY <1>1, <2>1, InvalidationsCounted, CountingTypes
            DEF Schedules!Restart, VersionInv, Schedules!Trouble
<1>6. AwaitInv' /\ FetchInv' /\ Schedules!ReadyIsUninvalidated'
  BY <1>2, <1>3 DEF Schedules!Restart, AwaitInv, FetchInv, Schedules!ReadyIsUninvalidated
<1>. QED  BY <1>4, <1>5, <1>6 DEF ScheduleInv

LEMMA ScheduleStarts == Schedules!Init => ScheduleInv
<1>. SUFFICES ASSUME Schedules!Init PROVE ScheduleInv
  OBVIOUS
<1>1. Schedules!NoRefresh \in Refreshes(0) /\ Schedules!NoRefresh.at = "idle"
  BY DEF Schedules!NoRefresh, Refreshes, Schedules!Stage
<1>2. ScheduleTypes
  <2>1. schedule \in ScheduleRows
    BY DEF Schedules!Init, ScheduleRows
  <2>2. /\ version \in Nat /\ settled \in 0..version /\ persisted \in 0..settled
        /\ lost \subseteq 1..settled
        /\ called \in 0..MaxInvalidations /\ troubles \in 0..MaxTroubles
    BY ScheduleConstants DEF Schedules!Init
  <2>4. initialized \in BOOLEAN /\ recent \in BOOLEAN
    BY DEF Schedules!Init
  <2>3. ensure \in Refreshes(version)
    BY <1>1 DEF Schedules!Init
  <2>. QED  BY <2>1, <2>2, <2>3, <2>4 DEF ScheduleTypes
<1>3. VersionInv
  BY DEF Schedules!Init, VersionInv, Within, FirstRefresh, AgainRefresh
<1>4. AwaitInv /\ FetchInv /\ Schedules!ReadyIsUninvalidated
  BY <1>1 DEF Schedules!Init, AwaitInv, FetchInv, Schedules!ReadyIsUninvalidated
<1>. QED  BY <1>2, <1>3, <1>4 DEF ScheduleInv

LEMMA ScheduleSteps == ScheduleInv /\ [Schedules!Next]_Schedules!vars => ScheduleInv'
<1>. SUFFICES ASSUME ScheduleInv, [Schedules!Next]_Schedules!vars PROVE ScheduleInv'
  OBVIOUS
<1>1. CASE Schedules!Refresh
  BY <1>1, EnsureKeepsInv, AwaitedKeepsInv, ScheduleStagesKeepInv, RowWritesKeepInv
  DEF Schedules!Refresh
<1>2. CASE Schedules!InvalidationSettles \/ Schedules!Invalidate \/ Schedules!Restart
  BY <1>2, InvalidationSettlesKeepsInv, InvalidateKeepsInv, ScheduleRestartKeepsInv
<1>3. CASE Schedules!Minute \/ Schedules!Age \/ UNCHANGED Schedules!vars
  <2>1. schedule' \in ScheduleRows /\ recent' \in BOOLEAN
    BY <1>3
    DEF Schedules!Minute, Schedules!Age, Schedules!vars, Schedules!rowVars, ScheduleInv,
        ScheduleTypes, ScheduleRows
  <2>2. schedule'.status = schedule.status /\ schedule'.of = schedule.of
    BY <1>3
    DEF Schedules!Minute, Schedules!Age, Schedules!vars, Schedules!rowVars, ScheduleInv,
        ScheduleTypes, ScheduleRows
  <2>3. UNCHANGED <<version, settled, lost, persisted, ensure, initialized, called, troubles>>
    BY <1>3 DEF Schedules!Minute, Schedules!Age, Schedules!vars, Schedules!rowVars
  <2>. QED
    BY <2>1, <2>2, <2>3
    DEF ScheduleInv, ScheduleTypes, VersionInv, FirstRefresh, AgainRefresh, AwaitInv, FetchInv,
        Schedules!ReadyIsUninvalidated
<1>. QED  BY <1>1, <1>2, <1>3 DEF Schedules!Next, Schedules!Elapsed, Schedules!vars

(* The other parts leave its variables alone.                              *)
LEMMA SchedulesImplemented == [Next]_vars => [Schedules!Next]_Schedules!vars
BY DEF Next, vars, scheduleVars, Schedules!vars

LEMMA ScheduleHolds == Spec => []ScheduleInv
<1>1. Init => ScheduleInv
  BY ScheduleStarts DEF Init
<1>2. ScheduleInv /\ [Next]_vars => ScheduleInv'
  BY ScheduleSteps, SchedulesImplemented DEF Schedules!vars
<1>. QED  BY <1>1, <1>2, PTL DEF Spec

(* The types of the state, with the bound on the invalidations.            *)
LEMMA ScheduleTypeOK == ScheduleInv => Schedules!TypeOK
<1>. SUFFICES ASSUME ScheduleInv PROVE Schedules!TypeOK
  OBVIOUS
<1>1. version <= MaxInvalidations + 2 * MaxTroubles + 1
  <2>1. ASSUME NEW v \in Nat, NEW f \in {0, 1}, NEW a \in {0, 1},
               NEW c \in 0..MaxInvalidations, NEW t \in 0..MaxTroubles, Within(v, f, a, c, t)
        PROVE  v <= MaxInvalidations + 2 * MaxTroubles + 1
    BY <2>1, ScheduleConstants DEF Within
  <2>. QED  BY <2>1, CountingTypes DEF ScheduleInv, ScheduleTypes
<1>. QED  BY <1>1 DEF ScheduleInv, ScheduleTypes, Schedules!TypeOK, ScheduleRows, Refreshes

-----------------------------------------------------------------------------
(* The readers (auto-bootstrap.ts, read-recovery-session.ts,               *)
(* publication-fence.ts)                                                   *)
LEMMA RecoveryConstants ==
    MaxTicks \in Nat \ {0} /\ MaxControls \in Nat /\ MaxFaults \in Nat
BY ServicesAssumption DEF Readers!RecoveryAssumption

Procs == [stopped : BOOLEAN, closed : BOOLEAN, needed : BOOLEAN, revoked : BOOLEAN,
          cooling : BOOLEAN, flight : Readers!Stage, fresh : BOOLEAN, probing : BOOLEAN,
          alive : BOOLEAN, gap : BOOLEAN, connected : BOOLEAN, subscribed : BOOLEAN,
          paused : BOOLEAN, writes : Seq(BOOLEAN), native : Readers!Write,
          invalid : {"done", "pending", "failed"}]

OperatorCalls == [kind : {"start", "stop", "shutdown"}, at : {"queued", "write", "drain", "retire"}]

ReaderTypes ==
    /\ auto \in BOOLEAN /\ durable \in BOOLEAN /\ intact \in BOOLEAN
    /\ proc \in Procs /\ Len(proc.writes) <= MaxTicks
    /\ controls \in Seq(OperatorCalls) /\ Len(controls) <= asked
    /\ asked \in 0..MaxControls /\ faults \in 0..MaxFaults

(* Nothing of an earlier session is on its way to storage.                 *)
Clean(p) == p.native # "retired" /\ \A i \in DOMAIN p.writes : p.writes[i]

(* Readers that are neither connected nor being opened.                    *)
Quiet(p) == ~p.subscribed /\ ~p.fresh /\ ~p.connected /\ ~p.probing

(* A process that was revoked or stopped is quiet; what is open or opened  *)
(* is clean once the drain is over; its readings are unbroken, but for a   *)
(* gap that the next look at the clock will notice.                        *)
SafeReaders(p, unbroken) ==
    /\ p.revoked \/ p.stopped \/ p.closed => Quiet(p)
    /\ p.subscribed \/ (~p.revoked /\ p.flight # "drain") => Clean(p)
    /\ p.probing => p.connected
    /\ p.gap /\ ~p.revoked => Readers!Watching(p)
    /\ p.fresh \/ p.connected => unbroken \/ p.gap

(* A stop that is durable, or is being written, has stopped the process;   *)
(* a session is retired after its flight and its probe; calls wait.        *)
OperatorInv ==
    /\ Readers!Call("stop", "write") => proc.stopped
    /\ controls # <<>> /\ controls[1].at = "retire" => ~proc.probing /\ proc.flight = "none"
    /\ \A i \in DOMAIN controls : i # 1 => controls[i].at = "queued"
    /\ durable => proc.stopped

ReaderInv ==
    /\ ReaderTypes
    /\ SafeReaders(proc, intact)
    /\ OperatorInv

-----------------------------------------------------------------------------
(* The methods                                                             *)

LEMMA FlagSequence ==
  ASSUME NEW n \in Nat, NEW ws \in [1..n -> BOOLEAN]
  PROVE  ws \in Seq(BOOLEAN) /\ Len(ws) = n
OBVIOUS

(* What is invalidated is quiet, and forgets nothing else.                 *)
Revoked(p, q) ==
    /\ q \in Procs /\ q.revoked /\ Quiet(q)
    /\ q.stopped = p.stopped /\ q.closed = p.closed /\ q.flight = p.flight
    /\ Len(q.writes) = Len(p.writes)
    /\ q.alive => p.alive
    /\ p.needed => q.needed

LEMMA Invalidating ==
  ASSUME NEW p \in Procs, p.revoked => Quiet(p)
  PROVE  Revoked(p, Readers!Invalidated(p))
<1>1. CASE p.revoked
  BY <1>1 DEF Revoked, Readers!Invalidated
<1>2. CASE ~p.revoked
  <2>. DEFINE r == [p EXCEPT !.revoked = TRUE, !.needed = TRUE, !.fresh = FALSE,
                             !.alive = FALSE]
              ws == [i \in DOMAIN p.writes |-> FALSE]
              nat == IF p.native = "none" THEN "none" ELSE "retired"
              cool == p.cooling \/ (p.probing /\ ~p.stopped /\ ~p.closed)
              s == [r EXCEPT !.paused = TRUE, !.writes = ws, !.native = nat,
                             !.connected = FALSE]
              q == [s EXCEPT !.subscribed = FALSE, !.invalid = "pending", !.probing = FALSE,
                             !.cooling = cool]
  <2>1. /\ r \in Procs /\ r.writes = p.writes /\ r.native = p.native /\ r.stopped = p.stopped
        /\ r.closed = p.closed /\ r.flight = p.flight /\ r.revoked /\ r.needed
        /\ ~r.fresh /\ ~r.alive /\ r.cooling = p.cooling /\ r.probing = p.probing
    BY DEF Procs
  <2>2. Readers!Invalidated(p) = q
    <3>1. Readers!Invalidated(p) = [r EXCEPT !.paused = TRUE, !.writes = ws, !.native = nat,
                                     !.connected = FALSE, !.subscribed = FALSE,
                                     !.invalid = "pending", !.probing = FALSE,
                                     !.cooling = cool]
      BY <1>2, <2>1 DEF Readers!Invalidated, Readers!ReadsInvalidated
    <3>. HIDE DEF r, ws, nat, cool
    <3>. QED  BY <2>1, <3>1 DEF Procs
  <2>3. ws \in Seq(BOOLEAN) /\ Len(ws) = Len(p.writes)
    <3>1. p.writes \in Seq(BOOLEAN)
      BY DEF Procs
    <3>2. Len(p.writes) \in Nat /\ DOMAIN p.writes = 1..Len(p.writes)
      BY <3>1
    <3>3. ws \in [1..Len(p.writes) -> BOOLEAN]
      BY <3>2
    <3>. HIDE DEF ws
    <3>. QED  BY <3>2, <3>3, FlagSequence
  <2>4. nat \in Readers!Write /\ cool \in BOOLEAN
    BY DEF Readers!Write
  <2>. HIDE DEF r, ws, nat, cool
  <2>5. q \in Procs
    <3>1. s \in Procs
      BY <2>1, <2>3, <2>4 DEF Procs
    <3>. HIDE DEF s
    <3>. QED  BY <2>4, <3>1 DEF Procs
  <2>6. /\ ~q.subscribed /\ ~q.connected /\ ~q.probing /\ q.writes = ws
        /\ q.revoked = r.revoked /\ q.fresh = r.fresh /\ q.stopped = r.stopped
        /\ q.closed = r.closed /\ q.flight = r.flight /\ q.alive = r.alive
        /\ q.needed = r.needed
    BY <2>1 DEF Procs
  <2>. HIDE DEF q
  <2>. QED  BY <2>1, <2>2, <2>3, <2>5, <2>6 DEF Revoked, Quiet
<1>. QED  BY <1>1, <1>2 DEF Procs

LEMMA QuietIsSafe ==
  ASSUME NEW p \in Procs, Quiet(p), p.revoked, NEW unbroken \in BOOLEAN
  PROVE  SafeReaders(p, unbroken)
BY DEF Quiet, SafeReaders

(* The look at the clock: a gap in what is watched is noticed.             *)
LEMMA Checking ==
  ASSUME NEW p \in Procs, p.revoked => Quiet(p)
  PROVE  \/ Readers!Checked(p) = p /\ ~(Readers!Watching(p) /\ p.gap)
         \/ /\ Revoked(p, Readers!Checked(p)) /\ ~Readers!Checked(p).gap
            /\ Readers!Watching(p) /\ p.gap
<1>1. CASE ~(Readers!Watching(p) /\ p.gap)
  BY <1>1 DEF Readers!Checked
<1>2. CASE Readers!Watching(p) /\ p.gap
  <2>. DEFINE r == [p EXCEPT !.gap = FALSE]
  <2>1. /\ r \in Procs /\ ~r.gap /\ r.stopped = p.stopped /\ r.closed = p.closed
        /\ r.flight = p.flight /\ r.writes = p.writes /\ r.alive = p.alive
        /\ r.revoked = p.revoked /\ r.subscribed = p.subscribed /\ r.fresh = p.fresh
        /\ r.connected = p.connected /\ r.probing = p.probing /\ r.needed = p.needed
    BY DEF Procs
  <2>2. Readers!Checked(p) = Readers!Invalidated(r)
    BY <1>2 DEF Readers!Checked
  <2>. HIDE DEF r
  <2>3. Revoked(r, Readers!Invalidated(r))
    BY <2>1, Invalidating DEF Quiet
  <2>4. ~Readers!Invalidated(r).gap
    BY <2>1 DEF Readers!Invalidated, Readers!ReadsInvalidated, Procs
  <2>. QED  BY <1>2, <2>1, <2>2, <2>3, <2>4 DEF Revoked
<1>. QED  BY <1>1, <1>2

(* The catch of launch().                                                  *)
LEMMA Failing ==
  ASSUME NEW p \in Procs, p.revoked => Quiet(p)
  PROVE  Readers!Failed(p).flight = "none" /\ Readers!Failed(p).needed
         /\ Revoked([p EXCEPT !.flight = "none"], Readers!Failed(p))
<1>. DEFINE r == [p EXCEPT !.needed = TRUE]
            s == Readers!Invalidated(r)
<1>1. /\ r \in Procs /\ r.needed /\ r.stopped = p.stopped /\ r.closed = p.closed
      /\ r.flight = p.flight /\ r.writes = p.writes /\ r.alive = p.alive
      /\ r.revoked = p.revoked /\ r.subscribed = p.subscribed /\ r.fresh = p.fresh
      /\ r.connected = p.connected /\ r.probing = p.probing
  BY DEF Procs
<1>. HIDE DEF r
<1>2. Revoked(r, s)
  BY <1>1, Invalidating DEF Quiet
<1>3. Readers!Failed(p) = [s EXCEPT !.cooling = TRUE, !.flight = "none", !.fresh = FALSE]
  BY DEF Readers!Failed, r
<1>. HIDE DEF s
<1>4. s \in Procs /\ "none" \in Readers!Stage
  BY <1>2 DEF Revoked, Readers!Stage
<1>. DEFINE f == Readers!Failed(p)
<1>. HIDE DEF f
<1>5. f = [s EXCEPT !.cooling = TRUE, !.flight = "none", !.fresh = FALSE]
  BY <1>3 DEF f
<1>6. f \in Procs
  BY <1>4, <1>5 DEF Procs
<1>7. /\ Readers!Failed(p).flight = "none" /\ ~Readers!Failed(p).fresh
      /\ Readers!Failed(p).stopped = s.stopped /\ Readers!Failed(p).closed = s.closed
      /\ Readers!Failed(p).writes = s.writes /\ Readers!Failed(p).alive = s.alive
      /\ Readers!Failed(p).revoked = s.revoked /\ Readers!Failed(p).subscribed = s.subscribed
      /\ Readers!Failed(p).connected = s.connected /\ Readers!Failed(p).probing = s.probing
      /\ Readers!Failed(p).needed = s.needed
  BY <1>3, <1>4 DEF Procs
<1>8. LET o == [p EXCEPT !.flight = "none"] IN
      /\ o.stopped = p.stopped /\ o.closed = p.closed /\ o.flight = "none"
      /\ o.writes = p.writes /\ o.alive = p.alive /\ o.needed = p.needed
  BY DEF Procs
<1>. QED  BY <1>1, <1>2, <1>6, <1>7, <1>8 DEF Revoked, Quiet, f

(* A stop.                                                                 *)
LEMMA Inhibiting ==
  ASSUME NEW p \in Procs, p.revoked => Quiet(p)
  PROVE  /\ Revoked([p EXCEPT !.stopped = TRUE], Readers!Inhibited(p))
         /\ Readers!Inhibited(p) \in Procs
         /\ Readers!Inhibited(p).revoked /\ Readers!Inhibited(p).stopped
         /\ Quiet(Readers!Inhibited(p)) /\ Readers!Inhibited(p).flight = p.flight
         /\ Readers!Inhibited(p).closed = p.closed
         /\ Len(Readers!Inhibited(p).writes) = Len(p.writes)
         /\ p.needed => Readers!Inhibited(p).needed
         /\ Readers!Inhibited(p).alive => p.alive
<1>. DEFINE r == [p EXCEPT !.stopped = TRUE]
<1>1. /\ r \in Procs /\ r.stopped /\ r.closed = p.closed /\ r.needed = p.needed
      /\ r.flight = p.flight /\ r.writes = p.writes /\ r.alive = p.alive
      /\ r.revoked = p.revoked /\ r.subscribed = p.subscribed /\ r.fresh = p.fresh
      /\ r.connected = p.connected /\ r.probing = p.probing
  BY DEF Procs
<1>2. Readers!Inhibited(p) = Readers!Invalidated(r)
  BY DEF Readers!Inhibited
<1>. HIDE DEF r
<1>3. Revoked(r, Readers!Inhibited(p))
  BY <1>1, <1>2, Invalidating DEF Quiet
<1>4. /\ Readers!Inhibited(p) \in Procs
      /\ Readers!Inhibited(p).revoked /\ Readers!Inhibited(p).stopped
      /\ Quiet(Readers!Inhibited(p)) /\ Readers!Inhibited(p).flight = p.flight
      /\ Readers!Inhibited(p).closed = p.closed
      /\ Len(Readers!Inhibited(p).writes) = Len(p.writes)
      /\ p.needed => Readers!Inhibited(p).needed
      /\ Readers!Inhibited(p).alive => p.alive
  BY <1>1, <1>3 DEF Revoked
<1>. QED  BY <1>3, <1>4 DEF r

(* A launch: what is subscribed meanwhile is clean.                        *)
LEMMA Launching ==
  ASSUME NEW p \in Procs, ~p.stopped, ~p.closed,
         p.subscribed => Clean(p), p.probing => p.connected
  PROVE  /\ Readers!Launched(p) \in Procs /\ SafeReaders(Readers!Launched(p), TRUE)
         /\ Readers!Launched(p).stopped = p.stopped /\ Readers!Launched(p).writes = p.writes
         /\ Readers!Launched(p).needed = p.needed /\ Readers!Launched(p).alive = p.alive
         /\ Readers!Launched(p).probing = p.probing /\ Readers!Launched(p).flight = "drain"
<1>1. /\ Readers!Launched(p) \in Procs /\ Readers!Launched(p).flight = "drain"
      /\ ~Readers!Launched(p).revoked /\ ~Readers!Launched(p).gap
      /\ Readers!Launched(p).stopped = p.stopped /\ Readers!Launched(p).closed = p.closed
      /\ Readers!Launched(p).writes = p.writes /\ Readers!Launched(p).native = p.native
      /\ Readers!Launched(p).needed = p.needed /\ Readers!Launched(p).alive = p.alive
      /\ Readers!Launched(p).probing = p.probing /\ Readers!Launched(p).connected = p.connected
      /\ Readers!Launched(p).subscribed = p.subscribed
  BY DEF Readers!Launched, Procs, Readers!Stage
<1>. QED  BY <1>1 DEF SafeReaders, Clean

-----------------------------------------------------------------------------
(* The actions                                                             *)

(* A session is certified, a probe counts and an event is admitted on      *)
(* unbroken readings only.                                                 *)
Evident ==
    /\ proc.needed /\ ~proc'.needed => intact
    /\ ~proc.alive /\ proc'.alive => intact
    /\ Len(proc'.writes) > Len(proc.writes) => intact

ReadersKept == ReaderInv' /\ Evident

LEMMA KnownReaders ==
  ASSUME ReaderInv
  PROVE  /\ proc \in Procs /\ intact \in BOOLEAN /\ SafeReaders(proc, intact)
         /\ proc.revoked \/ proc.stopped \/ proc.closed => Quiet(proc)
         /\ Len(proc.writes) \in Nat /\ Len(proc.writes) <= MaxTicks /\ MaxTicks \in Nat
<1>1. proc \in Procs /\ intact \in BOOLEAN /\ SafeReaders(proc, intact)
  BY DEF ReaderInv, ReaderTypes
<1>2. proc.writes \in Seq(BOOLEAN)
  BY <1>1 DEF Procs
<1>. QED  BY <1>1, <1>2, RecoveryConstants DEF ReaderInv, ReaderTypes, SafeReaders

(* A step of the process that leaves the operator's calls alone.           *)
LEMMA ProcSteps ==
  ASSUME ReaderInv, proc' \in Procs, Len(proc'.writes) <= MaxTicks, intact' \in BOOLEAN,
         SafeReaders(proc', intact'), proc.stopped => proc'.stopped,
         controls # <<>> => /\ proc'.probing => proc.probing
                            /\ proc.flight = "none" => proc'.flight = "none",
         UNCHANGED <<auto, durable, controls, asked>>,
         faults' = faults \/ Readers!Fault,
         Evident
  PROVE  ReadersKept
<1>1. ReaderTypes'
  BY RecoveryConstants DEF ReaderInv, ReaderTypes, Readers!Fault
<1>2. SafeReaders(proc, intact)'
  BY DEF SafeReaders, Readers!Watching, Clean, Quiet
<1>3. OperatorInv'
  BY DEF ReaderInv, OperatorInv, Readers!Call
<1>. QED  BY <1>1, <1>2, <1>3 DEF ReaderInv, ReadersKept

LEMMA RevokedSteps ==
  ASSUME ReaderInv, proc' \in Procs, proc'.revoked, Quiet(proc'),
         proc'.stopped = proc.stopped, Len(proc'.writes) \in Nat,
         Len(proc'.writes) <= Len(proc.writes),
         proc'.flight = proc.flight \/ proc'.flight = "none",
         proc.needed => proc'.needed, proc'.alive => proc.alive,
         intact' \in BOOLEAN, UNCHANGED <<auto, durable, controls, asked>>,
         faults' = faults \/ Readers!Fault
  PROVE  ReadersKept
<1>1. SafeReaders(proc', intact')
  BY QuietIsSafe
<1>2. Evident
  BY KnownReaders DEF Evident
<1>. QED  BY <1>1, <1>2, KnownReaders, ProcSteps DEF Quiet

LEMMA CheckedProc ==
  ASSUME ReaderInv
  PROVE  \/ Readers!Checked(proc) = proc /\ ~(Readers!Watching(proc) /\ proc.gap)
         \/ /\ Revoked(proc, Readers!Checked(proc)) /\ ~Readers!Checked(proc).gap
            /\ Readers!Watching(proc) /\ proc.gap
BY KnownReaders, Checking

LEMMA ReaderTickKeeps ==
  ASSUME ReaderInv, Readers!Tick
  PROVE  ReadersKept
<1>. DEFINE c == Readers!Checked(proc)
            p == [c EXCEPT !.gap = FALSE]
<1>1. /\ c \in Procs /\ Readers!Watching(c) /\ SafeReaders(c, intact)
      /\ proc.stopped = c.stopped /\ Len(c.writes) = Len(proc.writes)
      /\ c.flight = proc.flight
      /\ proc.needed => c.needed
      /\ c.alive => proc.alive
      /\ c.gap = FALSE
  <2>1. CASE c = proc /\ ~(Readers!Watching(proc) /\ proc.gap)
    BY <2>1, KnownReaders DEF Readers!Tick, Procs
  <2>2. CASE Revoked(proc, c) /\ ~c.gap /\ Readers!Watching(proc)
    <3>1. c \in Procs /\ c.gap = FALSE
      BY <2>2 DEF Revoked, Procs
    <3>. QED  BY <2>2, <3>1, KnownReaders, QuietIsSafe DEF Revoked, Readers!Watching
  <2>. QED  BY <2>1, <2>2, CheckedProc
<1>2. c = p
  BY <1>1 DEF Procs
<1>3. UNCHANGED <<auto, durable, controls, asked, faults>>
  BY DEF Readers!Tick
<1>. HIDE DEF c
<1>4. CASE proc' = p /\ UNCHANGED intact
  <2>1. proc' = c
    BY <1>2, <1>4
  <2>2. Evident /\ (proc'.probing => proc.probing)
    BY <1>1, <2>1, KnownReaders, CheckedProc DEF Evident, Revoked, Quiet, c
  <2>. QED  BY <1>1, <1>3, <1>4, <2>1, <2>2, KnownReaders, ProcSteps
<1>5. CASE /\ controls = <<>> /\ Readers!Ready(p) /\ UNCHANGED intact
           /\ \E due \in BOOLEAN : proc' = [p EXCEPT !.probing = due]
  <2>. PICK due \in BOOLEAN : proc' = [c EXCEPT !.probing = due]
    BY <1>2, <1>5
  <2>1. c.connected
    BY <1>2, <1>5 DEF Readers!Ready
  <2>2. /\ proc' \in Procs /\ proc'.connected /\ proc'.gap = FALSE
        /\ proc'.stopped = c.stopped /\ proc'.closed = c.closed /\ proc'.revoked = c.revoked
        /\ proc'.writes = c.writes /\ proc'.needed = c.needed /\ proc'.alive = c.alive
        /\ proc'.flight = c.flight /\ proc'.subscribed = c.subscribed
        /\ proc'.native = c.native /\ proc'.fresh = c.fresh
    BY <1>1, <2>1 DEF Procs
  <2>3. SafeReaders(proc', intact)
    BY <1>1, <2>1, <2>2 DEF SafeReaders, Quiet, Clean
  <2>4. Evident
    BY <1>1, <2>2, KnownReaders DEF Evident
  <2>. QED  BY <1>1, <1>3, <1>5, <2>2, <2>3, <2>4, KnownReaders, ProcSteps
<1>6. CASE controls = <<>> /\ proc' = Readers!Launched(p) /\ intact' = TRUE
  <2>1. proc' = Readers!Launched(c)
    BY <1>2, <1>6
  <2>2. /\ proc' \in Procs /\ SafeReaders(proc', TRUE)
        /\ proc'.stopped = c.stopped /\ proc'.writes = c.writes
        /\ proc'.needed = c.needed /\ proc'.alive = c.alive
    BY <1>1, <2>1, Launching DEF SafeReaders, Readers!Watching
  <2>3. Evident
    BY <1>1, <2>2, KnownReaders DEF Evident
  <2>. QED  BY <1>1, <1>3, <1>6, <2>2, <2>3, KnownReaders, ProcSteps
<1>. QED  BY <1>4, <1>5, <1>6 DEF Readers!Tick, c

LEMMA CoolKeeps ==
  ASSUME ReaderInv, Readers!Cool
  PROVE  ReadersKept
<1>1. /\ proc' \in Procs /\ proc'.revoked = proc.revoked /\ proc'.stopped = proc.stopped
      /\ proc'.closed = proc.closed /\ proc'.writes = proc.writes
      /\ proc'.native = proc.native /\ proc'.flight = proc.flight
      /\ proc'.probing = proc.probing /\ proc'.connected = proc.connected
      /\ proc'.subscribed = proc.subscribed /\ proc'.fresh = proc.fresh
      /\ proc'.gap = proc.gap /\ proc'.needed = proc.needed /\ proc'.alive = proc.alive
  BY KnownReaders DEF Readers!Cool, Procs
<1>2. SafeReaders(proc', intact)
  BY <1>1, KnownReaders DEF SafeReaders, Quiet, Clean, Readers!Watching
<1>3. Evident
  BY <1>1, KnownReaders DEF Evident
<1>4. UNCHANGED <<auto, durable, controls, intact, asked, faults>>
  BY DEF Readers!Cool
<1>. QED  BY <1>1, <1>2, <1>3, <1>4, KnownReaders, ProcSteps

LEMMA ProbeKeeps ==
  ASSUME ReaderInv, Readers!ProbeSettles
  PROVE  ReadersKept
<1>. DEFINE r == [proc EXCEPT !.probing = FALSE]
            c == Readers!Checked(r)
            q == Readers!Invalidated(r)
<1>1. /\ r \in Procs /\ r.revoked = proc.revoked /\ r.stopped = proc.stopped
      /\ r.closed = proc.closed /\ r.writes = proc.writes
      /\ r.native = proc.native /\ r.flight = proc.flight
      /\ r.probing = FALSE /\ r.connected = proc.connected
      /\ r.subscribed = proc.subscribed /\ r.fresh = proc.fresh
      /\ r.gap = proc.gap /\ r.needed = proc.needed /\ r.alive = proc.alive
  BY KnownReaders DEF Procs
<1>2. UNCHANGED <<auto, durable, controls, intact, asked>> /\ proc.probing
      /\ (faults' = faults \/ Readers!Fault)
  BY DEF Readers!ProbeSettles
<1>3. /\ r.revoked => Quiet(r)
      /\ SafeReaders(r, intact)
  BY <1>1, KnownReaders DEF SafeReaders, Quiet, Clean, Readers!Watching
<1>4. auto \in BOOLEAN
  BY DEF ReaderInv, ReaderTypes
<1>5. \/ proc' = [c EXCEPT !.alive = c.alive \/ (Readers!Watching(c) /\ Readers!Continuous(c))]
      \/ proc' = [q EXCEPT !.cooling = TRUE]
  BY DEF Readers!ProbeSettles
<1>. HIDE DEF r
<1>6. CASE proc' = [c EXCEPT !.alive = c.alive \/ (Readers!Watching(c) /\ Readers!Continuous(c))]
  <2>1. c \in Procs
    BY <1>1, <1>3, Checking DEF Revoked
  <2>2. (c.alive \/ (Readers!Watching(c) /\ Readers!Continuous(c))) \in BOOLEAN
    BY <2>1, <1>4 DEF Procs, Readers!Watching, Readers!Continuous
  <2>3. PICK b \in BOOLEAN : /\ b = (c.alive \/ (Readers!Watching(c) /\ Readers!Continuous(c)))
                             /\ proc' = [c EXCEPT !.alive = b]
    BY <1>6, <2>2
  <2>4. /\ proc' \in Procs /\ proc'.revoked = c.revoked /\ proc'.stopped = c.stopped
        /\ proc'.closed = c.closed /\ proc'.writes = c.writes
        /\ proc'.native = c.native /\ proc'.flight = c.flight
        /\ proc'.probing = c.probing /\ proc'.connected = c.connected
        /\ proc'.subscribed = c.subscribed /\ proc'.fresh = c.fresh
        /\ proc'.gap = c.gap /\ proc'.needed = c.needed /\ proc'.alive = b
    BY <2>1, <2>3 DEF Procs
  <2>. HIDE DEF c
  <2>5. CASE c = r /\ ~(Readers!Watching(r) /\ r.gap)
    <3>1. SafeReaders(proc', intact)
      BY <1>1, <1>3, <2>4, <2>5 DEF SafeReaders, Quiet, Clean, Readers!Watching
    <3>2. b /\ ~proc.alive => intact
      BY <1>1, <1>2, <2>3, <2>5, KnownReaders
      DEF SafeReaders, Readers!Continuous, Readers!Watching, Quiet
    <3>3. Evident
      BY <1>1, <2>4, <2>5, <3>2, KnownReaders DEF Evident
    <3>. QED  BY <1>1, <1>2, <2>4, <2>5, <3>1, <3>3, KnownReaders, ProcSteps
  <2>6. CASE Revoked(r, c) /\ Readers!Watching(r)
    <3>1. b => proc.alive
      BY <1>1, <2>3, <2>6 DEF Revoked, Readers!Continuous, Readers!Watching
    <3>2. proc'.revoked /\ Quiet(proc')
      BY <2>4, <2>6 DEF Revoked, Quiet
    <3>3. /\ proc'.stopped = proc.stopped /\ Len(proc'.writes) = Len(proc.writes)
          /\ proc'.flight = proc.flight
          /\ proc.needed => proc'.needed
          /\ proc'.alive => proc.alive
      BY <1>1, <2>4, <2>6, <3>1 DEF Revoked
    <3>4. Len(proc'.writes) \in Nat /\ Len(proc'.writes) <= Len(proc.writes) /\ intact' \in BOOLEAN
      BY <1>2, <3>3, KnownReaders
    <3>. QED  BY <1>2, <2>4, <3>2, <3>3, <3>4, RevokedSteps
  <2>. QED  BY <1>1, <1>3, <2>5, <2>6, Checking DEF c
<1>7. CASE proc' = [q EXCEPT !.cooling = TRUE]
  <2>1. Revoked(r, q)
    BY <1>1, <1>3, Invalidating
  <2>. HIDE DEF q
  <2>2. /\ proc' \in Procs /\ proc'.revoked = q.revoked /\ proc'.stopped = q.stopped
        /\ proc'.writes = q.writes /\ proc'.flight = q.flight
        /\ proc'.probing = q.probing /\ proc'.connected = q.connected
        /\ proc'.subscribed = q.subscribed /\ proc'.fresh = q.fresh
        /\ proc'.needed = q.needed /\ proc'.alive = q.alive
    BY <1>7, <2>1 DEF Procs, Revoked
  <2>. QED  BY <1>1, <1>2, <2>1, <2>2, KnownReaders, RevokedSteps DEF Revoked, Quiet
<1>. QED  BY <1>5, <1>6, <1>7

-----------------------------------------------------------------------------
(* The flight                                                              *)

(* A bootstrap that is current at an await is not revoked, and nothing has *)
(* broken its readings since the launch.                                   *)
OnItsWay(p, unbroken) ==
    ~p.revoked /\ ~p.gap /\ ~p.stopped /\ ~p.closed /\ p.fresh /\ unbroken

LEMMA CurrentIsOnItsWay ==
  ASSUME ReaderInv, Readers!Current(Readers!Checked(proc))
  PROVE  Readers!Checked(proc) = proc /\ OnItsWay(proc, intact)
<1>. DEFINE c == Readers!Checked(proc)
<1>1. Readers!Current(c)
  OBVIOUS
<1>. QED  BY <1>1, KnownReaders, CheckedProc
          DEF Readers!Current, Revoked, Quiet, SafeReaders, OnItsWay, Readers!Watching

LEMMA FailedKeeps ==
  ASSUME ReaderInv, proc' = Readers!Failed(Readers!Checked(proc)),
         intact' = intact, UNCHANGED <<auto, durable, controls, asked>>,
         faults' = faults \/ Readers!Fault
  PROVE  ReadersKept
<1>. DEFINE c == Readers!Checked(proc)
            o == [c EXCEPT !.flight = "none"]
<1>1. /\ c \in Procs /\ (c.revoked => Quiet(c))
      /\ c.stopped = proc.stopped /\ Len(c.writes) = Len(proc.writes)
      /\ c.alive => proc.alive
  BY KnownReaders, CheckedProc DEF Revoked
<1>2. proc' = Readers!Failed(c)
  OBVIOUS
<1>. HIDE DEF c
<1>3. /\ o.stopped = c.stopped /\ o.writes = c.writes /\ o.alive = c.alive
  BY <1>1 DEF Procs
<1>4. proc'.flight = "none" /\ proc'.needed /\ Revoked(o, proc')
  BY <1>1, <1>2, Failing
<1>. HIDE DEF o
<1>5. /\ proc' \in Procs /\ proc'.revoked /\ Quiet(proc')
      /\ proc'.stopped = proc.stopped /\ Len(proc'.writes) = Len(proc.writes)
      /\ proc'.alive => proc.alive
  BY <1>1, <1>3, <1>4 DEF Revoked
<1>6. Len(proc'.writes) \in Nat /\ Len(proc'.writes) <= Len(proc.writes)
  BY <1>5, KnownReaders
<1>. QED  BY <1>4, <1>5, <1>6, KnownReaders, RevokedSteps

LEMMA AwaitKeeps ==
  ASSUME ReaderInv, NEW stage, NEW next, Readers!Await(stage, next),
         OnItsWay(proc, intact) /\ proc.flight = stage /\ proc' = next
           /\ UNCHANGED <<auto, durable, controls, intact, asked, faults>>
           => ReadersKept
  PROVE  ReadersKept
<1>1. /\ proc.flight = stage /\ UNCHANGED <<auto, durable, controls, intact, asked>>
      /\ \/ Readers!Current(Readers!Checked(proc)) /\ proc' = next /\ UNCHANGED faults
         \/ proc' = Readers!Failed(Readers!Checked(proc)) /\ (faults' = faults \/ Readers!Fault)
  BY DEF Readers!Await
<1>2. CASE Readers!Current(Readers!Checked(proc)) /\ proc' = next /\ UNCHANGED faults
  BY <1>1, <1>2, CurrentIsOnItsWay
<1>3. CASE proc' = Readers!Failed(Readers!Checked(proc)) /\ (faults' = faults \/ Readers!Fault)
  BY <1>1, <1>3, FailedKeeps
<1>. QED  BY <1>1, <1>2, <1>3

LEMMA OnwardKeeps ==
  ASSUME ReaderInv, OnItsWay(proc, intact),
         proc.flight # "none", proc' \in Procs, Clean(proc'),
         ~proc'.revoked, ~proc'.gap, proc'.stopped = proc.stopped,
         proc'.closed = proc.closed, proc'.writes = proc.writes,
         proc'.alive = proc.alive, proc'.probing = proc.probing,
         proc.connected => proc'.connected,
         UNCHANGED <<auto, durable, controls, intact, asked, faults>>
  PROVE  ReadersKept
<1>1. SafeReaders(proc', intact)
  BY KnownReaders DEF OnItsWay, SafeReaders
<1>2. Evident
  BY KnownReaders DEF OnItsWay, Evident
<1>. QED  BY <1>1, <1>2, KnownReaders, ProcSteps DEF OnItsWay

LEMMA AdvanceKeeps ==
  ASSUME ReaderInv, Readers!Advance
  PROVE  ReadersKept
<1>. DEFINE p == Readers!Checked(proc)
<1>1. OnItsWay(proc, intact) => p = proc
  BY KnownReaders, CheckedProc DEF OnItsWay, Revoked
<1>2. OnItsWay(proc, intact) /\ proc.flight # "drain" => Clean(proc)
  BY KnownReaders DEF OnItsWay, SafeReaders
<1>3. /\ proc \in Procs
      /\ \A st \in {"connect", "probe", "prepare", "refresh", "none"} : st \in Readers!Stage
  BY KnownReaders DEF Readers!Stage
<1>4. CASE /\ Readers!DrainEnds(proc) \/ Readers!Overtaken(proc)
           /\ Readers!Await("drain", Readers!ToConnect(p))
  <2>1. ASSUME OnItsWay(proc, intact), proc.flight = "drain", proc' = Readers!ToConnect(p),
               UNCHANGED <<auto, durable, controls, intact, asked, faults>>
        PROVE  ReadersKept
    <3>1. CASE proc.invalid = "failed"
      <4>1. proc' = Readers!Failed(p)
        BY <1>1, <2>1, <3>1 DEF Readers!ToConnect
      <4>. QED  BY <2>1, <4>1, FailedKeeps
    <3>2. CASE proc.invalid # "failed"
      <4>1. proc.writes = <<>> /\ proc.native = "none"
        BY <1>4, <2>1, <3>2 DEF Readers!DrainEnds, Readers!Drained, Readers!Overtaken, OnItsWay
      <4>2. proc' = [proc EXCEPT !.flight = "connect"]
        BY <1>1, <2>1, <3>2 DEF Readers!ToConnect
      <4>3. /\ proc' \in Procs /\ proc'.writes = proc.writes /\ proc'.native = proc.native
            /\ proc'.revoked = proc.revoked /\ proc'.gap = proc.gap
            /\ proc'.stopped = proc.stopped /\ proc'.closed = proc.closed
            /\ proc'.alive = proc.alive /\ proc'.probing = proc.probing
            /\ proc'.connected = proc.connected
        BY <1>3, <4>2 DEF Procs
      <4>4. Clean(proc')
        BY <4>1, <4>3 DEF Clean
      <4>. QED  BY <2>1, <4>3, <4>4, OnwardKeeps DEF OnItsWay
    <3>. QED  BY <3>1, <3>2
  <2>. QED  BY <1>4, <2>1, AwaitKeeps
<1>5. CASE Readers!Await("connect", Readers!ToProbe(p))
  <2>1. ASSUME OnItsWay(proc, intact), proc.flight = "connect", proc' = Readers!ToProbe(p),
               UNCHANGED <<auto, durable, controls, intact, asked, faults>>
        PROVE  ReadersKept
    <3>1. proc' = [proc EXCEPT !.flight = "probe", !.connected = TRUE]
      BY <1>1, <2>1 DEF Readers!ToProbe
    <3>2. /\ proc' \in Procs /\ proc'.writes = proc.writes /\ proc'.native = proc.native
          /\ proc'.revoked = proc.revoked /\ proc'.gap = proc.gap
          /\ proc'.stopped = proc.stopped /\ proc'.closed = proc.closed
          /\ proc'.alive = proc.alive /\ proc'.probing = proc.probing
          /\ proc'.connected = TRUE
      BY <1>3, <3>1 DEF Procs
    <3>3. Clean(proc')
      BY <1>2, <2>1, <3>2 DEF Clean
    <3>. QED  BY <2>1, <3>2, <3>3, OnwardKeeps DEF OnItsWay
  <2>. QED  BY <1>5, <2>1, AwaitKeeps
<1>6. CASE Readers!Await("probe", Readers!ToPrepare(p))
  <2>1. ASSUME OnItsWay(proc, intact), proc.flight = "probe", proc' = Readers!ToPrepare(p),
               UNCHANGED <<auto, durable, controls, intact, asked, faults>>
        PROVE  ReadersKept
    <3>1. proc' = [proc EXCEPT !.flight = "prepare"]
      BY <1>1, <2>1 DEF Readers!ToPrepare
    <3>2. /\ proc' \in Procs /\ proc'.writes = proc.writes /\ proc'.native = proc.native
          /\ proc'.revoked = proc.revoked /\ proc'.gap = proc.gap
          /\ proc'.stopped = proc.stopped /\ proc'.closed = proc.closed
          /\ proc'.alive = proc.alive /\ proc'.probing = proc.probing
          /\ proc'.connected = proc.connected
      BY <1>3, <3>1 DEF Procs
    <3>3. Clean(proc')
      BY <1>2, <2>1, <3>2 DEF Clean
    <3>. QED  BY <2>1, <3>2, <3>3, OnwardKeeps DEF OnItsWay
  <2>. QED  BY <1>6, <2>1, AwaitKeeps
<1>7. CASE Readers!Await("prepare", Readers!ToRefresh(p))
  <2>1. ASSUME OnItsWay(proc, intact), proc.flight = "prepare", proc' = Readers!ToRefresh(p),
               UNCHANGED <<auto, durable, controls, intact, asked, faults>>
        PROVE  ReadersKept
    <3>1. proc' = [proc EXCEPT !.flight = "refresh", !.subscribed = FALSE, !.native = "fresh"]
      BY <1>1, <2>1 DEF Readers!ToRefresh
    <3>2. /\ proc' \in Procs /\ proc'.writes = proc.writes /\ proc'.native = "fresh"
          /\ proc'.revoked = proc.revoked /\ proc'.gap = proc.gap
          /\ proc'.stopped = proc.stopped /\ proc'.closed = proc.closed
          /\ proc'.alive = proc.alive /\ proc'.probing = proc.probing
          /\ proc'.connected = proc.connected
      BY <1>3, <3>1 DEF Procs, Readers!Write
    <3>3. Clean(proc')
      BY <1>2, <2>1, <3>2 DEF Clean
    <3>. QED  BY <2>1, <3>2, <3>3, OnwardKeeps DEF OnItsWay
  <2>. QED  BY <1>7, <2>1, AwaitKeeps
<1>8. CASE Readers!Await("refresh", Readers!Certified(p))
  <2>1. ASSUME OnItsWay(proc, intact), proc.flight = "refresh", proc' = Readers!Certified(p),
               UNCHANGED <<auto, durable, controls, intact, asked, faults>>
        PROVE  ReadersKept
    <3>1. proc' = Readers!Certified(proc)
      BY <1>1, <2>1
    <3>2. /\ proc' \in Procs /\ proc'.writes = proc.writes /\ proc'.native = proc.native
          /\ proc'.revoked = proc.revoked /\ proc'.gap = proc.gap
          /\ proc'.stopped = proc.stopped /\ proc'.closed = proc.closed
          /\ proc'.alive = proc.alive /\ proc'.probing = proc.probing
          /\ proc'.connected = proc.connected
      BY <1>3, <3>1 DEF Procs, Readers!Certified
    <3>3. Clean(proc')
      BY <1>2, <2>1, <3>2 DEF Clean
    <3>. QED  BY <2>1, <3>2, <3>3, OnwardKeeps DEF OnItsWay
  <2>. QED  BY <1>8, <2>1, AwaitKeeps
<1>. QED  BY <1>4, <1>5, <1>6, <1>7, <1>8 DEF Readers!Advance

-----------------------------------------------------------------------------
(* The readers and their writes                                            *)

LEMMA MarketTickKeeps ==
  ASSUME ReaderInv, Readers!MarketTick
  PROVE  ReadersKept
<1>. DEFINE c == Readers!Checked(proc)
<1>1. /\ Readers!Ready(proc) /\ Len(proc.writes) < MaxTicks
      /\ proc' = IF Readers!Continuous(c) /\ ~c.paused
                 THEN [c EXCEPT !.writes = Append(@, TRUE)] ELSE c
      /\ UNCHANGED <<auto, durable, controls, intact, asked, faults>>
  BY DEF Readers!MarketTick
<1>2. proc.writes \in Seq(BOOLEAN)
  BY KnownReaders DEF Procs
<1>. HIDE DEF c
<1>3. CASE c = proc /\ ~(Readers!Watching(proc) /\ proc.gap)
  <2>0. /\ ~proc.revoked /\ ~proc.gap /\ intact /\ Clean(proc)
    BY <1>1, <1>3, KnownReaders DEF Readers!Ready, Quiet, SafeReaders
  <2>1. CASE proc' = proc
    <3>1. proc' \in Procs /\ SafeReaders(proc', intact) /\ Len(proc'.writes) <= MaxTicks
      BY <2>1, KnownReaders
    <3>2. Evident
      BY <2>1, KnownReaders DEF Evident
    <3>. QED  BY <1>1, <2>1, <3>1, <3>2, KnownReaders, ProcSteps
  <2>2. CASE proc' = [proc EXCEPT !.writes = Append(proc.writes, TRUE)]
    <3>. DEFINE ws == Append(proc.writes, TRUE)
    <3>1. ws \in Seq(BOOLEAN) /\ Len(ws) = Len(proc.writes) + 1
      BY <1>2
    <3>2. \A i \in DOMAIN ws : ws[i]
      BY <1>2, <2>0 DEF Clean
    <3>. HIDE DEF ws
    <3>3. /\ proc' \in Procs /\ proc'.writes = ws /\ proc'.native = proc.native
          /\ proc'.revoked = proc.revoked /\ proc'.gap = proc.gap
          /\ proc'.stopped = proc.stopped /\ proc'.closed = proc.closed
          /\ proc'.alive = proc.alive /\ proc'.probing = proc.probing
          /\ proc'.connected = proc.connected /\ proc'.flight = proc.flight
          /\ proc'.subscribed = proc.subscribed /\ proc'.fresh = proc.fresh
          /\ proc'.needed = proc.needed
      BY <2>2, <3>1, KnownReaders DEF Procs, ws
    <3>4. SafeReaders(proc', intact)
      BY <2>0, <3>2, <3>3, KnownReaders DEF SafeReaders, Clean, Quiet
    <3>5. Evident
      BY <2>0, <3>3 DEF Evident
    <3>6. Len(proc'.writes) <= MaxTicks
      <4>1. Len(proc.writes) + 1 <= MaxTicks
        BY <1>1, KnownReaders
      <4>. QED  BY <3>1, <3>3, <4>1
    <3>. QED  BY <1>1, <3>3, <3>4, <3>5, <3>6, KnownReaders, ProcSteps
  <2>. QED  BY <1>1, <1>3, <2>1, <2>2
<1>4. CASE Revoked(proc, c) /\ Readers!Watching(proc)
  <2>1. proc' = c
    BY <1>1, <1>4 DEF Revoked, Readers!Continuous, Readers!Watching
  <2>2. /\ proc' \in Procs /\ proc'.revoked /\ Quiet(proc')
        /\ proc'.stopped = proc.stopped /\ proc'.flight = proc.flight
        /\ Len(proc'.writes) \in Nat /\ Len(proc'.writes) <= Len(proc.writes)
        /\ proc.needed => proc'.needed
        /\ proc'.alive => proc.alive
    BY <1>4, <2>1, KnownReaders DEF Revoked
  <2>. QED  BY <1>1, <2>2, KnownReaders, RevokedSteps
<1>. QED  BY <1>3, <1>4, CheckedProc DEF c

LEMMA WritesCounted ==
  ASSUME NEW S
  PROVE  Readers!Cardinality(S) = Cardinality(S)
BY DEF Readers!Cardinality, Cardinality

LEMMA PublicationDoneKeeps ==
  ASSUME ReaderInv, Readers!PublicationDone
  PROVE  ReadersKept
<1>. DEFINE c == Readers!Checked(proc)
            begins == {i \in 2..Len(c.writes) : c.writes[i] /\ ~c.paused /\ Readers!Continuous(c)}
            n == Cardinality(begins)
            ws == [i \in 1..n |-> TRUE]
<1>1. /\ proc' = [c EXCEPT !.writes = ws]
      /\ UNCHANGED <<auto, durable, controls, intact, asked, faults>>
  <2>1. Readers!Cardinality(begins) = n
    BY WritesCounted
  <2>2. /\ proc' = [c EXCEPT !.writes = [i \in 1..Readers!Cardinality(begins) |-> TRUE]]
        /\ UNCHANGED <<auto, durable, controls, intact, asked, faults>>
    BY DEF Readers!PublicationDone
  <2>. QED  BY <2>1, <2>2
<1>2. c \in Procs /\ Len(c.writes) = Len(proc.writes)
  BY KnownReaders, CheckedProc DEF Revoked
<1>3. n \in Nat /\ n <= Len(proc.writes)
  <2>0. PICK k \in Nat : k = Len(proc.writes)
    BY KnownReaders
  <2>1. IsFiniteSet(1..Len(proc.writes)) /\ Cardinality(1..Len(proc.writes)) = Len(proc.writes)
    <3>1. IsFiniteSet(1..k) /\ Cardinality(1..k) = k
      BY FS_Interval
    <3>. QED  BY <2>0, <3>1
  <2>2. begins \subseteq 1..Len(proc.writes)
    BY <1>2, KnownReaders
  <2>. HIDE DEF begins
  <2>. QED  BY <2>1, <2>2, FS_Subset, FS_CardinalityType
<1>. HIDE DEF n, c
<1>4. ws \in Seq(BOOLEAN) /\ Len(ws) = n /\ \A i \in DOMAIN ws : ws[i]
  BY <1>3
<1>. HIDE DEF ws
<1>5. /\ proc' \in Procs /\ proc'.writes = ws /\ proc'.native = c.native
      /\ proc'.revoked = c.revoked /\ proc'.gap = c.gap
      /\ proc'.stopped = c.stopped /\ proc'.closed = c.closed
      /\ proc'.alive = c.alive /\ proc'.probing = c.probing
      /\ proc'.connected = c.connected /\ proc'.flight = c.flight
      /\ proc'.subscribed = c.subscribed /\ proc'.fresh = c.fresh
      /\ proc'.needed = c.needed
  BY <1>1, <1>2, <1>4 DEF Procs
<1>6. Len(proc'.writes) \in Nat /\ Len(proc'.writes) <= Len(proc.writes)
  BY <1>3, <1>4, <1>5
<1>7. CASE c = proc
  <2>1. SafeReaders(proc', intact)
    BY <1>4, <1>5, <1>7, KnownReaders DEF SafeReaders, Clean, Quiet, Readers!Watching
  <2>2. Evident
    BY <1>5, <1>6, <1>7, KnownReaders DEF Evident
  <2>. QED  BY <1>1, <1>5, <1>6, <1>7, <2>1, <2>2, KnownReaders, ProcSteps
<1>8. CASE Revoked(proc, c)
  <2>1. proc'.revoked /\ Quiet(proc')
    BY <1>5, <1>8 DEF Revoked, Quiet
  <2>2. /\ proc'.stopped = proc.stopped /\ proc'.flight = proc.flight
        /\ proc.needed => proc'.needed
        /\ proc'.alive => proc.alive
    BY <1>5, <1>8 DEF Revoked
  <2>. QED  BY <1>1, <1>5, <1>6, <2>1, <2>2, KnownReaders, RevokedSteps
<1>. QED  BY <1>7, <1>8, CheckedProc DEF c

LEMMA NativeRefreshKeeps ==
  ASSUME ReaderInv, Readers!NativeRefresh
  PROVE  ReadersKept
<1>. DEFINE c == Readers!Checked(proc)
<1>1. /\ proc' = IF Readers!Continuous(c) THEN [c EXCEPT !.native = "fresh"] ELSE c
      /\ proc.connected
      /\ UNCHANGED <<auto, durable, controls, intact, asked, faults>>
  BY DEF Readers!NativeRefresh
<1>2. c \in Procs /\ "fresh" \in Readers!Write /\ Len(c.writes) = Len(proc.writes)
  BY KnownReaders, CheckedProc DEF Revoked, Readers!Write
<1>3. /\ proc' \in Procs /\ proc'.writes = c.writes /\ proc'.native \in {c.native, "fresh"}
      /\ proc'.revoked = c.revoked /\ proc'.gap = c.gap
      /\ proc'.stopped = c.stopped /\ proc'.closed = c.closed
      /\ proc'.alive = c.alive /\ proc'.probing = c.probing
      /\ proc'.connected = c.connected /\ proc'.flight = c.flight
      /\ proc'.subscribed = c.subscribed /\ proc'.fresh = c.fresh
      /\ proc'.needed = c.needed
  <2>. HIDE DEF c
  <2>1. CASE proc' = [c EXCEPT !.native = "fresh"]
    BY <1>2, <2>1 DEF Procs
  <2>2. CASE proc' = c
    BY <1>2, <2>2 DEF Procs
  <2>. QED  BY <1>1, <2>1, <2>2
<1>. HIDE DEF c
<1>4. CASE c = proc
  <2>1. SafeReaders(proc', intact)
    BY <1>3, <1>4, KnownReaders DEF SafeReaders, Clean, Quiet, Readers!Watching
  <2>2. Evident
    BY <1>3, <1>4, KnownReaders DEF Evident
  <2>. QED  BY <1>1, <1>2, <1>3, <1>4, <2>1, <2>2, KnownReaders, ProcSteps
<1>5. CASE Revoked(proc, c)
  <2>1. /\ proc'.revoked /\ Quiet(proc')
        /\ proc'.stopped = proc.stopped /\ proc'.flight = proc.flight
        /\ proc.needed => proc'.needed
        /\ proc'.alive => proc.alive
    BY <1>3, <1>5 DEF Revoked, Quiet
  <2>2. Len(proc'.writes) \in Nat /\ Len(proc'.writes) <= Len(proc.writes)
    BY <1>2, <1>3, KnownReaders
  <2>. QED  BY <1>1, <1>3, <2>1, <2>2, KnownReaders, RevokedSteps
<1>. QED  BY <1>4, <1>5, CheckedProc DEF c

LEMMA NativeDoneKeeps ==
  ASSUME ReaderInv, Readers!NativeDone
  PROVE  ReadersKept
<1>. DEFINE c == Readers!Checked(proc)
<1>1. /\ proc' = [c EXCEPT !.native = "none"]
      /\ UNCHANGED <<auto, durable, controls, intact, asked, faults>>
  BY DEF Readers!NativeDone
<1>2. c \in Procs /\ "none" \in Readers!Write /\ Len(c.writes) = Len(proc.writes)
  BY KnownReaders, CheckedProc DEF Revoked, Readers!Write
<1>. HIDE DEF c
<1>3. /\ proc' \in Procs /\ proc'.writes = c.writes /\ proc'.native = "none"
      /\ proc'.revoked = c.revoked /\ proc'.gap = c.gap
      /\ proc'.stopped = c.stopped /\ proc'.closed = c.closed
      /\ proc'.alive = c.alive /\ proc'.probing = c.probing
      /\ proc'.connected = c.connected /\ proc'.flight = c.flight
      /\ proc'.subscribed = c.subscribed /\ proc'.fresh = c.fresh
      /\ proc'.needed = c.needed
  BY <1>1, <1>2 DEF Procs
<1>4. CASE c = proc
  <2>1. SafeReaders(proc', intact)
    BY <1>3, <1>4, KnownReaders DEF SafeReaders, Clean, Quiet, Readers!Watching
  <2>2. Evident
    BY <1>3, <1>4, KnownReaders DEF Evident
  <2>. QED  BY <1>1, <1>2, <1>3, <1>4, <2>1, <2>2, KnownReaders, ProcSteps
<1>5. CASE Revoked(proc, c)
  <2>1. /\ proc'.revoked /\ Quiet(proc')
        /\ proc'.stopped = proc.stopped /\ proc'.flight = proc.flight
        /\ proc.needed => proc'.needed
        /\ proc'.alive => proc.alive
    BY <1>3, <1>5 DEF Revoked, Quiet
  <2>2. Len(proc'.writes) \in Nat /\ Len(proc'.writes) <= Len(proc.writes)
    BY <1>2, <1>3, KnownReaders
  <2>. QED  BY <1>1, <1>3, <2>1, <2>2, KnownReaders, RevokedSteps
<1>. QED  BY <1>4, <1>5, CheckedProc DEF c

LEMMA InvalidationKeeps ==
  ASSUME ReaderInv, Readers!InvalidationSettles
  PROVE  ReadersKept
<1>1. /\ \/ proc' = [proc EXCEPT !.invalid = "done"] /\ UNCHANGED faults
         \/ proc' = [proc EXCEPT !.invalid = "failed"] /\ Readers!Fault
      /\ UNCHANGED <<auto, durable, controls, intact, asked>>
  BY DEF Readers!InvalidationSettles
<1>2. /\ proc' \in Procs /\ proc'.revoked = proc.revoked /\ proc'.stopped = proc.stopped
      /\ proc'.closed = proc.closed /\ proc'.writes = proc.writes
      /\ proc'.native = proc.native /\ proc'.flight = proc.flight
      /\ proc'.probing = proc.probing /\ proc'.connected = proc.connected
      /\ proc'.subscribed = proc.subscribed /\ proc'.fresh = proc.fresh
      /\ proc'.gap = proc.gap /\ proc'.needed = proc.needed /\ proc'.alive = proc.alive
  <2>1. CASE proc' = [proc EXCEPT !.invalid = "done"]
    BY <2>1, KnownReaders DEF Procs
  <2>2. CASE proc' = [proc EXCEPT !.invalid = "failed"]
    BY <2>2, KnownReaders DEF Procs
  <2>. QED  BY <1>1, <2>1, <2>2
<1>3. SafeReaders(proc', intact)
  BY <1>2, KnownReaders DEF SafeReaders, Quiet, Clean, Readers!Watching
<1>4. Evident
  BY <1>2, KnownReaders DEF Evident
<1>. QED  BY <1>1, <1>2, <1>3, <1>4, KnownReaders, ProcSteps

LEMMA LoseKeeps ==
  ASSUME ReaderInv, Readers!LoseConnection
  PROVE  ReadersKept
<1>1. /\ proc' = Readers!Invalidated(proc) /\ intact' = FALSE /\ Readers!Fault
      /\ UNCHANGED <<auto, durable, controls, asked>>
  BY DEF Readers!LoseConnection
<1>2. Revoked(proc, proc')
  BY <1>1, KnownReaders, Invalidating
<1>3. /\ proc' \in Procs /\ proc'.revoked /\ Quiet(proc')
      /\ proc'.stopped = proc.stopped /\ proc'.flight = proc.flight
      /\ Len(proc'.writes) \in Nat /\ Len(proc'.writes) <= Len(proc.writes)
      /\ proc.needed => proc'.needed
      /\ proc'.alive => proc.alive
  BY <1>2, KnownReaders DEF Revoked
<1>. QED  BY <1>1, <1>3, RevokedSteps

LEMMA SleepKeeps ==
  ASSUME ReaderInv, Readers!Sleep
  PROVE  ReadersKept
<1>1. /\ proc' = [proc EXCEPT !.gap = TRUE] /\ intact' = FALSE
      /\ Readers!Fault /\ Readers!Watching(proc)
      /\ UNCHANGED <<auto, durable, controls, asked>>
  BY DEF Readers!Sleep
<1>2. /\ proc' \in Procs /\ proc'.revoked = proc.revoked /\ proc'.stopped = proc.stopped
      /\ proc'.closed = proc.closed /\ proc'.writes = proc.writes
      /\ proc'.native = proc.native /\ proc'.flight = proc.flight
      /\ proc'.probing = proc.probing /\ proc'.connected = proc.connected
      /\ proc'.subscribed = proc.subscribed /\ proc'.fresh = proc.fresh
      /\ proc'.gap = TRUE /\ proc'.needed = proc.needed /\ proc'.alive = proc.alive
  BY <1>1, KnownReaders DEF Procs
<1>3. SafeReaders(proc', FALSE)
  BY <1>1, <1>2, KnownReaders DEF SafeReaders, Quiet, Clean, Readers!Watching
<1>4. Evident
  BY <1>2, KnownReaders DEF Evident
<1>. QED  BY <1>1, <1>2, <1>3, <1>4, KnownReaders, ProcSteps

-----------------------------------------------------------------------------
(* The operator                                                            *)

Behind(calls) == \A i \in DOMAIN calls : i # 1 => calls[i].at = "queued"

LEMMA Called ==
  ASSUME ReaderInv
  PROVE  /\ controls \in Seq(OperatorCalls) /\ Len(controls) \in Nat /\ Len(controls) <= asked
         /\ Behind(controls)
         /\ controls # <<>> => controls[1] \in OperatorCalls /\ Head(controls) = controls[1]
         /\ asked \in 0..MaxControls /\ MaxControls \in Nat
<1>1. controls \in Seq(OperatorCalls) /\ Len(controls) <= asked /\ asked \in 0..MaxControls
  BY DEF ReaderInv, ReaderTypes
<1>2. Len(controls) \in Nat /\ (controls # <<>> => controls[1] \in OperatorCalls)
  BY <1>1
<1>3. controls # <<>> => Head(controls) = controls[1]
  BY <1>1
<1>4. Behind(controls)
  BY DEF ReaderInv, OperatorInv, Behind
<1>. QED  BY <1>1, <1>2, <1>3, <1>4, RecoveryConstants

LEMMA CallGoes ==
  ASSUME ReaderInv, controls # <<>>, NEW at \in {"queued", "write", "drain", "retire"},
         Readers!Goes(at)
  PROVE  /\ controls' \in Seq(OperatorCalls) /\ Len(controls') = Len(controls) /\ Behind(controls')
         /\ controls' # <<>> /\ controls'[1].at = at /\ controls'[1].kind = controls[1].kind
<1>. DEFINE n == Len(controls)
            request == [controls[1] EXCEPT !.at = at]
<1>1. /\ controls' = [controls EXCEPT ![1] = request] /\ controls[1] \in OperatorCalls
      /\ controls \in Seq(OperatorCalls) /\ n \in Nat /\ n > 0
  BY Called DEF Readers!Goes
<1>2. request \in OperatorCalls /\ request.at = at /\ request.kind = controls[1].kind
  BY <1>1 DEF OperatorCalls
<1>. HIDE DEF request
<1>3. controls' \in Seq(OperatorCalls) /\ Len(controls') = n /\ controls'[1] = request
  BY <1>1, <1>2
<1>4. \A i \in DOMAIN controls' : i \in DOMAIN controls /\ (i # 1 => controls'[i] = controls[i])
  BY <1>1
<1>5. Behind(controls')
  BY <1>4, Called DEF Behind
<1>. QED  BY <1>1, <1>2, <1>3, <1>5

LEMMA CallReturns ==
  ASSUME ReaderInv, controls # <<>>, Readers!Returns
  PROVE  /\ controls' \in Seq(OperatorCalls) /\ Len(controls') <= Len(controls)
         /\ \A i \in DOMAIN controls' : controls'[i].at = "queued"
<1>1. controls' = Tail(controls) /\ controls \in Seq(OperatorCalls)
  BY Called DEF Readers!Returns
<1>2. /\ controls' \in Seq(OperatorCalls)
      /\ Len(controls') = Len(controls) - 1 /\ Len(controls) \in Nat
  BY <1>1
<1>3. \A i \in DOMAIN controls' :
        i + 1 \in DOMAIN controls /\ i + 1 # 1 /\ controls'[i] = controls[i + 1]
  BY <1>1
<1>. QED  BY <1>2, <1>3, Called DEF Behind

LEMMA OperatorSteps ==
  ASSUME ReaderInv, auto' = auto, durable' \in BOOLEAN, intact' \in BOOLEAN,
         proc' \in Procs, Len(proc'.writes) = Len(proc.writes), SafeReaders(proc', intact'),
         proc.needed => proc'.needed, proc'.alive => proc.alive,
         controls' \in Seq(OperatorCalls), Len(controls') <= asked', asked' \in 0..MaxControls,
         faults' = faults \/ Readers!Fault, Behind(controls'),
         controls' # <<>> => /\ (controls'[1].at = "write" /\ controls'[1].kind = "stop")
                                  => proc'.stopped
                             /\ controls'[1].at = "retire"
                                  => ~proc'.probing /\ proc'.flight = "none",
         durable' => proc'.stopped
  PROVE  ReadersKept
<1>1. ReaderTypes'
  BY RecoveryConstants DEF ReaderInv, ReaderTypes, Readers!Fault
<1>2. SafeReaders(proc, intact)'
  BY DEF SafeReaders, Readers!Watching, Clean, Quiet
<1>3. OperatorInv'
  <2>1. controls' # <<>> => Head(controls') = controls'[1]
    OBVIOUS
  <2>. QED  BY <2>1 DEF OperatorInv, Readers!Call, Behind
<1>4. Evident
  BY KnownReaders DEF Evident
<1>. QED  BY <1>1, <1>2, <1>3, <1>4 DEF ReaderInv, ReadersKept

LEMMA AskKeeps ==
  ASSUME ReaderInv, NEW kind \in {"start", "stop", "shutdown"}, Readers!Ask(kind),
         \/ UNCHANGED <<proc, intact>>
         \/ /\ proc' \in Procs /\ proc'.revoked /\ proc'.stopped /\ Quiet(proc')
            /\ proc'.flight = proc.flight /\ Len(proc'.writes) = Len(proc.writes)
            /\ proc.needed => proc'.needed
            /\ proc'.alive => proc.alive
            /\ intact' = FALSE
  PROVE  ReadersKept
<1>. DEFINE request == [kind |-> kind, at |-> "queued"]
<1>1. /\ asked < MaxControls /\ asked' = asked + 1 /\ controls' = Append(controls, request)
      /\ UNCHANGED <<auto, durable, faults>>
  BY DEF Readers!Ask
<1>2. request \in OperatorCalls /\ request.at = "queued"
  BY DEF OperatorCalls
<1>. HIDE DEF request
<1>3. controls' \in Seq(OperatorCalls) /\ Len(controls') = Len(controls) + 1
  BY <1>1, <1>2, Called
<1>4. asked' \in 0..MaxControls /\ Len(controls') <= asked'
  BY <1>1, <1>3, Called
<1>5. \A i \in DOMAIN controls' :
        \/ i \in DOMAIN controls /\ controls'[i] = controls[i]
        \/ i = Len(controls) + 1 /\ controls'[i] = request
  BY <1>1, Called
<1>6. Behind(controls')
  BY <1>2, <1>5, Called DEF Behind
<1>7. IF controls = <<>> THEN controls'[1] = request ELSE controls'[1] = controls[1]
  BY <1>1, <1>2, Called
<1>8. SafeReaders(proc', intact')
  BY KnownReaders, QuietIsSafe
<1>9. /\ proc' \in Procs /\ Len(proc'.writes) = Len(proc.writes)
      /\ proc.needed => proc'.needed
      /\ proc'.alive => proc.alive
      /\ proc.stopped => proc'.stopped
      /\ proc'.probing => proc.probing
      /\ proc'.flight = proc.flight /\ intact' \in BOOLEAN /\ durable' \in BOOLEAN
  BY <1>1, KnownReaders DEF Quiet, ReaderInv, ReaderTypes
<1>10. /\ (durable' => proc'.stopped)
       /\ controls' # <<>> => /\ (controls'[1].at = "write" /\ controls'[1].kind = "stop")
                                   => proc'.stopped
                              /\ controls'[1].at = "retire"
                                   => ~proc'.probing /\ proc'.flight = "none"
  BY <1>1, <1>2, <1>7, <1>9, Called DEF ReaderInv, OperatorInv, Readers!Call, OperatorCalls
<1>. QED  BY <1>1, <1>3, <1>4, <1>6, <1>8, <1>9, <1>10, OperatorSteps

LEMMA RequestsKeep ==
  ASSUME ReaderInv, Readers!RequestStart \/ Readers!RequestStop \/ Readers!RequestShutdown
  PROVE  ReadersKept
<1>1. CASE Readers!RequestStart
  BY <1>1, AskKeeps DEF Readers!RequestStart
<1>2. CASE Readers!RequestStop
  <2>1. Readers!Ask("stop") /\ proc' = Readers!Inhibited(proc) /\ intact' = FALSE
    BY <1>2 DEF Readers!RequestStop
  <2>. QED  BY <2>1, KnownReaders, Inhibiting, AskKeeps
<1>3. CASE Readers!RequestShutdown
  <2>. DEFINE r == [proc EXCEPT !.closed = TRUE]
  <2>1. Readers!Ask("shutdown") /\ proc' = Readers!Inhibited(r) /\ intact' = FALSE
    BY <1>3 DEF Readers!RequestShutdown
  <2>2. /\ r \in Procs /\ r.revoked = proc.revoked /\ r.subscribed = proc.subscribed
        /\ r.fresh = proc.fresh /\ r.connected = proc.connected /\ r.probing = proc.probing
        /\ r.flight = proc.flight /\ r.writes = proc.writes /\ r.needed = proc.needed
        /\ r.alive = proc.alive
    BY KnownReaders DEF Procs
  <2>. HIDE DEF r
  <2>3. r.revoked => Quiet(r)
    BY <2>2, KnownReaders DEF Quiet
  <2>. QED  BY <2>1, <2>2, <2>3, Inhibiting, AskKeeps
<1>. QED  BY <1>1, <1>2, <1>3

(* An operator's call that goes on, with the process as it is or stopped.  *)
LEMMA GoesKeeps ==
  ASSUME ReaderInv, controls # <<>>, NEW at \in {"queued", "write", "drain", "retire"},
         Readers!Goes(at),
         \/ UNCHANGED <<proc, intact>>
         \/ proc' = Readers!Inhibited(proc) /\ intact' = FALSE,
         at = "write" /\ controls[1].kind = "stop" => proc'.stopped,
         at = "retire" => UNCHANGED proc /\ ~proc.probing /\ proc.flight = "none",
         durable' \in BOOLEAN, durable' => proc'.stopped,
         UNCHANGED <<auto, asked>>, faults' = faults \/ Readers!Fault
  PROVE  ReadersKept
<1>1. /\ controls' \in Seq(OperatorCalls) /\ Len(controls') = Len(controls) /\ Behind(controls')
      /\ controls' # <<>> /\ controls'[1].at = at /\ controls'[1].kind = controls[1].kind
  BY CallGoes
<1>2. /\ proc' \in Procs /\ Len(proc'.writes) = Len(proc.writes)
      /\ proc.needed => proc'.needed
      /\ proc'.alive => proc.alive
      /\ SafeReaders(proc', intact') /\ intact' \in BOOLEAN
  <2>1. CASE UNCHANGED <<proc, intact>>
    BY <2>1, KnownReaders
  <2>2. CASE proc' = Readers!Inhibited(proc) /\ intact' = FALSE
    <3>1. /\ proc' \in Procs /\ proc'.revoked /\ Quiet(proc')
          /\ Len(proc'.writes) = Len(proc.writes)
          /\ proc.needed => proc'.needed
          /\ proc'.alive => proc.alive
      BY <2>2, KnownReaders, Inhibiting
    <3>. QED  BY <2>2, <3>1, QuietIsSafe
  <2>. QED  BY <2>1, <2>2
<1>3. /\ Len(controls') <= asked' /\ asked' \in 0..MaxControls
      /\ controls'[1].at = "retire" => ~proc'.probing /\ proc'.flight = "none"
      /\ controls'[1].at = "write" /\ controls'[1].kind = "stop" => proc'.stopped
  BY <1>1, Called
<1>. QED  BY <1>1, <1>2, <1>3, OperatorSteps

LEMMA BeginKeeps ==
  ASSUME ReaderInv, Readers!BeginControl
  PROVE  ReadersKept
<1>0. /\ controls # <<>> /\ UNCHANGED <<auto, durable, asked, faults>>
      /\ (durable \in BOOLEAN) /\ (durable => proc.stopped)
      /\ Head(controls) = controls[1]
  BY Called DEF Readers!BeginControl, Readers!Call, ReaderInv, ReaderTypes, OperatorInv
<1>1. CASE Readers!Call("start", "queued") /\ UNCHANGED <<proc, intact>> /\ Readers!Returns
  <2>1. /\ controls' \in Seq(OperatorCalls) /\ Len(controls') <= Len(controls)
        /\ \A i \in DOMAIN controls' : controls'[i].at = "queued"
    BY <1>0, <1>1, CallReturns
  <2>2. Behind(controls') /\ (controls' # <<>> => controls'[1].at = "queued")
    BY <2>1 DEF Behind
  <2>3. Len(controls') \in Nat /\ Len(controls') <= asked'
    BY <1>0, <2>1, Called
  <2>. QED  BY <1>0, <1>1, <2>1, <2>2, <2>3, Called, KnownReaders, OperatorSteps
<1>2. CASE Readers!Call("start", "queued") /\ UNCHANGED <<proc, intact>> /\ Readers!Goes("write")
  <2>1. controls[1].kind = "start"
    BY <1>0, <1>2 DEF Readers!Call
  <2>. QED  BY <1>0, <1>2, <2>1, GoesKeeps
<1>3. CASE /\ Readers!Call("stop", "queued") /\ proc' = Readers!StopInhibits(proc)
           /\ intact' = FALSE /\ Readers!Goes("write")
  <2>1. proc' = Readers!Inhibited(proc) /\ proc'.stopped
    BY <1>3, KnownReaders, Inhibiting DEF Readers!StopInhibits
  <2>. QED  BY <1>0, <1>3, <2>1, GoesKeeps
<1>4. CASE Readers!Call("shutdown", "queued") /\ Readers!Goes("drain") /\ UNCHANGED <<proc, intact>>
  BY <1>0, <1>4, GoesKeeps
<1>. QED  BY <1>1, <1>2, <1>3, <1>4 DEF Readers!BeginControl

LEMMA StartWrittenKeeps ==
  ASSUME ReaderInv, Readers!StartWritten
  PROVE  ReadersKept
<1>. DEFINE p == [proc EXCEPT !.stopped = FALSE, !.needed = TRUE, !.cooling = FALSE]
<1>0. /\ controls # <<>> /\ UNCHANGED <<auto, asked>>
      /\ (durable \in BOOLEAN) /\ (durable => proc.stopped)
      /\ controls[1].kind = "start"
  BY Called DEF Readers!StartWritten, Readers!Call, ReaderInv, ReaderTypes, OperatorInv
<1>1. CASE /\ durable' = FALSE /\ proc' = (IF Readers!MayLaunch(p) THEN Readers!Launched(p) ELSE p)
           /\ intact' = (Readers!MayLaunch(p) \/ intact) /\ Readers!Returns /\ UNCHANGED faults
  <2>1. /\ p \in Procs /\ p.revoked = proc.revoked /\ ~p.stopped
        /\ p.closed = proc.closed /\ p.writes = proc.writes
        /\ p.native = proc.native /\ p.flight = proc.flight
        /\ p.probing = proc.probing /\ p.connected = proc.connected
        /\ p.subscribed = proc.subscribed /\ p.fresh = proc.fresh
        /\ p.gap = proc.gap /\ p.needed /\ p.alive = proc.alive
    BY KnownReaders DEF Procs
  <2>. HIDE DEF p
  <2>2. /\ proc' \in Procs /\ proc'.writes = proc.writes /\ proc'.alive = proc.alive
        /\ proc'.needed /\ SafeReaders(proc', intact') /\ intact' \in BOOLEAN
    <3>1. CASE Readers!MayLaunch(p)
      <4>1. ~p.closed /\ (p.subscribed => Clean(p)) /\ (p.probing => p.connected)
        BY <2>1, <3>1, KnownReaders DEF Readers!MayLaunch, SafeReaders, Clean
      <4>2. intact' = TRUE /\ proc' = Readers!Launched(p)
        BY <1>1, <3>1
      <4>. QED  BY <2>1, <4>1, <4>2, Launching
    <3>2. CASE ~Readers!MayLaunch(p)
      <4>1. proc' = p /\ intact' = intact
        BY <1>1, <3>2, KnownReaders
      <4>2. SafeReaders(p, intact)
        BY <2>1, KnownReaders DEF SafeReaders, Clean, Quiet, Readers!Watching
      <4>. QED  BY <2>1, <4>1, <4>2, KnownReaders
    <3>. QED  BY <3>1, <3>2
  <2>3. /\ controls' \in Seq(OperatorCalls) /\ Len(controls') <= Len(controls)
        /\ \A i \in DOMAIN controls' : controls'[i].at = "queued"
    BY <1>0, <1>1, CallReturns
  <2>4. Behind(controls') /\ (controls' # <<>> => controls'[1].at = "queued")
    BY <2>3 DEF Behind
  <2>5. Len(controls') \in Nat /\ Len(controls') <= asked'
    BY <1>0, <2>3, Called
  <2>. QED  BY <1>0, <1>1, <2>2, <2>3, <2>4, <2>5, Called, OperatorSteps
<1>2. CASE /\ durable' \in {durable, FALSE} /\ proc' = Readers!Inhibited(proc) /\ intact' = FALSE
           /\ Readers!Goes("drain") /\ Readers!Fault
  <2>1. proc'.stopped /\ durable' \in BOOLEAN
    BY <1>0, <1>2, KnownReaders, Inhibiting
  <2>. QED  BY <1>0, <1>2, <2>1, GoesKeeps
<1>. QED  BY <1>1, <1>2 DEF Readers!StartWritten

LEMMA StopWrittenKeeps ==
  ASSUME ReaderInv, Readers!StopWritten
  PROVE  ReadersKept
<1>1. /\ controls # <<>> /\ UNCHANGED <<auto, asked, proc, intact>> /\ Readers!Goes("drain")
      /\ durable' \in {durable, TRUE} /\ (faults' = faults \/ Readers!Fault)
      /\ Readers!Call("stop", "write")
  BY DEF Readers!StopWritten, Readers!Call
<1>2. proc'.stopped /\ durable' \in BOOLEAN
  BY <1>1 DEF ReaderInv, ReaderTypes, OperatorInv
<1>. QED  BY <1>1, <1>2, GoesKeeps

LEMMA FlightDrainedKeeps ==
  ASSUME ReaderInv, Readers!FlightDrained
  PROVE  ReadersKept
<1>1. /\ controls # <<>> /\ Readers!Goes("retire") /\ ~proc.probing /\ proc.flight = "none"
      /\ UNCHANGED <<auto, durable, proc, intact, asked, faults>>
  BY DEF Readers!FlightDrained, Readers!Call
<1>2. durable' \in BOOLEAN /\ (durable' => proc'.stopped)
  BY <1>1 DEF ReaderInv, ReaderTypes, OperatorInv
<1>. QED  BY <1>1, <1>2, GoesKeeps

LEMMA RetiredKeeps ==
  ASSUME ReaderInv, Readers!SessionRetired
  PROVE  ReadersKept
<1>. DEFINE q == [proc EXCEPT !.connected = FALSE, !.subscribed = FALSE]
<1>1. /\ controls # <<>> /\ Readers!Returns /\ (proc' = proc \/ proc' = q)
      /\ UNCHANGED <<auto, durable, intact, asked, faults>>
      /\ Head(controls).at = "retire"
  BY DEF Readers!SessionRetired, Readers!Call
<1>2. ~proc.probing /\ (durable => proc.stopped) /\ durable \in BOOLEAN
  BY <1>1, Called DEF ReaderInv, ReaderTypes, OperatorInv
<1>3. /\ q \in Procs /\ q.revoked = proc.revoked /\ q.stopped = proc.stopped
      /\ q.closed = proc.closed /\ q.writes = proc.writes
      /\ q.native = proc.native /\ q.flight = proc.flight
      /\ q.probing = proc.probing /\ ~q.connected /\ ~q.subscribed /\ q.fresh = proc.fresh
      /\ q.gap = proc.gap /\ q.needed = proc.needed /\ q.alive = proc.alive
  BY KnownReaders DEF Procs
<1>. HIDE DEF q
<1>4. SafeReaders(q, intact)
  BY <1>2, <1>3, KnownReaders DEF SafeReaders, Clean, Quiet, Readers!Watching
<1>5. /\ proc' \in Procs /\ proc'.stopped = proc.stopped /\ proc'.writes = proc.writes
      /\ proc'.needed = proc.needed /\ proc'.alive = proc.alive /\ SafeReaders(proc', intact)
  BY <1>1, <1>3, <1>4, KnownReaders
<1>6. /\ controls' \in Seq(OperatorCalls) /\ Len(controls') <= Len(controls)
      /\ \A i \in DOMAIN controls' : controls'[i].at = "queued"
  BY <1>1, CallReturns
<1>7. Behind(controls') /\ (controls' # <<>> => controls'[1].at = "queued")
  BY <1>6 DEF Behind
<1>8. Len(controls') \in Nat /\ Len(controls') <= asked'
  BY <1>1, <1>6, Called
<1>. QED  BY <1>1, <1>2, <1>5, <1>6, <1>7, <1>8, Called, KnownReaders, OperatorSteps

LEMMA NewProcess ==
  ASSUME NEW stop \in BOOLEAN
  PROVE  /\ Readers!Process(stop) \in Procs /\ SafeReaders(Readers!Process(stop), FALSE)
         /\ Readers!Process(stop).writes = <<>>
         /\ Readers!Process(stop).needed /\ ~Readers!Process(stop).alive
         /\ Readers!Process(stop).stopped = stop
<1>1. Readers!Process(stop) \in Procs
  <2>1. <<>> \in Seq(BOOLEAN)
    OBVIOUS
  <2>. QED  BY <2>1 DEF Readers!Process, Procs, Readers!Stage, Readers!Write
<1>2. SafeReaders(Readers!Process(stop), FALSE)
  BY DEF SafeReaders, Readers!Process, Clean, Quiet
<1>. QED  BY <1>1, <1>2 DEF Readers!Process

LEMMA ReaderRestartKeeps ==
  ASSUME ReaderInv, Readers!Restart
  PROVE  ReadersKept
<1>1. /\ proc' = Readers!Process(durable) /\ controls' = <<>> /\ intact' = FALSE /\ Readers!Fault
      /\ UNCHANGED <<auto, durable, asked>>
      /\ durable \in BOOLEAN
  BY DEF Readers!Restart, ReaderInv, ReaderTypes
<1>2. /\ proc' \in Procs /\ SafeReaders(proc', FALSE) /\ proc'.writes = <<>> /\ proc'.needed
      /\ ~proc'.alive /\ proc'.stopped = durable
  BY <1>1, NewProcess
<1>3. ReaderTypes'
  <2>1. <<>> \in Seq(OperatorCalls) /\ Len(controls') = 0 /\ Len(proc'.writes) = 0
    BY <1>1, <1>2
  <2>2. asked' \in 0..MaxControls /\ Len(controls') <= asked'
    BY <1>1, <2>1, Called
  <2>3. faults' \in 0..MaxFaults
    BY <1>1, RecoveryConstants DEF Readers!Fault, ReaderInv, ReaderTypes
  <2>4. Len(proc'.writes) <= MaxTicks
    BY <2>1, KnownReaders
  <2>5. auto' \in BOOLEAN /\ durable' \in BOOLEAN /\ intact' \in BOOLEAN
    BY <1>1 DEF ReaderInv, ReaderTypes
  <2>. QED  BY <1>1, <1>2, <2>1, <2>2, <2>3, <2>4, <2>5 DEF ReaderTypes
<1>4. OperatorInv'
  BY <1>1, <1>2 DEF OperatorInv, Readers!Call
<1>5. SafeReaders(proc, intact)'
  BY <1>1, <1>2 DEF SafeReaders, Readers!Watching, Clean, Quiet
<1>6. Evident
  BY <1>2, KnownReaders DEF Evident
<1>. QED  BY <1>3, <1>4, <1>5, <1>6 DEF ReaderInv, ReadersKept

LEMMA InitReaders ==
  ASSUME Readers!Init
  PROVE  ReaderInv
<1>1. /\ proc \in Procs /\ SafeReaders(proc, FALSE) /\ proc.writes = <<>> /\ proc.stopped = durable
  BY NewProcess DEF Readers!Init
<1>2. <<>> \in Seq(OperatorCalls) /\ Len(<<>>) = 0
  OBVIOUS
<1>3. ReaderTypes
  <2>1. controls \in Seq(OperatorCalls) /\ Len(controls) = 0 /\ Len(proc.writes) = 0
    BY <1>1, <1>2 DEF Readers!Init
  <2>2. asked = 0 /\ faults = 0 /\ 0 \in 0..MaxControls /\ 0 \in 0..MaxFaults /\ 0 <= MaxTicks
    BY RecoveryConstants DEF Readers!Init
  <2>3. auto \in BOOLEAN /\ durable \in BOOLEAN /\ intact \in BOOLEAN
    BY DEF Readers!Init
  <2>. QED  BY <1>1, <2>1, <2>2, <2>3 DEF ReaderTypes
<1>4. OperatorInv
  BY <1>1 DEF Readers!Init, OperatorInv, Readers!Call
<1>. QED  BY <1>1, <1>3, <1>4 DEF Readers!Init, ReaderInv

LEMMA NextReaders ==
  ASSUME ReaderInv, [Readers!Next]_Readers!vars
  PROVE  ReadersKept
<1>1. CASE Readers!Next
  BY <1>1, ReaderTickKeeps, CoolKeeps, AdvanceKeeps, BeginKeeps, StartWrittenKeeps,
     StopWrittenKeeps, FlightDrainedKeeps, RetiredKeeps, PublicationDoneKeeps, NativeDoneKeeps,
     InvalidationKeeps, ProbeKeeps, MarketTickKeeps, NativeRefreshKeeps, LoseKeeps, SleepKeeps,
     RequestsKeep, ReaderRestartKeeps
  DEF Readers!Next, Readers!Controller, Readers!Control, Readers!Storage
<1>2. CASE UNCHANGED Readers!vars
  <2>1. ReaderInv'
    BY <1>2
    DEF Readers!vars, ReaderInv, ReaderTypes, OperatorInv, Readers!Call, SafeReaders, Clean,
        Quiet, Readers!Watching
  <2>2. Evident
    BY <1>2, KnownReaders DEF Readers!vars, Evident
  <2>. QED  BY <2>1, <2>2 DEF ReadersKept
<1>. QED  BY <1>1, <1>2 DEF Readers!vars

(* The other parts leave its variables alone.                              *)
LEMMA ReadersImplemented == [Next]_vars => [Readers!Next]_Readers!vars
BY DEF Next, vars, readerVars, Readers!vars

LEMMA ReadersHold == Spec => []ReaderInv
<1>1. Init => ReaderInv
  BY InitReaders DEF Init
<1>2. ReaderInv /\ [Next]_vars => ReaderInv'
  BY NextReaders, ReadersImplemented DEF ReadersKept, Readers!vars
<1>. QED  BY <1>1, <1>2, PTL DEF Spec

LEMMA ReaderTypeOK ==
  ASSUME ReaderInv
  PROVE  Readers!TypeOK
<1>1. PICK n \in Nat : n = Len(proc.writes) /\ n <= MaxTicks
  BY KnownReaders
<1>2. proc.writes \in Seq(BOOLEAN)
  BY KnownReaders DEF Procs
<1>3. proc.writes \in [1..n -> BOOLEAN] /\ n \in 0..MaxTicks
  BY <1>1, <1>2, KnownReaders
<1>4. proc.writes \in UNION {[1..k -> BOOLEAN] : k \in 0..MaxTicks}
  BY <1>3
<1>5. proc \in [stopped : BOOLEAN, closed : BOOLEAN, needed : BOOLEAN, revoked : BOOLEAN,
                cooling : BOOLEAN, flight : Readers!Stage, fresh : BOOLEAN, probing : BOOLEAN,
                alive : BOOLEAN, gap : BOOLEAN, connected : BOOLEAN, subscribed : BOOLEAN,
                paused : BOOLEAN, writes : UNION {[1..k -> BOOLEAN] : k \in 0..MaxTicks},
                native : Readers!Write, invalid : {"done", "pending", "failed"}]
  BY <1>4, KnownReaders DEF Procs
<1>6. Len(controls) <= MaxControls
  BY Called
<1>. QED  BY <1>5, <1>6 DEF ReaderInv, ReaderTypes, Readers!TypeOK

(***************************************************************************)
(* "A retired write cannot overwrite its successor" (publication-fence.ts), *)
(* and what was invalidated is not taken for READY                         *)
(* (session-schedule-refresh.ts).                                          *)
(***************************************************************************)
THEOREM RetiredReadsAreGoneHolds == Spec => []RetiredReadsAreGone
<1>1. ReaderInv => Readers!RetiredWritesDrained
  <2>. SUFFICES ASSUME ReaderInv PROVE Readers!RetiredWritesDrained
    OBVIOUS
  <2>1. proc.fresh /\ proc.flight \in {"connect", "probe", "prepare", "refresh"}
          => ~proc.revoked /\ proc.flight # "drain"
    BY KnownReaders DEF Quiet
  <2>. QED  BY <2>1, KnownReaders DEF Readers!RetiredWritesDrained, SafeReaders, Clean
<1>2. ScheduleInv => Schedules!ReadyIsUninvalidated
  BY DEF ScheduleInv
<1>. QED  BY <1>1, <1>2, ReadersHold, ScheduleHolds, PTL DEF RetiredReadsAreGone

(***************************************************************************)
(* The operator's durable stop wins over the starts it raced with, and a   *)
(* stopped process publishes nothing (auto-bootstrap.ts).                  *)
(***************************************************************************)
THEOREM DurableStop == Spec => []DurableStopHolds
<1>1. ReaderInv => DurableStopHolds
  BY KnownReaders DEF ReaderInv, OperatorInv, DurableStopHolds, Readers!DurableStopHolds, Quiet
<1>. QED  BY <1>1, ReadersHold, PTL

(***************************************************************************)
(* Nothing is certified, counted or admitted over a break in the readings  *)
(* (auto-bootstrap.ts).                                                    *)
(***************************************************************************)
THEOREM EvidenceHolds == Spec => EvidenceIsUnbroken
<1>1. ReaderInv /\ [Next]_vars
        => [ \/ proc.needed /\ ~proc'.needed
             \/ ~proc.alive /\ proc'.alive
             \/ Len(proc'.writes) > Len(proc.writes)
             => intact ]_Readers!vars
  BY NextReaders, ReadersImplemented DEF ReadersKept, Evident
<1>. QED  BY <1>1, ReadersHold, PTL DEF Spec, EvidenceIsUnbroken, Readers!EvidenceIsUnbroken

-----------------------------------------------------------------------------
(* The services together                                                   *)

(***************************************************************************)
(* The state of every service keeps its type, the budget of the calls of an *)
(* alert, the cap of the trading loop and the bounds of the queues included. *)
(***************************************************************************)
THEOREM TypesHold == Spec => []TypeOK
<1>1. Spec => []Admission!TypeOK
  <2>1. AdmissionProof!Spec => []AdmissionProof!TypeOK
    BY AdmissionAssumed, AdmissionProof!TypeCorrect
  <2>2. AdmissionProof!TypeOK => Admission!TypeOK
    BY DEF Admission!TypeOK, AdmissionProof!TypeOK, Admission!Entries, AdmissionProof!Entries,
           Admission!Reviews, AdmissionProof!Reviews, Admission!NoAgent, AdmissionProof!NoAgent
  <2>. QED  BY <2>1, <2>2, AdmissionImplemented, PTL
<1>2. Spec => []Loop!TypeOK
  <2>1. LoopProof!Spec => []LoopProof!TypeOK
    BY LoopAssumed, LoopProof!TypeCorrect
  <2>2. LoopProof!TypeOK => Loop!TypeOK
    BY DEF Loop!TypeOK, LoopProof!TypeOK, Loop!Instrument, LoopProof!Instrument, Loop!Bucket,
           LoopProof!Bucket, Loop!Runs, LoopProof!Runs, Loop!Requests, LoopProof!Requests,
           Loop!InFlight, LoopProof!InFlight, Loop!Cardinality, LoopProof!Cardinality
  <2>. QED  BY <2>1, <2>2, LoopImplemented, PTL
<1>3. /\ ResearchInv => Research!TypeOK
      /\ AlertInv => Alerts!TypeOK
      /\ ReaderInv => Readers!TypeOK
      /\ ScheduleInv => Schedules!TypeOK
  BY AlertTypeOK, ReaderTypeOK, ScheduleTypeOK DEF ResearchInv
<1>. QED  BY <1>1, <1>2, <1>3, ResearchHolds, AlertsHold, ReadersHold, ScheduleHolds, PTL
          DEF TypeOK

=============================================================================
