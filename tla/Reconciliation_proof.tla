------------------------ MODULE Reconciliation_proof ------------------------
(***************************************************************************)
(* Proofs about Reconciliation for every set of orders, requests,          *)
(* instruments and broker ids and any number of runs and crashes.          *)
(*                                                                         *)
(* What Submission_proof relies on is gone: a run writes rows whose        *)
(* request is still waiting, so a request past the claim no longer owns    *)
(* its row, and a row may carry the id of another order's plan.  The facts *)
(* that remain go through the plan: it is written once, and whatever a row *)
(* says of its outcome the broker has said, for good, of the id that the   *)
(* plan names (RowInv).  Either the order owns that id or it owns none     *)
(* (BrokerInv).  A run may therefore act on what it saw before: the broker *)
(* has only moved on (RunInv), and the row it found PROPOSED is the only   *)
(* one of its instrument.  Progress is what every step leaves standing.    *)
(***************************************************************************)
EXTENDS Reconciliation, TLAPS

Seen == {"WORKING", "FILLED", "CANCELLED"}
Closed == {"FILLED", "CANCELLED"}

Claimed == {"dispatch", "awaiting", "ackSubmitted", "ackFilled"}
Sent == {"awaiting", "ackSubmitted", "ackFilled"}

Runs == [step : RunSteps, exposure : BOOLEAN, complete : BOOLEAN,
         seen : [OrderIds -> BrokerStates],
         transition : [Orders -> Transitions \cup {"NONE"}],
         unmatched : SUBSET Orders, lifts : SUBSET Instruments]

(* The types of the composition.                                           *)
TypesInv ==
  /\ TypeOK
  /\ run \in Runs
  /\ hold \in [Instruments -> Orders \cup {NoOrder}]
  /\ observed \subseteq OrderIds
  /\ confirmed \subseteq Orders

(* A request past the claim holds the plan of its row, and an id that the  *)
(* broker has not seen before the send and holds for this order after it.  *)
RequestInv ==
  \A h \in Handlers :
    /\ step[h] # "idle" => up /\ serving[h] \in Orders
    /\ step[h] \in {"claim"} \cup Claimed =>
         ticketId[h] \in OrderIds /\ ticketId[h] < nextId
    /\ step[h] \in {"claim", "dispatch"} => broker[ticketId[h]] = "NONE"
    /\ step[h] \in Claimed => marker[serving[h]] /\ plan[serving[h]] = ticketId[h]
    /\ step[h] = "dispatch" => sends[serving[h]] = 0
    /\ step[h] \in Sent => owner[ticketId[h]] = serving[h]
    /\ step[h] = "ackSubmitted" => broker[ticketId[h]] \in Seen
    /\ step[h] = "ackFilled" => broker[ticketId[h]] = "FILLED"

(* No two requests hold the same id; no two have claimed the same row.     *)
DistinctInv ==
  \A h, k \in Handlers :
    h # k =>
      /\ step[h] \in {"claim"} \cup Claimed /\ step[k] \in {"claim"} \cup Claimed
           => ticketId[h] # ticketId[k]
      /\ step[h] \in Claimed /\ step[k] \in Claimed => serving[h] # serving[k]

(* While the process runs its counter is above every id the broker holds.  *)
CounterInv == up => \A i \in OrderIds : broker[i] # "NONE" => i < nextId

(* What a row says of its outcome the broker says of the id its plan       *)
(* names, whoever's order has that id.                                     *)
RowInv ==
  \A o \in Orders :
    /\ ~marker[o] => /\ sends[o] = 0 /\ plan[o] = 0 /\ brokerId[o] = 0
                     /\ status[o] \in {"ABSENT", "PROPOSED", "REJECTED"}
                     /\ o \notin confirmed
    /\ marker[o] => status[o] # "ABSENT" /\ plan[o] \in OrderIds
    /\ sends[o] \in {0, 1}
    /\ brokerId[o] # 0 => brokerId[o] = plan[o]
    /\ brokerId[o] # 0 \/ status[o] \in {"SUBMITTED", "FILLED", "CANCELLED"} =>
         marker[o] /\ broker[plan[o]] \in Seen
    /\ status[o] \in Closed => broker[plan[o]] = status[o]
    /\ status[o] = "REJECTED" /\ marker[o] /\ o \notin confirmed =>
         broker[plan[o]] = "CANCELLED"

(* Every order at the broker is the one send of a claimed row whose plan   *)
(* names it.                                                               *)
BrokerInv ==
  \A i \in OrderIds :
    /\ broker[i] = "NONE" => owner[i] = NoOrder
    /\ broker[i] # "NONE" => /\ owner[i] \in Orders
                             /\ marker[owner[i]]
                             /\ plan[owner[i]] = i
                             /\ sends[owner[i]] = 1

(* A callback in flight reports a state its order has reached for good.    *)
EventInv ==
  \A e \in inbox :
    /\ broker[e.id] \in Seen
    /\ e.kind \in {"FILLED", "EXECUTION"} => broker[e.id] = "FILLED"
    /\ e.kind = "CANCELLED" => broker[e.id] = "CANCELLED"

(* A late acknowledgement may reopen the row of an order that is over, or  *)
(* that an operator has given up.  Of the others, one per instrument.      *)
Over(o) == marker[o] /\ broker[plan[o]] \in Closed

Exposed(o) == Active(o) /\ o \notin confirmed /\ ~Over(o)

IntentInv ==
  \A o, p \in Orders :
    o # p /\ InstrumentOf[o] = InstrumentOf[p] =>
      /\ ~(Exposed(o) /\ Exposed(p))
      /\ ~(status[o] = "PROPOSED" /\ status[p] = "PROPOSED")

(* What the run read is still so, or has gone on from there.               *)
RunInv ==
  /\ \A i \in OrderIds :
       /\ run.seen[i] # "NONE" => broker[i] \in Seen
       /\ run.seen[i] \in Closed => broker[i] = run.seen[i]
       /\ run.step = "publish" /\ run.complete /\ run.seen[i] # "NONE" =>
            status[owner[i]] # "PROPOSED"
  /\ \A o \in Orders : run.transition[o] # "NONE" =>
       /\ marker[o] /\ broker[plan[o]] \in Seen
       /\ run.transition[o] = "FILLED" => broker[plan[o]] = "FILLED"
       /\ run.transition[o] \in {"CANCELLED", "REJECTED"} => broker[plan[o]] = "CANCELLED"
       /\ \A a \in Instruments :
            (/\ InstrumentOf[o] = a /\ hold[a] \in Orders
             /\ status[hold[a]] = "PROPOSED") => hold[a] = o
  /\ \A o \in run.unmatched : marker[o]

(* A hold names a claimed row of its instrument.                           *)
HoldInv ==
  \A a \in Instruments : hold[a] \in Orders => InstrumentOf[hold[a]] = a /\ marker[hold[a]]

(* What a complete run observed belongs to rows that were not ambiguous.   *)
ObservedInv ==
  \A i \in observed : broker[i] \in Seen /\ status[owner[i]] # "PROPOSED"

(* The inductive invariant: of the submission, and of the reconciliation.  *)
SubmissionInv ==
  /\ RequestInv
  /\ DistinctInv
  /\ CounterInv
  /\ RowInv
  /\ BrokerInv
  /\ EventInv
  /\ IntentInv

Inv ==
  /\ TypesInv
  /\ SubmissionInv
  /\ RunInv
  /\ HoldInv
  /\ ObservedInv

-----------------------------------------------------------------------------
(* What every step leaves standing *)

Progress ==
  /\ \A o \in Orders : marker[o] =>
       /\ marker'[o] /\ plan'[o] = plan[o]
       /\ status[o] # "PROPOSED" => status'[o] # "PROPOSED"
  /\ \A i \in OrderIds : broker[i] \in Seen =>
       /\ broker'[i] \in Seen /\ owner'[i] = owner[i]
       /\ broker[i] \in Closed => broker'[i] = broker[i]

(* A run, the holds and what was observed outlive the submission's steps.  *)
LEMMA RunStands ==
  ASSUME Inv, Progress, run' = run,
         \A a \in Instruments : hold'[a] = hold[a] \/ hold'[a] = NoOrder,
         observed' \subseteq observed
  PROVE  RunInv' /\ HoldInv' /\ ObservedInv'
<1>. USE DEF Inv, TypesInv, SubmissionInv
<1>1. \A a \in Instruments : hold'[a] \in Orders => hold'[a] = hold[a] /\ marker[hold[a]]
  BY ConstantsAssumption DEF HoldInv
<1>2. HoldInv'
  BY <1>1 DEF HoldInv, Progress
<1>3. \A i \in OrderIds : broker[i] \in Seen => owner[i] \in Orders /\ marker[owner[i]]
  BY DEF BrokerInv, Seen
<1>4. \A i \in OrderIds : broker[i] \in Seen /\ status[owner[i]] # "PROPOSED" =>
        broker'[i] \in Seen /\ status'[owner'[i]] # "PROPOSED"
  BY <1>3 DEF Progress
<1>5. ObservedInv'
  BY <1>4 DEF ObservedInv
<1>6. \A i \in OrderIds :
        /\ run.seen[i] # "NONE" => broker'[i] \in Seen
        /\ run.seen[i] \in Closed => broker'[i] = run.seen[i]
        /\ run.step = "publish" /\ run.complete /\ run.seen[i] # "NONE" =>
             status'[owner'[i]] # "PROPOSED"
  BY <1>4 DEF RunInv, Progress, Closed
<1>7. ASSUME NEW o \in Orders, run.transition[o] # "NONE"
      PROVE  /\ marker'[o] /\ broker'[plan'[o]] \in Seen
             /\ run.transition[o] = "FILLED" => broker'[plan'[o]] = "FILLED"
             /\ run.transition[o] \in {"CANCELLED", "REJECTED"} =>
                  broker'[plan'[o]] = "CANCELLED"
  <2>1. marker[o] /\ plan[o] \in OrderIds
    BY <1>7 DEF RunInv, RowInv
  <2>. QED  BY <1>7, <2>1 DEF RunInv, Progress, Closed
<1>8. ASSUME NEW o \in Orders, run.transition[o] # "NONE", NEW a \in Instruments,
             InstrumentOf[o] = a, hold'[a] \in Orders, status'[hold'[a]] = "PROPOSED"
      PROVE  hold'[a] = o
  BY <1>1, <1>8 DEF RunInv, Progress
<1>9. \A o \in run.unmatched : marker'[o]
  BY DEF RunInv, Progress, Runs
<1>10. RunInv'
  BY <1>6, <1>7, <1>8, <1>9 DEF RunInv
<1>. QED  BY <1>2, <1>5, <1>10

(* Neither rows nor the broker are touched.                                *)
LEMMA NothingWritten ==
  ASSUME Inv, UNCHANGED <<rowVars, brokerVars, sends, confirmed>>, inbox' \subseteq inbox
  PROVE  RowInv' /\ BrokerInv' /\ EventInv' /\ IntentInv' /\ Progress
<1>. USE DEF Inv, SubmissionInv, rowVars, brokerVars
<1>1. RowInv'
  BY DEF RowInv
<1>2. BrokerInv' /\ EventInv'
  BY DEF BrokerInv, EventInv
<1>3. IntentInv'
  BY DEF IntentInv, Exposed, Active, Over
<1>4. Progress
  BY DEF Progress
<1>. QED  BY <1>1, <1>2, <1>3, <1>4

(* The requests are where they were.                                       *)
LEMMA RequestsStand ==
  ASSUME Inv, UNCHANGED <<marker, plan, up, nextId, requestVars, brokerVars, sends>>
  PROVE  RequestInv' /\ DistinctInv' /\ CounterInv' /\ BrokerInv'
<1>. USE DEF Inv, SubmissionInv, requestVars, brokerVars
<1>1. RequestInv'
  BY DEF RequestInv
<1>2. DistinctInv' /\ CounterInv' /\ BrokerInv'
  BY DEF DistinctInv, CounterInv, BrokerInv
<1>. QED  BY <1>1, <1>2

(* A request ends.                                                         *)
LEMMA Returns ==
  ASSUME Inv, NEW h \in Handlers, Return(h),
         UNCHANGED <<marker, plan, up, nextId, brokerVars, sends>>
  PROVE  /\ step' \in [Handlers -> Steps] /\ serving' \in [Handlers -> Orders \cup {NoOrder}]
         /\ ticketId' \in [Handlers -> 0..MaxOrderId]
         /\ RequestInv' /\ DistinctInv' /\ CounterInv' /\ BrokerInv'
<1>. USE DEF Inv, SubmissionInv, TypesInv, TypeOK, brokerVars
<1>1. /\ step' = [step EXCEPT ![h] = "idle"] /\ serving' = [serving EXCEPT ![h] = NoOrder]
      /\ ticketId' = [ticketId EXCEPT ![h] = 0]
  BY DEF Return, Goto
<1>2. step' \in [Handlers -> Steps]
  BY <1>1 DEF Steps
<1>3. serving' \in [Handlers -> Orders \cup {NoOrder}]
  BY <1>1
<1>4. ticketId' \in [Handlers -> 0..MaxOrderId]
  BY <1>1, ConstantsAssumption
<1>5. RequestInv'
  BY <1>1 DEF RequestInv, Claimed, Sent
<1>6. DistinctInv'
  BY <1>1 DEF DistinctInv, Claimed
<1>7. CounterInv' /\ BrokerInv'
  BY DEF CounterInv, BrokerInv
<1>. QED  BY <1>2, <1>3, <1>4, <1>5, <1>6, <1>7

(* What may be written to a row: its order's own plan as the broker id,    *)
(* and an outcome that the broker has reached under that id, or a          *)
(* rejection of what was never claimed or what an operator gave up.        *)
Recorded(o) ==
  /\ \/ brokerId'[o] = brokerId[o]
     \/ brokerId'[o] = plan[o] /\ marker[o] /\ broker[plan[o]] \in Seen
  /\ \/ status'[o] = status[o]
     \/ ~marker[o] /\ status'[o] = "REJECTED"
     \/ marker[o] /\ broker[plan[o]] \in Seen /\ status'[o] = "SUBMITTED"
     \/ marker[o] /\ status'[o] \in Closed /\ broker[plan[o]] = status'[o]
     \/ marker[o] /\ status'[o] = "REJECTED" /\ broker[plan[o]] = "CANCELLED"
     \/ marker[o] /\ status'[o] = "REJECTED" /\ o \in confirmed'

LEMMA RowsRecorded ==
  ASSUME Inv, UNCHANGED <<marker, plan, brokerVars, sends>>,
         \A o \in Orders : Recorded(o),
         confirmed \subseteq confirmed', \A o \in Orders \cap confirmed' : marker[o]
  PROVE  RowInv' /\ IntentInv' /\ Progress
<1>. USE DEF Inv, SubmissionInv, brokerVars
<1>1. RowInv'
  <2>. SUFFICES ASSUME NEW o \in Orders
       PROVE  /\ ~marker[o] => /\ sends[o] = 0 /\ plan[o] = 0 /\ brokerId'[o] = 0
                     /\ status'[o] \in {"ABSENT", "PROPOSED", "REJECTED"}
                     /\ o \notin confirmed'
              /\ marker[o] => status'[o] # "ABSENT" /\ plan[o] \in OrderIds
              /\ sends[o] \in {0, 1}
              /\ brokerId'[o] # 0 => brokerId'[o] = plan[o]
              /\ brokerId'[o] # 0 \/ status'[o] \in {"SUBMITTED", "FILLED", "CANCELLED"} =>
                   marker[o] /\ broker[plan[o]] \in Seen
              /\ status'[o] \in Closed => broker[plan[o]] = status'[o]
              /\ status'[o] = "REJECTED" /\ marker[o] /\ o \notin confirmed' =>
                   broker[plan[o]] = "CANCELLED"
    BY DEF RowInv
  <2>. QED  BY DEF RowInv, Recorded, Closed, Seen
<1>2. \A o \in Orders : status'[o] = "PROPOSED" => status[o] = "PROPOSED"
  BY DEF Recorded, Closed
<1>3. ASSUME NEW o \in Orders, Exposed(o)'
      PROVE  Exposed(o)
  <2>1. Active(o)' /\ o \notin confirmed /\ o \notin confirmed' /\ ~Over(o)
    BY <1>3 DEF Exposed, Over
  <2>2. CASE status'[o] = status[o]
    BY <2>1, <2>2 DEF Exposed, Active
  <2>3. CASE status'[o] # status[o]
    <3>1. marker[o] /\ status'[o] = "SUBMITTED"
      BY <2>1, <2>3 DEF Recorded, Active, Closed
    <3>2. status[o] \notin {"ABSENT", "FILLED", "CANCELLED", "REJECTED"}
      BY <2>1, <3>1 DEF RowInv, Over, Closed
    <3>3. status[o] \in RowStatuses
      BY DEF TypesInv, TypeOK
    <3>. QED  BY <2>1, <3>2, <3>3 DEF Exposed, Active, RowStatuses
  <2>. QED  BY <2>2, <2>3
<1>4. IntentInv'
  BY <1>2, <1>3 DEF IntentInv
<1>5. Progress
  BY <1>2 DEF Progress
<1>. QED  BY <1>1, <1>4, <1>5

-----------------------------------------------------------------------------
(* Requests *)

(* A request that starts holds nothing yet.                                *)
LEMMA StartsKeepsInv ==
  ASSUME Inv, NEW h \in Handlers, NEW o \in Orders,
         SubmitTicket(h, o) \/ ExecuteProposed(h, o), UNCHANGED reconVars
  PROVE  TypeOK' /\ SubmissionInv' /\ Progress
<1>. USE DEF Inv, SubmissionInv, TypesInv
<1>1. /\ UNCHANGED <<rowVars, up, nextId, ticketId, brokerVars, inbox, sends, crashes, confirmed>>
      /\ up /\ step[h] = "idle" /\ serving' = [serving EXCEPT ![h] = o]
      /\ step' = [step EXCEPT ![h] = "insert"] \/ step' = [step EXCEPT ![h] = "prepare"]
  BY DEF SubmitTicket, ExecuteProposed, At, Goto, reconVars
<1>2. TypeOK'
  BY <1>1 DEF TypeOK, Steps, rowVars, brokerVars
<1>3. RequestInv'
  BY <1>1 DEF TypeOK, RequestInv, Claimed, Sent, rowVars, brokerVars
<1>4. DistinctInv' /\ CounterInv'
  BY <1>1 DEF TypeOK, DistinctInv, CounterInv, Claimed, brokerVars
<1>. QED  BY <1>1, <1>2, <1>3, <1>4, NothingWritten

(* The insert makes a row PROPOSED where no other is active.               *)
LEMMA InsertProposedKeepsInv ==
  ASSUME Inv, NEW h \in Handlers, InsertProposed(h), UNCHANGED reconVars
  PROVE  TypeOK' /\ SubmissionInv' /\ Progress
<1>. USE DEF Inv, SubmissionInv, TypesInv
<1>. DEFINE o == serving[h]
<1>1. /\ UNCHANGED <<marker, brokerId, plan, up, nextId, serving, ticketId, brokerVars, inbox,
                     sends, crashes, confirmed>>
      /\ step[h] = "insert" /\ step' = [step EXCEPT ![h] = "prepare"]
      /\ ~ActiveIntentExists(o) /\ o \in Orders
  BY DEF InsertProposed, At, Goto, reconVars, RequestInv
<1>2. RequestInv'
  BY <1>1 DEF TypeOK, RequestInv, Claimed, Sent, brokerVars
<1>3. DistinctInv' /\ CounterInv' /\ BrokerInv' /\ EventInv'
  BY <1>1 DEF TypeOK, DistinctInv, CounterInv, Claimed, BrokerInv, EventInv, brokerVars
<1>4. step' \in [Handlers -> Steps]
  BY <1>1 DEF TypeOK, Steps
<1>5. CASE status[o] = "ABSENT"
  <2>1. status' = [status EXCEPT ![o] = "PROPOSED"] /\ ~marker[o]
    BY <1>1, <1>5 DEF InsertProposed, RowInv
  <2>2. status' \in [Orders -> RowStatuses]
    BY <2>1 DEF TypeOK, RowStatuses
  <2>3. TypeOK'
    BY <1>1, <1>4, <2>2 DEF TypeOK, brokerVars
  <2>4. RowInv' /\ Progress
    BY <1>1, <1>5, <2>1 DEF TypeOK, RowInv, Progress, Closed, brokerVars
  <2>5. \A p \in Orders \ {o} : InstrumentOf[p] = InstrumentOf[o] => ~Active(p)
    BY <1>1 DEF ActiveIntentExists
  <2>6. \A p \in Orders \ {o} : status'[p] = status[p]
    BY <2>1 DEF TypeOK
  <2>7. IntentInv'
    BY <1>1, <2>5, <2>6 DEF IntentInv, Exposed, Active, Over, brokerVars
  <2>. QED  BY <1>2, <1>3, <2>3, <2>4, <2>7
<1>6. CASE status[o] # "ABSENT"
  <2>1. status' = status
    BY <1>6 DEF InsertProposed
  <2>2. TypeOK'
    BY <1>1, <1>4, <2>1 DEF TypeOK, brokerVars
  <2>. QED  BY <1>1, <1>2, <1>3, <2>1, <2>2, NothingWritten DEF rowVars
<1>. QED  BY <1>5, <1>6

(* The id taken is above every id the broker has.                          *)
LEMMA PrepareKeepsInv ==
  ASSUME Inv, NEW h \in Handlers, Prepare(h), UNCHANGED reconVars
  PROVE  TypeOK' /\ SubmissionInv' /\ Progress
<1>. USE DEF Inv, SubmissionInv, TypesInv
<1>1. /\ UNCHANGED <<rowVars, up, serving, brokerVars, inbox, sends, crashes, confirmed>>
      /\ up /\ step[h] = "prepare" /\ step' = [step EXCEPT ![h] = "claim"]
      /\ ticketId' = [ticketId EXCEPT ![h] = nextId] /\ nextId' = nextId + 1
      /\ nextId \in OrderIds
  BY DEF Prepare, At, Goto, reconVars
<1>2. TypeOK'
  <2>1. nextId' \in 1..(MaxOrderId + 1) /\ ticketId' \in [Handlers -> 0..MaxOrderId]
    BY <1>1, ConstantsAssumption DEF TypeOK, OrderIds
  <2>. QED  BY <1>1, <2>1 DEF TypeOK, Steps, rowVars, brokerVars
<1>3. RequestInv'
  BY <1>1 DEF TypeOK, OrderIds, RequestInv, CounterInv, Claimed, Sent, rowVars, brokerVars
<1>4. DistinctInv'
  BY <1>1 DEF TypeOK, OrderIds, RequestInv, DistinctInv, Claimed
<1>5. CounterInv'
  BY <1>1 DEF OrderIds, CounterInv, brokerVars
<1>. QED  BY <1>1, <1>2, <1>3, <1>4, <1>5, NothingWritten

(* Only a clean row is claimed: no other request is past its claim.        *)
LEMMA ClaimKeepsInv ==
  ASSUME Inv, NEW h \in Handlers, Claim(h), UNCHANGED reconVars
  PROVE  TypeOK' /\ SubmissionInv' /\ Progress
<1>. USE DEF Inv, SubmissionInv, TypesInv
<1>. DEFINE o == serving[h]
<1>1. /\ UNCHANGED <<status, brokerId, up, nextId, serving, ticketId, owner, broker, inbox, sends,
                     crashes, confirmed>>
      /\ up /\ step[h] = "claim" /\ step' = [step EXCEPT ![h] = "dispatch"]
      /\ marker' = [marker EXCEPT ![o] = TRUE] /\ plan' = [plan EXCEPT ![o] = ticketId[h]]
      /\ status[o] = "PROPOSED" /\ ~marker[o] /\ brokerId[o] = 0
  BY DEF Claim, Clean, At, Goto, reconVars, brokerVars
<1>2. /\ o \in Orders /\ ticketId[h] \in OrderIds /\ broker[ticketId[h]] = "NONE"
      /\ sends[o] = 0
  BY <1>1 DEF RequestInv, RowInv
<1>3. marker' \in [Orders -> BOOLEAN]
  BY <1>1 DEF TypeOK
<1>4. plan' \in [Orders -> 0..MaxOrderId]
  BY <1>1, <1>2 DEF TypeOK
<1>5. TypeOK'
  BY <1>1, <1>3, <1>4 DEF TypeOK, Steps
<1>6. RequestInv'
  BY <1>1, <1>2 DEF TypeOK, RequestInv, DistinctInv, Claimed, Sent
<1>7. DistinctInv' /\ CounterInv'
  BY <1>1, <1>2 DEF TypeOK, RequestInv, DistinctInv, CounterInv, Claimed
<1>8. RowInv'
  BY <1>1, <1>2 DEF TypeOK, RowInv, Seen, Closed
<1>9. BrokerInv' /\ EventInv'
  BY <1>1, <1>2 DEF TypeOK, BrokerInv, EventInv
<1>10. IntentInv'
  <2>1. \A p \in Orders : Exposed(p)' => Exposed(p)
    BY <1>1, <1>2 DEF TypeOK, Exposed, Active, Over, Closed
  <2>. QED  BY <1>1, <2>1 DEF IntentInv
<1>11. Progress
  BY <1>1, <1>2 DEF TypeOK, Progress
<1>. QED  BY <1>5, <1>6, <1>7, <1>8, <1>9, <1>10, <1>11

(* A refusal, or an outcome that is left unknown.                          *)
LEMMA EndsKeepsInv ==
  ASSUME Inv, NEW h \in Handlers, UNCHANGED reconVars,
         RefuseBeforeClaim(h) \/ DenyDispatch(h) \/ DispatchUnknown(h)
  PROVE  TypeOK' /\ SubmissionInv' /\ Progress
<1>. USE DEF Inv, SubmissionInv, TypesInv
<1>1. UNCHANGED <<rowVars, up, nextId, brokerVars, inbox, sends, crashes, confirmed>> /\ Return(h)
  BY DEF RefuseBeforeClaim, DenyDispatch, DispatchUnknown, reconVars
<1>2. /\ step' \in [Handlers -> Steps] /\ serving' \in [Handlers -> Orders \cup {NoOrder}]
      /\ ticketId' \in [Handlers -> 0..MaxOrderId]
      /\ RequestInv' /\ DistinctInv' /\ CounterInv'
  BY <1>1, Returns DEF rowVars
<1>3. TypeOK'
  BY <1>1, <1>2 DEF TypeOK, rowVars, brokerVars
<1>. QED  BY <1>1, <1>2, <1>3, NothingWritten

(* The one write to the broker: of a claimed row, under a fresh id.        *)
LEMMA SendKeepsInv ==
  ASSUME Inv, NEW h \in Handlers, Send(h), UNCHANGED reconVars
  PROVE  TypeOK' /\ SubmissionInv' /\ Progress
<1>. USE DEF Inv, SubmissionInv, TypesInv
<1>. DEFINE o == serving[h]
            i == ticketId[h]
<1>1. /\ UNCHANGED <<rowVars, up, nextId, serving, ticketId, inbox, crashes, confirmed>>
      /\ up /\ step[h] = "dispatch" /\ step' = [step EXCEPT ![h] = "awaiting"]
      /\ broker' = [broker EXCEPT ![i] = "WIRE"] /\ owner' = [owner EXCEPT ![i] = o]
      /\ sends' = [sends EXCEPT ![o] = sends[o] + 1]
  BY DEF Send, At, Goto, reconVars
<1>2. /\ o \in Orders /\ i \in OrderIds /\ i < nextId /\ broker[i] = "NONE"
      /\ marker[o] /\ plan[o] = i /\ sends[o] = 0
  BY <1>1 DEF RequestInv, Claimed
<1>3. sends' = [sends EXCEPT ![o] = 1]
  BY <1>1, <1>2
<1>4. /\ broker' \in [OrderIds -> BrokerStates] /\ owner' \in [OrderIds -> Orders \cup {NoOrder}]
      /\ sends' \in [Orders -> Nat] /\ step' \in [Handlers -> Steps]
  BY <1>1, <1>2, <1>3 DEF TypeOK, BrokerStates, Steps
<1>5. TypeOK'
  BY <1>1, <1>4 DEF TypeOK, rowVars
<1>6. RequestInv'
  BY <1>1, <1>2, <1>3 DEF TypeOK, RequestInv, DistinctInv, Claimed, Sent, Seen, rowVars
<1>7. DistinctInv' /\ CounterInv'
  BY <1>1, <1>2 DEF TypeOK, DistinctInv, CounterInv, Claimed
<1>8. RowInv'
  BY <1>1, <1>2, <1>3 DEF TypeOK, RowInv, Seen, Closed, rowVars
<1>9. BrokerInv' /\ EventInv'
  BY <1>1, <1>2, <1>3 DEF TypeOK, BrokerInv, EventInv, Seen, rowVars
<1>10. IntentInv'
  <2>1. \A p \in Orders : Exposed(p)' => Exposed(p)
    BY <1>1, <1>2 DEF TypeOK, RowInv, Exposed, Active, Over, Closed, rowVars
  <2>. QED  BY <1>1, <2>1 DEF IntentInv, rowVars
<1>11. Progress
  BY <1>1, <1>2 DEF TypeOK, Progress, Seen, Closed, rowVars
<1>. QED  BY <1>5, <1>6, <1>7, <1>8, <1>9, <1>10, <1>11

(* The acknowledgement: a run may have written the row since, but nothing  *)
(* that the broker has not said.                                           *)
LEMMA MarksKeepsInv ==
  ASSUME Inv, NEW h \in Handlers, MarkFilled(h) \/ MarkSubmitted(h), UNCHANGED reconVars
  PROVE  TypeOK' /\ SubmissionInv' /\ Progress
<1>. USE DEF Inv, SubmissionInv, TypesInv
<1>. DEFINE o == serving[h]
            s == IF step[h] = "ackFilled" THEN "FILLED" ELSE "SUBMITTED"
<1>1. /\ UNCHANGED <<plan, up, nextId, brokerVars, inbox, sends, crashes, confirmed>>
      /\ step[h] \in {"ackSubmitted", "ackFilled"} /\ Return(h)
      /\ status' = [status EXCEPT ![o] = s]
      /\ brokerId' = [brokerId EXCEPT ![o] = ticketId[h]]
      /\ marker' = [marker EXCEPT ![o] = TRUE]
  BY DEF MarkFilled, MarkSubmitted, At, reconVars
<1>2. /\ o \in Orders /\ ticketId[h] \in OrderIds /\ marker[o] /\ plan[o] = ticketId[h]
      /\ broker[ticketId[h]] \in Seen
      /\ step[h] = "ackFilled" => broker[ticketId[h]] = "FILLED"
  BY <1>1 DEF RequestInv, Claimed, Seen
<1>3. marker' = marker
  BY <1>1, <1>2 DEF TypeOK
<1>4. s \in RowStatuses /\ (s = "SUBMITTED" \/ (s = "FILLED" /\ step[h] = "ackFilled"))
  BY <1>1 DEF RowStatuses
<1>. HIDE DEF s
<1>5. status' \in [Orders -> RowStatuses] /\ brokerId' \in [Orders -> 0..MaxOrderId]
  BY <1>1, <1>2, <1>4 DEF TypeOK
<1>6. /\ step' \in [Handlers -> Steps] /\ serving' \in [Handlers -> Orders \cup {NoOrder}]
      /\ ticketId' \in [Handlers -> 0..MaxOrderId]
      /\ RequestInv' /\ DistinctInv' /\ CounterInv' /\ BrokerInv'
  BY <1>1, <1>3, Returns
<1>7. TypeOK'
  BY <1>1, <1>3, <1>5, <1>6 DEF TypeOK, brokerVars
<1>8. EventInv'
  BY <1>1 DEF EventInv, brokerVars
<1>9. \A p \in Orders : Recorded(p)
  BY <1>1, <1>2, <1>4 DEF TypeOK, Recorded, Closed
<1>10. \A p \in Orders \cap confirmed' : marker[p]
  BY <1>1 DEF RowInv
<1>. QED  BY <1>1, <1>3, <1>6, <1>7, <1>8, <1>9, <1>10, RowsRecorded DEF brokerVars

LEMMA RequestKeepsInv ==
  ASSUME Inv, NEW h \in Handlers, GatedRequest(h)
  PROVE  TypeOK' /\ SubmissionInv' /\ Progress
BY StartsKeepsInv, InsertProposedKeepsInv, PrepareKeepsInv, ClaimKeepsInv, EndsKeepsInv,
   SendKeepsInv, MarksKeepsInv
DEF GatedRequest, Request

-----------------------------------------------------------------------------
(* The rows, the broker and its callbacks, the process *)

(* A write of rows alone.                                                  *)
LEMMA WriteKeepsInv ==
  ASSUME Inv, UNCHANGED <<marker, plan, up, nextId, requestVars, brokerVars, sends, crashes>>,
         status' \in [Orders -> RowStatuses], brokerId' \in [Orders -> 0..MaxOrderId],
         inbox' \subseteq inbox, \A o \in Orders : Recorded(o),
         confirmed \subseteq confirmed', \A o \in Orders \cap confirmed' : marker[o]
  PROVE  TypeOK' /\ SubmissionInv' /\ Progress
<1>. USE DEF Inv, SubmissionInv, TypesInv
<1>1. TypeOK'
  BY DEF TypeOK, requestVars, brokerVars
<1>2. RequestInv' /\ DistinctInv' /\ CounterInv' /\ BrokerInv'
  BY RequestsStand
<1>3. EventInv'
  BY DEF EventInv, brokerVars
<1>. QED  BY <1>1, <1>2, <1>3, RowsRecorded

LEMMA RejectPendingKeepsInv ==
  ASSUME Inv, NEW o \in Orders, RejectPending(o), UNCHANGED reconVars
  PROVE  TypeOK' /\ SubmissionInv' /\ Progress
<1>1. /\ UNCHANGED <<marker, brokerId, plan, up, nextId, requestVars, brokerVars, sends, crashes>>
      /\ inbox' = inbox /\ confirmed' = confirmed
      /\ status' = [status EXCEPT ![o] = "REJECTED"] /\ ~marker[o]
  BY DEF RejectPending, Clean, reconVars
<1>2. status' \in [Orders -> RowStatuses] /\ brokerId' \in [Orders -> 0..MaxOrderId]
  BY <1>1 DEF Inv, TypesInv, TypeOK, RowStatuses
<1>3. \A p \in Orders : Recorded(p)
  BY <1>1 DEF Inv, TypesInv, TypeOK, Recorded
<1>4. \A p \in Orders \cap confirmed' : marker[p]
  BY <1>1 DEF Inv, SubmissionInv, RowInv
<1>. QED  BY <1>1, <1>2, <1>3, <1>4, WriteKeepsInv

(* A callback writes only rows that carry its id.                          *)
LEMMA CallbackKeepsInv ==
  ASSUME Inv, Callback, UNCHANGED reconVars
  PROVE  TypeOK' /\ SubmissionInv' /\ Progress
<1>1. PICK e \in inbox : ApplyBrokerStatus(e) \/ ApplyExecution(e)
  BY DEF Callback
<1>2. /\ UNCHANGED <<marker, brokerId, plan, up, nextId, requestVars, brokerVars, sends, crashes>>
      /\ inbox' \subseteq inbox /\ confirmed' = confirmed
  BY <1>1 DEF ApplyBrokerStatus, ApplyExecution, reconVars
<1>3. /\ e.id \in OrderIds /\ e.id # 0 /\ e.kind \in EventKinds
      /\ broker[e.id] \in Seen
      /\ e.kind \in {"FILLED", "EXECUTION"} => broker[e.id] = "FILLED"
      /\ e.kind = "CANCELLED" => broker[e.id] = "CANCELLED"
  BY ConstantsAssumption DEF Inv, SubmissionInv, EventInv, TypesInv, TypeOK, OrderIds
<1>4. \A o \in Orders : brokerId[o] = e.id => marker[o] /\ plan[o] = e.id
  BY <1>3 DEF Inv, SubmissionInv, RowInv
<1>5. brokerId' \in [Orders -> 0..MaxOrderId] /\ status \in [Orders -> RowStatuses]
  BY <1>2 DEF Inv, TypesInv, TypeOK
<1>6. \A p \in Orders \cap confirmed' : marker[p]
  BY <1>2 DEF Inv, SubmissionInv, RowInv
<1>7. CASE ApplyBrokerStatus(e)
  <2>1. /\ e.kind \in {"SUBMITTED", "FILLED", "CANCELLED"}
        /\ status' = [o \in Orders |-> IF brokerId[o] = e.id
                        THEN BrokerStatusWrite(status[o], e.kind) ELSE status[o]]
    BY <1>3, <1>7 DEF ApplyBrokerStatus, EventKinds
  <2>2. \A old \in RowStatuses :
          /\ BrokerStatusWrite(old, e.kind) \in RowStatuses
          /\ \/ BrokerStatusWrite(old, e.kind) = old
             \/ BrokerStatusWrite(old, e.kind) = "FILLED" /\ e.kind = "FILLED"
             \/ BrokerStatusWrite(old, e.kind) = "SUBMITTED"
             \/ BrokerStatusWrite(old, e.kind) = "CANCELLED" /\ e.kind = "CANCELLED"
    BY <2>1 DEF BrokerStatusWrite, RowStatuses
  <2>3. status' \in [Orders -> RowStatuses]
    BY <1>5, <2>1, <2>2
  <2>4. \A o \in Orders : Recorded(o)
    BY <1>2, <1>3, <1>4, <1>5, <2>1, <2>2 DEF Recorded, Closed
  <2>. QED  BY <1>2, <1>5, <1>6, <2>3, <2>4, WriteKeepsInv
<1>8. CASE ApplyExecution(e)
  <2>1. \/ \E o \in Orders : brokerId[o] = e.id /\ status' = [status EXCEPT ![o] = "FILLED"]
        \/ status' = status
    BY <1>8 DEF ApplyExecution
  <2>2. broker[e.id] = "FILLED" /\ e.kind = "EXECUTION"
    BY <1>3, <1>8 DEF ApplyExecution, EventKinds
  <2>3. status' \in [Orders -> RowStatuses]
    BY <1>5, <2>1 DEF RowStatuses
  <2>4. \A o \in Orders : Recorded(o)
    BY <1>2, <1>4, <1>5, <2>1, <2>2 DEF Recorded, Closed
  <2>. QED  BY <1>2, <1>5, <1>6, <2>3, <2>4, WriteKeepsInv
<1>. QED  BY <1>1, <1>7, <1>8

(* An order moves forward; the request that waits for it hears of it.      *)
LEMMA BrokerMoves ==
  ASSUME Inv, NEW i \in OrderIds, NEW to \in Seen, UNCHANGED reconVars,
         UNCHANGED <<rowVars, up, nextId, serving, ticketId, owner, sends, crashes>>,
         broker[i] \in {"WIRE", "WORKING"}, broker' = [broker EXCEPT ![i] = to],
         NEW ack \in Sent, ack = "ackFilled" => to = "FILLED",
         \/ step' = step
         \/ step' = [h \in Handlers |->
                       IF step[h] = "awaiting" /\ ticketId[h] = i THEN ack ELSE step[h]],
         NEW kinds \in SUBSET EventKinds,
         inbox' = inbox \/ inbox' = inbox \cup {Event(i, k) : k \in kinds},
         kinds \cap {"FILLED", "EXECUTION"} # {} => to = "FILLED",
         "CANCELLED" \in kinds => to = "CANCELLED"
  PROVE  TypeOK' /\ SubmissionInv' /\ Progress
<1>. USE DEF Inv, SubmissionInv, TypesInv
<1>1. UNCHANGED <<status, marker, brokerId, plan, confirmed>>
  BY DEF rowVars, reconVars
<1>2. /\ broker \in [OrderIds -> BrokerStates] /\ broker' \in [OrderIds -> BrokerStates]
      /\ broker'[i] = to /\ \A j \in OrderIds \ {i} : broker'[j] = broker[j]
  BY DEF TypeOK, BrokerStates, Seen
<1>3. \A j \in OrderIds : broker'[j] = "NONE" <=> broker[j] = "NONE"
  BY <1>2 DEF Seen
<1>4. \A j \in OrderIds : /\ broker[j] \in Seen => broker'[j] \in Seen
                          /\ broker[j] \in Closed => broker'[j] = broker[j]
  BY <1>2 DEF Seen, Closed
<1>5. \A h \in Handlers :
        \/ step'[h] = step[h]
        \/ step[h] = "awaiting" /\ ticketId[h] = i /\ step'[h] = ack
  BY DEF TypeOK
<1>6. step' \in [Handlers -> Steps]
  BY DEF TypeOK, Steps, Sent
<1>7. inbox' \subseteq [id : OrderIds, kind : EventKinds]
  BY DEF TypeOK, Event
<1>8. TypeOK'
  BY <1>1, <1>2, <1>6, <1>7 DEF TypeOK
<1>9. RequestInv'
  BY <1>1, <1>2, <1>3, <1>4, <1>5 DEF RequestInv, Claimed, Sent, Seen, Closed
<1>10. DistinctInv' /\ CounterInv'
  BY <1>3, <1>5 DEF DistinctInv, CounterInv, Claimed, Sent
<1>11. RowInv'
  BY <1>1, <1>4 DEF RowInv, Closed
<1>12. BrokerInv'
  BY <1>1, <1>3 DEF BrokerInv
<1>13. EventInv'
  <2>1. \A e \in inbox' : e \in inbox \/ (e.id = i /\ e.kind \in kinds)
    BY DEF Event
  <2>2. \A e \in inbox : e.id \in OrderIds
    BY DEF TypeOK
  <2>. QED  BY <1>2, <1>4, <2>1, <2>2 DEF EventInv, Closed
<1>14. IntentInv'
  <2>1. \A o \in Orders : Exposed(o)' => Exposed(o)
    BY <1>1, <1>4 DEF RowInv, Exposed, Active, Over, Closed
  <2>. QED  BY <1>1, <2>1 DEF IntentInv
<1>15. Progress
  BY <1>1, <1>4 DEF Progress
<1>. QED  BY <1>8, <1>9, <1>10, <1>11, <1>12, <1>13, <1>14, <1>15

LEMMA BrokerKeepsInv ==
  ASSUME Inv, NEW i \in OrderIds, Broker(i), UNCHANGED reconVars
  PROVE  TypeOK' /\ SubmissionInv' /\ Progress
<1>. USE DEF BrokerMove, Acknowledge, Seen, Sent, EventKinds
<1>1. CASE BrokerAccept(i)
  <2>1. {"SUBMITTED"} \in SUBSET EventKinds
    OBVIOUS
  <2>. QED  BY <1>1, <2>1, BrokerMoves DEF BrokerAccept
<1>2. CASE BrokerReject(i)
  <2>1. {} \in SUBSET EventKinds
    OBVIOUS
  <2>. QED  BY <1>2, <2>1, BrokerMoves DEF BrokerReject
<1>3. CASE BrokerFill(i)
  <2>1. {"FILLED", "EXECUTION"} \in SUBSET EventKinds
    OBVIOUS
  <2>. QED  BY <1>3, <2>1, BrokerMoves DEF BrokerFill
<1>4. CASE BrokerCancel(i)
  <2>1. {"CANCELLED"} \in SUBSET EventKinds
    OBVIOUS
  <2>. QED  BY <1>4, <2>1, BrokerMoves DEF BrokerCancel
<1>. QED  BY <1>1, <1>2, <1>3, <1>4 DEF Broker

(* The counter restarts above every id the broker has.                     *)
LEMMA RestartKeepsInv ==
  ASSUME Inv, Restart, UNCHANGED reconVars
  PROVE  TypeOK' /\ SubmissionInv' /\ Progress
<1>. USE DEF Inv, SubmissionInv, TypesInv
<1>1. /\ UNCHANGED <<rowVars, requestVars, brokerVars, inbox, sends, crashes, confirmed>>
      /\ ~up /\ up' = TRUE /\ nextId' \in 1..(MaxOrderId + 1)
      /\ \A i \in OrderIds : broker[i] # "NONE" => i < nextId'
  BY DEF Restart, reconVars
<1>2. TypeOK'
  BY <1>1 DEF TypeOK, rowVars, requestVars, brokerVars
<1>3. RequestInv'
  BY <1>1 DEF RequestInv, Claimed, Sent, rowVars, requestVars, brokerVars
<1>4. DistinctInv' /\ CounterInv'
  BY <1>1 DEF DistinctInv, CounterInv, requestVars, brokerVars
<1>. QED  BY <1>1, <1>2, <1>3, <1>4, NothingWritten

(* A crash settles what was on the wire; nothing durable is lost.          *)
LEMMA CrashKeepsInv ==
  ASSUME Inv, CrashWithRun
  PROVE  TypeOK' /\ SubmissionInv' /\ Progress
<1>. USE DEF Inv, SubmissionInv, TypesInv
<1>1. /\ UNCHANGED <<status, marker, brokerId, plan, nextId, sends, confirmed>>
      /\ crashes < MaxCrashes /\ crashes' = crashes + 1 /\ up' = FALSE /\ inbox' = {}
      /\ step' = [h \in Handlers |-> "idle"] /\ serving' = [h \in Handlers |-> NoOrder]
      /\ ticketId' = [h \in Handlers |-> 0]
  BY DEF CrashWithRun, Crash, rowVars
<1>2. PICK lost \in SUBSET {i \in OrderIds : broker[i] = "WIRE"} :
        /\ broker' = [i \in OrderIds |-> IF i \in lost THEN "NONE"
                                         ELSE IF broker[i] = "WIRE" THEN "WORKING"
                                         ELSE broker[i]]
        /\ owner' = [i \in OrderIds |-> IF i \in lost THEN NoOrder ELSE owner[i]]
  BY DEF CrashWithRun, Crash
<1>3. \A i \in OrderIds :
        \/ broker'[i] = "NONE" /\ owner'[i] = NoOrder /\ broker[i] = "WIRE"
        \/ broker'[i] = "WORKING" /\ owner'[i] = owner[i] /\ broker[i] = "WIRE"
        \/ broker'[i] = broker[i] /\ owner'[i] = owner[i]
  BY <1>2
<1>4. TypeOK'
  <2>1. broker' \in [OrderIds -> BrokerStates]
    BY <1>2 DEF TypeOK, BrokerStates
  <2>2. owner' \in [OrderIds -> Orders \cup {NoOrder}]
    BY <1>2 DEF TypeOK
  <2>3. crashes' \in 0..MaxCrashes
    BY <1>1, ConstantsAssumption DEF TypeOK
  <2>4. /\ step' \in [Handlers -> Steps] /\ serving' \in [Handlers -> Orders \cup {NoOrder}]
        /\ ticketId' \in [Handlers -> 0..MaxOrderId]
    BY <1>1, ConstantsAssumption DEF Steps
  <2>. QED  BY <1>1, <2>1, <2>2, <2>3, <2>4 DEF TypeOK
<1>5. RequestInv' /\ DistinctInv' /\ CounterInv' /\ EventInv'
  BY <1>1 DEF RequestInv, DistinctInv, CounterInv, EventInv, Claimed, Sent
<1>6. RowInv'
  BY <1>1, <1>3 DEF RowInv, Closed, Seen
<1>7. BrokerInv'
  BY <1>1, <1>3 DEF BrokerInv
<1>8. IntentInv'
  <2>1. \A o \in Orders : Exposed(o)' => Exposed(o)
    BY <1>1, <1>3 DEF RowInv, Exposed, Active, Over, Closed
  <2>. QED  BY <1>1, <2>1 DEF IntentInv
<1>9. Progress
  BY <1>1, <1>3 DEF Progress, Seen, Closed
<1>. QED  BY <1>4, <1>5, <1>6, <1>7, <1>8, <1>9

-----------------------------------------------------------------------------
(* The runs and the operator *)

LEMMA IdleRunTyped ==
  /\ IdleRun \in Runs
  /\ \A i \in OrderIds : IdleRun.seen[i] = "NONE"
  /\ \A o \in Orders : IdleRun.transition[o] = "NONE"
  /\ IdleRun.unmatched = {} /\ IdleRun.step = "idle"
<1>1. [i \in OrderIds |-> "NONE"] \in [OrderIds -> BrokerStates]
  BY DEF BrokerStates
<1>2. [o \in Orders |-> "NONE"] \in [Orders -> Transitions \cup {"NONE"}]
  OBVIOUS
<1>. QED  BY <1>1, <1>2 DEF IdleRun, Runs, RunSteps

(* A run that has read nothing yet, or is over.                            *)
LEMMA EmptyRun ==
  ASSUME run' = IdleRun \/ run' = [IdleRun EXCEPT !.step = "capture"]
  PROVE  run' \in Runs /\ RunInv'
<1>. DEFINE none == [i \in OrderIds |-> "NONE"]
            still == [o \in Orders |-> "NONE"]
<1>1. PICK s \in RunSteps :
        run' = [step |-> s, exposure |-> FALSE, complete |-> FALSE, seen |-> none,
                transition |-> still, unmatched |-> {}, lifts |-> {}]
  BY DEF IdleRun, RunSteps
<1>2. none \in [OrderIds -> BrokerStates] /\ \A i \in OrderIds : none[i] = "NONE"
  BY DEF BrokerStates
<1>3. still \in [Orders -> Transitions \cup {"NONE"}] /\ \A o \in Orders : still[o] = "NONE"
  OBVIOUS
<1>. HIDE DEF none, still
<1>4. run' \in Runs
  BY <1>1, <1>2, <1>3 DEF Runs
<1>5. /\ \A i \in OrderIds : run'.seen[i] = "NONE"
      /\ \A o \in Orders : run'.transition[o] = "NONE"
      /\ run'.unmatched = {}
  BY <1>1, <1>2, <1>3
<1>6. RunInv'
  BY <1>5 DEF RunInv, Closed
<1>. QED  BY <1>4, <1>6

(* The submission is not touched.                                          *)
LEMMA SubmissionStands ==
  ASSUME Inv, UNCHANGED <<vars, confirmed>>
  PROVE  TypeOK' /\ SubmissionInv' /\ Progress
<1>1. /\ UNCHANGED <<rowVars, brokerVars, sends, confirmed, marker, plan, up, nextId, requestVars>>
      /\ inbox' \subseteq inbox
  BY DEF vars, rowVars, brokerVars, requestVars
<1>2. TypeOK'
  BY DEF Inv, TypesInv, TypeOK, vars
<1>. QED  BY <1>1, <1>2, NothingWritten, RequestsStand DEF SubmissionInv

(* What the capture saw is so.                                             *)
LEMMA RunCaptureKeepsInv ==
  ASSUME Inv, RunCapture
  PROVE  Inv'
<1>1. UNCHANGED <<vars, hold, observed, confirmed>>
  BY DEF RunCapture
<1>2. TypeOK' /\ SubmissionInv'
  BY <1>1, SubmissionStands
<1>3. PICK seen \in [OrderIds -> BrokerStates], exposure \in BOOLEAN :
        /\ \A i \in OrderIds : seen[i] \in Visible(broker[i], exposure)
        /\ run' = [run EXCEPT !.step = "plan", !.seen = seen, !.exposure = exposure]
  BY DEF RunCapture
<1>4. run \in Runs
  BY DEF Inv, TypesInv
<1>5. /\ run' \in Runs /\ run'.seen = seen /\ run'.transition = run.transition
      /\ run'.unmatched = run.unmatched /\ run'.step = "plan"
  BY <1>3, <1>4 DEF Runs, RunSteps
<1>6. \A i \in OrderIds : /\ seen[i] # "NONE" => broker[i] \in Seen
                          /\ seen[i] \in Closed => broker[i] = seen[i]
  BY <1>3 DEF Visible, Seen, Closed
<1>7. UNCHANGED <<status, marker, plan, broker, owner>>
  BY <1>1 DEF vars
<1>8. RunInv'
  BY <1>1, <1>5, <1>6, <1>7 DEF Inv, RunInv
<1>9. HoldInv' /\ ObservedInv'
  BY <1>1, <1>7 DEF Inv, HoldInv, ObservedInv
<1>. QED  BY <1>1, <1>2, <1>5, <1>8, <1>9 DEF Inv, TypesInv

(* The plan: of an instrument one row is PROPOSED.                         *)
LEMMA RunPlanKeepsInv ==
  ASSUME Inv, RunPlan
  PROVE  Inv'
<1>. DEFINE rows == {o \in Orders : Ambiguous(o)}
<1>1. UNCHANGED <<vars, hold, observed, confirmed>> /\ run.step = "plan"
  BY DEF RunPlan, RunAt
<1>2. TypeOK' /\ SubmissionInv'
  BY <1>1, SubmissionStands
<1>3. UNCHANGED <<status, marker, plan, broker, owner>>
  BY <1>1 DEF vars
<1>4. PICK t \in [Orders -> Transitions \cup {"NONE"}] :
        /\ \A o \in Orders :
             IF o \in rows /\ Matched(o)
               THEN \E i \in OrderIds : Matches(o, i) /\ t[o] \in Derived(run.seen[i])
               ELSE t[o] = "NONE"
        /\ run' = [run EXCEPT
             !.step = "publish",
             !.transition = t,
             !.complete = RecoveryComplete,
             !.unmatched = {o \in rows : run.exposure /\ ~Matched(o)},
             !.lifts = {InstrumentOf[o] : o \in {p \in rows :
                          t[p] # "NONE" /\ hold[InstrumentOf[p]] # NoOrder}}]
  BY DEF RunPlan
<1>. DEFINE unmatched == {o \in rows : run.exposure /\ ~Matched(o)}
            lifts == {InstrumentOf[o] : o \in {p \in rows :
                        t[p] # "NONE" /\ hold[InstrumentOf[p]] # NoOrder}}
<1>5. /\ run \in Runs /\ unmatched \in SUBSET Orders /\ lifts \in SUBSET Instruments
      /\ RecoveryComplete \in BOOLEAN
      /\ \A o \in unmatched : marker[o]
  BY ConstantsAssumption DEF Inv, TypesInv, RecoveryComplete, Runs, Ambiguous
<1>6. \A o \in Orders : t[o] # "NONE" =>
        Ambiguous(o) /\ \E i \in OrderIds : Matches(o, i) /\ t[o] \in Derived(run.seen[i])
  BY <1>4
<1>. HIDE DEF unmatched, lifts
<1>7. /\ run' \in Runs /\ run'.seen = run.seen /\ run'.transition = t
      /\ run'.unmatched = unmatched /\ run'.complete = RecoveryComplete
  <2>1. run' = [run EXCEPT !.step = "publish", !.transition = t, !.complete = RecoveryComplete,
                           !.unmatched = unmatched, !.lifts = lifts]
    BY <1>4 DEF unmatched, lifts
  <2>. QED  BY <1>5, <2>1 DEF Runs, RunSteps
<1>8. ASSUME NEW o \in Orders, t[o] # "NONE"
      PROVE  /\ marker[o] /\ broker[plan[o]] \in Seen
             /\ t[o] = "FILLED" => broker[plan[o]] = "FILLED"
             /\ t[o] \in {"CANCELLED", "REJECTED"} => broker[plan[o]] = "CANCELLED"
             /\ status[o] = "PROPOSED"
  <2>1. PICK i \in OrderIds : Matches(o, i) /\ t[o] \in Derived(run.seen[i])
    BY <1>6, <1>8
  <2>2. run.seen[i] # "NONE" /\ broker[i] \in Seen
    BY <2>1 DEF Matches, Inv, RunInv
  <2>3. plan[o] = i
    BY <2>1, <2>2 DEF Matches, Inv, SubmissionInv, BrokerInv, Seen
  <2>4. /\ t[o] = "FILLED" => run.seen[i] = "FILLED"
        /\ t[o] \in {"CANCELLED", "REJECTED"} => run.seen[i] = "CANCELLED"
    BY <2>1 DEF Derived
  <2>5. /\ t[o] = "FILLED" => broker[i] = "FILLED"
        /\ t[o] \in {"CANCELLED", "REJECTED"} => broker[i] = "CANCELLED"
    BY <2>4 DEF Inv, RunInv, Closed
  <2>. QED  BY <1>6, <1>8, <2>2, <2>3, <2>5 DEF Ambiguous
<1>9. ASSUME NEW o \in Orders, t[o] # "NONE", NEW a \in Instruments, InstrumentOf[o] = a,
             hold[a] \in Orders, status[hold[a]] = "PROPOSED"
      PROVE  hold[a] = o
  BY <1>8, <1>9 DEF Inv, HoldInv, SubmissionInv, IntentInv
<1>10. ASSUME NEW i \in OrderIds, RecoveryComplete, run.seen[i] # "NONE"
       PROVE  status[owner[i]] # "PROPOSED"
  <2>1. owner[i] \in Orders /\ marker[owner[i]]
    BY <1>10 DEF Inv, RunInv, SubmissionInv, BrokerInv, Seen
  <2>. QED  BY <1>10, <2>1 DEF RecoveryComplete, Ambiguous
<1>11. RunInv'
  BY <1>1, <1>3, <1>5, <1>7, <1>8, <1>9, <1>10 DEF Inv, RunInv
<1>12. HoldInv' /\ ObservedInv'
  BY <1>1, <1>3 DEF Inv, HoldInv, ObservedInv
<1>. QED  BY <1>1, <1>2, <1>7, <1>11, <1>12 DEF Inv, TypesInv

(* A publication writes what the plan found, where it still may.           *)
LEMMA RunPublishKeepsInv ==
  ASSUME Inv, RunPublish
  PROVE  Inv'
<1>. USE DEF TypesInv
<1>1. /\ UNCHANGED <<marker, plan, up, nextId, requestVars, brokerVars, inbox, sends, crashes,
                     confirmed>>
      /\ run' = IdleRun /\ run.step = "publish"
      /\ status' = [o \in Orders |-> IF o \in Landed THEN run.transition[o] ELSE status[o]]
      /\ brokerId' = [o \in Orders |-> IF o \in Landed /\ brokerId[o] = 0 THEN plan[o]
                                                                   ELSE brokerId[o]]
  BY DEF RunPublish, RunAt
<1>2. ASSUME NEW o \in Landed
      PROVE  /\ run.transition[o] \in Transitions /\ marker[o] /\ broker[plan[o]] \in Seen
             /\ run.transition[o] = "FILLED" => broker[plan[o]] = "FILLED"
             /\ run.transition[o] \in {"CANCELLED", "REJECTED"} => broker[plan[o]] = "CANCELLED"
  <2>1. o \in Orders /\ run.transition[o] \in Transitions
    BY DEF Landed, Lands, Transitions
  <2>2. run.transition[o] # "NONE"
    BY <2>1 DEF Transitions
  <2>. QED  BY <2>1, <2>2 DEF Inv, RunInv
<1>3. status' \in [Orders -> RowStatuses]
  BY <1>1, <1>2 DEF Inv, TypeOK, Transitions, RowStatuses
<1>4. brokerId' \in [Orders -> 0..MaxOrderId]
  BY <1>1 DEF Inv, TypeOK
<1>5. \A o \in Orders : Recorded(o)
  BY <1>1, <1>2 DEF Recorded, Transitions, Closed
<1>6. \A o \in Orders \cap confirmed' : marker[o]
  BY <1>1 DEF Inv, SubmissionInv, RowInv
<1>7. TypeOK' /\ SubmissionInv' /\ Progress
  BY <1>1, <1>3, <1>4, <1>5, <1>6, WriteKeepsInv
<1>8. run' \in Runs /\ RunInv'
  BY <1>1, EmptyRun
<1>9. PICK named \in [Instruments -> Orders \cup {NoOrder}] :
        /\ \A a \in Instruments :
             IF Held(a) # {} THEN named[a] \in Held(a) ELSE named[a] = hold[a]
        /\ hold' = [a \in Instruments |-> IF Lifted(a) THEN NoOrder ELSE named[a]]
  BY DEF RunPublish
<1>10. hold' \in [Instruments -> Orders \cup {NoOrder}] /\ HoldInv'
  <2>1. \A a \in Instruments : \A o \in Held(a) : InstrumentOf[o] = a /\ marker[o]
    BY DEF Held, Inv, RunInv
  <2>2. \A a \in Instruments : named[a] \in Orders =>
          InstrumentOf[named[a]] = a /\ marker[named[a]]
    BY <1>9, <2>1 DEF Inv, HoldInv
  <2>. QED  BY <1>1, <1>9, <2>2, ConstantsAssumption DEF HoldInv
<1>11. observed' \subseteq OrderIds /\ ObservedInv'
  <2>1. \A i \in observed' :
          i \in OrderIds /\ broker[i] \in Seen /\ status[owner[i]] # "PROPOSED"
    BY <1>1 DEF RunPublish, Inv, RunInv, ObservedInv
  <2>2. \A i \in observed' : owner[i] \in Orders /\ marker[owner[i]]
    BY <2>1 DEF Inv, SubmissionInv, BrokerInv, Seen
  <2>. QED  BY <1>7, <2>1, <2>2 DEF Progress, ObservedInv
<1>12. confirmed' \subseteq Orders
  BY <1>1 DEF Inv
<1>. QED  BY <1>7, <1>8, <1>10, <1>11, <1>12 DEF Inv

LEMMA RunStartsOrFails ==
  ASSUME Inv, RunStart \/ RunFails
  PROVE  Inv'
<1>1. /\ UNCHANGED <<vars, hold, observed, confirmed>>
      /\ run' = IdleRun \/ run' = [IdleRun EXCEPT !.step = "capture"]
  BY DEF RunStart, RunFails
<1>2. TypeOK' /\ SubmissionInv'
  BY <1>1, SubmissionStands
<1>3. run' \in Runs /\ RunInv'
  BY <1>1, EmptyRun
<1>4. HoldInv' /\ ObservedInv'
  BY <1>1 DEF Inv, HoldInv, ObservedInv, vars
<1>. QED  BY <1>1, <1>2, <1>3, <1>4 DEF Inv, TypesInv

(* The operator's word, remembered in confirmed.                           *)
LEMMA ConfirmKeepsInv ==
  ASSUME Inv, NEW a \in Instruments, ConfirmNotSubmitted(a)
  PROVE  Inv'
<1>. DEFINE o == hold[a]
<1>1. /\ UNCHANGED <<marker, brokerId, plan, up, nextId, requestVars, brokerVars, inbox, sends,
                     crashes, run, observed>>
      /\ o \in Orders /\ status' = [status EXCEPT ![o] = "REJECTED"]
      /\ confirmed' = confirmed \cup {o} /\ hold' = [hold EXCEPT ![a] = NoOrder]
  BY DEF ConfirmNotSubmitted
<1>2. marker[o]
  BY <1>1 DEF Inv, HoldInv
<1>3. status' \in [Orders -> RowStatuses] /\ brokerId' \in [Orders -> 0..MaxOrderId]
  BY <1>1 DEF Inv, TypesInv, TypeOK, RowStatuses
<1>4. \A p \in Orders : Recorded(p)
  BY <1>1, <1>2 DEF Inv, TypesInv, TypeOK, Recorded
<1>5. \A p \in Orders \cap confirmed' : marker[p]
  BY <1>1, <1>2 DEF Inv, SubmissionInv, RowInv
<1>6. TypeOK' /\ SubmissionInv' /\ Progress
  BY <1>1, <1>3, <1>4, <1>5, WriteKeepsInv
<1>7. RunInv' /\ HoldInv' /\ ObservedInv'
  <2>1. \A b \in Instruments : hold'[b] = hold[b] \/ hold'[b] = NoOrder
    BY <1>1 DEF Inv, TypesInv
  <2>. QED  BY <1>1, <1>6, <2>1, RunStands
<1>8. hold' \in [Instruments -> Orders \cup {NoOrder}] /\ confirmed' \subseteq Orders
  BY <1>1 DEF Inv, TypesInv
<1>. QED  BY <1>1, <1>6, <1>7, <1>8 DEF Inv, TypesInv

LEMMA LinkKeepsInv ==
  ASSUME Inv, NEW a \in Instruments, NEW i \in OrderIds, LinkToBrokerOrder(a, i)
  PROVE  Inv'
<1>1. UNCHANGED <<vars, run, observed, confirmed>> /\ hold' = [hold EXCEPT ![a] = NoOrder]
  BY DEF LinkToBrokerOrder
<1>2. TypeOK' /\ SubmissionInv' /\ Progress
  BY <1>1, SubmissionStands
<1>3. RunInv' /\ HoldInv' /\ ObservedInv'
  <2>1. \A b \in Instruments : hold'[b] = hold[b] \/ hold'[b] = NoOrder
    BY <1>1 DEF Inv, TypesInv
  <2>. QED  BY <1>1, <1>2, <2>1, RunStands
<1>4. hold' \in [Instruments -> Orders \cup {NoOrder}]
  BY <1>1 DEF Inv, TypesInv
<1>. QED  BY <1>1, <1>2, <1>3, <1>4 DEF Inv, TypesInv

-----------------------------------------------------------------------------
(* The specification *)

LEMMA ReconInitInv == ReconInit => Inv
<1>. SUFFICES ASSUME ReconInit PROVE Inv
  OBVIOUS
<1>1. \A h \in Handlers : serving[h] = NoOrder /\ step[h] = "idle"
  BY DEF ReconInit, Init
<1>2. TypeOK
  <2>1. serving \in [Handlers -> Orders \cup {NoOrder}]
    BY DEF ReconInit, Init
  <2>. QED  BY <2>1, ConstantsAssumption
       DEF ReconInit, Init, TypeOK, RowStatuses, Steps, BrokerStates, EventKinds, OrderIds
<1>3. run = IdleRun /\ hold = [a \in Instruments |-> NoOrder] /\ observed = {} /\ confirmed = {}
  BY DEF ReconInit
<1>4. TypesInv
  BY <1>2, <1>3, IdleRunTyped DEF TypesInv
<1>5. RequestInv /\ DistinctInv
  BY <1>1 DEF RequestInv, DistinctInv, Claimed, Sent
<1>6. CounterInv /\ RowInv /\ BrokerInv /\ EventInv
  BY <1>3 DEF ReconInit, Init, CounterInv, RowInv, BrokerInv, EventInv, Closed
<1>7. IntentInv
  BY DEF ReconInit, Init, IntentInv, Exposed, Active
<1>8. RunInv
  BY <1>3, IdleRunTyped DEF RunInv, Closed
<1>9. HoldInv /\ ObservedInv
  BY <1>3, ConstantsAssumption DEF HoldInv, ObservedInv
<1>. QED  BY <1>4, <1>5, <1>6, <1>7, <1>8, <1>9 DEF Inv, SubmissionInv

(* A step of the submission that leaves the reconciliation alone.          *)
LEMMA UnaffectedRuns ==
  ASSUME Inv, UNCHANGED reconVars, TypeOK' /\ SubmissionInv' /\ Progress
  PROVE  Inv'
<1>1. UNCHANGED <<run, hold, observed, confirmed>>
  BY DEF reconVars
<1>2. RunInv' /\ HoldInv' /\ ObservedInv'
  BY <1>1, RunStands
<1>. QED  BY <1>1, <1>2 DEF Inv, TypesInv

LEMMA CrashWithRunKeepsInv ==
  ASSUME Inv, CrashWithRun
  PROVE  Inv'
<1>1. UNCHANGED <<hold, confirmed>> /\ run' = IdleRun /\ observed' = {}
  BY DEF CrashWithRun
<1>2. TypeOK' /\ SubmissionInv' /\ Progress
  BY CrashKeepsInv
<1>3. run' \in Runs /\ RunInv'
  BY <1>1, EmptyRun
<1>4. HoldInv' /\ ObservedInv'
  BY <1>1, <1>2 DEF Inv, HoldInv, ObservedInv, Progress
<1>. QED  BY <1>1, <1>2, <1>3, <1>4 DEF Inv, TypesInv

LEMMA ReconNextKeepsInv ==
  ASSUME Inv, [ReconNext]_allVars
  PROVE  Inv'
<1>1. ASSUME NEW h \in Handlers, GatedRequest(h) PROVE Inv'
  BY <1>1, RequestKeepsInv, UnaffectedRuns DEF GatedRequest
<1>2. CASE Unaffected
  BY <1>2, RejectPendingKeepsInv, BrokerKeepsInv, CallbackKeepsInv, RestartKeepsInv,
     UnaffectedRuns DEF Unaffected
<1>3. CASE CrashWithRun
  BY <1>3, CrashWithRunKeepsInv
<1>4. CASE Reconcile
  BY <1>4, RunStartsOrFails, RunCaptureKeepsInv, RunPlanKeepsInv, RunPublishKeepsInv
  DEF Reconcile
<1>5. CASE Operator
  BY <1>5, ConfirmKeepsInv, LinkKeepsInv DEF Operator
<1>6. CASE UNCHANGED allVars
  <2>1. UNCHANGED <<vars, confirmed>> /\ UNCHANGED reconVars
    BY <1>6 DEF allVars, reconVars
  <2>. QED  BY <2>1, SubmissionStands, UnaffectedRuns
<1>. QED  BY <1>1, <1>2, <1>3, <1>4, <1>5, <1>6 DEF ReconNext

LEMMA ReconInvariance == ReconSpec => []Inv
<1>1. Inv /\ [ReconNext]_allVars => Inv'
  BY ReconNextKeepsInv
<1>. QED  BY ReconInitInv, <1>1, PTL DEF ReconSpec

-----------------------------------------------------------------------------
(* Theorems *)

(* ClosedRowsAreDead: whatever a callback or a run (#reconcile) writes to  *)
(* a row, it does not take the row out of the active statuses while its    *)
(* order is live at the broker, unless an operator said so.                *)
THEOREM ClosedRowsAreDeadHolds == ReconSpec => []ClosedRowsAreDead
<1>1. ASSUME Inv
      PROVE  ClosedRowsAreDead
  <2>. SUFFICES ASSUME NEW o \in Orders \ confirmed,
                       status[o] \in {"FILLED", "CANCELLED", "REJECTED"},
                       NEW i \in OrderIds, owner[i] = o
       PROVE  broker[i] \notin {"WIRE", "WORKING"}
    BY DEF ClosedRowsAreDead
  <2>1. broker[i] # "NONE" => marker[o] /\ plan[o] = i
    BY <1>1 DEF Inv, SubmissionInv, BrokerInv
  <2>2. marker[o] => broker[plan[o]] \in Closed
    BY <1>1 DEF Inv, SubmissionInv, RowInv, Closed
  <2>. QED  BY <2>1, <2>2 DEF Closed
<1>. QED  BY <1>1, ReconInvariance, PTL

(* OneLiveUnlessConfirmed: no order is sent twice and no instrument has    *)
(* two live orders, although runs close rows under requests in flight and  *)
(* late acknowledgements reopen them.                                      *)
THEOREM OneLiveUnlessConfirmedHolds == ReconSpec => []OneLiveUnlessConfirmed
<1>1. ASSUME Inv
      PROVE  OneLiveUnlessConfirmed
  <2>1. AtMostOneDispatch
    BY <1>1 DEF Inv, SubmissionInv, RowInv, AtMostOneDispatch
  <2>2. ASSUME NEW i \in OrderIds, broker[i] \in {"WIRE", "WORKING"}, owner[i] \notin confirmed
        PROVE  owner[i] \in Orders /\ plan[owner[i]] = i /\ Exposed(owner[i])
    <3>. DEFINE o == owner[i]
    <3>1. o \in Orders /\ marker[o] /\ plan[o] = i
      BY <1>1, <2>2 DEF Inv, SubmissionInv, BrokerInv
    <3>2. broker[plan[o]] \notin Closed
      BY <2>2, <3>1 DEF Closed
    <3>3. status[o] \notin {"ABSENT", "FILLED", "CANCELLED", "REJECTED"}
      BY <1>1, <2>2, <3>1, <3>2 DEF Inv, SubmissionInv, RowInv, Closed
    <3>4. status[o] \in RowStatuses
      BY <1>1, <3>1 DEF Inv, TypesInv, TypeOK
    <3>. QED  BY <2>2, <3>1, <3>2, <3>3, <3>4 DEF Exposed, Active, Over, RowStatuses
  <2>3. ASSUME NEW i \in OrderIds, NEW j \in OrderIds, i # j,
               broker[i] \in {"WIRE", "WORKING"}, broker[j] \in {"WIRE", "WORKING"},
               {owner[i], owner[j]} \cap confirmed = {}
        PROVE  InstrumentOf[owner[i]] # InstrumentOf[owner[j]]
    BY <1>1, <2>2, <2>3 DEF Inv, SubmissionInv, IntentInv
  <2>. QED  BY <2>1, <2>3 DEF OneLiveUnlessConfirmed
<1>. QED  BY <1>1, ReconInvariance, PTL

(* HoldLiftsWithItsRow: a hold is lifted by a run, confirmed or linked     *)
(* only with its row no longer PROPOSED: no overlap of runs, requests and  *)
(* the operator frees an instrument whose submission is unresolved.        *)
THEOREM HoldLiftsWithItsRowHolds == ReconSpec => HoldLiftsWithItsRow
<1>. DEFINE Kept == \A a \in Instruments :
              hold[a] \in Orders /\ hold'[a] = NoOrder => status'[hold[a]] # "PROPOSED"
<1>1. ASSUME Inv, [ReconNext]_allVars
      PROVE  Kept
  <2>. SUFFICES ASSUME NEW a \in Instruments, hold[a] \in Orders, hold'[a] = NoOrder
       PROVE  status'[hold[a]] # "PROPOSED"
    OBVIOUS
  <2>. DEFINE q == hold[a]
  <2>1. hold' # hold
    BY ConstantsAssumption
  <2>2. CASE RunPublish
    <3>1. Lifted(a)
      <4>1. PICK named \in [Instruments -> Orders \cup {NoOrder}] :
              /\ \A b \in Instruments :
                   IF Held(b) # {} THEN named[b] \in Held(b) ELSE named[b] = hold[b]
              /\ hold' = [b \in Instruments |-> IF Lifted(b) THEN NoOrder ELSE named[b]]
        BY <2>2 DEF RunPublish
      <4>2. named[a] \in Orders
        BY <1>1, <4>1 DEF Held, Inv, TypesInv, Runs
      <4>. QED  BY <4>1, <4>2, ConstantsAssumption
    <3>2. PICK o \in Landed : InstrumentOf[o] = a
      BY <3>1 DEF Lifted
    <3>3. /\ o \in Orders /\ run.transition[o] \in Transitions
          /\ status' = [p \in Orders |-> IF p \in Landed THEN run.transition[p] ELSE status[p]]
      BY <2>2 DEF RunPublish, Landed, Lands, Transitions
    <3>4. status[q] = "PROPOSED" => q = o
      BY <1>1, <3>2, <3>3 DEF Inv, RunInv, Transitions
    <3>5. status'[q] = "PROPOSED" => status[q] = "PROPOSED" /\ q \notin Landed
      BY <3>3 DEF Landed, Lands, Transitions
    <3>. QED  BY <3>4, <3>5
  <2>3. CASE Operator
    <3>1. PICK b \in Instruments :
            ConfirmNotSubmitted(b) \/ \E i \in OrderIds : LinkToBrokerOrder(b, i)
      BY <2>3 DEF Operator
    <3>2. hold' = [hold EXCEPT ![b] = NoOrder]
      BY <3>1 DEF ConfirmNotSubmitted, LinkToBrokerOrder
    <3>3. a = b
      BY <3>2, ConstantsAssumption, <1>1 DEF Inv, TypesInv
    <3>4. CASE ConfirmNotSubmitted(b)
      BY <1>1, <3>3, <3>4 DEF ConfirmNotSubmitted, Inv, TypesInv, TypeOK
    <3>5. ASSUME NEW i \in OrderIds, LinkToBrokerOrder(b, i)
          PROVE  status'[q] # "PROPOSED"
      BY <1>1, <3>3, <3>5 DEF LinkToBrokerOrder, Inv, ObservedInv, vars
    <3>. QED  BY <3>1, <3>4, <3>5
  <2>4. CASE Unaffected \/ CrashWithRun \/ RunStart \/ RunCapture \/ RunPlan \/ RunFails
    BY <2>1, <2>4 DEF Unaffected, CrashWithRun, RunStart, RunCapture, RunPlan, RunFails, reconVars
  <2>5. CASE (\E h \in Handlers : GatedRequest(h)) \/ UNCHANGED allVars
    BY <2>1, <2>5 DEF GatedRequest, reconVars, allVars
  <2>. QED  BY <1>1, <2>2, <2>3, <2>4, <2>5 DEF ReconNext, Reconcile
<1>2. Inv /\ [ReconNext]_allVars => Kept
  BY <1>1
<1>. QED  BY ReconInvariance, <1>2, PTL DEF ReconSpec, HoldLiftsWithItsRow

=============================================================================
