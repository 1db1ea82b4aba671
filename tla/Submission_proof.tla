-------------------------- MODULE Submission_proof --------------------------
(***************************************************************************)
(* Proofs about Submission for every set of orders, requests, instruments  *)
(* and broker ids and any number of crashes.                               *)
(*                                                                         *)
(* None of the safety properties is inductive alone.  That an order is     *)
(* sent once rests on the claim marker (RowInv), on there being one        *)
(* claiming request per row (DistinctInv), and on that request's row being *)
(* untouched by callbacks, which match rows by a broker id the row gets    *)
(* only at the end (RequestInv).  That a persisted id names this order and *)
(* no other rests on the counter being above every id the broker has seen  *)
(* (CounterInv, BrokerInv).  Inv is their conjunction; one lemma per       *)
(* action shows that the action keeps each conjunct.                       *)
(***************************************************************************)
EXTENDS Submission, TLAPS

(* The broker has seen the order.                                          *)
Seen == {"WORKING", "FILLED", "CANCELLED"}

(* The request has claimed its row; it has written the order.              *)
Claimed == {"dispatch", "awaiting", "ackSubmitted", "ackFilled"}
Sent == {"awaiting", "ackSubmitted", "ackFilled"}

(* A request past the claim owns its row: still PROPOSED, its plan naming  *)
(* the id the request holds, an id the broker has not seen before the      *)
(* send and holds for this order after it.                                 *)
RequestInv ==
  \A h \in Handlers :
    /\ step[h] # "idle" => up /\ serving[h] \in Orders
    /\ step[h] \in {"claim"} \cup Claimed =>
         ticketId[h] \in OrderIds /\ ticketId[h] < nextId
    /\ step[h] \in {"claim", "dispatch"} => broker[ticketId[h]] = "NONE"
    /\ step[h] \in Claimed =>
         /\ marker[serving[h]]
         /\ plan[serving[h]] = ticketId[h]
         /\ status[serving[h]] = "PROPOSED"
         /\ brokerId[serving[h]] = 0
    /\ step[h] = "dispatch" => sends[serving[h]] = 0
    /\ step[h] \in Sent => owner[ticketId[h]] = serving[h]
    /\ step[h] = "ackSubmitted" => broker[ticketId[h]] \in Seen
    /\ step[h] = "ackFilled" => broker[ticketId[h]] = "FILLED"

(* No two requests hold the same broker id, and no two have claimed the    *)
(* same row.                                                               *)
DistinctInv ==
  \A h, k \in Handlers :
    h # k =>
      /\ step[h] \in {"claim"} \cup Claimed /\ step[k] \in {"claim"} \cup Claimed
           => ticketId[h] # ticketId[k]
      /\ step[h] \in Claimed /\ step[k] \in Claimed => serving[h] # serving[k]

(* While the process runs its counter is above every id the broker holds.  *)
CounterInv == up => \A i \in OrderIds : broker[i] # "NONE" => i < nextId

(* A row without the marker has sent nothing; a row with it never returns  *)
(* to be rejected or claimed; the id a row carries is its plan's, belongs  *)
(* to its own order, and backs its terminal status.                        *)
RowInv ==
  \A o \in Orders :
    /\ ~marker[o] => /\ sends[o] = 0
                     /\ plan[o] = 0
                     /\ brokerId[o] = 0
                     /\ status[o] \in {"ABSENT", "PROPOSED", "REJECTED"}
    /\ marker[o] => status[o] \in {"PROPOSED", "SUBMITTED", "FILLED", "CANCELLED"}
    /\ sends[o] \in {0, 1}
    /\ status[o] \in {"SUBMITTED", "FILLED", "CANCELLED"} => brokerId[o] # 0
    /\ brokerId[o] # 0 => /\ brokerId[o] = plan[o]
                          /\ owner[brokerId[o]] = o
                          /\ broker[brokerId[o]] \in Seen
    /\ status[o] = "FILLED" => broker[brokerId[o]] = "FILLED"
    /\ status[o] = "CANCELLED" => broker[brokerId[o]] = "CANCELLED"

(* Every order at the broker is the one send of a claimed row whose plan   *)
(* names it.                                                               *)
BrokerInv ==
  \A i \in OrderIds :
    /\ broker[i] = "NONE" => owner[i] = NoOrder
    /\ broker[i] # "NONE" => /\ owner[i] \in Orders
                             /\ marker[owner[i]]
                             /\ plan[owner[i]] = i
                             /\ sends[owner[i]] = 1

(* A callback in flight reports a state its order has reached for good.    *)
EventInv ==
  \A e \in inbox :
    /\ broker[e.id] \in Seen
    /\ e.kind \in {"FILLED", "EXECUTION"} => broker[e.id] = "FILLED"
    /\ e.kind = "CANCELLED" => broker[e.id] = "CANCELLED"

(* One active intent per instrument.                                       *)
IntentInv ==
  \A o, p \in Orders :
    o # p /\ InstrumentOf[o] = InstrumentOf[p] => ~(Active(o) /\ Active(p))

(* The inductive invariant.                                                *)
Inv ==
  /\ TypeOK
  /\ RequestInv
  /\ DistinctInv
  /\ CounterInv
  /\ RowInv
  /\ BrokerInv
  /\ EventInv
  /\ IntentInv

(* A request that found no row, or a clean one, holds nothing yet.         *)
LEMMA SubmitTicketKeepsInv ==
  ASSUME Inv, NEW h \in Handlers, NEW o \in Orders, SubmitTicket(h, o)
  PROVE  Inv'
<1>1. TypeOK'
  <2>1. step' \in [Handlers -> Steps]
    BY DEF Inv, SubmitTicket, TypeOK, Goto, Steps
  <2>2. serving' \in [Handlers -> Orders \cup {NoOrder}]
    BY DEF Inv, SubmitTicket, TypeOK
  <2>. QED  BY <2>1, <2>2 DEF Inv, SubmitTicket, TypeOK, rowVars, brokerVars
<1>2. RequestInv'
  BY DEF Inv, SubmitTicket, TypeOK, RequestInv, rowVars, brokerVars, Clean, At,
    Goto, OrderIds, Seen, Claimed, Sent
<1>3. DistinctInv'
  BY DEF Inv, SubmitTicket, TypeOK, DistinctInv, rowVars, brokerVars, Clean,
    At, Goto, OrderIds, Claimed
<1>4. CounterInv'
  BY DEF Inv, SubmitTicket, CounterInv, rowVars, brokerVars, Clean, At, Goto
<1>5. RowInv'
  BY DEF Inv, SubmitTicket, RowInv, rowVars, brokerVars, Clean, At, Goto, Seen
<1>6. BrokerInv'
  BY DEF Inv, SubmitTicket, BrokerInv, rowVars, brokerVars, Clean, At, Goto
<1>7. EventInv'
  BY DEF Inv, SubmitTicket, EventInv, rowVars, brokerVars, Clean, At, Goto,
    Seen
<1>8. IntentInv'
  BY DEF Inv, SubmitTicket, IntentInv, rowVars, brokerVars, Clean, At, Goto,
    Active
<1>. QED  BY <1>1, <1>2, <1>3, <1>4, <1>5, <1>6, <1>7, <1>8 DEF Inv

(* Likewise for the request that names an existing row.                    *)
LEMMA ExecuteProposedKeepsInv ==
  ASSUME Inv, NEW h \in Handlers, NEW o \in Orders, ExecuteProposed(h, o)
  PROVE  Inv'
<1>1. TypeOK'
  BY ConstantsAssumption DEF Inv, ExecuteProposed, TypeOK, rowVars, brokerVars,
    Clean, At, Goto, OrderIds, RowStatuses, BrokerStates, Steps, EventKinds
<1>2. RequestInv'
  BY DEF Inv, ExecuteProposed, TypeOK, RequestInv, rowVars, brokerVars, Clean,
    At, Goto, OrderIds, Seen, Claimed, Sent
<1>3. DistinctInv'
  BY DEF Inv, ExecuteProposed, DistinctInv, rowVars, brokerVars, Clean, At,
    Goto, Claimed
<1>4. CounterInv'
  BY DEF Inv, ExecuteProposed, CounterInv, rowVars, brokerVars, Clean, At, Goto
<1>5. RowInv'
  BY DEF Inv, ExecuteProposed, RowInv, rowVars, brokerVars, Clean, At, Goto,
    Seen
<1>6. BrokerInv'
  BY DEF Inv, ExecuteProposed, BrokerInv, rowVars, brokerVars, Clean, At, Goto
<1>7. EventInv'
  BY DEF Inv, ExecuteProposed, EventInv, rowVars, brokerVars, Clean, At, Goto,
    Seen
<1>8. IntentInv'
  BY DEF Inv, ExecuteProposed, IntentInv, rowVars, brokerVars, Clean, At, Goto,
    Active
<1>. QED  BY <1>1, <1>2, <1>3, <1>4, <1>5, <1>6, <1>7, <1>8 DEF Inv

(* The insert opens an intent only where ActiveIntentExists found none     *)
(* (IntentInv); resuming a row found by the unique violation writes        *)
(* nothing.                                                                *)
LEMMA InsertProposedKeepsInv ==
  ASSUME Inv, NEW h \in Handlers, InsertProposed(h)
  PROVE  Inv'
<1>1. TypeOK'
  <2>1. CASE status[serving[h]] = "ABSENT"
    BY <2>1, ConstantsAssumption DEF Inv, InsertProposed, TypeOK, RequestInv,
      brokerVars, ActiveIntentExists, At, Goto, OrderIds, RowStatuses,
      BrokerStates, Steps, EventKinds, Seen, Claimed, Sent, Active
  <2>2. CASE status[serving[h]] # "ABSENT"
    BY <2>2, ConstantsAssumption DEF Inv, InsertProposed, TypeOK, RequestInv,
      brokerVars, ActiveIntentExists, At, Goto, OrderIds, RowStatuses,
      BrokerStates, Steps, EventKinds, Seen, Claimed, Sent, Active
  <2>. QED  BY <2>1, <2>2
<1>2. RequestInv'
  BY DEF Inv, InsertProposed, TypeOK, RequestInv, brokerVars,
    ActiveIntentExists, At, Goto, OrderIds, Seen, Claimed, Sent, Active
<1>3. DistinctInv'
  BY DEF Inv, InsertProposed, DistinctInv, brokerVars, ActiveIntentExists, At,
    Goto, Claimed, Active
<1>4. CounterInv'
  BY DEF Inv, InsertProposed, CounterInv, brokerVars, ActiveIntentExists, At,
    Goto, Active
<1>5. RowInv'
  BY DEF Inv, InsertProposed, TypeOK, RowInv, brokerVars, ActiveIntentExists,
    At, Goto, OrderIds, Seen, Active
<1>6. BrokerInv'
  BY DEF Inv, InsertProposed, BrokerInv, brokerVars, ActiveIntentExists, At,
    Goto, Active
<1>7. EventInv'
  BY DEF Inv, InsertProposed, EventInv, brokerVars, ActiveIntentExists, At,
    Goto, Seen, Active
<1>8. IntentInv'
  BY DEF Inv, InsertProposed, TypeOK, IntentInv, brokerVars,
    ActiveIntentExists, At, Goto, OrderIds, Active
<1>. QED  BY <1>1, <1>2, <1>3, <1>4, <1>5, <1>6, <1>7, <1>8 DEF Inv

(* The id taken is the counter's value, so no other request holds it and   *)
(* no broker order has it (RequestInv, DistinctInv from CounterInv).       *)
LEMMA PrepareKeepsInv ==
  ASSUME Inv, NEW h \in Handlers, Prepare(h)
  PROVE  Inv'
<1>1. TypeOK'
  BY ConstantsAssumption DEF Inv, Prepare, TypeOK, OrderIds, rowVars,
    brokerVars, At, Goto, RowStatuses, BrokerStates, Steps, EventKinds
<1>2. RequestInv'
  BY DEF Inv, Prepare, TypeOK, RequestInv, CounterInv, OrderIds, rowVars,
    brokerVars, At, Goto, Seen, Claimed, Sent
<1>3. DistinctInv'
  BY DEF Inv, Prepare, TypeOK, RequestInv, DistinctInv, OrderIds, rowVars,
    brokerVars, At, Goto, Seen, Claimed, Sent
<1>4. CounterInv'
  BY DEF Inv, Prepare, CounterInv, OrderIds, rowVars, brokerVars, At, Goto
<1>5. RowInv'
  BY DEF Inv, Prepare, RowInv, rowVars, brokerVars, At, Goto, Seen
<1>6. BrokerInv'
  BY DEF Inv, Prepare, BrokerInv, rowVars, brokerVars, At, Goto
<1>7. EventInv'
  BY DEF Inv, Prepare, EventInv, rowVars, brokerVars, At, Goto, Seen
<1>8. IntentInv'
  BY DEF Inv, Prepare, IntentInv, rowVars, brokerVars, At, Goto, Active
<1>. QED  BY <1>1, <1>2, <1>3, <1>4, <1>5, <1>6, <1>7, <1>8 DEF Inv

(* Only a clean row is claimed, so no other request is past the claim for  *)
(* the same row (DistinctInv), and the row's plan becomes the ticket's id. *)
LEMMA ClaimKeepsInv ==
  ASSUME Inv, NEW h \in Handlers, Claim(h)
  PROVE  Inv'
<1>1. TypeOK'
  BY ConstantsAssumption DEF Inv, Claim, TypeOK, RequestInv, brokerVars, Clean,
    At, Goto, OrderIds, RowStatuses, BrokerStates, Steps, EventKinds, Seen,
    Claimed, Sent
<1>2. RequestInv'
  BY DEF Inv, Claim, TypeOK, RequestInv, DistinctInv, RowInv, BrokerInv,
    brokerVars, Clean, At, Goto, OrderIds, Seen, Claimed, Sent
<1>3. DistinctInv'
  BY DEF Inv, Claim, RequestInv, DistinctInv, brokerVars, Clean, At, Goto,
    Seen, Claimed, Sent
<1>4. CounterInv'
  BY DEF Inv, Claim, CounterInv, brokerVars, Clean, At, Goto
<1>5. RowInv'
  BY DEF Inv, Claim, TypeOK, RequestInv, RowInv, brokerVars, Clean, At, Goto,
    OrderIds, Seen, Claimed, Sent
<1>6. BrokerInv'
  BY DEF Inv, Claim, BrokerInv, brokerVars, Clean, At, Goto
<1>7. EventInv'
  BY DEF Inv, Claim, EventInv, brokerVars, Clean, At, Goto, Seen
<1>8. IntentInv'
  BY DEF Inv, Claim, RequestInv, IntentInv, brokerVars, Clean, At, Goto, Seen,
    Claimed, Sent, Active
<1>. QED  BY <1>1, <1>2, <1>3, <1>4, <1>5, <1>6, <1>7, <1>8 DEF Inv

(* A refused request leaves the database alone.                            *)
LEMMA RefuseBeforeClaimKeepsInv ==
  ASSUME Inv, NEW h \in Handlers, RefuseBeforeClaim(h)
  PROVE  Inv'
<1>1. TypeOK'
  BY ConstantsAssumption DEF Inv, RefuseBeforeClaim, TypeOK, rowVars,
    brokerVars, At, Return, OrderIds, RowStatuses, BrokerStates, Steps,
    EventKinds, Goto
<1>2. RequestInv'
  BY DEF Inv, RefuseBeforeClaim, TypeOK, RequestInv, rowVars, brokerVars, At,
    Return, OrderIds, Seen, Claimed, Sent, Goto
<1>3. DistinctInv'
  BY DEF Inv, RefuseBeforeClaim, TypeOK, DistinctInv, rowVars, brokerVars, At,
    Return, OrderIds, Claimed, Goto
<1>4. CounterInv'
  BY DEF Inv, RefuseBeforeClaim, CounterInv, rowVars, brokerVars, At, Return,
    Goto
<1>5. RowInv'
  BY DEF Inv, RefuseBeforeClaim, RowInv, rowVars, brokerVars, At, Return, Seen,
    Goto
<1>6. BrokerInv'
  BY DEF Inv, RefuseBeforeClaim, BrokerInv, rowVars, brokerVars, At, Return,
    Goto
<1>7. EventInv'
  BY DEF Inv, RefuseBeforeClaim, EventInv, rowVars, brokerVars, At, Return,
    Seen, Goto
<1>8. IntentInv'
  BY DEF Inv, RefuseBeforeClaim, IntentInv, rowVars, brokerVars, At, Return,
    Active, Goto
<1>. QED  BY <1>1, <1>2, <1>3, <1>4, <1>5, <1>6, <1>7, <1>8 DEF Inv

(* A refusal after the claim leaves the marker and the plan: RowInv allows *)
(* a claimed row that was never sent.                                      *)
LEMMA DenyDispatchKeepsInv ==
  ASSUME Inv, NEW h \in Handlers, DenyDispatch(h)
  PROVE  Inv'
<1>1. TypeOK'
  BY ConstantsAssumption DEF Inv, DenyDispatch, TypeOK, rowVars, brokerVars,
    At, Return, OrderIds, RowStatuses, BrokerStates, Steps, EventKinds, Goto
<1>2. RequestInv'
  BY DEF Inv, DenyDispatch, TypeOK, RequestInv, rowVars, brokerVars, At,
    Return, OrderIds, Seen, Claimed, Sent, Goto
<1>3. DistinctInv'
  BY DEF Inv, DenyDispatch, TypeOK, DistinctInv, rowVars, brokerVars, At,
    Return, OrderIds, Claimed, Goto
<1>4. CounterInv'
  BY DEF Inv, DenyDispatch, CounterInv, rowVars, brokerVars, At, Return, Goto
<1>5. RowInv'
  BY DEF Inv, DenyDispatch, RowInv, rowVars, brokerVars, At, Return, Seen, Goto
<1>6. BrokerInv'
  BY DEF Inv, DenyDispatch, BrokerInv, rowVars, brokerVars, At, Return, Goto
<1>7. EventInv'
  BY DEF Inv, DenyDispatch, EventInv, rowVars, brokerVars, At, Return, Seen,
    Goto
<1>8. IntentInv'
  BY DEF Inv, DenyDispatch, IntentInv, rowVars, brokerVars, At, Return, Active,
    Goto
<1>. QED  BY <1>1, <1>2, <1>3, <1>4, <1>5, <1>6, <1>7, <1>8 DEF Inv

(* The only step that writes to the broker: its id is fresh, its row       *)
(* claimed and unsent, so BrokerInv gains exactly this order.              *)
LEMMA SendKeepsInv ==
  ASSUME Inv, NEW h \in Handlers, Send(h)
  PROVE  Inv'
<1>1. TypeOK'
  BY ConstantsAssumption DEF Inv, Send, TypeOK, RequestInv, rowVars, At, Goto,
    OrderIds, RowStatuses, BrokerStates, Steps, EventKinds, Seen, Claimed, Sent
<1>2. RequestInv'
  BY DEF Inv, Send, TypeOK, RequestInv, DistinctInv, rowVars, At, Goto,
    OrderIds, Seen, Claimed, Sent
<1>3. DistinctInv'
  BY DEF Inv, Send, DistinctInv, rowVars, At, Goto, Claimed
<1>4. CounterInv'
  BY DEF Inv, Send, RequestInv, CounterInv, rowVars, At, Goto, Seen, Claimed,
    Sent
<1>5. RowInv'
  BY DEF Inv, Send, RequestInv, RowInv, rowVars, At, Goto, Seen, Claimed, Sent
<1>6. BrokerInv'
  BY DEF Inv, Send, TypeOK, RequestInv, BrokerInv, rowVars, At, Goto, OrderIds,
    Seen, Claimed, Sent
<1>7. EventInv'
  BY DEF Inv, Send, RequestInv, EventInv, rowVars, At, Goto, Seen, Claimed,
    Sent
<1>8. IntentInv'
  BY DEF Inv, Send, RequestInv, IntentInv, rowVars, At, Goto, Seen, Claimed,
    Sent, Active
<1>. QED  BY <1>1, <1>2, <1>3, <1>4, <1>5, <1>6, <1>7, <1>8 DEF Inv

(* The waiting request still owns the row (RequestInv), so its unguarded   *)
(* update records what the broker did.                                     *)
LEMMA MarkFilledKeepsInv ==
  ASSUME Inv, NEW h \in Handlers, MarkFilled(h)
  PROVE  Inv'
<1>1. TypeOK'
  BY ConstantsAssumption DEF Inv, MarkFilled, TypeOK, RequestInv, brokerVars,
    At, Return, OrderIds, RowStatuses, BrokerStates, Steps, EventKinds, Seen,
    Claimed, Sent, Goto
<1>2. RequestInv'
  BY DEF Inv, MarkFilled, TypeOK, RequestInv, DistinctInv, brokerVars, At,
    Return, OrderIds, Seen, Claimed, Sent, Goto
<1>3. DistinctInv'
  BY DEF Inv, MarkFilled, TypeOK, DistinctInv, brokerVars, At, Return,
    OrderIds, Claimed, Goto
<1>4. CounterInv'
  BY DEF Inv, MarkFilled, CounterInv, brokerVars, At, Return, Goto
<1>5. RowInv'
  BY DEF Inv, MarkFilled, TypeOK, RequestInv, RowInv, brokerVars, At, Return,
    OrderIds, Seen, Claimed, Sent, Goto
<1>6. BrokerInv'
  BY DEF Inv, MarkFilled, RequestInv, BrokerInv, brokerVars, At, Return, Seen,
    Claimed, Sent, Goto
<1>7. EventInv'
  BY DEF Inv, MarkFilled, EventInv, brokerVars, At, Return, Seen, Goto
<1>8. IntentInv'
  BY DEF Inv, MarkFilled, RequestInv, IntentInv, brokerVars, At, Return, Seen,
    Claimed, Sent, Active, Goto
<1>. QED  BY <1>1, <1>2, <1>3, <1>4, <1>5, <1>6, <1>7, <1>8 DEF Inv

(* The same for a submitted acknowledgement: the row is still PROPOSED     *)
(* because no callback can match it before it has a broker id.             *)
LEMMA MarkSubmittedKeepsInv ==
  ASSUME Inv, NEW h \in Handlers, MarkSubmitted(h)
  PROVE  Inv'
<1>1. TypeOK'
  BY ConstantsAssumption DEF Inv, MarkSubmitted, TypeOK, RequestInv,
    brokerVars, At, Return, OrderIds, RowStatuses, BrokerStates, Steps,
    EventKinds, Seen, Claimed, Sent, Goto
<1>2. RequestInv'
  BY DEF Inv, MarkSubmitted, TypeOK, RequestInv, DistinctInv, brokerVars, At,
    Return, OrderIds, Seen, Claimed, Sent, Goto
<1>3. DistinctInv'
  BY DEF Inv, MarkSubmitted, TypeOK, DistinctInv, brokerVars, At, Return,
    OrderIds, Claimed, Goto
<1>4. CounterInv'
  BY DEF Inv, MarkSubmitted, CounterInv, brokerVars, At, Return, Goto
<1>5. RowInv'
  BY DEF Inv, MarkSubmitted, TypeOK, RequestInv, RowInv, brokerVars, At,
    Return, OrderIds, Seen, Claimed, Sent, Goto
<1>6. BrokerInv'
  BY DEF Inv, MarkSubmitted, RequestInv, BrokerInv, brokerVars, At, Return,
    Seen, Claimed, Sent, Goto
<1>7. EventInv'
  BY DEF Inv, MarkSubmitted, EventInv, brokerVars, At, Return, Seen, Goto
<1>8. IntentInv'
  BY DEF Inv, MarkSubmitted, RequestInv, IntentInv, brokerVars, At, Return,
    Seen, Claimed, Sent, Active, Goto
<1>. QED  BY <1>1, <1>2, <1>3, <1>4, <1>5, <1>6, <1>7, <1>8 DEF Inv

(* A dispatch of unknown outcome leaves the row claimed.                   *)
LEMMA DispatchUnknownKeepsInv ==
  ASSUME Inv, NEW h \in Handlers, DispatchUnknown(h)
  PROVE  Inv'
<1>1. TypeOK'
  BY ConstantsAssumption DEF Inv, DispatchUnknown, TypeOK, rowVars, brokerVars,
    At, Return, OrderIds, RowStatuses, BrokerStates, Steps, EventKinds, Goto
<1>2. RequestInv'
  BY DEF Inv, DispatchUnknown, TypeOK, RequestInv, rowVars, brokerVars, At,
    Return, OrderIds, Seen, Claimed, Sent, Goto
<1>3. DistinctInv'
  BY DEF Inv, DispatchUnknown, TypeOK, DistinctInv, rowVars, brokerVars, At,
    Return, OrderIds, Claimed, Goto
<1>4. CounterInv'
  BY DEF Inv, DispatchUnknown, CounterInv, rowVars, brokerVars, At, Return,
    Goto
<1>5. RowInv'
  BY DEF Inv, DispatchUnknown, RowInv, rowVars, brokerVars, At, Return, Seen,
    Goto
<1>6. BrokerInv'
  BY DEF Inv, DispatchUnknown, BrokerInv, rowVars, brokerVars, At, Return, Goto
<1>7. EventInv'
  BY DEF Inv, DispatchUnknown, EventInv, rowVars, brokerVars, At, Return, Seen,
    Goto
<1>8. IntentInv'
  BY DEF Inv, DispatchUnknown, IntentInv, rowVars, brokerVars, At, Return,
    Active, Goto
<1>. QED  BY <1>1, <1>2, <1>3, <1>4, <1>5, <1>6, <1>7, <1>8 DEF Inv

(* Only an unclaimed row is rejected.                                      *)
LEMMA RejectPendingKeepsInv ==
  ASSUME Inv, NEW o \in Orders, RejectPending(o)
  PROVE  Inv'
<1>1. TypeOK'
  BY ConstantsAssumption DEF Inv, RejectPending, TypeOK, requestVars,
    brokerVars, Clean, OrderIds, RowStatuses, BrokerStates, Steps, EventKinds
<1>2. RequestInv'
  BY DEF Inv, RejectPending, RequestInv, requestVars, brokerVars, Clean, Seen,
    Claimed, Sent
<1>3. DistinctInv'
  BY DEF Inv, RejectPending, DistinctInv, requestVars, brokerVars, Clean,
    Claimed
<1>4. CounterInv'
  BY DEF Inv, RejectPending, CounterInv, requestVars, brokerVars, Clean
<1>5. RowInv'
  BY DEF Inv, RejectPending, RowInv, requestVars, brokerVars, Clean, Seen
<1>6. BrokerInv'
  BY DEF Inv, RejectPending, BrokerInv, requestVars, brokerVars, Clean
<1>7. EventInv'
  BY DEF Inv, RejectPending, EventInv, requestVars, brokerVars, Clean, Seen
<1>8. IntentInv'
  BY DEF Inv, RejectPending, IntentInv, requestVars, brokerVars, Clean, Active
<1>. QED  BY <1>1, <1>2, <1>3, <1>4, <1>5, <1>6, <1>7, <1>8 DEF Inv

(* The acknowledgement reaches only the request that waits for this id.    *)
LEMMA BrokerAcceptKeepsInv ==
  ASSUME Inv, NEW i \in OrderIds, BrokerAccept(i)
  PROVE  Inv'
<1>1. TypeOK'
  BY ConstantsAssumption DEF Inv, BrokerAccept, TypeOK, Acknowledge,
    BrokerMove, OrderIds, RowStatuses, BrokerStates, Steps, EventKinds, Event,
    rowVars
<1>2. RequestInv'
  BY DEF Inv, BrokerAccept, TypeOK, RequestInv, Acknowledge, BrokerMove,
    OrderIds, Seen, Claimed, Sent, Event, rowVars
<1>3. DistinctInv'
  BY DEF Inv, BrokerAccept, DistinctInv, Acknowledge, BrokerMove, Claimed,
    Event, rowVars
<1>4. CounterInv'
  BY DEF Inv, BrokerAccept, CounterInv, Acknowledge, BrokerMove, Event, rowVars
<1>5. RowInv'
  BY DEF Inv, BrokerAccept, RowInv, Acknowledge, BrokerMove, Seen, Event,
    rowVars
<1>6. BrokerInv'
  BY DEF Inv, BrokerAccept, BrokerInv, Acknowledge, BrokerMove, Event, rowVars
<1>7. EventInv'
  BY DEF Inv, BrokerAccept, TypeOK, EventInv, Acknowledge, BrokerMove,
    OrderIds, Seen, Event, rowVars
<1>8. IntentInv'
  BY DEF Inv, BrokerAccept, IntentInv, Acknowledge, BrokerMove, Active, Event,
    rowVars
<1>. QED  BY <1>1, <1>2, <1>3, <1>4, <1>5, <1>6, <1>7, <1>8 DEF Inv

(* A rejection by error code emits no event.                               *)
LEMMA BrokerRejectKeepsInv ==
  ASSUME Inv, NEW i \in OrderIds, BrokerReject(i)
  PROVE  Inv'
<1>1. TypeOK'
  BY ConstantsAssumption DEF Inv, BrokerReject, TypeOK, BrokerMove, OrderIds,
    RowStatuses, BrokerStates, Steps, EventKinds, rowVars
<1>2. RequestInv'
  BY DEF Inv, BrokerReject, RequestInv, BrokerMove, Seen, Claimed, Sent,
    rowVars
<1>3. DistinctInv'
  BY DEF Inv, BrokerReject, DistinctInv, BrokerMove, Claimed, rowVars
<1>4. CounterInv'
  BY DEF Inv, BrokerReject, CounterInv, BrokerMove, rowVars
<1>5. RowInv'
  BY DEF Inv, BrokerReject, RowInv, BrokerMove, Seen, rowVars
<1>6. BrokerInv'
  BY DEF Inv, BrokerReject, BrokerInv, BrokerMove, rowVars
<1>7. EventInv'
  BY DEF Inv, BrokerReject, EventInv, BrokerMove, Seen, rowVars
<1>8. IntentInv'
  BY DEF Inv, BrokerReject, IntentInv, BrokerMove, Active, rowVars
<1>. QED  BY <1>1, <1>2, <1>3, <1>4, <1>5, <1>6, <1>7, <1>8 DEF Inv

(* A fill is recorded by the broker before any event of it exists.         *)
LEMMA BrokerFillKeepsInv ==
  ASSUME Inv, NEW i \in OrderIds, BrokerFill(i)
  PROVE  Inv'
<1>1. TypeOK'
  BY ConstantsAssumption DEF Inv, BrokerFill, TypeOK, Acknowledge, BrokerMove,
    OrderIds, RowStatuses, BrokerStates, Steps, EventKinds, Event, rowVars
<1>2. RequestInv'
  BY DEF Inv, BrokerFill, TypeOK, RequestInv, Acknowledge, BrokerMove,
    OrderIds, Seen, Claimed, Sent, Event, rowVars
<1>3. DistinctInv'
  BY DEF Inv, BrokerFill, DistinctInv, Acknowledge, BrokerMove, Claimed, Event,
    rowVars
<1>4. CounterInv'
  BY DEF Inv, BrokerFill, CounterInv, Acknowledge, BrokerMove, Event, rowVars
<1>5. RowInv'
  BY DEF Inv, BrokerFill, RowInv, Acknowledge, BrokerMove, Seen, Event, rowVars
<1>6. BrokerInv'
  BY DEF Inv, BrokerFill, BrokerInv, Acknowledge, BrokerMove, Event, rowVars
<1>7. EventInv'
  BY DEF Inv, BrokerFill, TypeOK, EventInv, Acknowledge, BrokerMove, OrderIds,
    Seen, Event, rowVars
<1>8. IntentInv'
  BY DEF Inv, BrokerFill, IntentInv, Acknowledge, BrokerMove, Active, Event,
    rowVars
<1>. QED  BY <1>1, <1>2, <1>3, <1>4, <1>5, <1>6, <1>7, <1>8 DEF Inv

(* A cancellation leaves the waiting request waiting.                      *)
LEMMA BrokerCancelKeepsInv ==
  ASSUME Inv, NEW i \in OrderIds, BrokerCancel(i)
  PROVE  Inv'
<1>1. TypeOK'
  BY ConstantsAssumption DEF Inv, BrokerCancel, TypeOK, Acknowledge,
    BrokerMove, OrderIds, RowStatuses, BrokerStates, Steps, EventKinds, Event,
    rowVars
<1>2. RequestInv'
  BY DEF Inv, BrokerCancel, RequestInv, Acknowledge, BrokerMove, Seen, Claimed,
    Sent, Event, rowVars
<1>3. DistinctInv'
  BY DEF Inv, BrokerCancel, DistinctInv, Acknowledge, BrokerMove, Claimed,
    Event, rowVars
<1>4. CounterInv'
  BY DEF Inv, BrokerCancel, CounterInv, Acknowledge, BrokerMove, Event, rowVars
<1>5. RowInv'
  BY DEF Inv, BrokerCancel, RowInv, Acknowledge, BrokerMove, Seen, Event,
    rowVars
<1>6. BrokerInv'
  BY DEF Inv, BrokerCancel, BrokerInv, Acknowledge, BrokerMove, Event, rowVars
<1>7. EventInv'
  BY DEF Inv, BrokerCancel, TypeOK, EventInv, Acknowledge, BrokerMove,
    OrderIds, Seen, Event, rowVars
<1>8. IntentInv'
  BY DEF Inv, BrokerCancel, IntentInv, Acknowledge, BrokerMove, Active, Event,
    rowVars
<1>. QED  BY <1>1, <1>2, <1>3, <1>4, <1>5, <1>6, <1>7, <1>8 DEF Inv

(* A status callback changes only the row that carries its broker id,      *)
(* which is the row of the order the event is about (RowInv, EventInv).    *)
LEMMA ApplyBrokerStatusKeepsInv ==
  ASSUME Inv, NEW e \in inbox, ApplyBrokerStatus(e)
  PROVE  Inv'
<1>1. TypeOK'
  BY ConstantsAssumption DEF Inv, ApplyBrokerStatus, TypeOK, requestVars,
    brokerVars, BrokerStatusWrite, OrderIds, RowStatuses, BrokerStates, Steps,
    EventKinds
<1>2. RequestInv'
  BY DEF Inv, ApplyBrokerStatus, TypeOK, RequestInv, EventInv, requestVars,
    brokerVars, BrokerStatusWrite, OrderIds, Seen, Claimed, Sent
<1>3. DistinctInv'
  BY DEF Inv, ApplyBrokerStatus, DistinctInv, requestVars, brokerVars,
    BrokerStatusWrite, Claimed
<1>4. CounterInv'
  BY DEF Inv, ApplyBrokerStatus, CounterInv, requestVars, brokerVars,
    BrokerStatusWrite
<1>5. RowInv'
  BY ConstantsAssumption DEF Inv, ApplyBrokerStatus, TypeOK, RowInv, EventInv,
    requestVars, brokerVars, BrokerStatusWrite, OrderIds, RowStatuses,
    BrokerStates, EventKinds, Seen
<1>6. BrokerInv'
  BY DEF Inv, ApplyBrokerStatus, BrokerInv, requestVars, brokerVars,
    BrokerStatusWrite
<1>7. EventInv'
  BY DEF Inv, ApplyBrokerStatus, EventInv, requestVars, brokerVars,
    BrokerStatusWrite, Seen
<1>8. IntentInv'
  BY ConstantsAssumption DEF Inv, ApplyBrokerStatus, TypeOK, IntentInv,
    requestVars, brokerVars, BrokerStatusWrite, OrderIds, RowStatuses,
    BrokerStates, EventKinds, Active
<1>. QED  BY <1>1, <1>2, <1>3, <1>4, <1>5, <1>6, <1>7, <1>8 DEF Inv

(* An execution callback turns that same row FILLED.                       *)
LEMMA ApplyExecutionKeepsInv ==
  ASSUME Inv, NEW e \in inbox, ApplyExecution(e)
  PROVE  Inv'
<1>1. TypeOK'
  BY ConstantsAssumption DEF Inv, ApplyExecution, TypeOK, requestVars,
    brokerVars, OrderIds, RowStatuses, BrokerStates, Steps, EventKinds
<1>2. RequestInv'
  BY DEF Inv, ApplyExecution, TypeOK, RequestInv, requestVars, brokerVars,
    OrderIds, Seen, Claimed, Sent
<1>3. DistinctInv'
  BY DEF Inv, ApplyExecution, DistinctInv, requestVars, brokerVars, Claimed
<1>4. CounterInv'
  BY DEF Inv, ApplyExecution, CounterInv, requestVars, brokerVars
<1>5. RowInv'
  BY DEF Inv, ApplyExecution, TypeOK, RowInv, EventInv, requestVars,
    brokerVars, OrderIds, Seen
<1>6. BrokerInv'
  BY DEF Inv, ApplyExecution, BrokerInv, requestVars, brokerVars
<1>7. EventInv'
  BY DEF Inv, ApplyExecution, EventInv, requestVars, brokerVars, Seen
<1>8. IntentInv'
  BY DEF Inv, ApplyExecution, TypeOK, IntentInv, requestVars, brokerVars,
    OrderIds, Active
<1>. QED  BY <1>1, <1>2, <1>3, <1>4, <1>5, <1>6, <1>7, <1>8 DEF Inv

(* A crash forgets the requests and the callbacks, and settles what was on *)
(* the wire; nothing durable is lost.                                      *)
LEMMA CrashKeepsInv ==
  ASSUME Inv, Crash
  PROVE  Inv'
<1>1. TypeOK'
  <2>1. /\ status' \in [Orders -> RowStatuses]
        /\ marker' \in [Orders -> BOOLEAN]
        /\ brokerId' \in [Orders -> 0..MaxOrderId]
        /\ plan' \in [Orders -> 0..MaxOrderId]
        /\ up' \in BOOLEAN
        /\ nextId' \in 1..(MaxOrderId + 1)
        /\ sends' \in [Orders -> Nat]
    BY ConstantsAssumption DEF Inv, TypeOK, Crash, rowVars
  <2>2. /\ step' \in [Handlers -> Steps]
        /\ serving' \in [Handlers -> Orders \cup {NoOrder}]
        /\ ticketId' \in [Handlers -> 0..MaxOrderId]
        /\ inbox' \subseteq [id : OrderIds, kind : EventKinds]
    BY ConstantsAssumption DEF Inv, TypeOK, Crash, Steps
  <2>3. broker' \in [OrderIds -> BrokerStates]
    BY DEF Inv, TypeOK, Crash, BrokerStates
  <2>4. owner' \in [OrderIds -> Orders \cup {NoOrder}]
    BY DEF Inv, TypeOK, Crash
  <2>5. crashes' \in 0..MaxCrashes
    <3>1. crashes \in Nat /\ crashes < MaxCrashes /\ crashes' = crashes + 1
      BY ConstantsAssumption DEF Inv, TypeOK, Crash
    <3>. QED  BY <3>1, ConstantsAssumption
  <2>. QED  BY <2>1, <2>2, <2>3, <2>4, <2>5 DEF TypeOK
<1>2. RequestInv'
  BY DEF Inv, Crash, RequestInv, rowVars, Seen, Claimed, Sent
<1>3. DistinctInv'
  BY DEF Inv, Crash, DistinctInv, rowVars, Claimed
<1>4. CounterInv'
  BY DEF Inv, Crash, CounterInv, rowVars
<1>5. RowInv'
  BY DEF Inv, Crash, TypeOK, RowInv, OrderIds, rowVars, Seen
<1>6. BrokerInv'
  BY DEF Inv, Crash, BrokerInv, rowVars
<1>7. EventInv'
  BY DEF Inv, Crash, EventInv, rowVars, Seen
<1>8. IntentInv'
  BY DEF Inv, Crash, IntentInv, rowVars, Active
<1>. QED  BY <1>1, <1>2, <1>3, <1>4, <1>5, <1>6, <1>7, <1>8 DEF Inv

(* The counter restarts above every id the broker holds (CounterInv).      *)
LEMMA RestartKeepsInv ==
  ASSUME Inv, Restart
  PROVE  Inv'
<1>1. TypeOK'
  BY ConstantsAssumption DEF Inv, Restart, TypeOK, OrderIds, rowVars,
    requestVars, brokerVars, RowStatuses, BrokerStates, Steps, EventKinds
<1>2. RequestInv'
  BY DEF Inv, Restart, RequestInv, rowVars, requestVars, brokerVars, Seen,
    Claimed, Sent
<1>3. DistinctInv'
  BY DEF Inv, Restart, DistinctInv, rowVars, requestVars, brokerVars, Claimed
<1>4. CounterInv'
  BY DEF Inv, Restart, CounterInv, rowVars, requestVars, brokerVars
<1>5. RowInv'
  BY DEF Inv, Restart, RowInv, rowVars, requestVars, brokerVars, Seen
<1>6. BrokerInv'
  BY DEF Inv, Restart, BrokerInv, rowVars, requestVars, brokerVars
<1>7. EventInv'
  BY DEF Inv, Restart, EventInv, rowVars, requestVars, brokerVars, Seen
<1>8. IntentInv'
  BY DEF Inv, Restart, IntentInv, rowVars, requestVars, brokerVars, Active
<1>. QED  BY <1>1, <1>2, <1>3, <1>4, <1>5, <1>6, <1>7, <1>8 DEF Inv

-----------------------------------------------------------------------------
(* The initial state satisfies the inductive invariant.                    *)
LEMMA InitInv == Init => Inv
<1>. SUFFICES ASSUME Init PROVE Inv
  OBVIOUS
<1>0. \A h \in Handlers : serving[h] = NoOrder
  BY DEF Init
<1>1. TypeOK
  <2>1. serving \in [Handlers -> Orders \cup {NoOrder}]
    BY DEF Init
  <2>. QED  BY <2>1, ConstantsAssumption
       DEF Init, TypeOK, RowStatuses, Steps, BrokerStates, EventKinds, OrderIds
<1>2. RequestInv
  BY DEF Init, RequestInv, Claimed, Sent
<1>3. DistinctInv /\ CounterInv
  BY DEF Init, DistinctInv, Claimed, CounterInv
<1>4. RowInv
  BY DEF Init, RowInv
<1>5. BrokerInv /\ EventInv
  BY DEF Init, BrokerInv, EventInv
<1>6. IntentInv
  BY DEF Init, IntentInv, Active
<1>. QED  BY <1>1, <1>2, <1>3, <1>4, <1>5, <1>6 DEF Inv

(* A step that changes nothing preserves it.                               *)
LEMMA StutterKeepsInv ==
  ASSUME Inv, UNCHANGED vars
  PROVE  Inv'
<1>1. TypeOK'
  BY DEF Inv, TypeOK, vars
<1>2. RequestInv' /\ DistinctInv' /\ CounterInv'
  BY DEF Inv, RequestInv, DistinctInv, CounterInv, vars
<1>3. RowInv' /\ BrokerInv' /\ EventInv'
  BY DEF Inv, RowInv, BrokerInv, EventInv, vars
<1>4. IntentInv'
  BY DEF Inv, IntentInv, Active, vars
<1>. QED  BY <1>1, <1>2, <1>3, <1>4 DEF Inv

(* So does every step of the system.                                       *)
LEMMA NextKeepsInv ==
  ASSUME Inv, Next
  PROVE  Inv'
<1>1. ASSUME NEW h \in Handlers, Request(h) PROVE Inv'
  <2>1. ASSUME NEW o \in Orders, SubmitTicket(h, o) \/ ExecuteProposed(h, o)
        PROVE Inv'
    BY <2>1, SubmitTicketKeepsInv, ExecuteProposedKeepsInv
  <2>2. CASE InsertProposed(h) \/ Prepare(h) \/ Claim(h) \/ RefuseBeforeClaim(h)
    BY <2>2, InsertProposedKeepsInv, PrepareKeepsInv, ClaimKeepsInv,
       RefuseBeforeClaimKeepsInv
  <2>3. CASE DenyDispatch(h) \/ Send(h)
    BY <2>3, DenyDispatchKeepsInv, SendKeepsInv
  <2>4. CASE MarkFilled(h) \/ MarkSubmitted(h) \/ DispatchUnknown(h)
    BY <2>4, MarkFilledKeepsInv, MarkSubmittedKeepsInv, DispatchUnknownKeepsInv
  <2>. QED  BY <1>1, <2>1, <2>2, <2>3, <2>4 DEF Request
<1>2. ASSUME NEW o \in Orders, RejectPending(o) PROVE Inv'
  BY <1>2, RejectPendingKeepsInv
<1>3. ASSUME NEW i \in OrderIds, Broker(i) PROVE Inv'
  BY <1>3, BrokerAcceptKeepsInv, BrokerRejectKeepsInv, BrokerFillKeepsInv,
     BrokerCancelKeepsInv DEF Broker
<1>4. ASSUME Callback PROVE Inv'
  BY <1>4, ApplyBrokerStatusKeepsInv, ApplyExecutionKeepsInv DEF Callback
<1>5. ASSUME Crash \/ Restart PROVE Inv'
  BY <1>5, CrashKeepsInv, RestartKeepsInv
<1>. QED  BY <1>1, <1>2, <1>3, <1>4, <1>5 DEF Next

(* The invariant holds in every reachable state: whatever requests,        *)
(* callbacks and crashes do to the row, its marker, plan and broker id     *)
(* agree with the requests in flight and with the broker.                  *)
THEOREM Invariance == Spec => []Inv
<1>1. Inv /\ [Next]_vars => Inv'
  BY NextKeepsInv, StutterKeepsInv
<1>. QED  BY InitInv, <1>1, PTL DEF Spec

(* Type correctness of the submission state.                               *)
THEOREM TypeCorrect == Spec => []TypeOK
<1>1. Inv => TypeOK
  BY DEF Inv
<1>. QED  BY Invariance, <1>1, PTL

(* No order is ever written to the broker socket twice, for any number of  *)
(* requests, orders, broker ids and crashes.                               *)
THEOREM AtMostOnce == Spec => []AtMostOneDispatch
<1>1. Inv => AtMostOneDispatch
  BY DEF Inv, RowInv, AtMostOneDispatch
<1>. QED  BY Invariance, <1>1, PTL

(* Every order the broker holds is named by the persisted plan of a        *)
(* claimed row, at every point a crash can happen.                         *)
THEOREM DispatchPersisted == Spec => []DispatchIsPersisted
<1>1. Inv => DispatchIsPersisted
  BY DEF Inv, BrokerInv, DispatchIsPersisted
<1>. QED  BY Invariance, <1>1, PTL

(* While the broker works an order, its row is an active intent.           *)
LEMMA LiveOrderIsActive ==
  ASSUME Inv, NEW i \in OrderIds, broker[i] \in {"WIRE", "WORKING"}
  PROVE  owner[i] \in Orders /\ plan[owner[i]] = i /\ Active(owner[i])
<1>1. owner[i] \in Orders /\ marker[owner[i]] /\ plan[owner[i]] = i
  BY DEF Inv, BrokerInv
<1>2. status[owner[i]] \in {"PROPOSED", "SUBMITTED", "FILLED", "CANCELLED"}
  BY <1>1 DEF Inv, RowInv
<1>3. status[owner[i]] \notin {"FILLED", "CANCELLED"}
  BY <1>1 DEF Inv, RowInv
<1>. QED  BY <1>1, <1>2, <1>3 DEF Active

(* The broker never works two orders of one instrument.                    *)
THEOREM OneLive == Spec => []OneLiveOrderPerInstrument
<1>1. Inv => OneLiveOrderPerInstrument
  BY LiveOrderIsActive DEF Inv, IntentInv, OneLiveOrderPerInstrument
<1>. QED  BY Invariance, <1>1, PTL

(* A row's FILLED or SUBMITTED status is about the order it dispatched.    *)
THEOREM RowTruth == Spec => []RowTellsTheTruth
<1>1. ASSUME Inv, NEW o \in Orders, status[o] \in {"FILLED", "SUBMITTED"}
      PROVE  /\ brokerId[o] \in OrderIds
             /\ owner[brokerId[o]] = o
             /\ broker[brokerId[o]] \in Seen
             /\ status[o] = "FILLED" => broker[brokerId[o]] = "FILLED"
  <2>1. brokerId[o] \in 0..MaxOrderId /\ brokerId[o] # 0
    BY <1>1 DEF Inv, RowInv, TypeOK
  <2>. QED  BY <1>1, <2>1, ConstantsAssumption DEF Inv, RowInv, OrderIds
<1>2. Inv => RowTellsTheTruth
  BY <1>1 DEF RowTellsTheTruth, Seen
<1>. QED  BY Invariance, <1>2, PTL

-----------------------------------------------------------------------------
(* A late callback or acknowledgement cannot reopen a terminal row.        *)
LEMMA TerminalStep ==
  ASSUME Inv, [Next]_vars
  PROVE  TerminalStays
<1>1. ASSUME UNCHANGED status PROVE TerminalStays
  BY <1>1 DEF TerminalStays
<1>2. ASSUME NEW h \in Handlers, Request(h) PROVE TerminalStays
  <2>1. CASE InsertProposed(h)
    BY <2>1 DEF InsertProposed, TerminalStays, Inv, TypeOK
  <2>2. CASE MarkFilled(h) \/ MarkSubmitted(h)
    BY <2>2 DEF MarkFilled, MarkSubmitted, At, TerminalStays, Inv, TypeOK,
       RequestInv, Claimed
  <2>3. CASE ~InsertProposed(h) /\ ~MarkFilled(h) /\ ~MarkSubmitted(h)
    <3>1. UNCHANGED status
      BY <1>2, <2>3 DEF Request, SubmitTicket, ExecuteProposed, Prepare, Claim,
         RefuseBeforeClaim, DenyDispatch, Send, DispatchUnknown, rowVars
    <3>. QED  BY <3>1, <1>1
  <2>. QED  BY <2>1, <2>2, <2>3
<1>3. ASSUME NEW o \in Orders, RejectPending(o) PROVE TerminalStays
  BY <1>3 DEF RejectPending, Clean, TerminalStays, Inv, TypeOK
<1>4. ASSUME NEW i \in OrderIds, Broker(i) PROVE TerminalStays
  BY <1>4, <1>1 DEF Broker, BrokerAccept, BrokerReject, BrokerFill,
     BrokerCancel, BrokerMove, rowVars
<1>5. ASSUME NEW e \in inbox, NEW o \in Orders, status[o] = "REJECTED"
      PROVE  brokerId[o] # e.id
  <2>1. brokerId[o] = 0
    BY <1>5 DEF Inv, RowInv
  <2>2. e.id # 0
    BY ConstantsAssumption DEF Inv, TypeOK, OrderIds
  <2>. QED  BY <2>1, <2>2
<1>6. ASSUME NEW e \in inbox, ApplyBrokerStatus(e) PROVE TerminalStays
  <2>1. e.kind \in {"SUBMITTED", "FILLED", "CANCELLED"}
    BY <1>6 DEF ApplyBrokerStatus, Inv, TypeOK, EventKinds
  <2>2. ASSUME NEW o \in Orders
        PROVE  status'[o] = IF brokerId[o] = e.id
                              THEN BrokerStatusWrite(status[o], e.kind)
                              ELSE status[o]
    BY <1>6 DEF ApplyBrokerStatus
  <2>. QED  BY <1>5, <2>1, <2>2 DEF BrokerStatusWrite, TerminalStays
<1>7. ASSUME NEW e \in inbox, ApplyExecution(e) PROVE TerminalStays
  BY <1>5, <1>7 DEF ApplyExecution, TerminalStays, Inv, TypeOK
<1>8. ASSUME Crash \/ Restart \/ UNCHANGED vars PROVE TerminalStays
  BY <1>1, <1>8 DEF Crash, Restart, rowVars, vars
<1>. QED  BY <1>2, <1>3, <1>4, <1>6, <1>7, <1>8 DEF Next, Callback

(* FILLED and REJECTED are final, and CANCELLED gives way only to a fill.  *)
THEOREM TerminalFinal == Spec => TerminalRowsStay
<1>1. Inv /\ [Next]_vars => TerminalStays
  BY TerminalStep
<1>. QED  BY Invariance, <1>1, PTL DEF Spec, TerminalRowsStay

-----------------------------------------------------------------------------
(* The ledger sees a row only through its status, marker and sends.        *)
LEMMA SameRow ==
  ASSUME NEW o \in Orders,
         status'[o] = status[o], marker'[o] = marker[o], sends'[o] = sends[o]
  PROVE  Stage(o)' = Stage(o)
BY DEF Stage, Active

(* Rows that keep their stages are a stutter of the ledger.                *)
LEMMA LedgerStutters ==
  ASSUME \A o \in Orders : Stage(o)' = Stage(o)
  PROVE  [o \in Orders |-> Stage(o)]' = [o \in Orders |-> Stage(o)]
OBVIOUS

(* One row that moves while the others keep their stages is one move of    *)
(* the ledger.                                                             *)
LEMMA LedgerMoves ==
  ASSUME NEW o \in Orders, NEW from, NEW to, Stage(o) = from, Stage(o)' = to,
         \A p \in Orders \ {o} : Stage(p)' = Stage(p)
  PROVE  Ledger!Advance(o, from, to)
BY DEF Ledger!Advance

(* What a callback does to the ledger: the row it matches was sent, and    *)
(* either keeps its stage or closes.                                       *)
LEMMA CallbackMoves ==
  ASSUME Inv, NEW e \in inbox, NEW o \in Orders, brokerId[o] = e.id,
         \A p \in Orders \ {o} : status'[p] = status[p],
         status'[o] = status[o] \/ status'[o] \in {"SUBMITTED", "FILLED", "CANCELLED"},
         status[o] \in {"FILLED", "CANCELLED"} => status'[o] \in {"FILLED", "CANCELLED"},
         UNCHANGED <<marker, sends>>
  PROVE  Ledger!Settle(o) \/ UNCHANGED [p \in Orders |-> Stage(p)]
<1>1. e.id \in OrderIds /\ e.id # 0
  BY ConstantsAssumption DEF Inv, TypeOK, OrderIds
<1>2. marker[o] /\ sends[o] = 1
  BY <1>1 DEF Inv, RowInv, BrokerInv, Seen
<1>3. status[o] \in {"PROPOSED", "SUBMITTED", "FILLED", "CANCELLED"}
  BY <1>2 DEF Inv, RowInv
<1>4. \A p \in Orders \ {o} : Stage(p)' = Stage(p)
  BY SameRow
<1>5. CASE status'[o] \in {"PROPOSED", "SUBMITTED"}
  <2>1. Stage(o) = "sent" /\ Stage(o)' = "sent"
    BY <1>2, <1>3, <1>5 DEF Stage, Active
  <2>. QED  BY <2>1, <1>4, LedgerStutters
<1>6. CASE status'[o] \in {"FILLED", "CANCELLED"}
  <2>1. Stage(o)' = "closed"
    BY <1>2, <1>6 DEF Stage, Active
  <2>2. CASE status[o] \in {"FILLED", "CANCELLED"}
    <3>1. Stage(o) = "closed"
      BY <2>2 DEF Stage, Active
    <3>. QED  BY <2>1, <3>1, <1>4, LedgerStutters
  <2>3. CASE status[o] \in {"PROPOSED", "SUBMITTED"}
    <3>1. Stage(o) = "sent"
      BY <2>3, <1>2 DEF Stage, Active
    <3>. QED  BY <2>1, <3>1, <1>4, LedgerMoves DEF Ledger!Settle
  <2>. QED  BY <2>2, <2>3, <1>3
<1>. QED  BY <1>3, <1>5, <1>6

(* At most one row carries the broker id of a callback.                    *)
LEMMA OneRowMatches ==
  ASSUME Inv, NEW e \in inbox, NEW o \in Orders, NEW p \in Orders,
         brokerId[o] = e.id, brokerId[p] = e.id
  PROVE  o = p
<1>1. e.id # 0
  BY ConstantsAssumption DEF Inv, TypeOK, OrderIds
<1>. QED  BY <1>1 DEF Inv, RowInv

(* Every step of the submission machinery is a step of the ledger or       *)
(* changes nothing in it.                                                  *)
LEMMA StepRefines ==
  ASSUME Inv, [Next]_vars
  PROVE  Ledger!Next \/ UNCHANGED [o \in Orders |-> Stage(o)]
<1>. DEFINE Goal == Ledger!Next \/ UNCHANGED [o \in Orders |-> Stage(o)]
<1>0. ASSUME UNCHANGED <<status, marker, sends>> PROVE Goal
  BY <1>0, SameRow, LedgerStutters
<1>1. ASSUME NEW h \in Handlers, InsertProposed(h) PROVE Goal
  <2>1. PICK o \in Orders : o = serving[h]
    BY <1>1 DEF InsertProposed, At, Inv, RequestInv
  <2>2. CASE status[o] = "ABSENT"
    <3>1. /\ status' = [status EXCEPT ![o] = "PROPOSED"]
          /\ UNCHANGED <<marker, sends>>
      BY <1>1, <2>1, <2>2 DEF InsertProposed
    <3>2. ~marker[o]
      BY <2>1, <2>2 DEF Inv, RowInv
    <3>3. Stage(o) = "absent" /\ Stage(o)' = "intent"
      BY <2>1, <2>2, <3>1, <3>2 DEF Stage, Inv, TypeOK
    <3>4. \A p \in Orders \ {o} : Stage(p)' = Stage(p)
      BY <3>1, SameRow DEF Inv, TypeOK
    <3>5. \A p \in Orders : InstrumentOf[p] = InstrumentOf[o] => ~Active(p)
      BY <1>1, <2>1, <2>2 DEF InsertProposed, ActiveIntentExists, Active
    <3>6. \A p \in Orders : Stage(p) \in {"intent", "committed", "sent"} => Active(p)
      BY DEF Stage, Active
    <3>7. Ledger!Propose(o)
      BY <2>1, <3>3, <3>4, <3>5, <3>6, LedgerMoves DEF Ledger!Propose, Ledger!Open
    <3>. QED  BY <2>1, <3>7 DEF Ledger!Next
  <2>3. CASE status[o] # "ABSENT"
    BY <1>0, <1>1, <2>1, <2>3 DEF InsertProposed
  <2>. QED  BY <2>2, <2>3
<1>2. ASSUME NEW h \in Handlers, Claim(h) PROVE Goal
  <2>1. PICK o \in Orders : o = serving[h]
    BY <1>2 DEF Claim, At, Inv, RequestInv
  <2>2. /\ marker' = [marker EXCEPT ![o] = TRUE]
        /\ UNCHANGED <<status, sends>>
        /\ status[o] = "PROPOSED" /\ ~marker[o]
    BY <1>2, <2>1 DEF Claim, Clean
  <2>3. sends[o] = 0
    BY <2>1, <2>2 DEF Inv, RowInv
  <2>4. Stage(o) = "intent" /\ Stage(o)' = "committed"
    BY <2>1, <2>2, <2>3 DEF Stage, Active, Inv, TypeOK
  <2>5. \A p \in Orders \ {o} : Stage(p)' = Stage(p)
    BY <2>2, SameRow DEF Inv, TypeOK
  <2>. QED  BY <2>1, <2>4, <2>5, LedgerMoves DEF Ledger!Commit, Ledger!Next
<1>3. ASSUME NEW h \in Handlers, Send(h) PROVE Goal
  <2>0. PICK o \in Orders : o = serving[h]
    BY <1>3 DEF Send, At, Inv, RequestInv
  <2>1. marker[o] /\ status[o] = "PROPOSED" /\ sends[o] = 0
    BY <1>3, <2>0 DEF Send, At, Inv, RequestInv, Claimed
  <2>2. sends' = [sends EXCEPT ![o] = 1] /\ UNCHANGED <<status, marker>>
    BY <1>3, <2>0, <2>1 DEF Send, Inv, TypeOK, rowVars
  <2>3. Stage(o) = "committed" /\ Stage(o)' = "sent"
    BY <2>1, <2>2 DEF Stage, Active, Inv, TypeOK
  <2>4. \A p \in Orders \ {o} : Stage(p)' = Stage(p)
    BY <2>2, SameRow DEF Inv, TypeOK
  <2>. QED  BY <2>1, <2>3, <2>4, LedgerMoves DEF Ledger!Dispatch, Ledger!Next
<1>4. ASSUME NEW h \in Handlers, MarkFilled(h) \/ MarkSubmitted(h) PROVE Goal
  <2>0. PICK o \in Orders : o = serving[h]
    BY <1>4 DEF MarkFilled, MarkSubmitted, At, Inv, RequestInv
  <2>1. marker[o] /\ status[o] = "PROPOSED" /\ ticketId[h] \in OrderIds
    BY <1>4, <2>0 DEF MarkFilled, MarkSubmitted, At, Inv, RequestInv, Claimed
  <2>2. owner[ticketId[h]] = o /\ broker[ticketId[h]] \in Seen
    BY <1>4, <2>0 DEF MarkFilled, MarkSubmitted, At, Inv, RequestInv, Sent, Seen
  <2>3. sends[o] = 1
    BY <2>1, <2>2 DEF Inv, BrokerInv, Seen
  <2>4. \A p \in Orders \ {o} : Stage(p)' = Stage(p)
    BY <1>4, <2>0, SameRow DEF MarkFilled, MarkSubmitted, Inv, TypeOK
  <2>5. Stage(o) = "sent"
    BY <2>1, <2>3 DEF Stage, Active
  <2>6. marker'[o] /\ sends'[o] = 1
    BY <1>4, <2>0, <2>1, <2>3 DEF MarkFilled, MarkSubmitted, Inv, TypeOK
  <2>7. CASE MarkFilled(h)
    <3>1. status'[o] = "FILLED"
      BY <2>0, <2>7 DEF MarkFilled, Inv, TypeOK
    <3>2. Stage(o)' = "closed"
      BY <3>1 DEF Stage, Active
    <3>. QED  BY <2>1, <2>4, <2>5, <3>2, LedgerMoves DEF Ledger!Settle, Ledger!Next
  <2>8. CASE MarkSubmitted(h)
    <3>1. status'[o] = "SUBMITTED"
      BY <2>0, <2>8 DEF MarkSubmitted, Inv, TypeOK
    <3>2. Stage(o)' = "sent"
      BY <2>6, <3>1 DEF Stage, Active
    <3>. QED  BY <2>4, <2>5, <3>2, LedgerStutters
  <2>. QED  BY <1>4, <2>7, <2>8
<1>5. ASSUME NEW h \in Handlers, Request(h) PROVE Goal
  <2>1. CASE \/ InsertProposed(h) \/ Claim(h) \/ Send(h)
             \/ MarkFilled(h) \/ MarkSubmitted(h)
    BY <2>1, <1>1, <1>2, <1>3, <1>4
  <2>2. ASSUME \/ \E o \in Orders : SubmitTicket(h, o) \/ ExecuteProposed(h, o)
               \/ Prepare(h) \/ RefuseBeforeClaim(h) \/ DenyDispatch(h)
               \/ DispatchUnknown(h)
        PROVE  Goal
    BY <2>2, <1>0 DEF SubmitTicket, ExecuteProposed, Prepare, RefuseBeforeClaim,
       DenyDispatch, DispatchUnknown, rowVars
  <2>. QED  BY <1>5, <2>1, <2>2 DEF Request
<1>6. ASSUME NEW o \in Orders, RejectPending(o) PROVE Goal
  <2>1. /\ status' = [status EXCEPT ![o] = "REJECTED"]
        /\ UNCHANGED <<marker, sends>>
        /\ status[o] = "PROPOSED" /\ ~marker[o]
    BY <1>6 DEF RejectPending, Clean
  <2>2. Stage(o) = "intent" /\ Stage(o)' = "withdrawn"
    BY <2>1 DEF Stage, Active, Inv, TypeOK
  <2>3. \A p \in Orders \ {o} : Stage(p)' = Stage(p)
    BY <2>1, SameRow DEF Inv, TypeOK
  <2>. QED  BY <2>2, <2>3, LedgerMoves DEF Ledger!Withdraw, Ledger!Next
<1>7. ASSUME NEW i \in OrderIds, Broker(i) PROVE Goal
  BY <1>0, <1>7 DEF Broker, BrokerAccept, BrokerReject, BrokerFill,
     BrokerCancel, BrokerMove, rowVars
<1>8. ASSUME NEW e \in inbox, ApplyBrokerStatus(e) PROVE Goal
  <2>1. CASE \A o \in Orders : brokerId[o] # e.id
    <3>1. \A o \in Orders : status'[o] = status[o]
      BY <1>8, <2>1 DEF ApplyBrokerStatus
    <3>2. UNCHANGED <<marker, sends>>
      BY <1>8 DEF ApplyBrokerStatus
    <3>. QED  BY <3>1, <3>2, SameRow, LedgerStutters
  <2>2. ASSUME NEW o \in Orders, brokerId[o] = e.id PROVE Goal
    <3>1. \A p \in Orders \ {o} : status'[p] = status[p]
      BY <1>8, <2>2, OneRowMatches DEF ApplyBrokerStatus
    <3>2. e.kind \in {"SUBMITTED", "FILLED", "CANCELLED"}
      BY <1>8 DEF ApplyBrokerStatus, Inv, TypeOK, EventKinds
    <3>3. status'[o] = BrokerStatusWrite(status[o], e.kind)
      BY <1>8, <2>2 DEF ApplyBrokerStatus
    <3>4. status'[o] = status[o] \/ status'[o] \in {"SUBMITTED", "FILLED", "CANCELLED"}
      BY <3>2, <3>3 DEF BrokerStatusWrite
    <3>5. status[o] \in {"FILLED", "CANCELLED"} => status'[o] \in {"FILLED", "CANCELLED"}
      BY <3>2, <3>3 DEF BrokerStatusWrite
    <3>6. UNCHANGED <<marker, sends>>
      BY <1>8 DEF ApplyBrokerStatus
    <3>. QED  BY <2>2, <3>1, <3>4, <3>5, <3>6, CallbackMoves DEF Ledger!Next
  <2>. QED  BY <2>1, <2>2
<1>9. ASSUME NEW e \in inbox, ApplyExecution(e) PROVE Goal
  <2>1. CASE UNCHANGED status
    BY <1>0, <1>9, <2>1 DEF ApplyExecution
  <2>2. ASSUME NEW o \in Orders, brokerId[o] = e.id,
               status' = [status EXCEPT ![o] = "FILLED"]
        PROVE  Goal
    <3>1. /\ \A p \in Orders \ {o} : status'[p] = status[p]
          /\ status'[o] = "FILLED"
      BY <2>2 DEF Inv, TypeOK
    <3>2. UNCHANGED <<marker, sends>>
      BY <1>9 DEF ApplyExecution
    <3>. QED  BY <2>2, <3>1, <3>2, CallbackMoves DEF Ledger!Next
  <2>. QED  BY <1>9, <2>1, <2>2 DEF ApplyExecution
<1>10. ASSUME Crash \/ Restart \/ UNCHANGED vars PROVE Goal
  BY <1>0, <1>10 DEF Crash, Restart, rowVars, vars
<1>. QED  BY <1>5, <1>6, <1>7, <1>8, <1>9, <1>10 DEF Next, Callback

(* The submission machinery implements the order ledger: whatever requests *)
(* race, callbacks arrive late and crashes happen, an order is committed   *)
(* once, sent at most once after that, and closed once.                    *)
THEOREM Refinement == Spec => ImplementsOrderLedger
<1>1. Init => Ledger!Init
  BY DEF Init, Ledger!Init, Stage
<1>2. Inv /\ [Next]_vars => [Ledger!Next]_([o \in Orders |-> Stage(o)])
  BY StepRefines
<1>. QED  BY Invariance, <1>1, <1>2, PTL DEF Spec, ImplementsOrderLedger, Ledger!Spec
=============================================================================
