----------------------------- MODULE Submission -----------------------------
(***************************************************************************)
(* How the execution engine turns a signal ticket into at most one broker  *)
(* order: the three-phase submission service, the proposed_orders row and  *)
(* the persisted broker plan it writes, the in-memory order-id counter of  *)
(* the TWS client, the broker, and the order-status and execution          *)
(* callbacks that race with the request that is still waiting for its      *)
(* acknowledgement.  The process may crash between any two steps.          *)
(*                                                                         *)
(* An order is its clientOrderId, which has a unique index, so Orders also *)
(* names the rows of proposed_orders.  A bracket is abstracted to its      *)
(* parent leg: all legs are claimed in one transaction and written to the  *)
(* socket in one synchronous loop.  Every policy check that can only       *)
(* refuse (kill switch, session and paper windows, AI approval, exposure   *)
(* and reconciliation gates) is the nondeterministic refusal of the phase  *)
(* it belongs to.                                                          *)
(***************************************************************************)
EXTENDS Integers, FiniteSets

CONSTANTS
  Orders,       \* client order ids, one row of proposed_orders each
  Handlers,     \* concurrent HTTP requests of one engine process
  Instruments,
  InstrumentOf, \* the instrument of each order's ticket
  MaxOrderId,   \* bound: broker order ids are 1..MaxOrderId
  MaxCrashes,   \* bound: crashes of the engine process
  NoOrder       \* owner of a broker order id that was never placed

ASSUME ConstantsAssumption ==
  /\ InstrumentOf \in [Orders -> Instruments]
  /\ MaxOrderId \in Nat
  /\ MaxCrashes \in Nat
  /\ NoOrder \notin Orders

OrderIds == 1..MaxOrderId

RowStatuses ==
  {"ABSENT", "PROPOSED", "SUBMITTED", "FILLED", "CANCELLED", "REJECTED"}

BrokerStates == {"NONE", "WIRE", "WORKING", "FILLED", "CANCELLED"}

(* What a request is about to do next.                                     *)
Steps == {"idle", "insert", "prepare", "claim", "dispatch", "awaiting",
          "ackSubmitted", "ackFilled"}

(* Callback kinds: the three order statuses that write the row, and the    *)
(* execution report that completes the order's quantity.                   *)
EventKinds == {"SUBMITTED", "FILLED", "CANCELLED", "EXECUTION"}

VARIABLES
  status,    \* proposed_orders.status
  marker,    \* proposed_orders.execution_attempted_at IS NOT NULL
  brokerId,  \* proposed_orders.broker_order_id, 0 for NULL
  plan,      \* the parent's broker_order_links.broker_order_id, 0 if no plan
  up,        \* the engine process is running
  nextId,    \* TwsExecutionClient.nextOrderId
  step,      \* per request: the step it is at
  serving,   \* per request: the order it serves
  ticketId,  \* per request: the broker id its prepared plan carries
  broker,    \* the broker's state of each order id
  owner,     \* the order an id was placed for
  inbox,     \* callbacks emitted by the TWS client, not yet applied
  sends,     \* history: times an order was written to the socket
  crashes    \* history: crashes so far

rowVars     == <<status, marker, brokerId, plan>>
requestVars == <<step, serving, ticketId>>
brokerVars  == <<broker, owner>>
vars == <<status, marker, brokerId, plan, up, nextId, step, serving, ticketId,
          broker, owner, inbox, sends, crashes>>

-----------------------------------------------------------------------------
(* State formulae *)

(* Mutation of Clean: the status alone says that nobody claimed the row.   *)
CleanByStatus(o) == status[o] = "PROPOSED"

(* A row nobody has claimed: only such a row may be (re)claimed.           *)
Clean(o) == status[o] = "PROPOSED" /\ ~marker[o] /\ brokerId[o] = 0

(* The row counts as an active intent of its instrument.                   *)
Active(o) == status[o] \in {"PROPOSED", "SUBMITTED"}

(* Mutation of ActiveIntentExists: only submitted orders count.            *)
SubmittedIntentExists(o) ==
  \E p \in Orders \ {o} : InstrumentOf[p] = InstrumentOf[o] /\ status[p] = "SUBMITTED"

(* Another order holds the instrument of o.                                *)
ActiveIntentExists(o) ==
  \E p \in Orders \ {o} : InstrumentOf[p] = InstrumentOf[o] /\ Active(p)

Event(i, k) == [id |-> i, kind |-> k]

-----------------------------------------------------------------------------
Init ==
  /\ status = [o \in Orders |-> "ABSENT"]
  /\ marker = [o \in Orders |-> FALSE]
  /\ brokerId = [o \in Orders |-> 0]
  /\ plan = [o \in Orders |-> 0]
  /\ up = TRUE
  /\ nextId = 1
  /\ step = [h \in Handlers |-> "idle"]
  /\ serving \in [Handlers -> {NoOrder}]
  /\ ticketId = [h \in Handlers |-> 0]
  /\ broker = [i \in OrderIds |-> "NONE"]
  /\ owner = [i \in OrderIds |-> NoOrder]
  /\ inbox = {}
  /\ sends = [o \in Orders |-> 0]
  /\ crashes = 0

At(h, s) == up /\ step[h] = s

Goto(h, s) == step' = [step EXCEPT ![h] = s]

(* The request answers its caller and forgets what it held.                *)
Return(h) ==
  /\ Goto(h, "idle")
  /\ serving' = [serving EXCEPT ![h] = NoOrder]
  /\ ticketId' = [ticketId EXCEPT ![h] = 0]

-----------------------------------------------------------------------------
(* Requests *)

(* POST execute-ticket: the idempotency lookup.  No row: insert.  A clean  *)
(* PROPOSED row: resume it.  Any other row is answered without a write.    *)
SubmitTicket(h, o) ==
  /\ At(h, "idle")
  /\ \/ status[o] = "ABSENT" /\ Goto(h, "insert")
     \/ Clean(o) /\ Goto(h, "prepare")
  /\ serving' = [serving EXCEPT ![h] = o]
  /\ UNCHANGED <<rowVars, up, nextId, ticketId, brokerVars, inbox, sends, crashes>>

(* POST execute-proposed/:id: only an unclaimed PROPOSED row goes on.      *)
ExecuteProposed(h, o) ==
  /\ At(h, "idle")
  /\ Clean(o)
  /\ Goto(h, "prepare")
  /\ serving' = [serving EXCEPT ![h] = o]
  /\ UNCHANGED <<rowVars, up, nextId, ticketId, brokerVars, inbox, sends, crashes>>

(* The INSERT transaction.  The active-intent check passes over the        *)
(* caller's own client order id; a row that appeared since the lookup is a *)
(* unique violation, and the request resumes that row WITHOUT looking at   *)
(* its status again.                                                       *)
InsertProposed(h) ==
  LET o == serving[h] IN
  /\ At(h, "insert")
  /\ ~ActiveIntentExists(o)
  /\ Goto(h, "prepare")
  /\ \/ status[o] = "ABSENT" /\ status' = [status EXCEPT ![o] = "PROPOSED"]
     \/ status[o] # "ABSENT" /\ UNCHANGED status
  /\ UNCHANGED <<marker, brokerId, plan, up, nextId, serving, ticketId,
                 brokerVars, inbox, sends, crashes>>

(* Phase A: prepareBrokerPlan takes the order id from memory and writes    *)
(* nothing.                                                                *)
Prepare(h) ==
  /\ At(h, "prepare")
  /\ nextId \in OrderIds
  /\ ticketId' = [ticketId EXCEPT ![h] = nextId]
  /\ nextId' = nextId + 1
  /\ Goto(h, "claim")
  /\ UNCHANGED <<rowVars, up, serving, brokerVars, inbox, sends, crashes>>

(* Mutation of Claim: the plan is written with the counter's id of now.    *)
ClaimCounterId(h) ==
  LET o == serving[h] IN
  /\ At(h, "claim")
  /\ Clean(o)
  /\ marker' = [marker EXCEPT ![o] = TRUE]
  /\ nextId \in OrderIds
  /\ plan' = [plan EXCEPT ![o] = nextId]
  /\ Goto(h, "dispatch")
  /\ UNCHANGED <<status, brokerId, up, nextId, serving, ticketId, brokerVars,
                 inbox, sends, crashes>>

(* Phase B: the claim and the whole broker plan in one transaction.        *)
Claim(h) ==
  LET o == serving[h] IN
  /\ At(h, "claim")
  /\ Clean(o)
  /\ marker' = [marker EXCEPT ![o] = TRUE]
  /\ plan' = [plan EXCEPT ![o] = ticketId[h]]
  /\ Goto(h, "dispatch")
  /\ UNCHANGED <<status, brokerId, up, nextId, serving, ticketId, brokerVars,
                 inbox, sends, crashes>>

(* A refusal before the claim: active intent, a gate, a policy, a failed   *)
(* preparation, or the claim's UPDATE matching no row.                     *)
RefuseBeforeClaim(h) ==
  /\ \E s \in {"insert", "prepare", "claim"} : At(h, s)
  /\ Return(h)
  /\ UNCHANGED <<rowVars, up, nextId, brokerVars, inbox, sends, crashes>>

(* A refusal after the claim and before the send: the row keeps its marker *)
(* and its plan although nothing was sent.                                 *)
DenyDispatch(h) ==
  /\ At(h, "dispatch")
  /\ Return(h)
  /\ UNCHANGED <<rowVars, up, nextId, brokerVars, inbox, sends, crashes>>

(* Phase C: inside the permit transaction every leg is written to the      *)
(* socket.                                                                 *)
Send(h) ==
  LET o == serving[h]  i == ticketId[h] IN
  /\ At(h, "dispatch")
  /\ Goto(h, "awaiting")
  /\ broker' = [broker EXCEPT ![i] = "WIRE"]
  /\ owner' = [owner EXCEPT ![i] = o]
  /\ sends' = [sends EXCEPT ![o] = @ + 1]
  /\ UNCHANGED <<rowVars, up, nextId, serving, ticketId, inbox, crashes>>

(* The acknowledgement was FILLED.                                         *)
MarkFilled(h) ==
  LET o == serving[h] IN
  /\ At(h, "ackFilled")
  /\ status' = [status EXCEPT ![o] = "FILLED"]
  /\ brokerId' = [brokerId EXCEPT ![o] = ticketId[h]]
  /\ marker' = [marker EXCEPT ![o] = TRUE]
  /\ Return(h)
  /\ UNCHANGED <<plan, up, nextId, brokerVars, inbox, sends, crashes>>

(* The acknowledgement was a submitted status.  The UPDATE has no guard on *)
(* the row's status.                                                       *)
MarkSubmitted(h) ==
  LET o == serving[h] IN
  /\ At(h, "ackSubmitted")
  /\ status' = [status EXCEPT ![o] = "SUBMITTED"]
  /\ brokerId' = [brokerId EXCEPT ![o] = ticketId[h]]
  /\ marker' = [marker EXCEPT ![o] = TRUE]
  /\ Return(h)
  /\ UNCHANGED <<plan, up, nextId, brokerVars, inbox, sends, crashes>>

(* The dispatch threw after the send: timeout, a broker error, a changed   *)
(* connection, a permit transaction that failed to commit.  The row is not *)
(* touched: only reconciliation may resolve it.                            *)
DispatchUnknown(h) ==
  /\ \E s \in {"awaiting", "ackSubmitted", "ackFilled"} : At(h, s)
  /\ Return(h)
  /\ UNCHANGED <<rowVars, up, nextId, brokerVars, inbox, sends, crashes>>

(* Mutation of RejectPending: a claimed row is rejected as well.           *)
RejectAnyProposed(o) ==
  /\ up
  /\ status[o] = "PROPOSED"
  /\ status' = [status EXCEPT ![o] = "REJECTED"]
  /\ UNCHANGED <<marker, brokerId, plan, up, nextId, requestVars, brokerVars,
                 inbox, sends, crashes>>

(* rejectPendingProposal: only a clean PROPOSED row is rejected.           *)
RejectPending(o) ==
  /\ up
  /\ Clean(o)
  /\ status' = [status EXCEPT ![o] = "REJECTED"]
  /\ UNCHANGED <<marker, brokerId, plan, up, nextId, requestVars, brokerVars,
                 inbox, sends, crashes>>

-----------------------------------------------------------------------------
(* The broker (external) and its callbacks *)

(* An orderStatus event of id i reaches the process: the waiting request   *)
(* takes it as its acknowledgement and the status callback starts.  A      *)
(* connection that is down, or a process that is, loses the event.         *)
Acknowledge(i, ack, kinds) ==
  \/ /\ up
     /\ step' = [h \in Handlers |->
                   IF step[h] = "awaiting" /\ ticketId[h] = i THEN ack ELSE step[h]]
     /\ inbox' = inbox \cup {Event(i, k) : k \in kinds}
  \/ UNCHANGED <<step, inbox>>

(* A cancelled order rejects the waiting promise, which then returns       *)
(* through DispatchUnknown.                                                *)
BrokerMove(i, from, to) ==
  /\ broker[i] = from
  /\ broker' = [broker EXCEPT ![i] = to]
  /\ UNCHANGED <<rowVars, up, nextId, serving, ticketId, owner, sends, crashes>>

BrokerAccept(i) ==
  BrokerMove(i, "WIRE", "WORKING") /\ Acknowledge(i, "ackSubmitted", {"SUBMITTED"})

(* Rejected with an error code: no orderStatus event.                      *)
BrokerReject(i) ==
  BrokerMove(i, "WIRE", "CANCELLED") /\ UNCHANGED <<step, inbox>>

BrokerFill(i) ==
  BrokerMove(i, "WORKING", "FILLED") /\ Acknowledge(i, "ackFilled", {"FILLED", "EXECUTION"})

BrokerCancel(i) ==
  BrokerMove(i, "WORKING", "CANCELLED") /\ Acknowledge(i, "awaiting", {"CANCELLED"})

(* Mutation of BrokerStatusWrite: the broker's own word is stored.         *)
RawStatusWrite(old, kind) == IF old = "FILLED" THEN old ELSE "ACKNOWLEDGED"

(* Mutation of BrokerStatusWrite: the last callback wins.                  *)
LastStatusWins(old, kind) == kind

(* What an order-status callback writes to a row that carries the event's  *)
(* broker order id.                                                        *)
BrokerStatusWrite(old, kind) ==
  CASE kind = "FILLED" -> "FILLED"
    [] kind = "SUBMITTED" -> IF old \in {"PROPOSED", "SUBMITTED"} THEN "SUBMITTED" ELSE old
    [] kind = "CANCELLED" -> IF old # "FILLED" THEN "CANCELLED" ELSE old

(* applyBrokerStatusUpdate: callbacks run concurrently, so in any order;   *)
(* a row that has no broker order id yet is not matched and the event is   *)
(* gone.                                                                   *)
ApplyBrokerStatus(e) ==
  /\ up
  /\ e \in inbox /\ e.kind # "EXECUTION"
  /\ inbox' = inbox \ {e}
  /\ status' = [o \in Orders |-> IF brokerId[o] = e.id
                                   THEN BrokerStatusWrite(status[o], e.kind)
                                   ELSE status[o]]
  /\ UNCHANGED <<marker, brokerId, plan, up, nextId, requestVars, brokerVars,
                 sends, crashes>>

(* upsertBrokerExecutionFill: the fill is linked to one row with the       *)
(* event's broker order id; a fill of the whole quantity makes that row    *)
(* FILLED whatever its status.                                             *)
ApplyExecution(e) ==
  /\ up
  /\ e \in inbox /\ e.kind = "EXECUTION"
  /\ inbox' = inbox \ {e}
  /\ \/ \E o \in Orders : brokerId[o] = e.id /\ status' = [status EXCEPT ![o] = "FILLED"]
     \/ (\A o \in Orders : brokerId[o] # e.id) /\ UNCHANGED status
  /\ UNCHANGED <<marker, brokerId, plan, up, nextId, requestVars, brokerVars,
                 sends, crashes>>

-----------------------------------------------------------------------------
(* Crash and restart *)

(* Requests, callbacks and the counter are lost; what was on the wire may  *)
(* have reached the broker or not.                                         *)
Crash ==
  /\ up /\ crashes < MaxCrashes
  /\ up' = FALSE
  /\ crashes' = crashes + 1
  /\ step' = [h \in Handlers |-> "idle"]
  /\ serving' = [h \in Handlers |-> NoOrder]
  /\ ticketId' = [h \in Handlers |-> 0]
  /\ inbox' = {}
  /\ \E lost \in SUBSET {i \in OrderIds : broker[i] = "WIRE"} :
       /\ broker' = [i \in OrderIds |-> IF i \in lost THEN "NONE"
                                        ELSE IF broker[i] = "WIRE" THEN "WORKING"
                                        ELSE broker[i]]
       /\ owner' = [i \in OrderIds |-> IF i \in lost THEN NoOrder ELSE owner[i]]
  /\ UNCHANGED <<rowVars, nextId, sends>>

(* Mutation of Restart: the counter starts again from one.                 *)
RestartFromOne ==
  /\ ~up
  /\ up' = TRUE
  /\ nextId' = 1
  /\ UNCHANGED <<rowVars, requestVars, brokerVars, inbox, sends, crashes>>

(* connect: the counter restarts from the broker's nextValidId, above      *)
(* every id the broker has seen - but not above the ids of plans that were *)
(* persisted and never sent.                                               *)
Restart ==
  /\ ~up
  /\ up' = TRUE
  /\ \E n \in 1..(MaxOrderId + 1) :
       /\ \A i \in OrderIds : broker[i] # "NONE" => i < n
       /\ nextId' = n
  /\ UNCHANGED <<rowVars, requestVars, brokerVars, inbox, sends, crashes>>

-----------------------------------------------------------------------------
Request(h) ==
  \/ \E o \in Orders : SubmitTicket(h, o) \/ ExecuteProposed(h, o)
  \/ InsertProposed(h) \/ Prepare(h) \/ Claim(h) \/ RefuseBeforeClaim(h)
  \/ DenyDispatch(h) \/ Send(h)
  \/ MarkFilled(h) \/ MarkSubmitted(h) \/ DispatchUnknown(h)

Broker(i) == BrokerAccept(i) \/ BrokerReject(i) \/ BrokerFill(i) \/ BrokerCancel(i)

Callback == \E e \in inbox : ApplyBrokerStatus(e) \/ ApplyExecution(e)

Next ==
  \/ \E h \in Handlers : Request(h)
  \/ \E o \in Orders : RejectPending(o)
  \/ \E i \in OrderIds : Broker(i)
  \/ Callback
  \/ Crash
  \/ Restart

Spec == Init /\ [][Next]_vars

-----------------------------------------------------------------------------
(* Properties *)

(* Every variable keeps its type.                                          *)
TypeOK ==
  /\ status \in [Orders -> RowStatuses]
  /\ marker \in [Orders -> BOOLEAN]
  /\ brokerId \in [Orders -> 0..MaxOrderId]
  /\ plan \in [Orders -> 0..MaxOrderId]
  /\ up \in BOOLEAN
  /\ nextId \in 1..(MaxOrderId + 1)
  /\ step \in [Handlers -> Steps]
  /\ serving \in [Handlers -> Orders \cup {NoOrder}]
  /\ ticketId \in [Handlers -> 0..MaxOrderId]
  /\ broker \in [OrderIds -> BrokerStates]
  /\ owner \in [OrderIds -> Orders \cup {NoOrder}]
  /\ inbox \subseteq [id : OrderIds, kind : EventKinds]
  /\ sends \in [Orders -> Nat]
  /\ crashes \in 0..MaxCrashes

(* An order is written to the broker socket at most once, whatever         *)
(* requests repeat, race or resume it and however often the process        *)
(* crashes between the claim, the send and the acknowledgement.            *)
AtMostOneDispatch == \A o \in Orders : sends[o] <= 1

(* Whatever the broker holds can be found from the database: an order that *)
(* is on the wire or at the broker has its marker and a persisted plan     *)
(* that names exactly that broker id, so a crash at any later point leaves *)
(* reconciliation an exact match.                                          *)
DispatchIsPersisted ==
  \A i \in OrderIds :
    broker[i] # "NONE" =>
      /\ owner[i] \in Orders
      /\ marker[owner[i]]
      /\ plan[owner[i]] = i

(* The broker never works two orders of one instrument: while the first is *)
(* live its row stays an active intent, even if its request failed, its    *)
(* acknowledgement was lost or the process crashed.                        *)
OneLiveOrderPerInstrument ==
  \A i, j \in OrderIds :
    (i # j /\ broker[i] \in {"WIRE", "WORKING"} /\ broker[j] \in {"WIRE", "WORKING"})
      => InstrumentOf[owner[i]] # InstrumentOf[owner[j]]

(* A row says FILLED only if the broker filled the order that this row     *)
(* dispatched, and SUBMITTED only if the broker has seen that order: no    *)
(* callback, however late, is attributed to another order's row.           *)
RowTellsTheTruth ==
  \A o \in Orders :
    /\ status[o] = "FILLED" => \E i \in OrderIds : owner[i] = o /\ broker[i] = "FILLED"
    /\ status[o] = "SUBMITTED" => \E i \in OrderIds :
                                    /\ owner[i] = o
                                    /\ broker[i] \in {"WORKING", "FILLED", "CANCELLED"}

(* No step takes a row out of a terminal status: once an order is FILLED,  *)
(* or REJECTED, a late callback or a late acknowledgement cannot reopen it *)
(* or change the outcome.                                                  *)
TerminalStays ==
  \A o \in Orders :
    /\ status[o] = "FILLED" => status'[o] = "FILLED"
    /\ status[o] = "REJECTED" => status'[o] = "REJECTED"
    /\ status[o] = "CANCELLED" => status'[o] \in {"CANCELLED", "FILLED"}

TerminalRowsStay == [][TerminalStays]_vars

-----------------------------------------------------------------------------
(* The promise this module implements *)

(* An order's stage in the ledger: unclaimed rows are intents, a claimed   *)
(* row is committed until its one send, and the row's terminal status      *)
(* closes it.                                                              *)
Stage(o) ==
  CASE status[o] = "ABSENT" -> "absent"
    [] status[o] = "REJECTED" -> "withdrawn"
    [] status[o] = "PROPOSED" /\ ~marker[o] -> "intent"
    [] Active(o) /\ marker[o] /\ sends[o] = 0 -> "committed"
    [] Active(o) /\ marker[o] /\ sends[o] # 0 -> "sent"
    [] OTHER -> "closed"

Ledger == INSTANCE OrderLedger WITH ledger <- [o \in Orders |-> Stage(o)]

(* Every run of the submission machinery, crashes and races included, is a *)
(* run of the ledger: one commit, at most one send, one outcome per order. *)
ImplementsOrderLedger == Ledger!Spec
=============================================================================
