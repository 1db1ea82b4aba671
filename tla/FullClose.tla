----------------------------- MODULE FullClose -----------------------------
(***************************************************************************)
(* The full close of one owned position (lifecycle/close-service.ts,       *)
(* close-repository.ts, close-evidence.ts, ownership.ts) together with the *)
(* lifecycle observer that reconciles it (observer.ts).                    *)
(*                                                                         *)
(* The original entry bought one share with a bracket: PARENT, TP and SL.  *)
(* A close cancels the legs that still work, each once and only after a    *)
(* marker was committed, waits for their confirmations, captures the       *)
(* broker again, and only then claims and sends one SELL.  What it knows   *)
(* of the broker is the last published run and the position snapshot; the  *)
(* run's reads are not atomic and the broker moves between them.           *)
(*                                                                         *)
(* Ages of evidence, quotes, risk and management gates only refuse: a      *)
(* refusal is RequestFails, possible at every step.                        *)
(***************************************************************************)
EXTENDS Naturals, Integers, FiniteSets, TLC

CONSTANTS
    \* @type: Int;
    MaxConnections,     \* bound: sockets opened, by a reconnect or a new process
    \* @type: Bool;
    TimerRuns           \* bound: runs start on the scheduler's timer as well

ASSUME ConnectionsAssumption == MaxConnections \in Nat \ {0}
ASSUME TimerAssumption == TimerRuns \in BOOLEAN

Child == {"TP", "SL"}
Role  == {"PARENT"} \cup Child
Order == Role \cup {"CLOSE"}
Actor == {"request", "observer"}
Source == {"positions", "openOrders", "executions"}

None == [none |-> TRUE]

VARIABLES
    order,      \* order[r]: state of each broker order
    cancels,    \* cancels[r]: cancel requests written to the broker (auxiliary count)
    sends,      \* close orders written to the broker (auxiliary count)
    fills,      \* fill callbacks that have not yet invalidated the snapshot
    conn,       \* connection generation of the socket
    sync,       \* broker_snapshot_syncs: the position snapshot
    run,        \* latest published reconciliation run, None once it can prove nothing
    cap,        \* capture in progress
    op,         \* lifecycle_close_operations row
    row,        \* proposed_orders.status of the original and of the close
    req,        \* the request in flight
    obs,        \* the observer's cycle
    wait        \* wait[a]: what the refresh of actor a still needs

broker == <<order, cancels, sends, fills>>
evidence == <<sync, run, cap>>
vars == <<broker, conn, evidence, op, row, req, obs, wait>>

OrderState == {"none", "sent", "working", "filled", "cancelled"}
OpState == {"none", "PREPARING", "BLOCKED", "CANCEL_UNKNOWN", "SUBMISSION_UNKNOWN",
            "SUBMITTED", "COMPLETED"}
Unfinished == OpState \ {"none", "COMPLETED"}

Stage == {"idle", "reserve", "leg", "cancel", "confirm", "record", "recorded", "after",
          "claim", "dispatch", "accepted", "observe", "final"}
Snapshots == [pos : -1..1, complete : BOOLEAN]
Captures == [usable : BOOLEAN, pos : -1..1, working : SUBSET Order, filled : SUBSET Order,
             read : SUBSET Source, confirmed : SUBSET Role, fresh : SUBSET Actor]
Records ==
    [pos : -1..1, working : SUBSET Order, filled : SUBSET Order, confirmed : SUBSET Role]
Operations == [state : OpState, terminals : SUBSET Role, attempts : SUBSET Role,
               submitted : BOOLEAN, conn : 0..MaxConnections]
Requests == [at : Stage, role : Role, conn : 0..MaxConnections]

----------------------------------------------------------------------------
(* The broker *)

Bought == IF order["PARENT"] = "filled" THEN 1 ELSE 0
Sold == Cardinality({r \in Child \cup {"CLOSE"} : order[r] = "filled"})
Position == Bought - Sold
Working == {r \in Order : order[r] = "working"}
Filled == {r \in Order : order[r] = "filled"}

\* A bracket's children can fill only after the parent, and one of them only.
MayFill(r) ==
    /\ order[r] = "working"
    /\ r \in Child => /\ order["PARENT"] = "filled"
                      /\ \A c \in Child : order[c] # "filled"

\* The parent cascades to its children, a filled child cancels the other, a
\* session end or a person in TWS cancels anything: a working order may always go.
BrokerCancels(r) ==
    /\ order[r] \in {"sent", "working"}
    /\ order' = [order EXCEPT ![r] = "cancelled"]
    /\ UNCHANGED <<cancels, sends, fills, conn, evidence, op, row, req, obs, wait>>

BrokerAccepts ==
    /\ order["CLOSE"] = "sent"
    /\ order' = [order EXCEPT !["CLOSE"] = "working"]
    /\ UNCHANGED <<cancels, sends, fills, conn, evidence, op, row, req, obs, wait>>

BrokerFills(r) ==
    /\ MayFill(r)
    /\ order' = [order EXCEPT ![r] = "filled"]
    /\ fills' = TRUE
    /\ UNCHANGED <<cancels, sends, conn, evidence, op, row, req, obs, wait>>

\* Evidence of another session or of an older snapshot generation stays refused:
\* position_generation and session_id are compared and never come back.
Outdated(record) == IF record = None THEN None ELSE [record EXCEPT !.usable = FALSE,
                        !.pos = 0, !.working = {}, !.filled = {}, !.confirmed = {}]

InvalidateSnapshot ==
    /\ fills
    /\ fills' = FALSE
    /\ sync' = [sync EXCEPT !.complete = FALSE]
    /\ run' = None
    /\ cap' = Outdated(cap)
    /\ UNCHANGED <<order, cancels, sends, conn, op, row, req, obs, wait>>

----------------------------------------------------------------------------
(* refresh(): a position snapshot and then a run that starts after it *)

Refreshing(a) == wait[a] # "done"

\* The legs whose cancellation was confirmed so far: barrier_at is the last of them.
Confirmed == op.terminals \cup (IF req.at = "record" THEN {req.role} ELSE {})

\* The scheduler runs one capture at a time, on its timer or because a fresh one
\* was asked for; a caller is served only by a run that started after it asked.
StartRun ==
    /\ cap = None
    /\ ~TimerRuns => \E a \in Actor : wait[a] = "run"
    /\ cap' = [usable |-> sync.complete, pos |-> 0, working |-> {}, filled |-> {}, read |-> {},
               confirmed |-> IF sync.complete THEN Confirmed ELSE {},
               fresh |-> {a \in Actor : wait[a] = "run"}]
    /\ UNCHANGED <<broker, conn, sync, run, op, row, req, obs, wait>>

RefreshPosition ==
    /\ \E a \in Actor : wait[a] = "sync"
    /\ sync' = [pos |-> Position, complete |-> TRUE]
    /\ run' = None
    /\ cap' = Outdated(cap)
    /\ wait' = [a \in Actor |-> IF wait[a] = "sync" THEN "run" ELSE wait[a]]
    /\ UNCHANGED <<broker, conn, op, row, req, obs>>

\* Promise.all: the three sources are read in any order, the broker moves in between.
ReadSource(s) ==
    /\ cap # None
    /\ s \notin cap.read
    /\ cap' = [cap EXCEPT
          !.read = @ \cup {s},
          !.pos = IF cap.usable /\ s = "positions" THEN Position ELSE @,
          !.working = IF cap.usable /\ s = "openOrders" THEN Working ELSE @,
          !.filled = IF cap.usable /\ s = "executions" THEN Filled ELSE @]
    /\ UNCHANGED <<broker, conn, sync, run, op, row, req, obs, wait>>

PublishRun ==
    /\ cap # None
    /\ cap.read = Source
    /\ run' = IF cap.usable
              THEN [pos |-> cap.pos, working |-> cap.working, filled |-> cap.filled,
                    confirmed |-> cap.confirmed]
              ELSE None
    /\ cap' = None
    /\ wait' = [a \in Actor |-> IF a \in cap.fresh THEN "done" ELSE wait[a]]
    /\ UNCHANGED <<broker, conn, sync, op, row, req, obs>>

----------------------------------------------------------------------------
(* evaluateLifecycleFacts and evaluateCloseEvidence over the latest run *)

Exits == {"TP", "SL", "CLOSE"}
Net == (IF "PARENT" \in run.filled THEN 1 ELSE 0) - Cardinality(Exits \cap run.filled)
ParentFilled == "PARENT" \in run.filled
LegsTerminal == \A r \in Role : r \notin run.working /\ (r \in run.filled \/ r \in op.terminals)

\* Latest run of this process, frozen with the current complete position snapshot,
\* its positions, its executions and the snapshot in agreement.
FactsHold ==
    /\ run # None
    /\ sync.complete
    /\ Net \in {0, 1}
    /\ run.pos = Net /\ sync.pos = Net
    /\ "CLOSE" \in (run.filled \cup run.working) => op.submitted

\* The run must have started after the last confirmation.
BarrierPassed == op.terminals \subseteq run.confirmed

\* A flat account does not show that an unfilled parent is gone.
ParentConfirmed ==
    Net = 0 => \/ "PARENT" \in run.working
               \/ ParentFilled
               \/ "PARENT" \in op.terminals
               \/ op.submitted

(* Mutation of EvidenceOk: an operation is only observed on the connection *)
(* that it was reserved on.                                                *)
EvidenceOkSameConnection ==
    FactsHold /\ op.terminals \cap run.working = {} /\ BarrierPassed /\ ParentConfirmed
    /\ (op.state # "none" => conn = op.conn)

EvidenceOk ==
    /\ FactsHold
    /\ op.terminals \cap run.working = {}
    /\ BarrierPassed
    /\ ParentConfirmed

\* Initial mode asks for the protection of what is owned and for no orphan.
Protected ==
    IF Net = 1 THEN Child \subseteq run.working
    ELSE (~ParentFilled /\ "PARENT" \in run.working) \/ run.working = {}

(* Mutation of CanComplete: the net alone decides.                         *)
CanCompleteOnNet == Net = 0 /\ (op.submitted => "CLOSE" \in run.filled)

CanComplete ==
    /\ Net = 0
    /\ run.working = {}
    /\ ParentFilled \/ (LegsTerminal /\ run.filled = {})
    /\ op.submitted => "CLOSE" \in run.filled

(* Mutation of MaySell: a leg absent from the capture counts as gone.      *)
MaySellOnAbsence == EvidenceOk /\ op.terminals # {} /\ Net = 1 /\ run.working = {}

\* after_cancel: a SELL of the one share is authorised.
MaySell ==
    /\ EvidenceOk
    /\ op.terminals # {}
    /\ Net = 1 /\ LegsTerminal /\ run.working = {}

SameConnection == conn = op.conn

----------------------------------------------------------------------------
(* The transactions of CloseRepository *)

NoOp == [state |-> "none", terminals |-> {}, attempts |-> {}, submitted |-> FALSE, conn |-> 0]

\* What an observation makes of the operation; the rows follow a completion.
Observed ==
    IF EvidenceOk /\ CanComplete
    THEN /\ op' = [op EXCEPT !.state = "COMPLETED"]
         /\ row' = [r \in DOMAIN row |->
                      IF row[r] \notin {"PROPOSED", "SUBMITTED"} THEN row[r]
                      ELSE IF r = "CLOSE" \/ ParentFilled THEN "FILLED" ELSE "CANCELLED"]
    ELSE /\ op' = IF op.submitted /\ EvidenceOk /\ "CLOSE" \notin run.working /\ Net > 0
                  THEN [op EXCEPT !.state = "SUBMISSION_UNKNOWN"]
                  ELSE op
         /\ UNCHANGED row

Owned == op.state = "PREPARING" /\ ~op.submitted

Goto(stage) == req' = [req EXCEPT !.at = stage]

\* A stage that begins with a refresh waits until it is served.
RefreshThen(stage, role) ==
    /\ req' = [at |-> stage, role |-> role, conn |-> 0]
    /\ wait' = [wait EXCEPT !["request"] = "sync"]

At(stage) == req.at = stage /\ wait["request"] = "done"

Idle == [at |-> "idle", role |-> "PARENT", conn |-> 0]

----------------------------------------------------------------------------
(* The request *)

\* A replay of a known operation is answered from its row and starts nothing.
Request ==
    /\ req.at = "idle"
    /\ op.state = "none"
    /\ req' = [at |-> "reserve", role |-> "PARENT", conn |-> conn]
    /\ wait' = [wait EXCEPT !["request"] = "sync"]
    /\ UNCHANGED <<broker, conn, evidence, op, row, obs>>

Reserve ==
    /\ At("reserve")
    /\ conn = req.conn
    /\ EvidenceOk
    /\ Protected
    /\ op' = [NoOp EXCEPT !.state = IF CanComplete THEN "COMPLETED" ELSE "PREPARING", !.conn = conn]
    /\ row' = IF CanComplete /\ row["PARENT"] \in {"PROPOSED", "SUBMITTED"}
              THEN [row EXCEPT !["PARENT"] = "FILLED"] ELSE row
    /\ req' = IF CanComplete THEN Idle ELSE [req EXCEPT !.at = "leg", !.conn = 0]
    /\ UNCHANGED <<broker, conn, evidence, obs, wait>>

NextRole(role) == CASE role = "PARENT" -> "TP" [] role = "TP" -> "SL" [] OTHER -> "SL"

EndOfLeg(role) == IF role = "SL" THEN RefreshThen("after", role)
                  ELSE req' = [req EXCEPT !.at = "leg", !.role = NextRole(role)] /\ UNCHANGED wait

(* Mutation of SkipLeg: the loop goes on from a leg that still works.      *)
SkipAnyLeg ==
    /\ At("leg") /\ SameConnection /\ EvidenceOk /\ ~CanComplete
    /\ EndOfLeg(req.role)
    /\ UNCHANGED <<broker, conn, evidence, op, row, obs>>

SkipLeg ==
    /\ At("leg")
    /\ SameConnection /\ EvidenceOk /\ ~CanComplete
    /\ req.role \notin run.working
    /\ EndOfLeg(req.role)
    /\ UNCHANGED <<broker, conn, evidence, op, row, obs>>

\* The loop and the check after it stop at evidence that completes the close; the
\* transaction that observes it evaluates again (ObserveRequest).
CompleteEarly ==
    /\ At("leg") \/ At("after")
    /\ SameConnection /\ EvidenceOk /\ CanComplete
    /\ Goto("observe")
    /\ UNCHANGED <<broker, conn, evidence, op, row, obs, wait>>

\* The decision of the loop is taken again inside the transaction.
MarkCancel ==
    /\ At("leg")
    /\ Owned /\ SameConnection /\ EvidenceOk
    /\ req.role \in run.working
    /\ req.role \notin op.attempts
    /\ op' = [op EXCEPT !.attempts = @ \cup {req.role}]
    /\ Goto("cancel")
    /\ UNCHANGED <<broker, conn, evidence, row, obs, wait>>

SendCancel ==
    /\ At("cancel")
    /\ SameConnection
    /\ cancels' = [cancels EXCEPT ![req.role] = @ + 1]
    /\ Goto("confirm")
    /\ UNCHANGED <<order, sends, fills, conn, evidence, op, row, obs, wait>>

\* Only a CANCELLED status of this order on this connection confirms.
Confirm ==
    /\ At("confirm")
    /\ SameConnection
    /\ order[req.role] = "cancelled"
    /\ Goto("record")
    /\ UNCHANGED <<broker, conn, evidence, op, row, obs, wait>>

RecordTerminal ==
    /\ At("record")
    /\ SameConnection /\ Owned
    /\ req.role \in op.attempts \ op.terminals
    /\ op' = [op EXCEPT !.terminals = @ \cup {req.role}]
    /\ RefreshThen("recorded", req.role)
    /\ UNCHANGED <<broker, conn, evidence, row, obs>>

LegCancelled ==
    /\ At("recorded")
    /\ SameConnection
    /\ EndOfLeg(req.role)
    /\ UNCHANGED <<broker, conn, evidence, op, row, obs>>

\* prepare writes nothing; the refresh after it precedes the claim.
Prepare ==
    /\ At("after")
    /\ SameConnection /\ MaySell
    /\ RefreshThen("claim", req.role)
    /\ UNCHANGED <<broker, conn, evidence, op, row, obs>>

(* Mutation of ClaimClose: the marker is left to the acknowledgement.      *)
ClaimUnmarked ==
    /\ At("claim")
    /\ SameConnection /\ Owned /\ MaySell
    /\ op' = [op EXCEPT !.state = "SUBMISSION_UNKNOWN"]
    /\ row' = ("CLOSE" :> "PROPOSED") @@ row
    /\ Goto("dispatch")
    /\ UNCHANGED <<broker, conn, evidence, obs, wait>>

ClaimClose ==
    /\ At("claim")
    /\ SameConnection /\ Owned /\ MaySell
    /\ op' = [op EXCEPT !.state = "SUBMISSION_UNKNOWN", !.submitted = TRUE]
    /\ row' = ("CLOSE" :> "PROPOSED") @@ row
    /\ Goto("dispatch")
    /\ UNCHANGED <<broker, conn, evidence, obs, wait>>

DispatchClose ==
    /\ At("dispatch")
    /\ SameConnection
    /\ order' = [order EXCEPT !["CLOSE"] = "sent"]
    /\ sends' = sends + 1
    /\ Goto("accepted")
    /\ UNCHANGED <<cancels, fills, conn, evidence, op, row, obs, wait>>

Submitted ==
    /\ At("accepted")
    /\ SameConnection
    /\ order["CLOSE"] \in {"working", "filled"}
    /\ op' = IF op.state = "SUBMISSION_UNKNOWN" THEN [op EXCEPT !.state = "SUBMITTED"] ELSE op
    /\ row' = IF row["CLOSE"] = "PROPOSED" THEN [row EXCEPT !["CLOSE"] = "SUBMITTED"] ELSE row
    /\ RefreshThen("observe", req.role)
    /\ UNCHANGED <<broker, conn, evidence, obs>>

ObserveRequest ==
    /\ At("observe")
    /\ Observed
    /\ req' = Idle
    /\ UNCHANGED <<broker, conn, evidence, obs, wait>>

BlockedState ==
    IF op.submitted THEN "SUBMISSION_UNKNOWN"
    ELSE IF req.at \in {"cancel", "confirm", "record"} THEN "CANCEL_UNKNOWN" ELSE "BLOCKED"

\* catch: before the reservation the request just ends; after it the operation is
\* blocked and observed once more; a failure of that observation is swallowed.
RequestFails ==
    /\ req.at # "idle"
    /\ IF req.at \in {"reserve", "final"}
       THEN /\ req' = Idle
            /\ wait' = [wait EXCEPT !["request"] = "done"]
            /\ UNCHANGED op
       ELSE /\ op' = IF op.state = "COMPLETED" THEN op ELSE [op EXCEPT !.state = BlockedState]
            /\ RefreshThen("final", req.role)
    /\ UNCHANGED <<broker, conn, evidence, row, obs>>

ObserveFinal ==
    /\ At("final")
    /\ Observed
    /\ req' = Idle
    /\ UNCHANGED <<broker, conn, evidence, obs, wait>>

----------------------------------------------------------------------------
(* The observer and the reconcile route *)

\* A cycle refreshes the account under its lease.
ObserverCycle ==
    /\ obs = "idle"
    /\ obs' = "cycle"
    /\ wait' = [wait EXCEPT !["observer"] = "sync"]
    /\ UNCHANGED <<broker, conn, evidence, op, row, req>>

\* reconcile joins a request in flight; otherwise it refreshes and observes.
ObserverReconcile ==
    /\ obs = "cycle"
    /\ wait["observer"] = "done"
    /\ op.state \in Unfinished => req.at = "idle"
    /\ IF op.state \in Unfinished
       THEN obs' = "reconcile" /\ wait' = [wait EXCEPT !["observer"] = "sync"]
       ELSE obs' = "idle" /\ UNCHANGED wait
    /\ UNCHANGED <<broker, conn, evidence, op, row, req>>

\* The operation may have been completed by then: observe does not ask.
ObserverObserve ==
    /\ obs = "reconcile"
    /\ wait["observer"] = "done"
    /\ Observed
    /\ obs' = "idle"
    /\ UNCHANGED <<broker, conn, evidence, req, wait>>

----------------------------------------------------------------------------
(* The connection and the process *)

\* A capture across a change of connection has no session coverage.
Reconnect ==
    /\ conn < MaxConnections
    /\ conn' = conn + 1
    /\ cap' = Outdated(cap)
    /\ UNCHANGED <<broker, sync, run, op, row, req, obs, wait>>

\* Rows survive; the request, the capture and the callbacks do not, and a snapshot
\* or a run of another session is no evidence.
Crash ==
    /\ conn < MaxConnections
    /\ conn' = conn + 1
    /\ fills' = FALSE
    /\ cap' = None /\ run' = None
    /\ sync' = [sync EXCEPT !.complete = FALSE]
    /\ req' = Idle
    /\ obs' = "idle"
    /\ wait' = [a \in Actor |-> "done"]
    /\ UNCHANGED <<order, cancels, sends, op, row>>

Init ==
    /\ order \in [Order -> OrderState]
    /\ \/ /\ order["PARENT"] = "working"
          /\ \A c \in Child : order[c] = "working"
       \/ /\ order["PARENT"] = "filled"
          /\ \/ \A c \in Child : order[c] = "working"
             \/ order["TP"] = "filled" /\ order["SL"] = "cancelled"
    /\ order["CLOSE"] = "none"
    /\ cancels = [r \in Role |-> 0]
    /\ sends = 0
    /\ fills = FALSE
    /\ conn = 1
    /\ sync = [pos |-> 0, complete |-> FALSE]
    /\ run = None /\ cap = None
    /\ op = NoOp
    /\ row = ("PARENT" :> "SUBMITTED")
    /\ req = Idle
    /\ obs = "idle"
    /\ wait = [a \in Actor |-> "done"]

Broker == \E r \in Order : BrokerCancels(r) \/ BrokerFills(r)

Capture == StartRun \/ RefreshPosition \/ PublishRun \/ \E s \in Source : ReadSource(s)

Observer == ObserverCycle \/ ObserverReconcile \/ ObserverObserve

RequestStep ==
    \/ Reserve \/ SkipLeg \/ CompleteEarly \/ MarkCancel \/ SendCancel \/ Confirm
    \/ RecordTerminal \/ LegCancelled \/ Prepare \/ ClaimClose \/ DispatchClose
    \/ Submitted \/ ObserveRequest \/ RequestFails \/ ObserveFinal

Next ==
    \/ Broker \/ BrokerAccepts
    \/ InvalidateSnapshot
    \/ Capture \/ Observer
    \/ Request \/ RequestStep
    \/ Reconnect \/ Crash

\* Timers, event handlers and timeouts: the callbacks run, a refresh and a capture end,
\* every step of a request ends or throws, the observer's interval keeps firing.
Fairness ==
    /\ WF_vars(InvalidateSnapshot)
    /\ WF_vars(RefreshPosition)
    /\ WF_vars(StartRun \/ PublishRun \/ \E s \in Source : ReadSource(s))
    /\ WF_vars(Observer)
    /\ WF_vars(RequestStep)

Spec == Init /\ [][Next]_vars /\ Fairness

----------------------------------------------------------------------------
(* Properties *)

TypeOK ==
    /\ order \in [Order -> OrderState]
    /\ cancels \in [Role -> 0..2] /\ sends \in 0..2
    /\ fills \in BOOLEAN
    /\ conn \in 1..MaxConnections
    /\ sync \in Snapshots
    /\ run = None \/ run \in Records
    /\ cap = None \/ cap \in Captures
    /\ op \in Operations
    /\ op.terminals \subseteq op.attempts
    /\ req \in Requests
    /\ obs \in {"idle", "cycle", "reconcile"}
    /\ wait \in [Actor -> {"sync", "run", "done"}]

\* A close never sells what a leg may sell again: from the moment the SELL is sent,
\* every leg is filled or its cancellation was confirmed on this connection, and the
\* account is never short.  Absence from a capture is not enough.
NeverOversold ==
    /\ Position >= 0
    /\ order["CLOSE"] # "none" =>
          \A r \in Role : order[r] = "filled" \/ (r \in op.terminals /\ order[r] = "cancelled")

\* COMPLETED releases the account: it is flat and nothing of the cycle works, then
\* and for ever, whatever the captures saw of a moving broker.
CompletedIsFlat ==
    op.state = "COMPLETED" =>
        /\ Position = 0
        /\ \A r \in Order : order[r] \notin {"sent", "working"}

\* Every write is made once and under a marker that was committed before it, in
\* this process or in one that crashed.  The types are checked with it.
WritesAreMarked ==
    /\ TypeOK
    /\ \A r \in Role : cancels[r] <= 1 /\ (cancels[r] = 1 => r \in op.attempts)
    /\ sends <= 1 /\ (sends = 1 => op.submitted)

\* The protection that is left is given up in order: no exit leg is cancelled by
\* the close while the entry may still fill.
ParentFirst ==
    \A c \in Child : cancels[c] = 1 => order["PARENT"] \notin {"sent", "working"}

\* A SELL that filled, with or without an acknowledgement, is noticed.
FilledCloseCompletes == order["CLOSE"] = "filled" ~> op.state = "COMPLETED"

\* PR16B_FULL_CLOSE_PLAN.md: fresh absence of the children and a net of zero
\* suffice for completion once the parent's cancellation was confirmed.
CancelledParentCompletes ==
    (/\ EvidenceOk
     /\ Net = 0 /\ run.working = {} /\ run.filled = {}
     /\ "PARENT" \in op.terminals
     /\ ~op.submitted) => CanComplete

=============================================================================
