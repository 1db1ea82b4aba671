--------------------------- MODULE ExposureFence ---------------------------
(***************************************************************************)
(* The position-snapshot fence of the execution engine: the write path may *)
(* open a new entry on an instrument only while a complete snapshot of the *)
(* current process shows no position, and a row that leaves the active     *)
(* statuses gives up the only other lock.  Broker callbacks, the dispatch  *)
(* acknowledgement and the reconciliation run race with the refresh loop   *)
(* that rebuilds the snapshot.                                             *)
(*                                                                         *)
(* One account, one instrument; every order is an entry that the broker    *)
(* fills whole, or in part and then whole or not.  Snapshot age can only   *)
(* refuse an entry and is left out.                                        *)
(***************************************************************************)
EXTENDS Integers, FiniteSets

CONSTANTS
  Orders,         \* entry orders of the instrument, one row each
  MaxIterations,  \* MAX_REFRESH_LOOP_ITERATIONS
  MaxSessions,    \* bound: process incarnations
  MaxGeneration,  \* bound: no refresh starts from an idle loop above it
  PartialFills,   \* bound: orders may fill in part
  Faults,         \* database or broker calls may fail, events may be lost
  Reconciling     \* reconciliation runs take place

ASSUME FenceAssumption ==
  /\ MaxIterations \in Nat \ {0}
  /\ MaxSessions \in Nat \ {0}
  /\ MaxGeneration \in Nat
  /\ PartialFills \in BOOLEAN
  /\ Faults \in BOOLEAN
  /\ Reconciling \in BOOLEAN

(* The executions of an order.                                             *)
Fills == {"partialFill", "finalFill"}

(* What a callback or the dispatching request handles: one broker event of *)
(* an order.                                                               *)
EventKinds == {"ackSubmitted", "ackFilled", "statusFilled", "statusCancelled"} \cup Fills

(* The events that change exposure invalidate the snapshot first.          *)
Invalidating == {"ackFilled", "statusFilled"} \cup Fills

TaskSteps == {"none", "invalidate", "mark", "apply", "refresh", "done"}

LoopSteps == {"idle", "begin", "fetch", "complete", "check", "read", "finalise"}

RowStatuses == {"ABSENT", "PROPOSED", "SUBMITTED", "FILLED", "CANCELLED"}

BrokerStates == {"NONE", "WORKING", "PARTIAL", "FILLED", "CANCELLED"}

(* A row of broker_snapshot_syncs.                                         *)
Snapshots == [session : 0..MaxSessions, complete : BOOLEAN, generation : Nat]

(* The refresh loop and the reconciliation run in flight.                  *)
Loops == [step : LoopSteps, gen : Nat, sawFlat : BOOLEAN,
          iteration : 0..(MaxIterations - 1), seen : Snapshots]

Runs == [step : {"idle", "capture"}, captured : SUBSET {"positions", "orders"},
         position : [Orders -> SUBSET Fills], orders : [Orders -> BrokerStates]]

VARIABLES
  row,      \* proposed_orders.status
  linked,   \* proposed_orders.broker_order_id is set
  releasedBy, \* history: what made the row FILLED
  order,    \* the broker's state of the order
  executed, \* the executions the broker has made
  persisted,\* the executions in broker_execution_fills
  task,     \* per order and event kind: what is left to do
  taskGen,  \* the generation the task's invalidation returned
  sync,     \* broker_snapshot_syncs: session, complete, generation
  flat,     \* broker_position_snapshots shows no position
  session,  \* EXECUTION_PROCESS_OWNER_ID of the running process
  loop,     \* the refresh loop in flight
  desired,  \* #desiredGeneration
  raced,    \* #invalidationVersion has moved since the loop took it
  health,   \* #health of the coordinator
  published,\* snapshotHealthByAccount, the health that /ready reports
  recon,    \* the reconciliation run in progress
  hold      \* an active position_mismatch hold on the instrument

rowVars    == <<row, linked, releasedBy>>
brokerVars == <<order, executed>>
taskVars   == <<task, taskGen>>
syncVars   == <<sync, flat>>
memoryVars == <<loop, desired, raced, health, published>>
reconVars  == <<recon, hold>>
vars == <<row, linked, releasedBy, order, executed, persisted, task, taskGen, sync, flat,
          session, loop, desired, raced, health, published, recon, hold>>

-----------------------------------------------------------------------------
Exposed == \E o \in Orders : executed[o] # {}

Active(o) == row[o] \in {"PROPOSED", "SUBMITTED"}

(* #runExposureGuard on the snapshot, as the INSERT and the claim see it.  *)
SnapshotTrusted == sync.complete /\ sync.session = session

(* The reconciliation gate: no run in progress, no active hold.            *)
GateOpen == recon.step = "idle" /\ ~hold

EntryAllowed ==
  /\ \A o \in Orders : ~Active(o)
  /\ GateOpen
  /\ SnapshotTrusted
  /\ flat

IdleLoop == [step |-> "idle", gen |-> 0, sawFlat |-> TRUE, iteration |-> 0,
             seen |-> [session |-> 0, complete |-> FALSE, generation |-> 0]]

IdleRun == [step |-> "idle", captured |-> {}, position |-> [o \in Orders |-> {}],
            orders |-> [o \in Orders |-> "NONE"]]

Init ==
  /\ row = [o \in Orders |-> "ABSENT"]
  /\ linked = [o \in Orders |-> FALSE]
  /\ releasedBy = [o \in Orders |-> "none"]
  /\ order = [o \in Orders |-> "NONE"]
  /\ executed = [o \in Orders |-> {}]
  /\ persisted = [o \in Orders |-> {}]
  /\ task = [o \in Orders |-> [k \in EventKinds |-> "none"]]
  /\ taskGen = [o \in Orders |-> [k \in EventKinds |-> 0]]
  /\ sync = [session |-> 0, complete |-> FALSE, generation |-> 0]
  /\ flat = TRUE
  /\ session = 1
  /\ loop = IdleLoop
  /\ desired = 0
  /\ raced = FALSE
  /\ health = "never"
  /\ published = "never"
  /\ recon = IdleRun
  /\ hold = FALSE

-----------------------------------------------------------------------------
(* Entries and the broker *)

(* A request passes the guards, claims its row and writes the order to the *)
(* broker; what can go wrong between the three is module Submission.       *)
Enter(o) ==
  /\ row[o] = "ABSENT"
  /\ EntryAllowed
  /\ row' = [row EXCEPT ![o] = "PROPOSED"]
  /\ order' = [order EXCEPT ![o] = "WORKING"]
  /\ UNCHANGED <<linked, releasedBy, executed, persisted, taskVars, syncVars, session,
                 memoryVars, reconVars>>

(* Mutation of FirstStep: callbacks write the row without invalidating.    *)
FirstStepUnfenced(k) == "apply"

FirstStep(k) == IF k \in Invalidating THEN "invalidate" ELSE "apply"

(* The listeners start a task per event.  An event that is lost with the   *)
(* connection is a task that fails in its first step.                      *)
Emit(o, kinds) ==
  task' = [task EXCEPT ![o] = [k \in EventKinds |->
            IF k \in kinds /\ task[o][k] = "none" THEN FirstStep(k) ELSE task[o][k]]]

BrokerMove(o, from, to, fills) ==
  /\ order[o] \in from
  /\ order' = [order EXCEPT ![o] = to]
  /\ executed' = [executed EXCEPT ![o] = @ \cup fills]
  /\ UNCHANGED <<rowVars, persisted, taskGen, syncVars, session, memoryVars, reconVars>>

(* No status of the order has reached the waiting request yet.             *)
Awaiting(o) ==
  /\ row[o] = "PROPOSED" /\ ~linked[o]
  /\ \A k \in {"ackSubmitted", "ackFilled"} : task[o][k] = "none"

BrokerAccept(o) ==
  /\ Awaiting(o)
  /\ BrokerMove(o, {"WORKING"}, "WORKING", {})
  /\ task' = [task EXCEPT ![o]["ackSubmitted"] = "apply"]

BrokerPartialFill(o) ==
  /\ PartialFills
  /\ BrokerMove(o, {"WORKING"}, "PARTIAL", {"partialFill"})
  /\ Emit(o, {"partialFill"})

BrokerFill(o) ==
  /\ BrokerMove(o, {"WORKING", "PARTIAL"}, "FILLED", {"finalFill"})
  /\ Emit(o, {"finalFill", "statusFilled"} \cup (IF Awaiting(o) THEN {"ackFilled"} ELSE {}))

BrokerCancel(o) ==
  /\ BrokerMove(o, {"WORKING", "PARTIAL"}, "CANCELLED", {})
  /\ Emit(o, {"statusCancelled"})

-----------------------------------------------------------------------------
(* The tasks: invalidate, mark the memory, write the row, ask for a refresh *)

TaskAt(o, k, s) == task[o][k] = s

TaskGoto(o, k, s) == task' = [task EXCEPT ![o][k] = s]

(* invalidatePositionSnapshot: under the account lock the snapshot becomes *)
(* incomplete and gets a new generation.                                   *)
Invalidate(o, k) ==
  /\ TaskAt(o, k, "invalidate")
  /\ TaskGoto(o, k, "mark")
  /\ sync' = [session |-> session, complete |-> FALSE, generation |-> sync.generation + 1]
  /\ taskGen' = [taskGen EXCEPT ![o][k] = sync.generation + 1]
  /\ UNCHANGED <<rowVars, brokerVars, persisted, flat, session, memoryVars, reconVars>>

(* The coordinator's health and the one of /ready close together.          *)
Marked == health' = "in_flight" /\ published' = "in_flight"

(* markSnapshotInvalidated, when the invalidation's promise continues.     *)
MarkInvalidated(o, k) ==
  /\ TaskAt(o, k, "mark")
  /\ TaskGoto(o, k, "apply")
  /\ desired' = IF taskGen[o][k] > desired THEN taskGen[o][k] ELSE desired
  /\ raced' = TRUE
  /\ taskGen' = [taskGen EXCEPT ![o][k] = 0]
  /\ Marked
  /\ UNCHANGED <<rowVars, brokerVars, persisted, syncVars, session, loop, reconVars>>

(* The row becomes FILLED and stops being an active intent.                *)
Release(o, by) ==
  /\ row' = [row EXCEPT ![o] = "FILLED"]
  /\ releasedBy' = [releasedBy EXCEPT ![o] = IF row[o] = "FILLED" THEN @ ELSE by]

ApplyDone(o, k) ==
  /\ TaskAt(o, k, "apply")
  /\ TaskGoto(o, k, IF k \in Invalidating THEN "refresh" ELSE "done")
  /\ UNCHANGED <<brokerVars, taskGen, syncVars, session, memoryVars, reconVars>>

(* The dispatching request's acknowledgement: markSubmitted ...             *)
MarkSubmitted(o) ==
  /\ ApplyDone(o, "ackSubmitted")
  /\ row' = [row EXCEPT ![o] = "SUBMITTED"]
  /\ linked' = [linked EXCEPT ![o] = TRUE]
  /\ UNCHANGED <<releasedBy, persisted>>

(* ... or markFilled after its own invalidation.                           *)
MarkFilled(o) ==
  /\ ApplyDone(o, "ackFilled")
  /\ Release(o, "callback")
  /\ linked' = [linked EXCEPT ![o] = TRUE]
  /\ UNCHANGED persisted

ApplyAcknowledgement(o) == MarkSubmitted(o) \/ MarkFilled(o)

(* The order-status callback: rows are matched by broker order id.         *)
StatusFilled(o) ==
  /\ ApplyDone(o, "statusFilled")
  /\ IF linked[o] THEN Release(o, "callback") ELSE UNCHANGED <<row, releasedBy>>
  /\ UNCHANGED <<linked, persisted>>

StatusCancelled(o) ==
  /\ ApplyDone(o, "statusCancelled")
  /\ row' = [row EXCEPT ![o] = IF linked[o] /\ @ # "FILLED" THEN "CANCELLED" ELSE @]
  /\ UNCHANGED <<linked, releasedBy, persisted>>

ApplyStatus(o) == StatusFilled(o) \/ StatusCancelled(o)

(* The execution callback: the fill is stored, and a row whose fills reach *)
(* its quantity becomes FILLED.                                            *)
ApplyFill(o, k) ==
  /\ k \in Fills
  /\ ApplyDone(o, k)
  /\ persisted' = [persisted EXCEPT ![o] = @ \cup {k}]
  /\ IF linked[o] /\ "finalFill" \in persisted'[o] /\ executed[o] = persisted'[o]
       THEN Release(o, "callback")
       ELSE UNCHANGED <<row, releasedBy>>
  /\ UNCHANGED linked

(* refresh(): coalesces onto the loop in flight or starts one.  What       *)
(* /ready reports is left alone until the loop is over.                    *)
StartLoop ==
  /\ loop' = IF loop.step # "idle" THEN loop
             ELSE [IdleLoop EXCEPT !.step = "begin"]
  /\ health' = "in_flight"
  /\ UNCHANGED published

AskRefresh(o, k) ==
  /\ TaskAt(o, k, "refresh")
  /\ TaskGoto(o, k, "done")
  /\ StartLoop
  /\ UNCHANGED <<rowVars, brokerVars, persisted, taskGen, syncVars, session, desired,
                 raced, reconVars>>

(* A call of the task throws; what is left of it does not happen.          *)
TaskFails(o, k) ==
  /\ Faults
  /\ task[o][k] \in {"invalidate", "apply"}
  /\ TaskGoto(o, k, "done")
  /\ UNCHANGED <<rowVars, brokerVars, persisted, taskGen, syncVars, session, memoryVars,
                 reconVars>>

-----------------------------------------------------------------------------
(* The refresh loop *)

LoopAt(s) == loop.step = s

LoopUnchanged == UNCHANGED <<rowVars, brokerVars, persisted, taskVars, session, reconVars>>

(* ensureBrokerSession, on every confirmation of the active account, kicks *)
(* off a refresh.                                                          *)
EnsureBrokerSession ==
  /\ LoopAt("idle")
  /\ sync.generation < MaxGeneration
  /\ StartLoop
  /\ UNCHANGED <<desired, raced, syncVars>>
  /\ LoopUnchanged

(* beginPositionSnapshotRefresh opens a new generation.                    *)
LoopBegin ==
  /\ LoopAt("begin")
  /\ sync' = [session |-> session, complete |-> FALSE, generation |-> sync.generation + 1]
  /\ loop' = [loop EXCEPT !.step = "fetch", !.gen = sync.generation + 1]
  /\ UNCHANGED <<flat, desired, raced, health, published>>
  /\ LoopUnchanged

(* The broker answers with the positions it holds now.                     *)
LoopFetch ==
  /\ LoopAt("fetch")
  /\ desired' = IF loop.gen > desired THEN loop.gen ELSE desired
  /\ loop' = [loop EXCEPT !.step = "complete", !.sawFlat = ~Exposed]
  /\ UNCHANGED <<raced, health, published, syncVars>>
  /\ LoopUnchanged

(* Mutation of LoopComplete: positions are written whatever the generation. *)
LoopCompleteUnfenced ==
  /\ LoopAt("complete")
  /\ loop' = [loop EXCEPT !.step = "check", !.gen = 0, !.sawFlat = TRUE]
  /\ sync' = [sync EXCEPT !.session = session, !.complete = TRUE]
  /\ flat' = loop.sawFlat
  /\ UNCHANGED <<desired, raced, health, published>>
  /\ LoopUnchanged

(* completePositionSnapshotRefresh: a newer generation makes this one's    *)
(* positions stale, and they are not written.                              *)
LoopComplete ==
  /\ LoopAt("complete")
  /\ loop' = [loop EXCEPT !.step = "check", !.gen = 0, !.sawFlat = TRUE]
  /\ IF sync.generation = loop.gen
       THEN /\ sync' = [sync EXCEPT !.session = session, !.complete = TRUE]
            /\ flat' = loop.sawFlat
       ELSE UNCHANGED syncVars
  /\ UNCHANGED <<desired, raced, health, published>>
  /\ LoopUnchanged

(* The invalidation version is taken before the status is read.            *)
LoopCheck ==
  /\ LoopAt("check")
  /\ loop' = [loop EXCEPT !.step = "read"]
  /\ raced' = FALSE
  /\ UNCHANGED <<desired, health, published, syncVars>>
  /\ LoopUnchanged

LoopRead ==
  /\ LoopAt("read")
  /\ loop' = [loop EXCEPT !.step = "finalise", !.seen = sync]
  /\ UNCHANGED <<desired, raced, health, published, syncVars>>
  /\ LoopUnchanged

(* Mutations of CanFinalise: neither fence is asked; the generation must be *)
(* above the desired one instead of reaching it.                           *)
CanFinaliseUnfenced == loop.seen.complete /\ loop.seen.session = session

CanFinaliseStrict ==
  loop.seen.complete /\ loop.seen.session = session /\ loop.seen.generation > desired /\ ~raced

CanFinalise ==
  /\ loop.seen.complete
  /\ loop.seen.session = session
  /\ loop.seen.generation >= desired
  /\ ~raced

(* The loop is over.  Whoever awaits refresh() copies the health for       *)
(* /ready, in jobs of the same turn of the event loop.                     *)
LoopEnds(kind) ==
  /\ loop' = IdleLoop
  /\ health' = kind
  /\ published' = kind

(* Healthy, another iteration, or exhausted.                               *)
LoopFinalise ==
  /\ LoopAt("finalise")
  /\ \/ CanFinalise /\ LoopEnds("healthy")
     \/ /\ ~CanFinalise /\ loop.iteration + 1 < MaxIterations
        /\ loop' = [IdleLoop EXCEPT !.step = "begin", !.iteration = loop.iteration + 1]
        /\ UNCHANGED <<health, published>>
     \/ ~CanFinalise /\ loop.iteration + 1 = MaxIterations /\ LoopEnds("failed")
  /\ UNCHANGED <<desired, raced, syncVars>>
  /\ LoopUnchanged

(* A call of the loop throws.                                              *)
LoopFails ==
  /\ Faults
  /\ loop.step \in {"begin", "fetch", "complete", "read"}
  /\ LoopEnds("failed")
  /\ UNCHANGED <<desired, raced, syncVars>>
  /\ LoopUnchanged

-----------------------------------------------------------------------------
(* Reconciliation, as far as it touches rows and holds *)

ReconStart ==
  /\ Reconciling
  /\ recon.step = "idle"
  /\ recon' = [IdleRun EXCEPT !.step = "capture"]
  /\ UNCHANGED <<rowVars, brokerVars, persisted, taskVars, syncVars, session, memoryVars, hold>>

(* The sources of a capture are read in parallel, at different moments.    *)
CapturePositions ==
  /\ recon.step = "capture" /\ "positions" \notin recon.captured
  /\ recon' = [recon EXCEPT !.captured = @ \cup {"positions"}, !.position = executed]
  /\ UNCHANGED <<rowVars, brokerVars, persisted, taskVars, syncVars, session, memoryVars, hold>>

(* The executions the broker reports on request run through the execution  *)
(* callback as well, so one that was missed starts its task again.         *)
CaptureOrders ==
  /\ recon.step = "capture" /\ "orders" \notin recon.captured
  /\ recon' = [recon EXCEPT !.captured = @ \cup {"orders"}, !.orders = order]
  /\ task' = [o \in Orders |-> [k \in EventKinds |->
                IF k \in executed[o] \ persisted[o] /\ task[o][k] \in {"none", "done"}
                  THEN "invalidate" ELSE task[o][k]]]
  /\ UNCHANGED <<rowVars, brokerVars, persisted, taskGen, syncVars, session, memoryVars, hold>>

(* What an ambiguous row becomes by the status of its matched order.       *)
FromBroker(s) == IF s \in {"FILLED", "CANCELLED"} THEN s ELSE "SUBMITTED"

(* publishResult: the position mismatch hold is set or cleared and the     *)
(* rows that are still PROPOSED follow the matched order.  The snapshot    *)
(* is not touched.                                                         *)
ReconPublish ==
  LET matched == {o \in Orders : row[o] = "PROPOSED" /\ recon.orders[o] # "NONE"} IN
  /\ recon.step = "capture" /\ recon.captured = {"positions", "orders"}
  /\ hold' = (recon.position # persisted)
  /\ row' = [o \in Orders |-> IF o \in matched THEN FromBroker(recon.orders[o]) ELSE row[o]]
  /\ linked' = [o \in Orders |-> linked[o] \/ o \in matched]
  /\ releasedBy' = [o \in Orders |->
                      IF row'[o] = "FILLED" /\ o \in matched THEN "reconciliation"
                                                           ELSE releasedBy[o]]
  /\ recon' = IdleRun
  /\ UNCHANGED <<brokerVars, persisted, taskVars, syncVars, session, memoryVars>>

-----------------------------------------------------------------------------
(* A crash loses tasks, the loop and the run in progress; the new process  *)
(* has a session of its own and does not trust the old one's snapshot.     *)
Crash ==
  /\ session < MaxSessions
  /\ session' = session + 1
  /\ task' = [o \in Orders |-> [k \in EventKinds |->
                IF task[o][k] = "none" THEN "none" ELSE "done"]]
  /\ taskGen' = [o \in Orders |-> [k \in EventKinds |-> 0]]
  /\ loop' = IdleLoop
  /\ desired' = 0
  /\ raced' = FALSE
  /\ health' = "never"
  /\ published' = "never"
  /\ recon' = IdleRun
  /\ UNCHANGED <<rowVars, brokerVars, persisted, syncVars, hold>>

TaskStep(o, k) ==
  \/ Invalidate(o, k) \/ MarkInvalidated(o, k) \/ ApplyFill(o, k) \/ AskRefresh(o, k)

Tasks ==
  \/ \E o \in Orders : ApplyAcknowledgement(o) \/ ApplyStatus(o)
  \/ \E o \in Orders, k \in EventKinds : TaskStep(o, k)

Loop == LoopBegin \/ LoopFetch \/ LoopComplete \/ LoopCheck \/ LoopRead \/ LoopFinalise

Next ==
  \/ \E o \in Orders : \/ Enter(o) \/ BrokerAccept(o) \/ BrokerPartialFill(o)
                       \/ BrokerFill(o) \/ BrokerCancel(o)
  \/ Tasks
  \/ \E o \in Orders, k \in EventKinds : TaskFails(o, k)
  \/ EnsureBrokerSession
  \/ Loop
  \/ LoopFails
  \/ ReconStart \/ CapturePositions \/ CaptureOrders \/ ReconPublish
  \/ Crash

Spec == Init /\ [][Next]_vars

(* Promises that are resolved continue: every started task and the loop in *)
(* flight go on.                                                           *)
FairSpec ==
  /\ Spec
  /\ \A o \in Orders : /\ WF_vars(ApplyAcknowledgement(o))
                        /\ WF_vars(ApplyStatus(o))
                        /\ \A k \in EventKinds : WF_vars(TaskStep(o, k))
  /\ WF_vars(Loop)

-----------------------------------------------------------------------------
(* Properties *)

(* Every variable keeps its type.                                          *)
TypeOK ==
  /\ row \in [Orders -> RowStatuses]
  /\ linked \in [Orders -> BOOLEAN]
  /\ releasedBy \in [Orders -> {"none", "callback", "reconciliation"}]
  /\ order \in [Orders -> BrokerStates]
  /\ executed \in [Orders -> SUBSET Fills]
  /\ persisted \in [Orders -> SUBSET Fills]
  /\ task \in [Orders -> [EventKinds -> TaskSteps]]
  /\ taskGen \in [Orders -> [EventKinds -> Nat]]
  /\ sync \in Snapshots
  /\ flat \in BOOLEAN
  /\ session \in 1..MaxSessions
  /\ loop \in Loops
  /\ desired \in Nat /\ raced \in BOOLEAN
  /\ {health, published} \subseteq {"never", "in_flight", "healthy", "failed"}
  /\ recon \in Runs
  /\ hold \in BOOLEAN

(* Once a callback or an acknowledgement has made a row FILLED, so that it *)
(* no longer blocks its instrument, no trusted snapshot shows the account  *)
(* flat: not one whose fetch was older than the fill, not one of an older  *)
(* process, and whichever of the callbacks, refreshes and failures         *)
(* overtook the others.  The types are checked with it.                    *)
CallbackReleaseIsFenced ==
  /\ TypeOK
  /\ \A o \in Orders :
    (row[o] = "FILLED" /\ releasedBy[o] = "callback") => ~(SnapshotTrusted /\ flat)

(* A new entry is let through only while the broker holds no position on   *)
(* the instrument and works no order of it.  The status callback promises  *)
(* it by not invalidating for a status that is not FILLED ("they do not    *)
(* release exposure"); a cancellation after a partial fill does.           *)
EntryGuardSeesExposure ==
  EntryAllowed => ~Exposed /\ \A o \in Orders : order[o] \notin {"WORKING", "PARTIAL"}

(* The same fence for a row that reconciliation made FILLED, once the run  *)
(* is over and left no hold.  invalidatePositionSnapshot's comment claims  *)
(* it ("Awaited by the ... reconciliation code paths").                    *)
ReconciliationReleaseIsFenced ==
  \A o \in Orders :
    (row[o] = "FILLED" /\ releasedBy[o] = "reconciliation" /\ GateOpen)
      => ~(SnapshotTrusted /\ flat)

(* The coordinator's health is never healthy over a snapshot that is       *)
(* incomplete or another process's, except in the moment between an        *)
(* invalidation's commit and its mark in memory.  /ready reads a copy: it  *)
(* may also say healthy while a refresh is under way, but never when the   *)
(* stored positions lack a fill whose callback has released its row.       *)
HealthyMeansTrusted ==
  LET invalidating == \E o \in Orders, k \in EventKinds : task[o][k] = "mark" IN
  /\ health = "healthy" => SnapshotTrusted \/ invalidating
  /\ published = "healthy" =>
       /\ SnapshotTrusted \/ invalidating \/ loop.step # "idle"
       /\ flat => \A o \in Orders : ~(row[o] = "FILLED" /\ releasedBy[o] = "callback")

(* Every invalidation is answered: while calls do not fail, the coordinator *)
(* is healthy again after the last callback asked for its refresh, however  *)
(* callbacks and the loop in flight overlap.                                *)
RefreshConverges == (health = "in_flight") ~> (health = "healthy")
=============================================================================
