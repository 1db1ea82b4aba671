------------------------ MODULE ExposureFence_proof ------------------------
(***************************************************************************)
(* Proofs about ExposureFence for every set of orders, every bound and     *)
(* every number of restarts.                                               *)
(*                                                                         *)
(* The fence holds through the generation: an invalidation leaves behind   *)
(* every refresh that is under way (GenerationInv), so a refresh can       *)
(* complete the snapshot only with positions fetched after it, and those   *)
(* show the exposure that the invalidation announced (TaskInv).  A task    *)
(* past its invalidation therefore finds its order fenced, and what it     *)
(* releases stays fenced (FencedInv, ReleaseInv).  The health is a second  *)
(* fence, in memory: a loop that is about to report healthy has read the   *)
(* snapshot there is, or an invalidation moved the version since, or is    *)
(* about to (HealthInv).  What /ready reports is a copy that outlives the  *)
(* loop's start; the positions it was copied over show every fill that a   *)
(* callback has reported (PublishedInv).                                   *)
(***************************************************************************)
EXTENDS ExposureFence, TLAPS

(* No snapshot is of a process to come; no refresh is of a generation to   *)
(* come.                                                                   *)
GenerationInv ==
  /\ sync.session <= session
  /\ loop.gen <= sync.generation

(* What a task announces has happened at the broker.                       *)
TaskInv ==
  \A o \in Orders, k \in Invalidating : task[o][k] # "none" => executed[o] # {}

(* The order has executions, the snapshot does not deny them, and neither  *)
(* do the positions a refresh is about to write.                           *)
Fenced(o) ==
  /\ executed[o] # {}
  /\ ~(SnapshotTrusted /\ flat)
  /\ loop.step = "complete" /\ loop.gen = sync.generation => ~loop.sawFlat

(* A task that has invalidated has fenced its order ...                    *)
FencedInv ==
  \A o \in Orders, k \in Invalidating :
    task[o][k] \in {"mark", "apply", "refresh"} => Fenced(o)

(* ... and the row it releases stays fenced when the task is over.         *)
ReleaseInv ==
  \A o \in Orders : row[o] = "FILLED" /\ releasedBy[o] = "callback" => Fenced(o)

(* An invalidation has committed and is not marked in memory yet.          *)
MarkPending == \E o \in Orders, k \in EventKinds : task[o][k] = "mark"

(* Nothing refreshes while the coordinator is healthy, and the status that *)
(* is about to make it healthy is still the one in the database.           *)
HealthInv ==
  /\ health = "healthy" => loop.step = "idle" /\ (SnapshotTrusted \/ MarkPending)
  /\ loop.step = "finalise" => loop.seen = sync \/ raced \/ MarkPending

(* A callback of the order is past its mark, or has released the row.      *)
Reported(o) ==
  \/ row[o] = "FILLED" /\ releasedBy[o] = "callback"
  \/ \E k \in Invalidating : task[o][k] \in {"apply", "refresh"}

PositionsShowReported == \A o \in Orders : Reported(o) => ~flat

(* While /ready says healthy a loop runs or the coordinator says the same, *)
(* and the stored positions show what is reported; so they do for a loop   *)
(* that is about to say healthy.                                           *)
PublishedInv ==
  /\ published = "healthy" => (health = "healthy" \/ loop.step # "idle") /\ PositionsShowReported
  /\ loop.step = "finalise" /\ loop.seen.complete /\ loop.seen.session = session /\ ~raced
       => PositionsShowReported

(* The inductive invariant.                                                *)
Inv ==
  /\ TypeOK
  /\ GenerationInv
  /\ TaskInv
  /\ FencedInv
  /\ ReleaseInv
  /\ HealthInv
  /\ PublishedInv

(* An order that no step reports anew is covered as before.                *)
LEMMA PublishedKept ==
  ASSUME PublishedInv, UNCHANGED <<flat, session, loop, raced, health, published>>,
         \A o \in Orders : Reported(o)' => Reported(o)
  PROVE  PublishedInv'
  BY DEF PublishedInv, PositionsShowReported

(* What a task's step leaves of the others.                                *)
LEMMA ApplyDoneMoves ==
  ASSUME TypeOK, NEW o \in Orders, NEW k \in EventKinds, ApplyDone(o, k)
  PROVE  /\ task[o][k] = "apply"
         /\ task' \in [Orders -> [EventKinds -> TaskSteps]]
         /\ \A p \in Orders, j \in EventKinds :
               task'[p][j] = IF p = o /\ j = k
                               THEN IF k \in Invalidating THEN "refresh" ELSE "done"
                               ELSE task[p][j]
  BY DEF TypeOK, ApplyDone, TaskAt, TaskGoto, TaskSteps

(* The kinds that invalidate are kinds.                                   *)
LEMMA InvalidatingKinds == Invalidating \subseteq EventKinds
  BY DEF Invalidating, EventKinds, Fills

(* An idle loop is a loop.                                                 *)
LEMMA IdleLoopType ==
  /\ IdleLoop \in Loops
  /\ [IdleLoop EXCEPT !.step = "begin"] \in Loops
<1>1. 0 \in 0..(MaxIterations - 1) /\ 0 \in 0..MaxSessions
  BY FenceAssumption
<1>2. IdleLoop.seen \in Snapshots
  BY <1>1 DEF IdleLoop, Snapshots
<1>. QED  BY <1>1, <1>2 DEF IdleLoop, Loops, LoopSteps

(* The initial state.                                                      *)
LEMMA InitInv == Init => Inv
<1> SUFFICES ASSUME Init PROVE Inv
  OBVIOUS
<1>1. TypeOK
  <2>1. loop \in Loops
    BY IdleLoopType DEF Init
  <2>2. recon \in Runs
    BY DEF Init, IdleRun, Runs, BrokerStates, Fills
  <2>3. sync \in Snapshots /\ session \in 1..MaxSessions
    BY FenceAssumption DEF Init, Snapshots
  <2>4. /\ task \in [Orders -> [EventKinds -> TaskSteps]]
        /\ taskGen \in [Orders -> [EventKinds -> Nat]]
    BY DEF Init, TaskSteps
  <2>. QED
    BY <2>1, <2>2, <2>3, <2>4 DEF Init, TypeOK, RowStatuses, BrokerStates, Fills
<1>2. GenerationInv
  BY DEF Init, TypeOK, Loops, Snapshots, GenerationInv, IdleLoop, Fills,
    EventKinds, IdleRun
<1>3. TaskInv
  BY DEF Init, TypeOK, TaskInv, Invalidating, EventKinds, Fills, IdleLoop,
    IdleRun, Snapshots
<1>4. FencedInv
  BY DEF Init, TypeOK, Loops, Snapshots, GenerationInv, TaskInv, FencedInv,
    Fenced, SnapshotTrusted, Invalidating, EventKinds, Fills, IdleLoop,
    IdleRun
<1>5. ReleaseInv
  BY DEF Init, TypeOK, Loops, Snapshots, GenerationInv, FencedInv, ReleaseInv,
    Fenced, SnapshotTrusted, Invalidating, EventKinds, Fills, IdleLoop,
    IdleRun
<1>6. HealthInv
  BY DEF Init, TypeOK, Loops, Snapshots, HealthInv, MarkPending,
    SnapshotTrusted, EventKinds, Fills, IdleLoop, IdleRun
<1>7. PublishedInv
  BY DEF Init, PublishedInv, PositionsShowReported, IdleLoop
<1>. QED  BY <1>1, <1>2, <1>3, <1>4, <1>5, <1>6, <1>7 DEF Inv

(* A new entry touches neither tasks nor snapshot.                         *)
LEMMA EnterKeepsInv ==
  ASSUME Inv, NEW o \in Orders, Enter(o)
  PROVE  Inv'
<1>1. TypeOK'
  BY FenceAssumption DEF Inv, Enter, taskVars, syncVars, memoryVars,
    reconVars, TypeOK, RowStatuses, BrokerStates, TaskSteps, EventKinds, Fills
<1>2. GenerationInv'
  BY DEF Inv, Enter, syncVars, memoryVars, TypeOK, Loops, Snapshots,
    GenerationInv
<1>3. TaskInv'
  BY DEF Inv, Enter, taskVars, TypeOK, TaskInv, Invalidating, EventKinds,
    Fills
<1>4. FencedInv'
  BY DEF Inv, Enter, taskVars, syncVars, memoryVars, TypeOK, Loops, Snapshots,
    GenerationInv, TaskInv, FencedInv, Fenced, SnapshotTrusted, Invalidating,
    EventKinds, Fills
<1>5. ReleaseInv'
  BY DEF Inv, Enter, syncVars, memoryVars, TypeOK, Loops, Snapshots,
    GenerationInv, FencedInv, ReleaseInv, Fenced, SnapshotTrusted,
    Invalidating, EventKinds, Fills
<1>6. HealthInv'
  BY DEF Inv, Enter, taskVars, syncVars, memoryVars, TypeOK, Loops, Snapshots,
    HealthInv, MarkPending, SnapshotTrusted, EventKinds, Fills
<1>7. PublishedInv'
  <2>1. \A p \in Orders : Reported(p)' => Reported(p)
    BY DEF Inv, Enter, taskVars, TypeOK, Reported, Invalidating,
      EventKinds, Fills
  <2>. QED
    BY <2>1, PublishedKept DEF Inv, Enter, syncVars, memoryVars
<1>. QED  BY <1>1, <1>2, <1>3, <1>4, <1>5, <1>6, <1>7 DEF Inv

(* The broker accepts; only a first acknowledgement is started.            *)
LEMMA BrokerAcceptKeepsInv ==
  ASSUME Inv, NEW o \in Orders, BrokerAccept(o)
  PROVE  Inv'
<1>1. TypeOK'
  BY FenceAssumption DEF Inv, BrokerAccept, BrokerMove, Awaiting, rowVars,
    syncVars, memoryVars, reconVars, TypeOK, RowStatuses, BrokerStates,
    TaskSteps, EventKinds, Fills
<1>2. GenerationInv'
  BY DEF Inv, BrokerAccept, BrokerMove, Awaiting, syncVars, memoryVars,
    TypeOK, Loops, Snapshots, GenerationInv
<1>3. TaskInv'
  BY DEF Inv, BrokerAccept, BrokerMove, Awaiting, TypeOK, TaskInv,
    Invalidating, EventKinds, Fills
<1>4. FencedInv'
  BY DEF Inv, BrokerAccept, BrokerMove, Awaiting, syncVars, memoryVars,
    TypeOK, Loops, Snapshots, GenerationInv, TaskInv, FencedInv, Fenced,
    SnapshotTrusted, Invalidating, EventKinds, Fills
<1>5. ReleaseInv'
  BY DEF Inv, BrokerAccept, BrokerMove, Awaiting, rowVars, syncVars,
    memoryVars, TypeOK, Loops, Snapshots, GenerationInv, FencedInv,
    ReleaseInv, Fenced, SnapshotTrusted, Invalidating, EventKinds, Fills
<1>6. HealthInv'
  BY DEF Inv, BrokerAccept, BrokerMove, Awaiting, syncVars, memoryVars,
    TypeOK, Loops, Snapshots, HealthInv, MarkPending, SnapshotTrusted,
    EventKinds, Fills
<1>7. PublishedInv'
  <2>1. \A p \in Orders : Reported(p)' => Reported(p)
    BY DEF Inv, BrokerAccept, BrokerMove, Awaiting, rowVars, TypeOK,
      Reported, Invalidating, EventKinds, Fills
  <2>. QED
    BY <2>1, PublishedKept DEF Inv, BrokerAccept, BrokerMove, Awaiting,
      syncVars, memoryVars
<1>. QED  BY <1>1, <1>2, <1>3, <1>4, <1>5, <1>6, <1>7 DEF Inv

(* A fill is executed before its task starts (TaskInv).                    *)
LEMMA BrokerPartialFillKeepsInv ==
  ASSUME Inv, NEW o \in Orders, BrokerPartialFill(o)
  PROVE  Inv'
<1>1. TypeOK'
  BY FenceAssumption DEF Inv, BrokerPartialFill, BrokerMove, Emit, FirstStep,
    rowVars, syncVars, memoryVars, reconVars, TypeOK, RowStatuses,
    BrokerStates, TaskSteps, EventKinds, Fills
<1>2. GenerationInv'
  BY DEF Inv, BrokerPartialFill, BrokerMove, Emit, FirstStep, syncVars,
    memoryVars, TypeOK, Loops, Snapshots, GenerationInv
<1>3. TaskInv'
  BY DEF Inv, BrokerPartialFill, BrokerMove, Emit, FirstStep, TypeOK, TaskInv,
    Invalidating, EventKinds, Fills
<1>4. FencedInv'
  BY DEF Inv, BrokerPartialFill, BrokerMove, Emit, FirstStep, syncVars,
    memoryVars, TypeOK, Loops, Snapshots, GenerationInv, TaskInv, FencedInv,
    Fenced, SnapshotTrusted, Invalidating, EventKinds, Fills
<1>5. ReleaseInv'
  BY DEF Inv, BrokerPartialFill, BrokerMove, Emit, FirstStep, rowVars,
    syncVars, memoryVars, TypeOK, Loops, Snapshots, GenerationInv, FencedInv,
    ReleaseInv, Fenced, SnapshotTrusted, Invalidating, EventKinds, Fills
<1>6. HealthInv'
  BY DEF Inv, BrokerPartialFill, BrokerMove, Emit, FirstStep, syncVars,
    memoryVars, TypeOK, Loops, Snapshots, HealthInv, MarkPending,
    SnapshotTrusted, EventKinds, Fills
<1>7. PublishedInv'
  <2>1. \A p \in Orders : Reported(p)' => Reported(p)
    BY DEF Inv, BrokerPartialFill, BrokerMove, Emit, FirstStep, rowVars,
      TypeOK, Reported, Invalidating, EventKinds, Fills
  <2>. QED
    BY <2>1, PublishedKept DEF Inv, BrokerPartialFill, BrokerMove, Emit,
      FirstStep, syncVars, memoryVars
<1>. QED  BY <1>1, <1>2, <1>3, <1>4, <1>5, <1>6, <1>7 DEF Inv

(* Likewise for the last fill and the statuses that report it.             *)
LEMMA BrokerFillKeepsInv ==
  ASSUME Inv, NEW o \in Orders, BrokerFill(o)
  PROVE  Inv'
<1>1. TypeOK'
  BY FenceAssumption DEF Inv, BrokerFill, BrokerMove, Emit, FirstStep,
    Awaiting, rowVars, syncVars, memoryVars, reconVars, TypeOK, RowStatuses,
    BrokerStates, TaskSteps, EventKinds, Fills
<1>2. GenerationInv'
  BY DEF Inv, BrokerFill, BrokerMove, Emit, FirstStep, Awaiting, syncVars,
    memoryVars, TypeOK, Loops, Snapshots, GenerationInv
<1>3. TaskInv'
  BY DEF Inv, BrokerFill, BrokerMove, Emit, FirstStep, Awaiting, TypeOK,
    TaskInv, Invalidating, EventKinds, Fills
<1>4. FencedInv'
  BY DEF Inv, BrokerFill, BrokerMove, Emit, FirstStep, Awaiting, syncVars,
    memoryVars, TypeOK, Loops, Snapshots, GenerationInv, TaskInv, FencedInv,
    Fenced, SnapshotTrusted, Invalidating, EventKinds, Fills
<1>5. ReleaseInv'
  BY DEF Inv, BrokerFill, BrokerMove, Emit, FirstStep, Awaiting, rowVars,
    syncVars, memoryVars, TypeOK, Loops, Snapshots, GenerationInv, FencedInv,
    ReleaseInv, Fenced, SnapshotTrusted, Invalidating, EventKinds, Fills
<1>6. HealthInv'
  BY DEF Inv, BrokerFill, BrokerMove, Emit, FirstStep, Awaiting, syncVars,
    memoryVars, TypeOK, Loops, Snapshots, HealthInv, MarkPending,
    SnapshotTrusted, EventKinds, Fills
<1>7. PublishedInv'
  <2>1. \A p \in Orders : Reported(p)' => Reported(p)
    BY DEF Inv, BrokerFill, BrokerMove, Emit, FirstStep, Awaiting,
      rowVars, TypeOK, Reported, Invalidating, EventKinds, Fills
  <2>. QED
    BY <2>1, PublishedKept DEF Inv, BrokerFill, BrokerMove, Emit,
      FirstStep, Awaiting, syncVars, memoryVars
<1>. QED  BY <1>1, <1>2, <1>3, <1>4, <1>5, <1>6, <1>7 DEF Inv

(* A cancellation starts no invalidating task.                             *)
LEMMA BrokerCancelKeepsInv ==
  ASSUME Inv, NEW o \in Orders, BrokerCancel(o)
  PROVE  Inv'
<1>1. TypeOK'
  BY FenceAssumption DEF Inv, BrokerCancel, BrokerMove, Emit, FirstStep,
    rowVars, syncVars, memoryVars, reconVars, TypeOK, RowStatuses,
    BrokerStates, TaskSteps, EventKinds, Fills
<1>2. GenerationInv'
  BY DEF Inv, BrokerCancel, BrokerMove, Emit, FirstStep, syncVars, memoryVars,
    TypeOK, Loops, Snapshots, GenerationInv
<1>3. TaskInv'
  BY DEF Inv, BrokerCancel, BrokerMove, Emit, FirstStep, TypeOK, TaskInv,
    Invalidating, EventKinds, Fills
<1>4. FencedInv'
  BY DEF Inv, BrokerCancel, BrokerMove, Emit, FirstStep, syncVars, memoryVars,
    TypeOK, Loops, Snapshots, GenerationInv, TaskInv, FencedInv, Fenced,
    SnapshotTrusted, Invalidating, EventKinds, Fills
<1>5. ReleaseInv'
  BY DEF Inv, BrokerCancel, BrokerMove, Emit, FirstStep, rowVars, syncVars,
    memoryVars, TypeOK, Loops, Snapshots, GenerationInv, FencedInv,
    ReleaseInv, Fenced, SnapshotTrusted, Invalidating, EventKinds, Fills
<1>6. HealthInv'
  BY DEF Inv, BrokerCancel, BrokerMove, Emit, FirstStep, syncVars, memoryVars,
    TypeOK, Loops, Snapshots, HealthInv, MarkPending, SnapshotTrusted,
    EventKinds, Fills
<1>7. PublishedInv'
  <2>1. \A p \in Orders : Reported(p)' => Reported(p)
    BY DEF Inv, BrokerCancel, BrokerMove, Emit, FirstStep, rowVars,
      TypeOK, Reported, Invalidating, EventKinds, Fills
  <2>. QED
    BY <2>1, PublishedKept DEF Inv, BrokerCancel, BrokerMove, Emit,
      FirstStep, syncVars, memoryVars
<1>. QED  BY <1>1, <1>2, <1>3, <1>4, <1>5, <1>6, <1>7 DEF Inv

(* The invalidation fences its order: the snapshot is incomplete and every *)
(* refresh under way is of an older generation (GenerationInv).            *)
LEMMA InvalidateKeepsInv ==
  ASSUME Inv, NEW o \in Orders, NEW k \in EventKinds, Invalidate(o, k)
  PROVE  Inv'
<1>1. TypeOK'
  <2>1. sync.generation + 1 \in Nat /\ session \in 0..MaxSessions
    BY FenceAssumption DEF Inv, TypeOK, Snapshots
  <2>2. sync' \in Snapshots
    BY <2>1 DEF Invalidate, Snapshots
  <2>3. /\ task' \in [Orders -> [EventKinds -> TaskSteps]]
        /\ taskGen' \in [Orders -> [EventKinds -> Nat]]
    BY <2>1 DEF Inv, Invalidate, TaskGoto, TypeOK, TaskSteps
  <2>. QED
    BY <2>2, <2>3 DEF Inv, Invalidate, TypeOK, rowVars, brokerVars, memoryVars, reconVars
<1>2. GenerationInv'
  BY DEF Inv, Invalidate, TaskAt, TaskGoto, memoryVars, TypeOK, Loops,
    Snapshots, GenerationInv
<1>3. TaskInv'
  BY DEF Inv, Invalidate, TaskAt, TaskGoto, brokerVars, TypeOK, TaskInv,
    Invalidating, EventKinds, Fills
<1>4. FencedInv'
  <2>1. \A p \in Orders : executed[p] # {} => Fenced(p)'
    BY DEF Inv, Invalidate, TypeOK, Snapshots, Loops, GenerationInv, Fenced, SnapshotTrusted,
      brokerVars, memoryVars
  <2>2. \A p \in Orders, j \in EventKinds :
          task'[p][j] # "none" => task[p][j] # "none"
    BY DEF Inv, Invalidate, TaskAt, TaskGoto, TypeOK
  <2>. QED
    BY <2>1, <2>2 DEF Inv, TaskInv, FencedInv, Invalidating, EventKinds, Fills
<1>5. ReleaseInv'
  BY DEF Inv, Invalidate, TaskAt, TaskGoto, rowVars, brokerVars, memoryVars,
    TypeOK, Loops, Snapshots, GenerationInv, FencedInv, ReleaseInv, Fenced,
    SnapshotTrusted, Invalidating, EventKinds, Fills
<1>6. HealthInv'
  BY DEF Inv, Invalidate, TaskAt, TaskGoto, memoryVars, TypeOK, Loops,
    Snapshots, HealthInv, MarkPending, SnapshotTrusted, EventKinds, Fills
<1>7. PublishedInv'
  <2>1. \A p \in Orders : Reported(p)' => Reported(p)
    BY DEF Inv, Invalidate, TaskAt, TaskGoto, rowVars, TypeOK, Reported,
      Invalidating, EventKinds, Fills
  <2>. QED
    BY <2>1, PublishedKept DEF Inv, Invalidate, TaskAt, TaskGoto,
      syncVars, memoryVars
<1>. QED  BY <1>1, <1>2, <1>3, <1>4, <1>5, <1>6, <1>7 DEF Inv

(* The mark takes the place of MarkPending by moving the version.          *)
LEMMA MarkInvalidatedKeepsInv ==
  ASSUME Inv, NEW o \in Orders, NEW k \in EventKinds, MarkInvalidated(o, k)
  PROVE  Inv'
<1>1. TypeOK'
  BY FenceAssumption DEF Inv, MarkInvalidated, Marked, TaskAt, TaskGoto, rowVars,
    brokerVars, syncVars, reconVars, TypeOK, RowStatuses, BrokerStates,
    TaskSteps, EventKinds, Fills
<1>2. GenerationInv'
  BY DEF Inv, MarkInvalidated, Marked, TaskAt, TaskGoto, syncVars, TypeOK, Loops,
    Snapshots, GenerationInv
<1>3. TaskInv'
  BY DEF Inv, MarkInvalidated, Marked, TaskAt, TaskGoto, brokerVars, TypeOK, TaskInv,
    Invalidating, EventKinds, Fills
<1>4. FencedInv'
  BY DEF Inv, MarkInvalidated, Marked, TaskAt, TaskGoto, brokerVars, syncVars, TypeOK,
    Loops, Snapshots, GenerationInv, TaskInv, FencedInv, Fenced,
    SnapshotTrusted, Invalidating, EventKinds, Fills
<1>5. ReleaseInv'
  BY DEF Inv, MarkInvalidated, Marked, TaskAt, TaskGoto, rowVars, brokerVars,
    syncVars, TypeOK, Loops, Snapshots, GenerationInv, FencedInv, ReleaseInv,
    Fenced, SnapshotTrusted, Invalidating, EventKinds, Fills
<1>6. HealthInv'
  BY DEF Inv, MarkInvalidated, Marked, TaskAt, TaskGoto, syncVars, TypeOK, Loops,
    Snapshots, HealthInv, MarkPending, SnapshotTrusted, EventKinds, Fills
<1>7. PublishedInv'
  BY DEF MarkInvalidated, Marked, PublishedInv, PositionsShowReported
<1>. QED  BY <1>1, <1>2, <1>3, <1>4, <1>5, <1>6, <1>7 DEF Inv

(* An acknowledgement that is not a fill releases nothing.                 *)
LEMMA MarkSubmittedKeepsInv ==
  ASSUME Inv, NEW o \in Orders, MarkSubmitted(o)
  PROVE  Inv'
<1>moves.
      /\ task[o]["ackSubmitted"] = "apply"
      /\ task' \in [Orders -> [EventKinds -> TaskSteps]]
      /\ \A p \in Orders, j \in EventKinds :
            task'[p][j] = IF p = o /\ j = "ackSubmitted"
                            THEN IF "ackSubmitted" \in Invalidating THEN "refresh" ELSE "done"
                            ELSE task[p][j]
  BY ApplyDoneMoves DEF Inv, MarkSubmitted, EventKinds, Fills
<1>fenced. \A p \in Orders : Fenced(p) => Fenced(p)'
  BY DEF MarkSubmitted, ApplyDone, Fenced, SnapshotTrusted, brokerVars,
    syncVars, memoryVars
<1>pending. MarkPending => MarkPending'
  BY <1>moves DEF MarkPending
<1>1. TypeOK'
  BY <1>moves, FenceAssumption DEF Inv, MarkSubmitted, ApplyDone, brokerVars,
    syncVars, memoryVars, reconVars, TypeOK, RowStatuses, BrokerStates,
    TaskSteps, EventKinds, Fills
<1>2. GenerationInv'
  BY <1>moves DEF Inv, MarkSubmitted, ApplyDone, syncVars, memoryVars, TypeOK,
    Loops, Snapshots, GenerationInv
<1>3. TaskInv'
  BY <1>moves, InvalidatingKinds DEF Inv, MarkSubmitted, ApplyDone, brokerVars, TaskInv
<1>4. FencedInv'
  BY <1>moves, <1>fenced DEF Inv, FencedInv, Invalidating, EventKinds, Fills
<1>5. ReleaseInv'
  BY <1>moves, <1>fenced DEF Inv, MarkSubmitted, ApplyDone, TypeOK,
    ReleaseInv, FencedInv, Invalidating, EventKinds, Fills
<1>6. HealthInv'
  BY <1>pending DEF Inv, MarkSubmitted, ApplyDone, HealthInv, SnapshotTrusted,
    syncVars, memoryVars
<1>7. PublishedInv'
  <2>1. \A p \in Orders : Reported(p)' => Reported(p)
    BY <1>moves DEF Inv, MarkSubmitted, Release, TypeOK, Reported,
      Invalidating, EventKinds, Fills
  <2>. QED
    BY <2>1, PublishedKept DEF Inv, MarkSubmitted, ApplyDone, syncVars,
      memoryVars
<1>. QED  BY <1>1, <1>2, <1>3, <1>4, <1>5, <1>6, <1>7 DEF Inv

(* A filled acknowledgement releases a row its task has fenced.            *)
LEMMA MarkFilledKeepsInv ==
  ASSUME Inv, NEW o \in Orders, MarkFilled(o)
  PROVE  Inv'
<1>moves.
      /\ task[o]["ackFilled"] = "apply"
      /\ task' \in [Orders -> [EventKinds -> TaskSteps]]
      /\ \A p \in Orders, j \in EventKinds :
            task'[p][j] = IF p = o /\ j = "ackFilled"
                            THEN IF "ackFilled" \in Invalidating THEN "refresh" ELSE "done"
                            ELSE task[p][j]
  BY ApplyDoneMoves DEF Inv, MarkFilled, EventKinds, Fills
<1>fenced. \A p \in Orders : Fenced(p) => Fenced(p)'
  BY DEF MarkFilled, ApplyDone, Fenced, SnapshotTrusted, brokerVars, syncVars,
    memoryVars
<1>pending. MarkPending => MarkPending'
  BY <1>moves DEF MarkPending
<1>1. TypeOK'
  BY <1>moves, FenceAssumption DEF Inv, MarkFilled, ApplyDone, Release,
    brokerVars, syncVars, memoryVars, reconVars, TypeOK, RowStatuses,
    BrokerStates, TaskSteps, EventKinds, Fills
<1>2. GenerationInv'
  BY <1>moves DEF Inv, MarkFilled, ApplyDone, Release, syncVars, memoryVars,
    TypeOK, Loops, Snapshots, GenerationInv
<1>3. TaskInv'
  BY <1>moves, InvalidatingKinds DEF Inv, MarkFilled, ApplyDone, brokerVars, TaskInv
<1>4. FencedInv'
  BY <1>moves, <1>fenced DEF Inv, FencedInv, Invalidating, EventKinds, Fills
<1>5. ReleaseInv'
  BY <1>moves, <1>fenced DEF Inv, MarkFilled, ApplyDone, Release, TypeOK,
    ReleaseInv, FencedInv, Invalidating, EventKinds, Fills
<1>6. HealthInv'
  BY <1>pending DEF Inv, MarkFilled, ApplyDone, HealthInv, SnapshotTrusted,
    syncVars, memoryVars
<1>7. PublishedInv'
  <2>1. \A p \in Orders : Reported(p)' => Reported(p)
    BY <1>moves DEF Inv, MarkFilled, Release, TypeOK, Reported,
      Invalidating, EventKinds, Fills
  <2>. QED
    BY <2>1, PublishedKept DEF Inv, MarkFilled, ApplyDone, syncVars,
      memoryVars
<1>. QED  BY <1>1, <1>2, <1>3, <1>4, <1>5, <1>6, <1>7 DEF Inv

(* So does a FILLED status.                                                *)
LEMMA StatusFilledKeepsInv ==
  ASSUME Inv, NEW o \in Orders, StatusFilled(o)
  PROVE  Inv'
<1>moves.
      /\ task[o]["statusFilled"] = "apply"
      /\ task' \in [Orders -> [EventKinds -> TaskSteps]]
      /\ \A p \in Orders, j \in EventKinds :
            task'[p][j] = IF p = o /\ j = "statusFilled"
                            THEN IF "statusFilled" \in Invalidating THEN "refresh" ELSE "done"
                            ELSE task[p][j]
  BY ApplyDoneMoves DEF Inv, StatusFilled, EventKinds, Fills
<1>fenced. \A p \in Orders : Fenced(p) => Fenced(p)'
  BY DEF StatusFilled, ApplyDone, Fenced, SnapshotTrusted, brokerVars,
    syncVars, memoryVars
<1>pending. MarkPending => MarkPending'
  BY <1>moves DEF MarkPending
<1>1. TypeOK'
  BY <1>moves, FenceAssumption DEF Inv, StatusFilled, ApplyDone, Release,
    brokerVars, syncVars, memoryVars, reconVars, TypeOK, RowStatuses,
    BrokerStates, TaskSteps, EventKinds, Fills
<1>2. GenerationInv'
  BY <1>moves DEF Inv, StatusFilled, ApplyDone, Release, syncVars, memoryVars,
    TypeOK, Loops, Snapshots, GenerationInv
<1>3. TaskInv'
  BY <1>moves, InvalidatingKinds DEF Inv, StatusFilled, ApplyDone, brokerVars, TaskInv
<1>4. FencedInv'
  BY <1>moves, <1>fenced DEF Inv, FencedInv, Invalidating, EventKinds, Fills
<1>5. ReleaseInv'
  BY <1>moves, <1>fenced DEF Inv, StatusFilled, ApplyDone, Release, TypeOK,
    ReleaseInv, FencedInv, Invalidating, EventKinds, Fills
<1>6. HealthInv'
  BY <1>pending DEF Inv, StatusFilled, ApplyDone, HealthInv, SnapshotTrusted,
    syncVars, memoryVars
<1>7. PublishedInv'
  <2>1. \A p \in Orders : Reported(p)' => Reported(p)
    BY <1>moves DEF Inv, StatusFilled, Release, TypeOK, Reported,
      Invalidating, EventKinds, Fills
  <2>. QED
    BY <2>1, PublishedKept DEF Inv, StatusFilled, ApplyDone, syncVars,
      memoryVars
<1>. QED  BY <1>1, <1>2, <1>3, <1>4, <1>5, <1>6, <1>7 DEF Inv

(* A cancellation releases no row to FILLED.                               *)
LEMMA StatusCancelledKeepsInv ==
  ASSUME Inv, NEW o \in Orders, StatusCancelled(o)
  PROVE  Inv'
<1>moves.
      /\ task[o]["statusCancelled"] = "apply"
      /\ task' \in [Orders -> [EventKinds -> TaskSteps]]
      /\ \A p \in Orders, j \in EventKinds :
            task'[p][j] = IF p = o /\ j = "statusCancelled"
                            THEN IF "statusCancelled" \in Invalidating THEN "refresh" ELSE "done"
                            ELSE task[p][j]
  BY ApplyDoneMoves DEF Inv, StatusCancelled, EventKinds, Fills
<1>fenced. \A p \in Orders : Fenced(p) => Fenced(p)'
  BY DEF StatusCancelled, ApplyDone, Fenced, SnapshotTrusted, brokerVars,
    syncVars, memoryVars
<1>pending. MarkPending => MarkPending'
  BY <1>moves DEF MarkPending
<1>1. TypeOK'
  BY <1>moves, FenceAssumption DEF Inv, StatusCancelled, ApplyDone,
    brokerVars, syncVars, memoryVars, reconVars, TypeOK, RowStatuses,
    BrokerStates, TaskSteps, EventKinds, Fills
<1>2. GenerationInv'
  BY <1>moves DEF Inv, StatusCancelled, ApplyDone, syncVars, memoryVars,
    TypeOK, Loops, Snapshots, GenerationInv
<1>3. TaskInv'
  BY <1>moves, InvalidatingKinds DEF Inv, StatusCancelled, ApplyDone, brokerVars, TaskInv
<1>4. FencedInv'
  BY <1>moves, <1>fenced DEF Inv, FencedInv, Invalidating, EventKinds, Fills
<1>5. ReleaseInv'
  BY <1>moves, <1>fenced DEF Inv, StatusCancelled, ApplyDone, TypeOK,
    ReleaseInv, FencedInv, Invalidating, EventKinds, Fills
<1>6. HealthInv'
  BY <1>pending DEF Inv, StatusCancelled, ApplyDone, HealthInv,
    SnapshotTrusted, syncVars, memoryVars
<1>7. PublishedInv'
  <2>1. \A p \in Orders : Reported(p)' => Reported(p)
    BY <1>moves DEF Inv, StatusCancelled, Release, TypeOK, Reported,
      Invalidating, EventKinds, Fills
  <2>. QED
    BY <2>1, PublishedKept DEF Inv, StatusCancelled, ApplyDone,
      syncVars, memoryVars
<1>. QED  BY <1>1, <1>2, <1>3, <1>4, <1>5, <1>6, <1>7 DEF Inv

(* And so does the execution that completes the quantity.                  *)
LEMMA ApplyFillKeepsInv ==
  ASSUME Inv, NEW o \in Orders, NEW k \in EventKinds, ApplyFill(o, k)
  PROVE  Inv'
<1>moves.
      /\ task[o][k] = "apply"
      /\ task' \in [Orders -> [EventKinds -> TaskSteps]]
      /\ \A p \in Orders, j \in EventKinds :
            task'[p][j] = IF p = o /\ j = k
                            THEN IF k \in Invalidating THEN "refresh" ELSE "done"
                            ELSE task[p][j]
  BY ApplyDoneMoves DEF Inv, ApplyFill, EventKinds, Fills
<1>fenced. \A p \in Orders : Fenced(p) => Fenced(p)'
  BY DEF ApplyFill, ApplyDone, Fenced, SnapshotTrusted, brokerVars, syncVars,
    memoryVars
<1>pending. MarkPending => MarkPending'
  BY <1>moves DEF MarkPending
<1>1. TypeOK'
  <2>1. persisted' \in [Orders -> SUBSET Fills]
    BY DEF Inv, ApplyFill, TypeOK
  <2>2. /\ row' \in [Orders -> RowStatuses]
        /\ releasedBy' \in [Orders -> {"none", "callback", "reconciliation"}]
    BY DEF Inv, ApplyFill, Release, TypeOK, RowStatuses
  <2>. QED
    BY <1>moves, <2>1, <2>2 DEF Inv, ApplyFill, ApplyDone, TypeOK, brokerVars, syncVars,
      memoryVars, reconVars
<1>2. GenerationInv'
  BY <1>moves DEF Inv, ApplyFill, ApplyDone, Release, syncVars, memoryVars,
    TypeOK, Loops, Snapshots, GenerationInv
<1>3. TaskInv'
  BY <1>moves, InvalidatingKinds DEF Inv, ApplyFill, ApplyDone, brokerVars, TaskInv
<1>4. FencedInv'
  BY <1>moves, <1>fenced DEF Inv, FencedInv, Invalidating, EventKinds, Fills
<1>5. ReleaseInv'
  BY <1>moves, <1>fenced DEF Inv, ApplyFill, ApplyDone, Release, TypeOK,
    ReleaseInv, FencedInv, Invalidating, EventKinds, Fills
<1>6. HealthInv'
  BY <1>pending DEF Inv, ApplyFill, ApplyDone, HealthInv, SnapshotTrusted,
    syncVars, memoryVars
<1>7. PublishedInv'
  <2>1. \A p \in Orders : Reported(p)' => Reported(p)
    BY <1>moves DEF Inv, ApplyFill, Release, TypeOK, Reported,
      Invalidating, EventKinds, Fills
  <2>. QED
    BY <2>1, PublishedKept DEF Inv, ApplyFill, ApplyDone, syncVars,
      memoryVars
<1>. QED  BY <1>1, <1>2, <1>3, <1>4, <1>5, <1>6, <1>7 DEF Inv

(* A loop that starts holds no positions yet.                              *)
LEMMA AskRefreshKeepsInv ==
  ASSUME Inv, NEW o \in Orders, NEW k \in EventKinds, AskRefresh(o, k)
  PROVE  Inv'
<1>1. TypeOK'
  <2>1. loop' \in Loops
    BY IdleLoopType DEF Inv, AskRefresh, StartLoop, TaskAt, TaskGoto, TypeOK
  <2>. QED
    BY <2>1, FenceAssumption DEF Inv, AskRefresh, StartLoop, TaskAt, TaskGoto,
      TypeOK, rowVars, brokerVars, syncVars, reconVars, RowStatuses,
      BrokerStates, TaskSteps, EventKinds, Fills
<1>2. GenerationInv'
  BY DEF Inv, AskRefresh, StartLoop, TaskAt, TaskGoto, syncVars, TypeOK,
    Loops, Snapshots, GenerationInv, IdleLoop
<1>3. TaskInv'
  BY DEF Inv, AskRefresh, StartLoop, TaskAt, TaskGoto, brokerVars, TypeOK,
    TaskInv, Invalidating, EventKinds, Fills
<1>4. FencedInv'
  BY DEF Inv, AskRefresh, StartLoop, TaskAt, TaskGoto, brokerVars, syncVars,
    TypeOK, Loops, Snapshots, GenerationInv, TaskInv, FencedInv, Fenced,
    SnapshotTrusted, Invalidating, EventKinds, Fills, IdleLoop
<1>5. ReleaseInv'
  BY DEF Inv, AskRefresh, StartLoop, TaskAt, TaskGoto, rowVars, brokerVars,
    syncVars, TypeOK, Loops, Snapshots, GenerationInv, FencedInv, ReleaseInv,
    Fenced, SnapshotTrusted, Invalidating, EventKinds, Fills, IdleLoop
<1>6. HealthInv'
  BY DEF Inv, AskRefresh, StartLoop, TaskAt, TaskGoto, syncVars, TypeOK,
    Loops, Snapshots, HealthInv, MarkPending, SnapshotTrusted, EventKinds,
    Fills, IdleLoop
<1>7. PublishedInv'
  <2>1. \A p \in Orders : Reported(p)' => Reported(p)
    BY DEF Inv, AskRefresh, TaskAt, TaskGoto, rowVars, TypeOK, Reported,
      Invalidating, EventKinds, Fills
  <2>. QED
    BY <2>1 DEF Inv, AskRefresh, StartLoop, PublishedInv,
      PositionsShowReported, IdleLoop, TypeOK, Loops, syncVars
<1>. QED  BY <1>1, <1>2, <1>3, <1>4, <1>5, <1>6, <1>7 DEF Inv

(* A task that fails has nothing left to write.                            *)
LEMMA TaskFailsKeepsInv ==
  ASSUME Inv, NEW o \in Orders, NEW k \in EventKinds, TaskFails(o, k)
  PROVE  Inv'
<1>1. TypeOK'
  BY FenceAssumption DEF Inv, TaskFails, TaskGoto, rowVars, brokerVars,
    syncVars, memoryVars, reconVars, TypeOK, RowStatuses, BrokerStates,
    TaskSteps, EventKinds, Fills
<1>2. GenerationInv'
  BY DEF Inv, TaskFails, TaskGoto, syncVars, memoryVars, TypeOK, Loops,
    Snapshots, GenerationInv
<1>3. TaskInv'
  BY DEF Inv, TaskFails, TaskGoto, brokerVars, TypeOK, TaskInv, Invalidating,
    EventKinds, Fills
<1>4. FencedInv'
  BY DEF Inv, TaskFails, TaskGoto, brokerVars, syncVars, memoryVars, TypeOK,
    Loops, Snapshots, GenerationInv, TaskInv, FencedInv, Fenced,
    SnapshotTrusted, Invalidating, EventKinds, Fills
<1>5. ReleaseInv'
  BY DEF Inv, TaskFails, TaskGoto, rowVars, brokerVars, syncVars, memoryVars,
    TypeOK, Loops, Snapshots, GenerationInv, FencedInv, ReleaseInv, Fenced,
    SnapshotTrusted, Invalidating, EventKinds, Fills
<1>6. HealthInv'
  BY DEF Inv, TaskFails, TaskGoto, syncVars, memoryVars, TypeOK, Loops,
    Snapshots, HealthInv, MarkPending, SnapshotTrusted, EventKinds, Fills
<1>7. PublishedInv'
  <2>1. \A p \in Orders : Reported(p)' => Reported(p)
    BY DEF Inv, TaskFails, TaskGoto, rowVars, TypeOK, Reported,
      Invalidating, EventKinds, Fills
  <2>. QED
    BY <2>1, PublishedKept DEF Inv, TaskFails, TaskGoto, syncVars,
      memoryVars
<1>. QED  BY <1>1, <1>2, <1>3, <1>4, <1>5, <1>6, <1>7 DEF Inv

(* As AskRefresh, from an idle loop.                                       *)
LEMMA EnsureBrokerSessionKeepsInv ==
  ASSUME Inv, EnsureBrokerSession
  PROVE  Inv'
<1>1. TypeOK'
  <2>1. loop' \in Loops
    BY IdleLoopType DEF Inv, EnsureBrokerSession, StartLoop, LoopAt,
      LoopUnchanged, TypeOK
  <2>. QED
    BY <2>1, FenceAssumption DEF Inv, EnsureBrokerSession, StartLoop, LoopAt,
      LoopUnchanged, TypeOK, rowVars, brokerVars, taskVars, syncVars,
      reconVars, RowStatuses, BrokerStates, TaskSteps, EventKinds, Fills
<1>2. GenerationInv'
  BY DEF Inv, EnsureBrokerSession, StartLoop, LoopAt, LoopUnchanged, syncVars,
    TypeOK, Loops, Snapshots, GenerationInv, IdleLoop
<1>3. TaskInv'
  BY DEF Inv, EnsureBrokerSession, StartLoop, LoopAt, LoopUnchanged,
    brokerVars, taskVars, TypeOK, TaskInv, Invalidating, EventKinds, Fills
<1>4. FencedInv'
  BY DEF Inv, EnsureBrokerSession, StartLoop, LoopAt, LoopUnchanged,
    brokerVars, taskVars, syncVars, TypeOK, Loops, Snapshots, GenerationInv,
    TaskInv, FencedInv, Fenced, SnapshotTrusted, Invalidating, EventKinds,
    Fills, IdleLoop
<1>5. ReleaseInv'
  BY DEF Inv, EnsureBrokerSession, StartLoop, LoopAt, LoopUnchanged, rowVars,
    brokerVars, syncVars, TypeOK, Loops, Snapshots, GenerationInv, FencedInv,
    ReleaseInv, Fenced, SnapshotTrusted, Invalidating, EventKinds, Fills,
    IdleLoop
<1>6. HealthInv'
  BY DEF Inv, EnsureBrokerSession, StartLoop, LoopAt, LoopUnchanged, taskVars,
    syncVars, TypeOK, Loops, Snapshots, HealthInv, MarkPending,
    SnapshotTrusted, EventKinds, Fills, IdleLoop
<1>7. PublishedInv'
  <2>1. \A p \in Orders : Reported(p)' <=> Reported(p)
    BY DEF EnsureBrokerSession, LoopUnchanged, Reported, rowVars,
      taskVars
  <2>. QED
    BY <2>1 DEF Inv, EnsureBrokerSession, LoopUnchanged, PublishedInv,
      PositionsShowReported, StartLoop, LoopAt, IdleLoop, TypeOK, Loops,
      syncVars
<1>. QED  BY <1>1, <1>2, <1>3, <1>4, <1>5, <1>6, <1>7 DEF Inv

(* A new generation; the snapshot is incomplete until it completes.        *)
LEMMA LoopBeginKeepsInv ==
  ASSUME Inv, LoopBegin
  PROVE  Inv'
<1>1. TypeOK'
  <2>1. sync.generation + 1 \in Nat /\ session \in 0..MaxSessions
    BY FenceAssumption DEF Inv, TypeOK, Snapshots
  <2>2. loop' \in Loops
    BY <2>1 DEF Inv, LoopBegin, TypeOK, Loops, LoopSteps
  <2>3. sync' \in Snapshots
    BY <2>1 DEF LoopBegin, Snapshots
  <2>. QED
    BY <2>2, <2>3 DEF Inv, LoopBegin, LoopUnchanged, TypeOK, rowVars, brokerVars, taskVars,
      reconVars
<1>2. GenerationInv'
  BY DEF Inv, LoopBegin, LoopAt, LoopUnchanged, TypeOK, Loops, Snapshots,
    GenerationInv
<1>3. TaskInv'
  BY DEF Inv, LoopBegin, LoopAt, LoopUnchanged, brokerVars, taskVars, TypeOK,
    TaskInv, Invalidating, EventKinds, Fills
<1>4. FencedInv'
  BY DEF Inv, LoopBegin, LoopAt, LoopUnchanged, brokerVars, taskVars, TypeOK,
    Loops, Snapshots, GenerationInv, TaskInv, FencedInv, Fenced,
    SnapshotTrusted, Invalidating, EventKinds, Fills
<1>5. ReleaseInv'
  BY DEF Inv, LoopBegin, LoopAt, LoopUnchanged, rowVars, brokerVars, TypeOK,
    Loops, Snapshots, GenerationInv, FencedInv, ReleaseInv, Fenced,
    SnapshotTrusted, Invalidating, EventKinds, Fills
<1>6. HealthInv'
  BY DEF Inv, LoopBegin, LoopAt, LoopUnchanged, taskVars, TypeOK, Loops,
    Snapshots, HealthInv, MarkPending, SnapshotTrusted, EventKinds, Fills
<1>7. PublishedInv'
  <2>1. \A p \in Orders : Reported(p)' <=> Reported(p)
    BY DEF LoopBegin, LoopUnchanged, Reported, rowVars, taskVars
  <2>. QED
    BY <2>1 DEF Inv, LoopBegin, LoopUnchanged, PublishedInv,
      PositionsShowReported, TypeOK, Loops
<1>. QED  BY <1>1, <1>2, <1>3, <1>4, <1>5, <1>6, <1>7 DEF Inv

(* The positions fetched now show every fenced order.                      *)
LEMMA LoopFetchKeepsInv ==
  ASSUME Inv, LoopFetch
  PROVE  Inv'
<1>1. TypeOK'
  <2>1. loop' \in Loops
    BY DEF Inv, LoopFetch, TypeOK, Loops, LoopSteps
  <2>2. desired' \in Nat
    BY DEF Inv, LoopFetch, TypeOK, Loops
  <2>. QED
    BY <2>1, <2>2 DEF Inv, LoopFetch, LoopUnchanged, TypeOK, rowVars, brokerVars, taskVars,
      syncVars, reconVars
<1>2. GenerationInv'
  BY DEF Inv, LoopFetch, Exposed, LoopAt, LoopUnchanged, syncVars, TypeOK,
    Loops, Snapshots, GenerationInv
<1>3. TaskInv'
  BY DEF Inv, LoopFetch, Exposed, LoopAt, LoopUnchanged, brokerVars, taskVars,
    TypeOK, TaskInv, Invalidating, EventKinds, Fills
<1>4. FencedInv'
  BY DEF Inv, LoopFetch, Exposed, LoopAt, LoopUnchanged, brokerVars, taskVars,
    syncVars, TypeOK, Loops, Snapshots, GenerationInv, TaskInv, FencedInv,
    Fenced, SnapshotTrusted, Invalidating, EventKinds, Fills
<1>5. ReleaseInv'
  BY DEF Inv, LoopFetch, Exposed, LoopAt, LoopUnchanged, rowVars, brokerVars,
    syncVars, TypeOK, Loops, Snapshots, GenerationInv, FencedInv, ReleaseInv,
    Fenced, SnapshotTrusted, Invalidating, EventKinds, Fills
<1>6. HealthInv'
  BY DEF Inv, LoopFetch, Exposed, LoopAt, LoopUnchanged, taskVars, syncVars,
    TypeOK, Loops, Snapshots, HealthInv, MarkPending, SnapshotTrusted,
    EventKinds, Fills
<1>7. PublishedInv'
  <2>1. \A p \in Orders : Reported(p)' <=> Reported(p)
    BY DEF LoopFetch, LoopUnchanged, Reported, rowVars, taskVars
  <2>. QED
    BY <2>1 DEF Inv, LoopFetch, LoopUnchanged, PublishedInv,
      PositionsShowReported, TypeOK, Loops, syncVars
<1>. QED  BY <1>1, <1>2, <1>3, <1>4, <1>5, <1>6, <1>7 DEF Inv

(* Positions are written only if no invalidation came after the fetch      *)
(* began; they show the exposure then.                                     *)
LEMMA LoopCompleteKeepsInv ==
  ASSUME Inv, LoopComplete
  PROVE  Inv'
<1>1. TypeOK'
  <2>1. loop' \in Loops
    BY DEF Inv, LoopComplete, TypeOK, Loops, LoopSteps
  <2>2. sync' \in Snapshots /\ flat' \in BOOLEAN
    <3>1. session \in 0..MaxSessions
      BY FenceAssumption DEF Inv, TypeOK
    <3>2. CASE sync.generation = loop.gen
      <4>1. loop.sawFlat \in BOOLEAN /\ sync.generation \in Nat
        BY DEF Inv, TypeOK, Loops, Snapshots
      <4>2. sync' = [sync EXCEPT !.session = session, !.complete = TRUE] /\ flat' = loop.sawFlat
        BY <3>2 DEF LoopComplete
      <4>. QED  BY <3>1, <4>1, <4>2 DEF Inv, TypeOK, Snapshots
    <3>3. CASE sync.generation # loop.gen
      BY <3>3 DEF Inv, LoopComplete, TypeOK, syncVars
    <3>. QED  BY <3>2, <3>3
  <2>. QED
    BY <2>1, <2>2 DEF Inv, LoopComplete, LoopUnchanged, TypeOK, rowVars, brokerVars,
      taskVars, reconVars
<1>2. GenerationInv'
  <2>1. session \in Nat /\ sync.session \in Nat /\ sync.generation \in Nat
    BY FenceAssumption DEF Inv, TypeOK, Snapshots
  <2>2. loop'.gen = 0 /\ session' = session
    BY DEF Inv, TypeOK, Loops, LoopComplete, LoopUnchanged
  <2>3. sync'.generation = sync.generation /\ sync'.session \in {session, sync.session}
    BY DEF Inv, TypeOK, Snapshots, LoopComplete, syncVars
  <2>. QED  BY <2>1, <2>2, <2>3 DEF Inv, GenerationInv
<1>3. TaskInv'
  BY DEF Inv, LoopComplete, LoopAt, LoopUnchanged, brokerVars, taskVars,
    TypeOK, TaskInv, Invalidating, EventKinds, Fills
<1>4. FencedInv'
  BY DEF Inv, LoopComplete, LoopAt, LoopUnchanged, brokerVars, taskVars,
    syncVars, TypeOK, Loops, Snapshots, GenerationInv, TaskInv, FencedInv,
    Fenced, SnapshotTrusted, Invalidating, EventKinds, Fills
<1>5. ReleaseInv'
  BY DEF Inv, LoopComplete, LoopAt, LoopUnchanged, rowVars, brokerVars,
    syncVars, TypeOK, Loops, Snapshots, GenerationInv, FencedInv, ReleaseInv,
    Fenced, SnapshotTrusted, Invalidating, EventKinds, Fills
<1>6. HealthInv'
  BY DEF Inv, LoopComplete, LoopAt, LoopUnchanged, taskVars, syncVars, TypeOK,
    Loops, Snapshots, HealthInv, MarkPending, SnapshotTrusted, EventKinds,
    Fills
<1>7. PublishedInv'
  <2>1. \A p \in Orders : Reported(p)' <=> Reported(p)
    BY DEF LoopComplete, LoopUnchanged, Reported, rowVars, taskVars
  <2>2. \A p \in Orders : Reported(p) => Fenced(p)
    BY DEF Inv, FencedInv, ReleaseInv, Reported
  <2>. QED
    BY <2>1, <2>2 DEF Inv, LoopComplete, LoopUnchanged, PublishedInv,
      PositionsShowReported, LoopAt, Fenced, TypeOK, Loops, syncVars
<1>. QED  BY <1>1, <1>2, <1>3, <1>4, <1>5, <1>6, <1>7 DEF Inv

(* The version is taken before the status is read.                         *)
LEMMA LoopCheckKeepsInv ==
  ASSUME Inv, LoopCheck
  PROVE  Inv'
<1>1. TypeOK'
  <2>1. loop' \in Loops
    BY FenceAssumption DEF Inv, LoopCheck, LoopAt, LoopUnchanged, TypeOK,
      Loops, Snapshots, LoopSteps
  <2>. QED
    BY <2>1, FenceAssumption DEF Inv, LoopCheck, LoopAt, LoopUnchanged,
      TypeOK, rowVars, brokerVars, taskVars, syncVars, reconVars, RowStatuses,
      BrokerStates, TaskSteps, EventKinds, Fills
<1>2. GenerationInv'
  BY DEF Inv, LoopCheck, LoopAt, LoopUnchanged, syncVars, TypeOK, Loops,
    Snapshots, GenerationInv
<1>3. TaskInv'
  BY DEF Inv, LoopCheck, LoopAt, LoopUnchanged, brokerVars, taskVars, TypeOK,
    TaskInv, Invalidating, EventKinds, Fills
<1>4. FencedInv'
  BY DEF Inv, LoopCheck, LoopAt, LoopUnchanged, brokerVars, taskVars,
    syncVars, TypeOK, Loops, Snapshots, GenerationInv, TaskInv, FencedInv,
    Fenced, SnapshotTrusted, Invalidating, EventKinds, Fills
<1>5. ReleaseInv'
  BY DEF Inv, LoopCheck, LoopAt, LoopUnchanged, rowVars, brokerVars, syncVars,
    TypeOK, Loops, Snapshots, GenerationInv, FencedInv, ReleaseInv, Fenced,
    SnapshotTrusted, Invalidating, EventKinds, Fills
<1>6. HealthInv'
  BY DEF Inv, LoopCheck, LoopAt, LoopUnchanged, taskVars, syncVars, TypeOK,
    Loops, Snapshots, HealthInv, MarkPending, SnapshotTrusted, EventKinds,
    Fills
<1>7. PublishedInv'
  <2>1. \A p \in Orders : Reported(p)' <=> Reported(p)
    BY DEF LoopCheck, LoopUnchanged, Reported, rowVars, taskVars
  <2>. QED
    BY <2>1 DEF Inv, LoopCheck, LoopUnchanged, PublishedInv,
      PositionsShowReported, TypeOK, Loops, syncVars
<1>. QED  BY <1>1, <1>2, <1>3, <1>4, <1>5, <1>6, <1>7 DEF Inv

(* The status is the one in the database.                                  *)
LEMMA LoopReadKeepsInv ==
  ASSUME Inv, LoopRead
  PROVE  Inv'
<1>1. TypeOK'
  <2>1. loop' \in Loops
    BY FenceAssumption DEF Inv, LoopRead, LoopAt, LoopUnchanged, TypeOK,
      Loops, Snapshots, LoopSteps
  <2>. QED
    BY <2>1, FenceAssumption DEF Inv, LoopRead, LoopAt, LoopUnchanged, TypeOK,
      rowVars, brokerVars, taskVars, syncVars, reconVars, RowStatuses,
      BrokerStates, TaskSteps, EventKinds, Fills
<1>2. GenerationInv'
  BY DEF Inv, LoopRead, LoopAt, LoopUnchanged, syncVars, TypeOK, Loops,
    Snapshots, GenerationInv
<1>3. TaskInv'
  BY DEF Inv, LoopRead, LoopAt, LoopUnchanged, brokerVars, taskVars, TypeOK,
    TaskInv, Invalidating, EventKinds, Fills
<1>4. FencedInv'
  BY DEF Inv, LoopRead, LoopAt, LoopUnchanged, brokerVars, taskVars, syncVars,
    TypeOK, Loops, Snapshots, GenerationInv, TaskInv, FencedInv, Fenced,
    SnapshotTrusted, Invalidating, EventKinds, Fills
<1>5. ReleaseInv'
  BY DEF Inv, LoopRead, LoopAt, LoopUnchanged, rowVars, brokerVars, syncVars,
    TypeOK, Loops, Snapshots, GenerationInv, FencedInv, ReleaseInv, Fenced,
    SnapshotTrusted, Invalidating, EventKinds, Fills
<1>6. HealthInv'
  BY DEF Inv, LoopRead, LoopAt, LoopUnchanged, taskVars, syncVars, TypeOK,
    Loops, Snapshots, HealthInv, MarkPending, SnapshotTrusted, EventKinds,
    Fills
<1>7. PublishedInv'
  <2>1. \A p \in Orders : Reported(p)' <=> Reported(p)
    BY DEF LoopRead, LoopUnchanged, Reported, rowVars, taskVars
  <2>2. \A p \in Orders : Reported(p) => Fenced(p)
    BY DEF Inv, FencedInv, ReleaseInv, Reported
  <2>. QED
    BY <2>1, <2>2 DEF Inv, LoopRead, LoopUnchanged, PublishedInv,
      PositionsShowReported, LoopAt, Fenced, SnapshotTrusted, TypeOK,
      Loops, syncVars
<1>. QED  BY <1>1, <1>2, <1>3, <1>4, <1>5, <1>6, <1>7 DEF Inv

(* Healthy only over the snapshot there is, or a mark is still to come.    *)
LEMMA LoopFinaliseKeepsInv ==
  ASSUME Inv, LoopFinalise
  PROVE  Inv'
<1>moves.
      /\ loop' \in Loops
      /\ loop'.step \in {"idle", "begin"}
      /\ loop'.gen = 0
      /\ UNCHANGED <<sync, flat, session, task>>
  <2>1. CASE CanFinalise
    <3>1. loop' = IdleLoop
      BY <2>1 DEF LoopFinalise, LoopEnds
    <3>. QED
      BY <3>1, IdleLoopType DEF LoopFinalise, LoopEnds, LoopUnchanged, IdleLoop, syncVars, taskVars
  <2>2. CASE ~CanFinalise /\ loop.iteration + 1 < MaxIterations
    <3>1. loop.iteration + 1 \in 0..(MaxIterations - 1)
      BY <2>2, FenceAssumption DEF Inv, TypeOK, Loops
    <3>2. loop' = [IdleLoop EXCEPT !.step = "begin", !.iteration = loop.iteration + 1]
      BY <2>2, <3>1, FenceAssumption DEF LoopFinalise
    <3>. QED
      BY <3>1, <3>2, IdleLoopType DEF LoopFinalise, LoopEnds, LoopUnchanged, IdleLoop, Loops, LoopSteps,
        syncVars, taskVars
  <2>3. CASE ~CanFinalise /\ ~(loop.iteration + 1 < MaxIterations)
    <3>1. loop' = IdleLoop
      BY <2>3 DEF LoopFinalise, LoopEnds
    <3>. QED
      BY <3>1, IdleLoopType DEF LoopFinalise, LoopEnds, LoopUnchanged, IdleLoop, syncVars, taskVars
  <2>. QED  BY <2>1, <2>2, <2>3
<1>healthy. health' = "healthy" => loop' = IdleLoop /\ CanFinalise
  <2>. health # "healthy"
    BY DEF Inv, HealthInv, LoopFinalise, LoopAt
  <2>. QED  BY DEF LoopFinalise, LoopEnds
<1>1. TypeOK'
  <2>1. loop' \in Loops
    BY <1>moves
  <2>. QED
    BY <2>1 DEF Inv, LoopFinalise, LoopEnds, LoopUnchanged, rowVars, brokerVars,
      taskVars, syncVars, reconVars, TypeOK
<1>2. GenerationInv'
  BY <1>moves DEF Inv, TypeOK, GenerationInv, Snapshots
<1>3. TaskInv'
  BY DEF Inv, LoopFinalise, LoopEnds, CanFinalise, LoopAt, LoopUnchanged, brokerVars,
    taskVars, TypeOK, TaskInv, Invalidating, EventKinds, Fills
<1>4. FencedInv'
  BY <1>moves DEF Inv, LoopFinalise, LoopEnds, LoopUnchanged, brokerVars, FencedInv,
    Fenced, SnapshotTrusted
<1>5. ReleaseInv'
  BY <1>moves DEF Inv, LoopFinalise, LoopEnds, LoopUnchanged, rowVars, brokerVars,
    ReleaseInv, Fenced, SnapshotTrusted
<1>6. HealthInv'
  BY <1>moves, <1>healthy DEF Inv, LoopFinalise, LoopEnds, LoopAt, HealthInv,
    MarkPending, SnapshotTrusted, CanFinalise, IdleLoop
<1>7. PublishedInv'
  <2>1. PositionsShowReported => PositionsShowReported'
    BY <1>moves DEF LoopFinalise, LoopUnchanged, PositionsShowReported, Reported, rowVars
  <2>2. CASE CanFinalise
    <3>1. PositionsShowReported
      BY <2>2 DEF Inv, PublishedInv, LoopFinalise, LoopAt, CanFinalise
    <3>2. health' = "healthy" /\ loop'.step # "finalise"
      BY <1>moves, <2>2 DEF LoopFinalise, LoopEnds
    <3>. QED  BY <2>1, <3>1, <3>2 DEF PublishedInv
  <2>3. CASE UNCHANGED <<health, published>> /\ loop'.step = "begin"
    BY <2>1, <2>3 DEF Inv, PublishedInv, LoopFinalise, LoopAt
  <2>4. CASE published' = "failed"
    BY <1>moves, <2>4 DEF PublishedInv
  <2>5. ~CanFinalise => \/ UNCHANGED <<health, published>> /\ loop'.step = "begin"
                        \/ published' = "failed"
    BY DEF LoopFinalise, LoopEnds, IdleLoop
  <2>. QED  BY <2>2, <2>3, <2>4, <2>5
<1>. QED  BY <1>1, <1>2, <1>3, <1>4, <1>5, <1>6, <1>7 DEF Inv

(* A loop that fails is idle and not healthy.                              *)
LEMMA LoopFailsKeepsInv ==
  ASSUME Inv, LoopFails
  PROVE  Inv'
<1>1. TypeOK'
  <2>1. loop' \in Loops
    BY IdleLoopType DEF Inv, LoopFails, LoopEnds, LoopUnchanged, TypeOK
  <2>. QED
    BY <2>1, FenceAssumption DEF Inv, LoopFails, LoopEnds, LoopUnchanged, TypeOK,
      rowVars, brokerVars, taskVars, syncVars, reconVars, RowStatuses,
      BrokerStates, TaskSteps, EventKinds, Fills
<1>2. GenerationInv'
  BY DEF Inv, LoopFails, LoopEnds, LoopUnchanged, syncVars, TypeOK, Loops, Snapshots,
    GenerationInv, IdleLoop
<1>3. TaskInv'
  BY DEF Inv, LoopFails, LoopEnds, LoopUnchanged, brokerVars, taskVars, TypeOK, TaskInv,
    Invalidating, EventKinds, Fills
<1>4. FencedInv'
  BY DEF Inv, LoopFails, LoopEnds, LoopUnchanged, brokerVars, taskVars, syncVars,
    TypeOK, Loops, Snapshots, GenerationInv, TaskInv, FencedInv, Fenced,
    SnapshotTrusted, Invalidating, EventKinds, Fills, IdleLoop
<1>5. ReleaseInv'
  BY DEF Inv, LoopFails, LoopEnds, LoopUnchanged, rowVars, brokerVars, syncVars, TypeOK,
    Loops, Snapshots, GenerationInv, FencedInv, ReleaseInv, Fenced,
    SnapshotTrusted, Invalidating, EventKinds, Fills, IdleLoop
<1>6. HealthInv'
  BY DEF Inv, LoopFails, LoopEnds, LoopUnchanged, taskVars, syncVars, TypeOK, Loops,
    Snapshots, HealthInv, MarkPending, SnapshotTrusted, EventKinds, Fills,
    IdleLoop
<1>7. PublishedInv'
  <2>1. \A p \in Orders : Reported(p)' <=> Reported(p)
    BY DEF LoopFails, LoopUnchanged, Reported, rowVars, taskVars
  <2>. QED
    BY <2>1 DEF Inv, LoopFails, LoopEnds, LoopUnchanged, PublishedInv,
      PositionsShowReported, LoopEnds, IdleLoop
<1>. QED  BY <1>1, <1>2, <1>3, <1>4, <1>5, <1>6, <1>7 DEF Inv

(* A run that starts has captured nothing.                                 *)
LEMMA ReconStartKeepsInv ==
  ASSUME Inv, ReconStart
  PROVE  Inv'
<1>1. TypeOK'
  <2>1. recon' \in Runs
    BY FenceAssumption DEF Inv, ReconStart, TypeOK, IdleRun, Runs,
      BrokerStates, Fills
  <2>. QED
    BY <2>1, FenceAssumption DEF Inv, ReconStart, TypeOK, rowVars, brokerVars,
      taskVars, syncVars, memoryVars, RowStatuses, BrokerStates, TaskSteps,
      EventKinds, Fills
<1>2. GenerationInv'
  BY DEF Inv, ReconStart, syncVars, memoryVars, TypeOK, Loops, Snapshots,
    GenerationInv
<1>3. TaskInv'
  BY DEF Inv, ReconStart, brokerVars, taskVars, TypeOK, TaskInv, Invalidating,
    EventKinds, Fills
<1>4. FencedInv'
  BY DEF Inv, ReconStart, brokerVars, taskVars, syncVars, memoryVars, TypeOK,
    Loops, Snapshots, GenerationInv, TaskInv, FencedInv, Fenced,
    SnapshotTrusted, Invalidating, EventKinds, Fills
<1>5. ReleaseInv'
  BY DEF Inv, ReconStart, rowVars, brokerVars, syncVars, memoryVars, TypeOK,
    Loops, Snapshots, GenerationInv, FencedInv, ReleaseInv, Fenced,
    SnapshotTrusted, Invalidating, EventKinds, Fills
<1>6. HealthInv'
  BY DEF Inv, ReconStart, taskVars, syncVars, memoryVars, TypeOK, Loops,
    Snapshots, HealthInv, MarkPending, SnapshotTrusted, EventKinds, Fills
<1>7. PublishedInv'
  <2>1. \A p \in Orders : Reported(p)' => Reported(p)
    BY DEF Inv, ReconStart, rowVars, taskVars, TypeOK, Reported,
      Invalidating, EventKinds, Fills
  <2>. QED
    BY <2>1, PublishedKept DEF Inv, ReconStart, syncVars, memoryVars
<1>. QED  BY <1>1, <1>2, <1>3, <1>4, <1>5, <1>6, <1>7 DEF Inv

(* Capturing the positions reads the broker only.                          *)
LEMMA CapturePositionsKeepsInv ==
  ASSUME Inv, CapturePositions
  PROVE  Inv'
<1>1. TypeOK'
  <2>1. recon' \in Runs
    BY FenceAssumption DEF Inv, CapturePositions, TypeOK, Runs, BrokerStates,
      Fills
  <2>. QED
    BY <2>1, FenceAssumption DEF Inv, CapturePositions, TypeOK, rowVars,
      brokerVars, taskVars, syncVars, memoryVars, RowStatuses, BrokerStates,
      TaskSteps, EventKinds, Fills
<1>2. GenerationInv'
  BY DEF Inv, CapturePositions, syncVars, memoryVars, TypeOK, Loops,
    Snapshots, GenerationInv
<1>3. TaskInv'
  BY DEF Inv, CapturePositions, brokerVars, taskVars, TypeOK, TaskInv,
    Invalidating, EventKinds, Fills
<1>4. FencedInv'
  BY DEF Inv, CapturePositions, brokerVars, taskVars, syncVars, memoryVars,
    TypeOK, Loops, Snapshots, GenerationInv, TaskInv, FencedInv, Fenced,
    SnapshotTrusted, Invalidating, EventKinds, Fills
<1>5. ReleaseInv'
  BY DEF Inv, CapturePositions, rowVars, brokerVars, syncVars, memoryVars,
    TypeOK, Loops, Snapshots, GenerationInv, FencedInv, ReleaseInv, Fenced,
    SnapshotTrusted, Invalidating, EventKinds, Fills
<1>6. HealthInv'
  BY DEF Inv, CapturePositions, taskVars, syncVars, memoryVars, TypeOK, Loops,
    Snapshots, HealthInv, MarkPending, SnapshotTrusted, EventKinds, Fills
<1>7. PublishedInv'
  <2>1. \A p \in Orders : Reported(p)' => Reported(p)
    BY DEF Inv, CapturePositions, rowVars, taskVars, TypeOK, Reported,
      Invalidating, EventKinds, Fills
  <2>. QED
    BY <2>1, PublishedKept DEF Inv, CapturePositions, syncVars,
      memoryVars
<1>. QED  BY <1>1, <1>2, <1>3, <1>4, <1>5, <1>6, <1>7 DEF Inv

(* A missed execution starts its task again, after the fact.               *)
LEMMA CaptureOrdersKeepsInv ==
  ASSUME Inv, CaptureOrders
  PROVE  Inv'
<1>1. TypeOK'
  <2>1. recon' \in Runs
    BY FenceAssumption DEF Inv, CaptureOrders, TypeOK, Runs, BrokerStates,
      Fills
  <2>. QED
    BY <2>1, FenceAssumption DEF Inv, CaptureOrders, TypeOK, rowVars,
      brokerVars, syncVars, memoryVars, RowStatuses, BrokerStates, TaskSteps,
      EventKinds, Fills
<1>2. GenerationInv'
  BY DEF Inv, CaptureOrders, syncVars, memoryVars, TypeOK, Loops, Snapshots,
    GenerationInv
<1>3. TaskInv'
  BY DEF Inv, CaptureOrders, brokerVars, TypeOK, TaskInv, Invalidating,
    EventKinds, Fills
<1>4. FencedInv'
  BY DEF Inv, CaptureOrders, brokerVars, syncVars, memoryVars, TypeOK, Loops,
    Snapshots, GenerationInv, TaskInv, FencedInv, Fenced, SnapshotTrusted,
    Invalidating, EventKinds, Fills
<1>5. ReleaseInv'
  BY DEF Inv, CaptureOrders, rowVars, brokerVars, syncVars, memoryVars,
    TypeOK, Loops, Snapshots, GenerationInv, FencedInv, ReleaseInv, Fenced,
    SnapshotTrusted, Invalidating, EventKinds, Fills
<1>6. HealthInv'
  BY DEF Inv, CaptureOrders, syncVars, memoryVars, TypeOK, Loops, Snapshots,
    HealthInv, MarkPending, SnapshotTrusted, EventKinds, Fills
<1>7. PublishedInv'
  <2>1. \A p \in Orders : Reported(p)' => Reported(p)
    BY DEF Inv, CaptureOrders, rowVars, TypeOK, Reported, Invalidating,
      EventKinds, Fills
  <2>. QED
    BY <2>1, PublishedKept DEF Inv, CaptureOrders, syncVars, memoryVars
<1>. QED  BY <1>1, <1>2, <1>3, <1>4, <1>5, <1>6, <1>7 DEF Inv

(* What a run makes FILLED it does not claim to be fenced.                 *)
LEMMA ReconPublishKeepsInv ==
  ASSUME Inv, ReconPublish
  PROVE  Inv'
<1>1. TypeOK'
  <2>1. recon' \in Runs
    BY FenceAssumption DEF Inv, ReconPublish, FromBroker, TypeOK, IdleRun,
      Runs, BrokerStates, Fills
  <2>. QED
    BY <2>1, FenceAssumption DEF Inv, ReconPublish, FromBroker, TypeOK,
      brokerVars, taskVars, syncVars, memoryVars, RowStatuses, BrokerStates,
      TaskSteps, EventKinds, Fills
<1>2. GenerationInv'
  BY DEF Inv, ReconPublish, FromBroker, syncVars, memoryVars, TypeOK, Loops,
    Snapshots, GenerationInv
<1>3. TaskInv'
  BY DEF Inv, ReconPublish, FromBroker, brokerVars, taskVars, TypeOK, TaskInv,
    Invalidating, EventKinds, Fills
<1>4. FencedInv'
  BY DEF Inv, ReconPublish, FromBroker, brokerVars, taskVars, syncVars,
    memoryVars, TypeOK, Loops, Snapshots, GenerationInv, TaskInv, FencedInv,
    Fenced, SnapshotTrusted, Invalidating, EventKinds, Fills
<1>5. ReleaseInv'
  BY DEF Inv, ReconPublish, FromBroker, brokerVars, syncVars, memoryVars,
    TypeOK, Loops, Snapshots, GenerationInv, FencedInv, ReleaseInv, Fenced,
    SnapshotTrusted, Invalidating, EventKinds, Fills
<1>6. HealthInv'
  BY DEF Inv, ReconPublish, FromBroker, taskVars, syncVars, memoryVars,
    TypeOK, Loops, Snapshots, HealthInv, MarkPending, SnapshotTrusted,
    EventKinds, Fills
<1>7. PublishedInv'
  <2>1. \A p \in Orders : Reported(p)' => Reported(p)
    BY DEF Inv, ReconPublish, taskVars, TypeOK, Reported, Invalidating,
      EventKinds, Fills
  <2>. QED
    BY <2>1, PublishedKept DEF Inv, ReconPublish, syncVars, memoryVars
<1>. QED  BY <1>1, <1>2, <1>3, <1>4, <1>5, <1>6, <1>7 DEF Inv

(* The new process trusts no snapshot of the old one's session.            *)
LEMMA CrashKeepsInv ==
  ASSUME Inv, Crash
  PROVE  Inv'
<1>1. TypeOK'
  <2>1. loop' \in Loops
    BY IdleLoopType DEF Crash
  <2>2. recon' \in Runs
    BY DEF Crash, IdleRun, Runs, BrokerStates, Fills
  <2>3. session' \in 1..MaxSessions
    BY FenceAssumption DEF Inv, TypeOK, Crash
  <2>4. /\ task' \in [Orders -> [EventKinds -> TaskSteps]]
        /\ taskGen' \in [Orders -> [EventKinds -> Nat]]
    BY DEF Crash, TaskSteps
  <2>. QED
    BY <2>1, <2>2, <2>3, <2>4 DEF Inv, Crash, TypeOK, rowVars, brokerVars, syncVars
<1>2. GenerationInv'
  BY DEF Inv, Crash, syncVars, TypeOK, Loops, Snapshots, GenerationInv,
    IdleLoop
<1>3. TaskInv'
  BY DEF Inv, Crash, brokerVars, TypeOK, TaskInv, Invalidating, EventKinds,
    Fills
<1>4. FencedInv'
  BY DEF Inv, Crash, brokerVars, syncVars, TypeOK, Loops, Snapshots,
    GenerationInv, TaskInv, FencedInv, Fenced, SnapshotTrusted, Invalidating,
    EventKinds, Fills, IdleLoop
<1>5. ReleaseInv'
  BY DEF Inv, Crash, rowVars, brokerVars, syncVars, TypeOK, Loops, Snapshots,
    GenerationInv, FencedInv, ReleaseInv, Fenced, SnapshotTrusted,
    Invalidating, EventKinds, Fills, IdleLoop
<1>6. HealthInv'
  BY DEF Inv, Crash, syncVars, TypeOK, Loops, Snapshots, HealthInv,
    MarkPending, SnapshotTrusted, EventKinds, Fills, IdleLoop
<1>7. PublishedInv'
  BY DEF Crash, IdleLoop, PublishedInv, PositionsShowReported
<1>. QED  BY <1>1, <1>2, <1>3, <1>4, <1>5, <1>6, <1>7 DEF Inv

(* Every step keeps the invariant.                                         *)
LEMMA StepInv == Inv /\ [Next]_vars => Inv'
<1> SUFFICES ASSUME Inv, [Next]_vars
             PROVE  Inv'
  OBVIOUS
<1>1. ASSUME NEW o \in Orders, Enter(o)
      PROVE  Inv'
  BY <1>1, EnterKeepsInv
<1>2. ASSUME NEW o \in Orders, BrokerAccept(o)
      PROVE  Inv'
  BY <1>2, BrokerAcceptKeepsInv
<1>3. ASSUME NEW o \in Orders, BrokerPartialFill(o)
      PROVE  Inv'
  BY <1>3, BrokerPartialFillKeepsInv
<1>4. ASSUME NEW o \in Orders, BrokerFill(o)
      PROVE  Inv'
  BY <1>4, BrokerFillKeepsInv
<1>5. ASSUME NEW o \in Orders, BrokerCancel(o)
      PROVE  Inv'
  BY <1>5, BrokerCancelKeepsInv
<1>6. ASSUME NEW o \in Orders, NEW k \in EventKinds, Invalidate(o, k)
      PROVE  Inv'
  BY <1>6, InvalidateKeepsInv
<1>7. ASSUME NEW o \in Orders, NEW k \in EventKinds, MarkInvalidated(o, k)
      PROVE  Inv'
  BY <1>7, MarkInvalidatedKeepsInv
<1>8. ASSUME NEW o \in Orders, MarkSubmitted(o)
      PROVE  Inv'
  BY <1>8, MarkSubmittedKeepsInv
<1>9. ASSUME NEW o \in Orders, MarkFilled(o)
      PROVE  Inv'
  BY <1>9, MarkFilledKeepsInv
<1>10. ASSUME NEW o \in Orders, StatusFilled(o)
      PROVE  Inv'
  BY <1>10, StatusFilledKeepsInv
<1>11. ASSUME NEW o \in Orders, StatusCancelled(o)
      PROVE  Inv'
  BY <1>11, StatusCancelledKeepsInv
<1>12. ASSUME NEW o \in Orders, NEW k \in EventKinds, ApplyFill(o, k)
      PROVE  Inv'
  BY <1>12, ApplyFillKeepsInv
<1>13. ASSUME NEW o \in Orders, NEW k \in EventKinds, AskRefresh(o, k)
      PROVE  Inv'
  BY <1>13, AskRefreshKeepsInv
<1>14. ASSUME NEW o \in Orders, NEW k \in EventKinds, TaskFails(o, k)
      PROVE  Inv'
  BY <1>14, TaskFailsKeepsInv
<1>15. CASE EnsureBrokerSession
  BY <1>15, EnsureBrokerSessionKeepsInv
<1>16. CASE LoopBegin
  BY <1>16, LoopBeginKeepsInv
<1>17. CASE LoopFetch
  BY <1>17, LoopFetchKeepsInv
<1>18. CASE LoopComplete
  BY <1>18, LoopCompleteKeepsInv
<1>19. CASE LoopCheck
  BY <1>19, LoopCheckKeepsInv
<1>20. CASE LoopRead
  BY <1>20, LoopReadKeepsInv
<1>21. CASE LoopFinalise
  BY <1>21, LoopFinaliseKeepsInv
<1>22. CASE LoopFails
  BY <1>22, LoopFailsKeepsInv
<1>23. CASE ReconStart
  BY <1>23, ReconStartKeepsInv
<1>24. CASE CapturePositions
  BY <1>24, CapturePositionsKeepsInv
<1>25. CASE CaptureOrders
  BY <1>25, CaptureOrdersKeepsInv
<1>26. CASE ReconPublish
  BY <1>26, ReconPublishKeepsInv
<1>27. CASE Crash
  BY <1>27, CrashKeepsInv
<1>28. CASE UNCHANGED vars
  BY <1>28 DEF Inv, vars, TypeOK, GenerationInv, TaskInv, FencedInv, Fenced, ReleaseInv,
    HealthInv, MarkPending, PublishedInv, PositionsShowReported, Reported,
    SnapshotTrusted
<1>. QED
  BY <1>1, <1>2, <1>3, <1>4, <1>5, <1>6, <1>7, <1>8, <1>9, <1>10, <1>11,
    <1>12, <1>13, <1>14, <1>15, <1>16, <1>17, <1>18, <1>19, <1>20, <1>21,
    <1>22, <1>23, <1>24, <1>25, <1>26, <1>27, <1>28 DEF Next, Tasks, TaskStep,
    ApplyAcknowledgement, ApplyStatus, Loop

LEMMA Invariance == Spec => []Inv
<1>. QED  BY InitInv, StepInv, PTL DEF Spec

(* Type correctness of the rows, tasks, snapshot and coordinator.          *)
THEOREM TypeCorrect == Spec => []TypeOK
<1>1. Inv => TypeOK
  BY DEF Inv
<1>. QED  BY <1>1, Invariance, PTL

(* index.ts invalidates before it writes a row FILLED, and                 *)
(* completePositionSnapshotRefresh writes no positions of an older         *)
(* generation: a row that a callback released is never beside a trusted    *)
(* snapshot without a position, for any number of orders, processes and    *)
(* refreshes, with partial fills, runs and failures.                       *)
THEOREM ReleaseIsFenced == Spec => []CallbackReleaseIsFenced
<1>1. Inv => CallbackReleaseIsFenced
  BY DEF Inv, ReleaseInv, Fenced, CallbackReleaseIsFenced
<1>. QED  BY <1>1, Invariance, PTL

(* refresh-coordinator.ts becomes healthy only if the status it has read   *)
(* is complete, of this process and not overtaken by an invalidation.      *)
(* What /ready reports is older by at most the loop that runs, and never   *)
(* healthy over positions that miss a fill whose callback released a row.  *)
THEOREM HealthIsTrusted == Spec => []HealthyMeansTrusted
<1>1. ASSUME Inv PROVE HealthyMeansTrusted
  <2>1. health = "healthy" => SnapshotTrusted \/ MarkPending
    BY <1>1 DEF Inv, HealthInv
  <2>2. published = "healthy" =>
          /\ health = "healthy" \/ loop.step # "idle"
          /\ flat => \A o \in Orders : ~(row[o] = "FILLED" /\ releasedBy[o] = "callback")
    BY <1>1 DEF Inv, PublishedInv, PositionsShowReported, Reported
  <2>. QED  BY <2>1, <2>2 DEF HealthyMeansTrusted, MarkPending
<1>. QED  BY <1>1, Invariance, PTL

============================================================================
