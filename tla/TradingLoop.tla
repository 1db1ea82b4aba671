---------------------------- MODULE TradingLoop ----------------------------
(***************************************************************************)
(* The trading loop of the signal engine (trading-loop-service.ts) with    *)
(* the execution runtime and the submitter it calls: timer ticks and       *)
(* operator calls of runOnce start runs of instruments under a global cap; *)
(* a run evaluates, reads the exposure, and sends one request named after  *)
(* the trigger it evaluated.  The request may outlive its run, its cycle   *)
(* and its process.                                                        *)
(*                                                                         *)
(* The legacy cycle waits for the strategy state before it starts runs;    *)
(* the configured cycle starts them at once and begins one instrument      *)
(* later each time.  The execution engine is external here: one row per    *)
(* client order id, and one live intent per instrument (Submission).       *)
(* Every failed gate, exception and timeout of a run is Finish.            *)
(***************************************************************************)
EXTENDS Naturals, FiniteSets

CONSTANTS
    \* @type: Int;
    N,              \* instruments, in registry order 0..N-1
    \* @type: Int;
    MaxConcurrent,  \* maxConcurrentInstruments
    \* @type: Int;
    MaxBucket,      \* bound: evaluation buckets
    \* @type: Int;
    MaxWaiting,     \* bound: legacy cycles waiting at once
    \* @type: Int;
    MaxRestarts     \* bound

LoopAssumption ==
    /\ N \in Nat \ {0} /\ MaxConcurrent \in Nat \ {0} /\ MaxBucket \in Nat \ {0}
    /\ MaxWaiting \in Nat /\ MaxRestarts \in Nat

Instrument == 0..(N - 1)
Bucket == 1..MaxBucket

VARIABLES
    configured,     \* the configured strategy runtime is wired
    stopping,       \* stop() was called
    waiting,        \* legacy cycles between their start and their runs
    startIndex,     \* #configuredStartIndex
    run,            \* run[i]: #inFlight, with where the run is
    bucket,         \* evaluation bucket of the market data
    wire,           \* requests the engine has not received
    order,          \* order[i][k]: the engine's row of client order id <<i, k>>
    placed,         \* placed[i][t]: orders placed for trigger t (history)
    passed,         \* passed[i]: cycles in a row, each begun idle, that left i out (history, configured)
    restarts

vars == <<configured, stopping, waiting, startIndex, run, bucket, wire, order, placed, passed, restarts>>

Runs == [at : {"idle", "evaluate", "check", "guard", "submit"}, trigger : 0..MaxBucket]
Requests == [instrument : Instrument, trigger : Bucket, key : Bucket]

NoRun == [at |-> "idle", trigger |-> 0]
InFlight == {i \in Instrument : run[i].at # "idle"}

----------------------------------------------------------------------------
(* Cycles *)

\* Place of i in the scan of a cycle that begins at instrument s.
Rank(i, s) == (i + N - s) % N

Room == IF Cardinality(InFlight) < MaxConcurrent THEN MaxConcurrent - Cardinality(InFlight) ELSE 0

\* Idle instruments in scan order, as long as there is room under the cap.
Started(s) ==
    LET idle == Instrument \ InFlight IN
    {i \in idle : Cardinality({j \in idle : Rank(j, s) < Rank(i, s)}) < Room}

First == IF configured THEN "evaluate" ELSE "check"

Begin(started) ==
    /\ run' = [i \in Instrument |-> IF i \in started THEN [NoRun EXCEPT !.at = First] ELSE run[i]]
    /\ passed' = [i \in Instrument |->
         IF ~configured \/ InFlight # {} \/ i \in started THEN 0 ELSE passed[i] + 1]

(* Mutation of ConfiguredCycle: the start index stays.                     *)
ConfiguredCycleFromFirst ==
    /\ configured /\ ~stopping
    /\ Begin(Started(startIndex))
    /\ UNCHANGED <<startIndex, configured, stopping, waiting, bucket, wire, order, placed, restarts>>

ConfiguredCycle ==
    /\ configured /\ ~stopping
    /\ Begin(Started(startIndex))
    /\ startIndex' = (startIndex + 1) % N
    /\ UNCHANGED <<configured, stopping, waiting, bucket, wire, order, placed, restarts>>

\* Entry gate and syncStrategyRuntimeStates: both are awaited.
LegacyCycle ==
    /\ ~configured /\ ~stopping
    /\ waiting < MaxWaiting
    /\ waiting' = waiting + 1
    /\ UNCHANGED <<configured, stopping, startIndex, run, bucket, wire, order, placed, passed, restarts>>

(* Mutation of Synced: whether the loop stops is asked before the await only. *)
SyncedWhileStopping ==
    /\ waiting > 0
    /\ waiting' = waiting - 1
    /\ \/ Begin(Started(0))
       \/ UNCHANGED <<run, passed>>
    /\ UNCHANGED <<configured, stopping, startIndex, bucket, wire, order, placed, restarts>>

\* The runs of a legacy cycle, in registry order; a failed await starts none.
Synced ==
    /\ waiting > 0
    /\ waiting' = waiting - 1
    /\ \/ ~stopping /\ Begin(Started(0))
       \/ UNCHANGED <<run, passed>>
    /\ UNCHANGED <<configured, stopping, startIndex, bucket, wire, order, placed, restarts>>

----------------------------------------------------------------------------
(* Runs *)

\* An order, or the position it opened.
Exposed(i) == \E k \in Bucket : order[i][k] = "live"

Goto(i, at) == run' = [run EXCEPT ![i].at = at]

\* Reconciliation and exposure read, together the fail-closed gates of the loop.
Check(i) ==
    /\ run[i].at = "check"
    /\ ~Exposed(i)
    /\ Goto(i, IF configured THEN "guard" ELSE "evaluate")
    /\ UNCHANGED <<configured, stopping, waiting, startIndex, bucket, wire, order, placed, passed, restarts>>

\* The trigger is that of the evaluation: the bucket of its price.
Evaluate(i) ==
    /\ run[i].at = "evaluate"
    /\ run' = [run EXCEPT ![i] = [at |-> IF configured THEN "check" ELSE "guard", trigger |-> bucket]]
    /\ UNCHANGED <<configured, stopping, waiting, startIndex, bucket, wire, order, placed, passed, restarts>>

(* Mutation of Key: the order is named after the time it is sent.          *)
KeyOfNow(i) == bucket

Key(i) == run[i].trigger

\* The guards of executePrepared passed; one request, never repeated by the submitter.
Submit(i) ==
    /\ run[i].at = "guard"
    /\ wire' = wire \cup {[instrument |-> i, trigger |-> run[i].trigger, key |-> Key(i)]}
    /\ Goto(i, "submit")
    /\ UNCHANGED <<configured, stopping, waiting, startIndex, bucket, order, placed, passed, restarts>>

\* The report of a run: a closed gate, an exception, an answer, or a timeout of the request.
Finish(i) ==
    /\ run[i].at # "idle"
    /\ run' = [run EXCEPT ![i] = NoRun]
    /\ UNCHANGED <<configured, stopping, waiting, startIndex, bucket, wire, order, placed, passed, restarts>>

----------------------------------------------------------------------------
(* The execution engine, the market and the processes *)

\* A known client order id is a duplicate or a conflict; else one live intent per instrument.
Receive(r) ==
    /\ r \in wire
    /\ wire' = wire \ {r}
    /\ LET new == order[r.instrument][r.key] = "none" /\ ~Exposed(r.instrument) IN
       \/ /\ new
          /\ order' = [order EXCEPT ![r.instrument][r.key] = "live"]
          /\ placed' = [placed EXCEPT ![r.instrument][r.trigger] = @ + 1]
       \/ UNCHANGED <<order, placed>>     \* duplicate, conflict, refused, or lost
    /\ UNCHANGED <<configured, stopping, waiting, startIndex, run, bucket, passed, restarts>>

OrderEnds(i, k) ==
    /\ order[i][k] = "live"
    /\ order' = [order EXCEPT ![i][k] = "done"]
    /\ UNCHANGED <<configured, stopping, waiting, startIndex, run, bucket, wire, placed, passed, restarts>>

NextBucket ==
    /\ bucket < MaxBucket
    /\ bucket' = bucket + 1
    /\ UNCHANGED <<configured, stopping, waiting, startIndex, run, wire, order, placed, passed, restarts>>

\* The timers are cleared; runs in flight and a cycle in its await go on.
Stop ==
    /\ ~stopping
    /\ stopping' = TRUE
    /\ UNCHANGED <<configured, waiting, startIndex, run, bucket, wire, order, placed, passed, restarts>>

\* With or without stop(), drained or timed out; requests on the wire still arrive.
Restart ==
    /\ restarts < MaxRestarts
    /\ restarts' = restarts + 1
    /\ stopping' = FALSE
    /\ waiting' = 0
    /\ startIndex' = 0
    /\ run' = [i \in Instrument |-> NoRun]
    /\ passed' = [i \in Instrument |-> 0]
    /\ UNCHANGED <<configured, bucket, wire, order, placed>>

Init ==
    /\ configured \in BOOLEAN
    /\ stopping = FALSE /\ waiting = 0 /\ startIndex = 0
    /\ run = [i \in Instrument |-> NoRun]
    /\ bucket = 1
    /\ wire = {}
    /\ order = [i \in Instrument |-> [k \in Bucket |-> "none"]]
    /\ placed = [i \in Instrument |-> [k \in Bucket |-> 0]]
    /\ passed = [i \in Instrument |-> 0]
    /\ restarts = 0

Next ==
    \/ ConfiguredCycle \/ LegacyCycle \/ Synced
    \/ \E i \in Instrument : Check(i) \/ Evaluate(i) \/ Submit(i) \/ Finish(i)
    \/ \E r \in wire : Receive(r)
    \/ \E i \in Instrument, k \in Bucket : OrderEnds(i, k)
    \/ NextBucket \/ Stop \/ Restart

Spec == Init /\ [][Next]_vars

----------------------------------------------------------------------------
(* Properties *)

TypeOK ==
    /\ configured \in BOOLEAN /\ stopping \in BOOLEAN
    /\ waiting \in 0..MaxWaiting
    /\ startIndex \in Instrument
    /\ run \in [Instrument -> Runs]
    /\ bucket \in Bucket
    /\ wire \subseteq Requests
    /\ order \in [Instrument -> [Bucket -> {"none", "live", "done"}]]
    /\ placed \in [Instrument -> [Bucket -> Nat]]
    /\ passed \in [Instrument -> 0..N]
    /\ restarts \in 0..MaxRestarts
    /\ Cardinality(InFlight) <= MaxConcurrent     \* ticks and runOnce that overlap share it

\* A trigger trades once: however often it is evaluated, by overlapping cycles, after
\* timeouts, by the next process, and even after its first order has come and gone.
OneOrderPerTrigger == \A i \in Instrument, t \in Bucket : placed[i][t] <= 1

\* stop() refuses new work, that of a cycle waiting for the strategy state included.
StoppedStartsNothing ==
    [][stopping /\ stopping' => {i \in Instrument : run'[i].at # "idle"} \subseteq InFlight]_vars

\* The cap starves nobody of the configured loop whose runs end before the next cycle:
\* N cycles in a row start every instrument.
RotationReachesAll == configured => \A i \in Instrument : passed[i] < N

=============================================================================
