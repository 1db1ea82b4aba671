---------------------------- MODULE ReadRecovery ----------------------------
(***************************************************************************)
(* The recovery of the market data readers of the ingestion service: the   *)
(* controller (auto-bootstrap.ts), the session it opens and retires        *)
(* (read-recovery-session.ts), the fence of the market writes              *)
(* (publication-fence.ts) and the wiring of index.ts.                      *)
(*                                                                         *)
(* The controller launches a bootstrap, the flight: drain the writes of    *)
(* the session before, connect, probe, prepare history, publish.  A lost   *)
(* connection, a machine that slept, a failed probe or an operator         *)
(* invalidates everything that runs; what is on its way then finishes on   *)
(* its own.  Operator calls are serialized and await their predecessors.   *)
(*                                                                         *)
(* A generation is only compared with the present one, so a bit says of    *)
(* each piece of work whether it is still of the present generation.  The  *)
(* state of the process is one record and its methods are functions on     *)
(* it.  Contracts, candles and backfill are abstracted to a preparation    *)
(* that may fail; schedules to an invalidation that settles or fails.      *)
(***************************************************************************)
EXTENDS Naturals, Sequences, FiniteSets

CONSTANTS
    \* @type: Int;
    MaxTicks,       \* bound: market events in the fence at once
    \* @type: Int;
    MaxControls,    \* bound: operator calls
    \* @type: Int;
    MaxFaults       \* bound: losses, sleeps, failures and restarts

RecoveryAssumption == MaxTicks \in Nat \ {0} /\ MaxControls \in Nat /\ MaxFaults \in Nat

VARIABLES
    auto,       \* INGESTION_AUTO_BOOTSTRAP_ENABLED
    durable,    \* ingestion_auto_control.manually_stopped
    proc,       \* the memory of the process
    controls,   \* operator calls that have not returned, in order
    intact,     \* nothing broke the readings since the last launch (history)
    asked,      \* operator calls so far
    faults      \* faults so far

vars == <<auto, durable, proc, controls, intact, asked, faults>>

Stage == {"none", "drain", "connect", "probe", "prepare", "refresh"}
Write == {"none", "fresh", "retired"}

Process(stop) ==
    [stopped |-> stop, closed |-> FALSE, needed |-> TRUE, revoked |-> FALSE,
     cooling |-> FALSE,         \* nextAttemptAt is ahead
     flight |-> "none", fresh |-> FALSE,
     probing |-> FALSE, alive |-> FALSE,    \* lastProbeSuccess is set
     gap |-> FALSE,             \* the clock jumped since lastTickAt
     connected |-> FALSE, subscribed |-> FALSE,
     paused |-> FALSE,          \* nativeRefreshPaused
     writes |-> <<>>,           \* the tail of the fence: is each still fresh
     native |-> "none",         \* SessionNativeRefresh.running
     invalid |-> "done"]        \* ReadRecoverySession.invalidating

-----------------------------------------------------------------------------
(* The methods of the controller and the session *)

\* ReadRecoverySession.invalidate; disconnect aborts a probe, which then counts as failed.
ReadsInvalidated(p) ==
    [p EXCEPT !.paused = TRUE,
              !.writes = [i \in DOMAIN @ |-> FALSE],
              !.native = IF @ = "none" THEN "none" ELSE "retired",
              !.connected = FALSE, !.subscribed = FALSE,
              !.invalid = "pending",
              !.probing = FALSE,
              !.cooling = @ \/ (p.probing /\ ~p.stopped /\ ~p.closed)]

Invalidated(p) ==
    IF p.revoked THEN p
    ELSE ReadsInvalidated([p EXCEPT !.revoked = TRUE, !.needed = TRUE,
                                    !.fresh = FALSE, !.alive = FALSE])

Inhibited(p) == Invalidated([p EXCEPT !.stopped = TRUE])

Watching(p) == auto /\ ~p.stopped /\ ~p.closed

\* continuous(): what it does ...
Checked(p) == IF Watching(p) /\ p.gap THEN Invalidated([p EXCEPT !.gap = FALSE]) ELSE p

\* ... and what it answers then.
Continuous(p) == Watching(p) => ~p.revoked

(* Mutation of Current: a revoked reader is recognised by the clock alone. *)
CurrentByClock(p) == ~p.closed /\ ~p.stopped /\ Continuous(p)

Current(p) == ~p.closed /\ ~p.stopped /\ p.fresh /\ Continuous(p)

MayLaunch(p) == p.flight = "none" /\ ~p.closed /\ ~p.stopped

\* launch(), up to the first await of the bootstrap.
Launched(p) ==
    [p EXCEPT !.revoked = FALSE, !.gap = FALSE, !.flight = "drain", !.fresh = TRUE, !.paused = TRUE]

\* The catch of launch().
Failed(p) ==
    [Invalidated([p EXCEPT !.needed = TRUE]) EXCEPT
        !.cooling = TRUE, !.flight = "none", !.fresh = FALSE]

Ready(p) == p.connected /\ p.subscribed

(* Mutation of Drained: the fence of the market writes is not awaited.     *)
DrainedNative(p) == p.native = "none" /\ p.invalid # "pending"

Drained(p) == p.writes = <<>> /\ p.native = "none" /\ p.invalid # "pending"

\* drain() rejects as soon as the invalidation of the schedules has failed.
DrainEnds(p) == p.invalid = "failed" \/ Drained(p)

\* It awaits the invalidation it found and may leave out one that has revoked its flight since.
Overtaken(p) == p.revoked /\ p.writes = <<>> /\ p.native = "none"

Fault == faults < MaxFaults /\ faults' = faults + 1

-----------------------------------------------------------------------------
(* The timer *)

Tick ==
    LET p == [Checked(proc) EXCEPT !.gap = FALSE]
        busy == controls # <<>> \/ p.flight # "none" \/ p.probing \/ p.cooling
    IN
    /\ Watching(proc)
    /\ \/ busy /\ proc' = p /\ UNCHANGED intact
       \/ ~busy /\ ~p.needed /\ Ready(p) /\ UNCHANGED intact
          /\ \E due \in BOOLEAN : proc' = [p EXCEPT !.probing = due]
       \/ ~busy /\ (p.needed \/ ~Ready(p)) /\ proc' = Launched(p) /\ intact' = TRUE
    /\ UNCHANGED <<auto, durable, controls, asked, faults>>

\* The backoff of an attempt that failed runs out.
Cool ==
    /\ proc.cooling
    /\ proc' = [proc EXCEPT !.cooling = FALSE]
    /\ UNCHANGED <<auto, durable, controls, intact, asked, faults>>

ProbeSettles ==
    LET p == Checked([proc EXCEPT !.probing = FALSE]) IN
    /\ proc.probing
    /\ \/ proc' = [p EXCEPT !.alive = @ \/ (Watching(p) /\ Continuous(p))] /\ UNCHANGED faults
       \/ proc' = [Invalidated([proc EXCEPT !.probing = FALSE]) EXCEPT !.cooling = TRUE] /\ Fault
    /\ UNCHANGED <<auto, durable, controls, intact, asked>>

-----------------------------------------------------------------------------
(* The flight *)

\* One await of the bootstrap ends: it goes on, fails, or finds that it is interrupted.
Await(stage, next) ==
    LET p == Checked(proc) IN
    /\ proc.flight = stage
    /\ \/ Current(p) /\ proc' = next /\ UNCHANGED faults
       \/ ~Current(p) /\ proc' = Failed(p) /\ UNCHANGED faults
       \/ Current(p) /\ proc' = Failed(p) /\ Fault
    /\ UNCHANGED <<auto, durable, controls, intact, asked>>

ToConnect(p) == IF p.invalid = "failed" THEN Failed(p) ELSE [p EXCEPT !.flight = "connect"]
ToProbe(p) == [p EXCEPT !.flight = "probe", !.connected = TRUE]
ToPrepare(p) == [p EXCEPT !.flight = "prepare"]
ToRefresh(p) == [p EXCEPT !.flight = "refresh", !.subscribed = FALSE, !.native = "fresh"]

\* The session is published, and certified by the controller.
Certified(p) ==
    [p EXCEPT !.flight = "none", !.fresh = FALSE, !.paused = FALSE, !.subscribed = TRUE,
              !.needed = FALSE, !.cooling = FALSE]

Advance ==
    LET p == Checked(proc) IN
    \/ (DrainEnds(proc) \/ Overtaken(proc)) /\ Await("drain", ToConnect(p))
    \/ Await("connect", ToProbe(p))
    \/ Await("probe", ToPrepare(p))
    \/ Await("prepare", ToRefresh(p))
    \/ proc.native = "none" /\ Await("refresh", Certified(p))

-----------------------------------------------------------------------------
(* The readers and their writes *)

\* A market event passes the listener and enters the fence.
MarketTick ==
    LET p == Checked(proc) IN
    /\ Ready(proc) /\ Len(proc.writes) < MaxTicks
    /\ proc' = IF Continuous(p) /\ ~p.paused
               THEN [p EXCEPT !.writes = Append(@, TRUE)] ELSE p
    /\ UNCHANGED <<auto, durable, controls, intact, asked, faults>>

\* The first write ends; of those behind it, only what is still current begins.
PublicationDone ==
    LET p == Checked(proc)
        begins == {i \in 2..Len(p.writes) : p.writes[i] /\ ~p.paused /\ Continuous(p)}
    IN
    /\ proc.writes # <<>>
    /\ proc' = [p EXCEPT !.writes = [i \in 1..Cardinality(begins) |-> TRUE]]
    /\ UNCHANGED <<auto, durable, controls, intact, asked, faults>>

\* The minute timer of the native candles, outside a bootstrap.
NativeRefresh ==
    LET p == Checked(proc) IN
    /\ ~proc.paused /\ proc.flight = "none" /\ proc.connected /\ proc.native = "none"
    /\ proc' = IF Continuous(p) THEN [p EXCEPT !.native = "fresh"] ELSE p
    /\ UNCHANGED <<auto, durable, controls, intact, asked, faults>>

NativeDone ==
    /\ proc.native # "none"
    /\ proc' = [Checked(proc) EXCEPT !.native = "none"]
    /\ UNCHANGED <<auto, durable, controls, intact, asked, faults>>

InvalidationSettles ==
    /\ proc.invalid = "pending"
    /\ \/ proc' = [proc EXCEPT !.invalid = "done"] /\ UNCHANGED faults
       \/ proc' = [proc EXCEPT !.invalid = "failed"] /\ Fault
    /\ UNCHANGED <<auto, durable, controls, intact, asked>>

LoseConnection ==
    /\ proc.connected
    /\ proc' = Invalidated(proc)
    /\ intact' = FALSE
    /\ Fault
    /\ UNCHANGED <<auto, durable, controls, asked>>

\* The machine sleeps for as long as continuous() tolerates, or its clock is set back.
Sleep ==
    /\ Watching(proc) /\ ~proc.gap
    /\ proc.connected \/ proc.flight # "none"
    /\ proc' = [proc EXCEPT !.gap = TRUE]
    /\ intact' = FALSE
    /\ Fault
    /\ UNCHANGED <<auto, durable, controls, asked>>

-----------------------------------------------------------------------------
(* The operator *)

Ask(kind) ==
    /\ asked < MaxControls
    /\ asked' = asked + 1
    /\ controls' = Append(controls, [kind |-> kind, at |-> "queued"])
    /\ UNCHANGED <<auto, durable, faults>>

RequestStart == Ask("start") /\ UNCHANGED <<proc, intact>>

RequestStop == Ask("stop") /\ proc' = Inhibited(proc) /\ intact' = FALSE

RequestShutdown ==
    /\ ~proc.closed
    /\ Ask("shutdown")
    /\ proc' = Inhibited([proc EXCEPT !.closed = TRUE])
    /\ intact' = FALSE

Call(kind, at) == controls # <<>> /\ Head(controls) = [kind |-> kind, at |-> at]
Goes(at) == controls' = [controls EXCEPT ![1].at = at]
Returns == controls' = Tail(controls)

(* Mutation of StopInhibits: the inhibition of the request is enough.      *)
StopInhibitedBefore(p) == p

\* A start that was ahead of the stop has resumed the process meanwhile.
StopInhibits(p) == Inhibited(p)

BeginControl ==
    /\ \/ Call("start", "queued") /\ UNCHANGED <<proc, intact>>
          /\ IF proc.closed THEN Returns ELSE Goes("write")
       \/ Call("stop", "queued") /\ proc' = StopInhibits(proc) /\ intact' = FALSE /\ Goes("write")
       \/ Call("shutdown", "queued") /\ Goes("drain") /\ UNCHANGED <<proc, intact>>
    /\ UNCHANGED <<auto, durable, asked, faults>>

\* The durable flag; a write that fails may have been applied.
StartWritten ==
    /\ Call("start", "write")
    /\ \/ LET p == [proc EXCEPT !.stopped = FALSE, !.needed = TRUE, !.cooling = FALSE] IN
          /\ durable' = FALSE
          /\ proc' = IF MayLaunch(p) THEN Launched(p) ELSE p
          /\ intact' = (MayLaunch(p) \/ intact)
          /\ Returns
          /\ UNCHANGED faults
       \/ /\ durable' \in {durable, FALSE}
          /\ proc' = Inhibited(proc)
          /\ intact' = FALSE
          /\ Goes("drain")
          /\ Fault
    /\ UNCHANGED <<auto, asked>>

StopWritten ==
    /\ Call("stop", "write")
    /\ \/ durable' = TRUE /\ UNCHANGED faults
       \/ durable' \in {durable, TRUE} /\ Fault
    /\ Goes("drain")
    /\ UNCHANGED <<auto, proc, intact, asked>>

\* drainAndStop: the flight and the probe first, then the writes, then the connection.
FlightDrained ==
    /\ \E kind \in {"start", "stop", "shutdown"} : Call(kind, "drain")
    /\ ~proc.probing /\ proc.flight = "none"
    /\ Goes("retire")
    /\ UNCHANGED <<auto, durable, proc, intact, asked, faults>>

SessionRetired ==
    /\ \E kind \in {"start", "stop", "shutdown"} : Call(kind, "retire")
    /\ DrainEnds(proc)
    /\ proc' = IF proc.invalid = "failed" THEN proc
               ELSE [proc EXCEPT !.connected = FALSE, !.subscribed = FALSE]
    /\ Returns
    /\ UNCHANGED <<auto, durable, intact, asked, faults>>

\* The process dies, or has shut down, and a new one reads the durable flag.
Restart ==
    /\ proc' = Process(durable)
    /\ controls' = <<>>
    /\ intact' = FALSE
    /\ Fault
    /\ UNCHANGED <<auto, durable, asked>>

-----------------------------------------------------------------------------

Init ==
    /\ auto \in BOOLEAN
    /\ durable \in BOOLEAN
    /\ proc = Process(durable)
    /\ controls = <<>>
    /\ intact = FALSE
    /\ asked = 0
    /\ faults = 0

Control == BeginControl \/ StartWritten \/ StopWritten \/ FlightDrained \/ SessionRetired
Controller == Tick \/ Cool \/ Advance \/ Control
Storage == PublicationDone \/ NativeDone \/ InvalidationSettles \/ ProbeSettles

Next ==
    \/ Controller \/ Storage
    \/ MarketTick \/ NativeRefresh \/ LoseConnection \/ Sleep
    \/ RequestStart \/ RequestStop \/ RequestShutdown \/ Restart

\* The timer fires and awaited work settles: every wait of the code has a timeout but
\* those for the database, of which this is an assumption.
Fairness == WF_vars(Controller) /\ WF_vars(Storage)

Spec == Init /\ [][Next]_vars /\ Fairness

-----------------------------------------------------------------------------
(* Properties *)

\* The types of the state.
TypeOK ==
    /\ auto \in BOOLEAN /\ durable \in BOOLEAN /\ intact \in BOOLEAN
    /\ proc \in [stopped : BOOLEAN, closed : BOOLEAN, needed : BOOLEAN, revoked : BOOLEAN,
                 cooling : BOOLEAN, flight : Stage, fresh : BOOLEAN, probing : BOOLEAN,
                 alive : BOOLEAN, gap : BOOLEAN, connected : BOOLEAN, subscribed : BOOLEAN,
                 paused : BOOLEAN, writes : UNION {[1..n -> BOOLEAN] : n \in 0..MaxTicks},
                 native : Write, invalid : {"done", "pending", "failed"}]
    /\ asked \in 0..MaxControls /\ faults \in 0..MaxFaults
    /\ Len(controls) <= MaxControls

\* "A retired write cannot overwrite its successor" (publication-fence.ts): while a session
\* is being opened or is published, no write of an earlier one is on its way to storage.
RetiredWritesDrained ==
    (proc.subscribed \/ (proc.fresh /\ proc.flight \in {"connect", "probe", "prepare", "refresh"}))
        => proc.native # "retired" /\ \A i \in DOMAIN proc.writes : proc.writes[i]

\* "Keeps recovery behind a durable operator stop" (auto-bootstrap.ts): once the operator's
\* calls have returned, a process whose stop is durable is stopped, whichever start it raced
\* with; and a stopped process publishes nothing.
DurableStopHolds ==
    /\ (controls = <<>> /\ durable) => proc.stopped
    /\ proc.stopped => ~proc.subscribed

\* A recovery is certified, a probe counts and a market event is admitted to the fence of the
\* writes only if since the launch nothing broke the readings: no lost connection, no sleep,
\* no stop, even one that nobody has noticed yet (auto-bootstrap.ts, current() and
\* continuous()).
EvidenceIsUnbroken ==
    [][ \/ proc.needed /\ ~proc'.needed
        \/ ~proc.alive /\ proc'.alive
        \/ Len(proc'.writes) > Len(proc.writes)
        => intact ]_vars

\* Every operator call has returned and the process has recovered, unless it is stopped or
\* leaves recovery to its operator.
AtRest == controls = <<>> /\ (Watching(proc) => ~proc.needed)

\* Whatever faults and operator calls do to it, the process comes to rest, again and again.
ComesToRest == []<>AtRest

=============================================================================
