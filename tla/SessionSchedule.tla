-------------------------- MODULE SessionSchedule --------------------------
(***************************************************************************)
(* The evidence of one instrument's session schedule in the ingestion      *)
(* service: the row of instrument_session_schedules (db.ts) and the        *)
(* coordinator that refreshes and invalidates it                           *)
(* (session-schedule-refresh.ts).                                          *)
(*                                                                         *)
(* ensure() coalesces onto one refresh.  invalidate() may be called at any *)
(* time by a reader that is retired; its writes form a chain of their own  *)
(* and overtake the refresh between any two of its awaits.  A begin of     *)
(* either gives the row a new generation and the finish of a refresh is    *)
(* conditional on its own, so the model keeps, instead of generations, the *)
(* bit whether the row's is still that of the refresh.                     *)
(*                                                                         *)
(* The content of a schedule is abstracted: it is due for a refresh or     *)
(* not, and a fetch fails or not.                                          *)
(***************************************************************************)
EXTENDS Naturals, FiniteSets

CONSTANTS
    \* @type: Int;
    MaxInvalidations,   \* bound: calls of invalidate() by readers that are retired
    \* @type: Int;
    MaxTroubles         \* bound: failed queries and fetches, and restarts

ScheduleAssumption == MaxInvalidations \in Nat /\ MaxTroubles \in Nat

VARIABLES
    schedule,   \* the row: status, and the invalidation its evidence is newer than (history)
    version,    \* invalidationVersion, not reset by a restart
    settled,    \* writes of invalidate() that have returned, in their order
    lost,       \* those of them that have failed
    persisted,  \* the last invalidation the row has seen (history)
    ensure,     \* the refresh that runs
    initialized,
    recent,     \* lastAttempt is less than a minute ago
    called,     \* calls of invalidate() from outside
    troubles

vars == <<schedule, version, settled, lost, persisted, ensure, initialized, recent, called, troubles>>

Stage == {"idle", "own", "await", "yield", "read", "begin", "begun", "giveUp", "abandon",
          "fetch", "commit", "finish", "fail"}

\* until: the invalidation whose promise is awaited.
NoRefresh == [at |-> "idle", v |-> 0, until |-> 0, mine |-> FALSE]

Trouble == troubles < MaxTroubles /\ troubles' = troubles + 1

-----------------------------------------------------------------------------
(* Invalidation *)

Invalidate ==
    /\ called < MaxInvalidations
    /\ called' = called + 1
    /\ version' = version + 1
    /\ UNCHANGED <<schedule, settled, lost, persisted, ensure, initialized, recent, troubles>>

\* The next begin('FAILED') of the chain reaches the row.
Persisted ==
    /\ schedule' = [schedule EXCEPT !.status = "FAILED"]
    /\ persisted' = settled + 1
    /\ ensure' = [ensure EXCEPT !.mine = FALSE]

InvalidationSettles ==
    /\ settled < version
    /\ settled' = settled + 1
    /\ \/ Persisted /\ UNCHANGED <<lost, troubles>>
       \/ /\ lost' = lost \cup {settled + 1}
          /\ Persisted \/ UNCHANGED <<schedule, persisted, ensure>>
          /\ Trouble
    /\ UNCHANGED <<version, initialized, recent, called>>

-----------------------------------------------------------------------------
(* Refresh *)

At(stage) == ensure.at = stage
Goes(stage) == ensure' = [ensure EXCEPT !.at = stage]

\* await this.invalidating: the promise is that of the last invalidation so far.
Awaits(stage) == ensure' = [ensure EXCEPT !.at = stage, !.until = version]

Superseded == ensure.v # version
Answered == settled >= ensure.until
Rejected == ensure.until \in lost
Ends == ensure' = NoRefresh

rowVars == <<schedule, settled, lost, persisted>>

\* The refresh invalidates on its own account and awaits that.
OwnInvalidation ==
    /\ version' = version + 1
    /\ ensure' = [at |-> "own", v |-> version + 1, until |-> version + 1, mine |-> FALSE]

Ensure ==
    /\ At("idle")
    /\ IF initialized
       THEN /\ ensure' = [at |-> "await", v |-> version, until |-> version, mine |-> FALSE]
            /\ UNCHANGED version
       ELSE OwnInvalidation
    /\ initialized' = TRUE
    /\ UNCHANGED <<rowVars, recent, called, troubles>>

(* Mutation of Retry: an invalidation that failed only fails the refresh.  *)
NoRetry == Ends /\ UNCHANGED version

\* An invalidation that failed is made good before anything is read.
Retry == OwnInvalidation

InvalidationAwaited ==
    /\ At("own") \/ At("await")
    /\ Answered
    /\ \/ ~Rejected /\ Superseded /\ Awaits("yield") /\ UNCHANGED version
       \/ ~Rejected /\ ~Superseded /\ Goes("read") /\ UNCHANGED version
       \/ Rejected /\ (At("own") \/ Superseded) /\ Ends /\ UNCHANGED version
       \/ Rejected /\ At("await") /\ ~Superseded /\ Retry
    /\ UNCHANGED <<rowVars, initialized, recent, called, troubles>>

\* A refresh that is superseded, or done, ends when the invalidation it met has settled.
Yield ==
    /\ At("yield") /\ Answered
    /\ Ends
    /\ UNCHANGED <<rowVars, version, initialized, recent, called, troubles>>

Due == schedule.status # "READY" \/ schedule.aged

Read ==
    /\ At("read")
    /\ \/ Superseded /\ Awaits("yield") /\ UNCHANGED <<recent, troubles>>
       \/ ~Superseded /\ (~Due \/ recent) /\ Ends /\ UNCHANGED <<recent, troubles>>
       \/ ~Superseded /\ Due /\ ~recent /\ Goes("begin") /\ recent' = TRUE /\ UNCHANGED troubles
       \/ Ends /\ Trouble /\ UNCHANGED recent
    /\ UNCHANGED <<rowVars, version, initialized, called>>

Begin ==
    /\ At("begin")
    /\ \/ /\ schedule' = [schedule EXCEPT !.status = "REFRESHING"]
          /\ ensure' = [ensure EXCEPT !.at = "begun", !.mine = TRUE]
          /\ UNCHANGED troubles
       \/ /\ schedule' \in {schedule, [schedule EXCEPT !.status = "REFRESHING"]}
          /\ Ends
          /\ Trouble
    /\ UNCHANGED <<version, settled, lost, persisted, initialized, recent, called>>

Begun ==
    /\ At("begun")
    /\ IF Superseded THEN Awaits("giveUp") ELSE Goes("fetch")
    /\ UNCHANGED <<rowVars, version, initialized, recent, called, troubles>>

GiveUp ==
    /\ At("giveUp") /\ Answered
    /\ IF Rejected THEN Ends ELSE Goes("abandon")
    /\ UNCHANGED <<rowVars, version, initialized, recent, called, troubles>>

Fetch ==
    /\ At("fetch")
    /\ \/ Awaits("commit") /\ UNCHANGED troubles
       \/ Goes("fail") /\ Trouble
    /\ UNCHANGED <<rowVars, version, initialized, recent, called>>

Commit ==
    /\ At("commit") /\ Answered
    /\ Goes(IF Rejected THEN "fail" ELSE "finish")
    /\ UNCHANGED <<rowVars, version, initialized, recent, called, troubles>>

Finishable == ensure.mine /\ schedule.status = "REFRESHING"

Finished(outcome) ==
    IF ~Finishable THEN schedule
    ELSE IF outcome = "READY" THEN [status |-> "READY", of |-> ensure.v, aged |-> FALSE]
    ELSE [schedule EXCEPT !.status = "FAILED"]

Finish ==
    /\ At("finish")
    /\ \/ schedule' = Finished("READY") /\ Awaits("yield") /\ UNCHANGED troubles
       \/ schedule' \in {schedule, Finished("READY")} /\ Goes("fail") /\ Trouble
    /\ UNCHANGED <<version, settled, lost, persisted, initialized, recent, called>>

\* finish(generation, null)
Abandon ==
    /\ At("abandon") \/ At("fail")
    /\ \/ /\ schedule' = Finished("FAILED")
          /\ IF At("fail") THEN Awaits("yield") ELSE Ends
          /\ UNCHANGED troubles
       \/ schedule' \in {schedule, Finished("FAILED")} /\ Ends /\ Trouble
    /\ UNCHANGED <<version, settled, lost, persisted, initialized, recent, called>>

-----------------------------------------------------------------------------
(* Time and restarts *)

Minute ==
    /\ recent
    /\ recent' = FALSE
    /\ UNCHANGED <<rowVars, version, ensure, initialized, called, troubles>>

\* An hour passes, a session opens or the coverage ends.
Age ==
    /\ schedule.status = "READY" /\ ~schedule.aged
    /\ schedule' = [schedule EXCEPT !.aged = TRUE]
    /\ UNCHANGED <<version, settled, lost, persisted, ensure, initialized, recent, called, troubles>>

\* A new process has invalidated the row before it serves anything.
Restart ==
    /\ schedule' = [schedule EXCEPT !.status = "FAILED"]
    /\ version' = version + 1 /\ settled' = version + 1 /\ persisted' = version + 1
    /\ lost' = {}
    /\ ensure' = NoRefresh
    /\ initialized' = FALSE
    /\ recent' = FALSE
    /\ Trouble
    /\ UNCHANGED called

-----------------------------------------------------------------------------

Init ==
    /\ schedule = [status |-> "FAILED", of |-> 0, aged |-> FALSE]
    /\ version = 0 /\ settled = 0 /\ persisted = 0
    /\ lost = {}
    /\ ensure = NoRefresh
    /\ initialized = FALSE
    /\ recent = FALSE
    /\ called = 0
    /\ troubles = 0

Refresh ==
    \/ Ensure \/ InvalidationAwaited \/ Yield \/ Read \/ Begin \/ Begun \/ GiveUp
    \/ Fetch \/ Commit \/ Finish \/ Abandon

Elapsed == InvalidationSettles \/ Minute

Next == Refresh \/ Elapsed \/ Invalidate \/ Age \/ Restart

\* The minute timer of the native candles calls ensure(); queries and fetches settle.
Fairness == WF_vars(Refresh) /\ WF_vars(Elapsed)

Spec == Init /\ [][Next]_vars /\ Fairness

-----------------------------------------------------------------------------
(* Properties *)

\* The types of the state; every invalidation beyond the calls is owed to a trouble or a
\* first refresh.
TypeOK ==
    /\ schedule \in [status : {"FAILED", "REFRESHING", "READY"}, of : Nat, aged : BOOLEAN]
    /\ version <= MaxInvalidations + 2 * MaxTroubles + 1
    /\ settled \in 0..version /\ persisted \in 0..settled /\ lost \subseteq 1..settled
    /\ ensure \in [at : Stage, v : 0..version, until : 0..version, mine : BOOLEAN]
    /\ initialized \in BOOLEAN /\ recent \in BOOLEAN
    /\ called \in 0..MaxInvalidations /\ troubles \in 0..MaxTroubles

\* Evidence that readers take as READY was fetched after the last invalidation that reached
\* the row: "preserving the generation fence across in-flight callbacks"
\* (session-schedule-refresh.ts, db.ts finishSessionSchedule).
ReadyIsUninvalidated == schedule.status = "READY" => schedule.of >= persisted

\* The schedule is READY again and again: no interruption, failed query or failed
\* invalidation leaves a row that is never refreshed.
ScheduleRecovers == []<>(schedule.status = "READY")

=============================================================================
