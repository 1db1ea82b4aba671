-------------------------- MODULE ResearchAttempts --------------------------
(***************************************************************************)
(* The attempts of the research agent to refresh the news of one issuer    *)
(* (instrument-research/store.ts, marketaux part, and research-refresh.ts):*)
(* every call to the paid provider belongs to an attempt of the durable    *)
(* ledger, an attempt ends in a snapshot, a failure or an unknown outcome, *)
(* and an unresolved attempt closes the ledger until it is recovered.      *)
(*                                                                         *)
(* An attempt makes several calls, one after the other; call is the latest *)
(* (the earlier ones succeeded).  Budget, provider cooldown and spacing    *)
(* refuse a step nondeterministically.  Attempts are numbered in the order *)
(* of their claims, which the issuer's advisory lock makes total.  The     *)
(* refresh lock of the agents is left out: the connection that holds it    *)
(* may break without its holder noticing, so it excludes nobody.           *)
(***************************************************************************)
EXTENDS Naturals, FiniteSets

CONSTANTS
    \* @type: Set(WORKER);
    Workers,        \* agent processes
    \* @type: Int;
    MaxClaims,      \* bound: attempts claimed
    \* @type: Int;
    MaxReboots      \* bound: changes of the clock domain

ResearchAssumption == MaxClaims \in Nat \ {0} /\ MaxReboots \in Nat

Attempt == 1..MaxClaims

VARIABLES
    att,        \* att[a]: row of research_marketaux_attempts, with its clock
    held,       \* <<attempt, state>> of the predecessors of the prepared operator challenge
    tick,       \* tick[w]: the refresh in progress in process w
    head,       \* the news of the snapshot head: attempt that wrote it, and whether complete
    domain      \* clock domain of the running processes (a boot of the host)

vars == <<att, held, tick, head, domain>>

NoAttempt == [state |-> "none", clock |-> "ahead", call |-> "none", recovered |-> FALSE, domain |-> 0]
NoTick == [at |-> "idle", attempt |-> 0, outcome |-> "FAILED"]

Rows == [state : {"none", "STARTED", "FINALIZING", "SUCCEEDED", "FAILED", "UNKNOWN"},
         clock : {"ahead", "late", "settled"},
         call : {"none", "open", "succeeded", "failed", "unknown"},
         recovered : BOOLEAN, domain : 0..MaxReboots]
Ticks == [at : {"idle", "claim", "work", "send", "wait", "record", "failing", "publish", "settle"},
          attempt : 0..MaxClaims, outcome : {"SUCCEEDED", "FAILED", "UNKNOWN"}]

Unresolved ==
    {a \in Attempt : att[a].state \in {"STARTED", "FINALIZING", "UNKNOWN"} /\ ~att[a].recovered}

Predecessors == {<<a, att[a].state>> : a \in Unresolved}
Held == {p[1] : p \in held}

At(w, at) == tick[w].at = at
Goto(w, at) == tick' = [tick EXCEPT ![w].at = at]
Fails(w, outcome) == tick' = [tick EXCEPT ![w].at = "failing", ![w].outcome = outcome]
Ends(w) == tick' = [tick EXCEPT ![w] = NoTick]

Mine(w) == att[tick[w].attempt]
Set(w, field, value) == att' = [att EXCEPT ![tick[w].attempt][field] = value]

----------------------------------------------------------------------------
(* Admission *)

(* Mutation of Recovered: an attempt that is UNKNOWN already needs nothing. *)
RecoveredAbandoned(rows) ==
    [a \in Attempt |-> IF a \in rows /\ att[a].state # "UNKNOWN"
        THEN [att[a] EXCEPT !.state = "UNKNOWN", !.recovered = TRUE,
                            !.call = IF @ = "open" THEN "unknown" ELSE @]
        ELSE att[a]]

\* A recovery closes the calls it finds open; the row is UNKNOWN for good.
Recovered(rows) ==
    [a \in Attempt |-> IF a \in rows
        THEN [att[a] EXCEPT !.state = "UNKNOWN", !.recovered = TRUE,
                            !.call = IF @ = "open" THEN "unknown" ELSE @]
        ELSE att[a]]

\* recoverMarketauxAttempts: deadline and margin are over, on the clock of this boot.
Recover(w) ==
    /\ At(w, "idle")
    /\ held = {}
    /\ \A a \in Unresolved : att[a].clock = "settled" /\ att[a].domain = domain
    /\ att' = Recovered(Unresolved)
    /\ Goto(w, "claim")
    /\ UNCHANGED <<held, head, domain>>

(* Mutation of Blocks: an attempt that only has to publish is over.        *)
BlocksUntilFence == {a \in Unresolved : att[a].state # "FINALIZING"}

(* Mutation of Blocks: an attempt past its deadline is over.               *)
BlocksUntilDeadline == {a \in Unresolved : att[a].clock = "ahead"}

Blocks == Unresolved

Claim(w) ==
    /\ At(w, "claim")
    /\ \/ \E a \in Attempt :
            /\ Blocks = {} /\ held = {}
            /\ att[a].state = "none" /\ \A b \in 1..(a - 1) : att[b].state # "none"
            /\ att' = [att EXCEPT ![a].state = "STARTED", ![a].domain = domain]
            /\ tick' = [tick EXCEPT ![w] = [NoTick EXCEPT !.at = "work", !.attempt = a]]
       \/ Ends(w) /\ UNCHANGED att
    /\ UNCHANGED <<held, head, domain>>

----------------------------------------------------------------------------
(* The calls of an attempt *)

\* A reservation is durable before its call; it may be refused, and it may be committed
\* by a transaction whose answer is lost.
Reserve(w) ==
    /\ At(w, "work")
    /\ \/ /\ Mine(w).state = "STARTED" /\ Mine(w).clock = "ahead" /\ held = {}
          /\ Set(w, "call", "open")
          /\ Goto(w, "send") \/ Fails(w, "FAILED")
       \/ Fails(w, "FAILED") /\ UNCHANGED att
    /\ UNCHANGED <<held, head, domain>>

\* assertActive: the last look at the clocks before the request leaves.
Send(w) ==
    /\ At(w, "send")
    /\ \/ Mine(w).clock = "ahead" /\ Goto(w, "wait")
       \/ tick' = [tick EXCEPT ![w].at = "record", ![w].outcome = "UNKNOWN"]
    /\ UNCHANGED <<att, held, head, domain>>

\* The body, an HTTP status, or anything else, the abort at the deadline included.
Answer(w) ==
    /\ At(w, "wait")
    /\ \E outcome \in {"SUCCEEDED", "FAILED", "UNKNOWN"} :
         tick' = [tick EXCEPT ![w].at = "record", ![w].outcome = outcome]
    /\ UNCHANGED <<att, held, head, domain>>

CallOf(outcome) == CASE outcome = "SUCCEEDED" -> "succeeded"
                     [] outcome = "FAILED" -> "failed"
                     [] OTHER -> "unknown"

\* recordMarketauxCallOutcome; when it throws the outcome stays open and the attempt fails.
Record(w) ==
    /\ At(w, "record")
    /\ \/ /\ Mine(w).state = "STARTED" /\ Mine(w).call = "open"
          /\ tick[w].outcome = "SUCCEEDED" => Mine(w).clock = "ahead" /\ held = {}
          /\ Set(w, "call", CallOf(tick[w].outcome))
          /\ IF tick[w].outcome = "SUCCEEDED" THEN Goto(w, "work") ELSE Goto(w, "failing")
       \/ Fails(w, "UNKNOWN") /\ UNCHANGED att
    /\ UNCHANGED <<held, head, domain>>

----------------------------------------------------------------------------
(* The end of an attempt: a fence of its own transaction, then the publication *)

MayFence(w) == Mine(w).state = "STARTED" /\ held = {}

FenceSuccess(w) ==
    /\ At(w, "work") /\ Mine(w).call = "succeeded"
    /\ \/ /\ MayFence(w) /\ Mine(w).clock = "ahead"
          /\ Set(w, "state", "FINALIZING")
          /\ Goto(w, "publish")
       \/ Ends(w) /\ UNCHANGED att
    /\ UNCHANGED <<held, head, domain>>

FenceFailure(w) ==
    /\ At(w, "failing")
    /\ \/ /\ MayFence(w)
          /\ Set(w, "state", "FINALIZING")
          /\ Goto(w, "settle")
       \/ Ends(w) /\ UNCHANGED att
    /\ UNCHANGED <<held, head, domain>>

\* finalizeMarketauxSuccess merges only this source into the locked head.
Publish(w) ==
    /\ At(w, "publish")
    /\ \/ /\ Mine(w).state = "FINALIZING" /\ Mine(w).clock = "ahead"
          /\ Set(w, "state", "SUCCEEDED")
          /\ head' = [by |-> tick[w].attempt, complete |-> TRUE]
       \/ UNCHANGED <<att, head>>
    /\ Ends(w)
    /\ UNCHANGED <<held, domain>>

Known(w) == Mine(w).call \in {"none", "succeeded", "failed"}

(* Mutation of Decided: the outcomes of the calls are enough.              *)
DecidedByCalls(w) == tick[w].outcome = "FAILED" /\ Known(w)

\* Past the deadline of its attempt a process knows nothing any more.
Decided(w) == tick[w].outcome = "FAILED" /\ Known(w) /\ Mine(w).clock = "ahead"

\* finishMarketauxFailure: an unknown call or a late process leaves the attempt unresolved;
\* a known failure keeps the fresh news of the head when it is transient, or replaces them.
Settle(w) ==
    /\ At(w, "settle")
    /\ \/ /\ Mine(w).state = "FINALIZING"
          /\ \/ /\ ~Decided(w)
                /\ Set(w, "state", "UNKNOWN")
                /\ UNCHANGED head
             \/ /\ Decided(w)
                /\ Set(w, "state", "FAILED")
                /\ \/ head.complete /\ UNCHANGED head
                   \/ head' = [by |-> tick[w].attempt, complete |-> FALSE]
       \/ UNCHANGED <<att, head>>
    /\ Ends(w)
    /\ UNCHANGED <<held, domain>>

----------------------------------------------------------------------------
(* The operator, time and crashes *)

Late == \A a \in Unresolved : att[a].state = "UNKNOWN" \/ att[a].clock # "ahead"

\* A challenge names the predecessors it found and holds the ledger.
PrepareRecovery ==
    /\ held = {}
    /\ Unresolved # {} /\ Late
    /\ held' = Predecessors
    /\ UNCHANGED <<att, tick, head, domain>>

\* A challenge gone stale is replaced by one that names its predecessors too.
SupersedeRecovery ==
    /\ held # {} /\ held # Predecessors
    /\ Held \subseteq Unresolved /\ Late
    /\ held' = Predecessors
    /\ UNCHANGED <<att, tick, head, domain>>

\* The evidence, taken to be true, says that every producer was stopped.
CommitRecovery ==
    /\ held # {} /\ held = Predecessors /\ Late
    /\ \A w \in Workers : At(w, "idle")
    /\ att' = Recovered(Held)
    /\ held' = {}
    /\ UNCHANGED <<tick, head, domain>>

DeadlinePasses(a) ==
    /\ att[a].state # "none" /\ att[a].clock = "ahead"
    /\ att' = [att EXCEPT ![a].clock = "late"]
    /\ UNCHANGED <<held, tick, head, domain>>

\* A call is aborted at its own deadline, within the margin of its attempt's.
MarginPasses(a) ==
    /\ att[a].clock = "late"
    /\ \A w \in Workers : At(w, "wait") => tick[w].attempt # a
    /\ att' = [att EXCEPT ![a].clock = "settled"]
    /\ UNCHANGED <<held, tick, head, domain>>

Crash(w) ==
    /\ ~At(w, "idle")
    /\ Ends(w)
    /\ UNCHANGED <<att, held, head, domain>>

Reboot ==
    /\ domain < MaxReboots
    /\ domain' = domain + 1
    /\ tick' = [w \in Workers |-> NoTick]
    /\ UNCHANGED <<att, held, head>>

Init ==
    /\ att = [a \in Attempt |-> NoAttempt]
    /\ held = {}
    /\ tick = [w \in Workers |-> NoTick]
    /\ head = [by |-> 0, complete |-> FALSE]
    /\ domain = 0

Refresh(w) ==
    \/ Recover(w) \/ Claim(w) \/ Reserve(w) \/ Send(w) \/ Answer(w) \/ Record(w)
    \/ FenceSuccess(w) \/ FenceFailure(w) \/ Publish(w) \/ Settle(w)

Time == \E a \in Attempt : DeadlinePasses(a) \/ MarginPasses(a)

Next ==
    \/ \E w \in Workers : Refresh(w) \/ Crash(w)
    \/ Time
    \/ PrepareRecovery \/ SupersedeRecovery \/ CommitRecovery \/ Reboot

\* The refresh timer of every process fires, every await ends, and time passes.
Fairness == (\A w \in Workers : WF_vars(Refresh(w))) /\ WF_vars(Time)

Spec == Init /\ [][Next]_vars /\ Fairness

----------------------------------------------------------------------------
(* Properties *)

TypeOK ==
    /\ att \in [Attempt -> Rows]
    /\ held \subseteq Attempt \X {"STARTED", "FINALIZING", "UNKNOWN"}
    /\ tick \in [Workers -> Ticks]
    /\ head \in [by : 0..MaxClaims, complete : BOOLEAN]
    /\ domain \in 0..MaxReboots

\* The provider never has two calls for the issuer at once, whatever processes, recoveries
\* and operators do: a new attempt waits for the end of every call of the one before.
OneCallAtATime == Cardinality({w \in Workers : At(w, "wait")}) <= 1

\* The news of the snapshot never fall back: a process that is late with its success or
\* its failure cannot replace what a later attempt wrote.
NewsNeverFallBack == [][head'.by >= head.by]_vars

\* The operator is never stuck: whatever a process does that is still running, a prepared
\* challenge can be committed or replaced, for its predecessors stay unresolved.
ChallengeStaysAnswerable == Held \subseteq Unresolved

Resolved(a) == att[a].state # "none" /\ a \notin Unresolved

\* No attempt closes the ledger for ever: crashed, timed out or unknown, every one is
\* resolved without an operator, again and again all of them together, unless the host was
\* booted since or an operator holds the ledger.
EveryAttemptResolves ==
    []<>(\A a \in Attempt : att[a].state # "none" =>
            Resolved(a) \/ att[a].domain # domain \/ held # {})

=============================================================================
