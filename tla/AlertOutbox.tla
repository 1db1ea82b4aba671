---------------------------- MODULE AlertOutbox ----------------------------
(***************************************************************************)
(* The durable alerts of one account (lifecycle/lifecycle-alerts.ts): the  *)
(* episodes of the fault BROKER_STATE_STALE, the outbox row of each, the   *)
(* watchdog that records them, the observer that resolves them and the     *)
(* workers of the engine processes that deliver them.                      *)
(*                                                                         *)
(* An episode recorded under a live proof that the account is flat is held *)
(* back until its deadline and may be coalesced, that is, never sent, when *)
(* it is resolved before.  Every mutation is a transaction under the       *)
(* account's advisory lock and one action.  A proof is the connection      *)
(* generation it was read for; it can expire at any time.                  *)
(*                                                                         *)
(* Other fault codes never carry the policy and behave like an episode     *)
(* without a proof; the probe of a process is a row like any other.        *)
(***************************************************************************)
EXTENDS Naturals, FiniteSets

CONSTANTS
    \* @type: Set(WORKER);
    Workers,            \* engine processes
    \* @type: Int;
    MaxAttempts,        \* attempts of one alert, 3 in the code
    \* @type: Int;
    MaxEpisodes,        \* bound: episodes recorded
    \* @type: Int;
    MaxGeneration       \* bound: connections of the process to the broker

AlertAssumption ==
    /\ MaxAttempts \in Nat \ {0}
    /\ MaxEpisodes \in Nat \ {0}
    /\ MaxGeneration \in Nat \ {0}

Episode == 1..MaxEpisodes
NoProof == 0
Actor == Workers \cup {"watchdog", "observer"}

VARIABLES
    fault,      \* fault[e]: lifecycle_faults
    onTime,     \* onTime[e]: its notification deadline has not passed
    outbox,     \* outbox[e]: lifecycle_alert_outbox
    sent,       \* sent[e]: messages handed to the transport (history)
    gen,        \* generation of the connection, for isCurrent
    owed,       \* owed[a]: the proof of a's last commit, still to be checked again
    worker,     \* worker[w]: the tick in flight
    enabled     \* enabled[w]: its process has a transport configured

vars == <<fault, onTime, outbox, sent, gen, owed, worker, enabled>>

Status == {"none", "PENDING", "SENDING", "DELIVERED", "FAILED", "UNKNOWN", "DISABLED", "COALESCED"}
Waiting == {"PENDING", "FAILED", "UNKNOWN", "DISABLED"}
Outcome == {"DELIVERED", "FAILED", "UNKNOWN"}

NoRow == [status |-> "none", attempts |-> 0, due |-> FALSE, proof |-> NoProof,
          promoted |-> FALSE, lease |-> "none"]

NoTick == [at |-> "idle", episode |-> 0, token |-> 0]

\* eligible: nothing, or a proof for the connection of this moment.
Proofs == {NoProof, gen}

Delayed(e) == outbox[e].proof # NoProof /\ outbox[e].status = "PENDING"

Promote(r) == [r EXCEPT !.due = TRUE, !.promoted = TRUE]

\* The delay of a row lasts only while the present proof is that of its own session.
Promoted(e, proof) ==
    IF Delayed(e) /\ outbox[e].proof # proof THEN Promote(outbox[e]) ELSE outbox[e]

\* A commit under a proof is followed by another look at that proof.
Owe(a, proof) == owed' = [owed EXCEPT ![a] = proof]

----------------------------------------------------------------------------
(* Recording and resolving *)

Active == {e \in Episode : fault[e] = "active"}

\* The active episode is observed again, or a new one begins with its row.
Record(proof) ==
    \/ \E e \in Active :
         /\ outbox' = [outbox EXCEPT ![e] = Promoted(e, proof)]
         /\ UNCHANGED fault
    \/ /\ Active = {}
       /\ \E e \in Episode :
            /\ fault[e] = "none"
            /\ \A d \in 1..(e - 1) : fault[d] # "none"
            /\ fault' = [fault EXCEPT ![e] = "active"]
            /\ outbox' = [outbox EXCEPT ![e] =
                            [NoRow EXCEPT !.status = "PENDING", !.proof = proof,
                                          !.due = proof = NoProof]]

WatchdogRecords ==
    /\ owed["watchdog"] = NoProof
    /\ \E proof \in Proofs : Record(proof) /\ Owe("watchdog", proof)
    /\ UNCHANGED <<onTime, sent, gen, worker, enabled>>

(* Mutation of Coalescable: only the outcome of an attempt excludes it.    *)
CoalescableUnlessDelivered(e, proof) ==
    outbox[e].status \in {"PENDING", "SENDING"} /\ outbox[e].proof = proof /\ onTime[e]

\* Nothing was attempted or promoted, the session is the same, the deadline ahead.
Coalescable(e, proof) ==
    /\ Delayed(e)
    /\ outbox[e].attempts = 0
    /\ ~outbox[e].promoted
    /\ outbox[e].proof = proof
    /\ onTime[e]

ObserverResolves ==
    /\ owed["observer"] = NoProof
    /\ \E proof \in Proofs :
         /\ fault' = [e \in Episode |-> IF e \in Active THEN "resolved" ELSE fault[e]]
         /\ outbox' = [e \in Episode |->
              CASE e \in Active /\ proof = NoProof -> Promoted(e, NoProof)
                [] e \in Active /\ proof # NoProof /\ Coalescable(e, proof)
                     -> [outbox[e] EXCEPT !.status = "COALESCED"]
                [] OTHER -> outbox[e]]
         /\ Owe("observer", proof)
    /\ UNCHANGED <<onTime, sent, gen, worker, enabled>>

\* isCurrent after the commit: a proof that changed is answered by a fault of its own,
\* immediately due; otherwise nothing is left to do.
CheckAgain(a) ==
    /\ owed[a] # NoProof
    /\ \/ owed[a] = gen /\ UNCHANGED <<fault, outbox>>
       \/ Record(NoProof)
       \/ (\A e \in Episode : fault[e] = "resolved") /\ UNCHANGED <<fault, outbox>>  \* bound
    /\ Owe(a, NoProof)
    /\ UNCHANGED <<onTime, sent, gen, worker, enabled>>

----------------------------------------------------------------------------
(* The worker *)

Tick(w, at) == worker[w].at = at

MarkDisabled(w) ==
    /\ Tick(w, "idle") /\ ~enabled[w]
    /\ outbox' = [e \in Episode |->
         IF outbox[e].status \in {"PENDING", "FAILED", "UNKNOWN"} /\ outbox[e].attempts < MaxAttempts
         THEN [outbox[e] EXCEPT !.status = "DISABLED"] ELSE outbox[e]]
    /\ UNCHANGED <<fault, onTime, sent, gen, owed, worker, enabled>>

\* First transaction of claimNext: delays that lost their proof, leases that ran out.
Scan(w) ==
    /\ Tick(w, "idle") /\ enabled[w]
    /\ \E proof \in Proofs :
         /\ outbox' = [e \in Episode |->
              IF outbox[e].status = "SENDING" /\ outbox[e].lease = "expired"
              THEN [outbox[e] EXCEPT !.status = "UNKNOWN", !.lease = "none", !.due = FALSE]
              ELSE Promoted(e, proof)]
         /\ Owe(w, IF \E e \in Episode : Delayed(e) THEN proof ELSE NoProof)
    /\ worker' = [worker EXCEPT ![w].at = "claim"]
    /\ UNCHANGED <<fault, onTime, sent, gen, enabled>>

(* Mutation of Due: an alert is tried as long as it is not delivered.      *)
DueForEver(e) == outbox[e].status \in Waiting /\ outbox[e].due

Due(e) == outbox[e].status \in Waiting /\ outbox[e].attempts < MaxAttempts /\ outbox[e].due

(* Mutation of Claimable: a fault that is over needs no message.           *)
ClaimableActive(e) == Due(e) /\ fault[e] = "active"

Claimable(e) == Due(e)

\* Candidates are read without a lock and checked again under it.
Claim(w) ==
    /\ Tick(w, "claim")
    /\ owed[w] = NoProof
    /\ \/ \E e \in Episode :
            /\ Claimable(e)
            /\ outbox' = [outbox EXCEPT ![e].status = "SENDING", ![e].lease = "held",
                                        ![e].attempts = @ + 1]
            /\ worker' = [worker EXCEPT ![w].at = "send", ![w].episode = e,
                                        ![w].token = outbox[e].attempts + 1]
       \/ /\ \A e \in Episode : ~Claimable(e)
          /\ worker' = [worker EXCEPT ![w].at = "idle"]
          /\ UNCHANGED outbox
    /\ UNCHANGED <<fault, onTime, sent, gen, owed, enabled>>

Send(w) ==
    /\ Tick(w, "send")
    /\ sent' = [sent EXCEPT ![worker[w].episode] = @ + 1]
    /\ worker' = [worker EXCEPT ![w].at = "complete"]
    /\ UNCHANGED <<fault, onTime, outbox, gen, owed, enabled>>

Holds(w) ==
    LET r == outbox[worker[w].episode] IN
    r.status = "SENDING" /\ r.attempts = worker[w].token /\ r.lease = "held"

\* The answer of the transport, or its timeout, counts only under the lease of its send.
Complete(w) ==
    /\ Tick(w, "complete")
    /\ \/ /\ Holds(w)
          /\ \E outcome \in Outcome :
               outbox' = [outbox EXCEPT ![worker[w].episode] =
                            [@ EXCEPT !.status = outcome, !.lease = "none", !.due = FALSE]]
       \/ ~Holds(w) /\ UNCHANGED outbox
    /\ worker' = [worker EXCEPT ![w] = NoTick]
    /\ UNCHANGED <<fault, onTime, sent, gen, owed, enabled>>

----------------------------------------------------------------------------
(* Time, the connection and the processes *)

\* next_attempt_at of a delayed row is its deadline.
DeadlinePasses(e) ==
    /\ fault[e] # "none" /\ onTime[e]
    /\ onTime' = [onTime EXCEPT ![e] = FALSE]
    /\ outbox' = [outbox EXCEPT ![e].due = @ \/ (Delayed(e) \/ outbox[e].status = "DISABLED")]
    /\ UNCHANGED <<fault, sent, gen, owed, worker, enabled>>

BackoffPasses(e) ==
    /\ outbox[e].status \in Waiting /\ outbox[e].attempts > 0 /\ ~outbox[e].due
    /\ outbox' = [outbox EXCEPT ![e].due = TRUE]
    /\ UNCHANGED <<fault, onTime, sent, gen, owed, worker, enabled>>

LeaseExpires(e) ==
    /\ outbox[e].lease = "held"
    /\ outbox' = [outbox EXCEPT ![e].lease = "expired"]
    /\ UNCHANGED <<fault, onTime, sent, gen, owed, worker, enabled>>

Reconnect ==
    /\ gen < MaxGeneration
    /\ gen' = gen + 1
    /\ UNCHANGED <<fault, onTime, outbox, sent, owed, worker, enabled>>

\* The tick and the second look at a proof die with the process.  The new process is
\* configured with or without a transport; startWorkerSession finds a row for every
\* fault, since Record inserts both together.
Restart(w) ==
    /\ gen < MaxGeneration
    /\ gen' = gen + 1
    /\ worker' = [worker EXCEPT ![w] = NoTick]
    /\ enabled' \in {[enabled EXCEPT ![w] = on] : on \in BOOLEAN}
    /\ owed' = [a \in Actor |-> IF a \in Workers \ {w} THEN owed[a] ELSE NoProof]
    /\ UNCHANGED <<fault, onTime, outbox, sent>>

Init ==
    /\ fault = [e \in Episode |-> "none"]
    /\ onTime = [e \in Episode |-> TRUE]
    /\ outbox = [e \in Episode |-> NoRow]
    /\ sent = [e \in Episode |-> 0]
    /\ gen = 1
    /\ owed = [a \in Actor |-> NoProof]
    /\ worker = [w \in Workers |-> NoTick]
    /\ enabled \in [Workers -> BOOLEAN]

Deliver(w) == Scan(w) \/ Claim(w) \/ Send(w) \/ Complete(w)

Time == \E e \in Episode : DeadlinePasses(e) \/ BackoffPasses(e) \/ LeaseExpires(e)

Next ==
    \/ WatchdogRecords \/ ObserverResolves
    \/ \E a \in Actor : CheckAgain(a)
    \/ \E w \in Workers : MarkDisabled(w) \/ Deliver(w) \/ Restart(w)
    \/ Time
    \/ Reconnect

\* The interval of a worker keeps firing, every await of its tick ends, and time passes.
Fairness == (\A w \in Workers : WF_vars(Deliver(w) \/ CheckAgain(w))) /\ WF_vars(Time)

Spec == Init /\ [][Next]_vars /\ Fairness

----------------------------------------------------------------------------
(* Properties *)

TypeOK ==
    /\ fault \in [Episode -> {"none", "active", "resolved"}]
    /\ onTime \in [Episode -> BOOLEAN]
    /\ outbox \in [Episode -> [status : Status, attempts : 0..MaxAttempts, due : BOOLEAN,
                               proof : 0..MaxGeneration, promoted : BOOLEAN,
                               lease : {"none", "held", "expired"}]]
    /\ \A e \in Episode : outbox[e].lease # "none" <=> outbox[e].status = "SENDING"
    /\ sent \in [Episode -> 0..MaxAttempts]
    /\ gen \in 1..MaxGeneration
    /\ owed \in [Actor -> 0..MaxGeneration]
    /\ Cardinality(Active) <= 1

\* A coalesced alert is silent: it was resolved before its deadline, no message of it
\* was or will be sent, and it stays so whatever workers, restarts and the watchdog do.
CoalescedIsSilent ==
    [][\A e \in Episode :
          /\ outbox'[e].status = "COALESCED" =>
               /\ sent'[e] = 0
               /\ fault'[e] = "resolved"
               /\ outbox[e].status = "COALESCED" \/ onTime[e]
          /\ outbox[e].status = "COALESCED" => outbox'[e].status = "COALESCED"]_vars

Settled(e) ==
    \/ outbox[e].status \in {"DELIVERED", "COALESCED"}
    \/ outbox[e].status # "SENDING" /\ outbox[e].attempts = MaxAttempts

TransportUp == \E w \in Workers : enabled[w]

\* No alert is lost: once recorded it is delivered, coalesced, or tried MaxAttempts times,
\* if a worker with a transport keeps running; a fault that is over is no exception.
EveryAlertSettles ==
    \A e \in Episode : (fault[e] # "none") ~> (Settled(e) \/ ~TransportUp)

=============================================================================
