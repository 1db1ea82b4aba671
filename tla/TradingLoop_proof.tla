-------------------------- MODULE TradingLoop_proof --------------------------
(***************************************************************************)
(* Proofs about TradingLoop for any number of instruments, any cap and     *)
(* buckets and any number of restarts.                                     *)
(*                                                                         *)
(* That a trigger trades once needs nothing of the loop but that a request *)
(* is named after its trigger (WireInv): the engine's row of that name     *)
(* outlives loop and process (OrderInv).  That the cap starves nobody is a *)
(* counting argument about the start index: an instrument was left out at  *)
(* most as often as the index has moved since it stood there               *)
(* (RotationInv), and an idle loop starts the instrument it stands at.     *)
(* The cap itself is the pigeonhole principle: the instruments a cycle     *)
(* starts have different places below the room there is.                   *)
(***************************************************************************)
EXTENDS TradingLoop, FiniteSetTheorems, TLAPS

(* A run that is about to submit has evaluated.                            *)
RunInv ==
    \A i \in Instrument :
        run[i].at = "guard" \/ (configured /\ run[i].at = "check") => run[i].trigger \in Bucket

(* A request is named after the trigger it was evaluated for.              *)
WireInv == \A r \in wire : r.key = r.trigger

(* No trigger has placed twice, and one without a row has placed nothing.  *)
OrderInv ==
    \A i \in Instrument, t \in Bucket :
        /\ placed[i][t] <= 1
        /\ order[i][t] = "none" => placed[i][t] = 0

(* How often the start index has moved since it last stood at i.           *)
Since(i) == IF startIndex > i THEN startIndex - 1 - i ELSE startIndex + N - 1 - i

(* An instrument is left out only while the index is on its way to it.     *)
RotationInv == \A i \in Instrument : passed[i] <= Since(i)

(* Only the legacy loop awaits the strategy state.                         *)
WaitingInv == configured => waiting = 0

(* The inductive invariant.                                                *)
Inv ==
    /\ TypeOK
    /\ WaitingInv
    /\ RunInv
    /\ WireInv
    /\ OrderInv
    /\ RotationInv

(* The scan of a cycle visits every instrument at a place of its own.      *)
LEMMA RankPlaces ==
  ASSUME LoopAssumption, NEW s \in Instrument, NEW i \in Instrument
  PROVE  /\ Rank(i, s) \in 0..(N - 1)
         /\ Rank(i, s) = IF i >= s THEN i - s ELSE i + N - s
  BY DEF LoopAssumption, Instrument, Rank

LEMMA RankInjective ==
  ASSUME LoopAssumption, NEW s \in Instrument, NEW i \in Instrument, NEW j \in Instrument,
         i # j
  PROVE  Rank(i, s) < Rank(j, s) \/ Rank(j, s) < Rank(i, s)
<1>1. /\ Rank(i, s) = IF i >= s THEN i - s ELSE i + N - s
      /\ Rank(j, s) = IF j >= s THEN j - s ELSE j + N - s
  BY RankPlaces
<1>2. i \in Int /\ j \in Int /\ s \in Int /\ N \in Int
  BY DEF LoopAssumption, Instrument
<1>3. 0 <= i /\ i < N /\ 0 <= j /\ j < N /\ 0 <= s /\ s < N
  BY DEF LoopAssumption, Instrument
<1>. QED  BY <1>1, <1>2, <1>3

LEMMA FiniteFlight ==
  ASSUME LoopAssumption
  PROVE  /\ IsFiniteSet(Instrument)
         /\ IsFiniteSet(InFlight) /\ Cardinality(InFlight) \in Nat
         /\ Room \in Nat
<1>1. IsFiniteSet(Instrument)
  BY FS_Interval DEF LoopAssumption, Instrument
<1>2. IsFiniteSet(InFlight) /\ Cardinality(InFlight) \in Nat
  BY <1>1, FS_Subset, FS_CardinalityType DEF InFlight
<1>. QED  BY <1>1, <1>2 DEF LoopAssumption, Room

(* A cycle starts idle instruments, and no more than there is room for:    *)
(* each has as many idle ones before it as no other has.                   *)
LEMMA StartedFits ==
  ASSUME LoopAssumption, NEW s \in Instrument
  PROVE  /\ Started(s) \subseteq Instrument \ InFlight
         /\ IsFiniteSet(Started(s)) /\ Cardinality(Started(s)) \in Nat
         /\ Cardinality(Started(s)) <= Room
<1>. DEFINE idle == Instrument \ InFlight
            Before(i) == {j \in idle : Rank(j, s) < Rank(i, s)}
            place == [i \in Started(s) |-> Cardinality(Before(i))]
<1>1. Started(s) = {i \in idle : Cardinality(Before(i)) < Room}
  BY DEF Started
<1>2. \A i \in idle : IsFiniteSet(Before(i)) /\ Cardinality(Before(i)) \in Nat
  BY FiniteFlight, FS_Subset, FS_CardinalityType
<1>3. ASSUME NEW i \in idle, NEW k \in idle, Rank(i, s) < Rank(k, s)
      PROVE  Cardinality(Before(i)) < Cardinality(Before(k))
  <2>1. i \notin Before(i)
    BY RankPlaces DEF LoopAssumption
  <2>2. Before(i) \cup {i} \subseteq Before(k)
    BY <1>3, RankPlaces DEF LoopAssumption
  <2>3. Cardinality(Before(i) \cup {i}) = Cardinality(Before(i)) + 1
    BY <1>2, <2>1, FS_AddElement
  <2>4. Cardinality(Before(i) \cup {i}) <= Cardinality(Before(k))
    BY <1>2, <2>2, FS_Subset
  <2>. QED  BY <1>2, <2>3, <2>4
<1>4. place \in [Started(s) -> 0..(Room - 1)]
  BY <1>1, <1>2, FiniteFlight
<1>5. \A i, k \in Started(s) : place[i] = place[k] => i = k
  <2> SUFFICES ASSUME NEW i \in Started(s), NEW k \in Started(s), i # k
               PROVE  place[i] # place[k]
    OBVIOUS
  <2>1. i \in idle /\ k \in idle
    BY <1>1
  <2>2. Rank(i, s) < Rank(k, s) \/ Rank(k, s) < Rank(i, s)
    BY <2>1, RankInjective
  <2>3. Cardinality(Before(i)) < Cardinality(Before(k))
        \/ Cardinality(Before(k)) < Cardinality(Before(i))
    BY <1>3, <2>1, <2>2
  <2>. QED  BY <1>2, <2>1, <2>3
<1>6. place \in Injection(Started(s), 0..(Room - 1))
  BY <1>4, <1>5 DEF Injection, IsInjective
<1>7. IsFiniteSet(0..(Room - 1)) /\ Cardinality(0..(Room - 1)) = Room
  <2>1. 0 \in Int /\ Room - 1 \in Int /\ Room \in Nat
    BY FiniteFlight
  <2>. QED  BY <2>1, FS_Interval
<1>8. IsFiniteSet(Started(s)) /\ Cardinality(Started(s)) <= Room
  BY <1>6, <1>7, FS_Injection
<1>. QED  BY <1>1, <1>8, FS_CardinalityType

(* A cycle that begins with no run in flight starts the instrument its     *)
(* index stands at.                                                        *)
LEMMA StartedFirst ==
  ASSUME LoopAssumption, NEW s \in Instrument, InFlight = {}
  PROVE  s \in Started(s)
<1>1. {j \in Instrument \ InFlight : Rank(j, s) < Rank(s, s)} = {}
  BY RankPlaces DEF LoopAssumption, Instrument
<1>2. Room = MaxConcurrent /\ 0 < MaxConcurrent
  BY FS_EmptySet DEF LoopAssumption, Room
<1>. QED  BY <1>1, <1>2, FS_EmptySet DEF Started

(* The runs of a cycle: within the cap, and none has a trigger yet.        *)
LEMMA BeginRuns ==
  ASSUME LoopAssumption, Inv, NEW s \in Instrument, Begin(Started(s)), UNCHANGED configured
  PROVE  /\ run' \in [Instrument -> Runs]
         /\ Cardinality(InFlight') <= MaxConcurrent
         /\ RunInv'
<1>1. \A i \in Instrument :
        run'[i] = IF i \in Started(s) THEN [NoRun EXCEPT !.at = First] ELSE run[i]
  BY DEF Begin
<1>2. [NoRun EXCEPT !.at = First] \in Runs
  <2>1. First \in {"evaluate", "check"} /\ 0 \in 0..MaxBucket
    BY DEF LoopAssumption, First
  <2>. QED  BY <2>1 DEF NoRun, Runs
<1>3. run' \in [Instrument -> Runs]
  BY <1>2 DEF Inv, TypeOK, Begin
<1>4. Cardinality(InFlight') <= MaxConcurrent
  <2>1. InFlight' = InFlight \cup Started(s)
    BY <1>1, StartedFits DEF InFlight, NoRun, First
  <2>2. InFlight \cap Started(s) = {}
    BY StartedFits
  <2>3. Cardinality(InFlight \cup Started(s)) = Cardinality(InFlight) + Cardinality(Started(s))
    <3>1. Cardinality(InFlight \cap Started(s)) = 0
      BY <2>2, FS_EmptySet
    <3>2. Cardinality(InFlight \cup Started(s)) =
            Cardinality(InFlight) + Cardinality(Started(s))
              - Cardinality(InFlight \cap Started(s))
      BY FiniteFlight, StartedFits, FS_Union
    <3>. QED  BY <3>1, <3>2, FiniteFlight, StartedFits
  <2>4. Cardinality(InFlight) + Room <= MaxConcurrent
    BY FiniteFlight DEF LoopAssumption, Inv, TypeOK, Room
  <2>. QED  BY <2>1, <2>3, <2>4, FiniteFlight, StartedFits DEF LoopAssumption
<1>5. RunInv'
  <2> SUFFICES ASSUME NEW i \in Instrument,
                      run'[i].at = "guard" \/ (configured /\ run'[i].at = "check")
               PROVE  run'[i].trigger \in Bucket
    BY DEF RunInv, Bucket, Instrument
  <2>1. i \notin Started(s)
    BY <1>1 DEF NoRun, First
  <2>. QED  BY <1>1, <2>1 DEF Inv, RunInv
<1>. QED  BY <1>3, <1>4, <1>5

(* A step that starts no run stays within the cap.                         *)
LEMMA CapKept ==
  ASSUME LoopAssumption, Inv, InFlight' \subseteq InFlight
  PROVE  Cardinality(InFlight') <= MaxConcurrent
<1>1. /\ Cardinality(InFlight') <= Cardinality(InFlight)
      /\ Cardinality(InFlight') \in Nat
  BY FiniteFlight, FS_Subset, FS_CardinalityType
<1>. QED  BY <1>1, FiniteFlight DEF LoopAssumption, Inv, TypeOK

(* The initial state.                                                      *)
LEMMA InitInv ==
  ASSUME LoopAssumption, Init
  PROVE  Inv
<1>1. NoRun \in Runs /\ 0 \in Instrument /\ 1 \in Bucket /\ N \in Nat
  BY DEF LoopAssumption, NoRun, Runs, Instrument, Bucket
<1>2. Cardinality(InFlight) <= MaxConcurrent
  <2>1. InFlight = {}
    BY DEF Init, InFlight, NoRun
  <2>. QED  BY <2>1, FS_EmptySet DEF LoopAssumption
<1>3. TypeOK
  <2>1. startIndex \in Instrument /\ bucket \in Bucket /\ run \in [Instrument -> Runs]
    BY <1>1 DEF Init
  <2>2. wire \subseteq Requests /\ order \in [Instrument -> [Bucket -> {"none", "live", "done"}]]
    BY DEF Init
  <2>3. placed \in [Instrument -> [Bucket -> Nat]] /\ passed \in [Instrument -> 0..N]
    BY <1>1 DEF Init
  <2>4. waiting \in 0..MaxWaiting /\ restarts \in 0..MaxRestarts
    BY DEF LoopAssumption, Init
  <2>. QED  BY <1>2, <2>1, <2>2, <2>3, <2>4 DEF Init, TypeOK
<1>4. WaitingInv /\ RunInv /\ WireInv /\ OrderInv
  BY DEF Init, WaitingInv, RunInv, WireInv, OrderInv, NoRun
<1>5. RotationInv
  BY DEF LoopAssumption, Init, RotationInv, Since, Instrument
<1>. QED  BY <1>3, <1>4, <1>5 DEF Inv

(* The index of the next cycle.                                            *)
LEMMA NextIndex ==
  ASSUME LoopAssumption, startIndex \in Instrument
  PROVE  /\ (startIndex + 1) % N = IF startIndex + 1 = N THEN 0 ELSE startIndex + 1
         /\ (startIndex + 1) % N \in Instrument
<1>1. N \in Nat \ {0} /\ startIndex \in 0..(N - 1)
  BY DEF LoopAssumption, Instrument
<1>2. (startIndex + 1) % N = IF startIndex + 1 = N THEN 0 ELSE startIndex + 1
  <2>1. CASE startIndex + 1 = N
    <3>1. N % N = 0
      BY <1>1
    <3>. QED  BY <2>1, <3>1
  <2>2. CASE startIndex + 1 # N
    BY <1>1, <2>2
  <2>. QED  BY <2>1, <2>2
<1>. QED  BY <1>1, <1>2 DEF Instrument

(* The index moves on; who was left out comes nearer by as much.           *)
LEMMA ConfiguredCycleKeepsInv ==
  ASSUME LoopAssumption, Inv, ConfiguredCycle
  PROVE  Inv'
<1>1. startIndex \in Instrument /\ startIndex' \in Instrument
      /\ startIndex' = IF startIndex + 1 = N THEN 0 ELSE startIndex + 1
  BY NextIndex DEF Inv, TypeOK, ConfiguredCycle
<1>2. /\ run' \in [Instrument -> Runs]
      /\ Cardinality(InFlight') <= MaxConcurrent
      /\ RunInv'
  BY <1>1, BeginRuns DEF ConfiguredCycle
<1>3. \A i \in Instrument : Since(i) \in 0..N /\ Since(i)' \in 0..N
  BY <1>1 DEF LoopAssumption, Instrument, Since
<1>4. \A i \in Instrument : passed'[i] \in Nat /\ passed'[i] <= Since(i)'
  <2> SUFFICES ASSUME NEW i \in Instrument
               PROVE  passed'[i] \in Nat /\ passed'[i] <= Since(i)'
    OBVIOUS
  <2>1. Since(i)' = IF startIndex = i THEN 0 ELSE Since(i) + 1
    BY <1>1 DEF LoopAssumption, Instrument, Since
  <2>2. passed'[i] = IF ~configured \/ InFlight # {} \/ i \in Started(startIndex)
                     THEN 0 ELSE passed[i] + 1
    BY DEF ConfiguredCycle, Begin
  <2>3. passed'[i] = 0 \/ (startIndex # i /\ passed'[i] = passed[i] + 1)
    BY <1>1, <2>2, StartedFirst
  <2>4. passed[i] \in Nat /\ passed[i] <= Since(i)
    BY DEF LoopAssumption, Inv, TypeOK, RotationInv
  <2>. QED  BY <1>3, <2>1, <2>3, <2>4
<1>5. passed' \in [Instrument -> 0..N]
  <2>1. \A i \in Instrument : passed'[i] \in 0..N
    BY <1>3, <1>4 DEF LoopAssumption
  <2>2. passed' = [i \in Instrument |-> passed'[i]]
    BY DEF ConfiguredCycle, Begin
  <2>. QED  BY <2>1, <2>2
<1>6. TypeOK'
  <2>1. configured' = configured /\ stopping' = stopping /\ waiting' = waiting
        /\ bucket' = bucket /\ wire' = wire /\ order' = order /\ placed' = placed
        /\ restarts' = restarts
    BY DEF ConfiguredCycle
  <2>. QED  BY <1>1, <1>2, <1>5, <2>1 DEF Inv, TypeOK
<1>7. WaitingInv' /\ WireInv' /\ OrderInv'
  BY DEF Inv, WaitingInv, WireInv, OrderInv, ConfiguredCycle
<1>. QED  BY <1>2, <1>4, <1>6, <1>7 DEF Inv, RotationInv

(* A step that leaves the cycles alone keeps the rotation.                 *)
LEMMA RotationKept ==
  ASSUME Inv, UNCHANGED <<startIndex, passed>>
  PROVE  RotationInv'
BY DEF Inv, RotationInv, Since

(* A legacy cycle waits; the strategy state is not there yet.              *)
LEMMA LegacyCycleKeepsInv ==
  ASSUME LoopAssumption, Inv, LegacyCycle
  PROVE  Inv'
<1>1. waiting' \in 0..MaxWaiting
  BY DEF LoopAssumption, Inv, TypeOK, LegacyCycle
<1>2. TypeOK'
  BY <1>1 DEF Inv, TypeOK, LegacyCycle, InFlight
<1>3. WaitingInv' /\ RunInv' /\ WireInv' /\ OrderInv'
  BY DEF Inv, WaitingInv, RunInv, WireInv, OrderInv, LegacyCycle
<1>. QED  BY <1>2, <1>3, RotationKept DEF Inv, LegacyCycle

(* Its runs come under the cap as it is when they start.                   *)
LEMMA SyncedKeepsInv ==
  ASSUME LoopAssumption, Inv, Synced
  PROVE  Inv'
<1>1. waiting' \in 0..MaxWaiting /\ 0 \in Instrument /\ ~configured
  BY DEF LoopAssumption, Inv, TypeOK, WaitingInv, Synced, Instrument
<1>2. /\ configured' = configured /\ stopping' = stopping /\ startIndex' = startIndex
      /\ bucket' = bucket /\ wire' = wire /\ order' = order /\ placed' = placed
      /\ restarts' = restarts
  BY DEF Synced
<1>3. WaitingInv' /\ WireInv' /\ OrderInv'
  BY <1>1, <1>2 DEF Inv, WaitingInv, WireInv, OrderInv
<1>4. CASE Begin(Started(0))
  <2>1. /\ run' \in [Instrument -> Runs]
        /\ Cardinality(InFlight') <= MaxConcurrent
        /\ RunInv'
    BY <1>1, <1>2, <1>4, BeginRuns
  <2>2. passed' = [i \in Instrument |-> 0]
    BY <1>1, <1>4 DEF Begin
  <2>3. TypeOK'
    <3>1. passed' \in [Instrument -> 0..N]
      BY <2>2 DEF LoopAssumption
    <3>. QED  BY <1>1, <1>2, <2>1, <3>1 DEF Inv, TypeOK
  <2>4. \A i \in Instrument : Since(i) \in Nat
    BY DEF LoopAssumption, Inv, TypeOK, Instrument, Since
  <2>5. RotationInv'
    BY <1>2, <2>2, <2>4 DEF RotationInv, Since
  <2>. QED  BY <1>3, <2>1, <2>3, <2>5 DEF Inv
<1>5. CASE UNCHANGED <<run, passed>>
  <2>1. TypeOK'
    BY <1>1, <1>2, <1>5 DEF Inv, TypeOK, InFlight
  <2>2. RunInv'
    BY <1>2, <1>5 DEF Inv, RunInv
  <2>. QED  BY <1>2, <1>3, <1>5, <2>1, <2>2, RotationKept DEF Inv
<1>. QED  BY <1>4, <1>5 DEF Synced

(* A run that moves on: no other run is touched.                           *)
LEMMA RunMoves ==
  ASSUME LoopAssumption, Inv, NEW i \in Instrument, NEW r \in Runs,
         run' = [run EXCEPT ![i] = r],
         run[i].at # "idle",
         r.at = "guard" \/ (configured /\ r.at = "check") => r.trigger \in Bucket,
         UNCHANGED <<configured, stopping, waiting, startIndex, bucket>>,
         UNCHANGED <<order, placed, passed, restarts>>,
         wire' \subseteq Requests
  PROVE  TypeOK' /\ WaitingInv' /\ RunInv' /\ OrderInv' /\ RotationInv'
<1>1. run' \in [Instrument -> Runs]
      /\ \A j \in Instrument : run'[j] = IF j = i THEN r ELSE run[j]
  BY DEF Inv, TypeOK
<1>2. InFlight' \subseteq InFlight
  BY <1>1 DEF InFlight
<1>3. Cardinality(InFlight') <= MaxConcurrent
  BY <1>2, CapKept
<1>4. TypeOK'
  BY <1>1, <1>3 DEF Inv, TypeOK
<1>5. RunInv'
  BY <1>1 DEF Inv, RunInv
<1>6. WaitingInv' /\ OrderInv'
  BY DEF Inv, WaitingInv, OrderInv
<1>. QED  BY <1>4, <1>5, <1>6, RotationKept

(* The gates of the loop: in the configured loop they follow evaluation.   *)
LEMMA CheckKeepsInv ==
  ASSUME LoopAssumption, Inv, NEW i \in Instrument, Check(i)
  PROVE  Inv'
<1>. DEFINE r == [run[i] EXCEPT !.at = IF configured THEN "guard" ELSE "evaluate"]
<1>1. run[i] \in Runs /\ run[i].at = "check"
  BY DEF Inv, TypeOK, Check
<1>2. r \in Runs /\ r.trigger = run[i].trigger
      /\ r.at = IF configured THEN "guard" ELSE "evaluate"
  BY <1>1 DEF Runs
<1>3. run' = [run EXCEPT ![i] = r]
  BY <1>1 DEF Check, Goto, Inv, TypeOK
<1>4. r.at = "guard" \/ (configured /\ r.at = "check") => r.trigger \in Bucket
  BY <1>1, <1>2 DEF Inv, RunInv
<1>5. wire' = wire /\ wire' \subseteq Requests
  BY DEF Check, Inv, TypeOK
<1>6. WireInv'
  BY <1>5 DEF Inv, WireInv
<1>. HIDE DEF r
<1>7. TypeOK' /\ WaitingInv' /\ RunInv' /\ OrderInv' /\ RotationInv'
  BY <1>1, <1>2, <1>3, <1>4, <1>5, RunMoves DEF Check
<1>. QED  BY <1>6, <1>7 DEF Inv

(* The trigger is a bucket of the market data.                             *)
LEMMA EvaluateKeepsInv ==
  ASSUME LoopAssumption, Inv, NEW i \in Instrument, Evaluate(i)
  PROVE  Inv'
<1>. DEFINE r == [at |-> IF configured THEN "check" ELSE "guard", trigger |-> bucket]
<1>1. bucket \in Bucket /\ bucket \in 0..MaxBucket /\ run[i].at # "idle"
  BY DEF LoopAssumption, Inv, TypeOK, Bucket, Evaluate
<1>2. r \in Runs /\ r.trigger \in Bucket
  BY <1>1 DEF Runs
<1>3. run' = [run EXCEPT ![i] = r]
  BY DEF Evaluate
<1>5. wire' = wire /\ wire' \subseteq Requests
  BY DEF Evaluate, Inv, TypeOK
<1>6. WireInv'
  BY <1>5 DEF Inv, WireInv
<1>. HIDE DEF r
<1>7. TypeOK' /\ WaitingInv' /\ RunInv' /\ OrderInv' /\ RotationInv'
  BY <1>1, <1>2, <1>3, <1>5, RunMoves DEF Evaluate
<1>. QED  BY <1>6, <1>7 DEF Inv

(* The request is named after the trigger of the run.                      *)
LEMMA SubmitKeepsInv ==
  ASSUME LoopAssumption, Inv, NEW i \in Instrument, Submit(i)
  PROVE  Inv'
<1>. DEFINE r == [run[i] EXCEPT !.at = "submit"]
            q == [instrument |-> i, trigger |-> run[i].trigger, key |-> Key(i)]
<1>1. run[i] \in Runs /\ run[i].at = "guard" /\ run[i].trigger \in Bucket
  BY DEF Inv, TypeOK, RunInv, Submit
<1>2. r \in Runs /\ r.at = "submit"
  BY <1>1 DEF Runs
<1>3. run' = [run EXCEPT ![i] = r]
  BY <1>1 DEF Submit, Goto, Inv, TypeOK
<1>4. q \in Requests /\ q.key = q.trigger
  BY <1>1 DEF Key, Requests
<1>5. wire' = wire \cup {q}
  BY DEF Submit
<1>. HIDE DEF r, q
<1>6. WireInv' /\ wire' \subseteq Requests
  BY <1>4, <1>5 DEF Inv, TypeOK, WireInv
<1>7. TypeOK' /\ WaitingInv' /\ RunInv' /\ OrderInv' /\ RotationInv'
  BY <1>1, <1>2, <1>3, <1>6, RunMoves DEF Submit
<1>. QED  BY <1>6, <1>7 DEF Inv

(* The run is over.                                                        *)
LEMMA FinishKeepsInv ==
  ASSUME LoopAssumption, Inv, NEW i \in Instrument, Finish(i)
  PROVE  Inv'
<1>1. NoRun \in Runs /\ NoRun.at = "idle"
  BY DEF LoopAssumption, NoRun, Runs
<1>2. wire' = wire /\ wire' \subseteq Requests
  BY DEF Finish, Inv, TypeOK
<1>3. WireInv'
  BY <1>2 DEF Inv, WireInv
<1>4. TypeOK' /\ WaitingInv' /\ RunInv' /\ OrderInv' /\ RotationInv'
  BY <1>1, <1>2, RunMoves DEF Finish
<1>. QED  BY <1>3, <1>4 DEF Inv

(* A step of the engine, the market or the operator leaves the runs alone. *)
LEMMA RunsKept ==
  ASSUME Inv, UNCHANGED <<configured, waiting, startIndex, run, passed, restarts>>
  PROVE  /\ WaitingInv' /\ RunInv' /\ RotationInv'
         /\ Cardinality(InFlight') <= MaxConcurrent
BY DEF Inv, TypeOK, WaitingInv, RunInv, RotationInv, Since, InFlight

(* A row is made once for each name, and a name stands for one trigger.    *)
LEMMA ReceiveKeepsInv ==
  ASSUME LoopAssumption, Inv, NEW r \in wire, Receive(r)
  PROVE  Inv'
<1>1. r \in Requests /\ r.key = r.trigger /\ r.instrument \in Instrument /\ r.key \in Bucket
  BY DEF Inv, TypeOK, WireInv, Requests
<1>2. wire' \subseteq Requests /\ WireInv'
  BY DEF Inv, TypeOK, WireInv, Receive
<1>3. UNCHANGED <<configured, stopping, waiting, startIndex, run, bucket, passed, restarts>>
  BY DEF Receive
<1>4. /\ order' \in [Instrument -> [Bucket -> {"none", "live", "done"}]]
      /\ placed' \in [Instrument -> [Bucket -> Nat]]
      /\ OrderInv'
  <2>1. CASE /\ order[r.instrument][r.key] = "none"
             /\ order' = [order EXCEPT ![r.instrument][r.key] = "live"]
             /\ placed' = [placed EXCEPT ![r.instrument][r.trigger] = @ + 1]
    <3>1. /\ order' \in [Instrument -> [Bucket -> {"none", "live", "done"}]]
          /\ placed' \in [Instrument -> [Bucket -> Nat]]
      BY <1>1, <2>1 DEF Inv, TypeOK
    <3>2. placed[r.instrument][r.key] = 0
      BY <1>1, <2>1 DEF Inv, OrderInv
    <3>3. \A i \in Instrument, t \in Bucket :
            IF i = r.instrument /\ t = r.key
            THEN order'[i][t] = "live" /\ placed'[i][t] = 1
            ELSE order'[i][t] = order[i][t] /\ placed'[i][t] = placed[i][t]
      BY <1>1, <2>1, <3>2 DEF Inv, TypeOK
    <3>4. OrderInv'
      BY <3>3 DEF Inv, OrderInv
    <3>. QED  BY <3>1, <3>4
  <2>2. CASE UNCHANGED <<order, placed>>
    BY <2>2 DEF Inv, TypeOK, OrderInv
  <2>. QED  BY <2>1, <2>2 DEF Receive
<1>5. WaitingInv' /\ RunInv' /\ RotationInv' /\ Cardinality(InFlight') <= MaxConcurrent
  BY <1>3, RunsKept
<1>6. TypeOK'
  BY <1>2, <1>3, <1>4, <1>5 DEF Inv, TypeOK
<1>. QED  BY <1>2, <1>4, <1>5, <1>6 DEF Inv

(* The row of an order that is over stays.                                 *)
LEMMA OrderEndsKeepsInv ==
  ASSUME LoopAssumption, Inv, NEW i \in Instrument, NEW k \in Bucket, OrderEnds(i, k)
  PROVE  Inv'
<1>1. UNCHANGED <<configured, stopping, waiting, startIndex, run, bucket, wire>>
      /\ UNCHANGED <<placed, passed, restarts>>
  BY DEF OrderEnds
<1>2. order' \in [Instrument -> [Bucket -> {"none", "live", "done"}]]
  BY DEF Inv, TypeOK, OrderEnds
<1>3. \A j \in Instrument, t \in Bucket : order'[j][t] = "none" => order[j][t] = "none"
  BY DEF Inv, TypeOK, OrderEnds
<1>4. OrderInv' /\ WireInv'
  BY <1>1, <1>3 DEF Inv, OrderInv, WireInv
<1>5. WaitingInv' /\ RunInv' /\ RotationInv' /\ Cardinality(InFlight') <= MaxConcurrent
  BY <1>1, RunsKept
<1>6. TypeOK'
  BY <1>1, <1>2, <1>5 DEF Inv, TypeOK
<1>. QED  BY <1>4, <1>5, <1>6 DEF Inv

LEMMA NextBucketKeepsInv ==
  ASSUME LoopAssumption, Inv, NextBucket
  PROVE  Inv'
<1>1. bucket' \in Bucket
  BY DEF LoopAssumption, Inv, TypeOK, Bucket, NextBucket
<1>2. WaitingInv' /\ RunInv' /\ RotationInv' /\ Cardinality(InFlight') <= MaxConcurrent
  BY RunsKept DEF NextBucket
<1>3. TypeOK'
  BY <1>1, <1>2 DEF Inv, TypeOK, NextBucket
<1>4. OrderInv' /\ WireInv'
  BY DEF Inv, OrderInv, WireInv, NextBucket
<1>. QED  BY <1>2, <1>3, <1>4 DEF Inv

LEMMA StopKeepsInv ==
  ASSUME LoopAssumption, Inv, Stop
  PROVE  Inv'
<1>1. WaitingInv' /\ RunInv' /\ RotationInv' /\ Cardinality(InFlight') <= MaxConcurrent
  BY RunsKept DEF Stop
<1>2. TypeOK'
  BY <1>1 DEF Inv, TypeOK, Stop
<1>3. OrderInv' /\ WireInv'
  BY DEF Inv, OrderInv, WireInv, Stop
<1>. QED  BY <1>1, <1>2, <1>3 DEF Inv

(* The next process has no run and no memory; the rows are not its own.    *)
LEMMA RestartKeepsInv ==
  ASSUME LoopAssumption, Inv, Restart
  PROVE  Inv'
<1>1. NoRun \in Runs /\ 0 \in Instrument /\ 0 \in 0..N /\ 0 \in 0..MaxWaiting
  BY DEF LoopAssumption, NoRun, Runs, Instrument
<1>2. restarts' \in 0..MaxRestarts
  BY DEF LoopAssumption, Inv, TypeOK, Restart
<1>3. /\ run' \in [Instrument -> Runs] /\ \A i \in Instrument : run'[i] = NoRun
      /\ passed' \in [Instrument -> 0..N] /\ \A i \in Instrument : passed'[i] = 0
  BY <1>1 DEF Restart
<1>4. InFlight' = {}
  BY <1>3 DEF InFlight, NoRun
<1>5. Cardinality(InFlight') <= MaxConcurrent
  BY <1>4, FS_EmptySet DEF LoopAssumption
<1>6. TypeOK'
  BY <1>1, <1>2, <1>3, <1>5 DEF Inv, TypeOK, Restart
<1>7. WaitingInv' /\ RunInv' /\ WireInv' /\ OrderInv'
  BY <1>3 DEF Inv, WaitingInv, RunInv, WireInv, OrderInv, Restart, NoRun
<1>8. RotationInv'
  <2>1. startIndex' = 0 /\ \A i \in Instrument : i \in Nat /\ i < N
    BY DEF LoopAssumption, Restart, Instrument
  <2>2. \A i \in Instrument : Since(i)' \in Nat
    BY <2>1 DEF LoopAssumption, Since
  <2>. QED  BY <1>3, <2>2 DEF RotationInv
<1>. QED  BY <1>6, <1>7, <1>8 DEF Inv

LEMMA StepInv ==
  ASSUME LoopAssumption, Inv, [Next]_vars
  PROVE  Inv'
<1>1. CASE UNCHANGED vars
  BY <1>1 DEF vars, Inv, TypeOK, WaitingInv, RunInv, WireInv, OrderInv, RotationInv,
              Since, InFlight
<1>2. CASE ConfiguredCycle \/ LegacyCycle \/ Synced
  BY <1>2, ConfiguredCycleKeepsInv, LegacyCycleKeepsInv, SyncedKeepsInv
<1>3. CASE \E i \in Instrument : Check(i) \/ Evaluate(i) \/ Submit(i) \/ Finish(i)
  BY <1>3, CheckKeepsInv, EvaluateKeepsInv, SubmitKeepsInv, FinishKeepsInv
<1>4. CASE \E r \in wire : Receive(r)
  BY <1>4, ReceiveKeepsInv
<1>5. CASE \E i \in Instrument, k \in Bucket : OrderEnds(i, k)
  BY <1>5, OrderEndsKeepsInv
<1>6. CASE NextBucket \/ Stop \/ Restart
  BY <1>6, NextBucketKeepsInv, StopKeepsInv, RestartKeepsInv
<1>. QED  BY <1>1, <1>2, <1>3, <1>4, <1>5, <1>6 DEF Next

LEMMA Invariance ==
  ASSUME LoopAssumption
  PROVE  Spec => []Inv
<1>1. Init => Inv
  BY InitInv
<1>2. Inv /\ [Next]_vars => Inv'
  BY StepInv
<1>. QED  BY <1>1, <1>2, PTL DEF Spec

(***************************************************************************)
(* Type correctness, and with it the cap: however ticks, operator calls    *)
(* and a cycle that waited for the strategy state overlap, no more than    *)
(* maxConcurrentInstruments instruments run at once.                       *)
(***************************************************************************)
THEOREM TypeCorrect ==
  ASSUME LoopAssumption
  PROVE  Spec => []TypeOK
<1>1. Inv => TypeOK
  BY DEF Inv
<1>. QED  BY <1>1, Invariance, PTL

(***************************************************************************)
(* A trigger trades once, for any number of overlapping cycles, requests   *)
(* that outlive their runs, and restarts.                                  *)
(***************************************************************************)
THEOREM OneOrderPerTriggerHolds ==
  ASSUME LoopAssumption
  PROVE  Spec => []OneOrderPerTrigger
<1>1. Inv => OneOrderPerTrigger
  BY DEF Inv, OrderInv, OneOrderPerTrigger
<1>. QED  BY <1>1, Invariance, PTL

(***************************************************************************)
(* N cycles of the configured loop that each begin idle start every one of *)
(* N instruments, whatever the cap is.                                     *)
(***************************************************************************)
THEOREM RotationReachesAllHolds ==
  ASSUME LoopAssumption
  PROVE  Spec => []RotationReachesAll
<1>1. Inv => RotationReachesAll
  <2> SUFFICES ASSUME Inv, NEW i \in Instrument
               PROVE  passed[i] < N
    BY DEF RotationReachesAll
  <2>1. Since(i) \in Nat /\ Since(i) < N
    BY DEF LoopAssumption, Inv, TypeOK, Instrument, Since
  <2>2. passed[i] \in Nat /\ passed[i] <= Since(i)
    BY DEF LoopAssumption, Inv, TypeOK, RotationInv
  <2>. QED  BY <2>1, <2>2 DEF LoopAssumption
<1>. QED  BY <1>1, Invariance, PTL

(* Outside of a cycle no run starts.                                       *)
LEMMA OnlyCyclesStart ==
  ASSUME Inv, [Next]_vars, stopping, stopping'
  PROVE  {i \in Instrument : run'[i].at # "idle"} \subseteq InFlight
<1> SUFFICES ASSUME NEW j \in Instrument, run'[j].at # "idle", run[j].at = "idle"
             PROVE  FALSE
  BY DEF InFlight
<1>1. CASE run' = run
  BY <1>1
<1>2. CASE ConfiguredCycle \/ Synced
  BY <1>1, <1>2 DEF ConfiguredCycle, Synced
<1>3. CASE \E i \in Instrument : Check(i) \/ Evaluate(i) \/ Submit(i) \/ Finish(i)
  <2>1. PICK i \in Instrument : Check(i) \/ Evaluate(i) \/ Submit(i) \/ Finish(i)
    BY <1>3
  <2>2. run[i].at # "idle"
    BY <2>1 DEF Check, Evaluate, Submit, Finish
  <2>3. run'[j] = run[j]
    BY <2>1, <2>2 DEF Check, Evaluate, Submit, Finish, Goto, Inv, TypeOK
  <2>. QED  BY <2>3
<1>4. CASE Restart
  BY <1>4 DEF Restart
<1>5. CASE LegacyCycle \/ (\E r \in wire : Receive(r)) \/ NextBucket \/ Stop
           \/ (\E i \in Instrument, k \in Bucket : OrderEnds(i, k))
  BY <1>1, <1>5 DEF LegacyCycle, Receive, NextBucket, Stop, OrderEnds
<1>. QED  BY <1>1, <1>2, <1>3, <1>4, <1>5 DEF Next, vars

(***************************************************************************)
(* After stop() nothing starts a run, a cycle that was waiting for the     *)
(* strategy state when it was called included.                             *)
(***************************************************************************)
THEOREM StoppedStartsNothingHolds ==
  ASSUME LoopAssumption
  PROVE  Spec => StoppedStartsNothing
<1>1. Inv /\ [Next]_vars =>
        [stopping /\ stopping' => {i \in Instrument : run'[i].at # "idle"} \subseteq InFlight]_vars
  BY OnlyCyclesStart
<1>. QED  BY <1>1, Invariance, PTL DEF Spec, StoppedStartsNothing

==============================================================================
