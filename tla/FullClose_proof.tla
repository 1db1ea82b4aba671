--------------------------- MODULE FullClose_proof ---------------------------
(***************************************************************************)
(* Proofs about FullClose for any number of connections.                   *)
(*                                                                         *)
(* Nothing that is asked of a close is true of one state only: the request *)
(* goes on what a capture saw, and the broker has moved since.  What makes *)
(* it safe is that orders only move forward.  A leg that a run no longer   *)
(* lists as working will not work again, and a fill that it lists stays    *)
(* (CaptureInv, RunInv); a cancellation that was confirmed stays too       *)
(* (LegInv).  Hence, when a SELL is claimed on a net of one and on legs    *)
(* that are filled or confirmed, the entry is filled and both exits are    *)
(* gone for good (SubmittedInv): the SELL is sent against them however     *)
(* much later that is, and no account it can complete has another order.   *)
(***************************************************************************)
EXTENDS FullClose, FiniteSetTheorems, TLAPS

(* The legs are at the broker from the start; an exit fills after the      *)
(* entry and instead of the other.                                         *)
OrderInv ==
    /\ \A r \in Role : order[r] \in {"working", "filled", "cancelled"}
    /\ \A c \in Child : order[c] = "filled" => order["PARENT"] = "filled"
    /\ ~(order["TP"] = "filled" /\ order["SL"] = "filled")

(* What a read of the broker saw is out of date in one direction only.     *)
CaptureInv ==
    cap # None =>
        /\ cap.filled \subseteq Filled
        /\ cap.usable /\ "openOrders" \in cap.read =>
              \A r \in Role : order[r] = "working" => r \in cap.working

RunInv ==
    run # None =>
        /\ run.filled \subseteq Filled
        /\ \A r \in Role : order[r] = "working" => r \in run.working

(* Who acts on an operation has one; a reservation starts with none.       *)
OperationInv ==
    /\ op.state = "none" => op = NoOp
    /\ req.at = "reserve" => op = NoOp
    /\ req.at \notin {"idle", "reserve"} => op.state # "none"
    /\ obs = "reconcile" => op.state # "none"

(* A write follows its marker and is made once.                            *)
MarkerInv ==
    /\ \A r \in Role : cancels[r] <= 1 /\ (r \notin op.attempts => cancels[r] = 0)
    /\ req.at = "cancel" => req.role \in op.attempts /\ cancels[req.role] = 0
    /\ sends <= 1
    /\ ~op.submitted => sends = 0 /\ order["CLOSE"] = "none"
    /\ req.at = "dispatch" => op.submitted /\ sends = 0 /\ order["CLOSE"] = "none"

(* The cancellations that are recorded are real, and the request does not  *)
(* turn to an exit while the entry works.                                  *)
LegInv ==
    /\ \A r \in op.terminals : order[r] = "cancelled"
    /\ req.at = "record" => order[req.role] = "cancelled"
    /\ req.at = "recorded" => req.role \in op.terminals
    /\ req.role \in Child => order["PARENT"] # "working"
    /\ \A c \in Child : cancels[c] = 1 => order["PARENT"] # "working"

(* From the claim of the SELL on the entry is filled and the exits gone.   *)
SubmittedInv ==
    op.submitted => order["PARENT"] = "filled" /\ Child \subseteq op.terminals

(* A close that is over is over for every order.                           *)
CompletedInv ==
    op.state = "COMPLETED" =>
        /\ Position = 0
        /\ \A r \in Order : order[r] \notin {"sent", "working"}
        /\ op.submitted => order["CLOSE"] = "filled"

(* The inductive invariant.                                                *)
Inv ==
    /\ TypeOK
    /\ OrderInv
    /\ CaptureInv
    /\ RunInv
    /\ OperationInv
    /\ MarkerInv
    /\ LegInv
    /\ SubmittedInv
    /\ CompletedInv

-----------------------------------------------------------------------------
(* What evidence means *)

(* The account is flat and no order of the cycle is left.                  *)
Flat ==
    /\ Position = 0
    /\ \A r \in Order : order[r] \notin {"sent", "working"}
    /\ op.submitted => order["CLOSE"] = "filled"

LEMMA OrdersApart ==
  /\ Child = {"TP", "SL"} /\ Role = {"PARENT", "TP", "SL"}
  /\ Order = {"PARENT", "TP", "SL", "CLOSE"} /\ Exits = {"TP", "SL", "CLOSE"}
  /\ Role \subseteq Order
BY DEF Child, Role, Order, Exits

(* Counting exits.                                                         *)
LEMMA CountExits ==
  ASSUME NEW S \in SUBSET Exits
  PROVE  /\ Cardinality(S) \in Nat
         /\ Cardinality(S) = 0 <=> S = {}
         /\ Cardinality(S) = 1 <=> \E x : S = {x}
<1>1. IsFiniteSet({}) /\ Exits = (({} \cup {"TP"}) \cup {"SL"}) \cup {"CLOSE"}
  BY FS_EmptySet DEF Exits
<1>2. IsFiniteSet({} \cup {"TP"})
  BY <1>1, FS_AddElement
<1>3. IsFiniteSet(({} \cup {"TP"}) \cup {"SL"})
  BY <1>2, FS_AddElement
<1>4. IsFiniteSet(Exits)
  BY <1>1, <1>3, FS_AddElement
<1>5. IsFiniteSet(S)
  BY <1>4, FS_Subset
<1>. QED  BY <1>5, FS_CardinalityType, FS_EmptySet, FS_Singleton

LEMMA NetMeans ==
  ASSUME run \in Records
  PROVE  /\ Net = 1 => ParentFilled /\ Exits \cap run.filled = {}
         /\ Net = 0 => \/ ~ParentFilled
                       \/ \E x \in Exits : Exits \cap run.filled = {x}
<1>1. /\ Cardinality(Exits \cap run.filled) \in Nat
      /\ Cardinality(Exits \cap run.filled) = 0 <=> Exits \cap run.filled = {}
      /\ Cardinality(Exits \cap run.filled) = 1 <=> \E x : Exits \cap run.filled = {x}
  BY CountExits
<1>2. CASE ParentFilled
  <2>1. Net = 1 - Cardinality(Exits \cap run.filled)
    BY <1>2 DEF Net, ParentFilled
  <2>2. Net = 1 => Cardinality(Exits \cap run.filled) = 0
    BY <1>1, <2>1
  <2>3. Net = 0 => Cardinality(Exits \cap run.filled) = 1
    BY <1>1, <2>1
  <2>. QED  BY <1>1, <1>2, <2>2, <2>3
<1>3. CASE ~ParentFilled
  <2>1. Net = 0 - Cardinality(Exits \cap run.filled)
    BY <1>3 DEF Net, ParentFilled
  <2>2. Net # 1
    BY <1>1, <2>1
  <2>. QED  BY <1>3, <2>2
<1>. QED  BY <1>2, <1>3

(* The account from the exits that filled.                                 *)
LEMMA PositionIs ==
  /\ (\A r \in Exits : order[r] # "filled") =>
        Position = IF order["PARENT"] = "filled" THEN 1 ELSE 0
  /\ \A x \in Exits :
        (order[x] = "filled" /\ \A r \in Exits \ {x} : order[r] # "filled") =>
            Position = IF order["PARENT"] = "filled" THEN 0 ELSE -1
<1>. DEFINE S == {r \in Child \cup {"CLOSE"} : order[r] = "filled"}
<1>1. S \subseteq Exits /\ S = {r \in Exits : order[r] = "filled"}
  BY OrdersApart
<1>2. /\ Cardinality(S) = 0 <=> S = {}
      /\ Cardinality(S) = 1 <=> \E x : S = {x}
  BY <1>1, CountExits
<1>3. Position = (IF order["PARENT"] = "filled" THEN 1 ELSE 0) - Cardinality(S)
  BY DEF Position, Bought, Sold
<1>4. ASSUME \A r \in Exits : order[r] # "filled"
      PROVE  Position = IF order["PARENT"] = "filled" THEN 1 ELSE 0
  <2>1. S = {}
    BY <1>1, <1>4
  <2>2. Cardinality(S) = 0
    BY <1>2, <2>1
  <2>. HIDE DEF S
  <2>. QED  BY <1>3, <2>2
<1>5. ASSUME NEW x \in Exits, order[x] = "filled", \A r \in Exits \ {x} : order[r] # "filled"
      PROVE  Position = IF order["PARENT"] = "filled" THEN 0 ELSE -1
  <2>1. S = {x}
    BY <1>1, <1>5
  <2>2. Cardinality(S) = 1
    BY <1>2, <2>1
  <2>. HIDE DEF S
  <2>. QED  BY <1>3, <2>2
<1>. QED  BY <1>4, <1>5

(* The account holds the share or it is flat.                              *)
LEMMA PositionBound ==
  ASSUME Inv
  PROVE  Position \in {0, 1}
<1>1. CASE op.submitted
  <2>1. order["PARENT"] = "filled" /\ \A c \in Child : order[c] = "cancelled"
    BY <1>1 DEF Inv, SubmittedInv, LegInv
  <2>2. CASE order["CLOSE"] = "filled"
    <3>1. \A r \in Exits \ {"CLOSE"} : order[r] # "filled"
      BY <2>1, OrdersApart
    <3>2. "CLOSE" \in Exits
      BY OrdersApart
    <3>. QED  BY <2>1, <2>2, <3>1, <3>2, PositionIs
  <2>3. CASE order["CLOSE"] # "filled"
    <3>1. \A r \in Exits : order[r] # "filled"
      BY <2>1, <2>3, OrdersApart
    <3>. QED  BY <3>1, PositionIs
  <2>. QED  BY <2>2, <2>3
<1>2. CASE ~op.submitted
  <2>1. order["CLOSE"] = "none"
    BY <1>2 DEF Inv, MarkerInv
  <2>2. CASE \A c \in Child : order[c] # "filled"
    <3>1. \A r \in Exits : order[r] # "filled"
      BY <2>1, <2>2, OrdersApart
    <3>. QED  BY <3>1, PositionIs
  <2>3. ASSUME NEW c \in Child, order[c] = "filled"
        PROVE  Position \in {0, 1}
    <3>1. c \in Exits /\ order["PARENT"] = "filled"
          /\ \A r \in Exits \ {c} : order[r] # "filled"
      BY <2>1, <2>3, OrdersApart DEF Inv, OrderInv
    <3>. QED  BY <2>3, <3>1, PositionIs
  <2>. QED  BY <2>2, <2>3
<1>. QED  BY <1>1, <1>2

(* Evidence that completes a close: it is over at the broker.              *)
LEMMA CompletesFlat ==
  ASSUME Inv, EvidenceOk, CanComplete
  PROVE  Flat
<1>1. run \in Records /\ run # None
  BY DEF Inv, TypeOK, EvidenceOk, FactsHold
<1>2. run.filled \subseteq Filled /\ run.working = {} /\ Net = 0
  BY <1>1 DEF Inv, RunInv, CanComplete
<1>3. \A r \in Role : order[r] \in {"filled", "cancelled"}
  BY <1>1, <1>2 DEF Inv, OrderInv, RunInv
<1>4. CASE ~ParentFilled
  <2>1. LegsTerminal /\ run.filled = {} /\ ~op.submitted
    BY <1>4 DEF CanComplete, Inv, TypeOK, Operations
  <2>2. \A r \in Role : order[r] = "cancelled"
    BY <2>1 DEF LegsTerminal, Inv, LegInv
  <2>3. order["CLOSE"] = "none"
    BY <2>1 DEF Inv, MarkerInv
  <2>4. Position = 0
    <3>1. \A r \in Exits : order[r] # "filled"
      BY <2>2, <2>3, OrdersApart
    <3>2. order["PARENT"] # "filled"
      BY <2>2, OrdersApart
    <3>. QED  BY <3>1, <3>2, PositionIs
  <2>. QED  BY <2>1, <2>2, <2>3, <2>4, OrdersApart DEF Flat
<1>5. CASE ParentFilled
  <2>1. PICK x \in Exits : Exits \cap run.filled = {x}
    BY <1>1, <1>2, <1>5, NetMeans
  <2>2. order["PARENT"] = "filled" /\ order[x] = "filled"
    BY <1>2, <1>5, <2>1 DEF ParentFilled, Filled
  <2>3. CASE x = "CLOSE"
    <3>1. op.submitted
      BY <2>2, <2>3 DEF Inv, MarkerInv
    <3>2. \A c \in Child : order[c] = "cancelled"
      BY <3>1 DEF Inv, SubmittedInv, LegInv
    <3>3. \A r \in Exits \ {x} : order[r] # "filled"
      BY <2>3, <3>2, OrdersApart
    <3>4. Position = 0
      BY <2>2, <3>3, PositionIs
    <3>. QED  BY <2>2, <2>3, <3>2, <3>4, OrdersApart DEF Flat
  <2>4. CASE x # "CLOSE"
    <3>1. ~op.submitted
      BY <2>1, <2>4, OrdersApart DEF CanComplete, Inv, TypeOK, Operations
    <3>2. order["CLOSE"] = "none"
      BY <3>1 DEF Inv, MarkerInv
    <3>3. \A r \in Exits \ {x} : order[r] # "filled"
      BY <2>2, <2>4, <3>2, OrdersApart DEF Inv, OrderInv
    <3>4. Position = 0
      BY <2>2, <3>3, PositionIs
    <3>. QED  BY <1>3, <3>1, <3>2, <3>4, OrdersApart DEF Flat
  <2>. QED  BY <2>3, <2>4
<1>. QED  BY <1>4, <1>5

(* Evidence that authorises a SELL: the entry is filled, the exits are     *)
(* confirmed to be cancelled.                                              *)
LEMMA SellsAlone ==
  ASSUME Inv, MaySell
  PROVE  order["PARENT"] = "filled" /\ Child \subseteq op.terminals
<1>1. run \in Records /\ run # None /\ run.filled \subseteq Filled
  BY DEF Inv, TypeOK, RunInv, MaySell, EvidenceOk, FactsHold
<1>2. ParentFilled /\ Exits \cap run.filled = {}
  BY <1>1, NetMeans DEF MaySell
<1>3. order["PARENT"] = "filled"
  BY <1>1, <1>2 DEF ParentFilled, Filled
<1>4. \A c \in Child : c \in op.terminals
  BY <1>2, OrdersApart DEF MaySell, LegsTerminal
<1>. QED  BY <1>3, <1>4

-----------------------------------------------------------------------------
(* Steps that move no order *)

(* The reads, the snapshot and the connection.                             *)
LEMMA EvidenceStep ==
  ASSUME Inv, UNCHANGED <<order, cancels, sends, op, req, obs>>,
         fills' \in BOOLEAN, conn' \in 1..MaxConnections, sync' \in Snapshots,
         run' = None \/ run' \in Records, cap' = None \/ cap' \in Captures,
         wait' \in [Actor -> {"sync", "run", "done"}],
         CaptureInv', RunInv'
  PROVE  Inv'
<1>1. TypeOK'
  BY DEF Inv, TypeOK
<1>2. OrderInv' /\ OperationInv' /\ MarkerInv' /\ LegInv' /\ SubmittedInv'
  BY DEF Inv, OrderInv, OperationInv, MarkerInv, LegInv, SubmittedInv
<1>3. CompletedInv'
  BY DEF Inv, CompletedInv, Position, Bought, Sold
<1>. QED  BY <1>1, <1>2, <1>3 DEF Inv

LEMMA OutdatedCapture ==
  ASSUME Inv, UNCHANGED order, cap' = Outdated(cap)
  PROVE  /\ cap' = None \/ cap' \in Captures
         /\ CaptureInv'
<1>1. CASE cap = None
  BY <1>1 DEF Outdated, CaptureInv
<1>2. CASE cap # None
  <2>1. cap \in Captures
    BY <1>2 DEF Inv, TypeOK
  <2>2. cap' = [cap EXCEPT !.usable = FALSE, !.pos = 0, !.working = {}, !.filled = {},
                           !.confirmed = {}]
    BY <1>2 DEF Outdated
  <2>3. cap' = [usable |-> FALSE, pos |-> 0, working |-> {}, filled |-> {}, read |-> cap.read,
                confirmed |-> {}, fresh |-> cap.fresh]
    BY <2>1, <2>2 DEF Captures
  <2>4. cap.read \in SUBSET Source /\ cap.fresh \in SUBSET Actor /\ 0 \in -1..1
    BY <2>1 DEF Captures
  <2>5. cap' \in Captures /\ cap'.usable = FALSE /\ cap'.filled = {}
    BY <2>3, <2>4 DEF Captures
  <2>. QED  BY <2>5 DEF CaptureInv
<1>. QED  BY <1>1, <1>2

(* A step that writes nothing to the broker and records no leg: what the   *)
(* operation becomes, where the request and the observer go.               *)
LEMMA QuietStep ==
  ASSUME Inv,
         UNCHANGED <<order, cancels, sends, fills, conn, evidence>>,
         op' \in Operations, op'.terminals = op.terminals, op'.attempts = op.attempts,
         op'.submitted = op.submitted,
         op' = op \/ (op.state # "none" /\ op'.state # "none"),
         op'.state = "COMPLETED" => op.state = "COMPLETED" \/ Flat,
         req' \in Requests,
         req' = req \/ /\ req'.at \notin {"cancel", "record", "recorded", "dispatch"}
                       /\ req'.role \in Child => order["PARENT"] # "working"
                       /\ req'.at = "reserve" => op.state = "none"
                       /\ req'.at \notin {"idle", "reserve"} => op.state # "none",
         obs' \in {"idle", "cycle", "reconcile"},
         obs' = "reconcile" => obs = "reconcile" \/ op.state # "none",
         wait' \in [Actor -> {"sync", "run", "done"}]
  PROVE  Inv'
<1>1. UNCHANGED <<sync, run, cap>>
  BY DEF evidence
<1>2. TypeOK'
  BY <1>1 DEF Inv, TypeOK
<1>3. OrderInv' /\ CaptureInv' /\ RunInv'
  BY <1>1 DEF Inv, OrderInv, CaptureInv, RunInv, Filled
<1>4. NoOp.state = "none"
  BY DEF NoOp
<1>5. OperationInv'
  BY <1>4 DEF Inv, OperationInv
<1>6. MarkerInv'
  BY DEF Inv, MarkerInv
<1>7. LegInv'
  BY DEF Inv, LegInv
<1>8. SubmittedInv'
  BY DEF Inv, SubmittedInv
<1>9. CompletedInv'
  BY DEF Inv, CompletedInv, Flat, Position, Bought, Sold
<1>. QED  BY <1>2, <1>3, <1>5, <1>6, <1>7, <1>8, <1>9 DEF Inv

LEMMA Waits ==
  ASSUME Inv, NEW a \in Actor, NEW w \in {"sync", "run", "done"},
         wait' = [wait EXCEPT ![a] = w]
  PROVE  wait' \in [Actor -> {"sync", "run", "done"}]
BY DEF Inv, TypeOK

(* The refresh of a stage; the request goes on with a leg.                 *)
LEMMA Refreshes ==
  ASSUME Inv, NEW stage \in Stage, NEW role \in Role, RefreshThen(stage, role)
  PROVE  /\ req' \in Requests /\ req'.at = stage /\ req'.role = role
         /\ wait' \in [Actor -> {"sync", "run", "done"}]
<1>1. "request" \in Actor /\ 0 \in 0..MaxConnections
  BY ConnectionsAssumption DEF Actor
<1>2. req' \in Requests /\ req'.at = stage /\ req'.role = role
  BY <1>1 DEF RefreshThen, Requests
<1>. QED  BY <1>1, <1>2, Waits DEF RefreshThen

(* A leg is left behind when it works no more; only then comes an exit.    *)
LEMMA LegEnds ==
  ASSUME Inv, EndOfLeg(req.role), req.role = "PARENT" => order["PARENT"] # "working"
  PROVE  /\ req' \in Requests /\ req'.at \in {"leg", "after"}
         /\ req'.role \in Child => order["PARENT"] # "working"
         /\ wait' \in [Actor -> {"sync", "run", "done"}]
<1>1. req \in Requests /\ req.role \in Role
  BY DEF Inv, TypeOK, Requests
<1>2. order["PARENT"] # "working" \/ req.role \notin Child
  BY DEF Inv, LegInv
<1>3. CASE req.role = "SL"
  <2>1. RefreshThen("after", req.role) /\ "after" \in Stage
    BY <1>3 DEF EndOfLeg, Stage
  <2>. QED  BY <1>1, <1>2, <2>1, Refreshes
<1>4. CASE req.role # "SL"
  <2>1. /\ req' = [req EXCEPT !.at = "leg", !.role = NextRole(req.role)]
        /\ wait' = wait
    BY <1>4 DEF EndOfLeg
  <2>2. NextRole(req.role) \in Role /\ "leg" \in Stage
    BY <1>1, <1>4, OrdersApart DEF NextRole, Stage
  <2>3. req' \in Requests /\ req'.at = "leg"
    BY <1>1, <2>1, <2>2 DEF Requests
  <2>4. order["PARENT"] # "working"
    BY <1>1, <1>2, <1>4, OrdersApart
  <2>. QED  BY <2>1, <2>3, <2>4 DEF Inv, TypeOK
<1>. QED  BY <1>3, <1>4

(* What an observation makes of an operation.                              *)
LEMMA ObservedState ==
  ASSUME Inv, Observed, op.state # "none"
  PROVE  /\ op' \in Operations /\ op'.terminals = op.terminals
         /\ op'.attempts = op.attempts /\ op'.submitted = op.submitted
         /\ op'.state # "none"
         /\ op'.state = "COMPLETED" => op.state = "COMPLETED" \/ Flat
<1>1. op \in Operations
  BY DEF Inv, TypeOK
<1>2. CASE EvidenceOk /\ CanComplete
  <2>1. op' = [op EXCEPT !.state = "COMPLETED"]
    BY <1>2 DEF Observed
  <2>. QED  BY <1>1, <1>2, <2>1, CompletesFlat DEF Operations, OpState
<1>3. CASE ~(EvidenceOk /\ CanComplete)
  <2>1. op' = op \/ op' = [op EXCEPT !.state = "SUBMISSION_UNKNOWN"]
    BY <1>3 DEF Observed
  <2>. QED  BY <1>1, <2>1 DEF Operations, OpState
<1>. QED  BY <1>2, <1>3

LEMMA IdleRequest ==
  Idle \in Requests /\ Idle.at = "idle" /\ Idle.role = "PARENT" /\ "PARENT" \notin Child
BY ConnectionsAssumption DEF Idle, Requests, Stage, Role, Child

-----------------------------------------------------------------------------
(* The reads *)

LEMMA InvalidateKeepsInv ==
  ASSUME Inv, InvalidateSnapshot
  PROVE  Inv'
<1>1. /\ UNCHANGED <<order, cancels, sends, op, req, obs, conn, wait>> /\ fills' = FALSE
      /\ sync' = [sync EXCEPT !.complete = FALSE] /\ run' = None /\ cap' = Outdated(cap)
  BY DEF InvalidateSnapshot
<1>2. sync' \in Snapshots
  BY <1>1 DEF Inv, TypeOK, Snapshots
<1>3. RunInv'
  BY <1>1 DEF RunInv
<1>4. conn' \in 1..MaxConnections /\ wait' \in [Actor -> {"sync", "run", "done"}]
  BY <1>1 DEF Inv, TypeOK
<1>. QED  BY <1>1, <1>2, <1>3, <1>4, OutdatedCapture, EvidenceStep

LEMMA StartRunKeepsInv ==
  ASSUME Inv, StartRun
  PROVE  Inv'
<1>1. UNCHANGED <<order, cancels, sends, fills, conn, sync, run, op, req, obs, wait>>
  BY DEF StartRun, broker
<1>2. /\ fills \in BOOLEAN /\ conn \in 1..MaxConnections /\ sync \in Snapshots
      /\ run = None \/ run \in Records
      /\ wait \in [Actor -> {"sync", "run", "done"}]
      /\ op.terminals \in SUBSET Role /\ req.role \in Role /\ sync.complete \in BOOLEAN
  BY DEF Inv, TypeOK, Operations, Requests, Snapshots
<1>3. Confirmed \in SUBSET Role
  BY <1>2 DEF Confirmed
<1>. DEFINE fresh == {a \in Actor : wait[a] = "run"}
            confirmed == IF sync.complete THEN Confirmed ELSE {}
<1>4. cap' = [usable |-> sync.complete, pos |-> 0, working |-> {}, filled |-> {}, read |-> {},
              confirmed |-> confirmed, fresh |-> fresh]
  BY DEF StartRun
<1>5. confirmed \in SUBSET Role /\ fresh \in SUBSET Actor /\ 0 \in -1..1
  BY <1>3
<1>. HIDE DEF fresh, confirmed
<1>6. cap' \in Captures /\ cap'.filled = {} /\ cap'.read = {}
  BY <1>2, <1>4, <1>5 DEF Captures
<1>7. CaptureInv' /\ RunInv'
  BY <1>1, <1>6 DEF Inv, CaptureInv, RunInv, Filled
<1>. QED  BY <1>1, <1>2, <1>6, <1>7, EvidenceStep

LEMMA RefreshPositionKeepsInv ==
  ASSUME Inv, RefreshPosition
  PROVE  Inv'
<1>1. /\ UNCHANGED <<order, cancels, sends, fills, op, req, obs, conn>>
      /\ sync' = [pos |-> Position, complete |-> TRUE] /\ run' = None /\ cap' = Outdated(cap)
      /\ wait' = [a \in Actor |-> IF wait[a] = "sync" THEN "run" ELSE wait[a]]
  BY DEF RefreshPosition, broker
<1>2. sync' \in Snapshots
  BY <1>1, PositionBound DEF Snapshots
<1>3. RunInv'
  BY <1>1 DEF RunInv
<1>4. /\ conn' \in 1..MaxConnections /\ wait' \in [Actor -> {"sync", "run", "done"}]
      /\ fills' \in BOOLEAN
  BY <1>1 DEF Inv, TypeOK
<1>. QED  BY <1>1, <1>2, <1>3, <1>4, OutdatedCapture, EvidenceStep

(* A source is read as the broker is now.                                  *)
LEMMA ReadSourceKeepsInv ==
  ASSUME Inv, NEW s \in Source, ReadSource(s)
  PROVE  Inv'
<1>1. UNCHANGED <<order, cancels, sends, fills, conn, sync, run, op, req, obs, wait>>
  BY DEF ReadSource, broker
<1>2. cap \in Captures /\ cap # None
  BY DEF Inv, TypeOK, ReadSource
<1>. DEFINE pos == IF cap.usable /\ s = "positions" THEN Position ELSE cap.pos
            working == IF cap.usable /\ s = "openOrders" THEN Working ELSE cap.working
            filled == IF cap.usable /\ s = "executions" THEN Filled ELSE cap.filled
<1>3. cap' = [cap EXCEPT !.read = cap.read \cup {s}, !.pos = pos, !.working = working,
                         !.filled = filled]
  BY <1>2 DEF ReadSource
<1>4. pos \in -1..1 /\ working \in SUBSET Order /\ filled \in SUBSET Order
  BY <1>2, PositionBound DEF Captures, Working, Filled
<1>5. filled \subseteq Filled
  BY <1>2 DEF Inv, CaptureInv
<1>6. cap.usable /\ (s = "openOrders" \/ "openOrders" \in cap.read) =>
        \A r \in Role : order[r] = "working" => r \in working
  BY <1>2, OrdersApart DEF Inv, CaptureInv, Working
<1>. HIDE DEF pos, working, filled
<1>7. /\ cap' \in Captures /\ cap'.usable = cap.usable /\ cap'.read = cap.read \cup {s}
      /\ cap'.working = working /\ cap'.filled = filled
  BY <1>2, <1>3, <1>4 DEF Captures
<1>8. CaptureInv'
  BY <1>1, <1>5, <1>6, <1>7 DEF CaptureInv, Filled
<1>9. RunInv'
  BY <1>1 DEF Inv, RunInv, Filled
<1>10. /\ fills' \in BOOLEAN /\ conn' \in 1..MaxConnections /\ sync' \in Snapshots
       /\ run' = None \/ run' \in Records
       /\ wait' \in [Actor -> {"sync", "run", "done"}]
  BY <1>1 DEF Inv, TypeOK
<1>. QED  BY <1>1, <1>7, <1>8, <1>9, <1>10, EvidenceStep

LEMMA PublishRunKeepsInv ==
  ASSUME Inv, PublishRun
  PROVE  Inv'
<1>1. UNCHANGED <<order, cancels, sends, fills, conn, sync, op, req, obs>>
      /\ cap' = None /\ CaptureInv'
  BY DEF PublishRun, broker, CaptureInv
<1>2. cap \in Captures /\ cap # None /\ "openOrders" \in cap.read
  BY DEF Inv, TypeOK, PublishRun, Source
<1>3. (run' = None \/ run' \in Records) /\ RunInv'
  <2>1. CASE cap.usable
    <3>1. run' = [pos |-> cap.pos, working |-> cap.working, filled |-> cap.filled,
                  confirmed |-> cap.confirmed]
      BY <2>1 DEF PublishRun
    <3>2. run' \in Records
      BY <1>2, <3>1 DEF Captures, Records
    <3>3. cap.filled \subseteq Filled /\ \A r \in Role : order[r] = "working" => r \in cap.working
      BY <1>2, <2>1 DEF Inv, CaptureInv
    <3>4. RunInv'
      BY <1>1, <3>1, <3>3 DEF RunInv, Filled
    <3>. QED  BY <3>2, <3>4
  <2>2. CASE ~cap.usable
    BY <2>2 DEF PublishRun, RunInv
  <2>. QED  BY <2>1, <2>2
<1>4. wait' \in [Actor -> {"sync", "run", "done"}]
  BY DEF Inv, TypeOK, PublishRun
<1>5. fills' \in BOOLEAN /\ conn' \in 1..MaxConnections /\ sync' \in Snapshots
  BY <1>1 DEF Inv, TypeOK
<1>. QED  BY <1>1, <1>3, <1>4, <1>5, EvidenceStep

LEMMA ReconnectKeepsInv ==
  ASSUME Inv, Reconnect
  PROVE  Inv'
<1>1. /\ UNCHANGED <<order, cancels, sends, fills, op, req, obs, sync, run, wait>>
      /\ cap' = Outdated(cap)
  BY DEF Reconnect, broker
<1>2. conn' \in 1..MaxConnections
  BY ConnectionsAssumption DEF Inv, TypeOK, Reconnect
<1>3. RunInv'
  BY <1>1 DEF Inv, RunInv, Filled
<1>4. /\ fills' \in BOOLEAN /\ sync' \in Snapshots /\ (run' = None \/ run' \in Records)
      /\ wait' \in [Actor -> {"sync", "run", "done"}]
  BY <1>1 DEF Inv, TypeOK
<1>. QED  BY <1>1, <1>2, <1>3, <1>4, OutdatedCapture, EvidenceStep

-----------------------------------------------------------------------------
(* The request and the observer *)

(* The evidence stands as long as the orders do.                           *)
LEMMA EvidenceStands ==
  ASSUME Inv, UNCHANGED <<order, conn, evidence>>
  PROVE  /\ order' \in [Order -> OrderState] /\ conn' \in 1..MaxConnections
         /\ sync' \in Snapshots /\ (run' = None \/ run' \in Records)
         /\ cap' = None \/ cap' \in Captures
         /\ OrderInv' /\ CaptureInv' /\ RunInv'
<1>1. UNCHANGED <<order, conn, sync, run, cap>>
  BY DEF evidence
<1>. QED  BY <1>1 DEF Inv, TypeOK, OrderInv, CaptureInv, RunInv, Filled

LEMMA RequestKeepsInv ==
  ASSUME Inv, Request
  PROVE  Inv'
<1>1. /\ UNCHANGED <<order, cancels, sends, fills, conn, evidence, op, obs>>
      /\ req' = [at |-> "reserve", role |-> "PARENT", conn |-> conn]
      /\ wait' = [wait EXCEPT !["request"] = "sync"] /\ op.state = "none"
  BY DEF Request, broker
<1>2. /\ op \in Operations /\ obs \in {"idle", "cycle", "reconcile"}
      /\ wait' \in [Actor -> {"sync", "run", "done"}]
  BY <1>1 DEF Inv, TypeOK
<1>3. conn \in 0..MaxConnections
  BY ConnectionsAssumption DEF Inv, TypeOK
<1>4. req' \in Requests /\ req'.at = "reserve" /\ req'.role = "PARENT"
  BY <1>1, <1>3 DEF Requests, Stage, Role
<1>. QED  BY <1>1, <1>2, <1>4, IdleRequest, QuietStep

LEMMA ReserveKeepsInv ==
  ASSUME Inv, Reserve
  PROVE  Inv'
<1>. DEFINE state == IF CanComplete THEN "COMPLETED" ELSE "PREPARING"
<1>1. /\ UNCHANGED <<order, cancels, sends, fills, conn, evidence, obs, wait>>
      /\ op' = [NoOp EXCEPT !.state = state, !.conn = conn]
      /\ req' = IF CanComplete THEN Idle ELSE [req EXCEPT !.at = "leg", !.conn = 0]
      /\ req.at = "reserve" /\ EvidenceOk
  BY DEF Reserve, At, broker
<1>2. op = NoOp /\ req \in Requests /\ conn \in 0..MaxConnections
  BY <1>1, ConnectionsAssumption DEF Inv, OperationInv, TypeOK
<1>3. state \in OpState /\ state # "none" /\ (state = "COMPLETED" <=> CanComplete)
  BY DEF OpState
<1>. HIDE DEF state
<1>4. op' = [state |-> state, terminals |-> {}, attempts |-> {}, submitted |-> FALSE,
             conn |-> conn]
  BY <1>1 DEF NoOp
<1>5. /\ op' \in Operations /\ op'.terminals = {} /\ op'.attempts = {} /\ ~op'.submitted
      /\ op'.state = state
  BY <1>2, <1>3, <1>4 DEF Operations
<1>6. op.terminals = {} /\ op.attempts = {} /\ ~op.submitted
  BY <1>2 DEF NoOp
<1>7. req' \in Requests /\ req'.at \in {"idle", "leg"} /\ req'.role \in {"PARENT", req.role}
  <2>1. CASE CanComplete
    BY <1>1, <2>1, IdleRequest
  <2>2. CASE ~CanComplete
    <3>1. req' = [req EXCEPT !.at = "leg", !.conn = 0]
      BY <1>1, <2>2
    <3>2. req' = [at |-> "leg", role |-> req.role, conn |-> 0]
      BY <1>2, <3>1 DEF Requests
    <3>3. req.role \in Role /\ "leg" \in Stage /\ 0 \in 0..MaxConnections
      BY <1>2, ConnectionsAssumption DEF Requests, Stage
    <3>. QED  BY <3>2, <3>3 DEF Requests
  <2>. QED  BY <2>1, <2>2
<1>8. TypeOK'
  BY <1>1, <1>5, <1>7, EvidenceStands DEF Inv, TypeOK
<1>9. OperationInv'
  BY <1>3, <1>5, <1>7 DEF OperationInv
<1>10. MarkerInv'
  BY <1>1, <1>5, <1>6, <1>7 DEF Inv, MarkerInv
<1>11. LegInv'
  BY <1>1, <1>5, <1>7, IdleRequest DEF Inv, LegInv
<1>12. SubmittedInv'
  BY <1>5 DEF SubmittedInv
<1>13. CompletedInv'
  <2>1. CanComplete => Flat
    BY <1>1, CompletesFlat
  <2>. QED  BY <1>1, <1>3, <1>5, <2>1 DEF CompletedInv, Flat, Position, Bought, Sold
<1>. QED  BY <1>1, <1>8, <1>9, <1>10, <1>11, <1>12, <1>13, EvidenceStands DEF Inv

(* A leg that the run does not list works no more.                         *)
LEMMA SkipLegKeepsInv ==
  ASSUME Inv, SkipLeg
  PROVE  Inv'
<1>1. /\ UNCHANGED <<order, cancels, sends, fills, conn, evidence, op, obs>>
      /\ req.at = "leg" /\ run # None /\ req.role \notin run.working /\ EndOfLeg(req.role)
  BY DEF SkipLeg, At, EvidenceOk, FactsHold, broker
<1>2. order[req.role] # "working"
  BY <1>1 DEF Inv, RunInv, TypeOK, Requests
<1>3. op.state # "none" /\ op \in Operations /\ obs \in {"idle", "cycle", "reconcile"}
  BY <1>1 DEF Inv, OperationInv, TypeOK
<1>4. /\ req' \in Requests /\ req'.at \in {"leg", "after"}
      /\ req'.role \in Child => order["PARENT"] # "working"
      /\ wait' \in [Actor -> {"sync", "run", "done"}]
  BY <1>1, <1>2, LegEnds
<1>. QED  BY <1>1, <1>3, <1>4, QuietStep

LEMMA LegCancelledKeepsInv ==
  ASSUME Inv, LegCancelled
  PROVE  Inv'
<1>1. /\ UNCHANGED <<order, cancels, sends, fills, conn, evidence, op, obs>>
      /\ req.at = "recorded" /\ EndOfLeg(req.role)
  BY DEF LegCancelled, At, broker
<1>2. order[req.role] # "working"
  BY <1>1 DEF Inv, LegInv
<1>3. op.state # "none" /\ op \in Operations /\ obs \in {"idle", "cycle", "reconcile"}
  BY <1>1 DEF Inv, OperationInv, TypeOK
<1>4. /\ req' \in Requests /\ req'.at \in {"leg", "after"}
      /\ req'.role \in Child => order["PARENT"] # "working"
      /\ wait' \in [Actor -> {"sync", "run", "done"}]
  BY <1>1, <1>2, LegEnds
<1>. QED  BY <1>1, <1>3, <1>4, QuietStep

(* An observation that ends the request.                                   *)
LEMMA ObservationEndsRequest ==
  ASSUME Inv, Observed, op.state # "none", req' = Idle,
         UNCHANGED <<broker, conn, evidence, obs, wait>>
  PROVE  Inv'
<1>1. /\ UNCHANGED <<order, cancels, sends, fills, conn, evidence, obs, wait>>
      /\ obs \in {"idle", "cycle", "reconcile"} /\ wait \in [Actor -> {"sync", "run", "done"}]
  BY DEF broker, Inv, TypeOK
<1>. QED  BY <1>1, ObservedState, IdleRequest, QuietStep

LEMMA ObservingRequestKeepsInv ==
  ASSUME Inv, ObserveRequest \/ ObserveFinal
  PROVE  Inv'
<1>1. req.at \in {"observe", "final"}
  BY DEF ObserveRequest, ObserveFinal, At
<1>2. op.state # "none"
  BY <1>1 DEF Inv, OperationInv
<1>3. Observed /\ req' = Idle /\ UNCHANGED <<broker, conn, evidence, obs, wait>>
  BY DEF ObserveRequest, ObserveFinal
<1>. QED  BY <1>2, <1>3, ObservationEndsRequest

(* Evidence that completes the close decides nothing yet.                  *)
LEMMA CompleteEarlyKeepsInv ==
  ASSUME Inv, CompleteEarly
  PROVE  Inv'
<1>1. /\ UNCHANGED <<order, cancels, sends, fills, conn, evidence, op, obs, wait>>
      /\ req.at \in {"leg", "after"} /\ req' = [req EXCEPT !.at = "observe"]
  BY DEF CompleteEarly, At, Goto, broker
<1>2. /\ op.state # "none" /\ op \in Operations /\ obs \in {"idle", "cycle", "reconcile"}
      /\ req \in Requests /\ (req.role \in Child => order["PARENT"] # "working")
      /\ wait \in [Actor -> {"sync", "run", "done"}]
  BY <1>1 DEF Inv, OperationInv, LegInv, TypeOK
<1>3. req' \in Requests /\ req'.at = "observe" /\ req'.role = req.role
  BY <1>1, <1>2 DEF Requests, Stage
<1>. QED  BY <1>1, <1>2, <1>3, QuietStep

(* A step that ends in a refresh; a role at an exit stays one.             *)
LEMMA PrepareKeepsInv ==
  ASSUME Inv, Prepare
  PROVE  Inv'
<1>1. /\ UNCHANGED <<order, cancels, sends, fills, conn, evidence, op, obs>>
      /\ req.at = "after" /\ RefreshThen("claim", req.role)
  BY DEF Prepare, At, broker
<1>2. /\ op.state # "none" /\ op \in Operations /\ obs \in {"idle", "cycle", "reconcile"}
      /\ req.role \in Role /\ (req.role \in Child => order["PARENT"] # "working")
  BY <1>1 DEF Inv, OperationInv, LegInv, TypeOK, Requests
<1>3. /\ req' \in Requests /\ req'.at = "claim" /\ req'.role = req.role
      /\ wait' \in [Actor -> {"sync", "run", "done"}]
  BY <1>1, <1>2, Refreshes DEF Stage
<1>. QED  BY <1>1, <1>2, <1>3, QuietStep

LEMMA SubmittedKeepsInv ==
  ASSUME Inv, Submitted
  PROVE  Inv'
<1>1. /\ UNCHANGED <<order, cancels, sends, fills, conn, evidence, obs>>
      /\ req.at = "accepted" /\ RefreshThen("observe", req.role)
      /\ op' = IF op.state = "SUBMISSION_UNKNOWN" THEN [op EXCEPT !.state = "SUBMITTED"] ELSE op
  BY DEF Submitted, At, broker
<1>2. /\ op.state # "none" /\ op \in Operations /\ obs \in {"idle", "cycle", "reconcile"}
      /\ req.role \in Role /\ (req.role \in Child => order["PARENT"] # "working")
  BY <1>1 DEF Inv, OperationInv, LegInv, TypeOK, Requests
<1>3. /\ req' \in Requests /\ req'.at = "observe" /\ req'.role = req.role
      /\ wait' \in [Actor -> {"sync", "run", "done"}]
  BY <1>1, <1>2, Refreshes DEF Stage
<1>4. /\ op' \in Operations /\ op'.terminals = op.terminals /\ op'.attempts = op.attempts
      /\ op'.submitted = op.submitted /\ op'.state # "none"
      /\ op'.state = "COMPLETED" => op.state = "COMPLETED"
  BY <1>1, <1>2 DEF Operations, OpState
<1>. QED  BY <1>1, <1>2, <1>3, <1>4, QuietStep

LEMMA RequestFailsKeepsInv ==
  ASSUME Inv, RequestFails
  PROVE  Inv'
<1>1. /\ UNCHANGED <<order, cancels, sends, fills, conn, evidence, obs>>
      /\ req.at # "idle"
  BY DEF RequestFails, broker
<1>2. /\ op \in Operations /\ obs \in {"idle", "cycle", "reconcile"}
      /\ req.role \in Role /\ (req.role \in Child => order["PARENT"] # "working")
  BY DEF Inv, LegInv, TypeOK, Requests
<1>3. CASE req.at \in {"reserve", "final"}
  <2>1. UNCHANGED op /\ req' = Idle /\ wait' = [wait EXCEPT !["request"] = "done"]
    BY <1>3 DEF RequestFails
  <2>2. wait' \in [Actor -> {"sync", "run", "done"}]
    BY <2>1 DEF Inv, TypeOK
  <2>. QED  BY <1>1, <1>2, <2>1, <2>2, IdleRequest, QuietStep
<1>4. CASE req.at \notin {"reserve", "final"}
  <2>1. /\ op' = IF op.state = "COMPLETED" THEN op ELSE [op EXCEPT !.state = BlockedState]
        /\ RefreshThen("final", req.role)
    BY <1>4 DEF RequestFails
  <2>2. BlockedState \in OpState \ {"none", "COMPLETED"}
    BY DEF BlockedState, OpState
  <2>3. op.state # "none"
    BY <1>1, <1>4 DEF Inv, OperationInv
  <2>4. /\ op' \in Operations /\ op'.terminals = op.terminals /\ op'.attempts = op.attempts
        /\ op'.submitted = op.submitted /\ op'.state # "none"
        /\ op'.state = "COMPLETED" => op.state = "COMPLETED"
    BY <1>2, <2>1, <2>2, <2>3 DEF Operations
  <2>5. /\ req' \in Requests /\ req'.at = "final" /\ req'.role = req.role
        /\ wait' \in [Actor -> {"sync", "run", "done"}]
    BY <1>2, <2>1, Refreshes DEF Stage
  <2>. QED  BY <1>1, <1>2, <2>3, <2>4, <2>5, QuietStep
<1>. QED  BY <1>3, <1>4

LEMMA ObserverKeepsInv ==
  ASSUME Inv, Observer
  PROVE  Inv'
<1>. USE DEF broker
<1>1. op \in Operations /\ wait \in [Actor -> {"sync", "run", "done"}] /\ "observer" \in Actor
  BY DEF Inv, TypeOK, Actor
<1>2. req \in Requests
  BY DEF Inv, TypeOK
<1>3. CASE ObserverCycle
  <2>1. /\ UNCHANGED <<order, cancels, sends, fills, conn, evidence, op, req>> /\ obs' = "cycle"
        /\ wait' = [wait EXCEPT !["observer"] = "sync"]
    BY <1>3 DEF ObserverCycle
  <2>. QED  BY <1>1, <1>2, <2>1, Waits, QuietStep
<1>4. CASE ObserverReconcile
  <2>1. UNCHANGED <<order, cancels, sends, fills, conn, evidence, op, req>>
    BY <1>4 DEF ObserverReconcile
  <2>2. CASE op.state \in Unfinished
    <3>1. obs' = "reconcile" /\ wait' = [wait EXCEPT !["observer"] = "sync"]
      BY <1>4, <2>2 DEF ObserverReconcile
    <3>2. op.state # "none"
      BY <2>2 DEF Unfinished
    <3>. QED  BY <1>1, <1>2, <2>1, <3>1, <3>2, Waits, QuietStep
  <2>3. CASE op.state \notin Unfinished
    <3>1. obs' = "idle" /\ wait' = wait
      BY <1>4, <2>3 DEF ObserverReconcile
    <3>. QED  BY <1>1, <1>2, <2>1, <3>1, QuietStep
  <2>. QED  BY <2>2, <2>3
<1>5. CASE ObserverObserve
  <2>1. /\ UNCHANGED <<order, cancels, sends, fills, conn, evidence, req, wait>> /\ obs' = "idle"
        /\ Observed /\ obs = "reconcile"
    BY <1>5 DEF ObserverObserve
  <2>2. op.state # "none"
    BY <2>1 DEF Inv, OperationInv
  <2>. QED  BY <1>1, <1>2, <2>1, <2>2, ObservedState, QuietStep
<1>. QED  BY <1>3, <1>4, <1>5 DEF Observer

-----------------------------------------------------------------------------
(* The writes and what leads to them *)

(* The marker of a cancel request.                                         *)
LEMMA MarkCancelKeepsInv ==
  ASSUME Inv, MarkCancel
  PROVE  Inv'
<1>1. /\ UNCHANGED <<order, cancels, sends, fills, conn, evidence, obs, wait>>
      /\ req.at = "leg" /\ Owned /\ req.role \notin op.attempts
      /\ op' = [op EXCEPT !.attempts = op.attempts \cup {req.role}]
      /\ req' = [req EXCEPT !.at = "cancel"]
  BY DEF MarkCancel, At, Goto, broker
<1>2. op \in Operations /\ req \in Requests /\ req.role \in Role
  BY DEF Inv, TypeOK, Requests
<1>3. /\ op' \in Operations /\ op'.terminals = op.terminals /\ op'.submitted = op.submitted
      /\ op'.attempts = op.attempts \cup {req.role} /\ op'.state = op.state
  BY <1>1, <1>2 DEF Operations
<1>4. req' \in Requests /\ req'.at = "cancel" /\ req'.role = req.role
  BY <1>1, <1>2 DEF Requests, Stage
<1>5. op.state = "PREPARING" /\ ~op.submitted
  BY <1>1 DEF Owned
<1>6. TypeOK'
  BY <1>1, <1>3, <1>4, EvidenceStands DEF Inv, TypeOK
<1>7. OperationInv'
  BY <1>3, <1>4, <1>5 DEF OperationInv
<1>8. MarkerInv'
  BY <1>1, <1>2, <1>3, <1>4 DEF Inv, MarkerInv
<1>9. LegInv'
  BY <1>1, <1>3, <1>4 DEF Inv, LegInv
<1>10. SubmittedInv' /\ CompletedInv'
  BY <1>3, <1>5 DEF SubmittedInv, CompletedInv
<1>. QED  BY <1>1, <1>6, <1>7, <1>8, <1>9, <1>10, EvidenceStands DEF Inv

LEMMA SendCancelKeepsInv ==
  ASSUME Inv, SendCancel
  PROVE  Inv'
<1>1. /\ UNCHANGED <<order, sends, fills, conn, evidence, op, obs, wait>>
      /\ req.at = "cancel" /\ req' = [req EXCEPT !.at = "confirm"]
      /\ cancels' = [cancels EXCEPT ![req.role] = cancels[req.role] + 1]
  BY DEF SendCancel, At, Goto
<1>2. req \in Requests /\ req.role \in Role /\ cancels \in [Role -> 0..2]
  BY DEF Inv, TypeOK, Requests
<1>3. req' \in Requests /\ req'.at = "confirm" /\ req'.role = req.role
  BY <1>1, <1>2 DEF Requests, Stage
<1>4. cancels[req.role] = 0 /\ req.role \in op.attempts
  BY <1>1 DEF Inv, MarkerInv
<1>5. cancels' = [cancels EXCEPT ![req.role] = 1]
  BY <1>1, <1>4
<1>6. cancels' \in [Role -> 0..2]
  BY <1>2, <1>5
<1>7. TypeOK'
  BY <1>1, <1>3, <1>6, EvidenceStands DEF Inv, TypeOK
<1>8. OperationInv'
  BY <1>1, <1>3 DEF Inv, OperationInv
<1>9. MarkerInv'
  BY <1>1, <1>2, <1>3, <1>4, <1>5 DEF Inv, MarkerInv
<1>10. LegInv'
  BY <1>1, <1>2, <1>3, <1>5, OrdersApart DEF Inv, LegInv
<1>11. SubmittedInv' /\ CompletedInv'
  BY <1>1 DEF Inv, SubmittedInv, CompletedInv, Position, Bought, Sold
<1>. QED  BY <1>1, <1>7, <1>8, <1>9, <1>10, <1>11, EvidenceStands DEF Inv

LEMMA ConfirmKeepsInv ==
  ASSUME Inv, Confirm
  PROVE  Inv'
<1>1. /\ UNCHANGED <<order, cancels, sends, fills, conn, evidence, op, obs, wait>>
      /\ req.at = "confirm" /\ req' = [req EXCEPT !.at = "record"]
      /\ order[req.role] = "cancelled"
  BY DEF Confirm, At, Goto, broker
<1>2. req \in Requests
  BY DEF Inv, TypeOK
<1>3. req' \in Requests /\ req'.at = "record" /\ req'.role = req.role
  BY <1>1, <1>2 DEF Requests, Stage
<1>4. TypeOK'
  BY <1>1, <1>3, EvidenceStands DEF Inv, TypeOK
<1>5. OperationInv' /\ MarkerInv'
  BY <1>1, <1>3 DEF Inv, OperationInv, MarkerInv
<1>6. LegInv'
  BY <1>1, <1>3 DEF Inv, LegInv
<1>7. SubmittedInv' /\ CompletedInv'
  BY <1>1 DEF Inv, SubmittedInv, CompletedInv, Position, Bought, Sold
<1>. QED  BY <1>1, <1>4, <1>5, <1>6, <1>7, EvidenceStands DEF Inv

LEMMA RecordTerminalKeepsInv ==
  ASSUME Inv, RecordTerminal
  PROVE  Inv'
<1>1. /\ UNCHANGED <<order, cancels, sends, fills, conn, evidence, obs>>
      /\ req.at = "record" /\ Owned /\ req.role \in op.attempts
      /\ op' = [op EXCEPT !.terminals = op.terminals \cup {req.role}]
      /\ RefreshThen("recorded", req.role)
  BY DEF RecordTerminal, At, broker
<1>2. op \in Operations /\ req.role \in Role /\ op.terminals \subseteq op.attempts
  BY DEF Inv, TypeOK, Requests
<1>3. /\ op' \in Operations /\ op'.terminals = op.terminals \cup {req.role}
      /\ op'.submitted = op.submitted /\ op'.attempts = op.attempts /\ op'.state = op.state
  BY <1>1, <1>2 DEF Operations
<1>4. /\ req' \in Requests /\ req'.at = "recorded" /\ req'.role = req.role
      /\ wait' \in [Actor -> {"sync", "run", "done"}]
  BY <1>1, <1>2, Refreshes DEF Stage
<1>5. op.state = "PREPARING" /\ ~op.submitted
  BY <1>1 DEF Owned
<1>6. TypeOK'
  BY <1>1, <1>2, <1>3, <1>4, EvidenceStands DEF Inv, TypeOK
<1>7. OperationInv'
  BY <1>3, <1>4, <1>5 DEF OperationInv
<1>8. MarkerInv'
  BY <1>1, <1>3, <1>4 DEF Inv, MarkerInv
<1>9. LegInv'
  BY <1>1, <1>3, <1>4 DEF Inv, LegInv
<1>10. SubmittedInv' /\ CompletedInv'
  BY <1>3, <1>5 DEF SubmittedInv, CompletedInv
<1>. QED  BY <1>1, <1>6, <1>7, <1>8, <1>9, <1>10, EvidenceStands DEF Inv

(* The claim of the SELL: the evidence is that it is alone.                *)
LEMMA ClaimCloseKeepsInv ==
  ASSUME Inv, ClaimClose
  PROVE  Inv'
<1>1. /\ UNCHANGED <<order, cancels, sends, fills, conn, evidence, obs, wait>>
      /\ req.at = "claim" /\ Owned /\ MaySell
      /\ op' = [op EXCEPT !.state = "SUBMISSION_UNKNOWN", !.submitted = TRUE]
      /\ req' = [req EXCEPT !.at = "dispatch"]
  BY DEF ClaimClose, At, Goto, broker
<1>2. op \in Operations /\ req \in Requests
  BY DEF Inv, TypeOK
<1>3. /\ op' \in Operations /\ op'.terminals = op.terminals /\ op'.submitted
      /\ op'.attempts = op.attempts /\ op'.state = "SUBMISSION_UNKNOWN"
  BY <1>1, <1>2 DEF Operations, OpState
<1>4. req' \in Requests /\ req'.at = "dispatch" /\ req'.role = req.role
  BY <1>1, <1>2 DEF Requests, Stage
<1>5. sends = 0 /\ order["CLOSE"] = "none"
  BY <1>1 DEF Inv, MarkerInv, Owned
<1>6. TypeOK'
  BY <1>1, <1>3, <1>4, EvidenceStands DEF Inv, TypeOK
<1>7. OperationInv'
  BY <1>3, <1>4 DEF OperationInv
<1>8. MarkerInv'
  BY <1>1, <1>3, <1>4, <1>5 DEF Inv, MarkerInv
<1>9. LegInv'
  BY <1>1, <1>3, <1>4 DEF Inv, LegInv
<1>10. SubmittedInv' /\ CompletedInv'
  BY <1>1, <1>3, SellsAlone DEF SubmittedInv, CompletedInv
<1>. QED  BY <1>1, <1>6, <1>7, <1>8, <1>9, <1>10, EvidenceStands DEF Inv

(* What a change of the close order alone leaves of the evidence.          *)
LEMMA DispatchCloseKeepsInv ==
  ASSUME Inv, DispatchClose
  PROVE  Inv'
<1>1. /\ UNCHANGED <<cancels, fills, conn, sync, run, cap, op, obs, wait>>
      /\ req.at = "dispatch" /\ req' = [req EXCEPT !.at = "accepted"]
      /\ order' = [order EXCEPT !["CLOSE"] = "sent"] /\ sends' = sends + 1
  BY DEF DispatchClose, At, Goto, evidence
<1>2. op.submitted /\ sends = 0 /\ order["CLOSE"] = "none" /\ op.state # "none"
  BY <1>1 DEF Inv, MarkerInv, OperationInv
<1>3. req \in Requests /\ order \in [Order -> OrderState]
  BY DEF Inv, TypeOK
<1>4. req' \in Requests /\ req'.at = "accepted" /\ req'.role = req.role
  BY <1>1, <1>3 DEF Requests, Stage
<1>5. /\ order' \in [Order -> OrderState] /\ \A r \in Role : order'[r] = order[r]
      /\ \A r \in Order : order[r] = "filled" => order'[r] = "filled"
  BY <1>1, <1>2, <1>3, OrdersApart DEF OrderState
<1>6. TypeOK'
  BY <1>1, <1>2, <1>4, <1>5 DEF Inv, TypeOK
<1>7. OrderInv' /\ SubmittedInv'
  BY <1>1, <1>5, OrdersApart DEF Inv, OrderInv, SubmittedInv
<1>8. CaptureInv' /\ RunInv'
  BY <1>1, <1>5 DEF Inv, CaptureInv, RunInv, Filled
<1>9. OperationInv'
  BY <1>1, <1>2, <1>4 DEF Inv, OperationInv
<1>10. MarkerInv'
  BY <1>1, <1>2, <1>4 DEF Inv, MarkerInv
<1>11. LegInv'
  BY <1>1, <1>4, <1>5, OrdersApart DEF Inv, LegInv, TypeOK, Operations
<1>12. CompletedInv'
  BY <1>1, <1>2 DEF Inv, CompletedInv
<1>. QED  BY <1>6, <1>7, <1>8, <1>9, <1>10, <1>11, <1>12 DEF Inv

-----------------------------------------------------------------------------
(* The broker *)

(* An order that can still move moves forward.                             *)
LEMMA BrokerStep ==
  ASSUME Inv, NEW r \in Order, NEW s \in {"working", "filled", "cancelled"},
         order[r] \in {"sent", "working"}, order' = [order EXCEPT ![r] = s],
         s = "working" => order[r] = "sent", s = "filled" => MayFill(r),
         fills' \in BOOLEAN,
         UNCHANGED <<cancels, sends, conn, evidence, op, req, obs, wait>>
  PROVE  Inv'
<1>1. UNCHANGED <<sync, run, cap>>
  BY DEF evidence
<1>2. /\ order \in [Order -> OrderState] /\ op.terminals \subseteq Role
      /\ order' \in [Order -> OrderState] /\ order'[r] = s
      /\ \A x \in Order \ {r} : order'[x] = order[x]
  BY DEF Inv, TypeOK, OrderState, Operations
<1>3. \A x \in Order : order[x] \in {"filled", "cancelled"} => order'[x] = order[x]
  BY <1>2
<1>4. \A x \in Role : order[x] # "sent" /\ (order'[x] = "working" => order[x] = "working")
  BY <1>2, OrdersApart DEF Inv, OrderInv
<1>5. TypeOK'
  BY <1>1, <1>2 DEF Inv, TypeOK
<1>6. OrderInv'
  <2>1. \A x \in Role : order'[x] \in {"working", "filled", "cancelled"}
    BY <1>2, OrdersApart DEF Inv, OrderInv
  <2>2. \A c \in Child : order'[c] = "filled" => order'["PARENT"] = "filled"
    BY <1>2, <1>3, OrdersApart DEF Inv, OrderInv, MayFill
  <2>3. ~(order'["TP"] = "filled" /\ order'["SL"] = "filled")
    BY <1>2, OrdersApart DEF Inv, OrderInv, MayFill
  <2>. QED  BY <2>1, <2>2, <2>3 DEF OrderInv
<1>7. CaptureInv' /\ RunInv'
  BY <1>1, <1>3, <1>4, OrdersApart DEF Inv, CaptureInv, RunInv, Filled
<1>8. OperationInv'
  BY DEF Inv, OperationInv
<1>9. MarkerInv'
  BY <1>2, OrdersApart DEF Inv, MarkerInv
<1>10. LegInv'
  BY <1>2, <1>3, <1>4, OrdersApart DEF Inv, LegInv
<1>11. SubmittedInv'
  BY <1>3, OrdersApart DEF Inv, SubmittedInv
<1>12. CompletedInv'
  BY DEF Inv, CompletedInv
<1>. QED  BY <1>5, <1>6, <1>7, <1>8, <1>9, <1>10, <1>11, <1>12 DEF Inv

LEMMA BrokerKeepsInv ==
  ASSUME Inv, Broker \/ BrokerAccepts
  PROVE  Inv'
<1>1. fills \in BOOLEAN /\ "CLOSE" \in Order
  BY OrdersApart DEF Inv, TypeOK
<1>2. ASSUME NEW r \in Order, BrokerCancels(r)
      PROVE  Inv'
  BY <1>1, <1>2, BrokerStep DEF BrokerCancels
<1>3. ASSUME NEW r \in Order, BrokerFills(r)
      PROVE  Inv'
  BY <1>3, BrokerStep DEF BrokerFills, MayFill
<1>4. CASE BrokerAccepts
  BY <1>1, <1>4, BrokerStep DEF BrokerAccepts
<1>. QED  BY <1>2, <1>3, <1>4 DEF Broker

(* A new process finds the rows and no evidence.                           *)
LEMMA CrashKeepsInv ==
  ASSUME Inv, Crash
  PROVE  Inv'
<1>1. /\ UNCHANGED <<order, cancels, sends, op>> /\ conn' = conn + 1 /\ conn < MaxConnections
      /\ fills' = FALSE /\ cap' = None /\ run' = None /\ req' = Idle /\ obs' = "idle"
      /\ sync' = [sync EXCEPT !.complete = FALSE] /\ wait' = [a \in Actor |-> "done"]
  BY DEF Crash
<1>2. conn' \in 1..MaxConnections
  BY <1>1, ConnectionsAssumption DEF Inv, TypeOK
<1>3. sync' \in Snapshots
  BY <1>1 DEF Inv, TypeOK, Snapshots
<1>4. TypeOK'
  BY <1>1, <1>2, <1>3, IdleRequest DEF Inv, TypeOK
<1>5. OrderInv' /\ CaptureInv' /\ RunInv'
  BY <1>1 DEF Inv, OrderInv, CaptureInv, RunInv
<1>6. OperationInv' /\ MarkerInv'
  BY <1>1, IdleRequest DEF Inv, OperationInv, MarkerInv
<1>7. LegInv' /\ SubmittedInv'
  BY <1>1, IdleRequest DEF Inv, LegInv, SubmittedInv
<1>8. CompletedInv'
  BY <1>1 DEF Inv, CompletedInv, Position, Bought, Sold
<1>. QED  BY <1>4, <1>5, <1>6, <1>7, <1>8 DEF Inv

-----------------------------------------------------------------------------
(* The specification *)

LEMMA InitEstablishesInv ==
  ASSUME Init
  PROVE  Inv
<1>1. /\ order \in [Order -> OrderState] /\ order["CLOSE"] = "none"
      /\ \A r \in Role : order[r] \in {"working", "filled", "cancelled"}
      /\ \A c \in Child : order[c] = "filled" => order["PARENT"] = "filled"
      /\ ~(order["TP"] = "filled" /\ order["SL"] = "filled")
  BY OrdersApart DEF Init
<1>2. OrderInv
  BY <1>1 DEF OrderInv
<1>3. /\ op \in Operations /\ op.state = "none" /\ op.terminals = {} /\ op.attempts = {}
      /\ ~op.submitted
  BY ConnectionsAssumption DEF Init, NoOp, Operations, OpState
<1>4. /\ cancels \in [Role -> 0..2] /\ sends \in 0..2 /\ fills \in BOOLEAN
      /\ conn \in 1..MaxConnections /\ sync \in Snapshots
      /\ wait \in [Actor -> {"sync", "run", "done"}]
  <2>1. conn \in 1..MaxConnections
    BY ConnectionsAssumption DEF Init
  <2>2. sync \in Snapshots
    BY DEF Init, Snapshots
  <2>3. /\ cancels = [r \in Role |-> 0] /\ wait = [a \in Actor |-> "done"]
        /\ sends = 0 /\ fills \in BOOLEAN
    BY DEF Init
  <2>4. cancels \in [Role -> 0..2]
    BY <2>3
  <2>5. wait \in [Actor -> {"sync", "run", "done"}]
    BY <2>3
  <2>6. sends \in 0..2
    BY <2>3
  <2>. QED  BY <2>1, <2>2, <2>3, <2>4, <2>5, <2>6
<1>5. run = None /\ cap = None /\ op = NoOp /\ req = Idle /\ obs = "idle"
      /\ cancels = [r \in Role |-> 0] /\ sends = 0
  BY DEF Init
<1>6. TypeOK
  BY <1>1, <1>3, <1>4, <1>5, IdleRequest DEF TypeOK
<1>7. CaptureInv /\ RunInv
  BY <1>5 DEF CaptureInv, RunInv
<1>8. OperationInv /\ MarkerInv
  BY <1>1, <1>3, <1>5, IdleRequest DEF OperationInv, MarkerInv
<1>9. LegInv /\ SubmittedInv /\ CompletedInv
  BY <1>3, <1>5, IdleRequest, OrdersApart DEF LegInv, SubmittedInv, CompletedInv
<1>. QED  BY <1>2, <1>6, <1>7, <1>8, <1>9 DEF Inv

LEMMA StutterKeepsInv ==
  ASSUME Inv, UNCHANGED vars
  PROVE  Inv'
<1>1. UNCHANGED <<order, cancels, sends, fills, conn, evidence, op, req, obs, wait>>
  BY DEF vars, broker
<1>2. /\ op \in Operations /\ req \in Requests /\ obs \in {"idle", "cycle", "reconcile"}
      /\ wait \in [Actor -> {"sync", "run", "done"}]
  BY DEF Inv, TypeOK
<1>. QED  BY <1>1, <1>2, QuietStep

LEMMA CaptureKeepsInv ==
  ASSUME Inv, Capture
  PROVE  Inv'
BY StartRunKeepsInv, RefreshPositionKeepsInv, ReadSourceKeepsInv, PublishRunKeepsInv DEF Capture

LEMMA RequestStepKeepsInv ==
  ASSUME Inv, RequestStep
  PROVE  Inv'
BY ReserveKeepsInv, SkipLegKeepsInv, CompleteEarlyKeepsInv, ObservingRequestKeepsInv,
   MarkCancelKeepsInv,
   SendCancelKeepsInv, ConfirmKeepsInv, RecordTerminalKeepsInv, LegCancelledKeepsInv,
   PrepareKeepsInv, ClaimCloseKeepsInv, DispatchCloseKeepsInv, SubmittedKeepsInv,
   RequestFailsKeepsInv
DEF RequestStep

LEMMA StepKeepsInv ==
  ASSUME Inv, [Next]_vars
  PROVE  Inv'
BY BrokerKeepsInv, InvalidateKeepsInv, CaptureKeepsInv, ObserverKeepsInv, RequestKeepsInv,
   RequestStepKeepsInv, ReconnectKeepsInv, CrashKeepsInv, StutterKeepsInv
DEF Next

LEMMA Invariance == Spec => []Inv
<1>1. Init => Inv
  BY InitEstablishesInv
<1>2. Inv /\ [Next]_vars => Inv'
  BY StepKeepsInv
<1>. QED  BY <1>1, <1>2, PTL DEF Spec

-----------------------------------------------------------------------------
(* Theorems *)

(* NeverOversold: the account is never short, and where a close order was  *)
(* sent (close-service.ts, submitClose) every leg of the bracket is filled *)
(* or its cancellation was confirmed before, and stays so.                 *)
THEOREM NeverOversoldHolds == Spec => []NeverOversold
<1>1. ASSUME Inv
      PROVE  NeverOversold
  <2>1. Position >= 0
    BY <1>1, PositionBound
  <2>2. order["CLOSE"] # "none" => op.submitted
    BY <1>1 DEF Inv, MarkerInv
  <2>3. op.submitted =>
            \A r \in Role : order[r] = "filled" \/ (r \in op.terminals /\ order[r] = "cancelled")
    BY <1>1, OrdersApart DEF Inv, SubmittedInv, LegInv
  <2>. QED  BY <2>1, <2>2, <2>3 DEF NeverOversold
<1>. QED  BY <1>1, Invariance, PTL

(* CompletedIsFlat: a close that the evidence completed (close-evidence.ts *)
(* and close-repository.ts, observe) is over at the broker, then and in    *)
(* every later state.                                                      *)
THEOREM CompletedIsFlatHolds == Spec => []CompletedIsFlat
<1>1. Inv => CompletedIsFlat
  BY DEF Inv, CompletedInv, CompletedIsFlat
<1>. QED  BY <1>1, Invariance, PTL

(* WritesAreMarked: each cancel request and the close order is written at  *)
(* most once, under a marker that an earlier transaction committed, over   *)
(* any number of processes and connections; and the types.                 *)
THEOREM WritesAreMarkedHolds == Spec => []WritesAreMarked
<1>1. Inv => WritesAreMarked
  BY DEF Inv, MarkerInv, WritesAreMarked
<1>. QED  BY <1>1, Invariance, PTL

(* ParentFirst: no exit is cancelled while the entry may still fill.       *)
THEOREM ParentFirstHolds == Spec => []ParentFirst
<1>1. ASSUME Inv
      PROVE  ParentFirst
  BY <1>1, OrdersApart DEF Inv, OrderInv, LegInv, ParentFirst
<1>. QED  BY <1>1, Invariance, PTL

=============================================================================
