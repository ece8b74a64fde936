--------------------------- MODULE ApiGateProofs ---------------------------
(***************************************************************************)
(* The safety properties of ApiGate for any number of requests and permits *)
(* and any rate.  The induction needs two facts that the properties do not *)
(* state: what is left in the bucket still fits in the window's budget,    *)
(* and the permits that are out are those of the requests inside.          *)
(***************************************************************************)
EXTENDS ApiGate, FiniteSetTheorems, TLAPS

WindowInv == spent + Refilled <= budget

GateInv == GateTypeOK /\ WindowInv /\ PermitsConserved /\ GaugeNotBelow

(* How a move of one request changes a set of requests.                    *)
LEMMA SetsFinite == IsFiniteSet(InGate) /\ IsFiniteSet(Handled)
<1>1. InGate \subseteq Requests /\ Handled \subseteq Requests
  BY DEF InGate, Handled
<1> QED BY <1>1, GateAssumption, FS_Subset

LEMMA Counts ==
    /\ Cardinality(InGate) \in Nat
    /\ Cardinality(Handled) \in Nat
BY SetsFinite, FS_CardinalityType

LEMMA Entering ==
    ASSUME GateTypeOK, NEW r \in Requests, req[r] = "away", NEW to \in Positions,
           to \notin {"away", "handler"}, Moves(r, "away", to)
    PROVE  /\ Cardinality(InGate') = Cardinality(InGate) + 1
           /\ Handled' = Handled
<1>1. InGate' = InGate \cup {r} /\ r \notin InGate
  BY DEF InGate, Moves, GateTypeOK
<1>2. Handled' = Handled
  BY DEF Handled, Moves, GateTypeOK
<1> QED BY <1>1, <1>2, SetsFinite, FS_AddElement

LEMMA Leaving ==
    ASSUME GateTypeOK, NEW r \in Requests, NEW from \in Positions \ {"away"},
           Moves(r, from, "away")
    PROVE  /\ Cardinality(InGate') = Cardinality(InGate) - 1
           /\ Cardinality(InGate) >= 1
           /\ Cardinality(Handled') <= Cardinality(Handled)
<1>1. InGate' = InGate \ {r} /\ r \in InGate
  BY DEF InGate, Moves, GateTypeOK
<1>2. Cardinality(InGate') = Cardinality(InGate) - 1
  BY <1>1, SetsFinite, FS_RemoveElement
<1>3. InGate # {} => Cardinality(InGate) # 0
  BY SetsFinite, FS_EmptySet
<1>4. Handled' \subseteq Handled
  BY DEF Handled, Moves, GateTypeOK
<1>5. Cardinality(Handled') <= Cardinality(Handled)
  BY <1>4, SetsFinite, FS_Subset
<1> QED BY <1>1, <1>2, <1>3, <1>5, Counts

LEMMA Inside ==
    ASSUME GateTypeOK, NEW r \in Requests, NEW from \in Positions \ {"away"},
           NEW to \in Positions \ {"away"}, Moves(r, from, to)
    PROVE  InGate' = InGate
BY DEF InGate, Moves, GateTypeOK

LEMMA Handling ==
    ASSUME GateTypeOK, NEW r \in Requests, NEW from \in Positions \ {"handler"},
           Moves(r, from, "handler")
    PROVE  Cardinality(Handled') = Cardinality(Handled) + 1
<1>1. Handled' = Handled \cup {r} /\ r \notin Handled
  BY DEF Handled, Moves, GateTypeOK
<1> QED BY <1>1, SetsFinite, FS_AddElement

LEMMA Handed ==
    ASSUME GateTypeOK, NEW r \in Requests, NEW to \in Positions \ {"handler"},
           Moves(r, "handler", to)
    PROVE  /\ Cardinality(Handled') = Cardinality(Handled) - 1
           /\ Cardinality(Handled) >= 1
<1>1. Handled' = Handled \ {r} /\ r \in Handled
  BY DEF Handled, Moves, GateTypeOK
<1>2. Cardinality(Handled') = Cardinality(Handled) - 1
  BY <1>1, SetsFinite, FS_RemoveElement
<1>3. Handled # {} => Cardinality(Handled) # 0
  BY SetsFinite, FS_EmptySet
<1> QED BY <1>1, <1>2, <1>3, Counts

-----------------------------------------------------------------------------
LEMMA RefilledBounds ==
    ASSUME GateTypeOK
    PROVE  Refilled \in 0..Burst
BY GateAssumption DEF GateTypeOK, Refilled, Least

LEMMA GateInitially == GateInit => GateInv
<1> SUFFICES ASSUME GateInit PROVE GateInv
  OBVIOUS
<1>1. GateTypeOK /\ WindowInv
  BY GateAssumption
     DEF GateInit, GateTypeOK, Positions, WindowInv, Refilled, Least
<1>2. InGate = {} /\ Handled = {}
  BY DEF GateInit, InGate, Handled
<1>3. Cardinality(InGate) = 0 /\ Cardinality(Handled) = 0
  BY <1>2, FS_EmptySet
<1> QED
  BY <1>1, <1>3, GateAssumption DEF GateInv, GateInit, PermitsConserved, GaugeNotBelow

LEMMA GateStep == GateInv /\ [GateNext]_gvars => GateInv'
<1> SUFFICES ASSUME GateInv, [GateNext]_gvars PROVE GateInv'
  OBVIOUS
<1> USE GateAssumption
<1>0. GateTypeOK /\ WindowInv /\ PermitsConserved /\ GaugeNotBelow
  BY DEF GateInv
<1>1. ASSUME NEW r \in Requests, Acquire(r) PROVE GateInv'
  <2>1. GateTypeOK' /\ WindowInv'
    BY <1>0, <1>1
       DEF Acquire, Moves, GateTypeOK, Positions, WindowInv, Refilled, Least
  <2>2. /\ Cardinality(InGate') = Cardinality(InGate) + 1
        /\ Handled' = Handled
    BY <1>0, <1>1, Entering DEF Acquire, Moves, Positions
  <2>3. PermitsConserved' /\ GaugeNotBelow'
    BY <1>0, <1>1, <2>2, Counts
       DEF Acquire, PermitsConserved, GaugeNotBelow, GateTypeOK
  <2> QED BY <2>1, <2>3 DEF GateInv
<1>2. ASSUME NEW r \in Requests, TakeToken(r) PROVE GateInv'
  <2>1. PICK to \in {"passed", "leaving"} : Moves(r, "permitted", to)
    BY <1>2 DEF TakeToken
  <2>2. GateTypeOK'
    BY <1>0, <1>2, RefilledBounds DEF TakeToken, Moves, GateTypeOK, Positions
  <2>3. WindowInv'
    <3>1. CASE Refilled >= One
      BY <1>0, <1>2, <3>1, RefilledBounds
         DEF TakeToken, GateTypeOK, WindowInv, Refilled, Least
    <3>2. CASE Refilled < One
      BY <1>0, <1>2, <3>2, RefilledBounds
         DEF TakeToken, GateTypeOK, WindowInv, Refilled, Least
    <3> QED BY <3>1, <3>2, <1>0, RefilledBounds
  <2>4. InGate' = InGate
    BY <1>0, <2>1, Inside DEF Positions
  <2>5. Handled' = Handled
    BY <1>0, <2>1 DEF Handled, Moves, GateTypeOK
  <2>6. PermitsConserved' /\ GaugeNotBelow'
    BY <1>0, <1>2, <2>4, <2>5 DEF TakeToken, PermitsConserved, GaugeNotBelow
  <2> QED BY <2>2, <2>3, <2>6 DEF GateInv
<1>3. ASSUME NEW r \in Requests, Enter(r) PROVE GateInv'
  <2>1. GateTypeOK' /\ WindowInv'
    BY <1>0, <1>3
       DEF Enter, Moves, GateTypeOK, Positions, WindowInv, Refilled, Least
  <2>2. InGate' = InGate
    BY <1>0, <1>3, Inside DEF Enter, Positions
  <2>3. Cardinality(Handled') = Cardinality(Handled) + 1
    BY <1>0, <1>3, Handling DEF Enter, Positions
  <2>4. PermitsConserved' /\ GaugeNotBelow'
    BY <1>0, <1>3, <2>2, <2>3, Counts
       DEF Enter, PermitsConserved, GaugeNotBelow, GateTypeOK
  <2> QED BY <2>1, <2>4 DEF GateInv
<1>4. ASSUME NEW r \in Requests, Finish(r) \/ Timeout(r) PROVE GateInv'
  <2>1. Moves(r, "handler", "leaving")
    BY <1>4 DEF Finish, Timeout
  <2>2. /\ Cardinality(Handled') = Cardinality(Handled) - 1
        /\ Cardinality(Handled) >= 1
    BY <1>0, <2>1, Handed DEF Positions
  <2>3. GateTypeOK' /\ WindowInv'
    BY <1>0, <1>4, <2>2, Counts
       DEF Finish, Timeout, Moves, GateTypeOK, Positions, WindowInv, Refilled,
           Least, GaugeNotBelow
  <2>4. InGate' = InGate
    BY <1>0, <2>1, Inside DEF Positions
  <2>5. PermitsConserved' /\ GaugeNotBelow'
    BY <1>0, <1>4, <2>2, <2>4, Counts
       DEF Finish, Timeout, PermitsConserved, GaugeNotBelow, GateTypeOK
  <2> QED BY <2>3, <2>5 DEF GateInv
<1>5. ASSUME NEW r \in Requests, Leave(r) \/ Disconnect(r) PROVE GateInv'
  <2>1. PICK from \in {"leaving", "handler"} : Moves(r, from, "away")
    BY <1>5 DEF Leave, Disconnect, Release
  <2>2. /\ Cardinality(InGate') = Cardinality(InGate) - 1
        /\ Cardinality(InGate) >= 1
        /\ Cardinality(Handled') <= Cardinality(Handled)
    BY <1>0, <2>1, Leaving DEF Positions
  <2>3. GateTypeOK' /\ WindowInv'
    BY <1>0, <1>5, <2>2, Counts
       DEF Leave, Disconnect, Release, Moves, GateTypeOK, Positions, WindowInv,
           Refilled, Least, PermitsConserved
  <2>4. Cardinality(Handled') \in Nat
    <3>1. Handled' \subseteq Requests
      BY DEF Handled
    <3> QED BY <3>1, FS_Subset, FS_CardinalityType
  <2>5. PermitsConserved' /\ GaugeNotBelow'
    BY <1>0, <1>5, <2>2, <2>4, Counts
       DEF Leave, Disconnect, Release, PermitsConserved, GaugeNotBelow, GateTypeOK
  <2> QED BY <2>3, <2>5 DEF GateInv
<1>6. ASSUME Tick \/ OpenWindow \/ UNCHANGED gvars PROVE GateInv'
  <2>1. GateTypeOK'
    BY <1>0, <1>6 DEF Tick, OpenWindow, gvars, GateTypeOK, Least
  <2>2. WindowInv'
    BY <1>0, <1>6
       DEF Tick, OpenWindow, gvars, GateTypeOK, WindowInv, Refilled, Least
  <2>3. InGate' = InGate /\ Handled' = Handled
    BY <1>6 DEF Tick, OpenWindow, gvars, InGate, Handled
  <2>4. PermitsConserved' /\ GaugeNotBelow'
    BY <1>0, <1>6, <2>3
       DEF Tick, OpenWindow, gvars, PermitsConserved, GaugeNotBelow
  <2> QED BY <2>1, <2>2, <2>4 DEF GateInv
<1> QED
  BY <1>1, <1>2, <1>3, <1>4, <1>5, <1>6 DEF GateNext, RequestStep

THEOREM GateInvariant == GateSpec => []GateInv
BY GateInitially, GateStep, PTL DEF GateSpec

(* Type correctness: the permits never exceed the limit, the tokens never  *)
(* the capacity, for any of them.                                          *)
THEOREM GateTypeCorrect == GateSpec => []GateTypeOK
<1>1. GateInv => GateTypeOK
  BY DEF GateInv
<1> QED BY <1>1, GateInvariant, PTL

(* However requests race for the bucket, no window of time lets through    *)
(* more than its capacity and what accrued in the window.                  *)
THEOREM RateIsLimited == GateSpec => []WindowBounded
<1>1. GateInv => WindowBounded
  BY RefilledBounds, GateAssumption
     DEF GateInv, WindowInv, WindowBounded, GateTypeOK
<1> QED BY <1>1, GateInvariant, PTL

(* No way out of the server loses a permit or returns one twice.           *)
THEOREM PermitsAreConserved == GateSpec => []PermitsConserved
<1>1. GateInv => PermitsConserved
  BY DEF GateInv
<1> QED BY <1>1, GateInvariant, PTL

(* The in_flight gauge never wraps: it is at least the number of requests  *)
(* in a handler, whatever timeouts and disconnects happened.               *)
THEOREM GaugeIsUpperBound == GateSpec => []GaugeNotBelow
<1>1. GateInv => GaugeNotBelow
  BY DEF GateInv
<1> QED BY <1>1, GateInvariant, PTL
=============================================================================
