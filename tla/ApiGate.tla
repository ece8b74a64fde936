------------------------------ MODULE ApiGate ------------------------------
(***************************************************************************)
(* The middleware every API request passes (main.rs, rate_limit.rs,        *)
(* metrics.rs), from the outside in: the concurrency limit, the timeout,   *)
(* the token bucket, the metrics around the handler.                       *)
(*                                                                         *)
(* Tokens are counted in units: a request costs One, Rate units accrue per *)
(* tick of the clock.  The f64 arithmetic of the bucket is exact here.     *)
(***************************************************************************)
EXTENDS Naturals, FiniteSets

CONSTANTS
    Requests,     \* requests that may be in the server at a time
    Limit,        \* permits of the semaphore
    One,          \* units a request costs
    Burst,        \* units the bucket holds
    Rate,         \* units that accrue per tick
    MaxInFlight,  \* bound: no arrivals once the gauge has leaked this far
    MaxBudget     \* bound: no ticks in a window beyond this budget

ASSUME GateAssumption ==
    /\ IsFiniteSet(Requests)
    /\ Limit \in Nat \ {0} /\ One \in Nat \ {0}
    /\ Burst \in Nat /\ Rate \in Nat
    /\ MaxInFlight \in Nat /\ MaxBudget \in Nat

VARIABLES
    permits,    \* permits left in the semaphore
    tokens,     \* the bucket's tokens at its last refill
    accrued,    \* what has accrued since, up to Burst
    inFlight,   \* the in_flight gauge of the metrics
    req,        \* request -> how far it has come
    spent,      \* units taken since the window was opened
    budget      \* Burst and what has accrued since the window was opened

gvars == <<permits, tokens, accrued, inFlight, req, spent, budget>>
window == <<spent, budget>>

(* "leaving": the response is made, the permit not yet given back.         *)
Positions == {"away", "permitted", "passed", "handler", "leaving"}

GateTypeOK ==
    /\ permits \in 0..Limit
    /\ tokens \in 0..Burst /\ accrued \in 0..Burst
    /\ inFlight \in Nat
    /\ req \in [Requests -> Positions]
    /\ spent \in Nat /\ budget \in Nat

Least(a, b) == IF a < b THEN a ELSE b

InGate == {r \in Requests : req[r] # "away"}
Handled == {r \in Requests : req[r] = "handler"}

Moves(r, from, to) == req[r] = from /\ req' = [req EXCEPT ![r] = to]

-----------------------------------------------------------------------------
(* concurrency_middleware: try_acquire_owned fails when no permit is left, *)
(* and the request is answered 429 at once.                                *)
Acquire(r) ==
    /\ inFlight < MaxInFlight
    /\ Moves(r, "away", "permitted")
    /\ permits > 0
    /\ permits' = permits - 1
    /\ UNCHANGED <<tokens, accrued, inFlight, spent, budget>>

Release(r, from) ==
    /\ Moves(r, from, "away")
    /\ permits' = permits + 1
    /\ UNCHANGED <<tokens, accrued, spent, budget>>

Mutant_Refilled == tokens + accrued

(* The refill and the test are one section of the bucket's mutex.          *)
Refilled == Least(tokens + accrued, Burst)

TakeToken(r) ==
    /\ \/ /\ Refilled >= One
          /\ Moves(r, "permitted", "passed")
          /\ tokens' = Refilled - One
          /\ spent' = spent + One
       \/ /\ Refilled < One
          /\ Moves(r, "permitted", "leaving")
          /\ tokens' = Refilled
          /\ UNCHANGED spent
    /\ accrued' = 0
    /\ UNCHANGED <<permits, inFlight, budget>>

Mutant_Enter(r) ==
    /\ Moves(r, "passed", "handler")
    /\ UNCHANGED <<permits, tokens, accrued, inFlight, spent, budget>>

(* metrics_middleware: in_flight_inc, the handler, in_flight_dec.          *)
Enter(r) ==
    /\ Moves(r, "passed", "handler")
    /\ inFlight' = inFlight + 1
    /\ UNCHANGED <<permits, tokens, accrued, spent, budget>>

Finish(r) ==
    /\ Moves(r, "handler", "leaving")
    /\ inFlight' = inFlight - 1
    /\ UNCHANGED <<permits, tokens, accrued, spent, budget>>

Mutant_Timeout(r) ==
    /\ Moves(r, "handler", "away")
    /\ UNCHANGED <<permits, tokens, accrued, inFlight, spent, budget>>

(* timeout_middleware drops what is inside it, the metrics middleware with *)
(* its pending in_flight_dec included, and answers 504.                    *)
Timeout(r) ==
    /\ Moves(r, "handler", "leaving")
    /\ UNCHANGED <<permits, tokens, accrued, inFlight, spent, budget>>

Leave(r) == Release(r, "leaving") /\ UNCHANGED inFlight

(* The client disconnects: the whole future is dropped with its permit.    *)
Disconnect(r) == Release(r, "handler") /\ UNCHANGED inFlight

Tick ==
    /\ budget + Rate <= MaxBudget
    /\ accrued' = Least(accrued + Rate, Burst)
    /\ budget' = budget + Rate
    /\ UNCHANGED <<permits, tokens, inFlight, req, spent>>

(* An observer starts to count at any moment.                              *)
OpenWindow ==
    /\ spent' = 0
    /\ budget' = Burst
    /\ UNCHANGED <<permits, tokens, accrued, inFlight, req>>

GateInit ==
    /\ permits = Limit
    /\ tokens = Burst /\ accrued = 0
    /\ inFlight = 0
    /\ req = [r \in Requests |-> "away"]
    /\ spent = 0 /\ budget = Burst

RequestStep(r) == TakeToken(r) \/ Enter(r) \/ Timeout(r) \/ Leave(r)

GateNext ==
    \/ \E r \in Requests : Acquire(r) \/ RequestStep(r) \/ Finish(r) \/ Disconnect(r)
    \/ Tick
    \/ OpenWindow

GateSpec == GateInit /\ [][GateNext]_gvars

(* The timer of the timeout fires.  A handler need not return by itself.   *)
GateFairSpec == GateSpec /\ \A r \in Requests : WF_gvars(RequestStep(r))

-----------------------------------------------------------------------------
(* In every window of time the bucket lets through at most Burst and what  *)
(* accrues in the window, however the requests race for the mutex.         *)
WindowBounded == spent <= budget

(* A permit is given back exactly once, on every way out: finished, timed  *)
(* out, refused by the bucket, disconnected.                               *)
PermitsConserved == permits + Cardinality(InGate) = Limit

(* The gauge never shows fewer requests than are being handled, and so the *)
(* unsigned counter never wraps.  (It may show more, and does: a timeout   *)
(* or a disconnect leaves its increment behind.)                           *)
GaugeNotBelow == inFlight >= Cardinality(Handled)

(* A server that is full takes requests again, even if no handler returns. *)
CapacityReturns == permits = 0 ~> permits > 0
=============================================================================
