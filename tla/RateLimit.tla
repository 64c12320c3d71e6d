----------------------------- MODULE RateLimit -----------------------------
(***************************************************************************)
(* The rate limiter of the API: every request of a client increments the   *)
(* Redis counter of the window its clock shows, reads the counter of the   *)
(* window before, and is refused when the weighted sum of the two exceeds  *)
(* the limit. A counter expires one window after its first increment.      *)
(*                                                                         *)
(* One client: the keys of different addresses have nothing in common.     *)
(* Processes and Redis share one clock, in ticks; the pipeline is one      *)
(* MULTI/EXEC, so that it takes effect at one moment, which may be later   *)
(* than the moment the request read the clock. /health is not counted and  *)
(* not modelled. The fraction is kept as ticks: both sides of the          *)
(* comparison are multiplied by Window.                                    *)
(***************************************************************************)
EXTENDS Naturals, FiniteSets

CONSTANTS
    Request,        \* the requests of one client
    Limit,          \* self._limit
    Window,         \* self._window_seconds
    MaxTime,        \* bound: the clock stops here
    MaxLatency      \* bound: ticks between a request's clock and its pipeline

ASSUME RequestAssumption == IsFiniteSet(Request)
ASSUME LimitAssumption == Limit \in Nat /\ Window \in Nat \ {0}
ASSUME BoundsAssumption == MaxTime \in Nat /\ MaxLatency \in Nat

VARIABLES
    now,            \* the clock
    counter,        \* [Windows -> Counter]: Redis keys, of count 0 if never set
    request         \* [Request -> Progress]

vars == <<now, counter, request>>

Windows == 0 .. MaxTime
Counter == [count : Nat, expires : Nat]

\* window and elapsed: what the request's clock showed; at: when Redis counted it.
\* "open": passed unchecked; "lost": counted, then passed unchecked.
Progress == [pc : {"new", "sent", "accepted", "refused", "open", "lost"},
             window : Windows, elapsed : 0 .. Window - 1, at : 0 .. MaxTime]

Init ==
    /\ now = 0
    /\ counter = [w \in Windows |-> [count |-> 0, expires |-> 0]]
    /\ request = [r \in Request |->
                    [pc |-> "new", window |-> 0, elapsed |-> 0, at |-> 0]]

Sent == { r \in Request : request[r].pc = "sent" }
Tick ==
    /\ now < MaxTime
    /\ \A r \in Sent :
         now < request[r].window * Window + request[r].elapsed + MaxLatency
    /\ now' = now + 1
    /\ UNCHANGED <<counter, request>>

\* Mutant: the fraction of the window forgets to subtract the window's start.
ArriveUnwrapped(r) ==
    /\ request[r].pc = "new"
    /\ \E w \in Windows :
         /\ w * Window <= now /\ now < (w + 1) * Window
         /\ request' = [request EXCEPT ![r].pc = "sent", ![r].window = w,
                                       ![r].elapsed = now]
    /\ UNCHANGED <<now, counter>>

\* int(now // window_seconds) and the fraction of the window that has passed.
Arrive(r) ==
    /\ request[r].pc = "new"
    /\ \E w \in Windows :
         /\ w * Window <= now /\ now < (w + 1) * Window
         /\ request' = [request EXCEPT ![r].pc = "sent", ![r].window = w,
                                       ![r].elapsed = now - w * Window]
    /\ UNCHANGED <<now, counter>>

\* GET: a key counts until it has expired.
Count(w) == IF w \in Windows /\ now <= counter[w].expires THEN counter[w].count ELSE 0
Previous(r) == IF request[r].window = 0 THEN 0 ELSE Count(request[r].window - 1)

\* Mutant: EXPIRE without NX, which prolongs the life of the counter.
IncrementProlonging(w) ==
    counter' = [counter EXCEPT ![w] = [count |-> Count(w) + 1, expires |-> now + Window]]

\* INCR and EXPIRE ... NX.
Increment(w) ==
    counter' = [counter EXCEPT
        ![w] = [count |-> Count(w) + 1,
                expires |-> IF Count(w) = 0 THEN now + Window ELSE @.expires]]

\* Mutant: the count before the increment.
ExceedsBefore(r) ==
    Previous(r) * (Window - request[r].elapsed) + Count(request[r].window) * Window
        > Limit * Window

\* weighted_count > self._limit, with the count that INCR returned.
Exceeds(r) ==
    Previous(r) * (Window - request[r].elapsed)
        + (Count(request[r].window) + 1) * Window
      > Limit * Window

Pipeline(r) ==
    /\ request[r].pc = "sent"
    /\ Increment(request[r].window)
    /\ request' = [request EXCEPT ![r].pc = IF Exceeds(r) THEN "refused" ELSE "accepted",
                                  ![r].at = now]
    /\ UNCHANGED now

\* A RedisError, before or after Redis has done it: the request passes.
Unavailable(r) ==
    /\ request[r].pc = "sent"
    /\ request' = [request EXCEPT ![r].pc = "open"]
    /\ UNCHANGED <<now, counter>>

LoseReply(r) ==
    /\ request[r].pc = "sent"
    /\ Increment(request[r].window)
    /\ request' = [request EXCEPT ![r].pc = "lost", ![r].at = now]
    /\ UNCHANGED now

Next ==
    \/ Tick
    \/ \E r \in Request : Arrive(r) \/ Pipeline(r) \/ Unavailable(r) \/ LoseReply(r)

Spec == Init /\ [][Next]_vars

-----------------------------------------------------------------------------
(* Properties.                                                             *)

\* Counters and requests hold values of their kind.
TypeOK ==
    /\ now \in 0 .. MaxTime
    /\ counter \in [Windows -> Counter]
    /\ request \in [Request -> Progress]

Counted == { r \in Request : request[r].pc \in {"accepted", "refused", "lost"} }
InTime(w) == { r \in Counted : /\ request[r].window = w
                              /\ request[r].at < (w + 1) * Window }
Accepted(w) == { r \in InTime(w) : request[r].pc = "accepted" }

\* Of the requests that Redis counts before their window is over, no more than
\* the limit are accepted: the counter cannot expire within its own window.
WindowLimit == \A w \in Windows : Cardinality(Accepted(w)) <= Limit

\* Nobody is refused without cause: when a request is refused, more than Limit
\* requests, itself included, were counted within the last Window ticks. It is
\* the expiry that makes the weighted sum of two windows an underestimate of a
\* true sliding window.
Recent == { r \in Counted : now <= request[r].at + Window }
RefusalJustified ==
    [][\A r \in Request : request'[r].pc = "refused" /\ request[r].pc # "refused"
            => Cardinality(Recent') > Limit]_vars

-----------------------------------------------------------------------------
(* What the code says of itself, and does not keep.                        *)

\* rate_limit.py:43: the worst burst around a window's end is close to the limit
\* and not twice the limit. (A burst: within half a window; close: nearer.)
Burst(t) == { r \in Request : /\ request[r].pc = "accepted"
                             /\ request[r].at \in t .. t + Window \div 2 }
BurstNearLimit == \A t \in 0 .. MaxTime : 2 * Cardinality(Burst(t)) <= 3 * Limit
=============================================================================
