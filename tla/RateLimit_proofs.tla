-------------------------- MODULE RateLimit_proofs --------------------------
(***************************************************************************)
(* Theorems about RateLimit, for any number of requests, any limit and     *)
(* window, any latency and any failures of Redis: within a window no more  *)
(* than Limit requests are accepted, and none is refused unless more than  *)
(* Limit were counted within the last Window ticks.                        *)
(***************************************************************************)
EXTENDS RateLimit, FiniteSetTheorems, TLAPS

\* The requests counted by a key that has not expired: none of them is older
\* than the key, which lives for Window ticks.
Since(w) == { r \in Counted : /\ request[r].window = w
                             /\ counter[w].expires <= request[r].at + Window }

KeyOK(w) ==
    /\ counter[w].count <= Cardinality(Since(w))
    /\ counter[w].expires <= now + Window
    /\ now < (w + 1) * Window =>
         /\ counter[w].count = Cardinality(InTime(w))
         /\ counter[w].count > 0 => (w + 1) * Window <= counter[w].expires

\* The clock of a request is not ahead, nor is the moment it was counted.
RequestOK(r) == /\ request[r].pc # "new" => request[r].window * Window <= now
                /\ r \in Counted => request[r].at <= now

IInv == /\ TypeOK
        /\ \A r \in Request : RequestOK(r)
        /\ \A w \in Windows : KeyOK(w)
        /\ WindowLimit

-----------------------------------------------------------------------------
(* Arithmetic and cardinalities.                                           *)

LEMMA CancelFactor ==
    ASSUME NEW a \in Nat, NEW b \in Nat, NEW n \in Nat \ {0}, a * n <= b * n
    PROVE  a <= b
<1> SUFFICES ASSUME b + 1 <= a PROVE FALSE
  OBVIOUS
<1>1. PICK d \in Nat : a = (b + 1) + d
  <2> WITNESS a - (b + 1) \in Nat
  <2> QED OBVIOUS
<1>2. a * n = (b * n) + n + (d * n)
  BY <1>1
<1>3. d * n \in Nat /\ b * n \in Nat
  OBVIOUS
<1> QED BY <1>2, <1>3

\* What the comparison says of the two counters, whatever the fraction.
LEMMA WeightedBounds ==
    ASSUME NEW p \in Nat, NEW c \in Nat, NEW e \in 0 .. Window - 1
    PROVE  /\ ~(p * (Window - e) + c * Window > Limit * Window) => c <= Limit
           /\ p * (Window - e) + c * Window > Limit * Window => p + c > Limit
<1>1. Window - e \in Nat /\ p * (Window - e) \in Nat /\ c * Window \in Nat
      /\ Limit * Window \in Nat /\ p * e \in Nat /\ p * Window \in Nat
  BY LimitAssumption
<1>2. ASSUME ~(p * (Window - e) + c * Window > Limit * Window) PROVE c <= Limit
  BY <1>1, <1>2, CancelFactor, LimitAssumption
<1>3. ASSUME p + c <= Limit
      PROVE  p * (Window - e) + c * Window <= Limit * Window
  <2>1. PICK d \in Nat : Limit = (p + c) + d
    <3>1. Limit - (p + c) \in Nat /\ Limit = (p + c) + (Limit - (p + c))
      BY <1>3, LimitAssumption
    <3> QED BY <3>1
  <2>2. Limit * Window = p * Window + c * Window + d * Window
    BY <2>1, LimitAssumption
  <2>3. p * (Window - e) = p * Window - p * e
    BY LimitAssumption
  <2>4. d * Window \in Nat
    BY LimitAssumption
  <2> QED BY <1>1, <2>2, <2>3, <2>4
<1> QED BY <1>1, <1>2, <1>3, LimitAssumption

LEMMA FiniteSets ==
    ASSUME NEW S \in SUBSET Request
    PROVE  IsFiniteSet(S) /\ Cardinality(S) \in Nat
  BY RequestAssumption, FS_Subset, FS_CardinalityType

LEMMA SetsOfRequests ==
    ASSUME NEW w
    PROVE  /\ Accepted(w) \subseteq InTime(w) /\ InTime(w) \subseteq Request
           /\ Since(w) \subseteq Request /\ Counted \subseteq Request
  BY DEF Accepted, InTime, Since, Counted

-----------------------------------------------------------------------------
(* IInv is inductive.                                                      *)

LEMMA RateInit == Init => IInv
<1> SUFFICES ASSUME Init PROVE IInv
  OBVIOUS
<1>1. TypeOK
  BY BoundsAssumption, LimitAssumption DEF Init, TypeOK, Counter, Progress, Windows
<1>2. Counted = {}
  BY DEF Init, Counted
<1>3. ASSUME NEW w \in Windows PROVE KeyOK(w) /\ Cardinality(Accepted(w)) <= Limit
  <2>1. Since(w) = {} /\ InTime(w) = {} /\ Accepted(w) = {}
    BY <1>2 DEF Since, InTime, Accepted
  <2>2. counter[w].count = 0 /\ counter[w].expires = 0 /\ now = 0
    BY DEF Init
  <2> QED BY <2>1, <2>2, FS_EmptySet, LimitAssumption DEF KeyOK
<1>4. ASSUME NEW r \in Request PROVE RequestOK(r)
  BY <1>2 DEF RequestOK, Init
<1> QED BY <1>1, <1>3, <1>4 DEF IInv, WindowLimit

\* Steps that count nothing: the clock may go on, requests are sent or pass.
LEMMA NothingCounted ==
    ASSUME IInv, TypeOK', UNCHANGED counter, Counted' = Counted,
           now' \in Nat, now <= now',
           \A r \in Counted : /\ request'[r].window = request[r].window
                              /\ request'[r].at = request[r].at
                              /\ request'[r].pc = request[r].pc,
           \A r \in Request : RequestOK(r)'
    PROVE  IInv'
<1>1. ASSUME NEW w \in Windows
      PROVE  KeyOK(w)' /\ Cardinality(Accepted(w))' <= Limit
  <2>1. Since(w)' = Since(w) /\ InTime(w)' = InTime(w) /\ Accepted(w)' = Accepted(w)
    BY DEF Since, InTime, Accepted
  <2>2. KeyOK(w) /\ Cardinality(Accepted(w)) <= Limit
    BY DEF IInv, WindowLimit
  <2>3. counter[w] \in Counter /\ now \in Nat /\ (w + 1) * Window \in Nat
    BY LimitAssumption DEF IInv, TypeOK, Windows
  <2> QED BY <2>1, <2>2, <2>3, LimitAssumption DEF KeyOK, Counter
<1> QED BY <1>1 DEF IInv, WindowLimit

LEMMA TickIInv == ASSUME IInv, Tick PROVE IInv'
<1>1. TypeOK'
  BY BoundsAssumption DEF IInv, Tick, TypeOK
<1>2. Counted' = Counted /\ now' = now + 1 /\ now \in Nat
  BY DEF IInv, Tick, Counted, TypeOK
<1>3. ASSUME NEW r \in Request PROVE RequestOK(r)'
  <2>1. RequestOK(r) /\ request[r] \in Progress
    BY DEF IInv, TypeOK
  <2>2. request[r].window * Window \in Nat /\ request[r].at \in Nat
    BY <2>1, LimitAssumption DEF Progress, Windows
  <2> QED BY <1>2, <2>1, <2>2 DEF RequestOK, Tick
<1> QED BY <1>1, <1>2, <1>3, NothingCounted DEF Tick

LEMMA ArriveIInv == ASSUME IInv, NEW r \in Request, Arrive(r) PROVE IInv'
<1>1. PICK w \in Windows :
         /\ w * Window <= now /\ now < (w + 1) * Window
         /\ request' = [request EXCEPT ![r].pc = "sent", ![r].window = w,
                                       ![r].elapsed = now - w * Window]
  BY DEF Arrive
<1>2. request \in [Request -> Progress] /\ now \in 0 .. MaxTime
  BY DEF IInv, TypeOK
<1>3. now - w * Window \in 0 .. Window - 1
  <2>1. (w + 1) * Window = w * Window + Window /\ w * Window \in Nat
    BY LimitAssumption DEF Windows
  <2> QED BY <1>1, <1>2, <2>1, LimitAssumption
<1>4. request'[r] = [request[r] EXCEPT !.pc = "sent", !.window = w,
                                       !.elapsed = now - w * Window]
      /\ \A q \in Request \ {r} : request'[q] = request[q]
  BY <1>1, <1>2
<1>5. request' \in [Request -> Progress]
  BY <1>1, <1>2, <1>3 DEF Progress
<1>6. TypeOK' /\ Counted' = Counted
  BY <1>2, <1>4, <1>5 DEF IInv, TypeOK, Counted, Arrive, Progress
<1>7. ASSUME NEW q \in Request PROVE RequestOK(q)'
  BY <1>1, <1>2, <1>4, <1>6 DEF IInv, RequestOK, Arrive, Counted, Progress
<1>8. \A q \in Counted : q \in Request /\ q # r
  BY DEF Counted, Arrive
<1> QED BY <1>2, <1>4, <1>6, <1>7, <1>8, NothingCounted DEF Arrive

LEMMA UnavailableIInv == ASSUME IInv, NEW r \in Request, Unavailable(r) PROVE IInv'
<1>1. request \in [Request -> Progress] /\ now \in 0 .. MaxTime
  BY DEF IInv, TypeOK
<1>2. request'[r] = [request[r] EXCEPT !.pc = "open"]
      /\ \A q \in Request \ {r} : request'[q] = request[q]
  BY <1>1 DEF Unavailable
<1>3. request' \in [Request -> Progress]
  BY <1>1 DEF Unavailable, Progress
<1>4. TypeOK' /\ Counted' = Counted
  BY <1>1, <1>2, <1>3 DEF IInv, TypeOK, Counted, Unavailable, Progress
<1>5. ASSUME NEW q \in Request PROVE RequestOK(q)'
  BY <1>1, <1>2, <1>4 DEF IInv, RequestOK, Unavailable, Counted, Progress
<1>6. \A q \in Counted : q \in Request /\ q # r
  BY DEF Counted, Unavailable
<1> QED BY <1>1, <1>2, <1>4, <1>5, <1>6, NothingCounted DEF Unavailable

\* What a key says of itself when it is read.
LEMMA CountFacts ==
    ASSUME IInv, NEW w \in Windows
    PROVE  /\ Count(w) \in Nat
           /\ Count(w) <= Cardinality(Since(w))
           /\ Count(w) > 0 => Count(w) = counter[w].count /\ now <= counter[w].expires
           /\ now < (w + 1) * Window => Count(w) = Cardinality(InTime(w))
<1>1. counter[w] \in Counter /\ now \in Nat /\ (w + 1) * Window \in Nat /\ KeyOK(w)
  BY LimitAssumption DEF IInv, TypeOK, Windows
<1>2. Cardinality(Since(w)) \in Nat /\ Cardinality(InTime(w)) \in Nat
  BY FiniteSets, SetsOfRequests
<1> QED BY <1>1, <1>2 DEF Count, KeyOK, Counter

\* Request r is counted, with outcome o.
CountedAs(r, o) ==
    /\ request[r].pc = "sent"
    /\ Increment(request[r].window)
    /\ request' = [request EXCEPT ![r].pc = o, ![r].at = now]
    /\ now' = now
    /\ o = "accepted" => ~Exceeds(r)

LEMMA CountedIInv ==
    ASSUME IInv, NEW r \in Request, NEW o \in {"accepted", "refused", "lost"},
           CountedAs(r, o)
    PROVE  IInv'
<1>0. PICK w \in Windows : request[r].window = w
  BY DEF IInv, TypeOK, Progress
<1> DEFINE bound == (w + 1) * Window
<1>1. /\ request \in [Request -> Progress] /\ request[r] \in Progress
      /\ now \in 0 .. MaxTime /\ counter \in [Windows -> Counter]
      /\ \A q \in Request : RequestOK(q)
  BY DEF IInv, TypeOK, Progress
<1>2. /\ request'[r] = [request[r] EXCEPT !.pc = o, !.at = now]
      /\ \A q \in Request \ {r} : request'[q] = request[q]
  BY <1>1 DEF CountedAs
<1>3. request' \in [Request -> Progress]
  BY <1>1 DEF CountedAs, Progress
<1>4. /\ request'[r].pc = o /\ request'[r].at = now /\ request'[r].window = w
      /\ request'[r].elapsed = request[r].elapsed
  BY <1>0, <1>1, <1>2 DEF Progress
<1>5. /\ r \notin Counted /\ Counted' = Counted \cup {r} /\ now' = now
      /\ \A q \in Counted : request'[q] = request[q]
  <2>1. r \notin Counted /\ now' = now
    BY DEF Counted, CountedAs
  <2>2. ASSUME NEW q \in Counted PROVE q \in Request \ {r} /\ request'[q] = request[q]
    BY <1>2, <2>1 DEF Counted
  <2>3. Counted' = Counted \cup {r}
    BY <1>2, <1>4, <2>2 DEF Counted
  <2> QED BY <2>1, <2>2, <2>3
<1>6. /\ Count(w) \in Nat
      /\ Count(w) <= Cardinality(Since(w))
      /\ Count(w) > 0 => Count(w) = counter[w].count /\ now <= counter[w].expires
      /\ now < bound => Count(w) = Cardinality(InTime(w))
  BY <1>1, CountFacts
<1>7. /\ counter' \in [Windows -> Counter]
      /\ counter'[w].count = Count(w) + 1
      /\ counter'[w].expires = IF Count(w) = 0 THEN now + Window ELSE counter[w].expires
      /\ \A v \in Windows \ {w} : counter'[v] = counter[v]
  BY <1>0, <1>1, <1>6, LimitAssumption DEF CountedAs, Increment, Counter
<1>8. TypeOK'
  BY <1>1, <1>3, <1>5, <1>7 DEF TypeOK
<1>9. ASSUME NEW q \in Request PROVE RequestOK(q)'
  <2>1. CASE q = r
    BY <1>1, <1>4, <1>5, <2>1 DEF RequestOK, CountedAs
  <2>2. CASE q # r
    BY <1>1, <1>2, <1>5, <2>2 DEF RequestOK
  <2> QED BY <2>1, <2>2
<1>10. ASSUME NEW v \in Windows, v # w
       PROVE  KeyOK(v)' /\ Cardinality(Accepted(v))' <= Limit
  <2>1. Since(v)' = Since(v) /\ InTime(v)' = InTime(v) /\ Accepted(v)' = Accepted(v)
    <3>1. counter'[v] = counter[v] /\ request'[r].window # v
      BY <1>4, <1>7, <1>10
    <3>2. Since(v)' = Since(v)
      BY <1>5, <3>1 DEF Since
    <3>3. InTime(v)' = InTime(v)
      BY <1>5, <3>1 DEF InTime
    <3>4. Accepted(v)' = Accepted(v)
      BY <1>5, <3>1, <3>3 DEF Accepted, InTime
    <3> QED BY <3>2, <3>3, <3>4
  <2>2. KeyOK(v) /\ Cardinality(Accepted(v)) <= Limit /\ counter'[v] = counter[v]
    BY <1>7, <1>10 DEF IInv, WindowLimit
  <2> QED BY <1>5, <2>1, <2>2 DEF KeyOK
<1>11. KeyOK(w) /\ Cardinality(Accepted(w)) <= Limit
  BY DEF IInv, WindowLimit
<1>12. bound = w * Window + Window /\ w * Window \in Nat /\ w * Window <= now
  BY <1>0, <1>1, LimitAssumption DEF Windows, RequestOK, CountedAs
<1>13. counter'[w].count <= Cardinality(Since(w)') /\ counter'[w].expires <= now + Window
  <2>1. CASE Count(w) = 0
    <3>1. {r} \subseteq Since(w)'
      BY <1>1, <1>4, <1>5, <1>7, <2>1, LimitAssumption DEF Since
    <3>2. Cardinality({r}) <= Cardinality(Since(w)')
      BY <3>1, FS_Subset, FiniteSets, SetsOfRequests, <1>5 DEF Since, Counted
    <3> QED BY <1>1, <1>7, <2>1, <3>2, FS_Singleton, LimitAssumption
  <2>2. CASE Count(w) > 0
    <3>1. counter'[w].expires = counter[w].expires /\ counter[w].expires <= now + Window
      BY <1>6, <1>7, <1>11, <2>2 DEF KeyOK
    <3>2. Since(w)' = Since(w) \cup {r} /\ r \notin Since(w)
      <4>1. now + Window = request'[r].at + Window /\ counter'[w].expires <= now + Window
        BY <1>4, <3>1
      <4>2. \A q \in Counted : q # r
        BY <1>5
      <4>3. r \notin Since(w)
        BY <1>5 DEF Since
      <4> QED BY <1>4, <1>5, <3>1, <4>1, <4>2, <4>3 DEF Since
    <3>3. Cardinality(Since(w)') = Cardinality(Since(w)) + 1
      BY <3>2, FS_AddElement, FiniteSets, SetsOfRequests
    <3> QED BY <1>6, <1>7, <3>1, <3>3, FiniteSets, SetsOfRequests
  <2> QED BY <1>6, <2>1, <2>2
<1>14. ASSUME now < bound
       PROVE  /\ InTime(w)' = InTime(w) \cup {r}
              /\ Cardinality(InTime(w)') = Cardinality(InTime(w)) + 1
              /\ counter'[w].count = Cardinality(InTime(w)')
              /\ bound <= counter'[w].expires
  <2>1. InTime(w)' = InTime(w) \cup {r} /\ r \notin InTime(w)
    BY <1>4, <1>5, <1>14 DEF InTime
  <2>2. Cardinality(InTime(w)') = Cardinality(InTime(w)) + 1
    BY <2>1, FS_AddElement, FiniteSets, SetsOfRequests
  <2>3. bound <= counter'[w].expires
    BY <1>1, <1>6, <1>7, <1>11, <1>12, <1>14, LimitAssumption DEF KeyOK
  <2> QED BY <1>6, <1>7, <1>14, <2>1, <2>2, <2>3
<1>15. KeyOK(w)'
  <2>1. now < bound => /\ counter'[w].count = Cardinality(InTime(w)')
                       /\ bound <= counter'[w].expires
    BY <1>14
  <2> QED BY <1>5, <1>13, <2>1 DEF KeyOK
<1>16. Cardinality(Accepted(w)') <= Limit
  <2>1. CASE now < bound /\ o = "accepted"
    <3>1. Count(w) + 1 <= Limit
      <4>1. Previous(r) \in Nat
        <5>1. w # 0 => w - 1 \in Windows
          BY BoundsAssumption DEF Windows
        <5>2. w # 0 => Count(w - 1) \in Nat
          BY <5>1, CountFacts
        <5> QED BY <1>0, <5>2 DEF Previous
      <4>2. request[r].elapsed \in 0 .. Window - 1
        BY <1>1 DEF Progress
      <4>3. ~(Previous(r) * (Window - request[r].elapsed) + (Count(w) + 1) * Window
                > Limit * Window)
        BY <1>0, <2>1 DEF CountedAs, Exceeds
      <4> QED BY <1>6, <4>1, <4>2, <4>3, WeightedBounds
    <3>2. Cardinality(InTime(w)') <= Limit
      BY <1>6, <1>14, <2>1, <3>1
    <3>3. Accepted(w)' \subseteq InTime(w)' /\ InTime(w)' \in SUBSET Request
      BY <1>14, <2>1, SetsOfRequests DEF Accepted
    <3>4. /\ Cardinality(Accepted(w)') <= Cardinality(InTime(w)')
          /\ Cardinality(Accepted(w)') \in Nat /\ Cardinality(InTime(w)') \in Nat
      BY <3>3, FS_Subset, FiniteSets
    <3> QED BY <3>2, <3>4, LimitAssumption
  <2>2. CASE ~(now < bound /\ o = "accepted")
    <3>1. Accepted(w)' = Accepted(w)
      BY <1>4, <1>5, <2>2 DEF Accepted, InTime
    <3> QED BY <1>11, <3>1
  <2> QED BY <2>1, <2>2
<1> QED BY <1>8, <1>9, <1>10, <1>11, <1>15, <1>16 DEF IInv, WindowLimit

LEMMA PipelineCounts ==
    ASSUME NEW r \in Request, Pipeline(r) \/ LoseReply(r)
    PROVE  \E o \in {"accepted", "refused", "lost"} : CountedAs(r, o)
<1>1. CASE Pipeline(r) /\ Exceeds(r)
  BY <1>1 DEF Pipeline, CountedAs
<1>2. CASE Pipeline(r) /\ ~Exceeds(r)
  BY <1>2 DEF Pipeline, CountedAs
<1>3. CASE LoseReply(r)
  BY <1>3 DEF LoseReply, CountedAs
<1> QED BY <1>1, <1>2, <1>3

LEMMA RateNext == IInv /\ [Next]_vars => IInv'
<1> SUFFICES ASSUME IInv, [Next]_vars PROVE IInv'
  OBVIOUS
<1>1. CASE Tick
  BY <1>1, TickIInv
<1>2. ASSUME NEW r \in Request, Arrive(r) PROVE IInv'
  BY <1>2, ArriveIInv
<1>3. ASSUME NEW r \in Request, Pipeline(r) \/ LoseReply(r) PROVE IInv'
  BY <1>3, PipelineCounts, CountedIInv
<1>4. ASSUME NEW r \in Request, Unavailable(r) PROVE IInv'
  BY <1>4, UnavailableIInv
<1>5. CASE UNCHANGED vars
  <2>1. TypeOK' /\ Counted' = Counted
    BY <1>5 DEF IInv, TypeOK, vars, Counted
  <2>2. \A r \in Request : RequestOK(r)'
    BY <1>5, <2>1 DEF IInv, RequestOK, vars
  <2> QED BY <1>5, <2>1, <2>2, NothingCounted DEF vars, IInv, TypeOK
<1> QED BY <1>1, <1>2, <1>3, <1>4, <1>5 DEF Next

-----------------------------------------------------------------------------
(* The theorems.                                                           *)

\* The inductive invariant: what the counters say of the requests counted.
THEOREM RateInvariance == Spec => []IInv
  BY RateInit, RateNext, PTL DEF Spec

\* Counters and requests keep their types.
THEOREM RateTypeCorrect == Spec => []TypeOK
<1>1. IInv => TypeOK
  BY DEF IInv
<1> QED BY <1>1, RateInvariance, PTL

\* No window accepts more than Limit of the requests counted in it, with any
\* latency of the others and any failures (RateLimitMiddleware.dispatch).
THEOREM LimitPerWindow == Spec => []WindowLimit
<1>1. IInv => WindowLimit
  BY DEF IInv
<1> QED BY <1>1, RateInvariance, PTL

\* What a key counts is recent while it is read: at most Window ticks old.
LEMMA CountIsRecent ==
    ASSUME IInv, NEW w \in Windows
    PROVE  \E S \in SUBSET Recent : /\ \A r \in S : request[r].window = w
                                    /\ Count(w) <= Cardinality(S)
<1>1. now \in Nat /\ counter[w].expires \in Nat /\ \A r \in Counted : request[r].at \in Nat
  BY DEF IInv, TypeOK, Counter, Progress, Counted
<1>2. CASE Count(w) > 0
  <2>1. Since(w) \in SUBSET Recent
    <3>1. now <= counter[w].expires
      BY <1>2, CountFacts
    <3>2. ASSUME NEW r \in Since(w) PROVE r \in Recent
      <4>1. r \in Counted /\ counter[w].expires <= request[r].at + Window
        BY DEF Since
      <4> QED BY <1>1, <3>1, <4>1, LimitAssumption DEF Recent
    <3> QED BY <3>2
  <2>2. \A r \in Since(w) : request[r].window = w
    BY DEF Since
  <2> QED BY <2>1, <2>2, CountFacts
<1>3. CASE Count(w) = 0
  <2>1. {} \in SUBSET Recent /\ Count(w) <= Cardinality({})
    BY <1>3, FS_EmptySet
  <2> QED BY <2>1
<1> QED BY <1>2, <1>3, CountFacts

\* Only a request whose weighted count exceeds the limit is refused.
LEMMA WhoIsRefused ==
    ASSUME IInv, [Next]_vars, NEW q \in Request,
           request'[q].pc = "refused", request[q].pc # "refused"
    PROVE  Exceeds(q) /\ CountedAs(q, "refused")
<1>1. request \in [Request -> Progress]
  BY DEF IInv, TypeOK
<1>2. ASSUME NEW r \in Request, Arrive(r) \/ Unavailable(r) \/ LoseReply(r) PROVE FALSE
  <2>1. request'[r].pc \in {"sent", "open", "lost"}
    <3>1. request[r] \in Progress
      BY <1>1
    <3>2. CASE Arrive(r)
      BY <1>1, <3>1, <3>2 DEF Arrive, Progress
    <3>3. CASE Unavailable(r)
      BY <1>1, <3>1, <3>3 DEF Unavailable, Progress
    <3>4. CASE LoseReply(r)
      BY <1>1, <3>1, <3>4 DEF LoseReply, Progress
    <3> QED BY <1>2, <3>2, <3>3, <3>4
  <2>2. q # r => request'[q] = request[q]
    BY <1>1, <1>2 DEF Arrive, Unavailable, LoseReply
  <2> QED BY <2>1, <2>2
<1>3. ASSUME NEW r \in Request, Pipeline(r) PROVE r = q /\ Exceeds(r)
  BY <1>1, <1>3 DEF Pipeline
<1>4. Pipeline(q) /\ Exceeds(q)
  BY <1>2, <1>3 DEF Next, Tick, vars
<1> QED BY <1>4 DEF Pipeline, CountedAs

LEMMA RefusedForCause ==
    ASSUME IInv, [Next]_vars, NEW q \in Request,
           request'[q].pc = "refused", request[q].pc # "refused"
    PROVE  Cardinality(Recent') > Limit
<1>1. Exceeds(q) /\ CountedAs(q, "refused")
  BY WhoIsRefused
<1>2. PICK w \in Windows : request[q].window = w
  BY DEF IInv, TypeOK, Progress
<1>3. /\ request \in [Request -> Progress] /\ now \in 0 .. MaxTime
      /\ request[q].elapsed \in 0 .. Window - 1 /\ now' = now
  BY <1>1 DEF IInv, TypeOK, Progress, CountedAs
<1>4. PICK B \in SUBSET Recent : /\ \A r \in B : request[r].window = w
                                 /\ Count(w) <= Cardinality(B)
  BY CountIsRecent
<1>5. PICK A \in SUBSET Recent : /\ \A r \in A : request[r].window # w
                                 /\ Previous(q) \in Nat
                                 /\ Previous(q) <= Cardinality(A)
  <2>1. CASE w = 0
    <3>1. {} \in SUBSET Recent /\ Previous(q) = 0 /\ Cardinality({}) = 0
      BY <1>2, <2>1, FS_EmptySet DEF Previous
    <3> QED BY <3>1
  <2>2. CASE w # 0
    <3>1. w - 1 \in Windows /\ w - 1 # w
      BY <2>2, BoundsAssumption DEF Windows
    <3>2. Previous(q) = Count(w - 1) /\ Count(w - 1) \in Nat
      BY <1>2, <2>2, <3>1, CountFacts DEF Previous
    <3> QED BY <3>1, <3>2, CountIsRecent
  <2> QED BY <2>1, <2>2
<1>6. Previous(q) + (Count(w) + 1) > Limit /\ Count(w) \in Nat
  <2>1. Count(w) \in Nat /\ Count(w) + 1 \in Nat
    BY CountFacts
  <2>2. Previous(q) * (Window - request[q].elapsed) + (Count(w) + 1) * Window
          > Limit * Window
    BY <1>1, <1>2 DEF Exceeds
  <2> QED BY <1>3, <1>5, <2>1, <2>2, WeightedBounds
<1>7. q \notin A \cup B /\ A \cap B = {} /\ A \subseteq Request /\ B \subseteq Request
  BY <1>1, <1>4, <1>5 DEF Recent, Counted, CountedAs
<1>8. (A \cup B) \cup {q} \subseteq Recent'
  <2>1. request'[q].pc = "refused" /\ request'[q].at = now
    BY <1>1, <1>3 DEF CountedAs, Progress
  <2>2. q \in Recent'
    BY <1>3, <2>1, LimitAssumption DEF Recent, Counted
  <2>3. ASSUME NEW r \in Recent PROVE r \in Recent'
    <3>1. r # q /\ r \in Request
      BY <1>1 DEF Recent, Counted, CountedAs
    <3>2. request'[r] = request[r]
      BY <1>1, <1>3, <3>1 DEF CountedAs
    <3> QED BY <1>3, <3>1, <3>2 DEF Recent, Counted
  <2> QED BY <1>4, <1>5, <2>2, <2>3
<1>9. Cardinality((A \cup B) \cup {q}) = Cardinality(A) + Cardinality(B) + 1
  <2>1. IsFiniteSet(A) /\ IsFiniteSet(B) /\ IsFiniteSet(A \cup B)
    BY <1>7, FiniteSets
  <2>2. Cardinality(A \cup B) = Cardinality(A) + Cardinality(B)
    <3>1. Cardinality(A \cap B) = 0
      BY <1>7, FS_EmptySet
    <3>2. Cardinality(A) \in Nat /\ Cardinality(B) \in Nat
      BY <2>1, FS_CardinalityType
    <3>3. Cardinality(A \cup B) = Cardinality(A) + Cardinality(B) - Cardinality(A \cap B)
      BY <2>1, FS_Union
    <3> QED BY <3>1, <3>2, <3>3
  <2> QED BY <1>7, <2>1, <2>2, FS_AddElement
<1>10. Cardinality((A \cup B) \cup {q}) <= Cardinality(Recent')
  <2>1. Recent' \in SUBSET Request
    BY DEF Recent, Counted
  <2> QED BY <1>8, <2>1, FiniteSets, FS_Subset
<1>11. Cardinality(A) \in Nat /\ Cardinality(B) \in Nat /\ Cardinality(Recent') \in Nat
  BY <1>7, FiniteSets DEF Recent, Counted
<1> QED BY <1>4, <1>5, <1>6, <1>9, <1>10, <1>11, LimitAssumption

\* Whoever is refused belongs to a crowd: more than Limit requests were counted
\* within the last Window ticks (RateLimitMiddleware.dispatch with EXPIRE NX).
THEOREM RefusalForCause == Spec => RefusalJustified
<1>1. IInv /\ [Next]_vars =>
        [\A r \in Request : request'[r].pc = "refused" /\ request[r].pc # "refused"
            => Cardinality(Recent') > Limit]_vars
  BY RefusedForCause
<1> QED BY <1>1, RateInvariance, PTL DEF Spec, RefusalJustified
=============================================================================
