----------------------- MODULE WebhookDelivery_proofs -----------------------
(***************************************************************************)
(* Theorems about WebhookDelivery, for any number of deliveries and        *)
(* workers and any retry limits. NoPhantomPost, AttemptsBehind, PostBudget *)
(* and the refinement hold with any faults; SingleTask, SuccessFinal and   *)
(* RetryLimit need sweeps that neither overlap (at most one sweeper) nor   *)
(* fail half-way (MaxAborts = 0).                                          *)
(***************************************************************************)
EXTENDS WebhookDelivery, FiniteSetTheorems, TLAPS

\* What was loaded, posted, found or claimed has a committed row.
RowsInv ==
    /\ \A w \in Worker : worker[w].pc # "idle" =>
         worker[w].msg \in Message /\ row[worker[w].msg.delivery].status # "none"
    /\ \A v \in Sweeper : \A d \in Delivery :
         d \in sweeper[v].found \cup sweeper[v].claimed => row[d].status # "none"

Inv == TypeOK /\ RowsInv /\ NoPhantomPost

LEMMA InitInv == Init => Inv
<1> SUFFICES ASSUME Init PROVE Inv
  OBVIOUS
<1>1. settings \in [is_active : BOOLEAN, retry_count : RetryCounts]
  BY DEF Init
<1> QED
  BY <1>1, RetryAssumption, FaultsAssumption
  DEF Init, Inv, TypeOK, RowsInv, NoPhantomPost, NoRow, Row, IdleWorker, Working,
      NoMessage, IdleSweeper, Sweeping

LEMMA PublishType ==
    ASSUME TypeOK, NEW d \in Delivery, Publish(d)
    PROVE  queue' \subseteq Message /\ tasks' \in [Delivery -> Nat]
  BY RetryAssumption DEF TypeOK, Publish, Message

LEMMA RecordedType ==
    ASSUME NEW r \in Row, NEW seen \in Row, NEW status \in {"success", "failed"}
    PROVE  /\ Recorded(r, seen, status) \in Row
           /\ r.status # "none" => Recorded(r, seen, status).status # "none"
  BY DEF Recorded, Row

\* Each kind of value a step stores.
LEMMA IdleTypes == IdleWorker \in Working /\ IdleSweeper \in Sweeping
  BY DEF IdleWorker, Working, NoMessage, NoRow, Row, IdleSweeper, Sweeping

LEMMA RetryType ==
    ASSUME NEW m \in Message, m.retries < MaxRetries
    PROVE  [m EXCEPT !.retries = @ + 1] \in Message
  BY RetryAssumption DEF Message

-----------------------------------------------------------------------------
(* Types.                                                                  *)

LEMMA TypeStep == Inv /\ [Next]_vars => TypeOK'
<1> SUFFICES ASSUME Inv, [Next]_vars PROVE TypeOK'
  OBVIOUS
<1> USE IdleTypes DEF Inv
<1>1. ASSUME NEW d \in Delivery, Dispatch(d) PROVE TypeOK'
  BY <1>1, PublishType DEF TypeOK, Dispatch
<1>2. ASSUME NEW d \in Delivery, CommitDispatch(d) PROVE TypeOK'
  BY <1>2 DEF TypeOK, CommitDispatch, Row
<1>3. ASSUME NEW d \in Delivery, AbortDispatch(d) \/ DispatchUnpublished(d)
      PROVE  TypeOK'
  BY <1>3 DEF TypeOK, AbortDispatch, DispatchUnpublished
<1>4. CASE DeleteSubscription
  BY <1>4 DEF TypeOK, DeleteSubscription, Row
<1>5. ASSUME NEW w \in Worker, NEW m \in queue, Lookup(w, m) PROVE TypeOK'
  <2>1. m \in Message /\ m.delivery \in Delivery
    BY DEF TypeOK, Message
  <2>2. row[m.delivery] \in Row
    BY <2>1 DEF TypeOK
  <2>3. [pc |-> "loaded", msg |-> m, seen |-> row[m.delivery]] \in Working
    BY <2>1, <2>2 DEF Working
  <2>4. worker' \in [Worker -> Working]
    BY <1>5, <2>3 DEF TypeOK, Lookup
  <2>5. m.retries < LookupRetries => [m EXCEPT !.retries = @ + 1] \in Message
    BY <2>1, RetryType, RetryAssumption DEF Message
  <2>6. queue' \subseteq Message
    BY <1>5, <2>5 DEF TypeOK, Lookup
  <2> QED
    BY <1>5, <2>4, <2>6 DEF TypeOK, Lookup
<1>6. ASSUME NEW w \in Worker, Post(w) PROVE TypeOK'
  <2>1. worker[w] \in Working
    BY DEF TypeOK
  <2>2. \A a \in {"ok", "bad"} : [worker[w] EXCEPT !.pc = a] \in Working
    BY <2>1 DEF Working
  <2>3. PICK a \in {"ok", "bad"} : worker' = [worker EXCEPT ![w].pc = a]
    BY <1>6 DEF Post
  <2>4. worker' \in [Worker -> Working]
    BY <2>2, <2>3 DEF TypeOK
  <2>5. posts' \in [Delivery -> Nat]
    <3>1. posts' = [posts EXCEPT ![worker[w].msg.delivery] = @ + 1]
      BY <1>6 DEF Post
    <3>2. posts \in [Delivery -> Nat]
      BY DEF TypeOK
    <3>3. worker[w].msg.delivery \in Delivery
      BY <1>6 DEF Post, RowsInv, Message
    <3> HIDE DEF Inv
    <3> QED
      BY <3>1, <3>2, <3>3
  <2> QED
    BY <1>6, <2>4, <2>5 DEF TypeOK, Post
<1>7. ASSUME NEW w \in Worker, Retry(w) PROVE TypeOK'
  <2>1. worker[w].msg \in Message
    BY <1>7 DEF Retry, RowsInv
  <2>2. queue' \subseteq Message
    BY <1>7, <2>1, RetryType DEF TypeOK, Retry
  <2> QED
    BY <1>7, <2>2 DEF TypeOK, Retry
<1>8. ASSUME NEW w \in Worker, Record(w) PROVE TypeOK'
  <2> DEFINE d == worker[w].msg.delivery
             status == IF worker[w].pc = "ok" THEN "success" ELSE "failed"
  <2>1. d \in Delivery /\ worker[w].seen \in Row
    BY <1>8 DEF Record, RowsInv, TypeOK, Working, Message
  <2>2. Recorded(row[d], worker[w].seen, status) \in Row
    BY <2>1, RecordedType DEF TypeOK
  <2>3. row' \in [Delivery -> Row]
    BY <1>8, <2>2 DEF TypeOK, Record
  <2> QED
    BY <1>8, <2>3 DEF TypeOK, Record
<1>9. ASSUME NEW w \in Worker, Crash(w) PROVE TypeOK'
  BY <1>9, FaultsAssumption DEF TypeOK, Crash
<1>10. ASSUME NEW v \in Sweeper, SweepSelect(v) PROVE TypeOK'
  <2>1. sweeper[v] \in Sweeping
    BY DEF TypeOK
  <2>2. sweeper' \in [Sweeper -> Sweeping]
    BY <1>10, <2>1 DEF TypeOK, SweepSelect, Sweeping
  <2> QED
    BY <1>10, <2>2 DEF TypeOK, SweepSelect
<1>11. ASSUME NEW v \in Sweeper, SweepClaim(v) PROVE TypeOK'
  <2>1. sweeper[v] \in Sweeping
    BY DEF TypeOK
  <2>2. sweeper' \in [Sweeper -> Sweeping]
    BY <1>11, <2>1 DEF TypeOK, SweepClaim, Sweeping
  <2> QED
    BY <1>11, <2>2 DEF TypeOK, SweepClaim
<1>12. ASSUME NEW v \in Sweeper, NEW d \in Delivery, SweepPublish(v, d) PROVE TypeOK'
  <2>1. sweeper[v] \in Sweeping
    BY DEF TypeOK
  <2>2. sweeper' \in [Sweeper -> Sweeping]
    BY <1>12, <2>1 DEF TypeOK, SweepPublish, Sweeping
  <2> QED
    BY <1>12, <2>2, PublishType DEF TypeOK, SweepPublish
<1>13. ASSUME NEW v \in Sweeper, SweepCommit(v) PROVE TypeOK'
  BY <1>13 DEF TypeOK, SweepCommit, Row
<1>14. ASSUME NEW v \in Sweeper, SweepAbort(v) PROVE TypeOK'
  BY <1>14, FaultsAssumption DEF TypeOK, SweepAbort
<1>15. CASE CreateSubscription \/ UpdateSubscription
  BY <1>15 DEF TypeOK, CreateSubscription, UpdateSubscription
<1>16. CASE UNCHANGED vars
  BY <1>16 DEF TypeOK, vars
<1> QED
  BY <1>1, <1>2, <1>3, <1>4, <1>5, <1>6, <1>7, <1>8, <1>9, <1>10, <1>11, <1>12,
     <1>13, <1>14, <1>15, <1>16 DEF Next, Finish, Sweep

-----------------------------------------------------------------------------
(* Committed rows.                                                         *)

\* A committed row stays one: deleted, it is "gone".
LEMMA RowsStay ==
    ASSUME Inv, [Next]_vars, NEW d \in Delivery, row[d].status # "none"
    PROVE  row'[d].status # "none"
<1> USE DEF Inv
<1>1. ASSUME NEW e \in Delivery, CommitDispatch(e) PROVE row'[d].status # "none"
  BY <1>1 DEF TypeOK, CommitDispatch
<1>2. CASE DeleteSubscription
  BY <1>2 DEF TypeOK, DeleteSubscription, Row
<1>3. ASSUME NEW w \in Worker, Record(w) PROVE row'[d].status # "none"
  <2> DEFINE e == worker[w].msg.delivery
             status == IF worker[w].pc = "ok" THEN "success" ELSE "failed"
  <2>1. e \in Delivery /\ worker[w].seen \in Row
    BY <1>3 DEF Record, RowsInv, TypeOK, Working, Message
  <2>2. Exists(e) => Recorded(row[e], worker[w].seen, status).status # "none"
    BY <2>1, RecordedType DEF TypeOK, Exists
  <2> QED
    BY <1>3, <2>1, <2>2 DEF TypeOK, Record
<1>4. ASSUME NEW v \in Sweeper, SweepCommit(v) PROVE row'[d].status # "none"
  BY <1>4 DEF TypeOK, SweepCommit, Row
<1>5. row' = row => row'[d].status # "none"
  OBVIOUS
<1> QED
  BY <1>1, <1>2, <1>3, <1>4, <1>5
  DEF Next, Finish, Sweep, vars,
      Dispatch, DispatchUnpublished, AbortDispatch, CreateSubscription,
      UpdateSubscription, Lookup,
      Post, Retry, Crash, SweepSelect, SweepClaim, SweepPublish, SweepAbort

LEMMA RowsStep == Inv /\ [Next]_vars => RowsInv'
<1> SUFFICES ASSUME Inv, [Next]_vars PROVE RowsInv'
  OBVIOUS
<1> USE DEF Inv
<1>w. ASSUME NEW w \in Worker, worker'[w].pc # "idle"
      PROVE  /\ worker'[w].msg \in Message
             /\ row'[worker'[w].msg.delivery].status # "none"
  <2>1. CASE worker[w].pc # "idle" /\ worker'[w].msg = worker[w].msg
    BY <2>1, RowsStay DEF RowsInv, Message
  <2>2. ASSUME NEW x \in Worker, NEW m \in queue, Lookup(x, m),
               worker'[w] # worker[w]
        PROVE  worker'[w].msg = m /\ Exists(m.delivery)
    BY <2>2 DEF Lookup, TypeOK
  <2>3. ASSUME NEW x \in Worker, NEW m \in queue, Lookup(x, m),
               worker'[w] # worker[w]
        PROVE  /\ worker'[w].msg \in Message
               /\ row'[worker'[w].msg.delivery].status # "none"
    BY <2>2, <2>3, RowsStay DEF Exists, TypeOK, Message
  <2>4. ASSUME NEW x \in Worker, Post(x), worker'[w] # worker[w]
        PROVE  worker[w].pc # "idle" /\ worker'[w].msg = worker[w].msg
    <3>1. worker[x] \in Working
      BY DEF TypeOK
    <3> QED
      BY <2>4, <3>1 DEF Post, TypeOK, Working
  <2>5. ASSUME NEW x \in Worker, Retry(x) \/ Record(x) \/ Crash(x)
        PROVE  worker'[w] = worker[w]
    BY <1>w, <2>5 DEF Retry, Record, Crash, TypeOK, IdleWorker
  <2>6. CASE worker'[w] = worker[w]
    BY <1>w, <2>1, <2>6
  <2>7. CASE worker' = worker
    BY <2>6, <2>7
  <2> QED
    BY <2>1, <2>3, <2>4, <2>5, <2>6, <2>7
    DEF Next, Finish, Sweep, vars,
        Dispatch, DispatchUnpublished, CommitDispatch, AbortDispatch,
        CreateSubscription, UpdateSubscription, DeleteSubscription, SweepSelect,
        SweepClaim, SweepPublish,
        SweepCommit, SweepAbort
<1>v. ASSUME NEW v \in Sweeper, NEW d \in Delivery,
             d \in sweeper'[v].found \cup sweeper'[v].claimed
      PROVE  row'[d].status # "none"
  <2>1. CASE d \in sweeper[v].found \cup sweeper[v].claimed
    BY <2>1, RowsStay DEF RowsInv
  <2>2. ASSUME NEW x \in Sweeper, SweepSelect(x) PROVE row[d].status # "none"
    <3>1. sweeper[x] \in Sweeping
      BY DEF TypeOK
    <3>2. d \in sweeper[v].found \cup sweeper[v].claimed \/ Claimable(d)
      BY <1>v, <2>2, <3>1 DEF SweepSelect, TypeOK, Sweeping
    <3> QED
      BY <3>2 DEF Claimable, RowsInv
  <2>3. ASSUME NEW x \in Sweeper, SweepClaim(x) PROVE row[d].status # "none"
    <3>1. sweeper[x] \in Sweeping
      BY DEF TypeOK
    <3>2. d \in sweeper[v].found \cup sweeper[v].claimed
      BY <1>v, <2>3, <3>1 DEF SweepClaim, TypeOK, Sweeping
    <3> QED
      BY <3>2 DEF RowsInv
  <2>4. ASSUME NEW x \in Sweeper, NEW e \in Delivery, SweepPublish(x, e)
        PROVE  d \in sweeper[v].found \cup sweeper[v].claimed
    <3>1. sweeper[x] \in Sweeping
      BY DEF TypeOK
    <3> QED
      BY <1>v, <2>4, <3>1 DEF SweepPublish, TypeOK, Sweeping
  <2>5. ASSUME NEW x \in Sweeper, SweepCommit(x) \/ SweepAbort(x)
        PROVE  d \in sweeper[v].found \cup sweeper[v].claimed
    BY <1>v, <2>5 DEF SweepCommit, SweepAbort, TypeOK, IdleSweeper
  <2>6. sweeper' = sweeper => d \in sweeper[v].found \cup sweeper[v].claimed
    BY <1>v
  <2> QED
    BY <2>1, <2>2, <2>3, <2>4, <2>5, <2>6, RowsStay
    DEF Next, Finish, Sweep, vars,
        Dispatch, DispatchUnpublished, CommitDispatch, AbortDispatch,
        CreateSubscription, UpdateSubscription, DeleteSubscription, Lookup, Post, Retry,
        Record, Crash
<1> QED
  BY <1>w, <1>v DEF RowsInv

LEMMA PostsStep == Inv /\ [Next]_vars => NoPhantomPost'
<1> SUFFICES ASSUME Inv, [Next]_vars, NEW d \in Delivery, posts'[d] > 0
             PROVE  row'[d].status # "none"
  BY DEF NoPhantomPost
<1> USE DEF Inv
<1>1. ASSUME NEW w \in Worker, Post(w) PROVE row[d].status # "none"
  BY <1>1 DEF Post, RowsInv, NoPhantomPost, TypeOK
<1>2. posts' = posts => row[d].status # "none"
  BY DEF NoPhantomPost
<1> QED
  BY <1>1, <1>2, RowsStay
  DEF Next, Finish, Sweep, vars,
      Dispatch, DispatchUnpublished, CommitDispatch, AbortDispatch,
      CreateSubscription, UpdateSubscription, DeleteSubscription, Lookup, Retry, Record,
      Crash,
      SweepSelect, SweepClaim, SweepPublish, SweepCommit, SweepAbort

\* Spec keeps its values of their kind and every row that was ever worked with.
THEOREM WebhookInvariance == Spec => []Inv
<1>1. Inv /\ [Next]_vars => Inv'
  BY TypeStep, RowsStep, PostsStep DEF Inv
<1> QED
  BY InitInv, <1>1, PTL DEF Spec

\* Type correctness of webhook deliveries.
THEOREM WebhookTypeCorrect == Spec => []TypeOK
  BY WebhookInvariance, PTL DEF Inv

\* Nothing is sent for an event whose transaction did not commit, however the
\* task, the commit, a rollback, a sweep and a crash are ordered.
THEOREM NothingSentUncommitted == Spec => []NoPhantomPost
  BY WebhookInvariance, PTL DEF Inv

-----------------------------------------------------------------------------
(***************************************************************************)
(* One task at a time, while sweeps neither overlap nor fail half-way.     *)
(* The task of a row is published by its writer or by a sweep, and each    *)
(* does it only when there is none: a row is "failed" or "success" only    *)
(* once its task has ended, and a claimed row stays "failed" until the     *)
(* sweep that claimed it commits.                                          *)
(***************************************************************************)
SerialSweeps == MaxAborts = 0 /\ \A u, v \in Sweeper : u = v

Quiet(d) == Queued(d) = {} /\ \A w \in Worker : ~Busy(w, d)

\* A sweep has published its task already.
Republished(d) == \E v \in Sweeper : d \in sweeper[v].claimed \ sweeper[v].todo

TasksOK(d) ==
    /\ Single(d)
    /\ writer[d] = "new" => Quiet(d)
    /\ row[d].status = "success" => Quiet(d)
    /\ row[d].status = "failed" /\ ~Republished(d) => Quiet(d)

StatusOK(d) ==
    /\ writer[d] \in {"new", "open"} => row[d].status = "none"
    /\ \A v \in Sweeper :
         /\ d \in sweeper[v].found => row[d].status \in {"failed", "gone"}
         /\ d \in sweeper[v].claimed => row[d].status = "failed"

SweepOK(v) ==
    /\ sweeper[v].todo \subseteq sweeper[v].claimed
    /\ sweeper[v].pc = "idle" => sweeper[v] = IdleSweeper
    /\ sweeper[v].pc = "claim" => sweeper[v].claimed = {} /\ sweeper[v].todo = {}
    /\ sweeper[v].pc = "publish" => sweeper[v].found = {}

SerialInv == /\ Inv
             /\ \A d \in Delivery : TasksOK(d) /\ StatusOK(d)
             /\ \A v \in Sweeper : SweepOK(v)

\* Tasks of d are where they were.
Untouched(d) == /\ Queued(d)' = Queued(d)
                /\ \A w \in Worker : Busy(w, d)' <=> Busy(w, d)

LEMMA UntouchedKeeps ==
    ASSUME NEW d \in Delivery, Untouched(d)
    PROVE  (Single(d)' <=> Single(d)) /\ (Quiet(d)' <=> Quiet(d))
  BY DEF Untouched, Single, Quiet

LEMMA QuietIsSingle ==
    ASSUME NEW d \in Delivery
    PROVE  (Quiet(d) => Single(d)) /\ (Quiet(d)' => Single(d)')
  BY DEF Single, Quiet

\* A task is published for a delivery that has none.
LEMMA PublishSingle ==
    ASSUME Inv, NEW d \in Delivery, NEW e \in Delivery, Publish(e), UNCHANGED worker,
           e = d => Quiet(d), Single(d)
    PROVE  Single(d)' /\ (e # d => Untouched(d))
<1> DEFINE m == [delivery |-> e, task |-> tasks[e] + 1, retries |-> 0]
<1>1. queue' = queue \cup {m} /\ m.delivery = e
  BY DEF Publish
<1> HIDE DEF m
<1>2. CASE e # d
  <2>1. Untouched(d)
    BY <1>1, <1>2 DEF Untouched, Queued, Busy
  <2> QED
    BY <1>2, <2>1, UntouchedKeeps
<1>3. CASE e = d
  <2>1. Queued(d)' = {m} /\ \A w \in Worker : ~Busy(w, d)'
    BY <1>1, <1>3 DEF Quiet, Queued, Busy
  <2> QED
    BY <1>3, <2>1 DEF Single
<1> QED
  BY <1>2, <1>3

\* What a worker does with its only task, or with the task of another delivery.
LEMMA LookupTasks ==
    ASSUME Inv, NEW d \in Delivery, NEW w \in Worker, NEW m \in queue, Lookup(w, m),
           Single(d)
    PROVE  Single(d)' /\ (Untouched(d) \/ ~Quiet(d))
<1>0. m \in Message /\ worker \in [Worker -> Working]
  BY DEF Inv, TypeOK
<1>1. CASE m.delivery # d
  <2> DEFINE n == [m EXCEPT !.retries = @ + 1]
  <2>1. n.delivery = m.delivery
    BY <1>0 DEF Message
  <2>2. queue' = queue \ {m} \/ queue' = (queue \ {m}) \cup {n}
    BY DEF Lookup
  <2> HIDE DEF n
  <2>3. Queued(d)' = Queued(d)
    BY <1>1, <2>1, <2>2 DEF Queued
  <2>4. \A x \in Worker : Busy(x, d)' <=> Busy(x, d)
    BY <1>0, <1>1 DEF Lookup, Busy
  <2> QED
    BY <2>3, <2>4, UntouchedKeeps DEF Untouched
<1>2. CASE m.delivery = d
  <2>1. Queued(d) = {m} /\ \A x \in Worker : ~Busy(x, d)
    BY <1>2 DEF Single, Queued
  <2>2. CASE Exists(d)
    <3>1. Queued(d)' = {}
      BY <1>2, <2>1, <2>2 DEF Lookup, Queued
    <3>2. \A x \in Worker : Busy(x, d)' => x = w
      BY <1>0, <2>1, <1>2, <2>2 DEF Lookup, Busy
    <3> QED
      BY <2>1, <3>1, <3>2 DEF Single, Quiet
  <2>3. CASE ~Exists(d)
    <3>1. \A x \in Worker : ~Busy(x, d)'
      BY <1>2, <2>1, <2>3 DEF Lookup, Busy
    <3>2. \A a, b \in Queued(d)' : a = b
      BY <1>2, <2>1, <2>3 DEF Lookup, Queued
    <3> QED
      BY <2>1, <3>1, <3>2 DEF Single, Quiet
  <2> QED
    BY <2>2, <2>3
<1> QED
  BY <1>1, <1>2

LEMMA PostTasks ==
    ASSUME Inv, NEW d \in Delivery, NEW w \in Worker, Post(w)
    PROVE  Untouched(d) /\ Busy(w, worker[w].msg.delivery)
<1>0. worker \in [Worker -> Working] /\ worker[w] \in Working
  BY DEF Inv, TypeOK
<1>1. PICK a \in {"ok", "bad"} : worker' = [worker EXCEPT ![w].pc = a]
  BY DEF Post
<1>2. \A x \in Worker : Busy(x, d)' <=> Busy(x, d)
  BY <1>0, <1>1 DEF Post, Busy, Working
<1> QED
  BY <1>2 DEF Untouched, Queued, Post, Busy

LEMMA RetryTasks ==
    ASSUME Inv, NEW d \in Delivery, NEW w \in Worker, Retry(w), Single(d)
    PROVE  Single(d)' /\ (Untouched(d) \/ ~Quiet(d))
<1> DEFINE m == worker[w].msg
           n == [m EXCEPT !.retries = @ + 1]
<1>0. m \in Message /\ worker \in [Worker -> Working] /\ Busy(w, m.delivery)
  BY DEF Inv, TypeOK, RowsInv, Retry, Busy
<1>1. n.delivery = m.delivery
  BY <1>0 DEF Message
<1>2. /\ queue' = queue \/ queue' = queue \cup {n}
      /\ worker' = [worker EXCEPT ![w] = IdleWorker]
  BY DEF Retry
<1>3. \A x \in Worker : Busy(x, d)' <=> Busy(x, d) /\ x # w
  BY <1>0, <1>2 DEF Busy, IdleWorker
<1> HIDE DEF n
<1>4. CASE m.delivery # d
  <2>1. ~Busy(w, d)
    BY <1>4 DEF Busy
  <2>2. Queued(d)' = Queued(d)
    BY <1>1, <1>2, <1>4 DEF Queued
  <2> QED
    BY <1>3, <2>1, <2>2, UntouchedKeeps DEF Untouched
<1>5. CASE m.delivery = d
  <2>1. Busy(w, d)
    BY <1>0, <1>5
  <2>2. Queued(d) = {} /\ \A x \in Worker : Busy(x, d) => x = w
    BY <2>1 DEF Single
  <2>3. \A a, b \in Queued(d)' : a = b
    BY <1>2, <2>2 DEF Queued
  <2>4. \A x \in Worker : ~Busy(x, d)'
    BY <1>3, <2>2
  <2> QED
    BY <2>1, <2>3, <2>4 DEF Single, Quiet
<1> QED
  BY <1>4, <1>5

\* A worker ends with its task, and no other is left.
LEMMA EndTasks ==
    ASSUME Inv, NEW d \in Delivery, NEW w \in Worker, worker[w].pc # "idle",
           worker' = [worker EXCEPT ![w] = IdleWorker], UNCHANGED queue, Single(d)
    PROVE  /\ Single(d)'
           /\ worker[w].msg.delivery # d => Untouched(d)
           /\ worker[w].msg.delivery = d => Busy(w, d) /\ Quiet(d)'
<1>0. worker \in [Worker -> Working]
  BY DEF Inv, TypeOK
<1>1. \A x \in Worker : Busy(x, d)' <=> Busy(x, d) /\ x # w
  BY <1>0 DEF Busy, IdleWorker
<1>2. Queued(d)' = Queued(d)
  BY DEF Queued
<1>3. CASE worker[w].msg.delivery # d
  <2>1. ~Busy(w, d)
    BY <1>3 DEF Busy
  <2>2. Untouched(d)
    BY <1>1, <1>2, <2>1 DEF Untouched
  <2> QED
    BY <1>3, <2>2, UntouchedKeeps
<1>4. CASE worker[w].msg.delivery = d
  <2>1. Busy(w, d)
    BY <1>4 DEF Busy
  <2>2. Quiet(d)'
    BY <1>1, <1>2, <2>1 DEF Quiet, Single
  <2> QED
    BY <1>4, <2>1, <2>2, QuietIsSingle
<1> QED
  BY <1>3, <1>4

-----------------------------------------------------------------------------
(* Each step keeps SerialInv.                                              *)

LEMMA SerialInit == Init => SerialInv
<1> SUFFICES ASSUME Init PROVE SerialInv
  OBVIOUS
<1>1. Inv
  BY InitInv
<1>2. ASSUME NEW d \in Delivery PROVE Quiet(d) /\ row[d].status = "none"
  BY DEF Init, Quiet, Queued, Busy, NoRow, IdleWorker
<1>3. ASSUME NEW v \in Sweeper PROVE sweeper[v] = IdleSweeper /\ SweepOK(v)
  BY DEF Init, SweepOK, IdleSweeper
<1>4. ASSUME NEW d \in Delivery PROVE TasksOK(d) /\ StatusOK(d)
  BY <1>2, <1>3, QuietIsSingle DEF TasksOK, StatusOK, IdleSweeper
<1> QED
  BY <1>1, <1>3, <1>4 DEF SerialInv

\* The row, its writer and the sweeps stay as they are.
LEMMA SameRow ==
    ASSUME NEW d \in Delivery, TasksOK(d), StatusOK(d), Single(d)',
           Untouched(d) \/ ~Quiet(d) \/ Quiet(d)',
           row'[d] = row[d], writer'[d] = writer[d], UNCHANGED sweeper
    PROVE  TasksOK(d)' /\ StatusOK(d)'
<1>1. Quiet(d) => Quiet(d)'
  BY UntouchedKeeps
<1>2. Republished(d)' <=> Republished(d)
  BY DEF Republished
<1> QED
  BY <1>1, <1>2 DEF TasksOK, StatusOK

LEMMA SweepsStep ==
    ASSUME SerialInv, [Next]_vars, NEW v \in Sweeper
    PROVE  SweepOK(v)'
<1>0. sweeper \in [Sweeper -> Sweeping] /\ sweeper[v] \in Sweeping
  BY DEF SerialInv, Inv, TypeOK
<1>1. ASSUME NEW u \in Sweeper, SweepSelect(u) PROVE SweepOK(v)'
  <2>1. SweepOK(v) /\ SweepOK(u) /\ sweeper[u] \in Sweeping
    BY <1>0 DEF SerialInv
  <2>2. sweeper'[u].pc = "claim" /\ sweeper'[u].claimed = {} /\ sweeper'[u].todo = {}
    BY <1>0, <1>1, <2>1 DEF SweepSelect, SweepOK, IdleSweeper, Sweeping
  <2>3. v # u => sweeper'[v] = sweeper[v]
    BY <1>0, <1>1 DEF SweepSelect
  <2> QED
    BY <2>1, <2>2, <2>3 DEF SweepOK
<1>2. ASSUME NEW u \in Sweeper, SweepClaim(u) PROVE SweepOK(v)'
  <2>1. SweepOK(v) /\ sweeper[u] \in Sweeping
    BY <1>0 DEF SerialInv
  <2>2. /\ sweeper'[u].pc = "publish" /\ sweeper'[u].found = {}
        /\ sweeper'[u].todo = sweeper'[u].claimed
    BY <1>0, <1>2, <2>1 DEF SweepClaim, Sweeping
  <2>3. v # u => sweeper'[v] = sweeper[v]
    BY <1>0, <1>2 DEF SweepClaim
  <2> QED
    BY <2>1, <2>2, <2>3 DEF SweepOK
<1>3. ASSUME NEW u \in Sweeper, NEW d \in Delivery, SweepPublish(u, d)
      PROVE  SweepOK(v)'
  <2>1. SweepOK(v) /\ SweepOK(u) /\ sweeper[u] \in Sweeping
    BY <1>0 DEF SerialInv
  <2>2. /\ sweeper'[u].pc = "publish" /\ sweeper'[u].found = {}
        /\ sweeper'[u].todo \subseteq sweeper'[u].claimed
    BY <1>0, <1>3, <2>1 DEF SweepPublish, SweepOK, Sweeping
  <2>3. v # u => sweeper'[v] = sweeper[v]
    BY <1>0, <1>3 DEF SweepPublish
  <2> QED
    BY <2>1, <2>2, <2>3 DEF SweepOK
<1>4. ASSUME NEW u \in Sweeper, SweepCommit(u) \/ SweepAbort(u) PROVE SweepOK(v)'
  <2>1. SweepOK(v)
    BY DEF SerialInv
  <2>2. v # u => sweeper'[v] = sweeper[v]
    BY <1>0, <1>4 DEF SweepCommit, SweepAbort
  <2>3. sweeper'[u] = IdleSweeper
    BY <1>0, <1>4 DEF SweepCommit, SweepAbort
  <2> QED
    BY <2>1, <2>2, <2>3 DEF SweepOK, IdleSweeper
<1>5. sweeper' = sweeper => SweepOK(v)'
  BY DEF SerialInv, SweepOK
<1> QED
  BY <1>1, <1>2, <1>3, <1>4, <1>5
  DEF Next, Finish, Sweep, vars,
      Dispatch, DispatchUnpublished, CommitDispatch, AbortDispatch,
      CreateSubscription, UpdateSubscription, DeleteSubscription, Lookup, Post, Retry,
      Record, Crash

LEMMA DeliveryStep ==
    ASSUME SerialInv, SerialSweeps, [Next]_vars, NEW d \in Delivery
    PROVE  TasksOK(d)' /\ StatusOK(d)'
<1>0. /\ Inv /\ TasksOK(d) /\ StatusOK(d) /\ Single(d)
      /\ row \in [Delivery -> Row] /\ sweeper \in [Sweeper -> Sweeping]
      /\ writer \in [Delivery -> {"new", "open", "ended"}]
  BY DEF SerialInv, Inv, TypeOK, TasksOK
<1>1. ASSUME NEW e \in Delivery, Dispatch(e) PROVE TasksOK(d)' /\ StatusOK(d)'
  <2>1. TasksOK(e)
    BY DEF SerialInv
  <2>2. Single(d)' /\ (e # d => Untouched(d))
    BY <1>0, <1>1, <2>1, PublishSingle DEF Dispatch, TasksOK
  <2>3. CASE e # d
    BY <1>0, <1>1, <2>2, <2>3, SameRow DEF Dispatch
  <2>4. CASE e = d
    BY <1>0, <1>1, <2>2, <2>4 DEF Dispatch, TasksOK, StatusOK
  <2> QED
    BY <2>3, <2>4
<1>2. ASSUME NEW e \in Delivery, CommitDispatch(e) PROVE TasksOK(d)' /\ StatusOK(d)'
  <2>1. Untouched(d) /\ Single(d)'
    BY <1>0, <1>2, UntouchedKeeps DEF CommitDispatch, Untouched, Queued, Busy
  <2>2. CASE e # d
    BY <1>0, <1>2, <2>1, <2>2, SameRow DEF CommitDispatch
  <2>3. CASE e = d
    <3>1. row'[d].status = "pending" /\ writer'[d] = "ended" /\ sweeper' = sweeper
      BY <1>0, <1>2, <2>3 DEF CommitDispatch
    <3>2. \A v \in Sweeper : d \notin sweeper[v].found /\ d \notin sweeper[v].claimed
      BY <1>0, <1>2, <2>3 DEF CommitDispatch, StatusOK
    <3> QED
      BY <2>1, <3>1, <3>2 DEF TasksOK, StatusOK
  <2> QED
    BY <2>2, <2>3
<1>3. ASSUME NEW e \in Delivery, AbortDispatch(e) \/ DispatchUnpublished(e)
      PROVE  TasksOK(d)' /\ StatusOK(d)'
  <2>0. /\ UNCHANGED <<row, queue, worker, sweeper, tasks, posts>>
        /\ \A x \in Delivery : x # e => writer'[x] = writer[x]
        /\ writer[e] # "ended" /\ writer'[e] # "new"
        /\ writer[e] # "new" => writer'[e] = "ended"
        /\ writer[e] = "new" => writer'[e] = "open"
    BY <1>0, <1>3 DEF AbortDispatch, DispatchUnpublished
  <2>1. Untouched(d) /\ Single(d)'
    BY <1>0, <2>0, UntouchedKeeps DEF Untouched, Queued, Busy
  <2>2. CASE e # d
    BY <1>0, <2>0, <2>1, <2>2, SameRow
  <2>3. CASE e = d
    BY <1>0, <2>0, <2>1, <2>3 DEF TasksOK, StatusOK
  <2> QED
    BY <2>2, <2>3
<1>4. ASSUME DeleteSubscription PROVE TasksOK(d)' /\ StatusOK(d)'
  <2>1. Untouched(d) /\ Single(d)' /\ writer' = writer /\ sweeper' = sweeper
    BY <1>0, <1>4, UntouchedKeeps DEF DeleteSubscription, Untouched, Queued, Busy
  <2>2. CASE ~Exists(d)
    <3>1. row'[d] = row[d]
      BY <1>4, <2>2 DEF DeleteSubscription
    <3> QED
      BY <1>0, <2>1, <3>1, SameRow
  <2>3. CASE Exists(d)
    <3>1. row'[d].status = "gone"
      BY <1>0, <1>4, <2>3 DEF DeleteSubscription, Row
    <3>2. writer[d] = "ended"
      BY <1>0, <2>3 DEF Exists, StatusOK
    <3>3. \A v \in Sweeper : d \notin sweeper[v].claimed
      BY <1>4 DEF DeleteSubscription, Claimed
    <3>4. TasksOK(d)'
      BY <2>1, <3>1, <3>2 DEF TasksOK
    <3>5. StatusOK(d)'
      BY <2>1, <3>1, <3>2, <3>3 DEF StatusOK
    <3> QED
      BY <3>4, <3>5
  <2> QED
    BY <2>2, <2>3
<1>5. ASSUME NEW w \in Worker, NEW m \in queue, Lookup(w, m)
      PROVE  TasksOK(d)' /\ StatusOK(d)'
  BY <1>0, <1>5, LookupTasks, SameRow DEF Lookup
<1>6. ASSUME NEW w \in Worker, Post(w) PROVE TasksOK(d)' /\ StatusOK(d)'
  BY <1>0, <1>6, PostTasks, UntouchedKeeps, SameRow DEF Post
<1>7. ASSUME NEW w \in Worker, Retry(w) PROVE TasksOK(d)' /\ StatusOK(d)'
  BY <1>0, <1>7, RetryTasks, SameRow DEF Retry
<1>8. ASSUME NEW w \in Worker, Record(w) PROVE TasksOK(d)' /\ StatusOK(d)'
  <2> DEFINE e == worker[w].msg.delivery
  <2>1. /\ Single(d)'
        /\ e # d => Untouched(d)
        /\ e = d => Busy(w, d) /\ Quiet(d)'
    BY <1>0, <1>8, EndTasks DEF Record
  <2>2. sweeper' = sweeper /\ writer' = writer
    BY <1>8 DEF Record
  <2>3. CASE e # d \/ ~Exists(d)
    <3>1. row'[d] = row[d]
      BY <1>0, <1>8, <2>3 DEF Record
    <3> QED
      BY <1>0, <2>1, <2>2, <2>3, <3>1, SameRow
  <2>4. CASE e = d /\ Exists(d)
    <3>1. writer[d] = "ended"
      BY <1>0, <2>4 DEF Exists, StatusOK
    <3>2. \A v \in Sweeper : d \notin sweeper[v].claimed
      BY <1>8, <2>4 DEF Record, Claimed
    <3>3. \A v \in Sweeper : d \notin sweeper[v].found
      <4>1. row[d].status # "failed"
        BY <1>0, <2>1, <2>4, <3>2 DEF TasksOK, Republished, Quiet
      <4> QED
        BY <1>0, <2>4, <4>1 DEF StatusOK, Exists
    <3> QED
      BY <2>1, <2>2, <2>4, <3>1, <3>2, <3>3 DEF TasksOK, StatusOK
  <2> QED
    BY <2>3, <2>4
<1>9. ASSUME NEW w \in Worker, Crash(w) PROVE TasksOK(d)' /\ StatusOK(d)'
  <2>1. /\ Single(d)'
        /\ Untouched(d) \/ Quiet(d)'
    BY <1>0, <1>9, EndTasks DEF Crash
  <2> QED
    BY <1>0, <1>9, <2>1, SameRow DEF Crash
<1>10. ASSUME NEW v \in Sweeper, SweepSelect(v) PROVE TasksOK(d)' /\ StatusOK(d)'
  <2>1. Untouched(d) /\ Single(d)' /\ row' = row /\ writer' = writer
    BY <1>0, <1>10, UntouchedKeeps DEF SweepSelect, Untouched, Queued, Busy
  <2>2. sweeper[v] \in Sweeping
    BY <1>0
  <2>3. \A u \in Sweeper : /\ sweeper'[u].claimed = sweeper[u].claimed
                           /\ sweeper'[u].todo = sweeper[u].todo
                           /\ d \in sweeper'[u].found =>
                                d \in sweeper[u].found \/ Claimable(d)
    BY <1>0, <1>10, <2>2 DEF SweepSelect, Sweeping
  <2>4. TasksOK(d)'
    BY <1>0, <2>1, <2>3, UntouchedKeeps DEF TasksOK, Republished
  <2>5. StatusOK(d)'
    BY <1>0, <2>1, <2>3 DEF StatusOK, Claimable
  <2> QED
    BY <2>4, <2>5
<1>11. ASSUME NEW v \in Sweeper, SweepClaim(v) PROVE TasksOK(d)' /\ StatusOK(d)'
  <2>1. Untouched(d) /\ Single(d)' /\ row' = row /\ writer' = writer
    BY <1>0, <1>11, UntouchedKeeps DEF SweepClaim, Untouched, Queued, Busy
  <2>2. sweeper[v] \in Sweeping /\ SweepOK(v)
    BY <1>0 DEF SerialInv
  <2>3. \A u \in Sweeper : u = v
    BY DEF SerialSweeps
  <2>4. /\ sweeper'[v].found = {} /\ sweeper'[v].todo = sweeper'[v].claimed
        /\ sweeper[v].claimed = {}
        /\ d \in sweeper'[v].claimed => d \in sweeper[v].found /\ Exists(d)
    BY <1>0, <1>11, <2>2 DEF SweepClaim, Sweeping, SweepOK
  <2>5. ~Republished(d)
    BY <2>3, <2>4 DEF Republished
  <2>6. TasksOK(d)'
    BY <1>0, <2>1, <2>5, UntouchedKeeps DEF TasksOK
  <2>7. StatusOK(d)'
    BY <1>0, <2>1, <2>3, <2>4 DEF StatusOK, Exists
  <2> QED
    BY <2>6, <2>7
<1>12. ASSUME NEW v \in Sweeper, NEW e \in Delivery, SweepPublish(v, e)
       PROVE  TasksOK(d)' /\ StatusOK(d)'
  <2>1. /\ sweeper[v] \in Sweeping /\ SweepOK(v) /\ TasksOK(e) /\ StatusOK(e)
        /\ \A u \in Sweeper : u = v
    BY <1>0 DEF SerialInv, SerialSweeps
  <2>2. Quiet(e)
    BY <1>12, <2>1 DEF SweepPublish, SweepOK, TasksOK, StatusOK, Republished
  <2>3. Single(d)' /\ (e # d => Untouched(d))
    BY <1>0, <1>12, <2>2, PublishSingle DEF SweepPublish
  <2>4. /\ sweeper'[v].claimed = sweeper[v].claimed
        /\ sweeper'[v].found = sweeper[v].found
        /\ sweeper'[v].todo = sweeper[v].todo \ {e}
        /\ row' = row /\ writer' = writer
    BY <1>0, <1>12, <2>1 DEF SweepPublish, Sweeping
  <2>5. StatusOK(d)'
    BY <1>0, <2>1, <2>4 DEF StatusOK
  <2>6. CASE e # d
    <3>1. Republished(d)' <=> Republished(d)
      BY <2>1, <2>4, <2>6 DEF Republished
    <3> QED
      BY <1>0, <2>3, <2>4, <2>5, <2>6, <3>1, UntouchedKeeps DEF TasksOK
  <2>7. CASE e = d
    <3>1. d \in sweeper[v].claimed /\ row[d].status = "failed" /\ writer[d] = "ended"
      BY <1>0, <1>12, <2>1, <2>7 DEF SweepPublish, SweepOK, StatusOK
    <3>2. Republished(d)'
      BY <2>4, <2>7, <3>1 DEF Republished
    <3> QED
      BY <2>3, <2>4, <2>5, <3>1, <3>2 DEF TasksOK
  <2> QED
    BY <2>6, <2>7
<1>13. ASSUME NEW v \in Sweeper, SweepCommit(v) PROVE TasksOK(d)' /\ StatusOK(d)'
  <2>1. Untouched(d) /\ Single(d)' /\ writer' = writer
    BY <1>0, <1>13, UntouchedKeeps DEF SweepCommit, Untouched, Queued, Busy
  <2>2. \A u \in Sweeper : u = v
    BY DEF SerialSweeps
  <2>3. sweeper'[v].found = {} /\ sweeper'[v].claimed = {}
    BY <1>0, <1>13 DEF SweepCommit, IdleSweeper
  <2>4. CASE d \in sweeper[v].claimed
    <3>1. row'[d].status = "retrying" /\ writer[d] = "ended"
      BY <1>0, <1>13, <2>4 DEF SweepCommit, StatusOK, Row
    <3> QED
      BY <2>1, <2>2, <2>3, <3>1 DEF TasksOK, StatusOK
  <2>5. CASE d \notin sweeper[v].claimed
    <3>1. row'[d] = row[d] /\ ~Republished(d)
      BY <1>13, <2>2, <2>5 DEF SweepCommit, Republished
    <3>2. TasksOK(d)'
      BY <1>0, <2>1, <3>1, UntouchedKeeps DEF TasksOK
    <3>3. StatusOK(d)'
      BY <1>0, <2>1, <2>2, <2>3, <3>1 DEF StatusOK
    <3> QED
      BY <3>2, <3>3
  <2> QED
    BY <2>4, <2>5
<1>14. ASSUME NEW v \in Sweeper, SweepAbort(v) PROVE FALSE
  BY <1>14 DEF SweepAbort, SerialSweeps, SerialInv, Inv, TypeOK
<1>15. ASSUME UNCHANGED vars PROVE TasksOK(d)' /\ StatusOK(d)'
  <2>1. Untouched(d) /\ Single(d)'
    BY <1>0, <1>15, UntouchedKeeps DEF vars, Untouched, Queued, Busy
  <2> QED
    BY <1>0, <1>15, <2>1, SameRow DEF vars
<1>16. ASSUME CreateSubscription \/ UpdateSubscription PROVE TasksOK(d)' /\ StatusOK(d)'
  <2>1. Untouched(d) /\ Single(d)'
    BY <1>0, <1>16, UntouchedKeeps DEF CreateSubscription, UpdateSubscription,
         Untouched, Queued, Busy
  <2> QED
    BY <1>0, <1>16, <2>1, SameRow DEF CreateSubscription, UpdateSubscription
<1> QED
  BY <1>1, <1>2, <1>3, <1>4, <1>5, <1>6, <1>7, <1>8, <1>9, <1>10, <1>11, <1>12,
     <1>13, <1>14, <1>15, <1>16 DEF Next, Finish, Sweep

LEMMA SerialStep ==
    ASSUME SerialSweeps, SerialInv, [Next]_vars
    PROVE  SerialInv'
<1>1. Inv'
  BY TypeStep, RowsStep, PostsStep DEF Inv, SerialInv
<1> QED
  BY <1>1, SweepsStep, DeliveryStep DEF SerialInv

\* While sweeps are serial, at most one task is under way for each delivery.
THEOREM OneTaskWhenSerial ==
    ASSUME SerialSweeps
    PROVE  Spec => []SingleTask
<1>1. SerialInv /\ [Next]_vars => SerialInv'
  BY SerialStep
<1>2. SerialInv => SingleTask
  BY DEF SerialInv, TasksOK, SingleTask
<1> QED
  BY SerialInit, <1>1, <1>2, PTL DEF Spec

\* While sweeps are serial, a recorded success is never overwritten, and nothing
\* is sent for it again.
THEOREM SuccessFinalWhenSerial ==
    ASSUME SerialSweeps
    PROVE  Spec => SuccessFinal
<1> DEFINE Final == \A d \in Delivery : row[d].status = "success" =>
                      row'[d].status \in {"success", "gone"} /\ posts'[d] = posts[d]
<1>1. SerialInv /\ [Next]_vars => SerialInv'
  BY SerialStep
<1>2. SerialInv /\ [Next]_vars => [Final]_vars
  <2> SUFFICES ASSUME SerialInv, [Next]_vars, NEW d \in Delivery,
                      row[d].status = "success"
               PROVE  row'[d].status \in {"success", "gone"} /\ posts'[d] = posts[d]
    OBVIOUS
  <2>0. /\ TasksOK(d) /\ StatusOK(d) /\ Quiet(d) /\ Inv
        /\ row \in [Delivery -> Row] /\ posts \in [Delivery -> Nat]
    BY DEF SerialInv, TasksOK, Inv, TypeOK
  <2>1. ASSUME NEW w \in Worker, worker[w].pc # "idle"
        PROVE  worker[w].msg.delivery # d
    BY <2>0, <2>1 DEF Quiet, Busy
  <2>2. ASSUME NEW w \in Worker, Post(w) \/ Record(w)
        PROVE  row'[d] = row[d] /\ posts'[d] = posts[d]
    BY <2>0, <2>1, <2>2 DEF Post, Record
  <2>3. ASSUME NEW e \in Delivery, CommitDispatch(e)
        PROVE  row'[d] = row[d] /\ posts'[d] = posts[d]
    BY <2>0, <2>3 DEF CommitDispatch, StatusOK
  <2>4. ASSUME DeleteSubscription
        PROVE  row'[d].status = "gone" /\ posts'[d] = posts[d]
    BY <2>0, <2>4 DEF DeleteSubscription, Exists, Row
  <2>5. ASSUME NEW v \in Sweeper, SweepCommit(v)
        PROVE  row'[d] = row[d] /\ posts'[d] = posts[d]
    BY <2>0, <2>5 DEF SweepCommit, StatusOK
  <2> QED
    BY <2>2, <2>3, <2>4, <2>5
    DEF Next, Finish, Sweep, vars,
        Dispatch, DispatchUnpublished, AbortDispatch, CreateSubscription,
        UpdateSubscription,
        Lookup, Retry, Crash, SweepSelect, SweepClaim, SweepPublish, SweepAbort
<1> QED
  BY SerialInit, <1>1, <1>2, PTL DEF Spec, SuccessFinal

-----------------------------------------------------------------------------
(***************************************************************************)
(* The limit of tasks, while sweeps neither overlap nor fail half-way. A   *)
(* failed row has counted an attempt for each of its tasks, unless a sweep *)
(* has just published one more for it; what a sweep has found or claimed   *)
(* had attempts left under some retry_count; and a worker holds the        *)
(* attempts of the row as they are.                                        *)
(***************************************************************************)
Spare(d) == \E n \in RetryCounts : row[d].attempts < n
Listed(d) == \E v \in Sweeper : d \in sweeper[v].found \cup sweeper[v].claimed

LimitOK(d) ==
    /\ tasks[d] <= row[d].attempts + 1
    /\ tasks[d] > 1 => \E n \in RetryCounts : tasks[d] <= n
    /\ row[d].status = "failed" /\ ~Republished(d) => tasks[d] <= row[d].attempts
    /\ writer[d] = "new" => tasks[d] = 0
    /\ row[d].status = "none" => row[d].attempts = 0
    /\ Listed(d) => Spare(d)
    /\ \A w \in Worker : Busy(w, d) => worker[w].seen.attempts = row[d].attempts

LimitInv == SerialInv /\ \A d \in Delivery : LimitOK(d)

LEMMA LimitInit == Init => LimitInv
<1> SUFFICES ASSUME Init PROVE LimitInv
  OBVIOUS
<1>1. ASSUME NEW d \in Delivery PROVE LimitOK(d)
  <2>1. tasks[d] = 0 /\ row[d].status = "none" /\ row[d].attempts = 0
    BY DEF Init, NoRow
  <2>2. ~Listed(d) /\ \A w \in Worker : ~Busy(w, d)
    BY DEF Init, Listed, Busy, IdleWorker, IdleSweeper
  <2> QED
    BY <2>1, <2>2 DEF LimitOK
<1> QED
  BY <1>1, SerialInit DEF LimitInv

\* Nobody who holds the row has come, and the sweeps stay.
LEMMA LimitKept ==
    ASSUME NEW d \in Delivery, LimitOK(d), row'[d] = row[d], tasks'[d] = tasks[d],
           writer'[d] = "new" => writer[d] = "new", UNCHANGED sweeper,
           \A w \in Worker : Busy(w, d)' =>
               worker'[w].seen.attempts = row[d].attempts
    PROVE  LimitOK(d)'
  BY DEF LimitOK, Listed, Spare, Republished

\* A step of no worker leaves them all busy with what they were.
LEMMA WorkersStay ==
    ASSUME NEW d \in Delivery, LimitOK(d), UNCHANGED worker
    PROVE  \A w \in Worker : Busy(w, d)' => worker'[w].seen.attempts = row[d].attempts
  BY DEF LimitOK, Busy

LEMMA WriterLimit ==
    ASSUME SerialInv, NEW d \in Delivery, LimitOK(d), NEW e \in Delivery,
           \/ Dispatch(e) \/ DispatchUnpublished(e)
           \/ CommitDispatch(e) \/ AbortDispatch(e)
    PROVE  LimitOK(d)'
<1>0. /\ StatusOK(d) /\ row \in [Delivery -> Row] /\ tasks \in [Delivery -> Nat]
      /\ writer \in [Delivery -> {"new", "open", "ended"}]
      /\ row[d].attempts \in Nat /\ tasks[d] \in Nat
      /\ \A w \in Worker : Busy(w, d) => row[d].status # "none"
  BY DEF SerialInv, Inv, TypeOK, RowsInv, Busy, Row
<1>1. UNCHANGED <<worker, sweeper>>
  BY DEF Dispatch, DispatchUnpublished, CommitDispatch, AbortDispatch
<1>2. \A w \in Worker : Busy(w, d)' => worker'[w].seen.attempts = row[d].attempts
  BY <1>1, WorkersStay
<1>3. CASE \/ DispatchUnpublished(e) \/ AbortDispatch(e)
           \/ e # d /\ (Dispatch(e) \/ CommitDispatch(e))
  <2>1. row'[d] = row[d] /\ tasks'[d] = tasks[d] /\ (writer'[d] = "new" => writer[d] = "new")
    BY <1>0, <1>3 DEF Dispatch, DispatchUnpublished, CommitDispatch, AbortDispatch, Publish
  <2> QED
    BY <1>1, <1>2, <2>1, LimitKept
<1>4. CASE e = d /\ Dispatch(e)
  <2>1. /\ row'[d] = row[d] /\ row[d].status = "none" /\ row[d].attempts = 0
        /\ tasks'[d] = 1 /\ writer'[d] = "open"
    BY <1>0, <1>4 DEF Dispatch, Publish, StatusOK, LimitOK
  <2> QED
    BY <1>1, <1>2, <2>1 DEF LimitOK, Listed, Spare
<1>5. CASE e = d /\ CommitDispatch(e)
  <2>1. /\ row'[d].status = "pending" /\ row'[d].attempts = 0
        /\ row[d].status = "none" /\ row[d].attempts = 0
        /\ tasks'[d] = tasks[d] /\ writer'[d] = "ended"
    BY <1>0, <1>5 DEF CommitDispatch, StatusOK, LimitOK
  <2> QED
    BY <1>0, <1>1, <1>2, <2>1 DEF LimitOK, Listed, Spare
<1> QED
  BY <1>3, <1>4, <1>5

LEMMA SubscriptionLimit ==
    ASSUME SerialInv, NEW d \in Delivery, LimitOK(d),
           CreateSubscription \/ UpdateSubscription \/ DeleteSubscription
    PROVE  LimitOK(d)'
<1>0. row[d] \in Row
  BY DEF SerialInv, Inv, TypeOK
<1>1. UNCHANGED <<worker, sweeper, tasks, writer>>
  BY DEF CreateSubscription, UpdateSubscription, DeleteSubscription
<1>2. \A w \in Worker : Busy(w, d)' => worker'[w].seen.attempts = row[d].attempts
  BY <1>1, WorkersStay
<1>3. row'[d] = row[d] \/ (row'[d].status = "gone" /\ row'[d].attempts = row[d].attempts)
  BY <1>0 DEF CreateSubscription, UpdateSubscription, DeleteSubscription, Row
<1>4. CASE row'[d] = row[d]
  BY <1>1, <1>2, <1>4, LimitKept
<1>5. CASE row'[d].status = "gone" /\ row'[d].attempts = row[d].attempts
  BY <1>1, <1>2, <1>5 DEF LimitOK, Listed, Spare
<1> QED
  BY <1>3, <1>4, <1>5

LEMMA WorkerLimit ==
    ASSUME SerialInv, NEW d \in Delivery, LimitOK(d), NEW w \in Worker,
           \/ \E m \in queue : Lookup(w, m)
           \/ Finish(w) \/ Crash(w)
    PROVE  LimitOK(d)'
<1>0. /\ TasksOK(d) /\ StatusOK(d) /\ Single(d) /\ Inv /\ worker[w] \in Working
      /\ row \in [Delivery -> Row] /\ worker \in [Worker -> Working]
      /\ row[d].attempts \in Nat /\ tasks[d] \in Nat
  BY DEF SerialInv, Inv, TypeOK, TasksOK, Row
<1>1. UNCHANGED <<sweeper, tasks, writer>>
  BY DEF Lookup, Finish, Post, Retry, Record, Crash
<1>2. ASSUME NEW m \in queue, Lookup(w, m) PROVE LimitOK(d)'
  <2>1. ASSUME NEW x \in Worker, Busy(x, d)'
        PROVE  worker'[x].seen.attempts = row[d].attempts
    <3>1. CASE x = w /\ Exists(m.delivery)
      <4>1. worker'[w] = [pc |-> "loaded", msg |-> m, seen |-> row[m.delivery]]
        BY <1>0, <1>2, <3>1 DEF Lookup
      <4> QED
        BY <2>1, <3>1, <4>1 DEF Busy
    <3>2. CASE ~(x = w /\ Exists(m.delivery))
      <4>1. worker'[x] = worker[x]
        BY <1>0, <1>2, <3>2 DEF Lookup
      <4> QED
        BY <2>1, <4>1 DEF Busy, LimitOK
    <3> QED
      BY <3>1, <3>2
  <2> QED
    BY <1>1, <1>2, <2>1, LimitKept DEF Lookup
<1>3. CASE Post(w) \/ Retry(w) \/ Crash(w)
  <2>1. PICK a \in {"ok", "bad"} :
          \/ worker' = [worker EXCEPT ![w].pc = a] /\ worker[w].pc = "loaded"
          \/ worker' = [worker EXCEPT ![w] = IdleWorker]
    BY <1>3 DEF Post, Retry, Crash
  <2>2. ASSUME NEW x \in Worker, Busy(x, d)'
        PROVE  worker'[x].seen.attempts = row[d].attempts
    <3>1. Busy(x, d) /\ worker'[x].seen = worker[x].seen
      BY <1>0, <2>1, <2>2 DEF Busy, Working, IdleWorker
    <3> QED
      BY <3>1 DEF LimitOK
  <2> QED
    BY <1>1, <1>3, <2>2, LimitKept DEF Post, Retry, Crash
<1>4. CASE Record(w)
  <2> DEFINE e == worker[w].msg.delivery
  <2>1. /\ worker[w].pc # "idle" /\ worker' = [worker EXCEPT ![w] = IdleWorker]
        /\ UNCHANGED queue
    BY <1>4 DEF Record
  <2>2. /\ e = d => Busy(w, d) /\ Quiet(d)'
    BY <1>0, <2>1, EndTasks
  <2>3. CASE e # d \/ ~Exists(d)
    <3>1. row'[d] = row[d]
      BY <1>0, <1>4, <2>3 DEF Record
    <3>2. ASSUME NEW x \in Worker, Busy(x, d)'
          PROVE  worker'[x].seen.attempts = row[d].attempts
      <4>1. worker'[x] = worker[x]
        BY <1>0, <2>1, <3>2 DEF Busy, IdleWorker
      <4> QED
        BY <3>2, <4>1 DEF Busy, LimitOK
    <3> QED
      BY <1>1, <3>1, <3>2, LimitKept
  <2>4. CASE e = d /\ Exists(d)
    <3>1. worker[w].seen.attempts = row[d].attempts
      BY <2>2, <2>4 DEF LimitOK
    <3>2. /\ row'[d].attempts = row[d].attempts + 1
          /\ row'[d].status # "none"
      BY <1>0, <1>4, <2>4, <3>1 DEF Record, Recorded, Exists
    <3>3. ~Listed(d)
      <4>1. \A v \in Sweeper : d \notin sweeper[v].claimed
        BY <1>4, <2>4 DEF Record, Claimed
      <4>2. row[d].status # "failed"
        BY <1>0, <2>2, <2>4, <4>1 DEF TasksOK, Republished, Quiet
      <4> QED
        BY <1>0, <2>4, <4>1, <4>2 DEF StatusOK, Exists, Listed
    <3>4. ~Listed(d)' /\ \A x \in Worker : ~Busy(x, d)'
      BY <1>1, <2>2, <2>4, <3>3 DEF Listed, Quiet
    <3> QED
      BY <1>0, <1>1, <3>2, <3>4 DEF LimitOK
  <2> QED
    BY <2>3, <2>4
<1> QED
  BY <1>2, <1>3, <1>4 DEF Finish

LEMMA SweepLimit ==
    ASSUME SerialInv, SerialSweeps, NEW d \in Delivery, LimitOK(d), NEW v \in Sweeper,
           Sweep(v)
    PROVE  LimitOK(d)'
<1>0. /\ StatusOK(d) /\ SweepOK(v) /\ sweeper[v] \in Sweeping
      /\ row \in [Delivery -> Row] /\ sweeper \in [Sweeper -> Sweeping]
      /\ row[d].attempts \in Nat /\ tasks \in [Delivery -> Nat] /\ tasks[d] \in Nat
      /\ settings.retry_count \in RetryCounts
      /\ \A n \in RetryCounts : n \in Nat
      /\ \A u \in Sweeper : u = v
  BY RetryAssumption DEF SerialInv, Inv, TypeOK, Row, SerialSweeps
<1>1. UNCHANGED <<worker, writer>>
  BY DEF Sweep, SweepSelect, SweepClaim, SweepCommit, SweepPublish
<1>2. \A w \in Worker : Busy(w, d)' => worker'[w].seen.attempts = row[d].attempts
  BY <1>1, WorkersStay
<1>3. CASE SweepSelect(v)
  <2>1. /\ row' = row /\ tasks' = tasks
        /\ sweeper'[v].claimed = sweeper[v].claimed /\ sweeper'[v].todo = sweeper[v].todo
        /\ d \in sweeper'[v].found => Claimable(d)
    BY <1>0, <1>3 DEF SweepSelect, Sweeping
  <2>2. (Republished(d)' <=> Republished(d)) /\ (Listed(d)' => Listed(d) \/ Claimable(d))
    BY <1>0, <2>1 DEF Republished, Listed
  <2>3. Claimable(d) => Spare(d)
    BY <1>0 DEF Claimable, Spare
  <2> QED
    BY <1>1, <1>2, <2>1, <2>2, <2>3 DEF LimitOK, Spare
<1>4. CASE SweepClaim(v)
  <2>1. /\ row' = row /\ tasks' = tasks /\ sweeper[v].claimed = {}
        /\ sweeper'[v].found = {} /\ sweeper'[v].todo = sweeper'[v].claimed
        /\ d \in sweeper'[v].claimed => d \in sweeper[v].found
    BY <1>0, <1>4 DEF SweepClaim, Sweeping, SweepOK
  <2>2. ~Republished(d) /\ (Listed(d)' => Listed(d))
    BY <1>0, <2>1 DEF Republished, Listed
  <2> QED
    BY <1>1, <1>2, <2>1, <2>2 DEF LimitOK, Spare
<1>5. ASSUME NEW e \in Delivery, SweepPublish(v, e) PROVE LimitOK(d)'
  <2>1. /\ row' = row /\ tasks' = [tasks EXCEPT ![e] = @ + 1]
        /\ e \in sweeper[v].todo
        /\ sweeper'[v].claimed = sweeper[v].claimed
        /\ sweeper'[v].found = sweeper[v].found
        /\ sweeper'[v].todo = sweeper[v].todo \ {e}
    BY <1>0, <1>5 DEF SweepPublish, Publish, Sweeping
  <2>2. Listed(d)' <=> Listed(d)
    BY <1>0, <2>1 DEF Listed
  <2>3. CASE e # d
    <3>1. tasks'[d] = tasks[d] /\ (Republished(d)' <=> Republished(d))
      BY <1>0, <2>1, <2>3 DEF Republished
    <3> QED
      BY <1>1, <1>2, <2>1, <2>2, <3>1 DEF LimitOK, Spare
  <2>4. CASE e = d
    <3>1. d \in sweeper[v].claimed /\ row[d].status = "failed" /\ writer[d] # "new"
      BY <1>0, <2>1, <2>4 DEF SweepOK, StatusOK
    <3>2. ~Republished(d) /\ Republished(d)' /\ Listed(d)
      BY <1>0, <2>1, <2>4, <3>1 DEF Republished, Listed
    <3>3. tasks'[d] = tasks[d] + 1 /\ tasks[d] <= row[d].attempts
      BY <1>0, <2>1, <2>4, <3>1, <3>2 DEF LimitOK
    <3>4. PICK n \in RetryCounts : row[d].attempts < n
      BY <3>2 DEF LimitOK, Spare
    <3>5. n \in Nat /\ tasks'[d] <= n /\ tasks'[d] <= row[d].attempts + 1
      BY <1>0, <3>3, <3>4
    <3> QED
      BY <1>1, <1>2, <2>1, <2>2, <3>1, <3>2, <3>5 DEF LimitOK, Spare
  <2> QED
    BY <2>3, <2>4
<1>6. CASE SweepCommit(v)
  <2>1. tasks' = tasks /\ sweeper'[v].found = {} /\ sweeper'[v].claimed = {}
    BY <1>0, <1>6 DEF SweepCommit, IdleSweeper
  <2>2. ~Listed(d)'
    BY <1>0, <2>1 DEF Listed
  <2>3. CASE d \in sweeper[v].claimed
    <3>1. row'[d].status = "retrying" /\ row'[d].attempts = row[d].attempts
      BY <1>0, <1>6, <2>3 DEF SweepCommit, Row
    <3> QED
      BY <1>1, <1>2, <2>1, <2>2, <3>1 DEF LimitOK
  <2>4. CASE d \notin sweeper[v].claimed
    <3>1. row'[d] = row[d] /\ ~Republished(d)
      BY <1>0, <1>6, <2>4 DEF SweepCommit, Republished
    <3> QED
      BY <1>1, <1>2, <2>1, <2>2, <3>1 DEF LimitOK
  <2> QED
    BY <2>3, <2>4
<1> QED
  BY <1>3, <1>4, <1>5, <1>6 DEF Sweep

LEMMA LimitStep ==
    ASSUME SerialSweeps, LimitInv, [Next]_vars
    PROVE  LimitInv'
<1>1. SerialInv /\ SerialInv'
  BY SerialStep DEF LimitInv
<1>2. ASSUME NEW d \in Delivery PROVE LimitOK(d)'
  <2>1. LimitOK(d)
    BY DEF LimitInv
  <2>2. CASE UNCHANGED vars
    <3>1. UNCHANGED <<row, tasks, writer, sweeper, worker>>
      BY <2>2 DEF vars
    <3> QED
      BY <2>1, <3>1, WorkersStay, LimitKept
  <2>3. ASSUME NEW v \in Sweeper, SweepAbort(v) PROVE FALSE
    BY <1>1, <2>3 DEF SweepAbort, SerialSweeps, SerialInv, Inv, TypeOK
  <2> QED
    BY <1>1, <2>1, <2>2, <2>3, WriterLimit, SubscriptionLimit, WorkerLimit, SweepLimit
       DEF Next
<1> QED
  BY <1>1, <1>2 DEF LimitInv

\* While sweeps are serial, a delivery is given at most retry_count tasks, or the
\* one it is born with, and each further one follows a counted attempt
\* (claim_deliveries_to_retry, _maybe_retry).
THEOREM TasksWithinRetryCount ==
    ASSUME SerialSweeps
    PROVE  Spec => []RetryLimit
<1>1. LimitInv /\ [Next]_vars => LimitInv'
  BY LimitStep
<1>2. LimitInv => RetryLimit
  BY DEF LimitInv, LimitOK, RetryLimit
<1> QED
  BY LimitInit, <1>1, <1>2, PTL DEF Spec
-----------------------------------------------------------------------------
(***************************************************************************)
(* The promise of Announcement, with any faults. A worker past its POST    *)
(* knows of fewer attempts than were made; a transaction that is open has  *)
(* no row yet; a claimed row is not deleted.                               *)
(***************************************************************************)
PostsKnown(w) == worker[w].seen.attempts + (IF worker[w].pc = "loaded" THEN 0 ELSE 1)

AttemptsInv ==
    /\ AttemptsBehind
    /\ \A w \in Worker : worker[w].pc # "idle" =>
         PostsKnown(w) <= posts[worker[w].msg.delivery]

HoldInv ==
    /\ \A d \in Delivery : writer[d] \in {"new", "open"} => row[d] = NoRow
    /\ \A v \in Sweeper : \A d \in sweeper[v].claimed : Exists(d)

PromiseInv == Inv /\ AttemptsInv /\ HoldInv

LEMMA PromiseInit == Init => PromiseInv
  BY InitInv
  DEF Init, PromiseInv, AttemptsInv, HoldInv, AttemptsBehind, NoRow, IdleWorker,
      IdleSweeper

\* What a worker is about to record.
LEMMA RecordedRow ==
    ASSUME PromiseInv, NEW w \in Worker, Record(w)
    PROVE  LET d == worker[w].msg.delivery IN
           /\ d \in Delivery
           /\ ~Exists(d) => row' = row
           /\ Exists(d) =>
                \E r \in Row : /\ row' = [row EXCEPT ![d] = r]
                              /\ r.status \notin {"none", "gone"}
                              /\ r.attempts \in 1 .. posts[d]
<1> DEFINE d == worker[w].msg.delivery
           status == IF worker[w].pc = "ok" THEN "success" ELSE "failed"
           r == Recorded(row[d], worker[w].seen, status)
<1>1. d \in Delivery /\ worker[w].seen \in Row /\ row[d] \in Row /\ posts[d] \in Nat
  BY DEF Record, PromiseInv, Inv, RowsInv, TypeOK, Working, Message
<1>2. worker[w].seen.attempts + 1 <= posts[d]
  BY DEF Record, PromiseInv, AttemptsInv, PostsKnown
<1>3. r \in Row /\ r.attempts = worker[w].seen.attempts + 1
  BY <1>1, RecordedType DEF Recorded
<1>4. r.attempts \in 1 .. posts[d]
  BY <1>1, <1>2, <1>3 DEF Row
<1>5. Exists(d) => r.status \notin {"none", "gone"}
  BY <1>1 DEF Exists, Recorded
<1>6. row' = IF Exists(d) THEN [row EXCEPT ![d] = r] ELSE row
  BY DEF Record
<1> HIDE DEF r, d
<1>7. Exists(d) => \E q \in Row : /\ row' = [row EXCEPT ![d] = q]
                                 /\ q.status \notin {"none", "gone"}
                                 /\ q.attempts \in 1 .. posts[d]
  BY <1>3, <1>4, <1>5, <1>6
<1> QED
  BY <1>1, <1>6, <1>7 DEF d

LEMMA AttemptsStep == PromiseInv /\ [Next]_vars => AttemptsInv'
<1> SUFFICES ASSUME PromiseInv, [Next]_vars PROVE AttemptsInv'
  OBVIOUS
<1>0. /\ Inv /\ TypeOK /\ AttemptsInv
      /\ row \in [Delivery -> Row] /\ posts \in [Delivery -> Nat]
      /\ worker \in [Worker -> Working] /\ sweeper \in [Sweeper -> Sweeping]
  BY DEF PromiseInv, Inv, TypeOK
\* POSTs are only ever added.
<1>p. /\ posts' \in [Delivery -> Nat]
      /\ \A d \in Delivery : posts[d] <= posts'[d]
  <2>1. ASSUME NEW w \in Worker, Post(w)
        PROVE  /\ posts' \in [Delivery -> Nat]
               /\ \A d \in Delivery : posts[d] <= posts'[d]
    <3> DEFINE e == worker[w].msg.delivery
    <3>1. e \in Delivery /\ posts' = [posts EXCEPT ![e] = @ + 1]
      BY <1>0, <2>1 DEF Post, Inv, RowsInv, Message
    <3> HIDE DEF e
    <3> QED
      BY <1>0, <3>1
  <2>2. posts' = posts => \A d \in Delivery : posts[d] <= posts'[d]
    BY <1>0
  <2> QED
    BY <1>0, <2>1, <2>2
    DEF Next, Finish, Sweep, vars,
        Dispatch, DispatchUnpublished, CommitDispatch, AbortDispatch,
        CreateSubscription, UpdateSubscription, DeleteSubscription, Lookup, Retry,
        Record, Crash,
        SweepSelect, SweepClaim, SweepPublish, SweepCommit, SweepAbort
<1>r. ASSUME NEW d \in Delivery PROVE row'[d].attempts <= posts'[d]
  <2>0. row[d].attempts <= posts[d] /\ row[d].attempts \in Nat
    BY <1>0 DEF AttemptsInv, AttemptsBehind, Row
  <2>1. ASSUME NEW e \in Delivery, CommitDispatch(e)
        PROVE  row'[d].attempts = 0 \/ row'[d] = row[d]
    BY <1>0, <2>1 DEF CommitDispatch
  <2>2. ASSUME DeleteSubscription PROVE row'[d].attempts = row[d].attempts
    BY <1>0, <2>2 DEF DeleteSubscription, Row
  <2>3. ASSUME NEW w \in Worker, Record(w)
        PROVE  row'[d].attempts <= posts[d]
    BY <1>0, <2>0, <2>3, RecordedRow
  <2>4. ASSUME NEW v \in Sweeper, SweepCommit(v)
        PROVE  row'[d].attempts = row[d].attempts
    BY <1>0, <2>4 DEF SweepCommit, Row
  <2>5. \/ row'[d] = row[d] \/ row'[d].attempts = 0
        \/ row'[d].attempts = row[d].attempts \/ row'[d].attempts <= posts[d]
    <3>1. row' = row => row'[d] = row[d]
      OBVIOUS
    <3> QED
      BY <2>1, <2>2, <2>3, <2>4, <3>1
      DEF Next, Finish, Sweep, vars,
          Dispatch, DispatchUnpublished, AbortDispatch, CreateSubscription,
          UpdateSubscription,
          Lookup, Post, Retry, Crash, SweepSelect, SweepClaim, SweepPublish, SweepAbort
  <2>6. posts[d] \in Nat /\ posts'[d] \in Nat /\ posts[d] <= posts'[d]
    BY <1>0, <1>p
  <2>7. CASE row'[d].attempts <= posts[d]
    <3>1. TypeOK'
      BY <1>0, TypeStep
    <3>2. row'[d].attempts \in Nat
      BY <3>1 DEF TypeOK, Row
    <3> QED
      BY <2>6, <2>7, <3>2
  <2> QED
    BY <2>0, <2>5, <2>6, <2>7
<1>w. ASSUME NEW w \in Worker, worker'[w].pc # "idle"
      PROVE  PostsKnown(w)' <= posts'[worker'[w].msg.delivery]
  <2>1. CASE worker'[w] = worker[w]
    <3>1. PostsKnown(w)' = PostsKnown(w)
      BY <2>1 DEF PostsKnown
    <3>2. /\ worker[w].msg.delivery \in Delivery
          /\ PostsKnown(w) <= posts[worker[w].msg.delivery]
      BY <1>0, <1>w, <2>1 DEF AttemptsInv, Inv, RowsInv, Message
    <3>3. worker[w].seen.attempts \in Nat
      BY <1>0 DEF Working, Row
    <3>4. PostsKnown(w) \in Nat
      BY <3>3 DEF PostsKnown
    <3> DEFINE e == worker[w].msg.delivery
    <3>5. posts[e] \in Nat /\ posts'[e] \in Nat /\ posts[e] <= posts'[e]
      BY <1>0, <1>p, <3>2
    <3> QED
      BY <2>1, <3>1, <3>2, <3>4, <3>5
  <2>2. ASSUME NEW x \in Worker, NEW m \in queue, Lookup(x, m), worker'[w] # worker[w]
        PROVE  PostsKnown(w)' <= posts'[worker'[w].msg.delivery]
    <3>1. /\ worker'[w] = [pc |-> "loaded", msg |-> m, seen |-> row[m.delivery]]
          /\ posts' = posts
      BY <1>0, <2>2 DEF Lookup
    <3>2. m.delivery \in Delivery
      BY <1>0 DEF TypeOK, Message
    <3>3. PostsKnown(w)' = row[m.delivery].attempts
      BY <1>0, <3>1, <3>2 DEF PostsKnown, Row
    <3> QED
      BY <1>0, <3>1, <3>2, <3>3 DEF AttemptsInv, AttemptsBehind
  <2>3. ASSUME NEW x \in Worker, Post(x), worker'[w] # worker[w]
        PROVE  PostsKnown(w)' <= posts'[worker'[w].msg.delivery]
    <3>1. x = w /\ worker[w].pc = "loaded" /\ worker[w] \in Working
      BY <1>0, <2>3 DEF Post
    <3> DEFINE e == worker[w].msg.delivery
    <3>2. PICK a \in {"ok", "bad"} : worker' = [worker EXCEPT ![x].pc = a]
      BY <2>3 DEF Post
    <3>3. /\ worker'[w].pc \in {"ok", "bad"} /\ worker'[w].msg = worker[w].msg
          /\ worker'[w].seen = worker[w].seen
      BY <1>0, <3>1, <3>2 DEF Working
    <3>4. e \in Delivery /\ posts'[e] = posts[e] + 1
      BY <1>0, <2>3, <3>1 DEF Post, Inv, RowsInv, Message
    <3>5. worker[w].seen.attempts <= posts[e] /\ worker[w].seen.attempts \in Nat
      BY <1>0, <3>1 DEF AttemptsInv, PostsKnown, Working, Row
    <3>6. PostsKnown(w)' = worker[w].seen.attempts + 1
      BY <3>3 DEF PostsKnown
    <3> QED
      BY <1>0, <3>3, <3>4, <3>5, <3>6
  <2>4. ASSUME NEW x \in Worker, Retry(x) \/ Record(x) \/ Crash(x)
        PROVE  worker'[w] = worker[w]
    BY <1>0, <1>w, <2>4 DEF Retry, Record, Crash, IdleWorker
  <2>5. CASE worker' = worker
    BY <2>1, <2>5
  <2> QED
    BY <2>1, <2>2, <2>3, <2>4, <2>5
    DEF Next, Finish, Sweep, vars,
        Dispatch, DispatchUnpublished, CommitDispatch, AbortDispatch,
        CreateSubscription, UpdateSubscription, DeleteSubscription, SweepSelect,
        SweepClaim, SweepPublish,
        SweepCommit, SweepAbort
<1> QED
  BY <1>r, <1>w DEF AttemptsInv, AttemptsBehind

LEMMA HoldStep == PromiseInv /\ [Next]_vars => HoldInv'
<1> SUFFICES ASSUME PromiseInv, [Next]_vars PROVE HoldInv'
  OBVIOUS
<1>0. /\ Inv /\ TypeOK /\ HoldInv
      /\ row \in [Delivery -> Row] /\ sweeper \in [Sweeper -> Sweeping]
      /\ writer \in [Delivery -> {"new", "open", "ended"}]
  BY DEF PromiseInv, Inv, TypeOK
<1>1. ASSUME NEW d \in Delivery, writer'[d] \in {"new", "open"} PROVE row'[d] = NoRow
  <2>0. writer[d] \in {"new", "open"} /\ row[d] = NoRow
    <3>1. ASSUME NEW e \in Delivery, \/ Dispatch(e) \/ DispatchUnpublished(e)
                                     \/ CommitDispatch(e) \/ AbortDispatch(e)
          PROVE  writer[d] \in {"new", "open"}
      BY <1>0, <1>1, <3>1
        DEF Dispatch, DispatchUnpublished, CommitDispatch, AbortDispatch
    <3>2. writer' = writer => writer[d] \in {"new", "open"}
      BY <1>1
    <3>3. writer[d] \in {"new", "open"}
      BY <3>1, <3>2
      DEF Next, Finish, Sweep, vars, CreateSubscription, UpdateSubscription,
           DeleteSubscription, Lookup,
          Post, Retry, Record, Crash, SweepSelect, SweepClaim, SweepPublish,
          SweepCommit, SweepAbort
    <3> QED
      BY <1>0, <3>3 DEF HoldInv
  <2>1. ASSUME NEW e \in Delivery, CommitDispatch(e) PROVE row'[d] = row[d]
    BY <1>0, <1>1, <2>1 DEF CommitDispatch
  <2>2. ASSUME DeleteSubscription PROVE row'[d] = row[d]
    BY <2>0, <2>2 DEF DeleteSubscription, Exists, NoRow
  <2>3. ASSUME NEW w \in Worker, Record(w) PROVE row'[d] = row[d]
    BY <1>0, <2>0, <2>3 DEF Record, Exists, NoRow, Inv, RowsInv
  <2>4. ASSUME NEW v \in Sweeper, SweepCommit(v) PROVE row'[d] = row[d]
    BY <1>0, <2>0, <2>4 DEF SweepCommit, HoldInv, Exists, NoRow
  <2> QED
    BY <2>0, <2>1, <2>2, <2>3, <2>4
    DEF Next, Finish, Sweep, vars,
        Dispatch, DispatchUnpublished, AbortDispatch, CreateSubscription,
        UpdateSubscription,
        Lookup, Post, Retry, Crash, SweepSelect, SweepClaim, SweepPublish, SweepAbort
<1>2. ASSUME NEW v \in Sweeper, NEW d \in sweeper'[v].claimed PROVE Exists(d)'
  <2>0. d \in Delivery
    <3>1. TypeOK'
      BY <1>0, TypeStep
    <3> QED
      BY <3>1 DEF TypeOK, Sweeping
  <2>1. d \in sweeper[v].claimed \/ (Exists(d) /\ row' = row)
    <3>1. ASSUME NEW x \in Sweeper, SweepClaim(x)
          PROVE  d \in sweeper[v].claimed \/ (Exists(d) /\ row' = row)
      <4>1. sweeper[x] \in Sweeping
        BY <1>0
      <4> QED
        BY <1>0, <1>2, <3>1, <4>1 DEF SweepClaim, Sweeping
    <3>2. ASSUME NEW x \in Sweeper, SweepSelect(x) \/ SweepCommit(x) \/ SweepAbort(x)
          PROVE  d \in sweeper[v].claimed
      <4>1. sweeper[x] \in Sweeping
        BY <1>0
      <4>2. CASE SweepSelect(x)
        BY <1>0, <1>2, <4>1, <4>2 DEF SweepSelect, Sweeping
      <4>3. CASE SweepCommit(x) \/ SweepAbort(x)
        BY <1>0, <1>2, <4>3 DEF SweepCommit, SweepAbort, IdleSweeper
      <4> QED
        BY <3>2, <4>2, <4>3
    <3>3. ASSUME NEW x \in Sweeper, NEW e \in Delivery, SweepPublish(x, e)
          PROVE  d \in sweeper[v].claimed
      <4>1. sweeper[x] \in Sweeping
        BY <1>0
      <4> QED
        BY <1>0, <1>2, <3>3, <4>1 DEF SweepPublish, Sweeping
    <3>4. ASSUME NEW x \in Sweeper, Sweep(x) \/ SweepAbort(x)
          PROVE  d \in sweeper[v].claimed \/ (Exists(d) /\ row' = row)
      BY <3>1, <3>2, <3>3, <3>4 DEF Sweep
    <3>5. sweeper' = sweeper => d \in sweeper[v].claimed
      BY <1>2
    <3>6. sweeper' = sweeper \/ \E x \in Sweeper : Sweep(x) \/ SweepAbort(x)
      BY <1>0
      DEF Next, Finish, vars,
          Dispatch, DispatchUnpublished, CommitDispatch, AbortDispatch,
          CreateSubscription, UpdateSubscription, DeleteSubscription, Lookup, Post,
          Retry, Record, Crash
    <3> QED
      BY <3>4, <3>5, <3>6
  <2>2. CASE Exists(d) /\ row' = row
    BY <2>2 DEF Exists
  <2>3. CASE d \in sweeper[v].claimed
    <3>0. Exists(d) /\ Claimed(d)
      BY <1>0, <2>3 DEF HoldInv, Claimed
    <3>1. ASSUME NEW e \in Delivery, CommitDispatch(e) PROVE Exists(d)'
      BY <1>0, <2>0, <3>0, <3>1 DEF CommitDispatch, Exists
    <3>2. ~DeleteSubscription
      BY <2>0, <3>0 DEF DeleteSubscription
    <3>3. ASSUME NEW w \in Worker, Record(w) PROVE Exists(d)'
      BY <1>0, <2>0, <3>0, <3>3 DEF Record, Exists
    <3>4. ASSUME NEW x \in Sweeper, SweepCommit(x) PROVE Exists(d)'
      BY <1>0, <2>0, <3>0, <3>4 DEF SweepCommit, Exists, Row
    <3>5. row' = row => Exists(d)'
      BY <3>0 DEF Exists
    <3> QED
      BY <3>1, <3>2, <3>3, <3>4, <3>5
      DEF Next, Finish, Sweep, vars,
          Dispatch, DispatchUnpublished, AbortDispatch, CreateSubscription,
          UpdateSubscription,
          Lookup, Post, Retry, Crash, SweepSelect, SweepClaim, SweepPublish, SweepAbort
  <2> QED
    BY <2>1, <2>2, <2>3
<1> QED
  BY <1>1, <1>2 DEF HoldInv

LEMMA PromiseInvariance == Spec => []PromiseInv
<1>1. PromiseInv /\ [Next]_vars => PromiseInv'
  BY TypeStep, RowsStep, PostsStep, AttemptsStep, HoldStep DEF PromiseInv, Inv
<1> QED
  BY PromiseInit, <1>1, PTL DEF Spec

\* Whatever workers and sweeps do with stale rows, no attempt is counted that
\* was not made.
THEOREM AttemptsNeverAhead == Spec => []AttemptsBehind
  BY PromiseInvariance, PTL DEF PromiseInv, AttemptsInv

-----------------------------------------------------------------------------
(* WebhookDelivery implements Announcement.                                *)

PromiseFate == [d \in Delivery |-> Fate(d)]
PromiseCounted == [d \in Delivery |-> row[d].attempts]

LEMMA FateOf ==
    ASSUME NEW d \in Delivery, row[d] \in Row
    PROVE  /\ Fate(d) = "unknown" <=> row[d].status = "none"
           /\ Fate(d) = "deleted" <=> row[d].status = "gone"
           /\ Fate(d) = "delivered" <=> row[d].status = "success"
           /\ Fate(d) \in {"due", "delivered"} <=> Exists(d)
  BY DEF Fate, Exists, Row

\* Steps that neither send, nor change a row, are not seen by the promise.
LEMMA Unseen ==
    ASSUME UNCHANGED <<row, posts>>
    PROVE  UNCHANGED <<PromiseFate, posts, PromiseCounted>>
  BY DEF PromiseFate, PromiseCounted, Fate

LEMMA PromiseStart == Init => Promise!Init
  BY DEF Init, Promise!Init, NoRow, Fate

LEMMA HappenStep ==
    ASSUME PromiseInv, NEW d \in Delivery, CommitDispatch(d)
    PROVE  Promise!Happen(d)
<1>0. row \in [Delivery -> Row] /\ row[d] = NoRow
  BY DEF PromiseInv, Inv, TypeOK, HoldInv, CommitDispatch
<1>1. /\ row' = [row EXCEPT ![d] = [status |-> "pending", attempts |-> 0]]
      /\ posts' = posts
  BY DEF CommitDispatch
<1>2. PromiseFate[d] = "unknown"
  BY <1>0 DEF PromiseFate, Fate, NoRow
<1>3. PromiseFate' = [PromiseFate EXCEPT ![d] = "due"]
  BY <1>0, <1>1 DEF PromiseFate, Fate
<1>4. PromiseCounted' = PromiseCounted
  BY <1>0, <1>1 DEF PromiseCounted, NoRow
<1> QED
  BY <1>1, <1>2, <1>3, <1>4 DEF Promise!Happen, PromiseFate, PromiseCounted

LEMMA SendStep ==
    ASSUME PromiseInv, NEW w \in Worker, Post(w)
    PROVE  \E d \in Delivery : Promise!Send(d)
<1> DEFINE d == worker[w].msg.delivery
<1>1. d \in Delivery /\ row[d].status # "none" /\ row[d] \in Row
  BY DEF PromiseInv, Inv, RowsInv, TypeOK, Message, Post
<1>2. posts' = [posts EXCEPT ![d] = @ + 1] /\ row' = row
  BY DEF Post
<1>3. PromiseFate' = PromiseFate /\ PromiseCounted' = PromiseCounted
  BY <1>2 DEF PromiseFate, PromiseCounted, Fate
<1>4. PromiseFate[d] # "unknown"
  BY <1>1, FateOf DEF PromiseFate
<1> HIDE DEF d
<1> QED
  BY <1>1, <1>2, <1>3, <1>4 DEF Promise!Send, PromiseFate, PromiseCounted

LEMMA RecordStep ==
    ASSUME PromiseInv, NEW w \in Worker, Record(w)
    PROVE  (\E d \in Delivery : Promise!Record(d)) \/ UNCHANGED <<row, posts>>
<1> DEFINE d == worker[w].msg.delivery
<1>0. d \in Delivery /\ row \in [Delivery -> Row] /\ posts' = posts
  BY DEF PromiseInv, Inv, TypeOK, RowsInv, Message, Record
<1>1. CASE ~Exists(d)
  BY <1>0, <1>1, RecordedRow
<1>2. CASE Exists(d)
  <2>1. PICK r \in Row : /\ row' = [row EXCEPT ![d] = r]
                         /\ r.status \notin {"none", "gone"}
                         /\ r.attempts \in 1 .. posts[d]
    BY <1>2, RecordedRow
  <2> DEFINE f == IF r.status = "success" THEN "delivered" ELSE "due"
  <2> HIDE DEF d
  <2>2. PromiseFate' = [PromiseFate EXCEPT ![d] = f]
    BY <1>0, <2>1 DEF PromiseFate, Fate
  <2>3. PromiseCounted' = [PromiseCounted EXCEPT ![d] = r.attempts]
    BY <1>0, <2>1 DEF PromiseCounted
  <2>4. PromiseFate[d] \in {"due", "delivered"}
    BY <1>0, <1>2, FateOf DEF PromiseFate
  <2>5. f \in {"due", "delivered"}
    OBVIOUS
  <2> HIDE DEF f
  <2>6. \E g \in {"due", "delivered"}, n \in 1 .. posts[d] :
           /\ PromiseFate' = [PromiseFate EXCEPT ![d] = g]
           /\ PromiseCounted' = [PromiseCounted EXCEPT ![d] = n]
    BY <2>1, <2>2, <2>3, <2>5
  <2>7. \E e \in Delivery : Promise!Record(e)
    BY <1>0, <2>4, <2>6, Zenon DEF Promise!Record, PromiseFate, PromiseCounted
  <2> QED
    BY <2>7
<1> QED
  BY <1>1, <1>2

LEMMA RenewStep ==
    ASSUME PromiseInv, NEW v \in Sweeper, SweepCommit(v)
    PROVE  \E E \in SUBSET Delivery : Promise!Renew(E)
<1> DEFINE E == sweeper[v].claimed
<1>0. row \in [Delivery -> Row] /\ E \in SUBSET Delivery
  BY DEF PromiseInv, Inv, TypeOK, Sweeping
<1>1. \A d \in E : PromiseFate[d] \in {"due", "delivered"}
  BY <1>0, FateOf DEF PromiseInv, HoldInv, PromiseFate
<1>2. /\ row' = [d \in Delivery |-> IF d \in E THEN [row[d] EXCEPT !.status = "retrying"]
                                    ELSE row[d]]
      /\ posts' = posts
  BY DEF SweepCommit
<1> HIDE DEF E
<1>3. PromiseFate' = [d \in Delivery |-> IF d \in E THEN "due" ELSE PromiseFate[d]]
  BY <1>0, <1>2 DEF PromiseFate, Fate, Row
<1>4. PromiseCounted' = PromiseCounted
  BY <1>0, <1>2 DEF PromiseCounted, Row
<1> QED
  BY <1>0, <1>1, <1>2, <1>3, <1>4 DEF Promise!Renew, PromiseFate, PromiseCounted

LEMMA DeleteStep ==
    ASSUME PromiseInv, DeleteSubscription
    PROVE  Promise!Delete
<1>0. row \in [Delivery -> Row] /\ posts' = posts
  BY DEF PromiseInv, Inv, TypeOK, DeleteSubscription
<1>1. ASSUME NEW d \in Delivery
      PROVE  /\ row'[d].attempts = row[d].attempts
             /\ row'[d].status = IF Exists(d) THEN "gone" ELSE row[d].status
  BY <1>0 DEF DeleteSubscription, Row
<1>2. PromiseFate' = [d \in Delivery |-> IF PromiseFate[d] = "unknown" THEN "unknown"
                                        ELSE "deleted"]
  BY <1>0, <1>1, FateOf DEF PromiseFate, Fate, Exists
<1>3. PromiseCounted' = PromiseCounted
  BY <1>1 DEF PromiseCounted
<1> QED
  BY <1>0, <1>2, <1>3 DEF Promise!Delete, PromiseFate, PromiseCounted

\* Deliveries keep the promise of Announcement whatever is lost, claimed twice,
\* rolled back or crashes: sent only for what was committed, an outcome and an
\* attempt recorded only for what was sent, deleted for good.
THEOREM PromiseIsKept == Spec => PromiseKept
<1>1. PromiseInv /\ [Next]_vars => [Promise!Next]_<<PromiseFate, posts, PromiseCounted>>
  <2> SUFFICES ASSUME PromiseInv, [Next]_vars
               PROVE  Promise!Next \/ UNCHANGED <<PromiseFate, posts, PromiseCounted>>
    OBVIOUS
  <2>1. ASSUME NEW d \in Delivery, CommitDispatch(d) PROVE Promise!Next
    BY <2>1, HappenStep DEF Promise!Next
  <2>2. ASSUME NEW w \in Worker, Post(w) PROVE Promise!Next
    BY <2>2, SendStep DEF Promise!Next
  <2>3. ASSUME NEW w \in Worker, Record(w)
        PROVE  Promise!Next \/ UNCHANGED <<row, posts>>
    BY <2>3, RecordStep DEF Promise!Next
  <2>4. ASSUME NEW v \in Sweeper, SweepCommit(v) PROVE Promise!Next
    BY <2>4, RenewStep DEF Promise!Next
  <2>5. ASSUME DeleteSubscription PROVE Promise!Next
    BY <2>5, DeleteStep DEF Promise!Next
  <2>6. Promise!Next \/ UNCHANGED <<row, posts>>
    BY <2>1, <2>2, <2>3, <2>4, <2>5
    DEF Next, Finish, Sweep, vars,
        Dispatch, DispatchUnpublished, AbortDispatch, CreateSubscription,
        UpdateSubscription,
        Lookup, Retry, Crash, SweepSelect, SweepClaim, SweepPublish, SweepAbort
  <2> QED
    BY <2>6, Unseen
<1> QED
  BY PromiseInvariance, PromiseStart, <1>1, PTL
  DEF Spec, PromiseKept, Promise!Spec, Promise!promise, PromiseFate, PromiseCounted
-----------------------------------------------------------------------------
(***************************************************************************)
(* The budget of POSTs. A task is in one place at a time, and its retries  *)
(* only grow: the pairs <<task, retries>> that were sent for a delivery    *)
(* are all different, and there are MaxRetries + 1 of them for each task.  *)
(***************************************************************************)
SameTask(m, n) == m.delivery = n.delivery /\ m.task = n.task

\* A task was published, and is once in the queue or with one worker.
UniqueInv ==
    /\ \A m \in queue :
         /\ m.task \in 1 .. tasks[m.delivery]
         /\ \A n \in queue : SameTask(m, n) => m = n
    /\ \A w \in Worker : worker[w].pc # "idle" =>
         /\ worker[w].msg.task \in 1 .. tasks[worker[w].msg.delivery]
         /\ \A m \in queue : ~SameTask(m, worker[w].msg)
         /\ \A x \in Worker : worker[x].pc # "idle"
                              /\ SameTask(worker[x].msg, worker[w].msg) => x = w

\* The first retry of its task that a worker has not sent.
Coming(w) == IF worker[w].pc = "loaded" THEN worker[w].msg.retries
                                        ELSE worker[w].msg.retries + 1

\* None of S is still to be sent for d.
Unsent(d, S) ==
    /\ \A m \in Queued(d) : \A r \in m.retries .. MaxRetries : <<m.task, r>> \notin S
    /\ \A w \in Worker : Busy(w, d) =>
         \A r \in Coming(w) .. MaxRetries : <<worker[w].msg.task, r>> \notin S

Sendable(d) == (1 .. tasks[d]) \X (0 .. MaxRetries)

SentInv(d) == \E S \in SUBSET Sendable(d) : Cardinality(S) = posts[d] /\ Unsent(d, S)

BudgetInv == Inv /\ UniqueInv /\ \A d \in Delivery : SentInv(d)

LEMMA SendableSize ==
    ASSUME TypeOK, NEW d \in Delivery
    PROVE  /\ IsFiniteSet(Sendable(d))
           /\ Cardinality(Sendable(d)) = (MaxRetries + 1) * tasks[d]
<1>1. tasks[d] \in Nat /\ MaxRetries \in Nat
  BY RetryAssumption DEF TypeOK
<1>2. ASSUME NEW a \in {0, 1}, NEW n \in Nat
      PROVE  IsFiniteSet(a .. n) /\ Cardinality(a .. n) = n - a + 1
  <2>1. a \in Int /\ n \in Int
    OBVIOUS
  <2>2. IsFiniteSet(a .. n) /\ Cardinality(a .. n) = IF a > n THEN 0 ELSE n - a + 1
    BY <2>1, FS_Interval, Zenon
  <2> QED
    BY <2>2
<1>3. /\ IsFiniteSet(1 .. tasks[d]) /\ Cardinality(1 .. tasks[d]) = tasks[d]
      /\ IsFiniteSet(0 .. MaxRetries) /\ Cardinality(0 .. MaxRetries) = MaxRetries + 1
  BY <1>1, <1>2
<1>4. /\ IsFiniteSet(Sendable(d))
      /\ Cardinality(Sendable(d)) = Cardinality(1 .. tasks[d])
                                     * Cardinality(0 .. MaxRetries)
  BY <1>3, FS_Product, Zenon DEF Sendable
<1>5. tasks[d] * (MaxRetries + 1) = (MaxRetries + 1) * tasks[d]
  BY <1>1
<1> QED
  BY <1>3, <1>4, <1>5

LEMMA BudgetOfSent == BudgetInv => PostBudget
<1> SUFFICES ASSUME BudgetInv, NEW d \in Delivery
             PROVE  posts[d] <= (MaxRetries + 1) * tasks[d]
  BY DEF PostBudget
<1>1. PICK S \in SUBSET Sendable(d) : Cardinality(S) = posts[d]
  BY DEF BudgetInv, SentInv
<1> QED
  BY <1>1, SendableSize, FS_Subset DEF BudgetInv, Inv

LEMMA BudgetInit == Init => BudgetInv
<1> SUFFICES ASSUME Init PROVE BudgetInv
  OBVIOUS
<1>1. UniqueInv
  BY DEF Init, UniqueInv, IdleWorker
<1>2. ASSUME NEW d \in Delivery PROVE SentInv(d)
  <2>1. {} \in SUBSET Sendable(d) /\ Cardinality({}) = posts[d]
    BY FS_EmptySet DEF Init
  <2>2. Unsent(d, {})
    BY DEF Unsent
  <2> QED
    BY <2>1, <2>2 DEF SentInv
<1> QED
  BY <1>1, <1>2, InitInv DEF BudgetInv

\* What a step does to the messages.
Published == \E d \in Delivery : Publish(d) /\ UNCHANGED <<worker, posts>>
Kept == UNCHANGED <<queue, worker, tasks, posts>>
Dropped(w) == /\ worker' = [worker EXCEPT ![w] = IdleWorker]
              /\ UNCHANGED <<queue, tasks, posts>>

LEMMA MessageSteps ==
    ASSUME [Next]_vars
    PROVE  \/ Published \/ Kept
           \/ \E w \in Worker, m \in queue : Lookup(w, m)
           \/ \E w \in Worker : Post(w) \/ Retry(w) \/ Dropped(w)
<1>1. ASSUME NEW d \in Delivery, Dispatch(d) PROVE Published
  BY <1>1 DEF Dispatch, Published
<1>2. ASSUME NEW v \in Sweeper, NEW d \in Delivery, SweepPublish(v, d) PROVE Published
  BY <1>2 DEF SweepPublish, Published
<1>3. ASSUME NEW w \in Worker, Record(w) \/ Crash(w) PROVE Dropped(w)
  BY <1>3 DEF Record, Crash, Dropped
<1> QED
  BY <1>1, <1>2, <1>3
  DEF Next, Finish, Sweep, vars, Kept,
      DispatchUnpublished, CommitDispatch, AbortDispatch, CreateSubscription,
      UpdateSubscription, DeleteSubscription, SweepSelect, SweepClaim, SweepCommit,
      SweepAbort

\* A worker takes a message; it goes to the worker, or returns with one retry
\* more, or is given up.
LEMMA LookupMoves ==
    ASSUME TypeOK, NEW w \in Worker, NEW m \in queue, Lookup(w, m)
    PROVE  \/ /\ worker' = [worker EXCEPT ![w] =
                    [pc |-> "loaded", msg |-> m, seen |-> row[m.delivery]]]
              /\ queue' = queue \ {m}
           \/ /\ worker' = worker
              /\ \/ queue' = queue \ {m}
                 \/ \E n \in Message :
                      /\ SameTask(n, m) /\ n.retries = m.retries + 1
                      /\ queue' = (queue \ {m}) \cup {n}
<1>1. m \in Message
  BY DEF TypeOK
<1>2. CASE ~Exists(m.delivery) /\ m.retries < LookupRetries
  <2> DEFINE n == [m EXCEPT !.retries = @ + 1]
  <2>1. n \in Message /\ SameTask(n, m) /\ n.retries = m.retries + 1
    BY <1>1, <1>2, RetryAssumption DEF Message, SameTask
  <2> QED
    BY <1>2, <2>1 DEF Lookup
<1> QED
  BY <1>2 DEF Lookup

LEMMA RetryMoves ==
    ASSUME Inv, NEW w \in Worker, Retry(w)
    PROVE  /\ worker' = [worker EXCEPT ![w] = IdleWorker]
           /\ \/ queue' = queue
              \/ \E n \in Message :
                   /\ SameTask(n, worker[w].msg)
                   /\ n.retries = worker[w].msg.retries + 1
                   /\ queue' = queue \cup {n}
<1>1. worker[w].msg \in Message /\ worker[w].msg.retries < MaxRetries
  BY DEF Inv, RowsInv, Retry
<1> DEFINE n == [worker[w].msg EXCEPT !.retries = @ + 1]
<1>2. /\ n \in Message /\ SameTask(n, worker[w].msg)
      /\ n.retries = worker[w].msg.retries + 1
  BY <1>1, RetryAssumption DEF Message, SameTask
<1> QED
  BY <1>2 DEF Retry

\* Posting changes the pc of a worker alone.
LEMMA PostMoves ==
    ASSUME Inv, NEW w \in Worker, Post(w)
    PROVE  /\ worker[w].pc = "loaded" /\ worker[w].msg \in Message
           /\ worker'[w].pc \in {"ok", "bad"} /\ worker'[w].msg = worker[w].msg
           /\ \A x \in Worker : x # w => worker'[x] = worker[x]
<1>1. worker[w] \in Working /\ worker \in [Worker -> Working]
  BY DEF Inv, TypeOK
<1>2. PICK a \in {"ok", "bad"} : worker' = [worker EXCEPT ![w].pc = a]
  BY DEF Post
<1> QED
  BY <1>1, <1>2 DEF Post, Inv, RowsInv, Working

LEMMA PublishedTask ==
    ASSUME TypeOK, NEW d \in Delivery, Publish(d)
    PROVE  \E p \in Message :
             /\ p.delivery = d /\ p.task = tasks[d] + 1 /\ p.retries = 0
             /\ queue' = queue \cup {p}
             /\ tasks' = [tasks EXCEPT ![d] = @ + 1]
<1> DEFINE p == [delivery |-> d, task |-> tasks[d] + 1, retries |-> 0]
<1>1. p \in Message
  BY RetryAssumption DEF TypeOK, Message
<1> QED
  BY <1>1 DEF Publish

LEMMA UniqueStep == Inv /\ UniqueInv /\ [Next]_vars => UniqueInv'
<1> SUFFICES ASSUME Inv, UniqueInv, [Next]_vars PROVE UniqueInv'
  OBVIOUS
<1>0. /\ TypeOK /\ worker \in [Worker -> Working] /\ queue \subseteq Message
      /\ tasks \in [Delivery -> Nat]
      /\ \A w \in Worker : worker[w].pc # "idle" => worker[w].msg \in Message
      /\ \A m \in Message : m.delivery \in Delivery
  BY DEF Inv, TypeOK, RowsInv, Message
<1>1. CASE Published
  <2>1. PICK d \in Delivery : Publish(d) /\ worker' = worker
    BY <1>1 DEF Published
  <2>2. PICK p \in Message :
             /\ p.delivery = d /\ p.task = tasks[d] + 1 /\ p.retries = 0
             /\ queue' = queue \cup {p}
             /\ tasks' = [tasks EXCEPT ![d] = @ + 1]
    BY <1>0, <2>1, PublishedTask
  <2>3. /\ \A e \in Delivery : tasks[e] \in Nat /\ tasks'[e] >= tasks[e]
        /\ tasks'[d] = tasks[d] + 1
    BY <1>0, <2>2
  <2>4. ASSUME NEW m \in Message, m.task \in 1 .. tasks[m.delivery]
        PROVE  /\ m.task \in 1 .. tasks'[m.delivery]
               /\ ~SameTask(m, p) /\ ~SameTask(p, m)
    BY <1>0, <2>2, <2>3, <2>4 DEF SameTask
  <2>5. \A m \in queue : m.task \in 1 .. tasks[m.delivery]
    BY DEF UniqueInv
  <2>6. \A m \in queue' : /\ m.task \in 1 .. tasks'[m.delivery]
                          /\ \A n \in queue' : SameTask(m, n) => m = n
    BY <1>0, <2>2, <2>3, <2>4, <2>5 DEF UniqueInv
  <2>7. ASSUME NEW w \in Worker, worker[w].pc # "idle"
        PROVE  /\ worker[w].msg.task \in 1 .. tasks'[worker[w].msg.delivery]
               /\ \A m \in queue' : ~SameTask(m, worker[w].msg)
    BY <1>0, <2>2, <2>4, <2>7 DEF UniqueInv
  <2> QED
    BY <2>1, <2>6, <2>7 DEF UniqueInv
<1>2. CASE Kept
  BY <1>2 DEF Kept, UniqueInv
<1>3. ASSUME NEW w \in Worker, NEW m \in queue, Lookup(w, m) PROVE UniqueInv'
  <2>1. tasks' = tasks /\ worker[w].pc = "idle"
    BY <1>3 DEF Lookup
  <2>2. CASE /\ worker' = [worker EXCEPT ![w] =
                     [pc |-> "loaded", msg |-> m, seen |-> row[m.delivery]]]
             /\ queue' = queue \ {m}
    <3>1. /\ worker'[w].pc = "loaded" /\ worker'[w].msg = m
          /\ \A x \in Worker : x # w => worker'[x] = worker[x]
      BY <1>0, <2>2
    <3>2. \A n \in queue' : /\ n.task \in 1 .. tasks'[n.delivery]
                            /\ \A k \in queue' : SameTask(n, k) => n = k
      BY <2>1, <2>2 DEF UniqueInv
    <3>3. /\ m.task \in 1 .. tasks'[m.delivery]
          /\ \A n \in queue' : ~SameTask(n, m)
          /\ \A x \in Worker : worker[x].pc # "idle" =>
               ~SameTask(worker[x].msg, m) /\ ~SameTask(m, worker[x].msg)
      BY <2>1, <2>2 DEF UniqueInv, SameTask
    <3>4. ASSUME NEW x \in Worker, worker'[x].pc # "idle"
          PROVE  /\ worker'[x].msg.task \in 1 .. tasks'[worker'[x].msg.delivery]
                 /\ \A n \in queue' : ~SameTask(n, worker'[x].msg)
                 /\ \A y \in Worker : worker'[y].pc # "idle"
                      /\ SameTask(worker'[y].msg, worker'[x].msg) => y = x
      BY <2>1, <2>2, <3>1, <3>3, <3>4 DEF UniqueInv
    <3> QED
      BY <3>2, <3>4 DEF UniqueInv
  <2>3. CASE worker' = worker /\ queue' = queue \ {m}
    BY <2>1, <2>3 DEF UniqueInv
  <2>4. ASSUME worker' = worker,
               NEW n \in Message, SameTask(n, m), queue' = (queue \ {m}) \cup {n}
        PROVE  UniqueInv'
    <3>1. n.delivery = m.delivery /\ n.task = m.task
      BY <2>4 DEF SameTask
    <3> QED
      BY <2>1, <2>4, <3>1 DEF UniqueInv, SameTask
  <2> QED
    BY <1>0, <1>3, <2>2, <2>3, <2>4, LookupMoves
<1>4. ASSUME NEW w \in Worker, Post(w) PROVE UniqueInv'
  <2>1. queue' = queue /\ tasks' = tasks
    BY <1>4 DEF Post
  <2>2. \A x \in Worker : /\ worker'[x].pc # "idle" <=> worker[x].pc # "idle"
                          /\ worker'[x].msg = worker[x].msg
    BY <1>4, PostMoves
  <2> QED
    BY <2>1, <2>2 DEF UniqueInv
<1>5. ASSUME NEW w \in Worker, worker' = [worker EXCEPT ![w] = IdleWorker]
      PROVE  \A x \in Worker : worker'[x].pc # "idle" =>
               x # w /\ worker'[x] = worker[x]
  BY <1>0, <1>5 DEF IdleWorker
<1>6. ASSUME NEW w \in Worker, Retry(w) PROVE UniqueInv'
  <2>1. tasks' = tasks /\ worker[w].pc = "bad"
    BY <1>6 DEF Retry
  <2>2. CASE queue' = queue
    BY <1>5, <1>6, <2>1, <2>2, RetryMoves DEF UniqueInv
  <2>3. ASSUME NEW n \in Message, SameTask(n, worker[w].msg), queue' = queue \cup {n}
        PROVE  UniqueInv'
    <3>1. n.delivery = worker[w].msg.delivery /\ n.task = worker[w].msg.task
      BY <2>3 DEF SameTask
    <3>2. /\ n.task \in 1 .. tasks[n.delivery]
          /\ \A k \in queue : ~SameTask(k, n) /\ ~SameTask(n, k)
          /\ \A x \in Worker : worker[x].pc # "idle" /\ x # w =>
               ~SameTask(n, worker[x].msg)
      BY <2>1, <3>1 DEF UniqueInv, SameTask
    <3>3. \A m \in queue' : /\ m.task \in 1 .. tasks'[m.delivery]
                            /\ \A k \in queue' : SameTask(m, k) => m = k
      BY <2>1, <2>3, <3>2 DEF UniqueInv
    <3>4. ASSUME NEW x \in Worker, worker'[x].pc # "idle"
          PROVE  /\ worker'[x].msg.task \in 1 .. tasks'[worker'[x].msg.delivery]
                 /\ \A k \in queue' : ~SameTask(k, worker'[x].msg)
                 /\ \A y \in Worker : worker'[y].pc # "idle"
                      /\ SameTask(worker'[y].msg, worker'[x].msg) => y = x
      BY <1>5, <1>6, <2>1, <2>3, <3>2, <3>4, RetryMoves DEF UniqueInv
    <3> QED
      BY <3>3, <3>4 DEF UniqueInv
  <2> QED
    BY <1>6, <2>2, <2>3, RetryMoves
<1>7. ASSUME NEW w \in Worker, Dropped(w) PROVE UniqueInv'
  BY <1>5, <1>7 DEF Dropped, UniqueInv
<1> QED
  BY <1>1, <1>2, <1>3, <1>4, <1>6, <1>7, MessageSteps

\* When only messages of their kind move and nothing is sent, what is unsent stays so.
LEMMA UnsentStep ==
    ASSUME Inv, UniqueInv, [Next]_vars, NEW d \in Delivery,
           NEW S \in SUBSET Sendable(d), Unsent(d, S), ~\E w \in Worker : Post(w)
    PROVE  Unsent(d, S)'
<1>0. /\ TypeOK /\ worker \in [Worker -> Working] /\ queue \subseteq Message
      /\ \A w \in Worker : worker[w].pc # "idle" => worker[w].msg \in Message
      /\ \A m \in Message : m.retries \in Nat
      /\ MaxRetries \in Nat
  BY RetryAssumption DEF Inv, TypeOK, RowsInv, Message
<1>q. \A m \in queue : m.delivery = d =>
        \A r \in m.retries .. MaxRetries : <<m.task, r>> \notin S
  BY DEF Unsent, Queued
<1>w. \A w \in Worker : worker[w].pc # "idle" /\ worker[w].msg.delivery = d =>
        \A r \in Coming(w) .. MaxRetries : <<worker[w].msg.task, r>> \notin S
  BY DEF Unsent, Busy
<1> SUFFICES
      /\ \A m \in queue' : m.delivery = d =>
           \A r \in m.retries .. MaxRetries : <<m.task, r>> \notin S
      /\ \A w \in Worker : worker'[w].pc # "idle" /\ worker'[w].msg.delivery = d =>
           \A r \in Coming(w)' .. MaxRetries : <<worker'[w].msg.task, r>> \notin S
  BY DEF Unsent, Queued, Busy
<1>e. ASSUME NEW w \in Worker, worker'[w] = worker[w],
             worker'[w].pc # "idle" /\ worker'[w].msg.delivery = d
      PROVE  \A r \in Coming(w)' .. MaxRetries : <<worker'[w].msg.task, r>> \notin S
  <2>1. Coming(w)' = Coming(w)
    BY <1>e DEF Coming
  <2> QED
    BY <1>e, <1>w, <2>1
<1>1. CASE Published
  <2>1. PICK e \in Delivery : Publish(e) /\ worker' = worker
    BY <1>1 DEF Published
  <2>2. PICK p \in Message :
             /\ p.delivery = e /\ p.task = tasks[e] + 1 /\ p.retries = 0
             /\ queue' = queue \cup {p}
    BY <1>0, <2>1, PublishedTask
  <2>3. p.delivery = d => \A r \in Nat : <<p.task, r>> \notin S
    <3>1. tasks[d] \in Nat
      BY <1>0 DEF TypeOK
    <3> QED
      BY <2>2, <3>1 DEF Sendable
  <2> QED
    BY <1>0, <1>e, <1>q, <2>1, <2>2, <2>3
<1>2. CASE Kept
  BY <1>2, <1>e, <1>q DEF Kept
<1>3. ASSUME NEW w \in Worker, NEW m \in queue, Lookup(w, m)
      PROVE  /\ \A n \in queue' : n.delivery = d =>
                  \A r \in n.retries .. MaxRetries : <<n.task, r>> \notin S
             /\ \A x \in Worker : worker'[x].pc # "idle" /\ worker'[x].msg.delivery = d =>
                  \A r \in Coming(x)' .. MaxRetries : <<worker'[x].msg.task, r>> \notin S
  <2>1. CASE /\ worker' = [worker EXCEPT ![w] =
                     [pc |-> "loaded", msg |-> m, seen |-> row[m.delivery]]]
             /\ queue' = queue \ {m}
    <3>1. /\ worker'[w].pc = "loaded" /\ worker'[w].msg = m
          /\ \A x \in Worker : x # w => worker'[x] = worker[x]
      BY <1>0, <2>1
    <3>2. Coming(w)' = m.retries
      BY <3>1 DEF Coming
    <3> QED
      BY <1>e, <1>q, <2>1, <3>1, <3>2
  <2>2. CASE worker' = worker /\ queue' = queue \ {m}
    BY <1>e, <1>q, <2>2
  <2>3. ASSUME worker' = worker, NEW n \in Message,
               SameTask(n, m), n.retries = m.retries + 1, queue' = (queue \ {m}) \cup {n}
        PROVE  /\ \A k \in queue' : k.delivery = d =>
                    \A r \in k.retries .. MaxRetries : <<k.task, r>> \notin S
               /\ \A x \in Worker :
                    worker'[x].pc # "idle" /\ worker'[x].msg.delivery = d =>
                    \A r \in Coming(x)' .. MaxRetries : <<worker'[x].msg.task, r>> \notin S
    <3>1. n.delivery = m.delivery /\ n.task = m.task /\ m.retries \in Nat
      BY <1>0, <2>3 DEF SameTask
    <3>2. n.delivery = d => \A r \in n.retries .. MaxRetries : <<n.task, r>> \notin S
      <4>1. \A r \in n.retries .. MaxRetries : r \in m.retries .. MaxRetries
        BY <1>0, <2>3, <3>1
      <4> QED
        BY <1>q, <3>1, <4>1
    <3> QED
      BY <1>e, <1>q, <2>3, <3>2
  <2> QED
    BY <1>0, <1>3, <2>1, <2>2, <2>3, LookupMoves
<1>4. ASSUME NEW w \in Worker, worker' = [worker EXCEPT ![w] = IdleWorker]
      PROVE  \A x \in Worker : worker'[x].pc # "idle" =>
               x # w /\ worker'[x] = worker[x]
  BY <1>0, <1>4 DEF IdleWorker
<1>5. ASSUME NEW w \in Worker, Retry(w)
      PROVE  \A n \in queue' : n.delivery = d =>
               \A r \in n.retries .. MaxRetries : <<n.task, r>> \notin S
  <2>1. Coming(w) = worker[w].msg.retries + 1 /\ worker[w].pc = "bad"
    BY <1>5 DEF Retry, Coming
  <2>2. ASSUME NEW n \in Message, SameTask(n, worker[w].msg),
               n.retries = worker[w].msg.retries + 1
        PROVE  n.delivery = d =>
                 \A r \in n.retries .. MaxRetries : <<n.task, r>> \notin S
    BY <1>w, <2>1, <2>2 DEF SameTask
  <2> QED
    BY <1>5, <1>q, <2>2, RetryMoves
<1>6. ASSUME NEW w \in Worker, Dropped(w)
      PROVE  queue' = queue /\ worker' = [worker EXCEPT ![w] = IdleWorker]
  BY <1>6 DEF Dropped
<1> QED
  BY <1>1, <1>2, <1>3, <1>4, <1>5, <1>6, <1>e, <1>q, MessageSteps, RetryMoves

LEMMA SentStep ==
    ASSUME BudgetInv, [Next]_vars, NEW d \in Delivery
    PROVE  SentInv(d)'
<1>0. /\ Inv /\ TypeOK /\ UniqueInv /\ SentInv(d) /\ MaxRetries \in Nat
      /\ tasks \in [Delivery -> Nat] /\ posts \in [Delivery -> Nat]
  BY RetryAssumption DEF BudgetInv, Inv, TypeOK
<1>1. PICK S \in SUBSET Sendable(d) : Cardinality(S) = posts[d] /\ Unsent(d, S)
  BY <1>0 DEF SentInv
<1>2. CASE ~\E w \in Worker : Post(w)
  <2>1. posts' = posts
    BY <1>2, MessageSteps DEF Published, Kept, Lookup, Retry, Dropped
  <2>2. tasks'[d] \in Nat /\ tasks'[d] >= tasks[d]
    <3>1. ASSUME NEW e \in Delivery, Publish(e)
          PROVE  tasks'[d] \in Nat /\ tasks'[d] >= tasks[d]
      BY <1>0, <3>1 DEF Publish
    <3> QED
      BY <1>0, <1>2, <3>1, MessageSteps DEF Published, Kept, Lookup, Retry, Dropped
  <2>3. S \in SUBSET Sendable(d)'
    BY <1>0, <1>1, <2>2 DEF Sendable
  <2>4. Unsent(d, S)'
    BY <1>0, <1>1, <1>2, UnsentStep
  <2> QED
    BY <1>1, <2>1, <2>3, <2>4 DEF SentInv
<1>3. ASSUME NEW w \in Worker, Post(w) PROVE SentInv(d)'
  <2> DEFINE m == worker[w].msg
  <2>1. /\ worker[w].pc = "loaded" /\ m \in Message
        /\ worker'[w].pc \in {"ok", "bad"} /\ worker'[w].msg = m
        /\ \A x \in Worker : x # w => worker'[x] = worker[x]
    BY <1>0, <1>3, PostMoves
  <2>2. /\ queue' = queue /\ tasks' = tasks
        /\ posts' = [posts EXCEPT ![m.delivery] = @ + 1]
    BY <1>3 DEF Post
  <2>3. m.delivery \in Delivery /\ m.retries \in 0 .. MaxRetries /\ m.retries \in Nat
    BY <2>1, RetryAssumption DEF Message
  <2>4. Coming(w) = m.retries /\ Coming(w)' = m.retries + 1
    BY <2>1 DEF Coming
  <2>5. \A x \in Worker : x # w => Coming(x)' = Coming(x)
    BY <2>1 DEF Coming
  <2>6. CASE m.delivery # d
    <3>1. posts'[d] = posts[d] /\ Sendable(d)' = Sendable(d)
      BY <1>0, <2>2, <2>3, <2>6 DEF Sendable
    <3>2. Unsent(d, S)'
      BY <1>1, <2>1, <2>2, <2>5, <2>6 DEF Unsent, Queued, Busy
    <3> QED
      BY <1>1, <3>1, <3>2 DEF SentInv
  <2>7. CASE m.delivery = d
    <3>0. PICK T : T = S \cup {<<m.task, m.retries>>}
      OBVIOUS
    <3>1. posts'[d] = posts[d] + 1 /\ Sendable(d)' = Sendable(d)
      BY <1>0, <2>2, <2>7 DEF Sendable
    <3>2. <<m.task, m.retries>> \notin S
      BY <1>0, <1>1, <2>1, <2>3, <2>4, <2>7 DEF Unsent, Busy
    <3>3. m.task \in 1 .. tasks[d]
      BY <1>0, <2>1, <2>7 DEF UniqueInv
    <3>4. T \in SUBSET Sendable(d)'
      BY <1>1, <2>3, <3>0, <3>1, <3>3 DEF Sendable
    <3>5. IsFiniteSet(S)
      BY <1>0, <1>1, SendableSize, FS_Subset
    <3>6. Cardinality(T) = posts'[d]
      BY <1>1, <3>0, <3>1, <3>2, <3>5, FS_AddElement
    <3>7. ASSUME NEW n \in Queued(d)', NEW r \in n.retries .. MaxRetries
          PROVE  <<n.task, r>> \notin T
      <4>1. n \in Queued(d) /\ n.delivery = d
        BY <2>2 DEF Queued
      <4>2. n.task # m.task
        BY <1>0, <2>1, <2>7, <4>1 DEF UniqueInv, SameTask, Queued
      <4> QED
        BY <1>1, <3>0, <3>7, <4>1, <4>2 DEF Unsent
    <3>8. ASSUME NEW x \in Worker, Busy(x, d)', NEW r \in Coming(x)' .. MaxRetries
          PROVE  <<worker'[x].msg.task, r>> \notin T
      <4>1. CASE x = w
        <5>1. r \in m.retries + 1 .. MaxRetries /\ worker'[x].msg.task = m.task
          BY <2>1, <2>4, <3>8, <4>1
        <5>2. r \in m.retries .. MaxRetries /\ r # m.retries
          BY <1>0, <2>3, <5>1
        <5>3. <<m.task, r>> \notin S
          BY <1>1, <2>1, <2>4, <2>7, <5>2 DEF Unsent, Busy
        <5> QED
          BY <3>0, <5>1, <5>2, <5>3
      <4>2. CASE x # w
        <5>1. worker'[x] = worker[x] /\ Coming(x)' = Coming(x) /\ Busy(x, d)
          BY <2>1, <2>5, <3>8, <4>2 DEF Busy
        <5>2. worker[x].msg.task # m.task
          BY <1>0, <2>1, <2>7, <4>2, <5>1 DEF UniqueInv, SameTask, Busy
        <5> QED
          BY <1>1, <3>0, <3>8, <5>1, <5>2 DEF Unsent
      <4> QED
        BY <4>1, <4>2
    <3>9. Unsent(d, T)'
      BY <3>7, <3>8 DEF Unsent
    <3> QED
      BY <3>4, <3>6, <3>9 DEF SentInv
  <2> QED
    BY <2>6, <2>7
<1> QED
  BY <1>2, <1>3

\* Whatever is lost, claimed twice or rolled back, the POSTs of a delivery stay
\* within MaxRetries + 1 for each task published for it.
THEOREM PostsWithinBudget == Spec => []PostBudget
<1>1. BudgetInv /\ [Next]_vars => BudgetInv'
  BY TypeStep, RowsStep, PostsStep, UniqueStep, SentStep DEF BudgetInv, Inv
<1> QED
  BY BudgetInit, <1>1, BudgetOfSent, PTL DEF Spec
=============================================================================
