-------------------------- MODULE WebhookDelivery --------------------------
(***************************************************************************)
(* The way of a webhook delivery: the transaction that announces an event  *)
(* writes a row of webhook_deliveries and publishes a Celery task BEFORE   *)
(* it commits; a worker looks the row up, POSTs, and records the outcome   *)
(* or publishes itself again; a periodic sweep claims the failed rows and  *)
(* publishes a new task for each.                                          *)
(*                                                                         *)
(* task.retry() publishes the task again and raises, inside the session of *)
(* the worker: what it wrote in this run is rolled back. Only a success    *)
(* and the last retry of a task leave a trace in the row. Celery           *)
(* acknowledges a message before it runs the task, so a worker that dies   *)
(* takes the task with it.                                                 *)
(*                                                                         *)
(* All deliveries are those of one subscription, whose url may answer      *)
(* anything; its secret, url and events do not matter here. is_active is   *)
(* asked for when an event is announced and never again.                   *)
(***************************************************************************)
EXTENDS Naturals, FiniteSets

CONSTANTS
    Delivery,       \* ids of the rows of webhook_deliveries
    Worker,         \* slots of the Celery workers
    Sweeper,        \* runs of retry_failed_webhooks that may overlap
    RetryCounts,    \* values that WebhookSubscription.retry_count takes
    MaxRetries,     \* max_retries of the task send_webhook
    LookupRetries,  \* DELIVERY_LOOKUP_MAX_RETRIES
    Timely,         \* a transaction commits before the last lookup of its task
    MaxCrashes,     \* bound: workers that die
    MaxAborts       \* bound: sweeps that fail after they have claimed rows

ASSUME RetryAssumption ==
    /\ RetryCounts \subseteq Nat /\ RetryCounts # {}
    /\ MaxRetries \in Nat /\ LookupRetries \in 0 .. MaxRetries
ASSUME TimelyAssumption == Timely \in BOOLEAN
ASSUME FaultsAssumption == MaxCrashes \in Nat /\ MaxAborts \in Nat

VARIABLES
    subscription,   \* whether it exists: "absent", "stored" or "deleted"
    settings,       \* its is_active and retry_count (given when it is created)
    row,            \* [Delivery -> Row]: committed rows
    writer,         \* the transaction that dispatches each delivery
    queue,          \* messages with the broker
    worker,         \* what each worker is doing
    sweeper,        \* what each sweep is doing
    tasks,          \* history: tasks published for each delivery, retries aside
    posts,          \* history: POSTs sent for each delivery
    crashes,        \* workers that have died so far
    aborts          \* sweeps that have failed so far

vars == <<subscription, settings, row, writer, queue, worker, sweeper, tasks,
          posts, crashes, aborts>>

\* "none": not committed (yet); "gone": deleted with its subscription.
Row == [status : {"none", "pending", "failed", "retrying", "success", "gone"},
        attempts : Nat]
NoRow == [status |-> "none", attempts |-> 0]

\* A message: the task keeps its id when it is retried.
Message == [delivery : Delivery, task : Nat, retries : 0 .. MaxRetries]
NoMessage == [task |-> 0]

Working == [pc : {"idle", "loaded", "ok", "bad"},
            msg : Message \cup {NoMessage}, seen : Row]
IdleWorker == [pc |-> "idle", msg |-> NoMessage, seen |-> NoRow]

\* found: what its subquery matched; claimed: the rows it has updated;
\* todo: those it has still to publish a task for.
Sweeping == [pc : {"idle", "claim", "publish"}, found : SUBSET Delivery,
             claimed : SUBSET Delivery, todo : SUBSET Delivery]
IdleSweeper == [pc |-> "idle", found |-> {}, claimed |-> {}, todo |-> {}]

Init ==
    /\ subscription = "absent"
    /\ settings \in [is_active : {TRUE}, retry_count : RetryCounts]
    /\ row = [d \in Delivery |-> NoRow]
    /\ writer = [d \in Delivery |-> "new"]
    /\ queue = {}
    /\ worker = [w \in Worker |-> IdleWorker]
    /\ sweeper = [v \in Sweeper |-> IdleSweeper]
    /\ tasks = [d \in Delivery |-> 0]
    /\ posts = [d \in Delivery |-> 0]
    /\ crashes = 0
    /\ aborts = 0

Exists(d) == row[d].status \notin {"none", "gone"}
Claimed(d) == \E v \in Sweeper : d \in sweeper[v].claimed
Publish(d) ==
    /\ tasks' = [tasks EXCEPT ![d] = @ + 1]
    /\ queue' = queue \cup {[delivery |-> d, task |-> tasks[d] + 1, retries |-> 0]}

-----------------------------------------------------------------------------
(* The transaction that announces an event, and the subscription.          *)

\* dispatch_event: create_delivery in the transaction, then send_webhook.delay.
Dispatch(d) ==
    /\ subscription = "stored" /\ settings.is_active /\ writer[d] = "new"
    /\ writer' = [writer EXCEPT ![d] = "open"]
    /\ Publish(d)
    /\ UNCHANGED <<subscription, settings, row, worker, sweeper, posts, crashes,
                   aborts>>

\* The broker refuses the task. Imports and reports go on and commit the row
\* (import_tasks.py:91, report_tasks.py:79); the others fail.
DispatchUnpublished(d) ==
    /\ subscription = "stored" /\ settings.is_active /\ writer[d] = "new"
    /\ writer' = [writer EXCEPT ![d] = "open"]
    /\ UNCHANGED <<subscription, settings, row, queue, worker, sweeper, tasks,
                   posts, crashes, aborts>>

\* Mutant: the attempt to come is counted at once.
CommitDispatchCounted(d) ==
    /\ writer[d] = "open"
    /\ writer' = [writer EXCEPT ![d] = "ended"]
    /\ row' = [row EXCEPT ![d] = [status |-> "pending", attempts |-> 1]]
    /\ UNCHANGED <<subscription, settings, queue, worker, sweeper, tasks, posts,
                   crashes, aborts>>

\* get_session commits the row, or rolls it back when any later step failed.
CommitDispatch(d) ==
    /\ writer[d] = "open"
    /\ writer' = [writer EXCEPT ![d] = "ended"]
    /\ row' = [row EXCEPT ![d] = [status |-> "pending", attempts |-> 0]]
    /\ UNCHANGED <<subscription, settings, queue, worker, sweeper, tasks, posts,
                   crashes, aborts>>

AbortDispatch(d) ==
    /\ writer[d] = "open"
    /\ writer' = [writer EXCEPT ![d] = "ended"]
    /\ UNCHANGED <<subscription, settings, row, queue, worker, sweeper, tasks,
                   posts, crashes, aborts>>

\* POST /webhooks, with its settings (or their defaults).
CreateSubscription ==
    /\ subscription = "absent"
    /\ subscription' = "stored"
    /\ UNCHANGED <<settings, row, writer, queue, worker, sweeper, tasks, posts,
                   crashes, aborts>>

\* PATCH /webhooks/{id}, under way deliveries or not. Neither the workers nor
\* the sweeps ask for is_active again.
UpdateSubscription ==
    /\ subscription = "stored"
    /\ settings' \in [is_active : BOOLEAN, retry_count : RetryCounts]
    /\ UNCHANGED <<subscription, row, writer, queue, worker, sweeper, tasks,
                   posts, crashes, aborts>>

\* DELETE /webhooks/{id} waits for whoever has locked the subscription or one
\* of its deliveries, and the deliveries go with it.
DeleteSubscription ==
    /\ subscription = "stored"
    /\ \A d \in Delivery : writer[d] # "open" /\ ~Claimed(d)
    /\ subscription' = "deleted"
    /\ row' = [d \in Delivery |-> IF Exists(d) THEN [row[d] EXCEPT !.status = "gone"]
                                               ELSE row[d]]
    /\ UNCHANGED <<settings, writer, queue, worker, sweeper, tasks, posts,
                   crashes, aborts>>

-----------------------------------------------------------------------------
(* The task send_webhook.                                                  *)

\* Mutant: the task sends what it was given, without looking for the row.
LookupNothing(w, m) ==
    /\ worker[w].pc = "idle" /\ m \in queue
    /\ worker' = [worker EXCEPT ![w] =
                    [pc |-> "loaded", msg |-> m, seen |-> row[m.delivery]]]
    /\ queue' = queue \ {m}
    /\ UNCHANGED <<subscription, settings, row, writer, sweeper, tasks, posts,
                   crashes, aborts>>

\* A worker takes a message and looks for the row; without one the task is
\* retried, at most LookupRetries times, and then given up.
Lookup(w, m) ==
    /\ worker[w].pc = "idle" /\ m \in queue
    /\ IF Exists(m.delivery)
       THEN /\ worker' = [worker EXCEPT ![w] =
                 [pc |-> "loaded", msg |-> m, seen |-> row[m.delivery]]]
            /\ queue' = queue \ {m}
       ELSE /\ UNCHANGED worker
            /\ IF m.retries < LookupRetries
               THEN queue' = (queue \ {m}) \cup {[m EXCEPT !.retries = @ + 1]}
               ELSE /\ Timely => writer[m.delivery] # "open"
                    /\ queue' = queue \ {m}
    /\ UNCHANGED <<subscription, settings, row, writer, sweeper, tasks, posts,
                   crashes, aborts>>

\* The receiver answers 2xx, or anything else including nothing.
Post(w) ==
    /\ worker[w].pc = "loaded"
    /\ \E answer \in {"ok", "bad"} : worker' = [worker EXCEPT ![w].pc = answer]
    /\ posts' = [posts EXCEPT ![worker[w].msg.delivery] = @ + 1]
    /\ UNCHANGED <<subscription, settings, row, writer, queue, sweeper, tasks,
                   crashes, aborts>>

\* Mutants: a retry published afresh, its retries forgotten; retries without end.
RetryAfresh(w) ==
    /\ worker[w].pc = "bad" /\ ~Claimed(worker[w].msg.delivery)
    /\ queue' = queue \cup {[worker[w].msg EXCEPT !.retries = 0]}
    /\ worker' = [worker EXCEPT ![w] = IdleWorker]
    /\ UNCHANGED <<subscription, settings, row, writer, sweeper, tasks, posts,
                   crashes, aborts>>
RetryEndlessly(w) ==
    /\ worker[w].pc = "bad" /\ ~Claimed(worker[w].msg.delivery)
    /\ queue' = queue \cup {[worker[w].msg EXCEPT !.retries = @ + 1]}
    /\ worker' = [worker EXCEPT ![w] = IdleWorker]
    /\ UNCHANGED <<subscription, settings, row, writer, sweeper, tasks, posts,
                   crashes, aborts>>

\* _maybe_retry with retries left: the flushed "failed" is rolled back. A row
\* deleted meanwhile makes the flush fail, and the task with it.
Retry(w) ==
    LET m == worker[w].msg IN
    /\ worker[w].pc = "bad" /\ m.retries < MaxRetries
    /\ ~Claimed(m.delivery)
    /\ queue' = IF Exists(m.delivery)
                THEN queue \cup {[m EXCEPT !.retries = @ + 1]} ELSE queue
    /\ worker' = [worker EXCEPT ![w] = IdleWorker]
    /\ UNCHANGED <<subscription, settings, row, writer, sweeper, tasks, posts,
                   crashes, aborts>>

\* The row a worker writes: only the columns that differ from what it loaded.
Recorded(current, seen, status) ==
    [status |-> IF status = seen.status THEN current.status ELSE status,
     attempts |-> seen.attempts + 1]

\* Mutant: the outcome is recorded before the answer is there.
RecordUnsent(w) ==
    LET d == worker[w].msg.delivery IN
    /\ worker[w].pc = "loaded"
    /\ ~Claimed(d)
    /\ row' = IF Exists(d)
              THEN [row EXCEPT ![d] = Recorded(@, worker[w].seen, "failed")]
              ELSE row
    /\ worker' = [worker EXCEPT ![w] = IdleWorker]
    /\ UNCHANGED <<subscription, settings, writer, queue, sweeper, tasks, posts,
                   crashes, aborts>>

Record(w) ==
    LET d == worker[w].msg.delivery
        status == IF worker[w].pc = "ok" THEN "success" ELSE "failed"
    IN /\ \/ worker[w].pc = "ok"
          \/ worker[w].pc = "bad" /\ worker[w].msg.retries = MaxRetries
       /\ ~Claimed(d)
       /\ row' = IF Exists(d)
                 THEN [row EXCEPT ![d] = Recorded(@, worker[w].seen, status)]
                 ELSE row
       /\ worker' = [worker EXCEPT ![w] = IdleWorker]
       /\ UNCHANGED <<subscription, settings, writer, queue, sweeper, tasks,
                      posts, crashes, aborts>>

\* The worker dies, or loses the broker or the database: the task is gone.
Crash(w) ==
    /\ worker[w].pc # "idle" /\ crashes < MaxCrashes
    /\ worker' = [worker EXCEPT ![w] = IdleWorker]
    /\ crashes' = crashes + 1
    /\ UNCHANGED <<subscription, settings, row, writer, queue, sweeper, tasks,
                   posts, aborts>>

-----------------------------------------------------------------------------
(* The task retry_failed_webhooks.                                         *)

\* Mutants: the last attempt is never used, or one too many; the status is not
\* asked for.
ClaimableOneLess(d) ==
    row[d].status = "failed" /\ row[d].attempts + 1 < settings.retry_count
ClaimableOneMore(d) ==
    row[d].status = "failed" /\ row[d].attempts <= settings.retry_count
ClaimableAny(d) == Exists(d) /\ row[d].attempts < settings.retry_count

Claimable(d) == row[d].status = "failed" /\ row[d].attempts < settings.retry_count

\* The subquery of claim_deliveries_to_retry, on the statement's snapshot.
SweepSelect(v) ==
    LET D == { d \in Delivery : Claimable(d) } IN
    /\ sweeper[v].pc = "idle" /\ D # {}
    /\ sweeper' = [sweeper EXCEPT ![v].pc = "claim", ![v].found = D]
    /\ UNCHANGED <<subscription, settings, row, writer, queue, worker, tasks,
                   posts, crashes, aborts>>

\* The UPDATE waits for a row that another sweep has updated, and then updates
\* it too: the subquery is not evaluated again for the new version of the row.
SweepClaim(v) ==
    LET D == { d \in sweeper[v].found : Exists(d) } IN
    /\ sweeper[v].pc = "claim"
    /\ \A d \in D : ~Claimed(d)
    /\ sweeper' = [sweeper EXCEPT ![v].pc = "publish", ![v].found = {},
                                  ![v].claimed = D, ![v].todo = D]
    /\ UNCHANGED <<subscription, settings, row, writer, queue, worker, tasks,
                   posts, crashes, aborts>>

\* send_webhook.delay for one more row, before the commit.
SweepPublish(v, d) ==
    /\ sweeper[v].pc = "publish" /\ d \in sweeper[v].todo
    /\ Publish(d)
    /\ sweeper' = [sweeper EXCEPT ![v].todo = @ \ {d}]
    /\ UNCHANGED <<subscription, settings, row, writer, worker, posts, crashes,
                   aborts>>

\* Mutant: the sweep only reads, and leaves the rows "failed".
SweepCommitNothing(v) ==
    /\ sweeper[v].pc = "publish" /\ sweeper[v].todo = {}
    /\ sweeper' = [sweeper EXCEPT ![v] = IdleSweeper]
    /\ UNCHANGED <<subscription, settings, row, writer, queue, worker, tasks,
                   posts, crashes, aborts>>

SweepCommit(v) ==
    /\ sweeper[v].pc = "publish" /\ sweeper[v].todo = {}
    /\ row' = [d \in Delivery |-> IF d \in sweeper[v].claimed
                                  THEN [row[d] EXCEPT !.status = "retrying"] ELSE row[d]]
    /\ sweeper' = [sweeper EXCEPT ![v] = IdleSweeper]
    /\ UNCHANGED <<subscription, settings, writer, queue, worker, tasks, posts,
                   crashes, aborts>>

\* The broker or the database fails it: what is published stays published.
SweepAbort(v) ==
    /\ sweeper[v].pc # "idle" /\ aborts < MaxAborts
    /\ sweeper' = [sweeper EXCEPT ![v] = IdleSweeper]
    /\ aborts' = aborts + 1
    /\ UNCHANGED <<subscription, settings, row, writer, queue, worker, tasks,
                   posts, crashes>>

-----------------------------------------------------------------------------
Finish(w) == Post(w) \/ Retry(w) \/ Record(w)
Sweep(v) == \/ SweepSelect(v) \/ SweepClaim(v) \/ SweepCommit(v)
            \/ \E d \in Delivery : SweepPublish(v, d)

Next ==
    \/ \E d \in Delivery : \/ Dispatch(d) \/ DispatchUnpublished(d)
                          \/ CommitDispatch(d) \/ AbortDispatch(d)
    \/ CreateSubscription \/ UpdateSubscription \/ DeleteSubscription
    \/ \E w \in Worker, m \in queue : Lookup(w, m)
    \/ \E w \in Worker : Finish(w) \/ Crash(w)
    \/ \E v \in Sweeper : Sweep(v) \/ SweepAbort(v)

Spec == Init /\ [][Next]_vars

(***************************************************************************)
(* A transaction ends, a worker takes messages while there are any and     *)
(* finishes what it took (httpx has a timeout), and Celery Beat starts a   *)
(* sweep every 15 minutes, which runs to its end.                          *)
(***************************************************************************)
FairSpec ==
    /\ Spec
    /\ \A d \in Delivery : WF_vars(CommitDispatch(d) \/ AbortDispatch(d))
    /\ WF_vars(\E w \in Worker, m \in queue : Lookup(w, m))
    /\ \A w \in Worker : WF_vars(Finish(w))
    /\ \A v \in Sweeper : WF_vars(Sweep(v))

-----------------------------------------------------------------------------
(* Properties.                                                             *)

\* Rows, messages, workers and sweeps hold values of their kind.
TypeOK ==
    /\ subscription \in {"absent", "stored", "deleted"}
    /\ settings \in [is_active : BOOLEAN, retry_count : RetryCounts]
    /\ row \in [Delivery -> Row]
    /\ writer \in [Delivery -> {"new", "open", "ended"}]
    /\ queue \subseteq Message
    /\ worker \in [Worker -> Working]
    /\ sweeper \in [Sweeper -> Sweeping]
    /\ tasks \in [Delivery -> Nat]
    /\ posts \in [Delivery -> Nat]
    /\ crashes \in 0 .. MaxCrashes
    /\ aborts \in 0 .. MaxAborts

\* Nothing is sent for an event that did not happen: although the task is
\* published before the commit, no POST goes out unless the row was committed.
NoPhantomPost == \A d \in Delivery : posts[d] > 0 => row[d].status # "none"

\* Whatever is lost, claimed twice or rolled back, a task sends at most
\* 1 + MaxRetries POSTs, the retries of the lookup included.
PostBudget == \A d \in Delivery : posts[d] <= (MaxRetries + 1) * tasks[d]

\* However many workers run tasks of a delivery from stale rows, attempts never
\* runs ahead of the POSTs sent: no attempt is used up without one.
AttemptsBehind == \A d \in Delivery : row[d].attempts <= posts[d]

Busy(w, d) == worker[w].pc # "idle" /\ worker[w].msg.delivery = d
Queued(d) == { m \in queue : m.delivery = d }

\* At most one task is under way for a delivery, in the queue or with a worker,
\* while sweeps neither overlap nor fail half-way: a failed row has no task left,
\* because only the last retry of a task is ever committed.
Single(d) ==
    /\ \A m, n \in Queued(d) : m = n
    /\ \A w \in Worker : Busy(w, d) =>
         Queued(d) = {} /\ \A x \in Worker : Busy(x, d) => x = w
SingleTask == \A d \in Delivery : Single(d)

\* A receiver that keeps failing is sent no more tasks than retry_count ever was,
\* but for the first: while sweeps neither overlap nor fail half-way, each further
\* task follows a counted attempt, although retries count nothing, settings change
\* and a sweep has matched its rows before it publishes.
RetryLimit ==
    \A d \in Delivery :
        /\ tasks[d] <= row[d].attempts + 1
        /\ tasks[d] > 1 => \E n \in RetryCounts : tasks[d] <= n

\* A delivery that was recorded as a success stays one: no late or duplicate
\* task overwrites it, and no sweep sends it again.
SuccessFinal ==
    [][\A d \in Delivery : row[d].status = "success" =>
         row'[d].status \in {"success", "gone"} /\ posts'[d] = posts[d]]_vars

\* Nobody will touch the row again but a sweep, and no sweep may.
Rest(d) == Queued(d) = {} /\ (\A w \in Worker : ~Busy(w, d)) /\ ~Claimed(d)
Orphaned(d) ==
    /\ Rest(d)
    /\ \/ row[d].status \in {"pending", "retrying"} /\ crashes > 0
       \/ /\ row[d].status = "pending" /\ posts[d] = 0
          /\ tasks[d] = 0 \/ ~Timely
Settled(d) == \/ row[d].status \in {"success", "gone"}
              \/ row[d].status = "failed" /\ row[d].attempts >= settings.retry_count

\* Every committed delivery is settled, whatever becomes of its subscription: it
\* succeeds, or it fails and has no attempts left, or it is deleted. While sweeps
\* neither overlap nor fail half-way it is lost only by a worker that died or,
\* never sent at all, by a broker that refused the task or a commit that came after
\* the last lookup. Where they do, a row can be left "retrying" by a worker that had
\* loaded it as it was before the sweep's commit (Recorded).
EventuallySettled ==
    \A d \in Delivery : row[d].status # "none" ~> Settled(d) \/ Orphaned(d)

-----------------------------------------------------------------------------
(* What is promised for an event, of which the rest is the working.        *)

Fate(d) == CASE row[d].status = "none" -> "unknown"
             [] row[d].status = "gone" -> "deleted"
             [] row[d].status = "success" -> "delivered"
             [] OTHER -> "due"

Promise == INSTANCE Announcement WITH
               Event <- Delivery,
               fate <- [d \in Delivery |-> Fate(d)],
               sent <- posts,
               counted <- [d \in Delivery |-> row[d].attempts]

\* With overlapping and failing sweeps, late commits and lost tasks, deliveries
\* keep the promise of Announcement: they are sent only for what has happened,
\* and record an outcome and count attempts only for what was sent.
PromiseKept == Promise!Spec

-----------------------------------------------------------------------------
(* What the code says of itself, and does not keep.                        *)

\* webhook_repository.py:133: send_webhook overwrites the status in any case, so
\* it is safe to leave a row "retrying" until then.
RetryingOverwritten ==
    \A d \in Delivery : row[d].status = "retrying" => ~Rest(d)
=============================================================================
