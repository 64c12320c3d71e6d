--------------------------- MODULE BatchLifecycle ---------------------------
(***************************************************************************)
(* Batches and the products inside them, as concurrent database sessions   *)
(* change them: PATCH /batches/{id}, the nightly auto-close sweep, POST    *)
(* /products, and the aggregation of products, both all-or-nothing (HTTP)  *)
(* and code by code (the Celery task).                                     *)
(*                                                                         *)
(* Every session is one transaction under PostgreSQL's READ COMMITTED:     *)
(* a SELECT sees the committed rows and the session's own writes, a flush  *)
(* takes the locks of the rows it writes and waits for a session that      *)
(* holds them, and nothing is visible to the others before the commit.     *)
(* The ORM puts into an UPDATE only the columns whose new value differs    *)
(* from the value the session LOADED, which may be stale by then.          *)
(*                                                                         *)
(* The Redis caches and the fate of the webhook deliveries are not here;   *)
(* an event is counted when the transaction that wrote its delivery row    *)
(* commits. An empty PATCH body, an empty list of codes and a code twice   *)
(* in one POST /products end before they write anything: not modelled.     *)
(***************************************************************************)
EXTENDS Naturals, Sequences, FiniteSets

CONSTANTS
    Batch,          \* ids of the rows of table batches
    Code,           \* unique_code of the rows of table products
    Session,        \* concurrent transactions: HTTP requests and Celery tasks
    Absent,         \* "no such row"
    MaxCodes,       \* bound: codes of one aggregation task
    MaxRequests     \* bound: how many requests and tasks a behaviour starts

ASSUME BatchAssumption == Batch \subseteq Nat
ASSUME CodeAssumption == IsFiniteSet(Code)
ASSUME MaxCodesAssumption == MaxCodes \in Nat
ASSUME MaxRequestsAssumption == MaxRequests \in Nat

(***************************************************************************)
(* closed_at is NULL or some time stamp. A fresh now() differs from every  *)
(* stamp loaded before, so two stamps need not be told apart.              *)
(***************************************************************************)
ClosedAt == {"null", "stamp"}
BatchRow == [is_closed : BOOLEAN, closed_at : ClosedAt]
ProductRow == [batch_id : Batch, is_aggregated : BOOLEAN]
ASSUME AbsentAssumption == Absent \notin BatchRow \cup ProductRow

\* The columns of one UPDATE batches that the properties tell apart.
Update == [cols : SUBSET {"is_closed", "closed_at"}, row : BatchRow]
OpenRow == [is_closed |-> FALSE, closed_at |-> "null"]
ClosedRow == [is_closed |-> TRUE, closed_at |-> "stamp"]
NoUpdate == [cols |-> {}, row |-> OpenRow]

\* What a batch_closed event says of its batch.
CloseEvent == [batch : Batch, total : Nat, aggregated : Nat]

(***************************************************************************)
(* What a session is asked to do. A PATCH body may set is_closed (want)    *)
(* and other columns (edit). groups are the codes in the order in which    *)
(* they are written: one after the other by POST /products (by batch_id),  *)
(* all at once by the HTTP aggregation (strict: one bad code fails them    *)
(* all), one after the other by the Celery task (bad codes are skipped).   *)
(***************************************************************************)
Patch == { r \in [op : {"patch"}, batch : Batch,
                  want : {"close", "reopen", "keep"}, edit : BOOLEAN] :
             r.want = "keep" => r.edit }
Sweep == [op : {"sweep"}]
FlushOrders(f) ==
    { g \in [1 .. Cardinality(DOMAIN f) -> { {c} : c \in DOMAIN f }] :
        /\ UNION { g[i] : i \in DOMAIN g } = DOMAIN f
        /\ \A i, j \in DOMAIN g : i < j =>
             \A c \in g[i], d \in g[j] : f[c] <= f[d] }
Add == UNION { [op : {"add"}, items : {f}, groups : FlushOrders(f)] :
                 f \in UNION { [C -> Batch] : C \in (SUBSET Code) \ {{}} } }
Aggregate ==
    [op : {"aggregate"}, batch : Batch, strict : {TRUE},
     groups : { <<C>> : C \in (SUBSET Code) \ {{}} }]
    \cup
    [op : {"aggregate"}, batch : Batch, strict : {FALSE},
     groups : UNION { [1 .. n -> { {c} : c \in Code }] : n \in 1 .. MaxCodes }]
Request == Patch \cup Sweep \cup Add \cup Aggregate

VARIABLES
    batch,          \* [Batch -> BatchRow or Absent]: committed rows
    product,        \* [Code -> ProductRow or Absent]: committed rows
    ended,          \* batches whose shift_end has passed
    tx,             \* what each session is doing and has not yet committed
    started,        \* requests started so far
    bornClosed,     \* history: batches created with is_closed = True
    closings,       \* history: committed changes from open to closed
    closeEvents,    \* history: committed batch_closed events
    aggEvents       \* history: committed product_aggregated events

history == <<bornClosed, closings, closeEvents, aggEvents>>
vars == <<batch, product, ended, tx, started, history>>

(***************************************************************************)
(* A session: pc, the next step; req, the request; seen, the row a PATCH   *)
(* loaded; targets, the batches its SELECTs have found or checked; todo,   *)
(* the groups still to write; locks and upd, the rows of batches it has    *)
(* updated and how; ins and aggs, the products it has inserted and         *)
(* aggregated; stats, the batch_closed events it has written.              *)
(***************************************************************************)
IdleTx == [pc |-> "idle", req |-> [op |-> "none"], seen |-> OpenRow,
           targets |-> {}, todo |-> <<>>, locks |-> {}, upd |-> NoUpdate,
           ins |-> {}, aggs |-> {}, stats |-> {}]
Tx == [pc : {"idle", "start", "loaded", "counting", "closing", "checking",
             "checked", "writing", "done"},
       req : Request \cup {[op |-> "none"]}, seen : BatchRow,
       targets : SUBSET Batch, todo : Seq(SUBSET Code),
       locks : SUBSET Batch, upd : Update,
       ins : SUBSET Code, aggs : SUBSET Code, stats : SUBSET CloseEvent]

Init ==
    /\ batch = [b \in Batch |-> Absent]
    /\ product = [c \in Code |-> Absent]
    /\ ended = {}
    /\ tx = [s \in Session |-> IdleTx]
    /\ started = 0
    /\ bornClosed = {}
    /\ closings = [b \in Batch |-> 0]
    /\ closeEvents = [b \in Batch |-> 0]
    /\ aggEvents = [c \in Code |-> 0]

At(s, op, pc) == tx[s].req.op = op /\ tx[s].pc = pc
Rows == <<batch, product, ended>>

\* Mutant: the connection goes back with its transaction open, locks and all.
EndLeaky(s) ==
    tx' = [tx EXCEPT ![s] = [IdleTx EXCEPT !.locks = tx[s].locks,
                               !.ins = tx[s].ins, !.aggs = tx[s].aggs]]

\* The session is closed, and with it the transaction.
End(s) == tx' = [tx EXCEPT ![s] = IdleTx]

-----------------------------------------------------------------------------
(* Rows appear, time passes, requests arrive.                              *)

\* POST /batches, as the others see it: one committed row.
CreateBatch(b, closed) ==
    /\ batch[b] = Absent
    /\ batch' = [batch EXCEPT ![b] =
                   [is_closed |-> closed, closed_at |-> "null"]]
    /\ bornClosed' = IF closed THEN bornClosed \cup {b} ELSE bornClosed
    /\ UNCHANGED <<product, ended, tx, started, closings, closeEvents, aggEvents>>

ShiftEnds(b) ==
    /\ b \notin ended
    /\ ended' = ended \cup {b}
    /\ UNCHANGED <<batch, product, tx, started, history>>

\* The sweep is a daily cron entry: two of them never overlap.
Start(s, r) ==
    /\ tx[s].pc = "idle"
    /\ started < MaxRequests
    /\ r.op = "sweep" => \A t \in Session : tx[t].req.op # "sweep"
    /\ started' = started + 1
    /\ tx' = [tx EXCEPT ![s] =
                [IdleTx EXCEPT
                   !.pc = IF r.op \in {"patch", "sweep"} THEN "start" ELSE "checking",
                   !.req = r,
                   !.todo = IF r.op \in {"patch", "sweep"} THEN <<>> ELSE r.groups]]
    /\ UNCHANGED <<Rows, history>>

-----------------------------------------------------------------------------
(* PATCH /batches/{id} and the sweep: closing and reopening batches.       *)

BatchesFree(s, B) == \A t \in Session \ {s} : tx[t].locks \cap B = {}
ProductsOf(b) == { c \in Code : product[c] # Absent /\ product[c].batch_id = b }
AggregatedOf(b) == { c \in ProductsOf(b) : product[c].is_aggregated }

\* Mutant: no 404 for a batch that is not there.
PatchLoadAnything(s) ==
    /\ At(s, "patch", "start")
    /\ tx' = [tx EXCEPT ![s].pc = "loaded", ![s].seen = batch[tx[s].req.batch],
                        ![s].targets = {tx[s].req.batch}]
    /\ UNCHANGED <<Rows, started, history>>

PatchLoad(s) ==
    /\ At(s, "patch", "start")
    /\ LET b == tx[s].req.batch IN
       IF batch[b] = Absent
       THEN End(s)
       ELSE tx' = [tx EXCEPT ![s].pc = "loaded", ![s].seen = batch[b],
                             ![s].targets = {b}]
    /\ UNCHANGED <<Rows, started, history>>

\* Mutants of PatchUpdate. Reopening forgets closed_at;
PatchUpdateKeepsStamp(want, row) ==
    CASE want = "close" /\ ~row.is_closed ->
           [cols |-> {"is_closed", "closed_at"}, row |-> ClosedRow]
      [] want = "reopen" /\ row.is_closed -> [cols |-> {"is_closed"}, row |-> OpenRow]
      [] OTHER -> NoUpdate

\* closing writes the columns even if the row was loaded closed;
PatchUpdateAlwaysCloses(want, row) ==
    CASE want = "close" -> [cols |-> {"is_closed", "closed_at"}, row |-> ClosedRow]
      [] want = "reopen" /\ row.is_closed ->
           [cols |-> {"is_closed", "closed_at"}, row |-> OpenRow]
      [] OTHER -> NoUpdate

\* an UPDATE writes back every column that was loaded.
PatchUpdateWholeRow(want, row) ==
    [cols |-> {"is_closed", "closed_at"},
     row |-> CASE want = "close" -> ClosedRow
               [] want = "reopen" -> OpenRow
               [] OTHER -> row]

\* The closed columns the PATCH changes with respect to the row it loaded.
PatchUpdate(want, row) ==
    CASE want = "close" /\ ~row.is_closed ->
           [cols |-> {"is_closed", "closed_at"}, row |-> ClosedRow]
      [] want = "reopen" /\ row.is_closed ->
           [cols |-> IF row.closed_at = "null" THEN {"is_closed"}
                     ELSE {"is_closed", "closed_at"}, row |-> OpenRow]
      [] OTHER -> NoUpdate

PatchFlush(s) ==
    /\ At(s, "patch", "loaded")
    /\ LET r == tx[s].req
           u == PatchUpdate(r.want, tx[s].seen)
           B == IF u.cols # {} \/ r.edit THEN {r.batch} ELSE {}
           became_closed == r.want = "close" /\ ~tx[s].seen.is_closed
       IN /\ BatchesFree(s, B)
          /\ tx' = [tx EXCEPT ![s].pc = IF became_closed THEN "counting" ELSE "done",
                              ![s].locks = B, ![s].upd = u]
    /\ UNCHANGED <<Rows, started, history>>

SweepSelect(s) ==
    /\ At(s, "sweep", "start")
    /\ LET B == { b \in ended : batch[b] # Absent /\ ~batch[b].is_closed } IN
       IF B = {}
       THEN End(s)
       ELSE tx' = [tx EXCEPT ![s].pc = "counting", ![s].targets = B]
    /\ UNCHANGED <<Rows, started, history>>

\* Mutant: the COUNT without its WHERE batch_id.
BatchStatsOfAll(b) ==
    [batch |-> b, total |-> Cardinality({ c \in Code : product[c] # Absent }),
     aggregated |-> Cardinality(AggregatedOf(b))]

BatchStats(b) == [batch |-> b, total |-> Cardinality(ProductsOf(b)),
                  aggregated |-> Cardinality(AggregatedOf(b))]

\* get_batch_stats for one more of the batches the session closes.
CountProducts(s) ==
    /\ tx[s].pc = "counting"
    /\ \E b \in tx[s].targets \ { e.batch : e \in tx[s].stats } :
         LET all == tx[s].targets \subseteq {b} \cup { e.batch : e \in tx[s].stats }
         IN tx' = [tx EXCEPT
                     ![s].stats = @ \cup {BatchStats(b)},
                     ![s].pc = CASE ~all -> "counting"
                                 [] all /\ tx[s].req.op = "sweep" -> "closing"
                                 [] all /\ tx[s].req.op = "patch" -> "done"]
    /\ UNCHANGED <<Rows, started, history>>

\* bulk_close updates every row it selected, whatever it holds by now.
SweepClose(s) ==
    /\ At(s, "sweep", "closing")
    /\ BatchesFree(s, tx[s].targets)
    /\ tx' = [tx EXCEPT ![s].pc = "done", ![s].locks = tx[s].targets,
                        ![s].upd = [cols |-> {"is_closed", "closed_at"},
                                    row |-> ClosedRow]]
    /\ UNCHANGED <<Rows, started, history>>

-----------------------------------------------------------------------------
(* POST /products and the aggregation of products.                         *)

\* The group at the head of todo is done with, well or badly.
NextGroup(s, aggs) ==
    tx' = [tx EXCEPT ![s].pc = IF Len(tx[s].todo) = 1 THEN "done" ELSE "checking",
                     ![s].targets = {}, ![s].todo = Tail(tx[s].todo),
                     ![s].aggs = aggs]

\* A NotFound, Conflict or Validation error of the current group.
FailGroup(s) ==
    IF tx[s].req.strict THEN End(s) ELSE NextGroup(s, tx[s].aggs)

OpenBatch(b) == batch[b] # Absent /\ ~batch[b].is_closed

\* add_products looks at every batch of the request, one SELECT each.
AddCheckBatch(s) ==
    /\ At(s, "add", "checking")
    /\ LET B == { tx[s].req.items[c] : c \in DOMAIN tx[s].req.items } IN
       \E b \in B \ tx[s].targets :
         IF OpenBatch(b)
         THEN tx' = [tx EXCEPT ![s].targets = @ \cup {b},
                               ![s].pc = IF B \subseteq tx[s].targets \cup {b}
                                         THEN "checked" ELSE "checking"]
         ELSE End(s)
    /\ UNCHANGED <<Rows, started, history>>

AddCheckCodes(s) ==
    /\ At(s, "add", "checked")
    /\ IF \E c \in DOMAIN tx[s].req.items : product[c] # Absent
       THEN End(s)
       ELSE tx' = [tx EXCEPT ![s].pc = "writing"]
    /\ UNCHANGED <<Rows, started, history>>

\* Mutant: an upsert, as if unique_code were not unique.
AddInsertOver(s) ==
    /\ At(s, "add", "writing")
    /\ \A t \in Session \ {s} : tx[t].ins \cap Head(tx[s].todo) = {}
    /\ tx' = [tx EXCEPT ![s].ins = @ \cup Head(tx[s].todo), ![s].todo = Tail(@),
                 ![s].pc = IF Len(tx[s].todo) = 1 THEN "done" ELSE "writing"]
    /\ UNCHANGED <<Rows, started, history>>

\* INSERT the next row: wait for a session that has inserted the same code,
\* fail if it is there (unique constraint).
AddInsert(s) ==
    /\ At(s, "add", "writing")
    /\ \A t \in Session \ {s} : tx[t].ins \cap Head(tx[s].todo) = {}
    /\ IF \E c \in Head(tx[s].todo) : product[c] # Absent
       THEN End(s)
       ELSE tx' = [tx EXCEPT ![s].ins = @ \cup Head(tx[s].todo),
                             ![s].todo = Tail(@),
                             ![s].pc = IF Len(tx[s].todo) = 1
                                       THEN "done" ELSE "writing"]
    /\ UNCHANGED <<Rows, started, history>>

\* Mutant: only the existence of the batch is checked.
AggregateCheckBatchExists(s) ==
    /\ At(s, "aggregate", "checking")
    /\ LET b == tx[s].req.batch IN
       IF batch[b] # Absent
       THEN tx' = [tx EXCEPT ![s].pc = "checked", ![s].targets = {b}]
       ELSE FailGroup(s)
    /\ UNCHANGED <<Rows, started, history>>

AggregateCheckBatch(s) ==
    /\ At(s, "aggregate", "checking")
    /\ LET b == tx[s].req.batch IN
       IF OpenBatch(b)
       THEN tx' = [tx EXCEPT ![s].pc = "checked", ![s].targets = {b}]
       ELSE FailGroup(s)
    /\ UNCHANGED <<Rows, started, history>>

\* Mutant: the batch the codes belong to is not compared.
AggregableElsewhere(s) ==
    \A c \in Head(tx[s].todo) :
       /\ product[c] # Absent /\ ~product[c].is_aggregated
       /\ c \notin tx[s].aggs

\* Every code of the group is a product of the batch, not aggregated yet, in
\* the committed rows overlaid with the session's own updates.
Aggregable(s) ==
    \A c \in Head(tx[s].todo) :
       /\ c \in ProductsOf(tx[s].req.batch)
       /\ ~product[c].is_aggregated
       /\ c \notin tx[s].aggs

AggregateCheckCodes(s) ==
    /\ At(s, "aggregate", "checked")
    /\ IF Aggregable(s)
       THEN tx' = [tx EXCEPT ![s].pc = "writing"]
       ELSE FailGroup(s)
    /\ UNCHANGED <<Rows, started, history>>

\* One row of the UPDATE, after whoever has it locked. The rows of a group are
\* locked in the order of their ids, which the model does not keep: any order.
AggregateUpdate(s) ==
    /\ At(s, "aggregate", "writing")
    /\ \E c \in Head(tx[s].todo) \ tx[s].aggs :
         /\ \A t \in Session \ {s} : c \notin tx[t].aggs
         /\ IF Head(tx[s].todo) \subseteq tx[s].aggs \cup {c}
            THEN NextGroup(s, tx[s].aggs \cup {c})
            ELSE tx' = [tx EXCEPT ![s].aggs = @ \cup {c}]
    /\ UNCHANGED <<Rows, started, history>>

-----------------------------------------------------------------------------
(* The end of a transaction.                                               *)

ApplyUpdate(row, u) ==
    [is_closed |-> IF "is_closed" \in u.cols THEN u.row.is_closed ELSE row.is_closed,
     closed_at |-> IF "closed_at" \in u.cols THEN u.row.closed_at ELSE row.closed_at]

Commit(s) ==
    LET t == tx[s]
        Closes(b) == b \in t.locks /\ ~batch[b].is_closed
                       /\ ApplyUpdate(batch[b], t.upd).is_closed
    IN /\ t.pc = "done"
       /\ batch' = [b \in Batch |-> IF b \in t.locks
                                    THEN ApplyUpdate(batch[b], t.upd) ELSE batch[b]]
       /\ product' = [c \in Code |->
            CASE c \in t.ins -> [batch_id |-> t.req.items[c], is_aggregated |-> FALSE]
              [] c \in t.aggs -> [product[c] EXCEPT !.is_aggregated = TRUE]
              [] OTHER -> product[c]]
       /\ closings' = [b \in Batch |-> closings[b] + IF Closes(b) THEN 1 ELSE 0]
       /\ closeEvents' = [b \in Batch |-> closeEvents[b] +
                             IF \E e \in t.stats : e.batch = b THEN 1 ELSE 0]
       /\ aggEvents' = [c \in Code |-> aggEvents[c] + IF c \in t.aggs THEN 1 ELSE 0]
       /\ End(s)
       /\ UNCHANGED <<ended, started, bornClosed>>

\* Any step can fail (the broker, Redis, the connection, the process).
Rollback(s) ==
    /\ tx[s].pc # "idle"
    /\ End(s)
    /\ UNCHANGED <<Rows, started, history>>

\* A row the session needs next is locked by another one.
WaitsFor(s, t) ==
    \/ /\ At(s, "add", "writing")
       /\ tx[t].ins \cap Head(tx[s].todo) # {}
    \/ /\ At(s, "aggregate", "writing")
       /\ tx[t].aggs \cap (Head(tx[s].todo) \ tx[s].aggs) # {}

\* PostgreSQL aborts one of the sessions that wait for each other.
DeadlockVictim(s) ==
    /\ \E S \in SUBSET Session :
         /\ s \in S
         /\ \A t \in S : \E u \in S \ {t} : WaitsFor(t, u)
    /\ End(s)
    /\ UNCHANGED <<Rows, started, history>>

-----------------------------------------------------------------------------
Step(s) ==
    \/ PatchLoad(s) \/ PatchFlush(s)
    \/ SweepSelect(s) \/ CountProducts(s) \/ SweepClose(s)
    \/ AddCheckBatch(s) \/ AddCheckCodes(s) \/ AddInsert(s)
    \/ AggregateCheckBatch(s) \/ AggregateCheckCodes(s) \/ AggregateUpdate(s)
    \/ Commit(s)

Next ==
    \/ \E b \in Batch, closed \in BOOLEAN : CreateBatch(b, closed)
    \/ \E b \in Batch : ShiftEnds(b)
    \/ \E s \in Session, r \in Request : Start(s, r)
    \/ \E s \in Session : Step(s) \/ Rollback(s) \/ DeadlockVictim(s)

Spec == Init /\ [][Next]_vars

(***************************************************************************)
(* A started request runs on until it ends; the database resolves the      *)
(* deadlocks it detects. Nothing obliges a request to come, a shift to     *)
(* end, or a step to fail.                                                 *)
(***************************************************************************)
FairSpec == Spec /\ \A s \in Session :
                WF_vars(Step(s)) /\ WF_vars(DeadlockVictim(s))

-----------------------------------------------------------------------------
(* Properties.                                                             *)

\* Rows and sessions hold values of their kind.
TypeOK ==
    /\ batch \in [Batch -> BatchRow \cup {Absent}]
    /\ product \in [Code -> ProductRow \cup {Absent}]
    /\ ended \subseteq Batch
    /\ tx \in [Session -> Tx]
    /\ started \in Nat
    /\ bornClosed \subseteq Batch
    /\ closings \in [Batch -> Nat]
    /\ closeEvents \in [Batch -> Nat]
    /\ aggEvents \in [Code -> Nat]

\* A batch created open has a closed_at exactly while it is closed, although
\* update_batch writes only the columns that differ from a row that may be stale
\* and bulk_close does not look at the row again. A batch created closed has no
\* closed_at, and a PATCH that loaded it so may reopen it under a later stamp.
BornOpenCoherent ==
    \A b \in Batch \ bornClosed : batch[b] # Absent =>
        (batch[b].is_closed <=> batch[b].closed_at = "stamp")

\* Whatever closes a batch has written a batch_closed event in the same
\* transaction: PATCH decides on the row it loaded, the sweep on its SELECT,
\* and the row may have been reopened by another session in between.
CloseNeverUnannounced == \A b \in Batch : closings[b] <= closeEvents[b]

\* A product is aggregated exactly when some committed transaction announced it,
\* also when the codes of a task failed one by one inside its transaction.
AggregationAnnounced ==
    \A c \in Code : (aggEvents[c] > 0) <=>
        (product[c] # Absent /\ product[c].is_aggregated)

\* The statistics of a batch_closed event never count what the batch does not
\* hold: they are stale at worst, never ahead of the committed products.
StatsNeverOverstate ==
    \A s \in Session : \A e \in tx[s].stats :
        /\ e.total <= Cardinality(ProductsOf(e.batch))
        /\ e.aggregated <= Cardinality(AggregatedOf(e.batch))

\* Sessions that add to or aggregate in batch b on the strength of a check.
Holders(b) ==
    { s \in Session : tx[s].req.op \in {"add", "aggregate"} /\
        \/ b \in tx[s].targets
        \/ tx[s].aggs # {} /\ tx[s].req.batch = b }

\* Once a batch is closed no session starts to work in it: only those that
\* checked it before may still write, and each ends or gives up.
ClosedBatchDrains ==
    [][\A b \in Batch :
         batch[b] # Absent /\ batch[b].is_closed /\ batch'[b].is_closed =>
            Holders(b)' \subseteq Holders(b)]_vars

\* is_closed changes only through a session that was asked to change it: a PATCH
\* of other columns, written from a stale row, neither closes nor reopens.
ClosedOnDemand ==
    [][\A b \in Batch :
         batch[b] # Absent /\ batch[b].is_closed # batch'[b].is_closed =>
            \E s \in Session : /\ tx[s].pc = "done" /\ tx'[s].pc = "idle"
                              /\ b \in tx[s].targets
                              /\ \/ tx[s].req.op = "sweep" /\ ~batch[b].is_closed
                                 \/ tx[s].req.op = "patch" /\ tx[s].req.want =
                                     IF batch[b].is_closed THEN "reopen" ELSE "close"
      ]_vars

\* Every request ends: no set of sessions waits for each other for ever.
SessionsEnd == \A s \in Session : tx[s].pc # "idle" ~> tx[s].pc = "idle"

-----------------------------------------------------------------------------
(* What is promised of all requests, of which the rest is the working.     *)

State(b) == IF batch[b] = Absent THEN "none"
            ELSE IF batch[b].is_closed THEN "closed" ELSE "open"

Record == INSTANCE Ledger WITH
              NoRequest <- IdleTx.req,
              batch <- [b \in Batch |-> State(b)],
              asked <- [s \in Session |-> tx[s].req],
              closeNews <- closeEvents,
              aggNews <- aggEvents

\* Sessions that check, wait, and write from rows they loaded long ago keep the
\* record as if each had acted at one moment: POST /products and the aggregation
\* over HTTP do all they were asked or nothing, no product is taken over, moved
\* or aggregated unasked, and a batch_closed event leaves its batch closed.
RecordKept == Record!Spec

-----------------------------------------------------------------------------
(* What the code says of itself, and does not keep when sessions overlap.  *)

\* product_service.py:44 and :100: a closed batch takes no products and no
\* aggregation.
ClosedBatchFrozen ==
    [][\A c \in Code : product'[c] # product[c] =>
                         OpenBatch(product'[c].batch_id)]_vars
=============================================================================
