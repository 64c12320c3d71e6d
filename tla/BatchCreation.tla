--------------------------- MODULE BatchCreation ---------------------------
(***************************************************************************)
(* The creation of batches: POST /batches, all or nothing, and the import  *)
(* of a file, row by row, each in one transaction. A batch is identified   *)
(* by its number and date (Key) and belongs to a work center, which is     *)
(* created when its identifier is not found.                               *)
(*                                                                         *)
(* Both look first and insert later. PostgreSQL's unique constraints have  *)
(* the last word: an INSERT waits for the session that has inserted the    *)
(* same key, and fails if that session commits. The error it raises        *)
(* (IntegrityError) is caught by neither, so the whole transaction is      *)
(* rolled back; the errors of the look-up (Conflict) and of a row that     *)
(* cannot be read are counted by the import, which goes on.                *)
(*                                                                         *)
(* The events of the rows, their deliveries and the caches are elsewhere;  *)
(* a failure of any of them is a Rollback. A key twice in one POST, an     *)
(* empty list and an empty file end before they write: not modelled.       *)
(***************************************************************************)
EXTENDS Naturals, Sequences, FiniteSets

CONSTANTS
    Key,            \* (batch_number, batch_date)
    Center,         \* identifiers of work centers
    Session,        \* requests and import tasks that run concurrently
    Absent,         \* "no such batch"
    Unreadable,     \* a row of a file that _row_to_item cannot convert
    MaxRows,        \* bound: rows of a file, items of a request
    MaxRequests,    \* bound: requests and tasks a behaviour starts
    MaxFaults       \* bound: sessions that fail for other reasons

ASSUME BoundsAssumption ==
    MaxRows \in Nat /\ MaxRequests \in Nat /\ MaxFaults \in Nat
ASSUME RowsAssumption == IsFiniteSet(Key) /\ Absent \notin Center

Item == [key : Key, center : Center]
ASSUME UnreadableAssumption == Unreadable \notin Item

SeqsUpTo(S) == UNION { [1 .. n -> S] : n \in 1 .. MaxRows }
Post == [op : {"post"},
         items : { q \in SeqsUpTo(Item) :
                     \A i, j \in DOMAIN q : q[i].key = q[j].key => i = j }]
Import == [op : {"import"}, items : SeqsUpTo(Item \cup {Unreadable})]

VARIABLES
    batch,          \* [Key -> Center or Absent]: committed rows
    centers,        \* committed rows of work_centers
    subscribed,     \* somebody subscribes to import_completed
    tx,             \* what each session is doing and has not yet committed
    started,        \* requests started so far
    faults          \* sessions that have failed so far

vars == <<batch, centers, subscribed, tx, started, faults>>

(***************************************************************************)
(* A session: i, the item it is at; rows and newCenters, what it has       *)
(* inserted; created and skipped, the counters of the import.              *)
(***************************************************************************)
\* Mutant of IdleTx: the count of created rows starts at one, as row_num does.
IdleTxFromOne == [pc |-> "idle", req |-> [op |-> "none", items |-> <<>>], i |-> 1,
           rows |-> {}, newCenters |-> {}, created |-> 1, skipped |-> 0]

IdleTx == [pc |-> "idle", req |-> [op |-> "none", items |-> <<>>], i |-> 1,
           rows |-> {}, newCenters |-> {}, created |-> 0, skipped |-> 0]
Tx == [pc : {"idle", "check", "center", "newcenter", "insert", "report",
             "reporting", "done"},
       req : Post \cup Import \cup {IdleTx.req}, i : 1 .. MaxRows + 1,
       rows : SUBSET Item, newCenters : SUBSET Center,
       created : 0 .. MaxRows, skipped : 0 .. MaxRows]

Init ==
    /\ batch = [k \in Key |-> Absent]
    /\ centers = {}
    /\ subscribed = TRUE
    /\ tx = [s \in Session |-> IdleTx]
    /\ started = 0
    /\ faults = 0

Rows == <<batch, centers, subscribed>>
Items(s) == tx[s].req.items
Current(s) == Items(s)[tx[s].i]
Keys(s) == { r.key : r \in tx[s].rows }
Importing(s) == tx[s].req.op = "import"
Set(s, t) == tx' = [tx EXCEPT ![s] = t]

\* Mutant: the connection goes back with its transaction open, locks and all.
EndLeaky(s) == Set(s, [IdleTx EXCEPT !.rows = tx[s].rows,
                                     !.newCenters = tx[s].newCenters])

End(s) == Set(s, IdleTx)

Start(s, r) ==
    /\ tx[s].pc = "idle" /\ started < MaxRequests
    /\ Set(s, [IdleTx EXCEPT !.pc = "check", !.req = r])
    /\ started' = started + 1
    /\ UNCHANGED <<Rows, faults>>

Unsubscribe ==
    /\ subscribed
    /\ \A s \in Session : ~(Importing(s) /\ tx[s].pc = "done")
    /\ subscribed' = FALSE
    /\ UNCHANGED <<batch, centers, tx, started, faults>>

-----------------------------------------------------------------------------
\* Mutant of NextItem: the last row of a file is taken for its end.
NextItemShort(t, pc) ==
    IF t.i + (IF t.req.op = "import" THEN 1 ELSE 0) < Len(t.req.items)
    THEN [t EXCEPT !.i = @ + 1, !.pc = pc]
    ELSE [t EXCEPT !.i = @ + 1, !.pc = IF t.req.op = "import" THEN "report" ELSE "done"]

\* t has done with its item: on to the next one, at step pc.
NextItem(t, pc) ==
    IF t.i < Len(t.req.items)
    THEN [t EXCEPT !.i = @ + 1, !.pc = pc]
    ELSE [t EXCEPT !.i = @ + 1, !.pc = IF t.req.op = "import" THEN "report" ELSE "done"]

\* A row the import only counts.
SkipRow(t) == NextItem([t EXCEPT !.skipped = @ + 1], "check")

Found(s, k) == batch[k] # Absent \/ k \in Keys(s)

\* get_by_number_and_date: of the row of a file, or of all items of a POST
\* before the first of them is written.
CheckKey(s) ==
    /\ tx[s].pc = "check"
    /\ IF Importing(s)
       THEN IF Current(s) = Unreadable \/ Found(s, Current(s).key)
            THEN Set(s, SkipRow(tx[s]))
            ELSE Set(s, [tx[s] EXCEPT !.pc = "center"])
       ELSE IF Found(s, Current(s).key)
            THEN End(s)
            ELSE Set(s, IF tx[s].i < Len(Items(s))
                        THEN [tx[s] EXCEPT !.i = @ + 1]
                        ELSE [tx[s] EXCEPT !.i = 1, !.pc = "center"])
    /\ UNCHANGED <<Rows, started, faults>>

\* Mutant of FindCenter: centers that any session of the process has flushed
\* are remembered and found.
FindCenterShared(s) ==
    /\ tx[s].pc = "center"
    /\ Set(s, [tx[s] EXCEPT !.pc =
           IF Current(s).center \in centers \cup UNION { tx[t].newCenters : t \in Session }
           THEN "insert" ELSE "newcenter"])
    /\ UNCHANGED <<Rows, started, faults>>

\* get_or_create: SELECT the work center,
FindCenter(s) ==
    /\ tx[s].pc = "center"
    /\ Set(s, [tx[s] EXCEPT !.pc = IF Current(s).center \in centers \cup tx[s].newCenters
                                   THEN "insert" ELSE "newcenter"])
    /\ UNCHANGED <<Rows, started, faults>>

\* and INSERT it.
InsertCenter(s) ==
    LET c == Current(s).center IN
    /\ tx[s].pc = "newcenter"
    /\ \A t \in Session \ {s} : c \notin tx[t].newCenters
    /\ IF c \in centers
       THEN End(s)
       ELSE Set(s, [tx[s] EXCEPT !.newCenters = @ \cup {c}, !.pc = "insert"])
    /\ UNCHANGED <<Rows, started, faults>>

WithRow(s) ==
    LET t == [tx[s] EXCEPT !.rows = @ \cup {Current(s)},
                           !.created = IF Importing(s) THEN @ + 1 ELSE @]
    IN NextItem(t, IF Importing(s) THEN "check" ELSE "center")

\* Mutants of InsertBatch. The import counts a row that violates the constraint as
\* skipped: after its transaction was rolled back;
InsertBatchSkipping(s) ==
    /\ tx[s].pc = "insert"
    /\ \A t \in Session \ {s} : Current(s).key \notin Keys(t)
    /\ IF Found(s, Current(s).key)
       THEN IF Importing(s)
            THEN Set(s, SkipRow([tx[s] EXCEPT !.rows = {}, !.newCenters = {}]))
            ELSE End(s)
       ELSE Set(s, WithRow(s))
    /\ UNCHANGED <<Rows, started, faults>>

\* or inside a savepoint of the row alone;
InsertBatchSavepoint(s) ==
    /\ tx[s].pc = "insert"
    /\ \A t \in Session \ {s} : Current(s).key \notin Keys(t)
    /\ IF Found(s, Current(s).key)
       THEN IF Importing(s) THEN Set(s, SkipRow(tx[s])) ELSE End(s)
       ELSE Set(s, WithRow(s))
    /\ UNCHANGED <<Rows, started, faults>>

\* without a unique constraint.
InsertBatchAlways(s) ==
    /\ tx[s].pc = "insert"
    /\ Set(s, WithRow(s))
    /\ UNCHANGED <<Rows, started, faults>>

\* INSERT the batch; its event and the caches follow without changing the rows.
InsertBatch(s) ==
    /\ tx[s].pc = "insert"
    /\ \A t \in Session \ {s} : Current(s).key \notin Keys(t)
    /\ IF Found(s, Current(s).key)
       THEN End(s)
       ELSE Set(s, WithRow(s))
    /\ UNCHANGED <<Rows, started, faults>>

\* The event import_completed: dispatch_event looks for subscriptions,
ReportSelect(s) ==
    /\ tx[s].pc = "report"
    /\ Set(s, [tx[s] EXCEPT !.pc = IF subscribed THEN "reporting" ELSE "done"])
    /\ UNCHANGED <<Rows, started, faults>>

\* and writes a delivery for one. If it was deleted meanwhile the flush fails; the
\* import catches that, but a session whose flush has failed cannot commit.
ReportInsert(s) ==
    /\ tx[s].pc = "reporting"
    /\ IF subscribed THEN Set(s, [tx[s] EXCEPT !.pc = "done"]) ELSE End(s)
    /\ UNCHANGED <<Rows, started, faults>>

Commit(s) ==
    /\ tx[s].pc = "done"
    /\ batch' = [k \in Key |-> IF k \in Keys(s)
                               THEN (CHOOSE r \in tx[s].rows : r.key = k).center
                               ELSE batch[k]]
    /\ centers' = centers \cup tx[s].newCenters
    /\ End(s)
    /\ UNCHANGED <<subscribed, started, faults>>

\* Any step can fail: the database, Redis, the broker, the process.
Rollback(s) ==
    /\ tx[s].pc # "idle" /\ faults < MaxFaults
    /\ faults' = faults + 1
    /\ End(s)
    /\ UNCHANGED <<Rows, started>>

WaitsFor(s, t) ==
    \/ tx[s].pc = "newcenter" /\ Current(s).center \in tx[t].newCenters
    \/ tx[s].pc = "insert" /\ Current(s).key \in Keys(t)

\* PostgreSQL aborts one of the sessions that wait for each other.
DeadlockVictim(s) ==
    /\ \E S \in SUBSET Session :
         /\ s \in S
         /\ \A t \in S : \E u \in S \ {t} : WaitsFor(t, u)
    /\ End(s)
    /\ UNCHANGED <<Rows, started, faults>>

-----------------------------------------------------------------------------
Step(s) ==
    \/ CheckKey(s) \/ FindCenter(s) \/ InsertCenter(s) \/ InsertBatch(s)
    \/ ReportSelect(s) \/ ReportInsert(s) \/ Commit(s)

Next ==
    \/ Unsubscribe
    \/ \E s \in Session, r \in Post \cup Import : Start(s, r)
    \/ \E s \in Session : Step(s) \/ Rollback(s) \/ DeadlockVictim(s)

Spec == Init /\ [][Next]_vars

(***************************************************************************)
(* A started request runs on until it ends; the database resolves the      *)
(* deadlocks it detects. No request has to come, and no step has to fail.  *)
(***************************************************************************)
FairSpec == Spec /\ \A s \in Session :
                WF_vars(Step(s)) /\ WF_vars(DeadlockVictim(s))

-----------------------------------------------------------------------------
(* Properties.                                                             *)

\* Rows and sessions hold values of their kind.
TypeOK ==
    /\ batch \in [Key -> Center \cup {Absent}]
    /\ centers \subseteq Center
    /\ subscribed \in BOOLEAN
    /\ tx \in [Session -> Tx]
    /\ started \in 0 .. MaxRequests
    /\ faults \in 0 .. MaxFaults

\* What an import reports is what its commit leaves in the table: created counts
\* the rows, created and skipped together the file.
SummaryTrue ==
    \A s \in Session : Importing(s) /\ tx[s].pc = "done" =>
        /\ tx[s].created = Cardinality(tx[s].rows)
        /\ tx[s].created + tx[s].skipped = Len(Items(s))

\* A work center is created with its first batch and never without one: not by a
\* row that is skipped, nor by a request that fails.
CentersUsed == \A c \in centers : \E k \in Key : batch[k] = c

\* Two sessions that have both found a key free do not both create it: a batch
\* that is committed is not replaced by a later one.
CreatedOnce == [][\A k \in Key : batch[k] # Absent => batch'[k] = batch[k]]_vars

\* Every request and import ends: sessions that insert the same work centers and
\* keys in different orders wait for each other, but not for ever.
RequestsEnd == \A s \in Session : tx[s].pc # "idle" ~> tx[s].pc = "idle"

\* No committed batch refers to a work center that is not committed, although
\* the center may come from the session's own flush.
CentersExist == \A k \in Key : batch[k] # Absent => batch[k] \in centers

-----------------------------------------------------------------------------
(* What is promised of all requests, of which the rest is the working.     *)

Serial == INSTANCE Registry WITH
              Request <- Post \cup Import,
              NoRequest <- IdleTx.req,
              asked <- [s \in Session |-> tx[s].req]

\* Requests and imports that look first and insert later have the effect of one
\* after the other: what an import commits is what it would have created had it
\* run alone at the moment of its commit, and a POST never commits a part.
AsIfAlone == Serial!Spec

-----------------------------------------------------------------------------
(* What the code says of itself, and does not keep.                        *)

\* import_tasks.py:1 and :91: a row that fails costs that row, and a notification
\* that fails costs nothing: what the import has created it commits.
RowsKept ==
    [][\A s \in Session : Importing(s) /\ tx'[s].pc = "idle" =>
         \A r \in tx[s].rows : batch'[r.key] = r.center]_vars
=============================================================================
