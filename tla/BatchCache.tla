----------------------------- MODULE BatchCache -----------------------------
(***************************************************************************)
(* The Redis caches of batches: the detail of a batch, the list and the    *)
(* dashboard. A read takes the cached value or SELECTs one and caches it;  *)
(* a write deletes the keys it affects and commits AFTER that; PATCH and   *)
(* POST /batches read their batch back, through the cache, in between. The *)
(* statistics task overwrites the dashboard without looking.               *)
(*                                                                         *)
(* Redis and PostgreSQL have nothing in common: what is cached may be      *)
(* older than the table, or newer than it, or rolled back. Keys expire.    *)
(*                                                                         *)
(* One list key stands for those of all filters (a write deletes them by   *)
(* their prefix). batch_statistics is deleted but never filled. The        *)
(* products of a batch are the number of changes made to them. The keys a  *)
(* write deletes are deleted in any order. A POST, a row of an import, a   *)
(* call for products concerns one batch.                                   *)
(***************************************************************************)
EXTENDS Naturals, FiniteSets

CONSTANTS
    Batch,          \* ids of batches
    Shift,          \* values of the columns a PATCH can set but is_closed
    Expiring,       \* batches whose shift has ended
    Session,        \* requests and tasks that run concurrently
    None,           \* no row, no key, a column that a PATCH leaves alone
    MaxWrites,      \* bound: writes a behaviour starts
    MaxFaults       \* bound: writes that fail

ASSUME BoundsAssumption == MaxWrites \in Nat /\ MaxFaults \in Nat
ASSUME BatchAssumption == Expiring \subseteq Batch /\ Batch \cap {"list", "dashboard"} = {}
ASSUME NoneAssumption == None \notin Batch \cup Shift \cup BOOLEAN

Key == Batch \cup {"list", "dashboard"}
Row == [closed : BOOLEAN, shift : Shift, work : 0 .. MaxWrites]
ASSUME RowAssumption == None \notin Row

Reads == [op : {"read"}, key : Key]
Push == [op : {"push"}, key : {"dashboard"}]
Patch == { r \in [op : {"patch"}, key : Batch,
                  closed : BOOLEAN \cup {None}, shift : Shift \cup {None}] :
             r.closed # None \/ r.shift # None }
Work == [op : {"work"}, key : Batch]        \* POST /products, aggregation
Create == [op : {"create", "import"}, key : Batch,
           closed : BOOLEAN, shift : Shift]
Sweep == [op : {"sweep"}, key : {"list"}]   \* auto-close; its key is not used
Writes == Patch \cup Work \cup Create \cup Sweep

VARIABLES
    batch,          \* [Batch -> Row or None]: the committed table
    cache,          \* [Key -> what a read has put there, or None]
    tx,             \* what each session is doing
    taken,          \* ids the sequence of table batches has handed out
    writes,         \* writes started so far
    faults,         \* writes that have failed so far
    calm            \* history: no write has overlapped another session or failed

vars == <<batch, cache, tx, taken, writes, faults, calm>>

(***************************************************************************)
(* Every value takes two SELECTs: the batch, then its products; the total, *)
(* then the page of the list; the counts of batches, then of products.     *)
(* The counts are told apart by what they count.                           *)
(***************************************************************************)
Existing(t) == { b \in Batch : t[b] # None }
First(t, k) ==
    CASE k \in Batch -> [closed |-> t[k].closed, shift |-> t[k].shift]
      [] k = "list" -> Existing(t)
      [] k = "dashboard" -> [b \in Existing(t) |-> t[b].closed]
Second(t, k) ==
    CASE k \in Batch -> t[k].work
      [] k = "list" -> [b \in Existing(t) |-> [closed |-> t[b].closed, shift |-> t[b].shift]]
      [] k = "dashboard" -> [b \in Existing(t) |-> t[b].work]

IdleTx == [pc |-> "idle", req |-> None, loaded |-> None, closing |-> {}, drop |-> {},
           first |-> None, second |-> None]

Init ==
    /\ batch \in [Batch -> [closed : BOOLEAN, shift : Shift, work : {0}] \cup {None}]
    /\ cache = [k \in Key |-> None]
    /\ tx = [s \in Session |-> IdleTx]
    /\ taken = Existing(batch)
    /\ writes = 0
    /\ faults = 0
    /\ calm = TRUE

Active(s) == tx[s].pc # "idle"
Writing(s) == Active(s) /\ tx[s].req \in Writes
Op(s) == tx[s].req.op
K(s) == tx[s].req.key
Set(s, t) == tx' = [tx EXCEPT ![s] = t]
End(s) == Set(s, IdleTx)

\* Mutant of Or: the columns a PATCH does not name are not filtered out.
OrNone(new, old) == new

\* The value of the body, or what was there.
Or(new, old) == IF new = None THEN old ELSE new

\* What the PATCH of s makes of a row.
Patched(s, row) == [row EXCEPT !.closed = Or(tx[s].req.closed, @),
                               !.shift = Or(tx[s].req.shift, @)]

\* The columns it writes: those that differ from the row it has loaded.
Differs(s) == Patched(s, tx[s].loaded) # tx[s].loaded
PatchedRow(s) ==
    LET old == tx[s].loaded
        new == Patched(s, old)
    IN [batch[K(s)] EXCEPT !.closed = IF new.closed # old.closed THEN new.closed ELSE @,
                           !.shift = IF new.shift # old.shift THEN new.shift ELSE @]

\* The table with what s has flushed: as it commits it.
After(s) ==
    CASE Op(s) = "patch" -> [batch EXCEPT ![K(s)] = PatchedRow(s)]
      [] Op(s) = "work" -> [batch EXCEPT ![K(s)].work = @ + 1]
      [] Op(s) \in {"create", "import"} -> [batch EXCEPT ![K(s)] =
                                [closed |-> tx[s].req.closed, shift |-> tx[s].req.shift, work |-> 0]]
      [] Op(s) = "sweep" -> [b \in Batch |-> IF b \in tx[s].closing
                                             THEN [batch[b] EXCEPT !.closed = TRUE]
                                             ELSE batch[b]]
      [] OTHER -> batch

\* And as it sees it: an object once loaded, and its products, stay as they were.
Seen(s) == IF Op(s) = "patch"
           THEN [batch EXCEPT ![K(s)] = Patched(s, tx[s].loaded)]
           ELSE After(s)

-----------------------------------------------------------------------------
FirstStep(r) == CASE r.op = "read" -> "get"
                  [] r.op = "push" -> "select"
                  [] r \in Create -> "flush"
                  [] OTHER -> "load"

Start(s, r) ==
    /\ ~Active(s)
    /\ IF r \in Writes
       THEN writes < MaxWrites /\ writes' = writes + 1
       ELSE writes' = writes
    /\ IF r \in Create
       THEN r.key \notin taken /\ taken' = taken \cup {r.key}
       ELSE taken' = taken
    /\ Set(s, [IdleTx EXCEPT !.pc = FirstStep(r), !.req = r])
    /\ calm' = (calm /\ \A t \in Session : Active(t) => r \notin Writes /\ ~Writing(t))
    /\ UNCHANGED <<batch, cache, faults>>

(***************************************************************************)
(* Writes: look at the rows, write them, delete keys.                      *)
(***************************************************************************)
Rest == <<taken, writes, faults, calm>>

\* The SELECT of a write, and what ends it: no such batch, a batch that is
\* closed (products), no expired batch (sweep).
Load(s) ==
    LET row == batch[K(s)]
        expired == { b \in Expiring : batch[b] # None /\ ~batch[b].closed }
    IN
    /\ tx[s].pc = "load"
    /\ CASE Op(s) = "patch" ->
              IF row = None THEN End(s)
              ELSE Set(s, [tx[s] EXCEPT !.loaded = row, !.pc = "flush"])
         [] Op(s) = "work" ->
              IF row = None \/ row.closed THEN End(s)
              ELSE Set(s, [tx[s] EXCEPT !.pc = "flush"])
         [] Op(s) = "sweep" ->
              IF expired = {} THEN End(s)
              ELSE Set(s, [tx[s] EXCEPT !.closing = expired, !.pc = "flush"])
    /\ UNCHANGED <<batch, cache, Rest>>

\* The rows of batches an UPDATE of s writes; it holds their locks to the end.
Updates(s) == CASE Op(s) = "patch" -> IF Differs(s) THEN {K(s)} ELSE {}
                [] Op(s) = "sweep" -> tx[s].closing
                [] OTHER -> {}
Locked(s) == IF Writing(s) /\ tx[s].pc \notin {"load", "flush"} THEN Updates(s) ELSE {}

\* Mutant of Affected: the list is thought not to show what a PATCH changes.
AffectedDetail(s) ==
    CASE Op(s) = "patch" -> {K(s), "dashboard"}
      [] Op(s) = "work" -> {K(s), "dashboard"}
      [] Op(s) \in {"create", "import"} -> {"list", "dashboard"}
      [] Op(s) = "sweep" -> {"list", "dashboard"} \cup tx[s].closing

\* The keys the write deletes.
Affected(s) ==
    CASE Op(s) = "patch" -> {"list", K(s), "dashboard"}
      [] Op(s) = "work" -> {K(s), "dashboard"}
      [] Op(s) \in {"create", "import"} -> {"list", "dashboard"}
      [] Op(s) = "sweep" -> {"list", "dashboard"} \cup tx[s].closing

Flush(s) ==
    /\ tx[s].pc = "flush"
    /\ \A t \in Session \ {s} : Updates(s) \cap Locked(t) = {}
    /\ Set(s, [tx[s] EXCEPT !.drop = Affected(s), !.pc = "drop"])
    /\ UNCHANGED <<batch, cache, Rest>>

\* cache_delete, one key after the other; PATCH and POST /batches go on to
\* read their batch.
Drop(s) ==
    /\ tx[s].pc = "drop"
    /\ \E k \in tx[s].drop :
         /\ cache' = [cache EXCEPT ![k] = None]
         /\ Set(s, [tx[s] EXCEPT !.drop = @ \ {k},
                      !.pc = IF @ = "drop" /\ tx[s].drop # {k} THEN "drop"
                             ELSE IF Op(s) \in {"patch", "create"} THEN "get" ELSE "commit"])
    /\ UNCHANGED <<batch, Rest>>

(***************************************************************************)
(* Reads: GET, two SELECTs, SET.                                           *)
(***************************************************************************)
\* The value has been read or cached: a write commits, for a read this is the end.
Served(s) == IF Writing(s)
             THEN Set(s, [tx[s] EXCEPT !.first = None, !.second = None, !.pc = "commit"])
             ELSE End(s)

Get(s) ==
    /\ tx[s].pc = "get"
    /\ IF cache[K(s)] # None THEN Served(s) ELSE Set(s, [tx[s] EXCEPT !.pc = "select"])
    /\ UNCHANGED <<batch, cache, Rest>>

Select(s) ==
    /\ tx[s].pc = "select"
    /\ IF K(s) \in Batch /\ Seen(s)[K(s)] = None
       THEN End(s)
       ELSE Set(s, [tx[s] EXCEPT !.first = First(Seen(s), K(s)), !.pc = "second"])
    /\ UNCHANGED <<batch, cache, Rest>>

SelectSecond(s) ==
    /\ tx[s].pc = "second"
    /\ Set(s, [tx[s] EXCEPT !.second = Second(Seen(s), K(s)), !.pc = "put"])
    /\ UNCHANGED <<batch, cache, Rest>>

Put(s) ==
    /\ tx[s].pc = "put"
    /\ cache' = [cache EXCEPT ![K(s)] = <<tx[s].first, tx[s].second>>]
    /\ Served(s)
    /\ UNCHANGED <<batch, Rest>>

Commit(s) ==
    /\ tx[s].pc = "commit"
    /\ batch' = After(s)
    /\ End(s)
    /\ UNCHANGED <<cache, Rest>>

\* Any step can fail: Redis, the database, the process. What has been cached stays.
Rollback(s) ==
    /\ Active(s)
    /\ IF Writing(s)
       THEN faults < MaxFaults /\ faults' = faults + 1 /\ calm' = FALSE
       ELSE UNCHANGED <<faults, calm>>
    /\ End(s)
    /\ UNCHANGED <<batch, cache, taken, writes>>

\* Mutant of Expire: the detail is cached without a time to live.
ExpireLists(k) ==
    /\ k \notin Batch /\ cache[k] # None
    /\ cache' = [cache EXCEPT ![k] = None]
    /\ UNCHANGED <<batch, tx, Rest>>

\* The time to live of a key ends (SET ... EX).
Expire(k) ==
    /\ cache[k] # None
    /\ cache' = [cache EXCEPT ![k] = None]
    /\ UNCHANGED <<batch, tx, Rest>>

-----------------------------------------------------------------------------
Step(s) ==
    \/ Load(s) \/ Flush(s) \/ Drop(s)
    \/ Get(s) \/ Select(s) \/ SelectSecond(s) \/ Put(s) \/ Commit(s)

Next ==
    \/ \E s \in Session, r \in Reads \cup Push \cup Writes : Start(s, r)
    \/ \E s \in Session : Step(s) \/ Rollback(s)
    \/ \E k \in Key : Expire(k)

Spec == Init /\ [][Next]_vars

\* A session that has started goes on (nobody waits for a lock for ever: whoever
\* holds one waits for nothing), and every key has a time to live.
Fairness == /\ \A s \in Session : WF_vars(Step(s))
            /\ \A k \in Key : WF_vars(Expire(k))
FairSpec == Spec /\ Fairness

-----------------------------------------------------------------------------
(* Properties.                                                             *)

Values(k) ==
    CASE k \in Batch -> [closed : BOOLEAN, shift : Shift] \X (0 .. MaxWrites)
      [] k = "list" -> UNION { {<<S, f>> : f \in [T -> [closed : BOOLEAN, shift : Shift]]} :
                               S \in SUBSET Batch, T \in SUBSET Batch }
      [] k = "dashboard" -> UNION { {<<f, g>> : f \in [S -> BOOLEAN], g \in [T -> 0 .. MaxWrites]} :
                               S \in SUBSET Batch, T \in SUBSET Batch }

\* Rows, keys and sessions hold values of their kind.
TypeOK ==
    /\ batch \in [Batch -> Row \cup {None}]
    /\ \A k \in Key : cache[k] = None \/ cache[k] \in Values(k)
    /\ DOMAIN tx = Session
    /\ taken \in SUBSET Batch /\ Existing(batch) \subseteq taken
    /\ writes \in 0 .. MaxWrites
    /\ faults \in 0 .. MaxFaults
    /\ calm \in BOOLEAN

\* What is cached is what a read of the table would give.
Fresh(k) == \/ cache[k] = None
            \/ /\ k \in Batch => batch[k] # None
               /\ cache[k] = <<First(batch, k), Second(batch, k)>>

\* The deletions are complete: a key that is not what the table says was cached
\* while a write was on its way, or is left of one that failed. A write that met
\* nobody leaves no stale key behind, whichever keys were cached before it.
InvalidationComplete ==
    calm /\ (\A s \in Session : ~Writing(s)) => \A k \in Key : Fresh(k)

\* Once the writes have stopped the caches come to agree with the table, whatever
\* was cached before an early deletion or by a session that was rolled back, and
\* although reads and the statistics task go on.
EventuallyFresh == <>[](\A k \in Key : Fresh(k))

=============================================================================
