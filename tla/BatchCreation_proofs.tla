------------------------ MODULE BatchCreation_proofs ------------------------
(***************************************************************************)
(* Theorems about BatchCreation, for any keys, work centers, sessions,     *)
(* length of files and failures: what an import reports is what it         *)
(* commits, no batch is created twice, a work center is committed with its *)
(* first batch and not without one, and sessions that look first and       *)
(* insert later have the effect of one after the other (Registry).         *)
(***************************************************************************)
EXTENDS BatchCreation, FiniteSetTheorems, SequenceTheorems, TLAPS

AtItem == {"check", "center", "newcenter", "insert"}
Writing == {"center", "newcenter", "insert"}
ItemOf(t) == t.req.items[t.i]
KeysOf(t) == { r.key : r \in t.rows }

\* n items of a file have been counted, each of them once.
Counts(t, n) ==
    IF t.req.op = "import"
    THEN t.created = Cardinality(t.rows) /\ t.created + t.skipped = n
    ELSE t.created = 0 /\ t.skipped = 0

RowsOK(t) == /\ IsFiniteSet(t.rows)
             /\ \A q, r \in t.rows : q.key = r.key => q = r

\* What a session knows without a look at the tables.
LocalOK(t) ==
    /\ t \in Tx
    /\ RowsOK(t)
    /\ Counts(t, t.i - 1)
    /\ t.pc # "idle" => t.req \in Post \cup Import
    /\ t.pc \in AtItem => t.i <= Len(t.req.items)
    /\ t.pc \in Writing => ItemOf(t) \in Item
    /\ t.pc = "done" => t.i = Len(t.req.items) + 1
    /\ t.pc \in {"report", "reporting"} => t.i = Len(t.req.items) + 1

\* What the tables are to it: its keys are still free, its centers are there
\* or will be committed with it, and each new center has a row.
SharedOK(t) ==
    /\ \A r \in t.rows : batch[r.key] = Absent /\ r.center \in centers \cup t.newCenters
    /\ t.pc = "insert" => ItemOf(t).center \in centers \cup t.newCenters
    /\ \A c \in t.newCenters : \/ \E r \in t.rows : r.center = c
                               \/ t.pc = "insert" /\ ItemOf(t).center = c

IInv == /\ TypeOK
        /\ \A s \in Session : LocalOK(tx[s]) /\ SharedOK(tx[s])
        /\ \A s, u \in Session : s # u => Keys(s) \cap Keys(u) = {}
        /\ CentersUsed
        /\ CentersExist

-----------------------------------------------------------------------------
(* Requests and items.                                                     *)

LEMMA SeqsUpToOK ==
    ASSUME NEW S, NEW q \in SeqsUpTo(S)
    PROVE  q \in Seq(S) /\ Len(q) \in 1 .. MaxRows /\ \A i \in 1 .. Len(q) : q[i] \in S
<1>1. PICK n \in 1 .. MaxRows : q \in [1 .. n -> S]
  BY DEF SeqsUpTo
<1>2. n \in Nat
  BY BoundsAssumption
<1>3. q \in Seq(S)
  BY <1>1, <1>2, SeqDef
<1>4. Len(q) = n
  BY <1>1, <1>2, <1>3, LenProperties
<1> QED BY <1>1, <1>3, <1>4

LEMMA ItemsOK ==
    ASSUME NEW q \in Post \cup Import
    PROVE  /\ Len(q.items) \in 1 .. MaxRows
           /\ q.op = "import" \/ q.op = "post"
           /\ \A i \in 1 .. Len(q.items) :
                /\ q.items[i] \in Item \cup {Unreadable}
                /\ q.op # "import" => q.items[i] \in Item
<1>1. CASE q \in Post
  <2>1. q.op = "post" /\ q.items \in SeqsUpTo(Item)
    BY <1>1 DEF Post
  <2> QED BY <2>1, SeqsUpToOK
<1>2. CASE q \in Import
  <2>1. q.op = "import" /\ q.items \in SeqsUpTo(Item \cup {Unreadable})
    BY <1>2 DEF Import
  <2> QED BY <2>1, SeqsUpToOK
<1> QED BY <1>1, <1>2

LEMMA IdleOK == LocalOK(IdleTx) /\ SharedOK(IdleTx) /\ KeysOf(IdleTx) = {}
<1>1. IdleTx \in Tx
  BY BoundsAssumption DEF IdleTx, Tx
<1>2. RowsOK(IdleTx) /\ Counts(IdleTx, IdleTx.i - 1)
  BY FS_EmptySet DEF RowsOK, Counts, IdleTx
<1> QED BY <1>1, <1>2 DEF LocalOK, SharedOK, KeysOf, IdleTx, AtItem, Writing

\* The step to the next item, once the counters hold for this one.
LEMMA NextItemOK ==
    ASSUME NEW t \in Tx, t.req \in Post \cup Import, t.i <= Len(t.req.items),
           RowsOK(t), Counts(t, t.i),
           NEW pc \in {"check", "center"}, t.req.op = "import" => pc = "check"
    PROVE  /\ LocalOK(NextItem(t, pc))
           /\ NextItem(t, pc).rows = t.rows
           /\ NextItem(t, pc).newCenters = t.newCenters
           /\ NextItem(t, pc).pc # "insert"
<1> DEFINE n == NextItem(t, pc)
<1>1. Len(t.req.items) \in 1 .. MaxRows /\ t.i \in 1 .. MaxRows + 1 /\ MaxRows \in Nat
  BY ItemsOK, BoundsAssumption DEF Tx
<1>2. PICK p \in {"check", "center", "report", "done"} : n = [t EXCEPT !.i = t.i + 1, !.pc = p]
  BY DEF NextItem, Tx
<1> HIDE DEF n
<1>3. n \in Tx
  <2> t.i + 1 \in 1 .. MaxRows + 1
    BY <1>1
  <2> QED BY <1>2 DEF Tx
<1>4. n.i = t.i + 1 /\ n.req = t.req /\ n.rows = t.rows /\ n.created = t.created
      /\ n.skipped = t.skipped /\ n.newCenters = t.newCenters
      /\ n.pc = p
  BY <1>2 DEF Tx
<1>5. RowsOK(n) /\ Counts(n, n.i - 1)
  <2>1. n.i - 1 = t.i
    BY <1>1, <1>4
  <2> QED BY <1>4, <2>1 DEF RowsOK, Counts
<1>6. n.pc \in AtItem => n.i <= Len(n.req.items)
  BY <1>1, <1>4 DEF n, NextItem, AtItem, Tx
<1>7. n.pc \in Writing => ItemOf(n) \in Item
  <2>1. n.pc \in Writing => n.i \in 1 .. Len(n.req.items) /\ n.req.op # "import"
    BY <1>1, <1>4, <1>6 DEF n, NextItem, Writing, AtItem, Tx
  <2> QED BY <1>4, <2>1, ItemsOK DEF ItemOf
<1>8. n.pc \in {"done", "report", "reporting"} => n.i = Len(n.req.items) + 1
  BY <1>1, <1>4 DEF n, NextItem, Tx
<1>9. LocalOK(n)
  BY <1>3, <1>4, <1>5, <1>6, <1>7, <1>8 DEF LocalOK
<1> QED BY <1>4, <1>9 DEF n

-----------------------------------------------------------------------------
(* A step of one session that leaves the tables alone.                     *)

LEMMA SessionStep ==
    ASSUME IInv, NEW s \in Session, NEW t,
           tx' = [tx EXCEPT ![s] = t], UNCHANGED <<batch, centers>>,
           subscribed' \in BOOLEAN, started' \in 0 .. MaxRequests,
           faults' \in 0 .. MaxFaults, LocalOK(t), SharedOK(t),
           \A u \in Session \ {s} : KeysOf(t) \cap Keys(u) = {}
    PROVE  IInv'
<1>1. tx \in [Session -> Tx] /\ t \in Tx
  BY DEF IInv, TypeOK, LocalOK
<1>2. tx'[s] = t /\ \A u \in Session \ {s} : tx'[u] = tx[u]
  BY <1>1
<1>3. TypeOK'
  BY <1>1 DEF IInv, TypeOK
<1>4. ASSUME NEW u \in Session PROVE LocalOK(tx[u])' /\ SharedOK(tx[u])'
  <2>1. LocalOK(tx'[u]) /\ SharedOK(tx'[u])
    BY <1>2 DEF IInv
  <2> QED BY <2>1 DEF LocalOK, SharedOK
<1>5. ASSUME NEW u \in Session, NEW v \in Session, u # v
      PROVE  (Keys(u) \cap Keys(v) = {})'
  <2>1. Keys(s)' = KeysOf(t) /\ \A w \in Session \ {s} : Keys(w)' = Keys(w)
    BY <1>2 DEF Keys, KeysOf
  <2>2. Keys(u) \cap Keys(v) = {}
    BY <1>5 DEF IInv
  <2> QED BY <1>5, <2>1, <2>2
<1>6. CentersUsed' /\ CentersExist'
  BY DEF IInv, CentersUsed, CentersExist
<1> QED BY <1>3, <1>4, <1>5, <1>6 DEF IInv

\* The facts every step starts from.
LEMMA SessionFacts ==
    ASSUME IInv, NEW s \in Session
    PROVE  /\ LocalOK(tx[s]) /\ SharedOK(tx[s]) /\ tx[s] \in Tx
           /\ subscribed \in BOOLEAN /\ started \in 0 .. MaxRequests
           /\ faults \in 0 .. MaxFaults
           /\ tx[s].pc # "idle" => /\ tx[s].req \in Post \cup Import
                                   /\ Len(tx[s].req.items) \in 1 .. MaxRows
           /\ KeysOf(tx[s]) = Keys(s) /\ ItemOf(tx[s]) = Current(s)
           /\ \A u \in Session \ {s} : Keys(s) \cap Keys(u) = {}
<1>1. LocalOK(tx[s])
  BY DEF IInv
<1> QED BY <1>1, ItemsOK
        DEF IInv, TypeOK, LocalOK, KeysOf, Keys, ItemOf, Current, Items

\* Most steps insert nothing.
LEMMA SameRowsStep ==
    ASSUME IInv, NEW s \in Session, NEW t,
           tx' = [tx EXCEPT ![s] = t], UNCHANGED <<batch, centers>>,
           subscribed' \in BOOLEAN, started' \in 0 .. MaxRequests,
           faults' \in 0 .. MaxFaults, LocalOK(t),
           t.rows = tx[s].rows, t.newCenters = tx[s].newCenters,
           tx[s].pc # "insert",
           t.pc = "insert" => ItemOf(t).center \in centers \cup t.newCenters
    PROVE  IInv'
<1>1. SharedOK(t)
  BY SessionFacts DEF SharedOK
<1>2. KeysOf(t) = Keys(s)
  BY DEF KeysOf, Keys
<1>3. \A u \in Session \ {s} : KeysOf(t) \cap Keys(u) = {}
  BY <1>2, SessionFacts
<1> QED BY <1>1, <1>3, SessionStep

LEMMA EndIInv ==
    ASSUME IInv, NEW s \in Session, End(s), UNCHANGED <<batch, centers>>,
           subscribed' \in BOOLEAN, started' \in 0 .. MaxRequests,
           faults' \in 0 .. MaxFaults
    PROVE  IInv'
  BY IdleOK, SessionStep DEF End, Set

-----------------------------------------------------------------------------
(* The steps.                                                              *)

LEMMA CreationInit == Init => IInv
<1> SUFFICES ASSUME Init PROVE IInv
  OBVIOUS
<1>1. IdleTx \in Tx
  BY IdleOK DEF LocalOK
<1>2. TypeOK
  BY <1>1, BoundsAssumption DEF Init, TypeOK
<1>3. ASSUME NEW s \in Session
      PROVE  LocalOK(tx[s]) /\ SharedOK(tx[s]) /\ Keys(s) = {}
  <2>1. tx[s] = IdleTx
    BY DEF Init
  <2> QED BY <2>1, IdleOK DEF Keys, KeysOf
<1>4. CentersUsed /\ CentersExist
  BY DEF Init, CentersUsed, CentersExist
<1> QED BY <1>2, <1>3, <1>4 DEF IInv

LEMMA StartIInv ==
    ASSUME IInv, NEW s \in Session, NEW r \in Post \cup Import, Start(s, r)
    PROVE  IInv'
<1> DEFINE t == [IdleTx EXCEPT !.pc = "check", !.req = r]
<1>1. IdleTx \in Tx /\ RowsOK(IdleTx) /\ IdleTx.rows = {} /\ IdleTx.newCenters = {}
      /\ IdleTx.i = 1 /\ IdleTx.created = 0 /\ IdleTx.skipped = 0
  BY IdleOK DEF LocalOK, IdleTx
<1>2. /\ t \in Tx /\ t.req = r /\ t.pc = "check" /\ t.rows = {} /\ t.newCenters = {}
      /\ t.i = 1 /\ t.created = 0 /\ t.skipped = 0
  BY <1>1 DEF Tx
<1> HIDE DEF t
<1>3. Len(r.items) \in 1 .. MaxRows
  BY ItemsOK
<1>4. LocalOK(t)
  BY <1>1, <1>2, <1>3, FS_EmptySet DEF LocalOK, RowsOK, Counts, AtItem, Writing
<1>5. SharedOK(t) /\ KeysOf(t) = {}
  BY <1>2 DEF SharedOK, KeysOf
<1>6. started' \in 0 .. MaxRequests
  BY BoundsAssumption, SessionFacts DEF Start
<1>7. /\ tx' = [tx EXCEPT ![s] = t] /\ UNCHANGED <<batch, centers>>
      /\ subscribed' \in BOOLEAN /\ faults' \in 0 .. MaxFaults
  BY SessionFacts DEF Start, Set, Rows, t
<1>8. \A u \in Session \ {s} : KeysOf(t) \cap Keys(u) = {}
  BY <1>5
<1> QED BY <1>4, <1>5, <1>6, <1>7, <1>8, SessionStep

LEMMA UnsubscribeIInv == ASSUME IInv, Unsubscribe PROVE IInv'
<1>1. TypeOK'
  BY DEF IInv, TypeOK, Unsubscribe
<1>2. ASSUME NEW s \in Session
      PROVE  LocalOK(tx[s])' /\ SharedOK(tx[s])' /\ Keys(s)' = Keys(s)
  BY DEF IInv, Unsubscribe, LocalOK, SharedOK, Keys
<1>3. CentersUsed' /\ CentersExist'
  BY DEF IInv, CentersUsed, CentersExist, Unsubscribe
<1> QED BY <1>1, <1>2, <1>3 DEF IInv

\* A row that is only counted.
LEMMA SkipRowOK ==
    ASSUME IInv, NEW s \in Session, tx[s].pc = "check", Importing(s)
    PROVE  /\ LocalOK(SkipRow(tx[s])) /\ SkipRow(tx[s]).pc # "insert"
           /\ SkipRow(tx[s]).rows = tx[s].rows
           /\ SkipRow(tx[s]).newCenters = tx[s].newCenters
<1> DEFINE u == tx[s]
           t == [u EXCEPT !.skipped = u.skipped + 1]
<1>1. LocalOK(u) /\ u \in Tx /\ u.req \in Post \cup Import /\ u.req.op = "import"
      /\ Len(u.req.items) \in 1 .. MaxRows /\ u.pc = "check"
  BY SessionFacts DEF Importing
<1>2. u.i \in 1 .. MaxRows /\ u.created \in Nat /\ u.skipped \in Nat
      /\ u.created + u.skipped = u.i - 1 /\ u.created = Cardinality(u.rows)
      /\ u.i <= Len(u.req.items) /\ MaxRows \in Nat
  BY <1>1, BoundsAssumption DEF LocalOK, AtItem, Counts, Tx
<1> HIDE DEF u
<1>3. u.skipped + 1 \in 0 .. MaxRows
  BY <1>2
<1>4. t \in Tx /\ t.req = u.req /\ t.i = u.i /\ t.rows = u.rows
      /\ t.created = u.created /\ t.skipped = u.skipped + 1 /\ t.newCenters = u.newCenters
  BY <1>1, <1>3 DEF Tx
<1> HIDE DEF t
<1>5. RowsOK(t) /\ Counts(t, t.i)
  BY <1>1, <1>2, <1>4 DEF LocalOK, RowsOK, Counts
<1>6. LocalOK(NextItem(t, "check")) /\ NextItem(t, "check").pc # "insert"
      /\ NextItem(t, "check").rows = t.rows
      /\ NextItem(t, "check").newCenters = t.newCenters
  BY <1>1, <1>2, <1>4, <1>5, NextItemOK
<1> QED BY <1>4, <1>6 DEF SkipRow, t, u

\* A session moves on to another step of the same item.
LEMMA MoveOK ==
    ASSUME IInv, NEW s \in Session, tx[s].pc \in AtItem, NEW pc \in Writing,
           Current(s) \in Item
    PROVE  LET t == [tx[s] EXCEPT !.pc = pc] IN
           /\ LocalOK(t) /\ t.pc = pc /\ ItemOf(t) = Current(s)
           /\ t.rows = tx[s].rows /\ t.newCenters = tx[s].newCenters
<1> DEFINE u == tx[s]
           t == [u EXCEPT !.pc = pc]
<1>1. LocalOK(u) /\ u \in Tx /\ u.req \in Post \cup Import /\ u.pc \in AtItem
  BY SessionFacts DEF AtItem
<1>2. ItemOf(u) \in Item /\ ItemOf(u) = Current(s)
  BY SessionFacts
<1> HIDE DEF u
<1>3. t \in Tx /\ t.pc = pc /\ t.req = u.req /\ t.i = u.i /\ t.rows = u.rows
      /\ t.newCenters = u.newCenters /\ t.created = u.created /\ t.skipped = u.skipped
  BY <1>1 DEF Tx, Writing
<1> HIDE DEF t
<1>4. RowsOK(t) /\ Counts(t, t.i - 1)
  BY <1>1, <1>3 DEF LocalOK, RowsOK, Counts
<1>5. LocalOK(t)
  BY <1>1, <1>2, <1>3, <1>4 DEF LocalOK, AtItem, Writing, ItemOf
<1>6. ItemOf(t) = Current(s)
  BY <1>2, <1>3 DEF ItemOf
<1> QED BY <1>3, <1>5, <1>6 DEF t, u

LEMMA CheckKeyIInv ==
    ASSUME IInv, NEW s \in Session, CheckKey(s)
    PROVE  IInv'
<1>1. /\ UNCHANGED <<batch, centers>> /\ subscribed' \in BOOLEAN
      /\ started' \in 0 .. MaxRequests /\ faults' \in 0 .. MaxFaults
      /\ tx[s].pc = "check"
  BY SessionFacts DEF CheckKey, Rows
<1>2. tx[s].pc \in AtItem /\ tx[s].pc # "insert" /\ tx[s] \in Tx /\ LocalOK(tx[s])
      /\ tx[s].req \in Post \cup Import
  BY <1>1, SessionFacts DEF AtItem
<1>3. tx[s].i \in 1 .. Len(tx[s].req.items)
  BY <1>2, SessionFacts DEF LocalOK, Tx
<1>4. Current(s) \in Item \cup {Unreadable} /\ (~Importing(s) => Current(s) \in Item)
  BY <1>2, <1>3, ItemsOK DEF Current, Items, Importing
<1>5. CASE Importing(s) /\ (Current(s) = Unreadable \/ Found(s, Current(s).key))
  <2>1. tx' = [tx EXCEPT ![s] = SkipRow(tx[s])]
    BY <1>5 DEF CheckKey, Set
  <2> QED BY <1>1, <1>2, <1>5, <2>1, SkipRowOK, SameRowsStep
<1>6. CASE Importing(s) /\ ~(Current(s) = Unreadable \/ Found(s, Current(s).key))
  <2> DEFINE t == [tx[s] EXCEPT !.pc = "center"]
  <2>1. tx' = [tx EXCEPT ![s] = t]
    BY <1>6 DEF CheckKey, Set
  <2>2. LocalOK(t) /\ t.pc = "center" /\ t.rows = tx[s].rows /\ t.newCenters = tx[s].newCenters
    BY <1>2, <1>4, <1>6, MoveOK DEF Writing
  <2> HIDE DEF t
  <2> QED BY <1>1, <1>2, <2>1, <2>2, SameRowsStep
<1>7. CASE ~Importing(s) /\ Found(s, Current(s).key)
  <2>1. End(s)
    BY <1>7 DEF CheckKey
  <2> QED BY <1>1, <2>1, EndIInv
<1>8. CASE ~Importing(s) /\ ~Found(s, Current(s).key)
  <2>1. PICK i \in 1 .. Len(tx[s].req.items), pc \in {"check", "center"} :
          tx' = [tx EXCEPT ![s] = [tx[s] EXCEPT !.i = i, !.pc = pc]]
    <3>1. CASE tx[s].i < Len(Items(s))
      <4>1. tx' = [tx EXCEPT ![s] = [tx[s] EXCEPT !.i = tx[s].i + 1]]
        BY <1>8, <3>1 DEF CheckKey, Set
      <4>2. [tx[s] EXCEPT !.i = tx[s].i + 1]
              = [tx[s] EXCEPT !.i = tx[s].i + 1, !.pc = "check"]
        BY <1>1, <1>2 DEF Tx
      <4>3. tx[s].i + 1 \in 1 .. Len(tx[s].req.items)
        BY <1>2, <1>3, <3>1, SessionFacts DEF Items
      <4> QED BY <4>1, <4>2, <4>3
    <3>2. CASE ~(tx[s].i < Len(Items(s)))
      <4>1. tx' = [tx EXCEPT ![s] = [tx[s] EXCEPT !.i = 1, !.pc = "center"]]
        BY <1>8, <3>2 DEF CheckKey, Set
      <4>2. 1 \in 1 .. Len(tx[s].req.items)
        BY <1>2, SessionFacts, ItemsOK
      <4> QED BY <4>1, <4>2
    <3> QED BY <3>1, <3>2
  <2> DEFINE t == [tx[s] EXCEPT !.i = i, !.pc = pc]
  <2>2. Len(tx[s].req.items) \in 1 .. MaxRows /\ MaxRows \in Nat /\ i \in 1 .. MaxRows + 1
    BY <1>2, ItemsOK, BoundsAssumption
  <2>3. /\ t \in Tx /\ t.i = i /\ t.pc = pc /\ t.req = tx[s].req /\ t.rows = tx[s].rows
        /\ t.newCenters = tx[s].newCenters /\ t.created = tx[s].created
        /\ t.skipped = tx[s].skipped
    BY <1>2, <2>2 DEF Tx
  <2> HIDE DEF t
  <2>4. RowsOK(t) /\ Counts(t, t.i - 1)
    BY <1>2, <1>8, <2>3 DEF LocalOK, RowsOK, Counts, Importing
  <2>5. ItemOf(t) \in Item
    BY <1>2, <1>8, <2>3, ItemsOK DEF ItemOf, Importing
  <2>6. t.i <= Len(t.req.items)
    BY <2>2, <2>3
  <2>7. LocalOK(t)
    BY <1>2, <2>3, <2>4, <2>5, <2>6 DEF LocalOK, AtItem, Writing
  <2>8. tx' = [tx EXCEPT ![s] = t]
    BY <2>1 DEF t
  <2> QED BY <1>1, <1>2, <2>3, <2>7, <2>8, SameRowsStep
<1> QED BY <1>5, <1>6, <1>7, <1>8

LEMMA FindCenterIInv ==
    ASSUME IInv, NEW s \in Session, FindCenter(s)
    PROVE  IInv'
<1> DEFINE found == Current(s).center \in centers \cup tx[s].newCenters
           pc == IF found THEN "insert" ELSE "newcenter"
           t == [tx[s] EXCEPT !.pc = pc]
<1>1. /\ UNCHANGED <<batch, centers>> /\ subscribed' \in BOOLEAN
      /\ started' \in 0 .. MaxRequests /\ faults' \in 0 .. MaxFaults
      /\ tx[s].pc = "center" /\ tx' = [tx EXCEPT ![s] = t]
  BY SessionFacts DEF FindCenter, Rows, Set
<1>2. Current(s) \in Item /\ tx[s].pc \in AtItem
  BY <1>1, SessionFacts DEF LocalOK, Writing, AtItem
<1>3. pc \in Writing /\ (pc = "insert" => found)
  BY DEF Writing
<1> HIDE DEF pc
<1>4. /\ LocalOK(t) /\ t.pc = pc /\ ItemOf(t) = Current(s)
      /\ t.rows = tx[s].rows /\ t.newCenters = tx[s].newCenters
  BY <1>2, <1>3, MoveOK
<1> HIDE DEF t
<1>5. t.pc = "insert" => ItemOf(t).center \in centers \cup t.newCenters
  BY <1>3, <1>4
<1> QED BY <1>1, <1>4, <1>5, SameRowsStep

LEMMA InsertCenterIInv ==
    ASSUME IInv, NEW s \in Session, InsertCenter(s)
    PROVE  IInv'
<1> DEFINE c == Current(s).center
           u == [tx[s] EXCEPT !.pc = "insert"]
           t == [tx[s] EXCEPT !.newCenters = @ \cup {c}, !.pc = "insert"]
<1>1. /\ UNCHANGED <<batch, centers>> /\ subscribed' \in BOOLEAN
      /\ started' \in 0 .. MaxRequests /\ faults' \in 0 .. MaxFaults
      /\ tx[s].pc = "newcenter"
  BY SessionFacts DEF InsertCenter, Rows
<1>2. CASE c \in centers
  <2>1. End(s)
    BY <1>2 DEF InsertCenter
  <2> QED BY <1>1, <2>1, EndIInv
<1>3. CASE c \notin centers
  <2>1. tx' = [tx EXCEPT ![s] = t]
    BY <1>3 DEF InsertCenter, Set
  <2>2. Current(s) \in Item /\ tx[s].pc \in AtItem /\ "insert" \in Writing
    BY <1>1, SessionFacts DEF LocalOK, Writing, AtItem
  <2>3. c \in Center
    BY <2>2 DEF Item
  <2>4. LocalOK(u) /\ u.pc = "insert" /\ ItemOf(u) = Current(s)
        /\ u.rows = tx[s].rows /\ u.newCenters = tx[s].newCenters /\ u \in Tx
    BY <2>2, MoveOK DEF LocalOK
  <2>5. t = [u EXCEPT !.newCenters = u.newCenters \cup {c}]
    BY <2>4, SessionFacts DEF Tx
  <2> HIDE DEF t, u, c
  <2>6. /\ t \in Tx /\ t.pc = u.pc /\ t.req = u.req /\ t.i = u.i /\ t.rows = u.rows
        /\ t.created = u.created /\ t.skipped = u.skipped
        /\ t.newCenters = u.newCenters \cup {c}
    BY <2>3, <2>4, <2>5 DEF Tx
  <2>7. LocalOK(t)
    BY <2>4, <2>6 DEF LocalOK, RowsOK, Counts, ItemOf
  <2>8. ItemOf(t).center = c
    BY <2>4, <2>6 DEF ItemOf, c
  <2>9. SharedOK(t)
    BY <1>1, <2>4, <2>6, <2>8, SessionFacts DEF SharedOK
  <2>10. KeysOf(t) = Keys(s)
    BY <2>4, <2>6 DEF KeysOf, Keys
  <2>11. \A v \in Session \ {s} : KeysOf(t) \cap Keys(v) = {}
    BY <2>10, SessionFacts
  <2> QED BY <1>1, <2>1, <2>7, <2>9, <2>11, SessionStep
<1> QED BY <1>2, <1>3

\* The row is new: its key is neither in the table nor among the session's own.
LEMMA WithRowOK ==
    ASSUME IInv, NEW s \in Session, tx[s].pc = "insert", ~Found(s, Current(s).key)
    PROVE  /\ LocalOK(WithRow(s)) /\ WithRow(s).pc # "insert"
           /\ WithRow(s).rows = tx[s].rows \cup {Current(s)}
           /\ WithRow(s).newCenters = tx[s].newCenters
           /\ Current(s) \in Item
<1> DEFINE u == tx[s]
           n == IF Importing(s) THEN u.created + 1 ELSE u.created
           t == [u EXCEPT !.rows = u.rows \cup {Current(s)}, !.created = n]
           pc == IF Importing(s) THEN "check" ELSE "center"
<1>1. LocalOK(u) /\ u \in Tx /\ u.req \in Post \cup Import
      /\ Len(u.req.items) \in 1 .. MaxRows /\ u.pc = "insert" /\ ItemOf(u) = Current(s)
  BY SessionFacts
<1>2. Current(s) \in Item /\ u.i \in 1 .. MaxRows /\ u.i <= Len(u.req.items)
      /\ MaxRows \in Nat
  BY <1>1, BoundsAssumption DEF LocalOK, AtItem, Writing, Tx
<1>3. n \in 0 .. MaxRows
  BY <1>1, <1>2 DEF LocalOK, Counts, Tx, Importing
<1>4. t = [tx[s] EXCEPT !.rows = @ \cup {Current(s)},
                        !.created = IF Importing(s) THEN @ + 1 ELSE @]
  BY <1>1 DEF Tx
<1>5. WithRow(s) = NextItem(t, pc) /\ pc \in {"check", "center"}
  BY <1>4 DEF WithRow
<1>6. Current(s).key \notin Keys(s) /\ Current(s) \notin u.rows
  BY DEF Found, Keys
<1>7. Importing(s) <=> u.req.op = "import"
  BY DEF Importing
<1>8. \A r \in u.rows : r.key # Current(s).key
  BY <1>6 DEF Keys
<1> HIDE DEF u, n
<1>9. t \in Tx /\ t.req = u.req /\ t.i = u.i /\ t.rows = u.rows \cup {Current(s)}
      /\ t.created = n /\ t.skipped = u.skipped /\ t.newCenters = u.newCenters
  BY <1>1, <1>2, <1>3 DEF Tx
<1> HIDE DEF t
<1>10. IsFiniteSet(u.rows)
  BY <1>1 DEF LocalOK, RowsOK
<1>11. /\ IsFiniteSet(t.rows) /\ Cardinality(t.rows) = Cardinality(u.rows) + 1
       /\ Cardinality(u.rows) \in Nat
  BY <1>6, <1>9, <1>10, FS_AddElement, FS_CardinalityType
<1>12. RowsOK(t)
  BY <1>1, <1>8, <1>9, <1>11 DEF LocalOK, RowsOK
<1>13. Counts(t, t.i)
  <2>1. u.skipped \in Nat /\ u.created \in Nat /\ u.i \in Nat
    BY <1>1 DEF Tx
  <2> QED BY <1>1, <1>7, <1>9, <1>11, <2>1 DEF LocalOK, Counts, n
<1>14. u.req.op = "import" => pc = "check"
  BY <1>7
<1> HIDE DEF pc
<1>15. LocalOK(NextItem(t, pc)) /\ NextItem(t, pc).pc # "insert"
       /\ NextItem(t, pc).rows = t.rows /\ NextItem(t, pc).newCenters = t.newCenters
  BY <1>1, <1>2, <1>5, <1>9, <1>12, <1>13, <1>14, NextItemOK
<1> QED BY <1>2, <1>5, <1>9, <1>15 DEF u

LEMMA InsertBatchIInv ==
    ASSUME IInv, NEW s \in Session, InsertBatch(s)
    PROVE  IInv'
<1>1. /\ UNCHANGED <<batch, centers>> /\ subscribed' \in BOOLEAN
      /\ started' \in 0 .. MaxRequests /\ faults' \in 0 .. MaxFaults
      /\ tx[s].pc = "insert"
      /\ \A t \in Session \ {s} : Current(s).key \notin Keys(t)
  BY SessionFacts DEF InsertBatch, Rows
<1>2. CASE Found(s, Current(s).key)
  <2>1. End(s)
    BY <1>2 DEF InsertBatch
  <2> QED BY <1>1, <2>1, EndIInv
<1>3. CASE ~Found(s, Current(s).key)
  <2> DEFINE t == WithRow(s)
  <2>1. tx' = [tx EXCEPT ![s] = t]
    BY <1>3 DEF InsertBatch, Set
  <2>2. /\ LocalOK(t) /\ t.pc # "insert" /\ t.rows = tx[s].rows \cup {Current(s)}
        /\ t.newCenters = tx[s].newCenters /\ Current(s) \in Item
    BY <1>1, <1>3, WithRowOK
  <2> HIDE DEF t
  <2>3. batch[Current(s).key] = Absent
    BY <1>3 DEF Found
  <2>4. Current(s).center \in centers \cup tx[s].newCenters
    BY <1>1, SessionFacts DEF SharedOK
  <2>5. SharedOK(t)
    <3>1. \A r \in t.rows : batch[r.key] = Absent /\ r.center \in centers \cup t.newCenters
      BY <2>2, <2>3, <2>4, SessionFacts DEF SharedOK
    <3>2. \A c \in t.newCenters : \E r \in t.rows : r.center = c
      BY <2>2, SessionFacts DEF SharedOK
    <3> QED BY <2>2, <3>1, <3>2 DEF SharedOK
  <2>6. KeysOf(t) = Keys(s) \cup {Current(s).key}
    BY <2>2 DEF KeysOf, Keys
  <2>7. ASSUME NEW u \in Session \ {s} PROVE KeysOf(t) \cap Keys(u) = {}
    BY <1>1, <2>6, SessionFacts
  <2> QED BY <1>1, <2>1, <2>2, <2>5, <2>7, SessionStep
<1> QED BY <1>2, <1>3

\* The two steps of the report.
LEMMA ReportIInv ==
    ASSUME IInv, NEW s \in Session, ReportSelect(s) \/ ReportInsert(s)
    PROVE  IInv'
<1>1. /\ UNCHANGED <<batch, centers>> /\ subscribed' \in BOOLEAN
      /\ started' \in 0 .. MaxRequests /\ faults' \in 0 .. MaxFaults
      /\ tx[s].pc \in {"report", "reporting"}
  BY SessionFacts DEF ReportSelect, ReportInsert, Rows
<1>2. CASE End(s)
  BY <1>1, <1>2, EndIInv
<1>3. ASSUME NEW pc \in {"reporting", "done"},
             tx' = [tx EXCEPT ![s] = [tx[s] EXCEPT !.pc = pc]]
      PROVE  IInv'
  <2> DEFINE t == [tx[s] EXCEPT !.pc = pc]
  <2>1. /\ LocalOK(tx[s]) /\ tx[s] \in Tx /\ tx[s].req \in Post \cup Import
    BY <1>1, SessionFacts
  <2>2. /\ t \in Tx /\ t.pc = pc /\ t.i = tx[s].i /\ t.req = tx[s].req
        /\ t.rows = tx[s].rows /\ t.newCenters = tx[s].newCenters
        /\ t.created = tx[s].created /\ t.skipped = tx[s].skipped
    BY <2>1 DEF Tx
  <2>3. tx' = [tx EXCEPT ![s] = t]
    BY <1>3
  <2> HIDE DEF t
  <2>4. RowsOK(t) /\ Counts(t, t.i - 1)
    BY <2>1, <2>2 DEF LocalOK, RowsOK, Counts
  <2>5. LocalOK(t)
    BY <1>1, <2>1, <2>2, <2>4 DEF LocalOK, AtItem, Writing
  <2> QED BY <1>1, <2>2, <2>3, <2>5, SameRowsStep
<1>4. \/ End(s)
      \/ \E pc \in {"reporting", "done"} : tx' = [tx EXCEPT ![s] = [tx[s] EXCEPT !.pc = pc]]
  BY DEF ReportSelect, ReportInsert, Set
<1> QED BY <1>2, <1>3, <1>4

\* What a commit writes into the table.
LEMMA CommitWrites ==
    ASSUME IInv, NEW s \in Session, Commit(s)
    PROVE  /\ \A k \in Key \ Keys(s) : batch'[k] = batch[k]
           /\ \A r \in tx[s].rows : r.key \in Key /\ batch'[r.key] = r.center
           /\ \A r \in tx[s].rows : batch[r.key] = Absent /\ r.center \in centers'
           /\ \A k \in Keys(s) : \E r \in tx[s].rows : r.key = k
           /\ batch' \in [Key -> Center \cup {Absent}]
           /\ \A c \in tx[s].newCenters : \E r \in tx[s].rows : r.center = c
<1>1. LocalOK(tx[s]) /\ SharedOK(tx[s]) /\ tx[s] \in Tx /\ tx[s].pc = "done"
      /\ centers' = centers \cup tx[s].newCenters
  BY SessionFacts DEF Commit
<1>2. \A r \in tx[s].rows : r \in Item /\ r.key \in Key /\ r.center \in Center /\ r.key \in Keys(s)
  BY <1>1 DEF Tx, Item, Keys
<1>3. ASSUME NEW r \in tx[s].rows
      PROVE  (CHOOSE q \in tx[s].rows : q.key = r.key) = r
  <2> DEFINE q == CHOOSE q \in tx[s].rows : q.key = r.key
  <2>1. q \in tx[s].rows /\ q.key = r.key
    OBVIOUS
  <2> QED BY <1>1, <2>1 DEF LocalOK, RowsOK
<1>4. \A k \in Key : batch'[k] = IF k \in Keys(s)
                                 THEN (CHOOSE q \in tx[s].rows : q.key = k).center
                                 ELSE batch[k]
  BY DEF Commit
<1>5. \A r \in tx[s].rows : batch'[r.key] = r.center
  BY <1>2, <1>3, <1>4
<1>6. \A k \in Keys(s) : \E r \in tx[s].rows : r.key = k
  BY DEF Keys
<1>7. \A k \in Key : batch'[k] \in Center \cup {Absent}
  BY <1>2, <1>4, <1>5, <1>6 DEF IInv, TypeOK
<1>8. batch' \in [Key -> Center \cup {Absent}]
  BY <1>7 DEF Commit
<1> QED BY <1>1, <1>2, <1>4, <1>5, <1>6, <1>8 DEF SharedOK

LEMMA CommitIInv ==
    ASSUME IInv, NEW s \in Session, Commit(s)
    PROVE  IInv'
<1>1. /\ tx \in [Session -> Tx] /\ IdleTx \in Tx /\ LocalOK(IdleTx)
      /\ tx' = [tx EXCEPT ![s] = IdleTx] /\ centers' = centers \cup tx[s].newCenters
      /\ UNCHANGED <<subscribed, started, faults>>
  BY IdleOK DEF IInv, TypeOK, Commit, End, Set, LocalOK
<1>2. TypeOK'
  <2>1. tx[s].newCenters \subseteq Center
    BY <1>1 DEF Tx
  <2> QED BY <1>1, <2>1, CommitWrites DEF IInv, TypeOK
<1>3. tx'[s] = IdleTx /\ Keys(s)' = {}
  BY <1>1 DEF Keys, IdleTx
<1>4. \A u \in Session \ {s} : tx'[u] = tx[u] /\ Keys(u)' = Keys(u)
  BY <1>1 DEF Keys
<1>5. ASSUME NEW u \in Session PROVE LocalOK(tx[u])'
  <2>1. LocalOK(tx'[u])
    BY <1>1, <1>3, <1>4 DEF IInv
  <2> QED BY <2>1 DEF LocalOK
<1>6. ASSUME NEW u \in Session PROVE SharedOK(tx[u])'
  <2>1. CASE u = s
    BY <1>3, <2>1 DEF SharedOK, IdleTx
  <2>2. CASE u # s
    <3>1. SharedOK(tx[u]) /\ tx[u] \in Tx /\ tx'[u] = tx[u]
      BY <1>1, <1>4, <2>2 DEF IInv
    <3>2. ASSUME NEW r \in tx[u].rows PROVE batch'[r.key] = Absent
      <4>1. r.key \in Key \ Keys(s)
        <5>1. r.key \in Keys(u) /\ r.key \in Key
          BY <3>1 DEF Keys, Tx, Item
        <5> QED BY <2>2, <5>1 DEF IInv
      <4> QED BY <3>1, <4>1, CommitWrites DEF SharedOK
    <3>3. centers \subseteq centers'
      BY <1>1
    <3> QED BY <3>1, <3>2, <3>3 DEF SharedOK
  <2> QED BY <2>1, <2>2
<1>7. ASSUME NEW u \in Session, NEW v \in Session, u # v
      PROVE  (Keys(u) \cap Keys(v) = {})'
  BY <1>3, <1>4, <1>7 DEF IInv
<1>8. CentersUsed'
  <2> SUFFICES ASSUME NEW c \in centers' PROVE \E k \in Key : batch'[k] = c
    BY DEF CentersUsed
  <2>1. CASE c \in tx[s].newCenters
    BY <2>1, CommitWrites
  <2>2. CASE c \in centers
    <3>1. PICK k \in Key : batch[k] = c
      BY <2>2 DEF IInv, CentersUsed
    <3>2. c # Absent
      BY <2>2, RowsAssumption DEF IInv, TypeOK
    <3>3. k \notin Keys(s)
      BY <3>1, <3>2, CommitWrites
    <3> QED BY <3>1, <3>3, CommitWrites
  <2> QED BY <1>1, <2>1, <2>2
<1>9. CentersExist'
  <2> SUFFICES ASSUME NEW k \in Key, batch'[k] # Absent PROVE batch'[k] \in centers'
    BY DEF CentersExist
  <2>1. CASE k \in Keys(s)
    BY <2>1, CommitWrites
  <2>2. CASE k \notin Keys(s)
    BY <1>1, <2>2, CommitWrites DEF IInv, CentersExist
  <2> QED BY <2>1, <2>2
<1> QED BY <1>2, <1>5, <1>6, <1>7, <1>8, <1>9 DEF IInv

LEMMA AbortIInv ==
    ASSUME IInv, NEW s \in Session, Rollback(s) \/ DeadlockVictim(s)
    PROVE  IInv'
<1>1. /\ End(s) /\ UNCHANGED <<batch, centers>> /\ subscribed' \in BOOLEAN
      /\ started' \in 0 .. MaxRequests
  BY SessionFacts DEF Rollback, DeadlockVictim, Rows
<1>2. faults' \in 0 .. MaxFaults
  BY SessionFacts, BoundsAssumption DEF Rollback, DeadlockVictim
<1> QED BY <1>1, <1>2, EndIInv

LEMMA CreationNext == IInv /\ [Next]_vars => IInv'
<1> SUFFICES ASSUME IInv, [Next]_vars PROVE IInv'
  OBVIOUS
<1>1. CASE Unsubscribe
  BY <1>1, UnsubscribeIInv
<1>2. ASSUME NEW s \in Session, NEW r \in Post \cup Import, Start(s, r) PROVE IInv'
  BY <1>2, StartIInv
<1>3. ASSUME NEW s \in Session, Step(s) PROVE IInv'
  BY <1>3, CheckKeyIInv, FindCenterIInv, InsertCenterIInv, InsertBatchIInv,
     ReportIInv, CommitIInv DEF Step
<1>4. ASSUME NEW s \in Session, Rollback(s) \/ DeadlockVictim(s) PROVE IInv'
  BY <1>4, AbortIInv
<1>5. CASE UNCHANGED vars
  <2>1. TypeOK'
    BY <1>5 DEF IInv, TypeOK, vars
  <2>2. ASSUME NEW s \in Session
        PROVE  LocalOK(tx[s])' /\ SharedOK(tx[s])' /\ Keys(s)' = Keys(s)
    BY <1>5 DEF IInv, vars, LocalOK, SharedOK, Keys
  <2>3. CentersUsed' /\ CentersExist'
    BY <1>5 DEF IInv, vars, CentersUsed, CentersExist
  <2> QED BY <2>1, <2>2, <2>3 DEF IInv
<1> QED BY <1>1, <1>2, <1>3, <1>4, <1>5 DEF Next

-----------------------------------------------------------------------------
(* Theorems.                                                               *)

\* The inductive invariant: what each session knows of its rows, of the tables
\* and of the other sessions.
THEOREM CreationInvariance == Spec => []IInv
  BY CreationInit, CreationNext, PTL DEF Spec

\* The types of rows and sessions.
THEOREM CreationTypeCorrect == Spec => []TypeOK
<1>1. IInv => TypeOK
  BY DEF IInv
<1> QED BY <1>1, CreationInvariance, PTL

\* The counts that an import returns and announces are those of the rows its
\* commit leaves in the table (_import_batches_from_file_async).
THEOREM SummaryIsTrue == Spec => []SummaryTrue
<1>1. IInv => SummaryTrue
  <2> SUFFICES ASSUME IInv, NEW s \in Session, Importing(s), tx[s].pc = "done"
               PROVE  /\ tx[s].created = Cardinality(tx[s].rows)
                      /\ tx[s].created + tx[s].skipped = Len(Items(s))
    BY DEF SummaryTrue
  <2>1. LocalOK(tx[s]) /\ Len(tx[s].req.items) \in Nat
    BY SessionFacts
  <2> QED BY <2>1 DEF LocalOK, Counts, Importing, Items
<1> QED BY <1>1, CreationInvariance, PTL

\* Work centers appear with their first batch and no batch lacks its own
\* (WorkCenterRepository.get_or_create inside the transaction of the batch).
THEOREM CentersWithBatches == Spec => [](CentersUsed /\ CentersExist)
<1>1. IInv => CentersUsed /\ CentersExist
  BY DEF IInv
<1> QED BY <1>1, CreationInvariance, PTL

\* Every batch of the table refers to a work center that is there: a batch whose
\* center was created by a session that was rolled back is never left behind.
THEOREM CentersOfBatches == Spec => []CentersExist
<1>1. IInv => CentersExist
  BY DEF IInv
<1> QED BY <1>1, CreationInvariance, PTL

\* A committed batch is never created again, however the look-ups of concurrent
\* sessions interleave (create_batches; the unique constraint of batches).
THEOREM NeverCreatedTwice == Spec => CreatedOnce
<1>1. IInv /\ [Next]_vars => [\A k \in Key : batch[k] # Absent => batch'[k] = batch[k]]_vars
  <2> SUFFICES ASSUME IInv, Next, NEW k \in Key, batch[k] # Absent
               PROVE  batch'[k] = batch[k]
    OBVIOUS
  <2>1. CASE \E s \in Session : Commit(s)
    <3>1. PICK s \in Session : Commit(s)
      BY <2>1
    <3>2. k \notin Keys(s)
      BY <3>1, CommitWrites
    <3> QED BY <3>1, <3>2, CommitWrites
  <2>2. CASE ~\E s \in Session : Commit(s)
    BY <2>2 DEF Next, Step, Unsubscribe, Start, CheckKey, FindCenter, InsertCenter,
       InsertBatch, ReportSelect, ReportInsert, Rollback, DeadlockVictim, Rows
  <2> QED BY <2>1, <2>2
<1> QED BY <1>1, CreationInvariance, PTL DEF Spec, CreatedOnce

-----------------------------------------------------------------------------
(***************************************************************************)
(* BatchCreation implements Registry. What a session has found while it    *)
(* looked remains true until it commits: no batch is ever deleted, and     *)
(* nobody commits a key that the session has inserted. At its end it has   *)
(* rows for exactly those keys of its request that the table still lacks,  *)
(* each of them the first that names its key.                              *)
(***************************************************************************)

\* The items a session has done with: a POST first looks at all of them.
Done(t) == IF t.req.op # "import" /\ t.pc = "check" THEN 0 ELSE t.i - 1

FirstNamed(r, t, n) ==
    \E j \in 1 .. n :
       /\ t.req.items[j] = r
       /\ \A m \in 1 .. j - 1 : t.req.items[m] # Unreadable => t.req.items[m].key # r.key

\* The keys it has done with are its own or, for an import, in table T.
ReadsOK(t, T) ==
    /\ t.pc = "idle" => t = IdleTx
    /\ \A j \in 1 .. Done(t) : t.req.items[j] # Unreadable =>
         \/ t.req.items[j].key \in KeysOf(t)
         \/ t.req.op = "import" /\ T[t.req.items[j].key] # Absent
    /\ \A r \in t.rows : FirstNamed(r, t, Done(t))

SerialInv == IInv /\ \A s \in Session : ReadsOK(tx[s], batch)

LEMMA ItemKey == \A x \in Item : x.key \in Key /\ x.center \in Center /\ x # Unreadable
  BY UnreadableAssumption DEF Item

LEMMA IdleReads == ASSUME NEW T PROVE ReadsOK(IdleTx, T)
  BY DEF ReadsOK, Done, IdleTx

\* The items a session has done with are items of its request.
LEMMA DoneItems ==
    ASSUME NEW t, LocalOK(t), t.pc # "idle"
    PROVE  /\ Done(t) \in 0 .. Len(t.req.items) /\ t.i \in Nat /\ Len(t.req.items) \in Nat
           /\ t.req.op = "import" \/ t.req.op = "post"
           /\ \A j \in 1 .. Len(t.req.items) :
                /\ t.req.items[j] # Unreadable => t.req.items[j] \in Item
                /\ t.req.op # "import" => t.req.items[j] \in Item
<1>1. /\ t \in Tx /\ t.req \in Post \cup Import
      /\ Len(t.req.items) \in 1 .. MaxRows /\ t.i \in 1 .. MaxRows + 1 /\ MaxRows \in Nat
  BY ItemsOK, BoundsAssumption DEF LocalOK, Tx
<1>2. t.pc \in AtItem \/ t.pc \in {"report", "reporting", "done"}
  BY <1>1 DEF Tx, AtItem
<1>3. t.i \in 1 .. Len(t.req.items) + 1
  BY <1>1, <1>2 DEF LocalOK
<1>4. Done(t) \in 0 .. Len(t.req.items)
  BY <1>1, <1>3 DEF Done
<1> QED BY <1>1, <1>4, ItemsOK

\* What is found stays found while the table grows.
LEMMA ReadsGrow ==
    ASSUME NEW t, LocalOK(t), NEW S, NEW T, ReadsOK(t, S),
           \A k \in Key : S[k] # Absent => T[k] # Absent
    PROVE  ReadsOK(t, T)
<1>1. CASE t.pc = "idle"
  BY <1>1, IdleReads DEF ReadsOK
<1>2. CASE t.pc # "idle"
  <2>1. ASSUME NEW j \in 1 .. Done(t), t.req.items[j] # Unreadable
        PROVE  t.req.items[j].key \in Key
    <3>1. j \in 1 .. Len(t.req.items)
      BY <1>2, DoneItems
    <3> QED BY <1>2, <2>1, <3>1, DoneItems, ItemKey
  <2> QED BY <2>1 DEF ReadsOK
<1> QED BY <1>1, <1>2

\* A step that is done with no further item, and inserts nothing.
LEMMA ReadsStay ==
    ASSUME NEW t, NEW n, NEW T, ReadsOK(t, T), n.pc # "idle",
           n.req = t.req, n.rows = t.rows, Done(n) = Done(t)
    PROVE  ReadsOK(n, T)
  BY DEF ReadsOK, KeysOf, FirstNamed

\* An import is done with a row that it skips.
LEMMA ReadsSkip ==
    ASSUME NEW t, NEW n, NEW T, LocalOK(t), ReadsOK(t, T), t.pc # "idle", n.pc # "idle",
           t.req.op = "import", n.req = t.req, n.rows = t.rows, n.i = t.i + 1,
           \/ ItemOf(t) = Unreadable
           \/ T[ItemOf(t).key] # Absent
           \/ ItemOf(t).key \in KeysOf(t)
    PROVE  ReadsOK(n, T)
<1>1. Done(t) = t.i - 1 /\ Done(n) = t.i /\ t.i \in Nat
  BY DoneItems DEF Done
<1>2. \A j \in 1 .. Done(n) : j \in 1 .. Done(t) \/ j = t.i
  BY <1>1
<1>3. \A r \in n.rows : FirstNamed(r, n, Done(n))
  <2>1. 1 .. Done(t) \subseteq 1 .. Done(n)
    BY <1>1
  <2> QED BY <2>1 DEF ReadsOK, FirstNamed
<1>4. KeysOf(n) = KeysOf(t)
  BY DEF KeysOf
<1> QED BY <1>2, <1>3, <1>4 DEF ReadsOK, ItemOf

\* A session is done with a row that it inserts.
LEMMA ReadsInsert ==
    ASSUME NEW t, NEW n, NEW T, LocalOK(t), ReadsOK(t, T), t.pc = "insert", n.pc # "idle",
           n.req = t.req, n.rows = t.rows \cup {ItemOf(t)}, n.i = t.i + 1,
           t.req.op # "import" => n.pc # "check",
           T[ItemOf(t).key] = Absent, ItemOf(t).key \notin KeysOf(t)
    PROVE  ReadsOK(n, T)
<1>1. Done(t) = t.i - 1 /\ Done(n) = t.i /\ t.i \in Nat \ {0}
  BY DoneItems, BoundsAssumption DEF Done, LocalOK, Tx
<1>2. \A j \in 1 .. Done(n) : j \in 1 .. Done(t) \/ j = t.i
  BY <1>1
<1>3. KeysOf(n) = KeysOf(t) \cup {ItemOf(t).key}
  BY DEF KeysOf
<1>4. ASSUME NEW r \in t.rows PROVE FirstNamed(r, n, Done(n))
  <2>1. 1 .. Done(t) \subseteq 1 .. Done(n)
    BY <1>1
  <2> QED BY <2>1 DEF ReadsOK, FirstNamed
<1>5. FirstNamed(ItemOf(t), n, Done(n))
  <2>1. t.i \in 1 .. Done(n) /\ n.req.items[t.i] = ItemOf(t)
    BY <1>1 DEF ItemOf
  <2>2. ASSUME NEW m \in 1 .. t.i - 1, n.req.items[m] # Unreadable
        PROVE  n.req.items[m].key # ItemOf(t).key
    BY <1>1, <2>2 DEF ReadsOK
  <2> QED BY <2>1, <2>2 DEF FirstNamed
<1> QED BY <1>2, <1>3, <1>4, <1>5 DEF ReadsOK, ItemOf

LEMMA NextItemFields ==
    ASSUME NEW t \in Tx, NEW pc \in {"check", "center"}
    PROVE  LET n == NextItem(t, pc) IN
           /\ n.i = t.i + 1 /\ n.req = t.req /\ n.rows = t.rows
           /\ n.pc \in {pc, "report", "done"}
  BY DEF NextItem, Tx

\* One session moves, and knows of its request what it should; the table stays.
Moved(s) == \E t : tx' = [tx EXCEPT ![s] = t] /\ ReadsOK(t, batch)

LEMMA EndMoved == ASSUME NEW s \in Session, End(s) PROVE Moved(s)
  BY IdleReads DEF End, Set, Moved

LEMMA ReadsFacts ==
    ASSUME SerialInv, NEW s \in Session
    PROVE  /\ LocalOK(tx[s]) /\ tx[s] \in Tx /\ ReadsOK(tx[s], batch)
           /\ ItemOf(tx[s]) = Current(s) /\ KeysOf(tx[s]) = Keys(s)
           /\ Importing(s) <=> tx[s].req.op = "import"
           /\ Done(tx[s]) = IF ~Importing(s) /\ tx[s].pc = "check" THEN 0 ELSE tx[s].i - 1
  BY SessionFacts DEF SerialInv, Importing, Done

LEMMA CheckKeyReads ==
    ASSUME SerialInv, NEW s \in Session, CheckKey(s)
    PROVE  Moved(s)
<1> DEFINE u == tx[s]
<1>1. /\ LocalOK(u) /\ u \in Tx /\ ReadsOK(u, batch) /\ u.pc = "check"
      /\ ItemOf(u) = Current(s) /\ KeysOf(u) = Keys(s)
      /\ Importing(s) <=> u.req.op = "import"
  BY ReadsFacts DEF CheckKey
<1>2. CASE Importing(s) /\ (Current(s) = Unreadable \/ Found(s, Current(s).key))
  <2> DEFINE t == SkipRow(u)
             k == [u EXCEPT !.skipped = @ + 1]
  <2>1. tx' = [tx EXCEPT ![s] = t]
    BY <1>2 DEF CheckKey, Set
  <2>2. SkipRow(u) = NextItem(k, "check")
    BY DEF SkipRow
  <2>3. k.i = u.i /\ k.req = u.req /\ k.rows = u.rows
    BY <1>1 DEF Tx
  <2>4. t.i = u.i + 1 /\ t.req = u.req /\ t.rows = u.rows /\ t.pc # "idle"
    <3>1. \/ t = [k EXCEPT !.i = k.i + 1, !.pc = "check"]
          \/ t = [k EXCEPT !.i = k.i + 1, !.pc = "report"]
          \/ t = [k EXCEPT !.i = k.i + 1, !.pc = "done"]
      BY <2>2 DEF NextItem
    <3>2. k = [u EXCEPT !.skipped = u.skipped + 1]
      OBVIOUS
    <3> HIDE DEF t, k, u
    <3> QED BY <1>1, <2>3, <3>1, <3>2 DEF Tx
  <2>5. Current(s) = Unreadable \/ batch[Current(s).key] # Absent
        \/ Current(s).key \in Keys(s)
    BY <1>2 DEF Found
  <2> HIDE DEF t, k, u
  <2>6. ReadsOK(t, batch)
    BY <1>1, <1>2, <2>4, <2>5, ReadsSkip
  <2> QED BY <2>1, <2>6 DEF Moved
<1>3. ASSUME NEW t, tx' = [tx EXCEPT ![s] = t],
             t.pc # "idle", t.req = u.req, t.rows = u.rows, Done(t) = Done(u)
      PROVE  Moved(s)
  <2>1. ReadsOK(t, batch)
    BY <1>1, <1>3, ReadsStay
  <2> QED BY <1>3, <2>1 DEF Moved
<1>4. CASE Importing(s) /\ ~(Current(s) = Unreadable \/ Found(s, Current(s).key))
  <2> DEFINE t == [u EXCEPT !.pc = "center"]
  <2>1. tx' = [tx EXCEPT ![s] = t]
    BY <1>4 DEF CheckKey, Set
  <2>2. t.pc = "center" /\ t.req = u.req /\ t.rows = u.rows /\ t.i = u.i
    BY <1>1 DEF Tx
  <2>3. Done(t) = Done(u)
    BY <1>1, <1>4, <2>2 DEF Done
  <2> HIDE DEF t
  <2> QED BY <1>3, <2>1, <2>2, <2>3
<1>5. CASE ~Importing(s)
  <2>1. CASE Found(s, Current(s).key)
    BY <1>5, <2>1, EndMoved DEF CheckKey
  <2>2. CASE ~Found(s, Current(s).key)
    <3>1. PICK t : /\ tx' = [tx EXCEPT ![s] = t]
                   /\ \/ t = [u EXCEPT !.i = u.i + 1]
                      \/ t = [u EXCEPT !.i = 1, !.pc = "center"]
      BY <1>5, <2>2 DEF CheckKey, Set
    <3>2. /\ t.pc # "idle" /\ t.req = u.req /\ t.rows = u.rows
          /\ t.pc = "check" \/ t.i = 1
      <4> HIDE DEF u
      <4> QED BY <1>1, <3>1 DEF Tx
    <3>3. Done(t) = 0 /\ Done(u) = 0
      BY <1>1, <1>5, <3>2 DEF Done
    <3> QED BY <1>3, <3>1, <3>2, <3>3
  <2> QED BY <2>1, <2>2
<1> QED BY <1>2, <1>4, <1>5

\* The steps that keep the place in the request.
LEMMA SamePlaceReads ==
    ASSUME SerialInv, NEW s \in Session,
           FindCenter(s) \/ InsertCenter(s) \/ ReportSelect(s) \/ ReportInsert(s)
    PROVE  Moved(s)
<1> DEFINE u == tx[s]
<1>1. /\ LocalOK(u) /\ u \in Tx /\ ReadsOK(u, batch)
      /\ u.pc \in {"center", "newcenter", "report", "reporting"}
  BY ReadsFacts DEF FindCenter, InsertCenter, ReportSelect, ReportInsert
<1>2. CASE End(s)
  BY <1>2, EndMoved
<1>3. CASE ~End(s)
  <2>1. PICK t : /\ tx' = [tx EXCEPT ![s] = t]
                 /\ \/ \E pc \in {"insert", "newcenter", "reporting", "done"} :
                         t = [u EXCEPT !.pc = pc]
                    \/ t = [u EXCEPT !.newCenters = u.newCenters \cup {Current(s).center},
                                     !.pc = "insert"]
    BY <1>3, Zenon DEF FindCenter, InsertCenter, ReportSelect, ReportInsert, Set
  <2>2. t.req = u.req /\ t.rows = u.rows /\ t.i = u.i /\ t.pc \notin {"idle", "check"}
    <3> HIDE DEF u
    <3> QED BY <1>1, <2>1 DEF Tx
  <2>3. Done(t) = Done(u)
    BY <1>1, <2>2 DEF Done
  <2> HIDE DEF u
  <2>4. ReadsOK(t, batch)
    BY <1>1, <2>2, <2>3, ReadsStay
  <2> QED BY <2>1, <2>4 DEF Moved
<1> QED BY <1>2, <1>3

LEMMA InsertBatchReads ==
    ASSUME SerialInv, NEW s \in Session, InsertBatch(s)
    PROVE  Moved(s)
<1>1. CASE Found(s, Current(s).key)
  BY <1>1, EndMoved DEF InsertBatch
<1>2. CASE ~Found(s, Current(s).key)
  <2> DEFINE u == tx[s]
             t == WithRow(s)
             k == [u EXCEPT !.rows = u.rows \cup {Current(s)},
                            !.created = IF Importing(s) THEN u.created + 1 ELSE u.created]
  <2>1. tx' = [tx EXCEPT ![s] = t]
    BY <1>2 DEF InsertBatch, Set
  <2>2. /\ LocalOK(u) /\ u \in Tx /\ ReadsOK(u, batch) /\ u.pc = "insert"
        /\ ItemOf(u) = Current(s) /\ KeysOf(u) = Keys(s)
        /\ Importing(s) <=> u.req.op = "import"
    BY ReadsFacts DEF InsertBatch
  <2>3. t = NextItem(k, IF Importing(s) THEN "check" ELSE "center")
    BY <2>2 DEF WithRow, Tx
  <2>4. /\ t.i = u.i + 1 /\ t.req = u.req /\ t.rows = u.rows \cup {Current(s)}
        /\ t.pc # "idle" /\ (t.pc = "check" => Importing(s))
    <3>1. PICK pc \in {"check", "center", "report", "done"} :
             t = [k EXCEPT !.i = k.i + 1, !.pc = pc] /\ (pc = "check" => Importing(s))
      BY <2>3 DEF NextItem
    <3>2. k.i = u.i /\ k.req = u.req /\ k.rows = u.rows \cup {Current(s)}
          /\ DOMAIN k = DOMAIN u
      BY <2>2 DEF Tx
    <3>3. {"i", "pc", "req", "rows"} \subseteq DOMAIN u
      BY <2>2 DEF Tx
    <3> HIDE DEF t, k, u
    <3> QED BY <3>1, <3>2, <3>3
  <2>5. batch[Current(s).key] = Absent /\ Current(s).key \notin Keys(s)
    BY <1>2 DEF Found
  <2> HIDE DEF t, k, u
  <2>6. /\ t.rows = u.rows \cup {ItemOf(u)}
        /\ batch[ItemOf(u).key] = Absent /\ ItemOf(u).key \notin KeysOf(u)
        /\ u.req.op # "import" => t.pc # "check"
    BY <2>2, <2>4, <2>5
  <2>7. ReadsOK(t, batch)
    BY <2>2, <2>4, <2>6, ReadsInsert
  <2> QED BY <2>1, <2>7 DEF Moved
<1> QED BY <1>1, <1>2

LEMMA StartReads ==
    ASSUME SerialInv, NEW s \in Session, NEW r \in Post \cup Import, Start(s, r)
    PROVE  Moved(s)
<1> DEFINE t == [IdleTx EXCEPT !.pc = "check", !.req = r]
<1>1. tx' = [tx EXCEPT ![s] = t]
  BY DEF Start, Set
<1>2. t.pc = "check" /\ t.req = r /\ t.i = 1 /\ t.rows = {}
  BY DEF IdleTx
<1> HIDE DEF t
<1>3. Done(t) = 0
  BY <1>2 DEF Done
<1>4. ReadsOK(t, batch)
  BY <1>2, <1>3 DEF ReadsOK
<1> QED BY <1>1, <1>4 DEF Moved

\* The table only grows.
LEMMA TableGrows ==
    ASSUME IInv, [Next]_vars, NEW k \in Key, batch[k] # Absent
    PROVE  batch'[k] = batch[k]
<1>1. CASE \E s \in Session : Commit(s)
  <2>1. PICK s \in Session : Commit(s)
    BY <1>1
  <2>2. k \notin Keys(s)
    BY <2>1, CommitWrites
  <2> QED BY <2>1, <2>2, CommitWrites
<1>2. CASE ~\E s \in Session : Commit(s)
  BY <1>2 DEF Next, Step, Unsubscribe, Start, CheckKey, FindCenter, InsertCenter,
     InsertBatch, ReportSelect, ReportInsert, Rollback, DeadlockVictim, Rows, vars
<1> QED BY <1>1, <1>2

LEMMA SomeoneMoves ==
    ASSUME SerialInv, [Next]_vars
    PROVE  tx' = tx \/ \E s \in Session : Moved(s)
<1>1. ASSUME NEW s \in Session, Step(s) PROVE Moved(s)
  <2>1. CASE Commit(s)
    BY <2>1, EndMoved DEF Commit
  <2> QED BY <1>1, <2>1, CheckKeyReads, SamePlaceReads, InsertBatchReads DEF Step
<1>2. ASSUME NEW s \in Session, Rollback(s) \/ DeadlockVictim(s) PROVE Moved(s)
  BY <1>2, EndMoved DEF Rollback, DeadlockVictim
<1> QED BY <1>1, <1>2, StartReads DEF Next, vars, Unsubscribe

LEMMA SerialNext == SerialInv /\ [Next]_vars => SerialInv'
<1> SUFFICES ASSUME SerialInv, [Next]_vars PROVE SerialInv'
  OBVIOUS
<1>1. IInv' /\ \A k \in Key : batch[k] # Absent => batch'[k] # Absent
  BY CreationNext, TableGrows DEF SerialInv
<1>2. ASSUME NEW s \in Session PROVE ReadsOK(tx'[s], batch)
  <2>1. tx \in [Session -> Tx] /\ ReadsOK(tx[s], batch)
    BY DEF SerialInv, IInv, TypeOK
  <2>2. CASE tx' = tx
    BY <2>1, <2>2
  <2>3. ASSUME NEW u \in Session, Moved(u) PROVE ReadsOK(tx'[s], batch)
    <3>1. PICK t : tx' = [tx EXCEPT ![u] = t] /\ ReadsOK(t, batch)
      BY <2>3 DEF Moved
    <3> QED BY <2>1, <3>1
  <2> QED BY <2>2, <2>3, SomeoneMoves
<1>3. ASSUME NEW s \in Session PROVE ReadsOK(tx'[s], batch')
  <2>1. LocalOK(tx[s])'
    BY <1>1 DEF IInv
  <2>2. LocalOK(tx'[s])
    BY <2>1 DEF LocalOK
  <2> QED BY <1>1, <1>2, <2>2, ReadsGrow
<1> QED BY <1>1, <1>3 DEF SerialInv

LEMMA SerialStart == Init => SerialInv
  BY CreationInit, IdleReads DEF Init, SerialInv

-----------------------------------------------------------------------------
(* The steps of the sessions are steps of Registry, or none.               *)

\* At its end a session has rows for what is fresh of its request, and no others.
LEMMA DoneFresh ==
    ASSUME SerialInv, NEW s \in Session, tx[s].pc = "done"
    PROVE  LET q == Items(s) IN
           /\ Serial!Fresh(q) = Keys(s)
           /\ \A r \in tx[s].rows : Serial!FirstRow(q, r.key) = r
           /\ tx[s].req.op = "post" => Serial!Fresh(q) = Serial!KeysIn(q)
<1> DEFINE u == tx[s]
           q == u.req.items
<1>1. /\ LocalOK(u) /\ SharedOK(u) /\ ReadsOK(u, batch) /\ u.pc = "done"
      /\ u \in Tx /\ KeysOf(u) = Keys(s)
  BY ReadsFacts, SessionFacts DEF SerialInv
<1>2. /\ Len(q) \in Nat /\ DOMAIN q = 1 .. Len(q)
      /\ u.req \in Post \cup Import
  <2>1. u.req \in Post \cup Import
    BY <1>1 DEF LocalOK
  <2>2. q \in SeqsUpTo(Item) \/ q \in SeqsUpTo(Item \cup {Unreadable})
    BY <2>1 DEF Post, Import
  <2>3. q \in Seq(Item \cup {Unreadable}) \/ q \in Seq(Item)
    BY <2>2, SeqsUpToOK
  <2> QED BY <2>1, <2>3
<1>3. Done(u) = Len(q)
  BY <1>1, <1>2 DEF Done, LocalOK
<1>4. \A i \in Serial!Readable(q) :
         /\ i \in 1 .. Len(q) /\ q[i] # Unreadable /\ q[i] \in Item /\ q[i].key \in Key
         /\ q[i].key \in Keys(s) \/ (u.req.op = "import" /\ batch[q[i].key] # Absent)
  <2> SUFFICES ASSUME NEW i \in Serial!Readable(q)
               PROVE  /\ i \in 1 .. Len(q) /\ q[i] # Unreadable /\ q[i] \in Item
                      /\ q[i].key \in Key
                      /\ \/ q[i].key \in Keys(s)
                         \/ u.req.op = "import" /\ batch[q[i].key] # Absent
    OBVIOUS
  <2>1. i \in 1 .. Len(q) /\ q[i] # Unreadable
    BY <1>2 DEF Serial!Readable
  <2>2. q[i] \in Item
    BY <1>2, <2>1, ItemsOK
  <2>3. q[i].key \in Key
    BY <2>2, ItemKey
  <2> HIDE DEF u
  <2>4. q[i].key \in Keys(s) \/ (u.req.op = "import" /\ batch[q[i].key] # Absent)
    BY <1>1, <1>3, <2>1 DEF ReadsOK
  <2> QED BY <2>1, <2>2, <2>3, <2>4
<1>5. ASSUME NEW r \in u.rows
      PROVE  /\ r.key \in Keys(s) /\ batch[r.key] = Absent
             /\ Serial!FirstRow(q, r.key) = r
             /\ r.key \in Serial!KeysIn(q)
  <2>1. r \in Item /\ r # Unreadable /\ batch[r.key] = Absent
    BY <1>1, UnreadableAssumption DEF Tx, SharedOK
  <2>2. FirstNamed(r, u, Len(q))
    <3> HIDE DEF u
    <3> QED BY <1>1, <1>3 DEF ReadsOK
  <2>3. PICK j \in 1 .. Len(q) : q[j] = r
           /\ \A m \in 1 .. j - 1 : q[m] # Unreadable => q[m].key # r.key
    BY <2>2 DEF FirstNamed
  <2>4. j \in Serial!Readable(q)
    BY <1>2, <2>1, <2>3 DEF Serial!Readable
  <2> DEFINE P(i) == q[i].key = r.key
                     /\ \A m \in Serial!Readable(q) : q[m].key = r.key => i <= m
  <2>5. P(j)
    <3>1. ASSUME NEW m \in Serial!Readable(q), q[m].key = r.key
          PROVE  j <= m
      <4>1. m \in 1 .. Len(q) /\ q[m] # Unreadable
        BY <1>4
      <4>2. m \notin 1 .. j - 1
        BY <2>3, <3>1, <4>1
      <4> QED BY <1>2, <4>1, <4>2
    <3> QED BY <2>3, <3>1
  <2>6. ASSUME NEW i \in Serial!Readable(q), P(i) PROVE i = j
    <3>1. i <= j /\ j <= i
      BY <2>3, <2>4, <2>5, <2>6
    <3> QED BY <1>2, <1>4, <3>1
  <2>7. (CHOOSE i \in Serial!Readable(q) : P(i)) = j
    <3> HIDE DEF P
    <3> QED BY <2>4, <2>5, <2>6
  <2>8. Serial!FirstRow(q, r.key) = r
    BY <2>3, <2>7 DEF Serial!FirstRow
  <2>9. r.key \in Serial!KeysIn(q)
    BY <2>3, <2>4 DEF Serial!KeysIn
  <2> QED BY <1>1, <2>1, <2>8, <2>9 DEF Keys
<1>6. Serial!Fresh(q) \subseteq Keys(s)
  <2> SUFFICES ASSUME NEW k \in Serial!Fresh(q) PROVE k \in Keys(s)
    OBVIOUS
  <2>1. PICK i \in Serial!Readable(q) : q[i].key = k /\ batch[k] = Absent
    BY DEF Serial!Fresh, Serial!KeysIn
  <2> QED BY <1>4, <2>1
<1>7. Keys(s) \subseteq Serial!Fresh(q)
  <2> SUFFICES ASSUME NEW r \in u.rows PROVE r.key \in Serial!Fresh(q)
    BY DEF Keys
  <2> QED BY <1>5 DEF Serial!Fresh
<1>8. ASSUME u.req.op = "post" PROVE Serial!KeysIn(q) \subseteq Keys(s)
  <2> SUFFICES ASSUME NEW i \in Serial!Readable(q) PROVE q[i].key \in Keys(s)
    BY DEF Serial!KeysIn
  <2> QED BY <1>4, <1>8
<1>9. Serial!Fresh(q) \subseteq Serial!KeysIn(q)
  BY DEF Serial!Fresh
<1>10. Items(s) = q
  BY DEF Items
<1> QED BY <1>5, <1>6, <1>7, <1>8, <1>9, <1>10

\* What is asked of Registry, while one session moves to t.
LEMMA AskedMoves ==
    ASSUME SerialInv, NEW s \in Session, NEW t, tx' = [tx EXCEPT ![s] = t]
    PROVE  [u \in Session |-> tx'[u].req]
               = [[u \in Session |-> tx[u].req] EXCEPT ![s] = t.req]
  BY DEF SerialInv, IInv, TypeOK

\* Somebody who is not idle has asked for something.
LEMMA AskedSomething ==
    ASSUME SerialInv, NEW s \in Session
    PROVE  tx[s].req = IdleTx.req <=> tx[s].pc = "idle"
<1>1. LocalOK(tx[s]) /\ ReadsOK(tx[s], batch)
  BY ReadsFacts
<1>2. IdleTx.req.op = "none"
  BY DEF IdleTx
<1>3. tx[s].pc # "idle" => tx[s].req.op # "none"
  BY <1>1, ItemsOK DEF LocalOK
<1>4. tx[s].pc = "idle" => tx[s] = IdleTx
  BY <1>1 DEF ReadsOK
<1> QED BY <1>2, <1>3, <1>4

LEMMA CommitPerforms ==
    ASSUME SerialInv, NEW s \in Session, Commit(s)
    PROVE  Serial!Perform(s)
<1> DEFINE q == Items(s)
<1>1. IInv /\ tx[s].pc = "done" /\ tx' = [tx EXCEPT ![s] = IdleTx]
      /\ centers' = centers \cup tx[s].newCenters
  BY DEF SerialInv, Commit, End, Set
<1>2. /\ Serial!Fresh(q) = Keys(s)
      /\ \A r \in tx[s].rows : Serial!FirstRow(q, r.key) = r
      /\ tx[s].req.op = "post" => Serial!Fresh(q) = Serial!KeysIn(q)
  BY <1>1, DoneFresh
<1>3. \A k \in Keys(s) : batch'[k] = Serial!FirstRow(q, k).center
                         /\ Serial!FirstRow(q, k).center \in centers'
  <2> SUFFICES ASSUME NEW k \in Keys(s)
               PROVE  batch'[k] = Serial!FirstRow(q, k).center
                      /\ Serial!FirstRow(q, k).center \in centers'
    OBVIOUS
  <2>1. PICK r \in tx[s].rows : r.key = k
    BY <1>1, CommitWrites
  <2>2. Serial!FirstRow(q, k) = r
    BY <1>2, <2>1
  <2> QED BY <1>1, <2>1, <2>2, CommitWrites
<1>4. batch' = [k \in Key |-> IF k \in Serial!Fresh(q)
                              THEN Serial!FirstRow(q, k).center ELSE batch[k]]
  <2>1. batch' \in [Key -> Center \cup {Absent}]
        /\ \A k \in Key \ Keys(s) : batch'[k] = batch[k]
    BY <1>1, CommitWrites
  <2> QED BY <1>2, <1>3, <2>1
<1>5. centers' = centers \cup { Serial!FirstRow(q, k).center : k \in Serial!Fresh(q) }
  <2>1. ASSUME NEW c \in tx[s].newCenters
        PROVE  \E k \in Keys(s) : Serial!FirstRow(q, k).center = c
    <3>1. PICK r \in tx[s].rows : r.center = c
      BY <1>1, CommitWrites
    <3> QED BY <1>2, <3>1 DEF Keys
  <2> QED BY <1>1, <1>2, <1>3, <2>1
<1>6. Serial!Create(q)
  BY <1>4, <1>5 DEF Serial!Create
<1>7. [u \in Session |-> tx'[u].req]
          = [[u \in Session |-> tx[u].req] EXCEPT ![s] = IdleTx.req]
  BY <1>1, AskedMoves
<1>8. tx[s].req # IdleTx.req
  BY <1>1, AskedSomething
<1>9. [u \in Session |-> tx[u].req][s] = tx[s].req
  OBVIOUS
<1> QED BY <1>2, <1>6, <1>7, <1>8, <1>9 DEF Serial!Perform, Items

LEMMA StartAsks ==
    ASSUME SerialInv, NEW s \in Session, NEW r \in Post \cup Import, Start(s, r)
    PROVE  Serial!Ask(s, r)
<1> DEFINE t == [IdleTx EXCEPT !.pc = "check", !.req = r]
<1>1. tx' = [tx EXCEPT ![s] = t] /\ tx[s].pc = "idle" /\ UNCHANGED <<batch, centers>>
  BY DEF Start, Set, Rows
<1>2. t.req = r
  BY DEF IdleTx
<1> HIDE DEF t
<1>3. [u \in Session |-> tx'[u].req] = [[u \in Session |-> tx[u].req] EXCEPT ![s] = r]
  BY <1>1, <1>2, AskedMoves
<1>4. tx[s].req = IdleTx.req
  BY <1>1, AskedSomething
<1> QED BY <1>1, <1>3, <1>4 DEF Serial!Ask

LEMMA EndGivesUp ==
    ASSUME SerialInv, NEW s \in Session, End(s), UNCHANGED <<batch, centers>>,
           tx[s].pc # "idle"
    PROVE  Serial!GiveUp(s)
<1>1. [u \in Session |-> tx'[u].req]
          = [[u \in Session |-> tx[u].req] EXCEPT ![s] = IdleTx.req]
  BY AskedMoves DEF End, Set
<1>2. tx[s].req # IdleTx.req
  BY AskedSomething
<1> QED BY <1>1, <1>2 DEF Serial!GiveUp

\* While a session works nothing of it is seen, and its request stays.
LEMMA WorkUnseen ==
    ASSUME SerialInv, NEW s \in Session, Step(s), ~Commit(s)
    PROVE  Serial!GiveUp(s) \/ UNCHANGED Serial!registry
<1> DEFINE u == tx[s]
<1>1. UNCHANGED <<batch, centers>> /\ u.pc # "idle" /\ u \in Tx
  BY ReadsFacts DEF Step, CheckKey, FindCenter, InsertCenter, InsertBatch,
     ReportSelect, ReportInsert, Rows
<1>2. CASE End(s)
  BY <1>1, <1>2, EndGivesUp
<1>3. ASSUME NEW t, tx' = [tx EXCEPT ![s] = t], t.req = u.req
      PROVE  UNCHANGED Serial!registry
  <2>1. [v \in Session |-> tx'[v].req] = [v \in Session |-> tx[v].req]
    BY <1>3, AskedMoves
  <2> QED BY <1>1, <2>1 DEF Serial!registry
<1>4. ASSUME NEW k, NEW pc \in {"check", "center"}, DOMAIN k = DOMAIN u, k.req = u.req,
             tx' = [tx EXCEPT ![s] = NextItem(k, pc)]
      PROVE  UNCHANGED Serial!registry
  <2> DEFINE t == NextItem(k, pc)
  <2>1. \E p : t = [k EXCEPT !.i = k.i + 1, !.pc = p]
    BY DEF NextItem
  <2>2. t.req = u.req
    <3> HIDE DEF t, u
    <3> QED BY <1>4, <2>1
  <2> QED BY <1>3, <1>4, <2>2
<1>5. CASE CheckKey(s) /\ ~End(s)
  <2>1. CASE Importing(s) /\ (Current(s) = Unreadable \/ Found(s, Current(s).key))
    <3> DEFINE k == [u EXCEPT !.skipped = @ + 1]
    <3>1. DOMAIN k = DOMAIN u /\ k.req = u.req
      BY <1>1 DEF Tx
    <3>2. tx' = [tx EXCEPT ![s] = NextItem(k, "check")]
      BY <1>5, <2>1 DEF CheckKey, Set, SkipRow
    <3> HIDE DEF k
    <3> QED BY <1>4, <3>1, <3>2
  <2>2. CASE ~(Importing(s) /\ (Current(s) = Unreadable \/ Found(s, Current(s).key)))
    <3>1. PICK t : /\ tx' = [tx EXCEPT ![s] = t]
                   /\ \/ t = [u EXCEPT !.pc = "center"]
                      \/ t = [u EXCEPT !.i = u.i + 1]
                      \/ t = [u EXCEPT !.i = 1, !.pc = "center"]
      BY <1>5, <2>2 DEF CheckKey, Set
    <3>2. t.req = u.req
      <4> HIDE DEF u
      <4> QED BY <1>1, <3>1 DEF Tx
    <3> QED BY <1>3, <3>1, <3>2
  <2> QED BY <2>1, <2>2
<1>6. CASE InsertBatch(s) /\ ~End(s)
  <2> DEFINE k == [u EXCEPT !.rows = u.rows \cup {Current(s)},
                            !.created = IF Importing(s) THEN u.created + 1 ELSE u.created]
  <2>1. DOMAIN k = DOMAIN u /\ k.req = u.req
    BY <1>1 DEF Tx
  <2>2. tx' = [tx EXCEPT ![s] = WithRow(s)]
    BY <1>6 DEF InsertBatch, Set
  <2>3. WithRow(s) = NextItem(k, IF Importing(s) THEN "check" ELSE "center")
    BY <1>1 DEF WithRow, Tx
  <2> HIDE DEF k
  <2> QED BY <1>4, <2>1, <2>2, <2>3
<1>7. CASE (FindCenter(s) \/ InsertCenter(s) \/ ReportSelect(s) \/ ReportInsert(s)) /\ ~End(s)
  <2>1. PICK t : /\ tx' = [tx EXCEPT ![s] = t]
                 /\ \/ \E pc \in {"insert", "newcenter", "reporting", "done"} :
                         t = [u EXCEPT !.pc = pc]
                    \/ t = [u EXCEPT !.newCenters = u.newCenters \cup {Current(s).center},
                                     !.pc = "insert"]
    BY <1>7, Zenon DEF FindCenter, InsertCenter, ReportSelect, ReportInsert, Set
  <2>2. t.req = u.req
    <3> HIDE DEF u
    <3> QED BY <1>1, <2>1 DEF Tx
  <2> QED BY <1>3, <2>1, <2>2
<1> QED BY <1>2, <1>5, <1>6, <1>7 DEF Step

\* A session that waits, is at work.
LEMMA VictimAtWork ==
    ASSUME NEW s \in Session, DeadlockVictim(s)
    PROVE  tx[s].pc # "idle"
<1>1. PICK u \in Session : WaitsFor(s, u)
  BY DEF DeadlockVictim
<1> QED BY <1>1 DEF WaitsFor

LEMMA RegistryStep ==
    ASSUME SerialInv, [Next]_vars
    PROVE  [Serial!Next]_(Serial!registry)
<1>1. ASSUME NEW s \in Session, Step(s) PROVE [Serial!Next]_(Serial!registry)
  <2>1. CASE Commit(s)
    BY <2>1, CommitPerforms DEF Serial!Next
  <2>2. CASE ~Commit(s)
    BY <1>1, <2>2, WorkUnseen DEF Serial!Next
  <2> QED BY <2>1, <2>2
<1>2. ASSUME NEW s \in Session, Rollback(s) \/ DeadlockVictim(s)
      PROVE  [Serial!Next]_(Serial!registry)
  <2>1. End(s) /\ UNCHANGED <<batch, centers>> /\ tx[s].pc # "idle"
    BY <1>2, VictimAtWork DEF Rollback, DeadlockVictim, Rows
  <2> QED BY <2>1, EndGivesUp DEF Serial!Next
<1>3. ASSUME NEW s \in Session, NEW r \in Post \cup Import, Start(s, r)
      PROVE  [Serial!Next]_(Serial!registry)
  BY <1>3, StartAsks DEF Serial!Next
<1>4. CASE Unsubscribe \/ UNCHANGED vars
  BY <1>4 DEF Unsubscribe, vars, Serial!registry
<1> QED BY <1>1, <1>2, <1>3, <1>4 DEF Next

\* Creation is serializable: each POST and each import takes effect at one moment,
\* its commit, as if it had run alone then, or not at all (create_batches,
\* _process_row; the unique constraints of batches and work_centers).
THEOREM CreationIsSerial == Spec => AsIfAlone
<1>1. Init => Serial!Init
  BY DEF Init, Serial!Init
<1> QED BY <1>1, SerialStart, SerialNext, RegistryStep, PTL
        DEF Spec, AsIfAlone, Serial!Spec
=============================================================================
