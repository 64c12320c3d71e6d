-------------------------- MODULE BatchCache_proofs --------------------------
(***************************************************************************)
(* The types of BatchCache, and that the keys a write deletes are all      *)
(* those it has to, for any sets of batches, shifts and sessions and any   *)
(* number of writes and faults.                                            *)
(***************************************************************************)
EXTENDS BatchCache, FiniteSetTheorems, TLAPS

Requests == Reads \cup Push \cup Writes
Table == [Batch -> Row \cup {None}]

\* What the two SELECTs of a key return.
Brief == [closed : BOOLEAN, shift : Shift]
FirstType(k) == CASE k \in Batch -> Brief
                  [] k = "list" -> SUBSET Batch
                  [] k = "dashboard" -> UNION { [S -> BOOLEAN] : S \in SUBSET Batch }
SecondType(k) == CASE k \in Batch -> 0 .. MaxWrites
                   [] k = "list" -> UNION { [T -> Brief] : T \in SUBSET Batch }
                   [] k = "dashboard" -> UNION { [T -> 0 .. MaxWrites] : T \in SUBSET Batch }

Shaped(x) == x = [pc |-> x.pc, req |-> x.req, loaded |-> x.loaded,
                  closing |-> x.closing, drop |-> x.drop,
                  first |-> x.first, second |-> x.second]

\* What a session is doing, and what it has looked at.
SessionOK(s) ==
    LET x == tx[s] IN
    /\ Shaped(x)
    /\ x.closing \subseteq Existing(batch)
    /\ x.drop \subseteq Key
    /\ x.pc # "drop" => x.drop = {}
    /\ Active(s) =>
         /\ x.req \in Requests
         /\ x.pc \in {"load", "flush", "drop", "get", "select", "second", "put", "commit"}
         /\ x.pc \in {"load", "flush", "drop", "commit"} => x.req \in Writes
         /\ x.pc \in {"get", "select", "second", "put"} =>
              Op(s) \in {"read", "push", "patch", "create"}
         /\ x.pc = "load" => Op(s) \in {"patch", "work", "sweep"}
         /\ Op(s) \in {"patch", "work"} /\ x.pc # "load" => batch[K(s)] # None
         /\ Op(s) = "patch" /\ x.pc # "load" => x.loaded \in Row
         /\ Op(s) \in {"create", "import"} => K(s) \in taken
         /\ Op(s) = "read" /\ K(s) \in Batch /\ x.pc \in {"second", "put"} =>
              batch[K(s)] # None
         /\ x.pc \in {"second", "put"} => x.first \in FirstType(K(s))
         /\ x.pc = "put" => x.second \in SecondType(K(s))

\* The work in a batch, done or under way, is that of the writes started.
Writers == { s \in Session : Writing(s) }
WorkBound ==
    /\ IsFiniteSet(Writers) /\ Cardinality(Writers) <= writes
    /\ \A b \in Batch : batch[b] # None => batch[b].work + Cardinality(Writers) <= writes

\* What session x has read of its key is what table t holds.
HasRead(x, t) ==
    /\ x.pc \in {"second", "put"} => x.first = First(t, x.req.key)
    /\ x.pc = "put" => x.second = Second(t, x.req.key)

\* What is cached is what a read of table t would give.
FreshIn(t, k) ==
    cache[k] = None \/ (/\ k \in Batch => t[k] # None
                        /\ cache[k] = <<First(t, k), Second(t, k)>>)

\* A write that has met nobody: before it flushes every key is fresh; later those
\* it has not yet to delete are fresh for the table as it will commit it.
WriteOK(s) ==
    LET x == tx[s] IN
    /\ x.pc \in {"load", "flush"} => \A k \in Key : FreshIn(batch, k)
    /\ Op(s) \in {"create", "import"} /\ x.pc = "flush" => batch[K(s)] = None
    /\ Op(s) = "patch" /\ x.pc # "load" => x.loaded = batch[K(s)]
    /\ x.pc \notin {"load", "flush"} => \A k \in Key \ x.drop : FreshIn(After(s), k)
    /\ HasRead(x, After(s))

CalmInv ==
    /\ \A s, t \in Session : Writing(s) /\ Active(t) => s = t
    /\ (\A s \in Session : ~Writing(s)) => \A k \in Key : FreshIn(batch, k)
    /\ \A s \in Session : Active(s) /\ ~Writing(s) => HasRead(tx[s], batch)
    /\ \A s \in Session : Writing(s) => WriteOK(s)

IInv == /\ TypeOK
        /\ DOMAIN cache = Key
        /\ \A s \in Session : SessionOK(s)
        /\ WorkBound
        /\ calm => CalmInv

-----------------------------------------------------------------------------
(* Facts about requests and values.                                        *)

LEMMA RequestFacts ==
    ASSUME NEW r \in Requests
    PROVE  /\ r.op \in {"read", "push", "patch", "work", "create", "import", "sweep"}
           /\ r.key \in Key
           /\ r.op \in {"patch", "work", "create", "import"} => r.key \in Batch
           /\ r \in Writes <=> r.op \notin {"read", "push"}
           /\ r \in Create <=> r.op \in {"create", "import"}
           /\ r.op \in {"create", "import"} => r.closed \in BOOLEAN /\ r.shift \in Shift
           /\ r.op = "patch" => /\ r.closed \in BOOLEAN \cup {None}
                                /\ r.shift \in Shift \cup {None}
<1>1. CASE r \in Reads
  BY <1>1 DEF Reads, Writes, Patch, Work, Create, Sweep
<1>2. CASE r \in Push
  BY <1>2 DEF Push, Writes, Patch, Work, Create, Sweep, Key
<1>3. CASE r \in Patch
  BY <1>3 DEF Writes, Patch, Create, Key
<1>4. CASE r \in Work
  BY <1>4 DEF Writes, Work, Create, Key
<1>5. CASE r \in Create
  BY <1>5 DEF Writes, Create, Key
<1>6. CASE r \in Sweep
  BY <1>6 DEF Writes, Sweep, Create, Key
<1> QED
  BY <1>1, <1>2, <1>3, <1>4, <1>5, <1>6 DEF Requests, Writes

LEMMA KeyKinds ==
    /\ "list" \notin Batch /\ "dashboard" \notin Batch
    /\ \A k \in Key : k \in Batch \/ k = "list" \/ k = "dashboard"
    /\ Batch \subseteq Key /\ "list" \in Key /\ "dashboard" \in Key
  BY BatchAssumption DEF Key

LEMMA ValueParts ==
    ASSUME NEW k \in Key, NEW f \in FirstType(k), NEW g \in SecondType(k)
    PROVE  <<f, g>> \in Values(k)
<1>1. CASE k \in Batch
  BY <1>1, KeyKinds DEF FirstType, SecondType, Values, Brief
<1>2. CASE k = "list"
  <2> DEFINE Some(S, T) == { <<S, h>> : h \in [T -> Brief] }
  <2>1. f \in SUBSET Batch /\ \E T \in SUBSET Batch : g \in [T -> Brief]
    BY <1>2, KeyKinds DEF FirstType, SecondType
  <2>2. PICK T \in SUBSET Batch : g \in [T -> Brief]
    BY <2>1
  <2>3. <<f, g>> \in Some(f, T)
    BY <2>2
  <2>4. Values(k) = UNION { Some(S, U) : S \in SUBSET Batch, U \in SUBSET Batch }
    BY <1>2, KeyKinds DEF Values, Brief
  <2> HIDE DEF Some
  <2> QED
    BY <2>1, <2>3, <2>4
<1>3. CASE k = "dashboard"
  <2> DEFINE Some(S, T) == { <<e, h>> : e \in [S -> BOOLEAN], h \in [T -> 0 .. MaxWrites] }
  <2>1. /\ \E S \in SUBSET Batch : f \in [S -> BOOLEAN]
        /\ \E T \in SUBSET Batch : g \in [T -> 0 .. MaxWrites]
    BY <1>3, KeyKinds DEF FirstType, SecondType
  <2>2. PICK S \in SUBSET Batch, T \in SUBSET Batch :
          f \in [S -> BOOLEAN] /\ g \in [T -> 0 .. MaxWrites]
    BY <2>1
  <2>3. <<f, g>> \in Some(S, T)
    BY <2>2
  <2>4. Values(k) = UNION { Some(U, V) : U \in SUBSET Batch, V \in SUBSET Batch }
    BY <1>3, KeyKinds DEF Values
  <2> HIDE DEF Some
  <2> QED
    BY <2>3, <2>4
<1> QED
  BY <1>1, <1>2, <1>3, KeyKinds

LEMMA ReadTypes ==
    ASSUME NEW t \in Table, NEW k \in Key, k \in Batch => t[k] # None
    PROVE  First(t, k) \in FirstType(k) /\ Second(t, k) \in SecondType(k)
<1>1. \A b \in Existing(t) : b \in Batch /\ t[b] \in Row
  BY DEF Existing, Table
<1>2. \A b \in Existing(t) : /\ t[b].closed \in BOOLEAN /\ t[b].shift \in Shift
                            /\ t[b].work \in 0 .. MaxWrites
  BY <1>1 DEF Row
<1>3. Existing(t) \in SUBSET Batch
  BY DEF Existing
<1>4. CASE k \in Batch
  BY <1>2, <1>4, KeyKinds DEF First, Second, FirstType, SecondType, Brief, Existing
<1>5. CASE k = "list"
  <2>1. First(t, k) = Existing(t)
    BY <1>5, KeyKinds DEF First
  <2>2. Second(t, k) = [b \in Existing(t) |-> [closed |-> t[b].closed, shift |-> t[b].shift]]
    BY <1>5, KeyKinds DEF Second
  <2>3. Second(t, k) \in [Existing(t) -> Brief]
    BY <1>2, <2>2 DEF Brief
  <2> QED
    BY <1>3, <1>5, <2>1, <2>3, KeyKinds DEF FirstType, SecondType
<1>6. CASE k = "dashboard"
  <2>1. First(t, k) = [b \in Existing(t) |-> t[b].closed]
    BY <1>6, KeyKinds DEF First
  <2>2. Second(t, k) = [b \in Existing(t) |-> t[b].work]
    BY <1>6, KeyKinds DEF Second
  <2>3. First(t, k) \in [Existing(t) -> BOOLEAN]
        /\ Second(t, k) \in [Existing(t) -> 0 .. MaxWrites]
    BY <1>2, <2>1, <2>2
  <2> QED
    BY <1>3, <1>6, <2>3, KeyKinds DEF FirstType, SecondType
<1> QED
  BY <1>4, <1>5, <1>6, KeyKinds

-----------------------------------------------------------------------------
(* The table as a session will commit it, and as it sees it.               *)

LEMMA PatchedType ==
    ASSUME NEW s \in Session, tx[s].req \in Requests, Op(s) = "patch", NEW row \in Row
    PROVE  /\ Patched(s, row) \in Row /\ Patched(s, row).work = row.work
           /\ Patched(s, row) = [closed |-> Patched(s, row).closed,
                                 shift |-> Patched(s, row).shift, work |-> row.work]
<1>1. /\ Or(tx[s].req.closed, row.closed) \in BOOLEAN
      /\ Or(tx[s].req.shift, row.shift) \in Shift
  BY RequestFacts DEF Or, Op, Row
<1> DEFINE c == Or(tx[s].req.closed, row.closed)
           h == Or(tx[s].req.shift, row.shift)
<1>2. Patched(s, row) = [row EXCEPT !.closed = c, !.shift = h]
  BY DEF Patched
<1> HIDE DEF c, h
<1>3. Patched(s, row) = [closed |-> c, shift |-> h, work |-> row.work]
  BY <1>2 DEF Row
<1> QED
  BY <1>1, <1>3 DEF Row, c, h

\* Rows that exist keep existing; work grows by one at most.
LEMMA AfterType ==
    ASSUME IInv, NEW s \in Session, Writing(s), tx[s].pc # "load"
    PROVE  /\ After(s) \in Table
           /\ \A b \in Batch : batch[b] # None => After(s)[b] # None
           /\ \A b \in Batch : After(s)[b] # None =>
                 After(s)[b].work = 0 \/
                 (batch[b] # None /\ After(s)[b].work <= batch[b].work + 1)
<1> DEFINE Good(t, b) == /\ t[b] \in Row \cup {None}
                         /\ batch[b] # None => t[b] # None
                         /\ t[b] # None => t[b].work = 0 \/
                              (batch[b] # None /\ t[b].work <= batch[b].work + 1)
<1>1. /\ SessionOK(s) /\ tx[s].req \in Requests /\ Active(s) /\ batch \in Table
      /\ Op(s) \in {"patch", "work", "create", "import", "sweep"}
  BY RequestFacts DEF IInv, TypeOK, Writing, Requests, Op, Table
<1>2. \A b \in Batch : Good(batch, b)
  BY <1>1 DEF Table, Row
<1>3. ASSUME NEW row \in Row, NEW k \in Batch, After(s) = [batch EXCEPT ![k] = row],
             row.work = 0 \/ (batch[k] # None /\ row.work <= batch[k].work + 1)
      PROVE  After(s) \in Table /\ \A b \in Batch : Good(After(s), b)
  BY <1>1, <1>2, <1>3, RowAssumption DEF Table
<1>4. ASSUME NEW b \in Batch, batch[b] # None
      PROVE  /\ batch[b] \in Row /\ batch[b].work \in Nat
             /\ batch[b].work + Cardinality(Writers) <= writes
             /\ Cardinality(Writers) \in Nat /\ Cardinality(Writers) >= 1
  <2>1. batch[b] \in Row
    BY <1>1, <1>4 DEF Table
  <2>2. IsFiniteSet(Writers) /\ s \in Writers
    BY DEF IInv, WorkBound, Writers
  <2>3. Cardinality(Writers) \in Nat /\ Cardinality(Writers) # 0
    BY <2>2, FS_CardinalityType, FS_EmptySet
  <2> QED
    BY <1>4, <2>1, <2>3 DEF IInv, WorkBound, Row
<1>5. CASE Op(s) = "patch"
  <2>1. K(s) \in Batch /\ batch[K(s)] \in Row /\ tx[s].loaded \in Row
    BY <1>1, <1>5, RequestFacts DEF SessionOK, Op, K, Table
  <2>2. Patched(s, tx[s].loaded) \in Row
    BY <1>1, <1>5, <2>1, PatchedType
  <2>3. PatchedRow(s) \in Row /\ PatchedRow(s).work = batch[K(s)].work
    BY <2>1, <2>2 DEF PatchedRow, Row
  <2>4. After(s) = [batch EXCEPT ![K(s)] = PatchedRow(s)]
    BY <1>5 DEF After
  <2>5. batch[K(s)] # None /\ batch[K(s)].work <= batch[K(s)].work + 1
    BY <2>1, RowAssumption DEF Row
  <2> QED
    BY <1>3, <2>1, <2>3, <2>4, <2>5
<1>6. CASE Op(s) = "work"
  <2> DEFINE old == batch[K(s)]
             row == [old EXCEPT !.work = @ + 1]
  <2>1. K(s) \in Batch /\ old # None
    BY <1>1, <1>6, RequestFacts DEF SessionOK, Op, K
  <2>2. old \in Row /\ old.work + 1 \in 0 .. MaxWrites
    BY <1>4, <2>1, BoundsAssumption DEF IInv, TypeOK
  <2>3. row \in Row /\ row.work = old.work + 1
    BY <2>2 DEF Row
  <2>4. After(s) = [batch EXCEPT ![K(s)] = row]
    BY <1>1, <1>6, <2>1 DEF After, Table
  <2>5. row.work <= old.work + 1
    BY <2>2, <2>3
  <2> HIDE DEF row
  <2> QED
    BY <1>3, <2>1, <2>3, <2>4, <2>5
<1>7. CASE Op(s) \in {"create", "import"}
  <2> DEFINE row == [closed |-> tx[s].req.closed, shift |-> tx[s].req.shift, work |-> 0]
  <2>1. K(s) \in Batch /\ row \in Row /\ row.work = 0
    BY <1>1, <1>7, RequestFacts, BoundsAssumption DEF Op, K, Row
  <2>2. After(s) = [batch EXCEPT ![K(s)] = row]
    BY <1>7 DEF After
  <2> HIDE DEF row
  <2> QED
    BY <1>3, <2>1, <2>2
<1>8. CASE Op(s) = "sweep"
  <2>1. After(s) = [b \in Batch |-> IF b \in tx[s].closing
                                    THEN [batch[b] EXCEPT !.closed = TRUE] ELSE batch[b]]
    BY <1>8 DEF After
  <2>2. ASSUME NEW b \in Batch PROVE Good(After(s), b)
    <3>1. CASE b \in tx[s].closing
      <4>1. batch[b] # None /\ batch[b] \in Row
        BY <1>1, <3>1 DEF SessionOK, Existing, Table
      <4>2. After(s)[b] = [batch[b] EXCEPT !.closed = TRUE]
        BY <2>1, <3>1
      <4>3. After(s)[b] \in Row /\ After(s)[b].work = batch[b].work
        BY <4>1, <4>2 DEF Row
      <4> QED
        BY <4>1, <4>3, RowAssumption DEF Row
    <3>2. CASE b \notin tx[s].closing
      BY <1>2, <2>1, <3>2
    <3> QED
      BY <3>1, <3>2
  <2> QED
    BY <2>1, <2>2 DEF Table
<1> QED
  BY <1>1, <1>5, <1>6, <1>7, <1>8

\* A read goes by the committed table, a write reads its own row back.
LEMMA SeenType ==
    ASSUME IInv, NEW s \in Session, Active(s), tx[s].pc \in {"get", "select", "second", "put"}
    PROVE  /\ Seen(s) \in Table /\ K(s) \in Key
           /\ Writing(s) => Op(s) \in {"patch", "create"} /\ K(s) \in Batch
                            /\ Seen(s)[K(s)] # None
           /\ ~Writing(s) => Op(s) \in {"read", "push"} /\ Seen(s) = batch
<1>1. /\ SessionOK(s) /\ tx[s].req \in Requests /\ batch \in Table
      /\ Op(s) \in {"read", "push", "patch", "create"}
  BY DEF IInv, TypeOK, SessionOK, Table
<1>2. /\ K(s) \in Key /\ (Op(s) \in {"patch", "create"} => K(s) \in Batch)
      /\ Writing(s) <=> Op(s) \in {"patch", "create"}
  BY <1>1, RequestFacts DEF Writing, Op, K
<1>3. CASE Op(s) = "patch"
  <2>1. Seen(s) = [batch EXCEPT ![K(s)] = Patched(s, tx[s].loaded)]
    BY <1>3 DEF Seen
  <2>2. Patched(s, tx[s].loaded) \in Row
    BY <1>1, <1>3, PatchedType DEF SessionOK
  <2> QED
    BY <1>1, <1>2, <1>3, <2>1, <2>2, RowAssumption DEF Table
<1>4. CASE Op(s) = "create"
  <2>1. Seen(s) = [batch EXCEPT ![K(s)] =
           [closed |-> tx[s].req.closed, shift |-> tx[s].req.shift, work |-> 0]]
    BY <1>4 DEF Seen, After
  <2>2. [closed |-> tx[s].req.closed, shift |-> tx[s].req.shift, work |-> 0] \in Row
    BY <1>1, <1>4, RequestFacts, BoundsAssumption DEF Op, Row
  <2> QED
    BY <1>1, <1>2, <1>4, <2>1, <2>2, RowAssumption DEF Table
<1>5. CASE Op(s) \in {"read", "push"}
  <2>1. Seen(s) = batch
    BY <1>5 DEF Seen, After
  <2> QED
    BY <1>1, <1>2, <1>5, <2>1
<1> QED
  BY <1>1, <1>3, <1>4, <1>5

\* A PATCH that nobody disturbs commits the row that it sees.
LEMMA SeenIsAfter ==
    ASSUME IInv, NEW s \in Session, Writing(s), WriteOK(s),
           tx[s].pc \in {"get", "select", "second", "put"}
    PROVE  Seen(s) = After(s)
<1>1. Active(s) /\ tx[s].req \in Requests /\ Op(s) \in {"patch", "create"}
  BY SeenType DEF Writing, Requests
<1>2. CASE Op(s) = "patch"
  <2> DEFINE old == tx[s].loaded
             new == Patched(s, old)
  <2>1. old = batch[K(s)] /\ old \in Row
    BY <1>1, <1>2 DEF WriteOK, IInv, SessionOK
  <2>2. new \in Row /\ new = [closed |-> new.closed, shift |-> new.shift, work |-> old.work]
    BY <1>1, <1>2, <2>1, PatchedType
  <2>3. PatchedRow(s) =
          [old EXCEPT !.closed = IF new.closed # old.closed THEN new.closed ELSE @,
                      !.shift = IF new.shift # old.shift THEN new.shift ELSE @]
    BY <2>1 DEF PatchedRow
  <2> HIDE DEF new
  <2>4. PatchedRow(s) = [closed |-> new.closed, shift |-> new.shift, work |-> old.work]
    BY <2>1, <2>3 DEF Row
  <2>5. PatchedRow(s) = Patched(s, old)
    BY <2>2, <2>4 DEF new
  <2> QED
    BY <1>2, <2>5 DEF Seen, After
<1>3. CASE Op(s) = "create"
  BY <1>3 DEF Seen
<1> QED
  BY <1>1, <1>2, <1>3

\* A key the write does not delete is the same before and after it.
LEMMA Unaffected ==
    ASSUME IInv, NEW s \in Session, Writing(s), WriteOK(s), tx[s].pc = "flush",
           NEW k \in Key \ Affected(s)
    PROVE  FreshIn(After(s), k)
<1>1. /\ SessionOK(s) /\ tx[s].req \in Requests /\ Active(s) /\ batch \in Table
      /\ FreshIn(batch, k)
      /\ Op(s) \in {"patch", "work", "create", "import", "sweep"}
  BY RequestFacts DEF IInv, TypeOK, Writing, Requests, Op, Table, WriteOK
<1>2. /\ Op(s) \in {"patch", "work", "create", "import"} => K(s) \in Batch
      /\ Op(s) \in {"create", "import"} => batch[K(s)] = None
      /\ Op(s) = "work" => batch[K(s)] # None
  BY <1>1, RequestFacts DEF Op, K, WriteOK, SessionOK
<1>3. CASE k \in Batch
  <2>1. CASE Op(s) \in {"create", "import"} /\ k = K(s)
    <3>1. cache[k] = None
      BY <1>1, <1>2, <1>3, <2>1 DEF FreshIn
    <3> QED
      BY <3>1 DEF FreshIn
  <2>2. CASE ~(Op(s) \in {"create", "import"} /\ k = K(s))
    <3>1. After(s)[k] = batch[k]
      BY <1>1, <1>2, <1>3, <2>2 DEF After, Affected, Table
    <3>2. First(After(s), k) = First(batch, k) /\ Second(After(s), k) = Second(batch, k)
      BY <1>3, <3>1, KeyKinds DEF First, Second
    <3> QED
      BY <1>1, <3>1, <3>2 DEF FreshIn
  <2> QED
    BY <2>1, <2>2
<1>4. CASE k \notin Batch
  <2>1. k = "list" /\ Op(s) = "work"
    BY <1>1, <1>4, KeyKinds DEF Affected
  <2> DEFINE old == batch[K(s)]
  <2>2. K(s) \in Batch /\ old \in Row
    BY <1>1, <1>2, <2>1 DEF Table
  <2>3. After(s) = [batch EXCEPT ![K(s)] = [old EXCEPT !.work = @ + 1]]
    BY <1>1, <2>1, <2>2 DEF After, Table
  <2>4. [old EXCEPT !.work = @ + 1] =
          [closed |-> old.closed, shift |-> old.shift, work |-> old.work + 1]
    BY <2>2 DEF Row
  <2>5. /\ After(s)[K(s)].closed = old.closed /\ After(s)[K(s)].shift = old.shift
        /\ After(s)[K(s)] # None /\ old # None
        /\ \A b \in Batch \ {K(s)} : After(s)[b] = batch[b]
    <3>1. After(s)[K(s)] # None
      BY <1>2, <2>1, AfterType
    <3> QED
      BY <1>1, <1>2, <2>1, <2>2, <2>3, <2>4, <3>1 DEF Table
  <2>6. \A b \in Batch :
          /\ After(s)[b] # None <=> batch[b] # None
          /\ After(s)[b].closed = batch[b].closed /\ After(s)[b].shift = batch[b].shift
    BY <2>5
  <2>7. Existing(After(s)) = Existing(batch)
    BY <2>6 DEF Existing
  <2>8. [b \in Existing(After(s)) |->
           [closed |-> After(s)[b].closed, shift |-> After(s)[b].shift]] =
        [b \in Existing(batch) |-> [closed |-> batch[b].closed, shift |-> batch[b].shift]]
    BY <2>6, <2>7 DEF Existing
  <2>9. First(After(s), k) = First(batch, k) /\ Second(After(s), k) = Second(batch, k)
    BY <2>1, <2>7, <2>8, KeyKinds DEF First, Second
  <2> QED
    BY <1>1, <1>4, <2>9 DEF FreshIn
<1> QED
  BY <1>3, <1>4

-----------------------------------------------------------------------------
(* What is common to the steps.                                            *)

LEMMA IdleOK ==
    ASSUME NEW s \in Session, tx'[s] = IdleTx PROVE SessionOK(s)' /\ ~Active(s)'
  BY DEF SessionOK, Shaped, IdleTx, Active

LEMMA SetFacts ==
    ASSUME IInv, NEW s \in Session, NEW x, Set(s, x)
    PROVE  DOMAIN tx' = Session /\ tx'[s] = x /\ \A t \in Session \ {s} : tx'[t] = tx[t]
  BY DEF IInv, TypeOK, Set

\* A session that did not step is as good as before: rows only appear.
LEMMA OtherSession ==
    ASSUME NEW t \in Session, SessionOK(t), tx'[t] = tx[t],
           \A b \in Batch : batch[b] # None => batch'[b] # None, taken \subseteq taken'
    PROVE  SessionOK(t)'
<1>1. Existing(batch) \subseteq Existing(batch)'
  BY DEF Existing
<1>2. tx[t].req \in Requests /\ Op(t) \in {"patch", "work"} => K(t) \in Batch
  BY RequestFacts DEF Op, K
<1> QED
  BY <1>1, <1>2 DEF SessionOK, Active, Op, K

\* A step of s that changes neither the table nor the number of writes.
LEMMA QuietCache ==
    ASSUME IInv, NEW s \in Session, UNCHANGED <<batch, taken, writes>>,
           DOMAIN tx' = Session, \A t \in Session \ {s} : tx'[t] = tx[t],
           SessionOK(s)', Writing(s)' => Writing(s),
           faults' \in 0 .. MaxFaults, calm' \in BOOLEAN, DOMAIN cache' = Key,
           \A k \in Key : cache'[k] = None \/ cache'[k] \in Values(k),
           calm' => CalmInv'
    PROVE  IInv'
<1>1. TypeOK'
  BY DEF IInv, TypeOK, Existing
<1>2. ASSUME NEW t \in Session PROVE SessionOK(t)'
  BY OtherSession DEF IInv
<1>3. WorkBound'
  <2>1. Writers' \subseteq Writers
    BY DEF Writers, Writing, Active
  <2>2. /\ IsFiniteSet(Writers') /\ Cardinality(Writers') <= Cardinality(Writers)
        /\ Cardinality(Writers') \in Nat /\ Cardinality(Writers) \in Nat
    BY <2>1, FS_Subset, FS_CardinalityType DEF IInv, WorkBound
  <2>3. writes \in Nat /\ \A b \in Batch : batch[b] # None => batch[b].work \in Nat
    BY BoundsAssumption DEF IInv, TypeOK, Row
  <2>4. Cardinality(Writers') <= writes
    BY <2>2, <2>3 DEF IInv, WorkBound
  <2>5. ASSUME NEW b \in Batch, batch[b] # None
        PROVE  batch[b].work + Cardinality(Writers') <= writes
    <3>1. batch[b].work + Cardinality(Writers) <= writes
      BY <2>5 DEF IInv, WorkBound
    <3> QED
      BY <2>2, <2>3, <2>5, <3>1
  <2> QED
    BY <2>2, <2>4, <2>5 DEF WorkBound
<1> QED
  BY <1>1, <1>2, <1>3 DEF IInv

\* While calm, a session that reads meets no write.
LEMMA ReaderCalm ==
    ASSUME CalmInv, NEW s \in Session, Active(s), ~Writing(s), batch' = batch,
           \A t \in Session \ {s} : tx'[t] = tx[t], ~Writing(s)',
           HasRead(tx'[s], batch), \A k \in Key : FreshIn(batch, k) => FreshIn(batch, k)'
    PROVE  CalmInv'
<1>1. \A t \in Session : ~Writing(t)
  BY DEF CalmInv
<1>2. \A t \in Session : ~Writing(t)'
  BY <1>1 DEF Writing, Active
<1>3. \A k \in Key : FreshIn(batch, k)'
  BY <1>1 DEF CalmInv
<1>4. \A t \in Session : Active(t)' => HasRead(tx'[t], batch')
  BY <1>1 DEF CalmInv, Active
<1> QED
  BY <1>2, <1>3, <1>4 DEF CalmInv

\* While calm, a session that writes is alone.
LEMMA WriterCalm ==
    ASSUME CalmInv, NEW s \in Session, Writing(s),
           \A t \in Session \ {s} : tx'[t] = tx[t], Writing(s)', WriteOK(s)'
    PROVE  CalmInv'
<1>1. \A t \in Session \ {s} : ~Active(t)
  BY DEF CalmInv
<1>2. \A t \in Session \ {s} : ~Active(t)' /\ ~Writing(t)'
  BY <1>1 DEF Active, Writing
<1> QED
  BY <1>2 DEF CalmInv

LEMMA WriterEnds ==
    ASSUME CalmInv, NEW s \in Session, Writing(s),
           \A t \in Session \ {s} : tx'[t] = tx[t], ~Active(s)',
           \A k \in Key : FreshIn(batch, k)'
    PROVE  CalmInv'
<1>1. \A t \in Session \ {s} : ~Active(t)
  BY DEF CalmInv
<1>2. \A t \in Session : ~Active(t)' /\ ~Writing(t)'
  BY <1>1 DEF Active, Writing
<1> QED
  BY <1>2 DEF CalmInv

LEMMA EndCache ==
    ASSUME IInv, NEW s \in Session, Active(s), UNCHANGED <<batch, cache, taken, writes>>,
           End(s), faults' \in 0 .. MaxFaults, calm' \in BOOLEAN, calm' => calm,
           calm' /\ Writing(s) => \A k \in Key : FreshIn(batch, k)
    PROVE  IInv'
<1>1. /\ DOMAIN tx' = Session /\ tx'[s] = IdleTx
      /\ \A t \in Session \ {s} : tx'[t] = tx[t]
  BY SetFacts DEF End
<1>2. SessionOK(s)' /\ ~Active(s)' /\ ~Writing(s)'
  BY <1>1, IdleOK DEF Writing
<1>3. \A k \in Key : FreshIn(batch, k) => FreshIn(batch, k)'
  BY DEF FreshIn
<1>4. HasRead(tx'[s], batch)
  BY <1>1 DEF HasRead, IdleTx
<1>5. calm' => CalmInv'
  <2>1. CASE Writing(s)
    BY <1>1, <1>2, <1>3, <2>1, WriterEnds DEF IInv
  <2>2. CASE ~Writing(s)
    BY <1>1, <1>2, <1>3, <1>4, <2>2, ReaderCalm DEF IInv
  <2> QED
    BY <2>1, <2>2
<1> QED
  BY <1>1, <1>2, <1>5, QuietCache DEF IInv, TypeOK

-----------------------------------------------------------------------------
(* Steps.                                                                  *)

LEMMA InitCache == Init => IInv
<1> SUFFICES ASSUME Init PROVE IInv
  OBVIOUS
<1>1. batch \in Table
  BY BoundsAssumption DEF Init, Table, Row
<1>2. TypeOK /\ DOMAIN cache = Key
  BY <1>1, BoundsAssumption DEF Init, TypeOK, Table, Existing
<1>3. \A s \in Session : SessionOK(s) /\ ~Active(s) /\ ~Writing(s)
  BY DEF Init, SessionOK, Shaped, IdleTx, Active, Writing
<1>4. WorkBound
  <2>1. Writers = {}
    BY <1>3 DEF Writers
  <2>2. IsFiniteSet(Writers) /\ Cardinality(Writers) = 0
    BY <2>1, FS_EmptySet
  <2>3. \A b \in Batch : batch[b] # None => batch[b].work = 0
    BY DEF Init
  <2> QED
    BY <2>2, <2>3 DEF WorkBound, Init
<1>5. CalmInv
  BY <1>3 DEF Init, CalmInv, FreshIn
<1> QED
  BY <1>2, <1>3, <1>4, <1>5 DEF IInv

LEMMA StartCache ==
    ASSUME IInv, NEW s \in Session, NEW r \in Requests, Start(s, r) PROVE IInv'
<1> DEFINE x == [IdleTx EXCEPT !.pc = FirstStep(r), !.req = r]
<1>1. /\ DOMAIN tx' = Session /\ tx'[s] = x /\ ~Active(s)
      /\ \A t \in Session \ {s} : tx'[t] = tx[t]
      /\ UNCHANGED <<batch, cache, faults>>
  BY SetFacts DEF Start
<1>2. /\ x.pc = FirstStep(r) /\ x.req = r /\ x.closing = {} /\ x.drop = {} /\ Shaped(x)
  <2>1. Shaped(IdleTx) /\ IdleTx.closing = {} /\ IdleTx.drop = {}
    BY DEF Shaped, IdleTx
  <2>2. x = [IdleTx EXCEPT !.pc = FirstStep(r), !.req = r]
    OBVIOUS
  <2> HIDE DEF x
  <2> QED
    BY <2>1, <2>2 DEF Shaped
<1>3. /\ FirstStep(r) \in {"get", "select", "flush", "load"}
      /\ FirstStep(r) = "get" => r.op = "read"
      /\ FirstStep(r) = "select" => r.op = "push"
      /\ FirstStep(r) = "flush" => r.op \in {"create", "import"}
      /\ FirstStep(r) = "load" => r.op \in {"patch", "work", "sweep"}
  BY RequestFacts DEF FirstStep
<1> HIDE DEF x
<1>4. /\ tx'[s].pc = FirstStep(r) /\ tx'[s].req = r /\ tx'[s].closing = {}
      /\ tx'[s].drop = {} /\ Shaped(tx'[s])
      /\ Active(s)' /\ (Writing(s)' <=> r \in Writes) /\ Op(s)' = r.op /\ K(s)' = r.key
  BY <1>1, <1>2, <1>3 DEF Shaped, Active, Writing, Op, K
<1>5. /\ r \in Create => r.key \notin taken /\ taken' = taken \cup {r.key}
      /\ r \notin Create => taken' = taken
      /\ r \in Writes => writes < MaxWrites /\ writes' = writes + 1
      /\ r \notin Writes => writes' = writes
      /\ calm' = (calm /\ \A t \in Session : Active(t) => r \notin Writes /\ ~Writing(t))
  BY DEF Start
<1>6. TypeOK'
  BY <1>1, <1>5, RequestFacts, BoundsAssumption DEF IInv, TypeOK, Existing
<1>7. ASSUME NEW t \in Session PROVE SessionOK(t)'
  <2>1. CASE t = s
    BY <1>1, <1>3, <1>4, <1>5, <2>1, RequestFacts DEF SessionOK
  <2>2. CASE t # s
    BY <1>1, <1>5, <2>2, OtherSession DEF IInv
  <2> QED
    BY <2>1, <2>2
<1>8. WorkBound'
  <2>1. CASE r \notin Writes
    <3>1. Writers' = Writers
      BY <1>1, <1>4, <2>1 DEF Writers, Writing, Active
    <3> QED
      BY <1>1, <1>5, <2>1, <3>1 DEF IInv, WorkBound
  <2>2. CASE r \in Writes
    <3>1. Writers' = Writers \cup {s} /\ s \notin Writers
      BY <1>1, <1>4, <2>2 DEF Writers, Writing, Active
    <3>2. IsFiniteSet(Writers') /\ Cardinality(Writers') = Cardinality(Writers) + 1
      BY <3>1, FS_AddElement DEF IInv, WorkBound
    <3>3. Cardinality(Writers) \in Nat /\ writes \in Nat
      BY FS_CardinalityType, BoundsAssumption DEF IInv, WorkBound, TypeOK
    <3>4. \A b \in Batch : batch[b] # None => batch[b].work \in Nat
      BY BoundsAssumption DEF IInv, TypeOK, Row
    <3>5. \A b \in Batch : batch[b] # None =>
            batch[b].work + Cardinality(Writers') <= writes'
      BY <1>5, <2>2, <3>2, <3>3, <3>4 DEF IInv, WorkBound
    <3> QED
      BY <1>1, <1>5, <2>2, <3>2, <3>3, <3>5 DEF IInv, WorkBound
  <2> QED
    BY <2>1, <2>2
<1>9. ASSUME calm' PROVE CalmInv'
  <2>1. CalmInv /\ \A t \in Session : ~Writing(t)
    BY <1>5, <1>9 DEF IInv, Writing
  <2>2. \A k \in Key : FreshIn(batch, k)'
    BY <1>1, <2>1 DEF CalmInv, FreshIn
  <2>3. CASE r \in Writes
    <3>1. \A t \in Session \ {s} : ~Active(t)' /\ ~Writing(t)'
      BY <1>1, <1>5, <1>9, <2>3 DEF Active, Writing
    <3>2. WriteOK(s)'
      <4>1. r.op \in {"create", "import"} => batch[r.key] = None
        BY <1>5, RequestFacts DEF IInv, TypeOK, Existing
      <4> QED
        BY <1>1, <1>3, <1>4, <2>2, <2>3, <4>1, RequestFacts DEF WriteOK, HasRead
    <3> QED
      BY <1>4, <2>3, <3>1, <3>2 DEF CalmInv
  <2>4. CASE r \notin Writes
    <3>1. \A t \in Session : ~Writing(t)'
      BY <1>1, <1>4, <2>1, <2>4 DEF Writing, Active
    <3>2. \A t \in Session : Active(t)' => HasRead(tx'[t], batch')
      BY <1>1, <1>3, <1>4, <2>1 DEF CalmInv, HasRead, Active
    <3> QED
      BY <2>2, <3>1, <3>2 DEF CalmInv
  <2> QED
    BY <2>3, <2>4
<1> QED
  BY <1>1, <1>6, <1>7, <1>8, <1>9 DEF IInv

LEMMA LoadCache ==
    ASSUME IInv, NEW s \in Session, Load(s) PROVE IInv'
<1> DEFINE expired == { b \in Expiring : batch[b] # None /\ ~batch[b].closed }
<1>1. /\ tx[s].pc = "load" /\ Active(s) /\ SessionOK(s) /\ batch \in Table
      /\ tx[s].req \in Writes /\ Writing(s) /\ Op(s) \in {"patch", "work", "sweep"}
      /\ UNCHANGED <<batch, cache, taken, writes, faults, calm>>
  BY DEF Load, Active, Writing, IInv, SessionOK, Rest, TypeOK, Table
<1>2. /\ Op(s) = "patch" => K(s) \in Batch
      /\ tx[s].closing = tx[s].closing
      /\ Op(s) = "patch" /\ batch[K(s)] # None => batch[K(s)] \in Row
  BY <1>1, RequestFacts DEF Requests, Op, K, Table
<1>3. calm => CalmInv /\ WriteOK(s) /\ \A k \in Key : FreshIn(batch, k)
  BY <1>1 DEF IInv, CalmInv, WriteOK
<1>4. CASE End(s)
  BY <1>1, <1>3, <1>4, EndCache DEF IInv, TypeOK
<1>5. ASSUME NEW row, NEW C, C \subseteq Existing(batch),
             Op(s) = "patch" => row = batch[K(s)],
             Op(s) \in {"patch", "work"} => batch[K(s)] # None,
             Set(s, [tx[s] EXCEPT !.loaded = row, !.closing = C, !.pc = "flush"])
      PROVE  IInv'
  <2>1. /\ DOMAIN tx' = Session /\ \A t \in Session \ {s} : tx'[t] = tx[t]
        /\ tx'[s] = [tx[s] EXCEPT !.loaded = row, !.closing = C, !.pc = "flush"]
    BY <1>5, SetFacts
  <2>2. /\ tx'[s].pc = "flush" /\ tx'[s].req = tx[s].req /\ tx'[s].loaded = row
        /\ tx'[s].closing = C /\ tx'[s].drop = tx[s].drop /\ Shaped(tx'[s])
    BY <1>1, <2>1 DEF SessionOK, Shaped
  <2>3. Active(s)' /\ Writing(s)' /\ Op(s)' = Op(s) /\ K(s)' = K(s)
    BY <1>1, <2>2 DEF Active, Writing, Op, K
  <2>4. SessionOK(s)'
    BY <1>1, <1>2, <1>5, <2>2, <2>3 DEF SessionOK, Existing, Requests
  <2>5. calm => WriteOK(s)'
    BY <1>1, <1>3, <1>5, <2>2, <2>3 DEF WriteOK, HasRead, FreshIn
  <2> QED
    BY <1>1, <1>3, <2>1, <2>3, <2>4, <2>5, WriterCalm, QuietCache DEF IInv, TypeOK
<1>6. CASE Op(s) = "patch" /\ batch[K(s)] # None
  <2>1. Set(s, [tx[s] EXCEPT !.loaded = batch[K(s)], !.pc = "flush"])
    BY <1>6 DEF Load
  <2>2. [tx[s] EXCEPT !.loaded = batch[K(s)], !.pc = "flush"] =
        [tx[s] EXCEPT !.loaded = batch[K(s)], !.closing = tx[s].closing, !.pc = "flush"]
    BY <1>1 DEF SessionOK, Shaped
  <2> QED
    BY <1>1, <1>5, <1>6, <2>1, <2>2 DEF SessionOK
<1>7. CASE Op(s) = "work" /\ batch[K(s)] # None /\ ~End(s)
  <2>1. Set(s, [tx[s] EXCEPT !.pc = "flush"])
    BY <1>7 DEF Load
  <2>2. [tx[s] EXCEPT !.pc = "flush"] =
        [tx[s] EXCEPT !.loaded = tx[s].loaded, !.closing = tx[s].closing, !.pc = "flush"]
    BY <1>1 DEF SessionOK, Shaped
  <2> QED
    BY <1>1, <1>5, <1>7, <2>1, <2>2 DEF SessionOK
<1>8. CASE Op(s) = "sweep" /\ expired # {}
  <2>1. Set(s, [tx[s] EXCEPT !.closing = expired, !.pc = "flush"])
    BY <1>8 DEF Load
  <2>2. expired \subseteq Existing(batch)
    BY BatchAssumption DEF Existing
  <2> HIDE DEF expired
  <2>3. [tx[s] EXCEPT !.closing = expired, !.pc = "flush"] =
        [tx[s] EXCEPT !.loaded = tx[s].loaded, !.closing = expired, !.pc = "flush"]
    BY <1>1 DEF SessionOK, Shaped
  <2> QED
    BY <1>5, <1>8, <2>1, <2>2, <2>3
<1>9. End(s) \/ (Op(s) = "patch" /\ batch[K(s)] # None)
      \/ (Op(s) = "work" /\ batch[K(s)] # None) \/ (Op(s) = "sweep" /\ expired # {})
  BY <1>1 DEF Load
<1> QED
  BY <1>4, <1>6, <1>7, <1>8, <1>9

\* While it goes on, what a session will commit stays the same.
LEMMA AfterSame ==
    ASSUME NEW s \in Session, batch' = batch, tx'[s].req = tx[s].req,
           tx'[s].loaded = tx[s].loaded, tx'[s].closing = tx[s].closing
    PROVE  After(s)' = After(s)
  BY DEF After, PatchedRow, Patched, Op, K

\* A write that has flushed goes on: each key is deleted, left or freshly filled.
LEMMA WriterGoesOn ==
    ASSUME IInv, calm, NEW s \in Session, Writing(s), batch' = batch,
           \A t \in Session \ {s} : tx'[t] = tx[t],
           tx'[s].req = tx[s].req, tx'[s].loaded = tx[s].loaded,
           tx'[s].closing = tx[s].closing,
           tx[s].pc \notin {"load", "flush"},
           tx'[s].pc \in {"drop", "get", "select", "second", "put", "commit"},
           HasRead(tx'[s], After(s)),
           \A k \in Key \ tx'[s].drop :
              \/ cache'[k] = None
              \/ k \notin tx[s].drop /\ cache'[k] = cache[k]
              \/ /\ k \in Batch /\ After(s)[k] # None
                 /\ cache'[k] = <<First(After(s), k), Second(After(s), k)>>
    PROVE  CalmInv'
<1>1. CalmInv /\ WriteOK(s) /\ After(s)' = After(s)
  BY AfterSame DEF IInv, CalmInv
<1>2. Writing(s)' /\ Op(s)' = Op(s) /\ K(s)' = K(s)
  BY DEF Writing, Active, Op, K
<1>3. \A k \in Key \ tx'[s].drop : FreshIn(After(s), k)'
  BY <1>1 DEF WriteOK, FreshIn
<1>4. WriteOK(s)'
  BY <1>1, <1>2, <1>3 DEF WriteOK
<1> QED
  BY <1>1, <1>2, <1>4, WriterCalm

LEMMA FlushCache ==
    ASSUME IInv, NEW s \in Session, Flush(s) PROVE IInv'
<1>1. /\ tx[s].pc = "flush" /\ Active(s) /\ SessionOK(s)
      /\ tx[s].req \in Writes /\ Writing(s) /\ tx[s].req \in Requests
      /\ UNCHANGED <<batch, cache, taken, writes, faults, calm>>
  BY DEF Flush, Active, Writing, IInv, SessionOK, Rest
<1>2. Affected(s) \subseteq Key
  <2>1. /\ Op(s) \in {"patch", "work", "create", "import", "sweep"} /\ K(s) \in Key
        /\ tx[s].closing \subseteq Batch
    BY <1>1, RequestFacts DEF Op, K, SessionOK, Existing
  <2> QED
    BY <2>1, KeyKinds DEF Affected
<1> DEFINE A == Affected(s)
<1> HIDE DEF A
<1>3. /\ DOMAIN tx' = Session /\ \A t \in Session \ {s} : tx'[t] = tx[t]
      /\ tx'[s] = [tx[s] EXCEPT !.drop = A, !.pc = "drop"]
  BY SetFacts DEF Flush, A
<1>4. /\ tx'[s].pc = "drop" /\ tx'[s].req = tx[s].req /\ tx'[s].loaded = tx[s].loaded
      /\ tx'[s].closing = tx[s].closing /\ tx'[s].drop = A /\ Shaped(tx'[s])
  BY <1>1, <1>3 DEF SessionOK, Shaped
<1>5. Active(s)' /\ Writing(s)' /\ Op(s)' = Op(s) /\ K(s)' = K(s)
  BY <1>1, <1>4 DEF Active, Writing, Op, K
<1>6. SessionOK(s)'
  BY <1>1, <1>2, <1>4, <1>5 DEF SessionOK, Existing, A
<1>7. calm => CalmInv'
  <2> SUFFICES ASSUME calm PROVE CalmInv'
    OBVIOUS
  <2>1. CalmInv /\ WriteOK(s) /\ After(s)' = After(s)
    BY <1>1, <1>4, AfterSame DEF IInv, CalmInv
  <2>2. \A k \in Key \ A : FreshIn(After(s), k)
    BY <1>1, <2>1, Unaffected DEF A
  <2>3. WriteOK(s)'
    BY <1>1, <1>4, <1>5, <2>1, <2>2 DEF WriteOK, HasRead, FreshIn
  <2> QED
    BY <1>1, <1>3, <1>5, <2>1, <2>3, WriterCalm
<1> QED
  BY <1>1, <1>3, <1>6, <1>7, QuietCache DEF IInv, TypeOK

LEMMA DropCache ==
    ASSUME IInv, NEW s \in Session, Drop(s) PROVE IInv'
<1>1. /\ tx[s].pc = "drop" /\ Active(s) /\ SessionOK(s)
      /\ tx[s].req \in Writes /\ Writing(s)
      /\ UNCHANGED <<batch, taken, writes, faults, calm>>
  BY DEF Drop, Active, Writing, IInv, SessionOK, Rest
<1>2. PICK k \in tx[s].drop :
        /\ cache' = [cache EXCEPT ![k] = None]
        /\ Set(s, [tx[s] EXCEPT !.drop = @ \ {k},
                     !.pc = IF @ = "drop" /\ tx[s].drop # {k} THEN "drop"
                            ELSE IF Op(s) \in {"patch", "create"} THEN "get" ELSE "commit"])
  BY DEF Drop
<1> DEFINE p == IF tx[s].drop # {k} THEN "drop"
                ELSE IF Op(s) \in {"patch", "create"} THEN "get" ELSE "commit"
<1>3. /\ DOMAIN tx' = Session /\ \A t \in Session \ {s} : tx'[t] = tx[t]
      /\ tx'[s] = [tx[s] EXCEPT !.drop = @ \ {k},
                     !.pc = IF @ = "drop" /\ tx[s].drop # {k} THEN "drop"
                            ELSE IF Op(s) \in {"patch", "create"} THEN "get" ELSE "commit"]
  BY <1>2, SetFacts
<1>4. /\ tx'[s].pc = p /\ tx'[s].req = tx[s].req /\ tx'[s].loaded = tx[s].loaded
      /\ tx'[s].closing = tx[s].closing /\ tx'[s].drop = tx[s].drop \ {k}
      /\ Shaped(tx'[s])
  BY <1>1, <1>3 DEF SessionOK, Shaped
<1>5. p # "drop" => tx[s].drop \ {k} = {}
  BY <1>2
<1>6. p \in {"drop", "get", "commit"} /\ (p = "get" => Op(s) \in {"patch", "create"})
  OBVIOUS
<1> HIDE DEF p
<1>7. Active(s)' /\ Writing(s)' /\ Op(s)' = Op(s) /\ K(s)' = K(s)
  BY <1>1, <1>4, <1>6 DEF Active, Writing, Op, K
<1>8. SessionOK(s)'
  BY <1>1, <1>4, <1>5, <1>6, <1>7 DEF SessionOK, Existing
<1>9. /\ DOMAIN cache' = Key
      /\ \A j \in Key : cache'[j] = IF j = k THEN None ELSE cache[j]
  BY <1>2 DEF IInv
<1>10. calm => CalmInv'
  BY <1>1, <1>3, <1>4, <1>6, <1>9, WriterGoesOn DEF HasRead
<1> QED
  BY <1>1, <1>3, <1>7, <1>8, <1>9, <1>10, QuietCache DEF IInv, TypeOK

\* A step of a session that reads: for itself, or its own batch.
LEMMA ReadStep ==
    ASSUME IInv, NEW s \in Session, Active(s),
           tx[s].pc \in {"get", "select", "second"},
           UNCHANGED <<batch, cache, taken, writes, faults, calm>>,
           DOMAIN tx' = Session, \A t \in Session \ {s} : tx'[t] = tx[t],
           Shaped(tx'[s]), tx'[s].req = tx[s].req, tx'[s].loaded = tx[s].loaded,
           tx'[s].closing = tx[s].closing, tx'[s].drop = tx[s].drop,
           tx'[s].pc \in {"select", "second", "put"},
           tx'[s].pc \in {"second", "put"} =>
              /\ tx[s].pc # "get" /\ (K(s) \in Batch => Seen(s)[K(s)] # None)
              /\ tx'[s].first = IF tx[s].pc = "second" THEN tx[s].first
                                ELSE First(Seen(s), K(s)),
           tx'[s].pc = "put" =>
              tx[s].pc = "second" /\ tx'[s].second = Second(Seen(s), K(s))
    PROVE  IInv'
<1>1. SessionOK(s) /\ Seen(s) \in Table /\ K(s) \in Key
  BY SeenType DEF IInv
<1>2. Active(s)' /\ (Writing(s)' <=> Writing(s)) /\ Op(s)' = Op(s) /\ K(s)' = K(s)
  BY DEF Active, Writing, Op, K
<1>3. /\ tx'[s].pc \in {"second", "put"} => tx'[s].first \in FirstType(K(s))
      /\ tx'[s].pc = "put" => tx'[s].second \in SecondType(K(s))
  BY <1>1, ReadTypes DEF SessionOK
<1>4. Op(s) = "read" => Seen(s) = batch
  BY DEF Seen, After
<1>5. SessionOK(s)'
  BY <1>1, <1>2, <1>3, <1>4 DEF SessionOK, Existing
<1>6. calm => CalmInv'
  <2> SUFFICES ASSUME calm PROVE CalmInv'
    OBVIOUS
  <2>1. CASE Writing(s)
    <3>1. WriteOK(s) /\ Seen(s) = After(s)
      BY <2>1, SeenIsAfter DEF IInv, CalmInv
    <3>2. HasRead(tx'[s], After(s))
      BY <3>1 DEF HasRead, WriteOK, K
    <3> QED
      BY <1>1, <2>1, <3>2, WriterGoesOn DEF SessionOK
  <2>2. CASE ~Writing(s)
    <3>1. CalmInv /\ HasRead(tx[s], batch) /\ Seen(s) = batch
      BY <2>2, SeenType DEF IInv, CalmInv
    <3>2. HasRead(tx'[s], batch)
      BY <3>1 DEF HasRead, K
    <3>3. \A k \in Key : FreshIn(batch, k) => FreshIn(batch, k)'
      BY DEF FreshIn
    <3> QED
      BY <1>2, <2>2, <3>1, <3>2, <3>3, ReaderCalm
  <2> QED
    BY <2>1, <2>2
<1> QED
  BY <1>2, <1>5, <1>6, QuietCache DEF IInv, TypeOK

\* The read is over: the key is as it was, or filled with what has been read.
LEMMA ServedCache ==
    ASSUME IInv, NEW s \in Session, tx[s].pc \in {"get", "put"}, Served(s),
           UNCHANGED <<batch, taken, writes, faults, calm>>, DOMAIN cache' = Key,
           \A k \in Key :
              \/ cache'[k] = cache[k]
              \/ /\ tx[s].pc = "put" /\ k = K(s)
                 /\ cache'[k] = <<tx[s].first, tx[s].second>>
    PROVE  IInv'
<1>1. SessionOK(s) /\ Active(s) /\ K(s) \in Key
  BY SeenType DEF IInv, Active
<1>2. \A k \in Key : cache'[k] = None \/ cache'[k] \in Values(k)
  <2>1. tx[s].pc = "put" => <<tx[s].first, tx[s].second>> \in Values(K(s))
    BY <1>1, ValueParts DEF SessionOK
  <2> QED
    BY <2>1 DEF IInv, TypeOK
<1>3. CASE Writing(s)
  <2>1. Set(s, [tx[s] EXCEPT !.first = None, !.second = None, !.pc = "commit"])
    BY <1>3 DEF Served
  <2>2. /\ DOMAIN tx' = Session /\ \A t \in Session \ {s} : tx'[t] = tx[t]
        /\ tx'[s] = [tx[s] EXCEPT !.first = None, !.second = None, !.pc = "commit"]
    BY <2>1, SetFacts
  <2>3. /\ tx'[s].pc = "commit" /\ tx'[s].req = tx[s].req
        /\ tx'[s].loaded = tx[s].loaded /\ tx'[s].closing = tx[s].closing
        /\ tx'[s].drop = tx[s].drop /\ Shaped(tx'[s])
    BY <1>1, <2>2 DEF SessionOK, Shaped
  <2>4. Active(s)' /\ Writing(s)' /\ Op(s)' = Op(s) /\ K(s)' = K(s)
    BY <1>3, <2>3 DEF Active, Writing, Op, K
  <2>5. SessionOK(s)'
    BY <1>1, <1>3, <2>3, <2>4 DEF SessionOK, Existing, Writing
  <2>6. calm => CalmInv'
    <3> SUFFICES ASSUME calm PROVE CalmInv'
      OBVIOUS
    <3>1. WriteOK(s) /\ Seen(s) = After(s) /\ K(s) \in Batch /\ Seen(s)[K(s)] # None
      BY <1>1, <1>3, SeenIsAfter, SeenType DEF IInv, CalmInv
    <3>2. tx[s].pc = "put" => <<tx[s].first, tx[s].second>> =
                                <<First(After(s), K(s)), Second(After(s), K(s))>>
      BY <3>1 DEF WriteOK, HasRead, K
    <3>3. tx[s].drop = {} /\ HasRead(tx'[s], After(s))
      BY <1>1, <2>3 DEF SessionOK, HasRead
    <3> QED
      BY <1>3, <2>2, <2>3, <3>1, <3>2, <3>3, WriterGoesOn
  <2> QED
    BY <1>2, <1>3, <2>2, <2>5, <2>6, QuietCache DEF IInv, TypeOK
<1>4. CASE ~Writing(s)
  <2>1. /\ DOMAIN tx' = Session /\ tx'[s] = IdleTx
        /\ \A t \in Session \ {s} : tx'[t] = tx[t]
    BY <1>4, SetFacts DEF Served, End
  <2>2. SessionOK(s)' /\ ~Active(s)' /\ ~Writing(s)' /\ HasRead(tx'[s], batch)
    BY <2>1, IdleOK DEF Writing, HasRead, IdleTx
  <2>3. calm => CalmInv'
    <3> SUFFICES ASSUME calm PROVE CalmInv'
      OBVIOUS
    <3>1. CalmInv /\ HasRead(tx[s], batch) /\ Op(s) \in {"read", "push"}
      BY <1>1, <1>4, SeenType DEF IInv, CalmInv
    <3>2. tx[s].pc = "put" /\ K(s) \in Batch => batch[K(s)] # None
      <4>1. Op(s) = "push" => K(s) \notin Batch
        BY <1>1, KeyKinds DEF SessionOK, Requests, Reads, Push, Patch, Work, Create,
           Sweep, Writes, Op, K
      <4> QED
        BY <1>1, <3>1, <4>1 DEF SessionOK
    <3>3. tx[s].pc = "put" =>
            tx[s].first = First(batch, K(s)) /\ tx[s].second = Second(batch, K(s))
      BY <3>1 DEF HasRead, K
    <3>4. \A k \in Key : FreshIn(batch, k) => FreshIn(batch, k)'
      BY <3>2, <3>3 DEF FreshIn
    <3> QED
      BY <1>1, <1>4, <2>1, <2>2, <3>1, <3>4, ReaderCalm
  <2> QED
    BY <1>2, <2>1, <2>2, <2>3, QuietCache DEF IInv, TypeOK
<1> QED
  BY <1>3, <1>4

LEMMA GetCache ==
    ASSUME IInv, NEW s \in Session, Get(s) PROVE IInv'
<1>1. /\ tx[s].pc = "get" /\ Active(s) /\ SessionOK(s)
      /\ UNCHANGED <<batch, cache, taken, writes, faults, calm>>
  BY DEF Get, Active, IInv, Rest
<1>2. CASE Served(s)
  BY <1>1, <1>2, ServedCache DEF IInv
<1>3. CASE Set(s, [tx[s] EXCEPT !.pc = "select"])
  <2>1. /\ DOMAIN tx' = Session /\ \A t \in Session \ {s} : tx'[t] = tx[t]
        /\ tx'[s] = [tx[s] EXCEPT !.pc = "select"]
    BY <1>3, SetFacts
  <2>2. /\ tx'[s].pc = "select" /\ tx'[s].req = tx[s].req
        /\ tx'[s].loaded = tx[s].loaded /\ tx'[s].closing = tx[s].closing
        /\ tx'[s].drop = tx[s].drop /\ Shaped(tx'[s])
    BY <1>1, <2>1 DEF SessionOK, Shaped
  <2> QED
    BY <1>1, <2>1, <2>2, ReadStep
<1> QED
  BY <1>2, <1>3 DEF Get

LEMMA SelectCache ==
    ASSUME IInv, NEW s \in Session, Select(s) PROVE IInv'
<1>1. /\ tx[s].pc = "select" /\ Active(s) /\ SessionOK(s)
      /\ UNCHANGED <<batch, cache, taken, writes, faults, calm>>
  BY DEF Select, Active, IInv, Rest
<1>2. CASE K(s) \in Batch /\ Seen(s)[K(s)] = None
  <2>1. ~Writing(s)
    BY <1>1, <1>2, SeenType
  <2> QED
    BY <1>1, <1>2, <2>1, EndCache DEF Select, IInv, TypeOK
<1>3. CASE ~(K(s) \in Batch /\ Seen(s)[K(s)] = None)
  <2> DEFINE f == First(Seen(s), K(s))
  <2> HIDE DEF f
  <2>1. /\ DOMAIN tx' = Session /\ \A t \in Session \ {s} : tx'[t] = tx[t]
        /\ tx'[s] = [tx[s] EXCEPT !.first = f, !.pc = "second"]
    BY <1>3, SetFacts DEF Select, f
  <2>2. /\ tx'[s].pc = "second" /\ tx'[s].req = tx[s].req
        /\ tx'[s].loaded = tx[s].loaded /\ tx'[s].closing = tx[s].closing
        /\ tx'[s].drop = tx[s].drop /\ tx'[s].first = f /\ Shaped(tx'[s])
    BY <1>1, <2>1 DEF SessionOK, Shaped
  <2> QED
    BY <1>1, <1>3, <2>1, <2>2, ReadStep DEF f
<1> QED
  BY <1>2, <1>3

LEMMA SelectSecondCache ==
    ASSUME IInv, NEW s \in Session, SelectSecond(s) PROVE IInv'
<1>1. /\ tx[s].pc = "second" /\ Active(s) /\ SessionOK(s)
      /\ UNCHANGED <<batch, cache, taken, writes, faults, calm>>
  BY DEF SelectSecond, Active, IInv, Rest
<1> DEFINE g == Second(Seen(s), K(s))
<1> HIDE DEF g
<1>2. /\ DOMAIN tx' = Session /\ \A t \in Session \ {s} : tx'[t] = tx[t]
      /\ tx'[s] = [tx[s] EXCEPT !.second = g, !.pc = "put"]
  BY SetFacts DEF SelectSecond, g
<1>3. /\ tx'[s].pc = "put" /\ tx'[s].req = tx[s].req
      /\ tx'[s].loaded = tx[s].loaded /\ tx'[s].closing = tx[s].closing
      /\ tx'[s].drop = tx[s].drop /\ tx'[s].first = tx[s].first
      /\ tx'[s].second = g /\ Shaped(tx'[s])
  BY <1>1, <1>2 DEF SessionOK, Shaped
<1>4. K(s) \in Batch => Seen(s)[K(s)] # None
  <2>1. Op(s) = "push" => K(s) \notin Batch
    BY <1>1, KeyKinds DEF SessionOK, Requests, Reads, Push, Patch, Work, Create,
       Sweep, Writes, Op, K
  <2>2. Op(s) = "read" /\ K(s) \in Batch => batch[K(s)] # None
    BY <1>1 DEF SessionOK
  <2> QED
    BY <1>1, <2>1, <2>2, SeenType
<1> QED
  BY <1>1, <1>2, <1>3, <1>4, ReadStep DEF g

LEMMA PutCache ==
    ASSUME IInv, NEW s \in Session, Put(s) PROVE IInv'
<1>1. /\ tx[s].pc = "put" /\ Served(s) /\ DOMAIN cache = Key
      /\ cache' = [cache EXCEPT ![K(s)] = <<tx[s].first, tx[s].second>>]
      /\ UNCHANGED <<batch, taken, writes, faults, calm>>
  BY DEF Put, Rest, IInv
<1> QED
  BY <1>1, ServedCache

\* Only what exists, or is being created, exists after a commit.
LEMMA AfterExisting ==
    ASSUME IInv, NEW s \in Session, Writing(s), tx[s].pc = "commit"
    PROVE  Existing(After(s)) \subseteq taken
<1>1. /\ SessionOK(s) /\ tx[s].req \in Requests /\ Active(s) /\ batch \in Table
      /\ Op(s) \in {"patch", "work", "create", "import", "sweep"}
      /\ Existing(batch) \subseteq taken
  BY RequestFacts DEF IInv, TypeOK, Writing, Requests, Op, Table
<1>2. /\ Op(s) \in {"patch", "work"} => batch[K(s)] # None
      /\ Op(s) \in {"create", "import"} => K(s) \in taken
  BY <1>1 DEF SessionOK
<1> SUFFICES ASSUME NEW b \in Batch, After(s)[b] # None PROVE b \in taken
  BY DEF Existing
<1>3. CASE batch[b] # None
  BY <1>1, <1>3 DEF Existing
<1>4. CASE batch[b] = None
  <2>1. b \notin tx[s].closing
    BY <1>1, <1>4 DEF SessionOK, Existing
  <2>2. Op(s) \in {"create", "import"} /\ b = K(s)
    BY <1>1, <1>2, <1>4, <2>1 DEF After, Table
  <2> QED
    BY <1>2, <2>2
<1> QED
  BY <1>3, <1>4

LEMMA CommitCache ==
    ASSUME IInv, NEW s \in Session, Commit(s) PROVE IInv'
<1>1. /\ tx[s].pc = "commit" /\ Active(s) /\ Writing(s) /\ batch' = After(s)
      /\ UNCHANGED <<cache, taken, writes, faults, calm>>
  BY DEF Commit, Active, Writing, IInv, SessionOK, Rest
<1>2. /\ DOMAIN tx' = Session /\ tx'[s] = IdleTx
      /\ \A t \in Session \ {s} : tx'[t] = tx[t]
  BY SetFacts DEF Commit, End
<1>3. /\ After(s) \in Table
      /\ \A b \in Batch : batch[b] # None => batch'[b] # None
      /\ \A b \in Batch : batch'[b] # None =>
            batch'[b].work = 0 \/
            (batch[b] # None /\ batch'[b].work <= batch[b].work + 1)
  BY <1>1, AfterType
<1>4. SessionOK(s)' /\ ~Active(s)' /\ ~Writing(s)'
  BY <1>2, IdleOK DEF Writing
<1>5. TypeOK'
  BY <1>1, <1>2, <1>3, AfterExisting DEF IInv, TypeOK, Table, Existing
<1>6. ASSUME NEW t \in Session PROVE SessionOK(t)'
  BY <1>1, <1>2, <1>3, <1>4, OtherSession DEF IInv
<1>7. WorkBound'
  <2>1. Writers' = Writers \ {s} /\ s \in Writers
    BY <1>1, <1>2, <1>4 DEF Writers, Writing, Active
  <2>2. IsFiniteSet(Writers') /\ Cardinality(Writers') = Cardinality(Writers) - 1
    BY <2>1, FS_RemoveElement DEF IInv, WorkBound
  <2>3. /\ Cardinality(Writers) \in Nat /\ writes \in Nat
        /\ Cardinality(Writers) <= writes
    BY FS_CardinalityType, BoundsAssumption DEF IInv, WorkBound, TypeOK
  <2>4. ASSUME NEW b \in Batch, batch'[b] # None
        PROVE  batch'[b].work + Cardinality(Writers') <= writes
    <3>1. /\ batch'[b].work \in Nat
          /\ batch[b] # None => batch[b].work \in Nat
                                /\ batch[b].work + Cardinality(Writers) <= writes
      BY <1>1, <1>3, <2>4, BoundsAssumption DEF IInv, TypeOK, WorkBound, Table, Row
    <3> QED
      BY <1>3, <2>2, <2>3, <2>4, <3>1
  <2> QED
    BY <1>1, <2>2, <2>3, <2>4 DEF WorkBound
<1>8. calm => CalmInv'
  <2> SUFFICES ASSUME calm PROVE CalmInv'
    OBVIOUS
  <2>1. WriteOK(s) /\ tx[s].drop = {}
    BY <1>1 DEF IInv, CalmInv, SessionOK
  <2>2. \A k \in Key : FreshIn(After(s), k)
    BY <1>1, <2>1 DEF WriteOK
  <2>3. \A k \in Key : FreshIn(batch, k)'
    BY <1>1, <2>2 DEF FreshIn
  <2> QED
    BY <1>1, <1>2, <1>4, <2>3, WriterEnds DEF IInv
<1> QED
  BY <1>1, <1>5, <1>6, <1>7, <1>8 DEF IInv

LEMMA RollbackCache ==
    ASSUME IInv, NEW s \in Session, Rollback(s) PROVE IInv'
<1>1. /\ Active(s) /\ End(s) /\ UNCHANGED <<batch, cache, taken, writes>>
      /\ Writing(s) => faults < MaxFaults /\ faults' = faults + 1 /\ calm' = FALSE
      /\ ~Writing(s) => UNCHANGED <<faults, calm>>
  BY DEF Rollback
<1>2. faults \in 0 .. MaxFaults /\ calm \in BOOLEAN
  BY DEF IInv, TypeOK
<1>3. CASE Writing(s)
  <2>1. faults' \in 0 .. MaxFaults
    BY <1>1, <1>2, <1>3, BoundsAssumption
  <2> QED
    BY <1>1, <1>3, <2>1, EndCache
<1>4. CASE ~Writing(s)
  BY <1>1, <1>2, <1>4, EndCache
<1> QED
  BY <1>3, <1>4

\* Keys expire, or nothing happens.
LEMMA ExpireCache ==
    ASSUME IInv, UNCHANGED <<batch, tx, taken, writes, faults, calm>>,
           DOMAIN cache' = Key,
           \A j \in Key : cache'[j] = None \/ cache'[j] = cache[j]
    PROVE  IInv'
<1>1. /\ UNCHANGED <<batch, tx, taken, writes, faults, calm>>
      /\ DOMAIN cache' = Key
      /\ \A j \in Key : cache'[j] = None \/ cache'[j] = cache[j]
  OBVIOUS
<1>2. TypeOK'
  BY <1>1 DEF IInv, TypeOK, Existing
<1>3. \A t \in Session : SessionOK(t)'
  BY <1>1, OtherSession DEF IInv
<1>4. WorkBound'
  BY <1>1 DEF IInv, WorkBound, Writers, Writing, Active
<1>5. calm => CalmInv'
  <2> SUFFICES ASSUME calm PROVE CalmInv'
    OBVIOUS
  <2>1. \A t \in Session : /\ Active(t)' = Active(t) /\ Writing(t)' = Writing(t)
                           /\ Op(t)' = Op(t) /\ K(t)' = K(t) /\ After(t)' = After(t)
    BY <1>1, AfterSame DEF Active, Writing, Op, K
  <2>2. \A t \in Session : Writing(t) => WriteOK(t)'
    <3>1. \A t \in Session : Writing(t) => WriteOK(t)
      BY DEF IInv, CalmInv
    <3> QED
      BY <1>1, <2>1, <3>1 DEF WriteOK, FreshIn
  <2>3. (\A t \in Session : ~Writing(t)) => \A j \in Key : FreshIn(batch, j)'
    BY <1>1 DEF IInv, CalmInv, FreshIn
  <2> QED
    BY <1>1, <2>1, <2>2, <2>3 DEF IInv, CalmInv
<1> QED
  BY <1>1, <1>2, <1>3, <1>4, <1>5 DEF IInv

LEMMA NextCache == IInv /\ [Next]_vars => IInv'
<1> SUFFICES ASSUME IInv, [Next]_vars PROVE IInv'
  OBVIOUS
<1>1. CASE UNCHANGED vars
  BY <1>1, ExpireCache DEF vars, IInv
<1>2. ASSUME NEW s \in Session, NEW r \in Requests, Start(s, r) PROVE IInv'
  BY <1>2, StartCache
<1>3. ASSUME NEW s \in Session, Step(s) PROVE IInv'
  BY <1>3, LoadCache, FlushCache, DropCache, GetCache, SelectCache,
     SelectSecondCache, PutCache, CommitCache DEF Step
<1>4. ASSUME NEW s \in Session, Rollback(s) PROVE IInv'
  BY <1>4, RollbackCache
<1>5. ASSUME NEW k \in Key, Expire(k) PROVE IInv'
  BY <1>5, ExpireCache DEF Expire, Rest, IInv
<1> QED
  BY <1>1, <1>2, <1>3, <1>4, <1>5 DEF Next, Requests

-----------------------------------------------------------------------------
(* Theorems.                                                               *)

\* The inductive invariant: what each session has looked at, how much it can have
\* changed, and, while no write has met another session, which keys it still owes.
THEOREM CacheInvariance == Spec => []IInv
<1>1. Init => IInv
  BY InitCache
<1>2. IInv /\ [Next]_vars => IInv'
  BY NextCache
<1> QED
  BY <1>1, <1>2, PTL DEF Spec

\* Rows keep their types, and whatever a key of Redis holds is a value of that key:
\* no interleaving puts the value of one key under another.
THEOREM CacheTypeCorrect == Spec => []TypeOK
<1>1. IInv => TypeOK
  BY DEF IInv
<1> QED
  BY <1>1, CacheInvariance, PTL

\* A write that met nobody has deleted every cached value that its commit makes
\* stale, and has put none there that its commit does not confirm.
THEOREM DeletionsComplete == Spec => []InvalidationComplete
<1>1. IInv => InvalidationComplete
  BY DEF IInv, CalmInv, InvalidationComplete, Fresh, FreshIn
<1> QED
  BY <1>1, CacheInvariance, PTL
=============================================================================
