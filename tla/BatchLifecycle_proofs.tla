------------------------ MODULE BatchLifecycle_proofs ------------------------
(***************************************************************************)
(* The inductive invariant of BatchLifecycle and the theorems it carries,  *)
(* for any sets of batches, sessions and (finitely many) codes and any     *)
(* number of requests.                                                     *)
(***************************************************************************)
EXTENDS BatchLifecycle, FiniteSetTheorems, TLAPS

Coherent(row) == row.is_closed <=> row.closed_at = "stamp"

\* Which step belongs to which kind of request, and what it still has to do.
PhaseOK(s) ==
    LET t == tx[s] IN
    /\ t.pc = "idle" => t = IdleTx
    /\ t.pc = "loaded" => t.req.op = "patch" /\ t.targets = {t.req.batch}
    /\ t.pc = "counting" => t.req.op \in {"patch", "sweep"}
    /\ t.pc = "closing" => t.req.op = "sweep"
    /\ t.pc \in {"checking", "checked", "writing"} =>
         t.req.op \in {"add", "aggregate"} /\ t.todo # <<>>

\* A session writes only rows that exist and codes that it was given.
WritesOK(s) ==
    LET t == tx[s] IN
    /\ t.ins # {} => t.req.op = "add"
    /\ t.req.op = "add" => /\ t.ins \subseteq DOMAIN t.req.items
                           /\ \A i \in 1 .. Len(t.todo) :
                                t.todo[i] \subseteq DOMAIN t.req.items
    /\ \A c \in t.aggs : product[c] # Absent
    /\ At(s, "aggregate", "writing") => \A c \in Head(t.todo) : product[c] # Absent
    /\ t.req.op \in {"add", "aggregate"} => t.locks = {}
    /\ t.locks # {} => t.pc = "done" \/ (t.pc = "counting" /\ t.req.op = "patch")
    /\ t.locks \subseteq t.targets
    /\ \A b \in t.targets : batch[b] # Absent

\* For a batch created open: the row a PATCH decides on is coherent, and the
\* UPDATE sets both closed columns or neither.
UpdateOK(s) ==
    LET t == tx[s] IN
    /\ t.req.op = "patch" =>
         \A b \in t.targets : b \notin bornClosed => Coherent(t.seen)
    /\ \A b \in t.locks : b \notin bornClosed =>
         \/ t.upd.cols = {}
         \/ t.upd.cols = {"is_closed", "closed_at"} /\ Coherent(t.upd.row)

\* Before a session closes a batch it has an event for it.
EventsOK(s) ==
    LET t == tx[s]
        Counted == { e.batch : e \in t.stats }
    IN /\ t.pc = "closing" => t.targets \subseteq Counted
       /\ t.pc = "done" /\ "is_closed" \in t.upd.cols /\ t.upd.row.is_closed =>
            t.locks \subseteq Counted

SessionOK(s) == PhaseOK(s) /\ WritesOK(s) /\ UpdateOK(s) /\ EventsOK(s)

IInv == /\ TypeOK
        /\ \A s \in Session : SessionOK(s)
        /\ BornOpenCoherent
        /\ CloseNeverUnannounced

-----------------------------------------------------------------------------
(* Facts about requests and counts.                                        *)

LEMMA PatchFacts ==
    ASSUME NEW r \in Patch
    PROVE  /\ r.op = "patch" /\ r.batch \in Batch
           /\ r.want \in {"close", "reopen", "keep"} /\ r.edit \in BOOLEAN
  BY DEF Patch

LEMMA AddFacts ==
    ASSUME NEW r \in Add
    PROVE  /\ r.op = "add"
           /\ r.items \in [DOMAIN r.items -> Batch]
           /\ DOMAIN r.items \subseteq Code
           /\ r.groups \in Seq(SUBSET Code) /\ r.groups # <<>>
           /\ \A i \in 1 .. Len(r.groups) : r.groups[i] \subseteq DOMAIN r.items
<1>a. PICK f \in UNION { [C -> Batch] : C \in (SUBSET Code) \ {{}} } :
        r \in [op : {"add"}, items : {f}, groups : FlushOrders(f)]
  BY DEF Add
<1>b. PICK C \in (SUBSET Code) \ {{}} : f \in [C -> Batch]
  OBVIOUS
<1>2. r.op = "add" /\ r.items = f /\ r.groups \in FlushOrders(f) /\ DOMAIN f = C
  BY <1>a, <1>b
<1>3. IsFiniteSet(C) /\ Cardinality(C) \in Nat /\ Cardinality(C) # 0
  BY CodeAssumption, FS_Subset, FS_CardinalityType, FS_EmptySet
<1>4. r.groups \in [1 .. Cardinality(C) -> {{c} : c \in C}]
  BY <1>2 DEF FlushOrders
<1>5. r.groups \in Seq({{c} : c \in C}) /\ Len(r.groups) = Cardinality(C)
  BY <1>3, <1>4
<1> QED
  BY <1>b, <1>2, <1>3, <1>4, <1>5

LEMMA AggregateFacts ==
    ASSUME NEW r \in Aggregate
    PROVE  /\ r.op = "aggregate" /\ r.batch \in Batch /\ r.strict \in BOOLEAN
           /\ r.groups \in Seq(SUBSET Code) /\ r.groups # <<>>
<1>1. CASE r \in [op : {"aggregate"}, batch : Batch, strict : {TRUE},
                  groups : { <<C>> : C \in (SUBSET Code) \ {{}} }]
  <2>1. /\ r.op = "aggregate" /\ r.batch \in Batch /\ r.strict = TRUE
        /\ r.groups \in { <<C>> : C \in (SUBSET Code) \ {{}} }
    BY <1>1
  <2>2. PICK C \in SUBSET Code : r.groups = <<C>>
    BY <2>1
  <2>3. r.groups \in Seq(SUBSET Code) /\ r.groups # <<>>
    BY <2>2
  <2>4. r.strict \in BOOLEAN
    BY <2>1
  <2> QED
    BY <2>1, <2>3, <2>4, Zenon
<1>2. CASE r \in [op : {"aggregate"}, batch : Batch, strict : {FALSE},
                  groups : UNION { [1 .. n -> { {c} : c \in Code }] :
                                     n \in 1 .. MaxCodes }]
  <2>1. /\ r.op = "aggregate" /\ r.batch \in Batch /\ r.strict = FALSE
        /\ r.groups \in UNION { [1 .. n -> { {c} : c \in Code }] :
                                   n \in 1 .. MaxCodes }
    BY <1>2
  <2>2. PICK n \in 1 .. MaxCodes : r.groups \in [1 .. n -> { {c} : c \in Code }]
    BY <2>1
  <2>3. n \in Nat /\ n # 0
    BY MaxCodesAssumption
  <2>4. r.groups \in Seq(SUBSET Code) /\ r.groups # <<>>
    BY <2>2, <2>3
  <2>5. r.strict \in BOOLEAN
    BY <2>1
  <2> QED
    BY <2>1, <2>4, <2>5, Zenon
<1> QED
  BY <1>1, <1>2 DEF Aggregate

LEMMA RequestOps ==
    ASSUME NEW r \in Request
    PROVE  /\ r.op \in {"patch", "sweep", "add", "aggregate"}
           /\ r.op = "patch" => r \in Patch
           /\ r.op = "add" => r \in Add
           /\ r.op = "aggregate" => r \in Aggregate
  BY PatchFacts, AddFacts, AggregateFacts DEF Request, Sweep

LEMMA CountFacts ==
    ASSUME NEW b \in Batch
    PROVE  /\ Cardinality(ProductsOf(b)) \in Nat
           /\ Cardinality(AggregatedOf(b)) \in Nat
  BY CodeAssumption, FS_Subset, FS_CardinalityType DEF ProductsOf, AggregatedOf

LEMMA IdleTxType == IdleTx \in Tx
<1>1. <<>> \in Seq(SUBSET Code)
  OBVIOUS
<1> QED
  BY <1>1 DEF IdleTx, Tx, OpenRow, BatchRow, ClosedAt, NoUpdate, Update

LEMMA InitIInv == Init => IInv
<1> SUFFICES ASSUME Init PROVE IInv
  OBVIOUS
<1>1. TypeOK
  BY IdleTxType DEF Init, TypeOK
<1>2. ASSUME NEW s \in Session PROVE SessionOK(s)
  BY DEF Init, SessionOK, PhaseOK, WritesOK, UpdateOK, EventsOK, IdleTx, At,
         NoUpdate, OpenRow
<1>3. BornOpenCoherent /\ CloseNeverUnannounced
  BY DEF Init, BornOpenCoherent, CloseNeverUnannounced
<1> QED
  BY <1>1, <1>2, <1>3 DEF IInv

-----------------------------------------------------------------------------
(* Steps.                                                                  *)

\* A session that did not step is as good as before, as rows only appear.
LEMMA OtherSession ==
    ASSUME NEW t \in Session, SessionOK(t), tx'[t] = tx[t],
           \A c \in Code : product[c] # Absent => product'[c] # Absent,
           \A b \in Batch : batch[b] # Absent => batch'[b] # Absent,
           bornClosed \subseteq bornClosed',
           tx[t] \in Tx
    PROVE  SessionOK(t)'
<1>1. PhaseOK(t)'
  BY DEF SessionOK, PhaseOK
<1>2. WritesOK(t)'
  <2>1. tx[t].aggs \subseteq Code /\ tx[t].targets \subseteq Batch
        /\ tx[t].todo \in Seq(SUBSET Code)
    BY DEF Tx
  <2>2. At(t, "aggregate", "writing") => Head(tx[t].todo) \subseteq Code
    BY <2>1 DEF SessionOK, PhaseOK, At
  <2> QED
    BY <2>1, <2>2 DEF SessionOK, WritesOK, At
<1>3. UpdateOK(t)'
  BY DEF SessionOK, UpdateOK, Coherent
<1>4. EventsOK(t)'
  BY DEF SessionOK, EventsOK
<1> QED
  BY <1>1, <1>2, <1>3, <1>4 DEF SessionOK

\* A step of session s that commits nothing.
LEMMA Quiet ==
    ASSUME IInv, NEW s \in Session, UNCHANGED <<Rows, started, history>>,
           tx' \in [Session -> Tx], \A t \in Session \ {s} : tx'[t] = tx[t],
           SessionOK(s)'
    PROVE  IInv'
<1>1. TypeOK'
  BY DEF IInv, TypeOK, Rows, history, BatchRow, ClosedAt, ProductRow
<1>2. ASSUME NEW t \in Session PROVE SessionOK(t)'
  <2>1. CASE t = s
    BY <2>1
  <2>2. CASE t # s
    BY <2>2, OtherSession DEF IInv, TypeOK, Rows, history
  <2> QED
    BY <2>1, <2>2
<1>3. BornOpenCoherent' /\ CloseNeverUnannounced'
  BY DEF IInv, BornOpenCoherent, CloseNeverUnannounced, Rows, history
<1> QED
  BY <1>1, <1>2, <1>3 DEF IInv

LEMMA IdleOK == ASSUME NEW s \in Session, tx'[s] = IdleTx PROVE SessionOK(s)'
  BY DEF SessionOK, PhaseOK, WritesOK, UpdateOK, EventsOK, IdleTx, At, NoUpdate,
         OpenRow

LEMMA EndIInv ==
    ASSUME IInv, NEW s \in Session, UNCHANGED <<Rows, started, history>>, End(s)
    PROVE  IInv'
<1>1. tx' \in [Session -> Tx] /\ tx'[s] = IdleTx
      /\ \A t \in Session \ {s} : tx'[t] = tx[t]
  BY IdleTxType DEF End, IInv, TypeOK
<1> QED
  BY <1>1, IdleOK, Quiet

LEMMA StartIInv ==
    ASSUME IInv, NEW s \in Session, NEW r \in Request, Start(s, r) PROVE IInv'
<1> DEFINE first == IF r.op \in {"patch", "sweep"} THEN "start" ELSE "checking"
           groups == IF r.op \in {"patch", "sweep"} THEN <<>> ELSE r.groups
           x == [IdleTx EXCEPT !.pc = first, !.req = r, !.todo = groups]
<1>1. /\ r.op \in {"patch", "sweep", "add", "aggregate"}
      /\ groups \in Seq(SUBSET Code)
      /\ r.op \in {"add", "aggregate"} => groups # <<>>
  BY RequestOps, AddFacts, AggregateFacts
<1>2. r.op = "add" =>
         \A i \in 1 .. Len(groups) : groups[i] \subseteq DOMAIN r.items
  BY RequestOps, AddFacts
<1> HIDE DEF groups
<1>3. x \in Tx /\ x.pc = first /\ x.req = r /\ x.todo = groups /\ x.targets = {}
      /\ x.locks = {} /\ x.ins = {} /\ x.aggs = {} /\ x.upd = NoUpdate
  BY <1>1, IdleTxType DEF IdleTx, Tx
<1> HIDE DEF x
<1>4. tx' \in [Session -> Tx] /\ tx'[s] = x /\ \A t \in Session \ {s} : tx'[t] = tx[t]
  BY <1>3 DEF Start, IInv, TypeOK, x, groups
<1>5. SessionOK(s)'
  BY <1>1, <1>2, <1>3, <1>4
  DEF SessionOK, PhaseOK, WritesOK, UpdateOK, EventsOK, At, NoUpdate
<1>6. TypeOK'
  BY <1>4 DEF Start, IInv, TypeOK, Rows, history
<1>7. ASSUME NEW t \in Session PROVE SessionOK(t)'
  <2>1. CASE t = s
    BY <2>1, <1>5
  <2>2. CASE t # s
    BY <2>2, <1>4, OtherSession DEF Start, IInv, TypeOK, Rows, history
  <2> QED
    BY <2>1, <2>2
<1>8. BornOpenCoherent' /\ CloseNeverUnannounced'
  BY DEF Start, IInv, BornOpenCoherent, CloseNeverUnannounced, Rows, history
<1> QED
  BY <1>6, <1>7, <1>8 DEF IInv

LEMMA PatchLoadIInv ==
    ASSUME IInv, NEW s \in Session, PatchLoad(s) PROVE IInv'
<1> DEFINE b == tx[s].req.batch
<1>1. tx[s] \in Tx /\ b \in Batch /\ tx[s].req.op = "patch"
  BY RequestOps, PatchFacts DEF IInv, TypeOK, PatchLoad, At, Tx
<1>2. CASE batch[b] = Absent
  BY <1>2, EndIInv DEF PatchLoad
<1>3. CASE batch[b] # Absent
  <2>1. batch[b] \in BatchRow
    BY <1>1, <1>3 DEF IInv, TypeOK
  <2>2. tx' = [tx EXCEPT ![s].pc = "loaded", ![s].seen = batch[b],
                         ![s].targets = {b}]
    BY <1>3 DEF PatchLoad
  <2>3. tx'[s] = [tx[s] EXCEPT !.pc = "loaded", !.seen = batch[b], !.targets = {b}]
        /\ \A t \in Session \ {s} : tx'[t] = tx[t]
    BY <2>2 DEF IInv, TypeOK
  <2>4. tx' \in [Session -> Tx]
    BY <1>1, <2>1, <2>2 DEF IInv, TypeOK, Tx
  <2>5. tx'[s].locks = tx[s].locks /\ tx[s].pc = "start" /\ tx'[s].upd = tx[s].upd
        /\ tx'[s].ins = tx[s].ins /\ tx'[s].aggs = tx[s].aggs /\ tx'[s].pc = "loaded"
        /\ tx'[s].seen = batch[b] /\ tx'[s].targets = {b} /\ tx'[s].req = tx[s].req
    BY <1>1, <2>3 DEF Tx, PatchLoad, At
  <2>6. tx[s].locks = {} /\ tx[s].aggs \subseteq Code /\ WritesOK(s)
    BY <1>1, <2>5 DEF IInv, SessionOK, WritesOK, Tx
  <2>7. PhaseOK(s)' /\ EventsOK(s)'
    BY <2>5, <1>1 DEF PhaseOK, EventsOK, IdleTx
  <2>8. WritesOK(s)'
    BY <1>1, <1>3, <2>5, <2>6 DEF WritesOK, At, PatchLoad, Rows
  <2>9. UpdateOK(s)'
    BY <1>1, <1>3, <2>5, <2>6
    DEF UpdateOK, PatchLoad, Rows, history, IInv, BornOpenCoherent, Coherent
  <2> QED
    BY <2>3, <2>4, <2>7, <2>8, <2>9, Quiet DEF PatchLoad, SessionOK
<1> QED
  BY <1>2, <1>3

LEMMA PatchFlushIInv ==
    ASSUME IInv, NEW s \in Session, PatchFlush(s) PROVE IInv'
<1> DEFINE r == tx[s].req
           u == PatchUpdate(r.want, tx[s].seen)
           B == IF u.cols # {} \/ r.edit THEN {r.batch} ELSE {}
           p == IF r.want = "close" /\ ~tx[s].seen.is_closed
                THEN "counting" ELSE "done"
<1>1. tx[s] \in Tx /\ r.batch \in Batch /\ r.op = "patch"
  <2>1. tx[s] \in Tx /\ r.op = "patch"
    BY DEF IInv, TypeOK, PatchFlush, At
  <2>2. r \in Request
    BY <2>1 DEF Tx
  <2> QED
    BY <2>1, <2>2, RequestOps, PatchFacts
<1>2. tx[s].targets = {r.batch} /\ tx[s].pc = "loaded"
  BY DEF PatchFlush, At, IInv, SessionOK, PhaseOK
<1>3. /\ u \in Update
      /\ u.cols = {} \/ (Coherent(tx[s].seen) =>
                            u.cols = {"is_closed", "closed_at"} /\ Coherent(u.row))
      /\ u.row.is_closed => p = "counting"
  <2>1. tx[s].seen \in BatchRow
    BY <1>1 DEF Tx
  <2> QED
    BY <2>1 DEF PatchUpdate, Update, BatchRow, ClosedAt, NoUpdate, OpenRow,
                ClosedRow, Coherent
<1> HIDE DEF u
<1>4. B \subseteq {r.batch} /\ B \subseteq Batch
  BY <1>1
<1> HIDE DEF B
<1>5. tx' = [tx EXCEPT ![s].pc = p, ![s].locks = B, ![s].upd = u]
      /\ UNCHANGED <<Rows, started, history>>
  BY DEF PatchFlush, u, B
<1>6. tx' \in [Session -> Tx] /\ \A t \in Session \ {s} : tx'[t] = tx[t]
  BY <1>1, <1>3, <1>4, <1>5 DEF IInv, TypeOK, Tx
<1>7. /\ tx'[s].pc = p /\ tx'[s].locks = B /\ tx'[s].upd = u
      /\ tx'[s].req = r /\ tx'[s].seen = tx[s].seen
      /\ tx'[s].targets = {r.batch} /\ tx'[s].ins = tx[s].ins
      /\ tx'[s].aggs = tx[s].aggs /\ tx'[s].stats = tx[s].stats
  BY <1>1, <1>2, <1>5 DEF IInv, TypeOK, Tx
<1>8. WritesOK(s) /\ UpdateOK(s) /\ tx[s].aggs \subseteq Code
  BY <1>1 DEF IInv, SessionOK, Tx
<1>9. PhaseOK(s)' /\ EventsOK(s)'
  BY <1>1, <1>3, <1>7 DEF PhaseOK, EventsOK
<1>10. WritesOK(s)'
  BY <1>1, <1>2, <1>4, <1>5, <1>7, <1>8 DEF WritesOK, At, Rows
<1>11. UpdateOK(s)'
  BY <1>1, <1>2, <1>3, <1>4, <1>5, <1>7, <1>8 DEF UpdateOK, Coherent, history
<1> QED
  BY <1>5, <1>6, <1>9, <1>10, <1>11, Quiet DEF SessionOK

LEMMA SweepSelectIInv ==
    ASSUME IInv, NEW s \in Session, SweepSelect(s) PROVE IInv'
<1> DEFINE B == { b \in ended : batch[b] # Absent /\ ~batch[b].is_closed }
<1>1. CASE B = {}
  BY <1>1, EndIInv DEF SweepSelect
<1>2. CASE B # {}
  <2>1. tx[s] \in Tx /\ B \subseteq Batch /\ tx[s].req.op = "sweep"
        /\ tx[s].pc = "start"
    BY DEF IInv, TypeOK, SweepSelect, At
  <2>2. \A b \in B : batch[b] # Absent
    OBVIOUS
  <2>3. tx' = [tx EXCEPT ![s].pc = "counting", ![s].targets = B]
        /\ UNCHANGED <<Rows, started, history>>
    BY <1>2 DEF SweepSelect
  <2> HIDE DEF B
  <2>4. tx' \in [Session -> Tx] /\ \A t \in Session \ {s} : tx'[t] = tx[t]
    BY <2>1, <2>3 DEF IInv, TypeOK, Tx
  <2>5. /\ tx'[s].pc = "counting" /\ tx'[s].locks = tx[s].locks
        /\ tx'[s].upd = tx[s].upd /\ tx'[s].req = tx[s].req
        /\ tx'[s].targets = B /\ tx'[s].ins = tx[s].ins
        /\ tx'[s].aggs = tx[s].aggs
    BY <2>1, <2>3 DEF IInv, TypeOK, Tx
  <2>6. WritesOK(s) /\ UpdateOK(s) /\ tx[s].aggs \subseteq Code
    BY <2>1 DEF IInv, SessionOK, Tx
  <2>7. PhaseOK(s)' /\ EventsOK(s)'
    BY <2>1, <2>5 DEF PhaseOK, EventsOK
  <2>8. WritesOK(s)' /\ UpdateOK(s)'
    BY <2>1, <2>2, <2>3, <2>5, <2>6 DEF WritesOK, UpdateOK, At, Rows
  <2> QED
    BY <2>3, <2>4, <2>7, <2>8, Quiet DEF SessionOK
<1> QED
  BY <1>1, <1>2

LEMMA CountProductsIInv ==
    ASSUME IInv, NEW s \in Session, CountProducts(s) PROVE IInv'
<1> DEFINE Counted == { f.batch : f \in tx[s].stats }
           all(b) == tx[s].targets \subseteq {b} \cup Counted
<1>1. /\ tx[s] \in Tx /\ tx[s].pc = "counting" /\ tx[s].req.op \in {"patch", "sweep"}
      /\ UNCHANGED <<Rows, started, history>>
  BY DEF IInv, TypeOK, CountProducts, SessionOK, PhaseOK
<1>2. PICK b \in tx[s].targets \ Counted :
        tx' = [tx EXCEPT
                 ![s].stats = @ \cup {BatchStats(b)},
                 ![s].pc = CASE ~all(b) -> "counting"
                             [] all(b) /\ tx[s].req.op = "sweep" -> "closing"
                             [] all(b) /\ tx[s].req.op = "patch" -> "done"]
  BY DEF CountProducts
<1>3. b \in Batch /\ BatchStats(b) \in CloseEvent /\ BatchStats(b).batch = b
  <2>1. b \in Batch
    BY <1>1, <1>2 DEF Tx
  <2> QED
    BY <2>1, CountFacts DEF CloseEvent, BatchStats
<1> DEFINE e == BatchStats(b)
           p == CASE ~all(b) -> "counting"
                  [] all(b) /\ tx[s].req.op = "sweep" -> "closing"
                  [] all(b) /\ tx[s].req.op = "patch" -> "done"
<1>4. \/ p = "counting"
      \/ all(b) /\ p = "closing" /\ tx[s].req.op = "sweep"
      \/ all(b) /\ p = "done" /\ tx[s].req.op = "patch"
  BY <1>1
<1> HIDE DEF e, p
<1>5. tx' = [tx EXCEPT ![s].stats = @ \cup {e}, ![s].pc = p]
      /\ e \in CloseEvent /\ e.batch = b
  BY <1>2, <1>3 DEF e, p
<1>6. tx' \in [Session -> Tx] /\ \A t \in Session \ {s} : tx'[t] = tx[t]
  BY <1>1, <1>4, <1>5 DEF IInv, TypeOK, Tx
<1>7. /\ tx'[s].pc = p /\ tx'[s].locks = tx[s].locks /\ tx'[s].upd = tx[s].upd
      /\ tx'[s].req = tx[s].req /\ tx'[s].seen = tx[s].seen
      /\ tx'[s].targets = tx[s].targets /\ tx'[s].ins = tx[s].ins
      /\ tx'[s].aggs = tx[s].aggs /\ tx'[s].stats = tx[s].stats \cup {e}
  BY <1>1, <1>5 DEF IInv, TypeOK, Tx
<1>8. WritesOK(s) /\ UpdateOK(s) /\ tx[s].aggs \subseteq Code
  BY <1>1 DEF IInv, SessionOK, Tx
<1>9. PhaseOK(s)'
  BY <1>1, <1>4, <1>7 DEF PhaseOK
<1>10. WritesOK(s)'
  BY <1>1, <1>4, <1>7, <1>8 DEF WritesOK, At, Rows
<1>11. UpdateOK(s)'
  BY <1>1, <1>7, <1>8 DEF UpdateOK, Coherent, history
<1>12. EventsOK(s)'
  <2>1. {b} \cup Counted \subseteq { f.batch : f \in tx'[s].stats }
    BY <1>5, <1>7
  <2>2. tx[s].locks \subseteq tx[s].targets
    BY <1>8 DEF WritesOK
  <2> QED
    BY <1>4, <1>7, <2>1, <2>2 DEF EventsOK
<1> QED
  BY <1>1, <1>6, <1>9, <1>10, <1>11, <1>12, Quiet DEF SessionOK

LEMMA SweepCloseIInv ==
    ASSUME IInv, NEW s \in Session, SweepClose(s) PROVE IInv'
<1> DEFINE u == [cols |-> {"is_closed", "closed_at"}, row |-> ClosedRow]
<1>1. tx[s] \in Tx /\ tx[s].req.op = "sweep" /\ tx[s].pc = "closing"
  BY DEF IInv, TypeOK, SweepClose, At
<1>2. u \in Update /\ Coherent(u.row) /\ u.cols = {"is_closed", "closed_at"}
  BY DEF Update, ClosedRow, BatchRow, ClosedAt, Coherent
<1> HIDE DEF u
<1>3. tx' = [tx EXCEPT ![s].pc = "done", ![s].locks = tx[s].targets, ![s].upd = u]
      /\ UNCHANGED <<Rows, started, history>>
  BY DEF SweepClose, u
<1>4. tx' \in [Session -> Tx] /\ \A t \in Session \ {s} : tx'[t] = tx[t]
  BY <1>1, <1>2, <1>3 DEF IInv, TypeOK, Tx
<1>5. /\ tx'[s].pc = "done" /\ tx'[s].locks = tx[s].targets /\ tx'[s].upd = u
      /\ tx'[s].req = tx[s].req /\ tx'[s].targets = tx[s].targets
      /\ tx'[s].ins = tx[s].ins /\ tx'[s].aggs = tx[s].aggs
      /\ tx'[s].stats = tx[s].stats
  BY <1>1, <1>3 DEF IInv, TypeOK, Tx
<1>6. WritesOK(s) /\ EventsOK(s) /\ tx[s].aggs \subseteq Code
  BY <1>1 DEF IInv, SessionOK, Tx
<1>7. PhaseOK(s)' /\ EventsOK(s)'
  BY <1>1, <1>5, <1>6 DEF PhaseOK, EventsOK
<1>8. WritesOK(s)'
  <2>1. batch' = batch /\ product' = product
    BY <1>3 DEF Rows
  <2>2. tx[s].ins = {} /\ \A c \in tx[s].aggs : product[c] # Absent
    BY <1>1, <1>6 DEF WritesOK
  <2>3. \A b \in tx[s].targets : batch[b] # Absent
    BY <1>6 DEF WritesOK
  <2> QED
    BY <1>1, <1>5, <2>1, <2>2, <2>3 DEF WritesOK, At
<1>9. UpdateOK(s)'
  BY <1>1, <1>2, <1>5 DEF UpdateOK, Coherent
<1> QED
  BY <1>3, <1>4, <1>7, <1>8, <1>9, Quiet DEF SessionOK

\* What the steps of an insertion or an aggregation start from.
LEMMA WorkFacts ==
    ASSUME IInv, NEW s \in Session, tx[s].pc \in {"checking", "checked", "writing"}
    PROVE  /\ tx[s] \in Tx /\ tx[s].req \in Request /\ WritesOK(s)
           /\ tx[s].req.op \in {"add", "aggregate"} /\ tx[s].locks = {}
           /\ tx[s].todo \in Seq(SUBSET Code) /\ tx[s].todo # <<>>
           /\ Head(tx[s].todo) \subseteq Code /\ Tail(tx[s].todo) \in Seq(SUBSET Code)
           /\ tx[s].aggs \subseteq Code
<1>1. tx[s] \in Tx /\ PhaseOK(s) /\ WritesOK(s)
  BY DEF IInv, TypeOK, SessionOK
<1>2. tx[s].todo \in Seq(SUBSET Code) /\ tx[s].todo # <<>>
  BY <1>1 DEF Tx, PhaseOK
<1>3. Head(tx[s].todo) \subseteq Code /\ Tail(tx[s].todo) \in Seq(SUBSET Code)
  BY <1>2
<1>4. tx[s].req \in Request /\ tx[s].req.op \in {"add", "aggregate"}
  BY <1>1 DEF Tx, PhaseOK
<1> QED
  BY <1>1, <1>2, <1>3, <1>4 DEF Tx, WritesOK

LEMMA NextGroupIInv ==
    ASSUME IInv, NEW s \in Session, NEW aggs \in SUBSET Code,
           tx[s].req.op = "aggregate",
           tx[s].pc \in {"checking", "checked", "writing"},
           \A c \in aggs : product[c] # Absent,
           UNCHANGED <<Rows, started, history>>, NextGroup(s, aggs)
    PROVE  IInv'
<1> DEFINE p == IF Len(tx[s].todo) = 1 THEN "done" ELSE "checking"
           rest == Tail(tx[s].todo)
<1>1. tx[s] \in Tx /\ tx[s].locks = {} /\ rest \in Seq(SUBSET Code) /\ WritesOK(s)
  BY WorkFacts
<1>2. p = "checking" => rest # <<>>
  <2>1. tx[s].todo \in Seq(SUBSET Code) /\ tx[s].todo # <<>>
    BY WorkFacts
  <2>2. Len(rest) = Len(tx[s].todo) - 1 /\ Len(tx[s].todo) \in Nat
    BY <2>1
  <2>3. Len(tx[s].todo) # 1 => Len(rest) # 0
    BY <2>2
  <2>4. Len(<<>>) = 0
    OBVIOUS
  <2> QED
    BY <2>3, <2>4
<1> HIDE DEF rest
<1>3. tx' = [tx EXCEPT ![s].pc = p, ![s].targets = {}, ![s].todo = rest,
                       ![s].aggs = aggs]
  BY DEF NextGroup, rest
<1>4. tx' \in [Session -> Tx] /\ \A t \in Session \ {s} : tx'[t] = tx[t]
  BY <1>1, <1>3 DEF IInv, TypeOK, Tx
<1>5. /\ tx'[s].pc = p /\ tx'[s].locks = {} /\ tx'[s].req = tx[s].req
      /\ tx'[s].targets = {} /\ tx'[s].ins = tx[s].ins
      /\ tx'[s].aggs = aggs /\ tx'[s].todo = rest
  BY <1>1, <1>3 DEF IInv, TypeOK, Tx
<1>6. PhaseOK(s)' /\ EventsOK(s)' /\ UpdateOK(s)'
  BY <1>2, <1>5 DEF PhaseOK, EventsOK, UpdateOK
<1>7. WritesOK(s)'
  BY <1>1, <1>5 DEF WritesOK, At, Rows
<1> QED
  BY <1>4, <1>6, <1>7, Quiet DEF SessionOK

LEMMA FailGroupIInv ==
    ASSUME IInv, NEW s \in Session, tx[s].req.op = "aggregate",
           tx[s].pc \in {"checking", "checked", "writing"},
           UNCHANGED <<Rows, started, history>>, FailGroup(s)
    PROVE  IInv'
<1>1. CASE tx[s].req.strict
  BY <1>1, EndIInv DEF FailGroup
<1>2. CASE ~tx[s].req.strict
  <2>1. tx[s].aggs \in SUBSET Code /\ \A c \in tx[s].aggs : product[c] # Absent
    BY WorkFacts DEF WritesOK
  <2> QED
    BY <1>2, <2>1, NextGroupIInv DEF FailGroup
<1> QED
  BY <1>1, <1>2

\* A step that only goes on to the next phase, with targets B.
LEMMA PhaseIInv ==
    ASSUME IInv, NEW s \in Session, NEW B \in SUBSET Batch,
           NEW p \in {"checking", "checked", "writing"},
           tx[s].pc \in {"checking", "checked", "writing"},
           UNCHANGED <<Rows, started, history>>,
           tx' = [tx EXCEPT ![s].pc = p, ![s].targets = B],
           \A b \in B : batch[b] # Absent,
           p = "writing" /\ tx[s].req.op = "aggregate" =>
              \A c \in Head(tx[s].todo) : product[c] # Absent
    PROVE  IInv'
<1>1. /\ tx[s] \in Tx /\ tx[s].locks = {} /\ WritesOK(s)
      /\ tx[s].todo # <<>> /\ tx[s].req.op \in {"add", "aggregate"}
  BY WorkFacts
<1>2. tx' \in [Session -> Tx] /\ \A t \in Session \ {s} : tx'[t] = tx[t]
  BY <1>1 DEF IInv, TypeOK, Tx
<1>3. /\ tx'[s].pc = p /\ tx'[s].locks = {} /\ tx'[s].req = tx[s].req
      /\ tx'[s].targets = B /\ tx'[s].ins = tx[s].ins
      /\ tx'[s].aggs = tx[s].aggs /\ tx'[s].todo = tx[s].todo
  BY <1>1 DEF IInv, TypeOK, Tx
<1>4. PhaseOK(s)' /\ EventsOK(s)' /\ UpdateOK(s)'
  BY <1>1, <1>3 DEF PhaseOK, EventsOK, UpdateOK
<1>5. WritesOK(s)'
  BY <1>1, <1>3 DEF WritesOK, At, Rows
<1> QED
  BY <1>2, <1>4, <1>5, Quiet DEF SessionOK

LEMMA AddCheckBatchIInv ==
    ASSUME IInv, NEW s \in Session, AddCheckBatch(s) PROVE IInv'
<1> DEFINE B == { tx[s].req.items[c] : c \in DOMAIN tx[s].req.items }
<1>1. tx[s].req.op = "add" /\ tx[s].pc = "checking"
      /\ UNCHANGED <<Rows, started, history>>
  BY DEF AddCheckBatch, At
<1>2. tx[s] \in Tx /\ tx[s].req \in Add /\ WritesOK(s)
  BY <1>1, WorkFacts, RequestOps
<1>3. B \subseteq Batch
  BY <1>2, AddFacts
<1>4. PICK b \in B \ tx[s].targets :
        IF OpenBatch(b)
        THEN tx' = [tx EXCEPT ![s].targets = @ \cup {b},
                              ![s].pc = IF B \subseteq tx[s].targets \cup {b}
                                        THEN "checked" ELSE "checking"]
        ELSE End(s)
  BY DEF AddCheckBatch
<1>5. CASE ~OpenBatch(b)
  BY <1>1, <1>4, <1>5, EndIInv
<1>6. CASE OpenBatch(b)
  <2> DEFINE T == tx[s].targets \cup {b}
             p == IF B \subseteq T THEN "checked" ELSE "checking"
  <2>1. T \in SUBSET Batch /\ p \in {"checking", "checked", "writing"}
        /\ p # "writing" /\ \A d \in T : batch[d] # Absent
    BY <1>2, <1>3, <1>6 DEF Tx, WritesOK, OpenBatch
  <2>2. tx' = [tx EXCEPT ![s].pc = p, ![s].targets = T]
    BY <1>4, <1>6
  <2> HIDE DEF T, p
  <2> QED
    BY <1>1, <2>1, <2>2, PhaseIInv
<1> QED
  BY <1>5, <1>6

\* Going on to write, with the targets as they are.
LEMMA ToWritingIInv ==
    ASSUME IInv, NEW s \in Session, tx[s].pc = "checked",
           UNCHANGED <<Rows, started, history>>,
           tx' = [tx EXCEPT ![s].pc = "writing"],
           tx[s].req.op = "aggregate" =>
              \A c \in Head(tx[s].todo) : product[c] # Absent
    PROVE  IInv'
<1>1. tx[s] \in Tx /\ tx[s].targets \in SUBSET Batch
      /\ \A b \in tx[s].targets : batch[b] # Absent
  BY WorkFacts DEF Tx, WritesOK
<1>2. tx' = [tx EXCEPT ![s].pc = "writing", ![s].targets = tx[s].targets]
  BY <1>1 DEF IInv, TypeOK, Tx
<1> QED
  BY <1>1, <1>2, PhaseIInv

LEMMA AddCheckCodesIInv ==
    ASSUME IInv, NEW s \in Session, AddCheckCodes(s) PROVE IInv'
  BY EndIInv, ToWritingIInv DEF AddCheckCodes, At

LEMMA AddInsertIInv ==
    ASSUME IInv, NEW s \in Session, AddInsert(s) PROVE IInv'
<1> DEFINE g == Head(tx[s].todo)
           rest == Tail(tx[s].todo)
           p == IF Len(tx[s].todo) = 1 THEN "done" ELSE "writing"
<1>1. tx[s].req.op = "add" /\ tx[s].pc = "writing"
      /\ UNCHANGED <<Rows, started, history>>
  BY DEF AddInsert, At
<1>2. CASE \E c \in g : product[c] # Absent
  BY <1>1, <1>2, EndIInv DEF AddInsert
<1>3. CASE ~ \E c \in g : product[c] # Absent
  <2>1. /\ tx[s] \in Tx /\ tx[s].locks = {} /\ WritesOK(s) /\ g \subseteq Code
        /\ rest \in Seq(SUBSET Code) /\ tx[s].todo \in Seq(SUBSET Code)
        /\ tx[s].todo # <<>>
    BY <1>1, WorkFacts
  <2>2. p = "writing" => rest # <<>>
    <3>1. Len(rest) = Len(tx[s].todo) - 1 /\ Len(tx[s].todo) \in Nat
      BY <2>1
    <3>2. Len(tx[s].todo) # 1 => Len(rest) # 0
      BY <3>1
    <3>3. Len(<<>>) = 0
      OBVIOUS
    <3> QED
      BY <3>2, <3>3
  <2>3. g \subseteq DOMAIN tx[s].req.items
        /\ \A i \in 1 .. Len(rest) : rest[i] \subseteq DOMAIN tx[s].req.items
    <3>1. \A i \in 1 .. Len(tx[s].todo) : tx[s].todo[i] \subseteq DOMAIN tx[s].req.items
      BY <1>1, <2>1 DEF WritesOK
    <3>2. g = tx[s].todo[1] /\ 1 \in 1 .. Len(tx[s].todo)
      BY <2>1
    <3>3. \A i \in 1 .. Len(rest) : rest[i] = tx[s].todo[i + 1]
                                    /\ i + 1 \in 1 .. Len(tx[s].todo)
      BY <2>1
    <3> QED
      BY <3>1, <3>2, <3>3
  <2>4. tx' = [tx EXCEPT ![s].ins = @ \cup g, ![s].todo = rest, ![s].pc = p]
    BY <1>3 DEF AddInsert
  <2> HIDE DEF g, rest
  <2>5. tx' \in [Session -> Tx] /\ \A t \in Session \ {s} : tx'[t] = tx[t]
    BY <2>1, <2>4 DEF IInv, TypeOK, Tx
  <2>6. /\ tx'[s].pc = p /\ tx'[s].locks = {} /\ tx'[s].req = tx[s].req
        /\ tx'[s].targets = tx[s].targets /\ tx'[s].ins = tx[s].ins \cup g
        /\ tx'[s].aggs = tx[s].aggs /\ tx'[s].todo = rest
    BY <2>1, <2>4 DEF IInv, TypeOK, Tx
  <2>7. PhaseOK(s)' /\ EventsOK(s)' /\ UpdateOK(s)'
    BY <1>1, <2>2, <2>6 DEF PhaseOK, EventsOK, UpdateOK
  <2>8. WritesOK(s)'
    BY <1>1, <2>1, <2>3, <2>6 DEF WritesOK, At, Rows
  <2> QED
    BY <1>1, <2>5, <2>7, <2>8, Quiet DEF SessionOK
<1> QED
  BY <1>2, <1>3

LEMMA AggregateCheckBatchIInv ==
    ASSUME IInv, NEW s \in Session, AggregateCheckBatch(s) PROVE IInv'
<1>1. tx[s].req.op = "aggregate" /\ tx[s].pc = "checking"
      /\ UNCHANGED <<Rows, started, history>>
  BY DEF AggregateCheckBatch, At
<1>2. CASE ~OpenBatch(tx[s].req.batch)
  BY <1>1, <1>2, FailGroupIInv DEF AggregateCheckBatch
<1>3. CASE OpenBatch(tx[s].req.batch)
  <2>1. tx[s].req.batch \in Batch
    BY <1>1, WorkFacts, RequestOps, AggregateFacts
  <2>2. tx' = [tx EXCEPT ![s].pc = "checked", ![s].targets = {tx[s].req.batch}]
    BY <1>3 DEF AggregateCheckBatch
  <2>3. {tx[s].req.batch} \in SUBSET Batch
        /\ \A b \in {tx[s].req.batch} : batch[b] # Absent
    BY <1>3, <2>1 DEF OpenBatch
  <2> QED
    BY <1>1, <2>1, <2>2, <2>3, PhaseIInv
<1> QED
  BY <1>2, <1>3

LEMMA AggregateCheckCodesIInv ==
    ASSUME IInv, NEW s \in Session, AggregateCheckCodes(s) PROVE IInv'
<1>1. tx[s].req.op = "aggregate" /\ tx[s].pc = "checked"
      /\ UNCHANGED <<Rows, started, history>>
  BY DEF AggregateCheckCodes, At
<1>2. CASE ~Aggregable(s)
  BY <1>1, <1>2, FailGroupIInv DEF AggregateCheckCodes
<1>3. CASE Aggregable(s)
  <2>1. \A c \in Head(tx[s].todo) : product[c] # Absent
    BY <1>3 DEF Aggregable, ProductsOf
  <2> QED
    BY <1>1, <1>3, <2>1, ToWritingIInv DEF AggregateCheckCodes
<1> QED
  BY <1>2, <1>3

LEMMA AggregateUpdateIInv ==
    ASSUME IInv, NEW s \in Session, AggregateUpdate(s) PROVE IInv'
<1>1. tx[s].req.op = "aggregate" /\ tx[s].pc = "writing"
      /\ UNCHANGED <<Rows, started, history>>
  BY DEF AggregateUpdate, At
<1>2. PICK c \in Head(tx[s].todo) \ tx[s].aggs :
        IF Head(tx[s].todo) \subseteq tx[s].aggs \cup {c}
        THEN NextGroup(s, tx[s].aggs \cup {c})
        ELSE tx' = [tx EXCEPT ![s].aggs = @ \cup {c}]
  BY DEF AggregateUpdate
<1> DEFINE aggs == tx[s].aggs \cup {c}
<1>3. /\ tx[s] \in Tx /\ WritesOK(s) /\ PhaseOK(s) /\ UpdateOK(s) /\ EventsOK(s)
      /\ aggs \in SUBSET Code /\ \A d \in aggs : product[d] # Absent
  BY <1>1, <1>2, WorkFacts DEF WritesOK, At, IInv, SessionOK
<1>4. CASE Head(tx[s].todo) \subseteq aggs
  BY <1>1, <1>2, <1>3, <1>4, NextGroupIInv
<1>5. CASE ~(Head(tx[s].todo) \subseteq aggs)
  <2>1. tx' = [tx EXCEPT ![s].aggs = aggs]
    BY <1>2, <1>5
  <2> HIDE DEF aggs
  <2>2. tx' \in [Session -> Tx] /\ \A t \in Session \ {s} : tx'[t] = tx[t]
    BY <1>3, <2>1 DEF IInv, TypeOK, Tx
  <2>3. tx'[s] = [tx[s] EXCEPT !.aggs = aggs]
    BY <1>3, <2>1 DEF IInv, TypeOK
  <2>4. /\ tx'[s].pc = tx[s].pc /\ tx'[s].locks = tx[s].locks
        /\ tx'[s].req = tx[s].req /\ tx'[s].upd = tx[s].upd
        /\ tx'[s].seen = tx[s].seen /\ tx'[s].stats = tx[s].stats
        /\ tx'[s].targets = tx[s].targets /\ tx'[s].ins = tx[s].ins
        /\ tx'[s].aggs = aggs /\ tx'[s].todo = tx[s].todo
    BY <1>3, <2>3 DEF Tx
  <2>5. PhaseOK(s)' /\ EventsOK(s)' /\ UpdateOK(s)'
    BY <1>1, <1>3, <2>4 DEF PhaseOK, EventsOK, UpdateOK, WritesOK
  <2>6. WritesOK(s)'
    BY <1>1, <1>3, <2>4 DEF WritesOK, At, Rows
  <2> QED
    BY <1>1, <2>2, <2>5, <2>6, Quiet DEF SessionOK
<1> QED
  BY <1>4, <1>5

\* What a session that is done has locked exists, and can be updated.
LEMMA CommitRows ==
    ASSUME IInv, NEW s \in Session, tx[s].pc = "done"
    PROVE  /\ \A b \in tx[s].locks :
                b \in Batch /\ batch[b] \in BatchRow
                /\ ApplyUpdate(batch[b], tx[s].upd) \in BatchRow
           /\ \A c \in tx[s].ins : tx[s].req.items[c] \in Batch
           /\ \A c \in tx[s].aggs : product[c] \in ProductRow
<1>1. tx[s] \in Tx /\ WritesOK(s)
  BY DEF IInv, TypeOK, SessionOK
<1>2. ASSUME NEW b \in tx[s].locks
      PROVE  b \in Batch /\ batch[b] \in BatchRow
             /\ ApplyUpdate(batch[b], tx[s].upd) \in BatchRow
  <2>1. b \in Batch /\ batch[b] # Absent /\ tx[s].upd \in Update
    BY <1>1 DEF WritesOK, Tx
  <2>2. batch[b] \in BatchRow /\ tx[s].upd.row \in BatchRow
    BY <2>1 DEF IInv, TypeOK, Update
  <2> QED
    BY <2>1, <2>2 DEF ApplyUpdate, BatchRow
<1>3. ASSUME NEW c \in tx[s].ins PROVE tx[s].req.items[c] \in Batch
  <2>1. tx[s].req.op = "add" /\ c \in DOMAIN tx[s].req.items
    BY <1>1 DEF WritesOK
  <2>2. tx[s].req \in Request
    BY <1>1, <2>1 DEF Tx
  <2>3. tx[s].req.items \in [DOMAIN tx[s].req.items -> Batch]
    BY <2>1, <2>2, RequestOps, AddFacts
  <2> QED
    BY <2>1, <2>3
<1>4. ASSUME NEW c \in tx[s].aggs PROVE product[c] \in ProductRow
  BY <1>1 DEF WritesOK, Tx, IInv, TypeOK
<1> QED
  BY <1>2, <1>3, <1>4

LEMMA CommitIInv ==
    ASSUME IInv, NEW s \in Session, Commit(s) PROVE IInv'
<1> DEFINE t == tx[s]
           Closes(b) == b \in t.locks /\ ~batch[b].is_closed
                          /\ ApplyUpdate(batch[b], t.upd).is_closed
           Announces(b) == \E e \in t.stats : e.batch = b
<1>1. /\ t.pc = "done" /\ End(s) /\ UNCHANGED <<ended, started, bornClosed>>
      /\ batch' = [b \in Batch |-> IF b \in t.locks
                                   THEN ApplyUpdate(batch[b], t.upd) ELSE batch[b]]
      /\ product' = [c \in Code |->
           CASE c \in t.ins -> [batch_id |-> t.req.items[c], is_aggregated |-> FALSE]
             [] c \in t.aggs -> [product[c] EXCEPT !.is_aggregated = TRUE]
             [] OTHER -> product[c]]
      /\ closings' = [b \in Batch |-> closings[b] + IF Closes(b) THEN 1 ELSE 0]
      /\ closeEvents' = [b \in Batch |-> closeEvents[b] + IF Announces(b) THEN 1 ELSE 0]
      /\ aggEvents' = [c \in Code |-> aggEvents[c] + IF c \in t.aggs THEN 1 ELSE 0]
  BY DEF Commit
<1>2. TypeOK /\ SessionOK(s)
  BY DEF IInv
<1>3. /\ \A b \in Batch : batch'[b] = IF b \in t.locks
                             THEN ApplyUpdate(batch[b], t.upd) ELSE batch[b]
      /\ batch' \in [Batch -> BatchRow \cup {Absent}]
      /\ \A b \in Batch : batch[b] # Absent => batch'[b] # Absent
  BY <1>1, <1>2, CommitRows, AbsentAssumption DEF TypeOK
<1>4. ASSUME NEW c \in Code
      PROVE  /\ product'[c] \in ProductRow \cup {Absent}
             /\ product[c] # Absent => product'[c] # Absent
  <2>1. CASE c \in t.ins \/ c \in t.aggs
    <3>1. c \in t.ins =>
            [batch_id |-> t.req.items[c], is_aggregated |-> FALSE] \in ProductRow
      BY <1>1, CommitRows DEF ProductRow
    <3>2. c \in t.aggs => [product[c] EXCEPT !.is_aggregated = TRUE] \in ProductRow
      BY <1>1, CommitRows DEF ProductRow
    <3>3. product'[c] \in ProductRow
      BY <1>1, <2>1, <3>1, <3>2
    <3> QED
      BY <3>3, AbsentAssumption
  <2>2. CASE ~(c \in t.ins \/ c \in t.aggs)
    BY <1>1, <1>2, <2>2 DEF TypeOK
  <2> QED
    BY <2>1, <2>2
<1>5. closings' \in [Batch -> Nat] /\ closeEvents' \in [Batch -> Nat]
      /\ aggEvents' \in [Code -> Nat]
  BY <1>1, <1>2 DEF TypeOK
<1>6. tx' \in [Session -> Tx] /\ tx'[s] = IdleTx
      /\ \A u \in Session \ {s} : tx'[u] = tx[u]
  BY <1>1, <1>2, IdleTxType DEF End, TypeOK
<1>7. TypeOK'
  <2>1. product' \in [Code -> ProductRow \cup {Absent}]
    BY <1>1, <1>4
  <2> QED
    BY <1>1, <1>2, <1>3, <1>5, <1>6, <2>1
    DEF TypeOK, BatchRow, ClosedAt, ProductRow
<1>8. ASSUME NEW u \in Session PROVE SessionOK(u)'
  <2>1. CASE u = s
    BY <2>1, <1>6, IdleOK
  <2>2. CASE u # s
    BY <2>2, <1>1, <1>3, <1>4, <1>6, OtherSession DEF IInv, TypeOK
  <2> QED
    BY <2>1, <2>2
<1>9. BornOpenCoherent'
  <2> SUFFICES ASSUME NEW b \in Batch \ bornClosed, batch'[b] # Absent
               PROVE  Coherent(batch'[b])
    BY <1>1 DEF BornOpenCoherent, Coherent
  <2>1. CASE b \notin t.locks
    BY <2>1, <1>3 DEF IInv, BornOpenCoherent, Coherent
  <2>2. CASE b \in t.locks
    <3>1. batch[b] \in BatchRow /\ batch[b] # Absent
      BY <1>1, <2>2, CommitRows, AbsentAssumption
    <3>2. Coherent(batch[b])
      BY <3>1 DEF IInv, BornOpenCoherent, Coherent
    <3>3. \/ t.upd.cols = {}
          \/ t.upd.cols = {"is_closed", "closed_at"} /\ Coherent(t.upd.row)
      BY <1>2, <2>2 DEF SessionOK, UpdateOK
    <3>4. batch'[b] = ApplyUpdate(batch[b], t.upd)
      BY <1>3, <2>2
    <3> QED
      BY <3>2, <3>3, <3>4 DEF ApplyUpdate, Coherent
  <2> QED
    BY <2>1, <2>2
<1>10. CloseNeverUnannounced'
  <2> SUFFICES ASSUME NEW b \in Batch PROVE closings'[b] <= closeEvents'[b]
    BY DEF CloseNeverUnannounced
  <2>1. closings[b] <= closeEvents[b] /\ closings[b] \in Nat /\ closeEvents[b] \in Nat
    BY <1>2 DEF IInv, CloseNeverUnannounced, TypeOK
  <2>2. Closes(b) => Announces(b)
    <3> SUFFICES ASSUME Closes(b) PROVE Announces(b)
      OBVIOUS
    <3>1. "is_closed" \in t.upd.cols /\ t.upd.row.is_closed
      BY DEF ApplyUpdate
    <3>2. b \in { e.batch : e \in t.stats }
      BY <1>1, <1>2, <3>1 DEF SessionOK, EventsOK
    <3> QED
      BY <3>2
  <2> HIDE DEF Closes, Announces
  <2>3. closings'[b] = closings[b] + IF Closes(b) THEN 1 ELSE 0
    BY <1>1
  <2>4. closeEvents'[b] = closeEvents[b] + IF Announces(b) THEN 1 ELSE 0
    BY <1>1
  <2> QED
    BY <2>1, <2>2, <2>3, <2>4
<1> QED
  BY <1>7, <1>8, <1>9, <1>10 DEF IInv

LEMMA CreateBatchIInv ==
    ASSUME IInv, NEW b \in Batch, NEW closed \in BOOLEAN, CreateBatch(b, closed)
    PROVE  IInv'
<1> DEFINE row == [is_closed |-> closed, closed_at |-> "null"]
<1>1. row \in BatchRow /\ row # Absent
  BY AbsentAssumption DEF BatchRow, ClosedAt
<1>2. /\ batch' = [batch EXCEPT ![b] = row]
      /\ bornClosed' = IF closed THEN bornClosed \cup {b} ELSE bornClosed
      /\ UNCHANGED <<product, ended, tx, started, closings, closeEvents, aggEvents>>
  BY DEF CreateBatch
<1>3. TypeOK'
  BY <1>1, <1>2 DEF IInv, TypeOK, BatchRow, ClosedAt, ProductRow
<1>4. ASSUME NEW t \in Session PROVE SessionOK(t)'
  BY <1>1, <1>2, OtherSession DEF IInv, TypeOK
<1>5. BornOpenCoherent'
  BY <1>1, <1>2 DEF IInv, TypeOK, BornOpenCoherent
<1>6. CloseNeverUnannounced'
  BY <1>2 DEF IInv, CloseNeverUnannounced
<1> QED
  BY <1>3, <1>4, <1>5, <1>6 DEF IInv

LEMMA StutterIInv ==
    ASSUME IInv, UNCHANGED <<batch, product, tx, started, history>>,
           ended' \subseteq Batch
    PROVE  IInv'
<1>1. TypeOK'
  BY DEF IInv, TypeOK, history, BatchRow, ClosedAt, ProductRow
<1>2. ASSUME NEW t \in Session PROVE SessionOK(t)'
  BY OtherSession DEF IInv, TypeOK, history
<1>3. BornOpenCoherent' /\ CloseNeverUnannounced'
  BY DEF IInv, BornOpenCoherent, CloseNeverUnannounced, history
<1> QED
  BY <1>1, <1>2, <1>3 DEF IInv

LEMMA NextIInv == IInv /\ [Next]_vars => IInv'
<1> SUFFICES ASSUME IInv, [Next]_vars PROVE IInv'
  OBVIOUS
<1>1. ASSUME NEW b \in Batch, NEW closed \in BOOLEAN, CreateBatch(b, closed)
      PROVE  IInv'
  BY <1>1, CreateBatchIInv
<1>2. ASSUME NEW b \in Batch, ShiftEnds(b) PROVE IInv'
  BY <1>2, StutterIInv DEF ShiftEnds, IInv, TypeOK
<1>3. ASSUME NEW s \in Session, NEW r \in Request, Start(s, r) PROVE IInv'
  BY <1>3, StartIInv
<1>4. ASSUME NEW s \in Session, Step(s) PROVE IInv'
  BY <1>4, PatchLoadIInv, PatchFlushIInv, SweepSelectIInv, CountProductsIInv,
     SweepCloseIInv, AddCheckBatchIInv, AddCheckCodesIInv, AddInsertIInv,
     AggregateCheckBatchIInv, AggregateCheckCodesIInv, AggregateUpdateIInv,
     CommitIInv DEF Step
<1>5. ASSUME NEW s \in Session, Rollback(s) \/ DeadlockVictim(s) PROVE IInv'
  BY <1>5, EndIInv DEF Rollback, DeadlockVictim
<1>6. CASE UNCHANGED vars
  BY <1>6, StutterIInv DEF vars, IInv, TypeOK
<1> QED
  BY <1>1, <1>2, <1>3, <1>4, <1>5, <1>6 DEF Next

-----------------------------------------------------------------------------
(* Theorems.                                                               *)

\* The inductive invariant holds in every behaviour.
THEOREM Invariance == Spec => []IInv
<1>1. Init => IInv
  BY InitIInv
<1>2. IInv /\ [Next]_vars => IInv'
  BY NextIInv
<1> QED
  BY <1>1, <1>2, PTL DEF Spec

\* Committed rows and the private state of every session keep their types.
THEOREM TypeCorrect == Spec => []TypeOK
  BY Invariance, PTL DEF IInv

\* However PATCHes and sweeps interleave, a batch created open has a closed_at
\* exactly while it is closed.
THEOREM ClosedAtCoherent == Spec => []BornOpenCoherent
  BY Invariance, PTL DEF IInv

\* No commit ever closes a batch without a batch_closed event.
THEOREM CloseAnnounced == Spec => []CloseNeverUnannounced
  BY Invariance, PTL DEF IInv
=============================================================================
