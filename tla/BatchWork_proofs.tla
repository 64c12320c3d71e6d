-------------------------- MODULE BatchWork_proofs --------------------------
(***************************************************************************)
(* What the sessions of BatchLifecycle still have to commit, and what      *)
(* follows for the announcements, the statistics and the closing of        *)
(* batches; and that together they keep the record of module Ledger. The   *)
(* invariants build on the one of BatchLifecycle_proofs.                   *)
(***************************************************************************)
EXTENDS BatchLifecycle_proofs

\* A request asks for an UPDATE that sets is_closed to v.
Asked(r, v) == \/ r.op = "sweep" /\ v
               \/ r.op = "patch" /\ r.want = IF v THEN "close" ELSE "reopen"

\* Only a task or a request to aggregate has aggregated; what a session has
\* inserted nobody has committed meanwhile; is_closed is written on demand; a
\* session aggregates in the batch it has checked.
WorkOK(s) ==
    LET t == tx[s] IN
    /\ t.aggs # {} => t.req.op = "aggregate"
    /\ \A c \in t.ins : product[c] = Absent
    /\ "is_closed" \in t.upd.cols => Asked(t.req, t.upd.row.is_closed)
    /\ At(s, "aggregate", "checked") \/ At(s, "aggregate", "writing") =>
         t.targets = {t.req.batch}

\* Two sessions never insert the same code: the second one waits.
InsertsDiffer ==
    \A s, t \in Session : s # t => tx[s].ins \cap tx[t].ins = {}

WorkInv == /\ IInv
           /\ \A s \in Session : WorkOK(s)
           /\ InsertsDiffer
           /\ AggregationAnnounced
           /\ StatsNeverOverstate

LEMMA InitWork == Init => WorkInv
<1> SUFFICES ASSUME Init PROVE WorkInv
  OBVIOUS
<1>1. IInv
  BY InitIInv
<1>2. \A s \in Session : WorkOK(s)
  BY DEF Init, WorkOK, IdleTx, At, NoUpdate
<1>3. InsertsDiffer /\ StatsNeverOverstate
  BY DEF Init, InsertsDiffer, StatsNeverOverstate, IdleTx
<1>4. AggregationAnnounced
  BY DEF Init, AggregationAnnounced
<1> QED
  BY <1>1, <1>2, <1>3, <1>4 DEF WorkInv

-----------------------------------------------------------------------------
(* Steps of one session that leave the tables alone.                       *)

\* What step of s must be shown about s.
LEMMA QuietWork ==
    ASSUME WorkInv, IInv', NEW s \in Session, UNCHANGED <<Rows, history>>,
           \A t \in Session \ {s} : tx'[t] = tx[t], WorkOK(s)',
           \A t \in Session \ {s} : tx'[s].ins \cap tx[t].ins = {},
           \A e \in tx'[s].stats :
              /\ e.total <= Cardinality(ProductsOf(e.batch))
              /\ e.aggregated <= Cardinality(AggregatedOf(e.batch))
    PROVE  WorkInv'
<1>1. product' = product /\ aggEvents' = aggEvents
  BY DEF Rows, history
<1>2. ASSUME NEW t \in Session PROVE WorkOK(t)'
  BY <1>1 DEF WorkInv, WorkOK, At
<1>3. InsertsDiffer'
  BY DEF WorkInv, InsertsDiffer
<1>4. AggregationAnnounced'
  BY <1>1 DEF WorkInv, AggregationAnnounced
<1>5. \A b : ProductsOf(b)' = ProductsOf(b) /\ AggregatedOf(b)' = AggregatedOf(b)
  BY <1>1 DEF ProductsOf, AggregatedOf
<1>6. StatsNeverOverstate'
  <2> SUFFICES ASSUME NEW t \in Session, NEW e \in tx'[t].stats
               PROVE  /\ e.total <= Cardinality(ProductsOf(e.batch)')
                      /\ e.aggregated <= Cardinality(AggregatedOf(e.batch)')
    BY DEF StatsNeverOverstate
  <2>1. /\ e.total <= Cardinality(ProductsOf(e.batch))
        /\ e.aggregated <= Cardinality(AggregatedOf(e.batch))
    BY DEF WorkInv, StatsNeverOverstate
  <2> QED
    BY <2>1, <1>5
<1> QED
  BY <1>2, <1>3, <1>4, <1>6 DEF WorkInv

LEMMA EndWork ==
    ASSUME WorkInv, IInv', NEW s \in Session, UNCHANGED <<Rows, history>>, End(s)
    PROVE  WorkInv'
<1>1. tx'[s] = IdleTx /\ \A t \in Session \ {s} : tx'[t] = tx[t]
  BY DEF End, WorkInv, IInv, TypeOK
<1>2. WorkOK(s)'
  BY <1>1 DEF WorkOK, IdleTx, At, NoUpdate
<1>3. tx'[s].ins = {} /\ tx'[s].stats = {}
  BY <1>1 DEF IdleTx
<1> QED
  BY <1>1, <1>2, <1>3, QuietWork

\* A step after which the session has written what it had written before.
LEMMA SameWork ==
    ASSUME WorkInv, IInv', NEW s \in Session, UNCHANGED <<Rows, history>>,
           \A t \in Session \ {s} : tx'[t] = tx[t],
           tx'[s].req = tx[s].req, tx'[s].ins = tx[s].ins, tx'[s].upd = tx[s].upd,
           tx'[s].stats = tx[s].stats,
           tx'[s].aggs # {} => tx[s].req.op = "aggregate",
           At(s, "aggregate", "checked")' \/ At(s, "aggregate", "writing")' =>
              tx'[s].targets = {tx[s].req.batch}
    PROVE  WorkInv'
<1>1. product' = product
  BY DEF Rows
<1>2. WorkOK(s)'
  BY <1>1 DEF WorkInv, WorkOK
<1>3. \A t \in Session \ {s} : tx'[s].ins \cap tx[t].ins = {}
  BY DEF WorkInv, InsertsDiffer
<1>4. \A e \in tx'[s].stats :
        /\ e.total <= Cardinality(ProductsOf(e.batch))
        /\ e.aggregated <= Cardinality(AggregatedOf(e.batch))
  BY DEF WorkInv, StatsNeverOverstate
<1> QED
  BY <1>2, <1>3, <1>4, QuietWork

LEMMA StartWork ==
    ASSUME WorkInv, IInv', NEW s \in Session, NEW r \in Request, Start(s, r)
    PROVE  WorkInv'
<1>1. tx' = [tx EXCEPT ![s] =
               [IdleTx EXCEPT
                  !.pc = IF r.op \in {"patch", "sweep"} THEN "start" ELSE "checking",
                  !.req = r,
                  !.todo = IF r.op \in {"patch", "sweep"} THEN <<>> ELSE r.groups]]
      /\ UNCHANGED <<Rows, history>>
  BY DEF Start
<1>2. /\ \A t \in Session \ {s} : tx'[t] = tx[t]
      /\ tx'[s].pc \in {"start", "checking"} /\ tx'[s].ins = {} /\ tx'[s].aggs = {}
      /\ tx'[s].upd = NoUpdate /\ tx'[s].stats = {}
  BY <1>1 DEF WorkInv, IInv, TypeOK, IdleTx
<1>3. WorkOK(s)'
  BY <1>2 DEF WorkOK, At, NoUpdate
<1> QED
  BY <1>1, <1>2, <1>3, QuietWork

LEMMA PatchLoadWork ==
    ASSUME WorkInv, IInv', NEW s \in Session, PatchLoad(s) PROVE WorkInv'
<1> DEFINE b == tx[s].req.batch
<1>1. tx[s] \in Tx /\ tx[s].req.op = "patch" /\ UNCHANGED <<Rows, history>>
  BY DEF WorkInv, IInv, TypeOK, PatchLoad, At
<1>2. CASE batch[b] = Absent
  BY <1>1, <1>2, EndWork DEF PatchLoad
<1>3. CASE batch[b] # Absent
  <2>1. tx' = [tx EXCEPT ![s].pc = "loaded", ![s].seen = batch[b],
                         ![s].targets = {b}]
    BY <1>3 DEF PatchLoad
  <2>2. /\ \A t \in Session \ {s} : tx'[t] = tx[t]
        /\ tx'[s].req = tx[s].req /\ tx'[s].ins = tx[s].ins
        /\ tx'[s].upd = tx[s].upd /\ tx'[s].stats = tx[s].stats
        /\ tx'[s].aggs = tx[s].aggs
    BY <1>1, <2>1 DEF WorkInv, IInv, TypeOK, Tx
  <2> QED
    BY <1>1, <2>2, SameWork DEF WorkInv, WorkOK, At
<1> QED
  BY <1>2, <1>3

LEMMA PatchFlushWork ==
    ASSUME WorkInv, IInv', NEW s \in Session, PatchFlush(s) PROVE WorkInv'
<1> DEFINE r == tx[s].req
           u == PatchUpdate(r.want, tx[s].seen)
           B == IF u.cols # {} \/ r.edit THEN {r.batch} ELSE {}
           p == IF r.want = "close" /\ ~tx[s].seen.is_closed
                THEN "counting" ELSE "done"
<1>1. tx[s] \in Tx /\ r.op = "patch" /\ UNCHANGED <<Rows, history>>
  BY DEF WorkInv, IInv, TypeOK, PatchFlush, At
<1>2. "is_closed" \in u.cols => Asked(r, u.row.is_closed)
  BY <1>1 DEF PatchUpdate, NoUpdate, ClosedRow, OpenRow, Asked
<1> HIDE DEF u, B
<1>3. tx' = [tx EXCEPT ![s].pc = p, ![s].locks = B, ![s].upd = u]
  BY DEF PatchFlush, u, B
<1>4. /\ \A t \in Session \ {s} : tx'[t] = tx[t]
      /\ tx'[s].req = r /\ tx'[s].ins = tx[s].ins /\ tx'[s].upd = u
      /\ tx'[s].stats = tx[s].stats /\ tx'[s].aggs = tx[s].aggs
  BY <1>1, <1>3 DEF WorkInv, IInv, TypeOK, Tx
<1>5. product' = product /\ WorkOK(s)
  BY <1>1 DEF Rows, WorkInv
<1>6. WorkOK(s)'
  BY <1>1, <1>2, <1>4, <1>5 DEF WorkOK, At
<1> QED
  BY <1>1, <1>4, <1>6, QuietWork DEF WorkInv, InsertsDiffer, StatsNeverOverstate

LEMMA SweepSelectWork ==
    ASSUME WorkInv, IInv', NEW s \in Session, SweepSelect(s) PROVE WorkInv'
<1> DEFINE B == { b \in ended : batch[b] # Absent /\ ~batch[b].is_closed }
<1>1. tx[s] \in Tx /\ tx[s].req.op = "sweep" /\ UNCHANGED <<Rows, history>>
  BY DEF WorkInv, IInv, TypeOK, SweepSelect, At
<1>2. CASE B = {}
  BY <1>1, <1>2, EndWork DEF SweepSelect
<1>3. CASE B # {}
  <2>1. tx' = [tx EXCEPT ![s].pc = "counting", ![s].targets = B]
    BY <1>3 DEF SweepSelect
  <2> HIDE DEF B
  <2>2. /\ \A t \in Session \ {s} : tx'[t] = tx[t]
        /\ tx'[s].req = tx[s].req /\ tx'[s].ins = tx[s].ins
        /\ tx'[s].upd = tx[s].upd /\ tx'[s].stats = tx[s].stats
        /\ tx'[s].aggs = tx[s].aggs
    BY <1>1, <2>1 DEF WorkInv, IInv, TypeOK, Tx
  <2> QED
    BY <1>1, <2>2, SameWork DEF WorkInv, WorkOK, At
<1> QED
  BY <1>2, <1>3

LEMMA CountProductsWork ==
    ASSUME WorkInv, IInv', NEW s \in Session, CountProducts(s) PROVE WorkInv'
<1>1. tx[s] \in Tx /\ tx[s].pc = "counting" /\ UNCHANGED <<Rows, history>>
      /\ tx[s].req.op \in {"patch", "sweep"} /\ product' = product
  BY DEF WorkInv, IInv, TypeOK, CountProducts, SessionOK, PhaseOK, Rows
<1>2. PICK b \in tx[s].targets \ { e.batch : e \in tx[s].stats } :
        LET all == tx[s].targets \subseteq {b} \cup { e.batch : e \in tx[s].stats }
        IN tx' = [tx EXCEPT
                    ![s].stats = @ \cup {BatchStats(b)},
                    ![s].pc = CASE ~all -> "counting"
                                [] all /\ tx[s].req.op = "sweep" -> "closing"
                                [] all /\ tx[s].req.op = "patch" -> "done"]
  BY DEF CountProducts
<1>3. b \in Batch
  BY <1>1 DEF Tx
<1>4. /\ \A t \in Session \ {s} : tx'[t] = tx[t]
      /\ tx'[s].req = tx[s].req /\ tx'[s].ins = tx[s].ins
      /\ tx'[s].upd = tx[s].upd /\ tx'[s].aggs = tx[s].aggs
      /\ tx'[s].stats = tx[s].stats \cup {BatchStats(b)}
  BY <1>1, <1>2 DEF WorkInv, IInv, TypeOK, Tx
<1>5. WorkOK(s)'
  BY <1>1, <1>4 DEF WorkInv, WorkOK, At
<1>6. /\ BatchStats(b).total <= Cardinality(ProductsOf(BatchStats(b).batch))
      /\ BatchStats(b).aggregated <= Cardinality(AggregatedOf(BatchStats(b).batch))
  BY <1>3, CountFacts DEF BatchStats
<1>7. \A e \in tx'[s].stats :
        /\ e.total <= Cardinality(ProductsOf(e.batch))
        /\ e.aggregated <= Cardinality(AggregatedOf(e.batch))
  BY <1>4, <1>6 DEF WorkInv, StatsNeverOverstate
<1> QED
  BY <1>1, <1>4, <1>5, <1>7, QuietWork DEF WorkInv, InsertsDiffer

LEMMA SweepCloseWork ==
    ASSUME WorkInv, IInv', NEW s \in Session, SweepClose(s) PROVE WorkInv'
<1> DEFINE u == [cols |-> {"is_closed", "closed_at"}, row |-> ClosedRow]
<1>1. tx[s] \in Tx /\ tx[s].req.op = "sweep" /\ UNCHANGED <<Rows, history>>
      /\ product' = product /\ WorkOK(s)
  BY DEF WorkInv, IInv, TypeOK, SweepClose, At, Rows
<1>2. Asked(tx[s].req, u.row.is_closed)
  BY <1>1 DEF Asked, ClosedRow
<1> HIDE DEF u
<1>3. tx' = [tx EXCEPT ![s].pc = "done", ![s].locks = tx[s].targets, ![s].upd = u]
  BY DEF SweepClose, u
<1>4. /\ \A t \in Session \ {s} : tx'[t] = tx[t]
      /\ tx'[s].req = tx[s].req /\ tx'[s].ins = tx[s].ins /\ tx'[s].upd = u
      /\ tx'[s].stats = tx[s].stats /\ tx'[s].aggs = tx[s].aggs
  BY <1>1, <1>3 DEF WorkInv, IInv, TypeOK, Tx
<1>5. WorkOK(s)'
  BY <1>1, <1>2, <1>4 DEF WorkOK, At
<1> QED
  BY <1>1, <1>4, <1>5, QuietWork DEF WorkInv, InsertsDiffer, StatsNeverOverstate

LEMMA AddCheckBatchWork ==
    ASSUME WorkInv, IInv', NEW s \in Session, AddCheckBatch(s) PROVE WorkInv'
<1> DEFINE B == { tx[s].req.items[c] : c \in DOMAIN tx[s].req.items }
<1>1. tx[s] \in Tx /\ tx[s].req.op = "add" /\ UNCHANGED <<Rows, history>>
  BY DEF WorkInv, IInv, TypeOK, AddCheckBatch, At
<1>2. PICK b \in B \ tx[s].targets :
        IF OpenBatch(b)
        THEN tx' = [tx EXCEPT ![s].targets = @ \cup {b},
                              ![s].pc = IF B \subseteq tx[s].targets \cup {b}
                                        THEN "checked" ELSE "checking"]
        ELSE End(s)
  BY DEF AddCheckBatch
<1> HIDE DEF B
<1>3. CASE ~OpenBatch(b)
  BY <1>1, <1>2, <1>3, EndWork
<1>4. CASE OpenBatch(b)
  <2>1. /\ \A t \in Session \ {s} : tx'[t] = tx[t]
        /\ tx'[s].req = tx[s].req /\ tx'[s].ins = tx[s].ins
        /\ tx'[s].upd = tx[s].upd /\ tx'[s].stats = tx[s].stats
        /\ tx'[s].aggs = tx[s].aggs
    BY <1>1, <1>2, <1>4 DEF WorkInv, IInv, TypeOK, Tx
  <2> QED
    BY <1>1, <2>1, SameWork DEF WorkInv, WorkOK, At
<1> QED
  BY <1>3, <1>4

LEMMA AddCheckCodesWork ==
    ASSUME WorkInv, IInv', NEW s \in Session, AddCheckCodes(s) PROVE WorkInv'
<1>1. tx[s] \in Tx /\ tx[s].req.op = "add" /\ UNCHANGED <<Rows, history>>
  BY DEF WorkInv, IInv, TypeOK, AddCheckCodes, At
<1>2. CASE End(s)
  BY <1>1, <1>2, EndWork
<1>3. CASE tx' = [tx EXCEPT ![s].pc = "writing"]
  <2>1. /\ \A t \in Session \ {s} : tx'[t] = tx[t]
        /\ tx'[s].req = tx[s].req /\ tx'[s].ins = tx[s].ins
        /\ tx'[s].upd = tx[s].upd /\ tx'[s].stats = tx[s].stats
        /\ tx'[s].aggs = tx[s].aggs
    BY <1>1, <1>3 DEF WorkInv, IInv, TypeOK, Tx
  <2> QED
    BY <1>1, <2>1, SameWork DEF WorkInv, WorkOK, At
<1> QED
  BY <1>2, <1>3 DEF AddCheckCodes

LEMMA AddInsertWork ==
    ASSUME WorkInv, IInv', NEW s \in Session, AddInsert(s) PROVE WorkInv'
<1> DEFINE g == Head(tx[s].todo)
<1>1. /\ tx[s] \in Tx /\ tx[s].req.op = "add" /\ UNCHANGED <<Rows, history>>
      /\ \A t \in Session \ {s} : tx[t].ins \cap g = {}
      /\ product' = product /\ WorkOK(s)
  BY DEF WorkInv, IInv, TypeOK, AddInsert, At, Rows
<1>2. CASE \E c \in g : product[c] # Absent
  BY <1>1, <1>2, EndWork DEF AddInsert
<1>3. CASE ~ \E c \in g : product[c] # Absent
  <2>1. tx' = [tx EXCEPT ![s].ins = @ \cup g, ![s].todo = Tail(@),
                         ![s].pc = IF Len(tx[s].todo) = 1
                                   THEN "done" ELSE "writing"]
    BY <1>3 DEF AddInsert
  <2> HIDE DEF g
  <2>2. /\ \A t \in Session \ {s} : tx'[t] = tx[t]
        /\ tx'[s].req = tx[s].req /\ tx'[s].ins = tx[s].ins \cup g
        /\ tx'[s].upd = tx[s].upd /\ tx'[s].stats = tx[s].stats
        /\ tx'[s].aggs = tx[s].aggs
    BY <1>1, <2>1 DEF WorkInv, IInv, TypeOK, Tx
  <2>3. WorkOK(s)'
    BY <1>1, <1>3, <2>2 DEF WorkOK, At
  <2>4. \A t \in Session \ {s} : tx'[s].ins \cap tx[t].ins = {}
    BY <1>1, <2>2 DEF WorkInv, InsertsDiffer
  <2> QED
    BY <1>1, <2>2, <2>3, <2>4, QuietWork DEF WorkInv, StatsNeverOverstate
<1> QED
  BY <1>2, <1>3

LEMMA NextGroupWork ==
    ASSUME WorkInv, IInv', NEW s \in Session, UNCHANGED <<Rows, history>>,
           tx[s].req.op = "aggregate", NEW aggs, NextGroup(s, aggs)
    PROVE  WorkInv'
<1>1. tx[s] \in Tx
  BY DEF WorkInv, IInv, TypeOK
<1>2. /\ \A t \in Session \ {s} : tx'[t] = tx[t]
      /\ tx'[s].req = tx[s].req /\ tx'[s].ins = tx[s].ins
      /\ tx'[s].upd = tx[s].upd /\ tx'[s].stats = tx[s].stats
      /\ tx'[s].pc \in {"done", "checking"}
  BY <1>1 DEF NextGroup, WorkInv, IInv, TypeOK, Tx
<1> QED
  BY <1>2, SameWork DEF At

LEMMA FailGroupWork ==
    ASSUME WorkInv, IInv', NEW s \in Session, UNCHANGED <<Rows, history>>,
           tx[s].req.op = "aggregate", FailGroup(s)
    PROVE  WorkInv'
  BY EndWork, NextGroupWork DEF FailGroup

LEMMA AggregateCheckBatchWork ==
    ASSUME WorkInv, IInv', NEW s \in Session, AggregateCheckBatch(s) PROVE WorkInv'
<1> DEFINE b == tx[s].req.batch
<1>1. tx[s] \in Tx /\ tx[s].req.op = "aggregate" /\ UNCHANGED <<Rows, history>>
  BY DEF WorkInv, IInv, TypeOK, AggregateCheckBatch, At
<1>2. CASE ~OpenBatch(b)
  BY <1>1, <1>2, FailGroupWork DEF AggregateCheckBatch
<1>3. CASE OpenBatch(b)
  <2>1. tx' = [tx EXCEPT ![s].pc = "checked", ![s].targets = {b}]
    BY <1>3 DEF AggregateCheckBatch
  <2>2. /\ \A t \in Session \ {s} : tx'[t] = tx[t]
        /\ tx'[s].req = tx[s].req /\ tx'[s].ins = tx[s].ins
        /\ tx'[s].upd = tx[s].upd /\ tx'[s].stats = tx[s].stats
        /\ tx'[s].targets = {b}
    BY <1>1, <2>1 DEF WorkInv, IInv, TypeOK, Tx
  <2> QED
    BY <1>1, <2>2, SameWork
<1> QED
  BY <1>2, <1>3

LEMMA AggregateCheckCodesWork ==
    ASSUME WorkInv, IInv', NEW s \in Session, AggregateCheckCodes(s) PROVE WorkInv'
<1>1. /\ tx[s] \in Tx /\ At(s, "aggregate", "checked") /\ UNCHANGED <<Rows, history>>
      /\ tx[s].req.op = "aggregate" /\ WorkOK(s)
  BY DEF WorkInv, IInv, TypeOK, AggregateCheckCodes, At
<1>2. CASE ~Aggregable(s)
  BY <1>1, <1>2, FailGroupWork DEF AggregateCheckCodes
<1>3. CASE Aggregable(s)
  <2>1. tx' = [tx EXCEPT ![s].pc = "writing"]
    BY <1>3 DEF AggregateCheckCodes
  <2>2. /\ \A t \in Session \ {s} : tx'[t] = tx[t]
        /\ tx'[s].req = tx[s].req /\ tx'[s].ins = tx[s].ins
        /\ tx'[s].upd = tx[s].upd /\ tx'[s].stats = tx[s].stats
        /\ tx'[s].targets = tx[s].targets
    BY <1>1, <2>1 DEF WorkInv, IInv, TypeOK, Tx
  <2>3. tx'[s].targets = {tx[s].req.batch}
    BY <1>1, <2>2 DEF WorkOK
  <2> QED
    BY <1>1, <2>2, <2>3, SameWork
<1> QED
  BY <1>2, <1>3

LEMMA AggregateUpdateWork ==
    ASSUME WorkInv, IInv', NEW s \in Session, AggregateUpdate(s) PROVE WorkInv'
<1>1. /\ tx[s] \in Tx /\ At(s, "aggregate", "writing") /\ UNCHANGED <<Rows, history>>
      /\ tx[s].req.op = "aggregate" /\ WorkOK(s)
  BY DEF WorkInv, IInv, TypeOK, AggregateUpdate, At
<1>2. PICK c \in Head(tx[s].todo) \ tx[s].aggs :
        IF Head(tx[s].todo) \subseteq tx[s].aggs \cup {c}
        THEN NextGroup(s, tx[s].aggs \cup {c})
        ELSE tx' = [tx EXCEPT ![s].aggs = @ \cup {c}]
  BY DEF AggregateUpdate
<1>3. CASE NextGroup(s, tx[s].aggs \cup {c})
  BY <1>1, <1>3, NextGroupWork
<1>4. CASE tx' = [tx EXCEPT ![s].aggs = @ \cup {c}]
  <2>1. /\ \A t \in Session \ {s} : tx'[t] = tx[t]
        /\ tx'[s].req = tx[s].req /\ tx'[s].ins = tx[s].ins
        /\ tx'[s].upd = tx[s].upd /\ tx'[s].stats = tx[s].stats
        /\ tx'[s].targets = tx[s].targets
    BY <1>1, <1>4 DEF WorkInv, IInv, TypeOK, Tx
  <2>2. tx'[s].targets = {tx[s].req.batch}
    BY <1>1, <2>1 DEF WorkOK
  <2> QED
    BY <1>1, <2>1, <2>2, SameWork
<1> QED
  BY <1>2, <1>3, <1>4

-----------------------------------------------------------------------------
(* Steps that change the tables.                                           *)

\* The products of a batch, and those of them that are aggregated, only grow.
LEMMA CountsGrow ==
    ASSUME NEW b \in Batch, ProductsOf(b) \subseteq ProductsOf(b)',
           AggregatedOf(b) \subseteq AggregatedOf(b)'
    PROVE  /\ Cardinality(ProductsOf(b)) <= Cardinality(ProductsOf(b)')
           /\ Cardinality(AggregatedOf(b)) <= Cardinality(AggregatedOf(b)')
<1>1. ProductsOf(b)' \subseteq Code /\ AggregatedOf(b)' \subseteq Code
  BY DEF ProductsOf, AggregatedOf
<1>2. IsFiniteSet(ProductsOf(b)') /\ IsFiniteSet(AggregatedOf(b)')
  BY <1>1, CodeAssumption, FS_Subset
<1> QED
  BY <1>2, FS_Subset

\* What a commit does to one product.
LEMMA CommitProduct ==
    ASSUME WorkInv, NEW s \in Session, Commit(s), NEW c \in Code
    PROVE  /\ c \in tx[s].ins =>
                /\ c \notin tx[s].aggs /\ product[c] = Absent
                /\ product'[c] # Absent /\ ~product'[c].is_aggregated
           /\ c \in tx[s].aggs =>
                /\ c \notin tx[s].ins /\ product[c] # Absent /\ product'[c] # Absent
                /\ product'[c].is_aggregated
                /\ product'[c].batch_id = product[c].batch_id
           /\ c \notin tx[s].ins \cup tx[s].aggs => product'[c] = product[c]
<1>1. /\ tx[s].pc = "done"
      /\ product' = [d \in Code |->
           CASE d \in tx[s].ins ->
                  [batch_id |-> tx[s].req.items[d], is_aggregated |-> FALSE]
             [] d \in tx[s].aggs -> [product[d] EXCEPT !.is_aggregated = TRUE]
             [] OTHER -> product[d]]
  BY DEF Commit
<1>2. IInv /\ WorkOK(s) /\ WritesOK(s)
  BY DEF WorkInv, IInv, SessionOK
<1>3. c \in tx[s].ins => c \notin tx[s].aggs /\ product[c] = Absent
  BY <1>2 DEF WorkOK, WritesOK
<1>4. CASE c \in tx[s].ins
  <2>1. tx[s].req.items[c] \in Batch
    BY <1>1, <1>2, <1>4, CommitRows
  <2>2. product'[c] = [batch_id |-> tx[s].req.items[c], is_aggregated |-> FALSE]
    BY <1>1, <1>3, <1>4
  <2>3. product'[c] \in ProductRow
    BY <2>1, <2>2 DEF ProductRow
  <2>4. product'[c] # Absent
    BY <2>3, AbsentAssumption
  <2>5. ~product'[c].is_aggregated
    BY <2>2
  <2> QED
    BY <1>3, <1>4, <2>4, <2>5
<1>5. CASE c \in tx[s].aggs
  <2>1. product[c] \in ProductRow
    BY <1>1, <1>2, <1>5, CommitRows
  <2>2. product'[c] = [product[c] EXCEPT !.is_aggregated = TRUE]
    BY <1>1, <1>3, <1>5
  <2>3. /\ product'[c] \in ProductRow /\ product'[c].is_aggregated
        /\ product'[c].batch_id = product[c].batch_id
    BY <2>1, <2>2 DEF ProductRow
  <2> QED
    BY <1>3, <1>5, <2>1, <2>3, AbsentAssumption
<1>6. CASE c \notin tx[s].ins \cup tx[s].aggs
  BY <1>1, <1>6
<1> QED
  BY <1>4, <1>5, <1>6

LEMMA CommitWork ==
    ASSUME WorkInv, IInv', NEW s \in Session, Commit(s) PROVE WorkInv'
<1>1. /\ End(s)
      /\ aggEvents' = [c \in Code |-> aggEvents[c] + IF c \in tx[s].aggs THEN 1 ELSE 0]
  BY DEF Commit
<1>2. tx'[s] = IdleTx /\ \A t \in Session \ {s} : tx'[t] = tx[t]
  BY <1>1 DEF End, WorkInv, IInv, TypeOK
<1>3. tx'[s].ins = {} /\ tx'[s].stats = {}
  BY <1>2 DEF IdleTx
<1>4. ASSUME NEW t \in Session PROVE WorkOK(t)'
  <2>1. CASE t = s
    BY <1>2, <2>1 DEF WorkOK, IdleTx, At, NoUpdate
  <2>2. CASE t # s
    <3>1. WorkOK(t) /\ tx'[t] = tx[t] /\ tx[t] \in Tx
      BY <1>2, <2>2 DEF WorkInv, IInv, TypeOK
    <3>2. ASSUME NEW c \in tx[t].ins PROVE product'[c] = Absent
      <4>1. c \in Code /\ product[c] = Absent /\ c \notin tx[s].ins
        BY <2>2, <3>1 DEF Tx, WorkOK, WorkInv, InsertsDiffer
      <4> QED
        BY <4>1, CommitProduct
    <3> QED
      BY <3>1, <3>2 DEF WorkOK, At
  <2> QED
    BY <2>1, <2>2
<1>5. InsertsDiffer'
  BY <1>2, <1>3 DEF WorkInv, InsertsDiffer
<1>6. AggregationAnnounced'
  <2> SUFFICES ASSUME NEW c \in Code
               PROVE  (aggEvents'[c] > 0) <=>
                        (product'[c] # Absent /\ product'[c].is_aggregated)
    BY DEF AggregationAnnounced
  <2>1. /\ aggEvents[c] \in Nat
        /\ (aggEvents[c] > 0) <=> (product[c] # Absent /\ product[c].is_aggregated)
    BY DEF WorkInv, IInv, TypeOK, AggregationAnnounced
  <2>2. aggEvents'[c] = aggEvents[c] + IF c \in tx[s].aggs THEN 1 ELSE 0
    BY <1>1
  <2>3. CASE c \in tx[s].ins
    BY <2>1, <2>2, <2>3, CommitProduct
  <2>4. CASE c \in tx[s].aggs
    BY <2>1, <2>2, <2>4, CommitProduct
  <2>5. CASE c \notin tx[s].ins \cup tx[s].aggs
    BY <2>1, <2>2, <2>5, CommitProduct
  <2> QED
    BY <2>3, <2>4, <2>5
<1>7. StatsNeverOverstate'
  <2> SUFFICES ASSUME NEW t \in Session, NEW e \in tx'[t].stats
               PROVE  /\ e.total <= Cardinality(ProductsOf(e.batch)')
                      /\ e.aggregated <= Cardinality(AggregatedOf(e.batch)')
    BY DEF StatsNeverOverstate
  <2> DEFINE b == e.batch
  <2>1. e \in tx[t].stats /\ t # s
    BY <1>2, <1>3
  <2>2. /\ b \in Batch /\ e.total \in Nat /\ e.aggregated \in Nat
        /\ e.total <= Cardinality(ProductsOf(b))
        /\ e.aggregated <= Cardinality(AggregatedOf(b))
    BY <2>1 DEF WorkInv, StatsNeverOverstate, IInv, TypeOK, Tx, CloseEvent
  <2>3. ASSUME NEW c \in ProductsOf(b)
        PROVE  c \in ProductsOf(b)' /\ (product[c].is_aggregated => c \in AggregatedOf(b)')
    <3>1. c \in Code /\ product[c] # Absent /\ product[c].batch_id = b
      BY DEF ProductsOf
    <3>2. /\ product'[c] # Absent /\ product'[c].batch_id = b
          /\ product[c].is_aggregated => product'[c].is_aggregated
      BY <3>1, CommitProduct
    <3> QED
      BY <3>1, <3>2 DEF ProductsOf, AggregatedOf
  <2>4. ProductsOf(b) \subseteq ProductsOf(b)' /\ AggregatedOf(b) \subseteq AggregatedOf(b)'
    BY <2>3 DEF AggregatedOf
  <2>5. /\ Cardinality(ProductsOf(b)) <= Cardinality(ProductsOf(b)')
        /\ Cardinality(AggregatedOf(b)) <= Cardinality(AggregatedOf(b)')
    BY <2>2, <2>4, CountsGrow
  <2>6. /\ Cardinality(ProductsOf(b)) \in Nat /\ Cardinality(AggregatedOf(b)) \in Nat
        /\ Cardinality(ProductsOf(b)') \in Nat /\ Cardinality(AggregatedOf(b)') \in Nat
    <3>1. /\ ProductsOf(b)' \subseteq Code /\ AggregatedOf(b)' \subseteq Code
      BY DEF ProductsOf, AggregatedOf
    <3> QED
      BY <2>2, <3>1, CountFacts, CodeAssumption, FS_Subset, FS_CardinalityType
  <2> QED
    BY <2>2, <2>5, <2>6
<1> QED
  BY <1>4, <1>5, <1>6, <1>7 DEF WorkInv

\* Rows of batches, shifts and stuttering are no business of the sessions.
LEMMA ElsewhereWork ==
    ASSUME WorkInv, IInv', UNCHANGED <<product, tx, aggEvents>> PROVE WorkInv'
<1>1. \A s \in Session : WorkOK(s)'
  BY DEF WorkInv, WorkOK, At
<1>2. InsertsDiffer' /\ AggregationAnnounced'
  BY DEF WorkInv, InsertsDiffer, AggregationAnnounced
<1>3. StatsNeverOverstate'
  BY DEF WorkInv, StatsNeverOverstate, ProductsOf, AggregatedOf
<1> QED
  BY <1>1, <1>2, <1>3 DEF WorkInv

LEMMA NextWork == WorkInv /\ [Next]_vars => WorkInv'
<1> SUFFICES ASSUME WorkInv, [Next]_vars PROVE WorkInv'
  OBVIOUS
<1>1. IInv'
  BY NextIInv DEF WorkInv
<1>2. CASE UNCHANGED vars
  BY <1>1, <1>2, ElsewhereWork DEF vars, history
<1>3. ASSUME NEW b \in Batch, NEW closed \in BOOLEAN, CreateBatch(b, closed)
      PROVE  WorkInv'
  BY <1>1, <1>3, ElsewhereWork DEF CreateBatch
<1>4. ASSUME NEW b \in Batch, ShiftEnds(b) PROVE WorkInv'
  BY <1>1, <1>4, ElsewhereWork DEF ShiftEnds, history
<1>5. ASSUME NEW s \in Session, NEW r \in Request, Start(s, r) PROVE WorkInv'
  BY <1>1, <1>5, StartWork
<1>6. ASSUME NEW s \in Session, Step(s) PROVE WorkInv'
  BY <1>1, <1>6, PatchLoadWork, PatchFlushWork, SweepSelectWork, CountProductsWork,
     SweepCloseWork, AddCheckBatchWork, AddCheckCodesWork, AddInsertWork,
     AggregateCheckBatchWork, AggregateCheckCodesWork, AggregateUpdateWork,
     CommitWork DEF Step
<1>7. ASSUME NEW s \in Session, Rollback(s) \/ DeadlockVictim(s) PROVE WorkInv'
  BY <1>1, <1>7, EndWork DEF Rollback, DeadlockVictim
<1> QED
  BY <1>2, <1>3, <1>4, <1>5, <1>6, <1>7 DEF Next

-----------------------------------------------------------------------------
(* Theorems.                                                               *)

\* The invariant of this module holds in every behaviour.
THEOREM WorkInvariance == Spec => []WorkInv
<1>1. Init => WorkInv
  BY InitWork
<1>2. WorkInv /\ [Next]_vars => WorkInv'
  BY NextWork
<1> QED
  BY <1>1, <1>2, PTL DEF Spec

\* A product is aggregated exactly when a committed transaction announced it: no
\* overlap of requests and tasks loses an aggregation, an announcement or a row.
THEOREM AggregationsAnnounced == Spec => []AggregationAnnounced
  BY WorkInvariance, PTL DEF WorkInv

\* The statistics in a batch_closed event never run ahead of the committed products.
THEOREM StatsConservative == Spec => []StatsNeverOverstate
  BY WorkInvariance, PTL DEF WorkInv

\* A step that changes a row of a table is a commit or creates the row.
LEMMA BatchSteps ==
    ASSUME WorkInv, [Next]_vars, NEW b \in Batch, batch[b] # Absent
    PROVE  batch'[b] = batch[b] \/ \E s \in Session : Commit(s)
<1>1. CASE UNCHANGED vars
  BY <1>1 DEF vars
<1>2. ASSUME NEW d \in Batch, NEW closed \in BOOLEAN, CreateBatch(d, closed)
      PROVE  batch'[b] = batch[b]
  BY <1>2 DEF CreateBatch, WorkInv, IInv, TypeOK
<1>3. ASSUME NEW d \in Batch, ShiftEnds(d) PROVE batch' = batch
  BY <1>3 DEF ShiftEnds
<1>4. ASSUME NEW s \in Session, NEW r \in Request, Start(s, r) PROVE batch' = batch
  BY <1>4 DEF Start, Rows
<1>5. ASSUME NEW s \in Session, Step(s), ~Commit(s) PROVE batch' = batch
  BY <1>5 DEF Step, PatchLoad, PatchFlush, SweepSelect, CountProducts, SweepClose,
     AddCheckBatch, AddCheckCodes, AddInsert, AggregateCheckBatch,
     AggregateCheckCodes, AggregateUpdate, Rows
<1>6. ASSUME NEW s \in Session, Rollback(s) \/ DeadlockVictim(s) PROVE batch' = batch
  BY <1>6 DEF Rollback, DeadlockVictim, Rows
<1> QED
  BY <1>1, <1>2, <1>3, <1>4, <1>5, <1>6 DEF Next

\* is_closed changes only by the commit of a session that was asked to change it:
\* what a stale row contributes to an UPDATE never closes or reopens a batch.
THEOREM ClosingOnDemand == Spec => ClosedOnDemand
<1> DEFINE OnDemand(b, s) ==
      /\ tx[s].pc = "done" /\ tx'[s].pc = "idle"
      /\ b \in tx[s].targets
      /\ \/ tx[s].req.op = "sweep" /\ ~batch[b].is_closed
         \/ tx[s].req.op = "patch" /\ tx[s].req.want =
              IF batch[b].is_closed THEN "reopen" ELSE "close"
<1>1. ASSUME WorkInv, [Next]_vars, NEW b \in Batch, batch[b] # Absent,
             batch[b].is_closed # batch'[b].is_closed
      PROVE  \E s \in Session : OnDemand(b, s)
  <2>1. PICK s \in Session : Commit(s)
    BY <1>1, BatchSteps
  <2>2. /\ tx[s].pc = "done" /\ End(s)
        /\ batch'[b] = IF b \in tx[s].locks
                       THEN ApplyUpdate(batch[b], tx[s].upd) ELSE batch[b]
    BY <2>1 DEF Commit
  <2>3. tx'[s].pc = "idle"
    BY <1>1, <2>2 DEF End, WorkInv, IInv, TypeOK, IdleTx
  <2>4. b \in tx[s].locks /\ batch'[b] = ApplyUpdate(batch[b], tx[s].upd)
    BY <1>1, <2>2
  <2>5. WorkOK(s) /\ b \in tx[s].targets /\ tx[s].upd \in Update
    BY <1>1, <2>4 DEF WorkInv, IInv, SessionOK, WritesOK, TypeOK, Tx
  <2>6. /\ "is_closed" \in tx[s].upd.cols
        /\ tx[s].upd.row.is_closed # batch[b].is_closed
    BY <1>1, <2>4 DEF ApplyUpdate
  <2>7. Asked(tx[s].req, tx[s].upd.row.is_closed)
    BY <2>5, <2>6 DEF WorkOK
  <2>8. batch[b].is_closed \in BOOLEAN /\ tx[s].upd.row.is_closed \in BOOLEAN
    <3>1. batch[b] \in BatchRow /\ tx[s].upd.row \in BatchRow
      BY <1>1, <2>5 DEF WorkInv, IInv, TypeOK, Update
    <3> QED
      BY <3>1 DEF BatchRow
  <2>9. OnDemand(b, s)
    BY <2>2, <2>3, <2>5, <2>6, <2>7, <2>8 DEF Asked
  <2> QED
    BY <2>9
<1>2. WorkInv /\ [Next]_vars =>
        [\A b \in Batch :
           batch[b] # Absent /\ batch[b].is_closed # batch'[b].is_closed =>
              \E s \in Session : /\ tx[s].pc = "done" /\ tx'[s].pc = "idle"
                                /\ b \in tx[s].targets
                                /\ \/ tx[s].req.op = "sweep" /\ ~batch[b].is_closed
                                   \/ tx[s].req.op = "patch" /\ tx[s].req.want =
                                       IF batch[b].is_closed THEN "reopen" ELSE "close"
        ]_vars
  BY <1>1
<1> QED
  BY <1>2, WorkInvariance, PTL DEF Spec, ClosedOnDemand

-----------------------------------------------------------------------------
(* A closed batch drains.                                                  *)

Holds(s, b) ==
    /\ tx[s].req.op \in {"add", "aggregate"}
    /\ b \in tx[s].targets \/ (tx[s].aggs # {} /\ tx[s].req.batch = b)

\* A session whose targets shrink and that has aggregated before, if at all.
LEMMA HoldsLess ==
    ASSUME NEW s \in Session, NEW b \in Batch, tx'[s].req = tx[s].req,
           tx'[s].targets \subseteq tx[s].targets,
           tx'[s].aggs # {} => tx[s].aggs # {}, Holds(s, b)'
    PROVE  Holds(s, b)
  BY DEF Holds

LEMMA EndHolds ==
    ASSUME WorkInv, NEW s \in Session, NEW b \in Batch, End(s) PROVE ~Holds(s, b)'
<1>1. tx'[s] = IdleTx
  BY DEF End, WorkInv, IInv, TypeOK
<1> QED
  BY <1>1 DEF Holds, IdleTx

\* A failed code leaves the session with what it had aggregated before.
LEMMA FailGroupHolds ==
    ASSUME WorkInv, NEW s \in Session, NEW b \in Batch, FailGroup(s), Holds(s, b)'
    PROVE  Holds(s, b)
<1>1. tx[s] \in Tx
  BY DEF WorkInv, IInv, TypeOK
<1>2. CASE End(s)
  BY <1>2, EndHolds
<1>3. CASE NextGroup(s, tx[s].aggs)
  <2>1. tx'[s].req = tx[s].req /\ tx'[s].targets = {} /\ tx'[s].aggs = tx[s].aggs
    BY <1>1, <1>3 DEF NextGroup, WorkInv, IInv, TypeOK, Tx
  <2> QED
    BY <2>1, HoldsLess
<1> QED
  BY <1>2, <1>3 DEF FailGroup

LEMMA AddHolds ==
    ASSUME WorkInv, NEW s \in Session, NEW b \in Batch, ~OpenBatch(b),
           AddCheckBatch(s) \/ AddCheckCodes(s) \/ AddInsert(s), Holds(s, b)'
    PROVE  Holds(s, b)
<1>1. tx[s] \in Tx
  BY DEF WorkInv, IInv, TypeOK
<1>2. ~End(s)
  BY EndHolds
<1>3. CASE AddCheckBatch(s)
  <2> DEFINE B == { tx[s].req.items[c] : c \in DOMAIN tx[s].req.items }
  <2>1. PICK d \in B \ tx[s].targets :
          /\ OpenBatch(d)
          /\ tx' = [tx EXCEPT ![s].targets = @ \cup {d},
                              ![s].pc = IF B \subseteq tx[s].targets \cup {d}
                                        THEN "checked" ELSE "checking"]
    BY <1>2, <1>3 DEF AddCheckBatch
  <2> HIDE DEF B
  <2>2. /\ tx'[s].req = tx[s].req /\ tx'[s].aggs = tx[s].aggs
        /\ tx'[s].targets = tx[s].targets \cup {d}
    BY <1>1, <2>1 DEF WorkInv, IInv, TypeOK, Tx
  <2>3. b # d
    BY <2>1
  <2> QED
    BY <2>2, <2>3 DEF Holds
<1>4. CASE AddCheckCodes(s)
  <2>1. tx' = [tx EXCEPT ![s].pc = "writing"]
    BY <1>2, <1>4 DEF AddCheckCodes
  <2>2. /\ tx'[s].req = tx[s].req /\ tx'[s].aggs = tx[s].aggs
        /\ tx'[s].targets = tx[s].targets
    BY <1>1, <2>1 DEF WorkInv, IInv, TypeOK, Tx
  <2> QED
    BY <2>2, HoldsLess
<1>5. CASE AddInsert(s)
  <2>1. tx' = [tx EXCEPT ![s].ins = @ \cup Head(tx[s].todo), ![s].todo = Tail(@),
                         ![s].pc = IF Len(tx[s].todo) = 1
                                   THEN "done" ELSE "writing"]
    BY <1>2, <1>5 DEF AddInsert
  <2>2. /\ tx'[s].req = tx[s].req /\ tx'[s].aggs = tx[s].aggs
        /\ tx'[s].targets = tx[s].targets
    BY <1>1, <2>1 DEF WorkInv, IInv, TypeOK, Tx
  <2> QED
    BY <2>2, HoldsLess
<1> QED
  BY <1>3, <1>4, <1>5

LEMMA AggregateHolds ==
    ASSUME WorkInv, NEW s \in Session, NEW b \in Batch, ~OpenBatch(b),
           AggregateCheckBatch(s) \/ AggregateCheckCodes(s) \/ AggregateUpdate(s),
           Holds(s, b)'
    PROVE  Holds(s, b)
<1>1. tx[s] \in Tx /\ tx[s].req.op = "aggregate"
  BY DEF WorkInv, IInv, TypeOK, AggregateCheckBatch, AggregateCheckCodes,
         AggregateUpdate, At
<1>2. CASE AggregateCheckBatch(s) /\ ~FailGroup(s)
  <2> DEFINE d == tx[s].req.batch
  <2>1. /\ OpenBatch(d)
        /\ tx' = [tx EXCEPT ![s].pc = "checked", ![s].targets = {d}]
    BY <1>2 DEF AggregateCheckBatch
  <2>2. /\ tx'[s].req = tx[s].req /\ tx'[s].aggs = tx[s].aggs /\ tx'[s].targets = {d}
    BY <1>1, <2>1 DEF WorkInv, IInv, TypeOK, Tx
  <2> QED
    BY <2>1, <2>2 DEF Holds
<1>3. CASE AggregateCheckCodes(s) /\ ~FailGroup(s)
  <2>1. tx' = [tx EXCEPT ![s].pc = "writing"]
    BY <1>3 DEF AggregateCheckCodes
  <2>2. /\ tx'[s].req = tx[s].req /\ tx'[s].aggs = tx[s].aggs
        /\ tx'[s].targets = tx[s].targets
    BY <1>1, <2>1 DEF WorkInv, IInv, TypeOK, Tx
  <2> QED
    BY <2>2, HoldsLess
<1>4. CASE AggregateUpdate(s)
  <2>1. PICK c \in Head(tx[s].todo) \ tx[s].aggs :
          \/ NextGroup(s, tx[s].aggs \cup {c})
          \/ tx' = [tx EXCEPT ![s].aggs = @ \cup {c}]
    BY <1>4 DEF AggregateUpdate
  <2>2. tx'[s].req = tx[s].req /\ tx'[s].targets \subseteq tx[s].targets
    <3>1. CASE NextGroup(s, tx[s].aggs \cup {c})
      <4>1. tx'[s].req = tx[s].req /\ tx'[s].targets = {}
        BY <1>1, <3>1 DEF NextGroup, WorkInv, IInv, TypeOK, Tx
      <4> QED
        BY <4>1
    <3>2. CASE tx' = [tx EXCEPT ![s].aggs = @ \cup {c}]
      BY <1>1, <3>2 DEF WorkInv, IInv, TypeOK, Tx
    <3> QED
      BY <2>1, <3>1, <3>2
  <2>3. tx[s].targets = {tx[s].req.batch}
    BY <1>4 DEF WorkInv, WorkOK, AggregateUpdate
  <2> QED
    BY <1>1, <2>2, <2>3 DEF Holds
<1> QED
  BY <1>2, <1>3, <1>4, FailGroupHolds

\* A step of another kind of session, or its end.
LEMMA StepHolds ==
    ASSUME WorkInv, NEW s \in Session, NEW b \in Batch, ~OpenBatch(b), Step(s),
           Holds(s, b)'
    PROVE  Holds(s, b)
<1>1. ~End(s)
  BY EndHolds
<1>2. tx[s] \in Tx /\ PhaseOK(s)
  BY DEF WorkInv, IInv, TypeOK, SessionOK
<1>3. CASE PatchLoad(s) \/ PatchFlush(s) \/ SweepSelect(s) \/ CountProducts(s)
             \/ SweepClose(s)
  <2>1. tx[s].req.op \in {"patch", "sweep"}
    BY <1>2, <1>3 DEF PatchLoad, PatchFlush, SweepSelect, CountProducts, SweepClose,
       At, PhaseOK
  <2>2. tx'[s].req = tx[s].req
    <3>1. CASE PatchLoad(s)
      BY <1>1, <1>2, <3>1 DEF PatchLoad, WorkInv, IInv, TypeOK, Tx
    <3>2. CASE PatchFlush(s)
      BY <1>2, <3>2 DEF PatchFlush, WorkInv, IInv, TypeOK, Tx
    <3>3. CASE SweepSelect(s)
      BY <1>1, <1>2, <3>3 DEF SweepSelect, WorkInv, IInv, TypeOK, Tx
    <3>4. CASE CountProducts(s)
      BY <1>2, <3>4 DEF CountProducts, WorkInv, IInv, TypeOK, Tx
    <3>5. CASE SweepClose(s)
      BY <1>2, <3>5 DEF SweepClose, WorkInv, IInv, TypeOK, Tx
    <3> QED
      BY <1>3, <3>1, <3>2, <3>3, <3>4, <3>5
  <2> QED
    BY <2>1, <2>2 DEF Holds
<1> QED
  BY <1>1, <1>3, AddHolds, AggregateHolds DEF Step, Commit

\* Once a batch is closed no session starts to add to it or to aggregate in it:
\* those that do have checked it before, and they can only become fewer.
THEOREM ClosedDrains == Spec => ClosedBatchDrains
<1>1. ASSUME WorkInv, [Next]_vars, NEW b \in Batch, batch[b].is_closed,
             NEW s \in Session, Holds(s, b)'
      PROVE  Holds(s, b)
  <2>1. ~OpenBatch(b)
    BY <1>1 DEF OpenBatch
  <2>2. CASE tx'[s] = tx[s]
    BY <1>1, <2>2 DEF Holds
  <2>3. CASE tx'[s] # tx[s]
    <3>1. \/ \E r \in Request : Start(s, r)
          \/ Step(s) \/ Rollback(s) \/ DeadlockVictim(s)
      <4>1. ~UNCHANGED vars
        BY <2>3 DEF vars
      <4>2. ASSUME NEW t \in Session, t # s PROVE ~Step(t)
        BY <1>1, <2>3, <4>2 DEF Step, PatchLoad, PatchFlush, SweepSelect,
           CountProducts, SweepClose, AddCheckBatch, AddCheckCodes, AddInsert,
           AggregateCheckBatch, AggregateCheckCodes, AggregateUpdate, Commit,
           FailGroup, NextGroup, End, WorkInv, IInv, TypeOK
      <4>3. ASSUME NEW t \in Session, t # s
            PROVE  ~Rollback(t) /\ ~DeadlockVictim(t) /\ ~ \E r \in Request : Start(t, r)
        BY <1>1, <2>3, <4>3 DEF Rollback, DeadlockVictim, Start, End, WorkInv, IInv,
           TypeOK
      <4>4. ~ \E d \in Batch, closed \in BOOLEAN : CreateBatch(d, closed)
        BY <2>3 DEF CreateBatch
      <4>5. ~ \E d \in Batch : ShiftEnds(d)
        BY <2>3 DEF ShiftEnds
      <4> QED
        BY <1>1, <4>1, <4>2, <4>3, <4>4, <4>5 DEF Next
    <3>2. ASSUME NEW r \in Request, Start(s, r) PROVE FALSE
      <4>1. tx'[s].targets = {} /\ tx'[s].aggs = {}
        BY <1>1, <3>2 DEF Start, WorkInv, IInv, TypeOK, IdleTx
      <4> QED
        BY <1>1, <4>1 DEF Holds
    <3>3. CASE Rollback(s) \/ DeadlockVictim(s)
      BY <1>1, <3>3, EndHolds DEF Rollback, DeadlockVictim
    <3> QED
      BY <1>1, <2>1, <3>1, <3>2, <3>3, StepHolds
  <2> QED
    BY <2>2, <2>3
<1>2. ASSUME NEW b \in Batch
      PROVE  /\ Holders(b) = { s \in Session : Holds(s, b) }
             /\ Holders(b)' = { s \in Session : Holds(s, b)' }
  BY DEF Holders, Holds
<1>3. WorkInv /\ [Next]_vars =>
        [\A b \in Batch :
           batch[b] # Absent /\ batch[b].is_closed /\ batch'[b].is_closed =>
              Holders(b)' \subseteq Holders(b)]_vars
  BY <1>1, <1>2
<1> QED
  BY <1>3, WorkInvariance, PTL DEF Spec, ClosedBatchDrains
-----------------------------------------------------------------------------
(* Every session keeps the record of Ledger: what a session that is done   *)
(* is about to commit is what it was asked for.                            *)

\* What the groups of a request, or of the rest of it, hold.
Held(groups) == UNION { groups[i] : i \in DOMAIN groups }

\* A session at work was asked for something; only PATCH and sweep count.
AskedOK(s) ==
    LET t == tx[s] IN
    /\ t.pc # "idle" => t.req \in Request
    /\ t.stats # {} => t.req.op \in {"patch", "sweep"}

\* A session counts only in batches that it has found, for the sweep batches whose
\* shift has ended; one that is done and has counted closes, and one that sets
\* is_closed sets it in all that it has found.
ClosingOK(s) ==
    LET t == tx[s]
        closes == "is_closed" \in t.upd.cols /\ t.upd.row.is_closed
    IN /\ t.pc \in {"start", "loaded"} => t.stats = {} /\ t.upd = NoUpdate
       /\ t.req.op = "patch" /\ t.pc # "start" => t.targets = {t.req.batch}
       /\ t.req.op = "sweep" => t.targets \subseteq ended
       /\ { e.batch : e \in t.stats } \subseteq t.targets
       /\ t.pc = "counting" => (t.req.op = "patch" => closes)
       /\ t.pc = "done" /\ t.stats # {} => closes
       /\ "is_closed" \in t.upd.cols => t.locks = t.targets

\* What is inserted and what is left are the items of the request, and their
\* batches have all been checked before the first one is inserted.
AddingOK(s) ==
    LET t == tx[s] IN
    t.req.op = "add" =>
       /\ t.ins \cup Held(t.todo) = DOMAIN t.req.items
       /\ t.pc = "done" => t.todo = <<>>
       /\ t.pc \in {"checked", "writing", "done"} =>
            \A c \in DOMAIN t.req.items : t.req.items[c] \in t.targets

\* What is aggregated was asked for and belongs to the batch of the request; the
\* HTTP aggregation has one group, of all its codes, and is done with all or none.
AggregatingOK(s) ==
    LET t == tx[s]
        codes == Held(t.req.groups)
    IN t.req.op = "aggregate" =>
       /\ t.aggs \subseteq ProductsOf(t.req.batch)
       /\ t.pc = "writing" => Head(t.todo) \subseteq ProductsOf(t.req.batch)
       /\ t.aggs \cup Held(t.todo) \subseteq codes
       /\ t.req.strict => IF t.pc = "done" THEN codes \subseteq t.aggs
                          ELSE Len(t.todo) = 1 /\ Head(t.todo) = codes

RecordOK(s) == AskedOK(s) /\ ClosingOK(s) /\ AddingOK(s) /\ AggregatingOK(s)

RecordInv == WorkInv /\ \A s \in Session : RecordOK(s)

\* The first group, and the others.
LEMMA HeadHeld ==
    ASSUME NEW S, NEW q \in Seq(S), q # <<>>
    PROVE  Held(q) = Head(q) \cup Held(Tail(q))
<1>1. /\ Len(q) \in Nat /\ 1 \in 1 .. Len(q) /\ DOMAIN q = 1 .. Len(q)
      /\ Head(q) = q[1] /\ DOMAIN Tail(q) = 1 .. Len(q) - 1
      /\ \A i \in 1 .. Len(q) - 1 : Tail(q)[i] = q[i + 1]
  OBVIOUS
<1>2. ASSUME NEW i \in DOMAIN q PROVE q[i] \subseteq Head(q) \cup Held(Tail(q))
  <2>1. CASE i = 1
    BY <1>1, <2>1
  <2>2. CASE i # 1
    <3>1. i - 1 \in DOMAIN Tail(q) /\ Tail(q)[i - 1] = q[i]
      BY <1>1, <2>2
    <3> QED BY <3>1 DEF Held
  <2> QED BY <2>1, <2>2
<1>3. ASSUME NEW i \in DOMAIN Tail(q) PROVE Tail(q)[i] \subseteq Held(q)
  <2>1. i + 1 \in DOMAIN q /\ Tail(q)[i] = q[i + 1]
    BY <1>1
  <2> QED BY <2>1 DEF Held
<1>4. Head(q) \subseteq Held(q)
  BY <1>1 DEF Held
<1>5. Held(q) \subseteq Head(q) \cup Held(Tail(q))
  BY <1>2 DEF Held
<1>6. Held(Tail(q)) \subseteq Held(q)
  BY <1>3 DEF Held
<1> QED BY <1>4, <1>5, <1>6

\* What a request to add or to aggregate is divided into.
LEMMA AddGroups ==
    ASSUME NEW r \in Add
    PROVE  Held(r.groups) = DOMAIN r.items
<1>1. PICK f \in UNION { [C -> Batch] : C \in (SUBSET Code) \ {{}} } :
        r \in [op : {"add"}, items : {f}, groups : FlushOrders(f)]
  BY DEF Add
<1>2. r.items = f /\ r.groups \in FlushOrders(f)
  BY <1>1
<1> QED BY <1>2 DEF FlushOrders, Held

LEMMA StrictGroups ==
    ASSUME NEW r \in Aggregate, r.strict
    PROVE  Len(r.groups) = 1 /\ Head(r.groups) = Held(r.groups)
<1>1. r \in [op : {"aggregate"}, batch : Batch, strict : {TRUE},
             groups : { <<C>> : C \in (SUBSET Code) \ {{}} }]
  BY DEF Aggregate
<1>2. PICK C \in SUBSET Code : r.groups = <<C>>
  BY <1>1
<1>3. Len(<<C>>) = 1 /\ Head(<<C>>) = C /\ DOMAIN <<C>> = {1} /\ <<C>>[1] = C
  OBVIOUS
<1>4. Held(<<C>>) = C
  BY <1>3 DEF Held
<1> QED BY <1>2, <1>3, <1>4

LEMMA InitRecord == Init => RecordInv
<1> SUFFICES ASSUME Init PROVE RecordInv
  OBVIOUS
<1>1. ASSUME NEW s \in Session PROVE RecordOK(s)
  BY DEF Init, RecordOK, AskedOK, ClosingOK, AddingOK, AggregatingOK, IdleTx, NoUpdate
<1> QED BY <1>1, InitWork DEF RecordInv

-----------------------------------------------------------------------------
(* Steps of a session before its commit.                                   *)

\* A session at work ends, or goes on with its request, and touches no table.
Works(s) ==
    /\ tx[s].pc # "idle" /\ UNCHANGED <<Rows, history>>
    /\ \A t \in Session \ {s} : tx'[t] = tx[t]
    /\ \/ tx'[s] = IdleTx
       \/ tx'[s].req = tx[s].req /\ RecordOK(s)'

LEMMA IdleRecord == ASSUME NEW s \in Session, tx'[s] = IdleTx PROVE RecordOK(s)'
  BY DEF RecordOK, AskedOK, ClosingOK, AddingOK, AggregatingOK, IdleTx, NoUpdate

LEMMA EndWorks ==
    ASSUME RecordInv, NEW s \in Session, UNCHANGED <<Rows, history>>, End(s),
           tx[s].pc # "idle"
    PROVE  Works(s)
  BY DEF End, Works, RecordInv, WorkInv, IInv, TypeOK

\* What holds of a session.
LEMMA RecordFacts ==
    ASSUME RecordInv, NEW s \in Session
    PROVE  /\ tx[s] \in Tx /\ PhaseOK(s) /\ WritesOK(s) /\ WorkOK(s)
           /\ AskedOK(s) /\ ClosingOK(s) /\ AddingOK(s) /\ AggregatingOK(s)
  BY DEF RecordInv, RecordOK, WorkInv, IInv, TypeOK, SessionOK

LEMMA PatchLoadRecord ==
    ASSUME RecordInv, NEW s \in Session, PatchLoad(s) PROVE Works(s)
<1> DEFINE b == tx[s].req.batch
<1>1. /\ tx[s] \in Tx /\ tx[s].req.op = "patch" /\ tx[s].pc = "start"
      /\ UNCHANGED <<Rows, history>> /\ AskedOK(s) /\ ClosingOK(s)
  BY RecordFacts DEF PatchLoad, At
<1>2. CASE batch[b] = Absent
  BY <1>1, <1>2, EndWorks DEF PatchLoad
<1>3. CASE batch[b] # Absent
  <2>1. tx' = [tx EXCEPT ![s].pc = "loaded", ![s].seen = batch[b],
                         ![s].targets = {b}]
    BY <1>3 DEF PatchLoad
  <2>2. /\ \A t \in Session \ {s} : tx'[t] = tx[t]
        /\ tx'[s].req = tx[s].req /\ tx'[s].pc = "loaded" /\ tx'[s].targets = {b}
        /\ tx'[s].upd = tx[s].upd /\ tx'[s].stats = tx[s].stats
    BY <1>1, <2>1 DEF RecordInv, WorkInv, IInv, TypeOK, Tx
  <2>3. AskedOK(s)' /\ AddingOK(s)' /\ AggregatingOK(s)'
    BY <1>1, <2>2 DEF AskedOK, AddingOK, AggregatingOK
  <2>4. ClosingOK(s)'
    BY <1>1, <2>2 DEF ClosingOK, NoUpdate
  <2> QED BY <1>1, <2>2, <2>3, <2>4 DEF Works, RecordOK
<1> QED BY <1>2, <1>3

LEMMA PatchFlushRecord ==
    ASSUME RecordInv, NEW s \in Session, PatchFlush(s) PROVE Works(s)
<1> DEFINE r == tx[s].req
           u == PatchUpdate(r.want, tx[s].seen)
           B == IF u.cols # {} \/ r.edit THEN {r.batch} ELSE {}
           p == IF r.want = "close" /\ ~tx[s].seen.is_closed
                THEN "counting" ELSE "done"
<1>1. /\ tx[s] \in Tx /\ r.op = "patch" /\ tx[s].pc = "loaded"
      /\ UNCHANGED <<Rows, history>> /\ AskedOK(s) /\ ClosingOK(s)
  BY RecordFacts DEF PatchFlush, At
<1>2. /\ p = "counting" => "is_closed" \in u.cols /\ u.row.is_closed
      /\ "is_closed" \in u.cols => B = {r.batch}
  BY DEF PatchUpdate, ClosedRow
<1> HIDE DEF u, B
<1>3. tx' = [tx EXCEPT ![s].pc = p, ![s].locks = B, ![s].upd = u]
  BY DEF PatchFlush, u, B
<1>4. /\ \A t \in Session \ {s} : tx'[t] = tx[t]
      /\ tx'[s].req = r /\ tx'[s].pc = p /\ tx'[s].targets = tx[s].targets
      /\ tx'[s].upd = u /\ tx'[s].stats = tx[s].stats /\ tx'[s].locks = B
  BY <1>1, <1>3 DEF RecordInv, WorkInv, IInv, TypeOK, Tx
<1>5. AskedOK(s)' /\ AddingOK(s)' /\ AggregatingOK(s)'
  BY <1>1, <1>4 DEF AskedOK, AddingOK, AggregatingOK
<1>6. ClosingOK(s)'
  BY <1>1, <1>2, <1>4 DEF ClosingOK
<1> QED BY <1>1, <1>4, <1>5, <1>6 DEF Works, RecordOK

LEMMA SweepSelectRecord ==
    ASSUME RecordInv, NEW s \in Session, SweepSelect(s) PROVE Works(s)
<1> DEFINE B == { b \in ended : batch[b] # Absent /\ ~batch[b].is_closed }
<1>1. /\ tx[s] \in Tx /\ tx[s].req.op = "sweep" /\ tx[s].pc = "start"
      /\ UNCHANGED <<Rows, history>> /\ AskedOK(s) /\ ClosingOK(s)
  BY RecordFacts DEF SweepSelect, At
<1>2. CASE B = {}
  BY <1>1, <1>2, EndWorks DEF SweepSelect
<1>3. CASE B # {}
  <2>1. tx' = [tx EXCEPT ![s].pc = "counting", ![s].targets = B]
    BY <1>3 DEF SweepSelect
  <2>2. B \subseteq ended /\ ended' = ended
    BY <1>1 DEF Rows
  <2> HIDE DEF B
  <2>3. /\ \A t \in Session \ {s} : tx'[t] = tx[t]
        /\ tx'[s].req = tx[s].req /\ tx'[s].pc = "counting" /\ tx'[s].targets = B
        /\ tx'[s].upd = tx[s].upd /\ tx'[s].stats = tx[s].stats
    BY <1>1, <2>1 DEF RecordInv, WorkInv, IInv, TypeOK, Tx
  <2>4. AskedOK(s)' /\ AddingOK(s)' /\ AggregatingOK(s)'
    BY <1>1, <2>3 DEF AskedOK, AddingOK, AggregatingOK
  <2>5. ClosingOK(s)'
    BY <1>1, <2>2, <2>3 DEF ClosingOK, NoUpdate
  <2> QED BY <1>1, <2>3, <2>4, <2>5 DEF Works, RecordOK
<1> QED BY <1>2, <1>3

LEMMA CountProductsRecord ==
    ASSUME RecordInv, NEW s \in Session, CountProducts(s) PROVE Works(s)
<1>1. /\ tx[s] \in Tx /\ tx[s].pc = "counting" /\ tx[s].req.op \in {"patch", "sweep"}
      /\ UNCHANGED <<Rows, history>> /\ AskedOK(s) /\ ClosingOK(s)
  BY RecordFacts DEF CountProducts, PhaseOK
<1>2. PICK b \in tx[s].targets \ { e.batch : e \in tx[s].stats } :
        LET all == tx[s].targets \subseteq {b} \cup { e.batch : e \in tx[s].stats }
        IN tx' = [tx EXCEPT
                    ![s].stats = @ \cup {BatchStats(b)},
                    ![s].pc = CASE ~all -> "counting"
                                [] all /\ tx[s].req.op = "sweep" -> "closing"
                                [] all /\ tx[s].req.op = "patch" -> "done"]
  BY DEF CountProducts
<1> DEFINE all == tx[s].targets \subseteq {b} \cup { e.batch : e \in tx[s].stats }
           p == CASE ~all -> "counting"
                  [] all /\ tx[s].req.op = "sweep" -> "closing"
                  [] all /\ tx[s].req.op = "patch" -> "done"
<1>3. \/ p \in {"counting", "closing"}
      \/ p = "done" /\ tx[s].req.op = "patch"
  BY <1>1
<1>4. p = "counting" \/ tx[s].req.op = "sweep" \/ p = "done"
  BY <1>1
<1> HIDE DEF all, p
<1>5. tx' = [tx EXCEPT ![s].stats = @ \cup {BatchStats(b)}, ![s].pc = p]
  BY <1>2 DEF all, p
<1>6. /\ \A t \in Session \ {s} : tx'[t] = tx[t]
      /\ tx'[s].req = tx[s].req /\ tx'[s].pc = p /\ tx'[s].targets = tx[s].targets
      /\ tx'[s].upd = tx[s].upd /\ tx'[s].stats = tx[s].stats \cup {BatchStats(b)}
      /\ tx'[s].locks = tx[s].locks
  BY <1>1, <1>5 DEF RecordInv, WorkInv, IInv, TypeOK, Tx
<1>7. AskedOK(s)' /\ AddingOK(s)' /\ AggregatingOK(s)'
  BY <1>1, <1>6 DEF AskedOK, AddingOK, AggregatingOK
<1>8. { e.batch : e \in tx'[s].stats } \subseteq tx'[s].targets
  <2>1. BatchStats(b).batch = b
    BY DEF BatchStats
  <2> QED BY <1>1, <1>6, <2>1 DEF ClosingOK
<1>9. ended' = ended
  BY <1>1 DEF Rows
<1>10. ClosingOK(s)'
  BY <1>1, <1>3, <1>6, <1>8, <1>9 DEF ClosingOK
<1> QED BY <1>1, <1>6, <1>7, <1>10 DEF Works, RecordOK

LEMMA SweepCloseRecord ==
    ASSUME RecordInv, NEW s \in Session, SweepClose(s) PROVE Works(s)
<1> DEFINE u == [cols |-> {"is_closed", "closed_at"}, row |-> ClosedRow]
<1>1. /\ tx[s] \in Tx /\ tx[s].req.op = "sweep" /\ tx[s].pc = "closing"
      /\ UNCHANGED <<Rows, history>> /\ AskedOK(s) /\ ClosingOK(s) /\ ended' = ended
  BY RecordFacts DEF SweepClose, At, Rows
<1>2. "is_closed" \in u.cols /\ u.row.is_closed
  BY DEF ClosedRow
<1> HIDE DEF u
<1>3. tx' = [tx EXCEPT ![s].pc = "done", ![s].locks = tx[s].targets, ![s].upd = u]
  BY DEF SweepClose, u
<1>4. /\ \A t \in Session \ {s} : tx'[t] = tx[t]
      /\ tx'[s].req = tx[s].req /\ tx'[s].pc = "done"
      /\ tx'[s].targets = tx[s].targets /\ tx'[s].locks = tx[s].targets
      /\ tx'[s].upd = u /\ tx'[s].stats = tx[s].stats
  BY <1>1, <1>3 DEF RecordInv, WorkInv, IInv, TypeOK, Tx
<1>5. AskedOK(s)' /\ AddingOK(s)' /\ AggregatingOK(s)'
  BY <1>1, <1>4 DEF AskedOK, AddingOK, AggregatingOK
<1>6. ClosingOK(s)'
  BY <1>1, <1>2, <1>4 DEF ClosingOK
<1> QED BY <1>1, <1>4, <1>5, <1>6 DEF Works, RecordOK

\* Fewer facts for the sessions that write products: they close nothing.
LEMMA NoClosing ==
    ASSUME RecordInv, NEW s \in Session, tx[s].req.op \in {"add", "aggregate"},
           tx'[s].req = tx[s].req, tx'[s].stats = tx[s].stats,
           tx'[s].upd = tx[s].upd,
           tx'[s].pc \in {"checking", "checked", "writing", "done"}
    PROVE  AskedOK(s)' /\ ClosingOK(s)'
<1>1. tx[s].stats = {} /\ "is_closed" \notin tx[s].upd.cols
  BY RecordFacts DEF AskedOK, WorkOK, Asked
<1>2. tx[s].req \in Request
  BY RecordFacts DEF Tx
<1> QED BY <1>1, <1>2 DEF AskedOK, ClosingOK

LEMMA AddCheckBatchRecord ==
    ASSUME RecordInv, NEW s \in Session, AddCheckBatch(s) PROVE Works(s)
<1> DEFINE B == { tx[s].req.items[c] : c \in DOMAIN tx[s].req.items }
<1>1. /\ tx[s] \in Tx /\ tx[s].req.op = "add" /\ tx[s].pc = "checking"
      /\ UNCHANGED <<Rows, history>> /\ AddingOK(s)
  BY RecordFacts DEF AddCheckBatch, At
<1>2. PICK b \in B \ tx[s].targets :
        IF OpenBatch(b)
        THEN tx' = [tx EXCEPT ![s].targets = @ \cup {b},
                              ![s].pc = IF B \subseteq tx[s].targets \cup {b}
                                        THEN "checked" ELSE "checking"]
        ELSE End(s)
  BY DEF AddCheckBatch
<1>3. CASE ~OpenBatch(b)
  BY <1>1, <1>2, <1>3, EndWorks
<1>4. CASE OpenBatch(b)
  <2> DEFINE p == IF B \subseteq tx[s].targets \cup {b} THEN "checked" ELSE "checking"
  <2>1. p = "checked" => \A c \in DOMAIN tx[s].req.items :
                            tx[s].req.items[c] \in tx[s].targets \cup {b}
    OBVIOUS
  <2>2. p \in {"checked", "checking"}
    OBVIOUS
  <2> HIDE DEF B, p
  <2>3. tx' = [tx EXCEPT ![s].targets = @ \cup {b}, ![s].pc = p]
    BY <1>2, <1>4 DEF p
  <2>4. /\ \A t \in Session \ {s} : tx'[t] = tx[t]
        /\ tx'[s].req = tx[s].req /\ tx'[s].pc = p
        /\ tx'[s].targets = tx[s].targets \cup {b} /\ tx'[s].todo = tx[s].todo
        /\ tx'[s].upd = tx[s].upd /\ tx'[s].stats = tx[s].stats
        /\ tx'[s].ins = tx[s].ins
    BY <1>1, <2>3 DEF RecordInv, WorkInv, IInv, TypeOK, Tx
  <2>5. AskedOK(s)' /\ ClosingOK(s)'
    BY <1>1, <2>2, <2>4, NoClosing
  <2>6. AddingOK(s)' /\ AggregatingOK(s)'
    BY <1>1, <2>1, <2>2, <2>4 DEF AddingOK, AggregatingOK
  <2> QED BY <1>1, <2>4, <2>5, <2>6 DEF Works, RecordOK
<1> QED BY <1>3, <1>4

LEMMA AddCheckCodesRecord ==
    ASSUME RecordInv, NEW s \in Session, AddCheckCodes(s) PROVE Works(s)
<1>1. /\ tx[s] \in Tx /\ tx[s].req.op = "add" /\ tx[s].pc = "checked"
      /\ UNCHANGED <<Rows, history>> /\ AddingOK(s)
  BY RecordFacts DEF AddCheckCodes, At
<1>2. CASE End(s)
  BY <1>1, <1>2, EndWorks
<1>3. CASE tx' = [tx EXCEPT ![s].pc = "writing"]
  <2>1. /\ \A t \in Session \ {s} : tx'[t] = tx[t]
        /\ tx'[s].req = tx[s].req /\ tx'[s].pc = "writing"
        /\ tx'[s].targets = tx[s].targets /\ tx'[s].todo = tx[s].todo
        /\ tx'[s].upd = tx[s].upd /\ tx'[s].stats = tx[s].stats
        /\ tx'[s].ins = tx[s].ins
    BY <1>1, <1>3 DEF RecordInv, WorkInv, IInv, TypeOK, Tx
  <2>2. AskedOK(s)' /\ ClosingOK(s)'
    BY <1>1, <2>1, NoClosing
  <2>3. AddingOK(s)' /\ AggregatingOK(s)'
    BY <1>1, <2>1 DEF AddingOK, AggregatingOK
  <2> QED BY <1>1, <2>1, <2>2, <2>3 DEF Works, RecordOK
<1> QED BY <1>2, <1>3 DEF AddCheckCodes

\* The last group is followed by nothing.
LEMMA LastGroup ==
    ASSUME NEW S, NEW q \in Seq(S), Len(q) = 1
    PROVE  Tail(q) = <<>>
<1>1. Tail(q) \in Seq(S) /\ Len(Tail(q)) = 0
  OBVIOUS
<1>2. \A t \in Seq(S) : Len(t) = 0 => t = <<>>
  OBVIOUS
<1> QED BY <1>1, <1>2

LEMMA AddInsertRecord ==
    ASSUME RecordInv, NEW s \in Session, AddInsert(s) PROVE Works(s)
<1> DEFINE g == Head(tx[s].todo)
           rest == Tail(tx[s].todo)
           p == IF Len(tx[s].todo) = 1 THEN "done" ELSE "writing"
<1>1. /\ tx[s] \in Tx /\ tx[s].req.op = "add" /\ tx[s].pc = "writing"
      /\ UNCHANGED <<Rows, history>> /\ AddingOK(s)
      /\ tx[s].todo \in Seq(SUBSET Code) /\ tx[s].todo # <<>>
  BY RecordFacts DEF AddInsert, At, PhaseOK, Tx
<1>2. CASE \E c \in g : product[c] # Absent
  BY <1>1, <1>2, EndWorks DEF AddInsert
<1>3. CASE ~ \E c \in g : product[c] # Absent
  <2>1. tx' = [tx EXCEPT ![s].ins = @ \cup g, ![s].todo = rest, ![s].pc = p]
    BY <1>3 DEF AddInsert
  <2>2. /\ Held(tx[s].todo) = g \cup Held(rest) /\ p \in {"done", "writing"}
        /\ p = "done" => rest = <<>>
    BY <1>1, HeadHeld, LastGroup
  <2> HIDE DEF g, rest, p
  <2>3. /\ \A t \in Session \ {s} : tx'[t] = tx[t]
        /\ tx'[s].req = tx[s].req /\ tx'[s].pc = p
        /\ tx'[s].targets = tx[s].targets /\ tx'[s].todo = rest
        /\ tx'[s].upd = tx[s].upd /\ tx'[s].stats = tx[s].stats
        /\ tx'[s].ins = tx[s].ins \cup g
    BY <1>1, <2>1 DEF RecordInv, WorkInv, IInv, TypeOK, Tx
  <2>4. AskedOK(s)' /\ ClosingOK(s)'
    BY <1>1, <2>2, <2>3, NoClosing
  <2>5. AddingOK(s)' /\ AggregatingOK(s)'
    BY <1>1, <2>2, <2>3 DEF AddingOK, AggregatingOK
  <2> QED BY <1>1, <2>3, <2>4, <2>5 DEF Works, RecordOK
<1> QED BY <1>2, <1>3

\* What the steps of an aggregation start from.
LEMMA AggregateRecordFacts ==
    ASSUME RecordInv, NEW s \in Session, tx[s].req.op = "aggregate",
           tx[s].pc \in {"checking", "checked", "writing"}
    PROVE  /\ tx[s] \in Tx /\ AggregatingOK(s)
           /\ Held(tx[s].todo) = Head(tx[s].todo) \cup Held(Tail(tx[s].todo))
<1>1. tx[s] \in Tx /\ AggregatingOK(s) /\ PhaseOK(s)
  BY RecordFacts
<1>2. tx[s].todo \in Seq(SUBSET Code) /\ tx[s].todo # <<>>
  BY <1>1 DEF Tx, PhaseOK
<1> QED BY <1>1, <1>2, HeadHeld

LEMMA NextGroupRecord ==
    ASSUME RecordInv, NEW s \in Session, NEW aggs, NextGroup(s, aggs),
           tx[s].req.op = "aggregate",
           tx[s].pc \in {"checking", "checked", "writing"},
           UNCHANGED <<Rows, history>>,
           aggs \subseteq ProductsOf(tx[s].req.batch),
           aggs \subseteq tx[s].aggs \cup Head(tx[s].todo),
           tx[s].req.strict => Head(tx[s].todo) \subseteq aggs
    PROVE  Works(s)
<1> DEFINE p == IF Len(tx[s].todo) = 1 THEN "done" ELSE "checking"
           rest == Tail(tx[s].todo)
<1>1. /\ tx[s] \in Tx /\ AggregatingOK(s)
      /\ Held(tx[s].todo) = Head(tx[s].todo) \cup Held(rest)
  BY AggregateRecordFacts
<1>2. /\ p \in {"done", "checking"}
      /\ tx[s].req.strict => p = "done" /\ Head(tx[s].todo) = Held(tx[s].req.groups)
  BY <1>1 DEF AggregatingOK
<1>3. tx' = [tx EXCEPT ![s].pc = p, ![s].targets = {}, ![s].todo = rest,
                       ![s].aggs = aggs]
  BY DEF NextGroup
<1> HIDE DEF p, rest
<1>4. /\ \A t \in Session \ {s} : tx'[t] = tx[t]
      /\ tx'[s].req = tx[s].req /\ tx'[s].pc = p /\ tx'[s].todo = rest
      /\ tx'[s].upd = tx[s].upd /\ tx'[s].stats = tx[s].stats
      /\ tx'[s].aggs = aggs
  BY <1>1, <1>3 DEF RecordInv, WorkInv, IInv, TypeOK, Tx
<1>5. AskedOK(s)' /\ ClosingOK(s)'
  BY <1>1, <1>2, <1>4, NoClosing
<1>6. \A b : ProductsOf(b)' = ProductsOf(b)
  BY DEF ProductsOf, Rows
<1>7. AddingOK(s)' /\ AggregatingOK(s)'
  BY <1>1, <1>2, <1>4, <1>6 DEF AddingOK, AggregatingOK
<1> QED BY <1>4, <1>5, <1>7 DEF Works, RecordOK

LEMMA FailGroupRecord ==
    ASSUME RecordInv, NEW s \in Session, FailGroup(s), tx[s].req.op = "aggregate",
           tx[s].pc \in {"checking", "checked", "writing"},
           UNCHANGED <<Rows, history>>
    PROVE  Works(s)
<1>1. tx[s].aggs \subseteq ProductsOf(tx[s].req.batch)
  BY AggregateRecordFacts DEF AggregatingOK
<1> QED BY <1>1, EndWorks, NextGroupRecord DEF FailGroup

LEMMA AggregateCheckBatchRecord ==
    ASSUME RecordInv, NEW s \in Session, AggregateCheckBatch(s) PROVE Works(s)
<1> DEFINE b == tx[s].req.batch
<1>1. /\ tx[s].req.op = "aggregate" /\ tx[s].pc = "checking"
      /\ UNCHANGED <<Rows, history>>
  BY DEF AggregateCheckBatch, At
<1>2. tx[s] \in Tx /\ AggregatingOK(s)
  BY <1>1, AggregateRecordFacts
<1>3. CASE ~OpenBatch(b)
  BY <1>1, <1>3, FailGroupRecord DEF AggregateCheckBatch
<1>4. CASE OpenBatch(b)
  <2>1. tx' = [tx EXCEPT ![s].pc = "checked", ![s].targets = {b}]
    BY <1>4 DEF AggregateCheckBatch
  <2>2. /\ \A t \in Session \ {s} : tx'[t] = tx[t]
        /\ tx'[s].req = tx[s].req /\ tx'[s].pc = "checked"
        /\ tx'[s].todo = tx[s].todo /\ tx'[s].aggs = tx[s].aggs
        /\ tx'[s].upd = tx[s].upd /\ tx'[s].stats = tx[s].stats
    BY <1>2, <2>1 DEF RecordInv, WorkInv, IInv, TypeOK, Tx
  <2>3. AskedOK(s)' /\ ClosingOK(s)'
    BY <1>1, <2>2, NoClosing
  <2>4. \A d : ProductsOf(d)' = ProductsOf(d)
    BY <1>1 DEF ProductsOf, Rows
  <2>5. AddingOK(s)' /\ AggregatingOK(s)'
    BY <1>1, <1>2, <2>2, <2>4 DEF AddingOK, AggregatingOK
  <2> QED BY <1>1, <2>2, <2>3, <2>5 DEF Works, RecordOK
<1> QED BY <1>3, <1>4

LEMMA AggregateCheckCodesRecord ==
    ASSUME RecordInv, NEW s \in Session, AggregateCheckCodes(s) PROVE Works(s)
<1>1. /\ tx[s].req.op = "aggregate" /\ tx[s].pc = "checked"
      /\ UNCHANGED <<Rows, history>>
  BY DEF AggregateCheckCodes, At
<1>2. tx[s] \in Tx /\ AggregatingOK(s)
  BY <1>1, AggregateRecordFacts
<1>3. CASE ~Aggregable(s)
  BY <1>1, <1>3, FailGroupRecord DEF AggregateCheckCodes
<1>4. CASE Aggregable(s)
  <2>1. /\ tx' = [tx EXCEPT ![s].pc = "writing"]
        /\ Head(tx[s].todo) \subseteq ProductsOf(tx[s].req.batch)
    BY <1>4 DEF AggregateCheckCodes, Aggregable
  <2>2. /\ \A t \in Session \ {s} : tx'[t] = tx[t]
        /\ tx'[s].req = tx[s].req /\ tx'[s].pc = "writing"
        /\ tx'[s].todo = tx[s].todo /\ tx'[s].aggs = tx[s].aggs
        /\ tx'[s].upd = tx[s].upd /\ tx'[s].stats = tx[s].stats
    BY <1>2, <2>1 DEF RecordInv, WorkInv, IInv, TypeOK, Tx
  <2>3. AskedOK(s)' /\ ClosingOK(s)'
    BY <1>1, <2>2, NoClosing
  <2>4. \A d : ProductsOf(d)' = ProductsOf(d)
    BY <1>1 DEF ProductsOf, Rows
  <2>5. AddingOK(s)' /\ AggregatingOK(s)'
    BY <1>1, <1>2, <2>1, <2>2, <2>4 DEF AddingOK, AggregatingOK
  <2> QED BY <1>1, <2>2, <2>3, <2>5 DEF Works, RecordOK
<1> QED BY <1>3, <1>4

LEMMA AggregateUpdateRecord ==
    ASSUME RecordInv, NEW s \in Session, AggregateUpdate(s) PROVE Works(s)
<1>1. /\ tx[s].req.op = "aggregate" /\ tx[s].pc = "writing"
      /\ UNCHANGED <<Rows, history>>
  BY DEF AggregateUpdate, At
<1>2. PICK c \in Head(tx[s].todo) \ tx[s].aggs :
        IF Head(tx[s].todo) \subseteq tx[s].aggs \cup {c}
        THEN NextGroup(s, tx[s].aggs \cup {c})
        ELSE tx' = [tx EXCEPT ![s].aggs = @ \cup {c}]
  BY DEF AggregateUpdate
<1> DEFINE aggs == tx[s].aggs \cup {c}
<1>3. /\ tx[s] \in Tx /\ AggregatingOK(s)
      /\ Held(tx[s].todo) = Head(tx[s].todo) \cup Held(Tail(tx[s].todo))
  BY <1>1, AggregateRecordFacts
<1>4. /\ aggs \subseteq ProductsOf(tx[s].req.batch)
      /\ aggs \subseteq tx[s].aggs \cup Head(tx[s].todo)
  BY <1>1, <1>3 DEF AggregatingOK
<1>5. CASE Head(tx[s].todo) \subseteq aggs
  BY <1>1, <1>2, <1>4, <1>5, NextGroupRecord
<1>6. CASE ~(Head(tx[s].todo) \subseteq aggs)
  <2>1. tx' = [tx EXCEPT ![s].aggs = aggs]
    BY <1>2, <1>6
  <2> HIDE DEF aggs
  <2>2. /\ \A t \in Session \ {s} : tx'[t] = tx[t]
        /\ tx'[s].req = tx[s].req /\ tx'[s].pc = "writing"
        /\ tx'[s].todo = tx[s].todo /\ tx'[s].aggs = aggs
        /\ tx'[s].upd = tx[s].upd /\ tx'[s].stats = tx[s].stats
    BY <1>1, <1>3, <2>1 DEF RecordInv, WorkInv, IInv, TypeOK, Tx
  <2>3. AskedOK(s)' /\ ClosingOK(s)'
    BY <1>1, <2>2, NoClosing
  <2>4. \A d : ProductsOf(d)' = ProductsOf(d)
    BY <1>1 DEF ProductsOf, Rows
  <2>5. AddingOK(s)' /\ AggregatingOK(s)'
    BY <1>1, <1>3, <1>4, <2>2, <2>4 DEF AddingOK, AggregatingOK
  <2> QED BY <1>1, <2>2, <2>3, <2>5 DEF Works, RecordOK
<1> QED BY <1>5, <1>6

\* A session that is asked begins with all it has to write before it.
LEMMA StartRecord ==
    ASSUME RecordInv, NEW s \in Session, NEW r \in Request, Start(s, r)
    PROVE  /\ \A t \in Session \ {s} : tx'[t] = tx[t]
           /\ tx'[s].req = r /\ RecordOK(s)'
<1> DEFINE groups == IF r.op \in {"patch", "sweep"} THEN <<>> ELSE r.groups
           p == IF r.op \in {"patch", "sweep"} THEN "start" ELSE "checking"
<1>1. /\ p \in {"start", "checking"} /\ (p = "start" <=> r.op \in {"patch", "sweep"})
      /\ r.op = "add" => Held(groups) = DOMAIN r.items
      /\ r.op = "aggregate" =>
           /\ Held(groups) = Held(r.groups)
           /\ r.strict => Len(groups) = 1 /\ Head(groups) = Held(r.groups)
  BY RequestOps, AddGroups, StrictGroups
<1> HIDE DEF groups, p
<1>2. tx' = [tx EXCEPT ![s] =
               [IdleTx EXCEPT !.pc = p, !.req = r, !.todo = groups]]
  BY DEF Start, groups, p
<1>3. /\ \A t \in Session \ {s} : tx'[t] = tx[t]
      /\ tx'[s].pc = p /\ tx'[s].req = r /\ tx'[s].todo = groups
      /\ tx'[s].ins = {} /\ tx'[s].aggs = {} /\ tx'[s].targets = {}
      /\ tx'[s].upd = NoUpdate /\ tx'[s].stats = {}
  BY <1>2 DEF RecordInv, WorkInv, IInv, TypeOK, IdleTx
<1>4. AskedOK(s)' /\ ClosingOK(s)'
  BY <1>1, <1>3 DEF AskedOK, ClosingOK, NoUpdate
<1>5. AddingOK(s)' /\ AggregatingOK(s)'
  BY <1>1, <1>3 DEF AddingOK, AggregatingOK
<1> QED BY <1>3, <1>4, <1>5 DEF RecordOK

-----------------------------------------------------------------------------
(* Every step keeps RecordInv.                                             *)

\* Products stay where they are, and the shifts that have ended have ended.
LEMMA OtherRecord ==
    ASSUME RecordInv, NEW t \in Session, tx'[t] = tx[t], ended \subseteq ended',
           \A b : ProductsOf(b) \subseteq ProductsOf(b)'
    PROVE  RecordOK(t)'
<1>1. AskedOK(t)' /\ ClosingOK(t)'
  BY RecordFacts DEF AskedOK, ClosingOK
<1>2. AddingOK(t)'
  BY RecordFacts DEF AddingOK
<1>3. AggregatingOK(t)'
  <2>1. ProductsOf(tx[t].req.batch) \subseteq ProductsOf(tx[t].req.batch)'
    OBVIOUS
  <2> QED BY <2>1, RecordFacts DEF AggregatingOK
<1> QED BY <1>1, <1>2, <1>3 DEF RecordOK

LEMMA WorksRecord ==
    ASSUME RecordInv, NEW s \in Session, Works(s)
    PROVE  \A t \in Session : RecordOK(t)'
<1>1. ended' = ended /\ \A b : ProductsOf(b)' = ProductsOf(b)
  BY DEF Works, Rows, ProductsOf
<1>2. RecordOK(s)'
  BY IdleRecord DEF Works
<1> QED BY <1>1, <1>2, OtherRecord DEF Works

\* A step other than a commit is work.
LEMMA StepWorks ==
    ASSUME RecordInv, NEW s \in Session, Step(s), ~Commit(s)
    PROVE  Works(s)
  BY PatchLoadRecord, PatchFlushRecord, SweepSelectRecord, CountProductsRecord,
     SweepCloseRecord, AddCheckBatchRecord, AddCheckCodesRecord, AddInsertRecord,
     AggregateCheckBatchRecord, AggregateCheckCodesRecord, AggregateUpdateRecord
  DEF Step

\* A session that fails was at work: one that waits for a row is writing.
LEMMA FailureWorks ==
    ASSUME RecordInv, NEW s \in Session, Rollback(s) \/ DeadlockVictim(s)
    PROVE  Works(s)
<1>1. CASE Rollback(s)
  BY <1>1, EndWorks DEF Rollback
<1>2. CASE DeadlockVictim(s)
  <2>1. PICK u \in Session : WaitsFor(s, u)
    BY <1>2 DEF DeadlockVictim
  <2>2. tx[s].pc # "idle"
    BY <2>1 DEF WaitsFor, At
  <2> QED BY <1>2, <2>2, EndWorks DEF DeadlockVictim
<1> QED BY <1>1, <1>2

\* A commit moves no product from one batch to another.
LEMMA CommitProducts ==
    ASSUME RecordInv, NEW s \in Session, Commit(s), NEW b
    PROVE  ProductsOf(b) \subseteq ProductsOf(b)'
<1> SUFFICES ASSUME NEW c \in ProductsOf(b) PROVE c \in ProductsOf(b)'
  OBVIOUS
<1>1. c \in Code /\ product[c] # Absent /\ product[c].batch_id = b
  BY DEF ProductsOf
<1>2. product'[c] # Absent /\ product'[c].batch_id = b
  BY <1>1, CommitProduct DEF RecordInv
<1> QED BY <1>1, <1>2 DEF ProductsOf

LEMMA NextRecord == RecordInv /\ [Next]_vars => RecordInv'
<1> SUFFICES ASSUME RecordInv, [Next]_vars PROVE \A t \in Session : RecordOK(t)'
  BY NextWork DEF RecordInv
<1>1. ASSUME UNCHANGED <<product, tx>>, ended \subseteq ended'
      PROVE  \A t \in Session : RecordOK(t)'
  <2>1. \A b : ProductsOf(b)' = ProductsOf(b)
    BY <1>1 DEF ProductsOf
  <2> QED BY <1>1, <2>1, OtherRecord
<1>2. CASE UNCHANGED vars
  BY <1>1, <1>2 DEF vars
<1>3. ASSUME NEW b \in Batch, NEW closed \in BOOLEAN, CreateBatch(b, closed)
      PROVE  \A t \in Session : RecordOK(t)'
  BY <1>1, <1>3 DEF CreateBatch
<1>4. ASSUME NEW b \in Batch, ShiftEnds(b) PROVE \A t \in Session : RecordOK(t)'
  BY <1>1, <1>4 DEF ShiftEnds
<1>5. ASSUME NEW s \in Session, NEW r \in Request, Start(s, r)
      PROVE  \A t \in Session : RecordOK(t)'
  <2>1. ended' = ended /\ \A b : ProductsOf(b)' = ProductsOf(b)
    BY <1>5 DEF Start, Rows, ProductsOf
  <2> QED BY <1>5, <2>1, StartRecord, OtherRecord
<1>6. ASSUME NEW s \in Session, Commit(s) PROVE \A t \in Session : RecordOK(t)'
  <2>1. tx'[s] = IdleTx /\ \A t \in Session \ {s} : tx'[t] = tx[t]
    BY <1>6 DEF Commit, End, RecordInv, WorkInv, IInv, TypeOK
  <2>2. ended' = ended
    BY <1>6 DEF Commit
  <2> QED BY <1>6, <2>1, <2>2, CommitProducts, IdleRecord, OtherRecord
<1>7. ASSUME NEW s \in Session, Step(s), ~Commit(s)
      PROVE  \A t \in Session : RecordOK(t)'
  BY <1>7, StepWorks, WorksRecord
<1>8. ASSUME NEW s \in Session, Rollback(s) \/ DeadlockVictim(s)
      PROVE  \A t \in Session : RecordOK(t)'
  BY <1>8, FailureWorks, WorksRecord
<1> QED BY <1>2, <1>3, <1>4, <1>5, <1>6, <1>7, <1>8 DEF Next

-----------------------------------------------------------------------------
(* Every step is one of Ledger, or none.                                   *)

\* What is asked of Ledger, while one session moves.
LEMMA AskedMoves ==
    ASSUME NEW s \in Session, \A t \in Session \ {s} : tx'[t] = tx[t]
    PROVE  [t \in Session |-> tx'[t].req]
               = [[t \in Session |-> tx[t].req] EXCEPT ![s] = tx'[s].req]
  OBVIOUS

\* Whoever is at work was asked for something.
LEMMA AskedSomething ==
    ASSUME RecordInv, NEW s \in Session
    PROVE  tx[s].req = IdleTx.req <=> tx[s].pc = "idle"
<1>1. IdleTx.req.op = "none"
  BY DEF IdleTx
<1>2. tx[s].pc # "idle" => tx[s].req.op # "none"
  BY RecordFacts, RequestOps DEF AskedOK
<1>3. tx[s].pc = "idle" => tx[s] = IdleTx
  BY RecordFacts DEF PhaseOK
<1> QED BY <1>1, <1>2, <1>3

LEMMA EndAnswers ==
    ASSUME RecordInv, NEW s \in Session, tx'[s] = IdleTx,
           \A t \in Session \ {s} : tx'[t] = tx[t], tx[s].pc # "idle", ended' = ended
    PROVE  Record!Answered(s)
<1>1. [t \in Session |-> tx'[t].req]
          = [[t \in Session |-> tx[t].req] EXCEPT ![s] = IdleTx.req]
  BY AskedMoves
<1>2. tx[s].req # IdleTx.req
  BY AskedSomething
<1> QED BY <1>1, <1>2 DEF Record!Answered

\* Work is not seen, and its end without a commit leaves no trace.
LEMMA WorksUnseen ==
    ASSUME RecordInv, NEW s \in Session, Works(s)
    PROVE  Record!GiveUp(s) \/ UNCHANGED Record!ledger
<1>1. /\ UNCHANGED <<batch, product, ended, closeEvents, aggEvents>>
      /\ \A t \in Session \ {s} : tx'[t] = tx[t]
  BY DEF Works, Rows, history
<1>2. [b \in Batch |-> State(b)]' = [b \in Batch |-> State(b)]
  BY <1>1 DEF State
<1>3. CASE tx'[s] = IdleTx
  <2>1. Record!Answered(s)
    BY <1>1, <1>3, EndAnswers DEF Works
  <2> QED BY <1>1, <1>2, <2>1 DEF Record!GiveUp
<1>4. CASE tx'[s].req = tx[s].req
  <2>1. [t \in Session |-> tx'[t].req] = [t \in Session |-> tx[t].req]
    BY <1>1, <1>4
  <2> QED BY <1>1, <1>2, <2>1 DEF Record!ledger
<1> QED BY <1>3, <1>4 DEF Works

LEMMA StartAsks ==
    ASSUME RecordInv, NEW s \in Session, NEW r \in Request, Start(s, r)
    PROVE  Record!Ask(s)
<1>1. tx'[s].req = r /\ \A t \in Session \ {s} : tx'[t] = tx[t]
  BY StartRecord
<1>2. /\ UNCHANGED <<batch, product, ended, closeEvents, aggEvents>>
      /\ tx[s].pc = "idle"
  BY DEF Start, Rows, history
<1>3. [b \in Batch |-> State(b)]' = [b \in Batch |-> State(b)]
  BY <1>2 DEF State
<1>4. [t \in Session |-> tx'[t].req]
          = [[t \in Session |-> tx[t].req] EXCEPT ![s] = tx'[s].req]
  BY <1>1, AskedMoves
<1>5. tx[s].req = IdleTx.req
  BY <1>2, AskedSomething
<1> QED BY <1>1, <1>2, <1>3, <1>4, <1>5 DEF Record!Ask

\* What a commit does to the batches: a locked row becomes what the session has
\* decided, unless that leaves is_closed out.
LEMMA CommitStates ==
    ASSUME RecordInv, NEW s \in Session, Commit(s), NEW b \in Batch
    PROVE  /\ b \in tx[s].locks => State(b) # "none"
           /\ State(b)' = IF b \in tx[s].locks /\ "is_closed" \in tx[s].upd.cols
                          THEN IF tx[s].upd.row.is_closed THEN "closed" ELSE "open"
                          ELSE State(b)
<1>1. /\ tx[s].pc = "done"
      /\ batch' = [d \in Batch |-> IF d \in tx[s].locks
                      THEN ApplyUpdate(batch[d], tx[s].upd) ELSE batch[d]]
  BY DEF Commit
<1>2. CASE b \notin tx[s].locks
  <2>1. batch'[b] = batch[b]
    BY <1>1, <1>2
  <2> QED BY <1>2, <2>1 DEF State
<1>3. CASE b \in tx[s].locks
  <2>1. batch'[b] = ApplyUpdate(batch[b], tx[s].upd)
    BY <1>1, <1>3
  <2>2. batch[b] \in BatchRow /\ batch'[b] \in BatchRow
    BY <1>1, <1>3, <2>1, CommitRows DEF RecordInv, WorkInv
  <2>3. batch[b] # Absent /\ batch'[b] # Absent
    BY <2>2, AbsentAssumption
  <2>4. batch'[b].is_closed = IF "is_closed" \in tx[s].upd.cols
                              THEN tx[s].upd.row.is_closed ELSE batch[b].is_closed
    BY <2>1 DEF ApplyUpdate
  <2> QED BY <1>3, <2>3, <2>4 DEF State
<1> QED BY <1>2, <1>3

\* What else a commit does.
LEMMA CommitFacts ==
    ASSUME RecordInv, NEW s \in Session, Commit(s)
    PROVE  /\ Record!Answered(s)
           /\ product' = [c \in Code |->
                CASE c \in tx[s].ins ->
                       [batch_id |-> tx[s].req.items[c], is_aggregated |-> FALSE]
                  [] c \in tx[s].aggs -> [product[c] EXCEPT !.is_aggregated = TRUE]
                  [] OTHER -> product[c]]
           /\ closeEvents' = [b \in Batch |-> closeEvents[b] +
                                IF \E e \in tx[s].stats : e.batch = b THEN 1 ELSE 0]
           /\ aggEvents' = [c \in Code |-> aggEvents[c] +
                              IF c \in tx[s].aggs THEN 1 ELSE 0]
           /\ product = [c \in Code |-> product[c]]
           /\ closeEvents = [b \in Batch |-> closeEvents[b] + 0]
           /\ aggEvents = [c \in Code |-> aggEvents[c] + 0]
<1>1. TypeOK
  BY DEF RecordInv, WorkInv, IInv
<1>2. /\ tx'[s] = IdleTx /\ \A t \in Session \ {s} : tx'[t] = tx[t]
      /\ tx[s].pc # "idle" /\ ended' = ended
  BY <1>1 DEF Commit, End, TypeOK
<1>3. Record!Answered(s)
  BY <1>2, EndAnswers
<1>4. /\ product = [c \in Code |-> product[c]]
      /\ closeEvents = [b \in Batch |-> closeEvents[b] + 0]
      /\ aggEvents = [c \in Code |-> aggEvents[c] + 0]
  BY <1>1 DEF TypeOK
<1> QED BY <1>3, <1>4 DEF Commit

\* A PATCH or a sweep that is done closes or reopens what it was asked to, or has
\* found nothing to change.
LEMMA CloserPerforms ==
    ASSUME RecordInv, NEW s \in Session, Commit(s),
           tx[s].req.op \in {"patch", "sweep"}
    PROVE  Record!Perform(s) \/ Record!GiveUp(s)
<1> DEFINE u == tx[s].upd
           B == tx[s].locks
           news(b) == \E e \in tx[s].stats : e.batch = b
<1>1. /\ tx[s].pc = "done" /\ tx[s] \in Tx /\ WritesOK(s) /\ WorkOK(s) /\ ClosingOK(s)
      /\ EventsOK(s)
  BY RecordFacts DEF Commit, RecordInv, WorkInv, IInv, SessionOK
<1>2. tx[s].ins = {} /\ tx[s].aggs = {}
  BY <1>1 DEF WritesOK, WorkOK
<1>3. product' = product /\ aggEvents' = aggEvents
  BY <1>2, CommitFacts
<1>4. B \subseteq Batch
  BY <1>1 DEF Tx
<1>5. [t \in Session |-> tx[t].req][s] = tx[s].req
  OBVIOUS
<1>6. CASE "is_closed" \notin u.cols
  <2>1. [b \in Batch |-> State(b)]' = [b \in Batch |-> State(b)]
    BY <1>6, CommitStates
  <2>2. tx[s].stats = {}
    BY <1>1, <1>6 DEF ClosingOK
  <2>3. closeEvents' = closeEvents
    BY <2>2, CommitFacts
  <2> QED BY <1>3, <2>1, <2>3, CommitFacts DEF Record!GiveUp
<1>7. CASE "is_closed" \in u.cols /\ u.row.is_closed
  <2>1. \A b \in Batch : news(b) <=> b \in B
    BY <1>1, <1>7 DEF ClosingOK, EventsOK
  <2>2. \A b \in B : State(b) # "none"
    BY <1>4, CommitStates
  <2>3. [b \in Batch |-> State(b)]'
            = [b \in Batch |-> IF b \in B THEN "closed" ELSE State(b)]
    BY <1>7, CommitStates
  <2>4. closeEvents' = [b \in Batch |-> closeEvents[b] + IF b \in B THEN 1 ELSE 0]
    BY <2>1, CommitFacts
  <2> HIDE DEF B, u, news
  <2>5. Record!Close(B)
    BY <1>3, <1>4, <2>2, <2>3, <2>4 DEF Record!Close
  <2>6. \/ tx[s].req.op = "sweep" /\ B \subseteq ended
        \/ tx[s].req.op = "patch" /\ tx[s].req.want = "close" /\ B = {tx[s].req.batch}
    BY <1>1, <1>7 DEF ClosingOK, WorkOK, Asked, B, u
  <2> QED BY <1>5, <2>5, <2>6, CommitFacts DEF Record!Perform
<1>8. CASE "is_closed" \in u.cols /\ ~u.row.is_closed
  <2> DEFINE b == tx[s].req.batch
  <2>1. /\ tx[s].req.op = "patch" /\ tx[s].req.want = "reopen" /\ B = {b}
        /\ tx[s].stats = {}
    BY <1>1, <1>8 DEF ClosingOK, WorkOK, Asked
  <2>2. b \in Batch /\ State(b) # "none"
    BY <1>4, <2>1, CommitStates
  <2>3. \A d \in Batch : State(d)' = IF d = b THEN "open" ELSE State(d)
    BY <1>8, <2>1, CommitStates
  <2>4. closeEvents' = closeEvents
    BY <2>1, CommitFacts
  <2>5. Record!Reopen(b)
    BY <1>3, <2>2, <2>3, <2>4 DEF Record!Reopen
  <2> QED BY <1>5, <2>1, <2>5, CommitFacts DEF Record!Perform
<1> QED BY <1>6, <1>7, <1>8

\* A session that writes products leaves the batches as they are.
LEMMA WriterFacts ==
    ASSUME RecordInv, NEW s \in Session, Commit(s),
           tx[s].req.op \in {"add", "aggregate"}
    PROVE  /\ [b \in Batch |-> State(b)]' = [b \in Batch |-> State(b)]
           /\ closeEvents' = closeEvents
<1>1. tx[s].locks = {} /\ tx[s].stats = {}
  BY RecordFacts DEF WritesOK, AskedOK
<1>2. \A b \in Batch : State(b)' = State(b)
  BY <1>1, CommitStates
<1>3. closeEvents' = closeEvents
  BY <1>1, CommitFacts
<1> QED BY <1>2, <1>3

LEMMA AddPerforms ==
    ASSUME RecordInv, NEW s \in Session, Commit(s), tx[s].req.op = "add"
    PROVE  Record!Perform(s)
<1> DEFINE items == tx[s].req.items
<1>1. tx[s].pc = "done" /\ WritesOK(s) /\ WorkOK(s) /\ AddingOK(s) /\ AskedOK(s)
  BY RecordFacts DEF Commit
<1>2. Held(<<>>) = {}
  BY DEF Held
<1>3. tx[s].ins = DOMAIN items /\ tx[s].aggs = {}
  BY <1>1, <1>2 DEF AddingOK, WorkOK
<1>4. tx[s].req \in Add
  BY <1>1, RequestOps DEF AskedOK
<1>5. DOMAIN items \subseteq Code /\ \A c \in DOMAIN items : items[c] \in Batch
  BY <1>4, AddFacts
<1>6. \A c \in DOMAIN items : product[c] = Absent /\ State(items[c]) # "none"
  <2> SUFFICES ASSUME NEW c \in DOMAIN items
               PROVE  product[c] = Absent /\ State(items[c]) # "none"
    OBVIOUS
  <2>1. product[c] = Absent
    BY <1>1, <1>3 DEF WorkOK
  <2>2. batch[items[c]] # Absent
    BY <1>1 DEF AddingOK, WritesOK
  <2> QED BY <2>1, <2>2 DEF State
<1>7. product' = [c \in Code |->
                    IF c \in DOMAIN items
                    THEN [batch_id |-> items[c], is_aggregated |-> FALSE]
                    ELSE product[c]]
  BY <1>3, CommitFacts
<1>8. aggEvents' = aggEvents
  BY <1>3, CommitFacts
<1>9. Record!Enter(items)
  BY <1>5, <1>6, <1>7, <1>8, WriterFacts DEF Record!Enter
<1>10. [t \in Session |-> tx[t].req][s] = tx[s].req
  OBVIOUS
<1> QED BY <1>9, <1>10, CommitFacts DEF Record!Perform

LEMMA AggregatePerforms ==
    ASSUME RecordInv, NEW s \in Session, Commit(s), tx[s].req.op = "aggregate"
    PROVE  Record!Perform(s)
<1> DEFINE b == tx[s].req.batch
           C == tx[s].aggs
<1>1. tx[s].pc = "done" /\ WritesOK(s) /\ AggregatingOK(s)
  BY RecordFacts DEF Commit
<1>2. tx[s].ins = {}
  BY <1>1 DEF WritesOK
<1>3. product' = [c \in Code |->
                    IF c \in C THEN [product[c] EXCEPT !.is_aggregated = TRUE]
                               ELSE product[c]]
  BY <1>2, CommitFacts
<1>4. \A c \in C : product[c] # Absent /\ product[c].batch_id = b
  BY <1>1 DEF AggregatingOK, ProductsOf
<1>5. Record!Aggregate(b, C)
  BY <1>3, <1>4, CommitFacts, WriterFacts DEF Record!Aggregate
<1>6. Record!Codes(tx[s].req) = Held(tx[s].req.groups)
  BY DEF Record!Codes, Held
<1>7. /\ C \subseteq Record!Codes(tx[s].req)
      /\ tx[s].req.strict => C = Record!Codes(tx[s].req)
  BY <1>1, <1>6 DEF AggregatingOK
<1>8. [t \in Session |-> tx[t].req][s] = tx[s].req
  OBVIOUS
<1> QED BY <1>5, <1>7, <1>8, CommitFacts DEF Record!Perform

LEMMA CommitPerforms ==
    ASSUME RecordInv, NEW s \in Session, Commit(s)
    PROVE  Record!Perform(s) \/ Record!GiveUp(s)
<1>1. tx[s].req \in Request
  BY RecordFacts DEF Commit, AskedOK
<1>2. tx[s].req.op \in {"patch", "sweep", "add", "aggregate"}
  BY <1>1, RequestOps
<1> QED BY <1>2, CloserPerforms, AddPerforms, AggregatePerforms

LEMMA CreateBatchCreates ==
    ASSUME RecordInv, NEW b \in Batch, NEW closed \in BOOLEAN, CreateBatch(b, closed)
    PROVE  \E state \in {"open", "closed"} : Record!Create(b, state)
<1> DEFINE row == [is_closed |-> closed, closed_at |-> "null"]
           state == IF closed THEN "closed" ELSE "open"
<1>1. row \in BatchRow /\ row # Absent
  BY AbsentAssumption DEF BatchRow, ClosedAt
<1>2. /\ batch[b] = Absent /\ batch' = [batch EXCEPT ![b] = row]
      /\ UNCHANGED <<product, ended, tx, closeEvents, aggEvents>>
      /\ batch \in [Batch -> BatchRow \cup {Absent}]
  BY DEF CreateBatch, RecordInv, WorkInv, IInv, TypeOK
<1>3. batch'[b] = row /\ \A d \in Batch \ {b} : batch'[d] = batch[d]
  BY <1>2
<1>4. State(b) = "none" /\ State(b)' = state
  BY <1>1, <1>2, <1>3 DEF State
<1>5. \A d \in Batch \ {b} : State(d)' = State(d)
  BY <1>3 DEF State
<1>6. Record!Create(b, state)
  BY <1>2, <1>4, <1>5 DEF Record!Create
<1> QED BY <1>6

LEMMA LedgerStep ==
    ASSUME RecordInv, [Next]_vars
    PROVE  [Record!Next]_(Record!ledger)
<1>1. CASE UNCHANGED vars
  BY <1>1 DEF vars, history, Record!ledger, State
<1>2. ASSUME NEW b \in Batch, NEW closed \in BOOLEAN, CreateBatch(b, closed)
      PROVE  Record!Next
  BY <1>2, CreateBatchCreates DEF Record!Next
<1>3. ASSUME NEW b \in Batch, ShiftEnds(b) PROVE Record!Next
  <2>1. Record!ShiftEnds(b)
    BY <1>3 DEF ShiftEnds, history, Record!ShiftEnds, State
  <2> QED BY <2>1 DEF Record!Next
<1>4. ASSUME NEW s \in Session, NEW r \in Request, Start(s, r) PROVE Record!Next
  BY <1>4, StartAsks DEF Record!Next
<1>5. ASSUME NEW s \in Session, Commit(s) PROVE Record!Next
  BY <1>5, CommitPerforms DEF Record!Next
<1>6. ASSUME NEW s \in Session,
             (Step(s) /\ ~Commit(s)) \/ Rollback(s) \/ DeadlockVictim(s)
      PROVE  [Record!Next]_(Record!ledger)
  <2>1. Works(s)
    BY <1>6, StepWorks, FailureWorks
  <2> QED BY <2>1, WorksUnseen DEF Record!Next
<1> QED BY <1>1, <1>2, <1>3, <1>4, <1>5, <1>6 DEF Next

\* However PATCHes, sweeps, additions and aggregations overlap, the batches and the
\* products read as if each request had acted at one moment, its commit, or not at
\* all: an addition and an HTTP aggregation with all their products or none, each
\* product once and in the batch it was added to, each closing announced with it
\* (batch_service.py, product_service.py, aggregation_tasks.py).
THEOREM RecordIsKept == Spec => RecordKept
<1>1. Init => Record!Init
  BY DEF Init, Record!Init, State
<1>2. Init => RecordInv
  BY InitRecord
<1>3. RecordInv /\ [Next]_vars => RecordInv'
  BY NextRecord
<1>4. RecordInv /\ [Next]_vars => [Record!Next]_(Record!ledger)
  BY LedgerStep
<1> QED BY <1>1, <1>2, <1>3, <1>4, PTL DEF Spec, RecordKept, Record!Spec
=============================================================================
