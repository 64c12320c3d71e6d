---------------------------- MODULE ExportPaging ----------------------------
(***************************************************************************)
(* How an export reads the batches that match its filters: page by page,   *)
(* newest first, each page by OFFSET and LIMIT and after a COUNT of its    *)
(* own. Every statement sees what is committed by then (READ COMMITTED),   *)
(* so batches enter and leave the result while it is read: they are        *)
(* created, closed and opened again, or moved to other filters.            *)
(*                                                                         *)
(* created_at is the time of the transaction: the batches of one POST or   *)
(* of one import share it, and among them each statement may take another  *)
(* order.                                                                  *)
(***************************************************************************)
EXTENDS Naturals, FiniteSets

CONSTANTS
    Row,            \* ids of batches
    created_at,     \* [Row -> Nat]: when the transaction of each began
    PageSize,       \* page_size of _fetch_all
    MaxMoves        \* bound: rows that enter or leave the result meanwhile

ASSUME RowAssumption == IsFiniteSet(Row) /\ created_at \in [Row -> Nat]
ASSUME PageAssumption == PageSize \in Nat \ {0} /\ MaxMoves \in Nat

VARIABLES
    matching,       \* the rows that match the filters of the export
    fetch,          \* where _fetch_all is, with its offset and total
    batches,        \* the rows read so far
    lines,          \* total_batches: how many lines they make, repeats included
    always,         \* history: rows that matched all the time
    left,           \* history: rows that have left the result since the start
    entered,        \* history: rows that have entered it since the start
    late,           \* history: those that entered after the last COUNT
    split           \* history: a page ended between rows of equal created_at

paging == <<matching, fetch, batches, lines, always, left, entered, late, split>>

PagingInit ==
    /\ matching \in SUBSET Row
    /\ fetch = [pc |-> "count", offset |-> 0, total |-> 0]
    /\ batches = {} /\ lines = 0
    /\ always = matching
    /\ left = 0 /\ entered = 0 /\ late = 0
    /\ split = FALSE

\* ORDER BY created_at DESC LIMIT n: n rows of T that no other row is newer than.
Newest(T, n) ==
    { N \in SUBSET T : /\ Cardinality(N) = n \/ (Cardinality(N) < n /\ N = T)
                       /\ \A r \in N, s \in T \ N : created_at[r] >= created_at[s] }

\* The end of N within T falls between two rows that the order does not tell apart.
Splits(N, T) == \E r \in N, s \in T \ N : created_at[r] = created_at[s]

-----------------------------------------------------------------------------
\* Mutant: the COUNT is given the OFFSET of the page.
CountRest ==
    /\ fetch.pc = "count"
    /\ fetch' = [fetch EXCEPT !.pc = "select",
                              !.total = Cardinality(matching) - fetch.offset]
    /\ late' = 0
    /\ UNCHANGED <<matching, batches, lines, always, left, entered, split>>

\* get_list: total is counted first, by a statement of its own.
Count ==
    /\ fetch.pc = "count"
    /\ fetch' = [fetch EXCEPT !.pc = "select", !.total = Cardinality(matching)]
    /\ late' = 0
    /\ UNCHANGED <<matching, batches, lines, always, left, entered, split>>

\* Mutant: the next page begins with the last row of this one.
OffsetShort == fetch.offset + PageSize - 1
NextOffset == fetch.offset + PageSize

\* Mutant: a full page is taken for the last.
ExhaustedFull(page) == Cardinality(page) <= PageSize \/ NextOffset >= fetch.total
Exhausted(page) == Cardinality(page) < PageSize \/ NextOffset >= fetch.total

\* get_list: the page, in whatever order the statement puts equal rows.
Select ==
    /\ fetch.pc = "select"
    /\ \E before \in Newest(matching, fetch.offset),
          upto \in Newest(matching, fetch.offset + PageSize) :
         LET page == upto \ before IN
         /\ before \subseteq upto
         /\ batches' = batches \cup page
         /\ lines' = lines + Cardinality(page)
         /\ split' = (split \/ Splits(upto, matching))
         /\ fetch' = [fetch EXCEPT !.offset = NextOffset,
                                   !.pc = IF Exhausted(page) THEN "build" ELSE "count"]
    /\ UNCHANGED <<matching, always, left, entered, late>>

\* A transaction that creates or updates batches commits. (What the table does
\* when nobody reads it does not matter.)
TableChange ==
    /\ fetch.pc \in {"count", "select"}
    /\ matching' \in SUBSET Row /\ matching' # matching
    /\ left' = left + Cardinality(matching \ matching')
    /\ entered' = entered + Cardinality(matching' \ matching)
    /\ left' + entered' <= MaxMoves
    /\ late' = late + Cardinality(matching' \ matching)
    /\ always' = always \cap matching'
    /\ UNCHANGED <<fetch, batches, lines, split>>

\* The session is closed and its list of rows is gone, and with it what was known
\* of the table.
PagingEnd(pc) ==
    /\ fetch' = [pc |-> pc, offset |-> 0, total |-> 0]
    /\ matching' = {} /\ batches' = {} /\ lines' = 0
    /\ always' = {} /\ left' = 0 /\ entered' = 0 /\ late' = 0 /\ split' = FALSE

PagingNext == Count \/ Select \/ TableChange

-----------------------------------------------------------------------------
(* Properties.                                                             *)

PagingTypeOK ==
    /\ matching \in SUBSET Row
    /\ fetch \in [pc : {"count", "select", "build", "done", "failed"},
                  offset : Nat, total : Nat]
    /\ batches \in SUBSET Row /\ lines \in Nat
    /\ always \in SUBSET matching
    /\ left \in Nat /\ entered \in Nat /\ late \in Nat
    /\ split \in BOOLEAN

Read == fetch.pc = "build"

\* As long as no page ends within one transaction's batches, an export misses at
\* most one batch for each that left the result while it was read, and one for
\* each that entered between the last COUNT and its SELECT.
FewMissed ==
    Read /\ ~split => Cardinality(always \ batches) <= left + late

\* And it repeats at most one line for each batch that entered the result.
FewRepeated ==
    Read /\ ~split => lines <= Cardinality(batches) + entered
=============================================================================
