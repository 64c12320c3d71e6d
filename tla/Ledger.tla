------------------------------- MODULE Ledger -------------------------------
(***************************************************************************)
(* What the plant's record of batches and products promises, however the   *)
(* transactions behind it interleave: every request is given up without a  *)
(* trace or has its effect at one moment, and an effect is never more than *)
(* was asked for. A product enters a batch that exists, once and with all  *)
(* products of its request, stays in that batch, and is aggregated only by *)
(* a request that names it and that batch: all codes of such a request or  *)
(* none, unless it allows some of them to fail. A batch is closed or       *)
(* reopened on demand, or closed after its shift, and whatever is closed   *)
(* or aggregated is announced at the same moment.                          *)
(*                                                                         *)
(* Two requests may both announce what only the first of them changed; a   *)
(* request may find nothing to do; and it is not promised that the batch   *)
(* is still open when products enter it or are aggregated.                 *)
(***************************************************************************)
EXTENDS Naturals

CONSTANTS
    Batch, Code,    \* what is recorded
    Absent,         \* "no such product"
    Session,        \* those who ask
    Request,        \* what can be asked: [op, ...]
    NoRequest

VARIABLES
    batch,          \* [Batch -> {"none", "open", "closed"}]
    product,        \* [Code -> [batch_id, is_aggregated] or Absent]
    ended,          \* batches whose shift has ended
    asked,          \* [Session -> Request or NoRequest]
    closeNews,      \* [Batch -> Nat]: how often it was announced as closed
    aggNews         \* [Code -> Nat]: how often it was announced as aggregated

ledger == <<batch, product, ended, asked, closeNews, aggNews>>

Init ==
    /\ batch = [b \in Batch |-> "none"]
    /\ product = [c \in Code |-> Absent]
    /\ ended = {}
    /\ asked = [s \in Session |-> NoRequest]
    /\ closeNews = [b \in Batch |-> 0]
    /\ aggNews = [c \in Code |-> 0]

Create(b, state) ==
    /\ batch[b] = "none" /\ batch' = [batch EXCEPT ![b] = state]
    /\ UNCHANGED <<product, ended, asked, closeNews, aggNews>>

ShiftEnds(b) ==
    /\ ended' = ended \cup {b}
    /\ UNCHANGED <<batch, product, asked, closeNews, aggNews>>

Ask(s) ==
    /\ asked[s] = NoRequest /\ asked'[s] \in Request
    /\ asked' = [asked EXCEPT ![s] = asked'[s]]
    /\ UNCHANGED <<batch, product, ended, closeNews, aggNews>>

\* The request of s has had its effect, or is given up.
Answered(s) ==
    /\ asked[s] # NoRequest
    /\ asked' = [asked EXCEPT ![s] = NoRequest]
    /\ UNCHANGED ended

GiveUp(s) == Answered(s) /\ UNCHANGED <<batch, product, closeNews, aggNews>>

Close(B) ==
    /\ \A b \in B : batch[b] # "none"
    /\ batch' = [b \in Batch |-> IF b \in B THEN "closed" ELSE batch[b]]
    /\ closeNews' = [b \in Batch |-> closeNews[b] + IF b \in B THEN 1 ELSE 0]
    /\ UNCHANGED <<product, aggNews>>

Reopen(b) ==
    /\ batch[b] # "none"
    /\ batch' = [batch EXCEPT ![b] = "open"]
    /\ UNCHANGED <<product, closeNews, aggNews>>

Enter(items) ==
    /\ \A c \in DOMAIN items : product[c] = Absent /\ batch[items[c]] # "none"
    /\ product' = [c \in Code |->
                     IF c \in DOMAIN items
                     THEN [batch_id |-> items[c], is_aggregated |-> FALSE]
                     ELSE product[c]]
    /\ UNCHANGED <<batch, closeNews, aggNews>>

Aggregate(b, C) ==
    /\ \A c \in C : product[c] # Absent /\ product[c].batch_id = b
    /\ product' = [c \in Code |->
                     IF c \in C THEN [product[c] EXCEPT !.is_aggregated = TRUE]
                                ELSE product[c]]
    /\ aggNews' = [c \in Code |-> aggNews[c] + IF c \in C THEN 1 ELSE 0]
    /\ UNCHANGED <<batch, closeNews>>

Codes(r) == UNION { r.groups[i] : i \in DOMAIN r.groups }

Perform(s) ==
    LET r == asked[s] IN
    /\ Answered(s)
    /\ \/ r.op = "sweep" /\ \E B \in SUBSET ended : Close(B)
       \/ r.op = "patch" /\ r.want = "close" /\ Close({r.batch})
       \/ r.op = "patch" /\ r.want = "reopen" /\ Reopen(r.batch)
       \/ r.op = "add" /\ Enter(r.items)
       \/ r.op = "aggregate" /\ r.strict /\ Aggregate(r.batch, Codes(r))
       \/ r.op = "aggregate" /\ ~r.strict
            /\ \E C \in SUBSET Codes(r) : Aggregate(r.batch, C)

Next ==
    \/ \E b \in Batch, state \in {"open", "closed"} : Create(b, state)
    \/ \E b \in Batch : ShiftEnds(b)
    \/ \E s \in Session : Ask(s) \/ GiveUp(s) \/ Perform(s)

Spec == Init /\ [][Next]_ledger
=============================================================================
