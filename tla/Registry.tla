------------------------------ MODULE Registry ------------------------------
(***************************************************************************)
(* What the creation of batches promises, however the look-ups and INSERTs *)
(* of concurrent sessions interleave: a request is given up without a      *)
(* trace, or it has its effect as if it had run alone and at one moment. A *)
(* POST creates all its items or nothing; an import creates for each key   *)
(* of the file that is not there yet the batch of the first row that names *)
(* it, and skips the others. A work center is created with its first       *)
(* batch. How many requests are given up is not promised.                  *)
(***************************************************************************)
EXTENDS Naturals

CONSTANTS
    Key,            \* what identifies a batch
    Center,         \* what identifies a work center
    Absent,         \* "no such batch"
    Unreadable,     \* a row of a file that cannot be read
    Session,        \* those who ask
    Request,        \* what can be asked: [op, items]
    NoRequest

VARIABLES
    batch,          \* [Key -> Center or Absent]
    centers,        \* the work centers that exist
    asked           \* [Session -> Request or NoRequest]

registry == <<batch, centers, asked>>

Init ==
    /\ batch = [k \in Key |-> Absent]
    /\ centers = {}
    /\ asked = [s \in Session |-> NoRequest]

Readable(q) == { i \in DOMAIN q : q[i] # Unreadable }
KeysIn(q) == { q[i].key : i \in Readable(q) }
Fresh(q) == { k \in KeysIn(q) : batch[k] = Absent }

\* The first row of q that names k.
FirstRow(q, k) ==
    q[CHOOSE i \in Readable(q) :
        q[i].key = k /\ \A j \in Readable(q) : q[j].key = k => i <= j]

Create(q) ==
    /\ batch' = [k \in Key |-> IF k \in Fresh(q) THEN FirstRow(q, k).center
                                                ELSE batch[k]]
    /\ centers' = centers \cup { FirstRow(q, k).center : k \in Fresh(q) }

Ask(s, r) ==
    /\ asked[s] = NoRequest
    /\ asked' = [asked EXCEPT ![s] = r]
    /\ UNCHANGED <<batch, centers>>

GiveUp(s) ==
    /\ asked[s] # NoRequest
    /\ asked' = [asked EXCEPT ![s] = NoRequest]
    /\ UNCHANGED <<batch, centers>>

\* All items of a POST are new, or it is given up; an import takes what is new.
Perform(s) ==
    LET q == asked[s].items IN
    /\ asked[s] # NoRequest
    /\ asked[s].op = "post" => Fresh(q) = KeysIn(q)
    /\ Create(q)
    /\ asked' = [asked EXCEPT ![s] = NoRequest]

Next == \E s \in Session : \/ \E r \in Request : Ask(s, r)
                           \/ GiveUp(s) \/ Perform(s)

Spec == Init /\ [][Next]_registry
=============================================================================
