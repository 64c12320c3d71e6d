----------------------------- MODULE FileTasks -----------------------------
(***************************************************************************)
(* export_batches_to_file reads the batches as ExportPaging has it, builds *)
(* a file on its own disk and puts it beside the other files of            *)
(* ObjectStorage, while reports are written and the cleanup runs.          *)
(***************************************************************************)
EXTENDS ExportPaging, ObjectStorage

vars == <<paging, storage>>

Init == PagingInit /\ StorageInit

\* The file is built and uploaded under the name of this second; the result of
\* the task hands the link out.
ExportUpload(n) ==
    /\ fetch.pc = "build"
    /\ Upload(n)
    /\ link' = [link EXCEPT ![n] = TRUE]
    /\ PagingEnd("done")
    /\ UNCHANGED <<reporter, failures>>

\* The database or MinIO fails the task, or its worker dies: no file is left.
ExportFail ==
    /\ fetch.pc \in {"count", "select", "build"}
    /\ PagingEnd("failed")
    /\ UNCHANGED storage

Next ==
    \/ PagingNext /\ UNCHANGED storage
    \/ StorageNext /\ UNCHANGED paging
    \/ \E n \in Export : ExportUpload(n)
    \/ ExportFail

Spec == Init /\ [][Next]_vars

-----------------------------------------------------------------------------
\* What is read, the files and those who use them hold values of their kind.
TypeOK == PagingTypeOK /\ StorageTypeOK
=============================================================================
