--------------------------- MODULE ObjectStorage ---------------------------
(***************************************************************************)
(* The files in MinIO: reports, which are written again under the name of  *)
(* their batch, exports and imports, which get names of their own. Whoever *)
(* asked for a report or an export is given a link that works for some     *)
(* days; every night a cleanup deletes the files that nobody has written   *)
(* for longer than that. It fixes its cutoff at the start, lists a bucket  *)
(* and then deletes what it has listed, file by file.                      *)
(*                                                                         *)
(* There is no clock: a file is "old" once it is OLD_FILES_MAX_AGE_DAYS    *)
(* past its last upload, and by then its links have expired if they expire *)
(* sooner. The minutes between an upload and its link count for nothing.   *)
(***************************************************************************)
EXTENDS Naturals, Sequences

CONSTANTS
    Report,                 \* names batch_{id}_report.{ext}
    Export,                 \* names batches_export_{time}.{ext}
    Import,                 \* names import_{uuid}{ext}
    ExpiresDays,            \* expires_days of upload_file
    OLD_FILES_MAX_AGE_DAYS,
    MaxFailures             \* bound: cleanups that fail

Object == Report \cup Export \cup Import
BUCKETS == <<Report, Export, Import>>

ASSUME DaysAssumption ==
    ExpiresDays \in Nat /\ OLD_FILES_MAX_AGE_DAYS \in Nat
ASSUME FailuresAssumption == MaxFailures \in Nat

VARIABLES
    object,         \* [Object -> {"absent", "fresh", "old"}]
    link,           \* [Object -> BOOLEAN]: somebody holds a link that works still
    reporter,       \* a run of generate_batch_report
    cleanup,        \* the run of cleanup_old_files
    failures,       \* cleanups that have failed so far
    overdue,        \* history: files older than the cutoff, not written since
    raced           \* history: the files written while listed for deletion

storage == <<object, link, reporter, cleanup, failures, overdue, raced>>

Reporting == [pc : {"idle", "built", "uploaded"}, file : SUBSET Report]
NoReport == [pc |-> "idle", file |-> {}]

\* bucket: the one it is at, 0 when none runs; due: what is in the buckets to come
\* and last written before the cutoff; todo: what is listed and not yet deleted.
Cleaning == [bucket : 0 .. Len(BUCKETS), due : SUBSET Object,
             todo : SUBSET Object]
NoCleanup == [bucket |-> 0, due |-> {}, todo |-> {}]

StorageInit ==
    /\ object = [n \in Object |-> "absent"]
    /\ link = [n \in Object |-> FALSE]
    /\ reporter = NoReport
    /\ cleanup = NoCleanup
    /\ failures = 0
    /\ overdue = {} /\ raced = {}

\* upload_file: the object is there, or is replaced, whoever holds a link to it.
Upload(n) ==
    /\ object' = [object EXCEPT ![n] = "fresh"]
    /\ cleanup' = [cleanup EXCEPT !.due = @ \ {n}]
    /\ overdue' = overdue \ {n}
    /\ raced' = IF n \in cleanup.todo THEN raced \cup {n} ELSE raced \ {n}

-----------------------------------------------------------------------------
(* Those who write files, and those who hold links.                        *)

\* generate_batch_report: the batch is read and its file built on a disk.
ReportBuild(n) ==
    /\ reporter.pc = "idle"
    /\ reporter' = [pc |-> "built", file |-> {n}]
    /\ UNCHANGED <<object, link, cleanup, failures, overdue, raced>>

ReportUpload(n) ==
    /\ reporter.pc = "built" /\ n \in reporter.file
    /\ Upload(n)
    /\ reporter' = [reporter EXCEPT !.pc = "uploaded"]
    /\ UNCHANGED <<link, failures>>

\* Mutant: the link is announced before the file is there.
AnnounceEarly(n) ==
    /\ reporter.pc \in {"built", "uploaded"} /\ n \in reporter.file
    /\ link' = [link EXCEPT ![n] = TRUE]
    /\ reporter' = NoReport
    /\ UNCHANGED <<object, cleanup, failures, overdue, raced>>

\* report_generated, and the result of the task, hand the link out.
Announce(n) ==
    /\ reporter.pc = "uploaded" /\ n \in reporter.file
    /\ link' = [link EXCEPT ![n] = TRUE]
    /\ reporter' = NoReport
    /\ UNCHANGED <<object, cleanup, failures, overdue, raced>>

\* The batch is gone, MinIO fails or the worker dies: what is uploaded stays.
ReportFail ==
    /\ reporter.pc # "idle"
    /\ reporter' = NoReport
    /\ UNCHANGED <<object, link, cleanup, failures, overdue, raced>>

\* POST /batches/import: the name is new, and there is no link.
ImportUpload(n) ==
    /\ object[n] = "absent"
    /\ Upload(n)
    /\ UNCHANGED <<link, reporter, failures>>

LinkExpires(n) ==
    /\ link[n]
    /\ link' = [link EXCEPT ![n] = FALSE]
    /\ UNCHANGED <<object, reporter, cleanup, failures, overdue, raced>>

GrowsOld(n) ==
    /\ object[n] = "fresh"
    /\ ExpiresDays <= OLD_FILES_MAX_AGE_DAYS => ~link[n]
    /\ ~(reporter.pc = "uploaded" /\ n \in reporter.file)
    /\ object' = [object EXCEPT ![n] = "old"]
    /\ UNCHANGED <<link, reporter, cleanup, failures, overdue, raced>>

-----------------------------------------------------------------------------
(* The task cleanup_old_files.                                             *)

\* The cutoff is fixed and the first bucket listed.
CleanupStart ==
    /\ cleanup.bucket = 0
    /\ overdue' = { n \in Object : object[n] = "old" }
    /\ cleanup' = [bucket |-> 1, due |-> overdue' \ BUCKETS[1],
                   todo |-> overdue' \cap BUCKETS[1]]
    /\ UNCHANGED <<object, link, reporter, failures, raced>>

NextBucket(listed) ==
    /\ cleanup.todo = {}
    /\ cleanup' = [bucket |-> cleanup.bucket + 1,
                   due |-> cleanup.due \ BUCKETS[cleanup.bucket + 1],
                   todo |-> listed]
    /\ UNCHANGED <<object, link, reporter, failures, overdue, raced>>

\* Mutant: the next buckets are passed over.
ListNothing ==
    /\ cleanup.bucket \in 1 .. Len(BUCKETS) - 1
    /\ NextBucket({})

\* list_files of the next bucket. What is written since the cutoff is not due.
CleanupList ==
    /\ cleanup.bucket \in 1 .. Len(BUCKETS) - 1
    /\ NextBucket(cleanup.due \cap BUCKETS[cleanup.bucket + 1])

\* delete_file, whatever has become of the file since it was listed.
CleanupDelete(n) ==
    /\ n \in cleanup.todo
    /\ object' = [object EXCEPT ![n] = "absent"]
    /\ cleanup' = [cleanup EXCEPT !.todo = @ \ {n}]
    /\ overdue' = overdue \ {n}
    /\ UNCHANGED <<link, reporter, failures, raced>>

CleanupEnd ==
    /\ cleanup.bucket = Len(BUCKETS) /\ cleanup.todo = {}
    /\ cleanup' = NoCleanup /\ overdue' = {}
    /\ UNCHANGED <<object, link, reporter, failures, raced>>

\* MinIO fails a listing or a deletion, and the task with it.
CleanupFail ==
    /\ cleanup.bucket # 0 /\ failures < MaxFailures
    /\ cleanup' = NoCleanup /\ overdue' = {}
    /\ failures' = failures + 1
    /\ UNCHANGED <<object, link, reporter, raced>>

StorageNext ==
    \/ \E n \in Report : ReportBuild(n) \/ ReportUpload(n) \/ Announce(n)
    \/ ReportFail
    \/ \E n \in Import : ImportUpload(n)
    \/ \E n \in Object : LinkExpires(n) \/ GrowsOld(n) \/ CleanupDelete(n)
    \/ CleanupStart \/ CleanupList \/ CleanupEnd \/ CleanupFail

-----------------------------------------------------------------------------
(* Properties.                                                             *)

StorageTypeOK ==
    /\ object \in [Object -> {"absent", "fresh", "old"}]
    /\ link \in [Object -> BOOLEAN]
    /\ reporter \in Reporting
    /\ cleanup \in Cleaning
    /\ failures \in 0 .. MaxFailures
    /\ overdue \in SUBSET Object /\ raced \in SUBSET Object

\* A link works until it expires: it is handed out when the file is there, and no
\* cleanup deletes the file before - unless the file was written again after the
\* cleanup had listed it and before it deleted it.
LinksAlive == \A n \in Object : link[n] /\ n \notin raced => object[n] # "absent"

\* A cleanup that ends without failing has left out no file and no bucket: whatever
\* was older than its cutoff is deleted, or has been written again meanwhile.
CleanupThorough ==
    [][cleanup.bucket # 0 /\ cleanup'.bucket = 0 /\ failures' = failures
         => overdue = {}]_storage
=============================================================================
