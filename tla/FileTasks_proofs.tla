-------------------------- MODULE FileTasks_proofs --------------------------
(* Proofs about FileTasks, for all tables, pages, files and days.          *)
EXTENDS FileTasks, ExportPaging_proofs

-----------------------------------------------------------------------------
(* Types.                                                                  *)

LEMMA UploadType ==
    ASSUME StorageTypeOK, NEW n \in Object, Upload(n)
    PROVE  /\ object' \in [Object -> {"absent", "fresh", "old"}]
           /\ cleanup' \in Cleaning
           /\ overdue' \in SUBSET Object /\ raced' \in SUBSET Object
BY DEF StorageTypeOK, Upload, Cleaning

LEMMA PagingTypeStep == PagingTypeOK /\ PagingNext => PagingTypeOK'
<1> SUFFICES ASSUME PagingTypeOK, PagingNext PROVE PagingTypeOK'
  OBVIOUS
<1>1. CASE Count
  BY <1>1, CountsAreNat DEF PagingTypeOK, Count
<1>2. CASE Select
  <2>1. NextOffset \in Nat
    BY PageAssumption DEF PagingTypeOK, NextOffset
  <2>2. PICK before \in SUBSET matching, upto \in SUBSET matching :
          /\ batches' = batches \cup (upto \ before)
          /\ lines' = lines + Cardinality(upto \ before)
          /\ fetch' = [fetch EXCEPT !.offset = NextOffset,
               !.pc = IF Exhausted(upto \ before) THEN "build" ELSE "count"]
          /\ split' = (split \/ Splits(upto, matching))
    BY <1>2 DEF Select, Newest
  <2>3. Cardinality(upto \ before) \in Nat
    BY CountsAreNat DEF PagingTypeOK
  <2>4. batches' \in SUBSET Row /\ lines' \in Nat /\ split' \in BOOLEAN
    BY <2>2, <2>3 DEF PagingTypeOK
  <2>5. fetch' \in [pc : {"count", "select", "build", "done", "failed"},
                    offset : Nat, total : Nat]
    BY <2>1, <2>2 DEF PagingTypeOK
  <2> QED
    BY <1>2, <2>4, <2>5 DEF PagingTypeOK, Select
<1>3. CASE TableChange
  <2>1. /\ Cardinality(matching \ matching') \in Nat
        /\ Cardinality(matching' \ matching) \in Nat
    BY <1>3, CountsAreNat DEF TableChange, PagingTypeOK
  <2> QED
    BY <1>3, <2>1 DEF TableChange, PagingTypeOK
<1> QED
  BY <1>1, <1>2, <1>3 DEF PagingNext

LEMMA StorageTypeStep == StorageTypeOK /\ StorageNext => StorageTypeOK'
<1> SUFFICES ASSUME StorageTypeOK, StorageNext PROVE StorageTypeOK'
  OBVIOUS
<1> USE DEF StorageTypeOK
<1>1. ASSUME NEW n \in Report, ReportBuild(n) \/ ReportUpload(n) \/ Announce(n)
      PROVE  StorageTypeOK'
  <2>1. CASE ReportBuild(n)
    BY <2>1 DEF ReportBuild, Reporting
  <2>2. CASE ReportUpload(n)
    <3>1. n \in Object /\ reporter' \in Reporting
      BY <2>2 DEF ReportUpload, Reporting, Object
    <3> QED
      BY <2>2, <3>1, UploadType DEF ReportUpload
  <2>3. CASE Announce(n)
    BY <2>3 DEF Announce, Reporting, NoReport
  <2> QED
    BY <1>1, <2>1, <2>2, <2>3
<1>2. CASE ReportFail
  BY <1>2 DEF ReportFail, Reporting, NoReport
<1>3. ASSUME NEW n \in Import, ImportUpload(n) PROVE StorageTypeOK'
  BY <1>3, UploadType DEF ImportUpload, Object
<1>4. ASSUME NEW n \in Object, LinkExpires(n) \/ GrowsOld(n) \/ CleanupDelete(n)
      PROVE  StorageTypeOK'
  <2>1. CASE LinkExpires(n) \/ GrowsOld(n)
    BY <2>1 DEF LinkExpires, GrowsOld
  <2>2. CASE CleanupDelete(n)
    <3>1. cleanup' \in Cleaning
      BY <2>2 DEF CleanupDelete, Cleaning
    <3> QED
      BY <2>2, <3>1 DEF CleanupDelete
  <2> QED
    BY <1>4, <2>1, <2>2
<1>5. CASE CleanupStart
  BY <1>5 DEF CleanupStart, Cleaning, BUCKETS
<1>6. CASE CleanupList
  <2>1. cleanup.bucket + 1 \in 0 .. Len(BUCKETS)
    BY <1>6 DEF CleanupList, Cleaning, BUCKETS
  <2> QED
    BY <1>6, <2>1 DEF CleanupList, NextBucket, Cleaning
<1>7. CASE CleanupEnd \/ CleanupFail
  BY <1>7, FailuresAssumption DEF CleanupEnd, CleanupFail, NoCleanup, Cleaning, BUCKETS
<1> QED
  BY <1>1, <1>2, <1>3, <1>4, <1>5, <1>6, <1>7 DEF StorageNext

\* What is read, the files, their links and the tasks always hold values of
\* their kind, for every table and every set of files.
THEOREM TypeCorrect == Spec => []TypeOK
<1>1. Init => TypeOK
  <2>1. PagingInit => PagingTypeOK
    <3>1. PagingInit => matching \in SUBSET Row /\ always \in SUBSET matching
      BY DEF PagingInit
    <3>2. PagingInit => fetch \in [pc : {"count", "select", "build", "done", "failed"},
                                   offset : Nat, total : Nat]
      BY DEF PagingInit
    <3>3. PagingInit => split \in BOOLEAN
      BY DEF PagingInit
    <3> QED
      BY <3>1, <3>2, <3>3 DEF PagingInit, PagingTypeOK
  <2>2. NoReport \in Reporting /\ NoCleanup \in Cleaning
    BY DEF NoReport, Reporting, NoCleanup, Cleaning, BUCKETS
  <2>3. StorageInit => StorageTypeOK
    BY <2>2, FailuresAssumption DEF StorageInit, StorageTypeOK
  <2> QED
    BY <2>1, <2>3 DEF Init, TypeOK
<1>2. TypeOK /\ [Next]_vars => TypeOK'
  <2> SUFFICES ASSUME TypeOK, [Next]_vars PROVE TypeOK'
    OBVIOUS
  <2>1. UNCHANGED paging => PagingTypeOK'
    BY DEF TypeOK, PagingTypeOK, paging
  <2>2. UNCHANGED storage => StorageTypeOK'
    BY DEF TypeOK, StorageTypeOK, storage
  <2>3. ASSUME NEW pc \in {"done", "failed"}, PagingEnd(pc) PROVE PagingTypeOK'
    BY <2>3 DEF PagingEnd, PagingTypeOK
  <2>4. ASSUME NEW n \in Export, ExportUpload(n) PROVE TypeOK'
    BY <2>3, <2>4, UploadType DEF ExportUpload, TypeOK, StorageTypeOK, Object
  <2>5. CASE ExportFail
    BY <2>2, <2>3, <2>5 DEF ExportFail, TypeOK
  <2> QED
    BY <2>1, <2>2, <2>4, <2>5, PagingTypeStep, StorageTypeStep DEF Next, TypeOK, vars
<1> QED
  BY <1>1, <1>2, PTL DEF Spec

-----------------------------------------------------------------------------
(* Links. No old file has a link, as long as links expire first; and what  *)
(* is due or listed for deletion has none that its cleanup did not race.   *)

LinksInv ==
    /\ \A n \in Object : object[n] = "old" => ~link[n]
    /\ \A n \in Object : link[n] /\ n \notin raced => object[n] = "fresh"
    /\ \A n \in cleanup.due : object[n] # "fresh" /\ ~link[n]
    /\ \A n \in cleanup.todo : n \in raced \/ (object[n] # "fresh" /\ ~link[n])
    /\ reporter.pc = "uploaded" =>
         \A n \in reporter.file :
            /\ object[n] # "old" /\ n \notin cleanup.due
            /\ n \in raced \/ object[n] = "fresh"
    /\ \A n, m \in reporter.file : n = m

LEMMA UploadLinks ==
    ASSUME StorageTypeOK, LinksInv, NEW n \in Object, Upload(n),
           link' = link \/ link' = [link EXCEPT ![n] = TRUE],
           \/ reporter' = reporter
           \/ reporter'.file = {n}
    PROVE  LinksInv'
<1>1. /\ object'[n] = "fresh"
      /\ \A m \in Object : m # n => object'[m] = object[m] /\ link'[m] = link[m]
      /\ cleanup'.todo = cleanup.todo /\ cleanup'.due = cleanup.due \ {n}
      /\ \A m : m # n => (m \in raced' <=> m \in raced)
      /\ n \in cleanup.todo => n \in raced'
  BY DEF Upload, StorageTypeOK, Cleaning
<1>2. cleanup.due \subseteq Object /\ cleanup.todo \subseteq Object
      /\ reporter.file \subseteq Object
  BY DEF StorageTypeOK, Cleaning, Reporting, Object
<1> QED
  BY <1>1, <1>2 DEF LinksInv

LEMMA LinksStep ==
    ASSUME ExpiresDays <= OLD_FILES_MAX_AGE_DAYS, TypeOK, LinksInv, [Next]_vars
    PROVE  LinksInv'
<1>0. StorageTypeOK
  BY DEF TypeOK
<1>1. cleanup.due \subseteq Object /\ cleanup.todo \subseteq Object
      /\ reporter.file \subseteq Object /\ Report \subseteq Object
  BY <1>0 DEF StorageTypeOK, Cleaning, Reporting, Object
<1>2. ASSUME NEW n \in Report, ReportBuild(n) PROVE LinksInv'
  BY <1>2 DEF ReportBuild, LinksInv
<1>3. ASSUME NEW n \in Report, ReportUpload(n) PROVE LinksInv'
  <2>1. reporter' = [reporter EXCEPT !.pc = "uploaded"] /\ link' = link /\ Upload(n)
    BY <1>3 DEF ReportUpload
  <2>2. n \in Object /\ reporter'.file = reporter.file /\ n \in reporter.file
    BY <1>0, <1>1, <1>3, <2>1 DEF StorageTypeOK, Reporting, ReportUpload
  <2>3. reporter.file = {n}
    BY <2>2 DEF LinksInv, ReportUpload
  <2> QED
    BY <1>0, <2>1, <2>2, <2>3, UploadLinks
<1>4. ASSUME NEW n \in Report, Announce(n) PROVE LinksInv'
  BY <1>0, <1>1, <1>4 DEF Announce, LinksInv, NoReport, StorageTypeOK
<1>5. ASSUME NEW n \in Import, ImportUpload(n) PROVE LinksInv'
  <2>1. n \in Object
    BY DEF Object
  <2> QED
    BY <1>0, <1>5, <2>1, UploadLinks DEF ImportUpload
<1>6. ASSUME NEW n \in Export, ExportUpload(n) PROVE LinksInv'
  <2>1. n \in Object
    BY DEF Object
  <2> QED
    BY <1>0, <1>6, <2>1, UploadLinks DEF ExportUpload
<1>7. ASSUME NEW n \in Object, LinkExpires(n) PROVE LinksInv'
  BY <1>0, <1>1, <1>7 DEF LinkExpires, LinksInv, StorageTypeOK
<1>8. ASSUME NEW n \in Object, GrowsOld(n) PROVE LinksInv'
  BY <1>0, <1>1, <1>8 DEF GrowsOld, LinksInv, StorageTypeOK
<1>9. ASSUME NEW n \in Object, CleanupDelete(n) PROVE LinksInv'
  <2>1. cleanup'.todo = cleanup.todo \ {n} /\ cleanup'.due = cleanup.due
    BY <1>0, <1>9 DEF CleanupDelete, StorageTypeOK, Cleaning
  <2> QED
    BY <1>0, <1>1, <1>9, <2>1 DEF CleanupDelete, LinksInv, StorageTypeOK
<1>10. CASE CleanupStart
  <2>1. /\ \A n \in overdue' : n \in Object /\ object[n] = "old"
        /\ cleanup'.due \subseteq overdue' /\ cleanup'.todo \subseteq overdue'
    BY <1>10 DEF CleanupStart
  <2>2. UNCHANGED <<object, link, reporter, raced>>
    BY <1>10 DEF CleanupStart
  <2>3. \A n \in overdue' : object'[n] # "fresh" /\ ~link'[n]
    BY <2>1, <2>2 DEF LinksInv
  <2> QED
    BY <2>1, <2>2, <2>3 DEF LinksInv
<1>11. CASE CleanupList
  <2>1. cleanup'.todo \subseteq cleanup.due /\ cleanup'.due \subseteq cleanup.due
    BY <1>11 DEF CleanupList, NextBucket
  <2> QED
    BY <1>11, <2>1 DEF CleanupList, NextBucket, LinksInv
<1>12. CASE CleanupEnd \/ CleanupFail
  BY <1>12 DEF CleanupEnd, CleanupFail, NoCleanup, LinksInv
<1>13. CASE ReportFail
  BY <1>13 DEF ReportFail, NoReport, LinksInv
<1>14. CASE UNCHANGED storage
  BY <1>14 DEF storage, LinksInv
<1> QED
  BY <1>2, <1>3, <1>4, <1>5, <1>6, <1>7, <1>8, <1>9, <1>10, <1>11, <1>12, <1>13, <1>14
  DEF Next, StorageNext, ExportFail, vars

\* A link works until it expires, whatever is built, uploaded, cleaned up or fails
\* meanwhile, except for files written again between listing and deletion - for
\* all numbers of days for which links expire before files are old.
THEOREM LinksStayAlive ==
    ASSUME ExpiresDays <= OLD_FILES_MAX_AGE_DAYS
    PROVE  Spec => []LinksAlive
<1>1. Init => LinksInv
  BY DEF Init, StorageInit, LinksInv, NoReport, NoCleanup
<1>2. TypeOK /\ LinksInv /\ [Next]_vars => LinksInv'
  BY LinksStep
<1>3. LinksInv => LinksAlive
  BY DEF LinksInv, LinksAlive
<1> QED
  BY <1>1, <1>2, <1>3, TypeCorrect, PTL DEF Spec

-----------------------------------------------------------------------------
(* The cleanup. What is overdue is listed, or due in a bucket to come.     *)

Later(b) == { n \in Object : \E k \in b + 1 .. Len(BUCKETS) : n \in BUCKETS[k] }

CleanupInv ==
    /\ overdue \subseteq cleanup.due \cup cleanup.todo
    /\ cleanup.due \subseteq Later(cleanup.bucket)
    /\ cleanup.bucket = 0 => cleanup.due = {} /\ cleanup.todo = {}

LEMMA UploadCleanup ==
    ASSUME StorageTypeOK, CleanupInv, NEW n, Upload(n)
    PROVE  CleanupInv'
<1>1. /\ cleanup'.due = cleanup.due \ {n}
      /\ cleanup'.todo = cleanup.todo /\ cleanup'.bucket = cleanup.bucket
      /\ overdue' = overdue \ {n}
  BY DEF Upload, StorageTypeOK, Cleaning
<1> QED
  BY <1>1 DEF CleanupInv, Later

LEMMA CleanupStep ==
    ASSUME TypeOK, CleanupInv, [Next]_vars
    PROVE  CleanupInv'
<1>0. StorageTypeOK /\ cleanup \in Cleaning /\ overdue \subseteq Object
  BY DEF TypeOK, StorageTypeOK
<1>1. ASSUME NEW n, Upload(n) PROVE CleanupInv'
  BY <1>0, <1>1, UploadCleanup
<1>2. ASSUME NEW n \in Object, CleanupDelete(n) PROVE CleanupInv'
  <2>1. /\ cleanup'.due = cleanup.due /\ cleanup'.bucket = cleanup.bucket
        /\ cleanup'.todo = cleanup.todo \ {n}
    BY <1>0, <1>2 DEF CleanupDelete, Cleaning
  <2> QED
    BY <1>2, <2>1 DEF CleanupDelete, CleanupInv, Later
<1>3. CASE CleanupStart
  <2>1. /\ cleanup' = [bucket |-> 1, due |-> overdue' \ BUCKETS[1],
                       todo |-> overdue' \cap BUCKETS[1]]
        /\ overdue' \subseteq Object
    BY <1>3 DEF CleanupStart
  <2>2. \A n \in Object \ BUCKETS[1] : n \in BUCKETS[2] \/ n \in BUCKETS[3]
    BY DEF Object, BUCKETS
  <2>3. Len(BUCKETS) = 3
    BY DEF BUCKETS
  <2>4. Object \ BUCKETS[1] \subseteq Later(1)
    BY <2>2, <2>3 DEF Later
  <2> QED
    BY <2>1, <2>4 DEF CleanupInv, Later
<1>4. CASE CleanupList
  <2> DEFINE k == cleanup.bucket + 1
  <2>1. /\ cleanup' = [bucket |-> k, due |-> cleanup.due \ BUCKETS[k],
                       todo |-> cleanup.due \cap BUCKETS[k]]
        /\ overdue' = overdue /\ cleanup.todo = {}
        /\ cleanup.bucket \in Nat /\ Len(BUCKETS) \in Nat
    BY <1>0, <1>4 DEF CleanupList, NextBucket, Cleaning, BUCKETS
  <2>2. Later(cleanup.bucket) \ BUCKETS[k] \subseteq Later(k)
    BY <2>1 DEF Later
  <2>3. cleanup.due \ BUCKETS[k] \subseteq Later(k)
    BY <2>2 DEF CleanupInv
  <2> HIDE DEF k
  <2>4. cleanup'.bucket # 0
    BY <2>1 DEF k
  <2> QED
    BY <2>1, <2>3, <2>4 DEF CleanupInv, Later
<1>5. CASE CleanupEnd \/ CleanupFail
  BY <1>5 DEF CleanupEnd, CleanupFail, NoCleanup, CleanupInv
<1>6. CASE UNCHANGED <<cleanup, overdue>>
  BY <1>6 DEF CleanupInv, Later
<1> QED
  BY <1>1, <1>2, <1>3, <1>4, <1>5, <1>6
  DEF Next, StorageNext, ReportBuild, ReportUpload, Announce, ReportFail, ImportUpload,
      LinkExpires, GrowsOld, ExportUpload, ExportFail, storage, vars

\* A cleanup that ends without failing has deleted every file that was older than
\* its cutoff and not written since, in all buckets and whatever is uploaded and
\* deleted meanwhile.
THEOREM CleanupsAreThorough == Spec => CleanupThorough
<1>1. Init => CleanupInv
  BY DEF Init, StorageInit, CleanupInv, NoCleanup
<1>2. TypeOK /\ CleanupInv /\ [Next]_vars => CleanupInv'
  BY CleanupStep
<1>3. TypeOK /\ CleanupInv /\ [Next]_vars
        => [cleanup.bucket # 0 /\ cleanup'.bucket = 0 /\ failures' = failures
              => overdue = {}]_storage
  <2> SUFFICES ASSUME TypeOK, CleanupInv, [Next]_vars, cleanup.bucket # 0,
                      cleanup'.bucket = 0, failures' = failures
               PROVE  overdue = {}
    BY DEF storage
  <2>0. cleanup \in Cleaning /\ failures \in Nat
    BY FailuresAssumption DEF TypeOK, StorageTypeOK
  <2>1. CleanupEnd
    <3>1. ASSUME NEW n, Upload(n) \/ CleanupDelete(n) PROVE FALSE
      BY <2>0, <3>1 DEF Upload, CleanupDelete, Cleaning
    <3>2. ~CleanupStart /\ ~CleanupList /\ ~CleanupFail
      BY <2>0 DEF CleanupStart, CleanupList, NextBucket, CleanupFail, Cleaning
    <3>3. cleanup' # cleanup
      OBVIOUS
    <3> QED
      BY <3>1, <3>2, <3>3
      DEF Next, StorageNext, ReportBuild, ReportUpload, Announce, ReportFail,
          ImportUpload, LinkExpires, GrowsOld, ExportUpload, ExportFail, storage, vars
  <2>2. Later(Len(BUCKETS)) = {}
    BY DEF Later, BUCKETS
  <2> QED
    BY <2>1, <2>2 DEF CleanupEnd, CleanupInv
<1> QED
  BY <1>1, <1>2, <1>3, TypeCorrect, PTL DEF Spec, CleanupThorough

-----------------------------------------------------------------------------
(* What an export reads: the invariant of the paging, kept by every step   *)
(* of the composition because an export that ends has read nothing.        *)

LEMMA PagingEndsClean ==
    ASSUME NEW pc \in {"done", "failed"}, PagingEnd(pc) PROVE PagingInv'
<1>1. /\ fetch'.pc \in {"done", "failed"} /\ batches' = {} /\ lines' = 0
      /\ matching' = {} /\ always' = {} /\ left' = 0 /\ entered' = 0 /\ late' = 0
  BY DEF PagingEnd
<1> QED
  BY <1>1 DEF PagingInv, MissedInv, TotalInv, RepeatedInv, FewMissed, FewRepeated,
              Read, Reading

LEMMA PagingAlways == Spec => []PagingInv
<1>1. Init => PagingInv
  BY PagingStart DEF Init
<1>2. TypeOK /\ TypeOK' /\ PagingInv /\ [Next]_vars => PagingInv'
  <2> SUFFICES ASSUME TypeOK, TypeOK', PagingInv, [Next]_vars PROVE PagingInv'
    OBVIOUS
  <2>1. CASE UNCHANGED paging
    BY <2>1 DEF paging, PagingInv, MissedInv, TotalInv, RepeatedInv, FewMissed,
                FewRepeated, Read, Reading, AtTop
  <2>2. CASE PagingNext
    BY <2>2, PagingStep DEF TypeOK
  <2>3. CASE PagingEnd("done") \/ PagingEnd("failed")
    BY <2>3, PagingEndsClean
  <2> QED
    BY <2>1, <2>2, <2>3 DEF Next, ExportUpload, ExportFail, vars
<1> QED
  BY <1>1, <1>2, TypeCorrect, PTL DEF Spec

\* Whatever the table, the pages and the changes made meanwhile: an export whose
\* pages end between transactions misses at most one batch for each that left the
\* result, and one for each that entered it after the last COUNT.
THEOREM ExportsMissFew == Spec => []FewMissed
BY PagingAlways, PTL DEF PagingInv

\* And it repeats at most one line for each batch that entered the result.
THEOREM ExportsRepeatFew == Spec => []FewRepeated
BY PagingAlways, PTL DEF PagingInv
=============================================================================
