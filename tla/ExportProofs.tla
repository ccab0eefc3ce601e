---------------------------- MODULE ExportProofs ----------------------------
(***************************************************************************)
(* Proofs about Export, for any segments, requests and number of restarts. *)
(*                                                                         *)
(* The inductive invariant IInv relates the runner's local variables to    *)
(* the row and the file of its job: the job is what its row says (RowInv), *)
(* the file holds all that has been taken from the list of segments        *)
(* (FileInv), and a job comes to its end only with that list empty, or cut *)
(* to what precedes the rest of it (EndInv).                               *)
(***************************************************************************)
EXTENDS Export, TLAPS

\* A job runs and has not been marked as done.
Busy == runner \notin {"none", "leave"}

\* The runner has the list of its segments.
Listing == {"segment", "write", "progress", "close", "mark", "insert", "truncate",
            "splitdone"}

\* The row of a running job is there until it is deleted, and is what the runner
\* read when it began, except that a split has cut it.
RowInv ==
  Busy =>
    /\ id # NoId
    /\ id \in DOMAIN rows \/ id \in cancelled
    /\ id \in DOMAIN rows =>
         /\ ~rows[id].done
         /\ rows[id].from = job.from
         /\ rows[id].to = job.to \/ runner = "splitdone"

\* The file of the job holds each readable segment that is not in rest any more,
\* unless a write has failed.
FileInv ==
  /\ runner \in Listing => rest \subseteq Selected(job)
  /\ runner = "write" => opened
  /\ runner \in Listing /\ ~opened => Selected(job) \ Unreadable \subseteq rest
  /\ runner \in Listing /\ opened /\ id \notin cancelled /\ <<"write", id>> \notin failed =>
       /\ id \in DOMAIN files
       /\ (Selected(job) \ Unreadable) \ rest \subseteq files[id]

\* A job is marked as done when no segment is left, or those left do not begin
\* before the end of what is kept, if the statement that cuts it succeeded.
EndInv ==
  /\ runner = "mark" => rest = {}
  /\ runner = "close" /\ ~forceExit => rest = {}
  /\ runner = "splitdone" /\ <<"truncate", id>> \notin failed =>
       \E s \in rest : Earliest(s) /\ (id \in DOMAIN rows => rows[id].to = s.from)

\* After the first statement of a split, if it succeeded, another row has the rest of
\* the range.
SplitInv ==
  runner = "truncate" /\ cancelled = {} /\ <<"insert", id>> \notin failed =>
    \E k \in DOMAIN rows \ {id} : \A s \in Segments :
      Earliest(s) => rows[k].from <= s.from + 1 /\ rows[k].to = job.to

\* rm_export() works on an export that somebody asked to delete.
CancelInv == rm # "idle" => rmId \in cancelled

IInv ==
  /\ TypeOK /\ CancelHitsOnlyItsJob /\ DoneMeansComplete
  /\ RowInv /\ FileInv /\ EndInv /\ SplitInv /\ CancelInv
-----------------------------------------------------------------------------
(***************************************************************************)
(* Tables and ranges.                                                      *)
(***************************************************************************)
USE DEF NoId, Ids, diskVars, mainVars, jobVars, memberVars, localVars, runnerVars,
        rmVars, historyVars, vars

\* Adding an entry to a function.
LEMMA WithEntry ==
  ASSUME NEW f, NEW x, NEW v
  PROVE  /\ DOMAIN With(f, x, v) = DOMAIN f \cup {x}
         /\ With(f, x, v)[x] = v
         /\ \A y \in DOMAIN f \ {x} : With(f, x, v)[y] = f[y]
BY DEF With

\* Removing one.
LEMMA WithoutEntry ==
  ASSUME NEW f, NEW x
  PROVE  /\ DOMAIN Without(f, x) = DOMAIN f \ {x}
         /\ \A y \in DOMAIN f \ {x} : Without(f, x)[y] = f[y]
BY DEF Without

\* An UPDATE of the job's row changes one column of it and no other row.
LEMMA UpdatesOneRow ==
  ASSUME NEW field, NEW v, UpdateJob(field, v)
  PROVE  /\ DOMAIN rows' = DOMAIN rows /\ nextId' = nextId
         /\ \A i \in DOMAIN rows \ {id} : rows'[i] = rows[i]
         /\ id \in DOMAIN rows => rows'[id] = [rows[id] EXCEPT ![field] = v]
BY DEF UpdateJob

\* Only done rows matter to DoneMeansComplete, and only their ranges and files.
LEMMA CompleteKept ==
  ASSUME DoneMeansComplete, cancelled \subseteq cancelled', failed \subseteq failed',
         \A i \in DOMAIN rows' : rows'[i].done /\ i \notin cancelled' /\ Unharmed(i)' =>
           /\ i \in DOMAIN rows /\ rows'[i] = rows[i]
           /\ i \in DOMAIN files => i \in DOMAIN files' /\ files[i] \subseteq files'[i]
  PROVE  DoneMeansComplete'
<1> SUFFICES ASSUME NEW i \in DOMAIN rows', rows'[i].done, i \notin cancelled', Unharmed(i)',
                    NEW s \in Selected(rows'[i]) \ Unreadable, s.from < rows'[i].to
             PROVE  i \in DOMAIN files' /\ s \in files'[i]
  BY DEF DoneMeansComplete, Selected
<1>1. i \in DOMAIN rows /\ rows'[i] = rows[i] /\ i \notin cancelled /\ Unharmed(i)
  BY DEF Unharmed
<1>2. i \in DOMAIN files /\ s \in files[i]
  BY <1>1 DEF DoneMeansComplete
<1> QED  BY <1>2

\* The segments a range selects after it has been cut at one of them that it
\* selected.
LEMMA CutSelects ==
  ASSUME NEW r \in Row, NEW c \in Row, NEW s \in Selected(r),
         c.from = r.from, c.to = s.from
  PROVE  Selected(c) \subseteq Selected(r)
BY ExportAssumption DEF Selected, Row
-----------------------------------------------------------------------------
(***************************************************************************)
(* IInv is inductive.                                                      *)
(***************************************************************************)
LEMMA InitInv == Init => IInv
<1> SUFFICES ASSUME Init PROVE IInv
  OBVIOUS
<1> USE DEF Init
<1>1. DiskTypeOK
  BY DEF DiskTypeOK
<1>2. MemberTypeOK
  <2>1. job \in Row
    BY DEF Row, NoRow
  <2>2. restarts \in 0..MaxRestarts
    BY ExportAssumption
  <2> QED
    BY <2>1, <2>2 DEF MemberTypeOK
<1>3. RunnerTypeOK /\ RmTypeOK
  BY DEF RunnerTypeOK, RmTypeOK, Running
<1>4. CancelHitsOnlyItsJob /\ DoneMeansComplete /\ CancelInv
  BY DEF CancelHitsOnlyItsJob, DoneMeansComplete, CancelInv
<1>5. RowInv /\ FileInv /\ EndInv /\ SplitInv
  BY DEF RowInv, Busy, FileInv, Listing, EndInv, SplitInv
<1> QED  BY <1>1, <1>2, <1>3, <1>4, <1>5 DEF IInv, TypeOK

\* A new process, whatever became of the old one.
LEMMA NewProcessInv ==
  ASSUME IInv, NewProcess, UNCHANGED diskVars, restarts' \in 0..MaxRestarts
  PROVE  IInv'
<1> USE DEF IInv, TypeOK, NewProcess
<1>1. DiskTypeOK'
  BY DEF DiskTypeOK
<1>2. MemberTypeOK'
  BY DEF MemberTypeOK, Row, NoRow
<1>3. RunnerTypeOK'
  BY DEF RunnerTypeOK, Running
<1>4. RmTypeOK'
  BY DEF RmTypeOK
<1>5. CancelHitsOnlyItsJob' /\ CancelInv'
  BY DEF CancelHitsOnlyItsJob, CancelInv, Running
<1>6. DoneMeansComplete'
  BY CompleteKept
<1>7. RowInv' /\ FileInv' /\ EndInv' /\ SplitInv'
  BY DEF RowInv, Busy, FileInv, Listing, EndInv, SplitInv
<1> QED  BY <1>1, <1>2, <1>3, <1>4, <1>5, <1>6, <1>7

\* What an INSERT into the table does.
LEMMA InsertsOneRow ==
  ASSUME DiskTypeOK, NEW row, Insert(row)
  PROVE  /\ nextId \notin DOMAIN rows /\ nextId' = nextId + 1
         /\ DOMAIN rows' = DOMAIN rows \cup {nextId} /\ rows'[nextId] = row
         /\ \A i \in DOMAIN rows : rows'[i] = rows[i]
BY DEF Insert, With, DiskTypeOK

\* A request adds a row that is not done.
LEMMA RequestInv ==
  ASSUME IInv, NEW r \in Requests, Request(r)
  PROVE  IInv'
<1> USE DEF IInv, TypeOK, Request
<1> DEFINE row == [from |-> r.from, to |-> r.to, done |-> FALSE, located |-> FALSE]
<1>1. row \in Row
  BY ExportAssumption DEF Row
<1>2. ~row.done
  OBVIOUS
<1> HIDE DEF row
<1>3. /\ nextId \notin DOMAIN rows /\ nextId' = nextId + 1
      /\ DOMAIN rows' = DOMAIN rows \cup {nextId} /\ rows'[nextId] = row
      /\ \A i \in DOMAIN rows : rows'[i] = rows[i]
  BY InsertsOneRow DEF row
<1>4. DiskTypeOK'
  BY <1>1, <1>3 DEF DiskTypeOK
<1>5. MemberTypeOK' /\ RunnerTypeOK' /\ RmTypeOK'
  BY <1>3 DEF MemberTypeOK, RunnerTypeOK, RmTypeOK, Running, DiskTypeOK
<1>6. CancelHitsOnlyItsJob' /\ CancelInv'
  BY DEF CancelHitsOnlyItsJob, CancelInv, Running
<1>7. DoneMeansComplete'
  BY <1>2, <1>3, CompleteKept
<1>8. RowInv'
  BY <1>3 DEF RowInv, Busy, MemberTypeOK
<1>9. FileInv'
  BY DEF FileInv, Selected
<1>10. EndInv'
  BY <1>3 DEF EndInv, Earliest, MemberTypeOK, DiskTypeOK
<1>11. SplitInv'
  BY <1>3 DEF SplitInv, Earliest
<1> QED  BY <1>4, <1>5, <1>6, <1>7, <1>8, <1>9, <1>10, <1>11

\* The main thread: a job that is not done begins with an empty list, and the
\* members and the table stay as they are when the database is closed, connected
\* again or the runner is told to end.
LEMMA CheckForJobsInv ==
  ASSUME IInv, NEW i \in DOMAIN rows, CheckForJobs(i)
  PROVE  IInv'
<1> USE DEF IInv, TypeOK, CheckForJobs
<1>1. DiskTypeOK'
  BY DEF DiskTypeOK
<1>2. MemberTypeOK'
  BY DEF DiskTypeOK, MemberTypeOK
<1>3. RunnerTypeOK' /\ RmTypeOK'
  BY DEF RunnerTypeOK, RmTypeOK, Running, QueryPcs
<1>4. CancelHitsOnlyItsJob' /\ CancelInv'
  BY DEF CancelHitsOnlyItsJob, CancelInv
<1>5. DoneMeansComplete'
  BY CompleteKept
<1>6. RowInv'
  BY DEF RowInv, DiskTypeOK
<1>7. FileInv' /\ EndInv' /\ SplitInv'
  BY DEF FileInv, Listing, EndInv, SplitInv
<1> QED  BY <1>1, <1>2, <1>3, <1>4, <1>5, <1>6, <1>7

LEMMA SessionInv ==
  ASSUME IInv, CloseDb \/ ReopenDb \/ Destroy
  PROVE  IInv'
<1> USE DEF IInv, TypeOK, CloseDb, ReopenDb, Destroy
<1>1. UNCHANGED <<diskVars, jobVars, inProgress, runnerVars, rmVars>>
  OBVIOUS
<1>2. DiskTypeOK' /\ RmTypeOK'
  BY <1>1 DEF DiskTypeOK, RmTypeOK
<1>3. MemberTypeOK'
  <2>1. restarts' \in 0..MaxRestarts
    BY ExportAssumption DEF MemberTypeOK
  <2> QED
    BY <2>1 DEF MemberTypeOK
<1>4. RunnerTypeOK'
  BY <1>1 DEF RunnerTypeOK, Running
<1>5. CancelHitsOnlyItsJob' /\ CancelInv'
  BY DEF CancelHitsOnlyItsJob, CancelInv, Running
<1>6. DoneMeansComplete'
  BY <1>1, CompleteKept
<1>7. RowInv'
  BY <1>1 DEF RowInv, Busy
<1>8. FileInv'
  BY <1>1 DEF FileInv, Selected
<1>9. EndInv'
  BY DEF EndInv, Earliest
<1>10. SplitInv'
  BY <1>1 DEF SplitInv, Earliest
<1> QED  BY <1>2, <1>3, <1>4, <1>5, <1>6, <1>7, <1>8, <1>9, <1>10

\* Deleting an export touches only its own row and file, and the flag of its job.
LEMMA RmInv ==
  ASSUME IInv, (\E i \in DOMAIN rows : RmSelect(i)) \/ RmFile \/ RmDelete
  PROVE  IInv'
<1> USE DEF IInv, TypeOK
<1>1. CASE \E i \in DOMAIN rows : RmSelect(i)
  <2> PICK i \in DOMAIN rows : RmSelect(i)
    BY <1>1
  <2> USE DEF RmSelect
  <2>1. DiskTypeOK'
    BY DEF DiskTypeOK
  <2>2. MemberTypeOK'
    BY DEF MemberTypeOK
  <2>3. RunnerTypeOK'
    BY DEF RunnerTypeOK, Running
  <2>4. RmTypeOK'
    <3>1. i \in Ids /\ rows[i] \in Row
      BY DEF DiskTypeOK
    <3>2. rmId' \in Ids' \cup {NoId} /\ cancelled' \subseteq Ids'
      BY <3>1 DEF RmTypeOK
    <3>3. rmLocated' \in BOOLEAN
      BY <3>1 DEF Row
    <3> QED  BY <3>2, <3>3 DEF RmTypeOK
  <2>5. CancelHitsOnlyItsJob'
    BY DEF CancelHitsOnlyItsJob, Running, MemberTypeOK
  <2>6. DoneMeansComplete'
    BY CompleteKept
  <2>7. RowInv'
    BY DEF RowInv, Busy
  <2>8. FileInv'
    BY DEF FileInv, Selected
  <2>9. EndInv'
    BY DEF EndInv, Earliest, MemberTypeOK
  <2>10. SplitInv' /\ CancelInv'
    BY DEF SplitInv, Earliest, CancelInv
  <2> QED  BY <2>1, <2>2, <2>3, <2>4, <2>5, <2>6, <2>7, <2>8, <2>9, <2>10
<1>2. CASE RmFile
  <2> USE <1>2 DEF RmFile
  <2>1. /\ DOMAIN files' \subseteq DOMAIN files
        /\ \A i \in DOMAIN files' : files'[i] = files[i]
        /\ \A i \in DOMAIN files \ {rmId} : i \in DOMAIN files'
    BY DEF Without
  <2>2. rmId \in cancelled
    BY DEF CancelInv
  <2>3. DiskTypeOK'
    BY <2>1 DEF DiskTypeOK
  <2>4. MemberTypeOK'
    BY DEF MemberTypeOK
  <2>5. RunnerTypeOK' /\ RmTypeOK'
    BY DEF RunnerTypeOK, Running, RmTypeOK
  <2>6. CancelHitsOnlyItsJob' /\ CancelInv'
    BY <2>2 DEF CancelHitsOnlyItsJob, Running, CancelInv
  <2>7. DoneMeansComplete'
    BY <2>1, <2>2, CompleteKept
  <2>8. RowInv'
    BY DEF RowInv, Busy
  <2>9. FileInv'
    BY <2>1, <2>2 DEF FileInv, Selected
  <2>10. EndInv' /\ SplitInv'
    BY DEF EndInv, SplitInv, Earliest
  <2> QED  BY <2>3, <2>4, <2>5, <2>6, <2>7, <2>8, <2>9, <2>10
<1>3. CASE RmDelete
  <2> USE <1>3 DEF RmDelete
  <2>1. /\ DOMAIN rows' = DOMAIN rows \ {rmId}
        /\ \A i \in DOMAIN rows' : rows'[i] = rows[i]
    BY DEF Without
  <2>2. rmId \in cancelled
    BY DEF CancelInv
  <2>3. DiskTypeOK'
    BY <2>1 DEF DiskTypeOK
  <2>4. MemberTypeOK'
    BY DEF MemberTypeOK
  <2>5. RunnerTypeOK' /\ RmTypeOK'
    BY DEF RunnerTypeOK, Running, RmTypeOK
  <2>6. CancelHitsOnlyItsJob' /\ CancelInv'
    BY DEF CancelHitsOnlyItsJob, Running, CancelInv
  <2>7. DoneMeansComplete'
    BY <2>1, CompleteKept
  <2>8. RowInv'
    BY <2>1, <2>2 DEF RowInv, Busy
  <2>9. FileInv'
    BY DEF FileInv, Selected
  <2>10. EndInv' /\ SplitInv'
    BY <2>1, <2>2 DEF EndInv, SplitInv, Earliest
  <2> QED  BY <2>3, <2>4, <2>5, <2>6, <2>7, <2>8, <2>9, <2>10
<1> QED  BY <1>1, <1>2, <1>3

\* The runner before it has its list of segments.
LEMMA BeginInv ==
  ASSUME IInv, RemoveOld \/ Locate \/ SelectSegments
  PROVE  IInv'
<1> USE DEF IInv, TypeOK, Query, RunnerGoto
<1>1. RmTypeOK' /\ CancelInv'
  BY DEF RemoveOld, Locate, SelectSegments, UpdateJob, RmTypeOK, CancelInv
<1>2. CASE RemoveOld
  <2> USE <1>2 DEF RemoveOld
  <2>1. /\ DOMAIN files' \subseteq DOMAIN files
        /\ \A i \in DOMAIN files' : files'[i] = files[i]
        /\ \A i \in DOMAIN files \ {id} : i \in DOMAIN files'
    BY DEF Without
  <2>2. DiskTypeOK'
    BY <2>1 DEF DiskTypeOK
  <2>3. MemberTypeOK' /\ RunnerTypeOK'
    BY DEF MemberTypeOK, RunnerTypeOK, Running, QueryPcs
  <2>4. CancelHitsOnlyItsJob'
    BY DEF CancelHitsOnlyItsJob, Running
  <2>5. DoneMeansComplete'
    BY <2>1, CompleteKept DEF RowInv, Busy
  <2>6. RowInv'
    BY DEF RowInv, Busy
  <2>7. FileInv' /\ EndInv' /\ SplitInv'
    BY DEF FileInv, Listing, EndInv, SplitInv
  <2> QED  BY <1>1, <2>2, <2>3, <2>4, <2>5, <2>6, <2>7
<1>3. CASE Locate
  <2> USE <1>3 DEF Locate
  <2>1. /\ DOMAIN rows' = DOMAIN rows /\ nextId' = nextId
        /\ \A i \in DOMAIN rows \ {id} : rows'[i] = rows[i]
        /\ id \in DOMAIN rows => rows'[id] = [rows[id] EXCEPT !.located = TRUE]
    BY UpdatesOneRow
  <2>2. id \in DOMAIN rows =>
          /\ rows'[id] \in Row /\ rows'[id].done = rows[id].done
          /\ rows'[id].from = rows[id].from /\ rows'[id].to = rows[id].to
    BY <2>1 DEF DiskTypeOK, Row
  <2>3. DiskTypeOK'
    BY <2>1, <2>2 DEF DiskTypeOK
  <2>4. MemberTypeOK' /\ RunnerTypeOK'
    BY <2>1 DEF MemberTypeOK, RunnerTypeOK, Running, QueryPcs
  <2>5. CancelHitsOnlyItsJob'
    BY DEF CancelHitsOnlyItsJob, Running
  <2>6. DoneMeansComplete'
    BY <2>1, <2>2, CompleteKept DEF RowInv, Busy
  <2>7. RowInv'
    BY <2>1, <2>2 DEF RowInv, Busy
  <2>8. FileInv' /\ EndInv' /\ SplitInv'
    BY DEF FileInv, Listing, EndInv, SplitInv
  <2> QED  BY <1>1, <2>3, <2>4, <2>5, <2>6, <2>7, <2>8
<1>4. CASE SelectSegments
  <2> USE <1>4 DEF SelectSegments
  <2>1. DiskTypeOK'
    BY DEF DiskTypeOK
  <2>2. MemberTypeOK' /\ RunnerTypeOK'
    BY DEF MemberTypeOK, RunnerTypeOK, Running, QueryPcs, Selected
  <2>3. CancelHitsOnlyItsJob'
    BY DEF CancelHitsOnlyItsJob, Running
  <2>4. DoneMeansComplete'
    BY CompleteKept
  <2>5. RowInv'
    BY DEF RowInv, Busy
  <2>6. FileInv' /\ EndInv' /\ SplitInv'
    BY DEF FileInv, Selected, EndInv, SplitInv
  <2> QED  BY <1>1, <2>1, <2>2, <2>3, <2>4, <2>5, <2>6
<1> QED  BY <1>2, <1>3, <1>4

\* The runner on its way through the list, without a change of file or row.
LEMMA WalkInv ==
  ASSUME IInv,
         Progress \/ LastSegment \/ CloseOutput \/ \E s \in rest : StartSplit(s)
  PROVE  IInv'
<1> USE DEF IInv, TypeOK, Query, RunnerGoto, Progress, LastSegment, CloseOutput, StartSplit
<1>1. UNCHANGED <<diskVars, mainVars, memberVars, localVars, rmVars>>
  OBVIOUS
<1>2. DiskTypeOK' /\ MemberTypeOK' /\ RmTypeOK' /\ CancelInv'
  BY <1>1 DEF DiskTypeOK, MemberTypeOK, RmTypeOK, CancelInv
<1>3. /\ runner \in Listing \ {"write", "truncate", "splitdone"}
      /\ runner' \in (Listing \cup {"leave"}) \ {"write", "truncate", "splitdone"}
  BY DEF Listing
<1>4. RunnerTypeOK'
  BY <1>1, <1>3 DEF RunnerTypeOK, Running, Listing, QueryPcs
<1>5. CancelHitsOnlyItsJob'
  <2>1. CASE CloseOutput
    BY <1>1, <2>1 DEF CancelHitsOnlyItsJob, Running
  <2>2. CASE ~CloseOutput
    <3>1. runner \notin {"close", "leave", "none"}
      BY <2>2
    <3> QED  BY <1>1, <3>1 DEF CancelHitsOnlyItsJob, Running
  <2> QED  BY <2>1, <2>2
<1>6. DoneMeansComplete'
  BY <1>1, CompleteKept
<1>7. RowInv'
  BY <1>1, <1>3 DEF RowInv, Busy, Listing
<1>8. FileInv'
  BY <1>1, <1>3 DEF FileInv, Selected, Listing
<1>9. EndInv'
  BY <1>1, <1>3 DEF EndInv
<1>10. SplitInv'
  BY <1>3 DEF SplitInv
<1> QED  BY <1>2, <1>4, <1>5, <1>6, <1>7, <1>8, <1>9, <1>10

\* A segment is passed over, opened or written: what leaves rest is unreadable or
\* is in the file.
LEMMA SegmentInv ==
  ASSUME IInv, NEW s \in rest,
         SkipSegment(s) \/ ReadSegment(s) \/ OpenFails(s) \/ WriteSegment(s)
  PROVE  IInv'
<1> USE DEF IInv, TypeOK, Query, RunnerGoto, SkipSegment, ReadSegment, OpenFails, WriteSegment, SameFormat
<1>1. UNCHANGED <<rows, nextId, requested, mainVars, id, job, inProgress, rmVars, cancelled>>
  OBVIOUS
<1>2. /\ s \in Segments /\ s.format \in Formats
      /\ runner \in {"segment", "write"}
      /\ runner' \in {"segment", "write", "progress", "close"}
      /\ id \in Ids
  BY ExportAssumption DEF RunnerTypeOK, MemberTypeOK, RowInv, Busy
<1>f. failed \subseteq failed' /\ failed' \subseteq Fallible \X Ids
  BY <1>2 DEF Fails, Fallible, RmTypeOK
<1>3. /\ DOMAIN files' \in {DOMAIN files, DOMAIN files \cup {id}}
      /\ \A i \in DOMAIN files' \ {id} : files'[i] = files[i]
  BY DEF With
<1>4. id \in DOMAIN files' => files'[id] \subseteq Segments
  BY <1>2 DEF With, DiskTypeOK
<1>5. DiskTypeOK'
  BY <1>1, <1>2, <1>3, <1>4 DEF DiskTypeOK
<1>6. MemberTypeOK'
  BY <1>1 DEF MemberTypeOK
<1>7. RunnerTypeOK'
  BY <1>1, <1>2 DEF RunnerTypeOK, Running, QueryPcs
<1>8. RmTypeOK' /\ CancelInv'
  BY <1>1, <1>f DEF RmTypeOK, CancelInv
<1>9. CancelHitsOnlyItsJob'
  BY <1>1, <1>2 DEF CancelHitsOnlyItsJob, Running, MemberTypeOK, FileInv
<1>10. DoneMeansComplete'
  BY <1>1, <1>2, <1>f, <1>3, CompleteKept DEF RowInv, Busy
<1>11. RowInv'
  BY <1>1, <1>2 DEF RowInv, Busy
<1>12. FileInv'
  <2> USE DEF FileInv, Listing
  <2>1. Selected(job)' = Selected(job)
    BY <1>1 DEF Selected
  <2> HIDE DEF Selected
  <2>2. CASE SkipSegment(s)
    BY <2>1, <2>2
  <2>3. CASE ReadSegment(s)
    BY <2>1, <2>3 DEF With
  <2>4. CASE OpenFails(s)
    BY <2>1, <2>4
  <2>5. CASE WriteSegment(s) /\ UNCHANGED failed
    <3>1. id \notin cancelled /\ <<"write", id>> \notin failed =>
            files' = [files EXCEPT ![id] = @ \cup {s}]
      BY <1>1, <2>5 DEF Fails
    <3> QED  BY <2>1, <2>5, <3>1
  <2>6. CASE WriteSegment(s) /\ Fails("write", id)
    BY <2>1, <2>6 DEF Fails
  <2> QED  BY <2>2, <2>3, <2>4, <2>5, <2>6
<1>13. EndInv' /\ SplitInv'
  BY <1>2 DEF EndInv, SplitInv, MemberTypeOK
<1> QED  BY <1>5, <1>6, <1>7, <1>8, <1>9, <1>10, <1>11, <1>12, <1>13

\* The runner returns without having done anything.
LEMMA SelectFailsInv ==
  ASSUME IInv, SelectFails
  PROVE  IInv'
<1> USE DEF IInv, TypeOK, Query, RunnerGoto, SelectFails
<1>1. DiskTypeOK' /\ MemberTypeOK' /\ RmTypeOK' /\ CancelInv'
  BY DEF DiskTypeOK, MemberTypeOK, RmTypeOK, CancelInv
<1>2. RunnerTypeOK'
  BY DEF RunnerTypeOK, Running
<1>3. CancelHitsOnlyItsJob'
  BY DEF CancelHitsOnlyItsJob, Running
<1>4. DoneMeansComplete'
  BY CompleteKept
<1>5. RowInv' /\ FileInv' /\ EndInv' /\ SplitInv'
  BY DEF RowInv, Busy, FileInv, Listing, EndInv, SplitInv
<1> QED  BY <1>1, <1>2, <1>3, <1>4, <1>5

\* Marking a job as done keeps DoneMeansComplete if its file holds the readable
\* segments of what its row says.
LEMMA MarkKeepsComplete ==
  ASSUME IInv, UpdateJob("done", TRUE), UNCHANGED <<files, requested, cancelled, failed>>,
         id \in DOMAIN rows /\ id \notin cancelled /\ Unharmed(id) =>
           \A s \in Selected(rows[id]) \ Unreadable :
             s.from < rows[id].to => id \in DOMAIN files /\ s \in files[id]
  PROVE  DoneMeansComplete' /\ DiskTypeOK'
<1>1. /\ DOMAIN rows' = DOMAIN rows /\ nextId' = nextId
      /\ \A i \in DOMAIN rows \ {id} : rows'[i] = rows[i]
      /\ id \in DOMAIN rows => rows'[id] = [rows[id] EXCEPT !.done = TRUE]
  BY UpdatesOneRow
<1>2. id \in DOMAIN rows =>
        /\ rows'[id] \in Row
        /\ rows'[id].from = rows[id].from /\ rows'[id].to = rows[id].to
  BY <1>1 DEF IInv, TypeOK, DiskTypeOK, Row
<1>3. DoneMeansComplete'
  <2> SUFFICES ASSUME NEW i \in DOMAIN rows, rows'[i].done, i \notin cancelled, Unharmed(i),
                      NEW s \in Selected(rows'[i]) \ Unreadable, s.from < rows'[i].to
               PROVE  i \in DOMAIN files /\ s \in files[i]
    BY <1>1 DEF DoneMeansComplete, Selected, Unharmed
  <2>1. CASE i = id
    BY <1>2, <2>1 DEF Selected
  <2>2. CASE i # id
    BY <1>1, <2>2 DEF DoneMeansComplete, IInv
  <2> QED  BY <2>1, <2>2
<1>4. DiskTypeOK'
  BY <1>1, <1>2 DEF IInv, TypeOK, DiskTypeOK
<1> QED  BY <1>3, <1>4

\* The end of a job that has not been split.
LEMMA EndJobInv ==
  ASSUME IInv, MarkDone \/ Leave
  PROVE  IInv'
<1> USE DEF IInv, TypeOK, Query, RunnerGoto, RunnerReturns
<1>1. CASE MarkDone
  <2> USE <1>1 DEF MarkDone
  <2>1. DoneMeansComplete' /\ DiskTypeOK'
    <3>1. ASSUME id \in DOMAIN rows, id \notin cancelled, Unharmed(id),
                 NEW s \in Selected(rows[id]) \ Unreadable
          PROVE  id \in DOMAIN files /\ s \in files[id]
      <4>1. Selected(rows[id]) = Selected(job)
        BY <3>1 DEF RowInv, Busy, Selected
      <4> QED
        BY <3>1, <4>1 DEF FileInv, EndInv, Listing, RunnerTypeOK, Unharmed
    <3> QED  BY <3>1, MarkKeepsComplete
  <2>2. nextId' = nextId
    BY UpdatesOneRow
  <2>3. MemberTypeOK' /\ RmTypeOK' /\ CancelInv'
    BY <2>2 DEF MemberTypeOK, RmTypeOK, CancelInv
  <2>4. RunnerTypeOK' /\ CancelHitsOnlyItsJob'
    BY DEF RunnerTypeOK, Running, CancelHitsOnlyItsJob
  <2>5. RowInv' /\ FileInv' /\ EndInv' /\ SplitInv'
    BY DEF RowInv, Busy, FileInv, Listing, EndInv, SplitInv
  <2> QED  BY <2>1, <2>3, <2>4, <2>5
<1>2. CASE Leave
  <2> USE <1>2 DEF Leave
  <2>1. DiskTypeOK' /\ RmTypeOK' /\ CancelInv'
    BY DEF DiskTypeOK, RmTypeOK, CancelInv
  <2>2. MemberTypeOK' /\ RunnerTypeOK'
    BY DEF MemberTypeOK, RunnerTypeOK, Running
  <2>3. CancelHitsOnlyItsJob'
    BY DEF CancelHitsOnlyItsJob, Running
  <2>4. DoneMeansComplete'
    BY CompleteKept
  <2>5. RowInv' /\ FileInv' /\ EndInv' /\ SplitInv'
    BY DEF RowInv, Busy, FileInv, Listing, EndInv, SplitInv
  <2> QED  BY <2>1, <2>2, <2>3, <2>4, <2>5
<1> QED  BY <1>1, <1>2

\* A split, first statement: the row inserted is not done, and has the rest of the
\* range unless the job's row is gone.
LEMMA SplitInsertInv ==
  ASSUME IInv, NEW s \in rest, SplitInsert(s)
  PROVE  IInv'
<1> USE DEF IInv, TypeOK, Query, RunnerGoto, SplitInsert, SplitAt
<1>1. s \in Segments /\ s.from \in Nat
  BY ExportAssumption DEF RunnerTypeOK
<1>2. UNCHANGED <<files, requested, mainVars, memberVars, localVars, rmVars>>
  OBVIOUS
<1>3. CancelHitsOnlyItsJob'
  BY DEF CancelHitsOnlyItsJob, Running
<1>4. CASE id \notin DOMAIN rows
  <2>1. UNCHANGED <<rows, nextId>> /\ cancelled # {}
    BY <1>4 DEF RowInv, Busy
  <2>2. DiskTypeOK' /\ MemberTypeOK' /\ RmTypeOK' /\ CancelInv'
    BY <2>1 DEF DiskTypeOK, MemberTypeOK, RmTypeOK, CancelInv
  <2>3. RunnerTypeOK'
    BY DEF RunnerTypeOK, Running, QueryPcs
  <2>4. DoneMeansComplete'
    BY <2>1, CompleteKept
  <2>5. RowInv'
    BY <2>1 DEF RowInv, Busy
  <2>6. FileInv'
    BY DEF FileInv, Listing, Selected
  <2>7. EndInv' /\ SplitInv'
    BY <2>1 DEF EndInv, SplitInv
  <2> QED  BY <1>3, <2>1, <2>2, <2>3, <2>4, <2>5, <2>6, <2>7
<1>5. CASE id \in DOMAIN rows
  <2> PICK located \in {FALSE, rows[id].located} :
        Insert([from |-> s.from + 1, to |-> rows[id].to,
                done |-> FALSE, located |-> located])
    BY <1>5
  <2> DEFINE row == [from |-> s.from + 1, to |-> rows[id].to,
                     done |-> FALSE, located |-> located]
  <2>1. row \in Row
    <3>1. rows[id].to \in Nat /\ rows[id].located \in BOOLEAN
      BY <1>5 DEF Row, DiskTypeOK
    <3>2. located \in BOOLEAN
      BY <3>1
    <3> QED  BY <1>1, <3>1, <3>2 DEF Row
  <2>2. ~row.done /\ row.from = s.from + 1 /\ row.to = job.to
    BY <1>5 DEF RowInv, Busy
  <2> HIDE DEF row
  <2>3. /\ nextId \notin DOMAIN rows /\ nextId' = nextId + 1
        /\ DOMAIN rows' = DOMAIN rows \cup {nextId} /\ rows'[nextId] = row
        /\ \A i \in DOMAIN rows : rows'[i] = rows[i]
    BY InsertsOneRow DEF row
  <2>4. DiskTypeOK'
    BY <2>1, <2>3 DEF DiskTypeOK
  <2>5. MemberTypeOK' /\ RmTypeOK' /\ CancelInv'
    BY <2>3 DEF MemberTypeOK, RmTypeOK, DiskTypeOK, CancelInv
  <2>6. RunnerTypeOK'
    BY DEF RunnerTypeOK, Running, QueryPcs
  <2>7. DoneMeansComplete'
    BY <2>2, <2>3, CompleteKept
  <2>8. RowInv'
    BY <1>5, <2>3 DEF RowInv, Busy
  <2>9. FileInv'
    BY DEF FileInv, Listing, Selected
  <2>10. EndInv'
    BY DEF EndInv
  <2>11. SplitInv'
    <3>1. nextId \in DOMAIN rows' \ {id'}
      BY <1>5, <2>3
    <3>2. \A t \in Segments : Earliest(t) => t.from = s.from
      BY <1>1, ExportAssumption DEF Earliest
    <3>3. \A t \in Segments : Earliest(t) =>
            rows'[nextId].from <= t.from + 1 /\ rows'[nextId].to = job.to
      BY <1>1, <2>2, <2>3, <3>2
    <3> QED  BY <3>1, <3>3 DEF SplitInv, Earliest
  <2> QED  BY <1>3, <2>3, <2>4, <2>5, <2>6, <2>7, <2>8, <2>9, <2>10, <2>11
<1> QED  BY <1>4, <1>5

\* Second statement: the row is cut where the rest begins.
LEMMA SplitTruncateInv ==
  ASSUME IInv, NEW s \in rest, SplitTruncate(s)
  PROVE  IInv'
<1> USE DEF IInv, TypeOK, Query, RunnerGoto, SplitTruncate, SplitAt
<1>1. s \in Segments /\ s.from \in Nat
  BY ExportAssumption DEF RunnerTypeOK
<1>2. /\ DOMAIN rows' = DOMAIN rows /\ nextId' = nextId
      /\ \A i \in DOMAIN rows \ {id} : rows'[i] = rows[i]
      /\ id \in DOMAIN rows => rows'[id] = [rows[id] EXCEPT !.to = s.from]
  BY UpdatesOneRow
<1>3. id \in DOMAIN rows =>
        /\ rows'[id] \in Row /\ rows'[id].done = rows[id].done
        /\ rows'[id].from = rows[id].from /\ rows'[id].to = s.from
  BY <1>1, <1>2 DEF DiskTypeOK, Row
<1>4. DiskTypeOK'
  BY <1>2, <1>3 DEF DiskTypeOK
<1>5. MemberTypeOK' /\ RmTypeOK' /\ CancelInv'
  BY <1>2 DEF MemberTypeOK, RmTypeOK, CancelInv
<1>6. RunnerTypeOK' /\ CancelHitsOnlyItsJob'
  BY DEF RunnerTypeOK, Running, QueryPcs, CancelHitsOnlyItsJob
<1>7. DoneMeansComplete'
  BY <1>2, <1>3, CompleteKept DEF RowInv, Busy
<1>8. RowInv'
  BY <1>2, <1>3 DEF RowInv, Busy
<1>9. FileInv'
  BY DEF FileInv, Listing, Selected
<1>10. EndInv' /\ SplitInv'
  BY <1>2, <1>3 DEF EndInv, SplitInv, Earliest
<1> QED  BY <1>4, <1>5, <1>6, <1>7, <1>8, <1>9, <1>10

\* The end of a job that has been split: no segment left begins before the cut.
LEMMA SplitDoneInv ==
  ASSUME IInv, SplitDone
  PROVE  IInv'
<1> USE DEF IInv, TypeOK, Query, RunnerGoto, RunnerReturns, SplitDone
<1>1. DoneMeansComplete' /\ DiskTypeOK' /\ nextId' = nextId
  <2>1. ASSUME id \in DOMAIN rows, id \notin cancelled, Unharmed(id),
               NEW s \in Selected(rows[id]) \ Unreadable, s.from < rows[id].to
        PROVE  id \in DOMAIN files /\ s \in files[id]
    <3>1. PICK t \in rest : Earliest(t) /\ rows[id].to = t.from
      BY <2>1 DEF EndInv, Unharmed
    <3>2. s \notin rest
      <4>1. s.from \in Nat /\ t.from \in Nat
        BY ExportAssumption DEF Selected, RunnerTypeOK
      <4> QED  BY <2>1, <3>1, <4>1 DEF Earliest
    <3>3. rest \subseteq Selected(job)
      BY DEF FileInv, Listing
    <3>4. s \in Selected(job)
      BY <2>1, <3>1, <3>3, CutSelects DEF RowInv, Busy, DiskTypeOK, MemberTypeOK
    <3> QED  BY <2>1, <3>2, <3>4 DEF FileInv, Listing, RunnerTypeOK, Unharmed
  <2>2. CASE UpdateJob("done", TRUE) /\ UNCHANGED failed
    BY <2>1, <2>2, MarkKeepsComplete, UpdatesOneRow
  <2>3. CASE Fails("progress", id) /\ UNCHANGED <<rows, nextId>>
    <3>1. DoneMeansComplete'
      BY <2>3, CompleteKept DEF Fails
    <3> QED  BY <2>3, <3>1 DEF DiskTypeOK
  <2> QED  BY <2>2, <2>3
<1>2. failed' \subseteq Fallible \X Ids
  <2>1. id \in Ids
    BY DEF RowInv, Busy, MemberTypeOK
  <2>2. failed' \subseteq failed \cup {<<"progress", id>>}
    BY DEF Fails
  <2> QED  BY <2>1, <2>2 DEF Fallible, RmTypeOK
<1>3. MemberTypeOK' /\ RmTypeOK' /\ CancelInv'
  BY <1>1, <1>2 DEF MemberTypeOK, RmTypeOK, CancelInv
<1>4. RunnerTypeOK'
  BY DEF RunnerTypeOK, Running
<1>5. CancelHitsOnlyItsJob'
  BY DEF Running, CancelHitsOnlyItsJob
<1>6. RowInv' /\ FileInv' /\ EndInv' /\ SplitInv'
  BY DEF RowInv, Busy, FileInv, Listing, EndInv, SplitInv
<1> QED  BY <1>1, <1>3, <1>4, <1>5, <1>6

\* A statement that fails leaves the table as it is, and is remembered by the parts that
\* rest on its success.
LEMMA StatementFailsInv ==
  ASSUME IInv, StatementFails
  PROVE  IInv'
<1> USE DEF IInv, TypeOK, Query, RunnerGoto, StatementFails
<1>1. UNCHANGED <<diskVars, mainVars, memberVars, localVars, rmVars, cancelled>>
  OBVIOUS
<1>2. /\ failed \subseteq failed' /\ failed' \subseteq Fallible \X Ids
      /\ runner \in {"locate", "insert", "truncate", "mark"}
      /\ runner = "insert" => <<"insert", id>> \in failed'
      /\ runner = "truncate" => <<"truncate", id>> \in failed'
  BY DEF Fails, Fallible, RmTypeOK, RowInv, Busy, MemberTypeOK
<1>3. DiskTypeOK' /\ MemberTypeOK' /\ RmTypeOK' /\ CancelInv'
  BY <1>1, <1>2 DEF DiskTypeOK, MemberTypeOK, RmTypeOK, CancelInv
<1>4. RunnerTypeOK' /\ CancelHitsOnlyItsJob'
  BY <1>1 DEF RunnerTypeOK, Running, QueryPcs, CancelHitsOnlyItsJob
<1>5. DoneMeansComplete'
  BY <1>1, <1>2, CompleteKept
<1>6. RowInv'
  BY <1>1 DEF RowInv, Busy
<1>7. FileInv'
  BY <1>1, <1>2 DEF FileInv, Listing, Selected
<1>8. EndInv'
  BY <1>1, <1>2 DEF EndInv
<1>9. SplitInv'
  BY <1>1, <1>2 DEF SplitInv, Earliest
<1> QED  BY <1>3, <1>4, <1>5, <1>6, <1>7, <1>8, <1>9

\* Every step of the specification keeps the invariant.
LEMMA StepInv == IInv /\ [Next]_vars => IInv'
<1> SUFFICES ASSUME IInv, [Next]_vars PROVE IInv'
  OBVIOUS
<1>1. CASE MainStep
  <2>1. CASE \E i \in DOMAIN rows : CheckForJobs(i)
    BY <2>1, CheckForJobsInv
  <2>2. CASE ReopenDb \/ Destroy
    BY <2>2, SessionInv
  <2>3. CASE JoinRunner
    BY <2>3, NewProcessInv DEF JoinRunner, IInv, TypeOK, MemberTypeOK
  <2> QED  BY <1>1, <2>1, <2>2, <2>3 DEF MainStep
<1>2. CASE RunnerStep
  <2>1. CASE RemoveOld \/ Locate \/ SelectSegments
    BY <2>1, BeginInv
  <2>2. CASE SelectFails
    BY <2>2, SelectFailsInv
  <2>3. CASE \E s \in rest : SkipSegment(s) \/ ReadSegment(s) \/ OpenFails(s) \/ WriteSegment(s)
    BY <2>3, SegmentInv
  <2>4. CASE Progress \/ LastSegment \/ CloseOutput \/ \E s \in rest : StartSplit(s)
    BY <2>4, WalkInv
  <2>5. CASE \E s \in rest : SplitInsert(s)
    BY <2>5, SplitInsertInv
  <2>6. CASE \E s \in rest : SplitTruncate(s)
    BY <2>6, SplitTruncateInv
  <2>7. CASE MarkDone \/ Leave
    BY <2>7, EndJobInv
  <2>8. CASE SplitDone
    BY <2>8, SplitDoneInv
  <2>10. CASE StatementFails
    BY <2>10, StatementFailsInv
  <2>9. CASE ProcessDies
    BY <2>9, NewProcessInv DEF ProcessDies, IInv, TypeOK, MemberTypeOK
  <2> QED
    BY <1>2, <2>1, <2>2, <2>3, <2>4, <2>5, <2>6, <2>7, <2>8, <2>9, <2>10 DEF RunnerStep
<1>3. CASE CancelStep
  BY <1>3, RmInv DEF CancelStep
<1>4. CASE Environment
  <2>1. CASE \E r \in Requests : Request(r)
    BY <2>1, RequestInv
  <2>2. CASE \E i \in DOMAIN rows : RmSelect(i)
    BY <2>2, RmInv
  <2>3. CASE CloseDb
    BY <2>3, SessionInv
  <2>4. CASE Crash
    <3>1. restarts' \in 0..MaxRestarts
      BY <2>4, ExportAssumption DEF Crash, IInv, TypeOK, MemberTypeOK
    <3> QED  BY <2>4, <3>1, NewProcessInv DEF Crash
  <2> QED  BY <1>4, <2>1, <2>2, <2>3, <2>4 DEF Environment
<1>5. CASE UNCHANGED vars
  <2>1. DiskTypeOK' /\ MemberTypeOK' /\ RunnerTypeOK' /\ RmTypeOK'
    BY <1>5 DEF IInv, TypeOK, DiskTypeOK, MemberTypeOK, RunnerTypeOK, Running, RmTypeOK
  <2>2. CancelHitsOnlyItsJob' /\ CancelInv'
    BY <1>5 DEF IInv, CancelHitsOnlyItsJob, Running, CancelInv
  <2>3. DoneMeansComplete'
    BY <1>5, CompleteKept DEF IInv
  <2>4. RowInv'
    BY <1>5 DEF IInv, RowInv, Busy
  <2>5. FileInv'
    BY <1>5 DEF IInv, FileInv, Selected
  <2>6. EndInv' /\ SplitInv'
    BY <1>5 DEF IInv, EndInv, SplitInv, Earliest
  <2> QED  BY <2>1, <2>2, <2>3, <2>4, <2>5, <2>6 DEF IInv, TypeOK
<1> QED  BY <1>1, <1>2, <1>3, <1>4, <1>5 DEF Next
-----------------------------------------------------------------------------
(***************************************************************************)
(* The theorems.                                                           *)
(***************************************************************************)
\* Members, runner, table and files of the exporter stay in agreement.
THEOREM Invariant == Spec => []IInv
<1> QED  BY InitInv, StepInv, PTL DEF Spec

\* Every variable keeps its type, and a job is in progress exactly while its
\* runner runs.
THEOREM TypeCorrect == Spec => []TypeOK
<1>1. IInv => TypeOK
  BY DEF IInv
<1> QED  BY <1>1, Invariant, PTL

\* force_exit never stops a job that nobody cancelled, but for the end of the
\* process and an output that cannot be opened.
THEOREM CancelsOwnJob == Spec => []CancelHitsOnlyItsJob
<1>1. IInv => CancelHitsOnlyItsJob
  BY DEF IInv
<1> QED  BY <1>1, Invariant, PTL

\* An export that shows 100 % is complete, after any crashes, reloads, splits, deletions of
\* other exports and failures, other than of a write to it or of the UPDATE that cuts it.
THEOREM CompleteWhenDone == Spec => []DoneMeansComplete
<1>1. IInv => DoneMeansComplete
  BY DEF IInv
<1> QED  BY <1>1, Invariant, PTL

\* The only step that takes from the range of a row is the second statement of a
\* split, and then another row has what is cut off.
LEMMA EndsKept ==
  IInv /\ [Next]_vars =>
    (cancelled' = {} /\ <<"insert", id>> \notin failed => Ends(rows) \subseteq Ends(rows'))
<1> SUFFICES ASSUME IInv, [Next]_vars, cancelled' = {}, <<"insert", id>> \notin failed
             PROVE  Ends(rows) \subseteq Ends(rows')
  OBVIOUS
<1>1. CASE \E s \in rest : SplitTruncate(s)
  <2> PICK s \in rest : SplitTruncate(s)
    BY <1>1
  <2> USE DEF SplitTruncate, SplitAt, Query, RunnerGoto
  <2>1. /\ DOMAIN rows' = DOMAIN rows
        /\ \A i \in DOMAIN rows \ {id} : rows'[i] = rows[i]
        /\ id \in DOMAIN rows => rows'[id] = [rows[id] EXCEPT !.to = s.from]
    BY UpdatesOneRow
  <2>2. cancelled = {} /\ id \in DOMAIN rows /\ s \in Segments
    BY DEF IInv, RowInv, Busy, TypeOK, RunnerTypeOK
  <2>3. /\ rows[id] \in Row /\ rows[id].to = job.to
        /\ rows'[id].from = rows[id].from /\ rows'[id].to = s.from
    BY <2>1, <2>2 DEF IInv, RowInv, Busy, TypeOK, DiskTypeOK, Row
  <2>4. PICK k \in DOMAIN rows \ {id} :
          rows[k].from <= s.from + 1 /\ rows[k].to = job.to
    BY <2>2 DEF IInv, SplitInv
  <2>5. SUFFICES ASSUME NEW e \in Segments,
                        NEW i \in DOMAIN rows, e.to \in rows[i].from..rows[i].to
                 PROVE  \E j \in DOMAIN rows' : e.to \in rows'[j].from..rows'[j].to
    BY DEF Ends
  <2>6. /\ rows[i] \in Row /\ rows[k] \in Row
        /\ e.to \in Nat /\ s.from \in Nat
    BY <2>2, ExportAssumption DEF IInv, TypeOK, DiskTypeOK
  <2>7. CASE i # id
    BY <2>1, <2>5, <2>7
  <2>8. CASE i = id /\ e.to <= s.from
    BY <2>1, <2>2, <2>3, <2>5, <2>6, <2>8 DEF Row
  <2>9. CASE i = id /\ ~(e.to <= s.from)
    <3>1. e.to \in rows[k].from..rows[k].to
      BY <2>3, <2>4, <2>5, <2>6, <2>9 DEF Row
    <3> QED  BY <2>1, <2>4, <3>1
  <2> QED  BY <2>7, <2>8, <2>9
<1>2. CASE ~(\E s \in rest : SplitTruncate(s))
  <2>1. \A i \in DOMAIN rows :
          i \in DOMAIN rows' /\ rows'[i].from = rows[i].from /\ rows'[i].to = rows[i].to
    <3>1. CASE UNCHANGED rows
      BY <3>1
    <3>2. CASE \E r \in Requests : Request(r)
      BY <3>2, InsertsOneRow DEF Request, IInv, TypeOK
    <3>3. CASE \E s \in rest : SplitInsert(s)
      <4>1. UNCHANGED rows \/ \E row : Insert(row)
        BY <3>3 DEF SplitInsert
      <4> QED  BY <4>1, InsertsOneRow DEF IInv, TypeOK
    <3>4. CASE Locate \/ MarkDone \/ SplitDone
      <4> SUFFICES ASSUME ~UNCHANGED rows
                   PROVE  \A i \in DOMAIN rows :
                            /\ i \in DOMAIN rows' /\ rows'[i].from = rows[i].from
                            /\ rows'[i].to = rows[i].to
        BY <3>1
      <4>1. PICK field \in {"located", "done"} : UpdateJob(field, TRUE)
        BY <3>4 DEF Locate, MarkDone, SplitDone
      <4>2. /\ DOMAIN rows' = DOMAIN rows
            /\ \A i \in DOMAIN rows \ {id} : rows'[i] = rows[i]
            /\ id \in DOMAIN rows => rows'[id] = [rows[id] EXCEPT ![field] = TRUE]
        BY <4>1, UpdatesOneRow
      <4> QED  BY <4>1, <4>2 DEF IInv, TypeOK, DiskTypeOK, Row
    <3>5. CASE RmDelete
      BY <3>5 DEF RmDelete, IInv, CancelInv
    <3>6. \/ UNCHANGED rows \/ (\E r \in Requests : Request(r))
          \/ (\E s \in rest : SplitInsert(s)) \/ Locate \/ MarkDone \/ SplitDone
          \/ RmDelete
      <4>1. MainStep => UNCHANGED rows
        BY DEF MainStep, CheckForJobs, ReopenDb, Destroy, JoinRunner
      <4>2. RunnerStep => UNCHANGED rows \/ (\E s \in rest : SplitInsert(s))
                          \/ Locate \/ MarkDone \/ SplitDone
        BY <1>2 DEF RunnerStep, RemoveOld, SelectSegments, SelectFails, SkipSegment,
           ReadSegment, OpenFails, WriteSegment, StartSplit, Progress, LastSegment,
           CloseOutput, Leave, StatementFails, ProcessDies
      <4>3. CancelStep \/ Environment => UNCHANGED rows \/ RmDelete
                                         \/ \E r \in Requests : Request(r)
        BY DEF CancelStep, Environment, RmFile, RmSelect, CloseDb, Crash
      <4> QED  BY <4>1, <4>2, <4>3 DEF Next
    <3> QED  BY <3>1, <3>2, <3>3, <3>4, <3>5, <3>6
  <2> QED  BY <2>1 DEF Ends
<1> QED  BY <1>1, <1>2

\* No part of a requested range is lost by a split, whenever the process ends and
\* whichever other statement fails, unless the user deletes exports or the INSERT of this
\* split has failed.
THEOREM SplitsKeepRange == Spec => SplitKeepsRange
<1> QED  BY Invariant, EndsKept, PTL DEF Spec, SplitKeepsRange
=============================================================================
