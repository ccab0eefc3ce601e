-------------------------------- MODULE Export --------------------------------
(***************************************************************************)
(* The exporter: the main thread picks a row of the table exports and      *)
(* starts a runner thread for it, the remote worker cancels exports, and   *)
(* the process may be reloaded, restarted or crash at any point.           *)
(*                                                                         *)
(* Each step of the runner and of RM-EXPORT makes one query or one change  *)
(* of a file; between them any other thread may run.  Of the column        *)
(* progress only "is it 100" is kept, of path whether it is the directory  *)
(* of the file.                                                            *)
(***************************************************************************)
EXTENDS Integers, FiniteSets

CONSTANTS
  Formats,      \* formats of segments: extension and codec
  NoFormat,     \* none of them: no segment looked at yet
  Segments,     \* rows of videos: [from, to, format]
  Unreadable,   \* segments whose file cannot be opened or copied
  Requests,     \* ranges requested through the web page, each at most once
  MaxRestarts,  \* bound on reloads, restarts and crashes
  Faults,       \* may the query for segments, or opening the output, fail?
  MaxFailures   \* bound on failures that the code takes no notice of

ASSUME ExportAssumption ==
  /\ Segments \subseteq [from : Nat, to : Nat, format : Formats]
  /\ NoFormat \notin Formats
  /\ \A s \in Segments : s.from <= s.to
  /\ Unreadable \subseteq Segments
  /\ Requests \subseteq [from : Nat, to : Nat]
  /\ {MaxRestarts, MaxFailures} \subseteq Nat
  /\ Faults \in BOOLEAN

VARIABLES
  \* what survives a crash
  rows,         \* the table exports, by id
  nextId,       \* its AUTO_INCREMENT
  files,        \* the exported files on disk: the segments in each, by id
  requested,    \* requests made so far
  \* main thread
  main,         \* "loop", "closed" (database closed), "destroy"
  restarts,
  \* the exporter's members; its mutex is held while rm # "idle"
  id, job, inProgress, forceExit,
  \* runner thread: where it is in run_job(), and its local variables
  runner, rest, format, opened,
  \* remote worker: where it is in rm_export(), and the row it has read
  rm, rmId, rmLocated,
  \* history: the exports the user has asked to delete; statements and writes that
  \* have failed, with the export they were for
  cancelled, failed

diskVars   == <<rows, nextId, files, requested>>
mainVars   == <<main, restarts>>
jobVars    == <<id, job>>
memberVars == <<jobVars, inProgress, forceExit>>
localVars  == <<rest, format, opened>>
runnerVars == <<runner, localVars>>
rmVars     == <<rm, rmId, rmLocated>>
historyVars == <<cancelled, failed>>
vars == <<diskVars, mainVars, memberVars, runnerVars, rmVars, historyVars>>

NoId == 0   \* Export::id between jobs
Row == [from : Nat, to : Nat, done : BOOLEAN, located : BOOLEAN]
NoRow == [from |-> 0, to |-> 0, done |-> FALSE, located |-> FALSE]

Running == runner # "none"

Without(f, x) == [y \in DOMAIN f \ {x} |-> f[y]]
With(f, x, v) == [y \in DOMAIN f \cup {x} |-> IF y = x THEN v ELSE f[y]]

\* INSERT INTO exports.
Insert(row) == rows' = With(rows, nextId, row) /\ nextId' = nextId + 1

\* UPDATE exports SET field = v WHERE id = (the job): nothing if it is gone.
UpdateJob(field, v) ==
  /\ rows' = IF id \in DOMAIN rows
               THEN [rows EXCEPT ![id] = [@ EXCEPT ![field] = v]] ELSE rows
  /\ UNCHANGED nextId

\* A statement or a write for export i fails, once, and the code goes on.
Fallible == {"path", "progress", "write", "insert", "truncate"}
Fails(what, i) ==
  /\ Cardinality(failed) < MaxFailures /\ <<what, i>> \notin failed
  /\ failed' = failed \cup {<<what, i>>}

\* The segments the query of run_job() selects: those that begin or end inside
\* the range.
Selected(r) == {s \in Segments : s.from \in r.from..r.to \/ s.to \in r.from..r.to}

\* ORDER BY starttime.
Earliest(s) == s \in rest /\ \A t \in rest : s.from <= t.from
-----------------------------------------------------------------------------
Init ==
  /\ rows = <<>> /\ nextId = 1 /\ files = <<>> /\ requested = {}
  /\ main = "loop" /\ restarts = 0
  /\ id = NoId /\ job = NoRow /\ inProgress = FALSE /\ forceExit = FALSE
  /\ runner = "none" /\ rest = {} /\ format = NoFormat /\ opened = FALSE
  /\ rm = "idle" /\ rmId = NoId /\ rmLocated = FALSE
  /\ cancelled = {} /\ failed = {}

\* The process is gone, with its members and threads; a new one is started.
NewProcess ==
  /\ main' = "loop"
  /\ id' = NoId /\ job' = NoRow /\ inProgress' = FALSE /\ forceExit' = FALSE
  /\ runner' = "none" /\ rest' = {} /\ format' = NoFormat /\ opened' = FALSE
  /\ rm' = "idle" /\ rmId' = NoId /\ rmLocated' = FALSE
  /\ UNCHANGED historyVars
-----------------------------------------------------------------------------
(***************************************************************************)
(* The environment.                                                        *)
(***************************************************************************)
\* The web page inserts a row.
Request(r) ==
  /\ r \notin requested
  /\ requested' = requested \cup {r}
  /\ Insert([from |-> r.from, to |-> r.to, done |-> FALSE, located |-> FALSE])
  /\ UNCHANGED <<files, mainVars, memberVars, runnerVars, rmVars, historyVars>>

Crash ==
  /\ restarts < MaxRestarts /\ restarts' = restarts + 1
  /\ NewProcess
  /\ UNCHANGED diskVars
-----------------------------------------------------------------------------
(***************************************************************************)
(* Main thread.                                                            *)
(***************************************************************************)
\* Mutation: the flag of the last job is kept.
MutKeepForceExit(i) ==
  /\ main = "loop" /\ ~inProgress /\ rm = "idle" /\ ~Running
  /\ i \in DOMAIN rows /\ ~rows[i].done
  /\ id' = i /\ job' = rows[i]
  /\ inProgress' = TRUE
  /\ runner' = "start"
  /\ UNCHANGED <<diskVars, mainVars, forceExit, localVars, rmVars, historyVars>>

\* check_for_jobs() and start_job(): the last runner is joined and replaced.
\* Any unfinished row may be the one that LIMIT 1 returns.
CheckForJobs(i) ==
  /\ main = "loop" /\ ~inProgress /\ rm = "idle" /\ ~Running
  /\ i \in DOMAIN rows /\ ~rows[i].done
  /\ id' = i /\ job' = rows[i]
  /\ inProgress' = TRUE /\ forceExit' = FALSE
  /\ runner' = "start"
  /\ UNCHANGED <<diskVars, mainVars, localVars, rmVars, historyVars>>

\* The end of run_instance(): the remote worker is joined, the exporter is not,
\* and the database is closed.
CloseDb ==
  /\ main = "loop" /\ rm = "idle"
  /\ restarts < MaxRestarts /\ restarts' = restarts + 1
  /\ main' = "closed"
  /\ UNCHANGED <<diskVars, memberVars, runnerVars, rmVars, historyVars>>

\* The next instance connects it again.
ReopenDb ==
  /\ main = "closed" /\ main' = "loop"
  /\ UNCHANGED <<diskVars, restarts, memberVars, runnerVars, rmVars, historyVars>>

\* Export::~Export: the runner is told to end,
Destroy ==
  /\ main = "closed" /\ main' = "destroy"
  /\ forceExit' = TRUE
  /\ UNCHANGED <<diskVars, restarts, jobVars, inProgress, runnerVars, rmVars, historyVars>>

\* and joined.  The service is started again later.
JoinRunner ==
  /\ main = "destroy" /\ ~Running
  /\ NewProcess
  /\ UNCHANGED <<diskVars, restarts>>
-----------------------------------------------------------------------------
(***************************************************************************)
(* The runner thread: run_job().                                           *)
(***************************************************************************)
RunnerGoto(from, to) == runner = from /\ runner' = to

\* run_job() returns, its local variables are gone.
RunnerReturns(from) ==
  /\ RunnerGoto(from, "none")
  /\ rest' = {} /\ format' = NoFormat /\ opened' = FALSE

\* Where its next step is a query.
QueryPcs == {"start", "locate", "select", "insert", "truncate", "splitdone",
             "progress", "mark"}
Query(from, to) == main = "loop" /\ RunnerGoto(from, to)

\* What ends the process: a query on a closed connection, where the client
\* library follows a null pointer, and the progress of a job of length 0, which
\* is a division by zero (Progress, where the hardware makes it 0).
Fault ==
  \/ main # "loop" /\ runner \in QueryPcs
  \/ runner = "progress" /\ job.from = job.to

ProcessDies ==
  /\ Fault
  /\ NewProcess
  /\ UNCHANGED <<diskVars, restarts>>

\* The camera's configuration is loaded, and what an earlier run of the same
\* job has left is removed.
RemoveOld ==
  /\ Query("start", "locate")
  /\ files' = IF job.located THEN Without(files, id) ELSE files
  /\ UNCHANGED <<rows, nextId, requested, mainVars, memberVars, localVars, rmVars, historyVars>>

\* get_export_path() stores the path; then progress is set to 1.
Locate ==
  /\ Query("locate", "select")
  /\ UpdateJob("located", TRUE)
  /\ UNCHANGED <<files, requested, mainVars, memberVars, localVars, rmVars, historyVars>>

SelectSegments ==
  /\ Query("select", "segment")
  /\ rest' = Selected(job) /\ format' = NoFormat /\ opened' = FALSE
  /\ UNCHANGED <<diskVars, mainVars, memberVars, rmVars, historyVars>>

\* Mutation: the failed query leaves export_in_progress set.
MutSelectFails ==
  /\ Faults /\ Query("select", "none")
  /\ UNCHANGED <<diskVars, mainVars, memberVars, localVars, rmVars, historyVars>>

SelectFails ==
  /\ Faults /\ Query("select", "none")
  /\ inProgress' = FALSE
  /\ UNCHANGED <<diskVars, mainVars, jobVars, forceExit, localVars, rmVars, historyVars>>

\* The format of the first row, readable or not, is that of the export.
SameFormat(s) == format \in {NoFormat, s.format} /\ format' = s.format

SkipSegment(s) ==
  /\ runner = "segment" /\ Earliest(s) /\ s \in Unreadable /\ SameFormat(s)
  /\ rest' = rest \ {s}
  /\ UNCHANGED <<diskVars, mainVars, memberVars, runner, opened, rmVars, historyVars>>

\* The output is opened for the first segment that can be read.
ReadSegment(s) ==
  /\ Earliest(s) /\ s \notin Unreadable /\ SameFormat(s)
  /\ RunnerGoto("segment", "write")
  /\ opened' = TRUE
  /\ files' = IF opened THEN files ELSE With(files, id, {})
  /\ UNCHANGED <<rows, nextId, requested, mainVars, memberVars, rest, rmVars, historyVars>>

OpenFails(s) ==
  /\ Faults /\ ~opened /\ Earliest(s) /\ s \notin Unreadable /\ SameFormat(s)
  /\ RunnerGoto("segment", "close")
  /\ forceExit' = TRUE
  /\ UNCHANGED <<diskVars, mainVars, jobVars, inProgress, rest, opened, rmVars, historyVars>>

\* All frames of the segment are written, to nowhere if the file has been
\* removed, and only then is force_exit looked at.  Nobody asks whether write()
\* has written them.
WriteSegment(s) ==
  /\ Earliest(s)
  /\ RunnerGoto("write", IF forceExit THEN "close" ELSE "progress")
  /\ rest' = rest \ {s}
  /\ \/ /\ files' = IF id \in DOMAIN files THEN [files EXCEPT ![id] = @ \cup {s}] ELSE files
        /\ UNCHANGED failed
     \/ Fails("write", id) /\ UNCHANGED files
  /\ UNCHANGED <<rows, nextId, requested, mainVars, memberVars, format, opened,
                 rmVars, cancelled>>

\* update_progress() with a value below 100, or none if it has not grown.
Progress ==
  /\ \/ Query("progress", "segment")
     \/ RunnerGoto("progress", "segment")
  /\ UNCHANGED <<diskVars, mainVars, memberVars, localVars, rmVars, historyVars>>

LastSegment ==
  /\ rest = {} /\ RunnerGoto("segment", "close")
  /\ UNCHANGED <<diskVars, mainVars, memberVars, localVars, rmVars, historyVars>>

\* Mutation: a cancelled or interrupted export is marked as finished.
MutCloseOutput ==
  /\ RunnerGoto("close", "mark")
  /\ UNCHANGED <<diskVars, mainVars, memberVars, localVars, rmVars, historyVars>>

\* out.close(), and the last look at force_exit.
CloseOutput ==
  /\ RunnerGoto("close", IF forceExit THEN "leave" ELSE "mark")
  /\ UNCHANGED <<diskVars, mainVars, memberVars, localVars, rmVars, historyVars>>

MarkDone ==
  /\ Query("mark", "leave")
  /\ UpdateJob("done", TRUE)
  /\ UNCHANGED <<files, requested, mainVars, memberVars, localVars, rmVars, historyVars>>

Leave ==
  /\ RunnerReturns("leave")
  /\ id' = NoId /\ inProgress' = FALSE
  /\ UNCHANGED <<diskVars, mainVars, job, forceExit, rmVars, historyVars>>

\* split_export() at a segment of another format: a row for the rest of the
\* range is inserted.  It copies the path, right if its directory is the same.
SplitAt(s) == Earliest(s) /\ format \notin {NoFormat, s.format}

StartSplit(s) ==
  /\ SplitAt(s) /\ RunnerGoto("segment", "insert")
  /\ UNCHANGED <<diskVars, mainVars, memberVars, localVars, rmVars, historyVars>>

\* Mutation: the range of the job is cut before the rest of it is copied.
MutSplitInsert(s) ==
  /\ SplitAt(s) /\ Query("insert", "truncate")
  /\ UpdateJob("to", s.from)
  /\ UNCHANGED <<files, requested, mainVars, memberVars, localVars, rmVars, historyVars>>

SplitInsert(s) ==
  /\ SplitAt(s) /\ Query("insert", "truncate")
  /\ IF id \in DOMAIN rows
       THEN \E located \in {FALSE, rows[id].located} :
              Insert([from |-> s.from + 1, to |-> rows[id].to,
                      done |-> FALSE, located |-> located])
       ELSE UNCHANGED <<rows, nextId>>
  /\ UNCHANGED <<files, requested, mainVars, memberVars, localVars, rmVars, historyVars>>

SplitTruncate(s) ==
  /\ SplitAt(s) /\ Query("truncate", "splitdone")
  /\ UpdateJob("to", s.from)
  /\ UNCHANGED <<files, requested, mainVars, memberVars, localVars, rmVars, historyVars>>

\* The split job is finished, whatever force_exit says, and id is kept.
SplitDone ==
  /\ main = "loop" /\ RunnerReturns("splitdone")
  /\ \/ UpdateJob("done", TRUE) /\ UNCHANGED failed
     \/ Fails("progress", id) /\ UNCHANGED <<rows, nextId>>
  /\ inProgress' = FALSE
  /\ UNCHANGED <<files, requested, mainVars, jobVars, forceExit, rmVars, cancelled>>

\* An UPDATE or INSERT of run_job(), or one of the two statements of split_export(),
\* fails.  What they return is at most logged, and the job goes on as if they had not.
StatementFails ==
  /\ \/ Query("locate", "select") /\ Fails("path", id)
     \/ Query("insert", "truncate") /\ Fails("insert", id)
     \/ Query("truncate", "splitdone") /\ Fails("truncate", id)
     \/ Query("mark", "leave") /\ Fails("progress", id)
  /\ UNCHANGED <<diskVars, mainVars, memberVars, localVars, rmVars, cancelled>>
-----------------------------------------------------------------------------
(***************************************************************************)
(* The remote worker: rm_export(), which holds the exporter's mutex.       *)
(***************************************************************************)
RmSelect(i) ==
  /\ main = "loop" /\ rm = "idle" /\ i \in DOMAIN rows
  /\ rm' = "file" /\ rmId' = i /\ rmLocated' = rows[i].located
  /\ forceExit' = (forceExit \/ id = i)
  /\ cancelled' = cancelled \cup {i}
  /\ UNCHANGED <<diskVars, mainVars, jobVars, inProgress, runnerVars, failed>>

RmFile ==
  /\ rm = "file" /\ rm' = "delete"
  /\ files' = IF rmLocated THEN Without(files, rmId) ELSE files
  /\ UNCHANGED <<rows, nextId, requested, mainVars, memberVars, runnerVars,
                 rmId, rmLocated, historyVars>>

RmDelete ==
  /\ rm = "delete" /\ rm' = "idle"
  /\ rows' = Without(rows, rmId)
  /\ rmId' = NoId /\ rmLocated' = FALSE
  /\ UNCHANGED <<nextId, files, requested, mainVars, memberVars, runnerVars, historyVars>>
-----------------------------------------------------------------------------
MainStep ==
  (\E i \in DOMAIN rows : CheckForJobs(i)) \/ ReopenDb \/ Destroy \/ JoinRunner

RunnerStep ==
  \/ RemoveOld \/ Locate \/ SelectSegments \/ SelectFails
  \/ \E s \in rest : \/ SkipSegment(s) \/ ReadSegment(s) \/ OpenFails(s)
                     \/ WriteSegment(s)
                     \/ StartSplit(s) \/ SplitInsert(s) \/ SplitTruncate(s)
  \/ Progress \/ LastSegment \/ CloseOutput \/ MarkDone \/ Leave \/ SplitDone
  \/ StatementFails
  \/ ProcessDies

CancelStep == RmFile \/ RmDelete

Environment ==
  \/ (\E r \in Requests : Request(r)) \/ (\E i \in DOMAIN rows : RmSelect(i))
  \/ CloseDb \/ Crash

Next == MainStep \/ RunnerStep \/ CancelStep \/ Environment

Spec == Init /\ [][Next]_vars

\* Every thread that can run runs; the query for segments and the opening of
\* the output do not fail for ever.
FairSpec ==
  /\ Spec
  /\ SF_vars(MainStep) /\ WF_vars(RunnerStep) /\ WF_vars(CancelStep)
  /\ SF_vars(SelectSegments)
  /\ SF_vars(\E s \in rest : ReadSegment(s))
-----------------------------------------------------------------------------
(***************************************************************************)
(* Properties.                                                             *)
(***************************************************************************)
\* Every variable has its type, and the runner exists while a job is in progress.
Ids == 1..(nextId - 1)

DiskTypeOK ==
  /\ nextId \in Nat \ {0}
  /\ DOMAIN rows \subseteq Ids /\ \A i \in DOMAIN rows : rows[i] \in Row
  /\ DOMAIN files \subseteq Ids /\ \A i \in DOMAIN files : files[i] \subseteq Segments
  /\ requested \subseteq Requests

MemberTypeOK ==
  /\ main \in {"loop", "closed", "destroy"} /\ restarts \in 0..MaxRestarts
  /\ id \in Ids \cup {NoId} /\ job \in Row
  /\ inProgress \in BOOLEAN /\ forceExit \in BOOLEAN

RunnerTypeOK ==
  /\ runner \in QueryPcs \cup {"none", "segment", "write", "close", "leave"}
  /\ inProgress <=> Running
  /\ rest \subseteq Segments /\ format \in Formats \cup {NoFormat}
  /\ opened \in BOOLEAN

RmTypeOK ==
  /\ rm \in {"idle", "file", "delete"} /\ rmId \in Ids \cup {NoId}
  /\ rmLocated \in BOOLEAN /\ cancelled \subseteq Ids
  /\ failed \subseteq Fallible \X Ids

TypeOK == DiskTypeOK /\ MemberTypeOK /\ RunnerTypeOK /\ RmTypeOK

\* force_exit stops a running job only if that job itself has been cancelled, the
\* process ends, or its output could not be opened: cancelling one export never
\* cancels the next one, although both use the one flag.
CancelHitsOnlyItsJob ==
  forceExit /\ Running =>
    \/ id \in cancelled
    \/ main = "destroy"
    \/ ~opened /\ runner \in {"close", "leave"}

\* An export that shows 100 % and that nobody asked to delete has on disk every
\* readable segment that its range selects; the segment a split job was cut at belongs to
\* the rest.  This holds across crashes, restarts, repeated runs and failures of any
\* statement for any export, but for two, neither of which anybody notices: a write to
\* the output, and the UPDATE that cuts the range of a job that is split.
Unharmed(i) == <<"write", i>> \notin failed /\ <<"truncate", i>> \notin failed

DoneMeansComplete ==
  \A i \in DOMAIN rows : rows[i].done /\ i \notin cancelled /\ Unharmed(i) =>
    \A s \in Selected(rows[i]) \ Unreadable :
      s.from < rows[i].to => i \in DOMAIN files /\ s \in files[i]

\* A split never loses a part of the range, not even if the process ends between
\* its two statements or the second one fails: a segment that ends inside the range
\* of some row still does, unless the user deletes exports or the first statement
\* failed for this job, after which the second one is executed all the same.
Ends(table) ==
  {s \in Segments : \E i \in DOMAIN table : s.to \in table[i].from..table[i].to}

SplitKeepsRange ==
  [][cancelled' = {} /\ <<"insert", id>> \notin failed => Ends(rows) \subseteq Ends(rows')]_vars

AllDone == \A i \in DOMAIN rows : rows[i].done
Zero == \E i \in DOMAIN rows : ~rows[i].done /\ rows[i].from = rows[i].to

\* Every export, those split off included, is finished or deleted in the end and
\* stays so, although jobs fail, are cancelled and interrupted in any order;
\* unless a job that was cut to length 0 waits to be run again.
JobsEnd == <>[]AllDone \/ []<>Zero
-----------------------------------------------------------------------------
(***************************************************************************)
(* What comments and documentation say and the code does not do.           *)
(***************************************************************************)
\* README.md: "you can then reload the daemon".  A reload, which closes the
\* database and connects it again, does not end the process while an export runs.
ReloadKeepsProcess == [][ProcessDies => main # "closed"]_vars

\* export.hpp: "checks for any pending export jobs and executes them".  Every
\* export is finished or deleted in the end.
AllJobsEnd == <>[]AllDone
=============================================================================
