---------------------------- MODULE FileManager ----------------------------
(***************************************************************************)
(* Segments on disk and in the table videos: the camera threads that add   *)
(* them, the two threads that clean the disk, the removal of broken        *)
(* segments when an instance starts, locks, and what a crash leaves       *)
(* behind.                                                                 *)
(*                                                                         *)
(* A file is named by its camera and the time at which it begins, which       *)
(* also gives its directory (camera and hour).  Space is counted in        *)
(* blocks.  When a camera cuts is the question of module Recorder: here it *)
(* does so at any time.                                                    *)
(***************************************************************************)
EXTENDS Integers, FiniteSetsExt

CONSTANTS
  Cameras,
  Elsewhere,      \* cameras with an output-dir of their own
  MaxTime,        \* timestamps are 1..MaxTime
  HourLength,
  Blocks,         \* size of the filesystem
  MinFreeSpace, IsPercent, TooSmall, DefaultMinFree,    \* min-free-space
  Extra,          \* segments that clean_disk() asks for at least (10, and its estimate)
  Reservation,    \* what an export reserves at once
  MaxRows, MaxFaults, MaxLocks, MaxReserved     \* bounds; MaxFaults is one for all that goes wrong

None == 0
Times == 1..MaxTime
Cleaners == {"main", "exporter"}

ASSUME FileManagerAssumption ==
  /\ Elsewhere \subseteq Cameras /\ None \notin Cameras /\ IsPercent \in BOOLEAN
  /\ {MaxTime, HourLength, Blocks, DefaultMinFree, Reservation} \subseteq Nat \ {0}
  /\ {MinFreeSpace, TooSmall, Extra, MaxRows, MaxFaults, MaxLocks, MaxReserved} \subseteq Nat

VARIABLES
  videos,     \* the table: id, camera, name, start, end (None is NULL), locked
  lastId,     \* the last id that the table gave out
  files,      \* segment files: blocks by camera and name
  dirs,       \* directories: camera and hour
  \* camera threads: place in run(), file_id, last_filename, file they have open, begin
  \* of the segment; while they cut the id of the row before
  place, fileId, lastName, output, begun, oldId,
  loose,      \* blocks of an open file that has no name any more
  main,       \* main thread: "boot", "broken", "loop"
  broken,     \* rows still to be removed
  \* cleanup_mtx; its owner's place, target_clear, rows of the query, the row at hand,
  \* segment_count
  cleaner, cleaning, target, batch, victim, count, reserved,
  exporter,   \* "idle", "clean" (waits for the mutex)
  faults, crashes, jumps, locks,   \* failures, crashes, clocks that go back, locks so far
  \* history: files locked or unlocked since the query of the pass that runs, the last id
  \* at that time, and files that have lost broken segments since; the file that its last
  \* rm_file() did not find or could not remove; whether a camera has had an id that is not
  \* its own; files some of whose broken rows were left by a crash
  lateLocks, mark, thinned, missed, stale, torn

fileVars   == <<files, dirs, loose>>
cameraVars == <<place, fileId, lastName, output, begun, oldId>>
runVars    == <<cleaner, cleaning, target, batch, victim, count, lateLocks, mark>>
passVars   == <<runVars, thinned>>
exportVars == <<reserved, exporter>>
crashVars  == <<crashes, torn>>
vars == <<videos, lastId, fileVars, cameraVars, main, broken, passVars, exportVars, faults,
          crashVars, jumps, locks, missed, stale>>

Dir(f) == <<f[1], f[2] \div HourLength>>
File(r) == <<r.camera, r.name>>
RowsOf(f) == {r \in videos : File(r) = f}

MinFree ==
  LET v == IF IsPercent THEN (Blocks * MinFreeSpace) \div 100 ELSE MinFreeSpace
  IN IF v <= TooSmall THEN DefaultMinFree ELSE v

\* statvfs() of output-dir.
Free == Blocks - MapThenSumSet(LAMBDA c : loose[c], Cameras \ Elsewhere)
          - MapThenSumSet(LAMBDA f : files[f], {f \in DOMAIN files : f[1] \notin Elsewhere})

Init ==
  /\ videos = {} /\ lastId = 0 /\ files = << >> /\ dirs = {}
  /\ place = [c \in Cameras |-> "off"] /\ fileId = [c \in Cameras |-> 0]
  /\ lastName = [c \in Cameras |-> None] /\ output = [c \in Cameras |-> None]
  /\ begun = [c \in Cameras |-> None] /\ oldId = [c \in Cameras |-> 0]
  /\ loose = [c \in Cameras |-> 0]
  /\ main = "boot" /\ broken = {}
  /\ cleaner = "none" /\ cleaning = "file" /\ target = 0 /\ batch = {} /\ victim = << >>
  /\ count = 0 /\ reserved = 0 /\ exporter = "idle"
  /\ faults = 0 /\ jumps = 0 /\ locks = 0 /\ lateLocks = {} /\ mark = 0 /\ thinned = {}
  /\ missed = {} /\ stale = FALSE /\ crashes = 0 /\ torn = {}

\* A query, or an operation on a file, that may fail.
Ok == UNCHANGED faults
GoesWrong == faults + crashes + jumps < MaxFaults
Fails == GoesWrong /\ faults' = faults + 1

\* A time before t0 is a clock, or a camera, that went backwards.
NotBefore(t, t0) == IF t >= t0 THEN UNCHANGED jumps
                    ELSE GoesWrong /\ jumps' = jumps + 1

-----------------------------------------------------------------------------
(* Queries and files *)

\* update_file_metadata().
SetEnd(id, t) ==
  \/ Ok /\ videos' = {IF r.id = id THEN [r EXCEPT !.end = t] ELSE r : r \in videos}
  \/ Fails /\ UNCHANGED videos

Name(c, t, extend) == IF extend /\ lastName[c] # None THEN lastName[c] ELSE t

\* get_next_path().  When the INSERT fails file_id takes whatever id the shared
\* connection saw last.
NextPath(c, t, extend) ==
  LET name == Name(c, t, extend)
      row == [id |-> lastId + 1, camera |-> c, name |-> name, start |-> t, end |-> None,
              locked |-> FALSE]
  IN /\ lastId < MaxRows
     /\ lastName' = [lastName EXCEPT ![c] = name] /\ begun' = [begun EXCEPT ![c] = t]
     /\ dirs' = dirs \cup {Dir(<<c, name>>)}
     /\ \/ /\ Ok /\ videos' = videos \cup {row} /\ lastId' = lastId + 1
           /\ fileId' = [fileId EXCEPT ![c] = lastId + 1]
        \/ /\ Fails /\ UNCHANGED <<videos, lastId>>
           /\ \E id \in 0..lastId : fileId' = [fileId EXCEPT ![c] = id]
     /\ stale' = (stale \/ faults' # faults)

\* No two segments of a camera begin in the same millisecond: neither one that is left, nor
\* the first one of a file that is.
Fresh(c, t) ==
  /\ NotBefore(t, Max({r.start : r \in {q \in videos : q.camera = c}} \cup {begun[c]}))
  /\ \A r \in videos : r.camera = c => t \notin {r.start, r.name}
  /\ <<c, t>> \notin DOMAIN files /\ output[c] # t
  /\ \A x \in batch \cup Range(victim) : x.file # <<c, t>>

\* close() of what the camera has open, and avio_open(), which needs the directory.
Reopen(c) ==
  LET f == <<c, lastName[c]>>
  IN /\ loose' = [loose EXCEPT ![c] = 0]
     /\ \/ /\ Dir(f) \in dirs /\ Ok
           /\ files' = [g \in DOMAIN files \cup {f} |-> IF g = f THEN 0 ELSE files[g]]
           /\ output' = [output EXCEPT ![c] = lastName[c]]
        \/ /\ (Dir(f) \notin dirs /\ Ok) \/ (Dir(f) \in dirs /\ Fails)
           /\ UNCHANGED files
           /\ output' = [output EXCEPT ![c] = None]

-----------------------------------------------------------------------------
(* Camera threads *)

notCamera == <<main, broken, passVars, exportVars, crashVars, locks, missed>>
notVideo == <<notCamera, videos, lastId, jumps>>
Goes(c, from, to) == place[c] = from /\ place' = [place EXCEPT ![c] = to]

\* The Camera object is not used any more.
Gone(c) ==
  /\ fileId' = [fileId EXCEPT ![c] = 0] /\ lastName' = [lastName EXCEPT ![c] = None]
  /\ begun' = [begun EXCEPT ![c] = None]

\* run() has connected: the path of the first segment,
Begin(c) ==
  /\ main = "loop" /\ Goes(c, "off", "open")
  /\ \E t \in Times : Fresh(c, t) /\ NextPath(c, t, FALSE)
  /\ UNCHANGED <<notCamera, files, loose, output, oldId>>

\* and, when all streams are set up, its file.  Writes to a file that could not be
\* opened fail, and run() ends.
Open(c) ==
  /\ Goes(c, "open", "record") /\ Reopen(c)
  /\ UNCHANGED <<notVideo, dirs, fileId, lastName, begun, oldId, stale>>

\* The streams cannot be set up: the row stays as it is.
SetupFails(c) ==
  /\ Goes(c, "open", "off") /\ Gone(c)
  /\ UNCHANGED <<notVideo, fileVars, output, oldId, faults, stale>>

\* The size of a file of a camera with an output-dir of its own matters to nothing here.
Grow(c) ==
  /\ place[c] = "record" /\ output[c] # None
  /\ c \notin Elsewhere /\ Free > 0
  /\ IF <<c, output[c]>> \in DOMAIN files
     THEN files' = [files EXCEPT ![<<c, output[c]>>] = @ + 1] /\ UNCHANGED loose
     ELSE loose' = [loose EXCEPT ![c] = @ + 1] /\ UNCHANGED files
  /\ UNCHANGED <<notVideo, dirs, cameraVars, faults, stale>>

MutCutExtend(c) ==
  /\ Goes(c, "record", "extend") /\ output[c] # None
  /\ \E t \in (begun[c] + 1)..MaxTime : Fresh(c, t) /\ Ok /\ begun' = [begun EXCEPT ![c] = t]
  /\ UNCHANGED <<notCamera, videos, lastId, fileVars, fileId, lastName, output, oldId, stale>>

\* cut_video() at a keyframe of time t.  In the same file: the end of the segment,
CutExtend(c) ==
  /\ Goes(c, "record", "extend") /\ output[c] # None
  /\ \E t \in (begun[c] + 1)..MaxTime :
       Fresh(c, t) /\ SetEnd(fileId[c], t) /\ begun' = [begun EXCEPT ![c] = t]
  /\ UNCHANGED <<notCamera, lastId, fileVars, fileId, lastName, output, oldId,
                 stale>>

\* and the row of the next one.
ExtendRow(c) ==
  /\ Goes(c, "extend", "record") /\ NextPath(c, begun[c], TRUE)
  /\ UNCHANGED <<notCamera, jumps, files, loose, output, oldId>>

\* In a new file, whose time may be earlier: its row,
CutNew(c) ==
  /\ Goes(c, "record", "reopen") /\ output[c] # None
  /\ \E t \in Times : Fresh(c, t) /\ NextPath(c, t, FALSE)
  /\ oldId' = [oldId EXCEPT ![c] = fileId[c]]
  /\ UNCHANGED <<notCamera, files, loose, output>>

\* the file,
ChangePath(c) ==
  /\ Goes(c, "reopen", "cut") /\ Reopen(c)
  /\ UNCHANGED <<notVideo, dirs, fileId, lastName, begun, oldId, stale>>

MutOldRow(c) == fileId[c]
OldRow(c) == oldId[c]

\* and the end of the segment before.
CloseOld(c) ==
  /\ Goes(c, "cut", "record") /\ SetEnd(OldRow(c), begun[c])
  /\ oldId' = [oldId EXCEPT ![c] = 0]
  /\ UNCHANGED <<notCamera, jumps, lastId, fileVars, fileId, lastName, output, begun,
                 stale>>

\* The end of run(): of the stream, on request, or after a write that failed.
End(c) ==
  /\ Goes(c, "record", "off")
  /\ \E t \in Times : NotBefore(t, begun[c]) /\ SetEnd(fileId[c], t)
  /\ output' = [output EXCEPT ![c] = None] /\ loose' = [loose EXCEPT ![c] = 0]
  /\ Gone(c)
  /\ UNCHANGED <<notCamera, lastId, files, dirs, oldId, stale>>

-----------------------------------------------------------------------------
(* clean_disk() *)

notCleaner == <<lastId, cameraVars, main, broken, crashVars, jumps, locks, stale>>
MutBefore(x, y) == x.key >= y.key
Before(x, y) == x.key <= y.key

MutUnlocked(f) == \E r \in RowsOf(f) : ~r.locked
Unlocked(f) == \A r \in RowsOf(f) : ~r.locked

\* The rows of the query, a file each: with the start that it is ordered by, of any of
\* its rows, as the query does not say which.
Groups ==
  LET fs == {f \in {File(r) : r \in videos} : Unlocked(f)}
      Starts(f) == {r.start : r \in RowsOf(f)}
  IN {{[file |-> f, key |-> k[f]] : f \in fs} :
        k \in {g \in [fs -> Times] : \A f \in fs : g[f] \in Starts(f)}}

\* get_target_free_bytes() and the query, for at least Extra files: how many more depends
\* on bytes_per_segment, which is left out.
CleanDisk(w) ==
  LET bytes == MinFree + reserved - Free
  IN /\ cleaner = "none" /\ reserved' = 0
     /\ IF bytes <= 0 THEN UNCHANGED <<passVars, faults>>
        ELSE /\ cleaner' = w /\ cleaning' = "file" /\ target' = bytes
             /\ \/ Fails /\ batch' = {}
                \/ /\ Ok
                   /\ \E rows \in Groups : \E rest \in SUBSET rows :
                        /\ batch' = rows \ rest
                        /\ rest # {} => Cardinality(batch') >= Extra
                        /\ \A x \in batch', y \in rest : Before(x, y)
             /\ lateLocks' = {} /\ mark' = lastId /\ thinned' = {}
             /\ UNCHANGED <<victim, count>>

MainCleans ==
  /\ main = "loop" /\ CleanDisk("main")
  /\ UNCHANGED <<notCleaner, videos, fileVars, exporter, missed>>

\* rmdir_r(): whether the directory d is left when f has gone.
MutStays(d, f) == d # Dir(f) \/ f[1] \in Elsewhere
Stays(d, f) == d # Dir(f) \/ f[1] \in Elsewhere \/ \E g \in DOMAIN files' : Dir(g) = d

\* rm_file().  For a camera with an output-dir of its own the base comes out as "/", where
\* nothing is found.
Unlink(f) ==
  LET there == f \in DOMAIN files /\ f[1] \notin Elsewhere
      size == IF there THEN files[f] ELSE 0
  IN /\ files' = IF there THEN Restrict(files, DOMAIN files \ {f}) ELSE files
     /\ loose' = IF there /\ output[f[1]] = f[2] THEN [loose EXCEPT ![f[1]] = size] ELSE loose
     /\ target' = target - size
     /\ dirs' = {d \in dirs : Stays(d, f)}

\* A row of the query: its file,
RmSegment ==
  /\ cleaner # "none" /\ cleaning = "file" /\ target > 0 /\ batch # {}
  /\ \E x \in batch :
       /\ \A y \in batch : Before(x, y)
       /\ batch' = batch \ {x} /\ victim' = <<x>>
       /\ \/ Ok /\ Unlink(x.file)
          \/ Fails /\ x.file \in DOMAIN files /\ UNCHANGED <<fileVars, target>>
       /\ missed' = IF x.file \in DOMAIN files \ DOMAIN files' THEN {} ELSE {x.file}
  /\ cleaning' = "row" /\ count' = count + 1
  /\ UNCHANGED <<notCleaner, videos, cleaner, lateLocks, mark, thinned, exportVars>>

MutOfFile(f) == {r \in videos : r.name = f[2]}
OfFile(f) == RowsOf(f)

\* and all rows of that file.
DeleteRows ==
  /\ cleaner # "none" /\ cleaning = "row"
  /\ \/ Ok /\ videos' = videos \ OfFile(victim[1].file)
     \/ Fails /\ UNCHANGED videos
  /\ victim' = << >> /\ cleaning' = "file" /\ missed' = {}
  /\ UNCHANGED <<notCleaner, fileVars, cleaner, target, batch, count, lateLocks, mark, thinned,
                 exportVars>>

\* The pass ends.  What it does to older pictures and events is left out.
PassEnds ==
  /\ cleaner # "none" /\ cleaning = "file" /\ ~(target > 0 /\ batch # {})
  /\ cleaner' = "none" /\ target' = 0 /\ batch' = {} /\ lateLocks' = {}
  /\ count' = 0 /\ mark' = 0 /\ thinned' = {}
  /\ exporter' = IF cleaner = "exporter" THEN "idle" ELSE exporter
  /\ UNCHANGED <<notCleaner, videos, files, loose, cleaning, victim, dirs, reserved, faults,
                 missed>>

-----------------------------------------------------------------------------
(* Exports: reserve_space() *)

notExporter == <<videos, lastId, fileVars, cameraVars, main, broken, faults,
                 crashVars, jumps, locks, missed, stale>>

\* reserve_bytes(); a pass of its own if the space runs low.
Reserve ==
  /\ exporter = "idle" /\ reserved < MaxReserved
  /\ reserved' = reserved + Reservation
  /\ exporter' = IF Free - MinFree \div 2 - reserved' < 0 THEN "clean" ELSE "idle"
  /\ UNCHANGED <<notExporter, passVars>>

ExporterCleans ==
  /\ exporter = "clean" /\ CleanDisk("exporter")
  /\ exporter' = IF cleaner' = "none" THEN "idle" ELSE "clean"
  /\ UNCHANGED <<notCleaner, videos, fileVars, missed>>

-----------------------------------------------------------------------------
(* Start and end of an instance. *)

notMain == <<lastId, fileVars, cameraVars, runVars, exportVars, crashVars, locks, missed, stale>>

\* delete_broken_segments(): the limit is the time of day plus broken-time-offset, and
\* the clock may have been set in between.
IsBroken(r, limit) == r.end = None \/ r.end < r.start \/ r.start > limit

SelectBroken ==
  /\ main = "boot" /\ main' = "broken"
  /\ \/ Ok /\ \E limit \in Times :
             /\ NotBefore(limit, Max({r.start : r \in videos} \cup {1}))
             /\ broken' = {r \in videos : IsBroken(r, limit)}
     \/ Fails /\ broken' = {} /\ UNCHANGED jumps
  /\ UNCHANGED <<notMain, videos, thinned>>

\* The row goes; the file never does, because the test looks at the name of the row and
\* not at the count of the rows that are left.
DeleteBroken ==
  /\ main = "broken"
  /\ \E r \in broken :
       /\ broken' = broken \ {r}
       /\ \/ Ok /\ videos' = {s \in videos : File(s) # File(r) \/ s.start # r.start}
          \/ Fails /\ UNCHANGED videos
       /\ thinned' = IF cleaner = "none" THEN {} ELSE thinned \cup {File(r)}
  /\ UNCHANGED <<notMain, main, jumps>>

Launched ==
  /\ main = "broken" /\ broken = {} /\ main' = "loop"
  /\ UNCHANGED <<notMain, videos, broken, faults, jumps, thinned>>

\* A reload, which joins the cameras and not the exporter.
Reload ==
  /\ main = "loop" /\ main' = "boot" /\ cleaner # "main"
  /\ \A c \in Cameras : place[c] = "off"
  /\ UNCHANGED <<notMain, videos, broken, faults, jumps, thinned>>

\* The process dies.  A crash is no failed query: the table says what it said before.
Crash ==
  /\ GoesWrong /\ crashes' = crashes + 1 /\ main' = "boot" /\ broken' = {}
  /\ torn' = torn \cup {File(r) : r \in broken}
  /\ place' = [c \in Cameras |-> "off"] /\ output' = [c \in Cameras |-> None]
  /\ begun' = [c \in Cameras |-> None] /\ oldId' = [c \in Cameras |-> 0]
  /\ loose' = [c \in Cameras |-> 0]
  /\ fileId' = [c \in Cameras |-> 0] /\ lastName' = [c \in Cameras |-> None]
  /\ cleaner' = "none" /\ cleaning' = "file" /\ target' = 0 /\ batch' = {} /\ victim' = << >>
  /\ count' = 0 /\ lateLocks' = {} /\ mark' = 0 /\ thinned' = {}
  /\ stale' = FALSE /\ missed' = {}
  /\ reserved' = 0 /\ exporter' = "idle"
  /\ UNCHANGED <<videos, lastId, files, dirs, faults, jumps, locks>>

-----------------------------------------------------------------------------
(* The page of a camera: a lock on the segments that begin or end in a range. *)

Lock(c) ==
  /\ locks < MaxLocks /\ locks' = locks + 1
  /\ \E from, to \in Times, lock \in BOOLEAN :
       LET hit == {r \in videos : r.camera = c /\ (r.start \in from..to \/ r.end \in from..to)}
       IN /\ from < to /\ \E r \in hit : r.locked # lock
          /\ videos' = (videos \ hit) \cup {[r EXCEPT !.locked = lock] : r \in hit}
          /\ lateLocks' = IF cleaner = "none" THEN {}
                          ELSE lateLocks \cup {File(r) : r \in hit}
  /\ UNCHANGED <<lastId, fileVars, cameraVars, main, broken, cleaner, cleaning, target, batch,
                 victim, count, mark, thinned, exportVars, faults, crashVars, jumps, missed, stale>>

Camera(c) ==
  \/ Begin(c) \/ Open(c) \/ SetupFails(c) \/ Grow(c) \/ CutExtend(c) \/ ExtendRow(c)
  \/ CutNew(c) \/ ChangePath(c) \/ CloseOld(c) \/ End(c)
Cleaning == MainCleans \/ RmSegment \/ DeleteRows \/ PassEnds
Exporting == Reserve \/ ExporterCleans
Main == SelectBroken \/ DeleteBroken \/ Launched \/ Reload \/ Crash

Next == (\E c \in Cameras : Camera(c) \/ Lock(c)) \/ Cleaning \/ Exporting \/ Main
Spec == Init /\ [][Next]_vars

-----------------------------------------------------------------------------
(* Properties. *)

\* Types; what a pass keeps in its locals is gone when it has returned the mutex; and a file
\* lies in a directory that is there.
TypeOK ==
  /\ \A r \in videos : /\ r.id \in 1..lastId /\ r.camera \in Cameras /\ r.locked \in BOOLEAN
                       /\ {r.name, r.start} \subseteq Times /\ r.end \in Times \cup {None}
  /\ lastId \in 0..MaxRows /\ broken \subseteq [id : 1..lastId, camera : Cameras, name : Times,
                                      start : Times, end : Times \cup {None}, locked : BOOLEAN]
  /\ DOMAIN files \subseteq Cameras \X Times /\ \A f \in DOMAIN files : files[f] \in Nat
  /\ dirs \subseteq Cameras \X (0..MaxTime) /\ \A f \in DOMAIN files : Dir(f) \in dirs
  /\ place \in [Cameras -> {"off", "open", "record", "extend", "reopen", "cut"}]
  /\ {fileId, oldId} \subseteq [Cameras -> 0..lastId] /\ loose \in [Cameras -> Nat]
  /\ {lastName, output, begun} \subseteq [Cameras -> Times \cup {None}]
  /\ main \in {"boot", "broken", "loop"} /\ cleaner \in Cleaners \cup {"none"}
  /\ cleaning = "row" <=> victim # << >>
  /\ cleaner = "none" => target = 0 /\ batch = {} /\ victim = << >> /\ count = 0
  /\ reserved \in Nat /\ exporter \in {"idle", "clean"}
  /\ (exporter = "clean" \/ cleaner # "exporter") /\ stale \in BOOLEAN

\* The segments of a file tile it, whatever cleans the table, and also after crashes at any
\* step and the removal of broken segments that follows them: the row that another one of
\* the same file follows ends where that one starts (as long as no query has failed), which
\* is what lets a player go from one to the next.  Excepted is a file whose broken rows
\* were being removed, in any order, when the process died.
SegmentsTile ==
  (faults = 0 /\ main # "broken") =>
    \A r, s \in videos :
      (/\ File(r) = File(s) /\ File(r) \notin torn /\ r.id < s.id
       /\ \A q \in RowsOf(File(r)) : q.id \notin (r.id + 1)..(s.id - 1))
      => r.end = s.start

\* No cleaning removes what was locked when it asked: a locked row goes only as a broken
\* one, a file only if none of its rows was locked at the time of the query.
LocksHold ==
  [][/\ \A r \in videos :
          (r.locked /\ \A s \in videos' : s.id # r.id) => main = "broken" \/ File(r) \in lateLocks
     /\ \A f \in DOMAIN files \ DOMAIN files' :
          (\A r \in RowsOf(f) : ~r.locked) \/ f \in lateLocks]_vars

\* The files that clean_disk() could take instead of f: older in all of their rows.
Older(f) ==
  {g \in DOMAIN files \ (missed \cup lateLocks \cup thinned) :
     /\ g[1] \notin Elsewhere /\ RowsOf(g) # {}
     /\ \A r \in RowsOf(g) : ~r.locked /\ r.id <= mark
     /\ \A r \in RowsOf(g), s \in RowsOf(f) : r.start < s.start}

\* The disk is cleaned from its oldest end (as long as nothing fails): a file goes only
\* when no older unlocked one is left; and a pass that gives up before it has freed what
\* it was asked for, having taken fewer files than it asks for in any case, has left
\* nothing that it could take.  A file that a new instance thins out while the exporter
\* cleans stays where the query has put it.
CleansOldestFirst ==
  [][faults' = 0 =>
       /\ \A f \in DOMAIN files \ (DOMAIN files' \cup thinned) : Older(f) = {}
       /\ (/\ cleaner # "none" /\ cleaner' = "none" /\ crashes' = crashes
           /\ target > 0 /\ count < Extra) =>
            \A r \in videos : \/ r.id > mark \/ File(r) \in lateLocks \cup thinned
                              \/ \E q \in RowsOf(File(r)) : q.locked]_vars

\* A file that is on disk keeps a row, without which nothing would ever remove it: its
\* last row goes only as a broken one, or after rm_file() has not found the file (it was
\* not open yet, or the camera has an output-dir of its own) or could not remove it.
FilesKeepRows ==
  [][\A r \in videos :
       (RowsOf(File(r))' = {} /\ File(r) \in DOMAIN files') =>
         main = "broken" \/ File(r) \in missed]_vars

\* The end of a segment is written once, by the camera that recorded it, unless a query
\* that inserts a row failed: no thread writes to the row of another one or of a later segment.
EndsWrittenOnce ==
  [][~stale =>
       \A r \in videos, s \in videos' :
         (r.id = s.id /\ r.end # s.end) =>
           r.end = None /\ place'[r.camera] # place[r.camera]]_vars
=============================================================================
