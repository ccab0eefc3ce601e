# Chiton in TLA+

Chiton is a network video recorder: one process that records cameras through
libav, keeps an index of segments in MariaDB, deletes old segments, exports
ranges to files and is controlled through signals and a UNIX socket. This
directory holds a model of its own logic, checked with TLC and proved, where
that is possible, with TLAPS. Libraries (libav, OpenCV, the database client)
appear only as far as the code depends on what they return.

## Inventory

| Part | State it keeps | Operations | What makes it correct | Module |
|---|---|---|---|---|
| System controller (`system_controller.cpp`) | list of cameras, three sets of requests, two mutexes, exit and reload flags | run an instance, passes of `loop()`, requests from other threads, listing | one thread per camera; no request lost; ordered shutdown; requests to exit or reload honoured; no deadlock | `SystemController` |
| Camera thread (`camera.cpp`) | four atomics, position in `run()`, current segment | connect, set up, record, stop, cut segments | a dead or frozen thread is noticed; every frame belongs to a segment with right bounds | `CameraThread`, `Recorder`, `FileManager`, `Transcoder` |
| Remote socket (`remote.cpp`, its client `web/inc/remote.php`) | listening socket, kill pipe, connections, read and write buffers | accept, read, execute, write, close, shut down | every complete line is executed once and answered on its own connection; no descriptor of somebody else is hit | `Remote` |
| Exporter (`export.cpp`) | current job, `force_exit`, `export_in_progress`, a thread and a mutex | pick a job, run it, cancel it, split it | a finished job holds its range; cancelling hits only its job; a crash repeats, never loses, a job | `Export` |
| File manager (`file_manager.cpp`) | rows of segments, files, directories, reserved bytes | next path, metadata, clean up, broken segments, reservations | rows and files agree; the disk is cleaned from its oldest end and spares what is locked | `FileManager` |
| Schema manager (`database_manager.cpp`) | schema version in the config table | initialise, check, upgrade statement by statement | what says it is current is complete; a crash loses and overwrites nothing | `DatabaseManager` |
| Stream reader (`stream_unwrap.cpp`) | reorder queue, decoded frames | connect, next packet, decode | packets leave in order | `Recorder`, `Transcoder` |
| Stream writer (`stream_writer.cpp`, `io/cfmp4.cpp`) | interleaving buffer, last timestamps, output file and init segment | open, write, change file, close, read back | the muxer accepts what it is given; nothing is lost or written twice; reads span init segment and body | `Recorder` |
| Filter (`filter.cpp`) | peeked frame, graph | send, peek, get | no frame is lost or doubled | `Transcoder` |
| Configuration (`config_parser.cpp`, `config.cpp`) | key/value map | parse, read | lines are independent; what is quoted is read back | `Configuration` |
| Modules (`module_controller.hpp`) | ordered list of modules | resolve the list of a setting | dependencies come first, once | `Configuration` |
| Process (`main.cpp`) | options, privileges | start, fork, signals | | `Startup`, `SystemController` |
| Motion and events (`motion_cvdetect.cpp`, `cv_target_rect.cpp`, `event_db.cpp`, `image_util.cpp`) | targets of a camera, the event at hand, rows of images and events, pictures | follow targets, raise and store events, clean up | one event for what is followed; pictures, rows and events agree | `Events` |
| OpenCV and FFmpeg glue, most web pages, packaging | - | - | | not modelled (below) |

How they interact. The main thread owns the instance: it loads the
configuration, connects and checks the database, starts the socket worker and the
cameras, and then makes a pass every ten seconds. Signals and the worker talk to it
through atomics and through three sets guarded by `cam_set_lock`; the list of
cameras is guarded by `cams_lock`. Cameras, the exporter and the worker query one
database connection, serialised by a mutex in `mariadb.cpp`. Cameras add rows and
files; the main thread and the exporter remove the oldest ones under `cleanup_mtx`.
A reload ends the instance (worker, cameras, database, in this order) and starts
the next one; the exporter's thread survives it.

Hard behaviour: threads that may wait for the network for ever while the main
thread waits for them; requests that arrive during start-up, a pass or a reload;
descriptors that are closed and given out again; rows, files and threads that must
agree although a query or the process may fail between two steps; timestamps of
cameras that jump. `PROJECT.json` lists every hazard with its line.

## Modules

`CameraSupervision` - what the controller promises, in four actions: recorders
begin only inside a database session and only for a camera without one; a
session closes only over none.

`CameraThread` - `Camera::run()` as others see it: `phase` is the place in
`run()`, and `alive`, `watchdog`, `startup`, `shutdown` are the atomics. The
early returns for a stream that cannot be set up leave `alive` true
(`SetupFails`), as the code does. `Handles` are `std::thread` objects; a
camera has a new one after each restart.

`SystemController` - main thread (`mpc` names the place in `run`,
`run_instance`, `launch_cams`, `loop`, `stop_cams`, `start_cams`), remote worker
(`worker`), both mutexes, the three sets, the flags and the `active` rows of
the config table. One action per access that another thread can tell apart.
`cams_lock` and `cam_set_lock` are `camsLock` and `setLock`. It composes
`CameraThread` and implements `CameraSupervision`. The order of a `std::set` or
`std::list` is arbitrary where nothing depends on it. Joining all cameras at the
end of an instance is one step, which needs all of them to have returned. A socket
delivers batches of complete lines (`Remote` says how they become complete).
Queries answer or fail atomically.

`Remote` - the worker of the socket in detail, the main thread in `create_socket`
and `shutdown`, the PHP class at the other end, and the kernel in between: which
descriptor refers to what (`owner`), the backlog, and data under way. A line is a
sequence of tokens, so that reads end inside of it; a row of an answer has two
pieces, so that writes do. Another thread of the process opens one file at some
time and gets the lowest free number, as everybody does; if it is hit by mistake
(`stolen`), what follows is arbitrary and the model stops. Signals are installed
with `std::signal`, which restarts system calls, but never `select()`. A write to a client that has left
fails with EPIPE: SIGPIPE is taken to be ignored, which the database client
library does. The test for the kill pipe at `remote.cpp:208` asks for the
wrong bit, and so never ends a pass early. At the end of a stream `process_input()` asks for
`errno`, which `read()` has not set: it is that of an earlier call, for instance the EINTR of a
`select()` that a signal has interrupted, and then the connection stays open (`StaysOpen`).

`Export` - the exporter's members, the table `exports`, the exported files, the
runner thread (`runner` names its place in `run_job()`), `check_for_jobs()` by
the main thread, `rm_export()` by the socket worker in its three steps, and the
end of the process by a signal, a reload or a crash. A segment is a range and a
format (extension and codec); rows of videos neither come nor go during an export,
but some of their files may be gone (`Unreadable`). What an INSERT or UPDATE of the runner, or
`out.write()`, returns is at most logged, and the job goes on: each may fail (`StatementFails`,
`WriteSegment`, `SplitDone`), and `failed` keeps for which export. Of `progress` only 100 is kept,
of `path` whether it names the directory of the file. `Fault` is where the process
dies: a query on the connection that `close()` has set to NULL, and the division by
a length of 0. The latter is undefined behaviour, so that `Progress` may also go on,
as it does on processors that divide by zero silently.

`FileManager` - the table `videos`, files by camera and time, directories by camera
and hour; the camera threads with the places of `run()` and `cut_video()` between
which the table and the disk differ; a pass of `clean_disk()` by the main thread or
by the exporter, file by file and row by row; the removal of broken segments at the
start of an instance; locks set by the web page; and crashes. Failed queries (`faults`), crashes and
clocks that go back (`jumps`) are counted apart, under one bound (`GoesWrong`). Space is counted in
blocks. A camera with an `output-dir` of its own (`Elsewhere`) records to another
filesystem, and `get_real_base()` never gives its directory back: `rm_file()` finds
nothing there.

`Events` - what a camera thread does with the contours that OpenCV finds in a frame:
`MotionCVDetect::process_frame` matches them with its targets (`Track`), and
`send_events` takes those that have been followed for `TrackingTime` frames; `EventDB`
makes a picture of the event's frame in three steps that may each fail (`InsertImage`,
`WriteImage`, `InsertEvent`), because `clean_images()` and `clean_events()` of
`file_manager.cpp` may run between them. The row of the image is inserted before its
file is written. A contour is a place and an area; places near one another are what
`is_near` takes for the same. `Masked` is cvmask, or a module before it: if it fails, the
matrix, and so the contours, stay those of an earlier frame. A frame's number is its time,
so that times increase; there is one camera, since targets are not shared; the pool of
events always has one to give. Pictures of a camera with an `output-dir` are not found,
as above (`Elsewhere`).

`Recorder` - what one camera thread does to a packet: `sort_reorder_queue`, the
duration of packets that have none, the main loop of `run()`, `StreamWriter::write`
with its guarantee about decoding times, `interleave`, `write_interleaved` and
`fixup_duration_interleave`, `cut_video` with the offsets of rows in a file, the
playlist of `stream.php`, and `CFMP4`, through which an export reads a segment. One
thread does it all; its loops are steps: `Charge` fills the queue, `GetNextPacket` and
`HandlePacket` are one turn of `run()` up to the test in `write_interleaved`, and `Emit`,
`Frag` or `NewFile`, and `Mux` one turn of its loop. Packets are copied; both streams
have one time base; a packet is one byte of a file. The muxer (in `Mux`) is
libav's as the code needs it: it holds packets until it is flushed and refuses
a decoding time that does not increase. What a
camera may send is regular, or out of order, repeated, after a jump, too long, or
without a duration. Rows get their times from `connectTime`, which `read_frame()` sets anew
when what it reads has drifted too far from wall time (`Resync`), whatever has been read and is not cut yet;
what it becomes while the queue is charged is `ConnectTime`, since nothing uses it before. A
file is never resynced (`Drifts` is then empty). `NewFile` takes a name that no file has: names are
starts in milliseconds. It implements `Recording`.

`Recording` - what a recorder promises, without queues, times or files, in four actions: a
packet is accepted, lost, or recorded into the open segment, which a cut makes one of the
finished segments; these never change. In `Recorder` a packet is recorded when the muxer takes it, and a
finished segment is what its row tells: the bytes of a file from one offset to another.

`Transcoder` - the same thread when it decodes and encodes, as operators over a
stream of packets: which of the streams are encoded, what setting up the
decoder and the filter reads ahead, which frames the filter gives, and which are
skipped by the motion controller.

`DatabaseManager` - the schema as the set of tables and columns, the version, the
names of the rows, and daemons that execute `initilize_db` or the upgrade functions
one statement at a time. The SQL server makes DDL permanent at once. A daemon may be
killed, a statement may fail, two daemons may have been started.

`Configuration` - the automaton of `ConfigParser::parse`, a character at a time, and
the two ways a `ModuleController` puts a module in its list: `FindMod`, for a name of the
setting, and `ModuleBefore`, which the module's `init()` calls for each it needs. `init()` may
nest to any depth; the calls still to come are kept in a sequence, the next one first.

`Startup` - composes the two: options, privileges, fork, `load_config`, the
database, the camera's value of one setting (`motion-mods`) and the modules it
makes, one in a step (`AddModule`), over reloads and edits of the file and the table. The rows of all
cameras go into `cfg` and stay there, also over reloads (`Settings`). Exit codes are left out.

The `MC` modules hold values of constants, and assumptions that check operators over
all short inputs. The `Proofs` modules hold the theorems.

## Runs

| Run | Bounds | Shows |
|---|---|---|
| `safety` | 2 cameras, 2 thread objects, START/STOP/RELOAD, failing queries | the type invariant; one thread per camera; database open under threads; queues stable while a pass walks them; stop requests served; `CameraSupervision` implemented |
| `live` | 1 camera edited at any time, RESTART/LIST/STATUS/RELOAD, both signals | exit and both kinds of reload request honoured, every command answered, an active camera has a thread that records or connects again |
| `export` | 1 request that becomes 2 jobs (3 after a crash), 3 segments of 2 formats, one unreadable; one crash, reload or exit; one statement or write that fails unnoticed; deletions of any export at any time | the flag `force_exit` never cancels the wrong job; 100 % means that the file is complete, unless a write or the cut of a split failed; a split loses nothing, unless its INSERT failed; every job ends |
| `remote` | 2 clients (a settings page that sends RELOAD and does not read; a tool that sends LOG and too long a line and may be killed), 5 descriptors, 1 answer in the kernel, 1 instance | connections and `conn_list` agree; lines executed once, in order; answers without gaps; where a foreign descriptor may be hit; clients and `shutdown()` get on |
| `recording` | 2 cameras, one with its own directory; 2 rows, 2 times, 2 blocks of which 1 is kept free; one failed query, crash or clock that goes back; one lock, one reservation | rows of a file follow each other, also after a crash; locks hold; the oldest file goes first; files keep a row; an end is written once |
| `media` | 6 packets of 2 streams, times to 3; 2 oddities (a time repeated, a jump, a wrong duration, `connect_time` set back by 4); reorder queue of 2, segments of 1, files of 3 | order, no loss, independent segments, discontinuities marked, the muxer refuses nothing with a duration, an export reads the segment; `Recording` implemented; and, as assumptions over all streams of up to 4 packets, what transcoding does |
| `startup` | 2 daemons (symmetric) on one database of any age, 3 rows, one kill or failed statement, one edit, 3 files or none, 5 modules | only a complete database is recorded into; names are kept; modules in order at each point of their construction; and, as assumptions over all texts of up to 7 characters, what the parser does |
| `events` | 3 frames of up to 2 contours at 3 places with 2 areas, targets due after 1 frame, one pass, one failure or crash | a followed target raises one event; a picture on disk has a row; events name whole pictures of their time and go with them |
| `export_reload` | as `export` | finding: a reload during an export kills the process |
| `export_zero` | as `export` | finding: a job cut to length 0 kills the process at every attempt |
| `frozen_read` | 1 camera, network may stay silent | finding: a frozen camera is never restarted, and the main thread stays in `join()` |
| `transcode` | streams of 4 packets | finding: the packets read to set up the decoder are decoded, and their frames encoded, twice |

Why the bounds are enough. In the controller, two cameras give every case of "the
same" and "another" camera in the sets and in the list; a thread object is free again
after its join, and no camera can use more than one, so as many objects as cameras
never make `StartListed` wait. One command per wake-up (`MaxBatch = 1`) suffices
because the worker may be woken any number of times during one action of the main
thread. SIGHUP and RELOAD set flags of their own (`reloadRequested`, reset when the next instance
begins, and `remoteReload`, consumed by the condition of `loop()`); `live` has both. No counter is capped there: the model is
finite. In `Export`, requests and `MaxRestarts` bound the number of rows. One request
is enough for two jobs, because its format changes inside the range, and so a
cancelled job can be followed by another one; one restart interrupts every step once. One failure
(`MaxFailures`) is of any one statement or write, of either job; `ExportProofs` has any number.
The request begins where a segment does, which makes the job of length 0 possible.

In `Remote`, the two clients are the two ways to be difficult, not to read and to
overflow the buffer, and both can leave in the middle; with five descriptors the
socket and the pipe leave two, so that a number is used by both clients, or by a client
and the other thread. A second instance would add nothing to what `RemoteProofs` proves
for any number of them.

`FileManager` has the smallest bounds: two rows and two times are two segments of a
file, or two files of one or two cameras in one directory. With a row or a time more
TLC does not finish in a few minutes; the theorems about locks and rows hold for all
of them. A broken row is never in the middle of its file at these bounds: that its removal leaves the
neighbours joined is shown by `SegmentsAreTiled` only. The one thing that goes wrong may be a crash, after
which `SegmentsTile` and `CleansOldestFirst` still speak, since it is no failed query. Space for two blocks makes a pass necessary after each. `Extra = 1` makes
the query stop before its end.

In `Recorder` six packets fill the reorder queue and then make three segments in two
files; two odd ones are enough for a packet that comes late after a jump, or for a jump or a late
packet around a resync, which sets the clock back by all it had, further than times of packets reach. The interleaving
queue keeps one packet back (`interleave-queue-depth`, 4 by default), so that most of six
packets are written and a duration is still corrected by the packet that follows. In `Startup` one fault is a kill
at any of the statements or a failure of any; the second daemon provides the
second attempt. A setting of all cameras that is made and then removed takes two edits, and so
is not reached: no property depends on its value. The daemons differ in nothing but their names, which makes the symmetry sound.
`StartupProofs` removes the bounds.

In `Events` two contours and three frames give every way to match two targets: both near one
contour, two contours near one target, one lost and one new. A `TrackingTime` of 1 makes
events early enough to meet the pass. `EventsProofs` removes the bounds.

Fairness. `ThreadFairness` gives strong fairness to the main thread and to the
worker: both wait for mutexes that are released again and again, the main thread
holds none during its ten seconds of sleep, and the worker holds one only for a
bounded copy. Camera threads get weak fairness for the steps that wait for
nothing. `NetworkFairness` adds that `connect()` and reads of a frame return; the
default of `ffmpeg-demux-options` sets no timeout and no interrupt callback exists,
so the code itself does not ensure it. `frozen_read` drops that assumption and
shows the consequence. `ActiveCameraReturns` asks for a thread in `connect()` or in the loop over
frames: one that has returned without resetting `alive` does not count. It is checked with queries that answer:
a failed query in `start_cams()` drops the request, and the camera then stays down
until a reload or a START.

`Export!FairSpec` lets every thread run, strongly fair for the main thread because
deletions hold the exporter's mutex for a moment, and starts the process again when
it has ended (by the init system; `Crash` and reloads are bounded). The query for
segments and the opening of the output must succeed if tried for ever: with a
database that never answers, no export ends. `JobsEnd` excepts a job of length 0,
for which `export_zero` shows that it need not end.

`Remote!FairSpec` is weak fairness of the worker and of the main thread in `shutdown()`,
and of clients that read what has been answered, go on with their lines, or notice that the
server has closed their connection. A client that never reads keeps the worker in
`write()` only as long as it lives: this is the assumption under which `Answered` and
`ShutdownEnds` hold, and PHP ends every page after its time limit. Nothing makes a
client connect, leave early or be killed.

The other specifications state safety only.

## Proofs

`SystemControllerProofs` proves, for any number of cameras, thread objects,
commands and signals, under `NoneAssumption` (the value "no camera" is neither a
camera nor a thread) and `ConstantsAssumption` (the types of the parameters):

* `TypeCorrect`, `UniqueThreads`, `DatabaseOutlivesThreads`: the three invariants;
* `StopsServed`, `StableQueues`: the two action properties that `safety` checks (no thread of a
  listed camera is left when stop requests are dropped; no other thread inserts into a queue
  while a pass walks it, what would be lost by the `clear()` that follows);
* `Refinement`: `Spec => CameraSupervision`.

None of these is inductive alone. `OneThreadPerCamera` speaks of threads, the
code compares with the ids in its list: `ThreadInv` says that list and threads
agree. `ThreadsHaveDatabase` needs to know where the main thread may be while
threads exist (`SessionInv`), also that a failed instance leaves the connection
open only if the exit was requested. That a queue is stable needs the owner of
each mutex at every place (`LockInv`), and that stop requests are served needs
`PassInv`: in the middle of the joins, a listed camera that still runs is still to
be joined, which in turn rests on unique ids. Their conjunction with `TypeOK` is
`IInv`; `StepInv` shows it inductive with one step per action. The action
properties and the refinement then look only at the few actions that can change
what they speak of (`ThreadsChangedBy`, `QueuesChangedBy`, `DatabaseChangedBy`).

`ExportProofs` proves, for any segments, requests and number of restarts, under
`ExportAssumption` (types; no segment ends before it starts, so the clock does not
jump back within one; "no format" is not a format), and any number of failures:

* `TypeCorrect`, `CancelsOwnJob`, `CompleteWhenDone`: the three invariants of `Export`;
* `SplitsKeepRange`: its action property.

`DoneMeansComplete` looks at finished rows only; why a row deserves its 100 % is in
the runner's variables. `RowInv` says that the job still is what its row says, although
the row can be deleted and is cut by a split; `FileInv`, that each readable segment no
longer in `rest` is in the file, unless the export was deleted or a write to it failed; `EndInv`, that
`rest` is empty, or begins after the cut, when the row is marked, unless the cut failed; `SplitInv`,
that the row for the rest exists before the first one is cut, unless its INSERT failed; `CancelInv`, that only what the user
deletes loses its file. One lemma per group of actions shows each part kept;
`CompleteKept` reduces the common case to "no finished row, and no file of one, changed".

`RemoteProofs` proves, for any clients with any lines, any descriptors and any number
of instances, under `RemoteAssumption` (types; a client is not called like a role of a
descriptor; a line holds no end of line):

* `ConnectionsOwned`: `ConnsOwned`; `OthersAreSpared`: the action property `OthersSpared`.

The first needs that a client connects once (`OnePlace`). The second asks who can hold a
number that is about to be closed: what a pass still has to read or write is connected
(`ServesConns`); the connection that is served may have been closed by its own CLOSE,
and its number given away, but never to the socket or its pipe (`ServesCur`), because those
are made only when there is no worker (`DownIsEmpty`); and the main thread holds what it
noted, unless `pipe()` failed (`HoldsSocket`). `QuietKeeps` and `CloseKeeps` treat all the
actions that open nothing, and all those by which the worker closes, at once.

Its second part is about data, for lines, buffers and answers of any length:

* `TypeCorrect`: `TypeOK`; `LinesInOrder`: `ExecutedInOrder`; `AnswersAreInOrder`: `AnswersInOrder`.

`DInv` has the types and what each place implies about buffers. `Arrival` follows a line through
`toSend`, `toServer` and `read_buffers`: for a connection whose buffer was empty, what has not
been executed spells the lines that are left (`Spells`), cut anywhere. `SpellsMore` and
`SpellsFirstArrived` are the two steps of such a text: a line is sent, and its first line is found
in the part that has arrived. The same for answers, backwards: what a client got,
what is in the kernel and in `write_buffers` are together what it is owed, whose pieces
follow one another (`Following`) and end with the answer to its last line, unless the
worker is in the middle of one (`Answers`, `Owes`). For this the pieces of the model say which
line they answer; nothing in the code reads that. `SequenceLemmas` has the facts about parts of
sequences that both need, and others.

`FileManagerProofs` proves, for any cameras, rows, failures, crashes and locks:

* `TypeCorrect`: `TypeOK`; `SegmentsAreTiled`: `SegmentsTile`;
* `FilesHaveRows`: `FilesKeepRows`; `LocksAreHeld`: `LocksHold`;
* `EndsAreWrittenOnce`: `EndsWrittenOnce`; `CleaningIsOrdered`: `CleansOldestFirst`.

A pass removes a file in one step and its rows in another. `PendingNew` says that a camera
opens only a file that nobody has, `VictimGone` that a file that has just been removed is
announced by no camera, and so does not come back before its rows go. `PassUnlocked` says
that a file which a pass has chosen is not locked or was locked after the query: rows that
are added meanwhile are not locked, and the page's locks are noted in `lateLocks`. All
actions of a camera are reduced to one description (`CameraStep`), and what any step removes
to two lemmas (`Removals`, `PassRemoves`).

`RowsInvariant` has what the other three need. `TInv` is the types with what the places of
`run()` imply about rows; `WInv` follows `file_id` and `old_id` through `cut_video()`: as long as no
insert failed they are the row of this camera that has no end yet, which is why an end is
written once, and by its own camera; `SInv` says that a row followed by one of the same file
ends where that starts, leaving out those that are being removed as broken, or is about to get its end in
`cut_video()`; after a crash this holds at once of every file but those of which broken rows were being
removed, which are then `torn` (`CrashChain`); `PInv` says what a pass knows (`Ordered`): the rows of its query each stand for a file of their
own, at one of its starts, and a file without a lock is still to be removed or comes after all
those, in which case the query found as many as it asked for. Two things in the model were not general before: the
clock may only be asked for a file's name when it names none of this camera's (`Fresh`), and
`CleansOldestFirst` now excepts a file that loses rows to a new instance while the
exporter cleans (`thinned`), which no bound of `recording` reaches and TLC could not tell.

`EventsProofs` proves, for any contours, frames, passes and failures:

* `TypeCorrect`: `TypeOK`; `OneEvent`: `OneEventPerTrack`;
* `PicturesHaveRows`: `PicturesKeepRows`; `HavePictures`: `EventsHavePictures`.

`TargetsInv` says that no two old and no two new targets are on one track, at every point of the
loop over contours: a new one is on a track of its own, or goes on from one that it has made
invalid. `RaisedInv` tells for which targets an event was raised: those with a count above
`TrackingTime`, or at it once `send_events` has passed them. `PicturesInv` says where the picture
of the event at hand stands: between its row and its file, a pass that takes the row has not
found the file. `PassInv` says that the rows of a pass are in the table and older than its segment,
so that, with no failure, `clean_events()` at its end meets the events of every picture it removed.

`StartupProofs` proves, for any number of daemons, rows, kills and failures:

* `TypeCorrect`: `TypeOK`; `Sound`: `DatabaseSound`, with its three parts;
* `Composes`: whatever is around it, the database in `Startup` does what `DatabaseManager`
  says, and so `StartupSound`: `DatabaseSound` there too;
* `InOrder`: `ModulesOrdered`, under `ConfigurationAssumption` (finitely many modules; none
  requires itself through others, which a rank expresses, as the dependencies of the motion modules do).

`DatabaseSound` speaks of what is current; the invariant has to say what every half-made
state is. `VersionTells` and `StatementsTell` give the tables that the version and the next
statement of each daemon imply. `CreatorAlone` is the heart of creation: the first
statement makes `config`, so that of two daemons that found nothing one fails at once.
`NamesOnce` is that of upgrades: the statement that names the rows is preceded by one that
adds the column, which fails the second time, so that only one daemon ever stands between
the two, and no version but an old one has been written by then. `RowsTell` and
`WrittenCurrent` conclude that rows recorded since have kept their name.

`BuildInv` is what holds of a list of modules with calls outstanding. Whoever lacks what it requires
is still going to ask for it (`OrderedBut`), and asks for nothing else (`CallsMade`); the next call is
that of the earliest module that waits (`CallsInOrder`); and from it on ranks rise (`CallersWait`):
each was put before the one that asked for it. Therefore a name that `get_module_before()`
does not find before the caller is nowhere in the list, and the module that it inserts is
neither one too many nor in front of what it needs. `AllocateKeeps` is that step.

`RecorderProofs` proves, for any camera and any lengths of queues, segments and files, under
`RecorderAssumption` (lengths are not negative, those of segments, files and the init segment not 0; a
packet may be out of order by any `Offsets`):

* `TypeCorrect`: `TypeOK`; `OrderIsKept`: `ReorderKeepsOrder`; `MuxerAccepts`: `MuxerRefuses`;
* `PlaylistMarksBreaks`: `PlaylistFollows`; `SegmentsAreViews`: `ViewIsSegment`;
* `NothingLost`: `NoneLostOrTwice`; `SegmentsStandAlone`: `SegmentsIndependent`;
* `RecordsPackets`: `Spec => ImplementsRecording`.

The invariant has layers. `Core` (`CoreStep`) is about times: the reorder queue is in order, and what
stands in it before the last packet that left came later (`QueueInv`); the interleaving buffer is in
order, strictly within a stream, above what the muxer has and up to `last_dts` (`BufferInv`); the
packet at hand is the earliest of its stream, and the muxer is behind the end of the last one
of it, which is why only a packet without duration is refused (`HandInv`). That a new packet,
perhaps moved, keeps the order is `InsertPlaces`, with `InsertElements` and `InsertPairs`. `FilesLayer`
(`LayerStep`) is about bytes: every closed row lies in its file behind the init segment, ends where
the next one of its file begins or where the file ends, and starts when the one before
ends, or, in the new file of a jump backwards, a millisecond later (`RowsInv`), whatever the clock is set to in between; the muxer writes only behind them (`FlushKeeps`, `CutAddsRow`). `ViewIsSegment` follows from
that alone by comparing parts of sequences (`ViewParts`, `ReadHolds`, `SeekHolds`), and so does
`PlaylistFollows`. `IdInv` says that all ids are apart; its steps move them from one place to the next (`Moves`).
`SegmentsIndependent` needs what the bytes mean (`KeysStep`). `StartInv`: nothing reaches the
muxer before a first keyframe was accepted, and until a video packet has left the interleaving
buffer the earliest one in it is a keyframe, so the first one the muxer sees is one. `KeysInv`: every
closed row begins with a keyframe, and the open one has begun with one or is about to, because
a cut is only made at a keyframe, before it is written, with the muxer flushed (`CutKeys`,
`FragKeys`, `NewFileKeys`); what is written later changes neither (`RowKeysKept`, `NowKept`). As in the property,
only the first segment may have no video, and nothing is said once the muxer has refused a packet.

The refinement needs the first three layers. The open segment is what lies between `lastCutByte` and the
end of the last file, if the muxer were flushed now: so a packet is recorded when the muxer takes it
(`MuxOpens`), a cut moves exactly this to the closed rows, in the same file or with a new one
(`CutAppends`), and the bytes of closed rows never change, because the muxer writes only behind them
(`SameSegments`). That a packet is recorded once is `IdInv`; that it is one of the camera, `SentInv`.
`TypeOK` is proved here and not run: a stronger form of it is in `Core` and `FilesLayer`.

Only model-checked: all liveness properties (TLAPS has no fairness reasoning here);
`Transcoder`, operators over sequences with recursion, and the parser, a fold over a text: what they
compute for every input is an induction over data. Every other property of a passing run is a theorem.

## What the properties leave out, and why

Each of these was met while modelling; the property named excludes it, and no run
is spent on it.

* After CLOSE, or a write that failed, the rest of the lines of one read is executed on
  a number that may be another thread's by now. The page that sends RELOAD and leaves is a
  client that does this. (`OthersSpared`.)
* After a `select()` that a signal has interrupted, a connection at its end is not closed while `errno` is still EINTR
  (`remote.cpp:324`): the worker is woken by it at once, again and again, until some call sets `errno`.
  (`Answered` and `ShutdownEnds` hold all the same.)
* `close_conn()` keeps `read_buffers`: the next connection with that number continues an
  unfinished line. `ExecutedInOrder` holds for connections that found the buffer empty.
* `delete_broken_segments()` decides whether to remove the file by `res`, the name of the
  row, instead of `del_res`, the count of rows (`file_manager.cpp:220`): the file stays.
  (`FilesKeepRows` excepts it.)
* If the process dies while broken rows of a file are being removed, by a query without an order
  (`file_manager.cpp:204`), the next start sees other neighbours, and a gap may stay. (`torn` in `SegmentsTile`.)
* Two files of a camera that begin in the same millisecond have one name: the second opening truncates the first
  (`file_manager.cpp:58`). (`Fresh` in `FileManager` and `NewFile` in `Recorder` assume that it does not happen.)
* `get_real_base()` tests the last character of an empty string (`file_manager.cpp:462`),
  and returns "/" for a camera with an `output-dir`: its files are never removed, its rows
  are. (`missed` in `FilesKeepRows` and `CleansOldestFirst`.)
* The page's query for locks takes segments that begin or end in the range; one that spans
  it is missed (`camera.php:74`). `LocksHold` is about locks that were set.
* After a failed INSERT `file_id` is what the connection saw last. (`stale` in `EndsWrittenOnce`.)
* A directory that `rmdir_r()` removes between `get_next_path()` and `avio_open()` makes the
  opening fail; `run()` ends and the camera is restarted.
* After a crash in the middle of an upgrade the first statement fails at every later start:
  `DatabaseSound` says that nothing is lost, not that the daemon ever runs again.
* A value in quotes ends at the first blank (`config_parser.cpp:144`), although
  `man/chiton.cfg.5.in:16` says that whitespace is significant there. (`QuotesKeepValues`.)
* `parse_mods()` calls `substr(start, end)` with an end, not a length: of a list of three
  modules the second entry runs into the third and matches no module.
* Settings that a reloaded file no longer sets stay set, and so do those of all cameras that are removed from the
  table (`system_controller.cpp:141`); a `fork()` that fails exits with success.
* `charge_video_decoder()` may fail, which nobody checks: the filter then has no frame to peek.
* `list_state()` compares an iterator of `stop_cams_list` with the end of `start_cams_list`
  (`system_controller.cpp:327`), so that LIST says RESTARTING for a start, although the comment
  says "not on stop list, so starting".
* In a pass, `in_startup()` is read after `ping()`: a camera that connects in between is
  restarted. START and then STOP within one pass end in a running camera, because stops are
  served first. A failed query in `start_cams()` drops the request.
* A failed INSERT of `split_export()` (`export.cpp:270`) loses the rest of the range, since the UPDATE after
  it is executed all the same and the job goes on to 100 %. A failed UPDATE (`export.cpp:275`) leaves the whole
  range on a row that is then shown as done, with its first part only, and the rest is exported twice if
  it is run again. The warning at `export.cpp:137` is not logged then: `mysql_affected_rows()` is -1 after
  a failed statement, which `affected != 0` takes for success. (`SplitKeepsRange` and `DoneMeansComplete`
  except the export.) A segment whose row is deleted by a cleaning pass between the two has the same effect.
* `out.write()` at `export.cpp:187` may fail, on a full disk say, and nobody asks: 100 % is shown for a
  file with gaps. (`DoneMeansComplete` excepts it.) Queries of `rm_export()` do not fail in the model.
* An export that is deleted before its job opens the output leaves a file that no row knows.
* `motion-cvmask-delay` out of its range changes `thresh` (`motion_cvmask.cpp:49`), not the delay.
* A kept frame gets the rectangle of the last target, not of its own frame
  (`cv_target_rect.cpp:40`): of a target that shrinks twice, the picture is cut in the wrong place,
  although `cv_target_rect.hpp:43` says "the rect for the best frame". `Follow` does the same.
* `clean_images()` counts 1 for each picture (`file_manager.cpp:513`) where
  `file_manager.hpp:99` says "bytes deleted": a pass takes more segments than it has to.
* What is in the interleaving buffer when `run()` ends is never written (`NoneLostOrTwice` counts it
  as buffered). A late first keyframe makes a first segment without one (`SegmentsIndependent`).
  After a jump backwards a row may end before it starts, which the next start removes as
  broken. After a resync rows of one camera may overlap in time or be listed in another order than they were
recorded: what `PlaylistFollows` says is that the playlist marks it, unless two rows begin at the same time. Rows that start at byte 0 are read as a whole file (`ViewIsSegment`).

## Not modelled

What `motion_opencv.cpp` and `motion_cvbackground.cpp` do is arithmetic on images, of which
`Events` keeps the contours that are found. `chiton_ffmpeg.cpp` and the rest of `image_util.cpp`
are sequences of library calls for hardware, formats and drawing, with no protocol of their own.
`EventConsole` writes to the log. The web pages other than the three above show the database;
packaging and build files are not part of the program. In modelled parts, the following is left out: the average size of a segment, of which only the least
number of files per pass is kept; a failing `statvfs()`; SEEK_CUR in `CFMP4::seek`, which
libav turns into SEEK_SET before it calls it; the third SIGINT, which calls `std::exit`
from the handler; what `load_sys_cfg` changes (time zone, log level); the answers OK and BUSY.

## Plan

What would come next: rows of `Recorder` and of `FileManager` as one, through `Recording`, so that
the two views of `cut_video` agree; larger bounds for `recording` with one camera only.
