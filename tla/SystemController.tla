-------------------------- MODULE SystemController --------------------------
(***************************************************************************)
(* The control plane of chiton: the main thread (run, run_instance,        *)
(* launch_cams, loop), the worker thread of the remote socket that queues  *)
(* START, STOP, RESTART and RELOAD, one thread per running camera, the     *)
(* signal handlers, and the two mutexes they share.                        *)
(*                                                                         *)
(* The camera threads themselves are in module CameraThread.               *)
(*                                                                         *)
(* Each step makes at most one access that another thread could tell       *)
(* apart; unlocking a mutex is merged with the step that precedes it.      *)
(***************************************************************************)
EXTENDS CameraThread, Naturals, FiniteSets

CONSTANTS
  Ops,         \* the commands that clients send
  MaxBatch,    \* commands that one wake-up of the remote worker can deliver
  Signals,     \* the signals that arrive: "INT", "HUP"
  Editable,    \* cameras whose 'active' row may be edited while running
  DbFaults     \* may SELECTs on the config table fail?

ASSUME ConstantsAssumption ==
  /\ Ops \subseteq {"START", "STOP", "RESTART", "LIST", "STATUS", "RELOAD"}
  /\ Signals \subseteq {"INT", "HUP"}
  /\ MaxBatch \in Nat
  /\ Editable \subseteq Cameras
  /\ DbFaults \in BOOLEAN

VARIABLES
  \* main thread
  mpc,              \* where it is
  todo,             \* camera ids left in the loop it is executing
  unseen,           \* cameras (threads) not yet pinged in this pass
  cur,              \* the camera whose ping() returned true
  \* flags set by signal handlers and by the remote worker
  exitRequested, reloadRequested, remoteReload,
  \* database
  dbOpen, active,   \* connected?  cameras with an 'active' = '1' row
  \* SystemController's shared state
  cams, stopList, startList, startupList, camsLock, setLock,
  \* remote worker
  worker, batch, cmd, killWorker

loopVars   == <<todo, unseen, cur>>
mainVars   == <<mpc, loopVars>>
flagVars   == <<exitRequested, reloadRequested, remoteReload>>
dbVars     == <<dbOpen, active>>
queueVars  == <<stopList, startList, startupList>>
lockVars   == <<camsLock, setLock>>
sharedVars == <<cams, queueVars, lockVars>>
workerVars == <<worker, batch, cmd, killWorker>>

vars == <<mainVars, flagVars, dbVars, sharedVars, workerVars, threadVars>>

Owner == {"none", "main", "worker"}

\* Places of the main thread between connecting and closing the database.
SessionPcs == {"check", "launch", "select", "enqueue", "lock", "clear", "ping",
               "probe", "note", "requeue", "stop", "join", "start", "unlock",
               "cond", "kill", "slock", "sjoin", "sclear", "close"}
MainPcs    == SessionPcs \cup {"run", "load", "connect", "done"}

NoCmd    == [op |-> "none"]
Commands == [op : Ops \cap {"START", "STOP", "RESTART"}, cam : Cameras]
              \cup [op : Ops \cap {"LIST", "STATUS", "RELOAD"}]

\* The ids of the cameras in the list cams.
CamIds == {camOf[h] : h \in cams}
-----------------------------------------------------------------------------
Init ==
  /\ mpc = "run" /\ todo = {} /\ unseen = {} /\ cur = None
  /\ exitRequested = FALSE /\ reloadRequested = FALSE /\ remoteReload = FALSE
  /\ dbOpen = FALSE /\ active \in SUBSET Cameras
  /\ cams = {} /\ stopList = {} /\ startList = {} /\ startupList = {}
  /\ camsLock = "none" /\ setLock = "none"
  /\ worker = "off" /\ batch = 0 /\ cmd = NoCmd
  /\ killWorker = FALSE
  /\ ThreadInit
-----------------------------------------------------------------------------
(***************************************************************************)
(* Main thread: run() and run_instance().                                  *)
(***************************************************************************)
MainGoto(from, to) == mpc = from /\ mpc' = to

\* while (!exit_requested && !ret).  A failed instance always requests the
\* exit as well, so ret needs no variable.
RunHead ==
  /\ IF exitRequested
       THEN MainGoto("run", "done") /\ UNCHANGED reloadRequested
       ELSE MainGoto("run", "load") /\ reloadRequested' = FALSE
  /\ UNCHANGED <<loopVars, exitRequested, remoteReload, dbVars, sharedVars,
                 workerVars, threadVars>>

\* Mutation: reload_requested is reset after the configuration has been loaded.
MutResetAfterLoad ==
  /\ \/ MainGoto("load", "connect") /\ UNCHANGED exitRequested
     \/ MainGoto("load", "run") /\ exitRequested' = TRUE
  /\ reloadRequested' = FALSE
  /\ UNCHANGED <<loopVars, remoteReload, dbVars, sharedVars, workerVars,
                 threadVars>>

\* The three fatal errors of run_instance: each requests the exit and leaves
\* at once.  After a failed check_database() the database stays connected.
LoadConfig ==
  /\ \/ MainGoto("load", "connect") /\ UNCHANGED exitRequested
     \/ MainGoto("load", "run") /\ exitRequested' = TRUE
  /\ UNCHANGED <<loopVars, reloadRequested, remoteReload, dbVars, sharedVars,
                 workerVars, threadVars>>

ConnectDb ==
  /\ \/ MainGoto("connect", "check") /\ dbOpen' = TRUE /\ UNCHANGED exitRequested
     \/ MainGoto("connect", "run") /\ exitRequested' = TRUE /\ UNCHANGED dbOpen
  /\ UNCHANGED <<loopVars, reloadRequested, remoteReload, active, sharedVars,
                 workerVars, threadVars>>

CheckDatabase ==
  /\ \/ MainGoto("check", "launch") /\ UNCHANGED exitRequested
     \/ MainGoto("check", "run") /\ exitRequested' = TRUE
  /\ UNCHANGED <<loopVars, reloadRequested, remoteReload, dbVars, sharedVars,
                 workerVars, threadVars>>

\* launch_cams() up to remote.init(): the worker is spawned, unless the socket
\* cannot be created.
RemoteInit ==
  /\ MainGoto("launch", "select")
  /\ \/ worker' = "select" /\ killWorker' = FALSE
     \/ UNCHANGED <<worker, killWorker>>
  /\ UNCHANGED <<loopVars, flagVars, dbVars, sharedVars, batch, cmd,
                 threadVars>>

\* The query for all active cameras.
SelectActive ==
  /\ MainGoto("select", "enqueue")
  /\ \/ todo' = active
     \/ DbFaults /\ todo' = {}
  /\ UNCHANGED <<unseen, cur, flagVars, dbVars, sharedVars, workerVars,
                 threadVars>>

\* start_cam(id) for one row of the answer, in the main thread.
EnqueueActive(c) ==
  /\ mpc = "enqueue" /\ c \in todo /\ setLock = "none"
  /\ startupList' = startupList \cup {c}
  /\ startList' = startList \cup {c}
  /\ todo' = todo \ {c}
  /\ UNCHANGED <<mpc, unseen, cur, flagVars, dbVars, cams, stopList, lockVars,
                 workerVars, threadVars>>

-----------------------------------------------------------------------------
(***************************************************************************)
(* Main thread: one pass of loop().                                        *)
(***************************************************************************)
LockCams ==
  /\ camsLock = "none"
  /\ \/ MainGoto("lock", "clear")
     \/ todo = {} /\ MainGoto("enqueue", "clear")
  /\ camsLock' = "main"
  /\ UNCHANGED <<loopVars, flagVars, dbVars, cams, queueVars, setLock,
                 workerVars, threadVars>>

ClearStartup ==
  /\ setLock = "none" /\ MainGoto("clear", "ping")
  /\ startupList' = {}
  /\ unseen' = cams
  /\ UNCHANGED <<todo, cur, flagVars, dbVars, cams, stopList, startList,
                 lockVars, workerVars, threadVars>>

PingCamera(h) ==
  /\ mpc = "ping" /\ h \in unseen
  /\ unseen' = unseen \ {h}
  /\ watchdog' = [watchdog EXCEPT ![h] = FALSE]
  /\ IF Stale(h) THEN mpc' = "probe" /\ cur' = h ELSE UNCHANGED <<mpc, cur>>
  /\ UNCHANGED <<todo, flagVars, dbVars, sharedVars, workerVars, phase, camOf,
                 alive, startup, shutdown>>

ProbeStartup ==
  /\ mpc = "probe"
  /\ mpc' = IF InStartup(cur) THEN "note" ELSE "requeue"
  /\ UNCHANGED <<loopVars, flagVars, dbVars, sharedVars, workerVars,
                 threadVars>>

NoteStartup ==
  /\ setLock = "none" /\ MainGoto("note", "ping")
  /\ startupList' = startupList \cup {camOf[cur]}
  /\ cur' = None
  /\ UNCHANGED <<todo, unseen, flagVars, dbVars, cams, stopList, startList,
                 lockVars, workerVars, threadVars>>

\* restart_cam(id), called by the main thread.
RestartStale ==
  /\ setLock = "none" /\ MainGoto("requeue", "ping")
  /\ stopList' = stopList \cup {camOf[cur]}
  /\ startList' = startList \cup {camOf[cur]}
  /\ cur' = None
  /\ UNCHANGED <<todo, unseen, flagVars, dbVars, cams, startupList, lockVars,
                 workerVars, threadVars>>

LockSets ==
  /\ unseen = {} /\ setLock = "none" /\ MainGoto("ping", "stop")
  /\ setLock' = "main"
  /\ UNCHANGED <<loopVars, flagVars, dbVars, cams, queueVars, camsLock,
                 workerVars, threadVars>>

\* The first loop of stop_cams(): ask every listed camera to stop.
StopListed ==
  /\ MainGoto("stop", "join")
  /\ StopThreads({h \in cams : camOf[h] \in stopList})
  /\ todo' = stopList
  /\ UNCHANGED <<unseen, cur, flagVars, dbVars, sharedVars, workerVars, phase,
                 camOf, alive, watchdog, startup>>

\* Camera objects leave the list and are destroyed.
Forget(S) == cams' = cams \ S /\ FreeThreads(S)

\* The second loop of stop_cams(): join one listed camera, which blocks until
\* its thread returns, and erase it; nothing if no such camera runs.
JoinListed(c) ==
  /\ mpc = "join" /\ c \in todo
  /\ todo' = todo \ {c}
  /\ \/ \E h \in cams : camOf[h] = c /\ phase[h] = "exited" /\ Forget({h})
     \/ c \notin CamIds /\ UNCHANGED <<cams, threadVars>>
  /\ UNCHANGED <<mpc, unseen, cur, flagVars, dbVars, queueVars, lockVars,
                 workerVars>>

StopsDone ==
  /\ todo = {} /\ MainGoto("join", "start")
  /\ stopList' = {}
  /\ todo' = startList
  /\ UNCHANGED <<unseen, cur, flagVars, dbVars, cams, startList, startupList,
                 lockVars, workerVars, threadVars>>

\* A Camera is constructed at the end of the list and started.
Launch(h, c) == cams' = cams \cup {h} /\ StartThread(h, c)

\* Mutation: start_cams() does not look for a camera that already runs.
MutStartDuplicate(c) ==
  /\ mpc = "start" /\ c \in todo
  /\ todo' = todo \ {c}
  /\ c \in active /\ \E h \in Handles : Launch(h, c)
  /\ UNCHANGED <<mpc, unseen, cur, flagVars, dbVars, queueVars, lockVars,
                 workerVars>>

\* One round of start_cams(): a running camera is not started again; another
\* one is started if the query for its 'active' row answers.
StartListed(c) ==
  /\ mpc = "start" /\ c \in todo
  /\ todo' = todo \ {c}
  /\ \/ c \notin CamIds /\ c \in active /\ \E h \in Handles : Launch(h, c)
     \/ /\ c \in CamIds \/ c \notin active \/ DbFaults
        /\ UNCHANGED <<cams, threadVars>>
  /\ UNCHANGED <<mpc, unseen, cur, flagVars, dbVars, queueVars, lockVars,
                 workerVars>>

\* start_cams_list.clear() and cam_set_lock.unlock().
StartsDone ==
  /\ todo = {} /\ MainGoto("start", "unlock")
  /\ startList' = {}
  /\ setLock' = "none"
  /\ UNCHANGED <<loopVars, flagVars, dbVars, cams, stopList, startupList,
                 camsLock, workerVars, threadVars>>

\* cams_lock.unlock(), then clean_disk(), check_for_jobs() and ten seconds of
\* sleep, none of which holds a lock.
UnlockCams ==
  /\ MainGoto("unlock", "cond")
  /\ camsLock' = "none"
  /\ UNCHANGED <<loopVars, flagVars, dbVars, cams, queueVars, setLock,
                 workerVars, threadVars>>

\* Mutation: the loop asks only for reload requests.
MutLoopIgnoresExit ==
  /\ mpc = "cond"
  /\ mpc' = IF remoteReload \/ reloadRequested THEN "kill" ELSE "lock"
  /\ remoteReload' = FALSE
  /\ UNCHANGED <<loopVars, exitRequested, reloadRequested, dbVars, sharedVars,
                 workerVars, threadVars>>

\* !exit_requested && !remote.get_reload_request() && !reload_requested:
\* the request is consumed by exchange(false) unless the exit was requested.
LoopCondition ==
  /\ mpc = "cond"
  /\ mpc' = IF exitRequested \/ remoteReload \/ reloadRequested
              THEN "kill" ELSE "lock"
  /\ remoteReload' = (remoteReload /\ exitRequested)
  /\ UNCHANGED <<loopVars, exitRequested, reloadRequested, dbVars, sharedVars,
                 workerVars, threadVars>>
-----------------------------------------------------------------------------
(***************************************************************************)
(* Main thread: the end of run_instance(), after loop().                   *)
(***************************************************************************)
\* stop_worker() in remote.shutdown().
KillWorker ==
  /\ MainGoto("kill", "slock")
  /\ killWorker' = TRUE
  /\ UNCHANGED <<loopVars, flagVars, dbVars, sharedVars, worker, batch, cmd,
                 threadVars>>

\* Mutation: the worker is told to stop but not joined.
MutWorkerNotJoined ==
  /\ camsLock = "none" /\ MainGoto("slock", "sjoin")
  /\ camsLock' = "main"
  /\ StopThreads(cams)
  /\ UNCHANGED <<loopVars, flagVars, dbVars, cams, queueVars, setLock,
                 workerVars, phase, camOf, alive, watchdog, startup>>

\* Mutation: the cameras are told to stop but not joined.
MutCamerasNotJoined ==
  /\ worker = "off" /\ camsLock = "none" /\ MainGoto("slock", "sclear")
  /\ camsLock' = "main"
  /\ StopThreads(cams)
  /\ UNCHANGED <<loopVars, flagVars, dbVars, cams, queueVars, setLock,
                 workerVars, phase, camOf, alive, watchdog, startup>>

\* Once the worker is joined: cams_lock.lock() and stop() for every camera.
StopAll ==
  /\ worker = "off" /\ camsLock = "none" /\ MainGoto("slock", "sjoin")
  /\ camsLock' = "main"
  /\ StopThreads(cams)
  /\ UNCHANGED <<loopVars, flagVars, dbVars, cams, queueVars, setLock,
                 workerVars, phase, camOf, alive, watchdog, startup>>

\* join() for every camera, one after the other, and cams.clear().
JoinAll ==
  /\ \A h \in cams : phase[h] = "exited"
  /\ MainGoto("sjoin", "sclear")
  /\ Forget(cams)
  /\ UNCHANGED <<loopVars, flagVars, dbVars, queueVars, lockVars, workerVars>>

\* The two queues are emptied, startup_cams_list is not; both locks are freed.
ClearQueues ==
  /\ setLock = "none" /\ MainGoto("sclear", "close")
  /\ stopList' = {} /\ startList' = {}
  /\ camsLock' = "none"
  /\ UNCHANGED <<loopVars, flagVars, dbVars, cams, startupList, setLock,
                 workerVars, threadVars>>

CloseDb ==
  /\ MainGoto("close", "run")
  /\ dbOpen' = FALSE
  /\ UNCHANGED <<loopVars, flagVars, active, sharedVars, workerVars,
                 threadVars>>

\* Where the main thread and the camera threads have left the process.
Finished == mpc = "done" /\ UNCHANGED vars
-----------------------------------------------------------------------------
(***************************************************************************)
(* The remote worker: run_worker() with the commands that reach the system *)
(* controller.  Sockets and buffers are not modelled: one wake-up delivers *)
(* a batch of at most MaxBatch complete lines.                             *)
(***************************************************************************)
\* select() returns: lines to execute, or the kill pipe alone (n = 0).
WorkerWake(n) ==
  /\ worker = "select" /\ (n > 0 \/ killWorker)
  /\ worker' = "parse" /\ batch' = n
  /\ UNCHANGED <<mainVars, flagVars, dbVars, sharedVars, cmd,
                 killWorker, threadVars>>

\* Mutation: a line is extracted after the last one of the buffer.
MutParsePastEnd(c) ==
  /\ worker = "parse"
  /\ worker' = "run" /\ cmd' = c /\ batch' = batch - 1
  /\ UNCHANGED <<mainVars, flagVars, dbVars, sharedVars, killWorker,
                 threadVars>>

\* execute_cmd(): the next line is dispatched.
ParseCommand(c) ==
  /\ worker = "parse" /\ batch > 0
  /\ worker' = "run" /\ cmd' = c /\ batch' = batch - 1
  /\ UNCHANGED <<mainVars, flagVars, dbVars, sharedVars, killWorker,
                 threadVars>>

\* while (!kill_worker), at the end of a round.
WorkerRound ==
  /\ worker = "parse" /\ batch = 0
  /\ worker' = IF killWorker THEN "off" ELSE "select"
  /\ UNCHANGED <<mainVars, flagVars, dbVars, sharedVars, batch, cmd,
                 killWorker, threadVars>>

\* A command that is done returns to process_input().
Executing(op) == worker = "run" /\ cmd.op = op
Answered == worker' = "parse" /\ cmd' = NoCmd /\ UNCHANGED <<batch, killWorker>>

\* Mutation: START inserts without cam_set_lock.
MutStartUnlocked ==
  /\ Executing("START") /\ Answered
  /\ startupList' = startupList \cup {cmd.cam}
  /\ startList' = startList \cup {cmd.cam}
  /\ UNCHANGED <<mainVars, flagVars, dbVars, cams, stopList, lockVars,
                 threadVars>>

CmdStart ==
  /\ Executing("START") /\ setLock = "none" /\ Answered
  /\ startupList' = startupList \cup {cmd.cam}
  /\ startList' = startList \cup {cmd.cam}
  /\ UNCHANGED <<mainVars, flagVars, dbVars, cams, stopList, lockVars,
                 threadVars>>

\* Mutation: STOP inserts without cam_set_lock.
MutStopUnlocked ==
  /\ Executing("STOP") /\ Answered
  /\ stopList' = stopList \cup {cmd.cam}
  /\ UNCHANGED <<mainVars, flagVars, dbVars, cams, startList, startupList,
                 lockVars, threadVars>>

CmdStop ==
  /\ Executing("STOP") /\ setLock = "none" /\ Answered
  /\ stopList' = stopList \cup {cmd.cam}
  /\ UNCHANGED <<mainVars, flagVars, dbVars, cams, startList, startupList,
                 lockVars, threadVars>>

CmdRestart ==
  /\ Executing("RESTART") /\ setLock = "none" /\ Answered
  /\ stopList' = stopList \cup {cmd.cam}
  /\ startList' = startList \cup {cmd.cam}
  /\ UNCHANGED <<mainVars, flagVars, dbVars, cams, startupList, lockVars,
                 threadVars>>

CmdReload ==
  /\ Executing("RELOAD") /\ Answered
  /\ remoteReload' = TRUE
  /\ UNCHANGED <<mainVars, exitRequested, reloadRequested, dbVars, sharedVars,
                 threadVars>>

\* get_camera_status(): reads the status of one or all cameras under cams_lock.
CmdStatus ==
  /\ Executing("STATUS") /\ camsLock = "none" /\ Answered
  /\ UNCHANGED <<mainVars, flagVars, dbVars, sharedVars, threadVars>>

\* list_state(): cams_lock, then cam_set_lock, then the ids of cams are copied
\* and cams_lock is released; cam_set_lock protects the rest.
ListLockCams ==
  /\ Executing("LIST") /\ camsLock = "none"
  /\ worker' = "list" /\ camsLock' = "worker"
  /\ UNCHANGED <<mainVars, flagVars, dbVars, cams, queueVars, setLock, batch,
                 cmd, killWorker, threadVars>>

ListCopyRunning ==
  /\ worker = "list" /\ setLock = "none"
  /\ worker' = "mark" /\ setLock' = "worker" /\ camsLock' = "none"
  /\ UNCHANGED <<mainVars, flagVars, dbVars, cams, queueVars, batch, cmd,
                 killWorker, threadVars>>

\* Mutation: list_state() returns without unlocking cam_set_lock.
MutListKeepsLock ==
  /\ worker = "mark" /\ Answered
  /\ UNCHANGED <<mainVars, flagVars, dbVars, sharedVars, threadVars>>

ListRelease ==
  /\ worker = "mark" /\ Answered
  /\ setLock' = "none"
  /\ UNCHANGED <<mainVars, flagVars, dbVars, cams, queueVars, camsLock,
                 threadVars>>
-----------------------------------------------------------------------------
\* A step of one camera thread: it touches nothing that belongs to another.
CameraStep(h) ==
  /\ ThreadStep(h)
  /\ UNCHANGED <<mainVars, flagVars, dbVars, sharedVars, workerVars>>
-----------------------------------------------------------------------------
(***************************************************************************)
(* The environment: signals, and edits of the config table.                *)
(***************************************************************************)
ShutdownSignal ==
  /\ "INT" \in Signals
  /\ exitRequested' = TRUE
  /\ UNCHANGED <<mainVars, reloadRequested, remoteReload, dbVars, sharedVars,
                 workerVars, threadVars>>

ReloadSignal ==
  /\ "HUP" \in Signals
  /\ reloadRequested' = TRUE
  /\ UNCHANGED <<mainVars, exitRequested, remoteReload, dbVars, sharedVars,
                 workerVars, threadVars>>

EditActive(c) ==
  /\ active' = IF c \in active THEN active \ {c} ELSE active \cup {c}
  /\ UNCHANGED <<mainVars, flagVars, dbOpen, sharedVars, workerVars,
                 threadVars>>
-----------------------------------------------------------------------------
MainStep ==
  \/ RunHead \/ LoadConfig \/ ConnectDb \/ CheckDatabase \/ RemoteInit
  \/ SelectActive \/ (\E c \in Cameras : EnqueueActive(c))
  \/ LockCams \/ ClearStartup \/ (\E h \in Handles : PingCamera(h))
  \/ ProbeStartup \/ NoteStartup \/ RestartStale \/ LockSets
  \/ StopListed \/ (\E c \in Cameras : JoinListed(c)) \/ StopsDone
  \/ (\E c \in Cameras : StartListed(c)) \/ StartsDone \/ UnlockCams
  \/ LoopCondition
  \/ KillWorker \/ StopAll \/ JoinAll \/ ClearQueues \/ CloseDb

\* The worker executes what it has received, and answers the kill pipe.
ExecuteStep ==
  \/ CmdStart \/ CmdStop \/ CmdRestart \/ CmdReload \/ CmdStatus
  \/ ListLockCams \/ ListCopyRunning \/ ListRelease

WorkerStep ==
  \/ WorkerWake(0) \/ (\E c \in Commands : ParseCommand(c)) \/ WorkerRound
  \/ ExecuteStep

Receive == \E n \in 1..MaxBatch : WorkerWake(n)

Environment ==
  \/ ShutdownSignal \/ ReloadSignal \/ (\E c \in Editable : EditActive(c))

Next ==
  \/ MainStep \/ Finished
  \/ Receive \/ WorkerStep
  \/ \E h \in Handles : CameraStep(h)
  \/ Environment

Spec == Init /\ [][Next]_vars

\* A thread that can run runs, and a thread that waits for a mutex which is
\* released again and again is eventually given it: the main thread holds no
\* mutex while it sleeps for ten seconds, and the worker holds one only for a
\* bounded copy.
ThreadFairness ==
  /\ SF_vars(MainStep)
  /\ SF_vars(WorkerStep)
  /\ \A h \in Handles : WF_vars(CameraStep(h) /\ LocalStep(h))

\* The calls that wait for the network return: connect() succeeds or fails, and
\* a stream that has not ended delivers a frame.  This needs a timeout in
\* ffmpeg-demux-options, whose default sets none.
NetworkFairness ==
  \A h \in Handles :
    /\ WF_vars(CameraStep(h) /\ (ConnectFails(h) \/ Connects(h)))
    /\ WF_vars(CameraStep(h) /\ ProcessFrame(h))

FairSpec == Spec /\ ThreadFairness /\ NetworkFairness

\* The same program on a network that may leave a read waiting for ever.
FrozenNetworkSpec == Spec /\ ThreadFairness
-----------------------------------------------------------------------------
(***************************************************************************)
(* Properties.                                                             *)
(***************************************************************************)
\* Every variable has its type.
TypeOK ==
  /\ mpc \in MainPcs /\ todo \subseteq Cameras /\ unseen \subseteq Handles
  /\ cur \in Handles \cup {None}
  /\ exitRequested \in BOOLEAN /\ reloadRequested \in BOOLEAN
  /\ remoteReload \in BOOLEAN
  /\ dbOpen \in BOOLEAN /\ active \subseteq Cameras
  /\ cams \subseteq Handles
  /\ stopList \subseteq Cameras /\ startList \subseteq Cameras
  /\ startupList \subseteq Cameras
  /\ camsLock \in Owner /\ setLock \in Owner
  /\ worker \in {"off", "select", "parse", "run", "list", "mark"}
  /\ batch \in 0..MaxBatch /\ cmd \in Commands \cup {NoCmd}
  /\ killWorker \in BOOLEAN
  /\ ThreadTypeOK

\* Two threads never record the same camera, not even while one of them is
\* being stopped: restart joins the old thread before start_cams() looks for
\* duplicates (system_controller.cpp: stop_cams, start_cams).
OneThreadPerCamera ==
  \A g, h \in Threads : camOf[g] = camOf[h] => g = h

\* Camera threads and the remote worker query the database, so none of them
\* exists outside the connect/close pair of run_instance(), in particular not
\* across a reload.
ThreadsHaveDatabase ==
  Threads # {} \/ worker # "off" => dbOpen

\* While stop_cams() walks stop_cams_list and start_cams() walks
\* start_cams_list no other thread inserts into them, although commands keep
\* arriving: an insertion would be lost by the clear() that follows.
QueuesStableInPass ==
  [][/\ mpc = "join" /\ mpc' = "join" => UNCHANGED <<stopList, startList>>
     /\ mpc = "start" /\ mpc' = "start" => UNCHANGED startList]_vars

\* When a queue of stop requests is emptied, by a pass or by the end of the
\* instance, no thread of a listed camera is left.
StopRequestsServed ==
  [][stopList # {} /\ stopList' = {} =>
       \A h \in cams' : camOf'[h] \notin stopList]_vars

\* The controller implements CameraSupervision: a recorder is a thread that has
\* not been joined, a session is the life of the database connection.
Supervision == INSTANCE CameraSupervision WITH
  session   <- dbOpen,
  recorders <- {<<camOf[h], h>> : h \in Threads}

\* Every step of the controller is a step of CameraSupervision or leaves it
\* alone: recorders begin one at a time and only for a camera that has none, and
\* the database is closed only over an empty set of recorders.
ImplementsSupervision == Supervision!Spec

\* An exit request ends the program, with every camera thread and the worker
\* gone.
ExitHonoured ==
  exitRequested ~> (mpc = "done" /\ Threads = {} /\ worker = "off")

\* A reload request, by SIGHUP or by RELOAD, is followed by a new load of the
\* configuration, whenever it arrives, unless the program exits.
ReloadHonoured ==
  /\ reloadRequested ~> (mpc = "load" /\ ~reloadRequested) \/ mpc = "done"
  /\ remoteReload ~> mpc \in {"load", "done"}

\* Every command is answered although START, STOP, RESTART, LIST and STATUS
\* wait for locks that the main thread holds while it joins camera threads.
CommandsAnswered == worker = "run" ~> worker \notin {"run", "list", "mark"}

\* A camera that stays active and that no client stops is recording, or has a
\* thread that tries to, again and again: after every failure, restart or
\* reload.  A thread that has left run() does not count, whatever its atomics
\* say (the early returns of Camera::run leave alive set).
ActiveCameraReturns ==
  \A c \in Cameras :
    [](c \in active) =>
      []<>(mpc = "done" \/ \E h \in cams : /\ camOf[h] = c
                                         /\ phase[h] \in {"connecting", "reading"})
-----------------------------------------------------------------------------
(***************************************************************************)
(* What comments and documentation say and the code does not do.           *)
(***************************************************************************)
\* loop(): "restart anything that froze".  A camera queued for a restart is
\* restarted, also when what froze is a read of the network.
FrozenCameraRestarted ==
  \A c \in Cameras : c \in stopList ~> c \notin stopList
=============================================================================
