----------------------- MODULE SystemControllerProofs -----------------------
(***************************************************************************)
(* Proofs about SystemController, for any number of cameras, thread        *)
(* objects, commands and signals.                                          *)
(*                                                                         *)
(* The argument rests on one inductive invariant, IInv.  Its parts say who *)
(* owns what: ThreadInv, that the list of cameras is the set of threads    *)
(* not yet joined; SessionInv, where the main thread may be while threads, *)
(* the worker or the database connection exist; LockInv, who holds each    *)
(* mutex; PassInv, what the main thread remembers in the middle of a pass. *)
(***************************************************************************)
EXTENDS SystemController, TLAPS

\* The list cams holds the threads that have not been joined, each for a camera
\* of its own.
ThreadInv ==
  /\ cams = Threads
  /\ \A h \in cams : camOf[h] \in Cameras
  /\ \A g, h \in cams : camOf[g] = camOf[h] => g = h

\* Where the main thread may be while cameras run, and while the worker does.
CameraPcs == {"lock", "clear", "ping", "probe", "note", "requeue", "stop",
              "join", "start", "unlock", "cond", "kill", "slock", "sjoin"}
WorkerPcs == (CameraPcs \cup {"select", "enqueue"}) \ {"sjoin"}

SessionInv ==
  /\ cams # {} => mpc \in CameraPcs
  /\ worker # "off" => mpc \in WorkerPcs
  /\ mpc \in SessionPcs => dbOpen
  /\ mpc \in {"load", "connect"} => ~dbOpen
  /\ mpc = "run" /\ dbOpen => exitRequested

\* Each mutex is held exactly where the code holds it.
LockInv ==
  /\ setLock = "main" <=> mpc \in {"stop", "join", "start"}
  /\ setLock = "worker" <=> worker = "mark"
  /\ camsLock = "main" <=>
       mpc \in {"clear", "ping", "probe", "note", "requeue", "stop", "join",
                "start", "unlock", "sjoin", "sclear"}
  /\ camsLock = "worker" <=> worker = "list"

\* In the middle of a pass: the camera looked at is still in the list, and a
\* camera that has been asked to stop is still to be joined.
PassInv ==
  /\ mpc = "ping" => unseen \subseteq cams
  /\ mpc \in {"probe", "note", "requeue"} => cur \in cams /\ unseen \subseteq cams
  /\ mpc = "join" => \A h \in cams : camOf[h] \in stopList => camOf[h] \in todo

IInv == TypeOK /\ ThreadInv /\ SessionInv /\ LockInv /\ PassInv
-----------------------------------------------------------------------------
(***************************************************************************)
(* IInv is inductive.                                                      *)
(***************************************************************************)
\* The groups of variables that UNCHANGED names.
USE DEF loopVars, mainVars, flagVars, dbVars, queueVars, lockVars, sharedVars,
        workerVars, threadVars, vars

\* The initial states satisfy the invariant.
LEMMA InitInv == Init => IInv
<1> SUFFICES ASSUME Init PROVE IInv
  OBVIOUS
<1> USE DEF Init
<1>1. ThreadTypeOK /\ Threads = {}
  BY DEF ThreadInit, ThreadTypeOK, Phases, Threads
<1>2. batch \in 0..MaxBatch
  BY ConstantsAssumption
<1>3. TypeOK
  BY <1>1, <1>2 DEF TypeOK, MainPcs, Owner
<1>4. ThreadInv /\ SessionInv /\ LockInv /\ PassInv
  BY <1>1 DEF ThreadInv, SessionInv, SessionPcs, LockInv, PassInv
<1> QED  BY <1>3, <1>4 DEF IInv

\* What the main thread does between run() and loop(): there is no camera yet,
\* and no worker before RemoteInit.
LEMMA StartUpInv ==
  ASSUME IInv,
         \/ RunHead \/ LoadConfig \/ ConnectDb \/ CheckDatabase \/ RemoteInit
         \/ SelectActive \/ (\E c \in Cameras : EnqueueActive(c))
  PROVE  IInv'
<1> USE DEF IInv, TypeOK, ThreadTypeOK, Threads, ThreadInv, SessionInv, LockInv,
            PassInv, MainGoto, MainPcs, SessionPcs, CameraPcs, WorkerPcs, Owner
<1>1. CASE RunHead \/ LoadConfig \/ ConnectDb \/ CheckDatabase
  <2> USE DEF RunHead, LoadConfig, ConnectDb, CheckDatabase
  <2>1. UNCHANGED <<loopVars, sharedVars, workerVars, threadVars>>
    BY <1>1
  <2>2. /\ mpc' \in MainPcs /\ dbOpen' \in BOOLEAN /\ exitRequested' \in BOOLEAN
        /\ reloadRequested' \in BOOLEAN /\ remoteReload' \in BOOLEAN
        /\ active' \subseteq Cameras
    BY <1>1
  <2>3. TypeOK'
    BY <2>1, <2>2
  <2>4. ThreadInv' /\ SessionInv'
    BY <1>1, <2>1
  <2>5. LockInv' /\ PassInv'
    BY <1>1, <2>1
  <2> QED  BY <2>3, <2>4, <2>5
<1>2. CASE RemoteInit
  BY <1>2 DEF RemoteInit
<1>3. CASE SelectActive
  BY <1>3 DEF SelectActive
<1>4. ASSUME NEW c \in Cameras, EnqueueActive(c) PROVE IInv'
  BY <1>4 DEF EnqueueActive
<1> QED  BY <1>1, <1>2, <1>3, <1>4

\* One pass of loop() up to stop_cams(): ping() and the watchdog.
LEMMA WatchdogInv ==
  ASSUME IInv,
         \/ LockCams \/ ClearStartup \/ (\E h \in Handles : PingCamera(h))
         \/ ProbeStartup \/ NoteStartup \/ RestartStale \/ LockSets
  PROVE  IInv'
<1> USE DEF IInv, TypeOK, ThreadTypeOK, Threads, ThreadInv, SessionInv, LockInv,
            PassInv, MainGoto, MainPcs, SessionPcs, CameraPcs, WorkerPcs, Owner
<1>1. CASE LockCams
  BY <1>1 DEF LockCams
<1>2. CASE ClearStartup
  BY <1>2 DEF ClearStartup
<1>3. ASSUME NEW h \in Handles, PingCamera(h) PROVE IInv'
  BY <1>3 DEF PingCamera
<1>4. CASE ProbeStartup
  BY <1>4 DEF ProbeStartup
<1>5. CASE NoteStartup
  BY <1>5 DEF NoteStartup
<1>6. CASE RestartStale
  BY <1>6 DEF RestartStale
<1>7. CASE LockSets
  BY <1>7 DEF LockSets
<1> QED  BY <1>1, <1>2, <1>3, <1>4, <1>5, <1>6, <1>7

\* stop_cams() joins and erases one camera.  Every other listed camera is still
\* to be joined, because no other one has the same id.
LEMMA JoinListedInv ==
  ASSUME IInv, NEW c \in Cameras, JoinListed(c)
  PROVE  IInv'
<1> USE DEF IInv, JoinListed
<1>1. CASE c \notin CamIds /\ UNCHANGED <<cams, threadVars>>
  BY <1>1 DEF CamIds, TypeOK, ThreadTypeOK, Threads, ThreadInv, SessionInv,
              LockInv, PassInv
<1>2. CASE \E h \in cams : camOf[h] = c /\ phase[h] = "exited" /\ Forget({h})
  <2>1. PICK h \in cams : camOf[h] = c /\ phase[h] = "exited" /\ Forget({h})
    BY <1>2
  <2> USE DEF Forget, FreeThreads
  <2>2. h \in Handles
    BY DEF TypeOK
  <2>3. TypeOK'
    BY <2>1, <2>2 DEF TypeOK, ThreadTypeOK, Phases
  <2>4. ThreadInv'
    BY <2>1, <2>2 DEF TypeOK, ThreadTypeOK, Threads, ThreadInv
  <2>5. SessionInv' /\ LockInv'
    BY <2>1 DEF SessionInv, LockInv, WorkerPcs, CameraPcs, SessionPcs
  <2>6. PassInv'
    <3>1. \A g \in cams' : camOf'[g] = camOf[g] /\ camOf[g] # c
      BY <2>1, <2>2 DEF TypeOK, ThreadTypeOK, ThreadInv
    <3>2. \A g \in cams' : camOf[g] \in stopList => camOf[g] \in todo'
      BY <2>1, <3>1 DEF PassInv
    <3> QED  BY <2>1, <3>1, <3>2 DEF PassInv
  <2> QED  BY <2>3, <2>4, <2>5, <2>6
<1> QED  BY <1>1, <1>2

\* start_cams() looks for a camera with the same id before it starts one.
LEMMA StartListedInv ==
  ASSUME IInv, NEW c \in Cameras, StartListed(c)
  PROVE  IInv'
<1> USE DEF IInv, StartListed
<1>1. CASE UNCHANGED <<cams, threadVars>>
  BY <1>1 DEF TypeOK, ThreadTypeOK, Threads, ThreadInv, SessionInv, LockInv,
              PassInv
<1>2. CASE c \notin CamIds /\ \E h \in Handles : Launch(h, c)
  <2>1. PICK h \in Handles : Launch(h, c)
    BY <1>2
  <2> USE DEF Launch, StartThread
  <2>2. TypeOK'
    <3>1. ThreadTypeOK'
      BY <2>1 DEF TypeOK, ThreadTypeOK, Phases
    <3>2. todo' \subseteq Cameras /\ cams' \subseteq Handles
      BY <2>1 DEF TypeOK
    <3>3. UNCHANGED <<mpc, unseen, cur, flagVars, dbVars, queueVars, lockVars, workerVars>>
      BY <2>1
    <3> HIDE DEF Launch, StartThread, StartListed
    <3> QED  BY <3>1, <3>2, <3>3 DEF TypeOK
  <2>3. ThreadInv'
    <3>1. \A g \in cams : g # h /\ camOf'[g] = camOf[g] /\ camOf[g] # c
      BY <1>2, <2>1 DEF TypeOK, ThreadTypeOK, Threads, ThreadInv, CamIds
    <3>2. camOf'[h] = c
      BY <2>1 DEF TypeOK, ThreadTypeOK
    <3>3. cams' = cams \cup {h}
      BY <2>1
    <3>4. \A g \in Handles : phase'[g] # "free" <=> phase[g] # "free" \/ g = h
      BY <2>1 DEF TypeOK, ThreadTypeOK
    <3>5. cams' = Threads'
      BY <3>3, <3>4 DEF Threads, ThreadInv
    <3> QED  BY <3>1, <3>2, <3>3, <3>5 DEF ThreadInv
  <2>4. SessionInv' /\ LockInv' /\ PassInv'
    BY <2>1 DEF SessionInv, LockInv, PassInv, CameraPcs, WorkerPcs, SessionPcs
  <2> QED  BY <2>2, <2>3, <2>4
<1> QED  BY <1>1, <1>2

\* The rest of a pass, with both mutexes held, and the loop condition.
LEMMA PassEndInv ==
  ASSUME IInv,
         \/ StopListed \/ (\E c \in Cameras : JoinListed(c)) \/ StopsDone
         \/ (\E c \in Cameras : StartListed(c)) \/ StartsDone \/ UnlockCams
         \/ LoopCondition
  PROVE  IInv'
<1> USE DEF IInv, TypeOK, ThreadTypeOK, Threads, ThreadInv, SessionInv, LockInv,
            PassInv, MainGoto, MainPcs, SessionPcs, CameraPcs, WorkerPcs, Owner
<1>1. CASE StopListed
  BY <1>1 DEF StopListed, StopThreads
<1>2. CASE StopsDone
  BY <1>2 DEF StopsDone
<1>3. CASE StartsDone
  BY <1>3 DEF StartsDone
<1>4. CASE UnlockCams
  BY <1>4 DEF UnlockCams
<1>5. CASE LoopCondition
  BY <1>5 DEF LoopCondition
<1> QED  BY <1>1, <1>2, <1>3, <1>4, <1>5, JoinListedInv, StartListedInv

\* The end of run_instance(): the worker is joined, then every camera, and only
\* then is the database closed.
LEMMA ShutdownInv ==
  ASSUME IInv, KillWorker \/ StopAll \/ JoinAll \/ ClearQueues \/ CloseDb
  PROVE  IInv'
<1> USE DEF IInv, TypeOK, ThreadTypeOK, Threads, ThreadInv, SessionInv, LockInv,
            PassInv, MainGoto, MainPcs, SessionPcs, CameraPcs, WorkerPcs, Owner
<1>1. CASE KillWorker
  BY <1>1 DEF KillWorker
<1>2. CASE StopAll
  BY <1>2 DEF StopAll, StopThreads
<1>3. CASE JoinAll
  BY <1>3 DEF JoinAll, Forget, FreeThreads, Phases
<1>4. CASE ClearQueues
  BY <1>4 DEF ClearQueues
<1>5. CASE CloseDb
  BY <1>5 DEF CloseDb
<1> QED  BY <1>1, <1>2, <1>3, <1>4, <1>5

\* The remote worker runs only where WorkerPcs says, and a command that inserts
\* into a queue does so while the main thread is not walking one.
LEMMA WorkerInv ==
  ASSUME IInv, Receive \/ WorkerStep
  PROVE  IInv'
<1> USE DEF IInv, TypeOK, ThreadTypeOK, Threads, ThreadInv, SessionInv, LockInv,
            PassInv, SessionPcs, CameraPcs, WorkerPcs, Owner, Commands,
            NoCmd, Executing, Answered
<1>1. ASSUME NEW n \in 0..MaxBatch, WorkerWake(n) PROVE IInv'
  BY <1>1, ConstantsAssumption DEF WorkerWake
<1>2. ASSUME NEW c \in Commands, ParseCommand(c) PROVE IInv'
  BY <1>2, ConstantsAssumption DEF ParseCommand
<1>3. CASE WorkerRound
  BY <1>3 DEF WorkerRound
<1>4. CASE CmdStart
  BY <1>4 DEF CmdStart
<1>5. CASE CmdStop
  BY <1>5 DEF CmdStop
<1>6. CASE CmdRestart
  BY <1>6 DEF CmdRestart
<1>7. CASE CmdReload
  BY <1>7 DEF CmdReload
<1>8. CASE CmdStatus
  BY <1>8 DEF CmdStatus
<1>9. CASE ListLockCams
  BY <1>9 DEF ListLockCams
<1>10. CASE ListCopyRunning
  BY <1>10 DEF ListCopyRunning, CamIds
<1>11. CASE ListRelease
  BY <1>11 DEF ListRelease
<1> QED  BY <1>1, <1>2, <1>3, <1>4, <1>5, <1>6, <1>7, <1>8, <1>9, <1>10, <1>11, ConstantsAssumption DEF Receive, WorkerStep, ExecuteStep

\* A camera thread changes its own flags and its place in run(); it neither
\* starts nor ends being a thread.
LEMMA CameraThreadStep ==
  ASSUME ThreadTypeOK, NEW h \in Handles, ThreadStep(h)
  PROVE  ThreadTypeOK' /\ Threads' = Threads /\ camOf' = camOf
  BY DEF ThreadStep, NetworkReturns, LocalStep, ConnectFails, GiveUp, Connects,
         EndStartup, ChargeDecoder, SetupFails, OpenOutput, ProcessFrame,
         StreamEnds, CloseCamera, LoopHead, ThreadGoto, ThreadTypeOK, Phases,
         Threads

LEMMA CameraInv ==
  ASSUME IInv, NEW h \in Handles, CameraStep(h)
  PROVE  IInv'
<1>1. ThreadTypeOK' /\ Threads' = Threads /\ camOf' = camOf
  BY CameraThreadStep DEF IInv, TypeOK, CameraStep
<1> QED
  BY <1>1 DEF IInv, TypeOK, ThreadInv, SessionInv, LockInv, PassInv, CameraStep

\* Signals only set flags, and an edit of the config table only changes rows.
LEMMA EnvironmentInv ==
  ASSUME IInv, Environment
  PROVE  IInv'
<1> USE DEF IInv, TypeOK, ThreadTypeOK, Threads, ThreadInv, SessionInv, LockInv,
            PassInv
<1>1. CASE ShutdownSignal
  BY <1>1 DEF ShutdownSignal
<1>2. CASE ReloadSignal
  BY <1>2 DEF ReloadSignal
<1>3. ASSUME NEW c \in Editable, EditActive(c) PROVE IInv'
  BY <1>3, ConstantsAssumption DEF EditActive
<1> QED  BY <1>1, <1>2, <1>3 DEF Environment

LEMMA StepInv == IInv /\ [Next]_vars => IInv'
<1> SUFFICES ASSUME IInv, [Next]_vars PROVE IInv'
  OBVIOUS
<1>1. CASE MainStep
  BY <1>1, StartUpInv, WatchdogInv, PassEndInv, ShutdownInv DEF MainStep
<1>2. CASE UNCHANGED vars
  BY <1>2 DEF IInv, TypeOK, ThreadTypeOK, Threads, ThreadInv, SessionInv,
              LockInv, PassInv
<1> QED
  BY <1>1, <1>2, WorkerInv, CameraInv, EnvironmentInv DEF Next, Finished

\* IInv holds in every reachable state.
THEOREM Invariant == Spec => []IInv
  BY InitInv, StepInv, PTL DEF Spec
-----------------------------------------------------------------------------
(***************************************************************************)
(* The invariants of the controller.                                       *)
(***************************************************************************)
\* Every variable always has its type.
THEOREM TypeCorrect == Spec => []TypeOK
<1>1. IInv => TypeOK
  BY DEF IInv
<1> QED  BY <1>1, Invariant, PTL

\* No interleaving of the watchdog, the commands and the threads lets two
\* threads record one camera.
THEOREM UniqueThreads == Spec => []OneThreadPerCamera
<1>1. IInv => OneThreadPerCamera
  BY DEF IInv, ThreadInv, OneThreadPerCamera
<1> QED  BY <1>1, Invariant, PTL

\* The database is connected whenever a camera thread or the worker exists.
THEOREM DatabaseOutlivesThreads == Spec => []ThreadsHaveDatabase
<1>1. IInv => ThreadsHaveDatabase
  BY DEF IInv, ThreadInv, SessionInv, ThreadsHaveDatabase, CameraPcs, WorkerPcs,
         SessionPcs
<1> QED  BY <1>1, Invariant, PTL
-----------------------------------------------------------------------------
(***************************************************************************)
(* Action properties.                                                      *)
(***************************************************************************)
\* The only steps that change the list of cameras, or which threads exist and
\* for which camera.
LEMMA ThreadsChangedBy ==
  ASSUME IInv, [Next]_vars
  PROVE  \/ \E c \in Cameras : JoinListed(c) \/ StartListed(c)
         \/ JoinAll
         \/ cams' = cams /\ Threads' = Threads /\ camOf' = camOf
<1> USE DEF Threads
<1>1. CASE MainStep
  BY <1>1 DEF MainStep, RunHead, LoadConfig, ConnectDb, CheckDatabase,
     RemoteInit, SelectActive, EnqueueActive, LockCams, ClearStartup,
     PingCamera, ProbeStartup, NoteStartup, RestartStale, LockSets, StopListed,
     StopsDone, StartsDone, UnlockCams, LoopCondition, KillWorker, StopAll,
     ClearQueues, CloseDb
<1>2. CASE WorkerStep \/ Receive
  BY <1>2 DEF WorkerStep, Receive, WorkerWake, ParseCommand, WorkerRound,
     ExecuteStep, CmdStart, CmdStop, CmdRestart, CmdReload, CmdStatus,
     ListLockCams, ListCopyRunning, ListRelease
<1>3. ASSUME NEW h \in Handles, CameraStep(h)
      PROVE  cams' = cams /\ Threads' = Threads /\ camOf' = camOf
  BY <1>3, CameraThreadStep DEF CameraStep, IInv, TypeOK
<1>4. CASE Environment
  BY <1>4 DEF Environment, ShutdownSignal, ReloadSignal, EditActive
<1> QED  BY <1>1, <1>2, <1>3, <1>4 DEF Next, Finished

\* The only steps that change the two queues: the watchdog and the start-up, the
\* two clear() calls of a pass, the end of the instance, and the commands.
LEMMA QueuesChangedBy ==
  ASSUME [Next]_vars
  PROVE  \/ UNCHANGED <<stopList, startList>>
         \/ \E c \in Cameras : EnqueueActive(c)
         \/ RestartStale \/ StopsDone \/ StartsDone \/ ClearQueues
         \/ CmdStart \/ CmdStop \/ CmdRestart
<1>1. CASE MainStep
  BY <1>1 DEF MainStep, RunHead, LoadConfig, ConnectDb, CheckDatabase,
     RemoteInit, SelectActive, LockCams, ClearStartup, PingCamera, ProbeStartup,
     NoteStartup, LockSets, StopListed, JoinListed, StartListed, UnlockCams,
     LoopCondition, KillWorker, StopAll, JoinAll, CloseDb
<1>2. CASE WorkerStep \/ Receive
  BY <1>2 DEF WorkerStep, Receive, WorkerWake, ParseCommand, WorkerRound,
     ExecuteStep, CmdReload, CmdStatus, ListLockCams, ListCopyRunning,
     ListRelease
<1>3. CASE (\E h \in Handles : CameraStep(h)) \/ Environment
  BY <1>3 DEF CameraStep, Environment, ShutdownSignal, ReloadSignal, EditActive
<1> QED  BY <1>1, <1>2, <1>3 DEF Next, Finished

\* Nothing is inserted into a queue while the main thread walks it: it holds
\* cam_set_lock, and every insertion takes it.
THEOREM StableQueues == Spec => QueuesStableInPass
<1>1. IInv /\ [Next]_vars =>
        [/\ mpc = "join" /\ mpc' = "join" => UNCHANGED <<stopList, startList>>
         /\ mpc = "start" /\ mpc' = "start" => UNCHANGED startList]_vars
  <2> SUFFICES ASSUME IInv, [Next]_vars, mpc \in {"join", "start"}, mpc' = mpc
               PROVE  UNCHANGED <<stopList, startList>>
    OBVIOUS
  <2>1. setLock = "main"
    BY DEF IInv, LockInv
  <2>2. ~CmdStart /\ ~CmdStop /\ ~CmdRestart
    BY <2>1 DEF CmdStart, CmdStop, CmdRestart
  <2>3. /\ \A c \in Cameras : ~EnqueueActive(c)
        /\ ~RestartStale /\ ~StopsDone /\ ~StartsDone /\ ~ClearQueues
    BY DEF EnqueueActive, RestartStale, StopsDone, StartsDone, ClearQueues,
           MainGoto
  <2> QED  BY <2>2, <2>3, QueuesChangedBy
<1> QED  BY <1>1, Invariant, PTL DEF Spec, QueuesStableInPass

\* When stop_cams_list is emptied no camera of it is left: in a pass each one
\* has been joined, at the end of an instance all have.
THEOREM StopsServed == Spec => StopRequestsServed
<1>1. IInv /\ [Next]_vars =>
        [stopList # {} /\ stopList' = {} =>
           \A h \in cams' : camOf'[h] \notin stopList]_vars
  <2> SUFFICES ASSUME IInv, [Next]_vars, stopList # {}, stopList' = {},
                      NEW h \in cams'
               PROVE  camOf'[h] \notin stopList
    OBVIOUS
  <2>1. CASE StopsDone
    BY <2>1 DEF StopsDone, MainGoto, IInv, PassInv
  <2>2. CASE ClearQueues
    BY <2>2 DEF ClearQueues, MainGoto, IInv, SessionInv, CameraPcs
  <2>3. \A c \in Cameras : ~EnqueueActive(c)
    BY DEF EnqueueActive
  <2>4. ~RestartStale /\ ~StartsDone /\ ~CmdStart /\ ~CmdStop /\ ~CmdRestart
    BY DEF RestartStale, StartsDone, CmdStart, CmdStop, CmdRestart
  <2> QED  BY <2>1, <2>2, <2>3, <2>4, QueuesChangedBy
<1> QED  BY <1>1, Invariant, PTL DEF Spec, StopRequestsServed
-----------------------------------------------------------------------------
(***************************************************************************)
(* The controller implements CameraSupervision.                            *)
(***************************************************************************)
\* The recorders of the refinement mapping.
Recorders == {<<camOf[h], h>> : h \in Threads}

\* The only steps that open or close the database.
LEMMA DatabaseChangedBy ==
  ASSUME [Next]_vars
  PROVE  dbOpen' = dbOpen \/ ConnectDb \/ CloseDb
<1>1. CASE MainStep
  BY <1>1 DEF MainStep, RunHead, LoadConfig, CheckDatabase,
     RemoteInit, SelectActive, EnqueueActive, LockCams, ClearStartup,
     PingCamera, ProbeStartup, NoteStartup, RestartStale, LockSets, StopListed,
     JoinListed, StopsDone, StartListed, StartsDone, UnlockCams, LoopCondition,
     KillWorker, StopAll, JoinAll, ClearQueues
<1>2. CASE WorkerStep \/ Receive
  BY <1>2 DEF WorkerStep, Receive, WorkerWake, ParseCommand, WorkerRound,
     ExecuteStep, CmdStart, CmdStop, CmdRestart, CmdReload, CmdStatus,
     ListLockCams, ListCopyRunning, ListRelease
<1>3. CASE (\E h \in Handles : CameraStep(h)) \/ Environment
  BY <1>3 DEF CameraStep, Environment, ShutdownSignal, ReloadSignal, EditActive
<1> QED  BY <1>1, <1>2, <1>3 DEF Next, Finished

\* Joining threads ends their recorders and no other.
LEMMA ForgetEnds ==
  ASSUME IInv, NEW S \in SUBSET cams, Forget(S)
  PROVE  Recorders' = Recorders \ {<<camOf[h], h>> : h \in S}
<1>1. \A h \in Handles : h \notin S => phase'[h] = phase[h] /\ camOf'[h] = camOf[h]
  BY DEF Forget, FreeThreads
<1>2. \A h \in S : phase'[h] = "free"
  BY DEF Forget, FreeThreads, IInv, TypeOK
<1>3. Threads' = Threads \ S
  BY <1>1, <1>2 DEF Threads
<1> QED  BY <1>1, <1>3 DEF Recorders, Threads

\* Starting a thread begins one recorder, of a camera that has none.
LEMMA LaunchBegins ==
  ASSUME IInv, NEW c \in Cameras, c \notin CamIds, NEW h \in Handles, Launch(h, c)
  PROVE  /\ Recorders' = Recorders \cup {<<c, h>>}
         /\ \A r \in Recorders : r[1] # c /\ r[2] # h
<1> USE DEF Launch, StartThread
<1>1. /\ phase'[h] # "free" /\ camOf'[h] = c
      /\ \A g \in Handles \ {h} : phase'[g] = phase[g] /\ camOf'[g] = camOf[g]
  BY DEF IInv, TypeOK, ThreadTypeOK
<1>2. Threads' = Threads \cup {h}
  BY <1>1 DEF Threads
<1>3. \A g \in Threads : g # h /\ g \in Handles /\ camOf[g] # c
  BY DEF Threads, IInv, ThreadInv, CamIds
<1>4. Recorders' = Recorders \cup {<<c, h>>}
  BY <1>1, <1>2, <1>3 DEF Recorders
<1>5. \A r \in Recorders : r[1] # c /\ r[2] # h
  BY <1>3 DEF Recorders
<1> QED  BY <1>4, <1>5

\* A step of the controller is a step of CameraSupervision or a stutter.
LEMMA SupervisionStep ==
  IInv /\ [Next]_vars => [Supervision!Next]_(Supervision!vars)
<1> SUFFICES ASSUME IInv, [Next]_vars
             PROVE  Supervision!Next \/ (dbOpen' = dbOpen /\ Recorders' = Recorders)
  BY DEF Supervision!vars, Recorders
<1> USE DEF IInv
<1>1. CASE ConnectDb
  <2>1. Threads' = Threads /\ camOf' = camOf
    BY <1>1 DEF ConnectDb, Threads
  <2>2. ~dbOpen
    BY <1>1 DEF ConnectDb, MainGoto, SessionInv
  <2>3. Recorders' = Recorders
    BY <2>1 DEF Recorders
  <2> QED
    BY <1>1, <2>2, <2>3 DEF ConnectDb, Supervision!Next, Supervision!Open, Recorders
<1>2. CASE CloseDb
  <2>1. Threads' = {} /\ Threads = {}
    BY <1>2 DEF CloseDb, MainGoto, SessionInv, ThreadInv, CameraPcs, Threads
  <2>2. dbOpen
    BY <1>2 DEF CloseDb, MainGoto, SessionInv, SessionPcs
  <2> QED
    BY <1>2, <2>1, <2>2 DEF CloseDb, Supervision!Next, Supervision!Close
<1>3. ASSUME dbOpen' = dbOpen, NEW S \in SUBSET cams, Forget(S)
      PROVE  Supervision!Next \/ Recorders' = Recorders
  <2> DEFINE E == {<<camOf[h], h>> : h \in S}
  <2>1. Recorders' = Recorders \ E
    BY <1>3, ForgetEnds
  <2>2. E \in SUBSET Recorders
    BY DEF Recorders, ThreadInv
  <2>3. CASE S = {}
    BY <2>1, <2>3
  <2>4. CASE S # {}
    <3>1. E # {}
      BY <2>4
    <3>2. \E R \in SUBSET Recorders :
            R # {} /\ Recorders' = Recorders \ R /\ dbOpen' = dbOpen
      BY <1>3, <2>1, <2>2, <3>1
    <3> QED
      BY <3>2 DEF Supervision!Next, Supervision!End, Recorders
  <2> QED  BY <2>3, <2>4
<1>4. ASSUME NEW c \in Cameras, JoinListed(c)
      PROVE  Supervision!Next \/ (dbOpen' = dbOpen /\ Recorders' = Recorders)
  <2>1. dbOpen' = dbOpen
    BY <1>4 DEF JoinListed
  <2>2. CASE UNCHANGED <<cams, threadVars>>
    BY <2>1, <2>2 DEF Recorders, Threads
  <2>3. CASE \E h \in cams : Forget({h})
    BY <2>1, <2>3, <1>3
  <2> QED  BY <1>4, <2>2, <2>3 DEF JoinListed
<1>5. ASSUME NEW c \in Cameras, StartListed(c)
      PROVE  Supervision!Next \/ (dbOpen' = dbOpen /\ Recorders' = Recorders)
  <2>1. dbOpen' = dbOpen /\ mpc = "start"
    BY <1>5 DEF StartListed
  <2>2. CASE UNCHANGED <<cams, threadVars>>
    BY <2>1, <2>2 DEF Recorders, Threads
  <2>3. ASSUME c \notin CamIds, NEW h \in Handles, Launch(h, c)
        PROVE  Supervision!Next
    <3>1. dbOpen
      BY <2>1 DEF SessionInv, SessionPcs
    <3>2. Supervision!Begin(c, h)
      BY <2>1, <2>3, <3>1, LaunchBegins DEF Supervision!Begin, Recorders
    <3> QED  BY <3>2 DEF Supervision!Next
  <2> QED  BY <1>5, <2>2, <2>3 DEF StartListed
<1>6. CASE JoinAll
  BY <1>6, <1>3 DEF JoinAll
<1>7. CASE dbOpen' = dbOpen /\ cams' = cams /\ Threads' = Threads /\ camOf' = camOf
  BY <1>7 DEF Recorders
<1> QED
  BY <1>1, <1>2, <1>4, <1>5, <1>6, <1>7, DatabaseChangedBy, ThreadsChangedBy

\* The controller implements CameraSupervision: under every interleaving
\* recorders begin one per camera and inside a session, and no session ends over
\* one.
THEOREM Refinement == Spec => ImplementsSupervision
<1>1. Init => Supervision!Init
  BY DEF Init, ThreadInit, Threads, Supervision!Init
<1>2. IInv /\ [Next]_vars => [Supervision!Next]_(Supervision!vars)
  BY SupervisionStep
<1> QED
  BY <1>1, <1>2, Invariant, PTL DEF Spec, ImplementsSupervision, Supervision!Spec
=============================================================================
