--------------------------- MODULE CameraThread ---------------------------
(***************************************************************************)
(* A camera thread, Camera::run(), as the system controller sees it: the   *)
(* four atomics alive, watchdog, startup and shutdown, and where the thread*)
(* is between them.  What it records is not modelled here.                 *)
(*                                                                         *)
(* A step makes one access to an atomic.  Two are merged only where their  *)
(* order cannot be seen: ping() exchanges watchdog and then reads alive,   *)
(* in_startup() reads startup and then alive, and what each pair returns is*)
(* what it would return if both happened at one of the two instants.       *)
(***************************************************************************)
CONSTANTS
  Cameras,     \* camera ids: rows of config, and integers a client may send
  Handles,     \* std::thread objects (SystemController::cams holds their Cameras)
  None         \* "no camera", "no thread"

ASSUME NoneAssumption == None \notin Handles /\ None \notin Cameras

VARIABLES
  phase,       \* where the thread is in run(); "free": no thread
  camOf,       \* the camera id of the thread
  alive, watchdog, startup, shutdown

threadVars == <<phase, camOf, alive, watchdog, startup, shutdown>>

Phases == {"free", "connecting", "failing", "connected", "setup", "charged",
           "reading", "closing", "exited"}

\* The threads that have not been joined.
Threads == {h \in Handles : phase[h] # "free"}

ThreadInit ==
  /\ phase = [h \in Handles |-> "free"]
  /\ camOf = [h \in Handles |-> None]
  /\ alive = [h \in Handles |-> FALSE]
  /\ watchdog = [h \in Handles |-> FALSE]
  /\ startup = [h \in Handles |-> FALSE]
  /\ shutdown = [h \in Handles |-> FALSE]

ThreadTypeOK ==
  /\ phase \in [Handles -> Phases]
  /\ camOf \in [Handles -> Cameras \cup {None}]
  /\ alive \in [Handles -> BOOLEAN] /\ watchdog \in [Handles -> BOOLEAN]
  /\ startup \in [Handles -> BOOLEAN] /\ shutdown \in [Handles -> BOOLEAN]
-----------------------------------------------------------------------------
(***************************************************************************)
(* Called by the main thread.                                              *)
(***************************************************************************)
\* Camera::Camera and Camera::start.
StartThread(h, c) ==
  /\ phase[h] = "free"
  /\ phase' = [phase EXCEPT ![h] = "connecting"]
  /\ camOf' = [camOf EXCEPT ![h] = c]
  /\ alive' = [alive EXCEPT ![h] = TRUE]
  /\ watchdog' = [watchdog EXCEPT ![h] = FALSE]
  /\ startup' = [startup EXCEPT ![h] = TRUE]
  /\ shutdown' = [shutdown EXCEPT ![h] = FALSE]

\* Camera::stop for every thread of S.
StopThreads(S) == shutdown' = [h \in Handles |-> shutdown[h] \/ h \in S]

\* Camera::~Camera for every thread of S, after Camera::join.
FreeThreads(S) ==
  /\ phase' = [h \in Handles |-> IF h \in S THEN "free" ELSE phase[h]]
  /\ camOf' = [h \in Handles |-> IF h \in S THEN None ELSE camOf[h]]
  /\ alive' = [h \in Handles |-> alive[h] /\ h \notin S]
  /\ watchdog' = [h \in Handles |-> watchdog[h] /\ h \notin S]
  /\ startup' = [h \in Handles |-> startup[h] /\ h \notin S]
  /\ shutdown' = [h \in Handles |-> shutdown[h] /\ h \notin S]

\* Mutation: only a thread that says that it has finished is noticed.
MutStale(h) == ~alive[h]

\* Camera::ping(): no frame since the last ping, or the thread has finished.
Stale(h) == ~watchdog[h] \/ ~alive[h]

\* Camera::in_startup(), read after ping() has answered.
InStartup(h) == startup[h] /\ alive[h]
-----------------------------------------------------------------------------
(***************************************************************************)
(* The thread itself.                                                      *)
(***************************************************************************)
ThreadGoto(h, from, to) == phase[h] = from /\ phase' = [phase EXCEPT ![h] = to]

\* stream.connect() returns; it may block for as long as the network does.
ConnectFails(h) ==
  /\ ThreadGoto(h, "connecting", "failing")
  /\ alive' = [alive EXCEPT ![h] = FALSE]
  /\ UNCHANGED <<camOf, watchdog, startup, shutdown>>

GiveUp(h) ==
  /\ ThreadGoto(h, "failing", "exited")
  /\ startup' = [startup EXCEPT ![h] = FALSE]
  /\ UNCHANGED <<camOf, alive, watchdog, shutdown>>

Connects(h) ==
  /\ ThreadGoto(h, "connecting", "connected")
  /\ watchdog' = [watchdog EXCEPT ![h] = TRUE]
  /\ UNCHANGED <<camOf, alive, startup, shutdown>>

EndStartup(h) ==
  /\ ThreadGoto(h, "connected", "setup")
  /\ startup' = [startup EXCEPT ![h] = FALSE]
  /\ UNCHANGED <<camOf, alive, watchdog, shutdown>>

\* With a video encoder the decoder is charged first.
ChargeDecoder(h) ==
  /\ ThreadGoto(h, "setup", "charged")
  /\ watchdog' = [watchdog EXCEPT ![h] = TRUE]
  /\ UNCHANGED <<camOf, alive, startup, shutdown>>

\* One of the early returns for a stream that cannot be set up: the thread is
\* gone, alive stays true.
SetupFails(h) ==
  /\ ThreadGoto(h, "setup", "exited") \/ ThreadGoto(h, "charged", "exited")
  /\ UNCHANGED <<camOf, alive, watchdog, startup, shutdown>>

\* The head of the frame loop: shutdown is read before the next frame is.
LoopHead(h) == IF shutdown[h] THEN "closing" ELSE "reading"

OpenOutput(h) ==
  /\ ThreadGoto(h, "setup", LoopHead(h)) \/ ThreadGoto(h, "charged", LoopHead(h))
  /\ UNCHANGED <<camOf, alive, watchdog, startup, shutdown>>

\* stream.get_next_frame() returns a frame and it is processed.
ProcessFrame(h) ==
  /\ ThreadGoto(h, "reading", LoopHead(h))
  /\ watchdog' = [watchdog EXCEPT ![h] = TRUE]
  /\ UNCHANGED <<camOf, alive, startup, shutdown>>

\* The stream ends, or writing a frame has failed.
StreamEnds(h) ==
  /\ ThreadGoto(h, "reading", "closing")
  /\ UNCHANGED <<camOf, alive, watchdog, startup, shutdown>>

\* The last segment is closed and its metadata saved.
CloseCamera(h) ==
  /\ ThreadGoto(h, "closing", "exited")
  /\ alive' = [alive EXCEPT ![h] = FALSE]
  /\ UNCHANGED <<camOf, watchdog, startup, shutdown>>

\* Steps that return from a call that waits for the network.
NetworkReturns(h) ==
  ConnectFails(h) \/ Connects(h) \/ ProcessFrame(h) \/ StreamEnds(h)

LocalStep(h) ==
  \/ GiveUp(h) \/ EndStartup(h) \/ ChargeDecoder(h) \/ SetupFails(h)
  \/ OpenOutput(h) \/ CloseCamera(h)

ThreadStep(h) == NetworkReturns(h) \/ LocalStep(h)
=============================================================================
