------------------------- MODULE CameraSupervision -------------------------
(***************************************************************************)
(* What the system controller promises about camera threads, without       *)
(* locks, queues, flags or program counters.  A session is the time during *)
(* which the database is connected.  A recorder is a camera thread from    *)
(* the moment it is created until it has been joined.                      *)
(*                                                                         *)
(*   - A recorder begins only inside a session, and only when its camera   *)
(*     has no other recorder: two threads never record the same camera.    *)
(*   - A session never ends over a recorder: a thread that may still query *)
(*     the database is joined first.                                       *)
(***************************************************************************)
EXTENDS Naturals

CONSTANTS Cameras,   \* camera ids
          Handles    \* std::thread objects

VARIABLES session,   \* is the database connected?
          recorders  \* the pairs <<camera, thread>> not yet joined

vars == <<session, recorders>>

Init ==
  /\ session = FALSE
  /\ recorders = {}

Open ==
  /\ ~session
  /\ session' = TRUE
  /\ UNCHANGED recorders

Begin(c, h) ==
  /\ session
  /\ \A r \in recorders : r[1] # c /\ r[2] # h
  /\ recorders' = recorders \cup {<<c, h>>}
  /\ UNCHANGED session

End(S) ==
  /\ S # {}
  /\ recorders' = recorders \ S
  /\ UNCHANGED session

Close ==
  /\ session
  /\ recorders = {}
  /\ session' = FALSE
  /\ UNCHANGED recorders

Next ==
  \/ Open
  \/ \E c \in Cameras, h \in Handles : Begin(c, h)
  \/ \E S \in SUBSET recorders : End(S)
  \/ Close

Spec == Init /\ [][Next]_vars
=============================================================================
