----------------------------- MODULE Recording -----------------------------
(***************************************************************************)
(* What the recorder of one camera promises about its packets, without     *)
(* queues, timestamps, files or places in them.                            *)
(*                                                                         *)
(*   - A packet that was accepted waits until it is recorded or lost; it   *)
(*     is recorded once, and what is lost is never recorded.               *)
(*   - Segments are made one after the other, each of all that was         *)
(*     recorded since the one before, and a finished one never changes.    *)
(***************************************************************************)
EXTENDS SequencesExt

CONSTANT Packets    \* ids of the packets of the camera

VARIABLES
  waiting,          \* accepted, but not recorded yet
  lost,
  open,             \* the packets of the segment that is being recorded
  segments          \* the finished segments, each a sequence of packets

vars == <<waiting, lost, open, segments>>

Init == waiting = {} /\ lost = {} /\ open = << >> /\ segments = << >>

Recorded == UNION {Range(s) : s \in Range(segments) \cup {open}}
New(p) == p \notin waiting \cup lost \cup Recorded

Accept(p) ==
  /\ waiting' = waiting \cup {p} /\ New(p)
  /\ UNCHANGED <<lost, open, segments>>

Lose(p) ==
  /\ lost' = lost \cup {p} /\ waiting' = waiting \ {p}
  /\ p \in waiting \/ New(p)
  /\ UNCHANGED <<open, segments>>

Record(p) ==
  /\ p \in waiting /\ waiting' = waiting \ {p} /\ open' = Append(open, p)
  /\ UNCHANGED <<lost, segments>>

Cut ==
  /\ segments' = Append(segments, open) /\ open' = << >>
  /\ UNCHANGED <<waiting, lost>>

Next == (\E p \in Packets : Accept(p) \/ Lose(p) \/ Record(p)) \/ Cut
Spec == Init /\ [][Next]_vars
=============================================================================
