---------------------------- MODULE MCTranscoder ----------------------------
(***************************************************************************)
(* A camera that transcodes or only decodes up to four packets.            *)
(***************************************************************************)
EXTENDS Transcoder

VARIABLE camera

Sources == UNION {[1..n -> Kinds] : n \in 1..4}

Init == \E p \in Pipelines, kinds \in Sources : camera = Begin(Camera(p, kinds))
Next == camera.charged \o camera.packets # << >> /\ camera' = NextFrame(camera)
Spec == Init /\ [][Next]_camera

\* No frame is encoded twice: what the filter has already got is dropped when it comes again.
EncodedOnce == IsInjective(camera.encoded)
=============================================================================
