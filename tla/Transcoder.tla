----------------------------- MODULE Transcoder -----------------------------
(***************************************************************************)
(* The way of a video frame in a camera's thread: charge_video_decoder(),  *)
(* the first frame that sets up the filter and the encoder, and the loop of *)
(* Camera::run(), which decodes, shows a frame to the motion modules,      *)
(* filters and encodes it.                                                 *)
(*                                                                         *)
(* A packet has a number and a kind; the frame that it is decoded to has   *)
(* its number.  A decoder returns frames in the order of the packets, from *)
(* the first keyframe on; a decoder and a filter graph may hold back some  *)
(* frames, which nothing flushes when the camera stops.                    *)
(***************************************************************************)
EXTENDS Integers, SequencesExt

Kinds == {"key", "video", "audio", "damaged"}
Packets(kinds) == [i \in DOMAIN kinds |-> [number |-> i, kind |-> kinds[i]]]

\* What a browser can play; a camera may have neither stream, or streams of another format.
VideoFormats == {"h264", "hevc"}
AudioFormats == {"aac", "ac3"}
None == "none"

\* get_vencode() and get_aencode(), of encode-format-video or -audio and the camera's format.
GetVencode(option, codec) == codec # None /\ (option \in VideoFormats \/ codec \notin VideoFormats)
GetAencode(option, codec) ==
  option # None /\ codec # None /\ (option \in AudioFormats \/ codec \notin AudioFormats)

\* passthrough: the decoder's format is the encoder's; decoder and filter: the number of
\* frames that they hold back; late: the frames that the motion modules skip.
Pipelines ==
  [option : {"copy", "hevc"}, codec : {"h264", "mjpeg"},
   passthrough : BOOLEAN, decoder : 0..1, filter : 0..1, late : SUBSET {1}]

\* packets: still to come; charged: decoded_packets; frames: decoded_video_frames; coded and
\* graph: within the decoder and the filter graph; tmp: tmp_frame, while it is filled; seen and
\* encoded: what the motion modules and the encoder have been given.
Camera(p, kinds) ==
  p @@ [encode |-> GetVencode(p.option, p.codec),
        packets |-> Packets(kinds), charged |-> << >>, frames |-> << >>, coded |-> << >>,
        keyed |-> FALSE, graph |-> << >>, tmp |-> << >>, peeked |-> FALSE, started |-> FALSE,
        seen |-> << >>, encoded |-> << >>, failed |-> FALSE]

-----------------------------------------------------------------------------
(* StreamUnwrap *)

IsVideo(packet) == packet.kind # "audio"
CanDecode(packet) == packet.kind # "damaged"

DecodePacket(c, packet) ==
  IF packet.kind = "key" \/ c.keyed
  THEN [c EXCEPT !.keyed = TRUE, !.coded = Append(@, packet.number)] ELSE c

\* What get_decoded_frame_int() returns until it has no more, and what stays.
Ready(c) == SubSeq(c.coded, 1, Len(c.coded) - c.decoder)
Received(c) == [c EXCEPT !.coded = SubSeq(@, Len(Ready(c)) + 1, Len(@))]

\* get_decoded_frame(): first what charge_video_decoder() has decoded.
Decoded(c) == c.frames \o Ready(c)

\* charge_video_decoder(), up to the first frame: packets are kept for get_next_frame().
RECURSIVE Charge(_)
Charge(c) ==
  IF c.packets = << >> THEN c
  ELSE LET packet == Head(c.packets)
           d == [c EXCEPT !.packets = Tail(@), !.charged = Append(@, packet)]
           e == DecodePacket(d, packet)
       IN IF ~IsVideo(packet) THEN Charge(d)
          ELSE IF ~CanDecode(packet) THEN d
          ELSE IF Ready(e) = << >> THEN Charge(e)
          ELSE [e EXCEPT !.frames = <<Head(e.coded)>>, !.coded = Tail(@)]

-----------------------------------------------------------------------------
(* Filter *)

CanSend(c) == c.peeked \/ ~c.passthrough \/ c.tmp = << >>
SendFrame(c, frame) ==
  IF c.peeked THEN c
  ELSE IF c.passthrough THEN [c EXCEPT !.tmp = <<frame>>]
  ELSE [c EXCEPT !.graph = Append(@, frame)]

Filtered(c) == SubSeq(c.graph, 1, Len(c.graph) - c.filter)

\* peek_frame(), which forgets the frame that it passes through.
PeekFrame(c) ==
  IF c.passthrough THEN [c EXCEPT !.tmp = << >>]
  ELSE IF c.tmp # << >> \/ Filtered(c) = << >> THEN c
  ELSE [c EXCEPT !.tmp = <<Head(c.graph)>>, !.graph = Tail(@), !.peeked = TRUE]

\* get_frame() until there is no more.
GetFrames(c) == c.tmp \o (IF c.passthrough THEN << >> ELSE Filtered(c))
Taken(c) ==
  [c EXCEPT !.tmp = << >>, !.peeked = FALSE,
            !.graph = IF c.passthrough THEN @ ELSE SubSeq(@, Len(Filtered(c)) + 1, Len(@))]

-----------------------------------------------------------------------------
(* Camera::run() *)

\* peek_decoded_vframe().  Without a frame there is nothing to set up the filter with, and
\* the thread fails.
HasVframe(c) == c.frames # << >>
Setup(c) ==
  IF HasVframe(c) THEN PeekFrame(SendFrame(c, Head(c.frames))) ELSE [c EXCEPT !.failed = TRUE]

\* StreamWriter::write() of a frame.
Write(c, frame) == [c EXCEPT !.encoded = Append(@, frame)]

ShouldSkip(c, frame) == frame \in c.late

\* The motion modules, unless the camera is late, and the encoder.
ProcessFrame(c, frame) ==
  LET d == IF ShouldSkip(c, frame) THEN c ELSE [c EXCEPT !.seen = Append(@, frame)]
  IN IF ~c.encode \/ c.failed THEN d
     ELSE IF ~CanSend(c) THEN [d EXCEPT !.failed = TRUE]
     ELSE LET sent == SendFrame(d, frame)
          IN FoldLeft(Write, Taken(sent), GetFrames(sent))

HandlePacket(c, packet) ==
  LET started == c.started \/ packet.kind = "key"
      d == [c EXCEPT !.started = started]
      e == DecodePacket(d, packet)
  IN IF c.failed \/ ~started \/ ~IsVideo(packet) \/ ~CanDecode(packet) THEN d
     ELSE FoldLeft(ProcessFrame, [Received(e) EXCEPT !.frames = << >>], Decoded(e))

Begin(c) == IF c.encode THEN Setup(Charge(c)) ELSE c
NextFrame(c) ==
  IF c.charged # << >>
  THEN HandlePacket([c EXCEPT !.charged = Tail(@)], Head(c.charged))
  ELSE HandlePacket([c EXCEPT !.packets = Tail(@)], Head(c.packets))

\* All of a stream.
Run(c) ==
  LET ready == Begin(c) IN FoldLeft(HandlePacket, ready, ready.charged \o ready.packets)
=============================================================================
