----------------------------- MODULE MCRecorder -----------------------------
(***************************************************************************)
(* Six packets of a camera, two of them odd, that are copied; and all      *)
(* streams of up to four packets that are decoded and transcoded.          *)
(***************************************************************************)
EXTENDS Recorder

MCOffsets == {-1}
MCDrifts == {-4}

T == INSTANCE Transcoder

Sources == UNION {[1..n -> T!Kinds] : n \in 1..4}
Numbers(packets) == [i \in DOMAIN packets |-> packets[i].number]

\* The packets from the first keyframe on that can be decoded.
Decodable(packets) ==
  LET key == SelectInSeq(packets, LAMBDA p : p.kind = "key")
  IN IF key = 0 THEN << >>
     ELSE Numbers(SelectSeq(SubSeq(packets, key, Len(packets)),
                            LAMBDA p : p.kind \in {"key", "video"}))
Without(s, n) == SubSeq(s, 1, Len(s) - n)

\* What is written can be played, whatever the camera sends and the configuration says: what
\* is not encoded has the camera's format.
ASSUME AlwaysPlayable ==
  \A option \in T!VideoFormats \cup T!AudioFormats \cup {"copy", "none"} :
    /\ \A codec \in T!VideoFormats \cup {"mjpeg"} :
         T!GetVencode(option, codec) \/ codec \in T!VideoFormats
    /\ \A codec \in T!AudioFormats \cup {"pcm"} :
         T!GetAencode(option, codec) \/ option = "none" \/ codec \in T!AudioFormats

\* No frame is lost but the last ones, which the decoder and the filter hold back; those of
\* the packets that set up the decoder come first, and then once more with all the others.
ASSUME FramesFollow ==
  \A p \in T!Pipelines, kinds \in Sources :
    LET start == T!Begin(T!Camera(p, kinds))
        end == T!Run(T!Camera(p, kinds))
        decoded == Without(Decodable(start.charged) \o Decodable(T!Packets(kinds)), p.decoder)
        first == IF p.filter = 0 THEN << >> ELSE SubSeq(decoded, 1, 1)
    IN ~end.failed =>
         /\ end.seen = SelectSeq(decoded, LAMBDA n : n \notin p.late)
         /\ start.encode => end.encoded = IF p.passthrough THEN decoded
                                      ELSE Without(first \o decoded, p.filter)
=============================================================================
