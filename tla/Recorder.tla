------------------------------ MODULE Recorder ------------------------------
(***************************************************************************)
(* The way of a packet from a camera to the disk and back: the reorder     *)
(* queue of StreamUnwrap, the loop of Camera::run(), the interleaving      *)
(* buffer of StreamWriter, cut_video(), which makes segments and files of  *)
(* what it writes, and CFMP4, through which an export reads a segment.     *)
(*                                                                         *)
(* Packets are copied, not encoded; the two streams have one time base, so *)
(* that last_dts and interleaved_dts are the same; a packet is one byte of  *)
(* a file.  Opening a file does not fail here (it does in FileManager).    *)
(* A file is named by the time at which it begins: that no two of a camera *)
(* begin in the same millisecond, and the second overwrites the first, is  *)
(* an assumption of this module (NewFile).                                 *)
(***************************************************************************)
EXTENDS Integers, SequencesExt

CONSTANTS
  ReorderLen,       \* reorder-queue-len
  Depth,            \* interleave-queue-depth
  MaxBuffered,      \* packets kept before all streams are seen (100)
  SegmentLen, FileLen,      \* seconds-per-segment, seconds-per-file
  Fragmented,       \* the extension is .mp4
  InitLen,          \* bytes of the init segment
  Offsets,          \* by how much a packet of the camera may be out of order
  ConnectTime,      \* connect_time when connect() has filled the reorder queue
  Drifts,           \* by how much connect_time may be set (none for a file)
  MaxPackets, MaxDts, MaxOdd        \* bounds

Streams == {"video", "audio"}
None == -2      \* below all times

ASSUME RecorderAssumption ==
  /\ {ReorderLen, Depth, MaxBuffered, MaxPackets, MaxDts, MaxOdd} \subseteq Nat
  /\ {SegmentLen, FileLen, InitLen} \subseteq Nat \ {0} /\ Fragmented \in BOOLEAN
  /\ Offsets \subseteq Int /\ Drifts \subseteq Int /\ ConnectTime \in Nat

VARIABLES
  \* the camera: packets sent, next dts of each stream, irregular packets and changes of
  \* connect_time, whether it ended; connect_time
  sent, next, odd, eof, connectTime,
  place,        \* of run(): "charge", "loop", "packet" (one has been read), "ended"; of
                \* write_interleaved(): "write" (a packet is ready), "cut" (cut_video()), "mux"
  queue,        \* reorder_queue
  valid,        \* valid_keyframe
  lastPts,
  \* the writer: last_dts, interleaving_buf, track_len_dts and the packet being written
  last, buffer, track, hand,
  \* the muxer: last dts, and packets it has not flushed; whether a write failed
  muxed, pending, failed,
  \* files, as bytes (ids of packets, 0 in the init segment), and rows; what cut_video() keeps
  files, rows, lastCut, lastCutFile, lastCutByte,
  \* history: time of the last packet that left the queue and what had arrived by then; ids of
  \* keyframes and of video packets; ids that write() was given, that it dropped and that the
  \* muxer refused, and whether some packet lasted no time
  popped, keys, videos, given, dropped, refused, still

cameraVars == <<sent, next, odd, eof, connectTime, keys, videos>>
readVars   == <<cameraVars, queue, valid, lastPts, popped>>
bufferVars == <<last, buffer, given, dropped>>
emitVars   == <<track, hand, still>>
muxVars    == <<muxed, refused, failed>>
cutVars    == <<rows, lastCut, lastCutFile, lastCutByte>>
fileVars   == <<files, pending, cutVars>>
writerVars == <<bufferVars, emitVars, muxVars, fileVars>>
vars == <<place, readVars, writerVars>>

Ids(q) == [i \in DOMAIN q |-> q[i].id]

\* e before the first of the places I in q, or at the end.
Insert(q, e, I) == IF I = {} THEN Append(q, e) ELSE InsertAt(q, Min(I), e)

Header == IF Fragmented THEN [i \in 1..InitLen |-> 0] ELSE << >>
Row(name, start) == [name |-> name, start |-> start, end |-> None, from |-> None, to |-> None]
NoPacket == [id |-> 0, stream |-> "video", at |-> 0, dts |-> 0, pts |-> 0, dur |-> 0, key |-> FALSE]

\* compute_timestamp().  Times of rows are in half ticks.
Time(pts) == 2 * (connectTime + pts)

Init ==
  /\ sent = 0 /\ next = [s \in Streams |-> 0] /\ odd = 0 /\ eof = FALSE /\ connectTime = ConnectTime
  /\ place = "charge" /\ queue = << >> /\ valid = FALSE /\ lastPts = 0
  /\ last = [s \in Streams |-> None] /\ buffer = << >>
  /\ track = [s \in Streams |-> None] /\ hand = NoPacket
  /\ muxed = [s \in Streams |-> None] /\ pending = << >> /\ failed = FALSE
  /\ files = <<Header>> /\ rows = <<Row(1, Time(0))>>
  /\ lastCut = 0 /\ lastCutFile = 0 /\ lastCutByte = 0
  /\ popped = [dts |-> None, sent |-> 0] /\ keys = {} /\ videos = {}
  /\ given = {} /\ dropped = {} /\ refused = {} /\ still = FALSE

-----------------------------------------------------------------------------
(* StreamUnwrap *)

\* What the camera may send: the next packet of a stream, or an odd one, which is out of order
\* or repeated, follows a jump, lasts too long, or has no duration and may be shown late.
Packet(s, dts, delay, dur, key, nextDts) ==
  [packet |-> [id |-> sent + 1, stream |-> s, at |-> dts, dts |-> dts, pts |-> dts + delay,
               dur |-> dur, key |-> key],
   next |-> nextDts]

Regular == {Packet(s, next[s], 0, 1, key, next[s] + 1) : s \in Streams, key \in BOOLEAN}
Odd ==
  UNION {{Packet(s, next[s] + off, 0, 1, key, next[s] + 1) : off \in Offsets}
         \cup {Packet(s, to, 0, 1, key, to + 1) : to \in {0, next[s] + 2}}
         \cup {Packet(s, next[s], 0, 2, key, next[s] + 1)}
         \cup {Packet(s, next[s], delay, 0, key, next[s] + 1) : delay \in IF s = "video" THEN 0..1 ELSE {0}} :
           s \in Streams, key \in BOOLEAN}

\* sort_reorder_queue(): nothing moves unless the new packet is before the last one.
Overtaken(q, p) ==
  {i \in DOMAIN q : \/ q[i].dts > p.dts
                    \/ q[i].stream # p.stream /\ q[i].dts = p.dts /\ p.stream = "video"}
MutSorted(q, p) == IF q = << >> \/ Last(q).dts <= p.dts THEN Append(q, p) ELSE Cons(p, q)
Sorted(q, p) ==
  IF q = << >> \/ Last(q).dts <= p.dts THEN Append(q, p) ELSE Insert(q, p, Overtaken(q, p))

\* The resync of read_frame(): the packet has drifted too far from wall time.  It moves the
\* times of what is cut from now on, also of packets that have been read before.
Resync == \E drift \in Drifts \cup {0} : connectTime' = connectTime + drift /\ connectTime' \in Nat
Oddities(a) == (IF a \in Regular THEN 0 ELSE 1) + (IF connectTime' = connectTime THEN 0 ELSE 1)

\* read_frame(), whose failure is final here.
Arrives(a) ==
  /\ a.packet.dts \in 0..MaxDts /\ (a.packet.key => a.packet.stream = "video")
  /\ odd' = odd + Oddities(a) /\ odd' <= MaxOdd
  /\ next' = [next EXCEPT ![a.packet.stream] = a.next]
  /\ keys' = IF a.packet.key THEN keys \cup {a.packet.id} ELSE keys
  /\ videos' = IF a.packet.stream = "video" THEN videos \cup {a.packet.id} ELSE videos
  /\ queue' = Sorted(queue, a.packet)
ReadFrame ==
  \/ /\ ~eof /\ sent < MaxPackets /\ sent' = sent + 1 /\ UNCHANGED eof
     /\ Resync /\ \E a \in Regular \cup Odd : Arrives(a)
  \/ eof' = TRUE /\ UNCHANGED <<queue, sent, odd, next, connectTime, keys, videos>>

\* charge_reorder_queue().  What its reads make of connect_time is ConnectTime: nothing uses
\* it before.
Charge ==
  /\ place = "charge" /\ Len(queue) < ReorderLen /\ UNCHANGED connectTime /\ ReadFrame
  /\ place' = IF eof' THEN "loop" ELSE place
  /\ UNCHANGED <<valid, lastPts, popped, writerVars>>

Connected ==
  /\ place = "charge" /\ Len(queue) >= ReorderLen /\ place' = "loop"
  /\ UNCHANGED <<readVars, writerVars>>

GetNextPacket ==
  /\ place = "loop" /\ ~failed /\ ReadFrame
  /\ place' = IF queue' = << >> THEN place ELSE "packet"
  /\ UNCHANGED <<valid, lastPts, popped, writerVars>>

\* The front of the queue; without a duration it lasts until the next one of its stream.
NextPacket ==
  LET p == Head(queue)
      i == SelectInSeq(Tail(queue), LAMBDA x : x.stream = p.stream)
  IN IF p.dur # 0 \/ i = 0 THEN p ELSE [p EXCEPT !.dur = queue[i + 1].pts - p.pts]

-----------------------------------------------------------------------------
(* Camera::run() and StreamWriter::write() *)

\* A packet that comes late is moved behind the one before.
MutMoved(p) == p
Moved(p) == IF p.dts < last[p.stream] THEN [p EXCEPT !.dts = last[p.stream] + 1] ELSE p

\* interleave().
Placed(p) == Insert(buffer, p, {i \in DOMAIN buffer : buffer[i].dts > p.dts})

\* write_interleaved() writes a packet when all streams were seen and no earlier one can come.
Unseen == \E s \in Streams : last[s] = None
Ready ==
  ~Unseen /\ Len(buffer) > Depth /\ \A s \in Streams : Head(buffer).dts <= last[s]

Write(p) ==
  /\ given' = given \cup {p.id}
  /\ \/ /\ p.dts = last[p.stream] /\ place' = "loop" /\ dropped' = dropped \cup {p.id}
        /\ UNCHANGED <<last, buffer, failed>>
     \/ /\ p.dts # last[p.stream] /\ UNCHANGED dropped
        /\ last' = [last EXCEPT ![p.stream] = Moved(p).dts] /\ buffer' = Placed(Moved(p))
        /\ failed' = (failed \/ (Unseen' /\ Len(buffer') > MaxBuffered))
        /\ place' = IF Ready' THEN "write" ELSE "loop"

\* Packets before the first keyframe are not written.
HandlePacket ==
  /\ place = "packet" /\ queue' = Tail(queue)
  /\ popped' = [dts |-> NextPacket.dts, sent |-> sent] /\ lastPts' = NextPacket.pts
  /\ valid' = (valid \/ NextPacket.key)
  /\ \/ ~valid' /\ place' = "loop" /\ UNCHANGED <<bufferVars, failed>>
     \/ valid' /\ Write(NextPacket)
  /\ UNCHANGED <<cameraVars, emitVars, muxed, refused, fileVars>>

-----------------------------------------------------------------------------
(* StreamWriter: interleaving *)

notWrite == <<readVars, last, given, dropped>>

\* A packet that begins less than its duration after the end of the one before begins there.
Shifted(p) ==
  LET gap == p.dts - track[p.stream]
  IN IF track[p.stream] # None /\ gap > 0 /\ gap < p.dur THEN [p EXCEPT !.dts = @ - gap] ELSE p

\* fixup_duration_interleave().
Fixup(p, rest) ==
  LET i == SelectInSeq(rest, LAMBDA x : x.stream = p.stream)
      most == rest[i].dts - p.dts
  IN IF i # 0 /\ p.dur > most /\ most > 0 THEN [p EXCEPT !.dur = most] ELSE p

\* Whether cut_video() has something to do at a keyframe: a segment ends.
Seconds(p) == p.at - lastCut
Due(p) == p.key /\ (Seconds(p) > SegmentLen \/ (Seconds(p) < 0 /\ lastCut > 0))

Emit ==
  /\ place = "write" /\ buffer' = Tail(buffer)
  /\ LET p == Shifted(Head(buffer))
     IN /\ hand' = Fixup(p, Tail(buffer))
        /\ track' = [track EXCEPT ![p.stream] = p.dts + p.dur]
        /\ still' = (still \/ p.dur <= 0)
        /\ place' = IF Due(p) THEN "cut" ELSE "mux"
  /\ UNCHANGED <<notWrite, muxVars, fileVars>>

\* av_interleaved_write_frame(), which wants the timestamps of a stream to increase.
Mux ==
  /\ place = "mux" /\ place' = (IF Ready THEN "write" ELSE "loop") /\ hand' = NoPacket
  /\ \/ /\ muxed[hand.stream] >= hand.dts
        /\ failed' = TRUE /\ refused' = refused \cup {hand.id} /\ UNCHANGED <<muxed, pending>>
     \/ /\ muxed[hand.stream] < hand.dts
        /\ muxed' = [muxed EXCEPT ![hand.stream] = hand.dts] /\ pending' = Append(pending, hand)
        /\ UNCHANGED <<failed, refused>>
  /\ UNCHANGED <<notWrite, buffer, track, still, files, cutVars>>

-----------------------------------------------------------------------------
(* Files and rows *)

\* write_buf(): what the muxer holds goes to the file.
Flushed == [files EXCEPT ![Len(files)] = @ \o Ids(pending)]
Size == Len(Flushed[Len(files)])
MutFlush == UNCHANGED pending
Flush == pending' = << >>

\* update_file_metadata() of the last row.
MutEnded(from, end) ==
  [rows EXCEPT ![Len(rows)] = [@ EXCEPT !.end = end, !.from = from, !.to = Len(Last(files))]]
Ended(from, end) ==
  [rows EXCEPT ![Len(rows)] = [@ EXCEPT !.end = end, !.from = from, !.to = Size]]

\* cut_video(): in the same file or with a new one.
SameFile == Fragmented /\ Seconds(hand) >= 0 /\ hand.at - lastCutFile < FileLen
notCut == <<notWrite, buffer, emitVars, muxVars>>

Frag ==
  /\ place = "cut" /\ SameFile /\ place' = "mux"
  /\ files' = Flushed /\ Flush
  /\ rows' = Append(Ended(IF lastCutByte = 0 THEN InitLen ELSE lastCutByte, Time(hand.pts)),
                    Row(Len(files), Time(hand.pts)))
  /\ lastCutByte' = Size /\ lastCut' = hand.at
  /\ UNCHANGED <<notCut, lastCutFile>>

MutFirstByte == lastCutByte
FirstByte == 0
NewFile ==
  /\ place = "cut" /\ ~SameFile /\ place' = "mux"
  /\ files' = Append(Flushed, Header) /\ Flush
  /\ rows' = Append(Ended(lastCutByte, Time(hand.pts)),
                    Row(Len(files) + 1,
                        IF Seconds(hand) < 0 THEN Time(hand.pts) + 1 ELSE Time(hand.pts)))
  /\ lastCutByte' = FirstByte /\ lastCut' = hand.at /\ lastCutFile' = hand.at
  /\ UNCHANGED notCut

\* At the end of the stream, after a write that failed, or on request.
Finish ==
  /\ place = "loop" /\ place' = "ended"
  /\ files' = Flushed /\ Flush /\ rows' = Ended(lastCutByte, Time(lastPts))
  /\ UNCHANGED <<notCut, lastCut, lastCutFile, lastCutByte>>

Next == \/ Charge \/ Connected \/ GetNextPacket \/ HandlePacket
        \/ Emit \/ Mux \/ Frag \/ NewFile \/ Finish
Spec == Init /\ [][Next]_vars

-----------------------------------------------------------------------------
(* CFMP4: a row as a file of its own, the init segment and then its bytes. *)

\* One read at byte pos of the file, of at most n bytes.
Read(row, pos, n) ==
  LET at == IF pos < InitLen \/ pos > row.from THEN pos ELSE row.from
      end == IF pos < InitLen THEN InitLen ELSE row.to
      to == IF at + n < end THEN at + n ELSE end
  IN IF pos >= row.to THEN [bytes |-> << >>, pos |-> pos]
     ELSE [bytes |-> SubSeq(files[row.name], at + 1, to), pos |-> to]

\* seek() with SEEK_SET: the byte of the file that is at v in the view, and what it returns.
Skipped(row) == row.from - InitLen
MutSeekSet(row, v) == [pos |-> v, result |-> v]
SeekSet(row, v) ==
  LET pos == IF v >= InitLen THEN v + Skipped(row) ELSE v
  IN [pos |-> pos, result |-> IF pos > InitLen THEN pos - Skipped(row) ELSE pos]

\* With SEEK_END, whose offset is from the end of the row.
SeekEnd(row, offset) ==
  LET target == row.to + offset
      before == target - Skipped(row)
  IN [pos |-> IF target >= row.from THEN target ELSE before, result |-> before]

-----------------------------------------------------------------------------
(* web/stream.php: the playlist of a camera *)

\* The closed rows, by the time they start: j comes next after i.
Closed == {i \in DOMAIN rows : rows[i].end # None}
ListedNext(i, j) ==
  /\ rows[i].start < rows[j].start
  /\ \A k \in Closed : rows[k].start <= rows[i].start \/ rows[j].start <= rows[k].start

\* A discontinuity comes before a row that does not start when the row before it ends.
MutCutBefore(row, previous) == row.start > previous.end + 2
CutBefore(row, previous) == row.start # previous.end

-----------------------------------------------------------------------------
(* Properties *)

Packets == [id : 1..sent, stream : Streams, at : Nat, dts : Int, pts : Nat, dur : Int, key : BOOLEAN]
Times == [Streams -> Int]
Bytes == 0..sent

\* Everything that is kept has its type; no time that is written is before -1; packets wait in
\* the interleaving buffer in the order of their times; places in files are within them.
TypeOK ==
  /\ place \in {"charge", "loop", "packet", "write", "cut", "mux", "ended"}
  /\ {eof, valid, failed, still} \subseteq BOOLEAN /\ {sent, lastPts, lastCut, lastCutFile, connectTime} \subseteq Nat
  /\ {queue, buffer, pending} \subseteq Seq(Packets) /\ hand \in Packets \cup {NoPacket}
  /\ place \in {"cut", "mux"} <=> hand # NoPacket
  /\ {last, track, muxed} \subseteq Times
  /\ \A p \in Range(buffer) \cup Range(pending) \cup {hand} : p.dts >= -1 /\ (p.key => p.stream = "video")
  /\ \A i, j \in DOMAIN buffer : i < j => buffer[i].dts <= buffer[j].dts
  /\ files \in Seq(Seq(Bytes)) /\ lastCutByte \in 0..Len(Last(files))
  /\ rows # << >> /\ Last(rows).name = Len(files)
  /\ \A i \in DOMAIN rows :
       /\ rows[i].name \in DOMAIN files /\ rows[i].start \in Nat
       /\ rows[i].end # None => /\ rows[i].from \in Nat
                                /\ rows[i].to \in rows[i].from..Len(files[rows[i].name])

\* The reorder queue: a packet that leaves it after one with a later time came from the camera
\* only when that one had left.
ReorderKeepsOrder ==
  [][popped' # popped => popped'.dts >= popped.dts \/ Head(queue).id > popped.sent]_vars

\* Every packet the writer was given is, once, in a file, in the muxer, at hand or in the
\* buffer, or was dropped for its time or refused by the muxer.  (The buffer is not emptied at
\* the end.)
InFiles == (UNION {Range(files[f]) : f \in DOMAIN files}) \ {0}
IdsOf(q) == {q[i].id : i \in DOMAIN q}
Fates == <<InFiles, IdsOf(pending), {hand.id} \ {0}, IdsOf(buffer), dropped, refused>>
NoneLostOrTwice ==
  /\ \A f, g \in DOMAIN files : f < g => Range(files[f]) \cap Range(files[g]) \subseteq {0}
  /\ \A f \in DOMAIN files : \A i \in DOMAIN files[f] :
       files[f][i] # 0 => \A j \in 1..(i - 1) : files[f][i] # files[f][j]
  /\ IsInjective(Ids(pending)) /\ IsInjective(Ids(buffer))
  /\ LET fates == Fates
     IN /\ \A a, b \in DOMAIN fates : a < b => fates[a] \cap fates[b] = {}
        /\ UNION Range(fates) = given

\* Segments can be played one by one: the rows of a file follow each other in time and in bytes
\* and cover it, and the first video packet of each is a keyframe.
\* (Only the first may have none: a first keyframe that comes late begins a second segment.)
VideoIn(row) == {k \in (row.from + 1)..row.to : files[row.name][k] \in videos}
SegmentsIndependent ==
  \A i \in Closed :
    LET row == rows[i]
        isLast == i + 1 \notin DOMAIN rows \/ rows[i + 1].name # row.name
    IN /\ i = 1 \/ rows[i - 1].name # row.name => row.from \in {0, InitLen}
       /\ IF isLast THEN row.to = Len(files[row.name])
          ELSE row.end = rows[i + 1].start /\ (i + 1 \in Closed => row.to = rows[i + 1].from)
       /\ refused = {} =>
            /\ VideoIn(row) = {} => i = 1
            /\ \A k \in VideoIn(row) :
                 (\A j \in VideoIn(row) : k <= j) => files[row.name][k] \in keys

\* They can be played one after the other: segments of the playlist with no discontinuity
\* between them were recorded one after the other, also when the times of the camera jump or
\* the recorder sets its clock.  (Unless one begins at the very time of another, or a millisecond
\* from it, or at the very end of the recording.)
PlaylistFollows ==
  LET starts == [i \in DOMAIN rows |-> rows[i].start]
      apart == \A i, j \in DOMAIN rows : i # j => starts[i] - starts[j] \notin 0..1
  IN apart /\ Last(rows).end \notin Range(starts) =>
       \A i, j \in Closed : ListedNext(i, j) => CutBefore(rows[j], rows[i]) \/ j = i + 1

\* The times that the writer puts right satisfy the muxer unless a packet has no duration.
MuxerRefuses == refused # {} => still

\* A segment as an export reads it is the init segment and the bytes of the row: a read from any
\* place that reads and seeks lead to returns what is there in this view, at most n bytes and
\* none only at its end; and a seek goes where it is asked to.  (In a row that starts at byte 0
\* it does not.)
View(row) ==
  IF row.from = 0 THEN SubSeq(files[row.name], 1, row.to)
  ELSE SubSeq(files[row.name], 1, InitLen) \o SubSeq(files[row.name], row.from + 1, row.to)
Reachable(row) == 0..InitLen \cup row.from..row.to
InView(row, pos) == IF row.from = 0 \/ pos < InitLen THEN pos
                    ELSE IF pos <= row.from THEN InitLen ELSE pos - Skipped(row)
ViewIsSegment ==
  Fragmented => \A i \in Closed :
    LET row == rows[i]
        view == View(row)
    IN /\ \A pos \in Reachable(row) : \A n \in 1..(row.to + 1) :
            LET r == Read(row, pos, n)
                v == InView(row, pos)
                w == InView(row, r.pos)
            IN /\ r.pos \in Reachable(row) /\ r.bytes = SubSeq(view, v + 1, w)
               /\ w \in v..(v + n) /\ (w = v => v = Len(view))
       /\ row.from > 0 => \A v \in 0..(Len(view) - 1) :
            \A to \in {SeekSet(row, v), SeekEnd(row, v - Len(view))} :
              to.result = v /\ to.pos \in Reachable(row) /\ InView(row, to.pos) = v

\* A packet waits in the interleaving buffer or at hand, and is recorded when the muxer takes it,
\* also if that writes it later.  A segment is finished when its row has an end, and is then the
\* bytes that the row tells, without the init segment.
Part(f, from, to) == SubSeq(f, (IF from = 0 THEN Len(Header) ELSE from) + 1, to)
Waiting == IdsOf(buffer) \cup ({hand.id} \ {0})
OpenSegment == IF place = "ended" THEN << >> ELSE Part(Last(Flushed), lastCutByte, Size)
Segments == [i \in Closed |-> Part(files[rows[i].name], rows[i].from, rows[i].to)]
R == INSTANCE Recording WITH
  Packets <- 1..MaxPackets, waiting <- Waiting, lost <- dropped \cup refused,
  open <- OpenSegment, segments <- Segments

\* The recorder implements Recording: a packet that write() is given waits until it is recorded,
\* once, or lost; a row that cut_video() or the end of run() finishes shows all packets that were
\* recorded since the one before, in that order, and shows them for ever, also when it shares
\* its file with others.
ImplementsRecording == R!Spec
=============================================================================
