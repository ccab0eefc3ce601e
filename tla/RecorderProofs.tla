--------------------------- MODULE RecorderProofs ---------------------------
(***************************************************************************)
(* Theorems about the way of a packet, for any camera, any lengths of      *)
(* queues, segments and files, with the extension .mp4 or another.         *)
(*                                                                         *)
(* The invariant comes in layers, each of which needs those before it.     *)
(* Core: what the reorder queue, the interleaving buffer and the packet at *)
(* hand are, with times in order and after those that the muxer has.       *)
(* FilesLayer: what a row says of the file, and where the next one begins. *)
(* IdInv: every packet is in one place.  StartInv and KeysInv: every       *)
(* segment, also the one that is being written, begins with a keyframe.    *)
(* The first three are all that the refinement of Recording needs.         *)
(***************************************************************************)
EXTENDS Recorder, SequenceLemmas

-----------------------------------------------------------------------------
(* The invariant *)

AnyPacket == [id : Nat, stream : Streams, at : Nat, dts : Int, pts : Nat, dur : Int, key : BOOLEAN]
AnyRow == [name : Nat, start : Nat, end : Int, from : Int, to : Int]

CameraTyped ==
  /\ sent \in Nat /\ next \in [Streams -> Nat] /\ odd \in Nat /\ eof \in BOOLEAN /\ connectTime \in Nat
  /\ queue \in Seq(AnyPacket) /\ popped \in [dts : Int, sent : Nat]
  /\ keys \subseteq Nat /\ videos \subseteq Nat
WriterTyped ==
  /\ place \in {"charge", "loop", "packet", "write", "cut", "mux", "ended"}
  /\ valid \in BOOLEAN /\ failed \in BOOLEAN /\ still \in BOOLEAN /\ lastPts \in Nat
  /\ last \in Times /\ track \in Times /\ muxed \in Times
  /\ buffer \in Seq(AnyPacket) /\ pending \in Seq(AnyPacket) /\ hand \in AnyPacket
  /\ given \subseteq Nat /\ dropped \subseteq Nat /\ refused \subseteq Nat
FilesTyped ==
  /\ files \in Seq(Seq(Nat)) /\ files # << >> /\ rows \in Seq(AnyRow) /\ rows # << >>
  /\ lastCut \in Nat /\ lastCutFile \in Nat /\ lastCutByte \in Nat

\* A packet of the camera.
KnownTo(n, ks, vs, p) ==
  /\ p.id \in 1..n /\ p.pts \in p.at..(p.at + 1)
  /\ p.key <=> p.id \in ks
  /\ p.stream = "video" <=> p.id \in vs
Known(p) == KnownTo(sent, keys, videos, p)
KnownNext(p) == KnownTo(sent', keys', videos', p)

\* The packets of the reorder queue are in order, and those that are before the last one that
\* left it came after.
PacketRead == place = "packet" => queue # << >>
CameraInv == keys \subseteq videos /\ videos \subseteq 1..sent
QueueInv ==
  /\ popped.sent <= sent
  /\ \A i \in DOMAIN queue :
       /\ Known(queue[i]) /\ queue[i].dts = queue[i].at /\ queue[i].dur >= 0
       /\ queue[i].dts >= popped.dts \/ queue[i].id > popped.sent
  /\ \A i, j \in DOMAIN queue : i < j => queue[i].dts <= queue[j].dts /\ queue[i].id # queue[j].id

\* In the interleaving buffer, times are in order, those of a stream strictly, after those that
\* the muxer has, and up to the last one.
BufferInv ==
  /\ place = "write" => buffer # << >>
  /\ \A i \in DOMAIN buffer :
       LET p == buffer[i]
       IN /\ Known(p) /\ p.dts >= p.at /\ p.dts + p.dur >= -1
          /\ muxed[p.stream] < p.dts /\ p.dts <= last[p.stream]
  /\ \A i, j \in DOMAIN buffer : i < j =>
       /\ buffer[i].dts <= buffer[j].dts
       /\ buffer[i].stream = buffer[j].stream => buffer[i].dts < buffer[j].dts
  /\ \A s \in Streams :
       muxed[s] <= last[s] /\ last[s] >= None /\ muxed[s] >= None /\ (track[s] = None \/ track[s] >= -1)

\* The packet at hand is the earliest of its stream.
HandInv ==
  /\ \/ place \in {"cut", "mux"} /\ Known(hand)
     \/ place \notin {"cut", "mux"} /\ hand = NoPacket
  /\ place \in {"cut", "mux"} =>
       /\ hand.dts >= -1 /\ hand.dts <= last[hand.stream] /\ track[hand.stream] # None
       /\ hand.at >= 0 /\ (place = "cut" => hand.key)
       /\ \A i \in DOMAIN buffer : buffer[i].stream = hand.stream => hand.dts < buffer[i].dts
       /\ ~still => muxed[hand.stream] < hand.dts /\ hand.dts < track[hand.stream]
  /\ ~still => \A s \in Streams : muxed[s] = None \/ muxed[s] < track[s]
  /\ refused # {} => still

\* What is in the files and in the muxer.
PendingInv == \A i \in DOMAIN pending : Known(pending[i]) /\ pending[i].dts >= -1
FilesInv ==
  /\ \A f \in DOMAIN files : \A k \in DOMAIN files[f] : files[f][k] <= sent
  /\ Len(Header) <= Len(Last(files)) /\ \A k \in 1..Len(Header) : Last(files)[k] = 0
  /\ lastCutByte <= Len(Last(files)) /\ (lastCutByte = 0 \/ Len(Header) <= lastCutByte)
  /\ lastCutByte > 0 => Fragmented

\* Every id in one place.
OneEach(q) == \A i, j \in DOMAIN q : q[i].id = q[j].id => i = j
Once(fs) ==
  \A f, g \in DOMAIN fs : \A i \in DOMAIN fs[f], j \in DOMAIN fs[g] :
    fs[f][i] = fs[g][j] => fs[f][i] = 0 \/ (f = g /\ i = j)
IdsIn(fs) == (UNION {Range(fs[f]) : f \in DOMAIN fs}) \ {0}
Apart(A, B, C, D, E, F, all) ==
  /\ A \cap B = {} /\ A \cap C = {} /\ A \cap D = {} /\ A \cap E = {} /\ A \cap F = {}
  /\ B \cap C = {} /\ B \cap D = {} /\ B \cap E = {} /\ B \cap F = {}
  /\ C \cap D = {} /\ C \cap E = {} /\ C \cap F = {}
  /\ D \cap E = {} /\ D \cap F = {} /\ E \cap F = {}
  /\ A \cup B \cup C \cup D \cup E \cup F = all
IdInv ==
  /\ given \subseteq 1..sent
  /\ \A i \in DOMAIN queue : queue[i].id \notin given
  /\ Once(files) /\ OneEach(pending) /\ OneEach(buffer)
  /\ Apart(IdsIn(files), IdsOf(pending), {hand.id} \ {0}, IdsOf(buffer), dropped, refused, given)

\* A row is closed when the next one is added, which begins when it ends and, in the same file,
\* where it ends.  What is closed last begins at lastCutByte.
Follows(r, q) ==
  /\ q.name \in {r.name, r.name + 1}
  /\ r.end = q.start \/ (q.start = r.end + 1 /\ q.name # r.name)
WholeIn(fs, r) ==
  /\ r.name \in DOMAIN fs /\ r.end \in Nat /\ r.from \in Nat /\ r.to \in Nat
  /\ r.from <= r.to /\ r.to <= Len(fs[r.name])
  /\ Len(Header) <= r.to /\ (r.from = 0 \/ Len(Header) <= r.from)
Whole(r) == WholeIn(files, r)
BeginsFile(i) == i = 1 \/ rows[i - 1].name # rows[i].name
EndsFile(i) == rows[i + 1].name # rows[i].name
From(i) == IF i = Len(rows) THEN lastCutByte ELSE rows[i].from
RowsInv ==
  /\ rows[1].name = 1 /\ rows[Len(rows)].name = Len(files)
  /\ Len(rows) = 1 => lastCut = 0
  /\ \A i \in 1..(Len(rows) - 1) :
       /\ Follows(rows[i], rows[i + 1]) /\ Whole(rows[i])
       /\ BeginsFile(i) => rows[i].from \in {0, InitLen}
       /\ rows[i].to = IF EndsFile(i) THEN Len(files[rows[i].name]) ELSE From(i + 1)
  /\ BeginsFile(Len(rows)) => lastCutByte = 0
  /\ IF place = "ended"
     THEN /\ Whole(rows[Len(rows)]) /\ rows[Len(rows)].from = lastCutByte
          /\ rows[Len(rows)].to = Len(files[Len(files)]) /\ pending = << >>
     ELSE rows[Len(rows)].end = None

\* The first video packet of a segment is a keyframe.
FirstIsKeyIn(vs, ks, f, from, to) ==
  \A k \in (from + 1)..to :
    f[k] \in vs /\ (\A j \in (from + 1)..(k - 1) : f[j] \notin vs) => f[k] \in ks
HasVideoIn(vs, f, from, to) == \E k \in (from + 1)..to : f[k] \in vs
FirstIsKey(f, from, to) == FirstIsKeyIn(videos, keys, f, from, to)
HasVideo(f, from, to) == HasVideoIn(videos, f, from, to)

\* The last file when the muxer has written what it holds.
Written == Last(Flushed)
NowVideo == HasVideo(Written, lastCutByte, Len(Written))
NowKey == FirstIsKey(Written, lastCutByte, Len(Written))

\* Until a video packet leaves the buffer, the earliest of it is a keyframe.
EarliestIsKey(q) ==
  \A i \in DOMAIN q :
    q[i].stream = "video" /\ (\A j \in DOMAIN q : q[j].stream = "video" => q[i].dts <= q[j].dts) => q[i].key
NoVideoYet ==
  /\ valid => \E i \in DOMAIN buffer : buffer[i].stream = "video"
  /\ EarliestIsKey(buffer)
  /\ place \in {"cut", "mux"} => hand.stream # "video"
  /\ ~NowVideo /\ Len(rows) = 1
StartInv ==
  /\ ~valid => given = {} /\ buffer = << >> /\ last["video"] = None
  /\ valid => last["video"] # None
  /\ track["video"] = None => NoVideoYet

\* A segment without a video packet is the first one; the one that is written will begin with
\* the keyframe at hand.
RowKeys(i) ==
  /\ FirstIsKey(files[rows[i].name], rows[i].from, rows[i].to)
  /\ i = 1 \/ HasVideo(files[rows[i].name], rows[i].from, rows[i].to)
Begun ==
  \/ NowVideo
  \/ Len(rows) = 1 /\ track["video"] = None
  \/ place \in {"cut", "mux"} /\ hand.key /\ (place = "cut" => Len(rows) = 1)
KeysInv ==
  refused = {} =>
    /\ \A i \in 1..(Len(rows) - 1) : RowKeys(i)
    /\ NowKey
    /\ Begun

-----------------------------------------------------------------------------
(* Sequences *)

LEMMA MinIsLeast ==
  ASSUME NEW I, I \subseteq Nat, I # {}
  PROVE  Min(I) \in I /\ \A i \in I : Min(I) <= i
  BY LeastNumber DEF Min

\* What comes of putting e before the first of the places I.
Shift(q, e, m, i) == IF i < m THEN q[i] ELSE IF i = m THEN e ELSE q[i - 1]
LEMMA InsertPlaces ==
  ASSUME NEW S, NEW q \in Seq(S), NEW e \in S, NEW I \in SUBSET DOMAIN q
  PROVE  /\ Insert(q, e, I) \in Seq(S) /\ Len(Insert(q, e, I)) = Len(q) + 1
         /\ \E m \in 1..(Len(q) + 1) :
              /\ \A i \in 1..(Len(q) + 1) : Insert(q, e, I)[i] = Shift(q, e, m, i)
              /\ \A i \in I : m <= i
              /\ m \in I \/ m = Len(q) + 1
  <1>1. Len(q) \in Nat /\ DOMAIN q = 1..Len(q) /\ I \subseteq 1..Len(q)
    BY LenProperties
  <1>2. CASE I = {}
    <2>1. Insert(q, e, I) = Append(q, e)
      BY <1>2 DEF Insert
    <2>2. /\ Append(q, e) \in Seq(S) /\ Len(Append(q, e)) = Len(q) + 1
          /\ \A i \in 1..Len(q) : Append(q, e)[i] = q[i]
          /\ Append(q, e)[Len(q) + 1] = e
      BY AppendProperties
    <2>3. \A i \in 1..(Len(q) + 1) : Append(q, e)[i] = Shift(q, e, Len(q) + 1, i)
      BY <1>1, <2>2 DEF Shift
    <2>4. Len(q) + 1 \in 1..(Len(q) + 1)
      BY <1>1
    <2> QED  BY <1>2, <2>1, <2>2, <2>3, <2>4
  <1>3. CASE I # {}
    <2> DEFINE m == Min(I)
               a == SubSeq(q, 1, m - 1)
               b == SubSeq(q, m, Len(q))
    <2>1. m \in I /\ \A i \in I : m <= i
      BY <1>1, <1>3, MinIsLeast
    <2>2. Insert(q, e, I) = (a \o <<e>>) \o b
      BY <1>3 DEF Insert, InsertAt
    <2> HIDE DEF m
    <2>3. m \in 1..Len(q)
      BY <1>1, <2>1
    <2>4. \A i \in 1..Len(q) : q[i] \in S
      BY ElementOfSeq
    <2>5. a \in Seq(S) /\ Len(a) = m - 1 /\ \A i \in 1..(m - 1) : a[i] = q[i]
      <3>1. \A i \in 1..(m - 1) : q[i] \in S
        BY <1>1, <2>3, <2>4
      <3> QED  BY <1>1, <2>3, <3>1
    <2>6. b \in Seq(S) /\ Len(b) = Len(q) - m + 1 /\ \A i \in 1..(Len(q) - m + 1) : b[i] = q[m + i - 1]
      <3>1. \A i \in m..Len(q) : q[i] \in S
        BY <1>1, <2>3, <2>4
      <3> QED  BY <1>1, <2>3, <3>1
    <2> HIDE DEF a, b
    <2>7. <<e>> \in Seq(S) /\ Len(<<e>>) = 1 /\ <<e>>[1] = e
      OBVIOUS
    <2> DEFINE c == a \o <<e>>
    <2>8. c \in Seq(S) /\ Len(c) = m /\ \A i \in 1..m : c[i] = IF i < m THEN q[i] ELSE e
      <3>1. c \in Seq(S) /\ Len(c) = (m - 1) + 1
            /\ \A i \in 1..((m - 1) + 1) : c[i] = IF i <= m - 1 THEN a[i] ELSE <<e>>[i - (m - 1)]
        BY <2>5, <2>7, ConcatProperties
      <3>2. m - 1 + 1 = m /\ m - (m - 1) = 1 /\ \A i \in 1..m : (i <= m - 1 <=> i < m) /\ (i < m => i \in 1..(m - 1)) /\ (~(i < m) => i = m)
        BY <2>3
      <3> QED  BY <2>5, <2>7, <3>1, <3>2
    <2> HIDE DEF c
    <2>9. /\ c \o b \in Seq(S) /\ Len(c \o b) = m + (Len(q) - m + 1)
          /\ \A i \in 1..(m + (Len(q) - m + 1)) : (c \o b)[i] = IF i <= m THEN c[i] ELSE b[i - m]
      <3>1. c \in Seq(S) /\ b \in Seq(S)
        BY <2>6, <2>8, Zenon
      <3>2. /\ c \o b \in Seq(S) /\ Len(c \o b) = Len(c) + Len(b)
            /\ \A i \in 1..(Len(c) + Len(b)) : (c \o b)[i] = IF i <= Len(c) THEN c[i] ELSE b[i - Len(c)]
        BY ONLY <3>1, ConcatProperties
      <3>3. Len(c) = m /\ Len(b) = Len(q) - m + 1
        BY <2>6, <2>8, Zenon
      <3> QED  BY <3>2, <3>3, Zenon
    <2>10. m + (Len(q) - m + 1) = Len(q) + 1
      BY <1>1, <2>3
    <2>11. ASSUME NEW i \in 1..(Len(q) + 1) PROVE (c \o b)[i] = Shift(q, e, m, i)
      <3>1. CASE i <= m
        BY <2>3, <2>8, <2>9, <2>10, <3>1 DEF Shift
      <3>2. CASE i > m
        <4>1. i - m \in 1..(Len(q) - m + 1) /\ m + (i - m) - 1 = i - 1 /\ ~(i <= m) /\ ~(i < m) /\ i # m
          BY <1>1, <2>3, <3>2
        <4> QED  BY <2>6, <2>9, <2>10, <4>1 DEF Shift
      <3>3. i \in Int /\ m \in Int
        BY <1>1, <2>3
      <3>4. i <= m \/ i > m
        BY ONLY <3>3
      <3> QED  BY <3>1, <3>2, <3>4
    <2>12. m \in 1..(Len(q) + 1)
      BY <1>1, <2>3
    <2> QED  BY <2>1, <2>2, <2>9, <2>10, <2>11, <2>12 DEF c
  <1> QED  BY <1>2, <1>3

\* So its elements are those of q and e,
LEMMA InsertElements ==
  ASSUME NEW S, NEW q \in Seq(S), NEW e \in S, NEW I \in SUBSET DOMAIN q
  PROVE  /\ Insert(q, e, I) \in Seq(S) /\ Len(Insert(q, e, I)) = Len(q) + 1
         /\ DOMAIN Insert(q, e, I) = 1..(Len(q) + 1)
         /\ \A j \in DOMAIN Insert(q, e, I) :
              Insert(q, e, I)[j] = e \/ \E a \in DOMAIN q : Insert(q, e, I)[j] = q[a]
         /\ \E j \in DOMAIN Insert(q, e, I) : Insert(q, e, I)[j] = e
         /\ \A a \in DOMAIN q : \E j \in DOMAIN Insert(q, e, I) : Insert(q, e, I)[j] = q[a]
  <1> DEFINE u == Insert(q, e, I)
  <1>1. Len(q) \in Nat /\ DOMAIN q = 1..Len(q)
    BY LenProperties
  <1>2. /\ u \in Seq(S) /\ Len(u) = Len(q) + 1
        /\ \E m \in 1..(Len(q) + 1) : \A i \in 1..(Len(q) + 1) : u[i] = Shift(q, e, m, i)
    BY InsertPlaces
  <1> HIDE DEF u
  <1>3. PICK m \in 1..(Len(q) + 1) : \A i \in 1..(Len(q) + 1) : u[i] = Shift(q, e, m, i)
    BY <1>2
  <1>4. DOMAIN u = 1..(Len(q) + 1)
    BY <1>2, LenProperties
  <1>5. ASSUME NEW j \in 1..(Len(q) + 1) PROVE u[j] = e \/ \E a \in 1..Len(q) : u[j] = q[a]
    <2>1. \/ j < m /\ j \in 1..Len(q)
          \/ j = m
          \/ j > m /\ j - 1 \in 1..Len(q) /\ ~(j < m) /\ j # m
      <3>1. Len(q) \in Nat /\ m \in 1..(Len(q) + 1)
        BY <1>1, <1>3
      <3> QED  BY <3>1
    <2>2. u[j] = IF j < m THEN q[j] ELSE IF j = m THEN e ELSE q[j - 1]
      BY <1>3 DEF Shift
    <2> QED  BY <1>1, <2>1, <2>2
  <1>6. u[m] = e
    BY <1>1, <1>3 DEF Shift
  <1>7. ASSUME NEW a \in 1..Len(q) PROVE \E j \in 1..(Len(q) + 1) : u[j] = q[a]
    <2>1. CASE a < m
      <3>1. a \in 1..(Len(q) + 1) /\ u[a] = q[a]
        BY <1>1, <1>3, <2>1 DEF Shift
      <3> QED  BY <3>1
    <2>2. CASE a >= m
      <3>1. a + 1 \in 1..(Len(q) + 1) /\ ~(a + 1 < m) /\ a + 1 # m /\ (a + 1) - 1 = a
        BY <1>1, <2>2
      <3>2. u[a + 1] = q[a]
        BY <1>3, <3>1 DEF Shift
      <3> QED  BY <3>1, <3>2
    <2> QED  BY <1>1, <2>1, <2>2
  <1> QED  BY <1>1, <1>2, <1>4, <1>5, <1>6, <1>7 DEF u

\* two of them are in order if they were, and e is after what is before I and before what is
\* not.
LEMMA InsertPairs ==
  ASSUME NEW S, NEW q \in Seq(S), NEW e \in S, NEW I \in SUBSET DOMAIN q,
         NEW j \in 1..(Len(q) + 1), NEW k \in 1..(Len(q) + 1), j < k
  PROVE  \/ \E a, b \in DOMAIN q : a < b /\ Insert(q, e, I)[j] = q[a] /\ Insert(q, e, I)[k] = q[b]
         \/ \E a \in DOMAIN q \ I : Insert(q, e, I)[j] = q[a] /\ Insert(q, e, I)[k] = e
         \/ \E b \in DOMAIN q, i \in I :
              i <= b /\ Insert(q, e, I)[j] = e /\ Insert(q, e, I)[k] = q[b]
  <1> DEFINE u == Insert(q, e, I)
  <1>1. Len(q) \in Nat /\ DOMAIN q = 1..Len(q)
    BY LenProperties
  <1>2. \E m \in 1..(Len(q) + 1) :
          /\ \A i \in 1..(Len(q) + 1) : u[i] = Shift(q, e, m, i)
          /\ \A i \in I : m <= i
          /\ m \in I \/ m = Len(q) + 1
    BY InsertPlaces
  <1> HIDE DEF u
  <1>3. PICK m \in 1..(Len(q) + 1) :
          /\ \A i \in 1..(Len(q) + 1) : u[i] = Shift(q, e, m, i)
          /\ \A i \in I : m <= i
          /\ m \in I \/ m = Len(q) + 1
    BY <1>2
  <1>4. /\ u[j] = IF j < m THEN q[j] ELSE IF j = m THEN e ELSE q[j - 1]
        /\ u[k] = IF k < m THEN q[k] ELSE IF k = m THEN e ELSE q[k - 1]
    BY <1>3 DEF Shift
  <1>5. CASE k < m
    <2>1. j < m /\ j \in 1..Len(q) /\ k \in 1..Len(q)
      BY <1>1, <1>5
    <2> QED  BY <1>1, <1>4, <1>5, <2>1 DEF u
  <1>6. CASE k = m
    <2>1. j < m /\ j \in 1..Len(q) /\ j \notin I
      BY <1>1, <1>3, <1>6
    <2> QED  BY <1>1, <1>4, <1>6, <2>1 DEF u
  <1>7. CASE k > m /\ j < m
    <2>1. j \in 1..Len(q) /\ k - 1 \in 1..Len(q) /\ j < k - 1 /\ ~(k < m) /\ k # m
      BY <1>1, <1>7
    <2> QED  BY <1>1, <1>4, <1>7, <2>1 DEF u
  <1>8. CASE k > m /\ j = m
    <2>1. k - 1 \in 1..Len(q) /\ m <= k - 1 /\ ~(k < m) /\ k # m /\ m # Len(q) + 1
      BY <1>1, <1>8
    <2>2. m \in I /\ u[j] = e /\ u[k] = q[k - 1]
      BY <1>3, <1>4, <1>8, <2>1
    <2> QED  BY <1>1, <2>1, <2>2 DEF u
  <1>9. CASE j > m
    <2>1. j - 1 \in 1..Len(q) /\ k - 1 \in 1..Len(q) /\ j - 1 < k - 1 /\ ~(k < m) /\ k # m /\ ~(j < m) /\ j # m
      BY <1>1, <1>9
    <2> QED  BY <1>1, <1>4, <2>1 DEF u
  <1> QED  BY <1>1, <1>5, <1>6, <1>7, <1>8, <1>9

-----------------------------------------------------------------------------
(* The camera and the reorder queue *)

\* What arrives.
LEMMA Arrival ==
  ASSUME CameraTyped, NEW a \in Regular \cup Odd, a.packet.dts \in 0..MaxDts,
         MaxDts \in Nat, a.packet.key => a.packet.stream = "video"
  PROVE  /\ a.packet \in AnyPacket /\ a.next \in Nat /\ a.packet.id = sent + 1
         /\ a.packet.dts = a.packet.at /\ a.packet.pts \in a.packet.at..(a.packet.at + 1)
         /\ a.packet.dur >= 0
  <1>1. \E s \in Streams, key \in BOOLEAN, dts \in Int, delay \in 0..1, dur \in 0..2, n \in Nat :
          a = Packet(s, dts, delay, dur, key, n)
    <2>1. ASSUME NEW s \in Streams PROVE next[s] \in Nat
      BY DEF CameraTyped
    <2>2. CASE a \in Regular
      <3>1. PICK s \in Streams, key \in BOOLEAN : a = Packet(s, next[s], 0, 1, key, next[s] + 1)
        BY <2>2 DEF Regular
      <3>2. next[s] \in Int /\ 0 \in 0..1 /\ 1 \in 0..2 /\ next[s] + 1 \in Nat
        BY <2>1
      <3> QED  BY <3>1, <3>2
    <2>3. CASE a \in Odd
      <3>1. PICK s \in Streams, key \in BOOLEAN :
              a \in {Packet(s, next[s] + off, 0, 1, key, next[s] + 1) : off \in Offsets}
                   \cup {Packet(s, to, 0, 1, key, to + 1) : to \in {0, next[s] + 2}}
                   \cup {Packet(s, next[s], 0, 2, key, next[s] + 1)}
                   \cup {Packet(s, next[s], delay, 0, key, next[s] + 1) :
                           delay \in IF s = "video" THEN 0..1 ELSE {0}}
        BY <2>3 DEF Odd
      <3>2. \/ \E off \in Offsets : a = Packet(s, next[s] + off, 0, 1, key, next[s] + 1)
            \/ \E to \in {0, next[s] + 2} : a = Packet(s, to, 0, 1, key, to + 1)
            \/ a = Packet(s, next[s], 0, 2, key, next[s] + 1)
            \/ \E delay \in 0..1 : a = Packet(s, next[s], delay, 0, key, next[s] + 1)
        <4>1. \A delay \in IF s = "video" THEN 0..1 ELSE {0} : delay \in 0..1
          OBVIOUS
        <4> QED  BY <3>1, <4>1
      <3>3. next[s] \in Nat /\ next[s] \in Int /\ 0 \in 0..1 /\ 1 \in 0..2 /\ 2 \in 0..2 /\ 0 \in 0..2
            /\ next[s] + 1 \in Nat
        BY <2>1
      <3>4. CASE \E off \in Offsets : a = Packet(s, next[s] + off, 0, 1, key, next[s] + 1)
        <4>1. PICK off \in Offsets : a = Packet(s, next[s] + off, 0, 1, key, next[s] + 1)
          BY <3>4
        <4>2. next[s] + off \in Int
          BY <3>3, RecorderAssumption
        <4> QED  BY <3>3, <4>1, <4>2
      <3>5. CASE \E to \in {0, next[s] + 2} : a = Packet(s, to, 0, 1, key, to + 1)
        <4>1. PICK to \in {0, next[s] + 2} : a = Packet(s, to, 0, 1, key, to + 1)
          BY <3>5
        <4>2. to \in Int /\ to + 1 \in Nat
          BY <3>3
        <4> QED  BY <3>3, <4>1, <4>2
      <3>6. CASE a = Packet(s, next[s], 0, 2, key, next[s] + 1)
        BY <3>3, <3>6
      <3>7. CASE \E delay \in 0..1 : a = Packet(s, next[s], delay, 0, key, next[s] + 1)
        BY <3>3, <3>7
      <3> QED  BY <3>2, <3>4, <3>5, <3>6, <3>7
    <2> QED  BY <2>2, <2>3
  <1>2. PICK s \in Streams, key \in BOOLEAN, dts \in Int, delay \in 0..1, dur \in 0..2, n \in Nat :
          a = Packet(s, dts, delay, dur, key, n)
    BY <1>1
  <1> DEFINE p == [id |-> sent + 1, stream |-> s, at |-> dts, dts |-> dts, pts |-> dts + delay,
                   dur |-> dur, key |-> key]
  <1>3. a.packet = p /\ a.next = n
    BY <1>2 DEF Packet
  <1>4. dts \in Nat /\ dts + delay \in dts..(dts + 1) /\ dts + delay \in Nat /\ sent + 1 \in Nat
        /\ dur \in Int /\ dur >= 0
    BY <1>3 DEF CameraTyped
  <1>5. p \in AnyPacket
    BY <1>4 DEF AnyPacket
  <1> QED  BY <1>3, <1>4, <1>5

InOrder(q) == \A i, j \in DOMAIN q : i < j => q[i].dts <= q[j].dts
\* The queue stays in order.
LEMMA SortedInserts ==
  ASSUME NEW q \in Seq(AnyPacket), NEW p \in AnyPacket, InOrder(q)
  PROVE  \E I \in SUBSET DOMAIN q :
           /\ Sorted(q, p) = Insert(q, p, I)
           /\ \A i \in I, b \in DOMAIN q : i <= b => p.dts <= q[b].dts
           /\ \A a \in DOMAIN q \ I : q[a].dts <= p.dts
  <1>1. Len(q) \in Nat /\ DOMAIN q = 1..Len(q) /\ \A i \in DOMAIN q : q[i] \in AnyPacket
    BY LenProperties, ElementOfSeq
  <1>2. p.dts \in Int /\ \A i \in DOMAIN q : q[i].dts \in Int
    BY <1>1 DEF AnyPacket
  <1>3. CASE q = << >> \/ Last(q).dts <= p.dts
    <2>1. Sorted(q, p) = Insert(q, p, {})
      BY <1>3 DEF Sorted, Insert
    <2>2. ASSUME NEW a \in DOMAIN q PROVE q[a].dts <= p.dts
      <3>1. Len(q) \in DOMAIN q /\ (a = Len(q) \/ a < Len(q))
        BY <1>1
      <3>2. q # << >> /\ q[Len(q)].dts <= p.dts
        BY <1>1, <1>3, <3>1 DEF Last
      <3>3. q[a].dts <= q[Len(q)].dts
        BY <1>2, <3>1 DEF InOrder
      <3> QED  BY <1>2, <3>1, <3>2, <3>3
    <2> QED  BY <2>1, <2>2
  <1>4. CASE ~(q = << >> \/ Last(q).dts <= p.dts)
    <2> DEFINE I == Overtaken(q, p)
    <2>1. Sorted(q, p) = Insert(q, p, I)
      BY <1>4 DEF Sorted
    <2>2. I \in SUBSET DOMAIN q /\ (\A i \in I : p.dts <= q[i].dts)
          /\ \A a \in DOMAIN q \ I : q[a].dts <= p.dts
      BY <1>2 DEF Overtaken
    <2> HIDE DEF I
    <2>3. ASSUME NEW i \in I, NEW b \in DOMAIN q, i <= b PROVE p.dts <= q[b].dts
      <3>1. i \in DOMAIN q /\ p.dts <= q[i].dts
        BY <2>2
      <3>2. i = b \/ i < b
        BY <1>1, <2>3, <3>1
      <3>3. q[i].dts <= q[b].dts
        BY <1>2, <3>1, <3>2 DEF InOrder
      <3> QED  BY <1>2, <3>1, <3>3
    <2> QED  BY <2>1, <2>2, <2>3
  <1> QED  BY <1>3, <1>4

\* What was known stays, and what is new has a number of its own.
Remembers ==
  /\ sent \in Nat /\ sent' \in Nat /\ sent <= sent'
  /\ \A n \in Nat : n <= sent => (n \in videos' <=> n \in videos) /\ (n \in keys' <=> n \in keys)
LEMMA KnownStays ==
  ASSUME Remembers, NEW p \in AnyPacket, Known(p)
  PROVE  KnownNext(p)
  <1>1. p.id \in 1..sent /\ p.id \in Nat /\ p.id <= sent /\ p.id \in 1..sent'
    BY DEF Remembers, Known, KnownTo
  <1>2. (p.id \in videos' <=> p.id \in videos) /\ (p.id \in keys' <=> p.id \in keys)
    BY <1>1 DEF Remembers
  <1> QED  BY <1>1, <1>2 DEF Known, KnownNext, KnownTo

LEMMA ReadFrameStep ==
  ASSUME CameraTyped, CameraInv, QueueInv, ReadFrame, UNCHANGED popped, MaxDts \in Nat
  PROVE  /\ CameraTyped' /\ CameraInv' /\ QueueInv' /\ Remembers
         /\ \A i \in DOMAIN queue' :
              queue'[i].id > sent \/ \E j \in DOMAIN queue : queue'[i].id = queue[j].id
  <1>1. CASE UNCHANGED <<queue, sent, odd, next, connectTime, keys, videos>> /\ eof' = TRUE
    <2>1. CameraTyped' /\ CameraInv'
      BY <1>1 DEF CameraTyped, CameraInv
    <2>2. QueueInv'
      BY <1>1 DEF QueueInv, Known
    <2>3. Remembers
      BY <1>1 DEF CameraTyped, Remembers
    <2> QED  BY <1>1, <2>1, <2>2, <2>3
  <1>2. ASSUME sent' = sent + 1, UNCHANGED eof, Resync, NEW a \in Regular \cup Odd, Arrives(a)
        PROVE  /\ CameraTyped' /\ CameraInv' /\ QueueInv' /\ Remembers
               /\ \A i \in DOMAIN queue' :
                    queue'[i].id > sent \/ \E j \in DOMAIN queue : queue'[i].id = queue[j].id
    <2> DEFINE p == a.packet
    <2>1. /\ p \in AnyPacket /\ a.next \in Nat /\ p.id = sent + 1
          /\ p.dts = p.at /\ p.pts \in p.at..(p.at + 1) /\ p.dur >= 0
          /\ p.key => p.stream = "video"
      BY <1>2, Arrival DEF Arrives
    <2>2. /\ queue' = Sorted(queue, p)
          /\ keys' = (IF p.key THEN keys \cup {p.id} ELSE keys)
          /\ videos' = (IF p.stream = "video" THEN videos \cup {p.id} ELSE videos)
          /\ next' = [next EXCEPT ![p.stream] = a.next]
          /\ odd' = odd + Oddities(a) /\ connectTime' \in Nat
      BY <1>2 DEF Arrives, Resync
    <2> HIDE DEF p
    <2>3. sent \in Nat /\ sent' = sent + 1 /\ sent' \in Nat /\ p.id \in 1..sent' /\ p.id \in Nat /\ p.stream \in Streams
          /\ p.key \in BOOLEAN /\ p.dts \in Int /\ ~(p.id <= sent)
      BY <1>2, <2>1 DEF CameraTyped, AnyPacket
    <2>4. Remembers
      <3>1. ASSUME NEW n \in Nat, n <= sent
            PROVE (n \in videos' <=> n \in videos) /\ (n \in keys' <=> n \in keys)
        BY <2>2, <2>3, <3>1
      <3> QED  BY <2>3, <3>1 DEF Remembers
    <2>5. CameraInv'
      <3>1. 1..sent \subseteq 1..sent'
        BY <2>3
      <3> QED  BY <2>1, <2>2, <2>3, <3>1 DEF CameraInv
    <2>6. queue \in Seq(AnyPacket) /\ InOrder(queue)
      BY DEF CameraTyped, QueueInv, InOrder
    <2>7. PICK I \in SUBSET DOMAIN queue :
             /\ Sorted(queue, p) = Insert(queue, p, I)
             /\ \A i \in I, b \in DOMAIN queue : i <= b => p.dts <= queue[b].dts
             /\ \A b \in DOMAIN queue \ I : queue[b].dts <= p.dts
      BY <2>1, <2>6, SortedInserts
    <2>8. /\ queue' \in Seq(AnyPacket) /\ DOMAIN queue' = 1..(Len(queue) + 1)
          /\ \A j \in DOMAIN queue' : queue'[j] = p \/ \E b \in DOMAIN queue : queue'[j] = queue[b]
      BY <2>1, <2>2, <2>6, <2>7, InsertElements
    <2>9. CameraTyped'
      <3>1. next' \in [Streams -> Nat]
        BY <2>1, <2>2, <2>3 DEF CameraTyped
      <3>3. odd' \in Nat /\ connectTime' \in Nat
        <4>1. odd \in Nat /\ Oddities(a) \in Nat
          BY DEF CameraTyped, Oddities
        <4> QED  BY <2>2, <4>1
      <3>2. keys' \subseteq Nat /\ videos' \subseteq Nat
        BY <2>2, <2>3 DEF CameraTyped
      <3> QED  BY <1>2, <2>3, <2>8, <3>1, <3>2, <3>3 DEF CameraTyped
    <2>10. KnownNext(p)
      <3>1. p.id \notin videos /\ p.id \notin keys
        BY <2>1, <2>3 DEF CameraInv
      <3> QED  BY <2>1, <2>2, <2>3, <3>1 DEF KnownNext, KnownTo
    <2>11. popped.sent \in Nat /\ popped.sent <= sent /\ popped.dts \in Int /\ UNCHANGED popped
      BY DEF CameraTyped, QueueInv
    <2> DEFINE Good(x) == /\ KnownNext(x) /\ x.dts = x.at /\ x.dur >= 0
                          /\ x.dts >= popped.dts \/ x.id > popped.sent
    <2>12. \A j \in DOMAIN queue' : Good(queue'[j])
      <3>1. Good(p)
        BY <2>1, <2>3, <2>10, <2>11
      <3>2. ASSUME NEW b \in DOMAIN queue PROVE Good(queue[b])
        <4>1. queue[b] \in AnyPacket /\ Known(queue[b])
          BY <2>6, LenProperties, ElementOfSeq DEF QueueInv
        <4> QED  BY <2>4, <4>1, KnownStays DEF QueueInv
      <3> HIDE DEF Good
      <3> QED  BY <2>8, <3>1, <3>2
    <2>13. ASSUME NEW j \in DOMAIN queue', NEW k \in DOMAIN queue', j < k
           PROVE  queue'[j].dts <= queue'[k].dts /\ queue'[j].id # queue'[k].id
      <3>1. \A b \in DOMAIN queue : queue[b].id \in Nat /\ queue[b].id <= sent
        <4> SUFFICES ASSUME NEW b \in DOMAIN queue PROVE queue[b].id \in Nat /\ queue[b].id <= sent
          OBVIOUS
        <4>1. queue[b].id \in 1..sent
          BY DEF QueueInv, Known, KnownTo
        <4> QED  BY <2>3, <4>1
      <3>2. \/ \E b, c \in DOMAIN queue : b < c /\ queue'[j] = queue[b] /\ queue'[k] = queue[c]
            \/ \E b \in DOMAIN queue \ I : queue'[j] = queue[b] /\ queue'[k] = p
            \/ \E b \in DOMAIN queue, i \in I : i <= b /\ queue'[j] = p /\ queue'[k] = queue[b]
        <4>1. p \in AnyPacket /\ queue' = Insert(queue, p, I) /\ \A i \in DOMAIN queue' : i \in 1..(Len(queue) + 1)
          BY <2>1, <2>2, <2>7, <2>8
        <4>2. j \in 1..(Len(queue) + 1) /\ k \in 1..(Len(queue) + 1) /\ j < k
          BY <2>13, <4>1
        <4> QED  BY ONLY <2>6, <2>7, <4>1, <4>2, InsertPairs
      <3>3. CASE \E b, c \in DOMAIN queue : b < c /\ queue'[j] = queue[b] /\ queue'[k] = queue[c]
        BY <3>3 DEF QueueInv
      <3>4. CASE \E b \in DOMAIN queue \ I : queue'[j] = queue[b] /\ queue'[k] = p
        BY <2>3, <2>7, <3>1, <3>4
      <3>5. CASE \E b \in DOMAIN queue, i \in I : i <= b /\ queue'[j] = p /\ queue'[k] = queue[b]
        BY <2>3, <2>7, <3>1, <3>5
      <3> QED  BY <3>2, <3>3, <3>4, <3>5
    <2>14. QueueInv'
      <3>1. popped'.sent <= sent'
        BY <2>3, <2>11
      <3> QED  BY <2>11, <2>12, <2>13, <3>1 DEF QueueInv, Known, KnownNext
    <2>15. ASSUME NEW i \in DOMAIN queue'
           PROVE  queue'[i].id > sent \/ \E j \in DOMAIN queue : queue'[i].id = queue[j].id
      BY <2>1, <2>3, <2>8
    <2> QED  BY <2>4, <2>5, <2>9, <2>14, <2>15
  <1> QED  BY <1>1, <1>2, Zenon DEF ReadFrame

\* The packet that leaves the queue.
LEMMA NextPacketIs ==
  ASSUME CameraTyped, QueueInv, queue # << >>
  PROVE  /\ 1 \in DOMAIN queue /\ NextPacket \in AnyPacket /\ Known(NextPacket)
         /\ NextPacket.id = queue[1].id /\ NextPacket.dts = queue[1].dts
         /\ NextPacket.dts = NextPacket.at /\ NextPacket.dts + NextPacket.dur >= -1
  <1> DEFINE p == Head(queue)
             I == {i \in 1..Len(Tail(queue)) : Tail(queue)[i].stream = p.stream}
             i == IF I # {} THEN Min(I) ELSE 0
  <1>1. /\ queue \in Seq(AnyPacket) /\ Len(queue) \in Nat \ {0} /\ DOMAIN queue = 1..Len(queue)
        /\ p = queue[1] /\ Len(Tail(queue)) = Len(queue) - 1
    BY EmptySeq, LenProperties, HeadTailProperties DEF CameraTyped
  <1>2. NextPacket = IF p.dur # 0 \/ i = 0 THEN p ELSE [p EXCEPT !.dur = queue[i + 1].pts - p.pts]
    BY DEF NextPacket, SelectInSeq
  <1>3. i = 0 \/ i + 1 \in DOMAIN queue
    <2>1. CASE I # {}
      <3>1. I \subseteq 1..Len(Tail(queue)) /\ I \subseteq Nat
        BY <1>1
      <3>2. i \in I
        BY <2>1, <3>1, MinIsLeast
      <3> HIDE DEF i, I
      <3>3. i \in 1..(Len(queue) - 1)
        BY <1>1, <3>1, <3>2
      <3> QED  BY <1>1, <3>3
    <2> QED  BY <2>1
  <1> HIDE DEF I, i
  <1>4. 1 \in DOMAIN queue
    BY <1>1
  <1>5. p \in AnyPacket /\ Known(p) /\ p.dts = p.at /\ p.dur >= 0
    BY <1>1, <1>4, ElementOfSeq DEF QueueInv
  <1> HIDE DEF p
  <1>6. CASE p.dur # 0 \/ i = 0
    <2>1. NextPacket = p /\ p.dts + p.dur >= -1
      BY <1>2, <1>5, <1>6 DEF AnyPacket
    <2> QED  BY <1>1, <1>4, <1>5, <2>1
  <1>7. CASE p.dur = 0 /\ i # 0
    <2> DEFINE d == queue[i + 1].pts - p.pts
               x == [p EXCEPT !.dur = d]
    <2>1. queue[i + 1] \in AnyPacket
      BY <1>1, <1>3, <1>7, ElementOfSeq
    <2>2. d \in Int /\ p.pts <= p.at + 1 /\ p.dts + d >= -1
      <3>1. queue[i + 1].pts \in Nat /\ p.pts \in Nat /\ p.at \in Nat /\ p.pts \in p.at..(p.at + 1) /\ p.dts = p.at
        BY <1>5, <2>1 DEF AnyPacket, Known, KnownTo
      <3> QED  BY <3>1
    <2> HIDE DEF d
    <2>3. x \in AnyPacket /\ x.dur = d /\ x.id = p.id /\ x.stream = p.stream /\ x.at = p.at /\ x.dts = p.dts
          /\ x.pts = p.pts /\ x.key = p.key
      BY <1>5, <2>2 DEF AnyPacket
    <2>4. NextPacket = x
      BY <1>2, <1>7 DEF d
    <2> HIDE DEF x
    <2>5. Known(x)
      BY <1>5, <2>3 DEF Known, KnownTo
    <2> QED  BY <1>1, <1>4, <1>5, <2>2, <2>3, <2>4, <2>5
  <1> QED  BY <1>6, <1>7

\* It was the first: what remains is not before it.
LEMMA HandleQueue ==
  ASSUME CameraTyped, CameraInv, QueueInv, queue # << >>, HandlePacket
  PROVE  /\ CameraTyped' /\ CameraInv' /\ QueueInv' /\ Remembers
         /\ \A i \in DOMAIN queue' :
              queue'[i].id # NextPacket.id /\ \E j \in DOMAIN queue : queue'[i].id = queue[j].id
  <1>1. /\ queue' = Tail(queue) /\ popped' = [dts |-> NextPacket.dts, sent |-> sent]
        /\ UNCHANGED cameraVars
    BY DEF HandlePacket
  <1>2. /\ 1 \in DOMAIN queue /\ NextPacket \in AnyPacket
        /\ NextPacket.id = queue[1].id /\ NextPacket.dts = queue[1].dts
    BY NextPacketIs
  <1>3. /\ queue \in Seq(AnyPacket) /\ Len(queue) \in Nat \ {0} /\ DOMAIN queue = 1..Len(queue)
        /\ queue' \in Seq(AnyPacket) /\ Len(queue') = Len(queue) - 1
        /\ \A i \in 1..Len(queue') : queue'[i] = queue[i + 1]
    BY <1>1, EmptySeq, LenProperties, HeadTailProperties DEF CameraTyped
  <1>4. DOMAIN queue' = 1..(Len(queue) - 1)
    BY <1>3, LenProperties
  <1>5. CameraTyped'
    BY <1>1, <1>2, <1>3 DEF CameraTyped, cameraVars, AnyPacket
  <1>6. CameraInv' /\ Remembers
    BY <1>1 DEF CameraInv, Remembers, CameraTyped, cameraVars
  <1>7. ASSUME NEW i \in DOMAIN queue'
        PROVE  i + 1 \in DOMAIN queue /\ 1 < i + 1 /\ queue'[i] = queue[i + 1]
    BY <1>3, <1>4
  <1>8. popped'.dts = queue[1].dts /\ popped'.sent = sent /\ sent \in Nat /\ sent' = sent
    BY <1>1, <1>2 DEF CameraTyped, cameraVars
  <1>9. ASSUME NEW i \in DOMAIN queue'
        PROVE  /\ KnownNext(queue'[i]) /\ queue'[i].dts = queue'[i].at /\ queue'[i].dur >= 0
               /\ queue'[i].dts >= popped'.dts
               /\ queue'[i].id # NextPacket.id /\ \E j \in DOMAIN queue : queue'[i].id = queue[j].id
    <2> DEFINE x == queue[i + 1]
    <2>1. x \in AnyPacket /\ Known(x) /\ x.dts = x.at /\ x.dur >= 0
      BY <1>3, <1>7, ElementOfSeq DEF QueueInv
    <2>2. queue[1].dts <= x.dts /\ queue[1].id # x.id
      BY <1>2, <1>7 DEF QueueInv
    <2>3. KnownNext(x)
      BY <1>6, <2>1, KnownStays
    <2>4. queue[1].dts \in Int /\ x.dts \in Int
      BY <1>2, <1>3, <2>1, ElementOfSeq DEF AnyPacket
    <2>5. x.dts >= queue[1].dts
      BY <2>2, <2>4
    <2> QED  BY <1>2, <1>7, <1>8, <2>1, <2>2, <2>3, <2>5
  <1>10. ASSUME NEW i \in DOMAIN queue', NEW j \in DOMAIN queue', i < j
         PROVE  queue'[i].dts <= queue'[j].dts /\ queue'[i].id # queue'[j].id
    <2>1. i + 1 < j + 1
      BY <1>4, <1>10
    <2> QED  BY <1>7, <2>1 DEF QueueInv
  <1>11. QueueInv'
    <2>1. popped'.sent <= sent'
      BY <1>8
    <2> QED  BY <1>9, <1>10, <2>1 DEF QueueInv, Known, KnownNext
  <1> QED  BY <1>5, <1>6, <1>9, <1>11

-----------------------------------------------------------------------------
(* What the writer does to a packet *)

\* All but its time and its duration.
SamePacket(p, q) ==
  p.id = q.id /\ p.stream = q.stream /\ p.at = q.at /\ p.pts = q.pts /\ p.key = q.key
LEMMA SameKnown ==
  ASSUME NEW p, NEW q, SamePacket(p, q), Known(q)
  PROVE  Known(p)
  BY DEF SamePacket, Known, KnownTo

LEMMA MovedIs ==
  ASSUME NEW p \in AnyPacket, last \in Times
  PROVE  /\ Moved(p) \in AnyPacket /\ SamePacket(Moved(p), p) /\ Moved(p).dur = p.dur
         /\ p.dts <= Moved(p).dts /\ (p.dts # last[p.stream] => last[p.stream] < Moved(p).dts)
  <1> DEFINE t == last[p.stream] + 1
             x == [p EXCEPT !.dts = t]
  <1>1. last[p.stream] \in Int /\ p.dts \in Int
    BY DEF Times, AnyPacket
  <1>2. CASE p.dts < last[p.stream]
    <2>1. t \in Int /\ p.dts <= t /\ last[p.stream] < t
      BY <1>1, <1>2
    <2>2. Moved(p) = x
      BY <1>2 DEF Moved
    <2> HIDE DEF t
    <2>3. x \in AnyPacket /\ SamePacket(x, p) /\ x.dur = p.dur /\ x.dts = t
      BY <2>1 DEF AnyPacket, SamePacket
    <2> QED  BY <2>1, <2>2, <2>3
  <1>3. CASE ~(p.dts < last[p.stream])
    BY <1>1, <1>3 DEF Moved, SamePacket
  <1> QED  BY <1>2, <1>3

LEMMA PlacedInserts ==
  ASSUME NEW p \in AnyPacket, buffer \in Seq(AnyPacket), InOrder(buffer)
  PROVE  \E I \in SUBSET DOMAIN buffer :
           /\ Placed(p) = Insert(buffer, p, I)
           /\ \A i \in I, b \in DOMAIN buffer : i <= b => p.dts < buffer[b].dts
           /\ \A a \in DOMAIN buffer \ I : buffer[a].dts <= p.dts
  <1> DEFINE I == {i \in DOMAIN buffer : buffer[i].dts > p.dts}
  <1>1. Len(buffer) \in Nat /\ DOMAIN buffer = 1..Len(buffer)
        /\ \A i \in DOMAIN buffer : buffer[i] \in AnyPacket
    BY LenProperties, ElementOfSeq
  <1>2. p.dts \in Int /\ \A i \in DOMAIN buffer : buffer[i].dts \in Int
    BY <1>1 DEF AnyPacket
  <1>3. Placed(p) = Insert(buffer, p, I)
    BY DEF Placed
  <1>4. I \in SUBSET DOMAIN buffer /\ \A i \in I : p.dts < buffer[i].dts
    BY <1>2
  <1>5. \A a \in DOMAIN buffer \ I : buffer[a].dts <= p.dts
    BY <1>2
  <1> HIDE DEF I
  <1>6. ASSUME NEW i \in I, NEW b \in DOMAIN buffer, i <= b PROVE p.dts < buffer[b].dts
    <2>1. i \in DOMAIN buffer /\ p.dts < buffer[i].dts
      BY <1>4
    <2>2. i = b \/ i < b
      BY <1>1, <1>6, <2>1
    <2>3. buffer[i].dts <= buffer[b].dts
      BY <1>2, <2>1, <2>2 DEF InOrder
    <2> QED  BY <1>2, <2>1, <2>3
  <1> QED  BY <1>3, <1>4, <1>5, <1>6

LEMMA ShiftedIs ==
  ASSUME NEW p \in AnyPacket, track \in Times
  PROVE  /\ Shifted(p) \in AnyPacket /\ SamePacket(Shifted(p), p) /\ Shifted(p).dur = p.dur
         /\ \/ Shifted(p).dts = p.dts
            \/ /\ track[p.stream] # None /\ Shifted(p).dts = track[p.stream]
               /\ track[p.stream] < p.dts /\ p.dur > 0
  <1> DEFINE gap == p.dts - track[p.stream]
             x == [p EXCEPT !.dts = @ - gap]
  <1>1. track[p.stream] \in Int /\ p.dts \in Int /\ p.dur \in Int
    BY DEF Times, AnyPacket
  <1>2. gap \in Int /\ p.dts - gap = track[p.stream] /\ (gap > 0 => track[p.stream] < p.dts)
        /\ (gap > 0 /\ gap < p.dur => p.dur > 0)
    BY <1>1
  <1>3. Shifted(p) = IF track[p.stream] # None /\ gap > 0 /\ gap < p.dur THEN x ELSE p
    BY DEF Shifted
  <1> HIDE DEF gap
  <1>4. x \in AnyPacket /\ SamePacket(x, p) /\ x.dur = p.dur /\ x.dts = p.dts - gap
    BY <1>1, <1>2 DEF AnyPacket, SamePacket
  <1>5. SamePacket(p, p)
    BY DEF SamePacket
  <1> QED  BY <1>2, <1>3, <1>4, <1>5

LEMMA FixupIs ==
  ASSUME NEW p \in AnyPacket, NEW rest \in Seq(AnyPacket)
  PROVE  Fixup(p, rest) \in AnyPacket /\ SamePacket(Fixup(p, rest), p) /\ Fixup(p, rest).dts = p.dts
  <1> DEFINE I == {i \in 1..Len(rest) : rest[i].stream = p.stream}
             i == IF I # {} THEN Min(I) ELSE 0
             d == rest[i].dts - p.dts
             x == [p EXCEPT !.dur = d]
  <1>1. Fixup(p, rest) = IF i # 0 /\ p.dur > d /\ d > 0 THEN x ELSE p
    BY DEF Fixup, SelectInSeq
  <1>2. i # 0 => d \in Int
    <2>1. CASE I # {}
      <3>1. I \subseteq 1..Len(rest) /\ I \subseteq Nat
        BY LenProperties
      <3>2. i \in I
        BY <2>1, <3>1, MinIsLeast
      <3> HIDE DEF i, I
      <3>3. rest[i] \in AnyPacket
        BY <3>1, <3>2, ElementOfSeq
      <3> QED  BY <3>3 DEF AnyPacket
    <2> QED  BY <2>1
  <1> HIDE DEF i, d
  <1>3. d \in Int => x \in AnyPacket /\ SamePacket(x, p) /\ x.dts = p.dts
    BY DEF AnyPacket, SamePacket
  <1>4. SamePacket(p, p)
    BY DEF SamePacket
  <1> QED  BY <1>1, <1>2, <1>3, <1>4

-----------------------------------------------------------------------------
(* The interleaving buffer and the times of what is written *)

ReaderInv == CameraTyped /\ CameraInv /\ QueueInv /\ PacketRead
WriterInv == WriterTyped /\ BufferInv /\ HandInv /\ PendingInv

\* Elements and facts of the buffer that all steps use.
LEMMA BufferIs ==
  ASSUME WriterInv
  PROVE  /\ Len(buffer) \in Nat /\ DOMAIN buffer = 1..Len(buffer) /\ InOrder(buffer)
         /\ \A i \in DOMAIN buffer : buffer[i] \in AnyPacket /\ buffer[i].stream \in Streams
         /\ \A s \in Streams : last[s] \in Int /\ track[s] \in Int /\ muxed[s] \in Int
  <1>1. buffer \in Seq(AnyPacket) /\ last \in Times /\ track \in Times /\ muxed \in Times
    BY DEF WriterInv, WriterTyped
  <1>2. Len(buffer) \in Nat /\ DOMAIN buffer = 1..Len(buffer) /\ \A i \in DOMAIN buffer : buffer[i] \in AnyPacket
    BY <1>1, LenProperties, ElementOfSeq
  <1>3. \A i \in DOMAIN buffer : buffer[i].stream \in Streams
    BY <1>2 DEF AnyPacket
  <1>4. InOrder(buffer)
    BY DEF WriterInv, BufferInv, InOrder
  <1> QED  BY <1>1, <1>2, <1>3, <1>4 DEF Times

\* The writer does not see what is read.
LEMMA ReadingKeeps ==
  ASSUME WriterInv, Remembers, UNCHANGED <<valid, lastPts, writerVars>>,
         place \notin {"cut", "mux"}, place' \in {"charge", "loop", "packet"}
  PROVE  WriterInv'
  <1>1. UNCHANGED <<valid, lastPts, last, buffer, given, dropped, track, hand, still, muxed, refused, failed, pending>>
    BY DEF writerVars, bufferVars, emitVars, muxVars, fileVars
  <1>2. WriterTyped'
    BY <1>1 DEF WriterInv, WriterTyped
  <1>3. BufferInv'
    <2>1. ASSUME NEW i \in DOMAIN buffer PROVE KnownNext(buffer[i])
      BY BufferIs, KnownStays DEF WriterInv, BufferInv
    <2> QED  BY <1>1, <2>1 DEF WriterInv, BufferInv, Known, KnownNext
  <1>4. HandInv'
    BY <1>1 DEF WriterInv, HandInv
  <1>5. PendingInv'
    <2>1. ASSUME NEW i \in DOMAIN pending PROVE KnownNext(pending[i])
      <3>1. pending[i] \in AnyPacket /\ Known(pending[i])
        BY LenProperties, ElementOfSeq DEF WriterInv, WriterTyped, PendingInv
      <3> QED  BY <3>1, KnownStays
    <2> QED  BY <1>1, <2>1 DEF WriterInv, PendingInv, Known, KnownNext
  <1> QED  BY <1>2, <1>3, <1>4, <1>5 DEF WriterInv

LEMMA HandleKeeps ==
  ASSUME ReaderInv, WriterInv, HandlePacket
  PROVE  WriterInv'
  <1> DEFINE p == NextPacket
             q == Moved(p)
  <1>1. queue # << >>
    BY DEF HandlePacket, ReaderInv, PacketRead
  <1>2. p \in AnyPacket /\ Known(p) /\ p.dts = p.at /\ p.dts + p.dur >= -1
    BY <1>1, NextPacketIs DEF ReaderInv
  <1>3. /\ UNCHANGED <<sent, keys, videos, track, hand, still, muxed, refused, pending>>
        /\ valid' = (valid \/ p.key) /\ lastPts' = p.pts /\ place = "packet"
        /\ \/ ~valid' /\ place' = "loop" /\ UNCHANGED <<last, buffer, given, dropped, failed>>
           \/ valid' /\ Write(p)
    BY DEF HandlePacket, cameraVars, emitVars, bufferVars, fileVars
  <1> HIDE DEF p
  <1>4. /\ last \in Times /\ buffer \in Seq(AnyPacket) /\ given \subseteq Nat /\ dropped \subseteq Nat
        /\ valid \in BOOLEAN /\ failed \in BOOLEAN /\ p.key \in BOOLEAN /\ p.id \in Nat /\ p.pts \in Nat
        /\ p.stream \in Streams /\ p.dts \in Int /\ p.dur \in Int /\ p.at \in Nat
    BY <1>2 DEF WriterInv, WriterTyped, AnyPacket
  <1>5. HandInv' /\ PendingInv'
    <2>1. place' \in {"loop", "write"}
      BY <1>3 DEF Write
    <2>2. hand = NoPacket
      BY <1>3 DEF WriterInv, HandInv
    <2>3. HandInv'
      BY <1>3, <2>1, <2>2 DEF WriterInv, HandInv
    <2> QED  BY <1>3, <2>3 DEF WriterInv, PendingInv, Known
  <1>6. CASE UNCHANGED <<last, buffer>> /\ place' = "loop" /\ UNCHANGED failed
    <2>1. given' \subseteq Nat /\ dropped' \subseteq Nat
      BY <1>3, <1>4 DEF Write
    <2>2. WriterTyped'
      BY <1>3, <1>4, <1>6, <2>1 DEF WriterInv, WriterTyped
    <2>3. BufferInv'
      BY <1>3, <1>6 DEF WriterInv, BufferInv, Known
    <2> QED  BY <1>5, <2>2, <2>3 DEF WriterInv
  <1>7. CASE /\ p.dts # last[p.stream] /\ UNCHANGED dropped /\ given' = given \cup {p.id}
             /\ last' = [last EXCEPT ![p.stream] = q.dts] /\ buffer' = Placed(q)
             /\ failed' = (failed \/ (Unseen' /\ Len(buffer') > MaxBuffered))
             /\ place' = IF Ready' THEN "write" ELSE "loop"
    <2>1. q \in AnyPacket /\ SamePacket(q, p) /\ q.dur = p.dur /\ p.dts <= q.dts /\ last[p.stream] < q.dts
      BY <1>2, <1>4, <1>7, MovedIs
    <2> HIDE DEF q
    <2>2. q.dts \in Int /\ q.stream = p.stream /\ q.at = p.at /\ Known(q)
      BY <1>2, <2>1, SameKnown DEF AnyPacket, SamePacket
    <2>3. PICK I \in SUBSET DOMAIN buffer :
             /\ Placed(q) = Insert(buffer, q, I)
             /\ \A i \in I, b \in DOMAIN buffer : i <= b => q.dts < buffer[b].dts
             /\ \A a \in DOMAIN buffer \ I : buffer[a].dts <= q.dts
      BY <1>4, <2>1, BufferIs, PlacedInserts
    <2>4. /\ buffer' \in Seq(AnyPacket) /\ DOMAIN buffer' = 1..(Len(buffer) + 1) /\ Len(buffer') = Len(buffer) + 1
          /\ \A j \in DOMAIN buffer' : buffer'[j] = q \/ \E b \in DOMAIN buffer : buffer'[j] = buffer[b]
      BY <1>4, <1>7, <2>1, <2>3, InsertElements
    <2>5. buffer' # << >>
      BY <2>4, BufferIs
    <2>6. /\ last' \in Times /\ last'[q.stream] = q.dts
          /\ \A s \in Streams : last[s] <= last'[s] /\ last'[s] \in Int
      <3>1. last' \in Times /\ last'[q.stream] = q.dts
        BY <1>4, <1>7, <2>2 DEF Times
      <3>2. ASSUME NEW s \in Streams PROVE last[s] <= last'[s] /\ last'[s] \in Int
        <4>1. last[s] \in Int /\ last'[s] = IF s = p.stream THEN q.dts ELSE last[s]
          BY <1>4, <1>7 DEF Times
        <4> QED  BY <2>1, <2>2, <4>1
      <3> QED  BY <3>1, <3>2
    <2>7. WriterTyped'
      <3>1. given' \subseteq Nat /\ dropped' \subseteq Nat /\ place' \in {"loop", "write"}
        BY <1>4, <1>7
      <3>2. valid' \in BOOLEAN /\ failed' \in BOOLEAN
        BY <1>3, <1>4, <1>7
      <3> QED  BY <1>3, <1>4, <2>4, <2>6, <3>1, <3>2 DEF WriterInv, WriterTyped
    <2> DEFINE Good(x) ==
          /\ Known(x) /\ x.dts >= x.at /\ x.dts + x.dur >= -1
          /\ muxed[x.stream] < x.dts /\ x.dts <= last'[x.stream]
    <2>8. Good(q)
      <3>1. q.dts >= q.at /\ q.dts + q.dur >= -1
        BY <1>2, <1>4, <2>1, <2>2
      <3>2. muxed[p.stream] <= last[p.stream] /\ muxed[p.stream] \in Int /\ last[p.stream] \in Int
        BY <1>4, BufferIs DEF WriterInv, BufferInv
      <3>3. muxed[q.stream] < q.dts
        BY <2>1, <2>2, <3>2
      <3> QED  BY <2>2, <2>6, <3>1, <3>3
    <2>9. ASSUME NEW b \in DOMAIN buffer PROVE Good(buffer[b])
      <3>1. /\ Known(buffer[b]) /\ buffer[b].dts >= buffer[b].at /\ buffer[b].dts + buffer[b].dur >= -1
            /\ muxed[buffer[b].stream] < buffer[b].dts /\ buffer[b].dts <= last[buffer[b].stream]
        BY DEF WriterInv, BufferInv
      <3>2. buffer[b].stream \in Streams /\ buffer[b].dts \in Int /\ last[buffer[b].stream] \in Int
        BY BufferIs DEF AnyPacket
      <3> QED  BY <2>6, <3>1, <3>2
    <2>10. \A j \in DOMAIN buffer' : Good(buffer'[j])
      <3> HIDE DEF Good
      <3> QED  BY <2>4, <2>8, <2>9
    <2>11. ASSUME NEW j \in DOMAIN buffer', NEW k \in DOMAIN buffer', j < k
           PROVE  /\ buffer'[j].dts <= buffer'[k].dts
                  /\ buffer'[j].stream = buffer'[k].stream => buffer'[j].dts < buffer'[k].dts
      <3>1. \/ \E b, c \in DOMAIN buffer : b < c /\ buffer'[j] = buffer[b] /\ buffer'[k] = buffer[c]
            \/ \E b \in DOMAIN buffer \ I : buffer'[j] = buffer[b] /\ buffer'[k] = q
            \/ \E b \in DOMAIN buffer, i \in I : i <= b /\ buffer'[j] = q /\ buffer'[k] = buffer[b]
        <4>1. buffer' = Insert(buffer, q, I) /\ buffer \in Seq(AnyPacket) /\ q \in AnyPacket
              /\ j \in 1..(Len(buffer) + 1) /\ k \in 1..(Len(buffer) + 1) /\ j < k
          BY <1>4, <1>7, <2>1, <2>3, <2>4, <2>11
        <4> QED  BY <4>1, InsertPairs
      <3>2. CASE \E b, c \in DOMAIN buffer : b < c /\ buffer'[j] = buffer[b] /\ buffer'[k] = buffer[c]
        BY <3>2 DEF WriterInv, BufferInv
      <3>3. ASSUME NEW b \in DOMAIN buffer \ I, buffer'[j] = buffer[b], buffer'[k] = q
            PROVE  buffer[b].dts <= q.dts /\ (buffer[b].stream = q.stream => buffer[b].dts < q.dts)
        <4>1. buffer[b].dts <= last[buffer[b].stream] /\ buffer[b].dts <= q.dts
          BY <2>3 DEF WriterInv, BufferInv
        <4>2. buffer[b].dts \in Int /\ last[buffer[b].stream] \in Int
          BY BufferIs DEF AnyPacket
        <4> QED  BY <2>1, <2>2, <4>1, <4>2
      <3>4. ASSUME NEW b \in DOMAIN buffer, NEW i \in I, i <= b PROVE q.dts < buffer[b].dts /\ q.dts <= buffer[b].dts
        <4>1. q.dts < buffer[b].dts
          BY <2>3, <3>4
        <4>2. buffer[b].dts \in Int
          BY BufferIs DEF AnyPacket
        <4> QED  BY <2>2, <4>1, <4>2
      <3> QED  BY <3>1, <3>2, <3>3, <3>4
    <2>12. ASSUME NEW s \in Streams
           PROVE  muxed[s] <= last'[s] /\ last'[s] >= None /\ muxed[s] >= None /\ (track[s] = None \/ track[s] >= -1)
      <3>1. muxed[s] <= last[s] /\ last[s] >= None /\ muxed[s] >= None /\ (track[s] = None \/ track[s] >= -1)
        BY DEF WriterInv, BufferInv
      <3>2. last[s] \in Int /\ muxed[s] \in Int /\ None \in Int
        BY BufferIs DEF None
      <3> QED  BY <2>6, <3>1, <3>2
    <2>13. BufferInv'
      BY <1>3, <2>5, <2>10, <2>11, <2>12 DEF BufferInv, Known
    <2> QED  BY <1>5, <2>7, <2>13 DEF WriterInv
  <1> QED  BY <1>3, <1>6, <1>7 DEF Write

LEMMA EmitKeeps ==
  ASSUME ReaderInv, WriterInv, Emit
  PROVE  WriterInv'
  <1> DEFINE h == Head(buffer)
             p == Shifted(h)
             rest == Tail(buffer)
             t == p.dts + p.dur
  <1>1. /\ UNCHANGED <<valid, lastPts, sent, keys, videos, last, given, dropped, muxed, refused, failed, pending>>
        /\ place = "write" /\ buffer' = rest /\ hand' = Fixup(p, rest)
        /\ track' = [track EXCEPT ![p.stream] = t] /\ still' = (still \/ p.dur <= 0)
        /\ place' = IF Due(p) THEN "cut" ELSE "mux"
    BY DEF Emit, notWrite, readVars, cameraVars, muxVars, fileVars
  <1>2. buffer \in Seq(AnyPacket) /\ buffer # << >> /\ track \in Times /\ still \in BOOLEAN
    BY <1>1 DEF WriterInv, WriterTyped, BufferInv
  <1>3. /\ h \in AnyPacket /\ h = buffer[1] /\ 1 \in DOMAIN buffer
        /\ rest \in Seq(AnyPacket) /\ DOMAIN rest = 1..(Len(buffer) - 1) /\ Len(buffer) \in Nat
        /\ \A i \in DOMAIN rest : rest[i] = buffer[i + 1] /\ i + 1 \in DOMAIN buffer /\ 1 < i + 1
    <2>1. /\ h \in AnyPacket /\ h = buffer[1] /\ rest \in Seq(AnyPacket) /\ Len(rest) = Len(buffer) - 1
          /\ \A i \in 1..Len(rest) : rest[i] = buffer[i + 1]
      BY <1>2, HeadTailProperties
    <2>2. Len(buffer) \in Nat \ {0} /\ DOMAIN buffer = 1..Len(buffer) /\ DOMAIN rest = 1..Len(rest)
      BY <1>2, <2>1, EmptySeq, LenProperties
    <2> HIDE DEF h, rest
    <2> QED  BY <2>1, <2>2
  <1>4. /\ p \in AnyPacket /\ SamePacket(p, h) /\ p.dur = h.dur
        /\ \/ p.dts = h.dts
           \/ track[h.stream] # None /\ p.dts = track[h.stream] /\ track[h.stream] < h.dts /\ h.dur > 0
    BY <1>2, <1>3, ShiftedIs
  <1>5. /\ Fixup(p, rest) \in AnyPacket /\ SamePacket(Fixup(p, rest), p) /\ Fixup(p, rest).dts = p.dts
    BY <1>3, <1>4, FixupIs
  <1> HIDE DEF h, p, rest
  <1>6. /\ Known(h) /\ h.dts >= h.at /\ h.dts + h.dur >= -1
        /\ muxed[h.stream] < h.dts /\ h.dts <= last[h.stream]
    BY <1>3 DEF WriterInv, BufferInv
  <1>7. /\ h.stream \in Streams /\ h.dts \in Int /\ h.dur \in Int /\ h.at \in Nat /\ p.dts \in Int
        /\ p.stream = h.stream /\ p.key = h.key /\ p.dur = h.dur
        /\ track[h.stream] \in Int /\ muxed[h.stream] \in Int /\ last[h.stream] \in Int
    BY <1>3, <1>4, BufferIs DEF AnyPacket, SamePacket
  <1>8. track[h.stream] = None \/ track[h.stream] >= -1
    BY <1>7 DEF WriterInv, BufferInv
  <1>9. /\ p.dts <= h.dts /\ p.dts >= -1 /\ t \in Int /\ t >= -1 /\ p.dts <= last[h.stream]
        /\ (p.dur > 0 => p.dts < t)
    BY <1>4, <1>6, <1>7, <1>8 DEF None
  <1>10. hand'.stream = h.stream /\ hand'.dts = p.dts /\ hand'.key = p.key /\ hand'.at = h.at /\ Known(hand')
         /\ hand' \in AnyPacket
    BY <1>1, <1>4, <1>5, <1>6, SameKnown DEF SamePacket
  <1>11. /\ track' \in Times /\ track'[h.stream] = t
         /\ \A s \in Streams : track'[s] = IF s = h.stream THEN t ELSE track[s]
    BY <1>1, <1>2, <1>7, <1>9 DEF Times
  <1> HIDE DEF t
  <1>12. WriterTyped'
    BY <1>1, <1>2, <1>3, <1>7, <1>10, <1>11 DEF WriterInv, WriterTyped
  <1>13. BufferInv'
    <2>1. ASSUME NEW s \in Streams PROVE track'[s] = None \/ track'[s] >= -1
      BY <1>9, <1>11 DEF WriterInv, BufferInv
    <2>2. ASSUME NEW i \in DOMAIN rest, NEW j \in DOMAIN rest, i < j
          PROVE i + 1 < j + 1
      BY <1>3, <2>2
    <2> QED  BY <1>1, <1>3, <2>1, <2>2 DEF WriterInv, BufferInv, Known
  <1>14. HandInv'
    <2>1. place' \in {"cut", "mux"} /\ (place' = "cut" => hand'.key)
      BY <1>1, <1>10 DEF Due
    <2>2. hand'.dts >= -1 /\ hand'.dts <= last'[hand'.stream] /\ track'[hand'.stream] # None /\ hand'.at >= 0
      BY <1>1, <1>7, <1>9, <1>10, <1>11 DEF None
    <2>3. ASSUME NEW i \in DOMAIN buffer', buffer'[i].stream = hand'.stream
          PROVE  hand'.dts < buffer'[i].dts
      <3>1. buffer'[i] = buffer[i + 1] /\ i + 1 \in DOMAIN buffer /\ 1 < i + 1 /\ buffer[i + 1].stream = h.stream
        BY <1>1, <1>3, <1>10, <2>3
      <3>2. h.dts < buffer[i + 1].dts
        BY <1>3, <3>1 DEF WriterInv, BufferInv
      <3>3. buffer[i + 1].dts \in Int
        BY <3>1, BufferIs DEF AnyPacket
      <3> QED  BY <1>7, <1>9, <1>10, <3>1, <3>2, <3>3
    <2>4. ASSUME ~still'
          PROVE  /\ muxed[h.stream] < p.dts /\ p.dts < t
                 /\ \A s \in Streams : muxed[s] = None \/ muxed[s] < track'[s]
      <3>1. ~still /\ p.dur > 0 /\ p.dts < t
        <4>1. ~still /\ ~(p.dur <= 0)
          BY Zenon, <1>1, <2>4
        <4> QED  BY <1>7, <1>9, <4>1
      <3>2. \A s \in Streams : muxed[s] = None \/ muxed[s] < track[s]
        BY <3>1 DEF WriterInv, HandInv
      <3>3. muxed[h.stream] < p.dts
        <4>1. muxed[h.stream] = None \/ muxed[h.stream] < track[h.stream]
          BY <1>7, <3>2
        <4> QED  BY <1>4, <1>6, <1>7, <1>8, <4>1 DEF None
      <3>4. muxed[h.stream] < t
        BY <1>7, <1>9, <3>1, <3>3 DEF t
      <3> QED  BY <1>11, <3>1, <3>2, <3>3, <3>4
    <2>5. refused' # {} => still'
      BY <1>1 DEF WriterInv, HandInv
    <2>6. ~still' => muxed'[hand'.stream] < hand'.dts /\ hand'.dts < track'[hand'.stream]
      BY <1>1, <1>10, <1>11, <2>4
    <2>7. ~still' => \A s \in Streams : muxed'[s] = None \/ muxed'[s] < track'[s]
      BY <1>1, <2>4
    <2> QED  BY <1>1, <1>10, <2>1, <2>2, <2>3, <2>5, <2>6, <2>7 DEF HandInv, Known
  <1>15. PendingInv'
    BY <1>1 DEF WriterInv, PendingInv, Known
  <1> QED  BY <1>12, <1>13, <1>14, <1>15 DEF WriterInv

LEMMA MuxKeeps ==
  ASSUME WriterInv, Mux, Depth \in Nat
  PROVE  WriterInv'
  <1>1. /\ UNCHANGED <<valid, lastPts, sent, keys, videos, last, given, dropped, buffer, track, still>>
        /\ place = "mux" /\ hand' = NoPacket /\ place' = IF Ready THEN "write" ELSE "loop"
    BY DEF Mux, notWrite, readVars, cameraVars
  <1>2. /\ hand \in AnyPacket /\ muxed \in Times /\ pending \in Seq(AnyPacket) /\ refused \subseteq Nat
        /\ failed \in BOOLEAN
    BY DEF WriterInv, WriterTyped
  <1>3. /\ Known(hand) /\ hand.dts >= -1 /\ hand.dts <= last[hand.stream]
        /\ \A i \in DOMAIN buffer : buffer[i].stream = hand.stream => hand.dts < buffer[i].dts
        /\ ~still => muxed[hand.stream] < hand.dts /\ hand.dts < track[hand.stream]
    BY <1>1 DEF WriterInv, HandInv
  <1>4. hand.stream \in Streams /\ hand.dts \in Int /\ hand.id \in Nat /\ muxed[hand.stream] \in Int
    BY <1>2, BufferIs DEF AnyPacket
  <1>5. NoPacket \in AnyPacket
    BY DEF NoPacket, AnyPacket, Streams
  <1>6. place' = "write" => buffer' # << >>
    <2>1. Ready => buffer # << >>
      <3>1. Ready => Len(buffer) > Depth
        BY DEF Ready
      <3>2. Len(<< >>) = 0
        BY EmptySeq
      <3> QED  BY <3>1, <3>2
    <2> QED  BY <1>1, <2>1
  <1>7. CASE /\ muxed[hand.stream] >= hand.dts
             /\ failed' = TRUE /\ refused' = refused \cup {hand.id} /\ UNCHANGED <<muxed, pending>>
    <2>1. still
      BY <1>3, <1>4, <1>7
    <2>2. refused' \subseteq Nat
      BY <1>4, <1>2, <1>7
    <2>3. WriterTyped'
      BY <1>1, <1>2, <1>5, <1>7, <2>2 DEF WriterInv, WriterTyped
    <2>4. BufferInv' /\ PendingInv'
      BY <1>1, <1>6, <1>7 DEF WriterInv, BufferInv, PendingInv, Known
    <2>5. HandInv'
      BY <1>1, <2>1 DEF WriterInv, HandInv
    <2> QED  BY <2>3, <2>4, <2>5 DEF WriterInv
  <1>8. CASE /\ muxed[hand.stream] < hand.dts
             /\ muxed' = [muxed EXCEPT ![hand.stream] = hand.dts] /\ pending' = Append(pending, hand)
             /\ UNCHANGED <<failed, refused>>
    <2>1. /\ muxed' \in Times /\ muxed'[hand.stream] = hand.dts
          /\ \A s \in Streams : muxed'[s] = IF s = hand.stream THEN hand.dts ELSE muxed[s]
      BY <1>2, <1>4, <1>8 DEF Times
    <2>2. /\ pending' \in Seq(AnyPacket) /\ Len(pending') = Len(pending) + 1 /\ Len(pending) \in Nat
          /\ \A i \in 1..Len(pending) : pending'[i] = pending[i]
          /\ pending'[Len(pending) + 1] = hand
      BY <1>2, <1>8, AppendProperties, LenProperties
    <2>3. WriterTyped'
      BY <1>1, <1>2, <1>5, <1>8, <2>1, <2>2 DEF WriterInv, WriterTyped
    <2>4. BufferInv'
      <3>1. ASSUME NEW i \in DOMAIN buffer PROVE muxed'[buffer[i].stream] < buffer[i].dts
        BY <1>3, <2>1, BufferIs DEF WriterInv, BufferInv
      <3>2. ASSUME NEW s \in Streams PROVE muxed'[s] <= last[s] /\ muxed'[s] >= None
        BY <1>3, <1>4, <2>1 DEF WriterInv, BufferInv, None
      <3> QED  BY <1>1, <1>6, <3>1, <3>2 DEF WriterInv, BufferInv, Known
    <2>5. HandInv'
      <3>1. ASSUME NEW s \in Streams, ~still PROVE muxed'[s] = None \/ muxed'[s] < track[s]
        BY <1>3, <2>1, <3>1 DEF WriterInv, HandInv
      <3> QED  BY <1>1, <1>8, <3>1 DEF WriterInv, HandInv
    <2>6. PendingInv'
      <3>1. DOMAIN pending = 1..Len(pending) /\ DOMAIN pending' = 1..(Len(pending) + 1)
        BY <1>2, <2>2, LenProperties
      <3>2. ASSUME NEW i \in DOMAIN pending' PROVE Known(pending'[i]) /\ pending'[i].dts >= -1
        <4>1. i \in 1..Len(pending) \/ i = Len(pending) + 1
          BY <2>2, <3>1
        <4>2. CASE i = Len(pending) + 1
          BY <1>3, <2>2, <4>2
        <4>3. CASE i \in 1..Len(pending)
          BY <2>2, <3>1, <4>3 DEF WriterInv, PendingInv
        <4> QED  BY <4>1, <4>2, <4>3
      <3> QED  BY <1>1, <3>2 DEF PendingInv, Known
    <2> QED  BY <2>3, <2>4, <2>5, <2>6 DEF WriterInv
  <1> QED  BY <1>7, <1>8 DEF Mux

\* Files get what the muxer held.
LEMMA CutKeeps ==
  ASSUME WriterInv, Frag \/ NewFile
  PROVE  WriterInv'
  <1>1. /\ UNCHANGED <<valid, lastPts, sent, keys, videos, last, given, dropped, buffer, track, hand, still,
                       muxed, refused, failed>>
        /\ place = "cut" /\ place' = "mux" /\ pending' = << >>
    BY DEF Frag, NewFile, Flush, notCut, notWrite, readVars, cameraVars, emitVars, muxVars
  <1>2. WriterTyped' /\ PendingInv'
    <2>1. << >> \in Seq(AnyPacket) /\ DOMAIN << >> = {}
      BY EmptySeq
    <2> QED  BY <1>1, <2>1 DEF WriterInv, WriterTyped, PendingInv
  <1>3. BufferInv' /\ HandInv'
    BY <1>1 DEF WriterInv, BufferInv, HandInv, Known
  <1> QED  BY <1>2, <1>3 DEF WriterInv

LEMMA FinishKeeps ==
  ASSUME WriterInv, Finish
  PROVE  WriterInv'
  <1>1. /\ UNCHANGED <<valid, lastPts, sent, keys, videos, last, given, dropped, buffer, track, hand, still,
                       muxed, refused, failed>>
        /\ place = "loop" /\ place' = "ended" /\ pending' = << >>
    BY DEF Finish, Flush, notCut, notWrite, readVars, cameraVars, emitVars, muxVars
  <1>2. WriterTyped' /\ PendingInv'
    <2>1. << >> \in Seq(AnyPacket) /\ DOMAIN << >> = {}
      BY EmptySeq
    <2> QED  BY <1>1, <2>1 DEF WriterInv, WriterTyped, PendingInv
  <1>3. BufferInv' /\ HandInv'
    BY <1>1 DEF WriterInv, BufferInv, HandInv, Known
  <1> QED  BY <1>2, <1>3 DEF WriterInv

LEMMA Parameters ==
  /\ ReorderLen \in Nat /\ Depth \in Nat /\ MaxBuffered \in Nat /\ MaxDts \in Nat
  /\ SegmentLen \in Nat \ {0} /\ FileLen \in Nat \ {0} /\ InitLen \in Nat \ {0} /\ Fragmented \in BOOLEAN
  /\ ConnectTime \in Nat
  BY RecorderAssumption DEF RecorderAssumption

\* The camera thread without files and rows.
Core == ReaderInv /\ WriterInv
LEMMA CoreInit ==
  ASSUME Init
  PROVE  Core
  <1>1. << >> \in Seq(AnyPacket) /\ DOMAIN << >> = {}
    BY EmptySeq
  <1>2. ReaderInv
    <2>1. CameraTyped
      <3>1. next \in [Streams -> Nat] /\ keys \subseteq Nat /\ videos \subseteq Nat /\ queue \in Seq(AnyPacket)
        BY <1>1 DEF Init
      <3>2. /\ popped \in [dts : Int, sent : Nat] /\ sent \in Nat /\ odd \in Nat /\ eof \in BOOLEAN
            /\ connectTime \in Nat
        <4>1. popped = [dts |-> None, sent |-> 0] /\ sent = 0 /\ odd = 0 /\ eof = FALSE /\ connectTime = ConnectTime
          BY DEF Init
        <4>2. None \in Int
          BY DEF None
        <4> QED  BY <4>1, <4>2, Parameters
      <3> QED  BY <3>1, <3>2 DEF CameraTyped
    <2>2. CameraInv /\ PacketRead
      BY DEF Init, CameraInv, PacketRead
    <2>3. QueueInv
      BY <1>1 DEF Init, QueueInv
    <2> QED  BY <2>1, <2>2, <2>3 DEF ReaderInv
  <1>3. NoPacket \in AnyPacket
    BY DEF NoPacket, AnyPacket, Streams
  <1>4. [s \in Streams |-> None] \in Times
    BY DEF Times, None
  <1>5. WriterTyped
    BY <1>1, <1>3, <1>4 DEF Init, WriterTyped
  <1>6. BufferInv /\ HandInv /\ PendingInv
    BY <1>1 DEF Init, BufferInv, HandInv, PendingInv, None
  <1> QED  BY <1>2, <1>5, <1>6 DEF Core, WriterInv

\* The queue changes when a packet is read or leaves it.
LEMMA CoreStep ==
  ASSUME Core, [Next]_vars
  PROVE  Core' /\ Remembers
  <1>1. ASSUME ReadFrame, UNCHANGED <<valid, lastPts, popped, writerVars>>,
               place \in {"charge", "loop"}, place' \in {"charge", "loop", "packet"},
               place' = "packet" => queue' # << >>
        PROVE  Core' /\ Remembers
    <2>1. CameraTyped' /\ CameraInv' /\ QueueInv' /\ Remembers
      BY <1>1, Parameters, ReadFrameStep DEF Core, ReaderInv
    <2>2. WriterInv'
      BY <1>1, <2>1, ReadingKeeps DEF Core
    <2> QED  BY <1>1, <2>1, <2>2 DEF Core, ReaderInv, PacketRead
  <1>2. CASE Charge
    <2>1. place' \in {"charge", "loop"}
      BY <1>2 DEF Charge
    <2> QED  BY <1>1, <1>2, <2>1 DEF Charge
  <1>3. CASE GetNextPacket
    <2>1. place' \in {"loop", "packet"} /\ (place' = "packet" => queue' # << >>)
      BY <1>3 DEF GetNextPacket
    <2> QED  BY <1>1, <1>3, <2>1 DEF GetNextPacket
  <1>4. ASSUME UNCHANGED readVars, place' # "packet" \/ place' = place PROVE ReaderInv' /\ Remembers
    <2>1. UNCHANGED <<sent, next, odd, eof, connectTime, queue, popped, keys, videos>>
      BY <1>4 DEF readVars, cameraVars
    <2> QED  BY <1>4, <2>1 DEF Core, ReaderInv, CameraTyped, CameraInv, QueueInv, PacketRead, Known, Remembers
  <1>5. CASE Connected
    <2>1. UNCHANGED readVars /\ UNCHANGED <<valid, lastPts, writerVars>> /\ place = "charge" /\ place' = "loop"
      BY <1>5 DEF Connected, readVars
    <2> QED  BY <1>4, <2>1, ReadingKeeps DEF Core
  <1>6. CASE HandlePacket
    <2>1. queue # << >> /\ place' # "packet"
      BY <1>6 DEF HandlePacket, Core, ReaderInv, PacketRead, Write
    <2>2. CameraTyped' /\ CameraInv' /\ QueueInv' /\ Remembers
      BY <1>6, <2>1, HandleQueue DEF Core, ReaderInv
    <2> QED  BY <1>6, <2>1, <2>2, HandleKeeps DEF Core, ReaderInv, PacketRead
  <1>7. CASE Emit
    <2>1. UNCHANGED readVars /\ place' # "packet"
      BY <1>7 DEF Emit, notWrite
    <2> QED  BY <1>4, <1>7, <2>1, EmitKeeps DEF Core
  <1>8. CASE Mux
    <2>1. UNCHANGED readVars /\ place' # "packet"
      BY <1>8 DEF Mux, notWrite
    <2> QED  BY <1>4, <1>8, <2>1, MuxKeeps, Parameters DEF Core
  <1>9. CASE Frag \/ NewFile
    <2>1. UNCHANGED readVars /\ place' # "packet"
      BY <1>9 DEF Frag, NewFile, notCut, notWrite
    <2> QED  BY <1>4, <1>9, <2>1, CutKeeps DEF Core
  <1>10. CASE Finish
    <2>1. UNCHANGED readVars /\ place' # "packet"
      BY <1>10 DEF Finish, notCut, notWrite
    <2> QED  BY <1>4, <1>10, <2>1, FinishKeeps DEF Core
  <1>11. CASE UNCHANGED vars
    <2>1. UNCHANGED <<place, readVars, writerVars>>
      BY <1>11 DEF vars
    <2>2. UNCHANGED <<place, sent, next, odd, eof, queue, popped, keys, videos, valid, lastPts, last, buffer, given,
                     dropped, track, hand, still, muxed, refused, failed, pending>>
      BY <2>1 DEF readVars, cameraVars, writerVars, bufferVars, emitVars, muxVars, fileVars
    <2>3. WriterInv'
      BY <2>2 DEF Core, WriterInv, WriterTyped, BufferInv, HandInv, PendingInv, Known
    <2> QED  BY <1>4, <2>1, <2>3 DEF Core
  <1> QED  BY <1>2, <1>3, <1>5, <1>6, <1>7, <1>8, <1>9, <1>10, <1>11 DEF Next

\* The queue, the buffer and the packet at hand, for every step of the camera thread.
THEOREM CoreInvariant == Spec => []Core
  <1>1. Core /\ [Next]_vars => Core'
    BY CoreStep
  <1> QED  BY CoreInit, <1>1, PTL DEF Spec

\* The reorder queue keeps what has arrived in order of time: a packet that leaves it after a
\* later one had not arrived when that one left.
THEOREM OrderIsKept == Spec => ReorderKeepsOrder
  <1> DEFINE A == popped' # popped => popped'.dts >= popped.dts \/ Head(queue).id > popped.sent
  <1>1. Core /\ [Next]_vars => [A]_vars
    <2> SUFFICES ASSUME Core, [Next]_vars, popped' # popped
                 PROVE  popped'.dts >= popped.dts \/ Head(queue).id > popped.sent
      OBVIOUS
    <2>1. HandlePacket
      BY DEF Next, vars, readVars, Charge, Connected, GetNextPacket, Emit, Mux, Frag, NewFile, Finish, notCut, notWrite
    <2>2. queue # << >> /\ queue \in Seq(AnyPacket)
      BY <2>1 DEF HandlePacket, Core, ReaderInv, PacketRead, CameraTyped
    <2>3. popped'.dts = queue[1].dts /\ 1 \in DOMAIN queue
      BY <2>1, <2>2, NextPacketIs DEF HandlePacket, Core, ReaderInv
    <2>4. Head(queue) = queue[1]
      BY <2>2, HeadTailProperties
    <2> QED  BY <2>3, <2>4 DEF Core, ReaderInv, QueueInv
  <1>2. ReorderKeepsOrder <=> [][A]_vars
    BY DEF ReorderKeepsOrder
  <1> HIDE DEF A
  <1> QED  BY <1>1, <1>2, CoreInvariant, PTL DEF Spec

\* The muxer gets the packets of a stream in the order of their times, unless one lasts no
\* time: nothing is refused.
THEOREM MuxerAccepts == Spec => []MuxerRefuses
  <1>1. Core => MuxerRefuses
    BY DEF Core, WriterInv, HandInv, MuxerRefuses
  <1> QED  BY <1>1, CoreInvariant, PTL

-----------------------------------------------------------------------------
(* Files and rows *)

LEMMA HeaderIs ==
  /\ Header \in Seq(Nat) /\ Len(Header) \in Nat /\ Len(Header) = (IF Fragmented THEN InitLen ELSE 0)
  /\ \A k \in 1..Len(Header) : Header[k] = 0
  <1>1. CASE Fragmented
    <2>1. Header = [i \in 1..InitLen |-> 0] /\ InitLen \in Nat
      BY <1>1, Parameters DEF Header
    <2>2. Header \in Seq(Nat)
      BY <2>1
    <2>3. Len(Header) = InitLen
      BY <2>1
    <2> QED  BY <1>1, <2>1, <2>2, <2>3
  <1>2. CASE ~Fragmented
    <2>1. Header = << >>
      BY <1>2 DEF Header
    <2>2. << >> \in Seq(Nat) /\ Len(<< >>) = 0
      BY EmptySeq
    <2> QED  BY <1>2, <2>1, <2>2
  <1> QED  BY <1>1, <1>2

LEMMA IdsIs ==
  ASSUME NEW q \in Seq(AnyPacket)
  PROVE  /\ Ids(q) \in Seq(Nat) /\ Len(Ids(q)) = Len(q) /\ Len(q) \in Nat
         /\ DOMAIN q = 1..Len(q) /\ \A i \in 1..Len(q) : Ids(q)[i] = q[i].id
  <1>1. DOMAIN q = 1..Len(q) /\ Len(q) \in Nat
    BY LenProperties
  <1>2. ASSUME NEW i \in 1..Len(q) PROVE q[i].id \in Nat
    <2>1. q[i] \in AnyPacket
      BY ElementOfSeq
    <2> QED  BY <2>1 DEF AnyPacket
  <1>3. Ids(q) = [i \in 1..Len(q) |-> q[i].id]
    BY <1>1 DEF Ids
  <1>4. Ids(q) \in Seq(Nat) /\ Len(Ids(q)) = Len(q)
    BY <1>1, <1>2, <1>3
  <1> QED  BY <1>1, <1>3, <1>4

LEMMA FilesAre ==
  ASSUME FilesTyped
  PROVE  /\ Len(files) \in Nat \ {0} /\ DOMAIN files = 1..Len(files) /\ Last(files) = files[Len(files)]
         /\ Last(files) \in Seq(Nat) /\ Len(Last(files)) \in Nat
         /\ \A f \in DOMAIN files :
              /\ files[f] \in Seq(Nat) /\ Len(files[f]) \in Nat /\ DOMAIN files[f] = 1..Len(files[f])
              /\ \A k \in 1..Len(files[f]) : files[f][k] \in Nat
  <1>1. files \in Seq(Seq(Nat)) /\ Len(files) \in Nat \ {0} /\ DOMAIN files = 1..Len(files)
    BY EmptySeq, LenProperties DEF FilesTyped
  <1>2. Last(files) = files[Len(files)] /\ Len(files) \in DOMAIN files
    BY <1>1 DEF Last
  <1>3. ASSUME NEW f \in DOMAIN files
        PROVE  /\ files[f] \in Seq(Nat) /\ Len(files[f]) \in Nat /\ DOMAIN files[f] = 1..Len(files[f])
               /\ \A k \in 1..Len(files[f]) : files[f][k] \in Nat
    <2>1. files[f] \in Seq(Nat)
      BY <1>1, ElementOfSeq
    <2> QED  BY <2>1, LenProperties, ElementOfSeq
  <1> QED  BY <1>1, <1>2, <1>3

\* What the last file is when all is written.
LEMMA FlushedIs ==
  ASSUME FilesTyped, pending \in Seq(AnyPacket)
  PROVE  /\ Flushed \in Seq(Seq(Nat)) /\ Len(Flushed) = Len(files) /\ Flushed # << >>
         /\ \A f \in 1..Len(files) : f # Len(files) => Flushed[f] = files[f]
         /\ Flushed[Len(files)] = Written /\ Written \in Seq(Nat) /\ Size = Len(Written)
         /\ Len(pending) \in Nat /\ Len(Written) = Len(Last(files)) + Len(pending)
         /\ \A k \in 1..Len(Last(files)) : Written[k] = Last(files)[k]
         /\ \A i \in 1..Len(pending) : Written[Len(Last(files)) + i] = pending[i].id
  <1>1. /\ files \in Seq(Seq(Nat)) /\ Len(files) \in Nat \ {0} /\ Last(files) = files[Len(files)]
        /\ Last(files) \in Seq(Nat) /\ Len(Last(files)) \in Nat
    BY FilesAre DEF FilesTyped
  <1>2. /\ Ids(pending) \in Seq(Nat) /\ Len(Ids(pending)) = Len(pending) /\ Len(pending) \in Nat
        /\ \A i \in 1..Len(pending) : Ids(pending)[i] = pending[i].id
    BY IdsIs
  <1> DEFINE w == Last(files) \o Ids(pending)
  <1>3. /\ w \in Seq(Nat) /\ Len(w) = Len(Last(files)) + Len(pending)
        /\ \A i \in 1..(Len(Last(files)) + Len(pending)) :
             w[i] = IF i <= Len(Last(files)) THEN Last(files)[i] ELSE Ids(pending)[i - Len(Last(files))]
    <2> DEFINE a == Last(files)
               b == Ids(pending)
    <2>1. a \in Seq(Nat) /\ b \in Seq(Nat) /\ Len(b) = Len(pending)
      BY <1>1, <1>2
    <2> HIDE DEF a, b
    <2>2. /\ a \o b \in Seq(Nat) /\ Len(a \o b) = Len(a) + Len(b)
          /\ \A i \in 1..(Len(a) + Len(b)) : (a \o b)[i] = IF i <= Len(a) THEN a[i] ELSE b[i - Len(a)]
      BY <2>1, ConcatProperties
    <2> QED  BY <2>1, <2>2 DEF a, b
  <1>4. Flushed = [files EXCEPT ![Len(files)] = w]
    BY <1>1 DEF Flushed
  <1> HIDE DEF w
  <1>5. Len(files) \in 1..Len(files)
    BY <1>1
  <1>6. /\ Flushed \in Seq(Seq(Nat)) /\ Len(Flushed) = Len(files)
        /\ \A f \in 1..Len(files) : Flushed[f] = IF f = Len(files) THEN w ELSE files[f]
    BY <1>1, <1>3, <1>4, <1>5, ExceptSeq
  <1>7. Flushed # << >> /\ Last(Flushed) = w /\ Size = Len(w)
    <2>1. Len(<< >>) = 0 /\ Len(Flushed) # 0
      BY <1>1, <1>6, EmptySeq
    <2>2. Last(Flushed) = w /\ Size = Len(w)
      BY <1>5, <1>6 DEF Last, Size
    <2> QED  BY <2>1, <2>2
  <1>8. ASSUME NEW k \in 1..Len(Last(files)) PROVE w[k] = Last(files)[k]
    <2>1. k \in 1..(Len(Last(files)) + Len(pending)) /\ k <= Len(Last(files))
      BY <1>1, <1>2
    <2> QED  BY <1>3, <2>1
  <1>9. ASSUME NEW i \in 1..Len(pending) PROVE w[Len(Last(files)) + i] = pending[i].id
    <2> DEFINE n == Len(Last(files))
    <2>1. n + i \in 1..(n + Len(pending)) /\ ~(n + i <= n) /\ (n + i) - n = i
      BY <1>1, <1>2
    <2> QED  BY <1>2, <1>3, <2>1
  <1> QED  BY <1>2, <1>3, <1>5, <1>6, <1>7, <1>8, <1>9 DEF Written

\* The last row when it is closed.
LEMMA EndedIs ==
  ASSUME FilesTyped, NEW from, NEW end, from \in Int, end \in Int, Size \in Int
  PROVE  /\ Len(rows) \in Nat \ {0} /\ DOMAIN rows = 1..Len(rows) /\ Last(rows) = rows[Len(rows)]
         /\ \A i \in DOMAIN rows : rows[i] \in AnyRow
         /\ Ended(from, end) \in Seq(AnyRow) /\ Len(Ended(from, end)) = Len(rows)
         /\ \A i \in 1..Len(rows) : i # Len(rows) => Ended(from, end)[i] = rows[i]
         /\ Ended(from, end)[Len(rows)].name = rows[Len(rows)].name
         /\ Ended(from, end)[Len(rows)].start = rows[Len(rows)].start
         /\ Ended(from, end)[Len(rows)].end = end
         /\ Ended(from, end)[Len(rows)].from = from /\ Ended(from, end)[Len(rows)].to = Size
  <1>1. rows \in Seq(AnyRow) /\ Len(rows) \in Nat \ {0} /\ DOMAIN rows = 1..Len(rows)
        /\ Len(rows) \in 1..Len(rows)
    BY EmptySeq, LenProperties DEF FilesTyped
  <1>2. \A i \in DOMAIN rows : rows[i] \in AnyRow
    BY <1>1, ElementOfSeq
  <1> DEFINE r == rows[Len(rows)]
             x == [r EXCEPT !.end = end, !.from = from, !.to = Size]
  <1>3. r \in AnyRow
    BY <1>1, <1>2
  <1>4. Ended(from, end) = [rows EXCEPT ![Len(rows)] = x]
    BY <1>1 DEF Ended
  <1> HIDE DEF r
  <1>5. x \in AnyRow /\ x.name = r.name /\ x.start = r.start /\ x.end = end /\ x.from = from /\ x.to = Size
    BY <1>3 DEF AnyRow
  <1> HIDE DEF x
  <1>6. /\ Ended(from, end) \in Seq(AnyRow) /\ Len(Ended(from, end)) = Len(rows)
        /\ \A i \in 1..Len(rows) : Ended(from, end)[i] = IF i = Len(rows) THEN x ELSE rows[i]
    BY <1>1, <1>4, <1>5, ExceptSeq
  <1>7. Last(rows) = rows[Len(rows)]
    BY DEF Last
  <1>8. Ended(from, end)[Len(rows)] = x /\ \A i \in 1..Len(rows) : i # Len(rows) => Ended(from, end)[i] = rows[i]
    BY ONLY <1>1, <1>6, Zenon
  <1>9. /\ Ended(from, end)[Len(rows)].name = rows[Len(rows)].name
        /\ Ended(from, end)[Len(rows)].start = rows[Len(rows)].start
        /\ Ended(from, end)[Len(rows)].end = end /\ Ended(from, end)[Len(rows)].from = from
        /\ Ended(from, end)[Len(rows)].to = Size
    BY ONLY <1>5, <1>8 DEF r
  <1> QED  BY ONLY <1>1, <1>2, <1>6, <1>7, <1>8, <1>9, Zenon

\* Files and rows.
FilesLayer == FilesTyped /\ FilesInv /\ RowsInv

LEMMA RowsAre ==
  ASSUME FilesTyped
  PROVE  /\ Len(rows) \in Nat \ {0} /\ DOMAIN rows = 1..Len(rows)
         /\ \A i \in 1..Len(rows) : rows[i] \in AnyRow
  BY EmptySeq, LenProperties, ElementOfSeq DEF FilesTyped

\* What is written does not disturb the rows that are closed.
LEMMA FlushKeeps ==
  ASSUME Core, FilesLayer, place # "ended"
  PROVE  /\ \A f \in DOMAIN Flushed : \A k \in DOMAIN Flushed[f] : Flushed[f][k] <= sent
         /\ Len(Header) <= Len(Written) /\ \A k \in 1..Len(Header) : Written[k] = 0
         /\ lastCutByte <= Len(Written)
         /\ \A i \in 1..(Len(rows) - 1) :
              /\ WholeIn(Flushed, rows[i])
              /\ EndsFile(i) => Flushed[rows[i].name] = files[rows[i].name]
  <1> DEFINE L == Len(files)
             N == Len(rows)
             w == Last(files)
  <1>1. /\ FilesTyped /\ pending \in Seq(AnyPacket) /\ lastCutByte \in Nat /\ sent \in Nat
    BY DEF FilesLayer, FilesTyped, Core, WriterInv, WriterTyped, ReaderInv, CameraTyped
  <1>2. /\ L \in Nat \ {0} /\ DOMAIN files = 1..L /\ w = files[L] /\ L \in DOMAIN files
        /\ w \in Seq(Nat) /\ Len(w) \in Nat /\ DOMAIN w = 1..Len(w)
        /\ \A f \in DOMAIN files : Len(files[f]) \in Nat
    BY <1>1, FilesAre
  <1>3. /\ Flushed \in Seq(Seq(Nat)) /\ Len(Flushed) = L
        /\ \A f \in 1..L : f # L => Flushed[f] = files[f]
        /\ Flushed[L] = Written /\ Written \in Seq(Nat)
        /\ Len(pending) \in Nat /\ Len(Written) = Len(w) + Len(pending)
        /\ \A k \in 1..Len(w) : Written[k] = w[k]
        /\ \A i \in 1..Len(pending) : Written[Len(w) + i] = pending[i].id
    BY <1>1, FlushedIs
  <1>4. DOMAIN Flushed = 1..L /\ DOMAIN Written = 1..Len(Written)
    BY <1>3, LenProperties
  <1>5. N \in Nat \ {0} /\ \A i \in 1..N : rows[i] \in AnyRow
    BY <1>1, RowsAre
  <1> HIDE DEF L, N, w
  <1>6. ASSUME NEW k \in 1..Len(Written) PROVE Written[k] <= sent
    <2>1. k \in 1..Len(w) \/ (k - Len(w) \in 1..Len(pending) /\ k = Len(w) + (k - Len(w)))
      BY <1>2, <1>3
    <2>2. CASE k \in 1..Len(w)
      BY <1>2, <1>3, <2>2 DEF FilesLayer, FilesInv
    <2>3. ASSUME NEW i \in 1..Len(pending), k = Len(w) + i PROVE Written[k] <= sent
      <3>1. pending[i].id \in 1..sent
        BY <1>1, LenProperties DEF Core, WriterInv, PendingInv, Known, KnownTo
      <3>2. Written[k] = pending[i].id /\ sent \in Nat
        BY <1>1, <1>3, <2>3
      <3> QED  BY ONLY <3>1, <3>2
    <2> QED  BY <2>1, <2>2, <2>3
  <1>7. ASSUME NEW f \in DOMAIN Flushed, NEW k \in DOMAIN Flushed[f] PROVE Flushed[f][k] <= sent
    <2>1. CASE f = L
      BY <1>3, <1>4, <1>6, <2>1
    <2>2. CASE f # L
      BY <1>2, <1>3, <1>4, <2>2 DEF FilesLayer, FilesInv
    <2> QED  BY <2>1, <2>2
  <1>8. Len(Header) <= Len(w) /\ lastCutByte <= Len(w) /\ Len(Header) \in Nat
        /\ \A k \in 1..Len(Header) : w[k] = 0
    BY HeaderIs DEF FilesLayer, FilesInv, w
  <1>9. Len(Header) <= Len(Written) /\ lastCutByte <= Len(Written)
    BY <1>1, <1>2, <1>3, <1>8
  <1>10. ASSUME NEW k \in 1..Len(Header) PROVE Written[k] = 0
    <2>1. k \in 1..Len(w)
      BY <1>2, <1>8
    <2> QED  BY <1>3, <1>8, <2>1
  <1>11. ASSUME NEW i \in 1..(N - 1)
         PROVE  WholeIn(Flushed, rows[i]) /\ (EndsFile(i) => Flushed[rows[i].name] = files[rows[i].name])
    <2> DEFINE r == rows[i]
    <2>1. WholeIn(files, r) /\ Follows(r, rows[i + 1])
      BY DEF FilesLayer, RowsInv, Whole, N
    <2>2. r.name \in 1..L /\ r.to \in Nat /\ r.to <= Len(files[r.name])
      BY <1>2, <2>1 DEF WholeIn
    <2>3. r.to <= Len(Flushed[r.name])
      <3>1. CASE r.name = L
        BY <1>2, <1>3, <2>2, <3>1
      <3>2. CASE r.name # L
        BY <1>3, <2>2, <3>2
      <3> QED  BY <3>1, <3>2
    <2>4. WholeIn(Flushed, r)
      BY <1>4, <2>1, <2>2, <2>3 DEF WholeIn
    <2>5. ASSUME EndsFile(i) PROVE Flushed[r.name] = files[r.name]
      <3>1. rows[i + 1].name = r.name + 1
        BY <2>1, <2>5 DEF EndsFile, Follows
      <3>2. i + 1 = N \/ i + 1 \in 1..(N - 1)
        BY <1>5
      <3>3. rows[i + 1].name \in 1..L
        <4>1. CASE i + 1 = N
          BY <1>2, <4>1 DEF FilesLayer, RowsInv, N, L
        <4>2. CASE i + 1 \in 1..(N - 1)
          BY <1>2, <4>2 DEF FilesLayer, RowsInv, Whole, WholeIn, N
        <4> QED  BY <3>2, <4>1, <4>2
      <3>4. r.name # L
        BY <1>2, <2>2, <3>1, <3>3
      <3> QED  BY <1>3, <2>2, <3>4
    <2> QED  BY <2>4, <2>5
  <1> QED  BY <1>7, <1>9, <1>10, <1>11 DEF N

\* A cut: the last row is closed at time end and another one, row, is added.
AddsRow(from, end, row) ==
  /\ rows' = Append(Ended(from, end), row)
  /\ from = lastCutByte \/ (Fragmented /\ lastCutByte = 0 /\ from = InitLen)
  /\ \A f \in 1..Len(files) : files'[f] = Flushed[f]
  /\ Len(files') >= Len(files) /\ DOMAIN files' = 1..Len(files') /\ Len(files') \in Nat
  /\ row.name = Len(files') /\ row.name \in {Len(files), Len(files) + 1}
  /\ row.end = None
  /\ end = row.start \/ (row.start = end + 1 /\ row.name # Len(files))
  /\ lastCutByte' = IF row.name = Len(files) THEN Size ELSE 0
LEMMA CutAddsRow ==
  ASSUME Core, FilesLayer, place = "cut", place' = "mux",
         NEW from \in Nat, NEW end \in Nat, NEW row \in AnyRow, AddsRow(from, end, row)
  PROVE  rows' \in Seq(AnyRow) /\ rows' # << >> /\ RowsInv'
  <1> DEFINE N == Len(rows)
             L == Len(files)
             E == Ended(from, end)
  <1>1. FilesTyped /\ pending \in Seq(AnyPacket) /\ lastCutByte \in Nat /\ Size = Len(Written) /\ Len(Written) \in Nat
    <2>1. FilesTyped /\ pending \in Seq(AnyPacket) /\ lastCutByte \in Nat
      BY DEF FilesLayer, FilesTyped, Core, WriterInv, WriterTyped
    <2> QED  BY <2>1, FlushedIs, LenProperties
  <1>2. /\ N \in Nat \ {0} /\ \A i \in 1..N : rows[i] \in AnyRow
        /\ E \in Seq(AnyRow) /\ Len(E) = N
        /\ \A i \in 1..N : i # N => E[i] = rows[i]
        /\ E[N].name = rows[N].name /\ E[N].start = rows[N].start /\ E[N].end = end
        /\ E[N].from = from /\ E[N].to = Size
    <2>1. from \in Int /\ end \in Int /\ Size \in Int
      BY <1>1
    <2>2. Len(rows) \in Nat \ {0} /\ \A i \in 1..Len(rows) : rows[i] \in AnyRow
      BY <1>1, RowsAre
    <2>3. /\ E \in Seq(AnyRow) /\ Len(E) = Len(rows)
          /\ \A i \in 1..Len(rows) : i # Len(rows) => E[i] = rows[i]
          /\ E[Len(rows)].name = rows[Len(rows)].name /\ E[Len(rows)].start = rows[Len(rows)].start
          /\ E[Len(rows)].end = end /\ E[Len(rows)].from = from /\ E[Len(rows)].to = Size
      BY <1>1, <2>1, EndedIs
    <2> QED  BY <2>2, <2>3
  <1>3. L \in Nat \ {0} /\ DOMAIN files = 1..L /\ \A f \in 1..L : Len(files[f]) \in Nat
    BY <1>1, FilesAre
  <1>4. /\ rows' \in Seq(AnyRow) /\ rows' # << >> /\ Len(rows') = N + 1
        /\ \A i \in 1..N : rows'[i] = E[i]
        /\ rows'[N + 1] = row
    <2>1. rows' = Append(E, row)
      BY DEF AddsRow
    <2> HIDE DEF E, N
    <2>2. /\ Append(E, row) \in Seq(AnyRow) /\ Append(E, row) # << >> /\ Len(Append(E, row)) = Len(E) + 1
          /\ \A i \in 1..Len(E) : Append(E, row)[i] = E[i]
          /\ Append(E, row)[Len(E) + 1] = row
      BY <1>2, AppendProperties
    <2> QED  BY <1>2, <2>1, <2>2
  <1>5. rows[N].name = L /\ rows[1].name = 1
    BY DEF FilesLayer, RowsInv
  <1>6. /\ \A i \in 1..N : i # N => rows'[i] = rows[i]
        /\ \A i \in 1..N : rows'[i].name = rows[i].name
        /\ rows'[N].start = rows[N].start /\ rows'[N].end = end /\ rows'[N].from = from /\ rows'[N].to = Size
        /\ N \in 1..N
    BY <1>2, <1>4
  <1>7. /\ DOMAIN Flushed = 1..L /\ Flushed[L] = Written
        /\ Len(Header) \in Nat /\ Len(Header) = (IF Fragmented THEN InitLen ELSE 0) /\ InitLen \in Nat \ {0}
    BY <1>1, FlushedIs, LenProperties, HeaderIs, Parameters
  <1>8. /\ Len(Header) <= Len(Written) /\ lastCutByte <= Len(Written)
        /\ \A i \in 1..(N - 1) :
             /\ WholeIn(Flushed, rows[i])
             /\ EndsFile(i) => Flushed[rows[i].name] = files[rows[i].name]
    BY FlushKeeps
  <1>21. /\ from = lastCutByte \/ (lastCutByte = 0 /\ from = InitLen /\ Len(Header) = InitLen)
         /\ \A f \in 1..L : files'[f] = Flushed[f]
         /\ Len(files') >= L /\ DOMAIN files' = 1..Len(files') /\ Len(files') \in Nat
         /\ row.name = Len(files') /\ row.name \in {L, L + 1}
         /\ row.end = None
         /\ end = row.start \/ (row.start = end + 1 /\ row.name # L)
         /\ lastCutByte' = IF row.name = L THEN Size ELSE 0
    <2>1. from = lastCutByte \/ (Fragmented /\ lastCutByte = 0 /\ from = InitLen)
      BY Zenon DEF AddsRow
    <2>2. from = lastCutByte \/ (lastCutByte = 0 /\ from = InitLen /\ Len(Header) = InitLen)
      BY ONLY <1>7, <2>1
    <2> QED  BY <2>2, Zenon DEF AddsRow
  <1> HIDE DEF N, L, E
  <1>9. lastCutByte = 0 \/ Len(Header) <= lastCutByte
    BY DEF FilesLayer, FilesInv
  <1>10. ASSUME NEW r, WholeIn(Flushed, r) PROVE WholeIn(files', r) /\ files'[r.name] = Flushed[r.name]
    <2>1. r.name \in 1..L /\ r.name \in 1..Len(files')
      <3>1. r.name \in 1..L
        BY ONLY <1>7, <1>10 DEF WholeIn
      <3>2. L \in Nat /\ Len(files') \in Nat /\ Len(files') >= L
        BY ONLY <1>3, <1>21, Zenon
      <3> QED  BY ONLY <3>1, <3>2
    <2>2. files'[r.name] = Flushed[r.name]
      BY ONLY <1>21, <2>1
    <2> QED  BY <1>10, <2>1, <2>2 DEF WholeIn
  \* the row that is closed
  <1>11. WholeIn(Flushed, rows'[N])
    <2>1. rows'[N].name = L /\ L \in DOMAIN Flushed
      BY <1>3, <1>5, <1>6, <1>7
    <2>2. from <= Len(Written) /\ (from = 0 \/ Len(Header) <= from)
      BY ONLY <1>1, <1>7, <1>8, <1>9, <1>21
    <2> QED  BY <1>1, <1>6, <1>7, <1>8, <2>1, <2>2 DEF WholeIn
  <1> DEFINE From1(i) == IF i = N + 1 THEN lastCutByte' ELSE rows'[i].from
  <1>12. ASSUME NEW i \in 1..N
         PROVE  /\ Follows(rows'[i], rows'[i + 1]) /\ WholeIn(files', rows'[i])
                /\ i = 1 \/ rows'[i - 1].name # rows'[i].name => rows'[i].from \in {0, InitLen}
                /\ rows'[i].to = IF rows'[i + 1].name # rows'[i].name THEN Len(files'[rows'[i].name])
                                 ELSE From1(i + 1)
    <2>1. CASE i = N
      <3>1. rows'[i + 1] = row /\ rows'[i].name = L /\ rows'[i].end = end /\ rows'[i].start = rows[N].start
        BY <1>4, <1>5, <1>6, <2>1
      <3>2. Follows(rows'[i], rows'[i + 1])
        <4>1. row.name \in {L, L + 1} /\ (end = row.start \/ (row.start = end + 1 /\ row.name # L))
          BY ONLY <1>21
        <4> QED  BY ONLY <3>1, <4>1 DEF Follows
      <3>3. WholeIn(files', rows'[i])
        BY <1>10, <1>11, <2>1
      <3>4. i = 1 \/ rows'[i - 1].name # rows'[i].name => rows'[i].from \in {0, InitLen}
        <4>1. ASSUME i = 1 \/ rows'[i - 1].name # rows'[i].name PROVE BeginsFile(N)
          <5>1. CASE i # 1
            <6>1. i - 1 \in 1..N
              BY <1>2, <2>1, <5>1
            <6> QED  BY <1>6, <2>1, <4>1, <5>1, <6>1 DEF BeginsFile
          <5> QED  BY <2>1, <5>1 DEF BeginsFile
        <4>2. BeginsFile(N) => lastCutByte = 0
          BY DEF FilesLayer, RowsInv, N
        <4> QED  BY ONLY <1>6, <1>21, <2>1, <4>1, <4>2
      <3>5. rows'[i].to = IF rows'[i + 1].name # rows'[i].name THEN Len(files'[rows'[i].name]) ELSE From1(i + 1)
        <4>1. files'[L] = Written /\ rows'[i].to = Len(Written)
          BY <1>1, <1>5, <1>6, <1>7, <1>10, <1>11, <2>1
        <4>2. From1(i + 1) = lastCutByte'
          BY <2>1
        <4>3. row.name = L => lastCutByte' = Len(Written)
          BY <1>1 DEF L, AddsRow
        <4> QED  BY <3>1, <4>1, <4>2, <4>3
      <3> QED  BY <3>2, <3>3, <3>4, <3>5
    <2>2. CASE i # N
      <3>1. i \in 1..(N - 1) /\ i + 1 \in 1..N /\ i + 1 # N + 1 /\ (i # 1 => i - 1 \in 1..N /\ i - 1 # N)
        BY <1>2, <2>2
      <3>2. /\ Follows(rows[i], rows[i + 1]) /\ (BeginsFile(i) => rows[i].from \in {0, InitLen})
            /\ rows[i].to = IF EndsFile(i) THEN Len(files[rows[i].name]) ELSE From(i + 1)
        BY <3>1 DEF FilesLayer, RowsInv, N
      <3>3. rows'[i] = rows[i] /\ rows'[i + 1].name = rows[i + 1].name /\ rows'[i + 1].start = rows[i + 1].start
        BY <1>6, <2>2, <3>1
      <3>4. Follows(rows'[i], rows'[i + 1])
        BY <3>2, <3>3 DEF Follows
      <3>5. WholeIn(files', rows'[i]) /\ files'[rows[i].name] = Flushed[rows[i].name]
        <4>1. WholeIn(Flushed, rows[i])
          BY ONLY <1>8, <3>1
        <4> QED  BY <1>10, <3>3, <4>1
      <3>6. i = 1 \/ rows'[i - 1].name # rows'[i].name => rows'[i].from \in {0, InitLen}
        BY <1>6, <3>1, <3>2, <3>3 DEF BeginsFile
      <3>7. rows'[i + 1].name # rows'[i].name => rows'[i].to = Len(files'[rows'[i].name])
        <4>1. EndsFile(i) => Flushed[rows[i].name] = files[rows[i].name]
          BY ONLY <1>8, <3>1
        <4> QED  BY <3>2, <3>3, <3>5, <4>1 DEF EndsFile
      <3>8. rows'[i + 1].name = rows'[i].name => rows'[i].to = From1(i + 1)
        <4> SUFFICES ASSUME rows[i + 1].name = rows[i].name PROVE rows[i].to = rows'[i + 1].from
          BY <3>1, <3>3
        <4>1. rows[i].to = From(i + 1)
          BY <3>2 DEF EndsFile
        <4>2. CASE i + 1 # N
          BY <1>6, <3>1, <4>1, <4>2 DEF From, N
        <4>3. CASE i + 1 = N
          <5>1. rows[i].to = lastCutByte /\ rows'[i + 1].from = from
            BY <1>6, <4>1, <4>3 DEF From, N
          <5>2. Len(Header) <= rows[i].to /\ rows[i].to \in Nat
            <6>1. WholeIn(Flushed, rows[i])
              BY ONLY <1>8, <3>1
            <6> QED  BY <6>1 DEF WholeIn
          <5> QED  BY ONLY <1>1, <1>7, <1>21, <5>1, <5>2
        <4> QED  BY <4>2, <4>3
      <3> QED  BY <3>4, <3>5, <3>6, <3>7, <3>8
    <2> QED  BY <2>1, <2>2
  <1>13. rows'[N + 1] = row /\ rows'[1].name = 1
    <2>1. 1 \in 1..N
      BY <1>2
    <2> QED  BY <1>4, <1>5, <1>6, <2>1
  <1>14. (N + 1 = 1 \/ rows'[(N + 1) - 1].name # rows'[N + 1].name) => lastCutByte' = 0
    <2>1. N + 1 # 1 /\ (N + 1) - 1 = N /\ rows'[N].name = L
      BY <1>2, <1>5, <1>6
    <2> QED  BY ONLY <1>13, <1>21, <2>1
  <1>15. (N + 1) - 1 = N /\ N + 1 # 1
    BY <1>2
  <1>16. ASSUME NEW i \in 1..N PROVE From(i)' = From1(i) /\ From(i + 1)' = From1(i + 1)
    BY <1>4 DEF From
  <1> HIDE DEF From1
  <1>17. ASSUME NEW i \in 1..(Len(rows') - 1)
         PROVE  /\ Follows(rows'[i], rows'[i + 1]) /\ WholeIn(files', rows'[i])
                /\ BeginsFile(i)' => rows'[i].from \in {0, InitLen}
                /\ rows'[i].to = IF EndsFile(i)' THEN Len(files'[rows'[i].name]) ELSE From(i + 1)'
    <2>1. i \in 1..N
      BY <1>4, <1>15
    <2> QED  BY <1>12, <1>16, <2>1 DEF BeginsFile, EndsFile
  <1>18. BeginsFile(Len(rows))' => lastCutByte' = 0
    <2>1. Len(rows') = N + 1
      BY <1>4
    <2>2. BeginsFile(Len(rows))' <=> (N + 1 = 1 \/ rows'[(N + 1) - 1].name # rows'[N + 1].name)
      BY ONLY <2>1 DEF BeginsFile
    <2> QED  BY ONLY <1>14, <2>2
  <1>19. Len(rows') # 1
    BY <1>4, <1>15
  <1>20. RowsInv'
    BY <1>4, <1>13, <1>17, <1>18, <1>19, <1>21 DEF RowsInv, Whole, WholeIn, Follows
  <1> QED  BY <1>4, <1>20

LEMMA RowIs ==
  ASSUME NEW name \in Nat, NEW start \in Nat
  PROVE  /\ Row(name, start) \in AnyRow /\ Row(name, start).name = name
         /\ Row(name, start).start = start /\ Row(name, start).end = None
  BY DEF Row, AnyRow, None

\* A packet at hand is shown at its time or one later.
LEMMA HandIs ==
  ASSUME Core, place \in {"cut", "mux"}
  PROVE  /\ hand \in AnyPacket /\ Known(hand) /\ hand.at \in Nat /\ hand.pts \in Nat
         /\ hand.at <= hand.pts /\ hand.pts <= hand.at + 1
         /\ Time(hand.pts) \in Nat
  <1>1. hand \in AnyPacket /\ Known(hand)
    BY DEF Core, WriterInv, WriterTyped, HandInv
  <1>2. hand.at \in Nat /\ hand.pts \in Nat /\ hand.pts \in hand.at..(hand.at + 1)
    BY <1>1 DEF AnyPacket, Known, KnownTo
  <1>3. connectTime \in Nat
    BY DEF Core, ReaderInv, CameraTyped
  <1> QED  BY <1>1, <1>2, <1>3 DEF Time

LEMMA FragLayer ==
  ASSUME Core, FilesLayer, Frag
  PROVE  FilesLayer' /\ \E from, end \in Nat, row \in AnyRow : AddsRow(from, end, row)
  <1> DEFINE from == IF lastCutByte = 0 THEN InitLen ELSE lastCutByte
             end == Time(hand.pts)
             row == Row(Len(files), end)
  <1>1. /\ place = "cut" /\ place' = "mux" /\ SameFile /\ files' = Flushed
        /\ rows' = Append(Ended(from, end), row)
        /\ lastCutByte' = Size /\ lastCut' = hand.at /\ UNCHANGED <<lastCutFile, sent>>
    BY DEF Frag, notCut, notWrite, readVars, cameraVars
  <1>2. FilesTyped /\ pending \in Seq(AnyPacket) /\ lastCutByte \in Nat /\ lastCutFile \in Nat
    BY DEF FilesLayer, FilesTyped, Core, WriterInv, WriterTyped
  <1>3. /\ Flushed \in Seq(Seq(Nat)) /\ Len(Flushed) = Len(files) /\ Flushed # << >>
        /\ Flushed[Len(files)] = Written /\ Size = Len(Written) /\ Written \in Seq(Nat)
    BY <1>2, FlushedIs
  <1>4. Len(files) \in Nat \ {0} /\ DOMAIN Flushed = 1..Len(files) /\ Len(Written) \in Nat
    BY <1>2, <1>3, FilesAre, LenProperties
  <1>5. /\ hand.at \in Nat /\ hand.pts \in Nat /\ hand.at <= hand.pts /\ end \in Nat
    BY <1>1, HandIs
  <1>6. InitLen \in Nat \ {0} /\ Fragmented
    BY <1>1, Parameters DEF SameFile
  <1>7. row \in AnyRow /\ row.name = Len(files) /\ row.start = end /\ row.end = None
    BY <1>4, <1>5, RowIs
  <1>8. from \in Nat /\ (from = lastCutByte \/ (Fragmented /\ lastCutByte = 0 /\ from = InitLen))
    BY <1>2, <1>6
  <1> HIDE DEF from, end, row
  <1>9. AddsRow(from, end, row)
    <2>1. Len(files') = Len(files) /\ DOMAIN files' = 1..Len(files')
      BY <1>1, <1>3, <1>4
    <2> QED  BY <1>1, <1>4, <1>7, <1>8, <2>1 DEF AddsRow
  <1>10. rows' \in Seq(AnyRow) /\ rows' # << >> /\ RowsInv'
    BY <1>1, <1>5, <1>7, <1>8, <1>9, CutAddsRow
  <1>11. FilesTyped'
    BY <1>1, <1>2, <1>3, <1>4, <1>5, <1>10 DEF FilesTyped
  <1>12. FilesInv'
    <2>1. /\ \A f \in DOMAIN Flushed : \A k \in DOMAIN Flushed[f] : Flushed[f][k] <= sent
          /\ Len(Header) <= Len(Written) /\ \A k \in 1..Len(Header) : Written[k] = 0
      BY <1>1, FlushKeeps
    <2>2. Last(files') = Written
      BY <1>1, <1>3 DEF Last
    <2>3. lastCutByte' = Len(Written) /\ Len(Written) <= Len(Written)
      BY <1>1, <1>3, <1>4
    <2> QED  BY <1>1, <1>6, <2>1, <2>2, <2>3 DEF FilesInv, Header
  <1> QED  BY <1>5, <1>7, <1>8, <1>9, <1>10, <1>11, <1>12 DEF FilesLayer

LEMMA NewFileLayer ==
  ASSUME Core, FilesLayer, NewFile
  PROVE  /\ FilesLayer' /\ Last(files') = Header
         /\ \E from, end \in Nat, row \in AnyRow : AddsRow(from, end, row)
  <1> DEFINE from == lastCutByte
             end == Time(hand.pts)
             start == IF Seconds(hand) < 0 THEN end + 1 ELSE end
             row == Row(Len(files) + 1, start)
  <1>1. /\ place = "cut" /\ place' = "mux" /\ files' = Append(Flushed, Header)
        /\ rows' = Append(Ended(from, end), row)
        /\ lastCutByte' = 0 /\ lastCut' = hand.at /\ lastCutFile' = hand.at /\ UNCHANGED sent
    BY DEF NewFile, FirstByte, notCut, notWrite, readVars, cameraVars
  <1>2. FilesTyped /\ pending \in Seq(AnyPacket) /\ lastCutByte \in Nat /\ lastCut \in Nat /\ sent \in Nat
    BY DEF FilesLayer, FilesTyped, Core, WriterInv, WriterTyped, ReaderInv, CameraTyped
  <1>3. /\ Flushed \in Seq(Seq(Nat)) /\ Len(Flushed) = Len(files) /\ Flushed # << >>
        /\ Flushed[Len(files)] = Written /\ Size = Len(Written) /\ Written \in Seq(Nat)
    BY <1>2, FlushedIs
  <1>4. Len(files) \in Nat \ {0} /\ DOMAIN Flushed = 1..Len(files) /\ Len(Written) \in Nat
    BY <1>2, <1>3, FilesAre, LenProperties
  <1>5. /\ hand.at \in Nat /\ hand.pts \in Nat /\ hand.at <= hand.pts /\ hand.pts <= hand.at + 1
        /\ end \in Nat
    BY <1>1, HandIs
  <1>6. Header \in Seq(Nat) /\ Len(Header) \in Nat /\ \A k \in 1..Len(Header) : Header[k] = 0
    BY HeaderIs
  <1>7. start \in Nat
    BY <1>5
  <1>8. row \in AnyRow /\ row.name = Len(files) + 1 /\ row.start = start /\ row.end = None
    BY <1>4, <1>7, RowIs
  <1>9. /\ files' \in Seq(Seq(Nat)) /\ Len(files') = Len(files) + 1 /\ files' # << >>
        /\ DOMAIN files' = 1..(Len(files) + 1)
        /\ \A f \in 1..Len(files) : files'[f] = Flushed[f]
        /\ files'[Len(files) + 1] = Header /\ Last(files') = Header
    <2> DEFINE F == Flushed
               H == Header
               S == Seq(Nat)
    <2>1. F \in Seq(S) /\ H \in S
      BY <1>3, <1>6
    <2> HIDE DEF F, H, S
    <2>2. /\ Append(F, H) \in Seq(S) /\ Append(F, H) # << >> /\ Len(Append(F, H)) = Len(F) + 1
          /\ \A i \in 1..Len(F) : Append(F, H)[i] = F[i]
          /\ Append(F, H)[Len(F) + 1] = H
      BY <2>1, AppendProperties
    <2>3. DOMAIN Append(F, H) = 1..Len(Append(F, H))
      BY <2>2, LenProperties
    <2> QED  BY <1>1, <1>3, <2>2, <2>3 DEF F, H, S, Last
  <1>10. end = start \/ start = end + 1
    OBVIOUS
  <1> HIDE DEF end, row, start
  <1>11. AddsRow(from, end, row)
    <2>1. /\ Len(files') >= Len(files) /\ Len(files') \in Nat /\ Len(files) + 1 # Len(files)
      BY <1>4, <1>9
    <2>2. row.name = Len(files') /\ row.name \in {Len(files), Len(files) + 1} /\ row.name # Len(files)
      BY <1>8, <1>9, <2>1
    <2> QED  BY <1>1, <1>7, <1>8, <1>9, <1>10, <2>1, <2>2 DEF AddsRow
  <1>12. rows' \in Seq(AnyRow) /\ rows' # << >> /\ RowsInv'
    BY <1>1, <1>2, <1>5, <1>8, <1>11, CutAddsRow
  <1>13. FilesTyped'
    BY <1>1, <1>5, <1>9, <1>12 DEF FilesTyped
  <1>14. FilesInv'
    <2>1. \A f \in DOMAIN Flushed : \A k \in DOMAIN Flushed[f] : Flushed[f][k] <= sent
      BY <1>1, FlushKeeps
    <2>2. ASSUME NEW f \in DOMAIN files', NEW k \in DOMAIN files'[f] PROVE files'[f][k] <= sent
      <3>1. f \in 1..Len(files) \/ f = Len(files) + 1
        BY <1>4, <1>9
      <3>2. CASE f \in 1..Len(files)
        BY <1>4, <1>9, <2>1, <3>2
      <3>3. CASE f = Len(files) + 1
        <4>1. k \in 1..Len(Header) /\ files'[f] = Header
          BY <1>6, <1>9, <3>3, LenProperties
        <4> QED  BY <1>2, <1>6, <4>1
      <3> QED  BY <3>1, <3>2, <3>3
    <2>3. lastCutByte' = 0 /\ lastCutByte' <= Len(Header) /\ Len(Header) <= Len(Header)
      BY <1>1, <1>6
    <2>4. \A k \in 1..Len(Header) : Last(files')[k] = 0
      BY <1>6, <1>9
    <2>5. lastCutByte' <= Len(Last(files')) /\ Len(Header) <= Len(Last(files')) /\ ~(lastCutByte' > 0)
      BY <1>9, <2>3
    <2>6. sent' = sent
      BY <1>1
    <2> QED  BY <2>2, <2>3, <2>4, <2>5, <2>6 DEF FilesInv
  <1>15. from \in Nat
    BY <1>2
  <1> QED  BY <1>5, <1>8, <1>9, <1>11, <1>12, <1>13, <1>14, <1>15 DEF FilesLayer

LEMMA FinishLayer ==
  ASSUME Core, FilesLayer, Finish
  PROVE  FilesLayer'
  <1> DEFINE N == Len(rows)
             L == Len(files)
             end == Time(lastPts)
  <1>1. /\ place = "loop" /\ place' = "ended" /\ files' = Flushed /\ rows' = Ended(lastCutByte, end)
        /\ pending' = << >> /\ UNCHANGED <<lastCut, lastCutFile, lastCutByte, sent>>
    BY DEF Finish, Flush, notCut, notWrite, readVars, cameraVars
  <1>2. /\ FilesTyped /\ pending \in Seq(AnyPacket) /\ lastCutByte \in Nat /\ lastPts \in Nat
        /\ lastCut \in Nat /\ lastCutFile \in Nat
    BY DEF FilesLayer, FilesTyped, Core, WriterInv, WriterTyped
  <1>3. /\ Flushed \in Seq(Seq(Nat)) /\ Len(Flushed) = L /\ Flushed # << >>
        /\ Flushed[L] = Written /\ Size = Len(Written) /\ Written \in Seq(Nat)
    BY <1>2, FlushedIs
  <1>4. L \in Nat \ {0} /\ DOMAIN Flushed = 1..L /\ Len(Written) \in Nat
    BY <1>2, <1>3, FilesAre, LenProperties
  <1>5. end \in Nat
    <2>1. connectTime \in Nat
      BY DEF Core, ReaderInv, CameraTyped
    <2> QED  BY <1>2, <2>1 DEF Time
  <1>6. N \in Nat \ {0} /\ \A i \in 1..N : rows[i] \in AnyRow
    BY <1>2, RowsAre
  <1>7. /\ rows' \in Seq(AnyRow) /\ Len(rows') = N
        /\ \A i \in 1..N : i # N => rows'[i] = rows[i]
        /\ rows'[N].name = rows[N].name /\ rows'[N].start = rows[N].start
        /\ rows'[N].end = end /\ rows'[N].from = lastCutByte /\ rows'[N].to = Size
    <2>1. lastCutByte \in Int /\ end \in Int /\ Size \in Int
      BY <1>2, <1>3, <1>4, <1>5
    <2> QED  BY <1>1, <1>2, <2>1, EndedIs
  <1>8. /\ \A f \in DOMAIN Flushed : \A k \in DOMAIN Flushed[f] : Flushed[f][k] <= sent
        /\ Len(Header) <= Len(Written) /\ \A k \in 1..Len(Header) : Written[k] = 0
        /\ lastCutByte <= Len(Written)
        /\ \A i \in 1..(N - 1) :
             /\ WholeIn(Flushed, rows[i])
             /\ EndsFile(i) => Flushed[rows[i].name] = files[rows[i].name]
    BY <1>1, FlushKeeps
  <1>9. /\ rows[1].name = 1 /\ rows[N].name = L /\ (N = 1 => lastCut = 0)
        /\ BeginsFile(N) => lastCutByte = 0
        /\ \A i \in 1..(N - 1) :
             /\ Follows(rows[i], rows[i + 1])
             /\ BeginsFile(i) => rows[i].from \in {0, InitLen}
             /\ rows[i].to = IF EndsFile(i) THEN Len(files[rows[i].name]) ELSE From(i + 1)
    BY DEF FilesLayer, RowsInv
  <1>10. lastCutByte = 0 \/ (Len(Header) <= lastCutByte /\ Fragmented)
    BY <1>2 DEF FilesLayer, FilesInv
  <1> HIDE DEF N, L, end
  <1>11. FilesTyped'
    <2>1. rows' # << >>
      <3>1. Len(rows') # 0
        BY <1>6, <1>7
      <3> QED  BY <3>1, EmptySeq
    <2> QED  BY <1>1, <1>2, <1>3, <1>7, <2>1 DEF FilesTyped
  <1>12. FilesInv'
    <2>1. Last(files') = Written
      BY <1>1, <1>3 DEF Last, L
    <2> QED  BY <1>1, <1>2, <1>8, <1>10, <2>1 DEF FilesInv
  <1>13. RowsInv'
    <2>1. \A i \in 1..N : rows'[i].name = rows[i].name /\ rows'[i].start = rows[i].start
      BY <1>6, <1>7
    <2>2. ASSUME NEW i \in 1..(N - 1)
          PROVE  /\ Follows(rows'[i], rows'[i + 1]) /\ WholeIn(files', rows'[i])
                 /\ BeginsFile(i)' => rows'[i].from \in {0, InitLen}
                 /\ rows'[i].to = IF EndsFile(i)' THEN Len(files'[rows'[i].name]) ELSE From(i + 1)'
      <3>1. i \in 1..N /\ i # N /\ i + 1 \in 1..N /\ (i # 1 => i - 1 \in 1..N)
        BY <1>6
      <3>2. rows'[i] = rows[i] /\ rows'[i + 1].name = rows[i + 1].name /\ rows'[i + 1].start = rows[i + 1].start
        BY <1>7, <2>1, <3>1
      <3>3. Follows(rows'[i], rows'[i + 1])
        BY <1>9, <3>2 DEF Follows
      <3>4. (BeginsFile(i)' <=> BeginsFile(i)) /\ (EndsFile(i)' <=> EndsFile(i))
        BY <2>1, <3>1, <3>2 DEF BeginsFile, EndsFile
      <3>5. From(i + 1)' = From(i + 1)
        BY <1>1, <1>7, <3>1 DEF From, N
      <3> QED  BY <1>1, <1>8, <1>9, <3>2, <3>3, <3>4, <3>5
    <2>3. WholeIn(files', rows'[N])
      <3>1. rows'[N].name \in DOMAIN files'
        BY <1>1, <1>4, <1>7, <1>9
      <3>2. files'[rows'[N].name] = Written
        BY <1>1, <1>3, <1>7, <1>9
      <3> QED  BY <1>2, <1>3, <1>4, <1>5, <1>7, <1>8, <1>10, <3>1, <3>2 DEF WholeIn
    <2>4. rows'[1].name = 1 /\ rows'[N].name = L
      BY <1>6, <1>7, <1>9, <2>1
    <2>5. (N = 1 \/ rows'[N - 1].name # rows'[N].name) <=> BeginsFile(N)
      <3>1. N \in 1..N /\ (N # 1 => N - 1 \in 1..N)
        BY <1>6
      <3> QED  BY <2>1, <3>1 DEF BeginsFile
    <2>6. Len(files') = L /\ rows'[N].to = Len(files'[L])
      BY <1>1, <1>3, <1>7
    <2>7. BeginsFile(Len(rows))' <=> BeginsFile(N)
      BY <1>7, <2>5 DEF BeginsFile
    <2> QED  BY <1>1, <1>7, <1>9, <2>2, <2>3, <2>4, <2>5, <2>6, <2>7 DEF RowsInv, Whole, WholeIn, Follows
  <1> QED  BY <1>11, <1>12, <1>13 DEF FilesLayer

\* Other steps leave files and rows as they are.
LEMMA OtherLayer ==
  ASSUME FilesLayer, Remembers, UNCHANGED <<files, rows, lastCut, lastCutFile, lastCutByte>>,
         place = "ended" => pending' = pending, place' = "ended" <=> place = "ended"
  PROVE  FilesLayer'
  <1>1. FilesTyped /\ FilesInv /\ RowsInv
    BY DEF FilesLayer
  <1>2. FilesTyped'
    BY <1>1 DEF FilesTyped
  <1>3. FilesInv'
    <2>1. ASSUME NEW f \in DOMAIN files, NEW k \in DOMAIN files[f] PROVE files[f][k] <= sent'
      <3>1. files[f][k] \in Nat /\ files[f][k] <= sent
        BY <1>1, FilesAre DEF FilesInv
      <3> QED  BY <3>1 DEF Remembers
    <2> QED  BY <1>1, <2>1 DEF FilesInv
  <1>4. RowsInv'
    BY <1>1 DEF RowsInv, Whole, WholeIn, Follows, BeginsFile, EndsFile, From
  <1> QED  BY <1>2, <1>3, <1>4 DEF FilesLayer

LEMMA LayerInit ==
  ASSUME Init
  PROVE  FilesLayer
  <1>1. /\ Header \in Seq(Nat) /\ Len(Header) \in Nat /\ \A k \in 1..Len(Header) : Header[k] = 0
        /\ DOMAIN Header = 1..Len(Header)
    BY HeaderIs, LenProperties
  <1>2. /\ files = <<Header>> /\ rows = <<Row(1, Time(0))>> /\ sent = 0 /\ place = "charge"
        /\ lastCut = 0 /\ lastCutFile = 0 /\ lastCutByte = 0 /\ connectTime = ConnectTime
    BY DEF Init
  <1>8. Time(0) \in Nat
    BY <1>2, Parameters DEF Time
  <1>3. /\ Row(1, Time(0)) \in AnyRow /\ Row(1, Time(0)).name = 1
        /\ Row(1, Time(0)).start = Time(0) /\ Row(1, Time(0)).end = None
    BY <1>8, RowIs
  <1> DEFINE H == Header
             r == Row(1, Time(0))
  <1> HIDE DEF H, r
  <1>4. /\ <<H>> \in Seq(Seq(Nat)) /\ <<H>> # << >> /\ Len(<<H>>) = 1 /\ <<H>>[1] = H /\ DOMAIN <<H>> = {1}
        /\ <<r>> \in Seq(AnyRow) /\ <<r>> # << >> /\ Len(<<r>>) = 1 /\ <<r>>[1] = r
    BY <1>1, <1>3 DEF H, r
  <1>5. FilesTyped
    BY <1>2, <1>4 DEF FilesTyped, H, r
  <1>6. FilesInv
    <2>1. Last(files) = H /\ DOMAIN files = {1} /\ files[1] = H
      BY <1>2, <1>4 DEF Last, H
    <2>2. Len(H) \in Nat /\ 0 <= Len(H) /\ Len(H) <= Len(H)
      BY <1>1 DEF H
    <2>3. \A k \in 1..Len(H) : H[k] = 0 /\ H[k] <= 0
      BY <1>1 DEF H
    <2>4. DOMAIN H = 1..Len(H) /\ H = Header
      BY <1>1 DEF H
    <2> QED  BY <1>2, <2>1, <2>2, <2>3, <2>4 DEF FilesInv
  <1>7. RowsInv
    <2>1. Len(rows) = 1 /\ rows[1] = r /\ r.name = 1 /\ r.end = None /\ Len(files) = 1
      BY <1>2, <1>3, <1>4 DEF H, r
    <2> QED  BY <1>2, <2>1 DEF RowsInv
  <1> QED  BY <1>5, <1>6, <1>7 DEF FilesLayer

LEMMA LayerStep ==
  ASSUME Core, FilesLayer, [Next]_vars
  PROVE  FilesLayer'
  <1>1. Remembers
    BY CoreStep
  <1>2. CASE Charge \/ GetNextPacket
    <2>1. /\ UNCHANGED writerVars /\ place # "ended" /\ place' # "ended"
      BY <1>2 DEF Charge, GetNextPacket
    <2> QED  BY <1>1, <2>1, OtherLayer DEF writerVars, fileVars, cutVars
  <1>3. CASE Connected
    BY <1>1, <1>3, OtherLayer DEF Connected, writerVars, fileVars, cutVars
  <1>4. CASE HandlePacket
    <2>1. place # "ended" /\ place' # "ended" /\ UNCHANGED fileVars
      BY <1>4 DEF HandlePacket, Write
    <2> QED  BY <1>1, <2>1, OtherLayer DEF fileVars, cutVars
  <1>5. CASE Emit
    <2>1. place # "ended" /\ place' # "ended" /\ UNCHANGED fileVars
      BY <1>5 DEF Emit
    <2> QED  BY <1>1, <2>1, OtherLayer DEF fileVars, cutVars
  <1>6. CASE Mux
    <2>1. place # "ended" /\ place' # "ended" /\ UNCHANGED <<files, cutVars>>
      BY <1>6 DEF Mux
    <2> QED  BY <1>1, <2>1, OtherLayer DEF cutVars
  <1>7. CASE UNCHANGED vars
    BY <1>1, <1>7, OtherLayer DEF vars, writerVars, fileVars, cutVars
  <1> QED  BY <1>2, <1>3, <1>4, <1>5, <1>6, <1>7, FragLayer, NewFileLayer, FinishLayer DEF Next

\* The rows that are closed follow each other and cover their files, whatever cut_video() does.
THEOREM RowsInvariant == Spec => [](Core /\ FilesLayer)
  <1>1. Core /\ FilesLayer /\ [Next]_vars => (Core /\ FilesLayer)'
    BY CoreStep, LayerStep
  <1> QED  BY CoreInit, LayerInit, <1>1, PTL DEF Spec

\* A row that is closed.
LEMMA ClosedIs ==
  ASSUME FilesLayer, NEW i \in Closed
  PROVE  /\ i \in 1..Len(rows) /\ rows[i] \in AnyRow /\ Whole(rows[i])
         /\ i # Len(rows) => i \in 1..(Len(rows) - 1)
         /\ i = Len(rows) => place = "ended"
  <1>1. Len(rows) \in Nat \ {0} /\ DOMAIN rows = 1..Len(rows) /\ \A k \in 1..Len(rows) : rows[k] \in AnyRow
    BY RowsAre DEF FilesLayer
  <1>2. i \in 1..Len(rows) /\ rows[i].end # None
    BY <1>1 DEF Closed
  <1>6. rows[i] \in AnyRow
    BY ONLY <1>1, <1>2, Zenon
  <1>3. i # Len(rows) => i \in 1..(Len(rows) - 1)
    <2>1. Len(rows) \in Nat /\ i \in 1..Len(rows)
      BY <1>1, <1>2
    <2> QED  BY ONLY <2>1
  <1>4. i = Len(rows) => place = "ended"
    BY <1>2 DEF FilesLayer, RowsInv
  <1>5. Whole(rows[i])
    <2>1. CASE i = Len(rows)
      BY <1>4, <2>1 DEF FilesLayer, RowsInv
    <2>2. CASE i # Len(rows)
      BY <1>3, <2>2 DEF FilesLayer, RowsInv
    <2> QED  BY <2>1, <2>2
  <1> QED  BY ONLY <1>2, <1>3, <1>4, <1>5, <1>6, Zenon

\* The playlist shows segments without a discontinuity only when they were recorded one after
\* the other, wherever the clock of the recorder and the times of the camera go: a segment
\* begins when the one before it ends, or half a tick later.
THEOREM PlaylistMarksBreaks == Spec => []PlaylistFollows
  <1>1. FilesLayer => PlaylistFollows
    <2> DEFINE starts == [i \in DOMAIN rows |-> rows[i].start]
               N == Len(rows)
    <2> SUFFICES ASSUME FilesLayer, \A k, l \in DOMAIN rows : k # l => starts[k] - starts[l] \notin 0..1,
                        Last(rows).end \notin Range(starts),
                        NEW i \in Closed, NEW j \in Closed, ListedNext(i, j), ~CutBefore(rows[j], rows[i])
                 PROVE  j = i + 1
      BY DEF PlaylistFollows
    <2>1. N \in Nat \ {0} /\ DOMAIN rows = 1..N /\ \A k \in 1..N : rows[k] \in AnyRow
      BY RowsAre DEF FilesLayer
    <2>2. i \in 1..N /\ j \in 1..N /\ (i # N => i \in 1..(N - 1))
      BY ClosedIs
    <2>3. rows[j].start = rows[i].end
      BY DEF CutBefore
    <2>4. i # N
      <3>1. rows[j].start \in Range(starts)
        <4>1. j \in DOMAIN starts /\ starts[j] = rows[j].start
          <5>1. j \in DOMAIN rows
            BY ONLY <2>1, <2>2, Zenon
          <5> QED  BY ONLY <5>1
        <4> HIDE DEF starts
        <4> QED  BY <4>1 DEF Range
      <3> QED  BY <2>3, <3>1 DEF Last
    <2>5. Follows(rows[i], rows[i + 1]) /\ i + 1 \in 1..N
      <3>1. i \in 1..(N - 1)
        BY <2>2, <2>4
      <3> QED  BY <2>1, <3>1 DEF FilesLayer, RowsInv
    <2>6. rows[i + 1].start \in Nat /\ rows[j].start \in Nat
      <3>1. rows[i + 1] \in AnyRow /\ rows[j] \in AnyRow
        BY ONLY <2>1, <2>2, <2>5, Zenon
      <3> QED  BY ONLY <3>1 DEF AnyRow
    <2>7. rows[i + 1].start - rows[j].start \in 0..1
      <3>1. rows[i + 1].start = rows[i].end \/ rows[i + 1].start = rows[i].end + 1
        BY <2>5 DEF Follows
      <3> QED  BY ONLY <2>3, <2>6, <3>1
    <2>8. /\ starts[j] = rows[j].start /\ starts[i + 1] = rows[i + 1].start
          /\ j \in DOMAIN rows /\ i + 1 \in DOMAIN rows
      BY <2>1, <2>2, <2>5
    <2> HIDE DEF starts
    <2> QED  BY <2>7, <2>8
  <1> QED  BY RowsInvariant, <1>1, PTL

\* What is kept has its type.
THEOREM TypeCorrect == Spec => []TypeOK
  <1>1. ASSUME Core, FilesLayer PROVE TypeOK
    <2>1. CameraTyped /\ WriterTyped /\ FilesTyped /\ CameraInv /\ QueueInv /\ BufferInv /\ HandInv /\ PendingInv /\ FilesInv /\ RowsInv
      BY <1>1 DEF Core, ReaderInv, WriterInv, FilesLayer
    <2>2. ASSUME NEW p \in AnyPacket, Known(p) PROVE p \in Packets /\ (p.key => p.stream = "video") /\ p.id # 0
      BY <2>1, <2>2 DEF AnyPacket, Packets, Known, KnownTo, CameraInv, CameraTyped
    <2>3. ASSUME NEW q \in Seq(AnyPacket), \A i \in DOMAIN q : Known(q[i])
          PROVE  q \in Seq(Packets) /\ \A p \in Range(q) : p.key => p.stream = "video"
      <3>1. q \in [1..Len(q) -> AnyPacket] /\ Len(q) \in Nat /\ DOMAIN q = 1..Len(q)
        BY LenProperties
      <3>2. \A i \in 1..Len(q) : q[i] \in Packets /\ (q[i].key => q[i].stream = "video")
        BY <2>2, <2>3, <3>1
      <3>3. q \in [1..Len(q) -> Packets]
        BY <3>1, <3>2
      <3> QED  BY <3>1, <3>2, <3>3 DEF Range
    <2>4. queue \in Seq(Packets) /\ buffer \in Seq(Packets) /\ pending \in Seq(Packets)
          /\ \A p \in Range(buffer) \cup Range(pending) : p.key => p.stream = "video"
      BY <2>1, <2>3 DEF CameraTyped, WriterTyped, QueueInv, BufferInv, PendingInv
    <2>5. /\ hand \in Packets \cup {NoPacket} /\ (place \in {"cut", "mux"} <=> hand # NoPacket)
          /\ hand.dts >= -1 /\ (hand.key => hand.stream = "video")
      <3>1. CASE place \in {"cut", "mux"}
        <4>1. Known(hand) /\ hand \in AnyPacket /\ hand.dts >= -1
          BY <2>1, <3>1 DEF WriterTyped, HandInv
        <4>2. hand \in Packets /\ (hand.key => hand.stream = "video") /\ hand.id # 0
          BY <2>2, <4>1
        <4>3. hand # NoPacket
          BY <4>2 DEF NoPacket
        <4> QED  BY <3>1, <4>1, <4>2, <4>3
      <3>2. CASE place \notin {"cut", "mux"}
        <4>1. hand = NoPacket
          BY <2>1, <3>2 DEF HandInv
        <4> QED  BY <3>2, <4>1 DEF NoPacket
      <3> QED  BY <3>1, <3>2
    <2>6. \A p \in Range(buffer) \cup Range(pending) : p.dts >= -1
      <3>1. ASSUME NEW i \in DOMAIN buffer PROVE buffer[i].dts >= -1
        <4>1. buffer[i] \in AnyPacket /\ buffer[i].dts >= buffer[i].at
          BY <2>1, ElementOfSeq, LenProperties DEF WriterTyped, BufferInv
        <4>2. buffer[i].at \in Nat /\ buffer[i].dts \in Int
          BY <4>1 DEF AnyPacket
        <4> QED  BY <4>1, <4>2
      <3> QED  BY <2>1, <3>1 DEF PendingInv, Range
    <2>7. \A i, j \in DOMAIN buffer : i < j => buffer[i].dts <= buffer[j].dts
      BY <2>1 DEF BufferInv
    <2>8. files \in Seq(Seq(Bytes))
      <3>1. /\ Len(files) \in Nat /\ DOMAIN files = 1..Len(files)
            /\ \A f \in DOMAIN files :
                 /\ files[f] \in Seq(Nat) /\ Len(files[f]) \in Nat /\ DOMAIN files[f] = 1..Len(files[f])
                 /\ \A k \in 1..Len(files[f]) : files[f][k] \in Nat
        BY <2>1, FilesAre
      <3>2. ASSUME NEW f \in DOMAIN files PROVE files[f] \in Seq(Bytes)
        <4>1. \A k \in 1..Len(files[f]) : files[f][k] \in 0..sent
          BY <2>1, <3>1 DEF FilesInv, CameraTyped
        <4>2. files[f] \in [1..Len(files[f]) -> 0..sent]
          <5>1. files[f] \in [1..Len(files[f]) -> Nat]
            BY <3>1, LenProperties
          <5> QED  BY <4>1, <5>1
        <4>3. Len(files[f]) \in Nat
          BY <3>1
        <4> DEFINE B == 0..sent
                   s == files[f]
        <4> HIDE DEF B, s
        <4>4. s \in [1..Len(s) -> B] => s \in Seq(B)
          BY <4>3 DEF s
        <4> QED  BY <4>2, <4>4 DEF Bytes, B, s
      <3>3. files \in [1..Len(files) -> Seq(Bytes)]
        <4>1. files \in [1..Len(files) -> Seq(Nat)]
          BY <2>1, LenProperties DEF FilesTyped
        <4> QED  BY <3>1, <3>2, <4>1
      <3> QED  BY <3>1, <3>3
    <2>9. lastCutByte \in 0..Len(Last(files))
      BY <2>1, FilesAre DEF FilesTyped, FilesInv
    <2>10. rows # << >> /\ Last(rows).name = Len(files)
      BY <2>1 DEF FilesTyped, RowsInv, Last
    <2>11. ASSUME NEW i \in DOMAIN rows
           PROVE  /\ rows[i].name \in DOMAIN files /\ rows[i].start \in Nat
                  /\ rows[i].end # None => /\ rows[i].from \in Nat
                                           /\ rows[i].to \in rows[i].from..Len(files[rows[i].name])
      <3>1. Len(rows) \in Nat \ {0} /\ DOMAIN rows = 1..Len(rows) /\ rows[i] \in AnyRow
        BY <2>1, RowsAre
      <3>2. rows[i].start \in Nat
        BY <3>1 DEF AnyRow
      <3>3. CASE i \in Closed
        <4>1. WholeIn(files, rows[i])
          BY <1>1, <3>3, ClosedIs DEF Whole
        <4>2. rows[i].name \in DOMAIN files
          BY <4>1 DEF WholeIn
        <4>3. Len(files[rows[i].name]) \in Nat
          BY <2>1, <4>2, FilesAre
        <4> QED  BY <3>2, <4>1, <4>2, <4>3 DEF WholeIn
      <3>4. CASE i \notin Closed
        <4>1. rows[i].end = None
          BY <3>4 DEF Closed
        <4>2. rows[i].name \in DOMAIN files
          <5>1. CASE i = Len(rows)
            BY <2>1, <5>1, FilesAre DEF RowsInv
          <5>2. CASE i # Len(rows)
            <6>1. i \in 1..(Len(rows) - 1)
              BY <3>1, <5>2
            <6>2. Whole(rows[i])
              BY <2>1, <6>1, Zenon DEF RowsInv
            <6> QED  BY <6>2 DEF Whole, WholeIn
          <5> QED  BY <5>1, <5>2
        <4> QED  BY <3>2, <4>1, <4>2
      <3> QED  BY <3>3, <3>4
    <2>12. /\ place \in {"charge", "loop", "packet", "write", "cut", "mux", "ended"}
           /\ {eof, valid, failed, still} \subseteq BOOLEAN
           /\ {sent, lastPts, lastCut, lastCutFile, connectTime} \subseteq Nat
           /\ {last, track, muxed} \subseteq Times
      BY <2>1 DEF CameraTyped, WriterTyped, FilesTyped
    <2> QED  BY <2>4, <2>5, <2>6, <2>7, <2>8, <2>9, <2>10, <2>11, <2>12 DEF TypeOK
  <1> QED  BY RowsInvariant, <1>1, PTL

-----------------------------------------------------------------------------
(* Reading a segment *)

Alike(s, p, t, m, n) == \A k \in 1..n : s[p + k] = t[m + k]
Same(s, p, t, m, n) == SubSeq(s, p + 1, p + n) = SubSeq(t, m + 1, m + n)
LEMMA SamePart ==
  ASSUME NEW s, s \in Seq(Nat), NEW t, t \in Seq(Nat), NEW p, p \in Nat, NEW m, m \in Nat, NEW n, n \in Nat,
         p + n <= Len(s), m + n <= Len(t), Alike(s, p, t, m, n)
  PROVE  Same(s, p, t, m, n)
  <1> DEFINE u == SubSeq(s, p + 1, p + n)
             w == SubSeq(t, m + 1, m + n)
  <1>1. Len(s) \in Nat /\ Len(t) \in Nat /\ (\A k \in 1..Len(s) : s[k] \in Nat) /\ \A k \in 1..Len(t) : t[k] \in Nat
    BY LenProperties, ElementOfSeq
  <1>2. u \in Seq(Nat) /\ Len(u) = n /\ \A k \in 1..n : u[k] = s[p + k]
    <2>1. \A k \in (p + 1)..(p + n) : s[k] \in Nat
      BY <1>1
    <2> QED  BY <1>1, <2>1
  <1>3. w \in Seq(Nat) /\ Len(w) = n /\ \A k \in 1..n : w[k] = t[m + k]
    <2>1. \A k \in (m + 1)..(m + n) : t[k] \in Nat
      BY <1>1
    <2> QED  BY <1>1, <2>1
  <1> HIDE DEF u, w
  <1>4. u = w
    BY <1>2, <1>3, SeqEqual DEF Alike
  <1> QED  BY <1>4 DEF Same, u, w

\* A row whose bytes are there and do not cut the init segment.
GoodRow(row) ==
  /\ files[row.name] \in Seq(Nat) /\ row.from \in Nat /\ row.to \in Nat
  /\ row.from <= row.to /\ row.to <= Len(files[row.name])
  /\ InitLen <= row.to /\ (row.from = 0 \/ InitLen <= row.from)

\* The bytes of the view of a row, and what it is long.
LEMMA ViewIs ==
  ASSUME NEW row, GoodRow(row)
  PROVE  /\ View(row) \in Seq(Nat)
         /\ row.from = 0 => /\ Len(View(row)) = row.to
                            /\ \A k \in 1..row.to : View(row)[k] = files[row.name][k]
         /\ row.from # 0 =>
              /\ Len(View(row)) = InitLen + (row.to - row.from)
              /\ \A k \in 1..InitLen : View(row)[k] = files[row.name][k]
              /\ \A k \in 1..(row.to - row.from) : View(row)[InitLen + k] = files[row.name][row.from + k]
  <1> DEFINE F == files[row.name]
             a == row.from
             b == row.to
             m == InitLen
  <1>1. /\ F \in Seq(Nat) /\ a \in Nat /\ b \in Nat /\ m \in Nat \ {0} /\ a <= b /\ b <= Len(F) /\ m <= b
        /\ Len(F) \in Nat /\ (a = 0 \/ m <= a) /\ \A k \in 1..Len(F) : F[k] \in Nat
    BY Parameters, LenProperties, ElementOfSeq DEF GoodRow
  <1>2. View(row) = IF a = 0 THEN SubSeq(F, 1, b) ELSE SubSeq(F, 1, m) \o SubSeq(F, a + 1, b)
    BY DEF View
  <1> HIDE DEF F, a, b, m
  <1>3. CASE a = 0
    <2> DEFINE u == SubSeq(F, 1, b)
    <2>1. u \in Seq(Nat) /\ Len(u) = b /\ \A k \in 1..b : u[k] = F[k]
      <3>1. \A k \in 1..b : F[k] \in Nat
        BY <1>1
      <3> QED  BY <1>1, <3>1
    <2> HIDE DEF u
    <2>2. View(row) = u
      BY <1>2, <1>3 DEF u
    <2> QED  BY <1>3, <2>1, <2>2 DEF F, a, b, m
  <1>4. CASE a # 0
    <2> DEFINE u == SubSeq(F, 1, m)
               w == SubSeq(F, a + 1, b)
    <2>1. u \in Seq(Nat) /\ Len(u) = m /\ \A k \in 1..m : u[k] = F[k]
      <3>1. \A k \in 1..m : F[k] \in Nat
        BY <1>1
      <3> QED  BY <1>1, <3>1
    <2>2. w \in Seq(Nat) /\ Len(w) = b - a /\ \A k \in 1..(b - a) : w[k] = F[a + k]
      <3>1. \A k \in (a + 1)..b : F[k] \in Nat
        BY <1>1
      <3> QED  BY <1>1, <3>1
    <2> HIDE DEF u, w
    <2>3. /\ u \o w \in Seq(Nat) /\ Len(u \o w) = m + (b - a)
          /\ \A k \in 1..(m + (b - a)) : (u \o w)[k] = IF k <= m THEN u[k] ELSE w[k - m]
      <3>1. /\ u \o w \in Seq(Nat) /\ Len(u \o w) = Len(u) + Len(w)
            /\ \A k \in 1..(Len(u) + Len(w)) : (u \o w)[k] = IF k <= Len(u) THEN u[k] ELSE w[k - Len(u)]
        BY <2>1, <2>2, ConcatProperties
      <3> QED  BY <2>1, <2>2, <3>1
    <2>4. View(row) = u \o w
      BY <1>2, <1>4 DEF u, w
    <2>5. ASSUME NEW k \in 1..m PROVE (u \o w)[k] = F[k]
      <3>1. k \in 1..(m + (b - a)) /\ k <= m
        BY <1>1
      <3> QED  BY <2>1, <2>3, <3>1
    <2>6. ASSUME NEW k \in 1..(b - a) PROVE (u \o w)[m + k] = F[a + k]
      <3>1. m + k \in 1..(m + (b - a)) /\ ~(m + k <= m) /\ (m + k) - m = k
        BY <1>1
      <3> QED  BY <2>2, <2>3, <3>1
    <2> QED  BY <1>4, <2>3, <2>4, <2>5, <2>6 DEF F, a, b, m
  <1> QED  BY <1>3, <1>4 DEF a

\* A part of the view is a part of the file.
LEMMA ViewParts ==
  ASSUME NEW row, GoodRow(row)
  PROVE  /\ row.from = 0 => \A p \in 0..row.to : \A q \in p..row.to :
              SubSeq(View(row), p + 1, q) = SubSeq(files[row.name], p + 1, q)
         /\ row.from # 0 => \A p \in 0..InitLen : \A q \in p..InitLen :
              SubSeq(View(row), p + 1, q) = SubSeq(files[row.name], p + 1, q)
         /\ row.from # 0 => \A p \in row.from..row.to : \A q \in p..row.to :
              SubSeq(View(row), InitLen + (p - row.from) + 1, InitLen + (q - row.from))
              = SubSeq(files[row.name], p + 1, q)
  <1> DEFINE F == files[row.name]
             V == View(row)
             a == row.from
             b == row.to
             m == InitLen
  <1>1. /\ F \in Seq(Nat) /\ a \in Nat /\ b \in Nat /\ m \in Nat \ {0} /\ a <= b /\ b <= Len(F) /\ m <= b
        /\ Len(F) \in Nat
    BY Parameters, LenProperties DEF GoodRow
  <1>2. /\ V \in Seq(Nat)
        /\ a = 0 => Len(V) = b /\ \A k \in 1..b : V[k] = F[k]
        /\ a # 0 => /\ Len(V) = m + (b - a)
                    /\ \A k \in 1..m : V[k] = F[k]
                    /\ \A k \in 1..(b - a) : V[m + k] = F[a + k]
    BY ViewIs
  <1> HIDE DEF F, V, a, b, m
  <1>3. ASSUME NEW c \in Nat, c <= Len(V), c <= Len(F), \A k \in 1..c : V[k] = F[k],
               NEW p \in 0..c, NEW q \in p..c
        PROVE  SubSeq(V, p + 1, q) = SubSeq(F, p + 1, q)
    <2> DEFINE n == q - p
    <2>1. n \in Nat /\ p \in Nat /\ p + n = q
      BY <1>3
    <2>2. p + n <= Len(V) /\ p + n <= Len(F)
      BY <1>1, <1>2, <1>3, <2>1
    <2> HIDE DEF n
    <2>3. ASSUME NEW k \in 1..n PROVE V[p + k] = F[p + k]
      <3>1. p + k \in 1..c
        BY <1>3, <2>1
      <3> QED  BY <1>3, <3>1
    <2>4. Alike(V, p, F, p, n)
      BY ONLY <2>3 DEF Alike
    <2>5. Same(V, p, F, p, n)
      <3>1. V \in Seq(Nat) /\ F \in Seq(Nat)
        BY <1>1, <1>2
      <3> QED  BY ONLY <2>1, <2>2, <2>4, <3>1, SamePart, Zenon
    <2> QED  BY <2>1, <2>5 DEF Same
  <1>4. ASSUME a = 0, NEW p \in 0..b, NEW q \in p..b PROVE SubSeq(V, p + 1, q) = SubSeq(F, p + 1, q)
    BY <1>1, <1>2, <1>3, <1>4
  <1>5. ASSUME a # 0, NEW p \in 0..m, NEW q \in p..m PROVE SubSeq(V, p + 1, q) = SubSeq(F, p + 1, q)
    <2>1. m <= Len(V) /\ m <= Len(F)
      BY <1>1, <1>2, <1>5
    <2> QED  BY <1>1, <1>2, <1>3, <1>5, <2>1
  <1>6. ASSUME a # 0, NEW p \in a..b, NEW q \in p..b
        PROVE  SubSeq(V, m + (p - a) + 1, m + (q - a)) = SubSeq(F, p + 1, q)
    <2> DEFINE n == q - p
               x == m + (p - a)
    <2>1. n \in Nat /\ p \in Nat /\ p + n = q /\ x \in Nat /\ x + n = m + (q - a)
      BY <1>1
    <2>2. x + n <= Len(V) /\ p + n <= Len(F)
      BY <1>1, <1>2, <1>6, <2>1
    <2>3. ASSUME NEW k \in 1..n PROVE V[x + k] = F[p + k]
      <3>1. (p - a) + k \in 1..(b - a) /\ m + ((p - a) + k) = x + k /\ a + ((p - a) + k) = p + k
        BY <1>1
      <3> QED  BY <1>2, <1>6, <3>1
    <2> HIDE DEF n, x
    <2>4. Alike(V, x, F, p, n)
      BY ONLY <2>3 DEF Alike
    <2>5. Same(V, x, F, p, n)
      <3>1. V \in Seq(Nat) /\ F \in Seq(Nat)
        BY <1>1, <1>2
      <3> QED  BY ONLY <2>1, <2>2, <2>4, <3>1, SamePart, Zenon
    <2> QED  BY <2>1, <2>5 DEF x, Same
  <1> QED  BY <1>4, <1>5, <1>6 DEF F, V, a, b, m

\* One read.
LEMMA ReadHolds ==
  ASSUME NEW row, GoodRow(row), NEW pos \in Reachable(row), NEW n \in 1..(row.to + 1)
  PROVE  LET r == Read(row, pos, n)
             v == InView(row, pos)
             w == InView(row, r.pos)
         IN /\ r.pos \in Reachable(row) /\ r.bytes = SubSeq(View(row), v + 1, w)
            /\ w \in v..(v + n) /\ (w = v => v = Len(View(row)))
  <1> DEFINE F == files[row.name]
             V == View(row)
             a == row.from
             b == row.to
             m == InitLen
             at == IF pos < m \/ pos > a THEN pos ELSE a
             end == IF pos < m THEN m ELSE b
             to == IF at + n < end THEN at + n ELSE end
             r == Read(row, pos, n)
             v == InView(row, pos)
             w == InView(row, r.pos)
  <1>1. /\ F \in Seq(Nat) /\ a \in Nat /\ b \in Nat /\ m \in Nat \ {0} /\ a <= b /\ b <= Len(F) /\ m <= b
        /\ (a = 0 \/ m <= a)
    BY Parameters DEF GoodRow
  <1>2. pos \in 0..m \cup a..b /\ n \in 1..(b + 1) /\ Reachable(row) = 0..m \cup a..b
    BY DEF Reachable
  <1>3. /\ pos >= b => r = [bytes |-> << >>, pos |-> pos]
        /\ ~(pos >= b) => r = [bytes |-> SubSeq(F, at + 1, to), pos |-> to]
    BY DEF Read
  <1> DEFINE IV(x) == IF a = 0 \/ x < m THEN x ELSE IF x <= a THEN m ELSE x - (a - m)
  <1>4. v = IV(pos) /\ w = IV(r.pos)
    BY DEF InView, Skipped
  <1>5. V \in Seq(Nat) /\ (a = 0 => Len(V) = b) /\ (a # 0 => Len(V) = m + (b - a))
    BY ViewIs
  <1>6. /\ a = 0 => \A p \in 0..b : \A q \in p..b : SubSeq(V, p + 1, q) = SubSeq(F, p + 1, q)
        /\ a # 0 => \A p \in 0..m : \A q \in p..m : SubSeq(V, p + 1, q) = SubSeq(F, p + 1, q)
        /\ a # 0 => \A p \in a..b : \A q \in p..b :
             SubSeq(V, m + (p - a) + 1, m + (q - a)) = SubSeq(F, p + 1, q)
    BY ViewParts
  <1> HIDE DEF F, V, a, b, m, r, v, w
  <1>7. pos \in Int /\ n \in Int
    BY <1>1, <1>2
  <1>8. CASE pos >= b
    <2>1. r.pos = pos /\ r.bytes = << >> /\ w = v
      BY <1>3, <1>4, <1>8
    <2>2. v \in Int /\ v = Len(V)
      <3>1. pos = b
        BY ONLY <1>1, <1>2, <1>7, <1>8
      <3>2. IV(pos) \in Int /\ IV(pos) = IF a = 0 THEN b ELSE m + (b - a)
        BY ONLY <1>1, <3>1
      <3> QED  BY <1>4, <1>5, <3>2
    <2>3. SubSeq(V, v + 1, v) = << >>
      BY <1>5, <2>2, SubSeqEmpty
    <2>4. v \in v..(v + n)
      BY <1>2, <1>1, <2>2
    <2> QED  BY <1>2, <2>1, <2>2, <2>3, <2>4 DEF r, v, w, V
  <1>9. CASE ~(pos >= b)
    <2>1. r.pos = to /\ r.bytes = SubSeq(F, at + 1, to)
      BY <1>3, <1>9
    <2>2. CASE a = 0
      <3>1. at = pos /\ to \in Int /\ pos < to /\ to <= b /\ to <= pos + n
        BY ONLY <1>1, <1>2, <1>7, <1>9, <2>2
      <3>2. v = pos /\ w = to
        BY <1>4, <2>1, <2>2
      <3> HIDE DEF at, to
      <3>3. pos \in 0..b /\ to \in pos..b
        BY ONLY <1>1, <1>2, <1>7, <1>9, <2>2, <3>1
      <3>4. SubSeq(V, pos + 1, to) = SubSeq(F, pos + 1, to)
        BY <1>6, <2>2, <3>3
      <3>5. to \in Reachable(row) /\ to \in pos..(pos + n) /\ to # pos
        BY ONLY <1>1, <1>2, <1>7, <2>2, <3>1, <3>3
      <3> QED  BY <2>1, <3>1, <3>2, <3>4, <3>5 DEF r, v, w, V
    <2>3. CASE a # 0 /\ pos < m
      <3>1. at = pos /\ to \in Int /\ pos < to /\ to <= m /\ to <= pos + n /\ pos \in 0..m
        BY ONLY <1>1, <1>2, <1>7, <2>3
      <3>2. v = pos
        BY <1>4, <2>3
      <3>3. w = to
        <4>1. IV(to) = to
          BY ONLY <1>1, <2>3, <3>1
        <4> QED  BY <1>4, <2>1, <4>1
      <3> HIDE DEF at, to
      <3>4. to \in pos..m
        BY ONLY <1>1, <1>7, <3>1
      <3>5. SubSeq(V, pos + 1, to) = SubSeq(F, pos + 1, to)
        BY <1>6, <2>3, <3>1, <3>4
      <3>6. to \in Reachable(row) /\ to \in pos..(pos + n) /\ to # pos
        BY ONLY <1>1, <1>2, <1>7, <3>1, <3>4
      <3> QED  BY <2>1, <3>1, <3>2, <3>3, <3>5, <3>6 DEF r, v, w, V
    <2>4. CASE a # 0 /\ ~(pos < m)
      <3>1. at \in a..b /\ to \in at..b /\ to <= at + n /\ (at = b \/ at < to)
        BY ONLY <1>1, <1>2, <1>7, <1>9, <2>4
      <3>2. v = m + (at - a)
        <4>1. IV(pos) = m + (at - a)
          BY ONLY <1>1, <1>2, <1>7, <2>4
        <4> QED  BY <1>4, <4>1
      <3> HIDE DEF at, to
      <3>3. at \in Int /\ to \in Int /\ at <= to /\ a <= at /\ to <= b
        BY ONLY <1>1, <3>1
      <3>4. w = m + (to - a)
        <4>1. IV(to) = m + (to - a)
          BY ONLY <1>1, <2>4, <3>3
        <4> QED  BY <1>4, <2>1, <4>1
      <3>5. SubSeq(V, m + (at - a) + 1, m + (to - a)) = SubSeq(F, at + 1, to)
        BY <1>6, <2>4, <3>1
      <3>6. to \in Reachable(row)
        BY ONLY <1>1, <1>2, <3>3
      <3>7. w \in v..(v + n)
        BY ONLY <1>1, <1>7, <3>1, <3>2, <3>3, <3>4
      <3>8. w = v => v = Len(V)
        <4>1. w = v => at = b
          BY ONLY <1>1, <3>1, <3>2, <3>3, <3>4
        <4> QED  BY <1>5, <2>4, <3>2, <4>1
      <3> QED  BY <2>1, <3>2, <3>4, <3>5, <3>6, <3>7, <3>8 DEF r, v, w, V
    <2> QED  BY <2>2, <2>3, <2>4
  <1> QED  BY <1>8, <1>9

\* One seek.
SeekPos(a, m, v) == IF v >= m THEN v + (a - m) ELSE v
LEMMA SeekHolds ==
  ASSUME NEW row, GoodRow(row), row.from > 0, NEW v \in 0..(Len(View(row)) - 1),
         NEW to \in {SeekSet(row, v), SeekEnd(row, v - Len(View(row)))}
  PROVE  to.result = v /\ to.pos \in Reachable(row) /\ InView(row, to.pos) = v
  <1> DEFINE a == row.from
             b == row.to
             m == InitLen
             pos == SeekPos(a, m, v)
  <1>1. a \in Nat /\ b \in Nat /\ m \in Nat \ {0} /\ a <= b /\ m <= a /\ a # 0
    <2>1. a \in Nat /\ b \in Nat /\ a <= b /\ (a = 0 \/ m <= a) /\ a > 0
      BY DEF GoodRow
    <2> QED  BY <2>1, Parameters
  <1>2. Len(View(row)) = m + (b - a)
    BY <1>1, ViewIs
  <1>3. v \in Nat /\ v < m + (b - a)
    BY <1>1, <1>2
  <1> HIDE DEF a, b, m
  <1>4. /\ pos \in 0..m \cup a..b
        /\ (IF pos > m THEN pos - (a - m) ELSE pos) = v
        /\ (IF a = 0 \/ pos < m THEN pos ELSE IF pos <= a THEN m ELSE pos - (a - m)) = v
        /\ b + (v - (m + (b - a))) - (a - m) = v
        /\ (IF b + (v - (m + (b - a))) >= a THEN b + (v - (m + (b - a)))
            ELSE b + (v - (m + (b - a))) - (a - m)) = pos
    BY ONLY <1>1, <1>3 DEF SeekPos
  <1> HIDE DEF pos
  <1>5. SeekSet(row, v) = [pos |-> pos, result |-> v]
    <2>1. SeekSet(row, v) = [pos |-> pos, result |-> IF pos > m THEN pos - (a - m) ELSE pos]
      BY DEF SeekSet, SeekPos, Skipped, pos, a, m
    <2> QED  BY <1>4, <2>1
  <1>6. SeekEnd(row, v - Len(View(row))) = [pos |-> pos, result |-> v]
    <2> DEFINE target == b + (v - (m + (b - a)))
    <2>1. SeekEnd(row, v - Len(View(row)))
          = [pos |-> IF target >= a THEN target ELSE target - (a - m), result |-> target - (a - m)]
      BY <1>2 DEF SeekEnd, Skipped, a, b, m
    <2>2. target - (a - m) = v /\ (IF target >= a THEN target ELSE target - (a - m)) = pos
      BY ONLY <1>1, <1>3, <1>4
    <2> HIDE DEF target
    <2> QED  BY ONLY <2>1, <2>2
  <1>7. to.pos = pos /\ to.result = v
    BY <1>5, <1>6
  <1> QED  BY <1>4, <1>7 DEF Reachable, InView, Skipped, a, b, m

\* A segment that is read from its file is what was written between its bytes, after the init
\* segment, wherever one seeks.
THEOREM SegmentsAreViews == Spec => []ViewIsSegment
  <1>1. ASSUME FilesLayer, Fragmented, NEW i \in Closed PROVE GoodRow(rows[i])
    <2>1. Whole(rows[i])
      BY <1>1, ClosedIs
    <2>2. files[rows[i].name] \in Seq(Nat)
      BY <1>1, <2>1, FilesAre DEF FilesLayer, Whole, WholeIn
    <2> QED  BY <1>1, <2>1, <2>2, HeaderIs DEF GoodRow, Whole, WholeIn
  <1>2. FilesLayer => ViewIsSegment
    BY <1>1, ReadHolds, SeekHolds DEF ViewIsSegment
  <1> QED  BY RowsInvariant, <1>2, PTL

-----------------------------------------------------------------------------
(* Every packet in one place *)

LEMMA IdsEmpty == IdsOf(<< >>) = {} /\ OneEach(<< >>)
  <1>1. DOMAIN << >> = {}
    BY EmptySeq
  <1> QED  BY <1>1 DEF IdsOf, OneEach

LEMMA IdsAppend ==
  ASSUME NEW q \in Seq(AnyPacket), NEW p \in AnyPacket, OneEach(q), p.id \notin IdsOf(q)
  PROVE  IdsOf(Append(q, p)) = IdsOf(q) \cup {p.id} /\ OneEach(Append(q, p))
  <1> DEFINE u == Append(q, p)
  <1>1. /\ u \in Seq(AnyPacket) /\ Len(u) = Len(q) + 1 /\ Len(q) \in Nat
        /\ \A i \in 1..Len(q) : u[i] = q[i]
        /\ u[Len(q) + 1] = p
    BY AppendProperties, LenProperties
  <1> HIDE DEF u
  <1>2. DOMAIN q = 1..Len(q) /\ DOMAIN u = 1..(Len(q) + 1)
    BY <1>1, LenProperties
  <1>3. ASSUME NEW i \in DOMAIN u PROVE (i \in DOMAIN q /\ u[i] = q[i]) \/ (i = Len(q) + 1 /\ u[i] = p)
    BY <1>1, <1>2
  <1>4. ASSUME NEW i \in DOMAIN q PROVE i \in DOMAIN u /\ u[i] = q[i]
    BY <1>1, <1>2
  <1>5. Len(q) + 1 \in DOMAIN u /\ u[Len(q) + 1] = p
    BY <1>1, <1>2
  <1>6. IdsOf(u) = IdsOf(q) \cup {p.id}
    BY <1>3, <1>4, <1>5 DEF IdsOf
  <1>7. \A i \in DOMAIN q : q[i].id \in IdsOf(q)
    BY DEF IdsOf
  <1>8. OneEach(u)
    BY <1>3, <1>7 DEF OneEach
  <1> QED  BY <1>6, <1>8 DEF u

LEMMA IdsInsert ==
  ASSUME NEW q \in Seq(AnyPacket), NEW p \in AnyPacket, NEW I \in SUBSET DOMAIN q,
         OneEach(q), p.id \notin IdsOf(q)
  PROVE  IdsOf(Insert(q, p, I)) = IdsOf(q) \cup {p.id} /\ OneEach(Insert(q, p, I))
  <1> DEFINE u == Insert(q, p, I)
  <1>1. /\ DOMAIN u = 1..(Len(q) + 1) /\ Len(q) \in Nat /\ DOMAIN q = 1..Len(q)
        /\ \A j \in DOMAIN u : u[j] = p \/ \E a \in DOMAIN q : u[j] = q[a]
        /\ \E j \in DOMAIN u : u[j] = p
        /\ \A a \in DOMAIN q : \E j \in DOMAIN u : u[j] = q[a]
    BY InsertElements, LenProperties
  <1>2. ASSUME NEW j \in 1..(Len(q) + 1), NEW k \in 1..(Len(q) + 1), j < k
        PROVE  \/ \E a, b \in DOMAIN q : a < b /\ u[j] = q[a] /\ u[k] = q[b]
               \/ \E a \in DOMAIN q : u[j] = q[a] /\ u[k] = p
               \/ \E b \in DOMAIN q : u[j] = p /\ u[k] = q[b]
    BY <1>2, InsertPairs
  <1> HIDE DEF u
  <1>3. IdsOf(u) = IdsOf(q) \cup {p.id}
    BY <1>1 DEF IdsOf
  <1>4. \A i \in DOMAIN q : q[i].id \in IdsOf(q)
    BY DEF IdsOf
  <1>5. ASSUME NEW j \in 1..(Len(q) + 1), NEW k \in 1..(Len(q) + 1), j < k PROVE u[j].id # u[k].id
    <2>1. \A a, b \in DOMAIN q : a < b => q[a].id # q[b].id
      BY <1>1 DEF OneEach
    <2> QED  BY <1>2, <1>4, <1>5, <2>1
  <1>6. OneEach(u)
    <2> SUFFICES ASSUME NEW i \in DOMAIN u, NEW j \in DOMAIN u, u[i].id = u[j].id PROVE i = j
      BY DEF OneEach
    <2>1. i \in 1..(Len(q) + 1) /\ j \in 1..(Len(q) + 1)
      BY <1>1
    <2>2. i < j \/ j < i \/ i = j
      BY <1>1, <2>1
    <2> QED  BY <1>5, <2>1, <2>2
  <1> QED  BY <1>3, <1>6 DEF u

LEMMA IdsTail ==
  ASSUME NEW q \in Seq(AnyPacket), q # << >>, OneEach(q)
  PROVE  IdsOf(Tail(q)) = IdsOf(q) \ {q[1].id} /\ q[1].id \in IdsOf(q) /\ OneEach(Tail(q))
  <1> DEFINE u == Tail(q)
  <1>1. /\ u \in Seq(AnyPacket) /\ Len(q) \in Nat \ {0} /\ Len(u) = Len(q) - 1 /\ DOMAIN q = 1..Len(q)
        /\ \A i \in 1..Len(u) : u[i] = q[i + 1]
    BY HeadTailProperties, EmptySeq, LenProperties
  <1> HIDE DEF u
  <1>2. DOMAIN u = 1..(Len(q) - 1)
    BY <1>1, LenProperties
  <1>3. ASSUME NEW i \in DOMAIN u PROVE i \in Int /\ i + 1 \in DOMAIN q /\ i + 1 # 1 /\ u[i] = q[i + 1]
    BY <1>1, <1>2
  <1>4. ASSUME NEW i \in DOMAIN q, i # 1 PROVE i - 1 \in DOMAIN u /\ u[i - 1] = q[i]
    <2>1. i - 1 \in 1..(Len(q) - 1) /\ (i - 1) + 1 = i
      BY <1>1, <1>4
    <2> QED  BY <1>1, <1>2, <2>1
  <1>5. 1 \in DOMAIN q
    BY <1>1
  <1>6. IdsOf(u) \subseteq IdsOf(q) \ {q[1].id}
    <2> SUFFICES ASSUME NEW i \in DOMAIN u PROVE u[i].id \in IdsOf(q) /\ u[i].id # q[1].id
      BY DEF IdsOf
    <2> QED  BY <1>3, <1>5 DEF IdsOf, OneEach
  <1>7. IdsOf(q) \ {q[1].id} \subseteq IdsOf(u)
    <2> SUFFICES ASSUME NEW i \in DOMAIN q, q[i].id # q[1].id PROVE q[i].id \in IdsOf(u)
      BY DEF IdsOf
    <2>1. i - 1 \in DOMAIN u /\ u[i - 1] = q[i]
      BY <1>4
    <2> QED  BY <2>1 DEF IdsOf
  <1>8. q[1].id \in IdsOf(q)
    BY <1>5 DEF IdsOf
  <1>9. OneEach(u)
    <2> SUFFICES ASSUME NEW i \in DOMAIN u, NEW j \in DOMAIN u, u[i].id = u[j].id PROVE i = j
      BY DEF OneEach
    <2>1. i \in Int /\ j \in Int /\ i + 1 = j + 1
      BY <1>3 DEF OneEach
    <2> QED  BY ONLY <2>1
  <1> QED  BY <1>6, <1>7, <1>8, <1>9 DEF u

LEMMA InFile ==
  ASSUME NEW fs, NEW x
  PROVE  x \in IdsIn(fs) <=> x # 0 /\ \E f \in DOMAIN fs : \E k \in DOMAIN fs[f] : fs[f][k] = x
  <1>1. x \in IdsIn(fs) <=> x # 0 /\ \E f \in DOMAIN fs : x \in Range(fs[f])
    <2> DEFINE W == {Range(fs[f]) : f \in DOMAIN fs}
    <2>1. x \in UNION W <=> \E y \in W : x \in y
      BY Zenon
    <2>2. (\E y \in W : x \in y) <=> \E f \in DOMAIN fs : x \in Range(fs[f])
      BY Zenon
    <2>3. IdsIn(fs) = (UNION W) \ {0}
      BY DEF IdsIn
    <2> HIDE DEF W
    <2> QED  BY <2>1, <2>2, <2>3
  <1>2. ASSUME NEW f \in DOMAIN fs PROVE x \in Range(fs[f]) <=> \E k \in DOMAIN fs[f] : fs[f][k] = x
    BY DEF Range
  <1> QED  BY <1>1, <1>2

\* What the muxer held, put after what the last file has.
LEMMA IdsFlush ==
  ASSUME FilesTyped, pending \in Seq(AnyPacket), Once(files), OneEach(pending),
         \A i \in DOMAIN pending : pending[i].id # 0, IdsIn(files) \cap IdsOf(pending) = {}
  PROVE  IdsIn(Flushed) = IdsIn(files) \cup IdsOf(pending) /\ Once(Flushed)
  <1> DEFINE L == Len(files)
             w == Last(files)
             n == Len(w)
             G == Flushed
  <1>1. /\ L \in Nat \ {0} /\ DOMAIN files = 1..L /\ w = files[L] /\ L \in DOMAIN files
        /\ n \in Nat /\ DOMAIN w = 1..n
    BY FilesAre
  <1>2. /\ G \in Seq(Seq(Nat)) /\ Len(G) = L
        /\ \A f \in 1..L : f # L => G[f] = files[f]
        /\ G[L] \in Seq(Nat) /\ Len(pending) \in Nat /\ Len(G[L]) = n + Len(pending)
        /\ \A k \in 1..n : G[L][k] = w[k]
        /\ \A i \in 1..Len(pending) : G[L][n + i] = pending[i].id
    BY FlushedIs
  <1>3. DOMAIN G = 1..L /\ DOMAIN G[L] = 1..(n + Len(pending)) /\ DOMAIN pending = 1..Len(pending)
    BY <1>2, LenProperties
  <1> HIDE DEF L, w, n, G
  \* a byte of a file is one it had or one of a packet
  <1>4. ASSUME NEW f \in DOMAIN G, NEW k \in DOMAIN G[f]
        PROVE  \/ f \in DOMAIN files /\ k \in DOMAIN files[f] /\ G[f][k] = files[f][k]
               \/ f = L /\ k \in Int /\ k - n \in DOMAIN pending /\ G[f][k] = pending[k - n].id
    <2>1. CASE f # L
      BY <1>1, <1>2, <1>3, <2>1
    <2>2. CASE f = L
      <3>1. k \in 1..n \/ (k \in Int /\ k - n \in 1..Len(pending) /\ n + (k - n) = k)
        BY <1>1, <1>2, <1>3, <2>2
      <3> QED  BY <1>1, <1>2, <1>3, <2>2, <3>1
    <2> QED  BY <2>1, <2>2
  <1>5. ASSUME NEW f \in DOMAIN files, NEW k \in DOMAIN files[f]
        PROVE  f \in DOMAIN G /\ k \in DOMAIN G[f] /\ G[f][k] = files[f][k]
    <2>1. CASE f # L
      BY <1>1, <1>2, <1>3, <2>1
    <2>2. CASE f = L
      <3>1. k \in 1..n /\ k \in 1..(n + Len(pending))
        BY <1>1, <1>2, <2>2
      <3> QED  BY <1>1, <1>2, <1>3, <2>2, <3>1
    <2> QED  BY <2>1, <2>2
  <1>6. ASSUME NEW i \in DOMAIN pending
        PROVE  L \in DOMAIN G /\ n + i \in DOMAIN G[L] /\ G[L][n + i] = pending[i].id
    <2>1. i \in 1..Len(pending) /\ n + i \in 1..(n + Len(pending))
      BY <1>1, <1>2, <1>3
    <2> QED  BY <1>1, <1>2, <1>3, <2>1
  <1>7. IdsIn(G) \subseteq IdsIn(files) \cup IdsOf(pending)
    <2> SUFFICES ASSUME NEW f \in DOMAIN G, NEW k \in DOMAIN G[f], G[f][k] # 0
                 PROVE  G[f][k] \in IdsIn(files) \cup IdsOf(pending)
      BY InFile
    <2>1. CASE f \in DOMAIN files /\ k \in DOMAIN files[f] /\ G[f][k] = files[f][k]
      BY <2>1, InFile
    <2>2. CASE k - n \in DOMAIN pending /\ G[f][k] = pending[k - n].id
      BY <2>2 DEF IdsOf
    <2> QED  BY <1>4, <2>1, <2>2
  <1>8. IdsIn(files) \subseteq IdsIn(G)
    <2> SUFFICES ASSUME NEW f \in DOMAIN files, NEW k \in DOMAIN files[f], files[f][k] # 0
                 PROVE  files[f][k] \in IdsIn(G)
      BY InFile
    <2> QED  BY <1>5, InFile
  <1>9. IdsOf(pending) \subseteq IdsIn(G)
    <2> SUFFICES ASSUME NEW i \in DOMAIN pending PROVE pending[i].id \in IdsIn(G)
      BY DEF IdsOf
    <2>1. L \in DOMAIN G /\ n + i \in DOMAIN G[L] /\ G[L][n + i] = pending[i].id /\ pending[i].id # 0
      BY <1>6
    <2> QED  BY <2>1, InFile
  <1>10. Once(G)
    <2> SUFFICES ASSUME NEW f \in DOMAIN G, NEW g \in DOMAIN G, NEW i \in DOMAIN G[f], NEW j \in DOMAIN G[g],
                        G[f][i] = G[g][j], G[f][i] # 0
                 PROVE  f = g /\ i = j
      BY DEF Once
    <2>1. ASSUME NEW h \in DOMAIN files, NEW k \in DOMAIN files[h], NEW x \in DOMAIN pending,
                 files[h][k] = pending[x].id
          PROVE  FALSE
      <3>1. pending[x].id \in IdsOf(pending) /\ pending[x].id # 0
        BY DEF IdsOf
      <3>2. files[h][k] \in IdsIn(files)
        BY <2>1, <3>1, InFile
      <3> QED  BY <2>1, <3>1, <3>2
    <2>2. CASE f \in DOMAIN files /\ i \in DOMAIN files[f] /\ G[f][i] = files[f][i]
      <3>1. g \in DOMAIN files /\ j \in DOMAIN files[g] /\ G[g][j] = files[g][j]
        <4>1. CASE j - n \in DOMAIN pending /\ G[g][j] = pending[j - n].id
          <5>1. files[f][i] = pending[j - n].id
            BY <2>2, <4>1
          <5> QED  BY <2>1, <2>2, <4>1, <5>1
        <4> QED  BY <1>4, <4>1
      <3>2. files[f][i] = files[g][j] /\ files[f][i] # 0
        BY <2>2, <3>1
      <3>3. \A k \in DOMAIN files[f], m \in DOMAIN files[g] :
              files[f][k] = files[g][m] => files[f][k] = 0 \/ (f = g /\ k = m)
        BY <2>2, <3>1 DEF Once
      <3> QED  BY ONLY <2>2, <3>1, <3>2, <3>3, Zenon
    <2>3. CASE f = L /\ i \in Int /\ i - n \in DOMAIN pending /\ G[f][i] = pending[i - n].id
      <3>1. g = L /\ j \in Int /\ j - n \in DOMAIN pending /\ G[g][j] = pending[j - n].id
        BY <1>4, <2>1, <2>3
      <3>2. i - n = j - n
        BY <2>3, <3>1 DEF OneEach
      <3>3. i = j
        BY ONLY <1>1, <2>3, <3>1, <3>2
      <3> QED  BY <2>3, <3>1, <3>3
    <2> QED  BY <1>4, <2>2, <2>3
  <1> QED  BY <1>7, <1>8, <1>9, <1>10 DEF G

LEMMA IdsNewFile ==
  ASSUME NEW fs \in Seq(Seq(Nat)), Once(fs)
  PROVE  IdsIn(Append(fs, Header)) = IdsIn(fs) /\ Once(Append(fs, Header))
  <1> DEFINE H == Header
             S == Seq(Nat)
             G == Append(fs, H)
  <1>1. H \in S /\ (\A k \in DOMAIN H : H[k] = 0) /\ fs \in Seq(S)
    <2>1. H \in Seq(Nat) /\ DOMAIN H = 1..Len(H) /\ \A k \in 1..Len(H) : H[k] = 0
      BY HeaderIs, LenProperties
    <2> QED  BY <2>1
  <1> HIDE DEF H, S
  <1>2. /\ G \in Seq(S) /\ Len(G) = Len(fs) + 1 /\ Len(fs) \in Nat
        /\ \A i \in 1..Len(fs) : G[i] = fs[i]
        /\ G[Len(fs) + 1] = H
    BY <1>1, AppendProperties, LenProperties
  <1>3. DOMAIN fs = 1..Len(fs) /\ DOMAIN G = 1..(Len(fs) + 1)
    BY <1>1, <1>2, LenProperties
  <1> HIDE DEF G
  <1>4. ASSUME NEW f \in DOMAIN G, NEW k \in DOMAIN G[f], G[f][k] # 0
        PROVE  f \in DOMAIN fs /\ G[f] = fs[f]
    <2>1. f # Len(fs) + 1
      BY <1>1, <1>2, <1>4
    <2> QED  BY <1>2, <1>3, <2>1
  <1>5. ASSUME NEW f \in DOMAIN fs PROVE f \in DOMAIN G /\ G[f] = fs[f]
    BY <1>2, <1>3
  <1>6. IdsIn(G) \subseteq IdsIn(fs)
    <2> SUFFICES ASSUME NEW f \in DOMAIN G, NEW k \in DOMAIN G[f], G[f][k] # 0
                 PROVE  G[f][k] \in IdsIn(fs)
      BY InFile
    <2> QED  BY <1>4, InFile
  <1>7. IdsIn(fs) \subseteq IdsIn(G)
    <2> SUFFICES ASSUME NEW f \in DOMAIN fs, NEW k \in DOMAIN fs[f], fs[f][k] # 0
                 PROVE  fs[f][k] \in IdsIn(G)
      BY InFile
    <2> QED  BY <1>5, InFile
  <1>8. Once(G)
    <2> SUFFICES ASSUME NEW f \in DOMAIN G, NEW g \in DOMAIN G, NEW i \in DOMAIN G[f], NEW j \in DOMAIN G[g],
                        G[f][i] = G[g][j], G[f][i] # 0
                 PROVE  f = g /\ i = j
      BY DEF Once
    <2>1. f \in DOMAIN fs /\ g \in DOMAIN fs /\ G[f] = fs[f] /\ G[g] = fs[g]
      BY <1>4
    <2> QED  BY <2>1 DEF Once
  <1> QED  BY <1>6, <1>7, <1>8 DEF G, H

\* From one place to the next.
LEMMA Moves ==
  ASSUME NEW A, NEW B, NEW C, NEW D, NEW E, NEW F, NEW all, NEW x, Apart(A, B, C, D, E, F, all)
  PROVE  /\ x \notin all => /\ Apart(A, B, C, D \cup {x}, E, F, all \cup {x})
                            /\ Apart(A, B, C, D, E \cup {x}, F, all \cup {x})
         /\ x \in D /\ C = {} => Apart(A, B, {x}, D \ {x}, E, F, all)
         /\ C = {x} => Apart(A, B \cup {x}, {}, D, E, F, all) /\ Apart(A, B, {}, D, E, F \cup {x}, all)
         /\ Apart(A \cup B, {}, C, D, E, F, all)
  <1>1. x \notin all => Apart(A, B, C, D \cup {x}, E, F, all \cup {x})
    BY DEF Apart
  <1>2. x \notin all => Apart(A, B, C, D, E \cup {x}, F, all \cup {x})
    BY DEF Apart
  <1>3. x \in D /\ C = {} => Apart(A, B, {x}, D \ {x}, E, F, all)
    BY DEF Apart
  <1>4. C = {x} => Apart(A, B \cup {x}, {}, D, E, F, all)
    BY DEF Apart
  <1>5. C = {x} => Apart(A, B, {}, D, E, F \cup {x}, all)
    BY DEF Apart
  <1>6. Apart(A \cup B, {}, C, D, E, F, all)
    BY DEF Apart
  <1> QED  BY <1>1, <1>2, <1>3, <1>4, <1>5, <1>6

LEMMA HandIds ==
  ASSUME WriterInv
  PROVE  /\ place \in {"cut", "mux"} => {hand.id} \ {0} = {hand.id}
         /\ place \notin {"cut", "mux"} => {hand.id} \ {0} = {}
  <1>1. place \in {"cut", "mux"} => hand.id # 0
    BY DEF WriterInv, HandInv, Known, KnownTo
  <1>2. place \notin {"cut", "mux"} => hand.id = 0
    BY DEF WriterInv, HandInv, NoPacket
  <1> QED  BY <1>1, <1>2

\* A packet is read.
LEMMA IdsRead ==
  ASSUME Core, IdInv, ReadFrame, UNCHANGED <<popped, writerVars>>
  PROVE  IdInv'
  <1>1. UNCHANGED <<files, pending, buffer, hand, dropped, refused, given>>
    BY DEF writerVars, bufferVars, emitVars, muxVars, fileVars
  <1>2. /\ sent \in Nat /\ sent' \in Nat /\ sent <= sent'
        /\ \A i \in DOMAIN queue' : queue'[i].id > sent \/ \E j \in DOMAIN queue : queue'[i].id = queue[j].id
    BY ReadFrameStep, Parameters DEF Core, ReaderInv, Remembers
  <1>3. given \subseteq 1..sent'
    BY <1>2 DEF IdInv
  <1>4. ASSUME NEW i \in DOMAIN queue' PROVE queue'[i].id \notin given
    <2>1. CASE queue'[i].id > sent
      <3>1. ~(queue'[i].id \in 1..sent)
        BY <1>2, <2>1
      <3> QED  BY <3>1 DEF IdInv
    <2> QED  BY <1>2, <2>1 DEF IdInv
  <1> QED  BY <1>1, <1>3, <1>4 DEF IdInv

\* A packet is given to write().
LEMMA IdsHandle ==
  ASSUME Core, IdInv, HandlePacket
  PROVE  IdInv'
  <1> DEFINE p == NextPacket
  <1>1. queue # << >> /\ place = "packet"
    BY DEF HandlePacket, Core, ReaderInv, PacketRead
  <1>2. /\ p \in AnyPacket /\ Known(p) /\ 1 \in DOMAIN queue /\ p.id = queue[1].id
    BY <1>1, NextPacketIs DEF Core, ReaderInv
  <1>3. \A i \in DOMAIN queue' : queue'[i].id # p.id /\ \E j \in DOMAIN queue : queue'[i].id = queue[j].id
    BY <1>1, HandleQueue DEF Core, ReaderInv
  <1>4. /\ UNCHANGED <<sent, files, pending, hand, refused>>
        /\ \/ UNCHANGED <<buffer, given, dropped>>
           \/ /\ given' = given \cup {p.id}
              /\ \/ dropped' = dropped \cup {p.id} /\ UNCHANGED buffer
                 \/ p.dts # last[p.stream] /\ UNCHANGED dropped /\ buffer' = Placed(Moved(p))
    BY DEF HandlePacket, Write, cameraVars, emitVars, bufferVars, fileVars
  <1> HIDE DEF p
  <1>5. p.id \in 1..sent /\ p.id \notin given
    BY <1>2 DEF Known, KnownTo, IdInv
  <1>6. given' \subseteq 1..sent
    BY <1>4, <1>5 DEF IdInv
  <1>7. \A i \in DOMAIN queue' : queue'[i].id \notin given'
    BY <1>3, <1>4 DEF IdInv
  <1> DEFINE A == IdsIn(files)
             B == IdsOf(pending)
             C == {hand.id} \ {0}
             D == IdsOf(buffer)
  <1>8. Apart(A, B, C, D, dropped, refused, given)
    BY DEF IdInv
  <1> HIDE DEF A, B, C, D
  <1>9. CASE UNCHANGED <<buffer, given, dropped>>
    BY <1>4, <1>6, <1>7, <1>9 DEF IdInv
  <1>10. CASE given' = given \cup {p.id} /\ dropped' = dropped \cup {p.id} /\ UNCHANGED buffer
    <2>1. Apart(A, B, C, D, dropped', refused, given')
      BY <1>5, <1>8, <1>10, Moves
    <2> QED  BY <1>4, <1>6, <1>7, <1>10, <2>1 DEF IdInv, A, B, C, D
  <1>11. CASE /\ given' = given \cup {p.id} /\ UNCHANGED dropped /\ buffer' = Placed(Moved(p))
    <2>1. Moved(p) \in AnyPacket /\ Moved(p).id = p.id
      BY <1>2, MovedIs DEF SamePacket, Core, WriterInv, WriterTyped
    <2>2. buffer \in Seq(AnyPacket) /\ InOrder(buffer)
      BY BufferIs DEF Core, WriterInv, WriterTyped
    <2>3. PICK I \in SUBSET DOMAIN buffer : Placed(Moved(p)) = Insert(buffer, Moved(p), I)
      BY <2>1, <2>2, PlacedInserts
    <2>4. D \subseteq given
      BY <1>8 DEF Apart
    <2>5. Moved(p).id \notin IdsOf(buffer) /\ OneEach(buffer)
      BY <1>5, <2>1, <2>4 DEF IdInv, D
    <2>6. IdsOf(buffer') = D \cup {p.id} /\ OneEach(buffer')
      BY <1>11, <2>1, <2>2, <2>3, <2>5, IdsInsert DEF D
    <2>7. Apart(A, B, C, D \cup {p.id}, dropped, refused, given \cup {p.id})
      BY <1>5, <1>8, Moves
    <2> QED  BY <1>4, <1>6, <1>7, <1>11, <2>6, <2>7 DEF IdInv, A, B, C
  <1> QED  BY <1>4, <1>9, <1>10, <1>11

\* A packet leaves the buffer.
LEMMA IdsEmit ==
  ASSUME Core, IdInv, Emit
  PROVE  IdInv'
  <1>1. /\ UNCHANGED <<sent, queue, files, pending, given, dropped, refused>> /\ place = "write"
        /\ buffer' = Tail(buffer) /\ place' \in {"cut", "mux"}
        /\ hand' = Fixup(Shifted(Head(buffer)), Tail(buffer))
    BY DEF Emit, notWrite, readVars, cameraVars, muxVars, fileVars
  <1>2. buffer \in Seq(AnyPacket) /\ buffer # << >> /\ track \in Times
    BY <1>1 DEF Core, WriterInv, WriterTyped, BufferInv
  <1>3. Head(buffer) \in AnyPacket /\ Head(buffer) = buffer[1] /\ Tail(buffer) \in Seq(AnyPacket)
    BY <1>2, HeadTailProperties
  <1>4. hand'.id = buffer[1].id
    <2>1. Shifted(Head(buffer)) \in AnyPacket /\ Shifted(Head(buffer)).id = buffer[1].id
      BY <1>2, <1>3, ShiftedIs DEF SamePacket
    <2> QED  BY <1>1, <1>3, <2>1, FixupIs DEF SamePacket
  <1>5. {hand.id} \ {0} = {}
    BY <1>1, HandIds DEF Core
  <1>6. {hand'.id} \ {0} = {hand'.id}
    <2>1. WriterInv'
      BY EmitKeeps DEF Core
    <2>2. hand'.id # 0
      BY <1>1, <2>1 DEF WriterInv, HandInv, Known, KnownTo
    <2> QED  BY <2>2
  <1>7. IdsOf(buffer') = IdsOf(buffer) \ {buffer[1].id} /\ buffer[1].id \in IdsOf(buffer) /\ OneEach(buffer')
    BY <1>1, <1>2, IdsTail DEF IdInv
  <1> DEFINE A == IdsIn(files)
             B == IdsOf(pending)
             C == {hand.id} \ {0}
             D == IdsOf(buffer)
             x == buffer[1].id
  <1>8. Apart(A, B, C, D, dropped, refused, given)
    BY DEF IdInv
  <1>9. x \in D /\ C = {}
    BY <1>5, <1>7
  <1> HIDE DEF A, B, C, D, x
  <1>10. Apart(A, B, {x}, D \ {x}, dropped, refused, given)
    BY <1>8, <1>9, Moves
  <1> QED  BY <1>1, <1>4, <1>6, <1>7, <1>10 DEF IdInv, A, B, D, x

\* The muxer takes it or refuses it.
LEMMA IdsMux ==
  ASSUME Core, IdInv, Mux
  PROVE  IdInv'
  <1>1. /\ UNCHANGED <<sent, queue, files, given, dropped, buffer>> /\ place = "mux" /\ hand' = NoPacket
        /\ \/ refused' = refused \cup {hand.id} /\ UNCHANGED pending
           \/ pending' = Append(pending, hand) /\ UNCHANGED refused
    BY DEF Mux, notWrite, readVars, cameraVars
  <1>2. pending \in Seq(AnyPacket) /\ hand \in AnyPacket
    BY DEF Core, WriterInv, WriterTyped
  <1> DEFINE A == IdsIn(files)
             B == IdsOf(pending)
             C == {hand.id} \ {0}
             D == IdsOf(buffer)
             x == hand.id
  <1>3. Apart(A, B, C, D, dropped, refused, given) /\ C = {x}
    BY <1>1, HandIds DEF IdInv, Core
  <1>4. {hand'.id} \ {0} = {}
    BY <1>1 DEF NoPacket
  <1> HIDE DEF A, B, C, D, x
  <1>5. CASE refused' = refused \cup {hand.id} /\ UNCHANGED pending
    <2>1. Apart(A, B, {}, D, dropped, refused \cup {x}, given)
      BY <1>3, Moves
    <2> QED  BY <1>1, <1>4, <1>5, <2>1 DEF IdInv, A, B, D, x
  <1>6. CASE pending' = Append(pending, hand) /\ UNCHANGED refused
    <2>1. x \notin B
      BY <1>3 DEF Apart
    <2>2. IdsOf(pending') = B \cup {x} /\ OneEach(pending')
      BY <1>2, <1>6, <2>1, IdsAppend DEF IdInv, B, x
    <2>3. Apart(A, B \cup {x}, {}, D, dropped, refused, given)
      BY <1>3, Moves
    <2> QED  BY <1>1, <1>4, <1>6, <2>2, <2>3 DEF IdInv, A, D
  <1> QED  BY <1>1, <1>5, <1>6

\* The muxer writes what it holds.
LEMMA IdsFile ==
  ASSUME Core, FilesLayer, IdInv, Frag \/ NewFile \/ Finish
  PROVE  IdInv'
  <1>1. /\ UNCHANGED <<sent, queue, given, dropped, refused, buffer, hand>> /\ pending' = << >>
        /\ files' = Flushed \/ files' = Append(Flushed, Header)
    BY DEF Frag, NewFile, Finish, Flush, notCut, notWrite, readVars, cameraVars, emitVars, muxVars
  <1>2. FilesTyped /\ pending \in Seq(AnyPacket)
    BY DEF FilesLayer, Core, WriterInv, WriterTyped
  <1> DEFINE A == IdsIn(files)
             B == IdsOf(pending)
             C == {hand.id} \ {0}
             D == IdsOf(buffer)
  <1>3. Apart(A, B, C, D, dropped, refused, given)
    BY DEF IdInv
  <1>4. \A i \in DOMAIN pending : pending[i].id # 0
    BY DEF Core, WriterInv, PendingInv, Known, KnownTo
  <1>5. A \cap B = {}
    BY <1>3 DEF Apart
  <1>6. IdsIn(Flushed) = A \cup B /\ Once(Flushed)
    BY <1>2, <1>4, <1>5, IdsFlush DEF IdInv
  <1>7. IdsIn(files') = A \cup B /\ Once(files')
    <2>1. Flushed \in Seq(Seq(Nat))
      BY <1>2, FlushedIs
    <2> QED  BY <1>1, <1>6, <2>1, IdsNewFile
  <1> HIDE DEF A, B, C, D
  <1>8. Apart(A \cup B, {}, C, D, dropped, refused, given)
    BY <1>3, Moves
  <1>9. IdsOf(pending') = {} /\ OneEach(pending')
    BY <1>1, IdsEmpty
  <1> QED  BY <1>1, <1>7, <1>8, <1>9 DEF IdInv, C, D

LEMMA IdStep ==
  ASSUME Core, FilesLayer, IdInv, [Next]_vars
  PROVE  IdInv'
  <1>1. CASE Charge \/ GetNextPacket
    BY <1>1, IdsRead DEF Charge, GetNextPacket
  <1>2. CASE Connected \/ UNCHANGED vars
    <2>1. UNCHANGED <<sent, queue, files, pending, buffer, hand, dropped, refused, given>>
      BY <1>2 DEF Connected, vars, readVars, cameraVars, writerVars, bufferVars, emitVars, muxVars, fileVars
    <2> QED  BY <2>1 DEF IdInv
  <1> QED  BY <1>1, <1>2, IdsHandle, IdsEmit, IdsMux, IdsFile DEF Next

LEMMA IdInit ==
  ASSUME Init
  PROVE  IdInv
  <1>1. files = Append(<< >>, Header) /\ pending = << >> /\ buffer = << >> /\ queue = << >> /\ hand = NoPacket
        /\ given = {} /\ dropped = {} /\ refused = {} /\ sent = 0
    BY DEF Init
  <1>2. << >> \in Seq(Seq(Nat)) /\ DOMAIN << >> = {}
    BY EmptySeq
  <1>3. Once(<< >>) /\ IdsIn(<< >>) = {}
    BY <1>2, InFile DEF Once
  <1>4. Once(files) /\ IdsIn(files) = {}
    BY <1>1, <1>2, <1>3, IdsNewFile
  <1>5. {hand.id} \ {0} = {}
    BY <1>1 DEF NoPacket
  <1>6. Apart({}, {}, {}, {}, {}, {}, {})
    BY DEF Apart
  <1> QED  BY <1>1, <1>2, <1>4, <1>5, <1>6, IdsEmpty DEF IdInv

\* Every packet that is given to write() is in one place, and there once.
THEOREM NothingLost == Spec => []NoneLostOrTwice
  <1>1. Core /\ FilesLayer /\ IdInv /\ [Next]_vars => (Core /\ FilesLayer /\ IdInv)'
    BY CoreStep, LayerStep, IdStep
  <1>2. ASSUME Core, FilesLayer, IdInv PROVE NoneLostOrTwice
    <2> DEFINE A == InFiles
               B == IdsOf(pending)
               C == {hand.id} \ {0}
               D == IdsOf(buffer)
               E == dropped
               F == refused
    <2>1. Apart(A, B, C, D, E, F, given)
      BY <1>2 DEF IdInv, IdsIn, InFiles
    <2>2. IsInjective(Ids(pending)) /\ IsInjective(Ids(buffer))
      BY <1>2 DEF IdInv, OneEach, Ids, IsInjective
    <2>3. ASSUME NEW f \in DOMAIN files, NEW g \in DOMAIN files, f < g
          PROVE  Range(files[f]) \cap Range(files[g]) \subseteq {0}
      <3>1. f # g
        BY <1>2, <2>3, FilesAre DEF FilesLayer
      <3>2. ASSUME NEW i \in DOMAIN files[f], NEW j \in DOMAIN files[g], files[f][i] = files[g][j]
            PROVE  files[f][i] = 0
        BY <1>2, <3>1, <3>2, Zenon DEF IdInv, Once
      <3> QED  BY <3>2 DEF Range
    <2>8. ASSUME NEW f \in DOMAIN files, NEW i \in DOMAIN files[f], files[f][i] # 0,
                 NEW j \in 1..(i - 1)
          PROVE  files[f][i] # files[f][j]
      <3>1. files \in Seq(Seq(Nat)) /\ files[f] \in Seq(Nat)
        BY <1>2 DEF FilesLayer, FilesTyped
      <3>2. DOMAIN files[f] = 1..Len(files[f]) /\ Len(files[f]) \in Nat
        BY <3>1, LenProperties
      <3>3. j \in DOMAIN files[f] /\ i # j
        BY <2>8, <3>2
      <3> QED  BY <1>2, <2>8, <3>3, Zenon DEF IdInv, Once
    <2> HIDE DEF A, B, C, D, E, F
    <2> DEFINE fates == <<A, B, C, D, E, F>>
    <2>4. DOMAIN fates = 1..6 /\ fates[1] = A /\ fates[2] = B /\ fates[3] = C /\ fates[4] = D
          /\ fates[5] = E /\ fates[6] = F
      OBVIOUS
    <2>5. fates = Fates
      BY DEF Fates, A, B, C, D, E, F
    <2> HIDE DEF fates
    <2>6. ASSUME NEW a \in DOMAIN fates, NEW b \in DOMAIN fates, a < b PROVE fates[a] \cap fates[b] = {}
      BY <2>1, <2>4, <2>6 DEF Apart
    <2>7. UNION Range(fates) = given
      <3>1. Range(fates) = {A, B, C, D, E, F}
        BY <2>4 DEF Range
      <3> QED  BY <2>1, <3>1 DEF Apart
    <2> QED  BY <2>2, <2>3, <2>5, <2>6, <2>7, <2>8 DEF NoneLostOrTwice
  <1> QED  BY CoreInit, LayerInit, IdInit, <1>1, <1>2, PTL DEF Spec

-----------------------------------------------------------------------------
(* Keyframes *)

\* Bytes that are marked alike.
AlikeMarked(vs, ks, f, ws, ls, g, from, to) ==
  \A k \in (from + 1)..to : (f[k] \in vs <=> g[k] \in ws) /\ (f[k] \in ks <=> g[k] \in ls)
LEMMA SameMarks ==
  ASSUME NEW vs, NEW ks, NEW f, NEW ws, NEW ls, NEW g, NEW from, NEW to, from \in Int, to \in Int,
         AlikeMarked(vs, ks, f, ws, ls, g, from, to)
  PROVE  /\ FirstIsKeyIn(vs, ks, f, from, to) <=> FirstIsKeyIn(ws, ls, g, from, to)
         /\ HasVideoIn(vs, f, from, to) <=> HasVideoIn(ws, g, from, to)
  <1>1. ASSUME NEW k \in (from + 1)..to, NEW j \in (from + 1)..(k - 1) PROVE j \in (from + 1)..to
    OBVIOUS
  <1>2. \A k \in (from + 1)..to : (f[k] \in vs <=> g[k] \in ws) /\ (f[k] \in ks <=> g[k] \in ls)
    BY DEF AlikeMarked
  <1>3. FirstIsKeyIn(vs, ks, f, from, to) => FirstIsKeyIn(ws, ls, g, from, to)
    <2> SUFFICES ASSUME FirstIsKeyIn(vs, ks, f, from, to), NEW k \in (from + 1)..to, g[k] \in ws,
                        \A j \in (from + 1)..(k - 1) : g[j] \notin ws
                 PROVE  g[k] \in ls
      BY DEF FirstIsKeyIn
    <2>1. f[k] \in vs /\ \A j \in (from + 1)..(k - 1) : f[j] \notin vs
      BY <1>1, <1>2
    <2> QED  BY <1>2, <2>1 DEF FirstIsKeyIn
  <1>4. FirstIsKeyIn(ws, ls, g, from, to) => FirstIsKeyIn(vs, ks, f, from, to)
    <2> SUFFICES ASSUME FirstIsKeyIn(ws, ls, g, from, to), NEW k \in (from + 1)..to, f[k] \in vs,
                        \A j \in (from + 1)..(k - 1) : f[j] \notin vs
                 PROVE  f[k] \in ks
      BY DEF FirstIsKeyIn
    <2>1. g[k] \in ws /\ \A j \in (from + 1)..(k - 1) : g[j] \notin ws
      BY <1>1, <1>2
    <2> QED  BY <1>2, <2>1 DEF FirstIsKeyIn
  <1> QED  BY <1>2, <1>3, <1>4 DEF HasVideoIn

\* The init segment holds no video packet.
LEMMA NoVideoBefore ==
  ASSUME NEW vs, NEW ks, NEW f, NEW a, NEW b, NEW to, a \in Int, b \in Int, to \in Int, a <= b,
         \A k \in (a + 1)..b : f[k] \notin vs
  PROVE  /\ FirstIsKeyIn(vs, ks, f, a, to) => FirstIsKeyIn(vs, ks, f, b, to)
         /\ HasVideoIn(vs, f, a, to) => HasVideoIn(vs, f, b, to)
  <1>1. ASSUME FirstIsKeyIn(vs, ks, f, a, to), NEW k \in (b + 1)..to, f[k] \in vs,
               \A j \in (b + 1)..(k - 1) : f[j] \notin vs
        PROVE  f[k] \in ks
    <2>1. k \in (a + 1)..to
      OBVIOUS
    <2>2. ASSUME NEW j \in (a + 1)..(k - 1) PROVE f[j] \notin vs
      <3>1. j \in (a + 1)..b \/ j \in (b + 1)..(k - 1)
        OBVIOUS
      <3> QED  BY <1>1, <3>1
    <2> QED  BY <1>1, <2>1, <2>2 DEF FirstIsKeyIn
  <1>2. ASSUME HasVideoIn(vs, f, a, to) PROVE HasVideoIn(vs, f, b, to)
    <2>1. PICK k \in (a + 1)..to : f[k] \in vs
      BY <1>2 DEF HasVideoIn
    <2>2. k \in (a + 1)..b \/ k \in (b + 1)..to
      OBVIOUS
    <2> QED  BY <2>1, <2>2 DEF HasVideoIn
  <1> QED  BY <1>1, <1>2 DEF FirstIsKeyIn

\* A row that is closed keeps its marks, since what is in its file stays.
LEMMA RowKeysKept ==
  ASSUME CameraTyped, FilesLayer, Remembers, NEW i \in 1..(Len(rows) - 1), rows'[i] = rows[i],
         \A k \in DOMAIN files[rows[i].name] : files'[rows[i].name][k] = files[rows[i].name][k],
         RowKeys(i)
  PROVE  RowKeys(i)'
  <1> DEFINE r == rows[i]
             f == files[r.name]
             g == files'[r.name]
  <1>1. Whole(r)
    BY DEF FilesLayer, RowsInv
  <1>2. r.name \in DOMAIN files /\ r.from \in Nat /\ r.to \in Nat /\ r.to <= Len(f)
    BY <1>1 DEF Whole, WholeIn
  <1>3. /\ Len(f) \in Nat /\ DOMAIN f = 1..Len(f) /\ \A k \in 1..Len(f) : f[k] \in Nat
        /\ \A k \in DOMAIN f : f[k] <= sent
    <2>1. FilesTyped /\ FilesInv
      BY DEF FilesLayer
    <2> QED  BY <1>2, <2>1, FilesAre DEF FilesInv
  <1>4. rows'[i].name = r.name /\ rows'[i].from = r.from /\ rows'[i].to = r.to
    OBVIOUS
  <1>5. RowKeys(i) = (/\ FirstIsKeyIn(videos, keys, f, r.from, r.to)
                      /\ i = 1 \/ HasVideoIn(videos, f, r.from, r.to))
    BY DEF RowKeys, FirstIsKey, HasVideo
  <1>6. RowKeys(i)' = (/\ FirstIsKeyIn(videos', keys', g, r.from, r.to)
                       /\ i = 1 \/ HasVideoIn(videos', g, r.from, r.to))
    BY <1>4 DEF RowKeys, FirstIsKey, HasVideo
  <1>7. \A k \in DOMAIN f : g[k] = f[k]
    OBVIOUS
  <1> HIDE DEF r, f, g
  <1>8. AlikeMarked(videos, keys, f, videos', keys', g, r.from, r.to)
    <2>1. ASSUME NEW k \in (r.from + 1)..r.to
          PROVE  (f[k] \in videos <=> g[k] \in videos') /\ (f[k] \in keys <=> g[k] \in keys')
      <3>1. k \in 1..Len(f)
        BY <1>2, <1>3
      <3>2. f[k] \in Nat /\ f[k] <= sent /\ g[k] = f[k]
        BY <1>3, <1>7, <3>1
      <3> QED  BY <3>2 DEF Remembers
    <2> QED  BY <2>1 DEF AlikeMarked
  <1>9. r.from \in Int /\ r.to \in Int
    BY <1>2
  <1>10. /\ FirstIsKeyIn(videos, keys, f, r.from, r.to) <=> FirstIsKeyIn(videos', keys', g, r.from, r.to)
         /\ HasVideoIn(videos, f, r.from, r.to) <=> HasVideoIn(videos', g, r.from, r.to)
    BY <1>8, <1>9, SameMarks
  <1> QED  BY <1>5, <1>6, <1>10

\* So does what is being written.
LEMMA NowKept ==
  ASSUME Core, FilesLayer, Remembers, place # "ended", UNCHANGED <<Written, lastCutByte>>
  PROVE  (NowVideo' <=> NowVideo) /\ (NowKey' <=> NowKey)
  <1> DEFINE w == Written
  <1>1. FilesTyped /\ pending \in Seq(AnyPacket) /\ lastCutByte \in Nat
    BY DEF FilesLayer, FilesTyped, Core, WriterInv, WriterTyped
  <1>2. /\ w \in Seq(Nat) /\ Len(w) \in Nat /\ DOMAIN w = 1..Len(w) /\ \A k \in 1..Len(w) : w[k] \in Nat
        /\ Flushed[Len(files)] = w /\ Len(files) \in DOMAIN Flushed
    <2>1. w \in Seq(Nat) /\ Flushed[Len(files)] = w /\ Flushed \in Seq(Seq(Nat)) /\ Len(Flushed) = Len(files)
      BY <1>1, FlushedIs
    <2>2. Len(files) \in 1..Len(files) /\ DOMAIN Flushed = 1..Len(files)
      BY <1>1, <2>1, FilesAre, LenProperties
    <2> QED  BY <2>1, <2>2, LenProperties, ElementOfSeq
  <1>3. \A k \in 1..Len(w) : w[k] <= sent
    <2>1. \A f \in DOMAIN Flushed : \A k \in DOMAIN Flushed[f] : Flushed[f][k] <= sent
      BY FlushKeeps
    <2> QED  BY <1>2, <2>1
  <1>4. /\ NowVideo = HasVideoIn(videos, w, lastCutByte, Len(w))
        /\ NowKey = FirstIsKeyIn(videos, keys, w, lastCutByte, Len(w))
    BY DEF NowVideo, NowKey, HasVideo, FirstIsKey
  <1>5. /\ NowVideo' = HasVideoIn(videos', w, lastCutByte, Len(w))
        /\ NowKey' = FirstIsKeyIn(videos', keys', w, lastCutByte, Len(w))
    BY DEF NowVideo, NowKey, HasVideo, FirstIsKey
  <1> HIDE DEF w
  <1>6. AlikeMarked(videos, keys, w, videos', keys', w, lastCutByte, Len(w))
    <2>1. ASSUME NEW k \in (lastCutByte + 1)..Len(w)
          PROVE  (w[k] \in videos <=> w[k] \in videos') /\ (w[k] \in keys <=> w[k] \in keys')
      <3>1. k \in 1..Len(w)
        BY <1>1, <1>2
      <3>2. w[k] \in Nat /\ w[k] <= sent
        BY <1>2, <1>3, <3>1
      <3> QED  BY <3>2 DEF Remembers
    <2> QED  BY <2>1 DEF AlikeMarked
  <1>7. lastCutByte \in Int /\ Len(w) \in Int
    BY <1>1, <1>2
  <1> QED  BY <1>4, <1>5, <1>6, <1>7, SameMarks

\* What the last file fs is with the packets q.
LEMMA WrittenBy ==
  ASSUME NEW fs, fs \in Seq(Seq(Nat)), fs # << >>, NEW q, q \in Seq(AnyPacket)
  PROVE  /\ Last([fs EXCEPT ![Len(fs)] = @ \o Ids(q)]) = Last(fs) \o Ids(q)
         /\ Last(fs) \in Seq(Nat)
  <1>1. Len(fs) \in Nat \ {0} /\ Len(fs) \in 1..Len(fs) /\ DOMAIN fs = 1..Len(fs)
    BY EmptySeq, LenProperties
  <1>2. Last(fs) = fs[Len(fs)] /\ fs[Len(fs)] \in Seq(Nat)
    BY <1>1, ElementOfSeq DEF Last
  <1> DEFINE w == Last(fs) \o Ids(q)
  <1>3. w \in Seq(Nat)
    BY <1>2, IdsIs, ConcatProperties
  <1>4. [fs EXCEPT ![Len(fs)] = @ \o Ids(q)] = [fs EXCEPT ![Len(fs)] = w]
    BY <1>1, <1>2
  <1> HIDE DEF w
  <1> DEFINE G == [fs EXCEPT ![Len(fs)] = w]
  <1>5. /\ G \in Seq(Seq(Nat)) /\ Len(G) = Len(fs)
        /\ \A f \in 1..Len(fs) : G[f] = IF f = Len(fs) THEN w ELSE fs[f]
    BY <1>1, <1>3, ExceptSeq
  <1>6. Last(G) = w
    BY <1>1, <1>5 DEF Last
  <1> QED  BY <1>2, <1>4, <1>6 DEF w

LEMMA NothingToFlush ==
  ASSUME NEW fs, fs \in Seq(Seq(Nat)), fs # << >>
  PROVE  Last([fs EXCEPT ![Len(fs)] = @ \o Ids(<< >>)]) = Last(fs)
  <1>1. << >> \in Seq(AnyPacket) /\ Len(<< >>) = 0
    BY EmptySeq
  <1>2. Last([fs EXCEPT ![Len(fs)] = @ \o Ids(<< >>)]) = Last(fs) \o Ids(<< >>) /\ Last(fs) \in Seq(Nat)
    BY <1>1, WrittenBy
  <1>3. Ids(<< >>) = << >>
    <2>1. Ids(<< >>) \in Seq(Nat) /\ Len(Ids(<< >>)) = 0
      BY <1>1, IdsIs
    <2> QED  BY <2>1, EmptySeq
  <1> QED  BY <1>2, <1>3, ConcatEmptySeq

\* A packet is added to it.
LEMMA MuxWrites ==
  ASSUME Core, FilesLayer, place = "mux", UNCHANGED files, pending' = Append(pending, hand)
  PROVE  /\ Len(Written) \in Nat /\ Len(Written') = Len(Written) + 1
         /\ \A k \in 1..Len(Written) : Written'[k] = Written[k]
         /\ Written'[Len(Written) + 1] = hand.id
  <1> DEFINE q == Append(pending, hand)
             a == Last(files)
  <1>1. FilesTyped /\ pending \in Seq(AnyPacket) /\ hand \in AnyPacket /\ files \in Seq(Seq(Nat)) /\ files # << >>
    BY DEF FilesLayer, FilesTyped, Core, WriterInv, WriterTyped
  <1>2. /\ q \in Seq(AnyPacket) /\ Len(q) = Len(pending) + 1 /\ Len(pending) \in Nat
        /\ \A i \in 1..Len(pending) : q[i] = pending[i]
        /\ q[Len(pending) + 1] = hand
    BY <1>1, AppendProperties, LenProperties
  <1>3. Written' = Last([files EXCEPT ![Len(files)] = @ \o Ids(q)])
    BY DEF Written, Flushed
  <1>4. Written = Last([files EXCEPT ![Len(files)] = @ \o Ids(pending)])
    BY DEF Written, Flushed
  <1> HIDE DEF q, a
  <1>5. Written' = a \o Ids(q) /\ Written = a \o Ids(pending) /\ a \in Seq(Nat) /\ Len(a) \in Nat
    BY <1>1, <1>2, <1>3, <1>4, WrittenBy, LenProperties DEF a
  <1>6. /\ Ids(q) \in Seq(Nat) /\ Len(Ids(q)) = Len(pending) + 1 /\ \A i \in 1..(Len(pending) + 1) : Ids(q)[i] = q[i].id
    BY <1>2, IdsIs
  <1>7. /\ Ids(pending) \in Seq(Nat) /\ Len(Ids(pending)) = Len(pending)
        /\ \A i \in 1..Len(pending) : Ids(pending)[i] = pending[i].id
    BY <1>1, IdsIs
  <1> DEFINE b == Ids(q)
             c == Ids(pending)
             n == Len(pending)
  <1> HIDE DEF b, c, n
  <1>8. /\ Len(a \o b) = Len(a) + Len(b) /\ \A i \in 1..(Len(a) + Len(b)) : (a \o b)[i] = IF i <= Len(a) THEN a[i] ELSE b[i - Len(a)]
        /\ Len(a \o c) = Len(a) + Len(c) /\ \A i \in 1..(Len(a) + Len(c)) : (a \o c)[i] = IF i <= Len(a) THEN a[i] ELSE c[i - Len(a)]
    <2>1. a \in Seq(Nat) /\ b \in Seq(Nat) /\ c \in Seq(Nat)
      BY <1>5, <1>6, <1>7 DEF b, c
    <2> QED  BY ONLY <2>1, ConcatProperties
  <1>9. n \in Nat /\ Len(b) = n + 1 /\ Len(c) = n /\ b[n + 1] = hand.id /\ \A i \in 1..n : b[i] = c[i]
    <2>1. n \in Nat /\ n + 1 \in 1..(n + 1)
      BY <1>2 DEF n
    <2>2. \A i \in 1..n : i \in 1..(n + 1)
      BY <2>1
    <2> QED  BY <1>2, <1>6, <1>7, <2>1, <2>2 DEF b, c, n
  <1>10. Len(a \o c) = Len(a) + n /\ Len(a \o b) = (Len(a) + n) + 1
    BY <1>5, <1>8, <1>9
  <1>11. ASSUME NEW k \in 1..(Len(a) + n) PROVE (a \o b)[k] = (a \o c)[k]
    <2>1. k \in 1..(Len(a) + Len(b)) /\ k \in 1..(Len(a) + Len(c)) /\ (~(k <= Len(a)) => k - Len(a) \in 1..n)
      <3>1. Len(a) \in Nat /\ n \in Nat /\ Len(b) = n + 1 /\ Len(c) = n
        BY <1>5, <1>9
      <3> QED  BY ONLY <3>1, k \in 1..(Len(a) + n)
    <2> QED  BY <1>8, <1>9, <2>1
  <1>12. (a \o b)[(Len(a) + n) + 1] = hand.id
    <2>1. (Len(a) + n) + 1 \in 1..(Len(a) + Len(b)) /\ ~((Len(a) + n) + 1 <= Len(a)) /\ ((Len(a) + n) + 1) - Len(a) = n + 1
      BY <1>5, <1>9
    <2> QED  BY <1>8, <1>9, <2>1
  <1> QED  BY <1>5, <1>9, <1>10, <1>11, <1>12 DEF b, c

\* What is kept as long as nothing goes to the file.
LEMMA QuietNow ==
  ASSUME Core, FilesLayer, Remembers, place # "ended", UNCHANGED <<files, pending, rows, lastCutByte>>
  PROVE  /\ (NowVideo' <=> NowVideo) /\ (NowKey' <=> NowKey)
         /\ \A i \in 1..(Len(rows) - 1) : RowKeys(i) => RowKeys(i)'
  <1>1. UNCHANGED <<Written, lastCutByte>>
    BY DEF Written, Flushed
  <1>2. CameraTyped
    BY DEF Core, ReaderInv
  <1>3. ASSUME NEW i \in 1..(Len(rows) - 1), RowKeys(i) PROVE RowKeys(i)'
    BY <1>2, <1>3, RowKeysKept
  <1> QED  BY <1>1, <1>3, NowKept

LEMMA ReadKeys ==
  ASSUME Core, FilesLayer, StartInv, KeysInv, Remembers, UNCHANGED <<valid, writerVars>>,
         place \in {"charge", "loop"}, place' \in {"charge", "loop", "packet"}
  PROVE  StartInv' /\ KeysInv'
  <1>1. UNCHANGED <<valid, last, buffer, given, track, hand, refused, files, pending, rows, lastCutByte>>
    BY DEF writerVars, bufferVars, emitVars, muxVars, fileVars, cutVars
  <1>2. /\ (NowVideo' <=> NowVideo) /\ (NowKey' <=> NowKey)
        /\ \A i \in 1..(Len(rows) - 1) : RowKeys(i) => RowKeys(i)'
    BY <1>1, QuietNow
  <1>3. EarliestIsKey(buffer)' = EarliestIsKey(buffer)
    BY <1>1 DEF EarliestIsKey
  <1>4. StartInv'
    BY <1>1, <1>2, <1>3 DEF StartInv, NoVideoYet
  <1>5. KeysInv'
    BY <1>1, <1>2 DEF KeysInv, Begun
  <1> QED  BY <1>4, <1>5

\* The first packet that is written is a keyframe, and it is not dropped; those that follow come
\* after it.
LEMMA HandleStart ==
  ASSUME Core, StartInv, HandlePacket, NowVideo' <=> NowVideo
  PROVE  StartInv'
  <1> DEFINE p == NextPacket
             q == Moved(p)
             V == "video"
  <1>1. queue # << >>
    BY DEF HandlePacket, Core, ReaderInv, PacketRead
  <1>2. p \in AnyPacket /\ Known(p) /\ p.dts = p.at
    BY <1>1, NextPacketIs DEF Core, ReaderInv
  <1>3. /\ UNCHANGED <<track, hand, rows>> /\ valid' = (valid \/ p.key) /\ place = "packet"
        /\ \/ ~valid' /\ place' = "loop" /\ UNCHANGED <<last, buffer, given, dropped>>
           \/ valid' /\ Write(p)
    BY DEF HandlePacket, emitVars, bufferVars, fileVars, cutVars
  <1> HIDE DEF p
  <1>4. /\ last \in Times /\ buffer \in Seq(AnyPacket) /\ valid \in BOOLEAN /\ p.key \in BOOLEAN
        /\ p.stream \in Streams /\ p.dts \in Int /\ p.at \in Nat /\ last["video"] \in Int /\ "video" \in Streams
    BY <1>2 DEF Core, WriterInv, WriterTyped, AnyPacket, Times, Streams
  <1>5. p.key => p.stream = "video"
    BY <1>2 DEF Core, ReaderInv, CameraInv, Known, KnownTo
  <1>6. place' \notin {"cut", "mux"}
    BY <1>3 DEF Write
  <1>7. ASSUME UNCHANGED <<last, buffer>>, valid' => valid, given' = given \/ valid PROVE StartInv'
    <2>1. EarliestIsKey(buffer)' = EarliestIsKey(buffer)
      BY <1>7 DEF EarliestIsKey
    <2> QED  BY <1>3, <1>4, <1>6, <1>7, <2>1 DEF StartInv, NoVideoYet
  <1>8. CASE ~valid'
    BY <1>3, <1>7, <1>8
  <1>9. CASE valid' /\ p.dts = last[p.stream]
    <2>1. UNCHANGED <<last, buffer>>
      BY <1>3, <1>9 DEF Write
    <2>2. valid
      <3>1. ~valid => p.key /\ last["video"] = None
        BY <1>3, <1>9 DEF StartInv
      <3>2. p.dts # None
        BY <1>2, <1>4 DEF None
      <3> QED  BY <1>5, <1>9, <3>1, <3>2
    <2> QED  BY <1>7, <2>1, <2>2
  <1>10. CASE valid' /\ p.dts # last[p.stream]
    <2>1. last' = [last EXCEPT ![p.stream] = q.dts] /\ buffer' = Placed(q)
      BY <1>3, <1>10 DEF Write
    <2>2. q \in AnyPacket /\ SamePacket(q, p) /\ p.dts <= q.dts /\ last[p.stream] < q.dts
      BY <1>2, <1>4, <1>10, MovedIs
    <2> HIDE DEF q
    <2>3. q.dts \in Int /\ q.stream = p.stream /\ q.key = p.key
      BY <2>2 DEF AnyPacket, SamePacket
    <2>4. PICK I \in SUBSET DOMAIN buffer : Placed(q) = Insert(buffer, q, I)
      BY <1>4, <2>2, BufferIs, PlacedInserts DEF Core
    <2>5. /\ \A j \in DOMAIN buffer' : buffer'[j] = q \/ \E a \in DOMAIN buffer : buffer'[j] = buffer[a]
          /\ \E j \in DOMAIN buffer' : buffer'[j] = q
          /\ \A a \in DOMAIN buffer : \E j \in DOMAIN buffer' : buffer'[j] = buffer[a]
      BY <1>4, <2>1, <2>2, <2>4, InsertElements
    <2>6. last'["video"] = IF p.stream = "video" THEN q.dts ELSE last["video"]
      BY <1>4, <2>1 DEF Times
    <2>7. last["video"] >= None
      BY <1>4 DEF Core, WriterInv, BufferInv
    <2>8. ~valid => p.key /\ p.stream = "video" /\ buffer = << >>
      BY <1>3, <1>5, <1>10 DEF StartInv
    <2>9. last'["video"] # None
      <3>1. CASE p.stream = "video"
        <4>1. None < q.dts
          BY <1>4, <2>2, <2>3, <2>7, <3>1 DEF None
        <4> QED  BY <2>3, <2>6, <3>1, <4>1 DEF None
      <3>2. CASE p.stream # "video"
        BY <2>6, <2>8, <3>2 DEF StartInv
      <3> QED  BY <3>1, <3>2
    <2>10. ASSUME track["video"] = None PROVE \E i \in DOMAIN buffer' : buffer'[i].stream = "video"
      <3>1. CASE valid
        <4>1. \E i \in DOMAIN buffer : buffer[i].stream = "video"
          BY <2>10, <3>1 DEF StartInv, NoVideoYet
        <4> QED  BY <2>5, <4>1
      <3>2. CASE ~valid
        BY <2>3, <2>5, <2>8, <3>2
      <3> QED  BY <3>1, <3>2
    <2>11. ASSUME track["video"] = None, NEW i \in DOMAIN buffer', buffer'[i].stream = "video",
                  \A j \in DOMAIN buffer' : buffer'[j].stream = "video" => buffer'[i].dts <= buffer'[j].dts
           PROVE  buffer'[i].key
      <3>1. CASE buffer'[i] = q
        <4>1. CASE valid
          <5>1. PICK b \in DOMAIN buffer : buffer[b].stream = "video"
            BY <2>11, <4>1 DEF StartInv, NoVideoYet
          <5>2. buffer[b].dts <= last["video"] /\ buffer[b].dts \in Int
            <6>1. buffer[b].dts <= last[buffer[b].stream] /\ buffer[b] \in AnyPacket
              BY BufferIs DEF Core, WriterInv, BufferInv
            <6> QED  BY <5>1, <6>1 DEF AnyPacket
          <5>3. q.dts <= buffer[b].dts /\ q.stream = "video"
            BY <2>5, <2>11, <3>1, <5>1
          <5>4. last["video"] < q.dts
            BY <2>2, <2>3, <5>3
          <5> QED  BY <1>4, <2>3, <5>2, <5>3, <5>4
        <4>2. CASE ~valid
          BY <2>3, <2>8, <3>1, <4>2
        <4> QED  BY <4>1, <4>2
      <3>2. CASE \E a \in DOMAIN buffer : buffer'[i] = buffer[a]
        <4>1. PICK a \in DOMAIN buffer : buffer'[i] = buffer[a]
          BY <3>2
        <4>2. ASSUME NEW b \in DOMAIN buffer, buffer[b].stream = "video" PROVE buffer[a].dts <= buffer[b].dts
          <5>1. PICK j \in DOMAIN buffer' : buffer'[j] = buffer[b]
            BY <2>5
          <5> QED  BY <2>11, <4>1, <4>2, <5>1
        <4>3. EarliestIsKey(buffer)
          BY <2>11 DEF StartInv, NoVideoYet
        <4> QED  BY <2>11, <4>1, <4>2, <4>3 DEF EarliestIsKey
      <3> QED  BY <2>5, <3>1, <3>2
    <2>12. ASSUME track["video"] = None PROVE EarliestIsKey(buffer)'
      BY <2>11, <2>12 DEF EarliestIsKey
    <2>13. ASSUME track["video"] = None PROVE NoVideoYet'
      BY <1>3, <1>6, <2>10, <2>12, <2>13 DEF StartInv, NoVideoYet
    <2> QED  BY <1>3, <1>10, <2>9, <2>13 DEF StartInv
  <1> QED  BY <1>8, <1>9, <1>10

LEMMA HandleKeys ==
  ASSUME Core, FilesLayer, StartInv, KeysInv, Remembers, HandlePacket
  PROVE  StartInv' /\ KeysInv'
  <1>1. /\ UNCHANGED <<track, hand, refused, files, pending, rows, lastCutByte>> /\ place = "packet"
        /\ place' \notin {"cut", "mux"}
    BY DEF HandlePacket, Write, emitVars, fileVars, cutVars
  <1>2. /\ (NowVideo' <=> NowVideo) /\ (NowKey' <=> NowKey)
        /\ \A i \in 1..(Len(rows) - 1) : RowKeys(i) => RowKeys(i)'
    BY <1>1, QuietNow
  <1>3. KeysInv'
    BY <1>1, <1>2 DEF KeysInv, Begun
  <1> QED  BY <1>2, <1>3, HandleStart

\* The first video packet that leaves the buffer is a keyframe.
LEMMA EmitStart ==
  ASSUME Core, Core', StartInv, Emit, NowVideo' <=> NowVideo
  PROVE  /\ StartInv'
         /\ track["video"] = None => track'["video"] = None \/ hand'.key
  <1> DEFINE h == Head(buffer)
             p == Shifted(h)
             rest == Tail(buffer)
  <1>1. /\ UNCHANGED <<valid, last, given, rows>> /\ place = "write" /\ place' \in {"cut", "mux"}
        /\ buffer' = rest /\ hand' = Fixup(p, rest) /\ track' = [track EXCEPT ![p.stream] = p.dts + p.dur]
    BY DEF Emit, notWrite, readVars, fileVars, cutVars
  <1>2. buffer \in Seq(AnyPacket) /\ buffer # << >> /\ track \in Times
    BY <1>1 DEF Core, WriterInv, WriterTyped, BufferInv
  <1>3. /\ h = buffer[1] /\ 1 \in DOMAIN buffer /\ h \in AnyPacket /\ rest \in Seq(AnyPacket)
        /\ DOMAIN buffer = 1..Len(buffer) /\ Len(buffer) \in Nat
        /\ DOMAIN rest = 1..(Len(buffer) - 1) /\ \A i \in DOMAIN rest : i + 1 \in DOMAIN buffer /\ rest[i] = buffer[i + 1]
    <2>1. /\ h \in AnyPacket /\ h = buffer[1] /\ rest \in Seq(AnyPacket) /\ Len(rest) = Len(buffer) - 1
          /\ \A i \in 1..Len(rest) : rest[i] = buffer[i + 1]
      BY <1>2, HeadTailProperties
    <2>2. DOMAIN buffer = 1..Len(buffer) /\ Len(buffer) \in Nat \ {0} /\ DOMAIN rest = 1..Len(rest)
      BY <1>2, <2>1, EmptySeq, LenProperties
    <2>3. \A i \in 1..(Len(buffer) - 1) : i + 1 \in 1..Len(buffer)
      BY <2>2
    <2> QED  BY <2>1, <2>2, <2>3
  <1> HIDE DEF h, rest
  <1>4. p \in AnyPacket /\ SamePacket(p, h)
    BY <1>2, <1>3, ShiftedIs
  <1> HIDE DEF p
  <1>5. SamePacket(hand', p)
    BY <1>1, <1>3, <1>4, FixupIs
  <1>6. hand'.stream = h.stream /\ hand'.key = h.key /\ p.stream = h.stream
    BY <1>4, <1>5 DEF SamePacket
  <1>7. valid
    BY <1>2 DEF StartInv, Core, WriterInv, WriterTyped
  <1>8. track'[hand'.stream] # None
    BY <1>1 DEF Core, WriterInv, HandInv
  <1>9. ASSUME track["video"] = None, h.stream = "video" PROVE h.key
    <2>1. EarliestIsKey(buffer)
      BY <1>9 DEF StartInv, NoVideoYet
    <2>2. ASSUME NEW j \in DOMAIN buffer PROVE h.dts <= buffer[j].dts
      <3>1. buffer[1].dts \in Int
        BY <1>3 DEF AnyPacket
      <3>2. j = 1 \/ 1 < j
        BY <1>3
      <3>3. \A i, k \in DOMAIN buffer : i < k => buffer[i].dts <= buffer[k].dts
        BY DEF Core, WriterInv, BufferInv
      <3> QED  BY <1>3, <3>1, <3>2, <3>3
    <2> QED  BY <1>3, <1>9, <2>1, <2>2 DEF EarliestIsKey
  <1>10. h.stream # "video" => track'["video"] = track["video"]
    BY <1>1, <1>2, <1>6 DEF Times
  <1>11. ASSUME track'["video"] = None PROVE NoVideoYet'
    <2>1. hand'.stream # "video" /\ h.stream # "video" /\ track["video"] = None
      BY <1>6, <1>8, <1>10, <1>11
    <2>2. NoVideoYet
      BY <2>1 DEF StartInv
    <2>3. \E i \in DOMAIN rest : rest[i].stream = "video"
      <3>1. PICK i \in DOMAIN buffer : buffer[i].stream = "video"
        BY <1>7, <2>2 DEF NoVideoYet
      <3>2. i # 1
        BY <1>3, <2>1, <3>1
      <3>3. i - 1 \in DOMAIN rest /\ (i - 1) + 1 = i
        BY <1>3, <3>2
      <3> QED  BY <1>3, <3>1, <3>3
    <2>4. ASSUME NEW i \in DOMAIN rest, rest[i].stream = "video",
                 \A j \in DOMAIN rest : rest[j].stream = "video" => rest[i].dts <= rest[j].dts
          PROVE  rest[i].key
      <3>1. ASSUME NEW j \in DOMAIN buffer, buffer[j].stream = "video" PROVE rest[i].dts <= buffer[j].dts
        <4>1. j # 1
          BY <1>3, <2>1, <3>1
        <4>2. j - 1 \in DOMAIN rest /\ (j - 1) + 1 = j
          BY <1>3, <4>1
        <4>3. rest[j - 1] = buffer[j]
          BY <1>3, <4>2
        <4> QED  BY <2>4, <3>1, <4>2, <4>3
      <3>2. i + 1 \in DOMAIN buffer /\ rest[i] = buffer[i + 1]
        BY <1>3
      <3> QED  BY <2>2, <2>4, <3>1, <3>2 DEF NoVideoYet, EarliestIsKey
    <2>5. EarliestIsKey(buffer)'
      BY <1>1, <2>4 DEF EarliestIsKey
    <2> QED  BY <1>1, <2>1, <2>2, <2>3, <2>5 DEF NoVideoYet
  <1>12. StartInv'
    BY <1>1, <1>7, <1>11 DEF StartInv
  <1>13. track["video"] = None => track'["video"] = None \/ hand'.key
    BY <1>6, <1>9, <1>10
  <1> QED  BY <1>12, <1>13

LEMMA EmitKeys ==
  ASSUME Core, Core', FilesLayer, StartInv, KeysInv, Remembers, Emit
  PROVE  StartInv' /\ KeysInv'
  <1>1. /\ UNCHANGED <<refused, files, pending, rows, lastCutByte>> /\ place = "write" /\ place' \in {"cut", "mux"}
    BY DEF Emit, muxVars, fileVars, cutVars
  <1>2. /\ (NowVideo' <=> NowVideo) /\ (NowKey' <=> NowKey)
        /\ \A i \in 1..(Len(rows) - 1) : RowKeys(i) => RowKeys(i)'
    BY <1>1, QuietNow
  <1>3. StartInv' /\ (track["video"] = None => track'["video"] = None \/ hand'.key)
    BY <1>2, EmitStart
  <1>4. Begun => Begun'
    BY <1>1, <1>2, <1>3 DEF Begun
  <1> QED  BY <1>1, <1>2, <1>3, <1>4 DEF KeysInv

\* What the muxer takes is written behind the rest.
LEMMA MuxKeys ==
  ASSUME Core, FilesLayer, StartInv, KeysInv, Mux
  PROVE  StartInv' /\ KeysInv'
  <1> DEFINE w == Written
             u == Written'
             n == Len(w)
  <1>1. /\ UNCHANGED <<valid, last, buffer, given, track, files, rows, lastCutByte, videos, keys, sent>>
        /\ place = "mux" /\ place' \in {"loop", "write"}
        /\ \/ refused' = refused \cup {hand.id} /\ UNCHANGED pending
           \/ pending' = Append(pending, hand) /\ UNCHANGED refused
    BY DEF Mux, notWrite, readVars, cameraVars, cutVars
  <1>2. /\ hand \in AnyPacket /\ track[hand.stream] # None /\ keys \subseteq videos
        /\ (hand.key <=> hand.id \in keys) /\ (hand.stream = "video" <=> hand.id \in videos)
        /\ lastCutByte \in Nat
    BY <1>1, HandIs DEF Core, ReaderInv, CameraInv, WriterInv, HandInv, Known, KnownTo, FilesLayer, FilesTyped
  <1>3. EarliestIsKey(buffer)' = EarliestIsKey(buffer)
    BY <1>1 DEF EarliestIsKey
  <1>4. ASSUME NEW i \in 1..(Len(rows) - 1), RowKeys(i) PROVE RowKeys(i)'
    BY <1>1, <1>4 DEF RowKeys, FirstIsKey, HasVideo
  <1>5. CASE refused' = refused \cup {hand.id} /\ UNCHANGED pending
    <2>1. u = w
      BY <1>1, <1>5 DEF Written, Flushed
    <2>2. NowVideo' <=> NowVideo
      BY <1>1, <2>1 DEF NowVideo, HasVideo
    <2>3. StartInv'
      BY <1>1, <1>3, <2>2 DEF StartInv, NoVideoYet
    <2>4. KeysInv'
      BY <1>5 DEF KeysInv
    <2> QED  BY <2>3, <2>4
  <1>6. CASE pending' = Append(pending, hand) /\ UNCHANGED refused
    <2>1. n \in Nat /\ Len(u) = n + 1 /\ (\A k \in 1..n : u[k] = w[k]) /\ u[n + 1] = hand.id
      BY <1>1, <1>6, MuxWrites
    <2>2. lastCutByte <= n
      BY <1>1, FlushKeeps
    <2>3. /\ NowVideo = \E k \in (lastCutByte + 1)..n : w[k] \in videos
          /\ NowVideo' = \E k \in (lastCutByte + 1)..Len(u) : u[k] \in videos
      BY <1>1 DEF NowVideo, HasVideo, HasVideoIn
    <2>4. /\ NowKey = \A k \in (lastCutByte + 1)..n :
                        w[k] \in videos /\ (\A j \in (lastCutByte + 1)..(k - 1) : w[j] \notin videos) => w[k] \in keys
          /\ NowKey' = \A k \in (lastCutByte + 1)..Len(u) :
                        u[k] \in videos /\ (\A j \in (lastCutByte + 1)..(k - 1) : u[j] \notin videos) => u[k] \in keys
      BY <1>1 DEF NowKey, FirstIsKey, FirstIsKeyIn
    <2> HIDE DEF w, u, n
    <2>5. /\ \A k \in (lastCutByte + 1)..n : k \in (lastCutByte + 1)..(n + 1) /\ u[k] = w[k]
          /\ \A k \in (lastCutByte + 1)..(n + 1) : k \in (lastCutByte + 1)..n \/ k = n + 1
          /\ \A k \in (lastCutByte + 1)..n : \A j \in (lastCutByte + 1)..(k - 1) : j \in (lastCutByte + 1)..n
          /\ n + 1 \in (lastCutByte + 1)..(n + 1) /\ (n + 1) - 1 = n
      <3>1. \A k \in (lastCutByte + 1)..n : k \in 1..n /\ k \in (lastCutByte + 1)..(n + 1)
        BY <1>2, <2>1
      <3>2. \A k \in (lastCutByte + 1)..n : u[k] = w[k]
        BY <2>1, <3>1
      <3>3. /\ \A k \in (lastCutByte + 1)..(n + 1) : k \in (lastCutByte + 1)..n \/ k = n + 1
            /\ \A k \in (lastCutByte + 1)..n : \A j \in (lastCutByte + 1)..(k - 1) : j \in (lastCutByte + 1)..n
            /\ n + 1 \in (lastCutByte + 1)..(n + 1) /\ (n + 1) - 1 = n
        BY <1>2, <2>1, <2>2
      <3> QED  BY <3>1, <3>2, <3>3
    <2>6. NowVideo' <=> NowVideo \/ hand.stream = "video"
      BY <1>2, <2>1, <2>3, <2>5
    <2>7. StartInv'
      <3>1. ASSUME track["video"] = None PROVE ~NowVideo'
        BY <1>2, <2>6, <3>1 DEF StartInv, NoVideoYet
      <3> QED  BY <1>1, <1>3, <3>1 DEF StartInv, NoVideoYet
    <2>8. ASSUME KeysInv, refused = {} PROVE NowKey' /\ Begun'
      <3>1. NowKey /\ Begun
        BY <2>8 DEF KeysInv
      <3>2. NowVideo \/ hand.key \/ hand.stream # "video"
        BY <1>2, <3>1 DEF Begun
      <3>3. ASSUME NEW k \in (lastCutByte + 1)..(n + 1), u[k] \in videos,
                   \A j \in (lastCutByte + 1)..(k - 1) : u[j] \notin videos
            PROVE  u[k] \in keys
        <4>1. CASE k \in (lastCutByte + 1)..n
          <5>1. w[k] \in videos /\ \A j \in (lastCutByte + 1)..(k - 1) : w[j] \notin videos
            BY <2>5, <3>3, <4>1
          <5> QED  BY <2>4, <2>5, <3>1, <4>1, <5>1
        <4>2. CASE k = n + 1
          <5>1. \A j \in (lastCutByte + 1)..n : w[j] \notin videos
            BY <2>5, <3>3, <4>2
          <5>2. hand.id \in videos /\ ~NowVideo
            BY <2>1, <2>3, <3>3, <4>2, <5>1
          <5> QED  BY <1>2, <2>1, <3>2, <4>2, <5>2
        <4> QED  BY <2>5, <4>1, <4>2
      <3>4. Begun'
        <4>1. hand.key => NowVideo'
          BY <1>2, <2>6
        <4> QED  BY <1>1, <2>6, <3>1, <4>1 DEF Begun
      <3> QED  BY <2>1, <2>4, <3>3, <3>4
    <2> QED  BY <1>1, <1>4, <1>6, <2>7, <2>8 DEF KeysInv
  <1> QED  BY <1>1, <1>5, <1>6

\* Nothing in a file changes when the muxer writes.
LEMMA FlushedExtends ==
  ASSUME FilesTyped, pending \in Seq(AnyPacket)
  PROVE  \A f \in DOMAIN files : \A k \in DOMAIN files[f] : Flushed[f][k] = files[f][k]
  <1> SUFFICES ASSUME NEW f \in DOMAIN files, NEW k \in DOMAIN files[f] PROVE Flushed[f][k] = files[f][k]
    OBVIOUS
  <1>1. /\ Flushed[Len(files)] = Written /\ \A k1 \in 1..Len(Last(files)) : Written[k1] = Last(files)[k1]
        /\ \A g \in 1..Len(files) : g # Len(files) => Flushed[g] = files[g]
    BY FlushedIs
  <1>2. DOMAIN files = 1..Len(files) /\ Last(files) = files[Len(files)] /\ DOMAIN files[f] = 1..Len(files[f])
    BY FilesAre
  <1>3. CASE f = Len(files)
    <2>1. Flushed[f] = Written /\ files[f] = Last(files) /\ k \in 1..Len(Last(files))
      BY <1>1, <1>2, <1>3, Zenon
    <2> QED  BY ONLY <1>1, <2>1, Zenon
  <1>4. CASE f # Len(files)
    <2>1. f \in 1..Len(files)
      BY <1>2, Zenon
    <2>2. Flushed[f] = files[f]
      BY ONLY <1>1, <1>4, <2>1, Zenon
    <2> QED  BY ONLY <2>2
  <1> QED  BY <1>3, <1>4

\* The rows after a cut.
LEMMA RowsAdded ==
  ASSUME FilesTyped, pending \in Seq(AnyPacket),
         NEW from \in Nat, NEW end \in Nat, NEW row \in AnyRow, AddsRow(from, end, row)
  PROVE  /\ Len(rows) \in Nat \ {0} /\ Len(rows') = Len(rows) + 1
         /\ \A i \in 1..(Len(rows) - 1) : rows'[i] = rows[i]
         /\ rows'[Len(rows)].name = rows[Len(rows)].name
         /\ rows'[Len(rows)].from = from /\ rows'[Len(rows)].to = Len(Written)
         /\ Len(files) \in DOMAIN files /\ files'[Len(files)] = Written
         /\ \A f \in DOMAIN files : \A k \in DOMAIN files[f] : files'[f][k] = files[f][k]
  <1> DEFINE N == Len(rows)
             L == Len(files)
             E == Ended(from, end)
  <1>1. /\ Size = Len(Written) /\ Len(Written) \in Nat /\ Flushed[L] = Written
    BY FlushedIs, LenProperties
  <1>2. L \in Nat \ {0} /\ DOMAIN files = 1..L
    BY FilesAre
  <1>3. /\ N \in Nat \ {0} /\ E \in Seq(AnyRow) /\ Len(E) = N
        /\ \A i \in 1..N : i # N => E[i] = rows[i]
        /\ E[N].name = rows[N].name /\ E[N].from = from /\ E[N].to = Size
    <2>1. from \in Int /\ end \in Int /\ Size \in Int
      BY <1>1
    <2> QED  BY <2>1, EndedIs
  <1>4. rows' = Append(E, row) /\ \A f \in 1..L : files'[f] = Flushed[f]
    BY Zenon DEF AddsRow
  <1> HIDE DEF N, L, E
  <1>5. Len(rows') = N + 1 /\ \A i \in 1..N : rows'[i] = E[i]
    BY <1>3, <1>4, AppendProperties
  <1>6. /\ N \in 1..N /\ \A i \in 1..(N - 1) : i \in 1..N /\ i # N
        /\ L \in 1..L
    BY <1>2, <1>3
  <1>7. /\ \A i \in 1..(N - 1) : rows'[i] = rows[i]
        /\ rows'[N].name = rows[N].name /\ rows'[N].from = from /\ rows'[N].to = Len(Written)
    BY <1>1, <1>3, <1>5, <1>6
  <1>8. files'[L] = Written
    BY <1>1, <1>4, <1>6
  <1>9. ASSUME NEW f \in DOMAIN files, NEW k \in DOMAIN files[f] PROVE files'[f][k] = files[f][k]
    BY <1>2, <1>4, FlushedExtends
  <1> QED  BY <1>2, <1>3, <1>5, <1>6, <1>7, <1>8, <1>9 DEF N, L

\* A cut is made before a keyframe: the row that is closed begins with one, and the next will.
LEMMA CutKeys ==
  ASSUME Core, FilesLayer, StartInv, KeysInv, place = "cut", place' = "mux",
         NEW from \in Nat, NEW end \in Nat, NEW row \in AnyRow, AddsRow(from, end, row),
         UNCHANGED <<readVars, bufferVars, emitVars, refused>>,
         \A k \in (lastCutByte' + 1)..Len(Written') : Written'[k] \notin videos
  PROVE  StartInv' /\ KeysInv'
  <1> DEFINE N == Len(rows)
             w == Written
  <1>1. UNCHANGED <<sent, videos, keys, valid, last, buffer, given, track, hand, refused>>
    BY DEF readVars, cameraVars, bufferVars, emitVars
  <1>2. FilesTyped /\ pending \in Seq(AnyPacket) /\ lastCutByte \in Nat /\ CameraTyped /\ sent \in Nat
    BY DEF FilesLayer, FilesTyped, Core, WriterInv, WriterTyped, ReaderInv, CameraTyped
  <1>3. /\ N \in Nat \ {0} /\ Len(rows') = N + 1
        /\ \A i \in 1..(N - 1) : rows'[i] = rows[i]
        /\ rows'[N].name = rows[N].name /\ rows'[N].from = from /\ rows'[N].to = Len(w)
        /\ Len(files) \in DOMAIN files /\ files'[Len(files)] = w
        /\ \A f \in DOMAIN files : \A k \in DOMAIN files[f] : files'[f][k] = files[f][k]
    BY <1>2, RowsAdded
  <1>4. rows[N].name = Len(files)
    BY DEF FilesLayer, RowsInv
  <1>5. hand.key /\ hand.stream = "video" /\ track["video"] # None
    BY DEF Core, ReaderInv, CameraInv, WriterInv, HandInv, Known, KnownTo
  <1>6. StartInv'
    BY <1>1, <1>5 DEF StartInv
  <1>7. NowKey' /\ Begun'
    <2>1. NowKey'
      BY <1>1 DEF NowKey, FirstIsKey, FirstIsKeyIn
    <2>2. Begun'
      BY <1>1, <1>5 DEF Begun
    <2> QED  BY <2>1, <2>2
  <1>8. Remembers
    BY <1>1, <1>2 DEF Remembers
  <1>9. ASSUME KeysInv, refused = {}, NEW i \in 1..(Len(rows') - 1) PROVE RowKeys(i)'
    <2>1. CASE i # N
      <3>1. i \in 1..(N - 1)
        BY <1>3, <2>1
      <3>2. RowKeys(i) /\ Whole(rows[i])
        BY <1>9, <3>1 DEF KeysInv, FilesLayer, RowsInv
      <3>3. rows'[i] = rows[i] /\ \A k \in DOMAIN files[rows[i].name] : files'[rows[i].name][k] = files[rows[i].name][k]
        BY <1>3, <3>1, <3>2 DEF Whole, WholeIn
      <3> QED  BY <1>2, <1>8, <3>1, <3>2, <3>3, RowKeysKept
    <2>2. CASE i = N
      <3>1. NowKey /\ Begun
        BY <1>9 DEF KeysInv
      <3>2. FirstIsKeyIn(videos, keys, w, lastCutByte, Len(w))
        BY <3>1 DEF NowKey, FirstIsKey
      <3>3. HasVideoIn(videos, w, lastCutByte, Len(w)) \/ N = 1
        BY <3>1 DEF Begun, NowVideo, HasVideo
      <3>4. FirstIsKeyIn(videos, keys, w, from, Len(w)) /\ (HasVideoIn(videos, w, from, Len(w)) \/ N = 1)
        <4>1. CASE from = lastCutByte
          BY <3>2, <3>3, <4>1
        <4>2. CASE from # lastCutByte
          <5>1. from = InitLen /\ lastCutByte = 0 /\ Fragmented
            BY <4>2, Zenon DEF AddsRow
          <5>2. Len(Header) = InitLen /\ \A k \in 1..InitLen : w[k] = 0
            BY <5>1, FlushKeeps, HeaderIs
          <5>3. 0 \notin videos
            BY DEF Core, ReaderInv, CameraInv
          <5>4. Len(w) \in Int /\ from \in Int /\ lastCutByte \in Int /\ lastCutByte <= from /\ lastCutByte + 1 = 1
            BY <1>2, <5>1, FlushedIs, LenProperties
          <5>5. \A k \in (lastCutByte + 1)..from : w[k] \notin videos
            BY <5>1, <5>2, <5>3, <5>4
          <5> HIDE DEF w
          <5>6. /\ FirstIsKeyIn(videos, keys, w, lastCutByte, Len(w)) => FirstIsKeyIn(videos, keys, w, from, Len(w))
                /\ HasVideoIn(videos, w, lastCutByte, Len(w)) => HasVideoIn(videos, w, from, Len(w))
            BY <5>4, <5>5, NoVideoBefore
          <5> QED  BY <3>2, <3>3, <5>6
        <4> QED  BY <4>1, <4>2
      <3>5. rows'[i].name = Len(files) /\ rows'[i].from = from /\ rows'[i].to = Len(w) /\ files'[Len(files)] = w
        BY <1>3, <1>4, <2>2
      <3> QED  BY <1>1, <2>2, <3>4, <3>5 DEF RowKeys, FirstIsKey, HasVideo
    <2> QED  BY <2>1, <2>2
  <1> QED  BY <1>1, <1>6, <1>7, <1>9 DEF KeysInv

\* Both cuts, with what the last file is then.
LEMMA FragKeys ==
  ASSUME Core, FilesLayer, StartInv, KeysInv, Frag
  PROVE  StartInv' /\ KeysInv'
  <1>1. /\ place = "cut" /\ place' = "mux" /\ files' = Flushed /\ pending' = << >> /\ lastCutByte' = Size
        /\ UNCHANGED <<readVars, bufferVars, emitVars, refused>>
    BY DEF Frag, Flush, notCut, notWrite, readVars, bufferVars, emitVars, muxVars
  <1>2. PICK from \in Nat, end \in Nat, row \in AnyRow : AddsRow(from, end, row)
    BY FragLayer
  <1>3. FilesTyped /\ pending \in Seq(AnyPacket)
    BY DEF FilesLayer, FilesTyped, Core, WriterInv, WriterTyped
  <1>4. Flushed \in Seq(Seq(Nat)) /\ Flushed # << >> /\ Size = Len(Written) /\ Len(Written) \in Nat
    BY <1>3, FlushedIs, LenProperties
  <1>5. Written' = Written
    <2>1. Written' = Last([files' EXCEPT ![Len(files')] = @ \o Ids(pending')])
      BY DEF Written, Flushed
    <2> DEFINE F == Flushed
    <2>2. Written' = Last([F EXCEPT ![Len(F)] = @ \o Ids(<< >>)]) /\ F \in Seq(Seq(Nat)) /\ F # << >>
      BY <1>1, <1>4, <2>1
    <2>3. Written = Last(F)
      BY DEF Written
    <2> HIDE DEF F
    <2> QED  BY <2>2, <2>3, NothingToFlush
  <1>6. \A k \in (lastCutByte' + 1)..Len(Written') : Written'[k] \notin videos
    BY <1>1, <1>4, <1>5
  <1> QED  BY <1>1, <1>2, <1>6, CutKeys

LEMMA NewFileKeys ==
  ASSUME Core, FilesLayer, StartInv, KeysInv, NewFile
  PROVE  StartInv' /\ KeysInv'
  <1>1. /\ place = "cut" /\ place' = "mux" /\ files' = Append(Flushed, Header) /\ pending' = << >> /\ lastCutByte' = 0
        /\ UNCHANGED <<readVars, bufferVars, emitVars, refused>>
    BY DEF NewFile, Flush, FirstByte, notCut, notWrite, readVars, bufferVars, emitVars, muxVars
  <1>2. /\ Last(files') = Header /\ FilesLayer'
        /\ \E from, end \in Nat, row \in AnyRow : AddsRow(from, end, row)
    BY NewFileLayer
  <1>3. PICK from \in Nat, end \in Nat, row \in AnyRow : AddsRow(from, end, row)
    BY <1>2
  <1>4. files' \in Seq(Seq(Nat)) /\ files' # << >>
    BY <1>2 DEF FilesLayer, FilesTyped
  <1>5. Written' = Header
    <2>1. Written' = Last([files' EXCEPT ![Len(files')] = @ \o Ids(pending')])
      BY DEF Written, Flushed
    <2> DEFINE F == files'
    <2>2. Written' = Last([F EXCEPT ![Len(F)] = @ \o Ids(<< >>)]) /\ F \in Seq(Seq(Nat)) /\ F # << >>
      BY <1>1, <1>4, <2>1
    <2> HIDE DEF F
    <2>3. Written' = Last(F)
      BY <2>2, NothingToFlush
    <2> QED  BY <1>2, <2>3 DEF F
  <1>6. \A k \in (lastCutByte' + 1)..Len(Written') : Written'[k] \notin videos
    <2>1. 0 \notin videos /\ lastCutByte' + 1 = 1
      BY <1>1 DEF Core, ReaderInv, CameraInv
    <2> QED  BY <1>5, <2>1, HeaderIs
  <1> QED  BY <1>1, <1>3, <1>6, CutKeys

\* At the end nothing is left to be written.
LEMMA FinishKeys ==
  ASSUME Core, FilesLayer, StartInv, KeysInv, Finish
  PROVE  StartInv' /\ KeysInv'
  <1> DEFINE N == Len(rows)
             end == Time(lastPts)
  <1>1. /\ place = "loop" /\ place' = "ended" /\ files' = Flushed /\ pending' = << >>
        /\ rows' = Ended(lastCutByte, end)
        /\ UNCHANGED <<sent, videos, keys, valid, last, buffer, given, track, hand, refused, lastCutByte>>
    BY DEF Finish, Flush, notCut, notWrite, readVars, cameraVars, bufferVars, emitVars, muxVars
  <1>2. FilesTyped /\ pending \in Seq(AnyPacket) /\ lastCutByte \in Nat /\ CameraTyped /\ sent \in Nat /\ lastPts \in Nat
    BY DEF FilesLayer, FilesTyped, Core, WriterInv, WriterTyped, ReaderInv, CameraTyped
  <1>3. /\ Flushed \in Seq(Seq(Nat)) /\ Flushed # << >> /\ Size = Len(Written) /\ Len(Written) \in Nat
    BY <1>2, FlushedIs, LenProperties
  <1>4. /\ N \in Nat \ {0} /\ Len(rows') = N /\ \A i \in 1..N : i # N => rows'[i] = rows[i]
    <2>1. lastCutByte \in Int /\ end \in Int /\ Size \in Int
      BY <1>2, <1>3 DEF Time, CameraTyped
    <2> HIDE DEF end
    <2> QED  BY <1>1, <1>2, <2>1, EndedIs
  <1>5. Written' = Written
    <2>1. Written' = Last([files' EXCEPT ![Len(files')] = @ \o Ids(pending')])
      BY DEF Written, Flushed
    <2> DEFINE F == Flushed
    <2>2. Written' = Last([F EXCEPT ![Len(F)] = @ \o Ids(<< >>)]) /\ F \in Seq(Seq(Nat)) /\ F # << >>
      BY <1>1, <1>3, <2>1
    <2>3. Written = Last(F)
      BY DEF Written
    <2> HIDE DEF F
    <2> QED  BY <2>2, <2>3, NothingToFlush
  <1>6. Remembers
    BY <1>1, <1>2 DEF Remembers
  <1>7. (NowVideo' <=> NowVideo) /\ (NowKey' <=> NowKey)
    BY <1>1, <1>5, <1>6, NowKept
  <1>8. StartInv'
    <2>1. EarliestIsKey(buffer)' = EarliestIsKey(buffer)
      BY <1>1 DEF EarliestIsKey
    <2> QED  BY <1>1, <1>4, <1>7, <2>1 DEF StartInv, NoVideoYet
  <1>9. ASSUME NEW i \in 1..(N - 1), RowKeys(i) PROVE RowKeys(i)'
    <2>1. rows'[i] = rows[i] /\ i \in 1..(Len(rows) - 1)
      BY <1>4
    <2>2. rows[i].name \in DOMAIN files
      BY <2>1 DEF FilesLayer, RowsInv, Whole, WholeIn
    <2>3. \A k \in DOMAIN files[rows[i].name] : Flushed[rows[i].name][k] = files[rows[i].name][k]
      BY <1>2, <2>2, FlushedExtends
    <2>4. \A k \in DOMAIN files[rows[i].name] : files'[rows[i].name][k] = files[rows[i].name][k]
      BY <1>1, <2>3
    <2> QED  BY <1>2, <1>6, <1>9, <2>1, <2>4, RowKeysKept
  <1>10. Begun => Begun'
    BY <1>1, <1>4, <1>7 DEF Begun
  <1> QED  BY <1>1, <1>4, <1>7, <1>8, <1>9, <1>10 DEF KeysInv

LEMMA KeysStep ==
  ASSUME Core, Core', FilesLayer, StartInv, KeysInv, [Next]_vars
  PROVE  StartInv' /\ KeysInv'
  <1>1. Remembers
    BY CoreStep
  <1>2. CASE Charge \/ Connected \/ GetNextPacket
    <2>1. /\ UNCHANGED <<valid, writerVars>> /\ place \in {"charge", "loop"} /\ place' \in {"charge", "loop", "packet"}
      BY <1>2 DEF Charge, Connected, GetNextPacket, readVars
    <2> QED  BY <1>1, <2>1, ReadKeys
  <1>3. CASE UNCHANGED vars
    <2>1. UNCHANGED <<place, videos, keys, valid, last, buffer, given, track, hand, refused, files, pending, rows,
                      lastCutByte>>
      BY <1>3 DEF vars, readVars, cameraVars, writerVars, bufferVars, emitVars, muxVars, fileVars, cutVars
    <2>2. Written' = Written /\ EarliestIsKey(buffer)' = EarliestIsKey(buffer)
      BY <2>1 DEF Written, Flushed, EarliestIsKey
    <2>3. (NowVideo' <=> NowVideo) /\ (NowKey' <=> NowKey)
      BY <2>1, <2>2 DEF NowVideo, NowKey, HasVideo, FirstIsKey
    <2>4. ASSUME NEW i \in 1..(Len(rows) - 1), RowKeys(i) PROVE RowKeys(i)'
      BY <2>1, <2>4 DEF RowKeys, HasVideo, FirstIsKey
    <2>5. StartInv'
      BY <2>1, <2>2, <2>3 DEF StartInv, NoVideoYet
    <2>6. KeysInv'
      BY <2>1, <2>3, <2>4 DEF KeysInv, Begun
    <2> QED  BY <2>5, <2>6
  <1> QED  BY <1>1, <1>2, <1>3, HandleKeys, EmitKeys, MuxKeys, FragKeys, NewFileKeys, FinishKeys DEF Next

LEMMA KeysInit ==
  ASSUME Init
  PROVE  StartInv /\ KeysInv
  <1>1. /\ files = <<Header>> /\ rows = <<Row(1, Time(0))>> /\ Len(rows) = 1 /\ pending = << >> /\ buffer = << >>
        /\ place = "charge" /\ valid = FALSE /\ given = {} /\ lastCutByte = 0 /\ videos = {}
        /\ last["video"] = None /\ track["video"] = None /\ DOMAIN buffer = {}
    BY EmptySeq DEF Init, Streams
  <1>2. ~NowVideo /\ NowKey
    BY <1>1 DEF NowVideo, NowKey, HasVideo, FirstIsKey, HasVideoIn, FirstIsKeyIn
  <1>3. StartInv
    BY <1>1, <1>2 DEF StartInv, NoVideoYet, EarliestIsKey
  <1>4. KeysInv
    BY <1>1, <1>2 DEF KeysInv, Begun
  <1> QED  BY <1>3, <1>4

\* Every segment can be played alone: the rows of a file follow each other in time and bytes and
\* cover it, and the first video packet of each is a keyframe, also when times jump.
THEOREM SegmentsStandAlone == Spec => []SegmentsIndependent
  <1> DEFINE Inv == Core /\ FilesLayer /\ StartInv /\ KeysInv
  <1>1. Inv /\ [Next]_vars => Inv'
    BY CoreStep, LayerStep, KeysStep
  <1>2. ASSUME Inv PROVE SegmentsIndependent
    <2> DEFINE N == Len(rows)
    <2>1. FilesTyped /\ N \in Nat \ {0} /\ DOMAIN rows = 1..N
      BY <1>2, RowsAre DEF FilesLayer
    <2> SUFFICES ASSUME NEW i \in Closed
                 PROVE  LET row == rows[i]
                            isLast == i + 1 \notin DOMAIN rows \/ rows[i + 1].name # row.name
                        IN /\ i = 1 \/ rows[i - 1].name # row.name => row.from \in {0, InitLen}
                           /\ IF isLast THEN row.to = Len(files[row.name])
                              ELSE row.end = rows[i + 1].start /\ (i + 1 \in Closed => row.to = rows[i + 1].from)
                           /\ refused = {} =>
                                /\ VideoIn(row) = {} => i = 1
                                /\ \A k \in VideoIn(row) :
                                     (\A j \in VideoIn(row) : k <= j) => files[row.name][k] \in keys
      BY DEF SegmentsIndependent
    <2> DEFINE row == rows[i]
               f == files[row.name]
    <2>2. /\ i \in 1..N /\ Whole(row) /\ (i # N => i \in 1..(N - 1)) /\ (i = N => place = "ended")
      BY <1>2, ClosedIs
    <2>3. row.name \in DOMAIN files /\ row.from \in Nat /\ row.to \in Nat
      BY <2>2 DEF Whole, WholeIn
    <2>4. i = 1 \/ rows[i - 1].name # row.name => row.from \in {0, InitLen}
      <3>1. CASE i # N
        BY <1>2, <2>2, <3>1 DEF FilesLayer, RowsInv, BeginsFile
      <3>2. CASE i = N
        <4>1. row.from = lastCutByte /\ (BeginsFile(N) => lastCutByte = 0)
          BY <1>2, <2>2, <3>2 DEF FilesLayer, RowsInv
        <4> QED  BY <3>2, <4>1 DEF BeginsFile
      <3> QED  BY <3>1, <3>2
    <2>5. IF i + 1 \notin DOMAIN rows \/ rows[i + 1].name # row.name THEN row.to = Len(f)
          ELSE row.end = rows[i + 1].start /\ (i + 1 \in Closed => row.to = rows[i + 1].from)
      <3>1. CASE i # N
        <4>1. i \in 1..(N - 1) /\ i + 1 \in DOMAIN rows
          <5>1. N \in Nat /\ DOMAIN rows = 1..N /\ i \in 1..(N - 1)
            BY ONLY <2>1, <2>2, <3>1, Zenon
          <5> HIDE DEF N
          <5> QED  BY ONLY <5>1
        <4>2. Follows(row, rows[i + 1]) /\ row.to = IF EndsFile(i) THEN Len(f) ELSE From(i + 1)
          BY <1>2, <4>1 DEF FilesLayer, RowsInv
        <4>3. i + 1 \in Closed => From(i + 1) = rows[i + 1].from
          <5>1. CASE i + 1 = N
            <6>1. i + 1 \in Closed => place = "ended"
              BY <1>2, <5>1, ClosedIs
            <6> QED  BY <1>2, <5>1, <6>1 DEF FilesLayer, RowsInv, From
          <5>2. CASE i + 1 # N
            BY <5>2 DEF From
          <5> QED  BY <5>1, <5>2
        <4> QED  BY <4>1, <4>2, <4>3 DEF EndsFile, Follows
      <3>2. CASE i = N
        <4>1. i + 1 \notin DOMAIN rows
          BY <2>1, <3>2
        <4>2. row.to = Len(files[Len(files)]) /\ row.name = Len(files)
          BY <1>2, <2>2, <3>2 DEF FilesLayer, RowsInv
        <4> QED  BY <4>1, <4>2
      <3> QED  BY <3>1, <3>2
    <2>6. ASSUME refused = {} PROVE FirstIsKeyIn(videos, keys, f, row.from, row.to) /\ (i = 1 \/ HasVideoIn(videos, f, row.from, row.to))
      <3>1. CASE i # N
        BY <1>2, <2>2, <2>6, <3>1 DEF KeysInv, RowKeys, FirstIsKey, HasVideo
      <3>2. CASE i = N
        <4>1. /\ row.to = Len(files[Len(files)]) /\ row.name = Len(files) /\ row.from = lastCutByte
              /\ pending = << >> /\ place = "ended"
          BY <1>2, <2>2, <3>2 DEF FilesLayer, RowsInv
        <4>2. files \in Seq(Seq(Nat)) /\ files # << >> /\ Last(files) = files[Len(files)]
          BY <2>1, FilesAre DEF FilesTyped
        <4>3. Written = f
          <5>1. Written = Last([files EXCEPT ![Len(files)] = @ \o Ids(<< >>)])
            BY <4>1 DEF Written, Flushed
          <5> QED  BY <4>1, <4>2, <5>1, NothingToFlush
        <4>4. NowKey /\ Begun
          BY <1>2, <2>6 DEF KeysInv
        <4>5. NowVideo \/ N = 1
          BY <4>1, <4>4 DEF Begun
        <4> QED  BY <3>2, <4>1, <4>3, <4>4, <4>5 DEF NowKey, NowVideo, FirstIsKey, HasVideo
      <3> QED  BY <3>1, <3>2
    <2> HIDE DEF f
    <2>7. VideoIn(row) = {k \in (row.from + 1)..row.to : f[k] \in videos}
      BY DEF VideoIn, f
    <2>8. ASSUME refused = {} PROVE VideoIn(row) = {} => i = 1
      BY <2>6, <2>7, <2>8 DEF HasVideoIn
    <2>9. ASSUME refused = {}, NEW k \in VideoIn(row), \A j \in VideoIn(row) : k <= j PROVE f[k] \in keys
      <3>1. k \in (row.from + 1)..row.to /\ f[k] \in videos
        BY <2>7
      <3>2. ASSUME NEW j \in (row.from + 1)..(k - 1) PROVE f[j] \notin videos
        <4>1. j \in (row.from + 1)..row.to /\ ~(k <= j)
          BY <2>3, <3>1
        <4> QED  BY <2>7, <2>9, <4>1
      <3> QED  BY <2>6, <2>9, <3>1, <3>2 DEF FirstIsKeyIn
    <2> QED  BY <2>4, <2>5, <2>8, <2>9 DEF f
  <1> HIDE DEF Inv
  <1>3. Init => Inv
    BY CoreInit, LayerInit, KeysInit DEF Inv
  <1> QED  BY <1>1, <1>2, <1>3, PTL DEF Spec

-----------------------------------------------------------------------------
(* What is recorded *)

SentInv == sent <= MaxPackets
RecordingInv == Core /\ FilesLayer /\ IdInv /\ SentInv

\* A part of a file by its bytes.
Behind(from) == IF from = 0 THEN Len(Header) ELSE from
PartHas(f, from, to) ==
  /\ Behind(from) \in Nat /\ Part(f, from, to) \in Seq(Nat)
  /\ Len(Part(f, from, to)) = to - Behind(from)
  /\ \A k \in 1..(to - Behind(from)) : Part(f, from, to)[k] = f[Behind(from) + k]
LEMMA PartIs ==
  ASSUME NEW f, f \in Seq(Nat), NEW from, from \in Nat, NEW to, to \in Nat,
         to <= Len(f), Behind(from) <= to
  PROVE  PartHas(f, from, to)
  <1> DEFINE b == Behind(from)
             u == SubSeq(f, b + 1, to)
  <1>1. b \in Nat /\ Part(f, from, to) = u
    BY HeaderIs DEF Behind, Part
  <1>2. Len(f) \in Nat /\ \A k \in 1..Len(f) : f[k] \in Nat
    BY LenProperties, ElementOfSeq
  <1> HIDE DEF b
  <1>3. b + 1 \in Int /\ to \in Int /\ (to - (b + 1)) + 1 = to - b /\ b <= to
    BY <1>1 DEF b
  <1>4. \A k \in (b + 1)..to : f[k] \in Nat
    BY <1>1, <1>2
  <1>5. /\ u \in Seq(Nat) /\ Len(u) = to - b /\ \A k \in 1..(to - b) : u[k] = f[b + k]
    BY <1>1, <1>2, <1>3, <1>4
  <1>6. /\ Behind(from) \in Nat /\ Part(f, from, to) \in Seq(Nat)
        /\ Len(Part(f, from, to)) = to - Behind(from)
        /\ \A k \in 1..(to - Behind(from)) : Part(f, from, to)[k] = f[Behind(from) + k]
    BY <1>1, <1>5 DEF b
  <1> QED  BY <1>6 DEF PartHas

\* Parts of files that have the same bytes there.
LEMMA PartsAlike ==
  ASSUME NEW f, f \in Seq(Nat), NEW g, g \in Seq(Nat), NEW from, from \in Nat, NEW start, start \in Nat,
         NEW to, to \in Nat, to <= Len(f), to <= Len(g), Behind(from) <= to, Behind(start) = Behind(from),
         \A k \in 1..to : g[k] = f[k]
  PROVE  Part(g, start, to) = Part(f, from, to)
  <1> DEFINE b == Behind(from)
             u == Part(f, from, to)
             w == Part(g, start, to)
  <1>1. b \in Nat /\ u \in Seq(Nat) /\ Len(u) = to - b /\ \A k \in 1..(to - b) : u[k] = f[b + k]
    <2>1. PartHas(f, from, to)
      BY PartIs
    <2> QED  BY ONLY <2>1 DEF PartHas
  <1>2. w \in Seq(Nat) /\ Len(w) = to - b /\ \A k \in 1..(to - b) : w[k] = g[b + k]
    <2>1. Behind(start) = b /\ Behind(start) <= to
      OBVIOUS
    <2>2. /\ w \in Seq(Nat) /\ Len(w) = to - Behind(start)
          /\ \A k \in 1..(to - Behind(start)) : w[k] = g[Behind(start) + k]
      <3>1. PartHas(g, start, to)
        BY <2>1, PartIs
      <3> QED  BY ONLY <3>1 DEF PartHas
    <2> QED  BY ONLY <2>1, <2>2
  <1> HIDE DEF b, u, w
  <1>3. ASSUME NEW k \in 1..(to - b) PROVE u[k] = w[k]
    <2>1. b + k \in 1..to
      BY ONLY <1>1, to \in Nat, k \in 1..(to - b)
    <2> QED  BY <1>1, <1>2, <2>1
  <1>4. u = w
    BY <1>1, <1>2, <1>3, SeqEqual
  <1> QED  BY <1>4 DEF u, w

\* The finished segments are those of all rows but the last, or of all at the end.
Count == IF place = "ended" THEN Len(rows) ELSE Len(rows) - 1
LEMMA ClosedAre ==
  ASSUME FilesLayer
  PROVE  Count \in Nat /\ Closed = 1..Count /\ Len(rows) \in Nat \ {0} /\ Count <= Len(rows)
  <1> DEFINE n == Len(rows)
             m == Len(rows) - 1
  <1>1. n \in Nat \ {0} /\ DOMAIN rows = 1..n
    BY RowsAre DEF FilesLayer
  <1>2. m \in Nat /\ n = m + 1
    BY <1>1
  <1>3. ASSUME NEW i \in 1..m PROVE rows[i].end # None
    <2>1. rows[i].end \in Nat
      BY DEF FilesLayer, RowsInv, Whole, WholeIn
    <2> QED  BY <2>1 DEF None
  <1>4. /\ place = "ended" => Count = n /\ rows[n].end \in Nat
        /\ place # "ended" => Count = m /\ rows[n].end = None
    BY DEF Count, FilesLayer, RowsInv, Whole, WholeIn
  <1> HIDE DEF n, m
  <1>5. \A i : i \in 1..n <=> i = n \/ i \in 1..m
    BY ONLY <1>2
  <1>6. n \notin 1..m
    BY ONLY <1>2
  <1>7. CASE place = "ended"
    <2>1. rows[n].end # None
      BY <1>4, <1>7 DEF None
    <2>2. \A i \in 1..n : rows[i].end # None
      BY <1>3, <1>5, <2>1
    <2>3. Closed = 1..n
      BY ONLY <1>1, <2>2, Zenon DEF Closed
    <2> QED  BY <1>1, <1>4, <1>7, <2>3 DEF n
  <1>8. CASE place # "ended"
    <2>1. rows[n].end = None
      BY <1>4, <1>8
    <2>2. \A i : i \in DOMAIN rows /\ rows[i].end # None <=> i \in 1..m
      BY ONLY <1>1, <1>3, <1>5, <1>6, <2>1
    <2>3. Closed = 1..m
      BY ONLY <2>2, Zenon DEF Closed
    <2>4. m <= n
      BY <1>2
    <2> QED  BY <1>1, <1>2, <1>4, <1>8, <2>3, <2>4 DEF n
  <1> QED  BY <1>7, <1>8

SegmentIn(fs, rs, i) == Part(fs[rs[i].name], rs[i].from, rs[i].to)
SegmentIs(i) == SegmentIn(files, rows, i)
LEMMA SegmentsAre ==
  ASSUME FilesLayer
  PROVE  /\ Segments \in Seq(Seq(Nat)) /\ Len(Segments) = Count /\ Count \in Nat
         /\ \A i \in 1..Count :
              /\ Segments[i] = SegmentIs(i) /\ SegmentIs(i) \in Seq(Nat)
              /\ Whole(rows[i]) /\ rows[i].name \in DOMAIN files /\ files[rows[i].name] \in Seq(Nat)
              /\ Behind(rows[i].from) <= rows[i].to
  <1>1. Count \in Nat /\ Closed = 1..Count
    BY ClosedAre
  <1>2. ASSUME NEW i \in 1..Count
        PROVE  /\ Whole(rows[i]) /\ rows[i].name \in DOMAIN files /\ files[rows[i].name] \in Seq(Nat)
               /\ SegmentIs(i) \in Seq(Nat) /\ Behind(rows[i].from) <= rows[i].to
    <2>1. Whole(rows[i])
      BY <1>1, ClosedIs
    <2>2. rows[i].name \in DOMAIN files /\ files[rows[i].name] \in Seq(Nat)
      BY <2>1, FilesAre DEF FilesLayer, Whole, WholeIn
    <2>3. rows[i].from \in Nat /\ rows[i].to \in Nat /\ rows[i].to <= Len(files[rows[i].name])
          /\ Behind(rows[i].from) <= rows[i].to
      BY <2>1 DEF Whole, WholeIn, Behind
    <2>4. SegmentIs(i) \in Seq(Nat)
      <3>1. PartHas(files[rows[i].name], rows[i].from, rows[i].to)
        BY <2>2, <2>3, PartIs
      <3> QED  BY ONLY <3>1 DEF PartHas, SegmentIs, SegmentIn
    <2> QED  BY <2>1, <2>2, <2>3, <2>4
  <1>3. Segments = [i \in 1..Count |-> SegmentIs(i)]
    BY <1>1 DEF Segments, SegmentIs, SegmentIn
  <1> DEFINE n == Count
             T == [i \in 1..n |-> SegmentIs(i)]
  <1>4. n \in Nat /\ \A i \in 1..n : SegmentIs(i) \in Seq(Nat)
    BY <1>1, <1>2
  <1> HIDE DEF n
  <1>5. T \in Seq(Seq(Nat)) /\ Len(T) = n /\ \A i \in 1..n : T[i] = SegmentIs(i)
    BY <1>4
  <1> QED  BY <1>1, <1>2, <1>3, <1>5 DEF n

\* The same after a step.
RowsAreSegments ==
  /\ Segments \in Seq(Seq(Nat)) /\ Len(Segments) = Count
  /\ \A i \in 1..Count :
       /\ Segments[i] = SegmentIn(files, rows, i) /\ WholeIn(files, rows[i])
       /\ files[rows[i].name] \in Seq(Nat)
LEMMA SegmentsNext == FilesLayer' => RowsAreSegments'
  <1>1. FilesLayer => RowsAreSegments
    BY SegmentsAre DEF SegmentIs, Whole, RowsAreSegments
  <1> QED  BY <1>1, PTL

\* The segment that is being recorded.
LEMMA OpenIs ==
  ASSUME Core, FilesLayer, place # "ended"
  PROVE  /\ Written \in Seq(Nat) /\ Size = Len(Written) /\ Len(Written) \in Nat /\ lastCutByte \in Nat
         /\ Behind(lastCutByte) <= Len(Written)
         /\ OpenSegment = Part(Written, lastCutByte, Len(Written)) /\ OpenSegment \in Seq(Nat)
  <1>1. FilesTyped /\ pending \in Seq(AnyPacket) /\ lastCutByte \in Nat
    BY DEF FilesLayer, FilesTyped, Core, WriterInv, WriterTyped
  <1>2. Written \in Seq(Nat) /\ Size = Len(Written) /\ Len(Written) \in Nat
    BY <1>1, FlushedIs, LenProperties
  <1>3. Behind(lastCutByte) <= Len(Written)
    BY FlushKeeps DEF Behind
  <1>4. OpenSegment = Part(Written, lastCutByte, Len(Written))
    BY <1>2 DEF OpenSegment, Written
  <1>5. Part(Written, lastCutByte, Len(Written)) \in Seq(Nat)
    <2>1. Len(Written) <= Len(Written)
      BY <1>2
    <2>2. PartHas(Written, lastCutByte, Len(Written))
      BY <1>1, <1>2, <1>3, <2>1, PartIs
    <2> QED  BY ONLY <2>2 DEF PartHas
  <1> QED  BY <1>1, <1>2, <1>3, <1>4, <1>5

\* As long as no row is closed and nothing is added to what is written, both stay as they are.
LEMMA SameSegments ==
  ASSUME UNCHANGED <<files, rows>>
  PROVE  Segments' = Segments
  BY DEF Segments, Closed

LEMMA SameOpen ==
  ASSUME UNCHANGED <<files, pending, lastCutByte>>, place # "ended", place' # "ended"
  PROVE  OpenSegment' = OpenSegment
  <1>1. Flushed' = Flushed /\ Size' = Size
    BY DEF Flushed, Size
  <1> QED  BY <1>1 DEF OpenSegment

\* What is recorded is in a file or in the muxer.
LEMMA RecordedIsKept ==
  ASSUME Core, FilesLayer, place # "ended", NEW x, x \in R!Recorded, x # 0
  PROVE  x \in IdsIn(files) \cup IdsOf(pending)
  <1>1. PICK s \in Range(Segments) \cup {OpenSegment} : x \in Range(s)
    BY Zenon DEF R!Recorded, R!Range, Range
  <1>2. CASE s \in Range(Segments)
    <2>1. PICK i \in DOMAIN Segments : s = Segments[i]
      BY <1>2, Zenon DEF Range
    <2>2. i \in 1..Count
      BY <2>1, SegmentsAre, LenProperties
    <2> DEFINE r == rows[i]
               f == files[r.name]
               from == r.from
               to == r.to
    <2>3. /\ Segments[i] = SegmentIs(i) /\ Whole(r) /\ r.name \in DOMAIN files /\ f \in Seq(Nat)
          /\ Behind(r.from) <= r.to
      BY <2>2, SegmentsAre
    <2>4. from \in Nat /\ to \in Nat /\ to <= Len(f) /\ SegmentIs(i) = Part(f, from, to)
          /\ Behind(from) <= to /\ f \in Seq(Nat)
      BY <2>3 DEF Whole, WholeIn, SegmentIs, SegmentIn
    <2> DEFINE b == Behind(from)
               u == Part(f, from, to)
    <2> HIDE DEF f, from, to
    <2>5. /\ b \in Nat /\ u \in Seq(Nat) /\ Len(u) = to - b /\ \A k \in 1..(to - b) : u[k] = f[b + k]
      <3>1. PartHas(f, from, to)
        BY <2>4, PartIs
      <3> QED  BY ONLY <3>1 DEF PartHas
    <2>6. s = u /\ DOMAIN f = 1..Len(f) /\ DOMAIN u = 1..Len(u) /\ Len(f) \in Nat
      BY <2>1, <2>3, <2>4, <2>5, LenProperties
    <2> HIDE DEF b, u
    <2>7. PICK k \in 1..(to - b) : x = u[k]
      BY <1>1, <2>5, <2>6 DEF Range
    <2>8. b + k \in DOMAIN f
      <3>1. b \in Nat /\ to \in Nat /\ Len(f) \in Nat /\ to <= Len(f)
        BY <2>4, <2>5, <2>6
      <3>2. b + k \in 1..Len(f)
        BY ONLY <3>1, k \in 1..(to - b)
      <3> QED  BY <2>6, <3>2
    <2>9. f[b + k] = x
      BY <2>5, <2>7
    <2>10. \E g \in DOMAIN files : \E j \in DOMAIN files[g] : files[g][j] = x
      BY <2>3, <2>8, <2>9 DEF f
    <2> QED  BY <2>10, InFile
  <1>3. CASE s = OpenSegment
    <2> DEFINE w == Written
               a == Last(files)
               b == Behind(lastCutByte)
               u == OpenSegment
    <2>1. /\ w \in Seq(Nat) /\ Len(w) \in Nat /\ b <= Len(w) /\ lastCutByte \in Nat
          /\ u = Part(w, lastCutByte, Len(w)) /\ u \in Seq(Nat)
      BY OpenIs
    <2>2. b \in Nat /\ Len(u) = Len(w) - b /\ \A k \in 1..(Len(w) - b) : u[k] = w[b + k]
      <3>1. Len(w) <= Len(w)
        BY <2>1
      <3>2. PartHas(w, lastCutByte, Len(w))
        BY <2>1, <3>1, PartIs
      <3> QED  BY <2>1, <3>2, Zenon DEF PartHas
    <2>3. FilesTyped /\ pending \in Seq(AnyPacket)
      BY DEF FilesLayer, Core, WriterInv, WriterTyped
    <2>4. /\ Len(pending) \in Nat /\ Len(w) = Len(a) + Len(pending)
          /\ \A k \in 1..Len(a) : w[k] = a[k]
          /\ \A i \in 1..Len(pending) : w[Len(a) + i] = pending[i].id
      BY <2>3, FlushedIs
    <2>5. /\ Len(files) \in DOMAIN files /\ a = files[Len(files)] /\ Len(a) \in Nat /\ DOMAIN a = 1..Len(a)
      BY <2>3, FilesAre
    <2>6. DOMAIN u = 1..Len(u) /\ DOMAIN pending = 1..Len(pending)
      BY <2>1, <2>3, LenProperties
    <2> HIDE DEF w, a, b, u
    <2>7. PICK k \in 1..(Len(w) - b) : x = u[k]
      BY <1>1, <1>3, <2>2, <2>6 DEF Range, u
    <2>8. w[b + k] = x
      BY <2>2, <2>7
    <2>9. b + k \in 1..Len(a) \/ \E i \in 1..Len(pending) : b + k = Len(a) + i
      <3>1. b + k \in 1..Len(a) \/ ((b + k) - Len(a) \in 1..Len(pending) /\ b + k = Len(a) + ((b + k) - Len(a)))
        BY ONLY <2>1, <2>2, <2>4, <2>5, k \in 1..(Len(w) - b)
      <3> QED  BY <3>1
    <2>10. CASE b + k \in 1..Len(a)
      <3>1. a[b + k] = x
        BY <2>4, <2>8, <2>10
      <3>2. \E g \in DOMAIN files : \E j \in DOMAIN files[g] : files[g][j] = x
        BY <2>5, <2>10, <3>1
      <3> QED  BY <3>2, InFile
    <2>11. ASSUME NEW i \in 1..Len(pending), b + k = Len(a) + i PROVE x \in IdsOf(pending)
      <3>1. pending[i].id = x
        BY <2>4, <2>8, <2>11
      <3> QED  BY <2>6, <3>1 DEF IdsOf
    <2> QED  BY <2>9, <2>10, <2>11
  <1> QED  BY <1>1, <1>2, <1>3

\* A packet that write() was not given yet is new.
LEMMA NotGivenIsNew ==
  ASSUME Core, FilesLayer, IdInv, place # "ended", NEW x \in 1..sent, x \notin given
  PROVE  R!New(x) /\ x \notin Waiting
  <1> DEFINE A == IdsIn(files)
             B == IdsOf(pending)
             C == {hand.id} \ {0}
             D == IdsOf(buffer)
  <1>1. Apart(A, B, C, D, dropped, refused, given)
    BY DEF IdInv
  <1>2. x \in R!Recorded => x \in A \cup B
    <2>1. x # 0
      OBVIOUS
    <2> QED  BY <2>1, RecordedIsKept
  <1> HIDE DEF A, B, C, D
  <1>3. x \notin A \cup B /\ x \notin C \cup D /\ x \notin dropped \cup refused
    BY <1>1 DEF Apart
  <1>4. Waiting = D \cup C
    BY DEF Waiting, C, D
  <1> QED  BY <1>2, <1>3, <1>4 DEF R!New

\* A row is closed: it holds what was recorded last, the others what they held.
LEMMA CutAppends ==
  ASSUME Core, FilesLayer, FilesLayer', place # "ended", Count' = Len(rows),
         \A i \in 1..(Len(rows) - 1) : rows'[i] = rows[i],
         rows'[Len(rows)].name = rows[Len(rows)].name, rows'[Len(rows)].to = Len(Written),
         Behind(rows'[Len(rows)].from) = Behind(lastCutByte), files'[Len(files)] = Written,
         \A f \in DOMAIN files : \A k \in DOMAIN files[f] : files'[f][k] = files[f][k]
  PROVE  Segments' = Append(Segments, OpenSegment)
  <1> DEFINE n == Len(rows)
             m == Count
             s == Segments
             t == Segments'
             e == OpenSegment
  <1>1. /\ s \in Seq(Seq(Nat)) /\ Len(s) = m /\ m \in Nat
        /\ \A i \in 1..m :
             /\ s[i] = SegmentIs(i) /\ Whole(rows[i]) /\ rows[i].name \in DOMAIN files
             /\ files[rows[i].name] \in Seq(Nat) /\ Behind(rows[i].from) <= rows[i].to
    BY SegmentsAre
  <1>2. /\ t \in Seq(Seq(Nat)) /\ Len(t) = n
        /\ \A i \in 1..n :
             /\ t[i] = SegmentIn(files', rows', i) /\ WholeIn(files', rows'[i])
             /\ files'[rows'[i].name] \in Seq(Nat)
    <2>1. FilesLayer' /\ Count' = n
      OBVIOUS
    <2>2. /\ Segments' \in Seq(Seq(Nat)) /\ Len(Segments') = Count'
          /\ \A i \in 1..Count' :
               /\ Segments'[i] = SegmentIn(files', rows', i) /\ WholeIn(files', rows'[i])
               /\ files'[rows'[i].name] \in Seq(Nat)
      <3>1. RowsAreSegments'
        BY SegmentsNext
      <3> QED  BY <3>1 DEF RowsAreSegments
    <2> QED  BY <2>1, <2>2
  <1>3. e \in Seq(Nat) /\ e = Part(Written, lastCutByte, Len(Written)) /\ Written \in Seq(Nat)
        /\ Len(Written) \in Nat /\ lastCutByte \in Nat /\ Behind(lastCutByte) <= Len(Written)
    BY OpenIs
  <1>4. m \in Nat /\ n = m + 1
    BY ClosedAre DEF Count
  <1> HIDE DEF n, m, s, t, e
  <1>5. n \in 1..n /\ \A i \in 1..m : i \in 1..n
    BY ONLY <1>4
  <1>6. ASSUME NEW i \in 1..m PROVE t[i] = s[i]
    <2> DEFINE r == rows[i]
               f == files[r.name]
               g == files'[r.name]
    <2>1. rows'[i] = r
      <3>1. m = Len(rows) - 1
        BY <1>4 DEF n
      <3> QED  BY <3>1
    <2>2. t[i] = SegmentIn(files', rows', i) /\ WholeIn(files', rows'[i]) /\ files'[rows'[i].name] \in Seq(Nat)
      BY <1>2, <1>5
    <2>3. SegmentIn(files', rows', i) = Part(g, r.from, r.to) /\ s[i] = Part(f, r.from, r.to)
      BY <1>1, <2>1 DEF SegmentIs, SegmentIn
    <2>4. r.from \in Nat /\ r.to \in Nat /\ r.to <= Len(f) /\ f \in Seq(Nat) /\ Behind(r.from) <= r.to
          /\ r.name \in DOMAIN files
      BY <1>1 DEF Whole, WholeIn
    <2>5. g \in Seq(Nat) /\ r.to <= Len(g)
      BY <2>1, <2>2 DEF WholeIn
    <2>6. ASSUME NEW k \in 1..r.to PROVE g[k] = f[k]
      <3>1. k \in DOMAIN f
        BY <2>4, LenProperties
      <3> QED  BY <2>4, <3>1
    <2> HIDE DEF f, g
    <2>7. Part(g, r.from, r.to) = Part(f, r.from, r.to)
      BY <2>4, <2>5, <2>6, PartsAlike
    <2> QED  BY <2>2, <2>3, <2>7
  <1>7. t[n] = e
    <2> DEFINE r == rows'[n]
               g == files'[r.name]
    <2>1. r.name = Len(files) /\ g = Written /\ r.to = Len(Written)
      BY DEF n, FilesLayer, RowsInv
    <2>2. t[n] = SegmentIn(files', rows', n) /\ WholeIn(files', rows'[n])
      BY <1>2, <1>5
    <2>3. SegmentIn(files', rows', n) = Part(g, r.from, r.to)
      BY DEF SegmentIn
    <2>4. r.from \in Nat
      BY <2>2 DEF WholeIn
    <2>5. Behind(r.from) = Behind(lastCutByte)
      BY DEF n
    <2> DEFINE w == Written
    <2>6. Part(w, r.from, Len(w)) = Part(w, lastCutByte, Len(w))
      BY <2>5 DEF Part, Behind
    <2> QED  BY <1>3, <2>1, <2>2, <2>3, <2>6
  <1>8. t = Append(s, e)
    <2>1. /\ Append(s, e) \in Seq(Seq(Nat)) /\ Len(Append(s, e)) = m + 1
          /\ \A i \in 1..m : Append(s, e)[i] = s[i]
          /\ Append(s, e)[m + 1] = e
      BY <1>1, <1>3, AppendProperties
    <2>2. ASSUME NEW i \in 1..n PROVE t[i] = Append(s, e)[i]
      <3>1. i \in 1..m \/ i = m + 1
        BY ONLY <1>4, i \in 1..n
      <3> QED  BY <1>4, <1>6, <1>7, <2>1, <3>1
    <2> DEFINE u == Append(s, e)
    <2>3. t \in Seq(Seq(Nat)) /\ u \in Seq(Seq(Nat)) /\ Len(t) = Len(u)
          /\ \A i \in 1..Len(t) : t[i] = u[i]
      BY <1>2, <1>4, <2>1, <2>2
    <2> HIDE DEF u
    <2>4. t = u
      BY ONLY <2>3, SeqEqual
    <2> QED  BY <2>4 DEF u
  <1> QED  BY <1>8 DEF s, t, e

\* What the muxer takes comes behind what is recorded.
OpenIsWritten ==
  LET b == Behind(lastCutByte)
      n == Len(Written)
  IN /\ Written \in Seq(Nat) /\ n \in Nat /\ b \in Nat /\ b <= n
     /\ OpenSegment \in Seq(Nat) /\ Len(OpenSegment) = n - b
     /\ \A k \in 1..(n - b) : OpenSegment[k] = Written[b + k]
NotEnded == place # "ended"
LEMMA OpenBytes ==
  ASSUME Core, FilesLayer, NotEnded
  PROVE  OpenIsWritten
  <1> DEFINE w == Written
             c == lastCutByte
             b == Behind(c)
             n == Len(w)
             s == OpenSegment
  <1>1. w \in Seq(Nat) /\ n \in Nat /\ c \in Nat /\ b <= n /\ s = Part(w, c, n) /\ s \in Seq(Nat)
    BY OpenIs DEF NotEnded
  <1>2. n <= Len(w) /\ Behind(c) <= n
    BY <1>1
  <1> HIDE DEF w, c, n, s
  <1>3. PartHas(w, c, n)
    BY ONLY <1>1, <1>2, PartIs
  <1>4. b \in Nat /\ Len(s) = n - b /\ \A k \in 1..(n - b) : s[k] = w[b + k]
    BY ONLY <1>1, <1>3 DEF PartHas
  <1> QED  BY <1>1, <1>4 DEF OpenIsWritten, w, c, n, s

LEMMA OpenNext == Core' /\ FilesLayer' /\ NotEnded' => OpenIsWritten'
  <1>1. Core /\ FilesLayer /\ NotEnded => OpenIsWritten
    BY OpenBytes
  <1> QED  BY <1>1, PTL

LEMMA MuxOpens ==
  ASSUME Core, FilesLayer, Mux, pending' = Append(pending, hand)
  PROVE  OpenSegment' = Append(OpenSegment, hand.id)
  <1> DEFINE w == Written
             v == Written'
             b == Behind(lastCutByte)
             s == OpenSegment
             t == OpenSegment'
             x == hand.id
  <1>1. place = "mux" /\ NotEnded /\ NotEnded' /\ UNCHANGED <<files, lastCutByte>> /\ hand \in AnyPacket
    BY DEF Mux, cutVars, Core, WriterInv, WriterTyped, NotEnded
  <1>2. Core' /\ FilesLayer'
    <2>1. Next
      BY DEF Next
    <2> QED  BY <2>1, CoreStep, LayerStep
  <1>3. /\ w \in Seq(Nat) /\ Len(w) \in Nat /\ b \in Nat /\ b <= Len(w) /\ s \in Seq(Nat)
        /\ Len(s) = Len(w) - b /\ \A k \in 1..(Len(w) - b) : s[k] = w[b + k]
    BY <1>1, OpenBytes DEF OpenIsWritten
  <1>4. t \in Seq(Nat) /\ Len(t) = Len(v) - b /\ \A k \in 1..(Len(v) - b) : t[k] = v[b + k]
    <2>1. OpenIsWritten'
      BY <1>1, <1>2, OpenNext
    <2> QED  BY <1>1, <2>1 DEF OpenIsWritten
  <1>5. Len(v) = Len(w) + 1 /\ v[Len(w) + 1] = x /\ \A k \in 1..Len(w) : v[k] = w[k]
    BY <1>1, MuxWrites
  <1>8. x \in Nat
    BY <1>1 DEF AnyPacket
  <1> DEFINE n == Len(w)
             u == Append(s, x)
  <1>9. n \in Nat /\ b \in Nat /\ b <= n /\ Len(v) = n + 1 /\ Len(s) = n - b /\ Len(t) = (n + 1) - b
    BY <1>3, <1>4, <1>5
  <1> HIDE DEF w, v, b, s, t, x, n
  <1>10. u \in Seq(Nat) /\ Len(u) = Len(s) + 1 /\ u[Len(s) + 1] = x /\ \A k \in 1..Len(s) : u[k] = s[k]
    BY <1>3, <1>8, AppendProperties
  <1> HIDE DEF u
  <1>11. ASSUME NEW k \in 1..((n + 1) - b) PROVE t[k] = u[k]
    <2>1. t[k] = v[b + k]
      BY <1>4, <1>9
    <2>2. k \in 1..(n - b) \/ k = (n - b) + 1
      BY ONLY <1>9, k \in 1..((n + 1) - b)
    <2>3. CASE k \in 1..(n - b)
      <3>1. b + k \in 1..n
        BY ONLY <1>9, <2>3
      <3>2. v[b + k] = w[b + k] /\ s[k] = w[b + k] /\ u[k] = s[k]
        BY <1>5, <1>3, <1>9, <1>10, <2>3, <3>1 DEF n
      <3> QED  BY <2>1, <3>2
    <2>4. CASE k = (n - b) + 1
      <3>1. b + k = n + 1
        BY ONLY <1>9, <2>4
      <3> QED  BY <1>5, <1>9, <1>10, <2>1, <2>4, <3>1 DEF n
    <2> QED  BY <2>2, <2>3, <2>4
  <1>12. Len(t) = Len(u) /\ \A k \in 1..Len(t) : t[k] = u[k]
    <2>1. Len(u) = (n + 1) - b
      BY ONLY <1>9, <1>10
    <2> QED  BY <1>9, <1>11, <2>1
  <1>13. t = u
    BY ONLY <1>4, <1>10, <1>12, SeqEqual
  <1> QED  BY <1>13 DEF t, u, s, x

\* write() accepts a packet or drops it, or the packet is not given to it.
RecordingStep == [R!Next]_(R!vars)
LEMMA Stutters ==
  ASSUME UNCHANGED <<Waiting, dropped, refused, OpenSegment, Segments>>
  PROVE  RecordingStep
  BY DEF RecordingStep, R!vars

LEMMA HandleRecords ==
  ASSUME RecordingInv, HandlePacket
  PROVE  RecordingStep
  <1> DEFINE p == NextPacket
             x == p.id
  <1>1. queue # << >> /\ place = "packet" /\ place' # "ended" /\ Core /\ FilesLayer /\ IdInv /\ SentInv
    BY DEF HandlePacket, Write, RecordingInv, Core, ReaderInv, PacketRead
  <1>2. /\ p \in AnyPacket /\ Known(p) /\ 1 \in DOMAIN queue /\ p.id = queue[1].id
    BY <1>1, NextPacketIs DEF Core, ReaderInv
  <1>3. /\ UNCHANGED <<sent, files, pending, hand, refused, rows, lastCutByte>>
        /\ \/ UNCHANGED <<buffer, given, dropped>>
           \/ /\ given' = given \cup {p.id}
              /\ \/ dropped' = dropped \cup {p.id} /\ UNCHANGED buffer
                 \/ p.dts # last[p.stream] /\ UNCHANGED dropped /\ buffer' = Placed(Moved(p))
    BY DEF HandlePacket, Write, cameraVars, emitVars, bufferVars, fileVars, cutVars
  <1>4. UNCHANGED <<Segments, OpenSegment>>
    BY <1>1, <1>3, SameSegments, SameOpen
  <1> HIDE DEF p
  <1>5. x \in 1..sent /\ x \notin given /\ x \in 1..MaxPackets
    <2>1. x \in 1..sent /\ x \notin given
      BY <1>1, <1>2 DEF Known, KnownTo, IdInv
    <2>2. sent \in Nat /\ MaxPackets \in Nat /\ sent <= MaxPackets
      BY <1>1, RecorderAssumption DEF Core, ReaderInv, CameraTyped, SentInv
    <2> QED  BY <2>1, <2>2
  <1>6. R!New(x) /\ x \notin Waiting
    BY <1>1, <1>5, NotGivenIsNew
  <1>7. CASE UNCHANGED <<buffer, given, dropped>>
    BY <1>3, <1>4, <1>7, Stutters DEF Waiting
  <1>8. CASE dropped' = dropped \cup {x} /\ UNCHANGED buffer
    <2>1. Waiting' = Waiting \ {x} /\ (dropped \cup refused)' = (dropped \cup refused) \cup {x}
      BY <1>3, <1>6, <1>8 DEF Waiting
    <2>2. R!Lose(x)
      BY <1>4, <1>6, <2>1 DEF R!Lose
    <2> QED  BY <1>5, <2>2 DEF RecordingStep, R!Next
  <1>9. CASE UNCHANGED dropped /\ buffer' = Placed(Moved(p))
    <2>1. Moved(p) \in AnyPacket /\ Moved(p).id = x
      BY <1>1, <1>2, MovedIs DEF SamePacket, Core, WriterInv, WriterTyped
    <2>2. buffer \in Seq(AnyPacket) /\ InOrder(buffer)
      BY <1>1, BufferIs DEF Core, WriterInv, WriterTyped
    <2>3. PICK I \in SUBSET DOMAIN buffer : Placed(Moved(p)) = Insert(buffer, Moved(p), I)
      BY <2>1, <2>2, PlacedInserts
    <2>4. Moved(p).id \notin IdsOf(buffer) /\ OneEach(buffer)
      BY <1>1, <1>6, <2>1 DEF IdInv, Waiting
    <2>5. IdsOf(buffer') = IdsOf(buffer) \cup {x}
      BY <1>9, <2>1, <2>2, <2>3, <2>4, IdsInsert
    <2>6. Waiting' = Waiting \cup {x}
      BY <1>3, <2>5 DEF Waiting
    <2>7. R!Accept(x)
      BY <1>3, <1>4, <1>6, <1>9, <2>6 DEF R!Accept
    <2> QED  BY <1>5, <2>7 DEF RecordingStep, R!Next
  <1> QED  BY <1>3, <1>7, <1>8, <1>9

\* A packet leaves the buffer and is at hand.
LEMMA EmitRecords ==
  ASSUME RecordingInv, Emit
  PROVE  RecordingStep
  <1>1. /\ UNCHANGED <<files, pending, rows, lastCutByte, dropped, refused>> /\ place = "write"
        /\ buffer' = Tail(buffer) /\ place' \in {"cut", "mux"}
        /\ hand' = Fixup(Shifted(Head(buffer)), Tail(buffer))
        /\ Core /\ FilesLayer /\ IdInv
    BY DEF Emit, notWrite, muxVars, fileVars, cutVars, RecordingInv
  <1>2. buffer \in Seq(AnyPacket) /\ buffer # << >> /\ track \in Times
    BY <1>1 DEF Core, WriterInv, WriterTyped, BufferInv
  <1>3. Head(buffer) \in AnyPacket /\ Head(buffer) = buffer[1] /\ Tail(buffer) \in Seq(AnyPacket)
    BY <1>2, HeadTailProperties
  <1>4. hand'.id = buffer[1].id
    <2>1. Shifted(Head(buffer)) \in AnyPacket /\ Shifted(Head(buffer)).id = buffer[1].id
      BY <1>2, <1>3, ShiftedIs DEF SamePacket
    <2> QED  BY <1>1, <1>3, <2>1, FixupIs DEF SamePacket
  <1>5. {hand.id} \ {0} = {}
    BY <1>1, HandIds DEF Core
  <1>6. {hand'.id} \ {0} = {hand'.id}
    <2>1. WriterInv'
      BY <1>1, EmitKeeps DEF Core
    <2>2. hand'.id # 0
      BY <1>1, <2>1 DEF WriterInv, HandInv, Known, KnownTo
    <2> QED  BY <2>2
  <1>7. IdsOf(buffer') = IdsOf(buffer) \ {buffer[1].id} /\ buffer[1].id \in IdsOf(buffer)
    BY <1>1, <1>2, IdsTail DEF IdInv
  <1>8. Waiting' = Waiting
    BY <1>4, <1>5, <1>6, <1>7 DEF Waiting
  <1>9. UNCHANGED <<Segments, OpenSegment>>
    BY <1>1, SameSegments, SameOpen
  <1> QED  BY <1>1, <1>8, <1>9, Stutters

\* The muxer takes it or refuses it.
LEMMA MuxRecords ==
  ASSUME RecordingInv, Mux
  PROVE  RecordingStep
  <1> DEFINE x == hand.id
  <1>1. /\ UNCHANGED <<files, rows, lastCutByte, dropped, buffer>> /\ place = "mux" /\ hand' = NoPacket
        /\ place' # "ended" /\ Core /\ FilesLayer /\ IdInv /\ SentInv
        /\ \/ refused' = refused \cup {x} /\ UNCHANGED pending
           \/ pending' = Append(pending, hand) /\ UNCHANGED refused
    BY DEF Mux, notWrite, cutVars, RecordingInv
  <1>2. pending \in Seq(AnyPacket) /\ hand \in AnyPacket
    BY <1>1 DEF Core, WriterInv, WriterTyped
  <1>3. {hand.id} \ {0} = {x} /\ {hand'.id} \ {0} = {}
    BY <1>1, HandIds DEF Core, NoPacket
  <1>4. x \in 1..MaxPackets
    <2>1. x \in 1..sent
      BY <1>1 DEF Core, WriterInv, HandInv, Known, KnownTo
    <2>2. sent \in Nat /\ MaxPackets \in Nat /\ sent <= MaxPackets
      BY <1>1, RecorderAssumption DEF Core, ReaderInv, CameraTyped, SentInv
    <2> QED  BY <2>1, <2>2
  <1>5. x \notin IdsOf(buffer)
    <2> DEFINE A == IdsIn(files)
               B == IdsOf(pending)
               C == {hand.id} \ {0}
               D == IdsOf(buffer)
    <2>1. Apart(A, B, C, D, dropped, refused, given) /\ x \in C
      BY <1>1, <1>3 DEF IdInv
    <2> HIDE DEF A, B, C, D
    <2>2. x \notin D
      BY <2>1 DEF Apart
    <2> QED  BY <2>2 DEF D
  <1>6. x \in Waiting /\ Waiting' = Waiting \ {x}
    BY <1>1, <1>3, <1>5 DEF Waiting
  <1>7. Segments' = Segments
    BY <1>1, SameSegments
  <1>8. CASE refused' = refused \cup {x} /\ UNCHANGED pending
    <2>1. OpenSegment' = OpenSegment
      BY <1>1, <1>8, SameOpen
    <2>2. (dropped \cup refused)' = (dropped \cup refused) \cup {x}
      BY <1>1, <1>8
    <2>3. R!Lose(x)
      BY <1>6, <1>7, <2>1, <2>2 DEF R!Lose
    <2> QED  BY <1>4, <2>3 DEF RecordingStep, R!Next
  <1>9. CASE pending' = Append(pending, hand) /\ UNCHANGED refused
    <2>1. OpenSegment' = Append(OpenSegment, x)
      BY <1>1, <1>9, MuxOpens
    <2>2. R!Record(x)
      BY <1>1, <1>6, <1>7, <1>9, <2>1 DEF R!Record
    <2> QED  BY <1>4, <2>2 DEF RecordingStep, R!Next
  <1> QED  BY <1>1, <1>8, <1>9

\* A cut, in the same file or with a new one.
LEMMA CutRecords ==
  ASSUME Core, FilesLayer, Core', FilesLayer', place = "cut", place' = "mux",
         NEW from \in Nat, NEW end \in Nat, NEW row \in AnyRow, AddsRow(from, end, row),
         UNCHANGED <<buffer, hand, dropped, refused>>, Len(Written') = Behind(lastCutByte')
  PROVE  RecordingStep
  <1>1. FilesTyped /\ pending \in Seq(AnyPacket)
    BY DEF FilesLayer, FilesTyped, Core, WriterInv, WriterTyped
  <1>2. /\ Len(rows) \in Nat \ {0} /\ Len(rows') = Len(rows) + 1
        /\ \A i \in 1..(Len(rows) - 1) : rows'[i] = rows[i]
        /\ rows'[Len(rows)].name = rows[Len(rows)].name
        /\ rows'[Len(rows)].from = from /\ rows'[Len(rows)].to = Len(Written)
        /\ Len(files) \in DOMAIN files /\ files'[Len(files)] = Written
        /\ \A f \in DOMAIN files : \A k \in DOMAIN files[f] : files'[f][k] = files[f][k]
    BY <1>1, RowsAdded
  <1>3. Behind(from) = Behind(lastCutByte)
    <2>1. from = lastCutByte \/ (Fragmented /\ lastCutByte = 0 /\ from = InitLen)
      BY Zenon DEF AddsRow
    <2>2. Fragmented => Behind(InitLen) = InitLen /\ Behind(0) = InitLen
      BY Parameters, HeaderIs DEF Behind
    <2> QED  BY <2>1, <2>2
  <1>4. Count' = Len(rows)
    BY <1>2 DEF Count
  <1>5. Segments' = Append(Segments, OpenSegment)
    BY <1>2, <1>3, <1>4, CutAppends
  <1>6. OpenSegment' = << >>
    <2>1. NotEnded'
      BY DEF NotEnded
    <2>2. OpenIsWritten'
      BY <2>1, OpenNext
    <2>3. OpenSegment' \in Seq(Nat) /\ Len(OpenSegment') = 0
      BY <2>2 DEF OpenIsWritten
    <2> QED  BY <2>3, EmptySeq
  <1>7. Waiting' = Waiting /\ (dropped \cup refused)' = dropped \cup refused
    BY DEF Waiting
  <1>8. R!Cut
    BY <1>5, <1>6, <1>7 DEF R!Cut
  <1> QED  BY <1>8 DEF RecordingStep, R!Next

LEMMA FragRecords ==
  ASSUME RecordingInv, Core', FilesLayer', Frag
  PROVE  RecordingStep
  <1>1. /\ place = "cut" /\ place' = "mux" /\ files' = Flushed /\ pending' = << >> /\ lastCutByte' = Size
        /\ UNCHANGED <<buffer, hand, dropped, refused>> /\ Core /\ FilesLayer
    BY DEF Frag, Flush, notCut, notWrite, emitVars, muxVars, RecordingInv
  <1>2. PICK from \in Nat, end \in Nat, row \in AnyRow : AddsRow(from, end, row)
    BY <1>1, FragLayer
  <1>3. FilesTyped /\ pending \in Seq(AnyPacket)
    BY <1>1 DEF FilesLayer, FilesTyped, Core, WriterInv, WriterTyped
  <1>4. Flushed \in Seq(Seq(Nat)) /\ Flushed # << >> /\ Size = Len(Written) /\ Len(Written) \in Nat
    BY <1>3, FlushedIs, LenProperties
  <1>5. Written' = Written
    <2>1. Written' = Last([files' EXCEPT ![Len(files')] = @ \o Ids(pending')])
      BY DEF Written, Flushed
    <2> DEFINE F == Flushed
    <2>2. Written' = Last([F EXCEPT ![Len(F)] = @ \o Ids(<< >>)]) /\ F \in Seq(Seq(Nat)) /\ F # << >>
      BY <1>1, <1>4, <2>1
    <2>3. Written = Last(F)
      BY DEF Written
    <2> HIDE DEF F
    <2> QED  BY <2>2, <2>3, NothingToFlush
  <1>6. Behind(Len(Written)) = Len(Written)
    <2>1. Len(Header) <= Len(Written) /\ Len(Header) \in Nat
      BY <1>1, FlushKeeps, HeaderIs
    <2> QED  BY <1>4, <2>1 DEF Behind
  <1>7. Len(Written') = Behind(lastCutByte')
    BY <1>1, <1>4, <1>5, <1>6
  <1> QED  BY <1>1, <1>2, <1>7, CutRecords

LEMMA NewFileRecords ==
  ASSUME RecordingInv, Core', FilesLayer', NewFile
  PROVE  RecordingStep
  <1>1. /\ place = "cut" /\ place' = "mux" /\ files' = Append(Flushed, Header) /\ pending' = << >> /\ lastCutByte' = 0
        /\ UNCHANGED <<buffer, hand, dropped, refused>> /\ Core /\ FilesLayer
    BY DEF NewFile, Flush, FirstByte, notCut, notWrite, emitVars, muxVars, RecordingInv
  <1>2. /\ Last(files') = Header
        /\ \E from, end \in Nat, row \in AnyRow : AddsRow(from, end, row)
    BY <1>1, NewFileLayer
  <1>3. PICK from \in Nat, end \in Nat, row \in AnyRow : AddsRow(from, end, row)
    BY <1>2
  <1>4. files' \in Seq(Seq(Nat)) /\ files' # << >>
    BY DEF FilesLayer, FilesTyped
  <1>5. Written' = Header
    <2>1. Written' = Last([files' EXCEPT ![Len(files')] = @ \o Ids(pending')])
      BY DEF Written, Flushed
    <2> DEFINE F == files'
    <2>2. Written' = Last([F EXCEPT ![Len(F)] = @ \o Ids(<< >>)]) /\ F \in Seq(Seq(Nat)) /\ F # << >>
      BY <1>1, <1>4, <2>1
    <2> HIDE DEF F
    <2>3. Written' = Last(F)
      BY <2>2, NothingToFlush
    <2> QED  BY <1>2, <2>3 DEF F
  <1>6. Len(Written') = Behind(lastCutByte')
    BY <1>1, <1>5 DEF Behind
  <1> QED  BY <1>1, <1>3, <1>6, CutRecords

\* The last segment is finished at the end.
LEMMA FinishRecords ==
  ASSUME RecordingInv, Core', FilesLayer', Finish
  PROVE  RecordingStep
  <1>1. /\ place # "ended" /\ place' = "ended" /\ files' = Flushed /\ rows' = Ended(lastCutByte, Time(lastPts))
        /\ UNCHANGED <<buffer, hand, dropped, refused>> /\ Core /\ FilesLayer
    BY DEF Finish, notCut, notWrite, emitVars, muxVars, RecordingInv
  <1>2. FilesTyped /\ pending \in Seq(AnyPacket) /\ lastCutByte \in Nat /\ lastPts \in Nat
    BY <1>1 DEF FilesLayer, FilesTyped, Core, WriterInv, WriterTyped
  <1>3. Size = Len(Written) /\ Len(Written) \in Nat /\ Flushed[Len(files)] = Written
    BY <1>2, FlushedIs, LenProperties
  <1> DEFINE n == Len(rows)
             end == Time(lastPts)
             E == Ended(lastCutByte, end)
  <1>4. end \in Int /\ Size \in Int /\ lastCutByte \in Int
    <2>1. connectTime \in Nat
      BY <1>1 DEF Core, ReaderInv, CameraTyped
    <2> QED  BY <1>2, <1>3, <2>1 DEF Time
  <1> HIDE DEF end
  <1>5. /\ n \in Nat \ {0} /\ Len(E) = n /\ \A i \in 1..n : i # n => E[i] = rows[i]
        /\ E[n].name = rows[n].name /\ E[n].from = lastCutByte /\ E[n].to = Size
    BY <1>2, <1>4, EndedIs
  <1>6. rows' = E
    BY <1>1 DEF end
  <1> HIDE DEF E, n
  <1>7. \A i \in 1..(n - 1) : i \in 1..n /\ i # n
    BY ONLY <1>5
  <1>8. Count' = n
    BY <1>1, <1>5, <1>6 DEF Count
  <1>9. /\ \A i \in 1..(n - 1) : rows'[i] = rows[i]
        /\ rows'[n].name = rows[n].name /\ rows'[n].from = lastCutByte /\ rows'[n].to = Len(Written)
    BY <1>3, <1>5, <1>6, <1>7
  <1>10. \A f \in DOMAIN files : \A k \in DOMAIN files[f] : files'[f][k] = files[f][k]
    BY <1>1, <1>2, FlushedExtends
  <1>11. Segments' = Append(Segments, OpenSegment)
    BY <1>1, <1>3, <1>8, <1>9, <1>10, CutAppends DEF n
  <1>12. OpenSegment' = << >>
    BY <1>1 DEF OpenSegment
  <1>13. Waiting' = Waiting /\ (dropped \cup refused)' = dropped \cup refused
    BY <1>1 DEF Waiting
  <1>14. R!Cut
    BY <1>11, <1>12, <1>13 DEF R!Cut
  <1> QED  BY <1>14 DEF RecordingStep, R!Next

\* Every step of the recorder is one of Recording or leaves it as it is.
LEMMA RecordingSteps ==
  ASSUME RecordingInv, [Next]_vars
  PROVE  RecordingInv' /\ RecordingStep
  <1>1. Core' /\ FilesLayer' /\ IdInv'
    BY CoreStep, LayerStep, IdStep DEF RecordingInv
  <1>2. SentInv'
    <2>1. sent \in Nat /\ MaxPackets \in Nat /\ sent <= MaxPackets
      BY RecorderAssumption DEF RecordingInv, Core, ReaderInv, CameraTyped, SentInv
    <2>2. CASE Charge \/ GetNextPacket
      <3>1. UNCHANGED sent \/ (sent < MaxPackets /\ sent' = sent + 1)
        BY <2>2, Zenon DEF Charge, GetNextPacket, ReadFrame
      <3> QED  BY <2>1, <3>1 DEF SentInv
    <2>3. CASE Connected \/ HandlePacket \/ UNCHANGED vars
      <3>1. UNCHANGED sent
        BY <2>3 DEF Connected, HandlePacket, vars, readVars, cameraVars
      <3> QED  BY <2>1, <3>1 DEF SentInv
    <2>4. CASE Emit \/ Mux \/ Frag \/ NewFile \/ Finish
      <3>1. UNCHANGED sent
        BY <2>4 DEF Emit, Mux, Frag, NewFile, Finish, notCut, notWrite, readVars, cameraVars
      <3> QED  BY <2>1, <3>1 DEF SentInv
    <2> QED  BY <2>2, <2>3, <2>4 DEF Next
  <1>3. ASSUME Charge \/ Connected \/ GetNextPacket \/ UNCHANGED vars PROVE RecordingStep
    <2>1. /\ UNCHANGED <<buffer, hand, dropped, refused, files, rows, pending, lastCutByte>>
          /\ UNCHANGED place \/ (place # "ended" /\ place' # "ended")
      BY <1>3 DEF Charge, Connected, GetNextPacket, vars, writerVars, bufferVars, emitVars, muxVars, fileVars, cutVars
    <2>2. Segments' = Segments /\ Waiting' = Waiting
      BY <2>1, SameSegments DEF Waiting
    <2>3. OpenSegment' = OpenSegment
      <3>1. CASE place # "ended" /\ place' # "ended"
        BY <2>1, <3>1, SameOpen
      <3>2. CASE place = "ended" /\ place' = "ended"
        BY <3>2 DEF OpenSegment
      <3> QED  BY <2>1, <3>1, <3>2
    <2> QED  BY <2>1, <2>2, <2>3, Stutters
  <1>4. RecordingStep
    BY <1>1, <1>3, HandleRecords, EmitRecords, MuxRecords, FragRecords, NewFileRecords, FinishRecords DEF Next
  <1> QED  BY <1>1, <1>2, <1>4 DEF RecordingInv

LEMMA RecordingInit ==
  ASSUME Init
  PROVE  RecordingInv /\ R!Init
  <1>1. Core /\ FilesLayer /\ IdInv
    BY CoreInit, LayerInit, IdInit
  <1>2. /\ sent = 0 /\ buffer = << >> /\ hand = NoPacket /\ dropped = {} /\ refused = {}
        /\ place = "charge" /\ lastCutByte = 0 /\ files = <<Header>> /\ pending = << >> /\ rows = <<Row(1, Time(0))>>
    BY DEF Init
  <1>3. RecordingInv
    <2>1. 0 <= MaxPackets
      BY RecorderAssumption
    <2> QED  BY <1>1, <1>2, <2>1 DEF RecordingInv, SentInv
  <1>4. Waiting = {}
    BY <1>2, IdsEmpty DEF Waiting, NoPacket
  <1>5. Segments = << >>
    <2>1. Segments \in Seq(Seq(Nat)) /\ Len(Segments) = Count
      BY <1>1, SegmentsAre
    <2>2. Count = 0
      BY <1>2 DEF Count
    <2> QED  BY <2>1, <2>2, EmptySeq
  <1>6. OpenSegment = << >>
    <2>1. Written = Header
      <3> DEFINE h == Header
      <3>1. Written = Last([files EXCEPT ![Len(files)] = @ \o Ids(<< >>)])
        BY <1>2 DEF Written, Flushed
      <3>2. files \in Seq(Seq(Nat)) /\ files # << >>
        BY <1>1 DEF FilesLayer, FilesTyped
      <3>3. Written = Last(files)
        BY <3>1, <3>2, NothingToFlush
      <3> HIDE DEF h
      <3>4. files = <<h>> /\ Last(<<h>>) = h
        BY <1>2 DEF h, Last
      <3> QED  BY <3>3, <3>4 DEF h
    <2>2. NotEnded
      BY <1>2 DEF NotEnded
    <2>3. OpenIsWritten
      BY <1>1, <2>2, OpenBytes
    <2>4. OpenSegment \in Seq(Nat) /\ Len(OpenSegment) = 0
      BY <1>2, <2>1, <2>3 DEF OpenIsWritten, Behind
    <2> QED  BY <2>4, EmptySeq
  <1> QED  BY <1>2, <1>3, <1>4, <1>5, <1>6 DEF R!Init

\* The recorder implements Recording: whatever the camera sends, a packet that the writer was
\* given is recorded once or lost, and a row that has its end shows from then on the same
\* packets, those that the muxer took between two cuts, in that order.
THEOREM RecordsPackets == Spec => ImplementsRecording
  <1>1. Init => RecordingInv /\ R!Init
    BY RecordingInit
  <1>2. RecordingInv /\ [Next]_vars => RecordingInv' /\ [R!Next]_(R!vars)
    BY RecordingSteps DEF RecordingStep
  <1> QED  BY <1>1, <1>2, PTL DEF Spec, ImplementsRecording, R!Spec
=============================================================================
