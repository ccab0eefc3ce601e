----------------------------- MODULE EventsProofs -----------------------------
(***************************************************************************)
(* Proofs that a target raises one event, and that events, pictures and    *)
(* their rows stay together, for any places, areas and numbers of frames,  *)
(* passes and failures.                                                    *)
(***************************************************************************)
EXTENDS Events, SequenceLemmas

\* Targets: no two have a track in common; a new one is on a track of its own, and one that
\* goes on from an old one has marked it.
Distinct(s) == \A i, j \in DOMAIN s : s[i].track = s[j].track => i = j
Fresh(t) ==
  /\ t.count = 0 /\ t.track \notin Range(raised)
  /\ \A i \in DOMAIN targets : targets[i].track # t.track
GoesOn(t) ==
  \E i \in DOMAIN targets : /\ targets[i].track = t.track /\ ~targets[i].valid
                            /\ t.count = targets[i].count + 1
TargetsInv ==
  /\ Distinct(targets) /\ Distinct(found)
  /\ \A i \in DOMAIN found : Fresh(found[i]) \/ GoesOn(found[i])
  /\ place # "track" => found = << >>
  /\ place \in {"off", "idle", "track"} => at = 1

\* An event has been raised for a target that send_events() has passed when its count has
\* reached TrackingTime, and for one it has not passed yet when its count has exceeded it.
Passed(i) == place \in {"off", "idle", "track"} \/ i < at
RaisedInv ==
  /\ IsInjective(raised)
  /\ \A i \in DOMAIN targets :
       targets[i].track \in Range(raised) <=>
         IF Passed(i) THEN targets[i].count >= TrackingTime ELSE targets[i].count > TrackingTime

\* The image being written: it is the last one and not on disk, and a pass that has its row at
\* hand, or has removed it, has not found the file.
NamesPicture(id, time) == id \in complete /\ \A r \in images : r.id = id => r.time = time
Writing ==
  /\ image = lastImage /\ image # None /\ image \notin pictures
  /\ Row(image) \/ image \in missed
  /\ victim = image => image \in missed
  /\ \A r \in images : r.id = image => r.time = event.time
PicturesInv ==
  /\ place = "write" => Writing
  /\ place = "insert" /\ image # None => NamesPicture(image, event.time)
  /\ victim \in pictures => victim \in missed
  /\ \A r, s \in images : r.id = s.id => r = s

\* A pass: its rows are in the table, and none of them is younger than it.
PassInv ==
  /\ doomed \subseteq images
  /\ \A r \in doomed : r.time < oldest /\ r.id # victim
  /\ \A r \in images : r.id = victim => r.time < oldest

DataInv == PicturesInv /\ PassInv /\ EventsNamePictures /\ PicturesKeepRows /\ EventsGoWithPictures
IInv == TypeOK /\ TargetsInv /\ RaisedInv /\ DataInv

-----------------------------------------------------------------------------
(* Sequences of targets *)

LEMMA SeqGrows ==
  ASSUME NEW S, NEW T, S \subseteq T, NEW s \in Seq(S)
  PROVE  s \in Seq(T)
  <1>1. Len(s) \in Nat /\ s \in [1..Len(s) -> S]
    OBVIOUS
  <1>2. s \in [1..Len(s) -> T]
    BY <1>1
  <1> QED  BY <1>1, <1>2, SeqDef

\* What Track finds is a valid target.
LEMMA FirstMatch ==
  ASSUME NEW rect, NEW k, targets \in Seq(Target),
         NEW I, I = {j \in 1..Len(targets) : targets[j].valid /\ Near(targets[j].rect, rect)},
         k = IF I # {} THEN Min(I) ELSE 0
  PROVE  k \in 0..Len(targets) /\ (k # 0 => targets[k].valid)
  <1>1. k = IF I # {} THEN Min(I) ELSE 0
    OBVIOUS
  <1>2. Len(targets) \in Nat
    OBVIOUS
  <1>3. I \subseteq Nat /\ I \subseteq 1..Len(targets) /\ \A j \in I : targets[j].valid
    BY <1>2
  <1>4. CASE I = {}
    BY <1>1, <1>2, <1>4
  <1>5. CASE I # {}
    <2>1. PICK n \in I : \A j \in I : n <= j
      BY <1>3, <1>5, LeastNumber
    <2>2. Min(I) \in I
      BY <2>1 DEF Min
    <2> QED  BY <1>1, <1>2, <1>3, <1>5, <2>2
  <1> QED  BY <1>4, <1>5

LEMMA AppendIs ==
  ASSUME NEW S, NEW s \in Seq(S), NEW e \in S
  PROVE  /\ Append(s, e) \in Seq(S) /\ Len(Append(s, e)) = Len(s) + 1
         /\ DOMAIN Append(s, e) = DOMAIN s \cup {Len(s) + 1} /\ DOMAIN s = 1..Len(s)
         /\ \A i \in DOMAIN s : Append(s, e)[i] = s[i]
         /\ Append(s, e)[Len(s) + 1] = e
  <1>1. Append(s, e) \in Seq(S) /\ Len(Append(s, e)) = Len(s) + 1 /\ Len(s) \in Nat
    OBVIOUS
  <1>2. DOMAIN s = 1..Len(s) /\ DOMAIN Append(s, e) = 1..(Len(s) + 1)
    BY <1>1
  <1>3. 1..(Len(s) + 1) = (1..Len(s)) \cup {Len(s) + 1}
    BY <1>1
  <1>4. \A i \in 1..Len(s) : Append(s, e)[i] = s[i]
    BY <1>1
  <1>5. Append(s, e)[Len(s) + 1] = e
    BY <1>1
  <1> QED  BY <1>1, <1>2, <1>3, <1>4, <1>5

-----------------------------------------------------------------------------
(* Types *)

\* The rows and targets of a later state include those of an earlier one.
LEMMA TypesGrow ==
  ASSUME TypeOK, frame' \in Nat, frame <= frame', tracks' \in Nat, tracks <= tracks',
         lastImage' \in Nat, lastImage <= lastImage'
  PROVE  /\ Seen \subseteq Seen' /\ Target \subseteq Target' /\ ImageRow \subseteq ImageRow'
         /\ EventRow \subseteq EventRow' /\ Seq(Target) \subseteq Seq(Target')
         /\ Seq(1..tracks) \subseteq Seq(1..tracks')
         /\ [track : 1..tracks, time : 1..frame, rect : Seen]
              \subseteq [track : 1..tracks', time : 1..frame', rect : Seen']
         /\ 0..frame \subseteq 0..frame' /\ 0..lastImage \subseteq 0..lastImage'
         /\ 1..lastImage \subseteq 1..lastImage' /\ 1..frame \subseteq 1..frame'
         /\ 1..tracks \subseteq 1..tracks'
  <1>1. frame \in Nat /\ tracks \in Nat /\ lastImage \in Nat
    BY DEF TypeOK
  <1>2. /\ 0..frame \subseteq 0..frame' /\ 0..lastImage \subseteq 0..lastImage'
        /\ 1..lastImage \subseteq 1..lastImage' /\ 1..frame \subseteq 1..frame'
        /\ 1..tracks \subseteq 1..tracks'
    BY <1>1
  <1>3. Seen \subseteq Seen'
    BY <1>2 DEF Seen
  <1>4. Target \subseteq Target'
    BY <1>2, <1>3 DEF Target
  <1>5. ImageRow \subseteq ImageRow'
    BY <1>2 DEF ImageRow
  <1>6. EventRow \subseteq EventRow'
    BY <1>2, <1>3 DEF EventRow
  <1>7. [track : 1..tracks, time : 1..frame, rect : Seen]
              \subseteq [track : 1..tracks', time : 1..frame', rect : Seen']
    BY <1>2, <1>3
  <1>8. Seq(Target) \subseteq Seq(Target') /\ Seq(1..tracks) \subseteq Seq(1..tracks')
    BY <1>2, <1>4, SeqGrows
  <1> QED  BY <1>2, <1>3, <1>4, <1>5, <1>6, <1>7, <1>8

LEMMA HeadAndTail ==
  ASSUME NEW S, NEW s \in Seq(S), s # << >>
  PROVE  Head(s) \in S /\ Tail(s) \in Seq(S)
  OBVIOUS

\* Some contour of the frame is tossed, follows a valid target, or is a new one.
LEMMA TrackCases ==
  ASSUME TypeOK, Track
  PROVE  /\ place = "track" /\ contours' \in Seq(Rects)
         /\ UNCHANGED <<notTargets, frame, place, mask, faults>>
         /\ \/ UNCHANGED <<targets, found, tracks>>
            \/ \E rect \in Seen, i \in DOMAIN targets :
                 /\ targets[i].valid /\ found' = Append(found, Follow(targets[i], rect))
                 /\ targets' = Invalid(i) /\ UNCHANGED tracks
            \/ \E rect \in Seen :
                 /\ found' = Append(found, NewTarget(rect)) /\ tracks' = tracks + 1
                 /\ UNCHANGED targets
  <1>1. /\ place = "track" /\ contours # << >> /\ contours' = Tail(contours)
        /\ UNCHANGED <<notTargets, frame, place, mask, faults>>
    BY DEF Track
  <1>2. /\ Head(contours) \in Rects /\ Tail(contours) \in Seq(Rects) /\ frame \in 1..frame
        /\ targets \in Seq(Target)
    BY <1>1, HeadAndTail DEF TypeOK
  <1> DEFINE rect == [at |-> Head(contours).at, area |-> Head(contours).area, seen |-> frame]
             k == SelectInSeq(targets, LAMBDA t : t.valid /\ Near(t.rect, rect))
  <1>3. rect \in Seen
    BY <1>2 DEF Seen, Rects
  <1>4. \/ UNCHANGED <<targets, found, tracks>>
        \/ k # 0 /\ found' = Append(found, Follow(targets[k], rect)) /\ targets' = Invalid(k)
                 /\ UNCHANGED tracks
        \/ found' = Append(found, NewTarget(rect)) /\ tracks' = tracks + 1 /\ UNCHANGED targets
    BY DEF Track
  <1>5. k \in 0..Len(targets) /\ (k # 0 => targets[k].valid)
    <2> HIDE DEF rect
    <2> DEFINE I == {j \in 1..Len(targets) : targets[j].valid /\ Near(targets[j].rect, rect)}
    <2>1. k = IF I # {} THEN Min(I) ELSE 0
      BY DEF SelectInSeq
    <2> HIDE DEF k
    <2> QED  BY <1>2, <2>1, FirstMatch
  <1> HIDE DEF rect, k
  <1>6. k # 0 => k \in DOMAIN targets
    BY <1>2, <1>5
  <1> QED  BY <1>1, <1>2, <1>3, <1>4, <1>5, <1>6

LEMMA NewTargetType ==
  ASSUME TypeOK, NEW rect \in Seen, tracks' = tracks + 1, frame' = frame
  PROVE  NewTarget(rect) \in Target' /\ HasFrame(NewTarget(rect))
  <1>1. NewTarget(rect) = [rect |-> rect, best |-> NoRect, frame |-> 0, count |-> 0,
                           valid |-> TRUE, track |-> tracks + 1]
    BY DEF NewTarget, None
  <1>2. tracks \in Nat /\ frame \in Nat /\ tracks + 1 \in 1..(tracks + 1) /\ 0 \in 0..frame
    BY DEF TypeOK
  <1>3. Seen' = Seen
    BY DEF Seen
  <1>4. NewTarget(rect) \in Target'
    BY <1>1, <1>2, <1>3 DEF Target
  <1>5. HasFrame(NewTarget(rect))
    BY <1>1 DEF HasFrame, None
  <1> QED  BY <1>4, <1>5

LEMMA FollowType ==
  ASSUME TypeOK, frame # 0, NEW rect \in Seen, NEW old \in Target
  PROVE  /\ Follow(old, rect) \in Target /\ HasFrame(Follow(old, rect))
         /\ Follow(old, rect).track = old.track /\ Follow(old, rect).count = old.count + 1
         /\ Follow(old, rect).valid
  <1> DEFINE t == Follow(old, rect)
             b == IF KeepsFrame(old, rect) THEN old.rect ELSE rect
             f == IF KeepsFrame(old, rect) THEN old.frame ELSE frame
  <1>1. /\ old.rect \in Seen /\ old.frame \in 0..frame /\ old.count \in Nat
        /\ old.track \in 1..tracks /\ frame \in Nat
    BY DEF Target, TypeOK
  <1>2. b \in Seen /\ f \in 0..frame /\ f # 0
    BY <1>1 DEF KeepsFrame, None
  <1>3. NoRect \notin Seen
    BY <1>1 DEF NoRect, Seen, None
  <1>4. t = [rect |-> rect, best |-> b, frame |-> f, count |-> old.count + 1, valid |-> TRUE,
             track |-> old.track]
    BY DEF Follow
  <1> HIDE DEF t, b, f
  <1>5. t \in Target
    BY <1>1, <1>2, <1>4 DEF Target
  <1>6. HasFrame(t)
    BY <1>1, <1>2, <1>3, <1>4 DEF HasFrame, None
  <1>7. t.track = old.track /\ t.count = old.count + 1 /\ t.valid
    BY <1>4
  <1> QED  BY <1>5, <1>6, <1>7 DEF t

\* What Invalid changes, and what it does not.
LEMMA InvalidIs ==
  ASSUME targets \in Seq(Target), NEW i \in DOMAIN targets
  PROVE  /\ Invalid(i) \in Seq(Target) /\ DOMAIN Invalid(i) = DOMAIN targets
         /\ Len(Invalid(i)) = Len(targets)
         /\ ~Invalid(i)[i].valid
         /\ \A j \in DOMAIN targets :
              /\ Invalid(i)[j] = IF j = i THEN [targets[i] EXCEPT !.valid = FALSE]
                                 ELSE targets[j]
              /\ Invalid(i)[j].track = targets[j].track
              /\ Invalid(i)[j].count = targets[j].count
              /\ Invalid(i)[j].frame = targets[j].frame
              /\ Invalid(i)[j].best = targets[j].best
  <1>1. /\ targets \in [1..Len(targets) -> Target] /\ Len(targets) \in Nat
        /\ DOMAIN targets = 1..Len(targets)
    OBVIOUS
  <1> DEFINE t == targets[i]
             u == [t EXCEPT !.valid = FALSE]
  <1>2. /\ u \in Target /\ u.track = t.track /\ u.count = t.count /\ u.frame = t.frame
        /\ u.best = t.best /\ ~u.valid
    BY <1>1 DEF Target
  <1>3. Invalid(i) = [targets EXCEPT ![i] = u]
    BY DEF Invalid
  <1> HIDE DEF u
  <1>4. Invalid(i) \in [1..Len(targets) -> Target]
    BY <1>1, <1>2, <1>3
  <1>5. Invalid(i) \in Seq(Target) /\ Len(Invalid(i)) = Len(targets)
    BY <1>1, <1>4, SeqDef
  <1>6. Invalid(i)[i] = u /\ \A j \in DOMAIN targets : j # i => Invalid(i)[j] = targets[j]
    BY <1>1, <1>3
  <1> QED  BY <1>1, <1>2, <1>3, <1>4, <1>5, <1>6 DEF u

LEMMA SameTypes ==
  ASSUME UNCHANGED <<frame, tracks, lastImage>>
  PROVE  Seen' = Seen /\ Target' = Target /\ ImageRow' = ImageRow /\ EventRow' = EventRow
  BY DEF Seen, Target, ImageRow, EventRow

LEMMA InitType == ASSUME Init PROVE TypeOK
  <1> USE EventsAssumption DEF Init
  <1>1. << >> \in Seq(Rects) /\ << >> \in Seq(1..tracks) /\ << >> \in Seq(Target)
    OBVIOUS
  <1>2. DOMAIN targets = {} /\ DOMAIN found = {} /\ Len(targets) = 0
    OBVIOUS
  <1>3. 0 \in 0..MaxFrames /\ 0 \in 0..MaxPasses /\ 1 \in 1..(0 + 1) /\ 0 \in 0..0
    OBVIOUS
  <1> QED  BY <1>1, <1>2, <1>3 DEF TypeOK, None

\* A frame is typed; the contours in it may be those of an earlier one.
LEMMA NextFrameType == ASSUME TypeOK, NextFrame PROVE TypeOK'
  <1>1. /\ frame' = frame + 1 /\ frame < MaxFrames /\ frame \in Nat /\ frame' # 0
        /\ UNCHANGED <<tracks, lastImage, notTargets, targets, found>>
    BY EventsAssumption DEF NextFrame, TypeOK, notTargets, tableVars
  <1>2. frame' \in 0..MaxFrames /\ frame <= frame' /\ tracks \in Nat /\ lastImage \in Nat
    BY SMTT(40), <1>1, EventsAssumption DEF TypeOK
  <1>3. /\ place = "idle" /\ place' \in {"idle", "track"} /\ mask' \in Seq(Rects)
        /\ contours' \in Seq(Rects) /\ faults' \in Nat
    <2>1. Masked => mask' \in Seq(Rects) /\ faults' \in Nat
      <3>1. CASE Ok /\ mask' \in UNION {[1..n -> Rects] : n \in 0..MaxContours}
        <4>1. PICK n \in 0..MaxContours : mask' \in [1..n -> Rects]
          BY <3>1
        <4>2. n \in Nat
          BY EventsAssumption
        <4>3. mask' \in Seq(Rects)
          BY <4>1, <4>2, SeqDef
        <4> QED  BY <3>1, <4>3 DEF Ok, TypeOK
      <3>2. CASE Fails /\ UNCHANGED mask
        BY <3>2 DEF Fails, TypeOK
      <3> QED  BY <3>1, <3>2 DEF Masked
    <2> QED  BY <2>1 DEF NextFrame, TypeOK
  <1>4. /\ Target \subseteq Target' /\ ImageRow \subseteq ImageRow'
        /\ EventRow \subseteq EventRow' /\ Seq(Target) \subseteq Seq(Target')
        /\ [track : 1..tracks, time : 1..frame, rect : Seen]
             \subseteq [track : 1..tracks', time : 1..frame', rect : Seen']
        /\ 0..frame \subseteq 0..frame'
    BY <1>1, <1>2, TypesGrow
  <1>5. (\A s \in {targets, found} : \A i \in DOMAIN s : HasFrame(s[i]))'
    BY <1>1 DEF TypeOK, HasFrame
  <1>6. (event \in [track : 1..tracks, time : 1..frame, rect : Seen] \cup {NoEvent})'
    BY <1>1, <1>4 DEF TypeOK, notTargets
  <1>7. (place \in {"image", "write", "insert"} <=> event # NoEvent)'
    BY <1>1, <1>3 DEF TypeOK, notTargets
  <1>8. /\ images' \subseteq ImageRow' /\ events' \subseteq EventRow' /\ doomed' \subseteq ImageRow'
        /\ oldest' \in 0..frame'
    BY <1>1, <1>4 DEF TypeOK, notTargets, tableVars, cleanerVars
  <1>9. {targets', found'} \subseteq Seq(Target')
    BY <1>1, <1>4 DEF TypeOK
  <1> HIDE DEF Target, ImageRow, EventRow, Seen, HasFrame
  <1> QED
    BY <1>1, <1>2, <1>3, <1>5, <1>6, <1>7, <1>8, <1>9
    DEF TypeOK, notTargets, tableVars, cleanerVars

LEMMA TrackType == ASSUME TypeOK, Track PROVE TypeOK'
  <1>1. /\ place = "track" /\ contours' \in Seq(Rects) /\ frame # 0
        /\ UNCHANGED <<notTargets, frame, place, mask, faults, lastImage>>
    BY TrackCases DEF TypeOK, notTargets, tableVars
  <1>2. /\ targets \in Seq(Target) /\ found \in Seq(Target) /\ tracks \in Nat /\ frame \in Nat
        /\ lastImage \in Nat
    BY DEF TypeOK
  <1> DEFINE Typed(s) == s \in Seq(Target) /\ \A i \in DOMAIN s : HasFrame(s[i])
         Goal == /\ Typed(targets)' /\ Typed(found)' /\ Len(targets') = Len(targets)
                 /\ tracks' \in Nat /\ tracks <= tracks'
  <1>3. Goal
    <2>1. CASE UNCHANGED <<targets, found, tracks>>
      <3>1. Target' = Target
        BY <1>1, <2>1, SameTypes
      <3> QED  BY <1>2, <2>1, <3>1 DEF TypeOK, HasFrame
    <2>2. ASSUME NEW rect \in Seen, NEW i \in DOMAIN targets,
                 found' = Append(found, Follow(targets[i], rect)), targets' = Invalid(i),
                 UNCHANGED tracks
          PROVE Goal
      <3>1. Target' = Target
        BY <1>1, <2>2, SameTypes
      <3>2. targets[i] \in Target
        BY <1>2
      <3> DEFINE t == Follow(targets[i], rect)
      <3>3. t \in Target /\ HasFrame(t)
        BY <1>1, <3>2, FollowType
      <3> HIDE DEF t
      <3>4. Typed(found)'
        <4>1. /\ found' \in Seq(Target) /\ DOMAIN found' = DOMAIN found \cup {Len(found) + 1}
              /\ \A j \in DOMAIN found : found'[j] = found[j]
              /\ found'[Len(found) + 1] = t
          BY <1>2, <2>2, <3>3, AppendIs DEF t
        <4>2. \A j \in DOMAIN found : HasFrame(found[j])
          BY DEF TypeOK
        <4>3. \A j \in DOMAIN found' : HasFrame(found'[j])
          BY <3>3, <4>1, <4>2
        <4> QED  BY <3>1, <4>1, <4>3 DEF HasFrame
      <3>5. Typed(targets)' /\ Len(targets') = Len(targets)
        <4>1. /\ targets' \in Seq(Target) /\ DOMAIN targets' = DOMAIN targets
              /\ Len(targets') = Len(targets)
              /\ \A j \in DOMAIN targets : /\ targets'[j].count = targets[j].count
                                           /\ targets'[j].frame = targets[j].frame
                                           /\ targets'[j].best = targets[j].best
          BY <1>2, <2>2, InvalidIs
        <4> QED  BY <3>1, <4>1 DEF TypeOK, HasFrame
      <3> QED  BY <1>2, <2>2, <3>4, <3>5
    <2>3. ASSUME NEW rect \in Seen, found' = Append(found, NewTarget(rect)),
                 tracks' = tracks + 1, UNCHANGED targets
          PROVE Goal
      <3> DEFINE t == NewTarget(rect)
      <3>1. t \in Target' /\ HasFrame(t)
        BY <1>1, <2>3, NewTargetType
      <3>2. Seq(Target) \subseteq Seq(Target')
        <4>1. frame' \in Nat /\ frame <= frame' /\ lastImage' \in Nat /\ lastImage <= lastImage'
              /\ tracks' \in Nat /\ tracks <= tracks'
          BY <1>1, <1>2, <2>3
        <4> QED  BY <4>1, TypesGrow
      <3> HIDE DEF t
      <3>3. found \in Seq(Target') /\ targets \in Seq(Target')
        BY <1>2, <3>2
      <3>4. /\ found' \in Seq(Target') /\ DOMAIN found' = DOMAIN found \cup {Len(found) + 1}
            /\ \A j \in DOMAIN found : found'[j] = found[j]
            /\ found'[Len(found) + 1] = t
        BY <2>3, <3>1, <3>3, AppendIs DEF t
      <3>5. \A j \in DOMAIN found : HasFrame(found[j])
        BY DEF TypeOK
      <3>6. \A j \in DOMAIN found' : HasFrame(found'[j])
        BY <3>1, <3>4, <3>5
      <3>7. Typed(found)'
        BY <3>4, <3>6 DEF HasFrame
      <3>8. Typed(targets)'
        BY <2>3, <3>3 DEF TypeOK, HasFrame
      <3> QED  BY <1>2, <2>3, <3>7, <3>8
    <2>4. \/ UNCHANGED <<targets, found, tracks>>
          \/ \E rect \in Seen, i \in DOMAIN targets :
               /\ found' = Append(found, Follow(targets[i], rect)) /\ targets' = Invalid(i)
               /\ UNCHANGED tracks
          \/ \E rect \in Seen :
               /\ found' = Append(found, NewTarget(rect)) /\ tracks' = tracks + 1
               /\ UNCHANGED targets
      BY TrackCases
    <2> HIDE DEF Goal
    <2> QED  BY <2>1, <2>2, <2>3, <2>4
  <1>4. /\ Seen \subseteq Seen' /\ ImageRow \subseteq ImageRow'
        /\ EventRow \subseteq EventRow'
        /\ Seq(1..tracks) \subseteq Seq(1..tracks')
        /\ [track : 1..tracks, time : 1..frame, rect : Seen]
              \subseteq [track : 1..tracks', time : 1..frame', rect : Seen']
    <2>1. frame' \in Nat /\ frame <= frame' /\ lastImage' \in Nat /\ lastImage <= lastImage'
      BY <1>1, <1>2
    <2> QED  BY <1>3, <2>1, TypesGrow
  <1> HIDE DEF Target, ImageRow, EventRow, Seen, HasFrame
  <1>5. (event \in [track : 1..tracks, time : 1..frame, rect : Seen] \cup {NoEvent})'
    BY <1>1, <1>4 DEF TypeOK, notTargets
  <1>6. images' \subseteq ImageRow' /\ events' \subseteq EventRow' /\ doomed' \subseteq ImageRow'
    BY <1>1, <1>4 DEF TypeOK, notTargets, tableVars, cleanerVars
  <1>7. raised' \in Seq(1..tracks')
    BY <1>1, <1>4 DEF TypeOK, notTargets
  <1> QED
    BY <1>1, <1>2, <1>3, <1>5, <1>6, <1>7 DEF TypeOK, notTargets, tableVars, cleanerVars

\* Steps that leave the numbers of frames and tracks alone.
LEMMA CameraType ==
  ASSUME TypeOK, TargetsInv, Begin \/ Tracked \/ AllSent \/ End
  PROVE  TypeOK'
  <1>1. UNCHANGED <<frame, tracks, lastImage>>
    BY DEF Begin, Tracked, AllSent, End, notTargets, notEvents, tableVars
  <1>2. Seen' = Seen /\ Target' = Target /\ ImageRow' = ImageRow /\ EventRow' = EventRow
    BY <1>1, SameTypes
  <1>3. << >> \in Seq(Target) /\ << >> \in Seq(Rects) /\ DOMAIN << >> = {} /\ Len(<< >>) = 0
    OBVIOUS
  <1>4. Len(found) \in Nat /\ Len(targets) \in Nat
    BY DEF TypeOK
  <1> HIDE DEF Target, ImageRow, EventRow, Seen
  <1>5. CASE Begin
    BY <1>2, <1>5 DEF Begin, Goes, notTargets, tableVars, cleanerVars, TypeOK, HasFrame
  <1>6. CASE AllSent
    BY SMTT(40), <1>2, <1>4, <1>6 DEF AllSent, Goes, notEvents, tableVars, cleanerVars, TypeOK, HasFrame
  <1>7. CASE Tracked
    <2>1. /\ targets' = found /\ found' = << >> /\ at = 1 /\ at' = at
          /\ UNCHANGED <<notTargets, frame, mask, contours, tracks, faults>>
          /\ place = "track" /\ place' = "send"
      BY <1>7 DEF Tracked, Goes, TargetsInv, notTargets
    <2>2. {targets', found'} \subseteq Seq(Target)
      BY <1>3, <2>1 DEF TypeOK
    <2>3. (\A s \in {targets, found} : \A i \in DOMAIN s : HasFrame(s[i]))'
      BY <1>3, <2>1 DEF TypeOK, HasFrame
    <2>4. at' \in 1..(Len(targets') + 1)
      BY <1>4, <2>1
    <2> QED
      BY <1>2, <2>1, <2>2, <2>3, <2>4 DEF notTargets, tableVars, cleanerVars, TypeOK
  <1>8. CASE End
    <2>1. /\ targets' = << >> /\ mask' = << >> /\ at = 1 /\ at' = at
          /\ UNCHANGED <<notTargets, frame, contours, found, tracks, faults>>
          /\ place = "idle" /\ place' = "off"
      BY <1>8 DEF End, Goes, TargetsInv, notTargets
    <2>2. {targets', found'} \subseteq Seq(Target)
      BY <1>3, <2>1 DEF TypeOK
    <2>3. (\A s \in {targets, found} : \A i \in DOMAIN s : HasFrame(s[i]))'
      BY <1>3, <2>1 DEF TypeOK, HasFrame
    <2>4. at' \in 1..(Len(targets') + 1)
      BY <1>3, <2>1
    <2> QED
      BY <1>2, <1>3, <2>1, <2>2, <2>3, <2>4 DEF notTargets, tableVars, cleanerVars, TypeOK
  <1> QED  BY <1>5, <1>6, <1>7, <1>8

\* What send_events() takes of the target that is due.
LEMMA DueHasFrame ==
  ASSUME TypeOK, NEW i \in Due
  PROVE  /\ i \in DOMAIN targets /\ i \in at..Len(targets) /\ targets[i].count = TrackingTime
         /\ targets[i] \in Target /\ targets[i].track \in 1..tracks
         /\ targets[i].frame \in 1..frame /\ targets[i].best \in Seen
  <1>1. /\ i \in at..Len(targets) /\ targets[i].count = TrackingTime
        /\ Len(targets) \in Nat /\ at \in Nat /\ 1 <= at /\ targets \in Seq(Target)
    BY DEF Due, TypeOK
  <1>2. i \in DOMAIN targets
    BY <1>1
  <1>3. targets[i] \in Target /\ HasFrame(targets[i]) /\ TrackingTime # 0 /\ frame \in Nat
    <2>1. targets[i] \in Target
      BY <1>1, <1>2
    <2>2. HasFrame(targets[i])
      BY <1>2 DEF TypeOK
    <2> QED  BY <2>1, <2>2, EventsAssumption DEF TypeOK
  <1>4. /\ targets[i].track \in 1..tracks /\ targets[i].frame \in 0..frame
        /\ targets[i].best \in Seen \cup {NoRect}
    BY <1>3 DEF Target
  <1>5. targets[i].frame # 0 /\ targets[i].best # NoRect
    BY <1>1, <1>3 DEF HasFrame, None
  <1> QED  BY <1>1, <1>2, <1>3, <1>4, <1>5

LEMMA SendEventType == ASSUME TypeOK, SendEvent PROVE TypeOK'
  <1>1. UNCHANGED <<frame, tracks, lastImage>>
    BY DEF SendEvent, notEvents, tableVars
  <1>2. Seen' = Seen /\ Target' = Target /\ ImageRow' = ImageRow /\ EventRow' = EventRow
    BY <1>1, SameTypes
  <1>3. PICK i \in Due : /\ at' = i + 1 /\ raised' = Append(raised, targets[i].track)
                         /\ event' = [track |-> targets[i].track, time |-> targets[i].frame,
                                      rect |-> targets[i].best]
    BY DEF SendEvent
  <1>4. /\ i \in at..Len(targets) /\ targets[i].track \in 1..tracks
        /\ targets[i].frame \in 1..frame /\ targets[i].best \in Seen
    BY DueHasFrame
  <1>5. Len(targets) \in Nat /\ at \in Nat /\ 1 <= at /\ raised \in Seq(1..tracks)
    BY DEF TypeOK
  <1>6. i + 1 \in 1..(Len(targets) + 1)
    BY <1>4, <1>5
  <1>7. raised' \in Seq(1..tracks)
    BY <1>3, <1>4, <1>5, AppendIs
  <1>8. event' \in [track : 1..tracks, time : 1..frame, rect : Seen] /\ event' # NoEvent
    BY <1>3, <1>4 DEF NoEvent, None
  <1> HIDE DEF Target, ImageRow, EventRow, Seen
  <1> QED
    BY <1>2, <1>3, <1>6, <1>7, <1>8
    DEF SendEvent, Goes, notEvents, tableVars, cleanerVars, TypeOK, HasFrame

LEMMA InsertImageType == ASSUME TypeOK, InsertImage PROVE TypeOK'
  <1>1. /\ UNCHANGED <<notEvents, targets, at, event, raised, pictures, events, complete, late>>
        /\ lastImage \in Nat /\ lastImage' \in {lastImage, lastImage + 1} /\ place = "image"
        /\ place' \in {"write", "insert"}
    BY DEF InsertImage, TypeOK
  <1>2. /\ UNCHANGED <<frame, tracks>> /\ frame \in Nat /\ tracks \in Nat
        /\ lastImage' \in Nat /\ lastImage <= lastImage'
    BY <1>1 DEF notEvents, TypeOK
  <1>3. Seen' = Seen /\ Target' = Target
    BY <1>2 DEF Seen, Target
  <1>4. /\ ImageRow \subseteq ImageRow' /\ EventRow \subseteq EventRow'
        /\ 0..lastImage \subseteq 0..lastImage' /\ 1..lastImage \subseteq 1..lastImage'
    BY <1>2, TypesGrow
  <1>5. event \in [track : 1..tracks, time : 1..frame, rect : Seen] /\ event' # NoEvent
    BY <1>1 DEF TypeOK
  <1>6. images' \subseteq ImageRow' /\ image' \in 0..lastImage' /\ faults' \in Nat
    <2>1. images \subseteq ImageRow'
      BY <1>4 DEF TypeOK
    <2>2. CASE /\ Ok /\ place' = "write" /\ image' = lastImage + 1 /\ lastImage' = lastImage + 1
               /\ images' = images \cup {[id |-> lastImage + 1, time |-> event.time]}
      <3>1. event.time \in 1..frame' /\ lastImage + 1 \in 1..lastImage'
        BY <1>1, <1>2, <1>5, <2>2
      <3>2. [id |-> lastImage + 1, time |-> event.time] \in ImageRow'
        BY <3>1 DEF ImageRow
      <3>3. image' \in 0..lastImage'
        BY <1>2, <2>2
      <3> QED  BY <2>1, <2>2, <3>2, <3>3 DEF Ok, TypeOK
    <2>3. CASE Fails /\ image' = None /\ UNCHANGED <<images, lastImage>>
      <3>1. 0 \in 0..lastImage' /\ faults' \in Nat
        BY <1>2, <2>3 DEF Fails, TypeOK
      <3> QED  BY <2>1, <2>3, <3>1 DEF None
    <2> QED  BY <2>2, <2>3 DEF InsertImage
  <1> HIDE DEF Target, ImageRow, EventRow, Seen
  <1>7. events' \subseteq EventRow' /\ doomed' \subseteq ImageRow' /\ victim' \in 0..lastImage'
    BY <1>1, <1>4 DEF notEvents, cleanerVars, TypeOK
  <1>8. {pictures', complete', missed'} \subseteq SUBSET (1..lastImage') /\ late' \subseteq 0..lastImage'
    BY <1>1, <1>4 DEF notEvents, cleanerVars, TypeOK
  <1>9. (event \in [track : 1..tracks, time : 1..frame, rect : Seen] \cup {NoEvent})'
    BY <1>1, <1>2, <1>3, <1>5
  <1> QED
    BY <1>1, <1>2, <1>3, <1>5, <1>6, <1>7, <1>8, <1>9 DEF notEvents, cleanerVars, TypeOK, HasFrame

LEMMA WriteType == ASSUME TypeOK, PicturesInv, WriteImage \/ InsertEvent PROVE TypeOK'
  <1>1. UNCHANGED <<frame, tracks, lastImage>>
    BY DEF WriteImage, InsertEvent, notEvents, tableVars
  <1>2. Seen' = Seen /\ Target' = Target /\ ImageRow' = ImageRow /\ EventRow' = EventRow
    BY <1>1, SameTypes
  <1>3. lastImage \in Nat /\ 0 \in 0..lastImage /\ 1..lastImage \subseteq 0..lastImage
    BY DEF TypeOK
  <1> HIDE DEF Target, ImageRow, EventRow, Seen
  <1>4. CASE WriteImage
    <2>1. image \in 1..lastImage /\ place = "write" /\ place' = "insert"
      BY <1>3, <1>4 DEF WriteImage, Goes, PicturesInv, Writing, None, TypeOK
    <2>2. image' \in 0..lastImage
      BY <1>3, <1>4, <2>1 DEF WriteImage, Failed, None
    <2>3. /\ pictures' \subseteq 1..lastImage /\ complete' \subseteq 1..lastImage
          /\ faults' \in Nat
      <3>1. pictures \subseteq 1..lastImage /\ complete \subseteq 1..lastImage /\ faults \in Nat
        BY DEF TypeOK
      <3>2. \/ Ok /\ pictures' = pictures \cup {image} /\ complete' = complete \cup {image}
            \/ Fails /\ UNCHANGED complete /\ pictures' \in {pictures, pictures \cup {image}}
        BY <1>4 DEF WriteImage
      <3>3. faults' \in Nat
        BY <3>1, <3>2 DEF Ok, Fails
      <3>4. pictures' \subseteq 1..lastImage
        BY <2>1, <3>1, <3>2
      <3>5. complete' \subseteq 1..lastImage
        BY <2>1, <3>1, <3>2
      <3> QED  BY <3>3, <3>4, <3>5
    <2>4. UNCHANGED <<notEvents, targets, at, event, raised, images, lastImage, events, late>>
      BY <1>4 DEF WriteImage
    <2> HIDE DEF WriteImage
    <2> QED
      BY <1>1, <1>2, <2>1, <2>2, <2>3, <2>4 DEF notEvents, cleanerVars, TypeOK, HasFrame
  <1>5. CASE InsertEvent
    <2>1. place = "insert" /\ place' = "send" /\ event' = NoEvent /\ image' = None
      BY <1>5 DEF InsertEvent, Goes
    <2>2. event \in [track : 1..tracks, time : 1..frame, rect : Seen]
      BY <2>1 DEF TypeOK
    <2>3. [track |-> event.track, time |-> event.time, rect |-> event.rect, image |-> image]
            \in EventRow
      BY <2>2 DEF EventRow, TypeOK
    <2>4. events' \subseteq EventRow /\ late' \subseteq 0..lastImage /\ faults' \in Nat
      <3>1. events \subseteq EventRow /\ late \subseteq 0..lastImage /\ faults \in Nat
            /\ image \in 0..lastImage
        BY DEF TypeOK
      <3>2. late' \subseteq 0..lastImage
        BY <1>5, <3>1 DEF InsertEvent
      <3>3. \/ Ok /\ events' = events \cup {[track |-> event.track, time |-> event.time,
                                             rect |-> event.rect, image |-> image]}
            \/ Fails /\ UNCHANGED events
        BY <1>5 DEF InsertEvent
      <3>4. events' \subseteq EventRow
        BY <2>3, <3>1, <3>3
      <3> QED  BY <3>1, <3>2, <3>3, <3>4 DEF Ok, Fails
    <2> QED
      BY <1>2, <1>3, <1>5, <2>1, <2>4
      DEF InsertEvent, notEvents, cleanerVars, TypeOK, HasFrame, None
  <1> QED  BY <1>4, <1>5

LEMMA CleanerType ==
  ASSUME TypeOK, PassInv, Cleaner
  PROVE  TypeOK'
  <1>1. UNCHANGED notCleaner
    BY DEF Cleaner, CleanImages, RmPicture, DeleteImage, CleanEvents
  <1>2. Seen' = Seen /\ Target' = Target /\ ImageRow' = ImageRow /\ EventRow' = EventRow
    BY <1>1, SameTypes DEF notCleaner, cameraVars
  <1> DEFINE Rest == /\ images' \subseteq ImageRow /\ events' \subseteq EventRow
                     /\ {pictures', missed'} \subseteq SUBSET (1..lastImage)
                     /\ cleaner' \in {"none", "file", "row"} /\ oldest' \in 0..frame
                     /\ doomed' \subseteq ImageRow /\ (doomed' # {} => cleaner' # "none")
                     /\ victim' \in 0..lastImage /\ (cleaner' = "row" <=> victim' # None)
                     /\ faults' \in Nat /\ passes' \in 0..MaxPasses
  <1>3. ASSUME Rest PROVE TypeOK'
    BY <1>1, <1>2, <1>3 DEF notCleaner, cameraVars, TypeOK, HasFrame
  <1>4. faults \in Nat /\ frame \in Nat /\ lastImage \in Nat /\ passes \in Nat /\ 0 \in 0..frame
    BY DEF TypeOK
  <1> HIDE DEF Target, ImageRow, EventRow, Seen
  <1>5. CASE CleanImages
    <2>1. passes' \in 0..MaxPasses /\ oldest' \in 0..frame
      BY SMTT(40), <1>4, <1>5, EventsAssumption DEF CleanImages, TypeOK
    <2>2. doomed' \subseteq images /\ faults' \in Nat
      BY <1>4, <1>5 DEF CleanImages, Ok, Fails
    <2>3. Rest
      BY <1>5, <2>1, <2>2 DEF CleanImages, TypeOK
    <2> QED  BY <1>3, <2>3
  <1>6. CASE RmPicture
    <2>1. PICK r \in doomed :
            /\ victim' = r.id /\ doomed' = doomed \ {r}
            /\ \/ /\ Found(r) /\ Ok /\ pictures' = pictures \ {r.id} /\ UNCHANGED missed
               \/ /\ (~Found(r) /\ Ok) \/ (Found(r) /\ Fails)
                  /\ missed' = missed \cup {r.id} /\ UNCHANGED pictures
      BY <1>6 DEF RmPicture
    <2>2. r.id \in 1..lastImage /\ r.id # None /\ r.id \in 0..lastImage
      BY <1>4 DEF TypeOK, ImageRow, None
    <2>3. {pictures', missed'} \subseteq SUBSET (1..lastImage)
      BY <2>1, <2>2 DEF TypeOK
    <2>4. faults' \in Nat
      BY <1>4, <2>1 DEF Ok, Fails
    <2>5. Rest
      BY <1>6, <2>1, <2>2, <2>3, <2>4 DEF RmPicture, TypeOK
    <2> QED  BY <1>3, <2>5
  <1>7. CASE DeleteImage
    <2>1. images' \subseteq images /\ faults' \in Nat /\ victim' = 0 /\ 0 \in 0..lastImage
      BY <1>4, <1>7 DEF DeleteImage, Ok, Fails, None
    <2>2. Rest
      BY <1>7, <2>1 DEF DeleteImage, TypeOK, None
    <2> QED  BY <1>3, <2>2
  <1>8. CASE CleanEvents
    <2>1. events' \subseteq events /\ faults' \in Nat
      BY <1>4, <1>8 DEF CleanEvents, Ok, Fails
    <2>2. Rest
      BY <1>4, <1>8, <2>1 DEF CleanEvents, TypeOK
    <2> QED  BY <1>3, <2>2
  <1> QED  BY <1>5, <1>6, <1>7, <1>8 DEF Cleaner

LEMMA CrashType == ASSUME TypeOK, Crash PROVE TypeOK'
  <1>1. UNCHANGED <<frame, tracks, raised, tableVars, passes, missed>> /\ Fails
    BY DEF Crash
  <1>2. Seen' = Seen /\ Target' = Target /\ ImageRow' = ImageRow /\ EventRow' = EventRow
    BY <1>1, SameTypes DEF tableVars
  <1>3. /\ << >> \in Seq(Target) /\ << >> \in Seq(Rects) /\ DOMAIN << >> = {} /\ Len(<< >>) = 0
        /\ 1 \in 1..(0 + 1)
    OBVIOUS
  <1>4. lastImage \in Nat /\ 0 \in 0..lastImage /\ frame \in Nat /\ 0 \in 0..frame /\ faults' \in Nat
    BY <1>1 DEF TypeOK, Fails
  <1> HIDE DEF Target, ImageRow, EventRow, Seen
  <1> QED
    BY <1>1, <1>2, <1>3, <1>4 DEF Crash, tableVars, TypeOK, HasFrame, None

LEMMA TypeStep ==
  ASSUME TypeOK, TargetsInv, PicturesInv, PassInv, [Next]_vars
  PROVE  TypeOK'
  <1>1. CASE UNCHANGED vars
    <2>1. UNCHANGED <<cameraVars, tableVars, cleanerVars, faults>>
      BY <1>1 DEF vars
    <2>2. Seen' = Seen /\ Target' = Target /\ ImageRow' = ImageRow /\ EventRow' = EventRow
      BY <2>1, SameTypes DEF cameraVars, tableVars
    <2> QED
      BY <2>1, <2>2 DEF cameraVars, tableVars, cleanerVars, TypeOK, HasFrame
  <1>2. CASE Camera
    BY <1>2, NextFrameType, TrackType, CameraType, SendEventType, InsertImageType, WriteType
    DEF Camera
  <1> QED  BY <1>1, <1>2, CleanerType, CrashType DEF Next

-----------------------------------------------------------------------------
(* Targets and what is raised for them *)

Quiet == {"off", "idle", "track"}

\* The steps that change neither the targets nor what is raised.
LEMMA TargetsAlone ==
  ASSUME TargetsInv, RaisedInv, UNCHANGED <<targets, found, raised, at>>,
         place \in Quiet <=> place' \in Quiet, place = "track" => place' = "track"
  PROVE  TargetsInv' /\ RaisedInv'
  <1>1. place # "track" => found = << >>
    BY DEF TargetsInv
  <1>2. \A i \in DOMAIN targets : Passed(i)' <=> Passed(i)
    BY DEF Passed, Quiet
  <1>3. Distinct(targets)' /\ Distinct(found)'
    BY DEF TargetsInv, Distinct
  <1>4. (\A i \in DOMAIN found : Fresh(found[i]) \/ GoesOn(found[i]))'
    BY DEF TargetsInv, Fresh, GoesOn
  <1>5. TargetsInv'
    BY <1>1, <1>3, <1>4 DEF TargetsInv, Quiet
  <1>6. RaisedInv'
    BY <1>2 DEF RaisedInv
  <1> QED  BY <1>5, <1>6

LEMMA NoTargets ==
  ASSUME TypeOK, RaisedInv, targets' = << >>, found' = << >>, at' = 1, UNCHANGED raised
  PROVE  TargetsInv' /\ RaisedInv'
  <1>1. DOMAIN targets' = {} /\ DOMAIN found' = {}
    OBVIOUS
  <1>2. IsInjective(raised)'
    BY DEF RaisedInv
  <1> QED  BY <1>1, <1>2 DEF TargetsInv, RaisedInv, Distinct

\* A contour is taken for one target, which no other contour is taken for afterwards.
LEMMA TrackKeeps ==
  ASSUME TypeOK, TargetsInv, RaisedInv, Track
  PROVE  TargetsInv' /\ RaisedInv'
  <1>1. /\ place = "track" /\ frame # 0 /\ UNCHANGED <<notTargets, place>>
        /\ targets \in Seq(Target) /\ found \in Seq(Target) /\ raised \in Seq(1..tracks)
        /\ tracks \in Nat
    BY TrackCases DEF TypeOK
  <1>2. UNCHANGED <<at, raised>> /\ at = 1
    BY <1>1 DEF notTargets, TargetsInv
  <1>3. \A k : Passed(k) /\ Passed(k)'
    BY <1>1 DEF Passed
  <1>4. CASE UNCHANGED <<targets, found, tracks>>
    BY <1>1, <1>2, <1>4, TargetsAlone
  <1>5. ASSUME NEW rect \in Seen, NEW i \in DOMAIN targets,
               targets[i].valid, found' = Append(found, Follow(targets[i], rect)),
               targets' = Invalid(i)
        PROVE  TargetsInv' /\ RaisedInv'
    <2> DEFINE t == Follow(targets[i], rect)
               n == Len(found) + 1
    <2>1. t \in Target /\ t.track = targets[i].track /\ t.count = targets[i].count + 1
      <3>1. targets[i] \in Target
        BY <1>1
      <3> QED  BY <1>1, <3>1, FollowType
    <2> HIDE DEF t
    <2>2. /\ DOMAIN found' = DOMAIN found \cup {n} /\ found'[n] = t /\ n \notin DOMAIN found
          /\ \A j \in DOMAIN found : found'[j] = found[j]
      BY <1>1, <1>5, <2>1, AppendIs DEF t
    <2> HIDE DEF n
    <2>3. /\ DOMAIN targets' = DOMAIN targets /\ ~targets'[i].valid
          /\ \A j \in DOMAIN targets : /\ targets'[j].track = targets[j].track
                                       /\ targets'[j].count = targets[j].count
                                       /\ ~targets[j].valid => ~targets'[j].valid
      <3>1. /\ DOMAIN Invalid(i) = DOMAIN targets /\ ~Invalid(i)[i].valid
            /\ \A j \in DOMAIN targets :
                 /\ j # i => Invalid(i)[j] = targets[j]
                 /\ Invalid(i)[j].track = targets[j].track
                 /\ Invalid(i)[j].count = targets[j].count
        BY <1>1, InvalidIs
      <3> QED  BY <1>5, <3>1
    <2>4. Distinct(targets)'
      BY <2>3 DEF TargetsInv, Distinct
    <2>5. \A j \in DOMAIN found : found[j].track # t.track
      <3> SUFFICES ASSUME NEW j \in DOMAIN found, found[j].track = targets[i].track
                   PROVE FALSE
        BY <2>1
      <3>1. CASE Fresh(found[j])
        BY <3>1 DEF Fresh
      <3>2. CASE GoesOn(found[j])
        <4>1. PICK k \in DOMAIN targets : targets[k].track = found[j].track /\ ~targets[k].valid
          BY <3>2 DEF GoesOn
        <4>2. k = i
          BY <4>1 DEF TargetsInv, Distinct
        <4> QED  BY <1>5, <4>1, <4>2
      <3> QED  BY <3>1, <3>2 DEF TargetsInv
    <2>6. Distinct(found)'
      BY <2>2, <2>5 DEF TargetsInv, Distinct
    <2>7. (\A j \in DOMAIN found : Fresh(found[j]) \/ GoesOn(found[j]))'
      <3> SUFFICES ASSUME NEW j \in DOMAIN found' PROVE (Fresh(found[j]) \/ GoesOn(found[j]))'
        OBVIOUS
      <3>1. CASE j = n
        BY <2>1, <2>2, <2>3, <3>1 DEF GoesOn
      <3>2. CASE j \in DOMAIN found /\ Fresh(found[j])
        BY <1>2, <2>2, <2>3, <3>2 DEF Fresh
      <3>3. CASE j \in DOMAIN found /\ GoesOn(found[j])
        BY <2>2, <2>3, <3>3 DEF GoesOn
      <3> QED  BY <2>2, <3>1, <3>2, <3>3 DEF TargetsInv
    <2>8. TargetsInv'
      BY <1>1, <1>2, <2>4, <2>6, <2>7 DEF TargetsInv
    <2>9. RaisedInv'
      BY <1>2, <1>3, <2>3 DEF RaisedInv
    <2> QED  BY <2>8, <2>9
  <1>6. ASSUME NEW rect \in Seen, found' = Append(found, NewTarget(rect)), UNCHANGED targets
        PROVE  TargetsInv' /\ RaisedInv'
    <2>0. PICK t : t = NewTarget(rect)
      OBVIOUS
    <2> DEFINE n == Len(found) + 1
    <2>1. t.track = tracks + 1 /\ t.count = 0
      BY <2>0 DEF NewTarget
    <2>2. /\ DOMAIN found' = DOMAIN found \cup {n} /\ found'[n] = t /\ n \notin DOMAIN found
          /\ \A j \in DOMAIN found : found'[j] = found[j]
      <3> DEFINE S == Target \cup {t}
      <3>1. found \in Seq(S) /\ t \in S
        BY <1>1, SeqGrows
      <3> HIDE DEF S
      <3> QED  BY <1>6, <2>0, <3>1, AppendIs
    <2> HIDE DEF n
    <2>3. /\ \A j \in DOMAIN targets : targets[j].track \in 1..tracks
          /\ \A j \in DOMAIN found : found[j].track \in 1..tracks
          /\ Range(raised) \subseteq 1..tracks
      <3>1. \A u \in Target : u.track \in 1..tracks
        BY DEF Target
      <3>2. (\A j \in DOMAIN targets : targets[j] \in Target) /\ \A j \in DOMAIN found : found[j] \in Target
        BY <1>1
      <3>3. Range(raised) \subseteq 1..tracks
        BY <1>1 DEF Range
      <3> QED  BY <3>1, <3>2, <3>3
    <2>4. tracks + 1 \notin 1..tracks
      BY <1>1
    <2>5. Fresh(t)'
      BY <1>2, <1>6, <2>1, <2>3, <2>4 DEF Fresh
    <2>6. Distinct(found)'
      BY <2>1, <2>2, <2>3, <2>4 DEF TargetsInv, Distinct
    <2>7. (\A j \in DOMAIN found : Fresh(found[j]) \/ GoesOn(found[j]))'
      <3> SUFFICES ASSUME NEW j \in DOMAIN found' PROVE (Fresh(found[j]) \/ GoesOn(found[j]))'
        OBVIOUS
      <3>1. CASE j = n
        BY <2>2, <2>5, <3>1 DEF Fresh
      <3>2. CASE j \in DOMAIN found /\ Fresh(found[j])
        BY <1>2, <1>6, <2>2, <3>2 DEF Fresh
      <3>3. CASE j \in DOMAIN found /\ GoesOn(found[j])
        BY <1>6, <2>2, <3>3 DEF GoesOn
      <3> QED  BY <2>2, <3>1, <3>2, <3>3 DEF TargetsInv
    <2>8. TargetsInv'
      BY <1>1, <1>2, <1>6, <2>6, <2>7 DEF TargetsInv, Distinct
    <2>9. RaisedInv'
      BY <1>2, <1>3, <1>6 DEF RaisedInv
    <2> QED  BY <2>8, <2>9
  <1>7. \/ UNCHANGED <<targets, found, tracks>>
        \/ \E rect \in Seen, i \in DOMAIN targets :
             /\ targets[i].valid /\ found' = Append(found, Follow(targets[i], rect))
             /\ targets' = Invalid(i)
        \/ \E rect \in Seen : found' = Append(found, NewTarget(rect)) /\ UNCHANGED targets
    BY TrackCases
  <1> QED  BY <1>4, <1>5, <1>6, <1>7

LEMMA TargetFields ==
  ASSUME NEW s \in Seq(Target)
  PROVE  /\ Len(s) \in Nat /\ DOMAIN s = 1..Len(s) /\ DOMAIN s \subseteq Nat \ {0}
         /\ \A i \in DOMAIN s : s[i].count \in Nat /\ s[i].track \in 1..tracks
  <1>1. Len(s) \in Nat /\ DOMAIN s = 1..Len(s) /\ \A i \in DOMAIN s : s[i] \in Target
    OBVIOUS
  <1>2. \A u \in Target : u.count \in Nat /\ u.track \in 1..tracks
    BY DEF Target
  <1> QED  BY <1>1, <1>2

\* The new targets replace the old ones: one that goes on from an old one is due, or past it,
\* if the old one was.
LEMMA TrackedKeeps ==
  ASSUME TypeOK, TargetsInv, RaisedInv, Tracked
  PROVE  TargetsInv' /\ RaisedInv'
  <1>1. /\ place = "track" /\ place' = "send" /\ targets' = found /\ found' = << >>
        /\ UNCHANGED <<at, raised>> /\ at = 1
    BY DEF Tracked, Goes, notTargets, TargetsInv
  <1>2. DOMAIN found' = {} /\ DOMAIN targets' = DOMAIN found
    BY <1>1
  <1>3. TargetsInv'
    BY <1>1, <1>2 DEF TargetsInv, Distinct
  <1>4. TrackingTime \in Nat /\ TrackingTime # 0
    BY EventsAssumption
  <1>5. \A i \in DOMAIN targets : targets[i].count \in Nat
    <2>1. targets \in Seq(Target)
      BY DEF TypeOK
    <2> QED  BY <2>1, TargetFields
  <1>6. \A i \in DOMAIN targets : targets[i].track \in Range(raised) <=> targets[i].count >= TrackingTime
    BY <1>1 DEF RaisedInv, Passed
  <1>7. ASSUME NEW i \in DOMAIN found
        PROVE  found[i].track \in Range(raised) <=> found[i].count > TrackingTime
    <2>1. CASE Fresh(found[i])
      BY <1>4, <2>1 DEF Fresh
    <2>2. CASE GoesOn(found[i])
      <3>1. PICK k \in DOMAIN targets :
              targets[k].track = found[i].track /\ found[i].count = targets[k].count + 1
        BY <2>2 DEF GoesOn
      <3>2. found[i].count > TrackingTime <=> targets[k].count >= TrackingTime
        BY <1>4, <1>5, <3>1
      <3> QED  BY <1>6, <3>1, <3>2
    <2> QED  BY <2>1, <2>2 DEF TargetsInv
  <1>8. \A i \in DOMAIN found : ~Passed(i)'
    <2>1. DOMAIN found \subseteq Nat \ {0}
      <3>1. found \in Seq(Target)
        BY DEF TypeOK
      <3> QED  BY <3>1
    <2> QED  BY <1>1, <2>1 DEF Passed
  <1>9. RaisedInv'
    BY <1>1, <1>2, <1>7, <1>8 DEF RaisedInv
  <1> QED  BY <1>3, <1>9

\* The first target that is due is raised, and those before it are passed.
LEMMA SendEventKeeps ==
  ASSUME TypeOK, TargetsInv, RaisedInv, SendEvent
  PROVE  TargetsInv' /\ RaisedInv'
  <1>1. place = "send" /\ place' = "image" /\ UNCHANGED <<targets, found>>
    BY DEF SendEvent, Goes, notEvents
  <1>2. PICK i \in Due : /\ \A j \in Due : i <= j
                         /\ at' = i + 1 /\ raised' = Append(raised, targets[i].track)
    BY DEF SendEvent
  <1>3. /\ i \in DOMAIN targets /\ i \in at..Len(targets) /\ targets[i].count = TrackingTime
        /\ targets[i].track \in 1..tracks
    BY DueHasFrame
  <1>4. /\ raised \in Seq(1..tracks) /\ at \in Nat /\ 1 <= at /\ Len(targets) \in Nat
        /\ DOMAIN targets = 1..Len(targets) /\ TrackingTime \in Nat
        /\ \A j \in DOMAIN targets : targets[j].count \in Nat
    <2>1. targets \in Seq(Target) /\ raised \in Seq(1..tracks)
      BY DEF TypeOK
    <2>2. \A j \in DOMAIN targets : targets[j].count \in Nat
      BY <2>1, TargetFields
    <2>3. at \in Nat /\ 1 <= at /\ Len(targets) \in Nat
      BY <2>1 DEF TypeOK
    <2> QED  BY <2>1, <2>2, <2>3, EventsAssumption
  <1>5. TargetsInv'
    <2>1. found = << >>
      BY <1>1 DEF TargetsInv
    <2>2. DOMAIN found' = {}
      BY <1>1, <2>1
    <2> QED  BY <1>1, <2>1, <2>2 DEF TargetsInv, Distinct
  <1>6. targets[i].track \notin Range(raised)
    <2>1. ~Passed(i)
      BY <1>1, <1>3, <1>4 DEF Passed
    <2>2. ~(targets[i].count > TrackingTime)
      BY <1>3, <1>4
    <2> QED  BY <1>3, <2>1, <2>2 DEF RaisedInv
  <1>7. /\ DOMAIN raised' = DOMAIN raised \cup {Len(raised) + 1}
        /\ raised'[Len(raised) + 1] = targets[i].track
        /\ \A k \in DOMAIN raised : raised'[k] = raised[k]
        /\ Range(raised') = Range(raised) \cup {targets[i].track}
    <2>1. raised \in Seq(1..tracks) /\ targets[i].track \in 1..tracks
      BY <1>3, <1>4
    <2>2. PICK t : t = targets[i].track
      OBVIOUS
    <2>3. raised' = Append(raised, t) /\ t \in 1..tracks
      BY <1>2, <2>1, <2>2
    <2>4. /\ DOMAIN raised' = DOMAIN raised \cup {Len(raised) + 1}
          /\ raised'[Len(raised) + 1] = t
          /\ \A k \in DOMAIN raised : raised'[k] = raised[k]
          /\ Range(raised') = Range(raised) \cup {t}
      <3>1. /\ DOMAIN Append(raised, t) = DOMAIN raised \cup {Len(raised) + 1}
            /\ Append(raised, t)[Len(raised) + 1] = t
            /\ \A k \in DOMAIN raised : Append(raised, t)[k] = raised[k]
        BY <2>1, <2>3, AppendIs
      <3>2. Range(Append(raised, t)) = Range(raised) \cup {t}
        <4>1. Len(raised) \in Nat /\ DOMAIN raised = 1..Len(raised)
          BY <2>1
        <4> QED  BY <3>1, <4>1 DEF Range
      <3> QED  BY <2>3, <3>1, <3>2
    <2> QED  BY <2>2, <2>4
  <1>8. IsInjective(raised)'
    <2>1. IsInjective(raised) /\ \A k \in DOMAIN raised : raised[k] # targets[i].track
      BY <1>6 DEF RaisedInv, Range
    <2>2. \A a, b \in DOMAIN raised' : raised'[a] = raised'[b] => a = b
      BY <1>7, <2>1 DEF IsInjective
    <2> QED  BY <2>2 DEF IsInjective
  <1>9. ASSUME NEW j \in DOMAIN targets
        PROVE  targets[j].track \in Range(raised') <=>
                 IF j < i + 1 THEN targets[j].count >= TrackingTime
                 ELSE targets[j].count > TrackingTime
    <2>1. targets[j].track = targets[i].track => i = j
      BY <1>3 DEF TargetsInv, Distinct
    <2>2. CASE j = i
      BY <1>3, <1>4, <1>7, <2>2
    <2>3. CASE j # i
      <3>1. targets[j].track \in Range(raised') <=> targets[j].track \in Range(raised)
        BY <1>7, <2>1, <2>3
      <3>2. CASE j < at
        <4>1. Passed(j)
          BY <3>2 DEF Passed
        <4>2. j < i + 1
          BY <1>3, <1>4, <3>2
        <4> QED  BY <3>1, <4>1, <4>2 DEF RaisedInv
      <3>3. CASE at <= j /\ j < i
        <4>1. ~Passed(j)
          BY <1>1, <1>3, <1>4, <3>3 DEF Passed
        <4>2. j \notin Due
          BY <1>2, <1>3, <1>4, <3>3 DEF Due
        <4>3. targets[j].count # TrackingTime
          BY <1>4, <3>3, <4>2 DEF Due
        <4>4. targets[j].count >= TrackingTime <=> targets[j].count > TrackingTime
          BY <1>4, <4>3
        <4>5. j < i + 1
          BY <1>3, <1>4, <3>3
        <4> QED  BY <3>1, <4>1, <4>4, <4>5 DEF RaisedInv
      <3>4. CASE i < j
        <4>1. ~Passed(j) /\ ~(j < i + 1)
          BY <1>1, <1>3, <1>4, <3>4 DEF Passed
        <4> QED  BY <3>1, <4>1 DEF RaisedInv
      <3>5. j \in Nat /\ i \in Nat
        BY <1>3, <1>4
      <3> QED  BY <1>4, <2>3, <3>2, <3>3, <3>4, <3>5
    <2> QED  BY <2>2, <2>3
  <1>10. \A j \in DOMAIN targets : Passed(j)' <=> j < i + 1
    BY <1>1, <1>2 DEF Passed
  <1>11. RaisedInv'
    BY <1>1, <1>8, <1>9, <1>10 DEF RaisedInv
  <1> QED  BY <1>5, <1>11

\* None is due any more.
LEMMA AllSentKeeps ==
  ASSUME TypeOK, TargetsInv, RaisedInv, AllSent
  PROVE  TargetsInv' /\ RaisedInv'
  <1>1. /\ place = "send" /\ place' = "idle" /\ UNCHANGED <<targets, found, raised>> /\ at' = 1
        /\ Due = {}
    BY DEF AllSent, Goes, notEvents
  <1>2. targets \in Seq(Target) /\ TrackingTime \in Nat /\ at \in Nat
    BY EventsAssumption DEF TypeOK
  <1>3. TargetsInv'
    <2>1. found = << >>
      BY <1>1 DEF TargetsInv
    <2>2. DOMAIN found' = {}
      BY <1>1, <2>1
    <2> QED  BY <1>1, <2>1, <2>2 DEF TargetsInv, Distinct
  <1>4. ASSUME NEW j \in DOMAIN targets
        PROVE  targets[j].track \in Range(raised) <=> targets[j].count >= TrackingTime
    <2>1. targets[j].count \in Nat /\ j \in 1..Len(targets) /\ Len(targets) \in Nat
      BY <1>2, TargetFields
    <2>2. CASE j < at
      BY <2>2 DEF RaisedInv, Passed
    <2>3. CASE at <= j
      <3>1. targets[j].count # TrackingTime
        BY <1>1, <1>2, <2>1, <2>3 DEF Due
      <3>2. targets[j].count >= TrackingTime <=> targets[j].count > TrackingTime
        BY <1>2, <2>1, <3>1
      <3>3. ~Passed(j)
        BY <1>1, <1>2, <2>1, <2>3 DEF Passed
      <3> QED  BY <3>2, <3>3 DEF RaisedInv
    <2> QED  BY <1>2, <2>1, <2>2, <2>3
  <1>5. RaisedInv'
    BY <1>1, <1>4 DEF RaisedInv, Passed
  <1> QED  BY <1>3, <1>5

LEMMA TargetsStep ==
  ASSUME TypeOK, TargetsInv, RaisedInv, [Next]_vars
  PROVE  TargetsInv' /\ RaisedInv'
  <1>1. CASE UNCHANGED vars \/ Cleaner
    <2>1. UNCHANGED cameraVars
      BY <1>1 DEF vars, Cleaner, CleanImages, RmPicture, DeleteImage, CleanEvents, notCleaner
    <2> QED  BY <2>1, TargetsAlone DEF cameraVars
  <1>2. CASE Begin \/ NextFrame \/ InsertImage \/ WriteImage \/ InsertEvent
    <2>1. UNCHANGED <<targets, found, raised, at>>
      BY <1>2 DEF Begin, NextFrame, InsertImage, WriteImage, InsertEvent, notTargets, notEvents
    <2>2. (place \in Quiet <=> place' \in Quiet) /\ (place = "track" => place' = "track")
      BY <1>2 DEF Begin, NextFrame, InsertImage, WriteImage, InsertEvent, Goes, Quiet
    <2> QED  BY <2>1, <2>2, TargetsAlone
  <1>3. CASE End \/ Crash
    <2>1. targets' = << >> /\ found' = << >> /\ at' = 1 /\ UNCHANGED raised
      BY <1>3 DEF End, Crash, Goes, notTargets, TargetsInv
    <2> QED  BY <2>1, NoTargets
  <1> QED
    BY <1>1, <1>2, <1>3, TrackKeeps, TrackedKeeps, SendEventKeeps, AllSentKeeps
    DEF Next, Camera

-----------------------------------------------------------------------------
(* Pictures, rows and events *)

\* Steps of the camera that touch no picture, and a crash, after which there is no picture at
\* hand and no pass.
LEMMA DataAlone ==
  ASSUME TypeOK, DataInv, UNCHANGED <<tableVars, missed>>, place' \notin {"write", "insert"},
         \/ UNCHANGED cleanerVars /\ faults' >= faults
         \/ doomed' = {} /\ victim' = None /\ faults' # 0
  PROVE  DataInv'
  <1>1. UNCHANGED <<images, lastImage, pictures, events, complete, late, missed>>
    BY DEF tableVars
  <1>2. faults \in Nat /\ \A r \in images : r.id # None
    BY DEF TypeOK, ImageRow, None
  <1>3. None \notin pictures
    BY DEF TypeOK, None
  <1>4. \A id : Row(id)' <=> Row(id)
    BY <1>1 DEF Row
  <1>5. EventsNamePictures' /\ PicturesKeepRows'
    BY <1>1 DEF DataInv, EventsNamePictures, PicturesKeepRows, Row
  <1>6. CASE UNCHANGED cleanerVars /\ faults' >= faults
    <2>1. UNCHANGED <<cleaner, oldest, doomed, victim>>
      BY <1>6 DEF cleanerVars
    <2>2. faults' = 0 => faults = 0
      BY <1>2, <1>6
    <2>3. PicturesInv'
      BY <1>1, <2>1 DEF DataInv, PicturesInv
    <2>4. PassInv'
      BY <1>1, <2>1 DEF DataInv, PassInv
    <2>5. EventsGoWithPictures'
      BY <1>1, <2>1, <2>2 DEF DataInv, EventsGoWithPictures, Row
    <2> QED  BY <1>5, <2>3, <2>4, <2>5 DEF DataInv
  <1>7. CASE doomed' = {} /\ victim' = None /\ faults' # 0
    <2>1. PicturesInv'
      BY <1>1, <1>3, <1>7 DEF DataInv, PicturesInv
    <2>2. PassInv'
      BY <1>1, <1>2, <1>7 DEF PassInv
    <2>3. EventsGoWithPictures'
      BY <1>7 DEF EventsGoWithPictures
    <2> QED  BY <1>5, <2>1, <2>2, <2>3 DEF DataInv
  <1> QED  BY <1>6, <1>7

\* The row of a picture is inserted: its id is new to everybody.
LEMMA InsertImageKeeps ==
  ASSUME TypeOK, DataInv, InsertImage
  PROVE  DataInv'
  <1>1. /\ UNCHANGED <<event, pictures, events, complete, late, cleaner, oldest, doomed, victim,
                       missed>>
        /\ lastImage \in Nat /\ faults \in Nat
    BY DEF InsertImage, notEvents, cleanerVars, TypeOK
  <1>2. /\ \A r \in images : r.id \in 1..lastImage
        /\ \A e \in events : e.image \in 0..lastImage
        /\ pictures \subseteq 1..lastImage /\ victim \in 0..lastImage
        /\ \A r \in doomed : r.id \in 1..lastImage
    BY DEF TypeOK, ImageRow, EventRow
  <1>3. CASE /\ Ok /\ place' = "write" /\ image' = lastImage + 1 /\ lastImage' = lastImage + 1
             /\ images' = images \cup {[id |-> lastImage + 1, time |-> event.time]}
    <2> DEFINE n == lastImage + 1
               new == [id |-> n, time |-> event.time]
    <2>1. /\ n \notin 1..lastImage /\ n \notin 0..lastImage /\ n # 0
          /\ new.id = n /\ new.time = event.time /\ faults' = faults
      BY <1>1, <1>3 DEF Ok
    <2>2. images' = images \cup {new} /\ image' = n /\ lastImage' = n /\ place' = "write"
      BY <1>3
    <2> HIDE DEF n, new
    <2>3. Writing'
      <3>1. image' \notin pictures' /\ victim' # image'
        BY <1>1, <1>2, <2>1, <2>2
      <3>2. Row(image)'
        BY <2>1, <2>2 DEF Row
      <3>3. \A r \in images' : r.id = n => r.time = event'.time
        BY <1>1, <1>2, <2>1, <2>2
      <3> QED  BY <2>1, <2>2, <3>1, <3>2, <3>3 DEF Writing, None
    <2>4. \A r, s \in images' : r.id = s.id => r = s
      BY <1>2, <2>1, <2>2 DEF DataInv, PicturesInv
    <2>5. PicturesInv'
      BY <1>1, <2>2, <2>3, <2>4 DEF DataInv, PicturesInv
    <2>6. PassInv'
      <3>1. \A r \in images' : r.id = victim => r.time < oldest
        BY <1>2, <2>1, <2>2 DEF DataInv, PassInv
      <3> QED  BY <1>1, <2>2, <3>1 DEF DataInv, PassInv
    <2>7. EventsNamePictures'
      <3>1. \A e \in events : \A r \in images' : r.id = e.image => r \in images
        BY <1>2, <2>1, <2>2
      <3> QED  BY <1>1, <3>1 DEF DataInv, EventsNamePictures
    <2>8. \A id : Row(id) => Row(id)'
      BY <2>2 DEF Row
    <2>9. PicturesKeepRows'
      BY <1>1, <2>8 DEF DataInv, PicturesKeepRows
    <2>10. EventsGoWithPictures'
      BY <1>1, <2>1, <2>8 DEF DataInv, EventsGoWithPictures
    <2> QED  BY <2>5, <2>6, <2>7, <2>9, <2>10 DEF DataInv
  <1>4. CASE /\ Fails /\ place' = "insert" /\ image' = None /\ UNCHANGED <<images, lastImage>>
    <2>1. faults' # 0
      BY <1>1, <1>4 DEF Fails
    <2>2. PicturesInv'
      BY <1>1, <1>4 DEF DataInv, PicturesInv
    <2>3. PassInv'
      BY <1>1, <1>4 DEF DataInv, PassInv
    <2>4. EventsNamePictures' /\ PicturesKeepRows'
      BY <1>1, <1>4 DEF DataInv, EventsNamePictures, PicturesKeepRows, Row
    <2> QED  BY <2>1, <2>2, <2>3, <2>4 DEF DataInv, EventsGoWithPictures
  <1> QED  BY <1>3, <1>4 DEF InsertImage

\* The picture is written, while its row is still there or a pass has missed the file.
LEMMA WriteImageKeeps ==
  ASSUME TypeOK, DataInv, WriteImage
  PROVE  DataInv'
  <1>1. /\ UNCHANGED <<event, images, lastImage, events, late, cleaner, oldest, doomed, victim,
                       missed>>
        /\ faults \in Nat /\ place' = "insert" /\ Writing
        /\ \A id : Row(id)' <=> Row(id)
    BY DEF WriteImage, Goes, notEvents, cleanerVars, TypeOK, DataInv, PicturesInv, Row
  <1>2. \/ /\ Ok /\ pictures' = pictures \cup {image} /\ complete' = complete \cup {image}
           /\ UNCHANGED image
        \/ /\ Fails /\ image' = None /\ UNCHANGED complete
           /\ pictures' \in {pictures, pictures \cup {image}}
    BY DEF WriteImage, Failed
  <1>3. /\ pictures' \subseteq pictures \cup {image} /\ complete \subseteq complete'
        /\ image' # None => image' = image /\ image \in complete' /\ faults' = faults
        /\ faults' = 0 => faults = 0
    BY <1>1, <1>2 DEF Ok, Fails
  <1>4. PicturesInv'
    <2>1. (image # None => NamesPicture(image, event.time))'
      BY <1>1, <1>3 DEF NamesPicture, Writing
    <2>2. victim \in pictures' => victim \in missed
      BY <1>1, <1>3 DEF Writing, DataInv, PicturesInv
    <2> QED  BY <1>1, <2>1, <2>2 DEF DataInv, PicturesInv
  <1>5. PassInv'
    BY <1>1 DEF DataInv, PassInv
  <1>6. EventsNamePictures'
    BY <1>1, <1>3 DEF DataInv, EventsNamePictures
  <1>7. PicturesKeepRows'
    BY <1>1, <1>3 DEF DataInv, PicturesKeepRows, Writing
  <1>8. EventsGoWithPictures'
    BY <1>1, <1>3 DEF DataInv, EventsGoWithPictures
  <1> QED  BY <1>4, <1>5, <1>6, <1>7, <1>8 DEF DataInv

LEMMA InsertEventKeeps ==
  ASSUME TypeOK, DataInv, InsertEvent
  PROVE  DataInv'
  <1>1. /\ UNCHANGED <<images, lastImage, pictures, complete, cleaner, oldest, doomed, victim,
                       missed>>
        /\ faults \in Nat /\ place = "insert" /\ place' = "send" /\ late \subseteq late'
        /\ \A id : Row(id)' <=> Row(id)
    BY DEF InsertEvent, Goes, notEvents, cleanerVars, TypeOK, Row
  <1> DEFINE new == [track |-> event.track, time |-> event.time, rect |-> event.rect,
                     image |-> image]
  <1>2. /\ events' \subseteq events \cup {new} /\ (faults' = 0 => faults = 0)
        /\ (image # None => NamesPicture(image, event.time)) /\ (Row(image) \/ image \in late')
        /\ new.image = image /\ new.time = event.time
    BY <1>1 DEF InsertEvent, Ok, Fails, DataInv, PicturesInv, Row
  <1> HIDE DEF new
  <1>3. PicturesInv'
    BY <1>1 DEF DataInv, PicturesInv
  <1>4. PassInv'
    BY <1>1 DEF DataInv, PassInv
  <1>5. EventsNamePictures'
    BY <1>1, <1>2 DEF DataInv, EventsNamePictures, NamesPicture
  <1>6. PicturesKeepRows'
    BY <1>1 DEF DataInv, PicturesKeepRows
  <1>7. EventsGoWithPictures'
    BY <1>1, <1>2 DEF DataInv, EventsGoWithPictures
  <1> QED  BY <1>3, <1>4, <1>5, <1>6, <1>7 DEF DataInv

LEMMA CleanImagesKeeps ==
  ASSUME TypeOK, DataInv, CleanImages
  PROVE  DataInv'
  <1>1. /\ UNCHANGED <<place, image, event, images, lastImage, pictures, events, complete, late,
                       victim, missed>>
        /\ cleaner = "none" /\ victim = None /\ faults \in Nat
        /\ \A id : Row(id)' <=> Row(id)
    BY DEF CleanImages, notCleaner, cameraVars, TypeOK, Row
  <1>2. /\ doomed' \subseteq images /\ (\A r \in doomed' : r.time < oldest')
        /\ faults' = 0 => faults = 0
    BY <1>1 DEF CleanImages, Ok, Fails
  <1>3. \A r \in images : r.id # None
    BY DEF TypeOK, ImageRow, None
  <1>4. PicturesInv'
    BY <1>1 DEF DataInv, PicturesInv, Writing, NamesPicture
  <1>5. PassInv'
    BY <1>1, <1>2, <1>3 DEF PassInv
  <1>6. EventsNamePictures' /\ PicturesKeepRows'
    BY <1>1 DEF DataInv, EventsNamePictures, PicturesKeepRows
  <1>7. EventsGoWithPictures'
    BY <1>1, <1>2 DEF DataInv, EventsGoWithPictures
  <1> QED  BY <1>4, <1>5, <1>6, <1>7 DEF DataInv

\* A file is removed, or missed.
LEMMA RmPictureKeeps ==
  ASSUME TypeOK, DataInv, RmPicture
  PROVE  DataInv'
  <1>1. /\ UNCHANGED <<place, image, event, images, lastImage, events, complete, late, oldest>>
        /\ cleaner = "file" /\ cleaner' = "row" /\ faults \in Nat
        /\ \A id : Row(id)' <=> Row(id)
    BY DEF RmPicture, notCleaner, cameraVars, TypeOK, Row
  <1>2. PICK r \in doomed :
          /\ victim' = r.id /\ doomed' = doomed \ {r}
          /\ \/ Found(r) /\ Ok /\ pictures' = pictures \ {r.id} /\ UNCHANGED missed
             \/ /\ (~Found(r) /\ Ok) \/ (Found(r) /\ Fails)
                /\ missed' = missed \cup {r.id} /\ UNCHANGED pictures
    BY DEF RmPicture
  <1>3. /\ pictures' \subseteq pictures /\ missed \subseteq missed'
        /\ victim' \in pictures' => victim' \in missed'
        /\ r.id \notin pictures => r.id \in missed'
        /\ faults' = 0 => faults = 0
    BY <1>1, <1>2 DEF Ok, Fails, Found
  <1>4. r \in images /\ r.time < oldest /\ \A s \in images : s.id = r.id => s = r
    BY DEF DataInv, PassInv, PicturesInv
  <1>5. PicturesInv'
    <2>1. Writing => Writing'
      BY <1>1, <1>2, <1>3 DEF Writing
    <2> QED  BY <1>1, <1>3, <2>1 DEF DataInv, PicturesInv, NamesPicture
  <1>6. PassInv'
    <2>1. doomed' \subseteq images' /\ \A s \in images' : s.id = victim' => s.time < oldest'
      BY <1>1, <1>2, <1>4 DEF DataInv, PassInv
    <2>2. \A s \in doomed' : s.time < oldest' /\ s.id # victim'
      BY <1>1, <1>2, <1>4 DEF DataInv, PassInv
    <2> QED  BY <2>1, <2>2 DEF PassInv
  <1>7. EventsNamePictures' /\ PicturesKeepRows'
    BY <1>1, <1>3 DEF DataInv, EventsNamePictures, PicturesKeepRows
  <1>8. EventsGoWithPictures'
    BY <1>1, <1>3 DEF DataInv, EventsGoWithPictures
  <1> QED  BY <1>5, <1>6, <1>7, <1>8 DEF DataInv

\* The row goes: its file has gone or was missed, and its event will go with the pass.
LEMMA DeleteImageKeeps ==
  ASSUME TypeOK, DataInv, DeleteImage
  PROVE  DataInv'
  <1>1. /\ UNCHANGED <<place, image, event, lastImage, pictures, events, complete, late, oldest,
                       doomed, missed>>
        /\ cleaner = "row" /\ cleaner' = "file" /\ victim' = None /\ victim # None
        /\ faults \in Nat
    BY DEF DeleteImage, notCleaner, cameraVars, TypeOK
  <1>2. /\ images' \subseteq images /\ (\A r \in images : r.id # victim => r \in images')
        /\ faults' = 0 => faults = 0
    BY <1>1 DEF DeleteImage, RowsOf, Ok, Fails
  <1>3. (\A r \in images : r.id # None) /\ None \notin pictures
    BY DEF TypeOK, ImageRow, None
  <1>4. \A id : id # victim /\ Row(id) => Row(id)'
    BY <1>2 DEF Row
  <1>5. PicturesInv'
    <2>1. Writing => Writing'
      BY <1>1, <1>2, <1>4 DEF Writing
    <2>2. NamesPicture(image, event.time) => NamesPicture(image, event.time)'
      BY <1>1, <1>2 DEF NamesPicture
    <2> QED  BY <1>1, <1>2, <1>3, <2>1, <2>2 DEF DataInv, PicturesInv
  <1>6. PassInv'
    BY <1>1, <1>2, <1>3 DEF DataInv, PassInv
  <1>7. EventsNamePictures'
    BY <1>1, <1>2 DEF DataInv, EventsNamePictures
  <1>8. PicturesKeepRows'
    BY <1>1, <1>4 DEF DataInv, PicturesKeepRows, PicturesInv
  <1>9. EventsGoWithPictures'
    <2> SUFFICES ASSUME faults' = 0, NEW e \in events, e.image # None, ~Row(e.image)'
                 PROVE  e.image \in late \/ e.time < oldest
      BY <1>1 DEF EventsGoWithPictures
    <2>1. CASE Row(e.image)
      <3>1. PICK r \in images : r.id = e.image
        BY <2>1 DEF Row
      <3>2. r.id = victim /\ r.time = e.time
        BY <1>4, <2>1, <3>1 DEF DataInv, EventsNamePictures
      <3> QED  BY <3>1, <3>2 DEF DataInv, PassInv
    <2>2. CASE ~Row(e.image)
      BY <1>2, <2>2 DEF DataInv, EventsGoWithPictures
    <2> QED  BY <2>1, <2>2
  <1> QED  BY <1>5, <1>6, <1>7, <1>8, <1>9 DEF DataInv

LEMMA CleanEventsKeeps ==
  ASSUME TypeOK, DataInv, CleanEvents
  PROVE  DataInv'
  <1>1. /\ UNCHANGED <<place, image, event, images, lastImage, pictures, complete, late, doomed,
                       victim, missed>>
        /\ cleaner = "file" /\ doomed = {} /\ victim = None /\ faults \in Nat
        /\ \A id : Row(id)' <=> Row(id)
    BY DEF CleanEvents, notCleaner, cameraVars, TypeOK, Row
  <1>2. /\ events' \subseteq events
        /\ faults' = 0 => faults = 0 /\ \A e \in events' : ~(e.time < oldest)
    BY <1>1 DEF CleanEvents, Old, Ok, Fails
  <1>3. \A r \in images : r.id # None
    BY DEF TypeOK, ImageRow, None
  <1>4. PicturesInv'
    BY <1>1 DEF DataInv, PicturesInv, Writing, NamesPicture
  <1>5. PassInv'
    BY <1>1, <1>3 DEF PassInv
  <1>6. EventsNamePictures' /\ PicturesKeepRows'
    BY <1>1, <1>2 DEF DataInv, EventsNamePictures, PicturesKeepRows
  <1>7. EventsGoWithPictures'
    BY <1>1, <1>2 DEF DataInv, EventsGoWithPictures
  <1> QED  BY <1>4, <1>5, <1>6, <1>7 DEF DataInv

LEMMA DataStep ==
  ASSUME TypeOK, DataInv, [Next]_vars
  PROVE  DataInv'
  <1>1. CASE UNCHANGED vars
    <2>1. UNCHANGED <<place, image, event, tableVars, cleanerVars, faults>>
      BY <1>1 DEF vars, cameraVars
    <2> QED
      BY <2>1 DEF tableVars, cleanerVars, DataInv, PicturesInv, PassInv, EventsNamePictures,
                  PicturesKeepRows, EventsGoWithPictures, Writing, NamesPicture, Row
  <1>2. CASE Begin \/ NextFrame \/ Track \/ Tracked \/ SendEvent \/ AllSent \/ End
    <2>1. UNCHANGED <<tableVars, cleanerVars>> /\ place' \notin {"write", "insert"}
      BY <1>2 DEF Begin, NextFrame, Track, Tracked, SendEvent, AllSent, End, Goes, notTargets,
                  notEvents
    <2>2. faults' >= faults
      <3>1. faults \in Nat
        BY DEF TypeOK
      <3>2. faults' = faults \/ faults' = faults + 1
        BY <1>2 DEF Begin, NextFrame, Masked, Track, Tracked, SendEvent, AllSent, End, Ok, Fails
      <3> QED  BY <3>1, <3>2
    <2> QED  BY <2>1, <2>2, DataAlone DEF cleanerVars
  <1>3. CASE Crash
    <2>1. faults' # 0
      BY <1>3 DEF Crash, Fails, TypeOK
    <2> QED  BY <1>3, <2>1, DataAlone DEF Crash
  <1> QED
    BY <1>1, <1>2, <1>3, InsertImageKeeps, WriteImageKeeps, InsertEventKeeps, CleanImagesKeeps,
       RmPictureKeeps, DeleteImageKeeps, CleanEventsKeeps DEF Next, Camera, Cleaner

-----------------------------------------------------------------------------
(* Theorems *)

LEMMA InitInv == ASSUME Init PROVE IInv
  <1>1. TypeOK
    BY InitType
  <1>2. DOMAIN targets = {} /\ DOMAIN found = {} /\ DOMAIN raised = {}
    BY DEF Init
  <1>3. TargetsInv /\ RaisedInv
    BY <1>2 DEF Init, TargetsInv, RaisedInv, Distinct, IsInjective
  <1>4. DataInv
    BY DEF Init, DataInv, PicturesInv, PassInv, EventsNamePictures, PicturesKeepRows,
           EventsGoWithPictures
  <1> QED  BY <1>1, <1>3, <1>4 DEF IInv

\* The inductive invariant: targets and what is raised for them, the picture at hand, and what
\* a pass knows.
THEOREM Invariant == Spec => []IInv
  <1>1. IInv /\ [Next]_vars => IInv'
    BY TypeStep, TargetsStep, DataStep DEF IInv, DataInv
  <1> QED  BY <1>1, InitInv, PTL DEF Spec

\* Every variable keeps its type, and a target has a frame as soon as it has been followed, so
\* that no event is sent without one.
THEOREM TypeCorrect == Spec => []TypeOK
  <1>1. IInv => TypeOK
    BY DEF IInv
  <1> QED  BY <1>1, Invariant, PTL

\* send_events() raises one event for each track that is followed for TrackingTime frames, and
\* no target goes on from one that another has been taken for, whatever contours a frame has
\* and however many frames are skipped or fail.
THEOREM OneEvent == Spec => []OneEventPerTrack
  <1>1. ASSUME IInv PROVE OneEventPerTrack
    <2>1. ASSUME place = "idle", NEW t \in Range(targets)
          PROVE  /\ t.count >= TrackingTime <=> t.track \in Range(raised)
                 /\ \A s \in Range(targets) : s.track = t.track => s = t
      <3>1. PICK i \in DOMAIN targets : t = targets[i]
        BY DEF Range
      <3>2. \A s \in Range(targets) : \E j \in DOMAIN targets : s = targets[j]
        BY DEF Range
      <3>3. Passed(i)
        BY <2>1 DEF Passed
      <3> QED  BY <1>1, <3>1, <3>2, <3>3 DEF IInv, RaisedInv, TargetsInv, Distinct
    <2> QED  BY <1>1, <2>1 DEF OneEventPerTrack, IInv, RaisedInv
  <1> QED  BY <1>1, Invariant, PTL

\* A picture on disk has a row, or a pass has looked for its file and not removed it.
THEOREM PicturesHaveRows == Spec => []PicturesKeepRows
  <1>1. IInv => PicturesKeepRows
    BY DEF IInv, DataInv
  <1> QED  BY <1>1, Invariant, PTL

\* The picture that a row of events names was written to the end and is of the event's time,
\* whichever query, file or frame fails; and where nothing fails, an event is removed by the
\* pass that removes its picture, unless it was inserted after its picture had gone.
THEOREM HavePictures == Spec => []EventsHavePictures
  <1>1. IInv => EventsHavePictures
    BY DEF IInv, DataInv, EventsHavePictures
  <1> QED  BY <1>1, Invariant, PTL
=============================================================================
