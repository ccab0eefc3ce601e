------------------------------- MODULE Events -------------------------------
(***************************************************************************)
(* From what moves before a camera to a row of the table events and its    *)
(* picture: the targets that MotionCVDetect follows from frame to frame,   *)
(* the event it raises for each, the image and the row that EventDB makes  *)
(* of it, and clean_disk(), which removes both by their time.              *)
(*                                                                         *)
(* Frames are numbered; a frame's number is its time.  Of a mask there are  *)
(* the contours, a place and an area each, that OpenCV finds in it.        *)
(***************************************************************************)
EXTENDS Integers, SequencesExt

CONSTANTS
  Places, Areas,        \* of a contour
  MinDist, MinArea, TrackingTime,   \* motion-cvdetect-dist, -area and -tracking
  Elsewhere,            \* whether the camera has an output-dir of its own
  MaxContours, MaxFrames, MaxPasses, MaxFaults     \* bounds

None == 0
Rects == [at : Places, area : Areas]

ASSUME EventsAssumption ==
  /\ Places \subseteq Nat /\ Areas \subseteq Nat /\ {MinDist, MinArea} \subseteq Nat
  /\ TrackingTime \in Nat \ {0} /\ Elsewhere \in BOOLEAN
  /\ {MaxContours, MaxFrames, MaxPasses, MaxFaults} \subseteq Nat

VARIABLES
  \* the camera thread: frame at hand; "off", "idle" between two frames, "track", "send",
  \* "image", "write", "insert"; contours of cvmask's matrix, and those still to be matched
  frame, place, mask, contours,
  targets, found,       \* targets and new_targets
  at, event, image,     \* of send_events(): next target, the event being sent, and im_id
  \* tables, and the pictures on disk
  images, lastImage, pictures, events,
  \* clean_disk(): "none", "file" or "row"; oldest_record; rows of the query; the row at hand
  cleaner, oldest, doomed, victim,
  passes, faults,
  \* history: tracks begun, and those an event was raised for; images that were written,
  \* whose file was not removed, and whose row had gone when their event was inserted
  tracks, raised, complete, missed, late

cameraVars  == <<frame, place, mask, contours, targets, found, at, event, image,
                 tracks, raised>>
tableVars   == <<images, lastImage, pictures, events, complete, late>>
cleanerVars == <<cleaner, oldest, doomed, victim, passes, missed>>
vars == <<cameraVars, tableVars, cleanerVars, faults>>

NoRect == [at |-> 0, area |-> 0, seen |-> None]
NoEvent == [track |-> None, time |-> None, rect |-> NoRect]

Init ==
  /\ frame = 0 /\ place = "off" /\ mask = << >> /\ contours = << >>
  /\ targets = << >> /\ found = << >> /\ at = 1 /\ event = NoEvent /\ image = None
  /\ images = {} /\ lastImage = 0 /\ pictures = {} /\ events = {}
  /\ cleaner = "none" /\ oldest = 0 /\ doomed = {} /\ victim = None
  /\ passes = 0 /\ faults = 0
  /\ tracks = 0 /\ raised = << >> /\ complete = {} /\ missed = {} /\ late = {}

\* A query, a file or a module that may fail.
Ok == UNCHANGED faults
Fails == faults < MaxFaults /\ faults' = faults + 1

-----------------------------------------------------------------------------
(* Targets *)

\* The constructors of TargetRect: of a new target, of which there is no frame yet,
NewTarget(rect) ==
  [rect |-> rect, best |-> NoRect, frame |-> None, count |-> 0, valid |-> TRUE,
   track |-> tracks + 1]

\* and of one that is followed, with the better of two frames.
KeepsFrame(old, rect) == old.frame # None /\ old.rect.area > rect.area
Follow(old, rect) ==
  [rect |-> rect, best |-> IF KeepsFrame(old, rect) THEN old.rect ELSE rect,
   frame |-> IF KeepsFrame(old, rect) THEN old.frame ELSE frame,
   count |-> old.count + 1, valid |-> TRUE, track |-> old.track]

Near(r, s) == (r.at - s.at) * (r.at - s.at) < MinDist * MinDist

notTargets == <<tableVars, cleanerVars, at, event, image, raised>>
Goes(from, to) == place = from /\ place' = to

\* A frame, which is skipped (or in which no contours can be found), or goes through the
\* modules: cvmask, or one before it, may fail and leave its matrix as it was.
Masked == \/ Ok /\ mask' \in UNION {[1..n -> Rects] : n \in 0..MaxContours}
          \/ Fails /\ UNCHANGED mask
NextFrame ==
  /\ place = "idle" /\ frame < MaxFrames /\ frame' = frame + 1
  /\ \/ UNCHANGED <<place, mask, contours, faults>>
     \/ Masked /\ place' = "track" /\ contours' = mask'
  /\ UNCHANGED <<notTargets, targets, found, tracks>>

\* The loop of process_frame() over the contours: one is tossed, replaces the first target
\* that is near and that none has replaced, or is a new target.
TooSmall(rect) == rect.area < MinArea
MutInvalid(i) == targets
Invalid(i) == [targets EXCEPT ![i].valid = FALSE]
Track ==
  /\ place = "track" /\ contours # << >> /\ contours' = Tail(contours)
  /\ LET rect == [at |-> Head(contours).at, area |-> Head(contours).area, seen |-> frame]
         i == SelectInSeq(targets, LAMBDA t : t.valid /\ Near(t.rect, rect))
     IN \/ TooSmall(rect) /\ UNCHANGED <<targets, found, tracks>>
        \/ /\ ~TooSmall(rect) /\ i # 0
           /\ found' = Append(found, Follow(targets[i], rect)) /\ targets' = Invalid(i)
           /\ UNCHANGED tracks
        \/ /\ ~TooSmall(rect) /\ i = 0
           /\ found' = Append(found, NewTarget(rect)) /\ tracks' = tracks + 1
           /\ UNCHANGED targets
  /\ UNCHANGED <<notTargets, frame, place, mask, faults>>

Tracked ==
  /\ Goes("track", "send") /\ contours = << >>
  /\ targets' = found /\ found' = << >>
  /\ UNCHANGED <<notTargets, frame, mask, contours, tracks, faults>>

-----------------------------------------------------------------------------
(* Events *)

notEvents == <<frame, mask, contours, found, tracks, cleanerVars>>

\* send_events(): a target becomes an event once, when it has been followed long enough.
Due == {i \in at..Len(targets) : targets[i].count = TrackingTime}

SendEvent ==
  /\ Goes("send", "image")
  /\ \E i \in Due : /\ \A j \in Due : i <= j
                    /\ at' = i + 1 /\ raised' = Append(raised, targets[i].track)
                    /\ event' = [track |-> targets[i].track, time |-> targets[i].frame,
                                 rect |-> targets[i].best]
  /\ UNCHANGED <<notEvents, targets, image, tableVars, faults>>

AllSent ==
  /\ Goes("send", "idle") /\ Due = {} /\ at' = 1
  /\ UNCHANGED <<notEvents, targets, event, image, raised, tableVars, faults>>

\* write_frame_jpg(), with which EventDB begins: the picture is encoded and gets a row,
InsertImage ==
  /\ place = "image"
  /\ \/ /\ Ok /\ place' = "write" /\ image' = lastImage + 1 /\ lastImage' = lastImage + 1
        /\ images' = images \cup {[id |-> lastImage + 1, time |-> event.time]}
     \/ Fails /\ place' = "insert" /\ image' = None /\ UNCHANGED <<images, lastImage>>
  /\ UNCHANGED <<notEvents, targets, at, event, raised, pictures, events, complete, late>>

\* and its file, which may not be opened, or not be written to the end.
MutFailed == image
Failed == None
WriteImage ==
  /\ Goes("write", "insert")
  /\ \/ /\ Ok /\ pictures' = pictures \cup {image} /\ complete' = complete \cup {image}
        /\ UNCHANGED image
     \/ /\ Fails /\ image' = Failed /\ UNCHANGED complete
        /\ pictures' \in {pictures, pictures \cup {image}}
  /\ UNCHANGED <<notEvents, targets, at, event, raised, images, lastImage, events, late>>

\* The row of the event.
InsertEvent ==
  /\ Goes("insert", "send")
  /\ \/ Ok /\ events' = events \cup {[track |-> event.track, time |-> event.time,
                                      rect |-> event.rect, image |-> image]}
     \/ Fails /\ UNCHANGED events
  /\ late' = IF \E r \in images : r.id = image THEN late ELSE late \cup {image}
  /\ event' = NoEvent /\ image' = None
  /\ UNCHANGED <<notEvents, targets, at, raised, images, lastImage, pictures, complete>>

-----------------------------------------------------------------------------
(* The camera thread *)

\* The targets are those of a run().
Begin ==
  /\ Goes("off", "idle") /\ UNCHANGED <<notTargets, frame, mask, contours, targets, found, tracks, faults>>

End ==
  /\ Goes("idle", "off") /\ targets' = << >> /\ mask' = << >>
  /\ UNCHANGED <<notTargets, frame, contours, found, tracks, faults>>

Crash ==
  /\ Fails /\ place' = "off" /\ targets' = << >> /\ found' = << >> /\ mask' = << >>
  /\ contours' = << >> /\ at' = 1 /\ event' = NoEvent /\ image' = None
  /\ cleaner' = "none" /\ oldest' = 0 /\ doomed' = {} /\ victim' = None
  /\ UNCHANGED <<frame, tracks, raised, tableVars, passes, missed>>

-----------------------------------------------------------------------------
(* clean_disk(), when it has removed a segment that began at oldest_record *)

notCleaner == <<cameraVars, lastImage, complete, late>>

\* The query of clean_images().
CleanImages ==
  /\ cleaner = "none" /\ cleaner' = "file" /\ passes < MaxPasses /\ passes' = passes + 1
  /\ oldest' \in 1..frame
  /\ \/ Ok /\ doomed' = {r \in images : r.time < oldest'}
     \/ Fails /\ doomed' = {}
  /\ UNCHANGED <<notCleaner, victim, missed, images, pictures, events>>

Found(r) == r.id \in pictures /\ ~Elsewhere

\* A row of the query: its file, which rm_file() does not find in an output-dir of the camera,
RmPicture ==
  /\ cleaner = "file" /\ cleaner' = "row"
  /\ \E r \in doomed :
       /\ victim' = r.id /\ doomed' = doomed \ {r}
       /\ \/ /\ Found(r) /\ Ok /\ pictures' = pictures \ {r.id} /\ UNCHANGED missed
          \/ /\ (~Found(r) /\ Ok) \/ (Found(r) /\ Fails)
             /\ missed' = missed \cup {r.id} /\ UNCHANGED pictures
  /\ UNCHANGED <<notCleaner, oldest, passes, images, events>>

\* and the row.
MutRowsOf(id) == {r \in images : r.time < oldest}
RowsOf(id) == {r \in images : r.id = id}
DeleteImage ==
  /\ cleaner = "row" /\ cleaner' = "file" /\ victim' = None
  /\ \/ Ok /\ images' = images \ RowsOf(victim)
     \/ Fails /\ UNCHANGED images
  /\ UNCHANGED <<notCleaner, oldest, doomed, passes, missed, pictures, events>>

\* clean_events().
MutOld(e) == e.image = None /\ e.time < oldest
Old(e) == e.time < oldest
CleanEvents ==
  /\ cleaner = "file" /\ doomed = {} /\ cleaner' = "none"
  /\ \/ Ok /\ events' = {e \in events : ~Old(e)}
     \/ Fails /\ UNCHANGED events
  /\ oldest' = 0
  /\ UNCHANGED <<notCleaner, doomed, victim, passes, missed, images, pictures>>

Camera == \/ Begin \/ NextFrame \/ Track \/ Tracked \/ SendEvent \/ AllSent
          \/ InsertImage \/ WriteImage \/ InsertEvent \/ End
Cleaner == CleanImages \/ RmPicture \/ DeleteImage \/ CleanEvents

Next == Camera \/ Cleaner \/ Crash
Spec == Init /\ [][Next]_vars

-----------------------------------------------------------------------------
(* Properties *)

Row(id) == \E r \in images : r.id = id

Seen == [at : Places, area : Areas, seen : 1..frame]
Target == [rect : Seen, best : Seen \cup {NoRect}, frame : 0..frame, count : Nat,
           valid : BOOLEAN, track : 1..tracks]
HasFrame(t) == /\ t.count = 0 <=> t.frame = None
               /\ t.count = 0 <=> t.best = NoRect
ImageRow == [id : 1..lastImage, time : 1..frame]
EventRow == [track : 1..tracks, time : 1..frame, rect : Seen, image : 0..lastImage]

\* Types; and a target has a frame to make a picture of as soon as it has been followed, so
\* that an event that is sent has a picture to be written.
TypeOK ==
  /\ frame \in 0..MaxFrames /\ mask \in Seq(Rects) /\ contours \in Seq(Rects)
  /\ place \in {"off", "idle", "track", "send", "image", "write", "insert"}
  /\ place = "track" => frame # 0
  /\ tracks \in Nat /\ raised \in Seq(1..tracks) /\ {targets, found} \subseteq Seq(Target)
  /\ \A s \in {targets, found} : \A i \in DOMAIN s : HasFrame(s[i])
  /\ at \in 1..(Len(targets) + 1) /\ lastImage \in Nat /\ image \in 0..lastImage
  /\ event \in [track : 1..tracks, time : 1..frame, rect : Seen] \cup {NoEvent}
  /\ place \in {"image", "write", "insert"} <=> event # NoEvent
  /\ images \subseteq ImageRow /\ events \subseteq EventRow
  /\ {pictures, complete, missed} \subseteq SUBSET (1..lastImage) /\ late \subseteq 0..lastImage
  /\ cleaner \in {"none", "file", "row"} /\ oldest \in 0..frame
  /\ doomed \subseteq ImageRow /\ (doomed # {} => cleaner # "none")
  /\ victim \in 0..lastImage /\ (cleaner = "row" <=> victim # None)
  /\ faults \in Nat /\ passes \in 0..MaxPasses

\* What is followed for long enough raises one event, however many contours come near it, and
\* nothing else does: two targets never go on from the same one.
OneEventPerTrack ==
  /\ IsInjective(raised)
  /\ place = "idle" => \A t \in Range(targets) : /\ t.count >= TrackingTime <=> t.track \in Range(raised)
                                                  /\ \A s \in Range(targets) : s.track = t.track => s = t

\* The picture that an event names was written to the end, and is of the time of the event.
EventsNamePictures ==
  \A e \in events : e.image # None =>
    e.image \in complete /\ \A r \in images : r.id = e.image => r.time = e.time

\* A picture on disk has a row, without which nothing would ever remove it: the row goes after
\* rm_file() has removed the file, or has not found it (it was not written yet, or is in an
\* output-dir of the camera), or could not remove it.
PicturesKeepRows == \A p \in pictures : Row(p) \/ p \in missed

\* An event goes with its picture (as long as nothing fails): one that names a picture without
\* a row is about to go in the same pass, or was inserted when the row had gone.
EventsGoWithPictures ==
  faults = 0 =>
    \A e \in events :
      e.image # None /\ ~Row(e.image) => e.image \in late \/ (cleaner # "none" /\ e.time < oldest)

\* Both of what is said of the pictures of events.
EventsHavePictures == EventsNamePictures /\ EventsGoWithPictures
=============================================================================
