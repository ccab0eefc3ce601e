-------------------------- MODULE FileManagerProofs --------------------------
(***************************************************************************)
(* Theorems about segments and files: for every number of cameras, rows,   *)
(* failures and crashes, no file is left without a row and no locked       *)
(* segment is removed, apart from the exceptions the properties name.      *)
(*                                                                         *)
(* A pass of clean_disk() removes a file and then its rows, while cameras  *)
(* go on.  The invariant says why the two stay together: nobody opens the  *)
(* file again in between, since a camera opens a file of its own once; and *)
(* a row added in between is one of a file that is not locked.             *)
(***************************************************************************)
EXTENDS FileManager, FiniteSetTheorems, TLAPS

Numbers == INSTANCE SequenceLemmas

\* What the table and the variables of the cameras may hold, as far as it matters here.
Rows == [id : Nat, camera : Cameras, name : Times \cup {None}, start : Times \cup {None},
         end : Times \cup {None}, locked : BOOLEAN]
TypesOK ==
  /\ videos \subseteq Rows /\ lastId \in Nat
  /\ place \in [Cameras -> {"off", "open", "record", "extend", "reopen", "cut"}]
  /\ lastName \in [Cameras -> Times \cup {None}] /\ begun \in [Cameras -> Times \cup {None}]

\* A camera that is about to open a file is the first to do so.
Pending(c) == place[c] \in {"open", "reopen"}
PendingNew == \A c \in Cameras : Pending(c) => <<c, lastName[c]>> \notin DOMAIN files

\* Between rm_file() and the deletion of its rows, a file is one that was missed, or has
\* gone and nobody is about to open it.
VictimGone ==
  \/ cleaning = "file" /\ victim = << >>
  \/ /\ cleaning = "row"
     /\ \E x : /\ victim = <<x>>
               /\ \/ x.file \in missed
                  \/ /\ x.file \notin DOMAIN files
                     /\ \A c \in Cameras : Pending(c) => x.file # <<c, lastName[c]>>

\* What a pass still has to remove was locked after its query, or is not locked.
Chosen == batch \cup Range(victim)
PassUnlocked ==
  \A x \in Chosen : x.file \in lateLocks \/ \A r \in RowsOf(x.file) : ~r.locked

\* There is nothing to remove between two passes.
PassIdle == cleaner = "none" => batch = {} /\ victim = << >>

IInv == TypesOK /\ PendingNew /\ VictimGone /\ PassUnlocked /\ PassIdle

-----------------------------------------------------------------------------
(* What steps do to the table and the files. *)

USE DEF fileVars, cameraVars, runVars, passVars, exportVars, notCamera, notVideo, notCleaner,
        notExporter, notMain, crashVars, Goes, Ok

\* Every row stays, or has a successor of the same number and file,
Covers == \A r \in videos : \E s \in videos' : s.id = r.id /\ File(s) = File(r)

\* and no file gets its first lock.
NoneLocked == \A s \in videos' : s.locked => \E r \in videos : r.locked /\ File(r) = File(s)

RowsStay == videos' \subseteq Rows /\ Covers /\ NoneLocked

LEMMA SameRows ==
  ASSUME TypesOK, UNCHANGED videos
  PROVE  RowsStay
  BY DEF TypesOK, RowsStay, Covers, NoneLocked

\* update_file_metadata() changes the end of a row only.
LEMMA SetEndRows ==
  ASSUME TypesOK, NEW id, NEW t \in Times \cup {None}, SetEnd(id, t)
  PROVE  RowsStay
  <1>1. CASE UNCHANGED videos
    BY <1>1, SameRows
  <1>2. CASE videos' = {IF r.id = id THEN [r EXCEPT !.end = t] ELSE r : r \in videos}
    <2>1. \A r \in Rows : /\ [r EXCEPT !.end = t] \in Rows
                          /\ [r EXCEPT !.end = t].id = r.id
                          /\ [r EXCEPT !.end = t].camera = r.camera
                          /\ [r EXCEPT !.end = t].name = r.name
                          /\ [r EXCEPT !.end = t].locked = r.locked
      BY DEF Rows
    <2>2. videos \subseteq Rows
      BY DEF TypesOK
    <2>3. videos' \subseteq Rows
      BY <1>2, <2>1, <2>2
    <2>4. Covers
      BY <1>2, <2>1, <2>2 DEF Covers, File
    <2>5. ASSUME NEW s \in videos', s.locked
          PROVE  \E r \in videos : r.locked /\ File(r) = File(s)
      <3>1. PICK r \in videos : s = IF r.id = id THEN [r EXCEPT !.end = t] ELSE r
        BY <1>2
      <3>2. s.camera = r.camera /\ s.name = r.name /\ s.locked = r.locked
        BY <2>1, <2>2, <3>1
      <3> QED  BY <2>5, <3>2 DEF File
    <2> QED  BY <2>3, <2>4, <2>5 DEF RowsStay, NoneLocked
  <1> QED  BY <1>1, <1>2 DEF SetEnd

\* get_next_path() adds a row at most.
LEMMA NextPathRows ==
  ASSUME TypesOK, NEW c \in Cameras, NEW t \in Times \cup {None}, NEW extend \in BOOLEAN,
         NextPath(c, t, extend)
  PROVE  /\ RowsStay /\ lastId' \in Nat
         /\ lastName' = [lastName EXCEPT ![c] = Name(c, t, extend)]
         /\ begun' = [begun EXCEPT ![c] = t]
         /\ Name(c, t, extend) \in Times \cup {None}
  <1>1. /\ lastName' = [lastName EXCEPT ![c] = Name(c, t, extend)]
        /\ begun' = [begun EXCEPT ![c] = t]
    BY DEF NextPath
  <1>2. Name(c, t, extend) \in Times \cup {None}
    BY DEF Name, TypesOK
  <1>3. CASE UNCHANGED <<videos, lastId>>
    BY <1>1, <1>2, <1>3, SameRows DEF TypesOK
  <1>4. CASE \E row \in Rows : ~row.locked /\ videos' = videos \cup {row} /\ lastId' = lastId + 1
    BY <1>1, <1>2, <1>4 DEF TypesOK, RowsStay, Covers, NoneLocked
  <1>5. [id |-> lastId + 1, camera |-> c, name |-> Name(c, t, extend), start |-> t,
         end |-> None, locked |-> FALSE] \in Rows
    BY <1>2 DEF TypesOK, Rows
  <1> QED  BY <1>3, <1>4, <1>5 DEF NextPath

\* What a step of a camera does: it opens a file of its own, which it has announced before,
\* and announces one that nobody has, nor a pass is about to remove.
CameraStep(c) ==
  /\ UNCHANGED <<cleaner, cleaning, batch, victim, lateLocks, missed>>
  /\ RowsStay /\ lastId' \in Nat
  /\ \E p \in {"off", "open", "record", "extend", "reopen", "cut"} : place' = [place EXCEPT ![c] = p]
  /\ \E n \in Times \cup {None} : lastName' = [lastName EXCEPT ![c] = n]
  /\ begun' \in [Cameras -> Times \cup {None}]
  /\ DOMAIN files \subseteq DOMAIN files'
  /\ \A f \in DOMAIN files' \ DOMAIN files :
       Pending(c) /\ f = <<c, lastName[c]>> /\ ~Pending(c)'
  /\ Pending(c)' =>
       /\ <<c, lastName'[c]>> \notin DOMAIN files'
       /\ \A x \in Chosen : x.file # <<c, lastName'[c]>>

LEMMA CameraStepKeeps ==
  ASSUME IInv, NEW c \in Cameras, CameraStep(c)
  PROVE  IInv'
  <1> USE DEF IInv
  <1>1. TypesOK'
    <2>1. videos' \subseteq Rows /\ lastId' \in Nat /\ begun' \in [Cameras -> Times \cup {None}]
      BY DEF CameraStep, RowsStay
    <2>2. place' \in [Cameras -> {"off", "open", "record", "extend", "reopen", "cut"}]
      BY DEF TypesOK, CameraStep
    <2>3. lastName' \in [Cameras -> Times \cup {None}]
      BY DEF TypesOK, CameraStep
    <2> QED  BY <2>1, <2>2, <2>3 DEF TypesOK
  <1>2. \A b \in Cameras \ {c} : (Pending(b)' <=> Pending(b)) /\ lastName'[b] = lastName[b]
    BY DEF TypesOK, CameraStep, Pending
  <1>3. PendingNew'
    <2>1. \A b \in Cameras \ {c} : <<b, lastName[b]>> # <<c, lastName[c]>>
      OBVIOUS
    <2> QED  BY <1>2, <2>1 DEF PendingNew, CameraStep
  <1>4. VictimGone'
    <2>1. ASSUME NEW x, cleaning = "row", victim = <<x>>, x.file \notin DOMAIN files,
                 \A b \in Cameras : Pending(b) => x.file # <<b, lastName[b]>>
          PROVE  /\ x.file \notin DOMAIN files'
                 /\ \A b \in Cameras : Pending(b)' => x.file # <<b, lastName'[b]>>
      <3>1. x \in Chosen
        BY <2>1 DEF Chosen, Range
      <3> QED  BY <1>2, <2>1, <3>1 DEF CameraStep
    <2> QED  BY <2>1 DEF VictimGone, CameraStep
  <1>5. PassUnlocked'
    <2>1. Chosen' = Chosen /\ lateLocks' = lateLocks
      BY DEF Chosen, CameraStep
    <2>2. \A f : (\A r \in RowsOf(f) : ~r.locked) => (\A s \in RowsOf(f)' : ~s.locked)
      BY DEF RowsOf, CameraStep, RowsStay, NoneLocked
    <2> QED  BY <2>1, <2>2 DEF PassUnlocked
  <1>6. PassIdle'
    BY DEF PassIdle, CameraStep
  <1> QED  BY <1>1, <1>3, <1>4, <1>5, <1>6

-----------------------------------------------------------------------------
(* Camera threads: a lemma for each group of actions. *)

\* A path that begins a new file.
LEMMA FreshIsNew ==
  ASSUME NEW c \in Cameras, NEW t \in Times, Fresh(c, t)
  PROVE  <<c, t>> \notin DOMAIN files /\ \A x \in Chosen : x.file # <<c, t>>
  BY DEF Fresh, Chosen

LEMMA BeginStep ==
  ASSUME TypesOK, NEW c \in Cameras, Begin(c) \/ CutNew(c)
  PROVE  CameraStep(c)
  <1>1. PICK t \in Times : Fresh(c, t) /\ NextPath(c, t, FALSE)
    BY DEF Begin, CutNew
  <1>2. /\ RowsStay /\ lastId' \in Nat
        /\ lastName' = [lastName EXCEPT ![c] = t] /\ begun' = [begun EXCEPT ![c] = t]
    BY <1>1, NextPathRows DEF Name
  <1>3. /\ UNCHANGED <<cleaner, cleaning, batch, victim, lateLocks, missed, files>>
        /\ \E p \in {"open", "reopen"} : place' = [place EXCEPT ![c] = p]
    BY DEF Begin, CutNew
  <1>4. lastName'[c] = t
    BY <1>2 DEF TypesOK
  <1>5. <<c, t>> \notin DOMAIN files /\ \A x \in Chosen : x.file # <<c, t>>
    BY <1>1, FreshIsNew
  <1>6. begun' \in [Cameras -> Times \cup {None}]
    BY <1>2 DEF TypesOK
  <1> QED  BY <1>2, <1>3, <1>4, <1>5, <1>6 DEF CameraStep

LEMMA OpenStep ==
  ASSUME TypesOK, NEW c \in Cameras, Open(c) \/ ChangePath(c)
  PROVE  CameraStep(c)
  <1>1. /\ UNCHANGED <<cleaner, cleaning, batch, victim, lateLocks, missed, videos, lastId,
                       lastName, begun>>
        /\ Reopen(c) /\ Pending(c)
        /\ \E p \in {"record", "cut"} : place' = [place EXCEPT ![c] = p]
    BY DEF Open, ChangePath, Pending
  <1>2. RowsStay
    BY <1>1, SameRows
  <1>3. ~Pending(c)'
    BY <1>1 DEF TypesOK, Pending
  <1>4. /\ DOMAIN files \subseteq DOMAIN files'
        /\ DOMAIN files' \subseteq DOMAIN files \cup {<<c, lastName[c]>>}
    BY <1>1 DEF Reopen
  <1>5. \E n \in Times \cup {None} : lastName' = [lastName EXCEPT ![c] = n]
    BY <1>1 DEF TypesOK
  <1>6. lastId' \in Nat /\ begun' \in [Cameras -> Times \cup {None}]
    BY <1>1 DEF TypesOK
  <1> QED  BY <1>1, <1>2, <1>3, <1>4, <1>5, <1>6 DEF CameraStep

\* The other actions leave the names of the files, and announce none.
LEMMA QuietStep ==
  ASSUME TypesOK, NEW c \in Cameras,
         UNCHANGED <<cleaner, cleaning, batch, victim, lateLocks, missed>>,
         RowsStay, lastId' \in Nat, begun' \in [Cameras -> Times \cup {None}],
         DOMAIN files' = DOMAIN files,
         NEW p \in {"off", "record", "extend"}, place' = [place EXCEPT ![c] = p],
         NEW n \in Times \cup {None}, lastName' = [lastName EXCEPT ![c] = n]
  PROVE  CameraStep(c)
  <1>1. ~Pending(c)'
    BY DEF TypesOK, Pending
  <1> QED  BY <1>1 DEF CameraStep

LEMMA EndsStep ==
  ASSUME TypesOK, NEW c \in Cameras, SetupFails(c) \/ End(c)
  PROVE  CameraStep(c)
  <1>1. /\ UNCHANGED <<cleaner, cleaning, batch, victim, lateLocks, missed, lastId, files>>
        /\ place' = [place EXCEPT ![c] = "off"] /\ lastName' = [lastName EXCEPT ![c] = None]
        /\ begun' = [begun EXCEPT ![c] = None]
    BY DEF SetupFails, End, Gone
  <1>2. RowsStay
    <2>1. CASE SetupFails(c)
      BY <2>1, SameRows DEF SetupFails
    <2>2. CASE End(c)
      BY <2>2, SetEndRows DEF End
    <2> QED  BY <2>1, <2>2
  <1>3. lastId' \in Nat /\ begun' \in [Cameras -> Times \cup {None}]
    BY <1>1 DEF TypesOK
  <1> QED  BY <1>1, <1>2, <1>3, QuietStep

LEMMA SegmentStep ==
  ASSUME TypesOK, NEW c \in Cameras, CutExtend(c) \/ ExtendRow(c) \/ CloseOld(c)
  PROVE  CameraStep(c)
  <1>1. /\ UNCHANGED <<cleaner, cleaning, batch, victim, lateLocks, missed, files>>
        /\ \E p \in {"record", "extend"} : place' = [place EXCEPT ![c] = p]
    BY DEF CutExtend, ExtendRow, CloseOld
  <1>2. RowsStay /\ lastId' \in Nat /\ begun' \in [Cameras -> Times \cup {None}]
        /\ \E n \in Times \cup {None} : lastName' = [lastName EXCEPT ![c] = n]
    <2>1. begun[c] \in Times \cup {None}
      BY DEF TypesOK
    <2>2. CASE CutExtend(c)
      <3>1. PICK t \in (begun[c] + 1)..MaxTime :
              SetEnd(fileId[c], t) /\ begun' = [begun EXCEPT ![c] = t]
        BY <2>2 DEF CutExtend
      <3>2. t \in Times
        BY <2>1 DEF Times, None
      <3> QED  BY <2>2, <3>1, <3>2, SetEndRows DEF CutExtend, TypesOK
    <2>3. CASE ExtendRow(c)
      <3>1. NextPath(c, begun[c], TRUE)
        BY <2>3 DEF ExtendRow
      <3>2. /\ RowsStay /\ lastId' \in Nat
            /\ lastName' = [lastName EXCEPT ![c] = Name(c, begun[c], TRUE)]
            /\ begun' = [begun EXCEPT ![c] = begun[c]]
            /\ Name(c, begun[c], TRUE) \in Times \cup {None}
        BY <2>1, <3>1, NextPathRows
      <3> QED  BY <2>1, <3>2 DEF TypesOK
    <2>4. CASE CloseOld(c)
      BY <2>1, <2>4, SetEndRows DEF CloseOld, TypesOK
    <2> QED  BY <2>2, <2>3, <2>4
  <1> QED  BY <1>1, <1>2, QuietStep

LEMMA GrowStep ==
  ASSUME TypesOK, NEW c \in Cameras, Grow(c)
  PROVE  CameraStep(c)
  <1>1. /\ UNCHANGED <<cleaner, cleaning, batch, victim, lateLocks, missed, videos, lastId,
                       place, lastName, begun>>
        /\ place[c] = "record" /\ DOMAIN files' = DOMAIN files
    BY DEF Grow
  <1>2. RowsStay
    BY <1>1, SameRows
  <1>3. place' = [place EXCEPT ![c] = "record"] /\ lastName' = [lastName EXCEPT ![c] = lastName[c]]
        /\ lastName[c] \in Times \cup {None} /\ lastId' \in Nat
        /\ begun' \in [Cameras -> Times \cup {None}]
    BY <1>1 DEF TypesOK
  <1> QED  BY <1>1, <1>2, <1>3, QuietStep

LEMMA CameraIsStep ==
  ASSUME TypesOK, NEW c \in Cameras, Camera(c)
  PROVE  CameraStep(c)
  BY BeginStep, OpenStep, EndsStep, SegmentStep, GrowStep DEF Camera

-----------------------------------------------------------------------------
(* The other threads. *)

\* The query of a pass returns files of which no row is locked.
LEMMA GroupsUnlocked ==
  ASSUME NEW rows \in Groups, NEW x \in rows
  PROVE  \A r \in RowsOf(x.file) : ~r.locked
  <1>1. PICK k : rows = {[file |-> f, key |-> k[f]] :
                           f \in {f \in {File(r) : r \in videos} : Unlocked(f)}}
    BY DEF Groups
  <1> QED  BY <1>1 DEF Unlocked

LEMMA CleanDiskKeeps ==
  ASSUME IInv, NEW w \in Cleaners, CleanDisk(w),
         UNCHANGED <<videos, files, place, lastName, begun, lastId, missed>>
  PROVE  IInv'
  <1> USE DEF IInv
  <1>1. TypesOK' /\ PendingNew'
    BY DEF TypesOK, PendingNew, Pending
  <1>2. cleaner = "none" /\ batch = {} /\ victim = << >> /\ cleaning = "file" /\ victim' = victim
    BY DEF CleanDisk, PassIdle, VictimGone
  <1>3. cleaning' = "file" /\ (cleaner' = "none" => batch' = {})
    BY <1>2 DEF CleanDisk, Cleaners
  <1>4. VictimGone' /\ PassIdle'
    BY <1>2, <1>3 DEF VictimGone, PassIdle
  <1>5. PassUnlocked'
    <2>1. \A x \in batch' : \A r \in RowsOf(x.file) : ~r.locked
      <3>1. batch' = {} \/ \E rows \in Groups : batch' \subseteq rows
        BY <1>2 DEF CleanDisk
      <3> QED  BY <3>1, GroupsUnlocked
    <2>2. Chosen' = batch'
      BY <1>2 DEF Chosen, Range
    <2>3. \A f : RowsOf(f)' = RowsOf(f)
      BY DEF RowsOf
    <2> QED  BY <2>1, <2>2, <2>3 DEF PassUnlocked
  <1> QED  BY <1>1, <1>4, <1>5

\* rm_file() removes nothing but the file.
LEMMA UnlinkRemoves ==
  ASSUME NEW f, Unlink(f)
  PROVE  DOMAIN files' = DOMAIN files \/ DOMAIN files' = DOMAIN files \ {f}
  BY DEF Unlink, Restrict

LEMMA RmSegmentKeeps == IInv /\ RmSegment => IInv'
  <1> SUFFICES ASSUME IInv, RmSegment PROVE IInv'
    OBVIOUS
  <1> USE DEF IInv
  <1>1. PICK x \in batch :
          /\ batch' = batch \ {x} /\ victim' = <<x>>
          /\ Unlink(x.file) \/ UNCHANGED files
          /\ missed' = IF x.file \in DOMAIN files \ DOMAIN files' THEN {} ELSE {x.file}
    BY DEF RmSegment
  <1>2. /\ cleaner # "none" /\ cleaning = "file" /\ cleaning' = "row"
        /\ UNCHANGED <<videos, lastId, place, lastName, begun, cleaner, lateLocks>>
    BY DEF RmSegment
  <1>3. DOMAIN files' = DOMAIN files \/ DOMAIN files' = DOMAIN files \ {x.file}
    BY <1>1, UnlinkRemoves
  <1>4. TypesOK'
    BY <1>2 DEF TypesOK
  <1>5. PendingNew'
    BY <1>2, <1>3 DEF PendingNew, Pending
  <1>6. VictimGone'
    BY <1>1, <1>2, <1>3 DEF VictimGone, PendingNew, Pending
  <1>7. PassUnlocked'
    <2>1. Chosen' \subseteq Chosen
      BY <1>1 DEF Chosen, Range
    <2> QED  BY <1>2, <2>1 DEF PassUnlocked, RowsOf
  <1>8. PassIdle'
    BY <1>2 DEF PassIdle
  <1> QED  BY <1>4, <1>5, <1>6, <1>7, <1>8

\* The steps that remove rows, or only end a pass.
LEMMA RemovalKeeps ==
  ASSUME IInv, videos' \subseteq videos, Chosen' \subseteq Chosen, VictimGone', PassIdle',
         UNCHANGED <<files, lastId, place, lastName, begun>>,
         UNCHANGED lateLocks \/ Chosen' = {}
  PROVE  IInv'
  <1> USE DEF IInv
  <1>1. TypesOK'
    BY DEF TypesOK
  <1>2. PendingNew'
    BY DEF PendingNew, Pending
  <1>3. PassUnlocked'
    BY DEF PassUnlocked, RowsOf
  <1> QED  BY <1>1, <1>2, <1>3

LEMMA DeleteRowsKeeps == IInv /\ DeleteRows => IInv'
  <1> SUFFICES ASSUME IInv, DeleteRows PROVE IInv'
    OBVIOUS
  <1>1. /\ videos' \subseteq videos /\ victim' = << >> /\ cleaning' = "file"
        /\ cleaner # "none"
        /\ UNCHANGED <<files, lastId, place, lastName, begun, lateLocks, batch, cleaner>>
    BY DEF DeleteRows
  <1>2. Chosen' \subseteq Chosen
    BY <1>1 DEF Chosen, Range
  <1>3. VictimGone' /\ PassIdle'
    BY <1>1 DEF VictimGone, PassIdle
  <1> QED  BY <1>1, <1>2, <1>3, RemovalKeeps

LEMMA PassEndsKeeps == IInv /\ PassEnds => IInv'
  <1> SUFFICES ASSUME IInv, PassEnds PROVE IInv'
    OBVIOUS
  <1>1. /\ cleaning = "file" /\ batch' = {}
        /\ UNCHANGED <<videos, files, lastId, place, lastName, begun, victim, cleaning>>
    BY DEF PassEnds
  <1>2. victim = << >>
    BY <1>1 DEF IInv, VictimGone
  <1>3. Chosen' = {}
    BY <1>1, <1>2 DEF Chosen, Range
  <1>4. VictimGone' /\ PassIdle'
    BY <1>1, <1>2 DEF VictimGone, PassIdle
  <1> QED  BY <1>1, <1>3, <1>4, RemovalKeeps

\* The main thread between two instances, and the exporter.
LEMMA MainKeeps ==
  ASSUME IInv, SelectBroken \/ DeleteBroken \/ Launched \/ Reload \/ Reserve
  PROVE  IInv'
  <1>1. /\ videos' \subseteq videos
        /\ UNCHANGED <<files, lastId, place, lastName, begun, lateLocks, batch, cleaner, victim,
                       cleaning, missed>>
    BY DEF SelectBroken, DeleteBroken, Launched, Reload, Reserve
  <1>2. Chosen' = Chosen
    BY <1>1 DEF Chosen
  <1>3. VictimGone' /\ PassIdle'
    BY <1>1 DEF IInv, VictimGone, PassIdle, Pending
  <1> QED  BY <1>1, <1>2, <1>3, RemovalKeeps

LEMMA CrashKeeps == IInv /\ Crash => IInv'
  <1> SUFFICES ASSUME IInv, Crash PROVE IInv'
    OBVIOUS
  <1>1. /\ cleaning' = "file" /\ batch' = {} /\ victim' = << >>
        /\ place' = [c \in Cameras |-> "off"] /\ lastName' = [c \in Cameras |-> None]
        /\ begun' = [c \in Cameras |-> None] /\ UNCHANGED <<videos, lastId, files>>
    BY DEF Crash
  <1>2. TypesOK'
    BY <1>1 DEF IInv, TypesOK
  <1>3. PendingNew'
    BY <1>1 DEF PendingNew, Pending
  <1>4. VictimGone' /\ PassUnlocked' /\ PassIdle'
    BY <1>1 DEF VictimGone, PassUnlocked, PassIdle, Chosen, Range
  <1> QED  BY <1>2, <1>3, <1>4 DEF IInv

\* The rows that Lock hits, with the lock set or cleared.
LEMMA LockRows ==
  ASSUME TypesOK, NEW hit \in SUBSET videos, NEW lock \in BOOLEAN,
         videos' = (videos \ hit) \cup {[r EXCEPT !.locked = lock] : r \in hit}
  PROVE  /\ videos' \subseteq Rows /\ Covers
         /\ \A s \in videos' :
              s.locked => (\E r \in videos : r.locked /\ File(r) = File(s)) \/ \E r \in hit : File(r) = File(s)
  <1>1. \A r \in Rows : /\ [r EXCEPT !.locked = lock] \in Rows
                        /\ [r EXCEPT !.locked = lock].id = r.id
                        /\ [r EXCEPT !.locked = lock].camera = r.camera
                        /\ [r EXCEPT !.locked = lock].name = r.name
    BY DEF Rows
  <1>2. videos \subseteq Rows
    BY DEF TypesOK
  <1>3. videos' \subseteq Rows
    BY <1>1, <1>2
  <1>4. Covers
    BY <1>1, <1>2 DEF Covers, File
  <1>5. ASSUME NEW s \in videos', s.locked
        PROVE  (\E r \in videos : r.locked /\ File(r) = File(s)) \/ \E r \in hit : File(r) = File(s)
    <2>1. CASE s \in videos
      BY <1>5, <2>1
    <2>2. CASE \E r \in hit : s = [r EXCEPT !.locked = lock]
      <3>1. PICK r \in hit : s = [r EXCEPT !.locked = lock]
        BY <2>2
      <3>2. s.camera = r.camera /\ s.name = r.name
        BY <1>1, <1>2, <3>1
      <3> QED  BY <3>2 DEF File
    <2> QED  BY <2>1, <2>2
  <1> QED  BY <1>3, <1>4, <1>5

LEMMA LockStep ==
  ASSUME TypesOK, NEW c \in Cameras, Lock(c)
  PROVE  \E hit \in SUBSET videos, lock \in BOOLEAN :
           /\ videos' = (videos \ hit) \cup {[r EXCEPT !.locked = lock] : r \in hit}
           /\ lateLocks' = IF cleaner = "none" THEN {} ELSE lateLocks \cup {File(r) : r \in hit}
  BY DEF Lock

LEMMA LockKeeps ==
  ASSUME IInv, NEW c \in Cameras, Lock(c)
  PROVE  IInv' /\ Covers
  <1> USE DEF IInv
  <1>1. PICK hit \in SUBSET videos, lock \in BOOLEAN :
          /\ videos' = (videos \ hit) \cup {[r EXCEPT !.locked = lock] : r \in hit}
          /\ lateLocks' = IF cleaner = "none" THEN {} ELSE lateLocks \cup {File(r) : r \in hit}
    BY LockStep
  <1>2. UNCHANGED <<files, lastId, place, lastName, begun, batch, cleaner, victim, cleaning, missed>>
    BY DEF Lock
  <1>3. /\ videos' \subseteq Rows /\ Covers
        /\ \A s \in videos' :
             s.locked => (\E r \in videos : r.locked /\ File(r) = File(s)) \/ \E r \in hit : File(r) = File(s)
    BY <1>1, LockRows
  <1>4. TypesOK'
    BY <1>2, <1>3 DEF TypesOK
  <1>5. PendingNew' /\ VictimGone' /\ PassIdle'
    BY <1>2 DEF PendingNew, Pending, VictimGone, PassIdle
  <1>6. PassUnlocked'
    <2>1. CASE cleaner = "none"
      BY <1>2, <2>1 DEF PassIdle, PassUnlocked, Chosen, Range
    <2>2. CASE cleaner # "none"
      <3>1. ASSUME NEW x \in Chosen, x.file \notin lateLocks'
            PROVE  \A s \in RowsOf(x.file)' : ~s.locked
        <4>1. x.file \notin lateLocks /\ \A r \in hit : File(r) # x.file
          BY <1>1, <2>2, <3>1
        <4>2. \A r \in RowsOf(x.file) : ~r.locked
          BY <4>1 DEF PassUnlocked
        <4> QED  BY <1>3, <4>1, <4>2 DEF RowsOf
      <3> QED  BY <1>2, <3>1 DEF PassUnlocked, Chosen
    <2> QED  BY <2>1, <2>2
  <1> QED  BY <1>3, <1>4, <1>5, <1>6

-----------------------------------------------------------------------------
LEMMA InitIInv == Init => IInv
  <1> SUFFICES ASSUME Init PROVE IInv
    OBVIOUS
  <1>1. TypesOK
    BY DEF Init, TypesOK
  <1>2. PendingNew /\ VictimGone /\ PassIdle
    BY DEF Init, PendingNew, Pending, VictimGone, PassIdle
  <1>3. PassUnlocked
    BY DEF Init, PassUnlocked, Chosen, Range
  <1> QED  BY <1>1, <1>2, <1>3 DEF IInv

LEMMA NextKeeps == IInv /\ [Next]_vars => IInv'
  <1> SUFFICES ASSUME IInv, [Next]_vars PROVE IInv'
    OBVIOUS
  <1>1. CASE UNCHANGED vars
    <2>1. UNCHANGED <<videos, files, lastId, place, lastName, begun, lateLocks, batch, cleaner,
                      victim, cleaning, missed>>
      BY <1>1 DEF vars
    <2>2. Chosen' = Chosen
      BY <2>1 DEF Chosen
    <2>3. VictimGone' /\ PassIdle'
      BY <2>1 DEF IInv, VictimGone, PassIdle, Pending
    <2> QED  BY <2>1, <2>2, <2>3, RemovalKeeps
  <1>2. ASSUME NEW c \in Cameras, Camera(c) \/ Lock(c)
        PROVE  IInv'
    BY <1>2, CameraIsStep, CameraStepKeeps, LockKeeps DEF IInv
  <1>3. CASE MainCleans
    BY <1>3, CleanDiskKeeps DEF MainCleans, Cleaners
  <1>4. CASE ExporterCleans
    BY <1>4, CleanDiskKeeps DEF ExporterCleans, Cleaners
  <1>5. CASE RmSegment \/ DeleteRows \/ PassEnds \/ Reserve
    BY <1>5, RmSegmentKeeps, DeleteRowsKeeps, PassEndsKeeps, MainKeeps
  <1>6. CASE Main
    BY <1>6, MainKeeps, CrashKeeps DEF Main
  <1> QED  BY <1>1, <1>2, <1>3, <1>4, <1>5, <1>6 DEF Next, Cleaning, Exporting

\* What holds between a pass and the cameras, in every reachable state.
THEOREM Invariant == Spec => []IInv
  <1>1. Init => IInv
    BY InitIInv
  <1>2. IInv /\ [Next]_vars => IInv'
    BY NextKeeps
  <1> QED  BY <1>1, <1>2, PTL DEF Spec

-----------------------------------------------------------------------------
(* The steps that remove something. *)

\* Every step leaves a successor of each row and each file, but for those that clean.
LEMMA Removals ==
  ASSUME IInv, [Next]_vars
  PROVE  \/ Covers /\ DOMAIN files \subseteq DOMAIN files'
         \/ DeleteBroken \/ RmSegment \/ DeleteRows
  <1>1. CASE UNCHANGED vars
    BY <1>1 DEF vars, Covers
  <1>2. ASSUME NEW c \in Cameras, Camera(c)
        PROVE  Covers /\ DOMAIN files \subseteq DOMAIN files'
    BY <1>2, CameraIsStep DEF IInv, CameraStep, RowsStay
  <1>3. ASSUME NEW c \in Cameras, Lock(c)
        PROVE  Covers /\ DOMAIN files \subseteq DOMAIN files'
    <2>1. UNCHANGED files
      BY <1>3 DEF Lock
    <2> QED  BY <1>3, <2>1, LockKeeps
  <1>4. CASE \/ MainCleans \/ ExporterCleans \/ PassEnds \/ Reserve
             \/ SelectBroken \/ Launched \/ Reload \/ Crash
    <2>1. UNCHANGED <<videos, files>>
      BY <1>4 DEF MainCleans, ExporterCleans, PassEnds, Reserve, SelectBroken, Launched, Reload,
                  Crash
    <2> QED  BY <2>1 DEF Covers
  <1> QED  BY <1>1, <1>2, <1>3, <1>4 DEF Next, Cleaning, Exporting, Main

\* Both steps of a pass concern the file of the row at hand.
LEMMA PassRemoves ==
  ASSUME IInv, RmSegment \/ DeleteRows
  PROVE  \/ /\ UNCHANGED videos
            /\ \E x \in Chosen : DOMAIN files \ DOMAIN files' \subseteq {x.file}
         \/ /\ UNCHANGED files
            /\ \E x \in Chosen : /\ videos' = videos \/ videos' = videos \ RowsOf(x.file)
                                 /\ x.file \in missed \/ x.file \notin DOMAIN files
  <1>1. CASE RmSegment
    <2>1. PICK x \in batch : Unlink(x.file) \/ UNCHANGED files
      BY <1>1 DEF RmSegment
    <2>2. DOMAIN files \ DOMAIN files' \subseteq {x.file}
      BY <2>1, UnlinkRemoves
    <2> QED  BY <1>1, <2>2 DEF RmSegment, Chosen
  <1>2. CASE DeleteRows
    <2>1. PICK x : victim = <<x>> /\ (x.file \in missed \/ x.file \notin DOMAIN files)
      BY <1>2 DEF DeleteRows, IInv, VictimGone
    <2>2. x \in Chosen /\ victim[1] = x
      BY <2>1 DEF Chosen, Range
    <2> QED  BY <1>2, <2>1, <2>2 DEF DeleteRows, OfFile
  <1> QED  BY <1>1, <1>2

\* A file on disk loses its last row only as a broken one, or after rm_file() has missed it:
\* DELETE in clean_disk() comes after the file has gone, and no camera opens it again.
THEOREM FilesHaveRows == Spec => FilesKeepRows
  <1> DEFINE Kept == \A r \in videos :
               (RowsOf(File(r))' = {} /\ File(r) \in DOMAIN files') =>
                 main = "broken" \/ File(r) \in missed
  <1>1. ASSUME IInv, [Next]_vars
        PROVE  Kept
    <2>1. CASE Covers
      BY <2>1 DEF Covers, RowsOf
    <2>2. CASE DeleteBroken
      BY <2>2 DEF DeleteBroken
    <2>3. CASE RmSegment \/ DeleteRows
      <3>1. ASSUME NEW r \in videos, RowsOf(File(r))' = {}, File(r) \in DOMAIN files'
            PROVE  File(r) \in missed
        <4>1. r \notin videos'
          BY <3>1 DEF RowsOf
        <4>2. PICK x \in Chosen : /\ videos' = videos \ RowsOf(x.file) /\ UNCHANGED files
                                  /\ x.file \in missed \/ x.file \notin DOMAIN files
          BY <1>1, <2>3, <4>1, PassRemoves
        <4>3. File(r) = x.file
          BY <4>1, <4>2 DEF RowsOf
        <4> QED  BY <3>1, <4>2, <4>3
      <3> QED  BY <3>1
    <2> QED  BY <1>1, <2>1, <2>2, <2>3, Removals
  <1>2. IInv /\ [Next]_vars => [Kept]_vars
    BY <1>1
  <1>3. FilesKeepRows <=> [][Kept]_vars
    BY DEF FilesKeepRows
  <1> QED  BY <1>2, <1>3, Invariant, PTL DEF Spec

\* What was locked when a pass asked is not removed by it: the query of clean_disk() looks at
\* all rows of a file, and the rows that are added before it is removed are not locked.
THEOREM LocksAreHeld == Spec => LocksHold
  <1> DEFINE Held ==
        /\ \A r \in videos :
             (r.locked /\ \A s \in videos' : s.id # r.id) => main = "broken" \/ File(r) \in lateLocks
        /\ \A f \in DOMAIN files \ DOMAIN files' :
             (\A r \in RowsOf(f) : ~r.locked) \/ f \in lateLocks
  <1>1. ASSUME IInv, [Next]_vars
        PROVE  Held
    <2>1. CASE Covers /\ DOMAIN files \subseteq DOMAIN files'
      BY <2>1 DEF Covers
    <2>2. CASE DeleteBroken
      BY <2>2 DEF DeleteBroken
    <2>3. CASE RmSegment \/ DeleteRows
      <3>1. \A x \in Chosen : x.file \in lateLocks \/ \A r \in RowsOf(x.file) : ~r.locked
        BY <1>1 DEF IInv, PassUnlocked
      <3>2. ASSUME NEW r \in videos, r.locked, \A s \in videos' : s.id # r.id
            PROVE  File(r) \in lateLocks
        <4>1. r \notin videos'
          BY <3>2
        <4>2. PICK x \in Chosen : videos' = videos \ RowsOf(x.file)
          BY <1>1, <2>3, <4>1, PassRemoves
        <4>3. r \in RowsOf(x.file) /\ File(r) = x.file
          BY <4>1, <4>2 DEF RowsOf
        <4> QED  BY <3>1, <3>2, <4>3
      <3>3. ASSUME NEW f \in DOMAIN files \ DOMAIN files'
            PROVE  (\A r \in RowsOf(f) : ~r.locked) \/ f \in lateLocks
        <4>1. PICK x \in Chosen : f = x.file
          BY <1>1, <2>3, <3>3, PassRemoves
        <4> QED  BY <3>1, <4>1
      <3> QED  BY <3>2, <3>3
    <2> QED  BY <1>1, <2>1, <2>2, <2>3, Removals
  <1>2. IInv /\ [Next]_vars => [Held]_vars
    BY <1>1
  <1>3. LocksHold <=> [][Held]_vars
    BY DEF LocksHold
  <1> QED  BY <1>2, <1>3, Invariant, PTL DEF Spec

-----------------------------------------------------------------------------
(* Types. *)

\* A camera that is not off knows its file and when its segment began.
Named == \A c \in Cameras : place[c] # "off" => lastName[c] \in Times /\ begun[c] \in Times

RowsTyped ==
  \A r \in videos : /\ r.id \in 1..lastId /\ r.camera \in Cameras /\ r.locked \in BOOLEAN
                    /\ r.name \in Times /\ r.start \in Times /\ r.end \in Times \cup {None}
BrokenTyped ==
  /\ lastId \in 0..MaxRows
  /\ broken \subseteq [id : 1..lastId, camera : Cameras, name : Times, start : Times,
                       end : Times \cup {None}, locked : BOOLEAN]
FilesTyped ==
  /\ DOMAIN files \subseteq Cameras \X Times /\ \A f \in DOMAIN files : files[f] \in Nat
  /\ dirs \subseteq Cameras \X (0..MaxTime) /\ \A f \in DOMAIN files : Dir(f) \in dirs
CamerasTyped ==
  /\ place \in [Cameras -> {"off", "open", "record", "extend", "reopen", "cut"}]
  /\ fileId \in [Cameras -> 0..lastId] /\ oldId \in [Cameras -> 0..lastId]
  /\ loose \in [Cameras -> Nat] /\ lastName \in [Cameras -> Times \cup {None}]
  /\ output \in [Cameras -> Times \cup {None}] /\ begun \in [Cameras -> Times \cup {None}]
PassTyped ==
  /\ main \in {"boot", "broken", "loop"} /\ cleaner \in Cleaners \cup {"none"}
  /\ cleaning = "row" <=> victim # << >>
  /\ cleaner = "none" => target = 0 /\ batch = {} /\ victim = << >> /\ count = 0
  /\ reserved \in Nat /\ exporter \in {"idle", "clean"}
  /\ (exporter = "clean" \/ cleaner # "exporter") /\ stale \in BOOLEAN

TInv == RowsTyped /\ BrokenTyped /\ FilesTyped /\ CamerasTyped /\ PassTyped /\ Named

LEMMA TypesByParts == TInv => TypeOK
  BY DEF TInv, RowsTyped, BrokenTyped, FilesTyped, CamerasTyped, PassTyped, TypeOK

\* The table: a row has the type that it is given, and keeps it.
LEMMA NextPathTyped ==
  ASSUME TypesOK, TInv, NEW c \in Cameras, NEW t \in Times, NEW extend \in BOOLEAN,
         NextPath(c, t, extend)
  PROVE  /\ RowsTyped' /\ lastId' \in 0..MaxRows /\ lastId <= lastId'
         /\ Name(c, t, extend) \in Times
         /\ fileId' \in [Cameras -> 0..lastId']
  <1> USE DEF TInv
  <1>1. lastId \in Nat /\ lastId < MaxRows /\ MaxRows \in Nat
    BY FileManagerAssumption DEF BrokenTyped, NextPath
  <1>2. Name(c, t, extend) \in Times
    BY DEF Name, CamerasTyped, Times, None
  <1>3. \E id \in 0..lastId' : fileId' = [fileId EXCEPT ![c] = id]
    <2>1. lastId' = lastId \/ (lastId' = lastId + 1 /\ fileId' = [fileId EXCEPT ![c] = lastId + 1])
      BY DEF NextPath
    <2>2. CASE lastId' = lastId + 1 /\ fileId' = [fileId EXCEPT ![c] = lastId + 1]
      <3>1. lastId' = lastId + 1
        BY <2>2
      <3>2. lastId + 1 \in 0..lastId'
        BY <1>1, <3>1
      <3> QED  BY <2>2, <3>2
    <2>3. CASE \E id \in 0..lastId : fileId' = [fileId EXCEPT ![c] = id] /\ lastId' = lastId
      BY <2>3
    <2> QED  BY <2>1, <2>2, <2>3 DEF NextPath
  <1>4. lastId' = lastId \/ lastId' = lastId + 1
    BY DEF NextPath
  <1>5. 0..lastId \subseteq 0..lastId' /\ lastId' \in 0..MaxRows /\ lastId <= lastId'
    BY <1>1, <1>4
  <1>6. fileId' \in [Cameras -> 0..lastId']
    BY <1>3, <1>5 DEF CamerasTyped
  <1>7. RowsTyped'
    <2>1. CASE UNCHANGED <<videos, lastId>>
      BY <2>1 DEF RowsTyped
    <2>2. CASE /\ lastId' = lastId + 1
               /\ videos' = videos \cup {[id |-> lastId + 1, camera |-> c, name |-> Name(c, t, extend),
                                          start |-> t, end |-> None, locked |-> FALSE]}
      <3>1. \A r \in videos : r.id \in 1..lastId'
        BY <1>1, <2>2 DEF RowsTyped
      <3>0. lastId' = lastId + 1
        BY <2>2
      <3>2. lastId + 1 \in 1..lastId'
        BY <1>1, <3>0
      <3> DEFINE row == [id |-> lastId + 1, camera |-> c, name |-> Name(c, t, extend),
                         start |-> t, end |-> None, locked |-> FALSE]
      <3>3. /\ row.id \in 1..lastId' /\ row.camera \in Cameras /\ row.locked \in BOOLEAN
            /\ row.name \in Times /\ row.start \in Times /\ row.end \in Times \cup {None}
        BY <1>2, <3>2
      <3> HIDE DEF row
      <3>4. videos' = videos \cup {row}
        BY <2>2 DEF row
      <3> QED  BY <3>1, <3>3, <3>4 DEF RowsTyped
    <2> QED  BY <2>1, <2>2 DEF NextPath
  <1> QED  BY <1>2, <1>5, <1>6, <1>7

LEMMA SetEndTyped ==
  ASSUME TypesOK, RowsTyped, NEW id, NEW t \in Times \cup {None}, SetEnd(id, t), lastId' = lastId
  PROVE  RowsTyped'
  <1>1. \A r \in Rows : LET e == [r EXCEPT !.end = t]
                        IN /\ e.id = r.id /\ e.camera = r.camera /\ e.name = r.name
                           /\ e.start = r.start /\ e.end = t /\ e.locked = r.locked
    BY DEF Rows
  <1> SUFFICES ASSUME NEW s \in videos'
               PROVE  /\ s.id \in 1..lastId /\ s.camera \in Cameras /\ s.locked \in BOOLEAN
                      /\ s.name \in Times /\ s.start \in Times /\ s.end \in Times \cup {None}
    BY DEF RowsTyped
  <1>2. PICK r \in videos : s = r \/ s = [r EXCEPT !.end = t]
    BY DEF SetEnd
  <1>3. r \in Rows
    BY DEF TypesOK
  <1> QED  BY <1>1, <1>2, <1>3 DEF RowsTyped

LEMMA LockTyped ==
  ASSUME TypesOK, RowsTyped, NEW c \in Cameras, Lock(c)
  PROVE  RowsTyped'
  <1>1. PICK hit \in SUBSET videos, lock \in BOOLEAN :
          videos' = (videos \ hit) \cup {[r EXCEPT !.locked = lock] : r \in hit}
    BY LockStep
  <1>2. lastId' = lastId
    BY DEF Lock
  <1>3. \A r \in Rows : LET e == [r EXCEPT !.locked = lock]
                        IN /\ e.id = r.id /\ e.camera = r.camera /\ e.name = r.name
                           /\ e.start = r.start /\ e.end = r.end /\ e.locked = lock
    BY DEF Rows
  <1> SUFFICES ASSUME NEW s \in videos'
               PROVE  /\ s.id \in 1..lastId /\ s.camera \in Cameras /\ s.locked \in BOOLEAN
                      /\ s.name \in Times /\ s.start \in Times /\ s.end \in Times \cup {None}
    BY <1>2 DEF RowsTyped
  <1>4. PICK r \in videos : s = r \/ s = [r EXCEPT !.locked = lock]
    BY <1>1
  <1>5. r \in Rows
    BY DEF TypesOK
  <1> QED  BY <1>3, <1>4, <1>5 DEF RowsTyped

\* The directory of a time.
LEMMA HourBound == \A t \in Times : t \div HourLength \in 0..MaxTime
  BY FileManagerAssumption DEF Times

LEMMA DirTyped == \A c \in Cameras, t \in Times : Dir(<<c, t>>) \in Cameras \X (0..MaxTime)
  BY HourBound DEF Dir

\* The cameras: every action of one leaves the types of its variables, given those of the
\* id and the times that it takes over.
LEMMA CameraTyped ==
  ASSUME TInv, lastId' \in 0..MaxRows, lastId <= lastId', NEW c \in Cameras,
         fileId' \in [Cameras -> 0..lastId'],
         \/ UNCHANGED oldId
         \/ oldId' = [oldId EXCEPT ![c] = fileId[c]] \/ oldId' = [oldId EXCEPT ![c] = 0],
         UNCHANGED loose \/ loose' = [loose EXCEPT ![c] = 0] \/ loose' = [loose EXCEPT ![c] = @ + 1],
         NEW n \in Times \cup {None}, lastName' = [lastName EXCEPT ![c] = n],
         NEW b \in Times \cup {None}, begun' = [begun EXCEPT ![c] = b],
         \E o \in Times \cup {None} : output' = [output EXCEPT ![c] = o],
         NEW p \in {"off", "open", "record", "extend", "reopen", "cut"}, Goes(c, place[c], p),
         p # "off" => n \in Times /\ b \in Times
  PROVE  CamerasTyped' /\ Named'
  <1> USE DEF TInv
  <1>1. 0..lastId \subseteq 0..lastId'
    BY DEF BrokenTyped
  <1>2. oldId' \in [Cameras -> 0..lastId']
    <2>1. 0 \in 0..lastId'
      OBVIOUS
    <2> QED  BY <1>1, <2>1 DEF CamerasTyped
  <1>3. loose' \in [Cameras -> Nat]
    BY DEF CamerasTyped
  <1>4. output' \in [Cameras -> Times \cup {None}]
    BY DEF CamerasTyped
  <1>5. lastName' \in [Cameras -> Times \cup {None}] /\ begun' \in [Cameras -> Times \cup {None}]
    BY DEF CamerasTyped
  <1>6. place' \in [Cameras -> {"off", "open", "record", "extend", "reopen", "cut"}]
    BY DEF CamerasTyped
  <1>7. Named'
    BY DEF CamerasTyped, Named
  <1> QED  BY <1>2, <1>3, <1>4, <1>5, <1>6, <1>7 DEF CamerasTyped

\* What a camera does not touch.
LEMMA OthersTyped ==
  ASSUME TInv, lastId' \in 0..MaxRows, lastId <= lastId', stale' \in BOOLEAN,
         UNCHANGED <<main, broken, cleaner, cleaning, victim, target, batch, count, reserved, exporter>>
  PROVE  BrokenTyped' /\ PassTyped'
  <1> USE DEF TInv
  <1>1. 1..lastId \subseteq 1..lastId'
    BY DEF BrokenTyped
  <1>2. BrokenTyped'
    BY <1>1 DEF BrokenTyped
  <1>3. PassTyped'
    BY DEF PassTyped
  <1> QED  BY <1>2, <1>3

LEMMA BeginTyped ==
  ASSUME TypesOK, TInv, NEW c \in Cameras, Begin(c) \/ CutNew(c) \/ ExtendRow(c)
  PROVE  TInv'
  <1> USE DEF TInv
  <1>1. PICK t \in Times, extend \in BOOLEAN : NextPath(c, t, extend)
    <2>1. CASE Begin(c) \/ CutNew(c)
      BY <2>1 DEF Begin, CutNew
    <2>2. CASE ExtendRow(c)
      <3>1. begun[c] \in Times
        BY <2>2 DEF ExtendRow, Named
      <3> QED  BY <2>2, <3>1 DEF ExtendRow
    <2> QED  BY <2>1, <2>2
  <1>2. /\ RowsTyped' /\ lastId' \in 0..MaxRows /\ lastId <= lastId'
        /\ Name(c, t, extend) \in Times /\ fileId' \in [Cameras -> 0..lastId']
    BY <1>1, NextPathTyped
  <1>3. /\ lastName' = [lastName EXCEPT ![c] = Name(c, t, extend)]
        /\ begun' = [begun EXCEPT ![c] = t] /\ dirs' = dirs \cup {Dir(<<c, Name(c, t, extend)>>)}
        /\ stale' = (stale \/ faults' # faults)
    BY <1>1 DEF NextPath
  <1>4. /\ UNCHANGED <<main, broken, cleaner, cleaning, victim, target, batch, count, reserved,
                       exporter, files, loose, output>>
        /\ oldId' = oldId \/ oldId' = [oldId EXCEPT ![c] = fileId[c]]
        /\ \E p \in {"open", "record", "reopen"} : Goes(c, place[c], p)
    BY DEF Begin, CutNew, ExtendRow
  <1>5. stale' \in BOOLEAN
    BY <1>3 DEF PassTyped
  <1>6. FilesTyped'
    <2>1. Dir(<<c, Name(c, t, extend)>>) \in Cameras \X (0..MaxTime)
      BY <1>2, DirTyped
    <2> QED  BY <1>3, <1>4, <2>1 DEF FilesTyped
  <1>7. CamerasTyped' /\ Named'
    <2>1. output' = [output EXCEPT ![c] = output[c]] /\ output[c] \in Times \cup {None}
      BY <1>4 DEF CamerasTyped
    <2> QED  BY <1>2, <1>3, <1>4, <2>1, CameraTyped
  <1> QED  BY <1>2, <1>4, <1>5, <1>6, <1>7, OthersTyped

LEMMA OpenTyped ==
  ASSUME TInv, NEW c \in Cameras, Open(c) \/ ChangePath(c)
  PROVE  TInv'
  <1> USE DEF TInv
  <1>1. /\ UNCHANGED <<main, broken, cleaner, cleaning, victim, target, batch, count, reserved,
                       exporter, videos, lastId, dirs, fileId, lastName, begun, oldId, stale>>
        /\ Reopen(c) /\ \E p \in {"record", "cut"} : Goes(c, place[c], p)
    BY DEF Open, ChangePath
  <1>2. lastName[c] \in Times /\ begun[c] \in Times
    BY DEF Open, ChangePath, Named
  <1>3. lastId' \in 0..MaxRows /\ lastId <= lastId' /\ fileId' \in [Cameras -> 0..lastId']
    BY <1>1 DEF BrokenTyped, CamerasTyped
  <1>4. FilesTyped'
    <2>1. CASE UNCHANGED files
      BY <1>1, <2>1 DEF FilesTyped
    <2>2. CASE /\ Dir(<<c, lastName[c]>>) \in dirs
               /\ files' = [g \in DOMAIN files \cup {<<c, lastName[c]>>} |->
                              IF g = <<c, lastName[c]>> THEN 0 ELSE files[g]]
      BY <1>1, <1>2, <2>2 DEF FilesTyped
    <2> QED  BY <1>1, <2>1, <2>2 DEF Reopen
  <1>5. CamerasTyped' /\ Named'
    <2>1. lastName' = [lastName EXCEPT ![c] = lastName[c]] /\ begun' = [begun EXCEPT ![c] = begun[c]]
      BY <1>1 DEF CamerasTyped
    <2>2. \E o \in Times \cup {None} : output' = [output EXCEPT ![c] = o]
      BY <1>1, <1>2 DEF Reopen
    <2>3. loose' = [loose EXCEPT ![c] = 0]
      BY <1>1 DEF Reopen
    <2> QED  BY <1>1, <1>2, <1>3, <2>1, <2>2, <2>3, CameraTyped
  <1>6. RowsTyped' /\ stale' \in BOOLEAN
    BY <1>1 DEF RowsTyped, PassTyped
  <1> QED  BY <1>1, <1>3, <1>4, <1>5, <1>6, OthersTyped

LEMMA GrowTyped ==
  ASSUME TInv, NEW c \in Cameras, Grow(c)
  PROVE  TInv'
  <1> USE DEF TInv
  <1>1. UNCHANGED <<main, broken, cleaner, cleaning, victim, target, batch, count, reserved,
                    exporter, videos, lastId, dirs, place, fileId, lastName, output, begun, oldId, stale>>
    BY DEF Grow
  <1>2. lastId' \in 0..MaxRows /\ lastId <= lastId'
    BY <1>1 DEF BrokenTyped
  <1>3. FilesTyped'
    <2>1. CASE UNCHANGED files
      BY <1>1, <2>1 DEF FilesTyped
    <2>2. CASE /\ <<c, output[c]>> \in DOMAIN files
               /\ files' = [files EXCEPT ![<<c, output[c]>>] = @ + 1]
      BY <1>1, <2>2 DEF FilesTyped
    <2> QED  BY <2>1, <2>2 DEF Grow
  <1>4. CamerasTyped' /\ Named'
    <2>1. loose' \in [Cameras -> Nat]
      BY DEF Grow, CamerasTyped
    <2> QED  BY <1>1, <2>1 DEF CamerasTyped, Named
  <1>5. RowsTyped' /\ stale' \in BOOLEAN
    BY <1>1 DEF RowsTyped, PassTyped
  <1> QED  BY <1>1, <1>2, <1>3, <1>4, <1>5, OthersTyped

LEMMA EndsTyped ==
  ASSUME TypesOK, TInv, NEW c \in Cameras, SetupFails(c) \/ End(c) \/ CutExtend(c) \/ CloseOld(c)
  PROVE  TInv'
  <1> USE DEF TInv
  <1>1. /\ UNCHANGED <<main, broken, cleaner, cleaning, victim, target, batch, count, reserved,
                       exporter, lastId, files, dirs, stale>>
        /\ loose' = loose \/ loose' = [loose EXCEPT ![c] = 0]
        /\ oldId' = oldId \/ oldId' = [oldId EXCEPT ![c] = 0]
        /\ output' = output \/ output' = [output EXCEPT ![c] = None]
    BY DEF SetupFails, End, CutExtend, CloseOld
  <1>2. lastId' \in 0..MaxRows /\ lastId <= lastId'
    BY <1>1 DEF BrokenTyped
  <1>3. \E n, b \in Times \cup {None}, p \in {"off", "record", "extend"} :
          /\ lastName' = [lastName EXCEPT ![c] = n] /\ begun' = [begun EXCEPT ![c] = b]
          /\ Goes(c, place[c], p) /\ (p # "off" => n \in Times /\ b \in Times)
          /\ fileId' \in [Cameras -> 0..lastId'] /\ RowsTyped'
    <2>1. CASE SetupFails(c)
      <3>1. /\ lastName' = [lastName EXCEPT ![c] = None] /\ begun' = [begun EXCEPT ![c] = None]
            /\ fileId' = [fileId EXCEPT ![c] = 0] /\ Goes(c, place[c], "off") /\ UNCHANGED videos
        BY <2>1 DEF SetupFails, Gone
      <3>2. fileId' \in [Cameras -> 0..lastId'] /\ RowsTyped'
        BY <1>1, <1>2, <3>1 DEF CamerasTyped, RowsTyped
      <3> QED  BY <3>1, <3>2
    <2>2. CASE End(c)
      <3>1. /\ lastName' = [lastName EXCEPT ![c] = None] /\ begun' = [begun EXCEPT ![c] = None]
            /\ fileId' = [fileId EXCEPT ![c] = 0] /\ Goes(c, place[c], "off")
            /\ \E t \in Times : SetEnd(fileId[c], t)
        BY <2>2 DEF End, Gone
      <3>2. fileId' \in [Cameras -> 0..lastId']
        BY <1>1, <1>2, <3>1 DEF CamerasTyped
      <3>3. RowsTyped'
        BY <1>1, <3>1, SetEndTyped
      <3> QED  BY <3>1, <3>2, <3>3
    <2>3. CASE CutExtend(c)
      <3>1. begun[c] \in Times /\ lastName[c] \in Times
        BY <2>3 DEF CutExtend, Named
      <3>2. PICK t \in (begun[c] + 1)..MaxTime :
              SetEnd(fileId[c], t) /\ begun' = [begun EXCEPT ![c] = t]
        BY <2>3 DEF CutExtend
      <3>3. t \in Times
        BY <3>1 DEF Times
      <3>4. UNCHANGED <<fileId, lastName>> /\ Goes(c, place[c], "extend")
        BY <2>3 DEF CutExtend
      <3>5. fileId' \in [Cameras -> 0..lastId'] /\ lastName' = [lastName EXCEPT ![c] = lastName[c]]
        BY <1>1, <3>4 DEF CamerasTyped
      <3>6. RowsTyped'
        BY <1>1, <3>2, <3>3, SetEndTyped
      <3> QED  BY <3>1, <3>2, <3>3, <3>4, <3>5, <3>6
    <2>4. CASE CloseOld(c)
      <3>1. begun[c] \in Times /\ lastName[c] \in Times
        BY <2>4 DEF CloseOld, Named
      <3>2. /\ SetEnd(OldRow(c), begun[c]) /\ UNCHANGED <<fileId, lastName, begun>>
            /\ Goes(c, place[c], "record")
        BY <2>4 DEF CloseOld
      <3>3. /\ fileId' \in [Cameras -> 0..lastId'] /\ lastName' = [lastName EXCEPT ![c] = lastName[c]]
            /\ begun' = [begun EXCEPT ![c] = begun[c]]
        BY <1>1, <3>2 DEF CamerasTyped
      <3>4. RowsTyped'
        BY <1>1, <3>1, <3>2, SetEndTyped
      <3> QED  BY <3>1, <3>2, <3>3, <3>4
    <2> QED  BY <2>1, <2>2, <2>3, <2>4
  <1>4. FilesTyped' /\ stale' \in BOOLEAN
    BY <1>1 DEF FilesTyped, PassTyped
  <1>5. CamerasTyped' /\ Named'
    <2>1. \E o \in Times \cup {None} : output' = [output EXCEPT ![c] = o]
      <3>1. output' = [output EXCEPT ![c] = output[c]] \/ output' = [output EXCEPT ![c] = None]
        BY <1>1 DEF CamerasTyped
      <3>2. output[c] \in Times \cup {None}
        BY DEF CamerasTyped
      <3> QED  BY <3>1, <3>2
    <2>2. PICK n, b \in Times \cup {None}, p \in {"off", "record", "extend"} :
            /\ lastName' = [lastName EXCEPT ![c] = n] /\ begun' = [begun EXCEPT ![c] = b]
            /\ Goes(c, place[c], p) /\ (p # "off" => n \in Times /\ b \in Times)
            /\ fileId' \in [Cameras -> 0..lastId']
      BY <1>3
    <2>3. /\ loose' = loose \/ loose' = [loose EXCEPT ![c] = 0]
          /\ oldId' = oldId \/ oldId' = [oldId EXCEPT ![c] = 0]
      BY <1>1
    <2> HIDE DEF TInv, Goes
    <2> QED  BY <1>2, <2>1, <2>2, <2>3, CameraTyped
  <1> QED  BY <1>1, <1>2, <1>3, <1>4, <1>5, OthersTyped

\* A pass: the file that goes, its directory with it if it is the last one there.
LEMMA UnlinkTyped ==
  ASSUME FilesTyped, loose \in [Cameras -> Nat], NEW f, Unlink(f)
  PROVE  FilesTyped' /\ loose' \in [Cameras -> Nat]
  <1>1. CASE f \in DOMAIN files /\ f[1] \notin Elsewhere
    <2>1. DOMAIN files' = DOMAIN files \ {f} /\ \A g \in DOMAIN files' : files'[g] = files[g]
      BY <1>1 DEF Unlink, Restrict
    <2>2. loose' = loose \/ loose' = [loose EXCEPT ![f[1]] = files[f]]
      BY <1>1 DEF Unlink
    <2>3. loose' \in [Cameras -> Nat]
      BY <1>1, <2>2 DEF FilesTyped
    <2>4. \A g \in DOMAIN files' : Dir(g) \in dirs'
      <3>1. \A g \in DOMAIN files' : Stays(Dir(g), f) /\ Dir(g) \in dirs
        BY <2>1 DEF Stays, FilesTyped
      <3> QED  BY <3>1 DEF Unlink
    <2>5. dirs' \subseteq dirs
      BY DEF Unlink
    <2> QED  BY <2>1, <2>3, <2>4, <2>5 DEF FilesTyped
  <1>2. CASE ~(f \in DOMAIN files /\ f[1] \notin Elsewhere)
    <2>1. UNCHANGED <<files, loose>>
      BY <1>2 DEF Unlink
    <2>2. \A g \in DOMAIN files : Dir(g) \in dirs'
      <3>1. \A g \in DOMAIN files : Stays(Dir(g), f) /\ Dir(g) \in dirs
        BY <2>1 DEF Stays, FilesTyped
      <3> QED  BY <3>1 DEF Unlink
    <2>3. dirs' \subseteq dirs
      BY DEF Unlink
    <2> QED  BY <2>1, <2>2, <2>3 DEF FilesTyped
  <1> QED  BY <1>1, <1>2

\* Rows that go, and rows that a new instance looks at.
LEMMA FewerTyped ==
  ASSUME TInv, videos' \subseteq videos, UNCHANGED <<lastId, cameraVars>>,
         broken' \subseteq broken, FilesTyped', loose' \in [Cameras -> Nat], PassTyped'
  PROVE  TInv'
  <1> USE DEF TInv
  <1>1. RowsTyped'
    BY DEF RowsTyped
  <1>2. BrokenTyped'
    BY DEF BrokenTyped
  <1>3. CamerasTyped' /\ Named'
    BY DEF CamerasTyped, Named
  <1> QED  BY <1>1, <1>2, <1>3

LEMMA CleanTyped ==
  ASSUME IInv, TInv, RmSegment \/ DeleteRows \/ PassEnds
  PROVE  TInv'
  <1> USE DEF TInv
  <1>1. /\ videos' \subseteq videos /\ UNCHANGED <<lastId, cameraVars, broken>>
    BY DEF RmSegment, DeleteRows, PassEnds
  <1>2. FilesTyped' /\ loose' \in [Cameras -> Nat]
    <2>1. CASE RmSegment
      <3>1. (\E x \in batch : Unlink(x.file)) \/ UNCHANGED fileVars
        BY <2>1 DEF RmSegment
      <3>2. loose \in [Cameras -> Nat]
        BY DEF CamerasTyped
      <3> QED  BY <3>1, <3>2, UnlinkTyped DEF FilesTyped
    <2>2. CASE UNCHANGED fileVars
      BY <2>2 DEF FilesTyped, CamerasTyped
    <2> QED  BY <2>1, <2>2 DEF DeleteRows, PassEnds
  <1>3. PassTyped'
    <2>1. CASE RmSegment
      <3>1. \A x : <<x>> # << >>
        OBVIOUS
      <3> QED  BY <2>1, <3>1 DEF RmSegment, PassTyped
    <2>2. CASE DeleteRows
      BY <2>2 DEF DeleteRows, PassTyped
    <2>3. CASE PassEnds
      BY <2>3 DEF PassEnds, PassTyped, Cleaners
    <2> QED  BY <2>1, <2>2, <2>3
  <1> HIDE DEF TInv
  <1> QED  BY <1>1, <1>2, <1>3, FewerTyped

LEMMA CleanDiskTyped ==
  ASSUME TInv, MainCleans \/ ExporterCleans \/ Reserve
  PROVE  TInv'
  <1> USE DEF TInv
  <1>1. UNCHANGED <<videos, lastId, cameraVars, broken, fileVars, main, stale>>
    BY DEF MainCleans, ExporterCleans, Reserve
  <1>2. PassTyped'
    <2>1. CASE Reserve
      <3>1. UNCHANGED <<main, cleaner, cleaning, target, batch, victim, count, stale>>
        BY <2>1 DEF Reserve
      <3>2. reserved' \in Nat
        BY <2>1, FileManagerAssumption DEF Reserve, PassTyped
      <3>3. exporter' \in {"idle", "clean"} /\ exporter = "idle"
        BY <2>1 DEF Reserve
      <3> QED  BY <3>1, <3>2, <3>3 DEF PassTyped
    <2>2. ASSUME NEW w \in Cleaners, CleanDisk(w)
          PROVE  /\ cleaner = "none" /\ cleaner' \in {w, "none"} /\ reserved' = 0
                 /\ UNCHANGED victim /\ cleaning' # "row" /\ victim = << >>
                 /\ cleaner' = "none" => UNCHANGED <<target, batch, count>>
      BY <2>2 DEF CleanDisk, PassTyped, Cleaners
    <2>3. CASE MainCleans
      BY <1>1, <2>2, <2>3 DEF MainCleans, PassTyped, Cleaners
    <2>4. CASE ExporterCleans
      BY <1>1, <2>2, <2>4 DEF ExporterCleans, PassTyped, Cleaners
    <2> QED  BY <2>1, <2>3, <2>4
  <1>3. FilesTyped' /\ loose' \in [Cameras -> Nat]
    BY <1>1 DEF FilesTyped, CamerasTyped
  <1> HIDE DEF TInv
  <1> QED  BY <1>1, <1>2, <1>3, FewerTyped

\* The main thread.
LEMMA MainTyped ==
  ASSUME IInv, TInv, SelectBroken \/ DeleteBroken \/ Launched \/ Reload
  PROVE  TInv'
  <1> USE DEF TInv
  <1>1. /\ videos' \subseteq videos
        /\ UNCHANGED <<lastId, cameraVars, fileVars, runVars, exportVars, stale>>
        /\ main' \in {"boot", "broken", "loop"}
    BY DEF SelectBroken, DeleteBroken, Launched, Reload, PassTyped
  <1>2. FilesTyped' /\ loose' \in [Cameras -> Nat] /\ PassTyped'
    BY <1>1 DEF FilesTyped, CamerasTyped, PassTyped
  <1>3. CASE broken' \subseteq broken
    <2> HIDE DEF TInv
    <2> QED  BY <1>1, <1>2, <1>3, FewerTyped
  <1>4. CASE SelectBroken /\ broken' \subseteq videos
    <2>1. broken' \subseteq [id : 1..lastId, camera : Cameras, name : Times, start : Times,
                             end : Times \cup {None}, locked : BOOLEAN]
      <3> SUFFICES ASSUME NEW r \in broken'
                   PROVE  r \in [id : 1..lastId, camera : Cameras, name : Times, start : Times,
                                 end : Times \cup {None}, locked : BOOLEAN]
        OBVIOUS
      <3>1. r \in videos /\ r \in Rows
        BY <1>4 DEF IInv, TypesOK
      <3> QED  BY <3>1 DEF RowsTyped, Rows
    <2>2. BrokenTyped'
      BY <1>1, <2>1 DEF BrokenTyped
    <2>3. CamerasTyped' /\ Named' /\ RowsTyped'
      BY <1>1 DEF CamerasTyped, Named, RowsTyped
    <2> QED  BY <1>2, <2>2, <2>3
  <1>5. broken' \subseteq broken \/ (SelectBroken /\ broken' \subseteq videos)
    BY DEF SelectBroken, DeleteBroken, Launched, Reload
  <1> QED  BY <1>3, <1>4, <1>5

LEMMA CrashTyped == TInv /\ Crash => TInv'
  <1> SUFFICES ASSUME TInv, Crash PROVE TInv'
    OBVIOUS
  <1> USE DEF TInv
  <1>1. RowsTyped' /\ BrokenTyped' /\ FilesTyped'
    BY DEF Crash, RowsTyped, BrokenTyped, FilesTyped
  <1>2. CamerasTyped' /\ Named'
    <2>1. 0 \in 0..lastId
      BY DEF BrokenTyped
    <2> QED  BY <2>1 DEF Crash, CamerasTyped, Named
  <1>3. PassTyped'
    BY DEF Crash, PassTyped
  <1> QED  BY <1>1, <1>2, <1>3

LEMMA LockTypes ==
  ASSUME IInv, TInv, NEW c \in Cameras, Lock(c)
  PROVE  TInv'
  <1> USE DEF TInv
  <1>1. /\ UNCHANGED <<lastId, fileVars, cameraVars, main, broken, cleaner, cleaning, target, batch,
                       victim, count, exportVars, stale>>
    BY DEF Lock
  <1>2. RowsTyped'
    BY LockTyped DEF IInv
  <1>3. BrokenTyped' /\ FilesTyped' /\ PassTyped'
    BY <1>1 DEF BrokenTyped, FilesTyped, PassTyped
  <1>4. CamerasTyped' /\ Named'
    BY <1>1 DEF CamerasTyped, Named
  <1> QED  BY <1>2, <1>3, <1>4

LEMMA InitTyped == Init => TInv
  <1> SUFFICES ASSUME Init PROVE TInv
    OBVIOUS
  <1>1. RowsTyped /\ FilesTyped
    BY DEF Init, RowsTyped, FilesTyped
  <1>2. BrokenTyped
    BY FileManagerAssumption DEF Init, BrokenTyped
  <1>3. CamerasTyped /\ Named
    BY DEF Init, CamerasTyped, Named
  <1>4. PassTyped
    BY DEF Init, PassTyped
  <1> QED  BY <1>1, <1>2, <1>3, <1>4 DEF TInv

LEMMA NextTyped == IInv /\ TInv /\ [Next]_vars => TInv'
  <1> SUFFICES ASSUME IInv, TInv, [Next]_vars PROVE TInv'
    OBVIOUS
  <1>1. CASE UNCHANGED vars
    BY <1>1 DEF vars, TInv, RowsTyped, BrokenTyped, FilesTyped, CamerasTyped, PassTyped, Named
  <1>2. ASSUME NEW c \in Cameras, Camera(c) \/ Lock(c)
        PROVE  TInv'
    BY <1>2, BeginTyped, OpenTyped, GrowTyped, EndsTyped, LockTypes DEF Camera, IInv
  <1>3. CASE Cleaning \/ Exporting
    BY <1>3, CleanTyped, CleanDiskTyped DEF Cleaning, Exporting
  <1>4. CASE Main
    BY <1>4, MainTyped, CrashTyped DEF Main
  <1> QED  BY <1>1, <1>2, <1>3, <1>4 DEF Next

\* Every variable keeps its type, each file on disk has its directory, and no pass leaves
\* anything behind when it has returned the mutex.
THEOREM TypeCorrect == Spec => []TypeOK
  <1>1. Init => TInv
    BY InitTyped
  <1>2. IInv /\ TInv /\ [Next]_vars => TInv'
    BY NextTyped
  <1>3. TInv => TypeOK
    BY TypesByParts
  <1> QED  BY <1>1, <1>2, <1>3, Invariant, PTL DEF Spec

-----------------------------------------------------------------------------
(* Whose the rows are. *)

Ids == \A r, s \in videos : r.id = s.id => r = s

\* file_id is the row of its camera and, but while the next one is added to the same file,
\* one without an end; so is the row before while its end has still to be written.
Cuts(c) == place[c] \in {"reopen", "cut"}
Owned ==
  \A c \in Cameras, r \in videos :
    /\ r.id = fileId[c] => r.camera = c /\ (place[c] # "extend" => r.end = None)
    /\ (Cuts(c) /\ r.id = oldId[c]) => r.camera = c /\ r.end = None /\ oldId[c] # fileId[c]

WInv == faults \in Nat /\ Ids /\ (~stale => Owned)

Alike(s, r) == s.id = r.id /\ s.camera = r.camera /\ s.name = r.name /\ s.start = r.start

LEMMA SetEndAlike ==
  ASSUME TypesOK, Ids, faults \in Nat, NEW id, NEW t \in Times \cup {None}, SetEnd(id, t)
  PROVE  /\ Ids' /\ faults' \in Nat
         /\ \A s \in videos' : \E r \in videos :
              Alike(s, r) /\ s.end = IF r.id = id /\ faults' = faults THEN t ELSE r.end
         /\ \A r \in videos : \E s \in videos' : Alike(s, r)
  <1>1. CASE UNCHANGED videos /\ Fails
    <2>1. faults' = faults + 1
      BY <1>1 DEF Fails
    <2> QED  BY <1>1, <2>1 DEF Ids, Alike
  <1>2. CASE Ok /\ videos' = {IF r.id = id THEN [r EXCEPT !.end = t] ELSE r : r \in videos}
    <2>1. \A r \in Rows : /\ Alike([r EXCEPT !.end = t], r) /\ Alike(r, r)
                          /\ [r EXCEPT !.end = t].end = t
      BY DEF Rows, Alike
    <2>2. videos \subseteq Rows
      BY DEF TypesOK
    <2>3. \A r \in videos : Alike(IF r.id = id THEN [r EXCEPT !.end = t] ELSE r, r)
      BY <2>1, <2>2
    <2>4. \A r \in videos : \E s \in videos' : Alike(s, r)
      BY <1>2, <2>3
    <2>5. ASSUME NEW s \in videos'
          PROVE  \E r \in videos : /\ Alike(s, r) /\ s = IF r.id = id THEN [r EXCEPT !.end = t] ELSE r
                                   /\ s.end = IF r.id = id THEN t ELSE r.end
      BY <1>2, <2>1, <2>2
    <2>6. Ids'
      <3> SUFFICES ASSUME NEW p \in videos', NEW q \in videos', p.id = q.id PROVE p = q
        BY DEF Ids
      <3>1. PICK r \in videos : Alike(p, r) /\ p = IF r.id = id THEN [r EXCEPT !.end = t] ELSE r
        BY <2>5
      <3>2. PICK s \in videos : Alike(q, s) /\ q = IF s.id = id THEN [s EXCEPT !.end = t] ELSE s
        BY <2>5
      <3>3. r = s
        BY <3>1, <3>2 DEF Ids, Alike
      <3> QED  BY <3>1, <3>2, <3>3
    <2> QED  BY <1>2, <2>4, <2>5, <2>6
  <1> QED  BY <1>1, <1>2 DEF SetEnd

LEMMA LockAlike ==
  ASSUME TypesOK, Ids, NEW c \in Cameras, Lock(c)
  PROVE  /\ Ids'
         /\ \A s \in videos' : \E r \in videos : Alike(s, r) /\ s.end = r.end
         /\ \A r \in videos : \E s \in videos' : Alike(s, r)
  <1>1. PICK hit \in SUBSET videos, lock \in BOOLEAN :
          videos' = (videos \ hit) \cup {[r EXCEPT !.locked = lock] : r \in hit}
    BY LockStep
  <1>2. \A r \in Rows : /\ Alike([r EXCEPT !.locked = lock], r) /\ Alike(r, r)
                        /\ [r EXCEPT !.locked = lock].end = r.end
    BY DEF Rows, Alike
  <1>3. videos \subseteq Rows
    BY DEF TypesOK
  <1>4. \A r \in videos : \E s \in videos' : Alike(s, r)
    <2> TAKE r \in videos
    <2>1. CASE r \in hit
      BY <1>1, <1>2, <1>3, <2>1
    <2>2. CASE r \notin hit
      BY <1>1, <1>2, <1>3, <2>2
    <2> QED  BY <2>1, <2>2
  <1>5. ASSUME NEW s \in videos'
        PROVE  \E r \in videos : /\ Alike(s, r) /\ s.end = r.end
                                 /\ s = IF r \in hit THEN [r EXCEPT !.locked = lock] ELSE r
    BY <1>1, <1>2, <1>3
  <1>6. Ids'
    <2> SUFFICES ASSUME NEW p \in videos', NEW q \in videos', p.id = q.id PROVE p = q
      BY DEF Ids
    <2>1. PICK r \in videos : Alike(p, r) /\ p = IF r \in hit THEN [r EXCEPT !.locked = lock] ELSE r
      BY <1>5
    <2>2. PICK s \in videos : Alike(q, s) /\ q = IF s \in hit THEN [s EXCEPT !.locked = lock] ELSE s
      BY <1>5
    <2>3. r = s
      BY <2>1, <2>2 DEF Ids, Alike
    <2> QED  BY <2>1, <2>2, <2>3
  <1> QED  BY <1>4, <1>5, <1>6

\* get_next_path(): the new row, which file_id names, or none.
NewRow(c, t, extend) ==
  [id |-> lastId + 1, camera |-> c, name |-> Name(c, t, extend), start |-> t, end |-> None,
   locked |-> FALSE]

LEMMA NextPathAdds ==
  ASSUME TInv, WInv, NEW c \in Cameras, NEW t \in Times, NEW extend \in BOOLEAN,
         NextPath(c, t, extend)
  PROVE  /\ Ids' /\ faults' \in Nat /\ \A r \in videos : r.id \in 1..lastId
         /\ \/ /\ videos' = videos \cup {NewRow(c, t, extend)} /\ lastId' = lastId + 1 /\ faults' = faults
               /\ fileId' = [fileId EXCEPT ![c] = lastId + 1] /\ stale' = stale
            \/ UNCHANGED <<videos, lastId>> /\ stale' = TRUE /\ faults' # 0
  <1>0. lastId \in Nat /\ \A r \in videos : r.id \in 1..lastId
    BY DEF TInv, BrokenTyped, RowsTyped
  <1>1. CASE /\ videos' = videos \cup {NewRow(c, t, extend)} /\ lastId' = lastId + 1 /\ Ok
             /\ fileId' = [fileId EXCEPT ![c] = lastId + 1]
    <2>1. NewRow(c, t, extend).id = lastId + 1
      BY DEF NewRow
    <2>2. Ids'
      BY <1>0, <1>1, <2>1 DEF Ids, WInv
    <2>3. stale' = stale
      BY <1>1 DEF NextPath, TInv, PassTyped
    <2> QED  BY <1>0, <1>1, <2>2, <2>3 DEF WInv
  <1>2. CASE UNCHANGED <<videos, lastId>> /\ Fails
    <2>1. faults' = faults + 1 /\ faults \in Nat
      BY <1>2 DEF Fails, WInv
    <2>2. faults' # faults /\ faults' \in Nat /\ faults' # 0
      BY <2>1
    <2>3. stale' = TRUE
      BY <2>2 DEF NextPath
    <2> QED  BY <1>0, <1>2, <2>2, <2>3 DEF Ids, WInv
  <1> QED  BY <1>1, <1>2 DEF NextPath, NewRow

\* What a step of the camera c may do to the ends: write that of a row of its own that has
\* none, and go on to another place.
Wrote(c) ==
  \A s \in videos' : \E r \in videos :
    Alike(s, r) /\ (s.end # r.end => r.camera = c /\ r.end = None /\ place'[c] # place[c])

\* The variables that name rows, but those of the camera c, are left alone.
Other(c) == \A b \in Cameras \ {c} : /\ place'[b] = place[b] /\ fileId'[b] = fileId[b]
                                     /\ oldId'[b] = oldId[b]

\* The rows of the other cameras stay theirs.
LEMMA OthersOwn ==
  ASSUME Owned, NEW c \in Cameras, Wrote(c), Other(c), NEW b \in Cameras \ {c}
  PROVE  \A s \in videos' :
           /\ s.id = fileId'[b] => s.camera = b /\ (place'[b] # "extend" => s.end = None)
           /\ (Cuts(b)' /\ s.id = oldId'[b]) =>
                s.camera = b /\ s.end = None /\ oldId'[b] # fileId'[b]
  <1>1. place'[b] = place[b] /\ fileId'[b] = fileId[b] /\ oldId'[b] = oldId[b]
    BY DEF Other
  <1>2. Cuts(b)' <=> Cuts(b)
    BY <1>1 DEF Cuts
  <1> TAKE s \in videos'
  <1>3. PICK r \in videos : Alike(s, r) /\ (s.end # r.end => r.camera = c)
    BY DEF Wrote
  <1>4. /\ r.id = fileId[b] => r.camera = b /\ (place[b] # "extend" => r.end = None)
        /\ (Cuts(b) /\ r.id = oldId[b]) => r.camera = b /\ r.end = None /\ oldId[b] # fileId[b]
    BY DEF Owned
  <1> QED  BY <1>1, <1>2, <1>3, <1>4 DEF Alike

\* Steps of a camera that leave the table to the others, or write an end to it.
LEMMA OwnedKept ==
  ASSUME Owned, NEW c \in Cameras, Wrote(c), Other(c),
         \A s \in videos' :
           /\ s.id = fileId'[c] => s.camera = c /\ (place'[c] # "extend" => s.end = None)
           /\ (Cuts(c)' /\ s.id = oldId'[c]) => s.camera = c /\ s.end = None /\ oldId'[c] # fileId'[c]
  PROVE  Owned'
  BY OthersOwn DEF Owned, Cuts

LEMMA CameraRows ==
  ASSUME TInv, NEW c \in Cameras, Camera(c)
  PROVE  Other(c)
  <1> USE DEF TInv, CamerasTyped
  <1>1. CASE Begin(c) \/ CutNew(c) \/ ExtendRow(c)
    <2>1. /\ \E p : place' = [place EXCEPT ![c] = p]
          /\ oldId' = oldId \/ oldId' = [oldId EXCEPT ![c] = fileId[c]]
          /\ \E t, e : NextPath(c, t, e)
      BY <1>1 DEF Begin, CutNew, ExtendRow
    <2>2. \E i : fileId' = [fileId EXCEPT ![c] = i]
      BY <2>1 DEF NextPath
    <2> QED  BY <2>1, <2>2 DEF Other
  <1>2. CASE Open(c) \/ SetupFails(c) \/ Grow(c) \/ CutExtend(c) \/ ChangePath(c) \/ CloseOld(c) \/ End(c)
    <2>1. /\ place' = place \/ \E p : place' = [place EXCEPT ![c] = p]
          /\ oldId' = oldId \/ oldId' = [oldId EXCEPT ![c] = 0]
          /\ fileId' = fileId \/ fileId' = [fileId EXCEPT ![c] = 0]
      BY <1>2 DEF Open, SetupFails, Grow, CutExtend, ChangePath, CloseOld, End, Gone
    <2> QED  BY <2>1 DEF Other
  <1> QED  BY <1>1, <1>2 DEF Camera

\* A camera and the rows, as long as no query that inserts one fails.
LEMMA AddsOwn ==
  ASSUME IInv, TInv, WInv, ~stale, NEW c \in Cameras, Begin(c) \/ CutNew(c) \/ ExtendRow(c)
  PROVE  /\ WInv'
         /\ \A r \in videos : r \in videos' /\ r.id \in 1..lastId
         /\ \A s \in videos' : s \in videos \/ s.id \notin 1..lastId
  <1>1. PICK t \in Times, extend \in BOOLEAN : NextPath(c, t, extend)
    <2>1. CASE Begin(c) \/ CutNew(c)
      BY <2>1 DEF Begin, CutNew
    <2>2. CASE ExtendRow(c)
      <3>1. begun[c] \in Times
        BY <2>2 DEF ExtendRow, Named, TInv
      <3> QED  BY <2>2, <3>1 DEF ExtendRow
    <2> QED  BY <2>1, <2>2
  <1>2. /\ Ids' /\ faults' \in Nat /\ \A r \in videos : r.id \in 1..lastId
        /\ \/ /\ videos' = videos \cup {NewRow(c, t, extend)} /\ lastId' = lastId + 1
              /\ fileId' = [fileId EXCEPT ![c] = lastId + 1] /\ stale' = stale
           \/ UNCHANGED <<videos, lastId>> /\ stale' = TRUE
    BY <1>1, NextPathAdds
  <1>3. CASE stale' = TRUE /\ UNCHANGED videos
    BY <1>2, <1>3 DEF WInv
  <1>4. CASE /\ videos' = videos \cup {NewRow(c, t, extend)} /\ lastId' = lastId + 1
             /\ fileId' = [fileId EXCEPT ![c] = lastId + 1] /\ stale' = stale
    <2>1. /\ NewRow(c, t, extend).id = lastId + 1 /\ NewRow(c, t, extend).camera = c
          /\ NewRow(c, t, extend).end = None
      BY DEF NewRow
    <2> DEFINE row == NewRow(c, t, extend)
    <2> HIDE DEF row
    <2>2. lastId \in Nat /\ lastId + 1 \notin 0..lastId /\ fileId'[c] = lastId + 1
          /\ fileId \in [Cameras -> 0..lastId] /\ oldId \in [Cameras -> 0..lastId]
      BY <1>4 DEF TInv, BrokenTyped, CamerasTyped
    <2>3. Other(c)
      BY CameraRows DEF Camera
    <2>4. Cuts(c)' => /\ oldId'[c] = fileId[c] /\ place[c] = "record"
      <3>1. CASE CutNew(c)
        BY <3>1 DEF CutNew, TInv, CamerasTyped
      <3>2. CASE Begin(c) \/ ExtendRow(c)
        <4>1. place'[c] \in {"open", "record"}
          BY <3>2 DEF Begin, ExtendRow, TInv, CamerasTyped
        <4> QED  BY <4>1 DEF Cuts
      <3> QED  BY <3>1, <3>2
    <2>5. Owned /\ fileId[c] \in 0..lastId
      BY <2>2 DEF WInv
    <2>6. ASSUME NEW s \in videos', NEW b \in Cameras
          PROVE  /\ s.id = fileId'[b] => s.camera = b /\ (place'[b] # "extend" => s.end = None)
                 /\ (Cuts(b)' /\ s.id = oldId'[b]) =>
                      s.camera = b /\ s.end = None /\ oldId'[b] # fileId'[b]
      <3>1. CASE s \in videos /\ b = c
        <4>1. s.id \in 1..lastId
          BY <1>2, <3>1
        <4>2. s.id # fileId'[c]
          BY <2>2, <4>1
        <4>3. ASSUME Cuts(c)', s.id = oldId'[c]
              PROVE  s.camera = c /\ s.end = None /\ oldId'[c] # fileId'[c]
          BY <2>2, <2>4, <2>5, <3>1, <4>3 DEF Owned
        <4> QED  BY <3>1, <4>2, <4>3
      <3>2. CASE s \in videos /\ b # c
        BY <2>3, <2>5, <3>2 DEF Other, Owned, Cuts
      <3>3. CASE s = row
        <4>1. s.id = lastId + 1 /\ s.camera = c /\ s.end = None
          BY <2>1, <3>3 DEF row
        <4>2. CASE b = c
          <5>1. Cuts(c)' => oldId'[c] # lastId + 1
            BY <2>2, <2>4, <2>5
          <5> QED  BY <4>1, <4>2, <5>1
        <4>3. CASE b # c
          <5>1. fileId'[b] # lastId + 1 /\ oldId'[b] # lastId + 1
            BY <2>2, <2>3, <4>3 DEF Other
          <5> QED  BY <4>1, <5>1
        <4> QED  BY <4>2, <4>3
      <3> QED  BY <1>4, <3>1, <3>2, <3>3 DEF row
    <2>7. Owned'
      BY <2>6 DEF Owned, Cuts
    <2>8. row.id \notin 1..lastId
      BY <2>1, <2>2 DEF row
    <2> QED  BY <1>2, <1>4, <2>7, <2>8 DEF WInv, row
  <1> QED  BY <1>2, <1>3, <1>4

LEMMA QuietOwn ==
  ASSUME IInv, TInv, WInv, ~stale, NEW c \in Cameras,
         Open(c) \/ ChangePath(c) \/ SetupFails(c) \/ Grow(c)
  PROVE  WInv' /\ Wrote(c)
  <1>1. UNCHANGED <<videos, oldId, stale>>
    BY DEF Open, ChangePath, SetupFails, Grow
  <1>2. faults' \in Nat
    <2>1. faults' = faults \/ faults' = faults + 1
      BY DEF Open, ChangePath, SetupFails, Grow, Reopen, Fails
    <2> QED  BY <2>1 DEF WInv
  <1>3. Wrote(c) /\ Ids'
    BY <1>1 DEF Wrote, Alike, Ids, WInv
  <1>4. Other(c)
    BY CameraRows DEF Camera
  <1>5. Owned /\ \A r \in videos : r.id # 0
    BY DEF WInv, TInv, RowsTyped
  <1>6. ASSUME NEW s \in videos
        PROVE  /\ s.id = fileId'[c] => s.camera = c /\ (place'[c] # "extend" => s.end = None)
               /\ (Cuts(c)' /\ s.id = oldId'[c]) => s.camera = c /\ s.end = None /\ oldId'[c] # fileId'[c]
    <2>1. CASE Open(c) \/ Grow(c)
      <3>1. fileId' = fileId /\ place[c] # "extend" /\ place'[c] = "record"
        BY <2>1 DEF Open, Grow, TInv, CamerasTyped
      <3> QED  BY <1>5, <3>1 DEF Owned, Cuts
    <2>2. CASE ChangePath(c)
      <3>1. fileId' = fileId /\ place[c] = "reopen" /\ place'[c] = "cut"
        BY <2>2 DEF ChangePath, TInv, CamerasTyped
      <3> QED  BY <1>1, <1>5, <3>1 DEF Owned, Cuts
    <2>3. CASE SetupFails(c)
      <3>1. fileId'[c] = 0 /\ place'[c] = "off"
        BY <2>3 DEF SetupFails, Gone, TInv, CamerasTyped
      <3> QED  BY <1>5, <3>1 DEF Cuts
    <2> QED  BY <2>1, <2>2, <2>3
  <1>7. Owned'
    BY <1>1, <1>3, <1>4, <1>5, <1>6, OwnedKept
  <1> QED  BY <1>2, <1>3, <1>7 DEF WInv

LEMMA WritesOwn ==
  ASSUME IInv, TInv, WInv, ~stale, NEW c \in Cameras, CutExtend(c) \/ CloseOld(c) \/ End(c)
  PROVE  WInv' /\ Wrote(c)
  <1>1. /\ stale' = stale
        /\ \E p \in {"extend", "record", "off"} : place' = [place EXCEPT ![c] = p] /\ p # place[c]
    BY DEF CutExtend, CloseOld, End
  <1>2. \E id : /\ \E t \in Times \cup {None} : SetEnd(id, t)
                /\ \A r \in videos : r.id = id => /\ r.camera = c /\ r.end = None
                                                  /\ fileId'[c] # id \/ place'[c] = "extend"
                /\ fileId'[c] = 0 \/ (fileId' = fileId /\ (place'[c] = "extend" \/ place[c] # "extend"))
    <2>1. CASE CutExtend(c)
      <3>1. begun[c] \in Times
        BY <2>1 DEF CutExtend, TInv, Named
      <3>2. PICK t \in (begun[c] + 1)..MaxTime : SetEnd(fileId[c], t)
        BY <2>1 DEF CutExtend
      <3>3. t \in Times
        BY <3>1 DEF Times
      <3>4. \A r \in videos : r.id = fileId[c] => r.camera = c /\ r.end = None
        BY <2>1 DEF WInv, Owned, CutExtend
      <3>5. place'[c] = "extend" /\ fileId' = fileId
        BY <2>1 DEF CutExtend, TInv, CamerasTyped
      <3> QED  BY <3>2, <3>3, <3>4, <3>5
    <2>2. CASE CloseOld(c)
      <3>1. begun[c] \in Times \cup {None} /\ place[c] = "cut" /\ fileId' = fileId
        BY <2>2 DEF CloseOld, TInv, CamerasTyped
      <3>2. SetEnd(oldId[c], begun[c])
        BY <2>2 DEF CloseOld, OldRow
      <3>3. \A r \in videos : r.id = oldId[c] => r.camera = c /\ r.end = None /\ fileId[c] # oldId[c]
        BY <3>1 DEF WInv, Owned, Cuts
      <3> QED  BY <3>1, <3>2, <3>3
    <2>3. CASE End(c)
      <3>1. fileId'[c] = 0 /\ place[c] = "record" /\ \E t \in Times : SetEnd(fileId[c], t)
        BY <2>3 DEF End, Gone, TInv, CamerasTyped
      <3>2. \A r \in videos : r.id = fileId[c] => r.camera = c /\ r.end = None /\ r.id # 0
        BY <3>1 DEF WInv, Owned, TInv, RowsTyped
      <3> QED  BY <3>1, <3>2
    <2> QED  BY <2>1, <2>2, <2>3
  <1>3. PICK id : /\ \E t \in Times \cup {None} : SetEnd(id, t)
                  /\ \A r \in videos : r.id = id => /\ r.camera = c /\ r.end = None
                                                    /\ fileId'[c] # id \/ place'[c] = "extend"
                  /\ fileId'[c] = 0 \/ (fileId' = fileId /\ (place'[c] = "extend" \/ place[c] # "extend"))
    BY <1>2
  <1>4. /\ Ids' /\ faults' \in Nat
        /\ \A s \in videos' : \E r \in videos : Alike(s, r) /\ (r.id # id => s.end = r.end)
    BY <1>3, SetEndAlike DEF IInv, WInv
  <1>5. place'[c] # place[c] /\ ~Cuts(c)'
    BY <1>1 DEF TInv, CamerasTyped, Cuts
  <1>6. Wrote(c) /\ Other(c)
    BY <1>3, <1>4, <1>5, CameraRows DEF Wrote, Camera
  <1>7. Owned /\ \A r \in videos : r.id # 0
    BY DEF WInv, TInv, RowsTyped
  <1>8. ASSUME NEW s \in videos'
        PROVE  s.id = fileId'[c] => s.camera = c /\ (place'[c] # "extend" => s.end = None)
    <2>1. PICK r \in videos : Alike(s, r) /\ (r.id # id => s.end = r.end)
      BY <1>4
    <2>2. r.id = fileId[c] => r.camera = c /\ (place[c] # "extend" => r.end = None)
      BY <1>7 DEF Owned
    <2> QED  BY <1>3, <1>7, <2>1, <2>2 DEF Alike
  <1>9. Owned'
    BY <1>5, <1>6, <1>7, <1>8, OwnedKept
  <1> QED  BY <1>4, <1>6, <1>9 DEF WInv

\* Everything but cameras: rows that go, or that only change their lock.
LEMMA FewerOwn ==
  ASSUME WInv, faults' \in Nat, Ids', ~stale' => ~stale, UNCHANGED <<place, fileId, oldId>>,
         \A s \in videos' : \E r \in videos : Alike(s, r) /\ s.end = r.end
  PROVE  WInv'
  <1>1. ASSUME Owned, NEW b \in Cameras, NEW s \in videos'
        PROVE  /\ s.id = fileId[b] => s.camera = b /\ (place[b] # "extend" => s.end = None)
               /\ (Cuts(b) /\ s.id = oldId[b]) => s.camera = b /\ s.end = None /\ oldId[b] # fileId[b]
    BY <1>1 DEF Alike, Owned
  <1>2. Owned => Owned'
    BY <1>1 DEF Owned, Cuts
  <1> QED  BY <1>2 DEF WInv

LEMMA CrashOwn == TInv /\ WInv /\ Crash => WInv'
  <1> SUFFICES ASSUME TInv, WInv, Crash PROVE WInv'
    OBVIOUS
  <1>1. UNCHANGED videos /\ \A b \in Cameras : place'[b] = "off" /\ fileId'[b] = 0
    BY DEF Crash
  <1>2. \A r \in videos : r.id # 0
    BY DEF TInv, RowsTyped
  <1>3. Owned'
    BY <1>1, <1>2 DEF Owned, Cuts
  <1>4. faults' = faults
    BY DEF Crash
  <1> QED  BY <1>1, <1>3, <1>4 DEF WInv, Ids

LEMMA RemovalOwn ==
  ASSUME WInv, Cleaning \/ Exporting \/ SelectBroken \/ DeleteBroken \/ Launched \/ Reload
  PROVE  WInv' /\ videos' \subseteq videos
  <1>1. videos' \subseteq videos /\ UNCHANGED <<place, fileId, oldId, stale>>
    BY DEF Cleaning, MainCleans, RmSegment, DeleteRows, PassEnds, Exporting, Reserve, ExporterCleans,
           SelectBroken, DeleteBroken, Launched, Reload
  <1>2. faults' = faults \/ faults' = faults + 1
    BY DEF Cleaning, MainCleans, RmSegment, DeleteRows, PassEnds, Exporting, Reserve, ExporterCleans,
           SelectBroken, DeleteBroken, Launched, Reload, CleanDisk, Fails
  <1>3. faults' \in Nat /\ Ids' /\ \A s \in videos' : \E r \in videos : Alike(s, r) /\ s.end = r.end
    BY <1>1, <1>2 DEF WInv, Ids, Alike
  <1> QED  BY <1>1, <1>3, FewerOwn

\* One step: the rows that stay, and who may have written their ends.
LEMMA StepOwn ==
  ASSUME IInv, TInv, WInv, [Next]_vars
  PROVE  /\ WInv'
         /\ \/ stale
            \/ \E c \in Cameras : Wrote(c)
            \/ \A s \in videos' : \/ \A r \in videos : r.id # s.id
                                  \/ \E r \in videos : Alike(s, r) /\ s.end = r.end
  <1>1. CASE UNCHANGED vars
    <2>1. UNCHANGED <<videos, place, fileId, oldId, stale, faults>>
      BY <1>1 DEF vars
    <2>2. Ids' /\ faults' \in Nat
      BY <2>1 DEF WInv, Ids
    <2>3. \A s \in videos' : \E r \in videos : Alike(s, r) /\ s.end = r.end
      BY <2>1 DEF Alike
    <2> QED  BY <2>1, <2>2, <2>3, FewerOwn
  <1>2. ASSUME NEW c \in Cameras, Camera(c), stale
        PROVE  WInv'
    <2>1. stale' = TRUE /\ faults' \in Nat /\ Ids'
      <3>1. CASE Begin(c) \/ CutNew(c) \/ ExtendRow(c)
        <4>1. PICK t \in Times, extend \in BOOLEAN : NextPath(c, t, extend)
          <5>1. CASE Begin(c) \/ CutNew(c)
            BY <5>1 DEF Begin, CutNew
          <5>2. CASE ExtendRow(c)
            <6>1. begun[c] \in Times
              BY <5>2 DEF ExtendRow, Named, TInv
            <6> QED  BY <5>2, <6>1 DEF ExtendRow
          <5> QED  BY <3>1, <5>1, <5>2
        <4>2. stale' = TRUE
          BY <1>2, <4>1 DEF NextPath
        <4> QED  BY <4>1, <4>2, NextPathAdds
      <3>2. CASE Open(c) \/ SetupFails(c) \/ Grow(c) \/ ChangePath(c)
        <4>1. UNCHANGED <<videos, stale>> /\ (faults' = faults \/ faults' = faults + 1)
          BY <3>2 DEF Open, SetupFails, Grow, ChangePath, Reopen, Fails
        <4> QED  BY <1>2, <4>1 DEF WInv, Ids, TInv, PassTyped
      <3>3. CASE CutExtend(c) \/ CloseOld(c) \/ End(c)
        <4>1. \E id, t \in Nat : t \in Times \cup {None} /\ SetEnd(id, t)
          <5>1. fileId[c] \in Nat /\ oldId[c] \in Nat /\ begun[c] \in Times \cup {None}
            BY DEF TInv, CamerasTyped, BrokenTyped
          <5>2. CASE CutExtend(c)
            <6>1. begun[c] \in Times
              BY <5>2 DEF CutExtend, TInv, Named
            <6>2. PICK t \in (begun[c] + 1)..MaxTime : SetEnd(fileId[c], t)
              BY <5>2 DEF CutExtend
            <6> QED  BY <5>1, <6>1, <6>2 DEF Times
          <5>3. CASE CloseOld(c)
            BY <5>1, <5>3 DEF CloseOld, OldRow, Times, None
          <5>4. CASE End(c)
            BY <5>1, <5>4 DEF End, Times
          <5> QED  BY <3>3, <5>2, <5>3, <5>4
        <4>2. stale' = stale
          BY <3>3 DEF CutExtend, CloseOld, End
        <4> QED  BY <1>2, <4>1, <4>2, SetEndAlike DEF WInv, IInv, TInv, PassTyped
      <3> QED  BY <1>2, <3>1, <3>2, <3>3 DEF Camera
    <2> QED  BY <2>1 DEF WInv
  <1>3. ASSUME NEW c \in Cameras, Camera(c), ~stale
        PROVE  /\ WInv'
               /\ \/ Wrote(c)
                  \/ \A s \in videos' : \/ \A r \in videos : r.id # s.id
                                        \/ \E r \in videos : Alike(s, r) /\ s.end = r.end
    <2>1. CASE Begin(c) \/ CutNew(c) \/ ExtendRow(c)
      <3>1. \A s \in videos' : s \in videos \/ \A r \in videos : r.id # s.id
        BY <1>3, <2>1, AddsOwn
      <3> QED  BY <1>3, <2>1, <3>1, AddsOwn DEF Alike
    <2>2. CASE Open(c) \/ ChangePath(c) \/ SetupFails(c) \/ Grow(c)
      BY <1>3, <2>2, QuietOwn
    <2>3. CASE CutExtend(c) \/ CloseOld(c) \/ End(c)
      BY <1>3, <2>3, WritesOwn
    <2> QED  BY <1>3, <2>1, <2>2, <2>3 DEF Camera
  <1>4. ASSUME NEW c \in Cameras, Lock(c)
        PROVE  WInv' /\ \A s \in videos' : \E r \in videos : Alike(s, r) /\ s.end = r.end
    <2>1. UNCHANGED <<place, fileId, oldId, stale, faults>>
      BY <1>4 DEF Lock
    <2>2. faults' \in Nat
      BY <2>1 DEF WInv
    <2> QED  BY <1>4, <2>1, <2>2, LockAlike, FewerOwn DEF IInv, WInv
  <1>5. CASE Cleaning \/ Exporting \/ SelectBroken \/ DeleteBroken \/ Launched \/ Reload
    BY <1>5, RemovalOwn DEF Alike
  <1>6. CASE Crash
    <2>1. UNCHANGED videos
      BY <1>6 DEF Crash
    <2> QED  BY <1>6, <2>1, CrashOwn DEF Alike
  <1> QED  BY <1>1, <1>2, <1>3, <1>4, <1>5, <1>6 DEF Next, Main

LEMMA InitOwn == Init => WInv
  <1> SUFFICES ASSUME Init PROVE WInv
    OBVIOUS
  <1> QED  BY DEF Init, WInv, Ids, Owned

\* The end of a segment is written once, by the camera that recorded it: cut_video() and the end
\* of run() write to a row of their own that has no end, unless a query that inserts failed.
THEOREM EndsAreWrittenOnce == Spec => EndsWrittenOnce
  <1> DEFINE Once == ~stale =>
        \A r \in videos, s \in videos' :
          (r.id = s.id /\ r.end # s.end) => r.end = None /\ place'[r.camera] # place[r.camera]
  <1>1. ASSUME IInv, TInv, WInv, [Next]_vars
        PROVE  Once
    <2> SUFFICES ASSUME ~stale, NEW r \in videos, NEW s \in videos', r.id = s.id, r.end # s.end
                 PROVE  r.end = None /\ place'[r.camera] # place[r.camera]
      OBVIOUS
    <2>1. \A q \in videos : Alike(s, q) => q = r
      BY <1>1 DEF WInv, Ids, Alike
    <2>2. PICK c \in Cameras : Wrote(c)
      BY <1>1, <2>1, StepOwn
    <2> QED  BY <2>1, <2>2 DEF Wrote
  <1>2. IInv /\ TInv /\ WInv /\ [Next]_vars => [Once]_vars
    BY <1>1
  <1>3. IInv /\ TInv /\ WInv /\ [Next]_vars => IInv' /\ TInv' /\ WInv'
    BY NextKeeps, NextTyped, StepOwn
  <1>4. Init => IInv /\ TInv /\ WInv
    BY InitIInv, InitTyped, InitOwn
  <1>5. EndsWrittenOnce <=> [][Once]_vars
    BY DEF EndsWrittenOnce
  <1> QED  BY <1>2, <1>3, <1>4, <1>5, PTL DEF Spec

-----------------------------------------------------------------------------
(* The rows of a file, as long as nothing has failed. *)

\* Cameras run in the loop of the main thread only.
Quiet == main # "loop" => \A c \in Cameras : place[c] = "off"

\* The rows that are being removed as broken, known by their file and start or by their id,
\* and the others, which tile their files, unless a crash has left some of the broken ones.
BrokenRows ==
  /\ broken # {} => main = "broken"
  /\ \A b \in broken, s \in videos : b.id = s.id <=> File(b) = File(s) /\ b.start = s.start
Kept == {r \in videos : \A b \in broken : b.id # r.id}
Tiled ==
  \A r, s \in Kept :
    (/\ File(r) = File(s) /\ File(r) \notin torn /\ r.id < s.id
     /\ \A q \in Kept : File(q) = File(r) => q.id \notin (r.id + 1)..(s.id - 1))
    => r.end = s.start
Increasing == \A r, s \in videos : (File(r) = File(s) /\ r.id < s.id) => r.start < s.start

\* What a camera writes is the last row of its file, whose end it knows when it adds the next
\* one; and so is the row of the file before, until it has its end.
Own(c) == <<c, lastName[c]>>
Last(r) == \A s \in videos : File(s) = File(r) => s.id <= r.id
LastIsOwn(c) == \A r \in RowsOf(Own(c)) : r.start <= begun[c] /\ (Last(r) => r.id = fileId[c])
OwnIsLast(c) == \A r \in videos : r.id = fileId[c] => File(r) = Own(c) /\ Last(r)
LastEnds(c) == \A r \in RowsOf(Own(c)) : r.start < begun[c] /\ (Last(r) => r.end = begun[c])
OldIsLast(c) ==
  \A r \in videos : r.id = oldId[c] => r.camera = c /\ r.name # lastName[c] /\ Last(r)
Records(c) ==
  /\ place[c] \in {"open", "record", "reopen", "cut"} => LastIsOwn(c)
  /\ place[c] # "off" => OwnIsLast(c)
  /\ place[c] = "extend" => LastEnds(c)
  /\ Cuts(c) => OldIsLast(c)

Chains == BrokenRows /\ Tiled /\ Increasing /\ \A c \in Cameras : Records(c)
SInv == Quiet /\ (faults = 0 => ~stale /\ Chains)

\* The table with other ends and locks.
Renewed ==
  /\ \A s \in videos' : \E r \in videos : Alike(s, r)
  /\ \A r \in videos : \E s \in videos' : Alike(s, r)

\* Only the end of the last row of a file may change.
LEMMA RenewedChain ==
  ASSUME TypesOK, BrokenRows, Tiled, Increasing, Renewed, UNCHANGED <<broken, main, torn>>,
         \A s \in videos' : \E r \in videos : Alike(s, r) /\ (s.end = r.end \/ Last(r))
  PROVE  BrokenRows' /\ Tiled' /\ Increasing'
  <1>1. BrokenRows'
    BY DEF BrokenRows, Renewed, Alike, File
  <1>2. Increasing'
    BY DEF Increasing, Renewed, Alike, File
  <1>3. ASSUME NEW s \in Kept', NEW r \in videos, Alike(s, r)
        PROVE  r \in Kept
    BY <1>3 DEF Kept, Alike
  <1>4. ASSUME NEW r \in Kept
        PROVE  \E s \in Kept' : Alike(s, r)
    BY DEF Kept, Renewed, Alike
  <1>5. Tiled'
    <2> SUFFICES ASSUME NEW p \in Kept', NEW q \in Kept', File(p) = File(q), File(p) \notin torn, p.id < q.id,
                        \A x \in Kept' : File(x) = File(p) => x.id \notin (p.id + 1)..(q.id - 1)
                 PROVE  p.end = q.start
      BY DEF Tiled, File
    <2>1. PICK r \in videos : Alike(p, r) /\ (p.end = r.end \/ Last(r))
      BY DEF Kept
    <2>2. PICK s \in videos : Alike(q, s)
      BY DEF Kept, Renewed
    <2>3. r \in Kept /\ s \in Kept /\ File(r) = File(s) /\ r.id = p.id /\ s.id = q.id
      BY <1>3, <2>1, <2>2 DEF Alike, File
    <2>4. ASSUME NEW x \in Kept, File(x) = File(r)
          PROVE  x.id \notin (r.id + 1)..(s.id - 1)
      <3>1. PICK y \in Kept' : Alike(y, x)
        BY <1>4
      <3>2. File(y) = File(p) /\ y.id = x.id
        BY <2>1, <2>4, <3>1 DEF Alike, File
      <3> QED  BY <2>3, <3>2
    <2>5. r.end = s.start
      <3>1. File(r) \notin torn
        BY <2>1 DEF Alike, File
      <3> QED  BY <2>3, <2>4, <3>1 DEF Tiled
    <2>6. p.end = r.end
      <3>1. ASSUME Last(r) PROVE FALSE
        <4>1. s.id <= r.id
          BY <2>2, <2>3, <3>1 DEF Last
        <4>2. r.id \in Nat /\ s.id \in Nat /\ r.id < s.id
          BY <2>2, <2>3 DEF TypesOK, Rows
        <4> QED  BY <4>1, <4>2
      <3> QED  BY <2>1, <3>1
    <2> QED  BY <2>2, <2>5, <2>6 DEF Alike
  <1> QED  BY <1>1, <1>2, <1>5

\* What a camera says of its rows, of a table with other ends and locks.
LEMMA RenewedRecords ==
  ASSUME Renewed, NEW c \in Cameras,
         lastName'[c] = lastName[c] /\ begun'[c] = begun[c]
  PROVE  /\ (LastIsOwn(c) /\ fileId'[c] = fileId[c]) => LastIsOwn(c)'
         /\ (OwnIsLast(c) /\ fileId'[c] = fileId[c]) => OwnIsLast(c)'
         /\ (OldIsLast(c) /\ oldId'[c] = oldId[c]) => OldIsLast(c)'
  <1>1. Own(c)' = Own(c)
    BY DEF Own
  <1>2. ASSUME NEW s \in videos', NEW r \in videos, Alike(s, r)
        PROVE  (Last(s)' <=> Last(r)) /\ (s \in RowsOf(Own(c))' <=> r \in RowsOf(Own(c)))
    <2>1. File(s) = File(r) /\ s.id = r.id
      BY <1>2 DEF Alike, File
    <2>2. Last(s)' <=> \A q \in videos' : File(q) = File(s) => q.id <= s.id
      BY DEF Last, File
    <2>3. Last(s)' <=> Last(r)
      BY <2>1, <2>2 DEF Renewed, Alike, File, Last
    <2> QED  BY <1>1, <2>1, <2>3 DEF RowsOf, File
  <1>3. (LastIsOwn(c) /\ fileId'[c] = fileId[c]) => LastIsOwn(c)'
    <2> SUFFICES ASSUME LastIsOwn(c), fileId'[c] = fileId[c], NEW s \in RowsOf(Own(c))'
                 PROVE  s.start <= begun'[c] /\ (Last(s)' => s.id = fileId'[c])
      BY DEF LastIsOwn
    <2>1. PICK r \in videos : Alike(s, r)
      BY DEF RowsOf, Renewed
    <2>2. s \in videos'
      BY DEF RowsOf
    <2> QED  BY <1>2, <2>1, <2>2 DEF LastIsOwn, Alike
  <1>4. (OwnIsLast(c) /\ fileId'[c] = fileId[c]) => OwnIsLast(c)'
    <2> SUFFICES ASSUME OwnIsLast(c), fileId'[c] = fileId[c], NEW s \in videos', s.id = fileId'[c]
                 PROVE  File(s) = Own(c)' /\ Last(s)'
      BY DEF OwnIsLast, File
    <2>1. PICK r \in videos : Alike(s, r)
      BY DEF Renewed
    <2> QED  BY <1>1, <1>2, <2>1 DEF OwnIsLast, Alike, File
  <1>5. (OldIsLast(c) /\ oldId'[c] = oldId[c]) => OldIsLast(c)'
    <2> SUFFICES ASSUME OldIsLast(c), oldId'[c] = oldId[c], NEW s \in videos', s.id = oldId'[c]
                 PROVE  s.camera = c /\ s.name # lastName'[c] /\ Last(s)'
      BY DEF OldIsLast
    <2>1. PICK r \in videos : Alike(s, r)
      BY DEF Renewed
    <2> QED  BY <1>2, <2>1 DEF OldIsLast, Alike
  <1> QED  BY <1>3, <1>4, <1>5

LEMMA RenewedEnds ==
  ASSUME Renewed, NEW c \in Cameras, lastName'[c] = lastName[c] /\ begun'[c] = begun[c],
         \A s \in videos' : \E r \in videos : Alike(s, r) /\ (r.camera = c => s.end = r.end),
         LastEnds(c)
  PROVE  LastEnds(c)'
  <1>1. Own(c)' = Own(c)
    BY DEF Own
  <1> SUFFICES ASSUME NEW s \in RowsOf(Own(c))'
               PROVE  s.start < begun'[c] /\ (Last(s)' => s.end = begun'[c])
    BY DEF LastEnds
  <1>2. s \in videos' /\ File(s) = Own(c)
    BY <1>1 DEF RowsOf, File
  <1>3. PICK r \in videos : Alike(s, r) /\ (r.camera = c => s.end = r.end)
    BY <1>2
  <1>4. File(r) = Own(c) /\ s.id = r.id /\ s.start = r.start /\ s.end = r.end
    BY <1>2, <1>3 DEF Alike, File, Own
  <1>5. r.start < begun[c] /\ (Last(r) => r.end = begun[c])
    BY <1>4 DEF LastEnds, RowsOf
  <1>6. Last(s)' => Last(r)
    <2>1. Last(s)' <=> \A q \in videos' : File(q) = File(s) => q.id <= s.id
      BY DEF Last, File
    <2> QED  BY <1>2, <1>4, <2>1 DEF Renewed, Alike, File, Last
  <1> QED  BY <1>4, <1>5, <1>6

\* A camera that a step leaves alone.
Still(b) == /\ place'[b] = place[b] /\ lastName'[b] = lastName[b] /\ begun'[b] = begun[b]
            /\ fileId'[b] = fileId[b] /\ oldId'[b] = oldId[b]

LEMMA StillRecords ==
  ASSUME Renewed, NEW b \in Cameras, Still(b), Records(b),
         \A s \in videos' : \E r \in videos : Alike(s, r) /\ (r.camera = b => s.end = r.end)
  PROVE  Records(b)'
  <1>1. /\ LastIsOwn(b) => LastIsOwn(b)'
        /\ OwnIsLast(b) => OwnIsLast(b)'
        /\ OldIsLast(b) => OldIsLast(b)'
        /\ LastEnds(b) => LastEnds(b)'
    BY RenewedRecords, RenewedEnds DEF Still
  <1>2. Cuts(b)' <=> Cuts(b)
    BY DEF Cuts, Still
  <1> QED  BY <1>1, <1>2 DEF Records, Still

\* A row that is added comes after all others of its file, which end where it starts.
Added(row) ==
  /\ videos' = videos \cup {row} /\ \A r \in videos : r.id \in Nat /\ r.id < row.id
  /\ row.id \in Nat /\ UNCHANGED <<broken, main, torn>>

LEMMA AddedChain ==
  ASSUME BrokenRows, Tiled, Increasing, NEW row, Added(row), main = "loop",
         \A r \in RowsOf(File(row)) : r.start < row.start /\ (Last(r) => r.end = row.start)
  PROVE  BrokenRows' /\ Tiled' /\ Increasing'
  <1>1. broken = {} /\ broken' = {} /\ Kept = videos /\ Kept' = videos'
    BY DEF BrokenRows, Added, Kept
  <1>2. Increasing'
    <2> SUFFICES ASSUME NEW r \in videos', NEW s \in videos', File(r) = File(s), r.id < s.id
                 PROVE  r.start < s.start
      BY DEF Increasing, File
    <2>1. r # row
      BY DEF Added
    <2>2. r \in videos
      BY <2>1 DEF Added
    <2>3. CASE s = row
      BY <2>2, <2>3 DEF RowsOf
    <2>4. CASE s \in videos
      BY <2>2, <2>4 DEF Increasing
    <2> QED  BY <2>3, <2>4 DEF Added
  <1>3. Tiled'
    <2> SUFFICES ASSUME NEW r \in videos', NEW s \in videos', File(r) = File(s),
                        File(r) \notin torn, r.id < s.id,
                        \A q \in videos' : File(q) = File(r) => q.id \notin (r.id + 1)..(s.id - 1)
                 PROVE  r.end = s.start
      BY <1>1 DEF Tiled, File, Added
    <2>1. r # row
      BY DEF Added
    <2>2. r \in videos
      BY <2>1 DEF Added
    <2>3. CASE s = row
      <3>1. ASSUME NEW q \in videos, File(q) = File(r)
            PROVE  q.id <= r.id
        <4>1. q \in videos' /\ q.id \in Nat /\ r.id \in Nat /\ row.id \in Nat /\ q.id < row.id
          BY <2>2 DEF Added
        <4>2. q.id \notin (r.id + 1)..(row.id - 1)
          BY <2>3, <3>1, <4>1
        <4> QED  BY <4>1, <4>2
      <3>2. Last(r)
        BY <3>1 DEF Last
      <3> QED  BY <2>2, <2>3, <3>2 DEF RowsOf
    <2>4. CASE s \in videos
      <3>1. \A q \in videos : File(q) = File(r) => q.id \notin (r.id + 1)..(s.id - 1)
        BY DEF Added
      <3> QED  BY <1>1, <2>2, <2>4, <3>1 DEF Tiled
    <2> QED  BY <2>3, <2>4 DEF Added
  <1> QED  BY <1>1, <1>2, <1>3 DEF BrokenRows

LEMMA AddedRecords ==
  ASSUME NEW row, Added(row), NEW b \in Cameras, Still(b), Records(b), row.camera # b,
         row.id # fileId[b], row.id # oldId[b]
  PROVE  Records(b)'
  <1>1. Own(b)' = Own(b) /\ File(row) # Own(b) /\ (Cuts(b)' <=> Cuts(b))
    BY DEF Own, File, Still, Cuts
  <1>2. RowsOf(Own(b))' = RowsOf(Own(b))
    BY <1>1 DEF RowsOf, Added, File
  <1>3. ASSUME NEW r \in videos, r.camera = b
        PROVE  Last(r)' <=> Last(r)
    <2>1. File(row) # File(r)
      BY <1>3 DEF File
    <2> QED  BY <2>1 DEF Last, Added, File
  <1>4. \A r \in RowsOf(Own(b)) : r \in videos /\ r.camera = b
    BY DEF RowsOf, Own, File
  <1>5. LastIsOwn(b) => LastIsOwn(b)'
    BY <1>2, <1>3, <1>4 DEF LastIsOwn, Still
  <1>6. LastEnds(b) => LastEnds(b)'
    BY <1>2, <1>3, <1>4 DEF LastEnds, Still
  <1>7. OwnIsLast(b) => OwnIsLast(b)'
    <2> SUFFICES ASSUME OwnIsLast(b), NEW r \in videos', r.id = fileId'[b]
                 PROVE  File(r) = Own(b)' /\ Last(r)'
      BY DEF OwnIsLast, File
    <2>1. r \in videos /\ r.id = fileId[b]
      BY DEF Still, Added
    <2>2. File(r) = Own(b) /\ Last(r)
      BY <2>1 DEF OwnIsLast
    <2>3. r.camera = b
      BY <2>2 DEF File, Own
    <2> QED  BY <1>1, <1>3, <2>1, <2>2, <2>3 DEF File
  <1>8. OldIsLast(b) => OldIsLast(b)'
    <2> SUFFICES ASSUME OldIsLast(b), NEW r \in videos', r.id = oldId'[b]
                 PROVE  r.camera = b /\ r.name # lastName'[b] /\ Last(r)'
      BY DEF OldIsLast
    <2>1. r \in videos /\ r.id = oldId[b]
      BY DEF Still, Added
    <2> QED  BY <1>3, <2>1 DEF OldIsLast, Still
  <1> QED  BY <1>1, <1>5, <1>6, <1>7, <1>8 DEF Records, Still

\* All rows of some files go.
FilesGo ==
  /\ videos' \subseteq videos
  /\ \A r, s \in videos : File(r) = File(s) => (r \in videos' <=> s \in videos')

LEMMA FilesGoKeep ==
  ASSUME Chains, FilesGo, UNCHANGED <<cameraVars, broken, main, torn>>
  PROVE  Chains'
  <1> USE DEF Chains
  <1>1. BrokenRows'
    BY DEF BrokenRows, FilesGo, File
  <1>2. Increasing'
    BY DEF Increasing, FilesGo, File
  <1>3. Tiled'
    <2> SUFFICES ASSUME NEW r \in Kept', NEW s \in Kept', File(r) = File(s),
                        File(r) \notin torn, r.id < s.id,
                        \A q \in Kept' : File(q) = File(r) => q.id \notin (r.id + 1)..(s.id - 1)
                 PROVE  r.end = s.start
      BY DEF Tiled, File
    <2>1. r \in Kept /\ s \in Kept /\ r \in videos'
      BY DEF Kept, FilesGo
    <2>2. \A q \in Kept : File(q) = File(r) => q \in Kept'
      BY <2>1 DEF Kept, FilesGo
    <2> QED  BY <2>1, <2>2 DEF Tiled
  <1>4. ASSUME NEW c \in Cameras
        PROVE  Records(c)'
    <2>1. Own(c)' = Own(c) /\ (Cuts(c)' <=> Cuts(c))
      BY DEF Own, Cuts
    <2>2. RowsOf(Own(c))' \subseteq RowsOf(Own(c))
      BY <2>1 DEF RowsOf, FilesGo, File
    <2>3. \A r \in videos' : Last(r)' <=> Last(r)
      BY DEF Last, FilesGo, File
    <2>4. \A r \in RowsOf(Own(c))' : r \in videos'
      BY DEF RowsOf
    <2>5. LastIsOwn(c) => LastIsOwn(c)'
      BY <2>2, <2>3, <2>4 DEF LastIsOwn
    <2>6. OwnIsLast(c) => OwnIsLast(c)'
      BY <2>1, <2>3 DEF OwnIsLast, FilesGo, File
    <2>7. LastEnds(c) => LastEnds(c)'
      BY <2>2, <2>3, <2>4 DEF LastEnds
    <2>8. OldIsLast(c) => OldIsLast(c)'
      BY <2>3 DEF OldIsLast, FilesGo
    <2> QED  BY <2>1, <2>5, <2>6, <2>7, <2>8 DEF Records
  <1> QED  BY <1>1, <1>2, <1>3, <1>4

\* The rows that are selected as broken are the last ones of their files: what begins too late
\* is followed by what begins even later, and what has no good end by nothing.
LEMMA SelectChain ==
  ASSUME IInv, TInv, Ids, BrokenRows, Tiled, Increasing, main = "boot", main' = "broken",
         UNCHANGED <<videos, torn>>, NEW limit \in Times,
         broken' = {r \in videos : IsBroken(r, limit)}
  PROVE  BrokenRows' /\ Tiled' /\ Increasing'
  <1>1. /\ \A r \in videos : r.id \in Nat /\ r.start \in Times /\ r.end \in Times \cup {None}
    BY DEF TInv, RowsTyped
  <1>2. broken = {} /\ Kept = videos
    BY DEF BrokenRows, Kept
  <1>3. BrokenRows'
    <2>1. ASSUME NEW b \in videos, NEW s \in videos, File(b) = File(s), b.start = s.start
          PROVE  b.id = s.id
      <3>1. ~(b.id < s.id) /\ ~(s.id < b.id)
        BY <1>1, <2>1 DEF Increasing, Times
      <3> QED  BY <1>1, <3>1
    <2> QED  BY <2>1 DEF BrokenRows, Ids, File
  <1>4. Increasing'
    BY DEF Increasing, File
  <1>5. Kept' = {r \in videos : ~IsBroken(r, limit)}
    BY DEF Kept, Ids
  <1>6. Tiled'
    <2> SUFFICES ASSUME NEW r \in videos, ~IsBroken(r, limit), NEW s \in videos, ~IsBroken(s, limit),
                        File(r) = File(s), File(r) \notin torn, r.id < s.id,
                        \A q \in Kept' : File(q) = File(r) => q.id \notin (r.id + 1)..(s.id - 1)
                 PROVE  r.end = s.start
      BY <1>5 DEF Tiled, File
    <2>1. ASSUME NEW q \in videos, File(q) = File(r), q.id \in (r.id + 1)..(s.id - 1)
          PROVE  FALSE
      <3>1. IsBroken(q, limit)
        BY <1>5, <2>1
      <3>2. q.id \in Nat /\ s.id \in Nat /\ r.id \in Nat /\ q.id < s.id
        BY <1>1, <2>1
      <3> DEFINE Later == {x.id : x \in {y \in RowsOf(File(q)) : q.id < y.id}}
      <3>3. Later \subseteq Nat /\ s.id \in Later
        BY <1>1, <2>1, <3>2 DEF RowsOf
      <3>4. PICK n \in Later : \A i \in Later : n <= i
        <4> HIDE DEF Later
        <4> QED  BY <3>3, Numbers!LeastNumber
      <3>5. PICK x \in RowsOf(File(q)) : q.id < x.id /\ x.id = n
        BY <3>4
      <3>6. ASSUME NEW y \in videos, File(y) = File(q)
            PROVE  y.id \notin (q.id + 1)..(x.id - 1)
        <4>1. y.id \in Nat /\ x.id \in Nat
          BY <1>1, <3>5 DEF RowsOf
        <4>2. q.id < y.id => x.id <= y.id
          BY <3>4, <3>5, <3>6 DEF RowsOf
        <4> QED  BY <3>2, <4>1, <4>2
      <3>7. x \in videos /\ File(x) = File(q) /\ q.id < x.id
        BY <3>5 DEF RowsOf
      <3>8. q.end = x.start /\ q.start < x.start /\ q.start < s.start
        <4>1. q.end = x.start
          BY <1>2, <2>1, <3>6, <3>7 DEF Tiled
        <4>2. q.start < x.start /\ q.start < s.start
          BY <2>1, <3>2, <3>7 DEF Increasing
        <4> QED  BY <4>1, <4>2
      <3>9. limit < q.start
        BY <1>1, <3>1, <3>7, <3>8 DEF IsBroken, Times, None
      <3>10. limit < s.start
        BY <1>1, <3>8, <3>9 DEF Times
      <3> QED  BY <3>10 DEF IsBroken
    <2> QED  BY <1>2, <2>1 DEF Tiled
  <1> QED  BY <1>3, <1>4, <1>6

\* A broken row that goes takes none with it.
LEMMA DeleteChain ==
  ASSUME BrokenRows, Tiled, Increasing, NEW r \in broken, broken' = broken \ {r},
         UNCHANGED <<main, torn>>,
         videos' = {s \in videos : File(s) # File(r) \/ s.start # r.start}
  PROVE  BrokenRows' /\ Tiled' /\ Increasing'
  <1>1. videos' = {s \in videos : s.id # r.id}
    BY DEF BrokenRows
  <1>2. Kept' = Kept
    BY <1>1 DEF Kept
  <1>3. BrokenRows'
    BY <1>1 DEF BrokenRows, File
  <1>4. Increasing'
    BY <1>1 DEF Increasing, File
  <1>5. Tiled'
    BY <1>2 DEF Tiled, File
  <1> QED  BY <1>3, <1>4, <1>5

\* Between two instances no camera runs, and nothing is said of its rows.
LEMMA OffRecords ==
  ASSUME \A c \in Cameras : place'[c] = "off"
  PROVE  \A c \in Cameras : Records(c)'
  BY DEF Records, Cuts

\* A query that fails is remembered.
LEMMA FaultsGrow ==
  ASSUME WInv, [Next]_vars
  PROVE  faults' = faults \/ faults' = faults + 1
  <1>1. CASE UNCHANGED vars
    BY <1>1 DEF vars
  <1>2. ASSUME NEW c \in Cameras, Camera(c) \/ Lock(c)
        PROVE  faults' = faults \/ faults' = faults + 1
    <2>1. CASE Begin(c) \/ CutNew(c) \/ ExtendRow(c)
      BY <2>1 DEF Begin, CutNew, ExtendRow, NextPath, Fails
    <2>2. CASE Open(c) \/ ChangePath(c) \/ SetupFails(c) \/ Grow(c) \/ Lock(c)
      BY <2>2 DEF Open, ChangePath, SetupFails, Grow, Lock, Reopen, Fails
    <2>3. CASE CutExtend(c) \/ CloseOld(c) \/ End(c)
      BY <2>3 DEF CutExtend, CloseOld, End, SetEnd, Fails
    <2> QED  BY <1>2, <2>1, <2>2, <2>3 DEF Camera
  <1>3. CASE Cleaning \/ Exporting
    BY <1>3 DEF Cleaning, MainCleans, RmSegment, DeleteRows, PassEnds, Exporting, Reserve,
                ExporterCleans, CleanDisk, Fails
  <1>4. CASE Main
    BY <1>4 DEF Main, SelectBroken, DeleteBroken, Launched, Reload, Crash, Fails
  <1> QED  BY <1>1, <1>2, <1>3, <1>4 DEF Next

LEMMA QuietKept ==
  ASSUME TInv, Quiet, [Next]_vars
  PROVE  Quiet'
  <1>1. CASE UNCHANGED vars
    BY <1>1 DEF vars, Quiet
  <1>2. ASSUME NEW c \in Cameras, Camera(c)
        PROVE  Quiet'
    <2>1. main' = main
      BY <1>2 DEF Camera, Begin, Open, SetupFails, Grow, CutExtend, ExtendRow, CutNew, ChangePath,
                  CloseOld, End
    <2>2. main = "loop" \/ place[c] # "off"
      BY <1>2 DEF Camera, Begin, Open, SetupFails, Grow, CutExtend, ExtendRow, CutNew, ChangePath,
                  CloseOld, End
    <2> QED  BY <2>1, <2>2 DEF Quiet
  <1>3. CASE (\E c \in Cameras : Lock(c)) \/ Cleaning \/ Exporting
    BY <1>3 DEF Lock, Cleaning, MainCleans, RmSegment, DeleteRows, PassEnds, Exporting, Reserve,
                ExporterCleans, Quiet
  <1>4. CASE Main
    BY <1>4 DEF Main, SelectBroken, DeleteBroken, Launched, Reload, Crash, Quiet
  <1> QED  BY <1>1, <1>2, <1>3, <1>4 DEF Next

-----------------------------------------------------------------------------
(* The steps of a camera, when nothing fails. *)

\* A row that get_next_path() adds: to a file that has none, or after the one that has ended.
LEMMA AddsChain ==
  ASSUME IInv, TInv, WInv, ~stale, Quiet, Chains, faults' = 0, NEW c \in Cameras,
         Begin(c) \/ CutNew(c) \/ ExtendRow(c)
  PROVE  ~stale' /\ Chains'
  <1>1. PICK t \in Times, extend \in BOOLEAN :
          /\ NextPath(c, t, extend)
          /\ \/ Fresh(c, t) /\ extend = FALSE
             \/ ExtendRow(c) /\ t = begun[c] /\ extend = TRUE
    <2>1. CASE Begin(c) \/ CutNew(c)
      BY <2>1 DEF Begin, CutNew
    <2>2. CASE ExtendRow(c)
      <3>1. begun[c] \in Times
        BY <2>2 DEF ExtendRow, Named, TInv
      <3> QED  BY <2>2, <3>1 DEF ExtendRow
    <2> QED  BY <2>1, <2>2
  <1> DEFINE row == NewRow(c, t, extend)
             n == Name(c, t, extend)
  <1>2. /\ row.id = lastId + 1 /\ row.camera = c /\ row.name = n /\ row.start = t
        /\ File(row) = <<c, n>>
    BY DEF NewRow, File
  <1>3. /\ \A r \in videos : r.id \in 1..lastId
        /\ videos' = videos \cup {row} /\ fileId' = [fileId EXCEPT ![c] = lastId + 1] /\ stale' = stale
    BY <1>1, NextPathAdds
  <1>4. lastName' = [lastName EXCEPT ![c] = n] /\ begun' = [begun EXCEPT ![c] = t]
    BY <1>1 DEF NextPath
  <1>5. /\ UNCHANGED <<main, broken, torn>> /\ main = "loop"
        /\ \E p \in {"open", "reopen", "record"} : place' = [place EXCEPT ![c] = p]
    BY DEF Begin, CutNew, ExtendRow, Quiet
  <1> HIDE DEF row, n
  <1>6. lastId \in Nat /\ fileId \in [Cameras -> 0..lastId] /\ oldId \in [Cameras -> 0..lastId]
    BY DEF TInv, BrokenTyped, CamerasTyped
  <1>7. Added(row)
    BY <1>2, <1>3, <1>5, <1>6 DEF Added
  <1>8. \A r \in videos : r.camera = c /\ r.name = n =>
          r.start < t /\ (Last(r) => r.end = t)
    <2>1. CASE Fresh(c, t) /\ extend = FALSE
      BY <2>1 DEF Fresh, Name, n
    <2>2. CASE ExtendRow(c) /\ t = begun[c] /\ extend = TRUE
      <3>1. place[c] = "extend" /\ lastName[c] # None
        BY <2>2 DEF ExtendRow, TInv, Named, Times, None
      <3>2. n = lastName[c]
        BY <2>2, <3>1 DEF Name, n
      <3>3. LastEnds(c)
        BY <3>1 DEF Chains, Records
      <3> QED  BY <2>2, <3>2, <3>3 DEF LastEnds, RowsOf, Own, File
    <2> QED  BY <1>1, <2>1, <2>2
  <1>9. BrokenRows' /\ Tiled' /\ Increasing'
    <2>1. \A r \in RowsOf(File(row)) : r.start < row.start /\ (Last(r) => r.end = row.start)
      BY <1>2, <1>8 DEF RowsOf, File
    <2> QED  BY <1>5, <1>7, <2>1, AddedChain DEF Chains
  <1>10. ASSUME NEW b \in Cameras \ {c}
         PROVE  Records(b)'
    <2>1. oldId' = oldId \/ oldId' = [oldId EXCEPT ![c] = fileId[c]]
      BY DEF Begin, CutNew, ExtendRow
    <2>2. Still(b)
      BY <1>3, <1>4, <1>5, <2>1 DEF Still, TInv, CamerasTyped
    <2>3. row.id # fileId[b] /\ row.id # oldId[b] /\ row.camera # b
      BY <1>2, <1>6
    <2> QED  BY <1>7, <2>2, <2>3, AddedRecords DEF Chains
  <1>11. Records(c)'
    <2>1. /\ Own(c)' = File(row) /\ begun'[c] = t /\ fileId'[c] = row.id /\ lastName'[c] = n
          /\ place'[c] \in {"open", "reopen", "record"}
      BY <1>2, <1>3, <1>4, <1>5 DEF Own, TInv, CamerasTyped
    <2>2. \A r \in videos' : r.id <= row.id /\ (r.id = row.id => r = row)
      BY <1>7 DEF Added
    <2>3. ASSUME NEW r \in RowsOf(Own(c))'
          PROVE  r.start <= begun'[c] /\ (Last(r)' => r.id = fileId'[c])
      <3>1. r \in videos' /\ File(r) = File(row) /\ row \in videos'
        BY <1>3, <2>1 DEF RowsOf, File
      <3>2. Last(r)' => row.id <= r.id
        BY <3>1 DEF Last, File
      <3>3. Last(r)' => r = row
        <4>1. r.id \in Nat /\ row.id \in Nat
          BY <1>7, <3>1 DEF Added
        <4> QED  BY <2>2, <3>1, <3>2, <4>1
      <3>4. CASE r = row
        BY <1>2, <2>1, <3>4 DEF Times
      <3>5. CASE r \in videos
        <4>1. r.start < t
          BY <1>2, <1>8, <3>1, <3>5 DEF File
        <4>2. r.start \in Times
          BY <3>5 DEF TInv, RowsTyped
        <4> QED  BY <2>1, <3>3, <4>1, <4>2 DEF Times
      <3> QED  BY <1>3, <3>1, <3>4, <3>5
    <2>4. OwnIsLast(c)'
      <3>1. ASSUME NEW r \in videos', r.id = fileId'[c]
            PROVE  File(r) = Own(c)' /\ Last(r)'
        <4>1. r = row
          BY <2>1, <2>2, <3>1
        <4>2. Last(r)'
          BY <2>2, <4>1 DEF Last, File
        <4> QED  BY <2>1, <4>1, <4>2
      <3> QED  BY <3>1 DEF OwnIsLast, File
    <2>5. ASSUME Cuts(c)'
          PROVE  OldIsLast(c)'
      <3>1. CutNew(c)
        <4>1. place'[c] = "reopen"
          BY <2>1, <2>5 DEF Cuts
        <4> QED  BY <4>1 DEF Begin, ExtendRow, TInv, CamerasTyped
      <3>2. oldId'[c] = fileId[c] /\ place[c] = "record"
        BY <3>1 DEF CutNew, TInv, CamerasTyped
      <3>3. Fresh(c, t) /\ n = t
        <4>1. ~ExtendRow(c)
          BY <3>2 DEF ExtendRow
        <4> QED  BY <1>1, <4>1 DEF Name, n
      <3>4. OwnIsLast(c)
        BY <3>2 DEF Chains, Records
      <3>5. ASSUME NEW r \in videos', r.id = oldId'[c]
            PROVE  r.camera = c /\ r.name # lastName'[c] /\ Last(r)'
        <4>1. r \in videos
          BY <1>2, <1>3, <1>6, <3>2, <3>5
        <4>2. File(r) = Own(c) /\ Last(r)
          BY <3>2, <3>4, <3>5, <4>1 DEF OwnIsLast
        <4>3. r.camera = c
          BY <4>2 DEF File, Own
        <4>4. r.name # n
          BY <3>3, <4>1, <4>3 DEF Fresh
        <4>5. File(row) # File(r)
          BY <1>2, <4>4 DEF File
        <4>6. Last(r)'
          BY <1>3, <4>2, <4>5 DEF Last, File
        <4> QED  BY <2>1, <4>3, <4>4, <4>6
      <3> QED  BY <3>5 DEF OldIsLast
    <2> QED  BY <2>1, <2>3, <2>4, <2>5 DEF Records, LastIsOwn
  <1>12. \A b \in Cameras : Records(b)'
    BY <1>10, <1>11
  <1> QED  BY <1>3, <1>9, <1>12 DEF Chains

\* The steps that leave the table.
LEMMA QuietChain ==
  ASSUME TInv, Chains, NEW c \in Cameras, Open(c) \/ ChangePath(c) \/ SetupFails(c) \/ Grow(c)
  PROVE  Chains'
  <1>1. UNCHANGED <<videos, broken, main, torn>>
    BY DEF Open, ChangePath, SetupFails, Grow
  <1>2. BrokenRows' /\ Tiled' /\ Increasing'
    BY <1>1 DEF Chains, BrokenRows, Tiled, Kept, Increasing, File
  <1>3. Renewed /\ \A s \in videos' : \E r \in videos : Alike(s, r) /\ s.end = r.end
    BY <1>1 DEF Renewed, Alike
  <1>4. ASSUME NEW b \in Cameras \ {c}
        PROVE  Records(b)'
    <2>1. Still(b)
      BY DEF Open, ChangePath, SetupFails, Grow, Gone, Still, TInv, CamerasTyped
    <2> QED  BY <1>3, <2>1, StillRecords DEF Chains
  <1>5. Records(c)'
    <2>1. CASE Open(c) \/ ChangePath(c) \/ Grow(c)
      <3>1. /\ UNCHANGED <<lastName, begun, fileId, oldId>>
            /\ <<place[c], place'[c]>> \in {<<"open", "record">>, <<"reopen", "cut">>, <<"record", "record">>}
        BY <2>1 DEF Open, ChangePath, Grow, TInv, CamerasTyped
      <3>2. /\ LastIsOwn(c) => LastIsOwn(c)'
            /\ OwnIsLast(c) => OwnIsLast(c)'
            /\ OldIsLast(c) => OldIsLast(c)'
        BY <1>3, <3>1, RenewedRecords
      <3>3. Records(c)
        BY DEF Chains
      <3> QED  BY <3>1, <3>2, <3>3 DEF Records, Cuts
    <2>2. CASE SetupFails(c)
      BY <2>2 DEF SetupFails, TInv, CamerasTyped, Records, Cuts
    <2> QED  BY <2>1, <2>2
  <1>6. \A b \in Cameras : Records(b)'
    BY <1>4, <1>5
  <1> QED  BY <1>2, <1>6 DEF Chains

\* The end of a row that is the last one of its file.
LEMMA EndChain ==
  ASSUME IInv, TInv, WInv, Chains, NEW c \in Cameras, NEW id, NEW t \in Times \cup {None},
         SetEnd(id, t), UNCHANGED <<broken, main, torn>>, \A b \in Cameras \ {c} : Still(b),
         \A r \in videos : r.id = id => r.camera = c /\ Last(r)
  PROVE  /\ Renewed /\ BrokenRows' /\ Tiled' /\ Increasing'
         /\ \A b \in Cameras \ {c} : Records(b)'
         /\ \A s \in videos' : \E r \in videos :
              Alike(s, r) /\ s.end = IF r.id = id /\ faults' = faults THEN t ELSE r.end
  <1>1. /\ Renewed
        /\ \A s \in videos' : \E r \in videos :
             Alike(s, r) /\ s.end = IF r.id = id /\ faults' = faults THEN t ELSE r.end
    BY SetEndAlike DEF Renewed, IInv, WInv
  <1>2. \A s \in videos' : \E r \in videos : Alike(s, r) /\ (s.end = r.end \/ Last(r))
    BY <1>1
  <1>3. BrokenRows' /\ Tiled' /\ Increasing'
    BY <1>1, <1>2, RenewedChain DEF Chains, IInv
  <1>4. ASSUME NEW b \in Cameras \ {c}
        PROVE  Records(b)'
    <2>1. \A s \in videos' : \E r \in videos : Alike(s, r) /\ (r.camera = b => s.end = r.end)
      BY <1>1
    <2> QED  BY <1>1, <2>1, StillRecords DEF Chains
  <1> QED  BY <1>1, <1>3, <1>4

LEMMA WritesChain ==
  ASSUME IInv, TInv, WInv, Chains, faults = 0, faults' = 0, NEW c \in Cameras,
         CutExtend(c) \/ CloseOld(c) \/ End(c)
  PROVE  Chains'
  <1>1. UNCHANGED <<broken, main, torn>>
    BY DEF CutExtend, CloseOld, End
  <1>2. \A b \in Cameras \ {c} : Still(b)
    BY DEF CutExtend, CloseOld, End, Gone, Still, TInv, CamerasTyped
  <1>3. Records(c)
    BY DEF Chains
  <1>4. ASSUME OwnIsLast(c), NEW r \in videos, r.id = fileId[c]
        PROVE  r.camera = c /\ Last(r)
    BY <1>4 DEF OwnIsLast, File, Own
  <1>5. CASE CutExtend(c)
    <2>1. begun[c] \in Times
      BY <1>5 DEF CutExtend, TInv, Named
    <2>2. PICK t \in (begun[c] + 1)..MaxTime :
            SetEnd(fileId[c], t) /\ begun' = [begun EXCEPT ![c] = t]
      BY <1>5 DEF CutExtend
    <2>3. t \in Times /\ begun[c] < t
      BY <2>1, <2>2 DEF Times
    <2>4. /\ place[c] = "record" /\ place'[c] = "extend" /\ UNCHANGED <<lastName, fileId>>
          /\ begun'[c] = t
      BY <1>5, <2>2 DEF CutExtend, TInv, CamerasTyped
    <2>5. OwnIsLast(c) /\ LastIsOwn(c)
      BY <1>3, <2>4 DEF Records
    <2>6. /\ Renewed /\ BrokenRows' /\ Tiled' /\ Increasing'
          /\ \A b \in Cameras \ {c} : Records(b)'
          /\ \A s \in videos' : \E r \in videos :
               Alike(s, r) /\ s.end = IF r.id = fileId[c] /\ faults' = faults THEN t ELSE r.end
      BY <1>1, <1>2, <1>4, <2>2, <2>3, <2>5, EndChain
    <2>7. Own(c)' = Own(c)
      BY <2>4 DEF Own
    <2>8. ASSUME NEW s \in videos', NEW r \in videos, Alike(s, r)
          PROVE  (Last(s)' => Last(r)) /\ (Last(r) => Last(s)') /\ File(s) = File(r)
      <3>1. File(s) = File(r) /\ s.id = r.id
        BY <2>8 DEF Alike, File
      <3>2. Last(s)' <=> \A q \in videos' : File(q) = File(s) => q.id <= s.id
        BY DEF Last, File
      <3> QED  BY <2>6, <3>1, <3>2 DEF Last, Renewed, Alike, File
    <2>9. LastEnds(c)'
      <3> SUFFICES ASSUME NEW s \in RowsOf(Own(c))'
                   PROVE  s.start < begun'[c] /\ (Last(s)' => s.end = begun'[c])
        BY DEF LastEnds
      <3>1. s \in videos' /\ File(s) = Own(c)
        BY <2>7 DEF RowsOf, File
      <3>2. PICK r \in videos : Alike(s, r) /\ s.end = IF r.id = fileId[c] /\ faults' = faults THEN t ELSE r.end
        BY <2>6, <3>1
      <3>3. r \in RowsOf(Own(c)) /\ s.start = r.start /\ (Last(s)' => Last(r))
        BY <2>8, <3>1, <3>2 DEF RowsOf, Alike
      <3>4. r.start <= begun[c] /\ (Last(r) => r.id = fileId[c])
        BY <2>5, <3>3 DEF LastIsOwn
      <3>5. r.start \in Times
        BY DEF TInv, RowsTyped
      <3>6. s.start < t
        BY <2>1, <2>3, <3>3, <3>4, <3>5 DEF Times
      <3> QED  BY <2>4, <3>2, <3>3, <3>4, <3>6
    <2>10. OwnIsLast(c)'
      <3> SUFFICES ASSUME NEW s \in videos', s.id = fileId'[c]
                   PROVE  File(s) = Own(c)' /\ Last(s)'
        BY DEF OwnIsLast, File
      <3>1. PICK r \in videos : Alike(s, r)
        BY <2>6 DEF Renewed
      <3>2. r.id = fileId[c]
        BY <2>4, <3>1 DEF Alike
      <3> QED  BY <2>5, <2>7, <2>8, <3>1, <3>2 DEF OwnIsLast
    <2>11. Records(c)'
      BY <2>4, <2>9, <2>10 DEF Records, Cuts
    <2>12. \A b \in Cameras : Records(b)'
      BY <2>6, <2>11
    <2> QED  BY <2>6, <2>12 DEF Chains
  <1>6. CASE CloseOld(c)
    <2>1. /\ begun[c] \in Times \cup {None} /\ place[c] = "cut" /\ place'[c] = "record"
          /\ UNCHANGED <<lastName, begun, fileId>>
      BY <1>6 DEF CloseOld, TInv, CamerasTyped
    <2>2. SetEnd(oldId[c], begun[c])
      BY <1>6 DEF CloseOld, OldRow
    <2>3. OldIsLast(c) /\ OwnIsLast(c) /\ LastIsOwn(c)
      BY <1>3, <2>1 DEF Records, Cuts
    <2>4. \A r \in videos : r.id = oldId[c] => r.camera = c /\ Last(r)
      BY <2>3 DEF OldIsLast
    <2>5. /\ Renewed /\ BrokenRows' /\ Tiled' /\ Increasing' /\ \A b \in Cameras \ {c} : Records(b)'
      BY <1>1, <1>2, <2>1, <2>2, <2>4, EndChain
    <2>6. LastIsOwn(c)' /\ OwnIsLast(c)'
      BY <2>1, <2>3, <2>5, RenewedRecords
    <2>7. Records(c)'
      BY <2>1, <2>6 DEF Records, Cuts
    <2>8. \A b \in Cameras : Records(b)'
      BY <2>5, <2>7
    <2> QED  BY <2>5, <2>8 DEF Chains
  <1>7. CASE End(c)
    <2>1. place[c] = "record" /\ place'[c] = "off" /\ \E t \in Times : SetEnd(fileId[c], t)
      BY <1>7 DEF End, TInv, CamerasTyped
    <2>2. OwnIsLast(c)
      BY <1>3, <2>1 DEF Records
    <2>3. /\ BrokenRows' /\ Tiled' /\ Increasing' /\ \A b \in Cameras \ {c} : Records(b)'
      BY <1>1, <1>2, <1>4, <2>1, <2>2, EndChain
    <2>4. Records(c)'
      BY <2>1 DEF Records, Cuts
    <2>5. \A b \in Cameras : Records(b)'
      BY <2>3, <2>4
    <2> QED  BY <2>3, <2>5 DEF Chains
  <1> QED  BY <1>5, <1>6, <1>7

LEMMA LockChain ==
  ASSUME IInv, WInv, Chains, NEW c \in Cameras, Lock(c)
  PROVE  Chains'
  <1>1. UNCHANGED <<cameraVars, broken, main, torn>>
    BY DEF Lock
  <1>2. Renewed /\ \A s \in videos' : \E r \in videos : Alike(s, r) /\ s.end = r.end
    BY LockAlike DEF Renewed, IInv, WInv
  <1>3. BrokenRows' /\ Tiled' /\ Increasing'
    <2>1. \A s \in videos' : \E r \in videos : Alike(s, r) /\ (s.end = r.end \/ Last(r))
      BY <1>2
    <2> QED  BY <1>1, <1>2, <2>1, RenewedChain DEF Chains, IInv
  <1>4. ASSUME NEW b \in Cameras
        PROVE  Records(b)'
    <2>1. Still(b)
      BY <1>1 DEF Still
    <2> QED  BY <1>2, <2>1, StillRecords DEF Chains
  <1> QED  BY <1>3, <1>4 DEF Chains

LEMMA MainChain ==
  ASSUME IInv, TInv, WInv, Quiet, Chains, faults' = 0,
         SelectBroken \/ DeleteBroken \/ Launched \/ Reload
  PROVE  Chains'
  <1>1. \A c \in Cameras : place'[c] = "off"
    BY DEF SelectBroken, DeleteBroken, Launched, Reload, Quiet
  <1>2. \A c \in Cameras : Records(c)'
    BY <1>1, OffRecords
  <1>3. ~Fails
    <2>1. faults + 1 # 0
      BY DEF WInv
    <2> QED  BY <2>1 DEF Fails
  <1>4. BrokenRows' /\ Tiled' /\ Increasing'
    <2>1. CASE SelectBroken
      <3>1. PICK limit \in Times : broken' = {r \in videos : IsBroken(r, limit)}
        BY <1>3, <2>1 DEF SelectBroken
      <3>2. main = "boot" /\ main' = "broken" /\ UNCHANGED <<videos, torn>>
        BY <2>1 DEF SelectBroken
      <3> QED  BY <3>1, <3>2, SelectChain DEF Chains, WInv
    <2>2. CASE DeleteBroken
      <3>1. PICK r \in broken :
              /\ broken' = broken \ {r}
              /\ videos' = {s \in videos : File(s) # File(r) \/ s.start # r.start}
        BY <1>3, <2>2 DEF DeleteBroken
      <3>2. UNCHANGED <<main, torn>>
        BY <2>2 DEF DeleteBroken
      <3> QED  BY <3>1, <3>2, DeleteChain DEF Chains
    <2>3. CASE Launched \/ Reload
      <3>1. broken = {} /\ broken' = {} /\ UNCHANGED <<videos, torn>>
        BY <2>3 DEF Launched, Reload, Chains, BrokenRows
      <3> QED  BY <3>1 DEF Chains, BrokenRows, Tiled, Kept, Increasing, File
    <2> QED  BY <2>1, <2>2, <2>3
  <1> QED  BY <1>2, <1>4 DEF Chains

\* After a crash nothing is being removed; a file that had broken rows is torn, another one
\* had only rows that stay.
LEMMA CrashChain == Chains /\ Crash => Chains'
  <1> SUFFICES ASSUME Chains, Crash PROVE Chains'
    OBVIOUS
  <1>1. /\ UNCHANGED videos /\ broken' = {} /\ torn' = torn \cup {File(r) : r \in broken}
        /\ \A c \in Cameras : place'[c] = "off"
    BY DEF Crash
  <1>2. BrokenRows' /\ Increasing'
    BY <1>1 DEF Chains, BrokenRows, Increasing, File
  <1>3. Tiled'
    <2> SUFFICES ASSUME NEW r \in videos, NEW s \in videos, File(r) = File(s), File(r) \notin torn',
                        r.id < s.id,
                        \A q \in videos : File(q) = File(r) => q.id \notin (r.id + 1)..(s.id - 1)
                 PROVE  r.end = s.start
      BY <1>1 DEF Tiled, Kept, File
    <2>1. r \in Kept /\ s \in Kept
      BY <1>1 DEF Chains, BrokenRows, Kept
    <2> QED  BY <1>1, <2>1 DEF Chains, Tiled, Kept
  <1>4. \A c \in Cameras : Records(c)'
    BY <1>1, OffRecords
  <1> QED  BY <1>2, <1>3, <1>4 DEF Chains

LEMMA CleaningChain ==
  ASSUME IInv, WInv, Chains, faults' = 0, Cleaning \/ Exporting \/ UNCHANGED vars
  PROVE  Chains'
  <1>1. UNCHANGED <<cameraVars, broken, main, torn>>
    BY DEF Cleaning, MainCleans, RmSegment, DeleteRows, PassEnds, Exporting, Reserve, ExporterCleans,
           vars
  <1>2. videos' = videos \/ \E f : videos' = videos \ RowsOf(f)
    BY DEF Cleaning, MainCleans, RmSegment, DeleteRows, PassEnds, Exporting, Reserve, ExporterCleans,
           vars, OfFile
  <1>3. FilesGo
    BY <1>2 DEF FilesGo, RowsOf
  <1> QED  BY <1>1, <1>3, FilesGoKeep

LEMMA NextChain == IInv /\ TInv /\ WInv /\ SInv /\ [Next]_vars => SInv'
  <1> SUFFICES ASSUME IInv, TInv, WInv, SInv, [Next]_vars PROVE SInv'
    OBVIOUS
  <1>1. Quiet'
    BY QuietKept DEF SInv
  <1>2. ASSUME faults' = 0
        PROVE  ~stale' /\ Chains'
    <2>1. faults = 0
      <3>1. faults' = faults \/ faults' = faults + 1
        BY FaultsGrow
      <3> QED  BY <1>2, <3>1 DEF WInv
    <2>2. Quiet /\ ~stale /\ Chains
      BY <2>1 DEF SInv
    <2>3. ASSUME NEW c \in Cameras, Camera(c)
          PROVE  ~stale' /\ Chains'
      <3>1. CASE Begin(c) \/ CutNew(c) \/ ExtendRow(c)
        BY <1>2, <2>2, <3>1, AddsChain
      <3>2. CASE Open(c) \/ ChangePath(c) \/ SetupFails(c) \/ Grow(c)
        <4>1. stale' = stale
          BY <3>2 DEF Open, ChangePath, SetupFails, Grow
        <4> QED  BY <2>2, <3>2, <4>1, QuietChain
      <3>3. CASE CutExtend(c) \/ CloseOld(c) \/ End(c)
        <4>1. stale' = stale
          BY <3>3 DEF CutExtend, CloseOld, End
        <4> QED  BY <1>2, <2>1, <2>2, <3>3, <4>1, WritesChain
      <3> QED  BY <2>3, <3>1, <3>2, <3>3 DEF Camera
    <2>4. ASSUME NEW c \in Cameras, Lock(c)
          PROVE  ~stale' /\ Chains'
      <3>1. stale' = stale
        BY <2>4 DEF Lock
      <3> QED  BY <2>2, <2>4, <3>1, LockChain
    <2>5. CASE Cleaning \/ Exporting \/ UNCHANGED vars
      <3>1. stale' = stale
        BY <2>5 DEF Cleaning, MainCleans, RmSegment, DeleteRows, PassEnds, Exporting, Reserve,
                    ExporterCleans, vars
      <3> QED  BY <1>2, <2>2, <2>5, <3>1, CleaningChain
    <2>6. CASE SelectBroken \/ DeleteBroken \/ Launched \/ Reload
      <3>1. stale' = stale
        BY <2>6 DEF SelectBroken, DeleteBroken, Launched, Reload
      <3> QED  BY <1>2, <2>2, <2>6, <3>1, MainChain
    <2>7. CASE Crash
      BY <2>2, <2>7, CrashChain DEF Crash
    <2> QED  BY <2>3, <2>4, <2>5, <2>6, <2>7 DEF Next, Main
  <1> QED  BY <1>1, <1>2 DEF SInv

LEMMA InitChain == Init => SInv
  <1> SUFFICES ASSUME Init PROVE SInv
    OBVIOUS
  <1>1. BrokenRows /\ Tiled /\ Increasing
    BY DEF Init, BrokenRows, Tiled, Kept, Increasing
  <1>2. Quiet /\ ~stale /\ \A c \in Cameras : Records(c)
    BY DEF Init, Quiet, Records, Cuts
  <1> QED  BY <1>1, <1>2 DEF SInv, Chains

\* What holds of the rows, their ids and their ends, in every reachable state.
THEOREM RowsInvariant == Spec => [](IInv /\ TInv /\ WInv /\ SInv)
  <1>1. Init => IInv /\ TInv /\ WInv /\ SInv
    BY InitIInv, InitTyped, InitOwn, InitChain
  <1>2. IInv /\ TInv /\ WInv /\ SInv /\ [Next]_vars => IInv' /\ TInv' /\ WInv' /\ SInv'
    BY NextKeeps, NextTyped, StepOwn, NextChain
  <1> QED  BY <1>1, <1>2, PTL DEF Spec

\* The segments of a file tile it, after any number of crashes too: cut_video() ends a row where
\* it begins the next one of the same file, and what clean_disk() and a completed
\* delete_broken_segments() remove leaves no gap.
THEOREM SegmentsAreTiled == Spec => []SegmentsTile
  <1>1. ASSUME TInv, SInv
        PROVE  SegmentsTile
    <2> SUFFICES ASSUME faults = 0, main # "broken"
                 PROVE  \A r, s \in videos :
                          (/\ File(r) = File(s) /\ File(r) \notin torn /\ r.id < s.id
                           /\ \A q \in RowsOf(File(r)) : q.id \notin (r.id + 1)..(s.id - 1))
                          => r.end = s.start
      BY DEF SegmentsTile
    <2>1. broken = {} /\ Kept = videos /\ Tiled
      BY <1>1 DEF SInv, Chains, BrokenRows, Kept
    <2> QED  BY <2>1 DEF Tiled, RowsOf
  <1>2. IInv /\ TInv /\ WInv /\ SInv => SegmentsTile
    BY <1>1
  <1> QED  BY <1>2, RowsInvariant, PTL

-----------------------------------------------------------------------------
(* The order of a pass. *)

AllUnlocked(f) == \A r \in RowsOf(f) : r.id <= mark => ~r.locked

\* A row of the query stands for a file of its own, at the start of one of its rows,
ChosenOnce ==
  /\ \A x, y \in Chosen : x.file = y.file => x = y
  /\ batch \cap Range(victim) = {}
ChosenKeys ==
  \A x \in Chosen :
    x.file \notin thinned => \E r \in RowsOf(x.file) : r.id <= mark /\ r.start = x.key

\* and a file that has no lock is still to be removed, or comes after all that are: then the
\* query has found as many as it asked for.
NoneForgotten ==
  \A r \in videos :
    (r.id <= mark /\ File(r) \notin lateLocks \cup thinned /\ AllUnlocked(File(r))) =>
      \/ \E y \in Chosen : y.file = File(r)
      \/ /\ count + Cardinality(batch) >= Extra
         /\ \E q \in RowsOf(File(r)) : q.id <= mark /\ \A x \in Chosen : x.key <= q.start

Ordered ==
  /\ IsFiniteSet(batch) /\ count \in Nat /\ mark \in 0..lastId
  /\ ChosenOnce /\ ChosenKeys /\ NoneForgotten
PInv == IsFiniteSet(videos) /\ crashes \in Nat /\ ((faults = 0 /\ cleaner # "none") => Ordered)

\* The rows that a pass has asked for, in the files that have not lost any.
Like(s, r) == s.id = r.id /\ s.start = r.start
OldRowsStay ==
  /\ lateLocks \subseteq lateLocks' /\ thinned \subseteq thinned'
  /\ \A f : f \notin thinned' =>
       \A r \in RowsOf(f) : r.id <= mark => \E s \in RowsOf(f)' : Like(s, r)
  /\ \A f : f \notin lateLocks' \cup thinned' =>
       /\ \A r \in RowsOf(f) : r.id <= mark => \E s \in RowsOf(f)' : Like(s, r) /\ s.locked = r.locked
       /\ \A s \in RowsOf(f)' : s.id <= mark => \E r \in RowsOf(f) : Like(s, r)

LEMMA OrderedStays ==
  ASSUME Ordered, OldRowsStay, UNCHANGED <<batch, victim, count, mark>>,
         lastId \in Nat, lastId' \in Nat, lastId <= lastId'
  PROVE  Ordered'
  <1> USE DEF Ordered
  <1>1. Chosen' = Chosen
    BY DEF Chosen
  <1>2. mark' \in 0..lastId'
    OBVIOUS
  <1>3. ChosenOnce'
    BY <1>1 DEF ChosenOnce
  <1>4. ChosenKeys'
    <2> SUFFICES ASSUME NEW x \in Chosen, x.file \notin thinned'
                 PROVE  \E s \in RowsOf(x.file)' : s.id <= mark /\ s.start = x.key
      BY <1>1 DEF ChosenKeys, RowsOf
    <2>1. PICK r \in RowsOf(x.file) : r.id <= mark /\ r.start = x.key
      BY DEF ChosenKeys, OldRowsStay
    <2> QED  BY <2>1 DEF OldRowsStay, Like
  <1>5. NoneForgotten'
    <2> SUFFICES ASSUME NEW s \in videos', s.id <= mark, File(s) \notin lateLocks' \cup thinned',
                        \A q \in RowsOf(File(s))' : q.id <= mark => ~q.locked
                 PROVE  \/ \E y \in Chosen : y.file = File(s)
                        \/ /\ count + Cardinality(batch) >= Extra
                           /\ \E q \in RowsOf(File(s))' : q.id <= mark /\ \A x \in Chosen : x.key <= q.start
      BY <1>1 DEF NoneForgotten, AllUnlocked, RowsOf, File
    <2>1. s \in RowsOf(File(s))'
      BY DEF RowsOf, File
    <2>2. PICK r \in RowsOf(File(s)) : Like(s, r)
      BY <2>1 DEF OldRowsStay
    <2>3. r \in videos /\ File(r) = File(s) /\ r.id <= mark
      BY <2>2 DEF RowsOf, Like
    <2>4. AllUnlocked(File(r))
      BY <2>3 DEF AllUnlocked, OldRowsStay, Like
    <2>5. File(r) \notin lateLocks \cup thinned
      BY <2>3 DEF OldRowsStay
    <2>6. CASE \E y \in Chosen : y.file = File(r)
      BY <2>3, <2>6
    <2>7. CASE /\ count + Cardinality(batch) >= Extra
               /\ \E q \in RowsOf(File(r)) : q.id <= mark /\ \A x \in Chosen : x.key <= q.start
      <3>1. PICK q \in RowsOf(File(s)) : q.id <= mark /\ \A x \in Chosen : x.key <= q.start
        BY <2>3, <2>7
      <3>2. PICK p \in RowsOf(File(s))' : Like(p, q)
        BY <3>1 DEF OldRowsStay
      <3>3. p.id <= mark /\ \A x \in Chosen : x.key <= p.start
        BY <3>1, <3>2 DEF Like
      <3> QED  BY <2>7, <3>2, <3>3
    <2> QED  BY <2>3, <2>4, <2>5, <2>6, <2>7 DEF NoneForgotten
  <1> QED  BY <1>2, <1>3, <1>4, <1>5

\* The image of a finite set.
LEMMA FiniteImage ==
  ASSUME NEW S, IsFiniteSet(S), NEW g, g = [x \in S |-> g[x]]
  PROVE  IsFiniteSet({g[x] : x \in S})
  <1> DEFINE T == {g[x] : x \in S}
  <1>1. g \in Surjection(S, T)
    BY DEF Surjection
  <1> QED  BY <1>1, FS_Surjection

\* The query.
LEMMA CleanDiskOrders ==
  ASSUME IInv, TInv, IsFiniteSet(videos), NEW w \in Cleaners, CleanDisk(w), faults' = 0, faults \in Nat,
         cleaner' # "none", UNCHANGED <<videos, lastId>>
  PROVE  Ordered'
  <1>1. /\ cleaner = "none" /\ lateLocks' = {} /\ mark' = lastId /\ thinned' = {}
        /\ UNCHANGED <<victim, count>>
        /\ \E rows \in Groups : \E rest \in SUBSET rows :
             /\ batch' = rows \ rest
             /\ rest # {} => Cardinality(batch') >= Extra
             /\ \A x \in batch', y \in rest : Before(x, y)
    BY DEF CleanDisk, Fails
  <1>2. victim' = << >> /\ count' = 0 /\ lastId \in Nat /\ \A r \in videos : r.id \in 1..lastId
    BY <1>1 DEF TInv, PassTyped, BrokenTyped, RowsTyped
  <1>3. PICK rows \in Groups : \E rest \in SUBSET rows :
             /\ batch' = rows \ rest
             /\ rest # {} => Cardinality(batch') >= Extra
             /\ \A x \in batch', y \in rest : Before(x, y)
    BY <1>1
  <1>4. PICK rest \in SUBSET rows :
             /\ batch' = rows \ rest
             /\ rest # {} => Cardinality(batch') >= Extra
             /\ \A x \in batch', y \in rest : Before(x, y)
    BY <1>3
  <1> DEFINE fs == {f \in {File(r) : r \in videos} : Unlocked(f)}
  <1>5. PICK k \in [fs -> Times] :
          /\ rows = {[file |-> f, key |-> k[f]] : f \in fs}
          /\ \A f \in fs : k[f] \in {r.start : r \in RowsOf(f)}
    BY DEF Groups
  <1>6. IsFiniteSet(batch')
    <2>1. IsFiniteSet({File(r) : r \in videos})
      <3> DEFINE g == [r \in videos |-> File(r)]
      <3>1. g = [r \in videos |-> g[r]] /\ {File(r) : r \in videos} = {g[r] : r \in videos}
        OBVIOUS
      <3> HIDE DEF g
      <3>2. IsFiniteSet({g[r] : r \in videos})
        BY <3>1, FiniteImage
      <3> QED  BY <3>1, <3>2
    <2>2. IsFiniteSet(fs)
      BY <2>1, FS_Subset
    <2> HIDE DEF fs
    <2>3. IsFiniteSet({[file |-> f, key |-> k[f]] : f \in fs})
      <3> DEFINE g == [f \in fs |-> [file |-> f, key |-> k[f]]]
      <3>1. /\ g = [f \in fs |-> g[f]]
            /\ {[file |-> f, key |-> k[f]] : f \in fs} = {g[f] : f \in fs}
        OBVIOUS
      <3> HIDE DEF g
      <3>2. IsFiniteSet({g[f] : f \in fs})
        BY <2>2, <3>1, FiniteImage
      <3> QED  BY <3>1, <3>2
    <2> QED  BY <1>4, <1>5, <2>3, FS_Subset
  <1>7. Chosen' = batch'
    BY <1>2 DEF Chosen, Range
  <1>8. ASSUME NEW x \in rows
        PROVE  /\ x.file \in fs /\ x = [file |-> x.file, key |-> k[x.file]]
               /\ \E r \in RowsOf(x.file) : r.id <= lastId /\ r.start = x.key
    <2>1. PICK f \in fs : x = [file |-> f, key |-> k[f]]
      BY <1>5
    <2>2. PICK r \in RowsOf(f) : r.start = k[f]
      BY <1>5
    <2>3. r.id <= lastId
      BY <1>2 DEF RowsOf
    <2> HIDE DEF fs
    <2> QED  BY <2>1, <2>2, <2>3
  <1>9. ChosenOnce'
    <2>1. \A x, y \in rows : x.file = y.file => x = y
      BY <1>8
    <2>2. Range(victim)' = {}
      BY <1>2 DEF Range
    <2> QED  BY <1>4, <1>7, <2>1, <2>2 DEF ChosenOnce
  <1>10. ChosenKeys'
    BY <1>1, <1>4, <1>7, <1>8 DEF ChosenKeys, RowsOf
  <1>11. NoneForgotten'
    <2> SUFFICES ASSUME NEW r \in videos, \A q \in RowsOf(File(r)) : q.id <= lastId => ~q.locked
                 PROVE  \/ \E y \in batch' : y.file = File(r)
                        \/ /\ count' + Cardinality(batch') >= Extra
                           /\ \E q \in RowsOf(File(r)) : q.id <= lastId /\ \A x \in batch' : x.key <= q.start
      BY <1>1, <1>7 DEF NoneForgotten, AllUnlocked, RowsOf, File
    <2>1. File(r) \in fs
      BY <1>2 DEF Unlocked, RowsOf
    <2> DEFINE x == [file |-> File(r), key |-> k[File(r)]]
    <2>2. x \in rows /\ x.file = File(r)
      BY <1>5, <2>1
    <2> HIDE DEF x
    <2>3. CASE x \in batch'
      BY <2>2, <2>3
    <2>4. CASE x \in rest
      <3>1. Cardinality(batch') >= Extra
        BY <1>4, <2>4
      <3>2. PICK q \in RowsOf(File(r)) : q.id <= lastId /\ q.start = x.key
        BY <1>8, <2>2
      <3>3. \A y \in batch' : y.key <= q.start
        BY <1>4, <2>4, <3>2 DEF Before
      <3>4. count' + Cardinality(batch') >= Extra
        <4>1. Cardinality(batch') \in Nat
          BY <1>6, FS_CardinalityType
        <4>2. count' = 0
          BY <1>2
        <4> QED  BY <3>1, <4>1, <4>2
      <3> QED  BY <3>2, <3>3, <3>4
    <2> QED  BY <1>4, <2>2, <2>3, <2>4
  <1>12. count' \in Nat /\ mark' \in 0..lastId'
    BY <1>1, <1>2
  <1> QED  BY <1>6, <1>9, <1>10, <1>11, <1>12 DEF Ordered

\* A file of the batch becomes the victim,
LEMMA RmSegmentOrders ==
  ASSUME TInv, Ordered, RmSegment
  PROVE  Ordered'
  <1> USE DEF Ordered
  <1>1. PICK x \in batch : batch' = batch \ {x} /\ victim' = <<x>>
    BY DEF RmSegment
  <1>2. /\ cleaning = "file" /\ count' = count + 1
        /\ UNCHANGED <<videos, lastId, mark, lateLocks, thinned>>
    BY DEF RmSegment
  <1>3. victim = << >>
    BY <1>2 DEF TInv, PassTyped
  <1>4. Chosen' = Chosen
    BY <1>1, <1>3 DEF Chosen, Range
  <1>5. IsFiniteSet(batch') /\ Cardinality(batch') = Cardinality(batch) - 1
    BY <1>1, FS_RemoveElement
  <1>6. count' + Cardinality(batch') = count + Cardinality(batch)
    <2>1. Cardinality(batch) \in Nat
      BY FS_CardinalityType
    <2> QED  BY <1>2, <1>5, <2>1
  <1>7. ChosenOnce'
    <2>1. Range(victim)' = {x}
      BY <1>1 DEF Range
    <2> QED  BY <1>1, <1>4, <2>1 DEF ChosenOnce
  <1>8. ChosenKeys'
    BY <1>2, <1>4 DEF ChosenKeys, RowsOf
  <1>9. NoneForgotten'
    BY <1>2, <1>4, <1>6 DEF NoneForgotten, AllUnlocked, RowsOf
  <1>10. count' \in Nat /\ mark' \in 0..lastId'
    BY <1>2
  <1> QED  BY <1>5, <1>7, <1>8, <1>9, <1>10

\* and is none any more when its rows have gone.
LEMMA DeleteRowsOrders ==
  ASSUME IInv, TInv, Ordered, DeleteRows, ~Fails
  PROVE  Ordered'
  <1> USE DEF Ordered
  <1>1. /\ cleaning = "row" /\ victim' = << >> /\ videos' = videos \ RowsOf(victim[1].file)
        /\ UNCHANGED <<lastId, batch, count, mark, lateLocks, thinned>>
    BY DEF DeleteRows, OfFile
  <1>2. PICK x : victim = <<x>>
    BY <1>1 DEF IInv, VictimGone
  <1>3. Chosen' = batch /\ Chosen = batch \cup {x} /\ Range(victim) = {x} /\ Range(victim)' = {}
    BY <1>1, <1>2 DEF Chosen, Range
  <1>4. \A y \in batch : y.file # x.file
    BY <1>3 DEF ChosenOnce
  <1>5. \A f : f # x.file => RowsOf(f)' = RowsOf(f)
    BY <1>1, <1>2 DEF RowsOf, File
  <1>6. ChosenOnce'
    BY <1>1, <1>3 DEF ChosenOnce
  <1>7. ChosenKeys'
    BY <1>1, <1>3, <1>4, <1>5 DEF ChosenKeys
  <1>8. NoneForgotten'
    <2> SUFFICES ASSUME NEW r \in videos', r.id <= mark, File(r) \notin lateLocks \cup thinned,
                        AllUnlocked(File(r))'
                 PROVE  \/ \E y \in batch : y.file = File(r)
                        \/ /\ count + Cardinality(batch) >= Extra
                           /\ \E q \in RowsOf(File(r))' : q.id <= mark /\ \A y \in batch : y.key <= q.start
      BY <1>1, <1>3 DEF NoneForgotten, RowsOf, File
    <2>1. File(r) # x.file /\ r \in videos
      BY <1>1, <1>2 DEF RowsOf
    <2>2. RowsOf(File(r))' = RowsOf(File(r))
      <3>1. \A f : f # x.file => {s \in videos' : File(s) = f} = {s \in videos : File(s) = f}
        BY <1>5 DEF RowsOf, File
      <3> QED  BY <2>1, <3>1 DEF RowsOf, File
    <2>3. AllUnlocked(File(r))
      BY <1>1, <2>2 DEF AllUnlocked, File
    <2>4. \/ \E y \in Chosen : y.file = File(r)
          \/ /\ count + Cardinality(batch) >= Extra
             /\ \E q \in RowsOf(File(r)) : q.id <= mark /\ \A y \in Chosen : y.key <= q.start
      BY <2>1, <2>3 DEF NoneForgotten
    <2> QED  BY <1>3, <2>1, <2>2, <2>4
  <1>9. count' \in Nat /\ mark' \in 0..lastId' /\ IsFiniteSet(batch')
    BY <1>1
  <1> QED  BY <1>6, <1>7, <1>8, <1>9

\* What the other threads do to the rows of a pass.
LEMMA RowsOfSame ==
  ASSUME UNCHANGED <<videos, lateLocks, thinned>>
  PROVE  OldRowsStay
  BY DEF OldRowsStay, RowsOf, Like

LEMMA SetEndStays ==
  ASSUME TypesOK, NEW id, NEW t \in Times \cup {None}, SetEnd(id, t), UNCHANGED <<lateLocks, thinned>>
  PROVE  OldRowsStay
  <1>1. CASE UNCHANGED videos
    BY <1>1, RowsOfSame
  <1>2. CASE videos' = {IF r.id = id THEN [r EXCEPT !.end = t] ELSE r : r \in videos}
    <2>1. \A r \in Rows : LET e == [r EXCEPT !.end = t]
                          IN Alike(e, r) /\ e.locked = r.locked /\ Alike(r, r)
      BY DEF Rows, Alike
    <2>2. /\ \A r \in videos : \E s \in videos' : Alike(s, r) /\ s.locked = r.locked
          /\ \A s \in videos' : \E r \in videos : Alike(s, r) /\ s.locked = r.locked
      BY <1>2, <2>1 DEF TypesOK
    <2> QED  BY <2>2 DEF OldRowsStay, RowsOf, File, Alike, Like
  <1> QED  BY <1>1, <1>2 DEF SetEnd

LEMMA LockStays ==
  ASSUME TypesOK, NEW c \in Cameras, Lock(c), cleaner # "none"
  PROVE  OldRowsStay
  <1>1. PICK hit \in SUBSET videos, lock \in BOOLEAN :
          /\ videos' = (videos \ hit) \cup {[r EXCEPT !.locked = lock] : r \in hit}
          /\ lateLocks' = IF cleaner = "none" THEN {} ELSE lateLocks \cup {File(r) : r \in hit}
    BY LockStep
  <1>2. \A r \in Rows : Alike([r EXCEPT !.locked = lock], r) /\ Alike(r, r)
    BY DEF Rows, Alike
  <1>3. videos \subseteq Rows /\ thinned' = thinned
    BY DEF TypesOK, Lock
  <1>4. \A r \in videos : \E s \in videos' : Alike(s, r)
    <2> TAKE r \in videos
    <2>1. CASE r \in hit
      BY <1>1, <1>2, <1>3, <2>1
    <2>2. CASE r \notin hit
      BY <1>1, <1>2, <1>3, <2>2
    <2> QED  BY <2>1, <2>2
  <1>5. ASSUME NEW f, f \notin lateLocks'
        PROVE  RowsOf(f)' = RowsOf(f)
    <2>1. \A r \in hit : File(r) # f
      BY <1>1, <1>5
    <2>2. \A r \in hit : File([r EXCEPT !.locked = lock]) # f
      <3>1. \A r \in hit : File([r EXCEPT !.locked = lock]) = File(r)
        BY <1>2, <1>3 DEF Alike, File
      <3> QED  BY <2>1, <3>1
    <2>3. RowsOf(f)' = {s \in videos' : File(s) = f}
      BY DEF RowsOf, File
    <2> QED  BY <1>1, <2>1, <2>2, <2>3 DEF RowsOf
  <1>6. ASSUME NEW f, NEW r \in RowsOf(f)
        PROVE  \E s \in RowsOf(f)' : Like(s, r)
    <2>1. PICK s \in videos' : Alike(s, r)
      BY <1>4 DEF RowsOf
    <2> QED  BY <2>1 DEF RowsOf, File, Alike, Like
  <1>7. lateLocks \subseteq lateLocks'
    BY <1>1
  <1> QED  BY <1>3, <1>5, <1>6, <1>7 DEF OldRowsStay, Like

LEMMA AddStays ==
  ASSUME NEW row, videos' = videos \cup {row}, UNCHANGED <<lateLocks, thinned>>,
         mark \in Nat, row.id \in Nat, mark < row.id
  PROVE  OldRowsStay
  <1>1. ASSUME NEW f
        PROVE  /\ RowsOf(f) \subseteq RowsOf(f)'
               /\ \A s \in RowsOf(f)' : s.id <= mark => s \in RowsOf(f)
    BY DEF RowsOf, File
  <1> QED  BY <1>1 DEF OldRowsStay, Like

LEMMA DeleteBrokenStays ==
  ASSUME DeleteBroken, cleaner # "none"
  PROVE  OldRowsStay
  <1>1. PICK r \in broken :
          /\ videos' = videos \/ videos' = {s \in videos : File(s) # File(r) \/ s.start # r.start}
          /\ thinned' = thinned \cup {File(r)}
    BY DEF DeleteBroken
  <1>2. lateLocks' = lateLocks
    BY DEF DeleteBroken
  <1>3. ASSUME NEW f, f # File(r)
        PROVE  RowsOf(f)' = RowsOf(f)
    BY <1>1, <1>3 DEF RowsOf, File
  <1> QED  BY <1>1, <1>2, <1>3 DEF OldRowsStay, Like

\* The table is finite.
LEMMA FiniteSetEnd ==
  ASSUME IsFiniteSet(videos), NEW id, NEW t, SetEnd(id, t)
  PROVE  IsFiniteSet(videos')
  <1>1. CASE videos' = {IF r.id = id THEN [r EXCEPT !.end = t] ELSE r : r \in videos}
    <2> DEFINE g == [r \in videos |-> IF r.id = id THEN [r EXCEPT !.end = t] ELSE r]
    <2>1. g = [r \in videos |-> g[r]] /\ videos' = {g[r] : r \in videos}
      BY <1>1
    <2> HIDE DEF g
    <2> QED  BY <2>1, FiniteImage
  <1> QED  BY <1>1 DEF SetEnd

LEMMA FiniteLock ==
  ASSUME TypesOK, IsFiniteSet(videos), NEW c \in Cameras, Lock(c)
  PROVE  IsFiniteSet(videos')
  <1>1. PICK hit \in SUBSET videos, lock \in BOOLEAN :
          videos' = (videos \ hit) \cup {[r EXCEPT !.locked = lock] : r \in hit}
    BY LockStep
  <1> DEFINE g == [r \in hit |-> [r EXCEPT !.locked = lock]]
  <1>2. g = [r \in hit |-> g[r]] /\ {[r EXCEPT !.locked = lock] : r \in hit} = {g[r] : r \in hit}
    OBVIOUS
  <1> HIDE DEF g
  <1>3. IsFiniteSet(hit) /\ IsFiniteSet(videos \ hit)
    BY FS_Subset
  <1>4. IsFiniteSet({g[r] : r \in hit})
    BY <1>2, <1>3, FiniteImage
  <1> QED  BY <1>1, <1>2, <1>3, <1>4, FS_Union

LEMMA FiniteVideos ==
  ASSUME IInv, IsFiniteSet(videos), [Next]_vars
  PROVE  IsFiniteSet(videos')
  <1>1. ASSUME NEW c \in Cameras, Camera(c)
        PROVE  IsFiniteSet(videos')
    <2>1. CASE Begin(c) \/ CutNew(c) \/ ExtendRow(c)
      <3>1. videos' = videos \/ \E row : videos' = videos \cup {row}
        BY <2>1 DEF Begin, CutNew, ExtendRow, NextPath
      <3> QED  BY <3>1, FS_AddElement
    <2>2. CASE Open(c) \/ ChangePath(c) \/ SetupFails(c) \/ Grow(c)
      BY <2>2 DEF Open, ChangePath, SetupFails, Grow
    <2>3. CASE CutExtend(c) \/ CloseOld(c) \/ End(c)
      <3>1. \E id, t : SetEnd(id, t)
        BY <2>3 DEF CutExtend, CloseOld, End
      <3> QED  BY <3>1, FiniteSetEnd
    <2> QED  BY <1>1, <2>1, <2>2, <2>3 DEF Camera
  <1>2. ASSUME NEW c \in Cameras, Lock(c)
        PROVE  IsFiniteSet(videos')
    BY <1>2, FiniteLock DEF IInv
  <1>3. CASE Cleaning \/ Exporting \/ Main \/ UNCHANGED vars
    <2>1. videos' \subseteq videos
      BY <1>3 DEF Cleaning, MainCleans, RmSegment, DeleteRows, PassEnds, Exporting, Reserve,
                  ExporterCleans, Main, SelectBroken, DeleteBroken, Launched, Reload, Crash, vars
    <2> QED  BY <2>1, FS_Subset
  <1> QED  BY <1>1, <1>2, <1>3 DEF Next

LEMMA CameraStays ==
  ASSUME IInv, TInv, WInv, Ordered, NEW c \in Cameras, Camera(c)
  PROVE  OldRowsStay /\ UNCHANGED <<batch, victim, count, mark, cleaner>> /\ lastId' \in Nat /\ lastId <= lastId'
  <1>1. UNCHANGED <<batch, victim, count, mark, cleaner, lateLocks, thinned>>
    BY DEF Camera, Begin, Open, SetupFails, Grow, CutExtend, ExtendRow, CutNew, ChangePath,
           CloseOld, End
  <1>2. lastId \in Nat /\ mark \in 0..lastId
    BY DEF TInv, BrokenTyped, Ordered
  <1>3. CASE Begin(c) \/ CutNew(c) \/ ExtendRow(c)
    <2>1. PICK t \in Times, extend \in BOOLEAN : NextPath(c, t, extend)
      <3>1. CASE Begin(c) \/ CutNew(c)
        BY <3>1 DEF Begin, CutNew
      <3>2. CASE ExtendRow(c)
        <4>1. begun[c] \in Times
          BY <3>2 DEF ExtendRow, Named, TInv
        <4> QED  BY <3>2, <4>1 DEF ExtendRow
      <3> QED  BY <1>3, <3>1, <3>2
    <2>2. CASE UNCHANGED <<videos, lastId>>
      BY <1>1, <1>2, <2>2, RowsOfSame
    <2>3. CASE videos' = videos \cup {NewRow(c, t, extend)} /\ lastId' = lastId + 1
      <3> DEFINE row == NewRow(c, t, extend)
      <3>1. row.id = lastId + 1
        BY DEF NewRow
      <3> HIDE DEF row
      <3>2. videos' = videos \cup {row} /\ lastId' = lastId + 1
        BY <2>3 DEF row
      <3>3. mark \in Nat /\ row.id \in Nat /\ mark < row.id
        BY <1>2, <3>1
      <3>4. OldRowsStay
        BY <1>1, <3>2, <3>3, AddStays
      <3> QED  BY <1>1, <1>2, <3>2, <3>4
    <2> QED  BY <2>1, <2>2, <2>3, NextPathAdds
  <1>4. CASE Open(c) \/ ChangePath(c) \/ SetupFails(c) \/ Grow(c)
    <2>1. UNCHANGED <<videos, lastId>>
      BY <1>4 DEF Open, ChangePath, SetupFails, Grow
    <2> QED  BY <1>1, <1>2, <2>1, RowsOfSame
  <1>5. CASE CutExtend(c) \/ CloseOld(c) \/ End(c)
    <2>1. \E id, t \in Nat : t \in Times \cup {None} /\ SetEnd(id, t)
      <3>1. fileId[c] \in Nat /\ oldId[c] \in Nat /\ begun[c] \in Times \cup {None}
        BY <1>2 DEF TInv, CamerasTyped
      <3>2. CASE CutExtend(c)
        <4>1. begun[c] \in Times
          BY <3>2 DEF CutExtend, TInv, Named
        <4>2. PICK t \in (begun[c] + 1)..MaxTime : SetEnd(fileId[c], t)
          BY <3>2 DEF CutExtend
        <4> QED  BY <3>1, <4>1, <4>2 DEF Times
      <3>3. CASE CloseOld(c)
        BY <3>1, <3>3 DEF CloseOld, OldRow, Times, None
      <3>4. CASE End(c)
        BY <3>1, <3>4 DEF End, Times
      <3> QED  BY <1>5, <3>2, <3>3, <3>4
    <2>2. lastId' = lastId
      BY <1>5 DEF CutExtend, CloseOld, End
    <2>3. OldRowsStay
      BY <1>1, <2>1, SetEndStays DEF IInv
    <2> QED  BY <1>1, <1>2, <2>2, <2>3
  <1> QED  BY <1>3, <1>4, <1>5 DEF Camera

LEMMA CrashesCounted ==
  ASSUME [Next]_vars
  PROVE  crashes' = crashes \/ crashes' = crashes + 1
  <1>1. ASSUME NEW c \in Cameras, Camera(c) \/ Lock(c)
        PROVE  crashes' = crashes
    BY <1>1 DEF Camera, Begin, Open, SetupFails, Grow, CutExtend, ExtendRow, CutNew, ChangePath,
                CloseOld, End, Lock
  <1>2. CASE Cleaning \/ Exporting \/ UNCHANGED vars
    BY <1>2 DEF Cleaning, MainCleans, RmSegment, DeleteRows, PassEnds, Exporting, Reserve,
                ExporterCleans, vars
  <1>3. CASE Main
    BY <1>3 DEF Main, SelectBroken, DeleteBroken, Launched, Reload, Crash
  <1> QED  BY <1>1, <1>2, <1>3 DEF Next

LEMMA NextOrdered == IInv /\ TInv /\ WInv /\ PInv /\ [Next]_vars => PInv'
  <1> SUFFICES ASSUME IInv, TInv, WInv, PInv, [Next]_vars PROVE PInv'
    OBVIOUS
  <1>1. IsFiniteSet(videos) /\ IsFiniteSet(videos')
    BY FiniteVideos DEF PInv
  <1>3. crashes' \in Nat
    <2>1. crashes' = crashes \/ crashes' = crashes + 1
      BY CrashesCounted
    <2> QED  BY <2>1 DEF PInv
  <1>2. ASSUME faults' = 0, cleaner' # "none"
        PROVE  Ordered'
    <2>1. faults \in Nat /\ faults = 0 /\ ~Fails
      <3>1. faults' = faults \/ faults' = faults + 1
        BY FaultsGrow
      <3>2. faults \in Nat
        BY DEF WInv
      <3> QED  BY <1>2, <3>1, <3>2 DEF Fails
    <2>2. cleaner # "none" => Ordered
      BY <2>1 DEF PInv
    <2>3. lastId \in Nat
      BY DEF TInv, BrokenTyped
    <2>4. ASSUME NEW c \in Cameras, Camera(c)
          PROVE  Ordered'
      <3>1. cleaner' = cleaner
        BY <2>4 DEF Camera, Begin, Open, SetupFails, Grow, CutExtend, ExtendRow, CutNew,
                    ChangePath, CloseOld, End
      <3>2. Ordered
        BY <1>2, <2>2, <3>1
      <3>3. /\ OldRowsStay /\ UNCHANGED <<batch, victim, count, mark>>
            /\ lastId' \in Nat /\ lastId <= lastId'
        BY <2>4, <3>2, CameraStays
      <3> QED  BY <2>3, <3>2, <3>3, OrderedStays
    <2>5. ASSUME NEW c \in Cameras, Lock(c)
          PROVE  Ordered'
      <3>1. UNCHANGED <<cleaner, batch, victim, count, mark, lastId>>
        BY <2>5 DEF Lock
      <3>2. Ordered /\ OldRowsStay
        BY <1>2, <2>2, <2>5, <3>1, LockStays DEF IInv
      <3> QED  BY <2>3, <3>1, <3>2, OrderedStays
    <2>6. CASE MainCleans \/ ExporterCleans
      <3>1. PICK w \in Cleaners : CleanDisk(w)
        BY <2>6 DEF MainCleans, ExporterCleans, Cleaners
      <3>2. UNCHANGED <<videos, lastId>>
        BY <2>6 DEF MainCleans, ExporterCleans
      <3> QED  BY <1>1, <1>2, <2>1, <3>1, <3>2, CleanDiskOrders
    <2>7. CASE RmSegment
      <3>1. Ordered
        BY <2>2, <2>7 DEF RmSegment
      <3> QED  BY <2>7, <3>1, RmSegmentOrders
    <2>8. CASE DeleteRows
      <3>1. Ordered
        BY <2>2, <2>8 DEF DeleteRows
      <3> QED  BY <2>1, <2>8, <3>1, DeleteRowsOrders
    <2>9. CASE PassEnds \/ Crash
      BY <1>2, <2>1, <2>9 DEF PassEnds, Crash
    <2>10. CASE Reserve \/ SelectBroken \/ Launched \/ Reload \/ UNCHANGED vars
      <3>1. UNCHANGED <<videos, lastId, cleaner, batch, victim, count, mark, lateLocks, thinned>>
        BY <2>10 DEF Reserve, SelectBroken, Launched, Reload, vars
      <3>2. Ordered /\ OldRowsStay
        BY <1>2, <2>2, <3>1, RowsOfSame
      <3> QED  BY <2>3, <3>1, <3>2, OrderedStays
    <2>11. CASE DeleteBroken
      <3>1. UNCHANGED <<lastId, cleaner, batch, victim, count, mark>>
        BY <2>11 DEF DeleteBroken
      <3>2. Ordered /\ OldRowsStay
        BY <1>2, <2>2, <2>11, <3>1, DeleteBrokenStays
      <3> QED  BY <2>3, <3>1, <3>2, OrderedStays
    <2> QED  BY <2>4, <2>5, <2>6, <2>7, <2>8, <2>9, <2>10, <2>11
             DEF Next, Cleaning, Exporting, Main
  <1> QED  BY <1>1, <1>2, <1>3 DEF PInv

LEMMA InitPass == Init => PInv
  BY FS_EmptySet DEF Init, PInv

\* When rm_file() removes a file, the pass has no older one left.
LEMMA RemovesOldest ==
  ASSUME IInv, TInv, Ordered, RmSegment, NEW f \in DOMAIN files \ (DOMAIN files' \cup thinned)
  PROVE  Older(f) = {}
  <1> USE DEF Ordered
  <1>1. PICK x \in batch : /\ \A y \in batch : Before(x, y)
                           /\ Unlink(x.file) \/ UNCHANGED files
    BY DEF RmSegment
  <1>2. f = x.file
    BY <1>1, UnlinkRemoves
  <1>3. Chosen = batch
    BY DEF RmSegment, TInv, PassTyped, Chosen, Range
  <1>4. PICK r \in RowsOf(f) : r.start = x.key
    BY <1>2, <1>3 DEF ChosenKeys
  <1>5. \A q \in videos : q.start \in Nat /\ q.id \in Nat
    BY DEF TInv, RowsTyped, BrokenTyped, Times
  <1> SUFFICES ASSUME NEW g \in Older(f) PROVE FALSE
    OBVIOUS
  <1>6. /\ g \notin lateLocks \cup thinned /\ RowsOf(g) # {}
        /\ \A q \in RowsOf(g) : ~q.locked /\ q.id <= mark /\ q.start < r.start
    BY DEF Older
  <1>7. PICK p \in RowsOf(g) : TRUE
    BY <1>6
  <1>8. p \in videos /\ File(p) = g /\ p.id <= mark /\ AllUnlocked(g)
    BY <1>6, <1>7 DEF RowsOf, AllUnlocked
  <1>9. \/ \E y \in Chosen : y.file = g
        \/ \E q \in RowsOf(g) : \A y \in Chosen : y.key <= q.start
    BY <1>6, <1>8 DEF NoneForgotten
  <1>10. ASSUME NEW q \in RowsOf(g), x.key <= q.start
         PROVE  FALSE
    <2>1. q \in videos /\ r \in videos /\ q.start < r.start
      BY <1>6 DEF RowsOf
    <2> QED  BY <1>4, <1>5, <1>10, <2>1
  <1>11. ASSUME NEW y \in batch, y.file = g
         PROVE  FALSE
    <2>1. PICK q \in RowsOf(g) : q.start = y.key
      BY <1>3, <1>6, <1>11 DEF ChosenKeys
    <2> QED  BY <1>1, <1>10, <2>1 DEF Before
  <1> QED  BY <1>3, <1>9, <1>10, <1>11

\* A pass that gives up early has left nothing.
LEMMA EndsEmpty ==
  ASSUME TInv, Ordered, PassEnds, target > 0, count < Extra, NEW r \in videos
  PROVE  \/ r.id > mark \/ File(r) \in lateLocks \cup thinned
         \/ \E q \in RowsOf(File(r)) : q.locked
  <1>1. batch = {} /\ Chosen = {}
    <2>1. batch = {} /\ victim = << >>
      BY DEF PassEnds, TInv, PassTyped
    <2> QED  BY <2>1 DEF Chosen, Range
  <1>2. r.id \in Nat /\ mark \in Nat /\ count \in Nat /\ Extra \in Nat
    BY FileManagerAssumption DEF TInv, RowsTyped, BrokenTyped, Ordered
  <1>3. ~(count + Cardinality(batch) >= Extra)
    BY <1>1, <1>2, FS_EmptySet
  <1> QED  BY <1>1, <1>2, <1>3 DEF Ordered, NoneForgotten, AllUnlocked

\* clean_disk() takes the oldest files first, whatever the cameras add, exports reserve and the
\* page locks meanwhile: what its query has not chosen comes after what it has.
THEOREM CleaningIsOrdered == Spec => CleansOldestFirst
  <1> DEFINE Oldest ==
        faults' = 0 =>
          /\ \A f \in DOMAIN files \ (DOMAIN files' \cup thinned) : Older(f) = {}
          /\ (/\ cleaner # "none" /\ cleaner' = "none" /\ crashes' = crashes
              /\ target > 0 /\ count < Extra) =>
               \A r \in videos : \/ r.id > mark \/ File(r) \in lateLocks \cup thinned
                                 \/ \E q \in RowsOf(File(r)) : q.locked
  <1> DEFINE OInv == IInv /\ TInv /\ WInv /\ PInv
  <1>1. ASSUME OInv, [Next]_vars
        PROVE  Oldest
    <2> SUFFICES ASSUME faults' = 0
                 PROVE  /\ \A f \in DOMAIN files \ (DOMAIN files' \cup thinned) : Older(f) = {}
                        /\ (/\ cleaner # "none" /\ cleaner' = "none" /\ crashes' = crashes
                            /\ target > 0 /\ count < Extra) =>
                             \A r \in videos : \/ r.id > mark \/ File(r) \in lateLocks \cup thinned
                                               \/ \E q \in RowsOf(File(r)) : q.locked
      OBVIOUS
    <2> USE <1>1
    <2>1. faults \in Nat /\ faults = 0 /\ ~Fails
      <3>1. faults' = faults \/ faults' = faults + 1
        BY FaultsGrow
      <3>2. faults \in Nat
        BY DEF WInv
      <3> QED  BY <3>1, <3>2 DEF Fails
    <2>2. cleaner # "none" => Ordered
      BY <2>1 DEF PInv
    <2>3. ASSUME NEW f \in DOMAIN files \ (DOMAIN files' \cup thinned)
          PROVE  Older(f) = {}
      <3>1. RmSegment
        <4>1. DeleteBroken \/ DeleteRows => files' = files
          BY DEF DeleteBroken, DeleteRows
        <4> QED  BY <2>3, <4>1, Removals
      <3>2. Ordered
        BY <2>2, <3>1 DEF RmSegment
      <3> QED  BY <3>1, <3>2, RemovesOldest
    <2>4. ASSUME cleaner # "none", cleaner' = "none", crashes' = crashes, target > 0, count < Extra,
                 NEW r \in videos
          PROVE  \/ r.id > mark \/ File(r) \in lateLocks \cup thinned
                 \/ \E q \in RowsOf(File(r)) : q.locked
      <3>1. \A c \in Cameras : ~Camera(c) /\ ~Lock(c)
        BY <2>4 DEF Camera, Begin, Open, SetupFails, Grow, CutExtend, ExtendRow, CutNew,
                    ChangePath, CloseOld, End, Lock
      <3>2. ~(MainCleans \/ ExporterCleans \/ RmSegment \/ DeleteRows)
        BY <2>4 DEF MainCleans, ExporterCleans, RmSegment, DeleteRows, CleanDisk
      <3>3. ~(Reserve \/ Main \/ UNCHANGED vars)
        <4>1. crashes + 1 # crashes
          BY DEF PInv
        <4> QED  BY <2>1, <2>4, <4>1
                 DEF Reserve, Main, SelectBroken, DeleteBroken, Launched, Reload, Crash, vars
      <3>4. PassEnds
        BY <3>1, <3>2, <3>3 DEF Next, Cleaning, Exporting
      <3> QED  BY <2>2, <2>4, <3>4, EndsEmpty
    <2> QED  BY <2>3, <2>4
  <1>2. Init => OInv
    BY InitIInv, InitTyped, InitOwn, InitPass
  <1>3. OInv /\ [Next]_vars => OInv'
    BY NextKeeps, NextTyped, StepOwn, NextOrdered
  <1>4. OInv /\ [Next]_vars => [Oldest]_vars
    BY <1>1
  <1>5. CleansOldestFirst <=> [][Oldest]_vars
    BY DEF CleansOldestFirst
  <1> HIDE DEF OInv, Oldest
  <1> QED  BY <1>2, <1>3, <1>4, <1>5, PTL DEF Spec
=============================================================================
