---------------------------- MODULE StartupProofs ----------------------------
(***************************************************************************)
(* Theorems of DatabaseManager, Configuration and Startup: for any number  *)
(* of daemons, failures and kills, a database that says it is current is   *)
(* complete, only such a database is recorded into, and the names of        *)
(* segments stay; whatever motion-mods says, and for any modules, those    *)
(* that a camera makes are in order.                                       *)
(***************************************************************************)
EXTENDS Startup, SequenceLemmas, FiniteSetTheorems

\* d is between two statements of initilize_db(), or of the upgrade functions.
Executing(d, p) == pc[d] = "statement" /\ plan[d] = p

Executed(p, n) == \A k \in 1..(n - 1) : Adds(p, k) \subseteq schema
AllNamed == \A i \in DOMAIN rows : rows[i] # 0
Recent == {2, 3, Current, Newer, Foreign}

\* What a version tells of the schema: a version that is not old, all of it.
VersionTells ==
  /\ version \in 0..(Current - 1) =>
       {"config", "videos"} \subseteq schema /\ Executed("upgrade", Begins(version))
  /\ version \in {Current, Newer, Foreign} => schema = Objects

\* What a daemon has executed is there, and an upgrade has found a table to upgrade.
StatementsTell ==
  \A d \in Daemons :
    /\ Executing(d, "create") => Executed("create", step[d])
    /\ Executing(d, "upgrade") =>
         version # None /\ {"config", "videos"} \subseteq schema /\ Executed("upgrade", step[d])

\* Only a database without a version is created, and only its creator may give it one.
CreatorAlone ==
  \A d \in Daemons : Executing(d, "create") /\ step[d] > 1 => version \in {None, Current}

\* Rows without a name exist only in an old database that nobody has taken further.
RowsTell ==
  /\ version = None => rows = << >>
  /\ version \in Recent => AllNamed
  /\ \A d \in Daemons :
       /\ Executing(d, "create") /\ step[d] > 1 => AllNamed
       /\ Executing(d, "upgrade") /\ step[d] > 5 => AllNamed

\* A daemon that is about to name the rows is the only one that has come that far, and the
\* database is still old.
NamesOnce ==
  \A d \in Daemons : Executing(d, "upgrade") /\ step[d] = 5 =>
    /\ version \in 0..1
    /\ \A e \in Daemons \ {d} : ~(Executing(e, "upgrade") /\ step[e] >= 5)

WrittenCurrent == written # {} => version \in {Current, Newer}

IInv ==
  /\ TypeOK /\ VersionTells /\ StatementsTell /\ CreatorAlone /\ RowsTell
  /\ RunsOnlyCurrent /\ NamesOnce /\ WrittenCurrent /\ NamesKept

-----------------------------------------------------------------------------
(* What the statements add *)

LEMMA AddsObjects ==
  ASSUME NEW p \in {"create", "upgrade"}, NEW n \in 1..7
  PROVE  Adds(p, n) \subseteq Objects
  BY DEF Adds, Created, Upgraded, UpgradeFrom_1_0, UpgradeFrom_1_1, UpgradeFrom_1_2,
         UpgradeFrom_1_3, Objects

LEMMA Steps ==
  /\ Adds("create", 1) = {"config"} /\ Adds("create", 2) = {"videos", "locked", "names", "codec"}
  /\ Adds("create", 3) = {"exports"} /\ Adds("create", 4) = {"images"}
  /\ Adds("create", 5) = {"events"}
  /\ Adds("upgrade", 1) = {"locked"} /\ Adds("upgrade", 2) = {"exports"}
  /\ Adds("upgrade", 3) = {"images"} /\ Adds("upgrade", 4) = {"names"}
  /\ Adds("upgrade", 6) = {"codec"} /\ Adds("upgrade", 7) = {"events"}
  BY DEF Adds, Created, Upgraded, UpgradeFrom_1_0, UpgradeFrom_1_1, UpgradeFrom_1_2,
         UpgradeFrom_1_3

\* All of the statements add everything.
LEMMA Complete ==
  ASSUME schema \subseteq Objects,
         \/ Executed("create", 6)
         \/ {"config", "videos"} \subseteq schema /\ Executed("upgrade", 8)
  PROVE  schema = Objects
  <1>1. CASE Executed("create", 6)
    <2>1. /\ Adds("create", 1) \subseteq schema /\ Adds("create", 2) \subseteq schema
          /\ Adds("create", 3) \subseteq schema /\ Adds("create", 4) \subseteq schema
          /\ Adds("create", 5) \subseteq schema
      BY <1>1 DEF Executed
    <2> QED  BY <2>1, Steps DEF Objects
  <1>2. CASE {"config", "videos"} \subseteq schema /\ Executed("upgrade", 8)
    <2>1. /\ Adds("upgrade", 1) \subseteq schema /\ Adds("upgrade", 2) \subseteq schema
          /\ Adds("upgrade", 3) \subseteq schema /\ Adds("upgrade", 4) \subseteq schema
          /\ Adds("upgrade", 6) \subseteq schema /\ Adds("upgrade", 7) \subseteq schema
      BY <1>2 DEF Executed
    <2> QED  BY <1>2, <2>1, Steps DEF Objects
  <1> QED  BY <1>1, <1>2

LEMMA BeginsRange ==
  ASSUME NEW v \in 0..3
  PROVE  Begins(v) \in {1, 3, 6, 7} /\ (Begins(v) > 5 <=> v \in {2, 3})
  BY DEF Begins

-----------------------------------------------------------------------------
(* The steps that leave the database alone *)

\* d stops executing statements, or has not begun to; it runs only if the version allows it.
Quiet(d) ==
  /\ UNCHANGED <<schema, version, rows, plan, step, written>>
  /\ \E to \in {"down", "check", "run"} :
       pc' = [pc EXCEPT ![d] = to] /\ (to = "run" => version \in {Current, Newer})
  /\ faults' \in Nat

\* d begins to execute the statements of a plan.
Plans(d) ==
  /\ UNCHANGED <<schema, version, rows, written>>
  /\ \/ Execute(d, "create", 1)
     \/ version \in 0..3 /\ Execute(d, "upgrade", Begins(version))
  /\ faults' \in Nat

\* Every step is one of five kinds.
LEMMA StepKinds ==
  ASSUME TypeOK, NEW d \in Daemons, Start(d) \/ DaemonStep(d)
  PROVE  Quiet(d) \/ Plans(d) \/ Statement(d) \/ SetLatestVersion(d) \/ Record(d)
  <1>1. Start(d) => Quiet(d)
    BY DEF TypeOK, Start, Quiet
  <1>2. CheckEmpty(d) => Plans(d)
    BY DEF TypeOK, CheckEmpty, Plans, Fault
  <1>3. CheckOld(d) => Plans(d)
    BY DEF TypeOK, CheckOld, Plans, Current
  <1>4. CheckCurrent(d) => Quiet(d)
    BY DEF TypeOK, CheckCurrent, Quiet
  <1>5. CheckForeign(d) => Quiet(d)
    BY DEF TypeOK, CheckForeign, Quiet, Exit
  <1>6. StatementFails(d) => Quiet(d)
    BY DEF TypeOK, StatementFails, Quiet, Exit, Fault
  <1>7. Stop(d) => Quiet(d)
    BY DEF TypeOK, Stop, Quiet, Exit
  <1>8. Kill(d) => Quiet(d)
    BY DEF TypeOK, Kill, Quiet, Exit, Fault
  <1> QED  BY <1>1, <1>2, <1>3, <1>4, <1>5, <1>6, <1>7, <1>8 DEF DaemonStep

-----------------------------------------------------------------------------
(* The initial states *)

LEMMA InitIInv == Init => IInv
  <1> SUFFICES ASSUME Init PROVE IInv
    OBVIOUS
  <1> USE DEF Init
  <1>1. schema \subseteq Objects
    <2>1. ASSUME version \in 0..3 PROVE Old(version) \subseteq Objects
      <3>1. Begins(version) \in {1, 3, 6, 7}
        BY <2>1, BeginsRange
      <3>2. \A k \in 1..(Begins(version) - 1) : Upgraded(k) \subseteq Objects
        BY <3>1, AddsObjects DEF Adds
      <3> QED  BY <3>1, <3>2 DEF Old, Earlier, Objects
    <2> QED  BY <2>1 DEF Current
  <1>2. TypeOK
    <2>1. rows \in Seq(Nat)
      OBVIOUS
    <2> QED  BY <1>1, <2>1 DEF TypeOK, None, Foreign
  <1>3. VersionTells
    <2>1. ASSUME version \in 0..3
          PROVE  {"config", "videos"} \subseteq schema /\ Executed("upgrade", Begins(version))
      <3>1. schema = Old(version)
        BY <2>1 DEF None, Current
      <3>2. Begins(version) \in {1, 3, 6, 7}
        BY <2>1, BeginsRange
      <3>3. \A k \in 1..(Begins(version) - 1) : Upgraded(k) \subseteq schema
        BY <3>1 DEF Old, Earlier
      <3> QED  BY <3>1, <3>2, <3>3 DEF Old, Executed, Adds
    <2>2. version \in {Current, Newer, Foreign} => schema = Objects
      BY DEF None, Current, Newer, Foreign
    <2> QED  BY <2>1, <2>2 DEF VersionTells, Current
  <1>4. StatementsTell /\ CreatorAlone /\ RunsOnlyCurrent /\ NamesOnce
    BY DEF StatementsTell, CreatorAlone, RunsOnlyCurrent, NamesOnce, Executing
  <1>5. RowsTell
    <2>1. version = None => rows = << >>
      OBVIOUS
    <2>2. version \in Recent => AllNamed
      BY DEF Recent, AllNamed, None, Current, Newer, Foreign
    <2> QED  BY <2>1, <2>2 DEF RowsTell, Executing
  <1>6. WrittenCurrent /\ NamesKept
    BY DEF WrittenCurrent, NamesKept
  <1> QED  BY <1>2, <1>3, <1>4, <1>5, <1>6 DEF IInv

-----------------------------------------------------------------------------
(* Each kind of step *)

LEMMA QuietKeeps ==
  ASSUME IInv, NEW d \in Daemons, Quiet(d)
  PROVE  IInv'
  <1> USE DEF IInv, Quiet
  <1>0. PICK to \in {"down", "check", "run"} :
          pc' = [pc EXCEPT ![d] = to] /\ (to = "run" => version \in {Current, Newer})
    OBVIOUS
  <1>1. TypeOK'
    BY <1>0 DEF TypeOK
  <1>2. \A e \in Daemons, p \in {"create", "upgrade"} : Executing(e, p)' => Executing(e, p)
    BY <1>0 DEF Executing, TypeOK
  <1>3. VersionTells'
    BY DEF VersionTells, Executed
  <1>4. StatementsTell'
    BY <1>2 DEF StatementsTell, Executed
  <1>5. CreatorAlone'
    BY <1>2 DEF CreatorAlone
  <1>6. RowsTell'
    BY <1>2 DEF RowsTell, AllNamed
  <1>7. RunsOnlyCurrent'
    BY <1>0 DEF RunsOnlyCurrent, TypeOK
  <1>8. NamesOnce'
    BY <1>2 DEF NamesOnce
  <1>9. WrittenCurrent' /\ NamesKept'
    BY DEF WrittenCurrent, NamesKept
  <1> QED  BY <1>1, <1>3, <1>4, <1>5, <1>6, <1>7, <1>8, <1>9

LEMMA PlansKeeps ==
  ASSUME IInv, NEW d \in Daemons, Plans(d)
  PROVE  IInv'
  <1> USE DEF IInv
  <1> UNCHANGED <<schema, version, rows, written>> /\ faults' \in Nat
    BY DEF Plans
  <1>0. PICK p \in {"create", "upgrade"}, n \in {1, 3, 6, 7} :
          /\ Execute(d, p, n)
          /\ p = "create" => n = 1
          /\ p = "upgrade" => version \in 0..3 /\ n = Begins(version)
    BY BeginsRange DEF Plans
  <1> USE DEF Execute
  <1>1. TypeOK'
    BY <1>0 DEF TypeOK
  <1>2. \A e \in Daemons \ {d}, q \in {"create", "upgrade"} :
          Executing(e, q)' => Executing(e, q) /\ step'[e] = step[e]
    BY <1>0 DEF Executing, TypeOK
  <1>3. (Executing(d, "create")' => p = "create") /\ (Executing(d, "upgrade")' => p = "upgrade")
        /\ step'[d] = n
    BY <1>0 DEF Executing, TypeOK
  <1>4. VersionTells'
    BY DEF VersionTells, Executed
  <1>5. StatementsTell'
    <2>1. p = "create" => Executed("create", n)
      BY <1>0 DEF Executed
    <2>2. p = "upgrade" =>
            version # None /\ {"config", "videos"} \subseteq schema /\ Executed("upgrade", n)
      BY <1>0 DEF VersionTells, None, Current
    <2>3. ASSUME NEW e \in Daemons, e # d
          PROVE  /\ Executing(e, "create")' => Executed("create", step[e])
                 /\ Executing(e, "upgrade")' =>
                      /\ version # None /\ {"config", "videos"} \subseteq schema
                      /\ Executed("upgrade", step[e])
      BY <1>2, <2>3 DEF StatementsTell
    <2> QED  BY <1>2, <1>3, <2>1, <2>2, <2>3 DEF StatementsTell, Executed
  <1>6. CreatorAlone'
    BY <1>0, <1>2, <1>3 DEF CreatorAlone
  <1>7. RowsTell'
    <2>1. p = "upgrade" /\ n > 5 => AllNamed
      BY <1>0, BeginsRange DEF RowsTell, Recent
    <2>2. ASSUME NEW e \in Daemons, e # d
          PROVE  /\ Executing(e, "create")' /\ step'[e] > 1 => AllNamed
                 /\ Executing(e, "upgrade")' /\ step'[e] > 5 => AllNamed
      BY <1>2, <2>2 DEF RowsTell
    <2>3. /\ Executing(d, "create")' /\ step'[d] > 1 => AllNamed
          /\ Executing(d, "upgrade")' /\ step'[d] > 5 => AllNamed
      BY <1>0, <1>3, <2>1
    <2> QED  BY <2>2, <2>3 DEF RowsTell, AllNamed
  <1>8. RunsOnlyCurrent'
    BY <1>0 DEF RunsOnlyCurrent, TypeOK
  <1>9. NamesOnce'
    <2> SUFFICES ASSUME NEW f \in Daemons, Executing(f, "upgrade")', step'[f] = 5
                 PROVE  /\ version \in 0..1
                        /\ \A e \in Daemons \ {f} : ~(Executing(e, "upgrade")' /\ step'[e] >= 5)
      BY DEF NamesOnce
    <2>1. f # d
      BY <1>3
    <2>2. /\ version \in 0..1
          /\ \A e \in Daemons \ {f} : ~(Executing(e, "upgrade") /\ step[e] >= 5)
      BY <1>2, <2>1 DEF NamesOnce
    <2>3. ~(Executing(d, "upgrade")' /\ step'[d] >= 5)
      BY <1>0, <1>3, <2>2, BeginsRange
    <2> QED  BY <1>2, <2>2, <2>3
  <1>10. WrittenCurrent' /\ NamesKept'
    BY DEF WrittenCurrent, NamesKept
  <1> QED  BY <1>1, <1>4, <1>5, <1>6, <1>7, <1>8, <1>9, <1>10

\* A statement is executed only once, since it adds what was not there.
LEMMA StatementKeeps ==
  ASSUME IInv, NEW d \in Daemons, Statement(d)
  PROVE  IInv'
  <1> USE DEF IInv
  <1>a. PICK p \in {"create", "upgrade"} : p = plan[d]
    BY DEF TypeOK
  <1>b. step[d] \in 1..(IF p = "create" THEN 6 ELSE 8)
    BY <1>a DEF TypeOK
  <1>c. /\ pc[d] = "statement" /\ step[d] <= LastStatement(p)
        /\ ~Fails(p, step[d]) /\ schema' = schema \cup Adds(p, step[d])
        /\ rows' = (IF p = "upgrade" /\ step[d] = 5 THEN [i \in DOMAIN rows |-> i] ELSE rows)
        /\ Execute(d, p, step[d] + 1) /\ UNCHANGED <<version, faults, written>>
    BY <1>a DEF Statement
  <1>d. step[d] \in 1..7 /\ (p = "create" => step[d] <= 5)
    BY <1>b, <1>c DEF LastStatement
  <1>e. PICK n \in 1..7 : n = step[d]
    BY <1>d
  <1>0. /\ p \in {"create", "upgrade"} /\ n \in 1..7 /\ (p = "create" => n <= 5)
        /\ Executing(d, p) /\ ~Fails(p, n) /\ schema' = schema \cup Adds(p, n)
        /\ rows' = (IF p = "upgrade" /\ n = 5 THEN [i \in DOMAIN rows |-> i] ELSE rows)
        /\ Execute(d, p, n + 1) /\ UNCHANGED <<version, faults, written>>
    BY <1>a, <1>c, <1>d, <1>e DEF Executing
  <1>1. /\ pc' = [pc EXCEPT ![d] = "statement"] /\ plan' = [plan EXCEPT ![d] = p]
        /\ step' = [step EXCEPT ![d] = n + 1]
    BY <1>0 DEF Execute
  <1>2. TypeOK'
    <2>1. schema' \subseteq Objects
      BY <1>0, AddsObjects DEF TypeOK
    <2>2. rows' \in Seq(Nat)
      BY <1>0 DEF TypeOK
    <2>3. ASSUME NEW e \in Daemons
          PROVE  step'[e] \in 1..(IF plan'[e] = "create" THEN 6 ELSE 8)
      <3>1. CASE e = d
        <4>1. step'[e] = n + 1 /\ plan'[e] = p
          BY <3>1, <1>1 DEF TypeOK
        <4> QED  BY <4>1, <1>0
      <3>2. CASE e # d
        <4>1. step'[e] = step[e] /\ plan'[e] = plan[e]
          BY <3>2, <1>1 DEF TypeOK
        <4> QED  BY <4>1 DEF TypeOK
      <3> QED  BY <3>1, <3>2
    <2> QED  BY <1>0, <1>1, <2>1, <2>2, <2>3 DEF TypeOK
  <1>3. \A e \in Daemons \ {d}, q \in {"create", "upgrade"} :
          (Executing(e, q)' <=> Executing(e, q)) /\ step'[e] = step[e]
    BY <1>1 DEF Executing, TypeOK
  <1>4. /\ Executing(d, "create")' => p = "create"
        /\ Executing(d, "upgrade")' => p = "upgrade"
        /\ step'[d] = n + 1 /\ step[d] = n /\ plan[d] = p
    BY <1>1, <1>a, <1>e DEF Executing, TypeOK
  <1>5. schema \subseteq schema'
    BY <1>0
  <1>6. VersionTells'
    BY <1>0, <1>5, AddsObjects DEF VersionTells, Executed, TypeOK
  <1>7. StatementsTell'
    <2>1. Executed(p, n)
      BY <1>0, <1>4 DEF StatementsTell
    <2>2. Executed(p, n + 1)'
      <3>1. ASSUME NEW k \in 1..n
            PROVE  Adds(p, k) \subseteq schema'
        <4>1. CASE k = n
          BY <4>1, <1>0
        <4>2. CASE k # n
          <5>1. k \in 1..(n - 1)
            BY <4>2, <3>1
          <5>2. Adds(p, k) \subseteq schema
            BY <5>1, <2>1 DEF Executed
          <5> QED  BY <5>2, <1>5
        <4> QED  BY <4>1, <4>2
      <3> QED  BY <3>1 DEF Executed
    <2>3. p = "upgrade" => version # None /\ {"config", "videos"} \subseteq schema
      BY <1>0 DEF StatementsTell
    <2>4. ASSUME NEW e \in Daemons, e # d
          PROVE  /\ Executing(e, "create")' => Executed("create", step[e])'
                 /\ Executing(e, "upgrade")' =>
                      /\ version # None /\ {"config", "videos"} \subseteq schema
                      /\ Executed("upgrade", step[e])'
      BY <1>3, <1>5, <2>4 DEF StatementsTell, Executed
    <2>5. /\ Executing(d, "create")' => Executed("create", step[d])'
          /\ Executing(d, "upgrade")' =>
               /\ version # None /\ {"config", "videos"} \subseteq schema
               /\ Executed("upgrade", step[d])'
      BY <1>4, <2>2, <2>3
    <2> QED  BY <1>0, <1>5, <2>4, <2>5 DEF StatementsTell
  <1>8. p = "create" /\ n = 1 => version = None
    BY <1>0, Steps DEF VersionTells, Fails, Objects, TypeOK, None, Current, Newer, Foreign
  <1>9. CreatorAlone'
    BY <1>0, <1>3, <1>4, <1>8 DEF CreatorAlone
  <1>10. p = "upgrade" /\ n = 5 => version \in 0..1
    BY <1>0, <1>4 DEF NamesOnce
  <1>11. RowsTell'
    <2>1. AllNamed => AllNamed'
      BY <1>0 DEF AllNamed, TypeOK
    <2>2. p = "upgrade" /\ n = 5 => AllNamed'
      BY <1>0 DEF AllNamed, TypeOK
    <2>3. version = None => rows' = << >>
      BY <1>0, <1>10 DEF RowsTell, None
    <2>4. (p = "create" => AllNamed) /\ (p = "upgrade" /\ n > 5 => AllNamed)
      <3>1. rows = << >> => AllNamed
        BY DEF AllNamed
      <3> QED  BY <1>0, <1>4, <1>8, <3>1 DEF RowsTell
    <2>5. ASSUME NEW e \in Daemons, e # d
          PROVE  /\ Executing(e, "create")' /\ step'[e] > 1 => AllNamed'
                 /\ Executing(e, "upgrade")' /\ step'[e] > 5 => AllNamed'
      BY <1>3, <2>1, <2>5 DEF RowsTell
    <2>6. /\ Executing(d, "create")' /\ step'[d] > 1 => AllNamed'
          /\ Executing(d, "upgrade")' /\ step'[d] > 5 => AllNamed'
      BY <1>0, <1>4, <2>1, <2>2, <2>4
    <2>7. version \in Recent => AllNamed'
      BY <2>1 DEF RowsTell
    <2> QED  BY <1>0, <2>3, <2>5, <2>6, <2>7 DEF RowsTell, Recent
  <1>12. RunsOnlyCurrent'
    BY <1>0, <1>1 DEF RunsOnlyCurrent, TypeOK
  <1>13. NamesOnce'
    <2> SUFFICES ASSUME NEW f \in Daemons, Executing(f, "upgrade")', step'[f] = 5
                 PROVE  /\ version \in 0..1
                        /\ \A e \in Daemons \ {f} : ~(Executing(e, "upgrade")' /\ step'[e] >= 5)
      BY <1>0 DEF NamesOnce
    <2>1. CASE f = d
      <3>1. p = "upgrade" /\ n = 4
        BY <1>0, <1>4, <2>1
      <3>2. "names" \notin schema
        BY <1>0, <3>1, Steps DEF Fails
      <3>3. version \in 0..1
        <4>1. version # None
          BY <1>0, <3>1 DEF StatementsTell
        <4>2. version \notin {Current, Newer, Foreign}
          BY <3>2 DEF VersionTells, Objects
        <4>3. ASSUME version \in {2, 3} PROVE FALSE
          <5>1. Begins(version) > 5 /\ Begins(version) \in Nat
            BY <4>3, BeginsRange
          <5>2. Executed("upgrade", Begins(version))
            BY <4>3 DEF VersionTells, Current
          <5>3. Adds("upgrade", 4) \subseteq schema
            BY <5>1, <5>2 DEF Executed
          <5> QED  BY <3>2, <5>3, Steps
        <4> QED  BY <4>1, <4>2, <4>3 DEF TypeOK, None, Current, Newer, Foreign
      <3>4. ASSUME NEW e \in Daemons \ {d}, Executing(e, "upgrade"), step[e] >= 5
            PROVE  FALSE
        <4>1. Executed("upgrade", step[e]) /\ step[e] \in Nat
          BY <3>4 DEF StatementsTell, TypeOK
        <4>2. Adds("upgrade", 4) \subseteq schema
          BY <3>4, <4>1 DEF Executed
        <4> QED  BY <3>2, <4>2, Steps
      <3> QED  BY <1>3, <2>1, <3>3, <3>4
    <2>2. CASE f # d
      <3>1. /\ version \in 0..1 /\ Executing(f, "upgrade") /\ step[f] = 5
            /\ \A e \in Daemons \ {f} : ~(Executing(e, "upgrade") /\ step[e] >= 5)
        BY <1>3, <2>2 DEF NamesOnce
      <3>2. "names" \in schema
        <4>1. Adds("upgrade", 4) \subseteq schema
          BY <3>1 DEF StatementsTell, Executed
        <4> QED  BY <4>1, Steps
      <3>3. ~(p = "upgrade" /\ n >= 4)
        <4>1. ~(p = "upgrade" /\ n = 4)
          BY <1>0, <3>2, Steps DEF Fails
        <4>2. ~(p = "upgrade" /\ n >= 5)
          BY <1>0, <1>4, <2>2, <3>1
        <4> QED  BY <1>0, <4>1, <4>2
      <3>4. ~(Executing(d, "upgrade")' /\ step'[d] >= 5)
        BY <1>0, <1>4, <3>3
      <3> QED  BY <1>3, <3>1, <3>4
    <2> QED  BY <2>1, <2>2
  <1>14. WrittenCurrent'
    BY <1>0 DEF WrittenCurrent
  <1>15. NamesKept'
    <2>1. p = "upgrade" /\ n = 5 => written = {}
      BY <1>10 DEF WrittenCurrent, Current, Newer
    <2> QED  BY <1>0, <2>1 DEF NamesKept
  <1> QED  BY <1>2, <1>6, <1>7, <1>9, <1>11, <1>12, <1>13, <1>14, <1>15

LEMMA SetLatestVersionKeeps ==
  ASSUME IInv, NEW d \in Daemons, SetLatestVersion(d)
  PROVE  IInv'
  <1> USE DEF IInv
  <1>0. PICK to \in {"down", "run"} :
          /\ pc' = [pc EXCEPT ![d] = to] /\ version' = Current
          /\ UNCHANGED <<schema, rows, plan, step, faults, written>>
    BY DEF SetLatestVersion
  <1>1. \/ Executing(d, "create") /\ step[d] = 6
        \/ Executing(d, "upgrade") /\ step[d] = 8
    BY DEF SetLatestVersion, Executing, TypeOK, LastStatement
  <1>2. schema = Objects
    BY <1>1, Complete DEF StatementsTell, TypeOK
  <1>3. AllNamed
    BY <1>1 DEF RowsTell
  <1>4. TypeOK'
    BY <1>0 DEF TypeOK, Current, Foreign
  <1>5. \A e \in Daemons, p \in {"create", "upgrade"} : Executing(e, p)' => Executing(e, p)
    BY <1>0 DEF Executing, TypeOK
  <1>6. VersionTells'
    BY <1>0, <1>2 DEF VersionTells, Current
  <1>7. StatementsTell'
    BY <1>0, <1>5 DEF StatementsTell, Executed, None, Current
  <1>8. CreatorAlone'
    BY <1>0, <1>5 DEF CreatorAlone
  <1>9. RowsTell'
    BY <1>0, <1>3, <1>5 DEF RowsTell, AllNamed, None, Current
  <1>10. RunsOnlyCurrent'
    BY <1>0 DEF RunsOnlyCurrent, TypeOK
  <1>11. NamesOnce'
    <2> SUFFICES ASSUME NEW f \in Daemons, Executing(f, "upgrade")', step'[f] = 5 PROVE FALSE
      BY DEF NamesOnce
    <2>1. f # d
      BY <1>0 DEF Executing, TypeOK
    <2>2. Executing(f, "upgrade") /\ step[f] = 5
      BY <1>0, <1>5
    <2>3. /\ version \in 0..1
          /\ ~(Executing(d, "upgrade") /\ step[d] >= 5)
      BY <2>1, <2>2 DEF NamesOnce
    <2>4. Executing(d, "create") /\ step[d] = 6
      BY <1>1, <2>3
    <2> QED  BY <2>3, <2>4 DEF CreatorAlone, None, Current
  <1>12. WrittenCurrent' /\ NamesKept'
    BY <1>0 DEF WrittenCurrent, NamesKept
  <1> QED  BY <1>4, <1>6, <1>7, <1>8, <1>9, <1>10, <1>11, <1>12

LEMMA RecordKeeps ==
  ASSUME IInv, NEW d \in Daemons, Record(d)
  PROVE  IInv'
  <1> USE DEF IInv
  <1>0. PICK name \in {Len(rows) + 1} \cup {rows[i] : i \in DOMAIN rows} :
          /\ rows' = Append(rows, name)
          /\ written' = written \cup {[row |-> Len(rows) + 1, name |-> name]}
    BY DEF Record
  <1>1. pc[d] = "run" /\ UNCHANGED <<schema, version, pc, plan, step, faults>>
    BY DEF Record
  <1>2. version \in {Current, Newer}
    BY <1>1 DEF RunsOnlyCurrent
  <1>3. AllNamed
    BY <1>2 DEF RowsTell, Recent
  <1>4. rows \in Seq(Nat) /\ name \in Nat /\ name # 0
    BY <1>3 DEF TypeOK, AllNamed
  <1>5. TypeOK'
    <2>1. rows' \in Seq(Nat)
      BY <1>0, <1>4
    <2>2. written' \subseteq [row : Nat, name : Nat]
      BY <1>0, <1>4 DEF TypeOK
    <2> QED  BY <1>1, <2>1, <2>2 DEF TypeOK
  <1>6. AllNamed'
    BY <1>0, <1>3, <1>4 DEF AllNamed
  <1>7. VersionTells' /\ StatementsTell' /\ CreatorAlone' /\ RunsOnlyCurrent' /\ NamesOnce'
    BY <1>1 DEF VersionTells, StatementsTell, CreatorAlone, RunsOnlyCurrent, NamesOnce, Executing,
                Executed
  <1>8. RowsTell'
    BY <1>1, <1>2, <1>6 DEF RowsTell, None, Current, Newer
  <1>9. WrittenCurrent'
    BY <1>1, <1>2 DEF WrittenCurrent
  <1>10. NamesKept'
    BY <1>0, <1>4 DEF NamesKept
  <1> QED  BY <1>5, <1>7, <1>8, <1>9, <1>10

-----------------------------------------------------------------------------
(* The theorems of DatabaseManager *)

\* The invariant, whatever the number of daemons: what the version, the statements that a
\* daemon has executed and the names of the rows tell of each other.
THEOREM Invariant == Spec => []IInv
  <1>1. IInv /\ [Next]_dbVars => IInv'
    <2> SUFFICES ASSUME IInv, [Next]_dbVars PROVE IInv'
      OBVIOUS
    <2>1. CASE Next
      <3>1. PICK d \in Daemons : Start(d) \/ DaemonStep(d)
        BY <2>1 DEF Next
      <3>2. Quiet(d) \/ Plans(d) \/ Statement(d) \/ SetLatestVersion(d) \/ Record(d)
        BY <3>1, StepKinds DEF IInv
      <3> QED  BY <3>2, QuietKeeps, PlansKeeps, StatementKeeps, SetLatestVersionKeeps, RecordKeeps
    <2>2. CASE UNCHANGED dbVars
      BY <2>2 DEF dbVars, IInv, TypeOK, VersionTells, StatementsTell, CreatorAlone, RowsTell,
                  RunsOnlyCurrent, NamesOnce, WrittenCurrent, NamesKept, Executing, Executed,
                  AllNamed
    <2> QED  BY <2>1, <2>2
  <1> QED  BY <1>1, InitIInv, PTL DEF Spec

\* Every variable of the database and of its daemons keeps its type, and no daemon goes past
\* its last statement.
THEOREM TypeCorrect == Spec => []TypeOK
  <1>1. IInv => TypeOK
    BY DEF IInv
  <1> QED  BY <1>1, Invariant, PTL

\* A database that says it is current is complete, only such a database is recorded into, and
\* no upgrade overwrites the name of a recorded segment: for any number of daemons that are
\* started, killed and restarted in the middle of creating or upgrading it.
THEOREM Sound == Spec => []DatabaseSound
  <1>1. IInv => DatabaseSound
    <2> SUFFICES ASSUME IInv PROVE DatabaseSound
      OBVIOUS
    <2>1. CompleteWhenCurrent
      BY DEF IInv, CompleteWhenCurrent, VersionTells, RowsTell, Recent, AllNamed
    <2> QED  BY <2>1 DEF IInv, DatabaseSound
  <1> QED  BY <1>1, Invariant, PTL

-----------------------------------------------------------------------------
(* The modules of a camera *)

Ranks(rank) ==
  /\ rank \in [Supported -> Nat]
  /\ \A m \in Supported : \A name \in Range(Requires[m]) : rank[name] < rank[m]

IsController(b) ==
  /\ DOMAIN b = {"mods", "names", "calls"}
  /\ b.mods \in Seq(Supported) /\ b.calls \in Seq(Supported \X Supported)

\* Every module but the j-th, as for name, has what it requires before it, or asks for it.
OrderedBut(b, name, j) ==
  \A i \in 1..Len(b.mods) : \A n \in Range(Requires[b.mods[i]]) :
    \/ \E h \in 1..(i - 1) : b.mods[h] = n
    \/ <<n, b.mods[i]>> \in Range(b.calls)
    \/ i = j /\ n = name

\* A call is one of a module that requires the name; the next one comes from the earliest
\* module, and the modules that follow it wait for one another, from the last one on.
CallsMade(b) ==
  \A k \in 1..Len(b.calls) : \E j \in 1..Len(b.mods) :
    b.mods[j] = b.calls[k][2] /\ b.calls[k][1] \in Range(Requires[b.mods[j]])
CallersFrom(b, at) ==
  \A k \in 1..Len(b.calls), j \in 1..Len(b.mods) : b.mods[j] = b.calls[k][2] => at <= j
CallsInOrder(b) ==
  \A k, l \in 1..Len(b.calls), i, j \in 1..Len(b.mods) :
    k <= l /\ b.mods[i] = b.calls[k][2] /\ b.mods[j] = b.calls[l][2] => i <= j
RiseFrom(rank, b, at) ==
  \A i, j \in at..Len(b.mods) : i < j => rank[b.mods[i]] < rank[b.mods[j]]
CallersWait(rank, b) ==
  \A k \in 1..Len(b.calls), j \in 1..Len(b.mods) :
    b.mods[j] = b.calls[k][2] => RiseFrom(rank, b, j)

Distinct(b) == \A i, j \in 1..Len(b.mods) : b.mods[i] = b.mods[j] => i = j

BuildInv(rank, b) ==
  /\ IsController(b) /\ Distinct(b) /\ OrderedBut(b, << >>, 0)
  /\ CallsMade(b) /\ CallsInOrder(b) /\ CallersWait(rank, b)

\* What holds when a module is about to be allocated at a place.
AllocateInv(rank, b, at, name) ==
  /\ IsController(b) /\ Distinct(b) /\ OrderedBut(b, name, at)
  /\ CallsMade(b) /\ CallsInOrder(b) /\ CallersWait(rank, b) /\ CallersFrom(b, at)
  /\ at \in 1..(Len(b.mods) + 1) /\ name \in Supported
  /\ \A i \in 1..Len(b.mods) : b.mods[i] # name
  /\ RiseFrom(rank, b, at) /\ \A i \in at..Len(b.mods) : rank[name] < rank[b.mods[i]]

LEMMA RequiresTyped ==
  ASSUME NEW name \in Supported
  PROVE  /\ Requires[name] \in Seq(Supported) /\ Range(Requires[name]) \subseteq Supported
         /\ Len(Requires[name]) \in Nat
         /\ \A k \in 1..Len(Requires[name]) : Requires[name][k] \in Range(Requires[name])
         /\ \A n \in Range(Requires[name]) :
              \E k \in 1..Len(Requires[name]) : Requires[name][k] = n
  <1>1. Requires[name] \in Seq(Supported)
    BY ConfigurationAssumption
  <1> DEFINE R == Requires[name]
  <1>2. Len(R) \in Nat /\ DOMAIN R = 1..Len(R) /\ \A k \in 1..Len(R) : R[k] \in Supported
    BY <1>1, LenProperties, ElementOfSeq
  <1> HIDE DEF R
  <1>3. Range(R) = {R[k] : k \in 1..Len(R)}
    BY <1>2 DEF Range
  <1> QED  BY <1>1, <1>2, <1>3 DEF R

LEMMA AllocateFields ==
  ASSUME NEW b, NEW at, NEW name, DOMAIN b = {"mods", "names", "calls"}
  PROVE  /\ DOMAIN Allocate(b, at, name) = {"mods", "names", "calls"}
         /\ Allocate(b, at, name).mods = InsertAt(b.mods, at, name)
         /\ Allocate(b, at, name).calls = Asks(name) \o b.calls
  <1>1. Allocate(b, at, name)
          = [b EXCEPT !.mods = InsertAt(b.mods, at, name), !.calls = Asks(name) \o b.calls]
    BY DEF Allocate
  <1> QED  BY <1>1

\* The calls of a module come before those that are there.
LEMMA AsksFirst ==
  ASSUME NEW q \in Seq(Supported \X Supported), NEW name \in Supported
  PROVE  /\ Asks(name) \o q \in Seq(Supported \X Supported)
         /\ Len(Asks(name) \o q) = Len(Requires[name]) + Len(q)
         /\ \A k \in 1..Len(Requires[name]) : (Asks(name) \o q)[k] = <<Requires[name][k], name>>
         /\ \A l \in 1..Len(q) : (Asks(name) \o q)[Len(Requires[name]) + l] = q[l]
  <1> DEFINE R == Requires[name]
             P == Asks(name)
  <1>4. R \in Seq(Supported) /\ Len(R) \in Nat /\ DOMAIN R = 1..Len(R)
        /\ \A k \in 1..Len(R) : R[k] \in Supported
    BY ConfigurationAssumption, LenProperties, ElementOfSeq
  <1>5. P \in Seq(Supported \X Supported) /\ Len(P) = Len(R) /\ \A k \in 1..Len(R) : P[k] = <<R[k], name>>
    <2>1. P = [i \in DOMAIN R |-> <<R[i], name>>]
      BY DEF Asks
    <2> HIDE DEF R, P
    <2> QED  BY <1>4, <2>1
  <1> HIDE DEF R, P
  <1>6. /\ P \o q \in Seq(Supported \X Supported)
        /\ Len(P \o q) = Len(P) + Len(q)
        /\ \A i \in 1..(Len(P) + Len(q)) :
             (P \o q)[i] = IF i <= Len(P) THEN P[i] ELSE q[i - Len(P)]
    BY <1>5, ConcatProperties
  <1>7. Len(q) \in Nat
    BY LenProperties
  <1>8. \A k \in 1..Len(R) : (P \o q)[k] = <<R[k], name>>
    BY <1>4, <1>5, <1>6, <1>7
  <1>9. ASSUME NEW l \in 1..Len(q) PROVE (P \o q)[Len(R) + l] = q[l]
    <2>1. /\ Len(R) + l \in 1..(Len(R) + Len(q)) /\ ~(Len(R) + l <= Len(R))
          /\ (Len(R) + l) - Len(R) = l
      BY <1>4, <1>7
    <2> QED  BY <1>5, <1>6, <2>1
  <1>10. Len(P \o q) = Len(R) + Len(q)
    BY <1>5, <1>6
  <1> QED  BY <1>6, <1>8, <1>9, <1>10, Zenon DEF P, R

LEMMA NewPlaces ==
  ASSUME NEW n \in Nat, NEW at \in 1..(n + 1)
  PROVE  /\ \A i \in 1..n : NewPlace(at, i) \in 1..(n + 1) /\ NewPlace(at, i) # at
         /\ \A i \in 1..n : (at <= i) => (at < NewPlace(at, i))
         /\ \A i \in 1..n : (at <= NewPlace(at, i)) => (at <= i)
         /\ \A i, j \in 1..n : (i < j) => (NewPlace(at, i) < NewPlace(at, j))
         /\ \A i, j \in 1..n : (i <= j) => (NewPlace(at, i) <= NewPlace(at, j))
         /\ \A i, j \in 1..n : (NewPlace(at, i) < NewPlace(at, j)) => (i < j)
         /\ \A i, j \in 1..n : (NewPlace(at, i) <= NewPlace(at, j)) => (i <= j)
         /\ \A j \in 1..(n + 1) : j = at \/ \E i \in 1..n : j = NewPlace(at, i)
  <1>1. ASSUME NEW j \in 1..(n + 1), j # at PROVE \E i \in 1..n : j = NewPlace(at, i)
    <2>1. CASE j < at
      <3>1. j \in 1..n /\ NewPlace(at, j) = j
        BY <2>1 DEF NewPlace
      <3> QED  BY <3>1
    <2>2. CASE j > at
      <3>1. j - 1 \in 1..n /\ NewPlace(at, j - 1) = j
        BY <2>2 DEF NewPlace
      <3> QED  BY <3>1
    <2> QED  BY <1>1, <2>1, <2>2
  <1> QED  BY <1>1 DEF NewPlace

LEMMA AllocateKeeps ==
  ASSUME NEW rank, Ranks(rank), NEW b, NEW at, NEW name, AllocateInv(rank, b, at, name)
  PROVE  BuildInv(rank, Allocate(b, at, name))
  <1> DEFINE c == Allocate(b, at, name)
             R == Requires[name]
             m == b.mods
             n == Len(m)
             u == InsertAt(m, at, name)
             q == b.calls
             v == Asks(name) \o q
  <1>1. /\ IsController(b) /\ at \in 1..(n + 1) /\ name \in Supported
        /\ m \in Seq(Supported) /\ q \in Seq(Supported \X Supported)
        /\ \A i \in 1..n : m[i] # name
    BY Zenon DEF AllocateInv, IsController
  <1>2. /\ u \in Seq(Supported) /\ v \in Seq(Supported \X Supported)
        /\ Len(u) = n + 1 /\ u[at] = name
        /\ \A i \in 1..n : u[NewPlace(at, i)] = m[i]
        /\ Len(v) = Len(R) + Len(q)
        /\ \A k \in 1..Len(R) : v[k] = <<R[k], name>>
        /\ \A l \in 1..Len(q) : v[Len(R) + l] = q[l]
    <2>1. at \in 1..(Len(m) + 1) /\ m \in Seq(Supported) /\ q \in Seq(Supported \X Supported)
          /\ name \in Supported
      BY <1>1
    <2> HIDE DEF m, q
    <2>2. /\ u \in Seq(Supported) /\ Len(u) = Len(m) + 1 /\ u[at] = name
          /\ \A i \in 1..Len(m) : u[NewPlace(at, i)] = m[i]
      BY <2>1, InsertAtPlaces
    <2>3. v \in Seq(Supported \X Supported) /\ Len(v) = Len(R) + Len(q)
      BY <2>1, AsksFirst
    <2>4. \A k \in 1..Len(R) : v[k] = <<R[k], name>>
      BY <2>1, AsksFirst
    <2>5. \A l \in 1..Len(q) : v[Len(R) + l] = q[l]
      BY <2>1, AsksFirst
    <2> QED  BY <2>2, <2>3, <2>4, <2>5
  <1>0. IsController(c) /\ c.mods = u /\ c.calls = v
    <2>1. DOMAIN b = {"mods", "names", "calls"}
      BY <1>1, Zenon DEF IsController
    <2>2. DOMAIN c = {"mods", "names", "calls"} /\ c.mods = u /\ c.calls = v
      BY <2>1, AllocateFields, Zenon
    <2> HIDE DEF c, u, v
    <2> QED  BY <1>2, <2>2, Zenon DEF IsController
  <1>3. /\ n \in Nat /\ Len(R) \in Nat /\ Len(q) \in Nat
        /\ \A i \in 1..n : m[i] \in Supported
        /\ \A i \in 1..Len(R) : R[i] \in Range(R)
        /\ \A x \in Range(R) : \E i \in 1..Len(R) : R[i] = x
    BY <1>1, RequiresTyped, LenProperties, ElementOfSeq
  <1>4. /\ Distinct(b) /\ OrderedBut(b, name, at) /\ CallsMade(b) /\ CallsInOrder(b)
        /\ CallersWait(rank, b) /\ CallersFrom(b, at)
        /\ RiseFrom(rank, b, at) /\ \A i \in at..n : rank[name] < rank[m[i]]
    BY Zenon DEF AllocateInv
  <1>5. at \in 1..(n + 1)
    BY <1>1
  <1> HIDE DEF c
  <1>6. \A k \in 1..Len(v) :
          \/ k \in 1..Len(R) /\ v[k] = <<R[k], name>>
          \/ \E l \in 1..Len(q) : k = Len(R) + l /\ v[k] = q[l]
    <2> SUFFICES ASSUME NEW k \in 1..Len(v), k \notin 1..Len(R)
                 PROVE  \E l \in 1..Len(q) : k = Len(R) + l /\ v[k] = q[l]
      BY <1>2, Zenon
    <2>1. k - Len(R) \in 1..Len(q) /\ k = Len(R) + (k - Len(R))
      <3> HIDE DEF R, q, v
      <3> QED  BY <1>2, <1>3
    <2> QED  BY <1>2, <2>1
  <1>7. \A l \in 1..Len(q) : \E k \in 1..Len(v) : v[k] = q[l]
    <2> SUFFICES ASSUME NEW l \in 1..Len(q) PROVE Len(R) + l \in 1..Len(v)
      BY <1>2, Zenon
    <2> HIDE DEF R, q, v
    <2> QED  BY <1>2, <1>3
  <1>8. \A x \in Range(R) : \E k \in 1..Len(v) : v[k] = <<x, name>>
    <2> SUFFICES ASSUME NEW x \in Range(R) PROVE \E k \in 1..Len(v) : v[k] = <<x, name>>
      OBVIOUS
    <2>1. PICK k \in 1..Len(R) : R[k] = x
      BY <1>3, Zenon
    <2>2. v[k] = <<R[k], name>>
      BY <1>2, Zenon
    <2>3. k \in 1..Len(v)
      <3> HIDE DEF R, q, v
      <3> QED  BY <1>2, <1>3
    <2> QED  BY <2>1, <2>2, <2>3, Zenon
  <1>9. /\ Range(v) = {v[k] : k \in 1..Len(v)} /\ Range(q) = {q[k] : k \in 1..Len(q)}
    <2>1. DOMAIN v = 1..Len(v) /\ DOMAIN q = 1..Len(q)
      BY <1>1, <1>2, LenProperties
    <2> QED  BY <2>1 DEF Range
  <1>10. /\ \A i \in 1..n : NewPlace(at, i) \in 1..(n + 1) /\ NewPlace(at, i) # at
         /\ \A i \in 1..n : (at <= i) => (at < NewPlace(at, i))
         /\ \A i \in 1..n : (at <= NewPlace(at, i)) => (at <= i)
         /\ \A i, j \in 1..n : (i < j) => (NewPlace(at, i) < NewPlace(at, j))
         /\ \A i, j \in 1..n : (i <= j) => (NewPlace(at, i) <= NewPlace(at, j))
         /\ \A i, j \in 1..n : (NewPlace(at, i) < NewPlace(at, j)) => (i < j)
         /\ \A i, j \in 1..n : (NewPlace(at, i) <= NewPlace(at, j)) => (i <= j)
         /\ \A j \in 1..(n + 1) : j = at \/ \E i \in 1..n : j = NewPlace(at, i)
    BY <1>3, <1>5, NewPlaces
  <1>11. \A j \in 1..(n + 1) :
           \/ j = at /\ u[j] = name
           \/ \E i \in 1..n : j = NewPlace(at, i) /\ u[j] = m[i]
    BY <1>2, <1>10
  <1> HIDE DEF R, m, n, u, q, v
  <1>12. Distinct(c)
    <2> SUFFICES ASSUME NEW i \in 1..(n + 1), NEW j \in 1..(n + 1), u[i] = u[j] PROVE i = j
      BY <1>0, <1>2, Zenon DEF Distinct
    <2>1. \A g, h \in 1..n : m[g] = m[h] => g = h
      BY <1>4, Zenon DEF Distinct, m, n
    <2>2. CASE i = at /\ u[i] = name
      BY <1>1, <1>11, <2>2 DEF m, n
    <2>3. ASSUME NEW a \in 1..n, i = NewPlace(at, a), u[i] = m[a] PROVE i = j
      <3>1. ~(j = at /\ u[j] = name)
        BY <1>1, <2>3, Zenon DEF m, n
      <3>2. PICK d \in 1..n : j = NewPlace(at, d) /\ u[j] = m[d]
        BY <1>11, <3>1, Zenon
      <3> QED  BY <2>1, <2>3, <3>2, Zenon
    <2> QED  BY <1>11, <2>2, <2>3, Zenon
  <1>13. OrderedBut(c, << >>, 0)
    <2> SUFFICES ASSUME NEW j \in 1..(n + 1), NEW x \in Range(Requires[u[j]])
                 PROVE  (\E h \in 1..(j - 1) : u[h] = x) \/ <<x, u[j]>> \in Range(v)
      BY <1>0, <1>2, Zenon DEF OrderedBut
    <2>1. CASE j = at /\ u[j] = name
      BY <1>8, <1>9, <2>1 DEF R
    <2>2. ASSUME NEW i \in 1..n, j = NewPlace(at, i), u[j] = m[i]
          PROVE  (\E h \in 1..(j - 1) : u[h] = x) \/ <<x, u[j]>> \in Range(v)
      <3>1. \/ \E h \in 1..(i - 1) : m[h] = x
            \/ <<x, m[i]>> \in Range(q)
            \/ i = at /\ x = name
        BY <1>4, <2>2, Zenon DEF OrderedBut, m, n, q
      <3>2. CASE \E h \in 1..(i - 1) : m[h] = x
        <4>1. PICK h \in 1..(i - 1) : m[h] = x
          BY <3>2
        <4>2. h \in 1..n /\ h < i
          BY <1>3
        <4>3. NewPlace(at, h) < j /\ NewPlace(at, h) \in 1..(n + 1) /\ u[NewPlace(at, h)] = x
          BY <1>2, <1>10, <2>2, <4>1, <4>2
        <4>4. NewPlace(at, h) \in 1..(j - 1)
          BY <1>3, <4>3
        <4> QED  BY <4>3, <4>4
      <3>3. CASE <<x, m[i]>> \in Range(q)
        <4>1. PICK l \in 1..Len(q) : q[l] = <<x, m[i]>>
          BY <1>9, <3>3, Zenon
        <4>2. PICK k \in 1..Len(v) : v[k] = q[l]
          BY <1>7
        <4> QED  BY <1>9, <2>2, <4>1, <4>2, Zenon
      <3>4. CASE i = at /\ x = name
        <4>1. at < j /\ at \in 1..(n + 1) /\ at <= at
          BY <1>3, <1>5, <1>10, <2>2, <3>4
        <4>2. at \in 1..(j - 1)
          BY <1>3, <4>1
        <4> QED  BY <1>2, <3>4, <4>2
      <3> QED  BY <3>1, <3>2, <3>3, <3>4
    <2> QED  BY <1>11, <2>1, <2>2, Zenon
  <1>14. \A l \in 1..Len(q) : q[l][2] # name
    <2>1. \A l \in 1..Len(q) : \E j \in 1..n : m[j] = q[l][2]
      BY <1>4, Zenon DEF CallsMade, m, n, q
    <2> QED  BY <1>1, <2>1, Zenon DEF m, n
  <1>15. CallsMade(c)
    <2> SUFFICES ASSUME NEW k \in 1..Len(v)
                 PROVE  \E j \in 1..(n + 1) : u[j] = v[k][2] /\ v[k][1] \in Range(Requires[u[j]])
      BY <1>0, <1>2, Zenon DEF CallsMade
    <2>1. CASE k \in 1..Len(R) /\ v[k] = <<R[k], name>>
      BY <1>2, <1>3, <1>5, <2>1 DEF R
    <2>2. ASSUME NEW l \in 1..Len(q), v[k] = q[l]
          PROVE  \E j \in 1..(n + 1) : u[j] = v[k][2] /\ v[k][1] \in Range(Requires[u[j]])
      <3>1. PICK i \in 1..n : m[i] = q[l][2] /\ q[l][1] \in Range(Requires[m[i]])
        BY <1>4, Zenon DEF CallsMade, m, n, q
      <3>2. u[NewPlace(at, i)] = m[i] /\ NewPlace(at, i) \in 1..(n + 1)
        BY <1>2, <1>10, Zenon
      <3> QED  BY <2>2, <3>1, <3>2, Zenon
    <2> QED  BY <1>6, <2>1, <2>2, Zenon
  \* Where the module of a call stands, of a new one and of an old one.
  <1>16. ASSUME NEW k \in 1..Len(R), v[k] = <<R[k], name>>, NEW j \in 1..(n + 1), u[j] = v[k][2]
         PROVE  j = at
    <2>1. v[k][2] = name
      BY ONLY v[k] = <<R[k], name>>
    <2>2. \A i \in 1..n : m[i] # name
      BY <1>1, Zenon DEF m, n
    <2> QED  BY <1>11, <1>16, <2>1, <2>2, Zenon
  <1>17. ASSUME NEW k \in 1..Len(v), NEW l \in 1..Len(q), v[k] = q[l],
                NEW j \in 1..(n + 1), u[j] = v[k][2]
         PROVE  \E i \in 1..n : j = NewPlace(at, i) /\ m[i] = q[l][2] /\ at <= i
    <2>1. PICK i \in 1..n : j = NewPlace(at, i) /\ u[j] = m[i]
      BY <1>11, <1>14, <1>17, Zenon
    <2>2. at <= i
      BY <1>4, <1>17, <2>1, Zenon DEF CallersFrom, m, n, q
    <2> QED  BY <1>17, <2>1, <2>2, Zenon
  <1>18. CallsInOrder(c)
    <2> SUFFICES ASSUME NEW k \in 1..Len(v), NEW l \in 1..Len(v), NEW i \in 1..(n + 1),
                        NEW j \in 1..(n + 1), k <= l, u[i] = v[k][2], u[j] = v[l][2]
                 PROVE  i <= j
      BY <1>0, <1>2, Zenon DEF CallsInOrder
    <2>1. CASE k \in 1..Len(R) /\ v[k] = <<R[k], name>>
      <3>1. i = at
        BY <1>16, <2>1, Zenon
      <3>2. CASE l \in 1..Len(R) /\ v[l] = <<R[l], name>>
        <4>1. j = at
          BY <1>16, <3>2, Zenon
        <4> QED  BY <1>3, <3>1, <4>1
      <3>3. ASSUME NEW g \in 1..Len(q), v[l] = q[g] PROVE i <= j
        <4>1. PICK h \in 1..n : j = NewPlace(at, h) /\ at <= h
          BY <1>17, <3>3, Zenon
        <4>2. at < NewPlace(at, h)
          BY <1>10, <4>1
        <4> QED  BY <1>3, <3>1, <4>1, <4>2
      <3> QED  BY <1>6, <3>2, <3>3, Zenon
    <2>2. ASSUME NEW f \in 1..Len(q), k = Len(R) + f, v[k] = q[f] PROVE i <= j
      <3>1. PICK g \in 1..Len(q) : l = Len(R) + g /\ v[l] = q[g]
        <4>1. l \notin 1..Len(R)
          BY <1>3, <2>2
        <4> QED  BY <1>6, <4>1, Zenon
      <3>2. f <= g
        BY <1>3, <2>2, <3>1
      <3>3. PICK a \in 1..n : i = NewPlace(at, a) /\ m[a] = q[f][2]
        BY <1>17, <2>2, Zenon
      <3>4. PICK d \in 1..n : j = NewPlace(at, d) /\ m[d] = q[g][2]
        BY <1>17, <3>1, Zenon
      <3>5. a <= d
        BY <1>4, <3>2, <3>3, <3>4, Zenon DEF CallsInOrder, m, n, q
      <3> QED  BY <1>10, <3>3, <3>4, <3>5, Zenon
    <2> QED  BY <1>6, <2>1, <2>2, Zenon
  <1>19. RiseFrom(rank, c, at)
    <2> SUFFICES ASSUME NEW i \in at..(n + 1), NEW j \in at..(n + 1), i < j
                 PROVE  rank[u[i]] < rank[u[j]]
      BY <1>0, <1>2, Zenon DEF RiseFrom
    <2>1. i \in 1..(n + 1) /\ j \in 1..(n + 1) /\ j # at /\ at <= i /\ at <= j
      BY <1>3, <1>5
    <2>2. PICK d \in 1..n : j = NewPlace(at, d) /\ u[j] = m[d]
      BY <1>11, <2>1, Zenon
    <2>3. at <= d /\ d \in at..n
      BY <1>3, <1>5, <1>10, <2>1, <2>2
    <2>4. CASE i = at /\ u[i] = name
      BY <1>4, <2>2, <2>3, <2>4 DEF m, n
    <2>5. ASSUME NEW a \in 1..n, i = NewPlace(at, a), u[i] = m[a] PROVE rank[u[i]] < rank[u[j]]
      <3>1. at <= a /\ a \in at..n /\ a < d
        BY <1>3, <1>5, <1>10, <2>1, <2>2, <2>5
      <3> QED  BY <1>4, <2>2, <2>3, <2>5, <3>1, Zenon DEF RiseFrom, m, n
    <2> QED  BY <1>11, <2>1, <2>4, <2>5, Zenon
  <1>20. CallersWait(rank, c)
    <2> SUFFICES ASSUME NEW k \in 1..Len(v), NEW p \in 1..(n + 1), u[p] = v[k][2]
                 PROVE  RiseFrom(rank, c, p)
      BY <1>0, <1>2, Zenon DEF CallersWait
    <2>1. at <= p
      <3>1. CASE k \in 1..Len(R) /\ v[k] = <<R[k], name>>
        BY <1>3, <1>5, <1>16, <3>1
      <3>2. ASSUME NEW l \in 1..Len(q), v[k] = q[l] PROVE at <= p
        <4>1. PICK i \in 1..n : p = NewPlace(at, i) /\ at <= i
          BY <1>17, <3>2, Zenon
        <4>2. at < p
          BY <1>10, <4>1
        <4> QED  BY <1>3, <1>5, <4>2
      <3> QED  BY <1>6, <3>1, <3>2, Zenon
    <2>2. \A i \in p..(n + 1) : i \in at..(n + 1)
      BY <1>3, <1>5, <2>1
    <2> QED  BY <1>0, <1>2, <1>19, <2>2, Zenon DEF RiseFrom
  <1> QED  BY <1>0, <1>12, <1>13, <1>15, <1>18, <1>20, Zenon DEF BuildInv, c

\* One call fewer, of a name that is before the module by now, or is about to come there.
LEMMA CalledKeeps ==
  ASSUME NEW rank, NEW b, BuildInv(rank, b), b.calls # << >>, NEW d,
         DOMAIN d = {"mods", "names", "calls"}, d.mods = b.mods, d.calls = Tail(b.calls),
         NEW at \in 1..Len(b.mods), b.mods[at] = b.calls[1][2]
  PROVE  /\ IsController(d) /\ Distinct(d) /\ OrderedBut(d, b.calls[1][1], at)
         /\ CallsMade(d) /\ CallsInOrder(d) /\ CallersWait(rank, d) /\ CallersFrom(d, at)
  <1> DEFINE m == b.mods
             n == Len(m)
             q == b.calls
             r == d.calls
  <1>1. /\ m \in Seq(Supported) /\ q \in Seq(Supported \X Supported) /\ q # << >>
        /\ Distinct(b) /\ OrderedBut(b, << >>, 0)
        /\ CallsMade(b) /\ CallsInOrder(b) /\ CallersWait(rank, b)
    BY Zenon DEF BuildInv, IsController
  <1>2. /\ r \in Seq(Supported \X Supported) /\ Len(r) = Len(q) - 1
        /\ \A i \in 1..Len(r) : r[i] = q[i + 1]
    BY <1>1, HeadTailProperties
  <1>3. n \in Nat /\ Len(q) \in Nat /\ Len(q) # 0
    BY <1>1, LenProperties, EmptySeq
  <1>4. DOMAIN q = 1..Len(q) /\ DOMAIN r = 1..Len(r)
    BY <1>1, <1>2, LenProperties
  <1>0. at \in 1..n /\ m[at] = q[1][2] /\ d.mods = m
    OBVIOUS
  <1> HIDE DEF m, n, q, r
  <1>5. /\ \A k \in 1..Len(r) : k + 1 \in 1..Len(q) /\ r[k] = q[k + 1]
        /\ \A k \in 1..Len(q) : k = 1 \/ (k - 1 \in 1..Len(r) /\ r[k - 1] = q[k])
        /\ 1 \in 1..Len(q) /\ \A k \in 1..Len(r) : 1 <= k + 1
        /\ \A k, l \in 1..Len(r) : (k <= l) => (k + 1 <= l + 1)
    <2>1. \A k \in 1..Len(r) : k + 1 \in 1..Len(q) /\ 1 <= k + 1
      BY <1>2, <1>3
    <2>2. ASSUME NEW k \in 1..Len(q), k # 1 PROVE k - 1 \in 1..Len(r) /\ r[k - 1] = q[k]
      <3>1. k - 1 \in 1..Len(r) /\ (k - 1) + 1 = k
        BY <1>2, <1>3, <2>2
      <3> QED  BY <1>2, <3>1
    <2>3. 1 \in 1..Len(q) /\ \A k, l \in 1..Len(r) : (k <= l) => (k + 1 <= l + 1)
      BY <1>2, <1>3
    <2> QED  BY <1>2, <2>1, <2>2, <2>3
  <1>6. \A x \in Range(q) : x = q[1] \/ x \in Range(r)
    <2>1. Range(q) = {q[k] : k \in 1..Len(q)} /\ Range(r) = {r[k] : k \in 1..Len(r)}
      BY <1>4 DEF Range
    <2> SUFFICES ASSUME NEW k \in 1..Len(q), k # 1 PROVE q[k] \in Range(r)
      BY <2>1
    <2> QED  BY <1>5, <2>1
  <1>7. IsController(d)
    BY <1>0, <1>1, <1>2, Zenon DEF IsController, r
  <1>8. Distinct(d)
    BY <1>0, <1>1, Zenon DEF Distinct, m
  <1>9. OrderedBut(d, q[1][1], at)
    <2> SUFFICES ASSUME NEW i \in 1..n, NEW x \in Range(Requires[m[i]]),
                        ~(\E h \in 1..(i - 1) : m[h] = x)
                 PROVE  <<x, m[i]>> \in Range(r) \/ (i = at /\ x = q[1][1])
      BY <1>0, Zenon DEF OrderedBut, n, r
    <2>1. <<x, m[i]>> \in Range(q)
      <3>1. i # 0
        BY <1>3
      <3> QED  BY <1>1, <3>1, Zenon DEF OrderedBut, m, n, q
    <2>2. CASE <<x, m[i]>> = q[1]
      <3>1. m[i] = m[at] /\ x = q[1][1]
        BY <1>0, <2>2
      <3>2. i = at
        BY <1>0, <1>1, <3>1, Zenon DEF Distinct, m, n
      <3> QED  BY <3>1, <3>2
    <2> QED  BY <1>6, <2>1, <2>2, Zenon
  <1>10. CallsMade(d)
    <2> SUFFICES ASSUME NEW k \in 1..Len(r)
                 PROVE  \E j \in 1..n : m[j] = r[k][2] /\ r[k][1] \in Range(Requires[m[j]])
      BY <1>0, Zenon DEF CallsMade, n, r
    <2>1. k + 1 \in 1..Len(q) /\ r[k] = q[k + 1]
      BY <1>5, Zenon
    <2>2. \E j \in 1..n : m[j] = q[k + 1][2] /\ q[k + 1][1] \in Range(Requires[m[j]])
      BY <1>1, <2>1, Zenon DEF CallsMade, m, n, q
    <2> QED  BY <2>1, <2>2, Zenon
  <1>11. CallsInOrder(d)
    <2> SUFFICES ASSUME NEW k \in 1..Len(r), NEW l \in 1..Len(r), NEW i \in 1..n, NEW j \in 1..n,
                        k <= l, m[i] = r[k][2], m[j] = r[l][2]
                 PROVE  i <= j
      BY <1>0, Zenon DEF CallsInOrder, n, r
    <2>1. /\ k + 1 \in 1..Len(q) /\ l + 1 \in 1..Len(q) /\ k + 1 <= l + 1
          /\ m[i] = q[k + 1][2] /\ m[j] = q[l + 1][2]
      BY <1>5
    <2> QED  BY <1>1, <2>1, Zenon DEF CallsInOrder, m, n, q
  <1>12. CallersWait(rank, d)
    <2> SUFFICES ASSUME NEW k \in 1..Len(r), NEW j \in 1..n, m[j] = r[k][2]
                 PROVE  RiseFrom(rank, d, j)
      BY <1>0, Zenon DEF CallersWait, n, r
    <2>1. RiseFrom(rank, b, j)
      BY <1>1, <1>5, Zenon DEF CallersWait, m, n, q
    <2> QED  BY <1>0, <2>1, Zenon DEF RiseFrom, m
  <1>13. CallersFrom(d, at)
    <2> SUFFICES ASSUME NEW k \in 1..Len(r), NEW j \in 1..n, m[j] = r[k][2]
                 PROVE  at <= j
      BY <1>0, Zenon DEF CallersFrom, n, r
    <2>1. k + 1 \in 1..Len(q) /\ 1 \in 1..Len(q) /\ 1 <= k + 1 /\ m[j] = q[k + 1][2]
      BY <1>5
    <2> QED  BY <1>0, <1>1, <2>1, Zenon DEF CallsInOrder, m, n, q
  <1> QED  BY <1>7, <1>8, <1>9, <1>10, <1>11, <1>12, <1>13 DEF q

\* The module that a call is made for, and those after it, need the name sooner or later, and
\* so are not that of the name.
LEMMA NextCall ==
  ASSUME NEW rank, Ranks(rank), NEW b, BuildInv(rank, b), b.calls # << >>,
         NEW at \in 1..Len(b.mods), b.mods[at] = b.calls[1][2]
  PROVE  /\ b.calls[1][1] \in Supported /\ RiseFrom(rank, b, at)
         /\ \A i \in at..Len(b.mods) : rank[b.calls[1][1]] < rank[b.mods[i]]
         /\ \A i \in at..Len(b.mods) : b.mods[i] # b.calls[1][1]
  <1> DEFINE m == b.mods
             n == Len(m)
             q == b.calls
             name == q[1][1]
  <1>1. /\ m \in Seq(Supported) /\ q \in Seq(Supported \X Supported) /\ q # << >>
        /\ Distinct(b) /\ CallsMade(b) /\ CallersWait(rank, b)
    BY Zenon DEF BuildInv, IsController
  <1>2. n \in Nat /\ 1 \in 1..Len(q) /\ \A i \in 1..n : m[i] \in Supported
    BY <1>1, LenProperties, EmptySeq, ElementOfSeq
  <1>3. at \in 1..n /\ m[at] = q[1][2]
    OBVIOUS
  <1>4. name \in Supported
    BY <1>1, <1>2, ElementOfSeq
  <1> HIDE DEF m, n, q, name
  <1>5. name \in Range(Requires[m[at]])
    <2>1. PICK j \in 1..n : m[j] = q[1][2] /\ q[1][1] \in Range(Requires[m[j]])
      BY <1>1, <1>2, Zenon DEF CallsMade, m, n, q
    <2> QED  BY <1>3, <2>1, Zenon DEF name
  <1>6. RiseFrom(rank, b, at)
    BY <1>1, <1>2, <1>3, Zenon DEF CallersWait, m, n, q
  <1>7. /\ rank[name] < rank[m[at]] /\ rank[name] \in Nat
        /\ \A i \in 1..n : rank[m[i]] \in Nat
    BY <1>2, <1>3, <1>4, <1>5 DEF Ranks
  <1>8. ASSUME NEW i \in at..n PROVE rank[name] < rank[m[i]] /\ m[i] # name
    <2>1. i \in 1..n /\ at \in at..n /\ (i = at \/ at < i)
      BY <1>2, <1>3
    <2>2. i = at \/ rank[m[at]] < rank[m[i]]
      BY <1>6, <2>1, Zenon DEF RiseFrom, m, n
    <2>3. rank[name] < rank[m[i]]
      BY <1>3, <1>7, <2>1, <2>2
    <2> QED  BY <1>7, <2>3
  <1> QED  BY <1>4, <1>6, <1>8 DEF m, n, q, name

LEMMA ModuleBeforeKeeps ==
  ASSUME NEW rank, Ranks(rank), NEW b, BuildInv(rank, b), b.calls # << >>
  PROVE  BuildInv(rank, ModuleBefore(b))
  <1> DEFINE name == b.calls[1][1]
             at == CHOOSE i \in DOMAIN b.mods : b.mods[i] = b.calls[1][2]
             d == [b EXCEPT !.calls = Tail(@)]
  <1>1. /\ DOMAIN b = {"mods", "names", "calls"}
        /\ b.mods \in Seq(Supported) /\ b.calls \in Seq(Supported \X Supported)
        /\ CallsMade(b)
    BY Zenon DEF BuildInv, IsController
  <1>2. /\ Len(b.mods) \in Nat /\ DOMAIN b.mods = 1..Len(b.mods) /\ 1 \in 1..Len(b.calls)
        /\ Head(b.calls) = b.calls[1]
    BY <1>1, LenProperties, EmptySeq
  <1>3. ModuleBefore(b)
          = IF \E i \in 1..(at - 1) : b.mods[i] = name THEN d ELSE Allocate(d, at, name)
    <2>1. ModuleBefore(b)
            = IF \E i \in 1..((CHOOSE j \in DOMAIN b.mods : b.mods[j] = Head(b.calls)[2]) - 1) :
                   b.mods[i] = Head(b.calls)[1]
              THEN [b EXCEPT !.calls = Tail(b.calls)]
              ELSE Allocate([b EXCEPT !.calls = Tail(b.calls)],
                            CHOOSE j \in DOMAIN b.mods : b.mods[j] = Head(b.calls)[2],
                            Head(b.calls)[1])
      BY DEF ModuleBefore
    <2>2. d = [b EXCEPT !.calls = Tail(b.calls)]
      OBVIOUS
    <2> HIDE DEF d
    <2> QED  BY <1>2, <2>1, <2>2, Zenon
  <1>4. at \in 1..Len(b.mods) /\ b.mods[at] = b.calls[1][2]
    <2>1. \E j \in 1..Len(b.mods) : b.mods[j] = b.calls[1][2]
      BY <1>1, <1>2, Zenon DEF CallsMade
    <2> QED  BY <1>2, <2>1
  <1>5. DOMAIN d = {"mods", "names", "calls"} /\ d.mods = b.mods /\ d.calls = Tail(b.calls)
    BY <1>1
  <1> HIDE DEF at, d
  <1>6. /\ IsController(d) /\ Distinct(d) /\ OrderedBut(d, name, at)
        /\ CallsMade(d) /\ CallsInOrder(d) /\ CallersWait(rank, d) /\ CallersFrom(d, at)
    BY <1>4, <1>5, CalledKeeps
  <1>7. /\ name \in Supported /\ RiseFrom(rank, b, at)
        /\ \A i \in at..Len(b.mods) : rank[name] < rank[b.mods[i]]
        /\ \A i \in at..Len(b.mods) : b.mods[i] # name
    BY <1>4, NextCall
  <1> HIDE DEF name
  <1>8. CASE \E i \in 1..(at - 1) : b.mods[i] = name
    <2>1. PICK g \in 1..(at - 1) : d.mods[g] = name
      BY <1>5, <1>8
    <2>2. OrderedBut(d, << >>, 0)
      <3> SUFFICES ASSUME NEW i \in 1..Len(d.mods), NEW x \in Range(Requires[d.mods[i]]),
                          i = at, x = name
                   PROVE  \E h \in 1..(i - 1) : d.mods[h] = x
        BY <1>6, Zenon DEF OrderedBut
      <3> QED  BY <2>1
    <2> QED  BY <1>3, <1>6, <1>8, <2>2, Zenon DEF BuildInv
  <1>9. CASE ~\E i \in 1..(at - 1) : b.mods[i] = name
    <2>1. ASSUME NEW i \in 1..Len(d.mods) PROVE d.mods[i] # name
      <3>1. i \in 1..(at - 1) \/ i \in at..Len(b.mods)
        BY <1>2, <1>4, <1>5
      <3> QED  BY <1>5, <1>7, <1>9, <3>1, Zenon
    <2>2. at \in 1..(Len(d.mods) + 1)
      BY <1>2, <1>4, <1>5
    <2>3. RiseFrom(rank, d, at) /\ \A i \in at..Len(d.mods) : rank[name] < rank[d.mods[i]]
      BY <1>5, <1>7, Zenon DEF RiseFrom
    <2>4. AllocateInv(rank, d, at, name)
      BY <1>6, <1>7, <2>1, <2>2, <2>3, Zenon DEF AllocateInv
    <2> QED  BY <1>3, <1>9, <2>4, AllocateKeeps, Zenon
  <1> QED  BY <1>8, <1>9

LEMMA FindModKeeps ==
  ASSUME NEW rank, Ranks(rank), NEW b, BuildInv(rank, b), b.calls = << >>
  PROVE  BuildInv(rank, FindMod(b))
  <1> DEFINE name == Head(Head(b.names))
             n == Len(b.mods)
             d == [b EXCEPT !.names = Tail(@)]
  <1>1. /\ DOMAIN b = {"mods", "names", "calls"}
        /\ b.mods \in Seq(Supported) /\ b.calls \in Seq(Supported \X Supported)
        /\ Distinct(b) /\ OrderedBut(b, << >>, 0)
    BY Zenon DEF BuildInv, IsController
  <1>2. DOMAIN d = {"mods", "names", "calls"} /\ d.mods = b.mods /\ d.calls = << >>
    BY <1>1
  <1>3. n \in Nat /\ Len(d.calls) = 0
    BY <1>1, <1>2, LenProperties
  <1> HIDE DEF d
  <1>4. \A k \in 1..Len(d.calls) : FALSE
    BY <1>3
  <1>5. /\ IsController(d) /\ Distinct(d) /\ OrderedBut(d, << >>, 0)
        /\ CallsMade(d) /\ CallsInOrder(d) /\ CallersWait(rank, d) /\ CallersFrom(d, n + 1)
    <2>1. IsController(d)
      BY <1>1, <1>2 DEF IsController
    <2>2. Distinct(d)
      BY <1>1, <1>2, Zenon DEF Distinct
    <2>3. OrderedBut(d, << >>, 0)
      <3>1. d.calls = b.calls
        BY <1>2
      <3> QED  BY <1>1, <1>2, <3>1 DEF OrderedBut
    <2>4. CallsMade(d) /\ CallsInOrder(d) /\ CallersWait(rank, d) /\ CallersFrom(d, n + 1)
      BY <1>4, Zenon DEF CallsMade, CallsInOrder, CallersWait, CallersFrom
    <2> QED  BY <2>1, <2>2, <2>3, <2>4
  <1>6. CASE name \in Supported /\ ~Contains(b.mods, name) /\ FindMod(b) = Allocate(d, n + 1, name)
    <2>1. OrderedBut(d, name, n + 1)
      <3>1. \A i \in 1..Len(d.mods) : i # 0
        BY <1>2, <1>3
      <3> QED  BY <1>5, <3>1, Zenon DEF OrderedBut
    <2>2. \A i \in (n + 1)..Len(d.mods) : FALSE
      BY <1>2, <1>3
    <2>3. n + 1 \in 1..(Len(d.mods) + 1)
      BY <1>2, <1>3
    <2>4. \A i \in 1..Len(d.mods) : d.mods[i] # name
      BY <1>2, <1>6, Zenon DEF Contains
    <2>5. RiseFrom(rank, d, n + 1)
      BY <2>2, Zenon DEF RiseFrom
    <2>6. AllocateInv(rank, d, n + 1, name)
      BY <1>5, <1>6, <2>1, <2>2, <2>3, <2>4, <2>5, Zenon DEF AllocateInv
    <2> QED  BY <1>6, <2>6, AllocateKeeps, Zenon
  <1>7. CASE FindMod(b) = d
    BY <1>5, <1>7, Zenon DEF BuildInv
  <1> QED  BY <1>6, <1>7, Zenon DEF FindMod, d

LEMMA NoModules ==
  ASSUME NEW rank, NEW b, DOMAIN b = {"mods", "names", "calls"}, b.mods = << >>, b.calls = << >>
  PROVE  BuildInv(rank, b)
  <1>1. IsController(b)
    BY DEF IsController
  <1>2. /\ \A i \in 1..Len(b.mods) : FALSE
        /\ \A k \in 1..Len(b.calls) : FALSE
    OBVIOUS
  <1> QED  BY <1>1, <1>2, Zenon DEF BuildInv, Distinct, OrderedBut, CallsMade, CallsInOrder, CallersWait

LEMMA BeginsWithNone ==
  ASSUME NEW rank, NEW text
  PROVE  BuildInv(rank, Empty) /\ BuildInv(rank, AddMods(text))
  <1>1. DOMAIN Empty = {"mods", "names", "calls"} /\ Empty.mods = << >> /\ Empty.calls = << >>
    BY DEF Empty
  <1>2. BuildInv(rank, Empty)
    BY <1>1, NoModules
  <1>3. ASSUME NEW names PROVE BuildInv(rank, [Empty EXCEPT !.names = names])
    <2>1. /\ DOMAIN [Empty EXCEPT !.names = names] = {"mods", "names", "calls"}
          /\ [Empty EXCEPT !.names = names].mods = << >>
          /\ [Empty EXCEPT !.names = names].calls = << >>
      BY <1>1
    <2> QED  BY <2>1, NoModules, Zenon
  <1> QED  BY <1>2, <1>3, Zenon DEF AddMods

ModulesInv(rank) ==
  DOMAIN built = Daemons /\ \A d \in Daemons : BuildInv(rank, built[d])

LEMMA SomeRanks == \E rank : Ranks(rank)
  <1>1. PICK rank \in [Supported -> 0..Cardinality(Supported)] :
          \A m \in Supported : \A name \in Range(Requires[m]) : rank[name] < rank[m]
    BY ConfigurationAssumption
  <1>2. 0..Cardinality(Supported) \subseteq Nat
    BY ConfigurationAssumption, FS_CardinalityType
  <1>3. rank \in [Supported -> Nat]
    BY <1>1, <1>2
  <1> QED  BY <1>1, <1>3, Zenon DEF Ranks

LEMMA OneBuilt ==
  ASSUME NEW rank, ModulesInv(rank), NEW d \in Daemons, NEW b, BuildInv(rank, b),
         built' = [built EXCEPT ![d] = b]
  PROVE  ModulesInv(rank)'
  <1>1. DOMAIN built' = Daemons /\ \A e \in Daemons : built'[e] = IF e = d THEN b ELSE built[e]
    BY DEF ModulesInv
  <1> QED  BY <1>1 DEF ModulesInv

LEMMA ModulesKept ==
  ASSUME NEW rank, Ranks(rank), ModulesInv(rank), [StartupNext]_vars
  PROVE  ModulesInv(rank)'
  <1>1. CASE UNCHANGED built
    BY <1>1 DEF ModulesInv
  <1>2. ASSUME NEW d \in Daemons,
               \/ built' = [built EXCEPT ![d] = Empty]
               \/ built' = [built EXCEPT ![d] = AddMods(CameraValue(d))]
        PROVE  ModulesInv(rank)'
    BY <1>2, OneBuilt, BeginsWithNone, Zenon
  <1>3. ASSUME NEW d \in Daemons, AddModule(d) PROVE ModulesInv(rank)'
    <2>1. BuildInv(rank, built[d])
      BY Zenon DEF ModulesInv
    <2>2. CASE built[d].calls # << >> /\ built' = [built EXCEPT ![d] = ModuleBefore(built[d])]
      BY <2>1, <2>2, ModuleBeforeKeeps, OneBuilt, Zenon
    <2>3. CASE built[d].calls = << >> /\ built' = [built EXCEPT ![d] = FindMod(built[d])]
      BY <2>1, <2>3, FindModKeeps, OneBuilt, Zenon
    <2> QED  BY <1>3, <2>2, <2>3 DEF AddModule
  <1>4. CASE StartupNext
    <2>1. CASE Edit
      BY <1>1, <2>1 DEF Edit
    <2>2. ASSUME NEW d \in Daemons,
                 \/ Launch(d) \/ DropPrivs(d) \/ ForkBackground(d)
                 \/ LoadConfig(d) \/ ConnectFails(d) \/ Connect(d) \/ Database(d) \/ AddModule(d)
                 \/ Reload(d)
          PROVE  ModulesInv(rank)'
      <3>1. CASE Launch(d)
        BY <1>2, <3>1 DEF Launch
      <3>2. CASE DropPrivs(d)
        BY <1>1, <3>2 DEF DropPrivs
      <3>3. CASE ForkBackground(d)
        BY <1>1, <3>3 DEF ForkBackground
      <3>4. CASE LoadConfig(d)
        BY <1>1, <3>4 DEF LoadConfig
      <3>5. CASE ConnectFails(d)
        BY <1>1, <3>5 DEF ConnectFails
      <3>6. CASE Connect(d)
        BY <1>1, <3>6 DEF Connect
      <3>7. CASE Database(d)
        BY <1>1, <1>2, <3>7, Zenon DEF Database
      <3>8. CASE Reload(d)
        BY <1>2, <3>8 DEF Reload
      <3> QED  BY <1>3, <2>2, <3>1, <3>2, <3>3, <3>4, <3>5, <3>6, <3>7, <3>8
    <2> QED  BY <1>4, <2>1, <2>2 DEF StartupNext
  <1>5. CASE UNCHANGED vars
    BY <1>1, <1>5 DEF vars
  <1> QED  BY <1>4, <1>5

LEMMA OrderedBuilds ==
  ASSUME NEW rank, ModulesInv(rank)
  PROVE  ModulesOrdered
  <1> SUFFICES ASSUME NEW d \in Daemons
               PROVE  /\ IsInjective(built[d].mods)
                      /\ \A j \in DOMAIN built[d].mods :
                           \A name \in Range(Requires[built[d].mods[j]]) :
                             \/ \E i \in 1..(j - 1) : built[d].mods[i] = name
                             \/ <<name, built[d].mods[j]>> \in Range(built[d].calls)
    BY Zenon DEF ModulesOrdered
  <1>1. /\ built[d].mods \in Seq(Supported)
        /\ Distinct(built[d]) /\ OrderedBut(built[d], << >>, 0)
    BY Zenon DEF ModulesInv, BuildInv, IsController
  <1>2. DOMAIN built[d].mods = 1..Len(built[d].mods) /\ Len(built[d].mods) \in Nat
    BY <1>1, LenProperties
  <1>3. \A j \in 1..Len(built[d].mods) : j # 0
    BY <1>2
  <1> QED  BY <1>1, <1>2, <1>3, Zenon DEF IsInjective, Distinct, OrderedBut

-----------------------------------------------------------------------------
(* The theorems of Startup *)

\* The modules of a camera, whichever have been compiled in and whatever motion-mods says, are
\* in an order in which each finds what it takes its input from, at every point of their
\* construction: provided only that no module requires itself.
THEOREM InOrder == StartupSpec => []ModulesOrdered
  <1>1. PICK rank : Ranks(rank)
    BY SomeRanks
  <1>2. StartupInit => ModulesInv(rank)
    <2> SUFFICES ASSUME StartupInit PROVE ModulesInv(rank)
      OBVIOUS
    <2>1. DOMAIN built = Daemons /\ \A d \in Daemons : built[d] = Empty
      BY DEF StartupInit
    <2> QED  BY <2>1, BeginsWithNone, Zenon DEF ModulesInv
  <1>3. ModulesInv(rank) /\ [StartupNext]_vars => ModulesInv(rank)'
    BY <1>1, ModulesKept
  <1>4. ModulesInv(rank) => ModulesOrdered
    BY OrderedBuilds
  <1> QED  BY <1>2, <1>3, <1>4, PTL DEF StartupSpec

\* With the options, the privileges, the fork, the configuration, reloads and edits around it,
\* the database is still used as DatabaseManager says.
THEOREM Composes == StartupSpec => Spec
  <1>1. StartupInit => Init
    BY DEF StartupInit
  <1>2. [StartupNext]_vars => [Next]_dbVars
    <2>1. CASE UNCHANGED dbVars
      BY <2>1
    <2>2. CASE Edit
      BY <2>2 DEF Edit
    <2>3. ASSUME NEW d \in Daemons, Start(d) \/ DaemonStep(d) PROVE Next
      BY <2>3, Zenon DEF Next
    <2>4. ASSUME NEW d \in Daemons,
                 \/ Launch(d) \/ DropPrivs(d) \/ ForkBackground(d)
                 \/ LoadConfig(d) \/ ConnectFails(d) \/ Connect(d) \/ Database(d) \/ AddModule(d)
                 \/ Reload(d)
          PROVE  Next \/ UNCHANGED dbVars
      <3>1. CASE Connect(d)
        BY <2>3, <3>1, Zenon DEF Connect
      <3>2. CASE Database(d)
        BY <2>3, <3>2, Zenon DEF Database
      <3>3. CASE Reload(d)
        BY <2>3, <3>3, Zenon DEF Reload, DaemonStep
      <3>4. CASE Launch(d) \/ DropPrivs(d) \/ ForkBackground(d)
        BY <3>4, Zenon DEF Launch, DropPrivs, ForkBackground
      <3>5. CASE LoadConfig(d) \/ ConnectFails(d) \/ AddModule(d)
        BY <3>5, Zenon DEF LoadConfig, ConnectFails, AddModule
      <3> QED  BY <2>4, <3>1, <3>2, <3>3, <3>4, <3>5
    <2>5. CASE UNCHANGED vars
      BY <2>5 DEF vars
    <2> QED  BY <2>1, <2>2, <2>4, <2>5 DEF StartupNext
  <1> QED  BY <1>1, <1>2, PTL DEF StartupSpec, Spec

\* So a database is sound whatever daemons do with it from their command lines on.
THEOREM StartupSound == StartupSpec => []DatabaseSound
  BY Composes, Sound, PTL
=============================================================================
