--------------------------- MODULE DatabaseManager ---------------------------
(***************************************************************************)
(* DatabaseManager: creating the tables of an empty database, and upgrading *)
(* those of an old one, by daemons that may be killed between two          *)
(* statements, whose statements may fail, and of which two may have been    *)
(* started on one database.                                                *)
(*                                                                         *)
(* The server executes one statement at a time; a statement that creates a *)
(* table or a column is permanent at once.  The schema is the set of what  *)
(* the statements add; version 1.n is the number n.                        *)
(***************************************************************************)
EXTENDS Integers, Sequences, FiniteSets

CONSTANTS
  Daemons,
  MaxRows, MaxFaults            \* bounds

None == -1
Current == 4                    \* CURRENT_DB_VERSION_MINOR
Newer == 5                      \* a later minor version
Foreign == 6                    \* another major version, or not a version

Objects == {"config", "videos", "locked", "exports", "images", "names", "codec", "events"}

ASSUME DatabaseAssumption == MaxRows \in Nat /\ MaxFaults \in Nat

VARIABLES
  schema,       \* the tables, and the columns that upgrades add to videos
  version,      \* database-version in config, None if there is no such row
  rows,         \* videos: the name of each row, 0 in those older than the column
  pc,           \* of a daemon: "down", "check", "statement", "run"
  plan, step,   \* "create" or "upgrade", and the number of the next statement
  faults,       \* statements that failed for no fault of theirs, and kills
  written       \* history: the names that daemons gave to rows

dbVars == <<schema, version, rows, pc, plan, step, faults, written>>

-----------------------------------------------------------------------------
\* initilize_db() executes statements 1 to 5, the upgrade functions 1 to 7, each of them the
\* last ones; set_latest_version() is what follows.
LastStatement(p) == IF p = "create" THEN 5 ELSE 7
Begins(v) == CASE v = 0 -> 1 [] v = 1 -> 3 [] v = 2 -> 6 [] v = 3 -> 7

\* What a statement adds.  Statement 5 of the upgrades gives the rows a name.
Created(n) ==
  CASE n = 1 -> {"config"} [] n = 2 -> {"videos", "locked", "names", "codec"}
    [] n = 3 -> {"exports"} [] n = 4 -> {"images"} [] n = 5 -> {"events"}
    [] OTHER -> {}
UpgradeFrom_1_0(n) == IF n = 1 THEN {"locked"} ELSE {"exports"}
UpgradeFrom_1_1(n) == CASE n = 3 -> {"images"} [] n = 4 -> {"names"} [] n = 5 -> {}
UpgradeFrom_1_2 == {"codec"}
UpgradeFrom_1_3 == {"events"}
Upgraded(n) ==
  CASE n \in 1..2 -> UpgradeFrom_1_0(n) [] n \in 3..5 -> UpgradeFrom_1_1(n)
    [] n = 6 -> UpgradeFrom_1_2 [] n = 7 -> UpgradeFrom_1_3
Adds(p, n) == IF p = "create" THEN Created(n) ELSE Upgraded(n)

Earlier(n) == UNION {Upgraded(k) : k \in 1..(n - 1)}
Old(v) == {"config", "videos"} \cup Earlier(Begins(v))

\* A database that an earlier version left, a later one, or an empty one.
Init ==
  /\ version \in {None} \cup 0..Foreign
  /\ schema = IF version = None THEN {} ELSE IF version < Current THEN Old(version) ELSE Objects
  /\ rows = IF version = None THEN << >> ELSE IF version < 2 THEN <<0>> ELSE <<1>>
  /\ pc = [d \in Daemons |-> "down"]
  /\ plan = [d \in Daemons |-> "create"] /\ step = [d \in Daemons |-> 1]
  /\ faults = 0 /\ written = {}

Exit(d) == pc' = [pc EXCEPT ![d] = "down"]
Fault == faults < MaxFaults /\ faults' = faults + 1

\* The daemon has connected.
Start(d) ==
  /\ pc[d] = "down" /\ pc' = [pc EXCEPT ![d] = "check"]
  /\ UNCHANGED <<schema, version, rows, plan, step, faults, written>>

Execute(d, p, n) ==
  /\ pc' = [pc EXCEPT ![d] = "statement"]
  /\ plan' = [plan EXCEPT ![d] = p] /\ step' = [step EXCEPT ![d] = n]

\* check_database() finds no version, or cannot ask for it.
CheckEmpty(d) ==
  /\ pc[d] = "check" /\ Execute(d, "create", 1)
  /\ (version = None /\ UNCHANGED faults) \/ Fault
  /\ UNCHANGED <<schema, version, rows, written>>

CheckOld(d) ==
  /\ pc[d] = "check" /\ version \in 0..(Current - 1)
  /\ Execute(d, "upgrade", Begins(version))
  /\ UNCHANGED <<schema, version, rows, faults, written>>

CheckCurrent(d) ==
  /\ pc[d] = "check" /\ version \in {Current, Newer} /\ pc' = [pc EXCEPT ![d] = "run"]
  /\ UNCHANGED <<schema, version, rows, plan, step, faults, written>>

CheckForeign(d) ==
  /\ pc[d] = "check" /\ version = Foreign /\ Exit(d)
  /\ UNCHANGED <<schema, version, rows, plan, step, faults, written>>

\* CREATE TABLE and ADD fail if what they add exists, and ADD if there is no table.
Fails(p, n) == Adds(p, n) \cap schema # {} \/ (p = "upgrade" /\ "videos" \notin schema)

Statement(d) ==
  LET p == plan[d]
      n == step[d]
  IN /\ pc[d] = "statement" /\ n <= LastStatement(p) /\ ~Fails(p, n)
     /\ schema' = schema \cup Adds(p, n)
     /\ rows' = IF p = "upgrade" /\ n = 5 THEN [i \in DOMAIN rows |-> i] ELSE rows
     /\ Execute(d, p, n + 1) /\ UNCHANGED <<version, faults, written>>

StatementFails(d) ==
  /\ pc[d] = "statement" /\ Exit(d)
  /\ \/ step[d] <= LastStatement(plan[d]) /\ Fails(plan[d], step[d]) /\ UNCHANGED faults
     \/ Fault
  /\ UNCHANGED <<schema, version, rows, plan, step, written>>

MutSetLatestVersion(d) ==
  /\ pc[d] = "statement" /\ step[d] = LastStatement(plan[d]) /\ "config" \in schema
  /\ version' = Current
  /\ pc' = [pc EXCEPT ![d] = IF version = Current THEN "down" ELSE "run"]
  /\ UNCHANGED <<schema, rows, plan, step, faults, written>>

\* set_latest_version(), which takes a row that does not change for a failure.
SetLatestVersion(d) ==
  /\ pc[d] = "statement" /\ step[d] = LastStatement(plan[d]) + 1 /\ "config" \in schema
  /\ version' = Current
  /\ pc' = [pc EXCEPT ![d] = IF version = Current THEN "down" ELSE "run"]
  /\ UNCHANGED <<schema, rows, plan, step, faults, written>>

\* A daemon that runs records segments: a row has a name of its own, or that of another.
Record(d) ==
  /\ pc[d] = "run" /\ Len(rows) < MaxRows
  /\ \E name \in {Len(rows) + 1} \cup {rows[i] : i \in DOMAIN rows} :
       /\ rows' = Append(rows, name)
       /\ written' = written \cup {[row |-> Len(rows) + 1, name |-> name]}
  /\ UNCHANGED <<schema, version, pc, plan, step, faults>>

Stop(d) ==
  /\ pc[d] = "run" /\ Exit(d)
  /\ UNCHANGED <<schema, version, rows, plan, step, faults, written>>

Kill(d) ==
  /\ pc[d] # "down" /\ Exit(d) /\ Fault
  /\ UNCHANGED <<schema, version, rows, plan, step, written>>

DaemonStep(d) ==
  \/ CheckEmpty(d) \/ CheckOld(d) \/ CheckCurrent(d) \/ CheckForeign(d)
  \/ Statement(d) \/ StatementFails(d) \/ SetLatestVersion(d)
  \/ Record(d) \/ Stop(d) \/ Kill(d)

Next == \E d \in Daemons : Start(d) \/ DaemonStep(d)
Spec == Init /\ [][Next]_dbVars

-----------------------------------------------------------------------------
(* Properties *)

\* Every variable has its type, and no daemon is past the end of its statements.
TypeOK ==
  /\ schema \subseteq Objects /\ version \in {None} \cup 0..Foreign
  /\ rows \in Seq(Nat) /\ written \subseteq [row : Nat, name : Nat] /\ faults \in Nat
  /\ pc \in [Daemons -> {"down", "check", "statement", "run"}]
  /\ plan \in [Daemons -> {"create", "upgrade"}] /\ step \in [Daemons -> Nat]
  /\ \A d \in Daemons : step[d] \in 1..(IF plan[d] = "create" THEN 6 ELSE 8)

\* The version is current only when everything has been created and every row has a name.
CompleteWhenCurrent ==
  version \in {Current, Newer} => schema = Objects /\ \A i \in DOMAIN rows : rows[i] # 0

\* No daemon records into a database that is not current.
RunsOnlyCurrent == \A d \in Daemons : pc[d] = "run" => version \in {Current, Newer}

\* The statement that names the rows of an old database never overwrites the name of a
\* recorded segment, which may share its file with another.
NamesKept == \A w \in written : w.row \in DOMAIN rows /\ rows[w.row] = w.name

\* What the daemons, whatever their number, may rely on when failures and kills interrupt
\* creation and upgrades at any statement, and two daemons execute them at a time.
DatabaseSound == CompleteWhenCurrent /\ RunsOnlyCurrent /\ NamesKept
=============================================================================
