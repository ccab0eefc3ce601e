------------------------------- MODULE Startup -------------------------------
(***************************************************************************)
(* From the command line to cameras that record: main(), and run_instance() *)
(* up to launch_cams(), of daemons that an administrator starts, reloads   *)
(* and stops, and whose configuration file and config table are edited     *)
(* meanwhile.                                                              *)
(*                                                                         *)
(* Composes DatabaseManager, which says what happens to the database, and  *)
(* Configuration.  Of the settings there is one, motion-mods.              *)
(***************************************************************************)
EXTENDS DatabaseManager, Configuration

CONSTANTS
  Files,        \* configuration files that an administrator may write
  Values,       \* values of motion-mods that may be set on the web page
  Default,      \* the value it has in setting.hpp
  MaxEdits      \* bound

ASSUME StartupAssumption == MaxEdits \in Nat

VARIABLES
  stage,        \* "off", "privileges", "fork", "load", "connect", or "up"
  file,         \* cfg-path, << >> if it cannot be opened
  cfg,          \* what load_config() and launch_cams() have left in cfg, reload after reload
  row,          \* config: motion-mods of all cameras, and of the camera; << >> for none
  built,        \* the controller of the modules of the camera of a daemon
  edits

vars == <<dbVars, stage, file, cfg, row, built, edits>>
started == <<file, row, edits>>

StartupInit ==
  /\ Init
  /\ stage = [d \in Daemons |-> "off"]
  /\ file \in Files /\ cfg = [d \in Daemons |-> << >>]
  /\ row = [global |-> << >>, camera |-> << >>]
  /\ built = [d \in Daemons |-> Empty] /\ edits = 0

Goes(d, to) == stage' = [stage EXCEPT ![d] = to]
Returns(d) == Goes(d, "off")

-----------------------------------------------------------------------------
(* main() *)

\* process_args(): with -P there are privileges to drop, with -f the daemon forks.
Launch(d) ==
  /\ stage[d] = "off" /\ \E first \in {"privileges", "fork", "load"} : Goes(d, first)
  /\ cfg' = [cfg EXCEPT ![d] = << >>] /\ built' = [built EXCEPT ![d] = Empty]
  /\ UNCHANGED <<dbVars, started>>

DropPrivs(d) ==
  /\ stage[d] = "privileges"
  /\ Goes(d, "fork") \/ Goes(d, "load") \/ Returns(d)
  /\ UNCHANGED <<dbVars, started, cfg, built>>

\* A fork that fails is taken for the parent, which exits.
ForkBackground(d) ==
  /\ stage[d] = "fork" /\ (Goes(d, "load") \/ Returns(d))
  /\ UNCHANGED <<dbVars, started, cfg, built>>

-----------------------------------------------------------------------------
(* run_instance() *)

\* load_config(): what the file does not set any more stays set.
LoadConfig(d) ==
  /\ stage[d] = "load"
  /\ \/ file # << >> /\ Goes(d, "connect")
        /\ cfg' = [cfg EXCEPT ![d] = Setting(Parse(file), "motion-mods", @)]
     \/ file = << >> /\ Returns(d) /\ UNCHANGED cfg
  /\ UNCHANGED <<dbVars, started, built>>

ConnectFails(d) ==
  /\ stage[d] = "connect" /\ Returns(d) /\ UNCHANGED <<dbVars, started, cfg, built>>
Connect(d) ==
  /\ stage[d] = "connect" /\ Goes(d, "up") /\ Start(d) /\ UNCHANGED <<started, cfg, built>>

\* launch_cams(): the settings of all cameras go into cfg, where they stay when they are
\* removed from the table; and load_camera_config(), which starts from a copy of cfg.
Settings(d) == IF row.global # << >> THEN row.global ELSE cfg[d]
CameraValue(d) ==
  IF row.camera # << >> THEN row.camera ELSE IF Settings(d) # << >> THEN Settings(d) ELSE Default

\* A step of check_database(), after which the cameras are launched, or of what follows; a
\* camera that makes its modules does not record, and is waited for when the instance ends.
Database(d) ==
  /\ stage[d] = "up" /\ DaemonStep(d) /\ (Made(built[d]) \/ Kill(d))
  /\ IF pc'[d] = "down" THEN Returns(d) ELSE UNCHANGED stage
  /\ IF pc'[d] = "run" /\ pc[d] # "run"
     THEN /\ cfg' = [cfg EXCEPT ![d] = Settings(d)]
          /\ built' = [built EXCEPT ![d] = AddMods(CameraValue(d))]
     ELSE UNCHANGED <<cfg, built>>
  /\ UNCHANGED started

\* The constructor of MotionController, a call at a time.
AddModule(d) ==
  /\ pc[d] = "run" /\ ~Made(built[d])
  /\ \/ built[d].calls # << >> /\ built' = [built EXCEPT ![d] = ModuleBefore(@)]
     \/ built[d].calls = << >> /\ built' = [built EXCEPT ![d] = FindMod(@)]
  /\ UNCHANGED <<dbVars, stage, started, cfg>>

\* SIGHUP: the instance ends, and the next one begins.
Reload(d) ==
  /\ stage[d] = "up" /\ Made(built[d]) /\ Goes(d, "load") /\ Stop(d)
  /\ built' = [built EXCEPT ![d] = Empty] /\ UNCHANGED <<started, cfg>>

-----------------------------------------------------------------------------
\* An administrator writes another file; the web page sets, or unsets, a value.
Edit ==
  /\ edits < MaxEdits /\ edits' = edits + 1
  /\ \/ file' \in Files \cup {<< >>} /\ UNCHANGED row
     \/ /\ "config" \in schema /\ UNCHANGED file
        /\ \E v \in Values \cup {<< >>}, which \in {"global", "camera"} :
             row' = [row EXCEPT ![which] = v]
  /\ UNCHANGED <<dbVars, stage, cfg, built>>

StartupNext ==
  \/ Edit
  \/ \E d \in Daemons :
       \/ Launch(d) \/ DropPrivs(d) \/ ForkBackground(d)
       \/ LoadConfig(d) \/ ConnectFails(d) \/ Connect(d) \/ Database(d) \/ AddModule(d)
       \/ Reload(d)

StartupSpec == StartupInit /\ [][StartupNext]_vars

-----------------------------------------------------------------------------
(* Properties *)

\* A camera has no module twice, and every module runs after those that it takes its input
\* from, unless the call that asks for them is still to come.
ModulesOrdered ==
  \A d \in Daemons :
    LET mods == built[d].mods
    IN /\ IsInjective(mods)
       /\ \A j \in DOMAIN mods : \A name \in Range(Requires[mods[j]]) :
            \/ \E i \in 1..(j - 1) : mods[i] = name
            \/ <<name, mods[j]>> \in Range(built[d].calls)
=============================================================================
