--------------------------- MODULE MCFileManager ---------------------------
(***************************************************************************)
(* Two cameras, the second one with an output-dir of its own, and a disk   *)
(* of two blocks, one of which has to be free.                             *)
(***************************************************************************)
EXTENDS FileManager

MCCameras == {1, 2}
MCElsewhere == {2}
=============================================================================
