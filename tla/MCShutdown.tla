------------------------------- MODULE MCShutdown -------------------------------
(***************************************************************************)
(* Instance of Shutdown for TLC; the bounds are in the .cfg file.          *)
(***************************************************************************)
EXTENDS Shutdown
=============================================================================
