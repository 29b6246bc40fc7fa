--------------------------- MODULE MCCaptureSession ---------------------------
(***************************************************************************)
(* Instance of CaptureSession for TLC; the bounds are in the .cfg files.   *)
(***************************************************************************)
EXTENDS CaptureSession
=============================================================================
