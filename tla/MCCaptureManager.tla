-------------------------- MODULE MCCaptureManager --------------------------
(* Small instance of CaptureManager: fewer slots than tasks, fewer devices  *)
(* than tasks, two runs.                                                    *)
EXTENDS CaptureManager
=============================================================================
