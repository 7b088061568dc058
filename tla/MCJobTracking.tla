---------------------------- MODULE MCJobTracking ----------------------------
(* Small instances of JobTracking for TLC.                                 *)
EXTENDS JobTracking

MCJobs == 1..2
MCPageKeys == 1..2
MCOtherKeys == {10}
=============================================================================
