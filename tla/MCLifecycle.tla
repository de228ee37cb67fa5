---------------------------- MODULE MCLifecycle ----------------------------
(* Both ways the command line runs the application.                           *)
EXTENDS Lifecycle

MCModes == {"console", "run"}
=============================================================================
