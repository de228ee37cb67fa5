--------------------------- MODULE MCJobWorkspace ---------------------------
(* One artifact in the workspace, one in a directory of it.                  *)
EXTENDS WorkspaceReading

MCFiles == {"plan", "days/one"}
MCNested == {"days/one"}
=============================================================================
