------------------------ MODULE MCWorkspaceLifecycle ------------------------
(* The configurations give all constants; no definitions are needed. *)
EXTENDS WorkspaceLifecycle
=============================================================================
