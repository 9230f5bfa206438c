------------------------ MODULE MCWorkspaceLifecycle ------------------------
\* WorkspaceLifecycle for TLC.
EXTENDS WorkspaceLifecycle
=============================================================================
