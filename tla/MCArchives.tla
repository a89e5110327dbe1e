----------------------------- MODULE MCArchives -----------------------------
EXTENDS Archives

\* One file (bo_state.json) and one directory (trials).
MCDirectories == {2}
=============================================================================
