--------------------------- MODULE MCCampaignLock ---------------------------
EXTENDS CampaignLock, TLC

\* Processes are interchangeable.  Used by the safety run only: symmetry is not
\* sound for the liveness property.
Symmetry == Permutations(Procs)
=============================================================================
