------------------------ MODULE MCReleaseActivation ------------------------
EXTENDS ReleaseActivation, TLC

CONSTANTS r1, r2, base, t1, t2

Targets == r1 :> t1 @@ r2 :> t2
\* The first update migrates the database, the second one does not.
Schemas == base :> 0 @@ t1 :> 1 @@ t2 :> 1
=============================================================================
