--------------------------- MODULE MCStagingStack ---------------------------
(***************************************************************************)
(* Small instances of StagingStack for TLC: the SQL archive and the code   *)
(* of the function as files, and two versions of one image beside one of   *)
(* another; or images whose names collide or are missing.                  *)
(***************************************************************************)
EXTENDS StagingStack, TLC

CONSTANTS sql, code, i1, i2, i3, i4, springboot, springBoot, sidecar, r1, r2

RepoNames == springboot :> r1 @@ springBoot :> r1 @@ sidecar :> r2

AllNamed == i1 :> springboot @@ i2 :> springboot @@ i3 :> sidecar

CarelesslyNamed ==
    i1 :> springboot @@ i2 :> springBoot @@ i3 :> sidecar @@ i4 :> Unnamed
=============================================================================
