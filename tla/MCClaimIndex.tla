---------------------------- MODULE MCClaimIndex ----------------------------
(* ClaimIndex on a volume of five clusters: the root directory, two files  *)
(* of one cluster and a subdirectory of two.  The guest makes the files    *)
(* and directories share clusters, and a chain leave the volume.           *)
EXTENDS ClaimIndex

MCSlots == <<"a", "b", "c">>
MCSectorOf == [c \in Named |-> IF c \in {2, 3, 9} THEN 0 ELSE IF c \in {4, 5} THEN 1 ELSE 2]
MCMountFat == [c \in Named |-> IF c = 5 THEN 6 ELSE EOC]
MCMountFiles == [k \in Keys |-> CASE k = "a" -> <<3>> [] k = "b" -> <<4>> [] OTHER -> <<>>]
MCDirRuns == {<<2, 2>>, <<5, 6>>}
MCFatWrites == {<<3, 6>>, <<4, 9>>, <<5, Free>>, <<6, 4>>, <<9, Free>>}
MCFileWrites == {<<"a", <<3, 4>>>>, <<"b", <<>>>>, <<"c", <<4>>>>}
=============================================================================
