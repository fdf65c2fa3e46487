---------------------------- MODULE MCSelfUpdate ----------------------------
(* A small instance of SelfUpdate: a release, and a second one that is     *)
(* built twice; its last build lacks a library that the others have.       *)
EXTENDS SelfUpdate

ThreeBuilds == 1..3
MCFilesOf == [b \in ThreeBuilds |-> IF b # 3 THEN File ELSE {"animasola", "tor"}]
MCTagOf == [b \in ThreeBuilds |-> IF b = 1 THEN 1 ELSE 2]
=============================================================================
