--------------------------- MODULE MCTurboPersistence ---------------------------
(* Instances of TurboPersistence for TLC.                                  *)
EXTENDS TLC, TurboPersistence

(* The smallest client with which files overlap, contain one another and   *)
(* override each other.                                                    *)
OverlappingWrites == { (1 :> v) : v \in Value }
               \cup { (1 :> v @@ 2 :> v) : v \in Value }
               \cup { (2 :> Deleted) }

(* The same client, which also writes large values.                        *)
LargeWrites ==
    OverlappingWrites \cup { (1 :> BlobRef(s) @@ 2 :> v) : s \in 1 .. MaxSeq, v \in Value }
=============================================================================
