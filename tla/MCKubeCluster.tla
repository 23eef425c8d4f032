--------------------------- MODULE MCKubeCluster ---------------------------
(* Instances of KubeCluster for TLC. *)
EXTENDS KubeCluster, TLC

CONSTANTS cp, w1, w2
=============================================================================
