------------------------------ MODULE MCCluster ------------------------------
EXTENDS Cluster, TLC

CONSTANTS w1, w2, f1, f2, f3

TwoWorkers == {w1, w2}
TwoFiles == {f1, f2}
ThreeFiles == {f1, f2, f3}

\* Workers with one thread each, and with one and three.
OneThread == [w \in Workers |-> 1]
OneAndThree == (w1 :> 1) @@ (w2 :> 3)

NoFaults == {}
Crashes == {"crash"}
LateRoutes == {"late_route"}
AllFaults == FaultKind

AlikeFiles == Permutations(Files)
=============================================================================
