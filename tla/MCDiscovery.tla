----------------------------- MODULE MCDiscovery -----------------------------
EXTENDS Discovery, TLC

CONSTANTS s1, s2, r1, r2

OneServer == {s1}
TwoServers == {s1, s2}
OneRoute == {r1}
TwoRoutes == {r1, r2}
ThreeIds == 1..3

OnceOrPersist == {<<"--client", "--once">>, <<"--client", "--persist">>}

ServerSymmetry == Permutations(TwoServers)

AllFaults == {"start", "register", "host_name", "collision", "failure", "resolver",
              "slow", "lost_bye"}
FairFaults == {"host_name", "collision", "slow", "lost_bye"}
=============================================================================
