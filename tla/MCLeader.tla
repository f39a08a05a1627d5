---- MODULE MCLeader ----
EXTENDS LeaderElector, TLC
CONSTANTS w1, w2

MCWorkers == {w1, w2}
MCKeyed == {w2}
MCSkew == w1 :> 0 @@ w2 :> MaxSkew
====
