------------------------------ MODULE MCDaemon ------------------------------
EXTENDS Daemon, TLC
CONSTANTS p1, p2, h1, t1, t2, srv
OneStoryEach == [p \in Posts |-> 1]
TwoAndOne == (p1 :> 2) @@ (p2 :> 1)
=============================================================================
