----------------------------- MODULE MCJobFleet -----------------------------
(* JobFleet on small instances.                                            *)
EXTENDS JobFleet, TLC

CONSTANTS t1, t2, w1, m1, m2, c1, c2

OneType == {t1}
TwoTypes == {t1, t2}
OneWorker == {w1}
OneManager == {m1}
TwoManagers == {m1, m2}
OneClient == {c1}
TwoClients == {c1, c2}

\* Every manager handles t1 only; nobody serves t2.
HandlesT1 == [m \in Managers |-> {t1}]

\* Managers with the same handlers, and clients, are interchangeable.
FleetSymmetry == Permutations(Managers) \cup Permutations(Clients)

\* retryDelayFor with RetryBaseDelay = RetryMaxDelay = 1.
UnitDelay == [a \in 0..MaxAttemptLimit |-> 1]
=============================================================================
