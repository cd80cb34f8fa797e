---------------------------- MODULE MCJobManager ----------------------------
(* JobManager on small instances.                                          *)
EXTENDS JobManager

CONSTANTS t1, t2, w1, w2

OneType == {t1}
TwoTypes == {t1, t2}
OneWorker == {w1}
TwoWorkers == {w1, w2}

\* retryDelayFor with RetryBaseDelay = RetryMaxDelay = 1.
UnitDelay == [a \in 0..MaxAttemptLimit |-> 1]

\* The same with delays shorter than a tick.
NoDelay == [a \in 0..MaxAttemptLimit |-> 0]
=============================================================================
