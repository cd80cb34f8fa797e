------------------------------ MODULE MCOutbox ------------------------------
(* Two processes over an outbox of two records, with options that fall     *)
(* back to the defaults and options whose maximum is below the minimum.    *)
EXTENDS Outbox

CONSTANTS r1, r2, p1, p2

TwoRecords == {r1, r2}

TwoProcessors == {p1, p2}

SmallDefaults == [lease |-> 1, minRetry |-> 1, maxRetry |-> 2, batch |-> 2]

SomeOptions ==
    {[lease |-> 0, minRetry |-> 0, maxRetry |-> 0, batch |-> 0],
     [lease |-> 2, minRetry |-> 2, maxRetry |-> 1, batch |-> 1]}
=============================================================================
