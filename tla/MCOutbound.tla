----------------------------- MODULE MCOutbound -----------------------------
(* Two concurrent calls on one client.                                     *)
EXTENDS Outbound

CONSTANTS c1, c2

TwoCallers == {c1, c2}

Option(retryMax, breakerOn, provider) ==
    [retryMax |-> retryMax, breaker |-> breakerOn, provider |-> provider]

SomeOptions ==
    {Option(2, TRUE, "oauth2"), Option(3, FALSE, "service"), Option(0, TRUE, "service"),
     Option(3, TRUE, "none"), Option(-1, FALSE, "none")}

Lifetimes ==
    {[field |-> "expires_in", ticks |-> 1], [field |-> "expires_at", ticks |-> 2]}
=============================================================================
