------------------------------ MODULE MCInbound ------------------------------
(* Two requests at a time, two signing keys.                               *)
EXTENDS Inbound, TLC

CONSTANTS r1, r2

TwoSlots == {r1, r2}

SlotSymmetry == Permutations(TwoSlots)

GoodRange(bits) == [bits |-> bits, bad |-> FALSE]
BadRange == [bits |-> {}, bad |-> TRUE]

Token(kid, key, use, perms, bit) ==
    [kid |-> kid, key |-> key, alg |-> Alg(key), use |-> use, iss |-> "us", aud |-> {"svc"},
     perms |-> perms, bit |-> bit]

Mask == <<[service |-> "svc", ranges |-> <<GoodRange({0}), GoodRange({1})>>],
          [service |-> "svc", ranges |-> <<BadRange>>]>>

Gap == <<[service |-> "svc", ranges |-> <<GoodRange({0}), BadRange, GoodRange({1})>>]>>

User1 == Token(1, 1, "access", <<>>, 0)
User2 == Token(2, 2, "access", Mask, 3)
Service0 == Token(0, 0, "service", Gap, 3)
Foreign == [Token(1, 1, "refresh", <<>>, -1) EXCEPT !.iss = "them"]

Config(route, static, explicit, fallback) ==
    [route |-> route, static |-> static, explicit |-> explicit, fallback |-> fallback,
     bypass |-> "", decisions |-> TRUE, failOpen |-> FALSE, issuer |-> "us",
     audiences |-> {"svc"}, tokens |-> {User1}, rotates |-> FALSE]

SomeConfigs ==
    {[Config("authenticated", FALSE, FALSE, FALSE) EXCEPT !.rotates = TRUE, !.tokens = {User1, User2}],
     [Config("service", TRUE, FALSE, TRUE) EXCEPT !.tokens = {User1, Service0, Foreign}],
     [Config("permission", FALSE, TRUE, FALSE) EXCEPT
         !.issuer = "", !.audiences = {}, !.tokens = {User1, Foreign}],
     [Config("permission", TRUE, TRUE, FALSE) EXCEPT
         !.decisions = FALSE, !.bypass = "false", !.rotates = TRUE, !.tokens = {User2, Service0}],
     [Config("authz", FALSE, TRUE, FALSE) EXCEPT !.issuer = "", !.tokens = {User1, Foreign}],
     [Config("authz", FALSE, TRUE, FALSE) EXCEPT !.failOpen = TRUE]}
=============================================================================
