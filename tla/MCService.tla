------------------------------ MODULE MCService ------------------------------
(***************************************************************************)
(* Deployments for TLC: each puts one part of a service in the foreground, *)
(* so that the parts are explored in depth without multiplying each other. *)
(***************************************************************************)
EXTENDS Service

CONSTANTS A, B, a1, b1, b2, q1, q2, bye, garbage, quiet

TwoProcs == {A, B}
ThreeCodes == {a1, b1, b2}
Owner == [c \in ThreeCodes |-> IF c = a1 THEN "a" ELSE "b"]
Catalogues == [p \in TwoProcs |-> IF p = A THEN {a1} ELSE {b1, b2}]

(* A gives role r1 a permission of its own and one of B's, and empties its
   slice of r2; B manages its own slice of r1; one definition has no id. *)
Role(id, perms, managed) == [id |-> id, permissions |-> perms, managed |-> managed]
Definitions ==
    [p \in TwoProcs |->
        IF p = A THEN <<Role("r1", {a1, b1}, {}), Role("", {a1}, {"a"}), Role("r2", {}, {"a", ""})>>
        ELSE <<Role("r1", {b1, b2}, {"b"}), Role("r2", {}, {})>>]
TwoRoles == {"r1", "r2"}

ThreeEvents == {q1, q2, bye}
TwoRequests == {q1, q2}
OnShutdown == <<quiet, bye>>
SetupShutdown == <<bye, quiet>>

Plain == [maxStarts |-> 2, runtime |-> FALSE, observability |-> FALSE, audit |-> "off",
          setup |-> FALSE, requests |-> {}]
Absentee == [Plain EXCEPT !.maxStarts = 0]
Options(client, required, override, development, files) ==
    [client |-> client, serviceID |-> TRUE, required |-> required, override |-> override,
     development |-> development, versionFiles |-> files]
NoOptions == Options(FALSE, FALSE, 0, FALSE, << >>)

Deployment == [faults |-> 2, conf |-> [p \in TwoProcs |-> Absentee],
               opts |-> [p \in TwoProcs |-> NoOptions], release |-> 2, cache |-> Absent,
               known |-> TwoRoles, granted |-> {}, topic |-> << >>, consuming |-> FALSE]
Alone(c) == [Deployment EXCEPT !.conf[A] = c]

Resolving ==
    {[Alone([Plain EXCEPT !.runtime = TRUE]) EXCEPT !.opts[A] = o, !.release = 1, !.cache = c] :
        c \in {Absent, ByHand},
        o \in {Options(TRUE, TRUE, 0, FALSE, <<Unreadable, 1>>),
               Options(TRUE, FALSE, Auto, FALSE, <<1>>), Options(TRUE, FALSE, 0, TRUE, << >>),
               Options(FALSE, TRUE, 2, FALSE, << >>),
               [Options(TRUE, FALSE, 2, FALSE, << >>) EXCEPT !.serviceID = FALSE]}}

SettingUp ==
    {[Deployment EXCEPT !.conf = [p \in TwoProcs |-> [Plain EXCEPT !.setup = TRUE,
                                                      !.maxStarts = IF p = A THEN 2 ELSE 1]],
         !.known = k, !.granted = ThreeCodes, !.faults = 1] : k \in {{}, TwoRoles}}

Auditing ==
    {[Alone([Plain EXCEPT !.audit = "kafka", !.requests = TwoRequests]) EXCEPT !.faults = 1],
     [Alone([Plain EXCEPT !.audit = "kafka", !.requests = {q1}, !.maxStarts = 1])
        EXCEPT !.consuming = TRUE, !.topic = <<garbage>>]}

Exporting ==
    {Alone([Plain EXCEPT !.audit = "noop", !.observability = TRUE, !.requests = TwoRequests,
              !.maxStarts = 1])}

SomeConfigs == Resolving \cup SettingUp \cup Auditing \cup Exporting
=============================================================================
