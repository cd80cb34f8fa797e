----------------------------- MODULE MCAdmission -----------------------------
(* Two requests at a time through the gates a service may install.         *)
EXTENDS Admission, TLC

CONSTANTS r1, r2

TwoSlots == {r1, r2}

SlotSymmetry == Permutations(TwoSlots)

Kind(claims, service, tenant, status, limit) ==
    [claims |-> claims, service |-> service, access |-> TRUE, tenant |-> tenant,
     status |-> status, limit |-> limit]

SomeKinds ==
    {Kind(TRUE, FALSE, TRUE, "active", 2), Kind(TRUE, TRUE, TRUE, "suspended", Unlimited),
     Kind(FALSE, FALSE, FALSE, "", Unlimited), Kind(TRUE, FALSE, TRUE, "suspended", 2)}

OneGate == {<<"rate">>, <<"status", "sentinel">>, <<"local">>}
=============================================================================
