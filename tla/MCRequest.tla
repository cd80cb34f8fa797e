------------------------------ MODULE MCRequest ------------------------------
(* Engines and requests: every order of scope, permission and authz with   *)
(* every kind of token, path, query and body; then panics, errors and      *)
(* flags with two requests at a time.                                      *)
EXTENDS Request

CONSTANTS r1, r2

TwoSlots == {r1, r2}

Ids == {"tenant_id", "user_id", "item_id", "version_id"}

Raw(use, tenant, status) ==
    [token_use |-> use, sub |-> "sub", identity_id |-> "user", tenant_id |-> tenant,
     tenant_status |-> status]

Platform == [token_use |-> "access", sub |-> "sub", identity_id |-> "admin", is_super_admin |-> "true"]
Subject  == [token_use |-> "access", sub |-> "sub", tenant_id |-> "t1"]
Removed  == [tenant_membership_status |-> "inactive"] @@ Raw("access", "t1", "active")
Untyped  == [sub |-> "sub", identity_id |-> "user", tenant_id |-> "t1"]
Service  == [token_use |-> "service", sub |-> "caller", service_id |-> "caller"]
Flagged(flag) == [feature_flags |-> flag] @@ Raw("access", "t1", "active")

Tokens ==
    {Raw("access", "t1", "active"), Raw("access", "t1", "suspended"), Platform, Subject, Untyped,
     Removed, Service, Raw("service", "t1", "suspended")}

Items == <<Segment("items")>>
Item(t) == <<Segment("tenants"), Parameter("tenant_id", t), Segment("items"), Parameter("item_id", "i")>>
User(t) == <<Segment("tenants"), Parameter("tenant_id", t), Segment("users"), Parameter("user_id", "user")>>
Version == <<Segment("items"), Parameter("item_id", "i"), Segment("versions"), Parameter("version_id", "v")>>
Check == <<Segment("quota"), Segment("check")>>

In(method, path, token) ==
    [method |-> method, path |-> path, routed |-> TRUE, query |-> <<>>, body |-> <<>>, broken |-> FALSE,
     valid |-> TRUE, token |-> token, id |-> "client"]

Anonymous(in) == [in EXCEPT !.valid = FALSE, !.token = <<>>]

Of(t) == IF t = "" THEN <<>> ELSE [tenant_id |-> t]

Scopes ==
    {[In("POST", path, token) EXCEPT !.query = Of(query), !.body = Of(body)] :
        path \in {Items, Item("t1"), Item("t2"), User("t1"), Version}, token \in Tokens,
        query \in {"", "t1", "t2"}, body \in {"", "t2"}}
    \cup {Anonymous(In("GET", Item("t1"), Platform)), [In("PUT", Items, Platform) EXCEPT !.broken = TRUE]}

Arrivals ==
    {In("POST", Item("t1"), Raw("access", "t1", "active")), In("OPTIONS", Items, Platform),
     [In("POST", Items, Service) EXCEPT !.id = ""], [In("POST", Items, Service) EXCEPT !.routed = FALSE],
     In("POST", Check, Service)}

Flags == {In("GET", Items, Flagged(flag)) : flag \in {"", "on", "false"}} \cup {In("GET", Items, Platform)}

Says(reply, errors, audit) == [reply |-> reply, errors |-> errors, audit |-> audit]
App(status) == [app |-> TRUE, status |-> status]
ServiceError(status) == [app |-> FALSE, status |-> status]

Config(chain, access, inputs) ==
    [chain |-> chain, global |-> 1, recovery |-> TRUE, prometheus |-> TRUE, cors |-> TRUE, status |-> TRUE,
     limited |-> {FALSE}, panics |-> FALSE, access |-> access, code |-> <<"svc", "items", "update">>,
     authz |-> [category |-> "items", param |-> "item_id", names |-> {"tenant_id"}, RequireTenant |-> FALSE],
     explicit |-> {""}, does |-> {Says(200, <<>>, "")}, inputs |-> inputs, slots |-> {r1}]

AllInputs ==
    [scopes |-> Scopes, arrivals |-> Arrivals, flags |-> Flags,
     one |-> {In("POST", Items, Platform)},
     two |-> {In("OPTIONS", Items, Platform), In("POST", Items, Platform)},
     suspended |-> {In("GET", Items, Raw("access", "t1", "suspended"))}]

ByPath == TenantScopeFromPath("tenant_id")
ByQuery == [DefaultTenantAccessConfig EXCEPT !.TenantQueryParam = "tenant_id", !.UserPathParam = "user_id"]
UsersOnly == [DefaultTenantAppConfig EXCEPT !.AllowServiceTokens = FALSE]

Orders ==
    {<<"authenticate", "scope", "permission", "authz">>, <<"permission", "scope", "authz">>,
     <<"enrich", "permission", "authz">>, <<"authenticate", "enrich", "authz", "permission">>}

Scoping ==
    {[Config(chain, access, "scopes") EXCEPT !.explicit = {"", "t2"}] :
        chain \in Orders, access \in {ByPath, ByQuery, DefaultTenantAccessConfig, UsersOnly}}
    \cup {[Config(<<"scope">>, ByPath, "one") EXCEPT !.global = 0],
          [Config(<<"authz">>, ByPath, "one") EXCEPT !.global = 0],
          [Config(<<"permission">>, ByPath, "one") EXCEPT !.code = <<"svc", "items">>],
          [Config(<<"authenticate", "authz">>, ByPath, "two")
              EXCEPT !.cors = FALSE, !.authz.RequireTenant = TRUE]}

Outcomes ==
    {Says(0, <<>>, "force"), Says(200, <<App(404)>>, ""), Says(0, <<App(404)>>, ""),
     Says(0, <<App(404), ServiceError(404)>>, ""), Says(403, <<>>, "skip"), Says(500, <<>>, "")}

Unwinding ==
    {[Config(<<"enrich", "authenticate">>, ByPath, "arrivals")
        EXCEPT !.panics = TRUE, !.recovery = recovery, !.does = Outcomes, !.limited = BOOLEAN,
               !.slots = TwoSlots, !.prometheus = prometheus] :
        recovery \in BOOLEAN, prometheus \in BOOLEAN}

Flagging ==
    {Config(chain, ByPath, "flags") :
        chain \in {<<"authenticate", "publish", "flags", "feature">>, <<"publish", "authenticate", "flags", "feature">>}}

AllConfigs == Scoping \cup Unwinding \cup Flagging

\* One route behind the tenant status check of the engine.
StatusOnly ==
    {Config(<<"authenticate">>, ByPath, "suspended")}

SlotSymmetry == Permutations(TwoSlots)
=============================================================================
