---------------------------- MODULE Provisioning ----------------------------
(***************************************************************************)
(* What a service registers in the control plane (Sentinel) while it sets  *)
(* itself up: permissions.Bootstrap creates the permissions it defines and *)
(* loads the whole catalogue into its store; roles.Sync then checks that   *)
(* its roles exist and reconciles them one after the other.  Several       *)
(* services do this at the same time against one Sentinel, every step is   *)
(* an HTTP call that may fail before or after Sentinel acted on it, and a  *)
(* service that failed starts over.                                        *)
(***************************************************************************)
EXTENDS Processes, Integers, Sequences, FiniteSets

CONSTANTS Codes,        \* permission codes
          ServiceOf,    \* [Codes -> the service a code belongs to]
          Defines,      \* [Procs -> the codes of the process's catalogue]
          RoleDefs,     \* [Procs -> Seq of role definitions]
          Roles         \* role ids Sentinel may know

VARIABLES prov,         \* [Procs -> progress of the process's setup]
          store,        \* [Procs -> codes in its permission store]
          registered,   \* Sentinel: the codes it knows
          known,        \* Sentinel: the roles that exist
          grants        \* Sentinel: [Roles -> codes granted to the role]

provVars == <<prov, store, registered, known, grants>>

Unset == [pc |-> "idle", role |-> 0, found |-> {}]

-----------------------------------------------------------------------------
(* uniqueManagedServices: the services named, and those of the permissions;
   blank names are dropped. *)
UniqueManagedServices(def) ==
    (def.managed \ {""}) \cup {ServiceOf[c] : c \in def.permissions}

(* Sync skips definitions without a role id. *)
ValidatedRoles == [p \in Procs |-> SelectSeq(RoleDefs[p], LAMBDA d : d.id # "")]

Slice(services) == {c \in Codes : ServiceOf[c] \in services}

(* Init: what Sentinel holds from before. *)
ProvInit(existing, granted) ==
    /\ prov = [p \in Procs |-> Unset]
    /\ store = [p \in Procs |-> {}]
    /\ registered = {}
    /\ known = existing
    /\ grants = [r \in Roles |-> granted]

Advance(p, pc) == prov' = [prov EXCEPT ![p].pc = pc]

BeginSetup(p) ==
    /\ prov[p].pc = "idle"
    /\ Advance(p, "ensure")
    /\ UNCHANGED <<store, registered, known, grants>>

(* ensurePermissions: one bulk call with every definition of the catalogue. *)
EnsurePermissions(p) ==
    /\ prov[p].pc = "ensure"
    /\ registered' = registered \cup Defines[p]
    /\ Advance(p, "load")
    /\ UNCHANGED <<store, known, grants>>

(* loadPermissions: the catalogue of every service replaces the store. *)
LoadPermissions(p) ==
    /\ prov[p].pc = "load"
    /\ store' = [store EXCEPT ![p] = registered]
    /\ Advance(p, IF RoleDefs[p] = << >> THEN "done" ELSE "validate")
    /\ UNCHANGED <<registered, known, grants>>

(* The next role to reconcile: one with neither permissions nor services to
   manage is passed over. *)
Managing(p) == {i \in 1 .. Len(ValidatedRoles[p]) :
                    UniqueManagedServices(ValidatedRoles[p][i]) # {}}

NextRole(p, i) ==
    LET later == {j \in Managing(p) : j > i}
    IN  IF later = {} THEN [Unset EXCEPT !.pc = "done"]
        ELSE [Unset EXCEPT !.role = CHOOSE j \in later : \A k \in later : j <= k,
                           !.pc = "lookup"]

(* validateRoleIDs: all or nothing; no call when no definition has an id. *)
ValidateRoleIDs(p) ==
    /\ prov[p].pc = "validate"
    /\ IF {ValidatedRoles[p][i].id : i \in 1 .. Len(ValidatedRoles[p])} \subseteq known
       THEN prov' = [prov EXCEPT ![p] = NextRole(p, 0)]
       ELSE Advance(p, "failed")
    /\ UNCHANGED <<store, registered, known, grants>>

Current(p) == ValidatedRoles[p][prov[p].role]

(* getPermissionsByCode: codes Sentinel does not know are silently missing
   from the answer. *)
GetPermissionsByCode(p) ==
    /\ prov[p].pc = "lookup"
    /\ prov' = [prov EXCEPT ![p].pc = "put", ![p].found = Current(p).permissions \cap registered]
    /\ UNCHANGED <<store, registered, known, grants>>

(* Mutant: the request leaves out the services, so nothing is revoked. *)
ReconciledAdding(p) == [grants EXCEPT ![Current(p).id] = @ \cup prov[p].found]

(* Sentinel replaces the slice of the role that belongs to the services. *)
Reconciled(p) ==
    [grants EXCEPT ![Current(p).id] =
        (@ \ Slice(UniqueManagedServices(Current(p)))) \cup prov[p].found]

SyncPermissionsToRole(p) ==
    /\ prov[p].pc = "put"
    /\ grants' = Reconciled(p)
    /\ prov' = [prov EXCEPT ![p] = NextRole(p, @.role)]
    /\ UNCHANGED <<store, registered, known>>

(* A call fails: Sentinel may have acted on it all the same.  The step that
   failed ends the setup; roles reconciled so far stay reconciled. *)
CallFails(p) ==
    /\ prov[p].pc \in {"ensure", "load", "validate", "lookup", "put"}
    /\ \/ UNCHANGED <<registered, grants>>
       \/ prov[p].pc = "ensure" /\ registered' = registered \cup Defines[p] /\ UNCHANGED grants
       \/ prov[p].pc = "put" /\ grants' = Reconciled(p) /\ UNCHANGED registered
    /\ Advance(p, "failed")
    /\ UNCHANGED <<store, known>>

(* An operator creates the roles. *)
CreateRoles ==
    /\ known # Roles
    /\ known' = Roles
    /\ UNCHANGED <<prov, store, registered, grants>>

(* The process ends: its store goes, Sentinel keeps what it was told. *)
ForgetSetup(p) ==
    /\ prov' = [prov EXCEPT ![p] = Unset]
    /\ store' = [store EXCEPT ![p] = {}]

-----------------------------------------------------------------------------
\* The control plane and the permission stores hold values of their types.
ProvTypeOK ==
    /\ prov \in [Procs -> [pc : {"idle", "ensure", "load", "validate", "lookup", "put",
                                 "done", "failed"},
                           role : Nat, found : SUBSET Codes]]
    /\ store \in [Procs -> SUBSET Codes]
    /\ registered \subseteq Codes
    /\ known \subseteq Roles
    /\ grants \in [Roles -> SUBSET Codes]

(* A process whose setup is over finds every permission it defines in its
   store: the catalogue it loaded includes what it had just registered,
   whatever the other services register meanwhile. *)
StoreHasOwnCodes ==
    \A p \in Procs : prov[p].pc = "done" => Defines[p] \subseteq store[p]

Managers(r, s) ==
    {q \in Procs : \E i \in 1 .. Len(ValidatedRoles[q]) :
        /\ ValidatedRoles[q][i].id = r
        /\ s \in UniqueManagedServices(ValidatedRoles[q][i])}

Wanted(r, s, qs) ==
    UNION {ValidatedRoles[q][i].permissions : <<q, i>> \in
              {<<q, i>> \in qs \X (1 .. 4) :
                  i <= Len(ValidatedRoles[q]) /\ ValidatedRoles[q][i].id = r}} \cap Slice({s})

(* When the setup of a process is over, the slices of the roles it manages
   hold nothing that no manager of the slice wants (what was granted before
   is revoked, also after a start that failed half way), and a permission it
   wants is missing only if another service registers it or also manages the
   slice (and does not want it, or looked it up before it was registered). *)
SyncedRolesAreExact ==
    \A p \in Procs : prov[p].pc = "done" =>
        \A i \in 1 .. Len(ValidatedRoles[p]) :
            LET def == ValidatedRoles[p][i]
            IN  \A s \in UniqueManagedServices(def) :
                    LET have == grants[def.id] \cap Slice({s})
                        managers == Managers(def.id, s)
                    IN  /\ have \subseteq Wanted(def.id, s, managers)
                        /\ \A c \in (def.permissions \cap Slice({s})) \ have :
                              c \notin Defines[p] \/ managers # {p}
=============================================================================
