----------------------------- MODULE AccessControl -----------------------------
(***************************************************************************)
(* The administration of roles, assignments, accounts and API keys:        *)
(* RolesService and RbacPolicyService of rbac, UsersService of             *)
(* identity-core and ApiKeysService of m2m-api-key, called by overlapping  *)
(* requests on one PostgreSQL database (READ COMMITTED).                   *)
(*                                                                         *)
(* A request is a first read with its early returns, further reads, and    *)
(* one write; "delete, then createMany" is a transaction whose statements  *)
(* are steps.  A statement reads the rows committed when it began and      *)
(* waits for rows another transaction holds.  A statement on its own, its  *)
(* cascades and foreign keys included, is one step.                        *)
(***************************************************************************)
EXTENDS Naturals, FiniteSets

CONSTANTS
    Users, Roles, Permissions, Keys,
    SystemRoles,    \* the seeded roles ...
    Admin,          \* ... one of which is SYSTEM_ADMIN_ROLE
    UserRole,       \* ... and one SYSTEM_USER_ROLE, what new accounts get
    FirstRoles,     \* roles there at the start
    FirstUsers,     \* accounts there at the start; they hold UserRole
    NoUser,           \* no acting user
    Procs,          \* requests under way at once
    Kinds,          \* bound: the requests made, a subset of RequestKinds
    MaxWant,        \* bound: items a request names
    MaxRequests, MaxFaults

RequestKinds == {"createRole", "updateRole", "setPermissions", "removeRole", "createUser",
                 "setRoles", "mark", "unmark", "removeUser", "createKey", "updateKey", "removeKey"}

ASSUME AccessAssumption ==
    /\ SystemRoles \subseteq FirstRoles /\ FirstRoles \subseteq Roles
    /\ Admin \in SystemRoles /\ UserRole \in SystemRoles
    /\ FirstUsers \subseteq Users /\ NoUser \notin Users /\ Kinds \subseteq RequestKinds
    /\ Users \cap Roles = {} /\ Roles \cap Permissions = {}
    /\ MaxWant \in Nat /\ MaxRequests \in Nat /\ MaxFaults \in Nat

VARIABLES
    there,          \* users and roles that exist
    used,           \* ... or existed: ids are not given out again
    service,        \* accounts with isServiceAccount
    rows,           \* user_roles and role_permissions: <<owner, item>>
    keys,           \* api_keys: key -> [role, actor]; its domain is the table
    op,             \* the requests under way
    requests, faults,
    asked, crossed, \* history: what the last commit for an owner asked for; it overlapped another
    unmarked        \* history: accounts whose mark was taken away

vars == <<there, used, service, rows, keys, op, requests, faults, asked, crossed, unmarked>>

Owners == Users \cup Roles
Items == Roles \cup Permissions
Pairs == (Users \X Roles) \cup (Roles \X Permissions)
ItemsOf(o) == {i \in Items : <<o, i>> \in rows}
About(x) == {r \in Pairs : x \in {r[1], r[2]}}

(* In a transaction: the rows a delete has seen, deleted and inserted rows; history: the
   assignments made since a request's first read, and whether a commit crossed its own. *)
Idle == [kind |-> "none", on |-> NoUser, want |-> {}, bind |-> NoUser, at |-> "idle",
         snap |-> {}, deleted |-> {}, inserted |-> {}, since |-> {}, met |-> FALSE]

Init ==
    /\ there = FirstUsers \cup FirstRoles /\ used = there
    /\ service \in SUBSET FirstUsers /\ unmarked = {}
    /\ rows = FirstUsers \X {UserRole}
    /\ keys = << >>
    /\ op = [p \in Procs |-> Idle]
    /\ requests = 0 /\ faults = 0
    /\ asked = [o \in Owners |-> IF o \in FirstUsers THEN {UserRole} ELSE {}]
    /\ crossed = {}

--------------------------------------------------------------------------------
(* Requests *)

Go(p, stage) == op' = [op EXCEPT ![p].at = stage]
End(p) == op' = [op EXCEPT ![p] = Idle]

Wishes(S) == {w \in SUBSET S : Cardinality(w) <= MaxWant}

(* The controllers: which object, and what the body asks for. *)
Bodies(k) ==
    CASE k = "createRole" -> Roles \X Wishes(Permissions) \X {NoUser}
      [] k \in {"updateRole", "setPermissions"} -> Roles \X Wishes(Permissions) \X {NoUser}
      [] k = "removeRole" -> Roles \X {{}} \X {NoUser}
      [] k \in {"createUser", "setRoles"} -> Users \X Wishes(Roles) \X {NoUser}
      [] k \in {"mark", "unmark", "removeUser"} -> Users \X {{}} \X {NoUser}
      [] k \in {"createKey", "updateKey"} -> Keys \X {{r} : r \in Roles} \X (Users \cup {NoUser})
      [] k = "removeKey" -> Keys \X {{}} \X {NoUser}

Request(p, k) ==
    /\ op[p] = Idle /\ requests < MaxRequests
    /\ requests' = requests + 1
    /\ \E b \in Bodies(k) :
        op' = [op EXCEPT ![p] = [Idle EXCEPT !.kind = k, !.on = b[1], !.want = b[2],
                                             !.bind = b[3], !.at = "find"]]
    /\ UNCHANGED <<there, used, service, rows, keys, faults, asked, crossed, unmarked>>

--------------------------------------------------------------------------------
(* The first read, and the early returns on it *)

AlwaysFree(r) == TRUE                          \* mutant: nobody counts the assignments
Unassigned(r) == ~ \E u \in Users : <<u, r>> \in rows
Editable(r) == r # Admin                       \* assertPermissionsEditable
Deletable(r) ==
    r \notin SystemRoles /\ Unassigned(r) /\ ~ \E k \in DOMAIN keys : keys[k].role = r

(* Whether the request goes on after its first read, and where. *)
Passes(q) ==
    CASE q.kind = "createRole" -> q.on \notin used
      [] q.kind \in {"updateRole", "setPermissions"} -> q.on \in there /\ Editable(q.on)
      [] q.kind = "removeRole" -> q.on \in there /\ Deletable(q.on)
      [] q.kind = "createUser" -> q.on \notin used
      [] q.kind \in {"setRoles", "mark", "unmark", "removeUser"} -> q.on \in there
      [] q.kind = "createKey" -> q.on \notin DOMAIN keys
      [] q.kind \in {"updateKey", "removeKey"} -> q.on \in DOMAIN keys

Then(q) ==
    CASE q.kind = "createUser" -> "defaults"
      [] q.kind = "updateRole" -> "touch"
      [] q.kind \in {"setPermissions", "setRoles"} -> "select"
      [] q.kind \in {"createKey", "updateKey"} /\ q.bind # NoUser -> "actor"
      [] OTHER -> "write"

Find(p) ==
    /\ op[p].at = "find"
    /\ IF Passes(op[p]) THEN Go(p, Then(op[p])) ELSE End(p)
    /\ UNCHANGED <<there, used, service, rows, keys, requests, faults, asked, crossed, unmarked>>

(* UsersService.create without roleIds: defaultRoleIds. *)
DefaultRoles(p) ==
    /\ op[p].at = "defaults"
    /\ op' = [op EXCEPT ![p].at = "insert",
                        ![p].want = IF @ = {} THEN {UserRole} ELSE @]
    /\ UNCHANGED <<there, used, service, rows, keys, requests, faults, asked, crossed, unmarked>>

(* assertActingUser *)
AnyAccount(u) == u \in there                   \* mutant: the account need not be marked
MayAct(u) == u \in there /\ u \in service
CheckActor(p) ==
    /\ op[p].at = "actor"
    /\ IF MayAct(op[p].bind) THEN Go(p, "write") ELSE End(p)
    /\ UNCHANGED <<there, used, service, rows, keys, requests, faults, asked, crossed, unmarked>>

--------------------------------------------------------------------------------
(* The transaction that replaces an owner's rows *)

Others(p) == Procs \ {p}
Held(p) == UNION {op[o].deleted : o \in Others(p)}
Pending(p) == UNION {op[o].inserted : o \in Others(p)}
Touching(p) == {o \in Others(p) : op[o].kind = "updateRole" /\ op[o].at \in {"select", "delete", "insert", "commit"}}
Rows(p) == {op[p].on} \X op[p].want

(* role.update, first in the transaction of update(): P2025 when the role is gone; the row
   stays locked, so two of these follow one another. *)
TouchRole(p) ==
    /\ op[p].at = "touch"
    /\ ~ \E o \in Touching(p) : op[o].on = op[p].on
    /\ IF op[p].on \in there THEN Go(p, "select") ELSE End(p)
    /\ UNCHANGED <<there, used, service, rows, keys, requests, faults, asked, crossed, unmarked>>

(* deleteMany: what it sees ... *)
SelectRows(p) ==
    /\ op[p].at = "select"
    /\ op' = [op EXCEPT ![p].at = "delete", ![p].snap = {r \in rows : r[1] = op[p].on}]
    /\ UNCHANGED <<there, used, service, rows, keys, requests, faults, asked, crossed, unmarked>>

(* ... and deletes, once no other transaction holds them. *)
DeleteAtOnce(p) ==                             \* mutant: the statements are not one transaction
    /\ op[p].at = "delete"
    /\ op' = [op EXCEPT ![p].at = "insert", ![p].snap = {}]
    /\ rows' = rows \ op[p].snap
    /\ UNCHANGED <<there, used, service, keys, requests, faults, asked, crossed, unmarked>>
DeleteRows(p) ==
    /\ op[p].at = "delete"
    /\ op[p].snap \cap Held(p) = {}
    /\ op' = [op EXCEPT ![p].at = "insert", ![p].deleted = op[p].snap, ![p].snap = {}]
    /\ UNCHANGED <<there, used, service, rows, keys, requests, faults, asked, crossed, unmarked>>

(* createMany: P2002 on a row that is there, P2003 on an owner or a role that is not; then
   the transaction is rolled back.  A new account's row is part of its transaction. *)
Refused(p) ==
    LET q == op[p] IN
    \/ Rows(p) \cap (rows \ q.deleted) # {}
    \/ q.kind = "createUser" /\ q.on \in used
    \/ q.kind # "createUser" /\ q.want # {} /\ q.on \notin there
    \/ \E i \in q.want : i \in Roles /\ i \notin there

Creating(p) == {op[o].on : o \in {x \in Others(p) : op[x].kind = "createUser" /\ op[x].at = "commit"}}

InsertRows(p) ==
    /\ op[p].at = "insert"
    /\ Rows(p) \cap (Held(p) \cup Pending(p)) = {}
    /\ op[p].on \notin Creating(p)
    /\ IF Refused(p) THEN End(p)
       ELSE op' = [op EXCEPT ![p].at = "commit", ![p].inserted = Rows(p)]
    /\ UNCHANGED <<there, used, service, rows, keys, requests, faults, asked, crossed, unmarked>>

(* Rows that go are gone from what other deletes have seen, also when they come back. *)
Forget(q, gone) == [q EXCEPT !.snap = @ \ gone]
InWindow(q) == q.at \in {"delete", "insert", "commit"} /\ q.kind # "createUser"

Commit(p) ==
    LET q == op[p] IN
    /\ q.at = "commit"
    /\ rows' = (rows \ q.deleted) \cup q.inserted
    /\ there' = there \cup (IF q.kind = "createUser" THEN {q.on} ELSE {})
    /\ used' = used \cup there'
    /\ asked' = [asked EXCEPT ![q.on] = q.want]
    /\ crossed' = IF q.met THEN crossed \cup {q.on} ELSE crossed \ {q.on}
    /\ op' = [o \in Procs |->
                IF o = p THEN Idle
                ELSE [Forget(op[o], q.deleted) EXCEPT
                        !.since = IF op[o].at = "write" THEN @ \cup q.inserted ELSE @,
                        !.met = @ \/ (InWindow(op[o]) /\ op[o].on = q.on)]]
    /\ UNCHANGED <<service, keys, requests, faults, unmarked>>

(* The connection or the process dies, or PostgreSQL ends a circle of waits. *)
WaitsFor(p, o) ==
    /\ o # p
    /\ \/ op[p].at = "delete" /\ op[p].snap \cap op[o].deleted # {}
       \/ op[p].at = "insert" /\ Rows(p) \cap (op[o].deleted \cup op[o].inserted) # {}
InCircle(p) == \E o \in Procs : WaitsFor(p, o) /\ WaitsFor(o, p)

Abort(p) ==
    /\ op[p].at \in {"select", "delete", "insert", "commit", "write"}
    /\ \/ InCircle(p) /\ faults' = faults
       \/ faults < MaxFaults /\ faults' = faults + 1
    /\ End(p)
    /\ UNCHANGED <<there, used, service, rows, keys, requests, asked, crossed, unmarked>>

--------------------------------------------------------------------------------
(* Writes of one statement *)

Write(p, kinds) == op[p].at = "write" /\ op[p].kind \in kinds

CreateRole(p) ==
    /\ Write(p, {"createRole"})
    /\ End(p)
    /\ IF op[p].on \in used THEN UNCHANGED <<there, used, rows, asked>>
       ELSE /\ there' = there \cup {op[p].on} /\ used' = used \cup {op[p].on}
            /\ rows' = rows \cup Rows(p)
            /\ asked' = [asked EXCEPT ![op[p].on] = op[p].want]
    /\ UNCHANGED <<service, keys, requests, faults, crossed, unmarked>>

(* Waits for rows and locks that stand in the way of the delete and its cascade; an API key
   that names the object refuses it (P2003). *)
Blocked(p, x) ==
    \/ About(x) \cap (Held(p) \cup Pending(p)) # {}
    \/ \E o \in Touching(p) : op[o].on = x

Bound(x) == \E k \in DOMAIN keys : x \in {keys[k].role, keys[k].actor}

Erase(p, x) ==
    /\ there' = there \ {x}
    /\ rows' = rows \ About(x)
    /\ asked' = [o \in Owners |-> IF o = x THEN {} ELSE asked[o] \ {x}]
    /\ crossed' = crossed \ {x}
    /\ op' = [o \in Procs |-> IF o = p THEN Idle ELSE Forget(op[o], About(x))]

Remove(p) ==
    LET x == op[p].on IN
    /\ Write(p, {"removeRole", "removeUser"})
    /\ ~Blocked(p, x)
    /\ IF x \notin there \/ Bound(x)
       THEN End(p) /\ UNCHANGED <<there, rows, asked, crossed>>
       ELSE Erase(p, x)
    /\ service' = service \cap there'
    /\ UNCHANGED <<used, keys, requests, faults, unmarked>>

(* UsersService.update with isServiceAccount *)
MarkAccount(p) ==
    LET u == op[p].on IN
    /\ Write(p, {"mark", "unmark"})
    /\ End(p)
    /\ service' = IF op[p].kind = "unmark" THEN service \ {u} ELSE service \cup ({u} \cap there)
    /\ unmarked' = IF op[p].kind = "unmark" THEN unmarked \cup {u} ELSE unmarked
    /\ UNCHANGED <<there, used, rows, keys, requests, faults, asked, crossed>>

(* The insert or update of a key: its role and acting user are foreign keys. *)
SaveKey(p) ==
    LET q == op[p]
        row == [role |-> CHOOSE r \in q.want : TRUE, actor |-> q.bind]
        ok == /\ row.role \in there /\ row.actor \in there \cup {NoUser}
              /\ (q.kind = "createKey") = (q.on \notin DOMAIN keys)
    IN
    /\ Write(p, {"createKey", "updateKey"})
    /\ End(p)
    /\ keys' = IF ~ok THEN keys
               ELSE [k \in DOMAIN keys \cup {q.on} |-> IF k = q.on THEN row ELSE keys[k]]
    /\ UNCHANGED <<there, used, service, rows, requests, faults, asked, crossed, unmarked>>

RemoveKey(p) ==
    /\ Write(p, {"removeKey"})
    /\ End(p)
    /\ keys' = [k \in DOMAIN keys \ {op[p].on} |-> keys[k]]
    /\ UNCHANGED <<there, used, service, rows, requests, faults, asked, crossed, unmarked>>

--------------------------------------------------------------------------------
Step(p) ==
    \/ Find(p) \/ DefaultRoles(p) \/ CheckActor(p)
    \/ TouchRole(p) \/ SelectRows(p) \/ DeleteRows(p) \/ InsertRows(p) \/ Commit(p)
    \/ CreateRole(p) \/ Remove(p) \/ MarkAccount(p) \/ SaveKey(p) \/ RemoveKey(p)

Next == \E p \in Procs : Step(p) \/ Abort(p) \/ \E k \in Kinds : Request(p, k)

Spec == Init /\ [][Next]_vars

--------------------------------------------------------------------------------
(* Properties *)

(* Types, and the references the database keeps between the tables. *)
TypeOK ==
    /\ there \subseteq used /\ used \subseteq Owners /\ SystemRoles \subseteq there
    /\ service \subseteq Users \cap there /\ unmarked \subseteq Users
    /\ rows \subseteq Pairs /\ \A r \in rows : {r[1], r[2]} \subseteq there \cup Permissions
    /\ \A k \in DOMAIN keys : keys[k].role \in there /\ keys[k].actor \in there \cup {NoUser}
    /\ requests \in 0..MaxRequests /\ faults \in 0..MaxFaults

(* rbac-policy.service.ts:56-58, roles.service.ts:156: however replacements overlap, fail
   half-way or meet removals, an owner has at least what the last successful one asked for,
   and exactly that unless another one committed between its delete and its commit. *)
ReplacedExactly ==
    \A o \in there :
        /\ asked[o] \subseteq ItemsOf(o)
        /\ o \notin crossed => ItemsOf(o) = asked[o]

(* roles.service.ts:207-214: a role goes with its assignments only if they were made after
   the removal counted them; system roles and roles of keys never go. *)
AssignedRolesStay ==
    [][\A r \in Roles \cap (there \ there') :
          /\ r \notin SystemRoles /\ \A k \in DOMAIN keys : keys[k].role # r
          /\ \E p \in Procs : /\ op[p].kind = "removeRole" /\ op[p].on = r
                              /\ {x \in rows : x[2] = r} \subseteq op[p].since]_vars

(* api-keys.service.ts:171-179: a key acts for an account that is not a service account only
   if that account's mark was taken away at some time. *)
KeysActForServiceAccounts ==
    \A k \in DOMAIN keys : keys[k].actor \in service \cup unmarked \cup {NoUser}

(* replaceUserRoles, replacePermissions: the last commit decides, unless it overlapped
   another; and a key acts for an account that was marked as a service account. *)
CommitsHold == ReplacedExactly /\ KeysActForServiceAccounts
================================================================================
