--------------------------- MODULE AccessControl ---------------------------
(***************************************************************************)
(* Who may do what: the roles of users in domains, the platform            *)
(* administrators, and the endpoints that change either.                   *)
(*                                                                         *)
(* A request is a handler on a worker thread with a session of its own.    *)
(* It reads at READ COMMITTED, one statement at a time, and writes when it *)
(* commits; other requests run between any two of its statements.  The ORM *)
(* writes the columns that differ from what the request had loaded, finds  *)
(* out when it updates a row that is gone, and does not mind when a row it *)
(* deletes is gone already.                                                *)
(***************************************************************************)
EXTENDS Naturals, FiniteSets

CONSTANTS
    Users,      \* the people the instance knows
    Domains,    \* domains, by their unique name
    Slots,      \* requests at a time
    Beginnings, \* bound: states to start from, and what is then called
    Null

VARIABLES
    pool,     \* the pool of a user's account, "none" before there is one
    platform, \* platform administrators
    domains,  \* "none", "active" or "archived"
    rows,     \* table user_domain_roles
    request,  \* what each slot is doing
    offered,  \* bound: what is called in this behaviour, fixed at its start
    watch     \* observation only: what held at some moment of a request

accessVars == <<pool, platform, domains, rows, request, offered, watch>>

Roles == {"reader", "contributor", "domain_admin"}

RoleRecord == [id : Nat, user : Users, domain : Domains, role : Roles]

ASSUME NullIsNoRow == Null \notin RoleRecord

ASSUME SlotsFinite == IsFiniteSet(Slots)

\* The states to start from are states of the tables: roles of known users in
\* domains there are, one for an id and one for a user and a domain.
ASSUME BeginningsOK ==
    \A b \in Beginnings :
        /\ b.pool \in [Users -> {"none", "internal", "external"}] /\ b.platform \subseteq Users
        /\ b.domains \in [Domains -> {"none", "active", "archived"}]
        /\ b.rows \subseteq RoleRecord /\ IsFiniteSet(b.rows)
        /\ \A row, other \in b.rows : row.id = other.id => row = other
        /\ \A row \in b.rows : b.domains[row.domain] # "none"
        /\ \A row, other \in b.rows : row.user = other.user /\ row.domain = other.domain => row = other

Rank(role) == CASE role = "reader"       -> 0
                [] role = "contributor"  -> 1
                [] role = "domain_admin" -> 2

Known == {u \in Users : pool[u] # "none"}

Idle == [op |-> "none"]

Active(s) == request[s].op # "none"

At(s, op, pc) == request[s].op = op /\ request[s].pc = pc

\* Table user_domain_roles has one row for a user and a domain.
Duplicates(u, d) == {row \in rows : row.user = u /\ row.domain = d}

RoleRowsAnywhere(u, d) == {row \in rows : row.user = u}

RoleRows(u, d) == {row \in rows : row.user = u /\ row.domain = d}

HasRoleBelow(u, d, minimum) ==
    \E row \in RoleRows(u, d) : Rank(row.role) <= Rank(minimum)

\* get_effective_role, has_minimum_role
HasRole(u, d, minimum) ==
    \E row \in RoleRows(u, d) : Rank(row.role) >= Rank(minimum)

(***************************************************************************)
(* What an operation needs of its caller (authz/dependencies.py).          *)
(***************************************************************************)
NeedsPlatform(op) == op \in {"create", "setAdmin", "archive", "getPolicy", "putPolicy"}
NeedsRole(op)     == op \in {"assign", "revoke", "archive"}

\* Anyone may open an account.
Provisioning == {"register", "sso"}

Entitled(r) ==
    \/ r.op \in Provisioning
    \/ NeedsPlatform(r.op) /\ r.by \in platform
    \/ NeedsRole(r.op) /\ \E row \in rows : row.user = r.by /\ row.domain = r.domain
                                             /\ row.role = "domain_admin"

(***************************************************************************)
(* Steps of a request.                                                     *)
(***************************************************************************)
Goto(s, pc) == request' = [request EXCEPT ![s].pc = pc]

\* The response is sent, or an exception becomes an error response.
End(s) == request' = [request EXCEPT ![s] = Idle]

Unchanged == UNCHANGED <<pool, platform, domains, rows, offered>>

Call(op, by, d, target, value) ==
    [op |-> op, by |-> by, domain |-> d, target |-> target, value |-> value,
     pc |-> IF NeedsPlatform(op) THEN "platform" ELSE "role", loaded |-> Null]

Calls(op, by) ==
    CASE op = "assign"   -> {Call(op, by, d, u, role) : d \in Domains, u \in Known \cap offered.targets, role \in Roles}
      [] op = "revoke"   -> {Call(op, by, d, u, Null) : d \in Domains, u \in Known \cap offered.targets}
      [] op = "setAdmin" -> {Call(op, by, Null, u, flag) : u \in Known \cap offered.targets, flag \in BOOLEAN}
      [] op \in {"create", "archive"} -> {Call(op, by, d, Null, Null) : d \in Domains}
      [] OTHER           -> {}

MayBegin(s) == ~Active(s) /\ Cardinality({t \in Slots : Active(t)}) < offered.requests

Begin(s) ==
    /\ MayBegin(s)
    /\ \E op \in offered.ops, by \in Known \cap offered.callers :
          \E call \in Calls(op, by) : request' = [request EXCEPT ![s] = call]
    /\ Unchanged

\* require_platform_admin, and the first half of
\* require_domain_admin_or_platform_admin
ReadPlatform(s) ==
    /\ Active(s) /\ request[s].pc = "platform"
    /\ CASE request[s].by \in platform -> Goto(s, "check")
         [] request[s].by \notin platform /\ NeedsRole(request[s].op) -> Goto(s, "role")
         [] OTHER -> End(s)
    /\ Unchanged

\* require_domain_role(ADMIN), and the second half of
\* require_domain_admin_or_platform_admin
ReadRole(s) ==
    /\ Active(s) /\ request[s].pc = "role"
    /\ IF HasRole(request[s].by, request[s].domain, "domain_admin")
         THEN Goto(s, "check") ELSE End(s)
    /\ Unchanged

\* Mutation: the archived flag is not looked at.
PassesArchived(op, d) == domains[d] # "none"

\* raise_if_archived for an assignment, get_domain_or_raise for a revocation
Passes(op, d) == domains[d] = "active" \/ (op # "assign" /\ domains[d] # "none")
CheckDomain(s) ==
    /\ At(s, "assign", "check") \/ At(s, "revoke", "check")
    /\ IF Passes(request[s].op, request[s].domain) THEN Goto(s, "load") ELSE End(s)
    /\ Unchanged

\* assign_role and revoke_role look for the row there is.
LoadRole(s) ==
    /\ At(s, "assign", "load") \/ At(s, "revoke", "load")
    /\ LET found == RoleRows(request[s].target, request[s].domain) IN
         CASE found # {} -> \E row \in found :
                 request' = [request EXCEPT ![s].loaded = row, ![s].pc = "write"]
           [] found = {} /\ request[s].op = "assign" -> Goto(s, "write")
           [] OTHER -> End(s)
    /\ Unchanged

LoadedIds == {request[s].loaded.id : s \in {t \in Slots : Active(t) /\ request[t].loaded # Null
                                                      /\ request[t].op \in {"assign", "revoke"}}}

FreshId == CHOOSE i \in 1 .. Cardinality(rows) + Cardinality(Slots) + 1 :
              i \notin {row.id : row \in rows} \cup LoadedIds

RoleRow(u, d, role) == [id |-> FreshId, user |-> u, domain |-> d, role |-> role]

\* UPDATE of the loaded row: the role only when it differs from the loaded
\* one, an error (StaleDataError) when the row is gone.
UpdateRole(loaded, role) ==
    rows' = {IF row.id = loaded.id /\ role # loaded.role THEN [row EXCEPT !.role = role] ELSE row
                : row \in rows}

InsertRole(u, d, role) ==
    rows' = IF Duplicates(u, d) = {} THEN rows \cup {RoleRow(u, d, role)} ELSE rows

AssignRole(s) ==
    /\ At(s, "assign", "write")
    /\ LET r == request[s] IN
         IF r.loaded # Null THEN UpdateRole(r.loaded, r.value)
                            ELSE InsertRole(r.target, r.domain, r.value)
    /\ End(s)
    /\ UNCHANGED <<pool, platform, domains, offered>>

RevokeRole(s) ==
    /\ At(s, "revoke", "write")
    /\ rows' = {row \in rows : row.id # request[s].loaded.id}
    /\ End(s)
    /\ UNCHANGED <<pool, platform, domains, offered>>

\* get_domain_or_raise; the domain is not deleted here (see DomainDeletion)
ArchiveDomain(s) ==
    /\ At(s, "archive", "check")
    /\ LET d == request[s].domain IN
         domains' = IF domains[d] # "none" THEN [domains EXCEPT ![d] = "archived"] ELSE domains
    /\ End(s)
    /\ UNCHANGED <<pool, platform, rows, offered>>

\* The name is looked up first; the unique column decides at the commit.
CheckName(s) ==
    /\ At(s, "create", "check")
    /\ IF domains[request[s].domain] = "none" THEN Goto(s, "write") ELSE End(s)
    /\ Unchanged

CreateDomain(s) ==
    /\ At(s, "create", "write")
    /\ LET d == request[s].domain IN
         IF domains[d] = "none"
           THEN /\ domains' = [domains EXCEPT ![d] = "active"]
                /\ rows' = rows \cup {RoleRow(request[s].by, d, "domain_admin")}
           ELSE UNCHANGED <<domains, rows>>
    /\ End(s)
    /\ UNCHANGED <<pool, platform, offered>>

MayTargetAnyone(by, target) == TRUE

MayTarget(by, target) == target # by
LoadUser(s) ==
    /\ At(s, "setAdmin", "check")
    /\ IF MayTarget(request[s].by, request[s].target)
         THEN request' = [request EXCEPT ![s].loaded = [flag |-> request[s].target \in platform],
                                         ![s].pc = "write"]
         ELSE End(s)
    /\ Unchanged

SetPlatformAdmin(s) ==
    /\ At(s, "setAdmin", "write")
    /\ LET r == request[s] IN
         platform' = IF r.value = r.loaded.flag THEN platform
                     ELSE IF r.value THEN platform \cup {r.target} ELSE platform \ {r.target}
    /\ End(s)
    /\ UNCHANGED <<pool, domains, rows, offered>>

AccessStep(s) ==
    \/ Begin(s)
    \/ ReadPlatform(s) \/ ReadRole(s) \/ CheckDomain(s) \/ LoadRole(s)
    \/ AssignRole(s) \/ RevokeRole(s) \/ ArchiveDomain(s)
    \/ CheckName(s) \/ CreateDomain(s) \/ LoadUser(s) \/ SetPlatformAdmin(s)

(***************************************************************************)
(* Observation: what held in some state since a request began.  `crossed`  *)
(* are the rows and accounts others have changed since.                    *)
(***************************************************************************)
Unwatched == [entitled |-> FALSE, open |-> FALSE, crossed |-> FALSE]

\* another request changed the role or the flag that the request of s is about
Crossed(s) ==
    /\ request[s] = request'[s]
    /\ \/ /\ request[s].op \in {"assign", "revoke"}
          /\ RoleRows(request[s].target, request[s].domain)
               # RoleRows(request[s].target, request[s].domain)'
       \/ request[s].op = "setAdmin" /\ (request[s].target \in platform) # (request[s].target \in platform')

Watch ==
    watch' = [s \in Slots |->
        IF request'[s].op = "none" THEN Unwatched
        ELSE LET before == IF Active(s) THEN watch[s] ELSE Unwatched IN
             [entitled |-> before.entitled \/ Entitled(request[s])',
              open     |-> before.open \/ (NeedsRole(request'[s].op)
                                             /\ domains'[request'[s].domain] = "active"),
              crossed  |-> before.crossed \/ (Active(s) /\ Crossed(s))]]

AccessInit ==
    /\ \E b \in Beginnings : /\ pool = b.pool /\ platform = b.platform
                             /\ domains = b.domains /\ rows = b.rows
                             /\ offered = b.offered
    /\ request = [s \in Slots |-> Idle]
    /\ watch = [s \in Slots |-> Unwatched]

AccessTypeOK ==
    /\ pool \in [Users -> {"none", "internal", "external"}]
    /\ platform \subseteq Known
    /\ domains \in [Domains -> {"none", "active", "archived"}]
    /\ \A row \in rows : row.user \in Known /\ row.domain \in Domains /\ row.role \in Roles
    /\ \A row, other \in rows : row.id = other.id => row = other
    /\ \A s \in Slots : Active(s) => request[s].by \in Users
    /\ watch \in [Slots -> [entitled : BOOLEAN, open : BOOLEAN, crossed : BOOLEAN]]

(***************************************************************************)
(* Properties.                                                             *)
(***************************************************************************)

\* Two assignments that both found no role for the user do not leave two
\* rows, of which get_effective_role would return either
\* (domains/service.py assign_role, entities/user_domain_role.py).
OneRolePerUser ==
    \A row, other \in rows : row.user = other.user /\ row.domain = other.domain => row = other

\* Roles, platform administrators and domains change only by a request whose
\* caller was entitled to the change at some moment of that very request: no
\* sequence of grants, revocations and demotions lets an older right through
\* (authz/dependencies.py).
ChangesAreEntitled ==
    [][rows' # rows \/ platform' # platform \/ domains' # domains =>
         \E s \in Slots : Active(s) /\ request'[s] # request[s] /\ watch[s].entitled]_accessVars

\* A role appears or changes in an archived domain only by an assignment for
\* that very user and domain which was under way while the domain was active,
\* whatever is archived, granted and revoked between its check and its write
\* (domains/service.py raise_if_archived, against archive_domain).
ArchivedTakesNoRoles ==
    [][\A row \in rows' \ rows : domains[row.domain] = "archived" =>
         \E s \in Slots : /\ At(s, "assign", "write") /\ request'[s] # request[s]
                          /\ request[s].domain = row.domain /\ request[s].target = row.user
                          /\ watch[s].open]_accessVars

\* Whatever crosses it, an assignment writes no role but the one it names, and
\* touches no row but that of its user in its domain; when no other request
\* crosses it the user then has that role (domains/service.py assign_role).
AssignedRoleHolds ==
    [][\A s \in Slots :
         AssignRole(s) =>
            LET r == request[s] IN
              /\ \A row \in rows' \ rows : row.user = r.target /\ row.domain = r.domain /\ row.role = r.value
              /\ \A row \in rows \ rows' : row.user = r.target /\ row.domain = r.domain
              /\ ~watch[s].crossed =>
                    \E row \in rows' : row.user = r.target /\ row.domain = r.domain /\ row.role = r.value]_accessVars

\* No administrator alone can leave the platform without one: whoever takes
\* the flag from the last administrator has lost their own since they were
\* let in (users/service.py set_platform_admin, which refuses the caller's
\* own flag).
NobodyLocksThePlatform ==
    [][platform # {} /\ platform' = {} =>
         \E s \in Slots : /\ At(s, "setAdmin", "write") /\ request'[s] # request[s]
                          /\ request[s].by \notin platform /\ watch[s].entitled]_accessVars
=============================================================================
