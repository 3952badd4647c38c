--------------------------- MODULE QueryApi_proofs ---------------------------
(***************************************************************************)
(* Roles, platform administrators, the session policy and the answers of   *)
(* queries, for any users, domains, chunks, queries and number of requests *)
(* at a time, and any tables to start from.                                *)
(***************************************************************************)
EXTENDS QueryApi, TLAPS, FiniteSetTheorems

Ops == {"create", "archive", "assign", "revoke", "setAdmin", "getPolicy", "putPolicy",
        "register", "login", "sso"}

(* The fields a request has, whatever they hold.                           *)
IsRequest(r) ==
    /\ r = [op |-> r.op, by |-> r.by, domain |-> r.domain, target |-> r.target,
            value |-> r.value, pc |-> r.pc, loaded |-> r.loaded]
    /\ r.op \in Ops /\ r.by \in Users
    /\ r.op \in {"create", "archive", "assign", "revoke"} => r.domain \in Domains
    /\ r.op = "assign" => r.value \in Roles
    /\ r.op = "putPolicy" => r.value \in [internal : Ttls, external : Ttls]

RequestsOK ==
    /\ DOMAIN request = Slots
    /\ \A s \in Slots : request[s] = Idle \/ IsRequest(request[s])

(* A row of the role table, whatever its id.                               *)
IsRoleRow(row) ==
    /\ row = [id |-> row.id, user |-> row.user, domain |-> row.domain, role |-> row.role]
    /\ row.domain \in Domains /\ row.role \in Roles

RowsOK ==
    /\ domains \in [Domains -> {"none", "active", "archived"}]
    /\ \A row \in rows : IsRoleRow(row) /\ domains[row.domain] # "none"
    /\ OneRolePerUser

(* An assignment past its check is for a domain there is.                  *)
Assigning(s) == request[s].op = "assign" /\ request[s].pc \in {"load", "write"}

AssignsToDomain == \A s \in Slots : Assigning(s) => domains[request[s].domain] # "none"

LEMMA CallIsRequest ==
    ASSUME NEW op, NEW by \in Known, NEW call \in Calls(op, by)
    PROVE  IsRequest(call) /\ call.pc \in {"platform", "role"} /\ call.op = op /\ op \in {"create", "archive", "assign", "revoke", "setAdmin"}
<1>1. by \in Users
      BY DEF Known
<1>2. \E d \in Domains \cup {Null} : \E target, value :
          /\ call = Call(op, by, d, target, value)
          /\ op # "setAdmin" => d \in Domains
          /\ op = "assign" => value \in Roles
      BY DEF Calls
<1>3. op \in {"create", "archive", "assign", "revoke", "setAdmin"}
      BY DEF Calls
<1> QED BY <1>1, <1>2, <1>3 DEF Call, IsRequest, Ops

----------------------------------------------------------------------------
(* Steps of one request.                                                   *)

(* The request of s becomes `new`, and no other changes.                   *)
Becoming(s, new) ==
    /\ DOMAIN request' = Slots /\ request'[s] = new
    /\ \A t \in Slots : t # s => request'[t] = request[t]

LEMMA GotoBecomes ==
    ASSUME RequestsOK, NEW s \in Slots, Active(s), NEW pc, Goto(s, pc)
    PROVE  Becoming(s, [request[s] EXCEPT !.pc = pc]) /\ IsRequest([request[s] EXCEPT !.pc = pc])
<1>1. IsRequest(request[s])
      BY DEF RequestsOK, Active, Idle
<1>2. IsRequest([request[s] EXCEPT !.pc = pc])
      BY <1>1 DEF IsRequest
<1> QED BY <1>2 DEF RequestsOK, Goto, Becoming

LEMMA GotoSetsPc ==
    ASSUME RequestsOK, NEW s \in Slots, Active(s), NEW pc, Goto(s, pc)
    PROVE  request'[s].pc = pc /\ request'[s].loaded = request[s].loaded
<1>1. IsRequest(request[s]) /\ request'[s] = [request[s] EXCEPT !.pc = pc]
      BY GotoBecomes DEF Becoming, RequestsOK, Active, Idle
<1> QED BY <1>1 DEF IsRequest

LEMMA EndBecomes ==
    ASSUME RequestsOK, NEW s \in Slots, End(s)
    PROVE  Becoming(s, Idle)
BY DEF RequestsOK, End, Becoming

LEMMA LoadBecomes ==
    ASSUME RequestsOK, NEW s \in Slots, Active(s), NEW loaded, NEW pc,
           request' = [request EXCEPT ![s].loaded = loaded, ![s].pc = pc]
    PROVE  /\ Becoming(s, [request[s] EXCEPT !.loaded = loaded, !.pc = pc])
           /\ IsRequest([request[s] EXCEPT !.loaded = loaded, !.pc = pc])
<1>1. IsRequest(request[s])
      BY DEF RequestsOK, Active, Idle
<1>2. IsRequest([request[s] EXCEPT !.loaded = loaded, !.pc = pc])
  <2> DEFINE first == [request[s] EXCEPT !.loaded = loaded]
             new   == [request[s] EXCEPT !.loaded = loaded, !.pc = pc]
  <2>1. IsRequest(first) /\ new = [first EXCEPT !.pc = pc]
        BY <1>1 DEF IsRequest
  <2>2. IsRequest(new)
    <3> HIDE DEF first, new
    <3> QED BY <2>1 DEF IsRequest
  <2> QED BY <2>2
<1>3. DOMAIN request' = Slots /\ \A t \in Slots : t # s => request'[t] = request[t]
      BY DEF RequestsOK
<1>4. request'[s] = [request[s] EXCEPT !.loaded = loaded, !.pc = pc]
      BY DEF RequestsOK
<1> QED BY <1>2, <1>3, <1>4 DEF Becoming

LEMMA BecomingKeepsRequests ==
    ASSUME RequestsOK, NEW s \in Slots, NEW new, Becoming(s, new), new = Idle \/ IsRequest(new)
    PROVE  RequestsOK'
BY DEF RequestsOK, Becoming

(* What a step of AccessControl does to its request.                       *)
Advances(s, new) ==
    /\ IsRequest(new) /\ IsRequest(request[s])
    /\ new.op = request[s].op /\ new.by = request[s].by /\ new.domain = request[s].domain
    /\ new.target = request[s].target /\ new.value = request[s].value

AccessMoves(s, new) ==
    \/ new = Idle
    \/ IsRequest(new) /\ new.pc \in {"platform", "role"} /\ new.op \notin {"login", "sso", "register"}
    \/ Advances(s, new)

LEMMA AccessStepMoves ==
    ASSUME RequestsOK, NEW s \in Slots, AccessStep(s)
    PROVE  \E new : Becoming(s, new) /\ AccessMoves(s, new)
<1>0. Active(s) => IsRequest(request[s])
      BY DEF RequestsOK, Active, Idle
<1>1. CASE Begin(s)
  <2>1. PICK op \in offered.ops, by \in Known \cap offered.callers : \E call \in Calls(op, by) : request' = [request EXCEPT ![s] = call]
        BY <1>1 DEF Begin
  <2>2. PICK call \in Calls(op, by) : request' = [request EXCEPT ![s] = call]
        BY <2>1
  <2>3. Becoming(s, call)
        BY <2>2 DEF RequestsOK, Becoming
  <2> QED BY <2>3, CallIsRequest DEF AccessMoves
<1>2. ASSUME NEW pc, Goto(s, pc), Active(s)
      PROVE  \E new : Becoming(s, new) /\ AccessMoves(s, new)
  <2> DEFINE new == [request[s] EXCEPT !.pc = pc]
  <2>1. Becoming(s, new) /\ IsRequest(new)
        BY <1>2, GotoBecomes
  <2>2. Advances(s, new)
        BY <1>0, <1>2, <2>1 DEF IsRequest, Advances
  <2> HIDE DEF new
  <2> QED BY <2>1, <2>2 DEF AccessMoves
<1>3. ASSUME End(s) PROVE \E new : Becoming(s, new) /\ AccessMoves(s, new)
      BY <1>3, EndBecomes DEF AccessMoves
<1>4. ASSUME NEW loaded, NEW pc, request' = [request EXCEPT ![s].loaded = loaded, ![s].pc = pc], Active(s)
      PROVE  \E new : Becoming(s, new) /\ AccessMoves(s, new)
  <2> DEFINE new == [request[s] EXCEPT !.loaded = loaded, !.pc = pc]
  <2>1. Becoming(s, new) /\ IsRequest(new)
        BY <1>4, LoadBecomes
  <2>2. Advances(s, new)
        BY <1>0, <1>4, <2>1 DEF IsRequest, Advances
  <2> HIDE DEF new
  <2> QED BY <2>1, <2>2 DEF AccessMoves
<1>5. CASE ReadPlatform(s) \/ ReadRole(s) \/ CheckDomain(s) \/ CheckName(s)
  <2>1. Active(s)
        BY <1>5 DEF ReadPlatform, ReadRole, CheckDomain, CheckName, At, Active
  <2>2. End(s) \/ \E pc : Goto(s, pc)
        BY <1>5 DEF ReadPlatform, ReadRole, CheckDomain, CheckName
  <2> QED BY <1>2, <1>3, <2>1, <2>2
<1>6. CASE LoadRole(s) \/ LoadUser(s)
  <2>1. Active(s)
        BY <1>6 DEF LoadRole, LoadUser, At, Active
  <2>2. \/ End(s) \/ \E pc : Goto(s, pc)
        \/ \E loaded, pc : request' = [request EXCEPT ![s].loaded = loaded, ![s].pc = pc]
        BY <1>6 DEF LoadRole, LoadUser
  <2> QED BY <1>2, <1>3, <1>4, <2>1, <2>2
<1>7. CASE AssignRole(s) \/ RevokeRole(s) \/ ArchiveDomain(s) \/ CreateDomain(s) \/ SetPlatformAdmin(s)
      BY <1>3, <1>7 DEF AssignRole, RevokeRole, ArchiveDomain, CreateDomain, SetPlatformAdmin
<1> QED BY <1>1, <1>5, <1>6, <1>7 DEF AccessStep

SessionOps == {"getPolicy", "putPolicy", "register", "login", "sso"}

SessionMoves(new) == new = Idle \/ (IsRequest(new) /\ new.op \in SessionOps)

LEMMA SessionStepMoves ==
    ASSUME RequestsOK, NEW s \in Slots, SessionStep(s)
    PROVE  \E new : Becoming(s, new) /\ SessionMoves(new)
<1>0. Active(s) => IsRequest(request[s])
      BY DEF RequestsOK, Active, Idle
<1>1. ASSUME NEW op \in SessionOps, NEW by \in Users, NEW value,
             op = "putPolicy" => value \in [internal : Ttls, external : Ttls]
      PROVE  /\ IsRequest(PolicyCall(op, by, value))
             /\ IsRequest([PolicyCall(op, by, value) EXCEPT !.pc = "find"])
             /\ [PolicyCall(op, by, value) EXCEPT !.pc = "find"].op = op
      BY <1>1 DEF PolicyCall, IsRequest, SessionOps, Ops
<1>2. ASSUME NEW new, request' = [request EXCEPT ![s] = new], IsRequest(new), new.op \in SessionOps
      PROVE  \E n : Becoming(s, n) /\ SessionMoves(n)
      BY <1>2 DEF Becoming, SessionMoves, RequestsOK
<1>3. ASSUME Active(s), request[s].op \in SessionOps, \E pc : Goto(s, pc)
      PROVE  \E n : Becoming(s, n) /\ SessionMoves(n)
  <2>1. PICK pc : Goto(s, pc)
        BY <1>3
  <2>2. [request[s] EXCEPT !.pc = pc].op = request[s].op
        BY <1>0, <1>3 DEF IsRequest
  <2> QED BY <1>3, <2>1, <2>2, GotoBecomes DEF SessionMoves
<1>4. ASSUME Active(s), request[s].op \in SessionOps, \E row : Holding(s, row)
      PROVE  \E n : Becoming(s, n) /\ SessionMoves(n)
  <2>1. PICK row : Holding(s, row)
        BY <1>4
  <2>2. [request[s] EXCEPT !.loaded = row, !.pc = "held"].op = request[s].op
        BY <1>0, <1>4 DEF IsRequest
  <2> QED BY <1>4, <2>1, <2>2, LoadBecomes DEF SessionMoves, Holding
<1>5. ASSUME End(s) PROVE \E n : Becoming(s, n) /\ SessionMoves(n)
      BY <1>5, EndBecomes DEF SessionMoves
<1>6. CASE BeginPolicy(s)
  <2>1. \E op \in SessionOps, by \in Known : \E value :
            /\ op = "putPolicy" => value \in [internal : Ttls, external : Ttls]
            /\ request' = [request EXCEPT ![s] = PolicyCall(op, by, value)]
        BY <1>6 DEF BeginPolicy, SessionOps
  <2>2. PICK op, by, value :
            /\ op \in SessionOps /\ by \in Known
            /\ op = "putPolicy" => value \in [internal : Ttls, external : Ttls]
            /\ request' = [request EXCEPT ![s] = PolicyCall(op, by, value)]
        BY <2>1
  <2>3. by \in Users /\ PolicyCall(op, by, value).op = op
        BY <2>2 DEF Known, PolicyCall
  <2>4. IsRequest(PolicyCall(op, by, value))
        BY <1>1, <2>2, <2>3
  <2> QED BY <1>2, <2>2, <2>3, <2>4
<1>7. CASE BeginOnLoop(s)
  <2>1. PICK op \in offered.ops \cap OnLoop, u \in Users, kind \in Pools :
            request' = [request EXCEPT ![s] = [PolicyCall(op, u, kind) EXCEPT !.pc = "find"]]
        BY <1>7 DEF BeginOnLoop
  <2>2. op \in SessionOps /\ op # "putPolicy"
        BY DEF OnLoop, SessionOps
  <2> QED BY <1>1, <1>2, <2>1, <2>2
<1>8. CASE \/ Register(s) \/ FindOrCreate(s) \/ ReadPolicy(s) \/ InsertPolicy(s) \/ RereadPolicy(s)
           \/ AnswerPolicy(s) \/ UpdatePolicy(s)
  <2>1. Active(s) /\ request[s].op \in SessionOps
        BY <1>8 DEF Register, FindOrCreate, ReadPolicy, InsertPolicy, RereadPolicy, AnswerPolicy, UpdatePolicy,
                    At, AtPolicy, OfPolicy, Active, SessionOps
  <2>2. \/ End(s) \/ \E pc : Goto(s, pc)
        \/ \E row : Holding(s, row)
        BY <1>8 DEF Register, FindOrCreate, ReadPolicy, InsertPolicy, RereadPolicy, AnswerPolicy, UpdatePolicy
  <2> QED BY <1>3, <1>4, <1>5, <2>1, <2>2
<1>9. CASE Authenticate(s) \/ IssueToken(s)
  <2>1. Active(s) /\ request[s].op \in {"login", "sso"}
        BY <1>9 DEF Authenticate, IssueToken, At, Active
  <2>2. CASE End(s)
        BY <1>5, <2>2
  <2>3. CASE \E kind : request' = [request EXCEPT ![s].pc = "check", ![s].value = kind]
    <3>1. PICK kind : request' = [request EXCEPT ![s].pc = "check", ![s].value = kind]
          BY <2>3
    <3> DEFINE first == [request[s] EXCEPT !.pc = "check"]
               new   == [request[s] EXCEPT !.pc = "check", !.value = kind]
    <3>2. IsRequest(new) /\ new.op = request[s].op
      <4>1. IsRequest(first) /\ first.op = request[s].op /\ new = [first EXCEPT !.value = kind]
            BY <1>0, <2>1 DEF IsRequest
      <4>2. ASSUME NEW r, NEW x, IsRequest(r), r.op \in {"login", "sso"}
            PROVE  IsRequest([r EXCEPT !.value = x]) /\ [r EXCEPT !.value = x].op = r.op
            BY <4>2 DEF IsRequest
      <4> HIDE DEF first, new
      <4> QED BY <2>1, <4>1, <4>2
    <3>3. DOMAIN request' = Slots /\ \A t \in Slots : t # s => request'[t] = request[t]
          BY <3>1 DEF RequestsOK
    <3>4. request'[s] = new
          BY <3>1 DEF RequestsOK
    <3> QED BY <2>1, <3>2, <3>3, <3>4 DEF Becoming, SessionMoves, SessionOps
  <2>4. CASE \E ttl : request' = [request EXCEPT ![s].pc = "issued", ![s].target = ttl]
    <3>1. PICK ttl : request' = [request EXCEPT ![s].pc = "issued", ![s].target = ttl]
          BY <2>4
    <3> DEFINE first == [request[s] EXCEPT !.pc = "issued"]
               new   == [request[s] EXCEPT !.pc = "issued", !.target = ttl]
    <3>2. IsRequest(new) /\ new.op = request[s].op
      <4>1. IsRequest(first) /\ first.op = request[s].op /\ new = [first EXCEPT !.target = ttl]
            BY <1>0, <2>1 DEF IsRequest
      <4>2. ASSUME NEW r, NEW x, IsRequest(r), r.op \in {"login", "sso"}
            PROVE  IsRequest([r EXCEPT !.target = x]) /\ [r EXCEPT !.target = x].op = r.op
            BY <4>2 DEF IsRequest
      <4> HIDE DEF first, new
      <4> QED BY <2>1, <4>1, <4>2
    <3>3. DOMAIN request' = Slots /\ \A t \in Slots : t # s => request'[t] = request[t]
          BY <3>1 DEF RequestsOK
    <3>4. request'[s] = new
          BY <3>1 DEF RequestsOK
    <3> QED BY <2>1, <3>2, <3>3, <3>4 DEF Becoming, SessionMoves, SessionOps
  <2> QED BY <1>9, <2>2, <2>3, <2>4 DEF Authenticate, IssueToken
<1>10. CASE Respond(s)
       BY <1>5, <1>10 DEF Respond
<1> QED BY <1>6, <1>7, <1>8, <1>9, <1>10 DEF SessionStep

----------------------------------------------------------------------------
(* The role table.                                                         *)

AccessInv == RequestsOK /\ RowsOK /\ AssignsToDomain

(* A domain does not disappear here.                                       *)
DomainsStay == \A d \in Domains : domains[d] # "none" => domains'[d] # "none"

LEMMA UpdateKeepsRows ==
    ASSUME RowsOK, NEW loaded, NEW role \in Roles, UpdateRole(loaded, role), UNCHANGED domains
    PROVE  RowsOK'
<1> DEFINE Image(row) == IF row.id = loaded.id /\ role # loaded.role THEN [row EXCEPT !.role = role] ELSE row
<1>1. rows' = {Image(row) : row \in rows}
      BY DEF UpdateRole
<1>2. ASSUME NEW row \in rows
      PROVE  IsRoleRow(Image(row)) /\ Image(row).user = row.user /\ Image(row).domain = row.domain
      BY DEF RowsOK, IsRoleRow
<1> HIDE DEF Image
<1>3. \A row \in rows' : IsRoleRow(row) /\ domains[row.domain] # "none"
      BY <1>1, <1>2 DEF RowsOK
<1>4. OneRolePerUser'
  <2> SUFFICES ASSUME NEW x \in rows', NEW y \in rows', x.user = y.user, x.domain = y.domain
               PROVE  x = y
      BY DEF OneRolePerUser
  <2>1. PICK row \in rows : x = Image(row)
        BY <1>1
  <2>2. PICK other \in rows : y = Image(other)
        BY <1>1
  <2>3. row = other
        BY <1>2, <2>1, <2>2 DEF RowsOK, OneRolePerUser
  <2> QED BY <2>1, <2>2, <2>3
<1> QED BY <1>3, <1>4 DEF RowsOK

LEMMA NewRowKeepsRows ==
    ASSUME RowsOK, NEW u, NEW d \in Domains, NEW role \in Roles,
           rows' = rows \cup {RoleRow(u, d, role)}, \A row \in rows : ~(row.user = u /\ row.domain = d),
           domains' \in [Domains -> {"none", "active", "archived"}], domains'[d] # "none", DomainsStay
    PROVE  RowsOK'
<1> DEFINE new == RoleRow(u, d, role)
<1>1. IsRoleRow(new) /\ new.user = u /\ new.domain = d
      BY DEF RoleRow, IsRoleRow
<1> HIDE DEF new
<1>2. rows' = rows \cup {new}
      BY DEF new
<1>3. \A row \in rows' : IsRoleRow(row) /\ domains'[row.domain] # "none"
      BY <1>1, <1>2 DEF RowsOK, DomainsStay, IsRoleRow
<1>4. OneRolePerUser'
      BY <1>1, <1>2 DEF RowsOK, OneRolePerUser
<1> QED BY <1>3, <1>4 DEF RowsOK

LEMMA AccessKeepsRows ==
    ASSUME AccessInv, NEW s \in Slots, AccessStep(s)
    PROVE  RowsOK' /\ DomainsStay
<1> USE DEF AccessInv
<1>0. Active(s) => IsRequest(request[s])
      BY DEF RequestsOK, Active, Idle
<1>1. CASE AssignRole(s)
  <2>1. IsRequest(request[s]) /\ request[s].op = "assign" /\ request[s].pc = "write" /\ UNCHANGED domains
        BY <1>0, <1>1 DEF AssignRole, At, Active
  <2>2. request[s].value \in Roles /\ request[s].domain \in Domains
        BY <2>1 DEF IsRequest
  <2>3. CASE UpdateRole(request[s].loaded, request[s].value)
        BY <2>1, <2>2, <2>3, UpdateKeepsRows DEF DomainsStay
  <2>4. CASE InsertRole(request[s].target, request[s].domain, request[s].value)
    <3>1. CASE rows' = rows
          BY <2>1, <3>1 DEF RowsOK, OneRolePerUser, DomainsStay
    <3>2. CASE rows' # rows
      <4>1. rows' = rows \cup {RoleRow(request[s].target, request[s].domain, request[s].value)}
            BY <2>4, <3>2 DEF InsertRole
      <4>2. \A row \in rows : ~(row.user = request[s].target /\ row.domain = request[s].domain)
            BY <2>4, <3>2 DEF InsertRole, Duplicates
      <4>3. domains[request[s].domain] # "none"
            BY <2>1 DEF AssignsToDomain, Assigning
      <4> QED BY <2>1, <2>2, <4>1, <4>2, <4>3, NewRowKeepsRows DEF RowsOK, DomainsStay
    <3> QED BY <3>1, <3>2
  <2> QED BY <1>1, <2>3, <2>4 DEF AssignRole
<1>2. CASE RevokeRole(s)
  <2>1. rows' \subseteq rows /\ UNCHANGED domains
        BY <1>2 DEF RevokeRole
  <2> QED BY <2>1 DEF RowsOK, OneRolePerUser, DomainsStay
<1>3. CASE ArchiveDomain(s)
  <2>1. UNCHANGED rows /\ domains' \in [Domains -> {"none", "active", "archived"}] /\ DomainsStay
        BY <1>3 DEF ArchiveDomain, RowsOK, DomainsStay
  <2> QED BY <2>1 DEF RowsOK, OneRolePerUser, DomainsStay, IsRoleRow
<1>4. CASE CreateDomain(s)
  <2> DEFINE d == request[s].domain
  <2>1. IsRequest(request[s]) /\ d \in Domains
        BY <1>0, <1>4 DEF CreateDomain, At, Active, IsRequest
  <2>2. CASE domains[d] = "none"
    <3>1. domains' = [domains EXCEPT ![d] = "active"] /\ rows' = rows \cup {RoleRow(request[s].by, d, "domain_admin")}
          BY <1>4, <2>2 DEF CreateDomain
    <3>2. domains' \in [Domains -> {"none", "active", "archived"}] /\ DomainsStay /\ domains'[d] # "none"
          BY <2>1, <3>1 DEF RowsOK, DomainsStay
    <3>3. \A row \in rows : ~(row.user = request[s].by /\ row.domain = d)
          BY <2>2 DEF RowsOK
    <3> QED BY <2>1, <3>1, <3>2, <3>3, NewRowKeepsRows DEF Roles
  <2>3. CASE domains[d] # "none"
        BY <1>4, <2>3 DEF CreateDomain, RowsOK, OneRolePerUser, DomainsStay
  <2> QED BY <2>2, <2>3
<1>5. CASE UNCHANGED <<rows, domains>>
      BY <1>5 DEF RowsOK, OneRolePerUser, DomainsStay
<1> QED BY <1>1, <1>2, <1>3, <1>4, <1>5
        DEF AccessStep, Begin, ReadPlatform, ReadRole, CheckDomain, LoadRole, CheckName, LoadUser, SetPlatformAdmin, Unchanged

LEMMA AccessKeepsAssigns ==
    ASSUME AccessInv, NEW s \in Slots, AccessStep(s)
    PROVE  AssignsToDomain'
<1> USE DEF AccessInv
<1>1. PICK new : Becoming(s, new) /\ AccessMoves(s, new)
      BY AccessStepMoves
<1>2. DomainsStay
      BY AccessKeepsRows
<1>3. \A t \in Slots : t # s /\ Assigning(t)' => domains'[request'[t].domain] # "none"
  <2> SUFFICES ASSUME NEW t \in Slots, t # s, Assigning(t)' PROVE domains'[request'[t].domain] # "none"
      OBVIOUS
  <2>1. request'[t] = request[t] /\ Assigning(t)
        BY <1>1 DEF Becoming, Assigning
  <2>2. domains[request[t].domain] # "none" /\ request[t].domain \in Domains
        BY <2>1 DEF AssignsToDomain, Assigning, RequestsOK, IsRequest, Idle
  <2> QED BY <1>2, <2>1, <2>2 DEF DomainsStay
<1>4. ASSUME Assigning(s)' PROVE domains'[request'[s].domain] # "none"
  <2>1. request'[s] = new /\ new.op = "assign" /\ new.pc \in {"load", "write"}
        BY <1>1, <1>4 DEF Becoming, Assigning
  <2>2. Advances(s, new)
        BY <1>1, <2>1 DEF AccessMoves, Idle
  <2>3. /\ request[s].op = "assign" /\ new.domain = request[s].domain /\ new.domain \in Domains
        /\ IsRequest(request[s])
        BY <2>1, <2>2 DEF IsRequest, Advances
  <2>4. CASE CheckDomain(s)
    <3>1. domains[request[s].domain] # "none"
          BY <2>1, <2>3, <2>4, EndBecomes DEF CheckDomain, Passes, Becoming, Idle
    <3> QED BY <1>2, <2>1, <2>3, <3>1 DEF DomainsStay
  <2>5. CASE LoadRole(s)
    <3>1. Assigning(s)
          BY <2>3, <2>5 DEF LoadRole, At, Assigning
    <3> QED BY <1>2, <2>1, <2>3, <3>1 DEF AssignsToDomain, DomainsStay
  <2>6. CASE ReadPlatform(s) \/ ReadRole(s)
    <3>1. End(s) \/ Goto(s, "check") \/ Goto(s, "role")
          BY <2>6 DEF ReadPlatform, ReadRole
    <3>2. Active(s)
          BY <2>6 DEF ReadPlatform, ReadRole
    <3>3. new.pc \in {"check", "role"} \/ new = Idle
          BY <2>1, <3>1, <3>2, GotoSetsPc, EndBecomes DEF Becoming
    <3> QED BY <2>1, <3>3 DEF Idle
  <2>7. CASE Begin(s)
    <3>1. PICK op \in offered.ops, by \in Known \cap offered.callers : \E call \in Calls(op, by) : request' = [request EXCEPT ![s] = call]
          BY <2>7 DEF Begin
    <3>2. request'[s] \in Calls(op, by)
          BY <3>1 DEF RequestsOK
    <3> QED BY <2>1, <3>2, CallIsRequest
  <2>8. CASE AssignRole(s) \/ RevokeRole(s) \/ ArchiveDomain(s) \/ CreateDomain(s) \/ SetPlatformAdmin(s)
    <3>1. End(s)
          BY <2>8 DEF AssignRole, RevokeRole, ArchiveDomain, CreateDomain, SetPlatformAdmin
    <3> QED BY <2>1, <3>1, EndBecomes DEF Becoming, Idle
  <2>9. ~CheckName(s) /\ ~LoadUser(s)
        BY <2>3 DEF CheckName, LoadUser, At
  <2> QED BY <2>4, <2>5, <2>6, <2>7, <2>8, <2>9 DEF AccessStep
<1> QED BY <1>3, <1>4 DEF AssignsToDomain

LEMMA SessionFrame ==
    ASSUME NEW s \in Slots, SessionStep(s)
    PROVE  UNCHANGED <<domains, rows, offered>>
BY DEF SessionStep, BeginPolicy, BeginOnLoop, Register, Authenticate, FindOrCreate, ReadPolicy, InsertPolicy,
       RereadPolicy, AnswerPolicy, UpdatePolicy, IssueToken, Respond, Unchanged

(* What the steps of queries, of indexing and of a crash do to the rest.   *)
LEMMA OtherFrame ==
    ASSUME RetrievalStep \/ Crash \/ UNCHANGED vars
    PROVE  /\ UNCHANGED <<pool, platform, domains, rows, offered>>
           /\ request' = request \/ request' = [s \in Slots |-> Idle]
BY DEF RetrievalStep, Crash, Unchanged, vars, accessVars

LEMMA ApiSteps ==
    ASSUME [Next]_vars
    PROVE  \/ \E s \in Slots : AccessStep(s) /\ UNCHANGED policy
           \/ \E s \in Slots : SessionStep(s)
           \/ (RetrievalStep \/ Crash \/ UNCHANGED vars) /\ UNCHANGED policy
BY DEF Next, Step, Crash, vars, sessionVars

LEMMA StepKeepsAccess == AccessInv /\ [Next]_vars => AccessInv'
<1> SUFFICES ASSUME AccessInv, [Next]_vars PROVE AccessInv'
    OBVIOUS
<1> USE DEF AccessInv
<1>1. CASE \E s \in Slots : AccessStep(s)
  <2>1. PICK s \in Slots : AccessStep(s)
        BY <1>1
  <2>2. RequestsOK'
        BY <2>1, AccessStepMoves, BecomingKeepsRequests DEF AccessMoves, Advances
  <2> QED BY <2>1, <2>2, AccessKeepsRows, AccessKeepsAssigns
<1>2. CASE \E s \in Slots : SessionStep(s)
  <2>1. PICK s \in Slots : SessionStep(s)
        BY <1>2
  <2>2. UNCHANGED <<domains, rows>>
        BY <2>1, SessionFrame
  <2>3. PICK new : Becoming(s, new) /\ SessionMoves(new)
        BY <2>1, SessionStepMoves
  <2>4. RequestsOK'
        BY <2>3, BecomingKeepsRequests DEF SessionMoves
  <2>5. RowsOK'
        BY <2>2 DEF RowsOK, OneRolePerUser
  <2>6. \A t \in Slots : Assigning(t)' => t # s /\ request'[t] = request[t]
        BY <2>3 DEF Becoming, SessionMoves, Assigning, SessionOps, Idle
  <2>7. AssignsToDomain'
        BY <2>2, <2>6 DEF AssignsToDomain, Assigning
  <2> QED BY <2>4, <2>5, <2>7
<1>3. CASE RetrievalStep \/ Crash \/ UNCHANGED vars
  <2>1. /\ UNCHANGED <<domains, rows>>
        /\ request' = request \/ request' = [s \in Slots |-> Idle]
        BY <1>3, OtherFrame
  <2>2. RowsOK'
        BY <2>1 DEF RowsOK, OneRolePerUser
  <2>3. RequestsOK'
        BY <2>1 DEF RequestsOK
  <2>4. AssignsToDomain'
        BY <2>1 DEF AssignsToDomain, Assigning, Idle
  <2> QED BY <2>2, <2>3, <2>4
<1> QED BY <1>1, <1>2, <1>3, ApiSteps

LEMMA InitAccess == Init => AccessInv
<1> SUFFICES ASSUME Init PROVE AccessInv
    OBVIOUS
<1>1. PICK b \in Beginnings : domains = b.domains /\ rows = b.rows
      BY DEF Init, AccessInit
<1>2. /\ domains \in [Domains -> {"none", "active", "archived"}] /\ rows \subseteq RoleRecord
      /\ \A row \in rows : domains[row.domain] # "none"
      /\ OneRolePerUser
      BY <1>1, BeginningsOK DEF OneRolePerUser
<1>3. RowsOK
      BY <1>2 DEF RowsOK, IsRoleRow, RoleRecord
<1>4. request = [s \in Slots |-> Idle]
      BY DEF Init, AccessInit
<1> QED BY <1>3, <1>4 DEF AccessInv, RequestsOK, AssignsToDomain, Assigning, Idle

(* No interleaving of requests leaves two roles of a user in a domain      *)
(* (domains/service.py:189-219, entities/user_domain_role.py:12-24).       *)
THEOREM OneRolePerUserCorrect == Spec => []OneRolePerUser
<1>1. AccessInv => OneRolePerUser
      BY DEF AccessInv, RowsOK
<1> QED BY <1>1, InitAccess, StepKeepsAccess, PTL DEF Spec

----------------------------------------------------------------------------
(* What was seen of a request's caller and domain.                         *)

(* A request waits at the gate its operation has.                          *)
GateOK ==
    \A s \in Slots : Active(s) => /\ request[s].pc = "platform" => NeedsPlatform(request[s].op)
                                  /\ request[s].pc = "role" => NeedsRole(request[s].op)

AtGate(r) == r.pc \in {"platform", "role"}

EntitledSeen ==
    \A s \in Slots : Active(s) /\ request[s].op # "login" /\ ~AtGate(request[s]) => watch[s].entitled

OpenSeen == \A s \in Slots : Assigning(s) => watch[s].open

NotSelf == \A s \in Slots : At(s, "setAdmin", "write") => request[s].target # request[s].by

SeenInv == AccessInv /\ GateOK /\ EntitledSeen /\ OpenSeen /\ NotSelf

LEMMA WatchRemembers ==
    ASSUME Watch, NEW s \in Slots, Active(s)'
    PROVE  /\ Active(s) /\ watch[s].entitled => watch'[s].entitled
           /\ Active(s) /\ watch[s].open => watch'[s].open
           /\ Entitled(request[s])' => watch'[s].entitled
           /\ NeedsRole(request'[s].op) /\ domains'[request'[s].domain] = "active" => watch'[s].open
BY DEF Watch, Active

LEMMA AccessStepAdvances ==
    ASSUME AccessInv, NEW s \in Slots, AccessStep(s), Active(s)', ~AtGate(request'[s])
    PROVE  Active(s) /\ Advances(s, request'[s])
<1>1. PICK new : Becoming(s, new) /\ AccessMoves(s, new)
      BY AccessStepMoves DEF AccessInv
<1> QED BY <1>1 DEF AccessMoves, Becoming, AtGate, Active, Idle, Advances, IsRequest, Ops

LEMMA SessionStepAdvances ==
    ASSUME AccessInv, NEW s \in Slots, SessionStep(s), Active(s)'
    PROVE  \/ BeginPolicy(s) /\ request'[s].pc = "platform" /\ request'[s].op \in {"getPolicy", "putPolicy"}
           \/ /\ BeginOnLoop(s) /\ request'[s].pc = "find" /\ request'[s].op \in {"register", "login", "sso"}
           \/ /\ Active(s) /\ ~AtGate(request[s]) /\ ~AtGate(request'[s])
              /\ request'[s].op = request[s].op /\ request'[s].by = request[s].by
              /\ request[s].op \in SessionOps
<1>0. /\ DOMAIN request = Slots /\ request'[s] # Idle
      /\ Active(s) => IsRequest(request[s])
      BY DEF AccessInv, RequestsOK, Active, Idle
<1>1. CASE BeginPolicy(s)
      BY <1>0, <1>1 DEF BeginPolicy, PolicyCall
<1>2. CASE BeginOnLoop(s)
  <2>1. PICK op \in OnLoop, u \in Users, kind \in Pools :
            request' = [request EXCEPT ![s] = [PolicyCall(op, u, kind) EXCEPT !.pc = "find"]]
        BY <1>2 DEF BeginOnLoop
  <2>2. request'[s] = [PolicyCall(op, u, kind) EXCEPT !.pc = "find"]
        BY <1>0, <2>1
  <2>3. request'[s].pc = "find" /\ request'[s].op = op
        BY <2>2 DEF PolicyCall
  <2> QED BY <1>2, <2>3 DEF OnLoop
<1>3. ASSUME NEW pc, Goto(s, pc), Active(s), pc \notin {"platform", "role"}
      PROVE  ~AtGate(request'[s]) /\ request'[s].op = request[s].op /\ request'[s].by = request[s].by
  <2>1. request'[s] = [request[s] EXCEPT !.pc = pc]
        BY <1>0, <1>3 DEF Goto
  <2> QED BY <1>0, <1>3, <2>1 DEF IsRequest, AtGate
<1>4. ASSUME NEW row, Holding(s, row), Active(s)
      PROVE  ~AtGate(request'[s]) /\ request'[s].op = request[s].op /\ request'[s].by = request[s].by
  <2>1. request'[s] = [request[s] EXCEPT !.loaded = row, !.pc = "held"]
        BY <1>4, LoadBecomes DEF Holding, Becoming, AccessInv
  <2> QED BY <1>0, <1>4, <2>1 DEF IsRequest, AtGate
<1>5. End(s) => request'[s] = Idle
      BY <1>0 DEF End
<1>6. CASE Register(s) \/ FindOrCreate(s) \/ ReadPolicy(s) \/ InsertPolicy(s) \/ RereadPolicy(s)
  <2>1. Active(s) /\ ~AtGate(request[s]) /\ request[s].op \in SessionOps
        BY <1>6 DEF Register, FindOrCreate, ReadPolicy, InsertPolicy, RereadPolicy, At, AtPolicy, OfPolicy, Active, AtGate, SessionOps
  <2>2. End(s) \/ (\E pc : Goto(s, pc) /\ pc \notin {"platform", "role"}) \/ \E row : Holding(s, row)
        BY <1>6 DEF Register, FindOrCreate, ReadPolicy, InsertPolicy, RereadPolicy
  <2> QED BY <1>0, <1>3, <1>4, <1>5, <2>1, <2>2
<1>7. CASE AnswerPolicy(s) \/ UpdatePolicy(s) \/ Respond(s)
      BY <1>0, <1>5, <1>7 DEF AnswerPolicy, UpdatePolicy, Respond
<1>8. CASE Authenticate(s)
  <2>1. Active(s) /\ ~AtGate(request[s]) /\ request[s].op = "login"
        BY <1>8 DEF Authenticate, At, Active, AtGate
  <2>2. request' = [request EXCEPT ![s].pc = "check", ![s].value = pool[request[s].by]]
        BY <1>0, <1>5, <1>8 DEF Authenticate
  <2>3. request'[s] = [request[s] EXCEPT !.pc = "check", !.value = pool[request[s].by]]
        BY <1>0, <2>2
  <2>4. request'[s].pc = "check" /\ request'[s].op = request[s].op /\ request'[s].by = request[s].by
        BY <1>0, <2>1, <2>3 DEF IsRequest
  <2> QED BY <2>1, <2>4 DEF AtGate, SessionOps
<1>9. CASE IssueToken(s)
  <2>1. Active(s) /\ ~AtGate(request[s]) /\ request[s].op \in {"login", "sso"}
        BY <1>9 DEF IssueToken, At, Active, AtGate
  <2> DEFINE ttl == LifetimeOf(request[s].loaded, pool[request[s].by])
  <2>2. request' = [request EXCEPT ![s].pc = "issued", ![s].target = ttl]
        BY <1>9 DEF IssueToken
  <2> HIDE DEF ttl
  <2>3. request'[s] = [request[s] EXCEPT !.pc = "issued", !.target = ttl]
        BY <1>0, <2>2
  <2>4. request'[s].pc = "issued" /\ request'[s].op = request[s].op /\ request'[s].by = request[s].by
        BY <1>0, <2>1, <2>3 DEF IsRequest
  <2> QED BY <2>1, <2>4 DEF AtGate, SessionOps
<1> QED BY <1>1, <1>2, <1>6, <1>7, <1>8, <1>9 DEF SessionStep

(* A request changes only by a step of its own, or ends in a crash.        *)
LEMMA OwnStep ==
    ASSUME AccessInv, [Next]_vars, NEW t \in Slots, request'[t] # request[t]
    PROVE  \/ AccessStep(t) /\ UNCHANGED policy
           \/ SessionStep(t)
           \/ request'[t] = Idle /\ UNCHANGED <<pool, platform, domains, rows, policy>>
<1>1. CASE \E s \in Slots : AccessStep(s) /\ UNCHANGED policy
      BY <1>1, AccessStepMoves DEF AccessInv, Becoming
<1>2. CASE \E s \in Slots : SessionStep(s)
      BY <1>2, SessionStepMoves DEF AccessInv, Becoming
<1>3. CASE (RetrievalStep \/ Crash \/ UNCHANGED vars) /\ UNCHANGED policy
      BY <1>3, OtherFrame
<1> QED BY <1>1, <1>2, <1>3, ApiSteps

LEMMA StepKeepsGates ==
    ASSUME SeenInv, [Next]_vars
    PROVE  GateOK'
<1> SUFFICES ASSUME NEW t \in Slots, Active(t)'
             PROVE  /\ request'[t].pc = "platform" => NeedsPlatform(request'[t].op)
                    /\ request'[t].pc = "role" => NeedsRole(request'[t].op)
    BY DEF GateOK
<1>0. AccessInv /\ DOMAIN request = Slots
      BY DEF SeenInv, AccessInv, RequestsOK
<1>1. CASE request'[t] = request[t]
      BY <1>1 DEF SeenInv, GateOK, Active
<1>2. CASE request'[t] # request[t] /\ AccessStep(t)
  <2>1. CASE Begin(t)
    <3>1. PICK op \in offered.ops, by \in Known \cap offered.callers : \E call \in Calls(op, by) : request' = [request EXCEPT ![t] = call]
          BY <2>1 DEF Begin
    <3>2. request'[t] \in Calls(op, by)
          BY <1>0, <3>1
    <3> QED BY <3>2 DEF Calls, Call, NeedsPlatform, NeedsRole
  <2>2. CASE AtGate(request'[t]) /\ ~Begin(t)
    <3>1. ~End(t)
          BY <1>0 DEF End, Active, Idle
    <3>2. Active(t)
          BY <1>2, <2>2 DEF AccessStep, ReadPlatform, ReadRole, CheckDomain, LoadRole, AssignRole, RevokeRole,
                            ArchiveDomain, CheckName, CreateDomain, LoadUser, SetPlatformAdmin, At, Active
    <3>3. \/ \E pc \in {"check", "load", "write"} : Goto(t, pc)
          \/ Goto(t, "role") /\ NeedsRole(request[t].op)
          \/ \E loaded : request' = [request EXCEPT ![t].loaded = loaded, ![t].pc = "write"]
          BY <1>2, <2>2, <3>1 DEF AccessStep, ReadPlatform, ReadRole, CheckDomain, LoadRole, AssignRole, RevokeRole,
                            ArchiveDomain, CheckName, CreateDomain, LoadUser, SetPlatformAdmin
    <3>4. IsRequest(request[t])
          BY <1>0, <3>2 DEF AccessInv, RequestsOK, Active, Idle
    <3>5. ASSUME NEW loaded, request' = [request EXCEPT ![t].loaded = loaded, ![t].pc = "write"]
          PROVE  request'[t].pc = "write"
      <4>1. request'[t] = [request[t] EXCEPT !.loaded = loaded, !.pc = "write"]
            BY <1>0, <3>5
      <4> QED BY <3>4, <4>1 DEF IsRequest
    <3>6. ASSUME Goto(t, "role"), NeedsRole(request[t].op)
          PROVE  request'[t].pc = "role" /\ NeedsRole(request'[t].op)
      <4>1. request'[t] = [request[t] EXCEPT !.pc = "role"]
            BY <1>0, <3>6 DEF Goto
      <4> QED BY <3>4, <3>6, <4>1 DEF IsRequest
    <3> QED BY <1>0, <2>2, <3>2, <3>3, <3>5, <3>6, GotoSetsPc DEF AtGate, AccessInv
  <2> QED BY <2>1, <2>2 DEF AtGate
<1>3. CASE SessionStep(t)
  <2>1. AtGate(request'[t]) => request'[t].pc = "platform" /\ request'[t].op \in {"getPolicy", "putPolicy"}
        BY <1>0, <1>3, SessionStepAdvances DEF AtGate
  <2> QED BY <2>1 DEF AtGate, NeedsPlatform
<1> QED BY <1>0, <1>1, <1>2, <1>3, OwnStep DEF Active, Idle

LEMMA StepKeepsEntitled ==
    ASSUME SeenInv, [Next]_vars, Watch
    PROVE  EntitledSeen'
<1> SUFFICES ASSUME NEW t \in Slots, Active(t)', request'[t].op # "login", ~AtGate(request'[t])
             PROVE  watch'[t].entitled
    BY DEF EntitledSeen
<1>0. AccessInv /\ DOMAIN request = Slots
      BY DEF SeenInv, AccessInv, RequestsOK
<1>1. CASE Active(t) /\ request[t].op # "login" /\ ~AtGate(request[t])
      BY <1>1, WatchRemembers DEF SeenInv, EntitledSeen
<1>2. CASE AccessStep(t) /\ (~Active(t) \/ request[t].op = "login" \/ AtGate(request[t]))
  <2>1. Active(t) /\ Advances(t, request'[t])
        BY <1>0, <1>2, AccessStepAdvances
  <2>2. AtGate(request[t]) /\ ~End(t) /\ ~Goto(t, "role")
        BY <1>0, <1>2, <2>1, EndBecomes, GotoSetsPc DEF Advances, AccessInv, Becoming, Active, Idle, AtGate
  <2>3. \/ ReadPlatform(t) /\ request[t].by \in platform /\ request[t].pc = "platform"
        \/ ReadRole(t) /\ HasRole(request[t].by, request[t].domain, "domain_admin") /\ request[t].pc = "role"
        BY <1>2, <2>1, <2>2 DEF AccessStep, Begin, MayBegin, ReadPlatform, ReadRole, CheckDomain, LoadRole, AssignRole, RevokeRole,
                            ArchiveDomain, CheckName, CreateDomain, LoadUser, SetPlatformAdmin, At, AtGate
  <2>4. UNCHANGED <<platform, rows>>
        BY <2>3 DEF ReadPlatform, ReadRole, Unchanged
  <2>5. CASE request[t].by \in platform /\ request[t].pc = "platform"
    <3>1. NeedsPlatform(request[t].op)
          BY <2>1, <2>5 DEF SeenInv, GateOK
    <3>2. Entitled(request[t])'
          BY <2>1, <2>4, <2>5, <3>1 DEF Entitled, Advances, NeedsPlatform
    <3> QED BY <3>2, WatchRemembers
  <2>6. CASE HasRole(request[t].by, request[t].domain, "domain_admin") /\ request[t].pc = "role"
    <3>1. NeedsRole(request[t].op)
          BY <2>1, <2>6 DEF SeenInv, GateOK
    <3>2. PICK row \in RoleRows(request[t].by, request[t].domain) : Rank(row.role) >= Rank("domain_admin")
          BY <2>6 DEF HasRole
    <3>3. row \in rows /\ row.user = request[t].by /\ row.domain = request[t].domain /\ row.role \in Roles
          BY <1>0, <3>2 DEF RoleRows, AccessInv, RowsOK, IsRoleRow
    <3>4. row.role = "domain_admin"
          BY <3>2, <3>3 DEF Rank, Roles
    <3>5. Entitled(request[t])'
          BY <2>1, <2>4, <3>1, <3>3, <3>4 DEF Entitled, Advances, NeedsRole
    <3> QED BY <3>5, WatchRemembers
  <2> QED BY <2>3, <2>5, <2>6
<1>3. CASE SessionStep(t)
  <2>1. \/ BeginOnLoop(t) /\ request'[t].op \in {"register", "login", "sso"}
        \/ Active(t) /\ ~AtGate(request[t]) /\ request'[t].op = request[t].op
        BY <1>0, <1>3, SessionStepAdvances DEF AtGate
  <2>2. CASE request'[t].op \in {"register", "login", "sso"}
    <3>1. Entitled(request[t])'
          BY <2>2 DEF Entitled, Provisioning
    <3> QED BY <3>1, WatchRemembers
  <2> QED BY <1>1, <2>1, <2>2
<1>4. CASE request'[t] = request[t]
      BY <1>1, <1>4 DEF Active
<1> QED BY <1>0, <1>1, <1>2, <1>3, <1>4, OwnStep DEF Active, Idle

LEMMA StepKeepsOpen ==
    ASSUME SeenInv, [Next]_vars, Watch
    PROVE  OpenSeen'
<1> SUFFICES ASSUME NEW t \in Slots, Assigning(t)'
             PROVE  watch'[t].open
    BY DEF OpenSeen
<1>0. /\ AccessInv /\ DOMAIN request = Slots
      /\ Active(t)' /\ ~AtGate(request'[t]) /\ request'[t].op = "assign"
      BY DEF SeenInv, AccessInv, RequestsOK, Assigning, Active, AtGate
<1>1. CASE Assigning(t)
      BY <1>0, <1>1, WatchRemembers DEF SeenInv, OpenSeen, Assigning, Active
<1>2. CASE AccessStep(t) /\ ~Assigning(t)
  <2>1. Active(t) /\ Advances(t, request'[t])
        BY <1>0, <1>2, AccessStepAdvances
  <2>2. ~End(t) /\ ~Goto(t, "role") /\ ~Goto(t, "check")
        BY <1>0, <2>1, EndBecomes, GotoSetsPc DEF AccessInv, Becoming, Active, Idle, Assigning
  <2>3. CheckDomain(t) /\ domains[request[t].domain] = "active"
        BY <1>0, <1>2, <2>1, <2>2 DEF Advances, AccessStep, Begin, MayBegin, ReadPlatform, ReadRole, CheckDomain, Passes, LoadRole,
           AssignRole, RevokeRole, ArchiveDomain, CheckName, CreateDomain, LoadUser, SetPlatformAdmin, At, Assigning
  <2>4. domains'[request'[t].domain] = "active" /\ NeedsRole(request'[t].op)
        BY <1>0, <2>1, <2>3 DEF CheckDomain, Unchanged, Advances, NeedsRole
  <2> QED BY <1>0, <2>4, WatchRemembers
<1>3. ~SessionStep(t)
      BY <1>0, SessionStepAdvances DEF SessionOps
<1> QED BY <1>0, <1>1, <1>2, <1>3, OwnStep DEF Active, Idle, Assigning, SessionOps

LEMMA StepKeepsNotSelf ==
    ASSUME SeenInv, [Next]_vars
    PROVE  NotSelf'
<1> SUFFICES ASSUME NEW t \in Slots, At(t, "setAdmin", "write")'
             PROVE  request'[t].target # request'[t].by
    BY DEF NotSelf
<1>0. /\ AccessInv /\ DOMAIN request = Slots
      /\ Active(t)' /\ ~AtGate(request'[t]) /\ request'[t].op = "setAdmin" /\ request'[t].pc = "write"
      BY DEF SeenInv, AccessInv, RequestsOK, At, Active, AtGate
<1>1. CASE request'[t] = request[t]
      BY <1>0, <1>1 DEF SeenInv, NotSelf, At
<1>2. CASE AccessStep(t)
  <2>1. Active(t) /\ Advances(t, request'[t])
        BY <1>0, <1>2, AccessStepAdvances
  <2>2. ~End(t) /\ ~Goto(t, "role") /\ ~Goto(t, "check")
        BY <1>0, <2>1, EndBecomes, GotoSetsPc DEF AccessInv, Becoming, Active, Idle
  <2>3. LoadUser(t) /\ MayTarget(request[t].by, request[t].target)
        BY <1>0, <1>2, <2>1, <2>2 DEF Advances, AccessStep, Begin, MayBegin, ReadPlatform, ReadRole, CheckDomain, LoadRole,
           AssignRole, RevokeRole, ArchiveDomain, CheckName, CreateDomain, LoadUser, SetPlatformAdmin, At
  <2> QED BY <2>1, <2>3 DEF MayTarget, Advances
<1>3. ~SessionStep(t)
      BY <1>0, SessionStepAdvances DEF SessionOps
<1> QED BY <1>0, <1>1, <1>2, <1>3, OwnStep DEF Active, Idle

LEMMA StepKeepsSeen == SeenInv /\ [Next]_vars => SeenInv'
<1> SUFFICES ASSUME SeenInv, [Next]_vars PROVE SeenInv'
    OBVIOUS
<1>1. CASE Next
  <2>1. Watch
        BY <1>1 DEF Next
  <2> QED BY <2>1, StepKeepsAccess, StepKeepsGates, StepKeepsEntitled, StepKeepsOpen, StepKeepsNotSelf DEF SeenInv
<1>2. CASE UNCHANGED vars
      BY <1>2, StepKeepsAccess, StepKeepsGates, StepKeepsNotSelf
         DEF SeenInv, EntitledSeen, OpenSeen, Assigning, Active, vars, accessVars
<1> QED BY <1>1, <1>2

LEMMA InitSeen == Init => SeenInv
<1> SUFFICES ASSUME Init PROVE SeenInv
    OBVIOUS
<1>1. \A s \in Slots : request[s].op = "none"
      BY DEF Init, AccessInit, Idle
<1> QED BY <1>1, InitAccess DEF SeenInv, GateOK, EntitledSeen, OpenSeen, NotSelf, Assigning, Active, At

(* Roles, administrators and domains change in the last step of a request  *)
(* that is past its gate, or when a first login opens an account.          *)
LEMMA ChangesArePastTheGate ==
    ASSUME SeenInv, [Next]_vars, rows' # rows \/ platform' # platform \/ domains' # domains
    PROVE  \E s \in Slots : /\ Active(s) /\ request'[s] # request[s]
                            /\ ~AtGate(request[s]) /\ request[s].op # "login"
<1>0. AccessInv /\ RequestsOK
      BY DEF SeenInv, AccessInv
<1>1. CASE \E s \in Slots : AccessStep(s)
  <2>1. PICK s \in Slots : AccessStep(s)
        BY <1>1
  <2>2. AssignRole(s) \/ RevokeRole(s) \/ ArchiveDomain(s) \/ CreateDomain(s) \/ SetPlatformAdmin(s)
        BY <2>1 DEF AccessStep, Begin, ReadPlatform, ReadRole, CheckDomain, LoadRole, CheckName, LoadUser, Unchanged
  <2>3. /\ Active(s) /\ ~AtGate(request[s]) /\ request[s].op # "login" /\ End(s)
        BY <2>2 DEF AssignRole, RevokeRole, ArchiveDomain, CreateDomain, SetPlatformAdmin, At, Active, AtGate
  <2>4. request'[s] = Idle
        BY <1>0, <2>3, EndBecomes DEF Becoming
  <2> QED BY <2>3, <2>4 DEF Active, Idle
<1>2. CASE \E s \in Slots : SessionStep(s)
  <2>1. PICK s \in Slots : SessionStep(s)
        BY <1>2
  <2>2. Register(s) \/ FindOrCreate(s)
        BY <2>1, SessionFrame DEF SessionStep, BeginPolicy, BeginOnLoop, Authenticate, ReadPolicy, InsertPolicy,
           RereadPolicy, AnswerPolicy, UpdatePolicy, IssueToken, Respond, Unchanged
  <2>3. /\ Active(s) /\ request[s].pc = "find" /\ request[s].op # "login"
        /\ End(s) \/ Goto(s, "check")
        BY <2>2 DEF Register, FindOrCreate, At, Active
  <2>4. request'[s] # request[s]
        BY <1>0, <2>3, EndBecomes, GotoSetsPc DEF Becoming, Active, Idle
  <2> QED BY <2>3, <2>4 DEF AtGate
<1>3. CASE RetrievalStep \/ Crash \/ UNCHANGED vars
      BY <1>3, OtherFrame
<1> QED BY <1>1, <1>2, <1>3, ApiSteps

(* No sequence of grants, revocations and demotions lets through a change  *)
(* that its caller was at no moment of the request entitled to make        *)
(* (authz/dependencies.py:11-48).                                         *)
THEOREM ChangesAreEntitledCorrect == Spec => ChangesAreEntitled
<1> DEFINE Entitles == rows' # rows \/ platform' # platform \/ domains' # domains =>
                           \E s \in Slots : Active(s) /\ request'[s] # request[s] /\ watch[s].entitled
<1>1. SeenInv /\ [Next]_vars => [Entitles]_accessVars
      BY ChangesArePastTheGate DEF SeenInv, EntitledSeen
<1> QED BY <1>1, InitSeen, StepKeepsSeen, PTL DEF Spec, ChangesAreEntitled

(* The last administrator's flag is taken by somebody else, who was an     *)
(* administrator during the request (users/service.py:78-99).              *)
THEOREM NobodyLocksThePlatformCorrect == Spec => NobodyLocksThePlatform
<1> DEFINE Locks == platform # {} /\ platform' = {} =>
                        \E s \in Slots : /\ At(s, "setAdmin", "write") /\ request'[s] # request[s]
                                         /\ request[s].by \notin platform /\ watch[s].entitled
<1>1. SeenInv /\ [Next]_vars => [Locks]_accessVars
  <2> SUFFICES ASSUME SeenInv, [Next]_vars, platform # {}, platform' = {}
               PROVE  \E s \in Slots : /\ At(s, "setAdmin", "write") /\ request'[s] # request[s]
                                       /\ request[s].by \notin platform /\ watch[s].entitled
      OBVIOUS
  <2>0. AccessInv /\ RequestsOK
        BY DEF SeenInv, AccessInv
  <2>1. CASE \E s \in Slots : AccessStep(s)
    <3>1. PICK s \in Slots : AccessStep(s)
          BY <2>1
    <3>2. SetPlatformAdmin(s)
          BY <3>1 DEF AccessStep, Begin, ReadPlatform, ReadRole, CheckDomain, LoadRole, AssignRole, RevokeRole,
             ArchiveDomain, CheckName, CreateDomain, LoadUser, Unchanged
    <3>3. /\ At(s, "setAdmin", "write") /\ Active(s) /\ ~AtGate(request[s]) /\ request[s].op # "login" /\ End(s)
          BY <3>2 DEF SetPlatformAdmin, At, Active, AtGate
    <3>4. request'[s] # request[s]
          BY <2>0, <3>3, EndBecomes DEF Becoming, Active, Idle
    <3>5. platform \ {request[s].target} \subseteq platform'
          BY <3>2 DEF SetPlatformAdmin
    <3>6. request[s].by \notin platform
          BY <3>3, <3>5 DEF SeenInv, NotSelf
    <3> QED BY <3>3, <3>4, <3>6 DEF SeenInv, EntitledSeen
  <2>2. CASE \E s \in Slots : SessionStep(s)
    <3>1. platform \subseteq platform'
          BY <2>2 DEF SessionStep, BeginPolicy, BeginOnLoop, Register, FindOrCreate, Authenticate, ReadPolicy, InsertPolicy,
             RereadPolicy, AnswerPolicy, UpdatePolicy, IssueToken, Respond, Unchanged
    <3> QED BY <3>1
  <2>3. CASE RetrievalStep \/ Crash \/ UNCHANGED vars
        BY <2>3, OtherFrame
  <2> QED BY <2>1, <2>2, <2>3, ApiSteps
<1> QED BY <1>1, InitSeen, StepKeepsSeen, PTL DEF Spec, NobodyLocksThePlatform

----------------------------------------------------------------------------
(* The session policy, and the tokens it times.                            *)

IsPolicyRow(row) ==
    /\ row = [id |-> row.id, internal |-> row.internal, external |-> row.external]
    /\ row.internal \in Ttls /\ row.external \in Ttls

PolicyOK ==
    /\ policy = {} \/ \E row : policy = {row}
    /\ \A row \in policy : IsPolicyRow(row)

PoolOK == pool \in [Users -> Pools \cup {"none"}]

LoggingIn(s) == request[s].op \in {"login", "sso"}

(* How far a login is, and what it knows.                                  *)
LoginOK(s) ==
    LET r == request[s] IN
      /\ r.pc = "find" => r.op = "login" \/ r.value \in Pools
      /\ r.pc # "find" => pool[r.by] \in Pools
      /\ r.pc = "held" => LifetimeOf(r.loaded, pool[r.by]) \in inForce[s]
      /\ r.pc = "issued" => r.target \in inForce[s]

(* A request holds the stored row until another update changes it.         *)
HeldOK == \A s \in Slots : AtPolicy(s, "held") /\ s \notin overtaken => request[s].loaded \in policy

IssuedOK == \A s \in Slots : Active(s) /\ request[s].pc = "issued" => LoggingIn(s)

SessionInv == PolicyOK /\ PoolOK /\ HeldOK /\ IssuedOK /\ \A s \in Slots : LoggingIn(s) => LoginOK(s)

LEMMA AccessStepPcs ==
    ASSUME AccessInv, NEW t \in Slots, AccessStep(t), Active(t)'
    PROVE  request'[t].pc \in {"platform", "role", "check", "load", "write"}
<1>0. RequestsOK /\ DOMAIN request = Slots
      BY DEF AccessInv, RequestsOK
<1>1. CASE Begin(t)
  <2>1. PICK op \in offered.ops, by \in Known \cap offered.callers : \E call \in Calls(op, by) : request' = [request EXCEPT ![t] = call]
        BY <1>1 DEF Begin
  <2>2. request'[t] \in Calls(op, by)
        BY <1>0, <2>1
  <2> QED BY <2>2, CallIsRequest
<1>2. CASE ~Begin(t)
  <2>1. ~End(t)
        BY <1>0 DEF End, Active, Idle
  <2>2. Active(t)
        BY <1>2 DEF AccessStep, ReadPlatform, ReadRole, CheckDomain, LoadRole, AssignRole, RevokeRole,
                    ArchiveDomain, CheckName, CreateDomain, LoadUser, SetPlatformAdmin, At, Active
  <2>3. \/ \E pc \in {"role", "check", "load", "write"} : Goto(t, pc)
        \/ \E loaded : request' = [request EXCEPT ![t].loaded = loaded, ![t].pc = "write"]
        BY <1>2, <2>1 DEF AccessStep, ReadPlatform, ReadRole, CheckDomain, LoadRole, AssignRole, RevokeRole,
                    ArchiveDomain, CheckName, CreateDomain, LoadUser, SetPlatformAdmin
  <2>4. IsRequest(request[t])
        BY <1>0, <2>2 DEF RequestsOK, Active, Idle
  <2>5. ASSUME NEW loaded, request' = [request EXCEPT ![t].loaded = loaded, ![t].pc = "write"]
        PROVE  request'[t].pc = "write"
    <3>1. request'[t] = [request[t] EXCEPT !.loaded = loaded, !.pc = "write"]
          BY <1>0, <2>5
    <3> QED BY <2>4, <3>1 DEF IsRequest
  <2> QED BY <1>0, <2>2, <2>3, <2>5, GotoSetsPc
<1> QED BY <1>1, <1>2

(* No step of AccessControl takes a login.                                 *)
LEMMA AccessLeavesLogins ==
    ASSUME SeenInv, NEW t \in Slots, AccessStep(t)
    PROVE  ~LoggingIn(t) /\ ~LoggingIn(t)'
<1>0. AccessInv /\ RequestsOK
      BY DEF SeenInv, AccessInv
<1>1. ~LoggingIn(t)
      BY DEF SeenInv, GateOK, LoggingIn, Active, NeedsPlatform, NeedsRole, AccessStep, Begin, MayBegin, ReadPlatform,
             ReadRole, CheckDomain, LoadRole, AssignRole, RevokeRole, ArchiveDomain, CheckName, CreateDomain,
             LoadUser, SetPlatformAdmin, At
<1>2. PICK new : Becoming(t, new) /\ AccessMoves(t, new)
      BY <1>0, AccessStepMoves
<1> QED BY <1>1, <1>2 DEF Becoming, AccessMoves, Advances, LoggingIn, Idle

(* The row a request comes to hold is stored.                              *)
LEMMA HoldingStored ==
    ASSUME AccessInv, NEW t \in Slots, SessionStep(t), request'[t].pc = "held", Active(t)'
    PROVE  \E row \in policy : /\ request'[t] = [request[t] EXCEPT !.loaded = row, !.pc = "held"]
                               /\ request'[t].op = request[t].op /\ request'[t].by = request[t].by
                               /\ request'[t].loaded = row
                               /\ Active(t) /\ request[t].op \in OfPolicy /\ request[t].pc \in {"check", "reread"}
                               /\ UNCHANGED <<policy, pool>>
<1>0. /\ RequestsOK /\ DOMAIN request = Slots
      /\ Active(t) => IsRequest(request[t])
      BY DEF AccessInv, RequestsOK, Active, Idle
<1>1. ~End(t)
      BY <1>0 DEF End, Active, Idle
<1>2. \A pc : Active(t) /\ Goto(t, pc) => pc = "held"
      BY <1>0, GotoSetsPc
<1>3. ~BeginPolicy(t) /\ ~BeginOnLoop(t)
      BY <1>0, SessionStepAdvances DEF BeginPolicy, BeginOnLoop, MayBegin
<1>4. ~Authenticate(t) /\ ~IssueToken(t)
  <2>1. ASSUME NEW kind, Active(t), request' = [request EXCEPT ![t].pc = "check", ![t].value = kind] PROVE FALSE
    <3>1. request'[t] = [request[t] EXCEPT !.pc = "check", !.value = kind]
          BY <1>0, <2>1
    <3> QED BY <1>0, <2>1, <3>1 DEF IsRequest
  <2>2. ASSUME NEW ttl, Active(t), request' = [request EXCEPT ![t].pc = "issued", ![t].target = ttl] PROVE FALSE
    <3>1. request'[t] = [request[t] EXCEPT !.pc = "issued", !.target = ttl]
          BY <1>0, <2>2
    <3> QED BY <1>0, <2>2, <3>1 DEF IsRequest
  <2> QED BY <1>1, <2>1, <2>2 DEF Authenticate, IssueToken, At, Active
<1>5. ReadPolicy(t) \/ RereadPolicy(t)
      BY <1>1, <1>2, <1>3, <1>4 DEF SessionStep, Register, FindOrCreate, InsertPolicy, AnswerPolicy, UpdatePolicy,
         Respond, At, AtPolicy, OfPolicy, Active
<1>6. /\ Active(t) /\ request[t].op \in OfPolicy /\ request[t].pc \in {"check", "reread"}
      /\ UNCHANGED <<policy, pool>>
      BY <1>5 DEF ReadPolicy, RereadPolicy, AtPolicy, OfPolicy, Active, Unchanged
<1>7. PICK row \in policy : Holding(t, row)
      BY <1>2, <1>5, <1>6 DEF ReadPolicy, RereadPolicy
<1>8. request'[t] = [request[t] EXCEPT !.loaded = row, !.pc = "held"]
      BY <1>0, <1>6, <1>7, LoadBecomes DEF Holding, Becoming
<1> QED BY <1>0, <1>6, <1>8 DEF IsRequest

(* Requests are taken by one step at a time, and the policy is changed by  *)
(* two of them.                                                            *)
LEMMA PolicyChanges ==
    ASSUME SeenInv, [Next]_vars
    PROVE  \/ UNCHANGED policy
           \/ \E s \in Slots : SessionStep(s) /\ InsertPolicy(s)
           \/ \E s \in Slots : SessionStep(s) /\ UpdatePolicy(s)
BY ApiSteps DEF SessionStep, BeginPolicy, BeginOnLoop, Register, Authenticate, FindOrCreate, ReadPolicy,
                RereadPolicy, AnswerPolicy, IssueToken, Respond

LEMMA StepKeepsPolicy ==
    ASSUME SeenInv, PolicyOK, [Next]_vars, TtlsOK
    PROVE  PolicyOK'
<1>1. CASE UNCHANGED policy
      BY <1>1 DEF PolicyOK
<1>2. CASE \E s \in Slots : InsertPolicy(s)
  <2>1. UNCHANGED policy \/ (policy = {} /\ policy' = policy \cup {NewPolicy})
        BY <1>2 DEF InsertPolicy, InsertIsRefused
  <2>2. CASE policy = {} /\ policy' = policy \cup {NewPolicy}
    <3>1. IsPolicyRow(NewPolicy)
          BY TtlsOK DEF NewPolicy, IsPolicyRow
    <3>2. policy' = {NewPolicy}
          BY <2>2
    <3> HIDE DEF NewPolicy
    <3> QED BY <3>1, <3>2 DEF PolicyOK
  <2> QED BY <1>1, <2>1, <2>2
<1>3. CASE \E s \in Slots : UpdatePolicy(s)
  <2>1. PICK s \in Slots : UpdatePolicy(s)
        BY <1>3
  <2> DEFINE Image(row) == IF row.id = request[s].loaded.id THEN Stored(row, request[s].loaded, request[s].value) ELSE row
  <2>2. policy' = {Image(row) : row \in policy}
        BY <2>1 DEF UpdatePolicy
  <2>3. request[s].value \in [internal : Ttls, external : Ttls]
        BY <2>1 DEF SeenInv, AccessInv, RequestsOK, UpdatePolicy, At, IsRequest, Idle
  <2>4. ASSUME NEW row \in policy PROVE IsPolicyRow(Image(row))
    <3> DEFINE first == [row EXCEPT !.internal = IF request[s].value.internal # request[s].loaded.internal
                                                   THEN request[s].value.internal ELSE @]
               second == [first EXCEPT !.external = IF request[s].value.external # request[s].loaded.external
                                                   THEN request[s].value.external ELSE @]
    <3>0. IsPolicyRow(row)
          BY DEF PolicyOK
    <3>1. IsPolicyRow(first)
          BY <2>3, <3>0 DEF IsPolicyRow
    <3>2. IsPolicyRow(second)
      <4> HIDE DEF first
      <4> QED BY <2>3, <3>1 DEF IsPolicyRow
    <3>3. Stored(row, request[s].loaded, request[s].value) = second
          BY <3>0 DEF Stored, IsPolicyRow
    <3> HIDE DEF first, second
    <3> QED BY <3>0, <3>2, <3>3
  <2> HIDE DEF Image
  <2>5. policy' = {} \/ \E row : policy' = {row}
    <3>1. CASE policy = {}
          BY <2>2, <3>1
    <3>2. ASSUME NEW row, policy = {row} PROVE policy' = {Image(row)}
          BY <2>2, <3>2
    <3> QED BY <3>1, <3>2 DEF PolicyOK
  <2> QED BY <2>2, <2>4, <2>5 DEF PolicyOK
<1> QED BY <1>1, <1>2, <1>3, PolicyChanges

(* An account stays in its pool.                                           *)
LEMMA StepKeepsPools ==
    ASSUME SeenInv, SessionInv, [Next]_vars
    PROVE  PoolOK' /\ \A u \in Users : pool[u] \in Pools => pool'[u] = pool[u]
<1> SUFFICES ASSUME pool' # pool
             PROVE  PoolOK' /\ \A u \in Users : pool[u] \in Pools => pool'[u] = pool[u]
    BY DEF SessionInv, PoolOK
<1>1. CASE \E s \in Slots : AccessStep(s)
      BY <1>1 DEF AccessStep, Begin, ReadPlatform, ReadRole, CheckDomain, LoadRole, AssignRole, RevokeRole,
         ArchiveDomain, CheckName, CreateDomain, LoadUser, SetPlatformAdmin, Unchanged
<1>2. CASE \E s \in Slots : SessionStep(s)
  <2>1. PICK s \in Slots : SessionStep(s)
        BY <1>2
  <2>2. Register(s) \/ FindOrCreate(s)
        BY <2>1 DEF SessionStep, BeginPolicy, BeginOnLoop, Authenticate, ReadPolicy, InsertPolicy, RereadPolicy,
           AnswerPolicy, UpdatePolicy, IssueToken, Respond, Unchanged
  <2>3. request[s].by \in Users
        BY <2>2 DEF SeenInv, AccessInv, RequestsOK, IsRequest, Register, FindOrCreate, At, Idle
  <2>4. PICK kind \in Pools : request[s].by \notin Known /\ pool' = [pool EXCEPT ![request[s].by] = kind]
    <3>1. CASE Register(s)
          BY <3>1 DEF Register, Pools
    <3>2. CASE FindOrCreate(s)
      <4>1. request[s].value \in Pools
            BY <3>2 DEF FindOrCreate, At, SessionInv, LoggingIn, LoginOK
      <4> QED BY <3>2, <4>1 DEF FindOrCreate
    <3> QED BY <2>2, <3>1, <3>2
  <2>5. pool[request[s].by] \notin Pools
        BY <2>3, <2>4 DEF Known, Pools
  <2> QED BY <2>3, <2>4, <2>5 DEF SessionInv, PoolOK
<1>3. CASE RetrievalStep \/ Crash \/ UNCHANGED vars
      BY <1>3, OtherFrame
<1> QED BY <1>1, <1>2, <1>3, ApiSteps

LEMMA StepKeepsHeld ==
    ASSUME SeenInv, SessionInv, [Next]_vars, WatchSessions
    PROVE  HeldOK'
<1> SUFFICES ASSUME NEW t \in Slots, AtPolicy(t, "held")', t \notin overtaken'
             PROVE  request'[t].loaded \in policy'
    BY DEF HeldOK
<1>0. /\ AccessInv /\ DOMAIN request = Slots
      /\ Active(t)' /\ request'[t].pc = "held"
      BY DEF SeenInv, AccessInv, RequestsOK, AtPolicy, OfPolicy, Active
<1>1. CASE request'[t] = request[t]
  <2>1. AtPolicy(t, "held") /\ t \notin overtaken /\ policy' = policy
        BY <1>1 DEF WatchSessions, AtPolicy
  <2> QED BY <1>1, <2>1 DEF SessionInv, HeldOK
<1>2. CASE SessionStep(t)
      BY <1>0, <1>2, HoldingStored
<1>3. ~AccessStep(t)
      BY <1>0, AccessStepPcs
<1> QED BY <1>0, <1>1, <1>2, <1>3, OwnStep DEF Active, Idle

(* The stations of a login.                                                *)
LEMMA LoginAdvances ==
    ASSUME SeenInv, SessionInv, NEW t \in Slots, SessionStep(t), Active(t)',
           LoggingIn(t)' \/ request'[t].pc = "issued"
    PROVE  \/ request'[t].pc = "find" /\ request'[t].value \in Pools
           \/ request'[t].pc = "check" /\ pool'[request'[t].by] \in Pools
           \/ request'[t].pc = "held"
           \/ /\ request'[t].pc \in {"insert", "reread"} /\ LoggingIn(t) /\ request[t].pc # "find"
              /\ request'[t].by = request[t].by
           \/ /\ request'[t].pc = "issued" /\ LoggingIn(t) /\ LoggingIn(t)' /\ request[t].pc = "held"
              /\ request'[t].target = LifetimeOf(request[t].loaded, pool[request[t].by])
              /\ request'[t].by = request[t].by
<1>0. /\ AccessInv /\ RequestsOK /\ DOMAIN request = Slots /\ PoolOK
      /\ Active(t) => IsRequest(request[t])
      BY DEF SeenInv, SessionInv, AccessInv, RequestsOK, Active, Idle
<1>1. ~End(t)
      BY <1>0 DEF End, Active, Idle
<1>2. CASE BeginPolicy(t)
      BY <1>0, <1>2 DEF BeginPolicy, PolicyCall, LoggingIn
<1>3. CASE BeginOnLoop(t)
  <2>1. PICK op \in OnLoop, u \in Users, kind \in Pools :
            request' = [request EXCEPT ![t] = [PolicyCall(op, u, kind) EXCEPT !.pc = "find"]]
        BY <1>3 DEF BeginOnLoop
  <2>2. request'[t] = [PolicyCall(op, u, kind) EXCEPT !.pc = "find"]
        BY <1>0, <2>1
  <2> QED BY <2>2 DEF PolicyCall
<1>4. CASE \E row : Holding(t, row)
  <2>1. PICK row : request'[t] = [request[t] EXCEPT !.loaded = row, !.pc = "held"]
        BY <1>0, <1>4 DEF Holding
  <2>2. CASE Active(t)
        BY <1>0, <2>1, <2>2 DEF IsRequest
  <2>3. CASE ~Active(t)
    <3>1. request[t] = Idle
          BY <1>0, <2>3 DEF RequestsOK, Active, IsRequest, Ops
    <3>2. request'[t] = Idle
          BY <2>1, <3>1 DEF Idle
    <3> QED BY <3>2 DEF Active, Idle
  <2> QED BY <2>2, <2>3
<1>5. ASSUME NEW pc, Goto(t, pc), Active(t)
      PROVE  request'[t].pc = pc /\ request'[t].op = request[t].op /\ request'[t].by = request[t].by
  <2>1. request'[t] = [request[t] EXCEPT !.pc = pc]
        BY <1>0, <1>5 DEF Goto
  <2> QED BY <1>0, <1>5, <2>1 DEF IsRequest
<1>6. CASE InsertPolicy(t) \/ (ReadPolicy(t) /\ Goto(t, "insert"))
  <2>1. /\ Active(t) /\ request[t].pc # "find"
        /\ Goto(t, "reread") \/ Goto(t, "insert")
        BY <1>6 DEF InsertPolicy, ReadPolicy, AtPolicy, OfPolicy, Active
  <2>2. request'[t].pc \in {"insert", "reread"} /\ request'[t].op = request[t].op /\ request'[t].by = request[t].by
        BY <1>5, <2>1
  <2> QED BY <2>1, <2>2 DEF LoggingIn
<1>7. CASE FindOrCreate(t)
  <2>1. /\ Active(t) /\ Goto(t, "check") /\ request[t].by \in Users /\ request[t].value \in Pools
        BY <1>0, <1>1, <1>7 DEF FindOrCreate, At, Active, IsRequest, SessionInv, LoggingIn, LoginOK
  <2>2. pool'[request[t].by] \in Pools
    <3>1. CASE request[t].by \notin Known
          BY <1>0, <1>1, <1>7, <2>1, <3>1 DEF FindOrCreate, PoolOK
    <3>2. CASE request[t].by \in Known
          BY <1>0, <1>1, <1>7, <2>1, <3>2 DEF FindOrCreate, PoolOK, Known, Pools
    <3> QED BY <3>1, <3>2
  <2> QED BY <1>5, <2>1, <2>2
<1>8. CASE Authenticate(t)
  <2>1. Active(t) /\ request[t].by \in Known /\ UNCHANGED pool
        BY <1>1, <1>8 DEF Authenticate, At, Active, Unchanged
  <2>2. request'[t] = [request[t] EXCEPT !.pc = "check", !.value = pool[request[t].by]]
        BY <1>0, <2>1, <1>8 DEF Authenticate
  <2>3. request'[t].pc = "check" /\ request'[t].by = request[t].by
        BY <1>0, <2>1, <2>2 DEF IsRequest
  <2>4. pool'[request'[t].by] \in Pools
        BY <1>0, <2>1, <2>3 DEF Known, PoolOK, Pools
  <2> QED BY <2>3, <2>4
<1>9. CASE IssueToken(t)
  <2>1. Active(t) /\ LoggingIn(t) /\ request[t].pc = "held"
        BY <1>9 DEF IssueToken, At, Active, LoggingIn
  <2> DEFINE ttl == LifetimeOf(request[t].loaded, pool[request[t].by])
  <2>2. request'[t] = [request[t] EXCEPT !.pc = "issued", !.target = ttl]
        BY <1>0, <1>9 DEF IssueToken
  <2> HIDE DEF ttl
  <2>3. /\ request'[t].pc = "issued" /\ request'[t].op = request[t].op /\ request'[t].by = request[t].by
        /\ request'[t].target = ttl
        BY <1>0, <2>1, <2>2 DEF IsRequest
  <2> QED BY <2>1, <2>3 DEF LoggingIn, ttl
<1> QED BY <1>1, <1>2, <1>3, <1>4, <1>6, <1>7, <1>8, <1>9
        DEF SessionStep, Register, ReadPolicy, RereadPolicy, AnswerPolicy, UpdatePolicy, Respond

LEMMA InForce ==
    ASSUME WatchSessions, NEW t \in Slots, LoggingIn(t)'
    PROVE  /\ Active(t) => inForce[t] \subseteq inForce'[t]
           /\ \A row \in policy' : pool'[request'[t].by] \in Pools =>
                  LifetimeOf(row, pool'[request'[t].by]) \in inForce'[t]
<1> DEFINE seen == {terms[kind] : terms \in TermsNow', kind \in {pool'[request'[t].by]} \cap Pools}
<1>1. inForce'[t] = (IF Active(t) THEN inForce[t] ELSE {}) \cup seen
      BY DEF WatchSessions, LoggingIn
<1>2. ASSUME NEW row \in policy', pool'[request'[t].by] \in Pools
      PROVE  LifetimeOf(row, pool'[request'[t].by]) \in seen
  <2>1. Terms(row) \in TermsNow'
        BY <1>2 DEF TermsNow
  <2>2. Terms(row)[pool'[request'[t].by]] \in seen
        BY <1>2, <2>1
  <2>3. Terms(row)[pool'[request'[t].by]] = LifetimeOf(row, pool'[request'[t].by])
        BY <1>2 DEF Terms, LifetimeOf, Pools
  <2> HIDE DEF seen
  <2> QED BY <2>2, <2>3
<1> QED BY <1>1, <1>2

LEMMA StepKeepsLogins ==
    ASSUME SeenInv, SessionInv, [Next]_vars, WatchSessions
    PROVE  IssuedOK' /\ \A t \in Slots : LoggingIn(t)' => LoginOK(t)'
<1> SUFFICES ASSUME NEW t \in Slots, Active(t)'
             PROVE  /\ request'[t].pc = "issued" => LoggingIn(t)'
                    /\ LoggingIn(t)' => LoginOK(t)'
    BY DEF IssuedOK, LoggingIn, Active
<1>0. /\ AccessInv /\ RequestsOK /\ DOMAIN request = Slots
      /\ Active(t) => IsRequest(request[t])
      /\ LoggingIn(t) => Active(t) /\ LoginOK(t) /\ request[t].by \in Users
      BY DEF SeenInv, SessionInv, AccessInv, RequestsOK, Active, Idle, LoggingIn, IsRequest
<1>1. \A u \in Users : pool[u] \in Pools => pool'[u] = pool[u]
      BY StepKeepsPools
<1>2. CASE request'[t] = request[t]
  <2>1. request'[t].pc = "issued" => LoggingIn(t)'
        BY <1>2 DEF SessionInv, IssuedOK, LoggingIn, Active
  <2>2. ASSUME LoggingIn(t)' PROVE LoginOK(t)'
    <3>1. LoggingIn(t) /\ inForce[t] \subseteq inForce'[t]
          BY <1>0, <1>2, <2>2, InForce DEF LoggingIn
    <3>2. request[t].pc # "find" => pool'[request[t].by] = pool[request[t].by]
          BY <1>0, <1>1, <3>1 DEF LoginOK
    <3> QED BY <1>0, <1>2, <3>1, <3>2 DEF LoginOK, LifetimeOf
  <2> QED BY <2>1, <2>2
<1>3. CASE SessionStep(t) /\ (LoggingIn(t)' \/ request'[t].pc = "issued")
  <2>1. CASE request'[t].pc = "find" /\ request'[t].value \in Pools
        BY <1>3, <2>1 DEF LoginOK
  <2>2. CASE request'[t].pc = "check" /\ pool'[request'[t].by] \in Pools
        BY <1>3, <2>2 DEF LoginOK
  <2>3. CASE request'[t].pc = "held"
    <3>1. PICK row \in policy : /\ request'[t].op = request[t].op /\ request'[t].by = request[t].by
                               /\ request'[t].loaded = row /\ request[t].pc \in {"check", "reread"}
                               /\ UNCHANGED <<policy, pool>>
          BY <1>0, <1>3, <2>3, HoldingStored
    <3>2. LoggingIn(t) /\ LoggingIn(t)'
          BY <1>3, <2>3, <3>1 DEF LoggingIn
    <3>3. pool'[request'[t].by] \in Pools
          BY <1>0, <3>1, <3>2 DEF LoginOK
    <3>4. LifetimeOf(row, pool'[request'[t].by]) \in inForce'[t]
          BY <3>1, <3>2, <3>3, InForce
    <3> QED BY <2>3, <3>1, <3>2, <3>3, <3>4 DEF LoginOK
  <2>4. CASE /\ request'[t].pc \in {"insert", "reread"} /\ LoggingIn(t) /\ request[t].pc # "find"
             /\ request'[t].by = request[t].by
    <3>1. pool'[request'[t].by] \in Pools
          BY <1>0, <1>1, <2>4 DEF LoginOK
    <3> QED BY <1>3, <2>4, <3>1 DEF LoginOK
  <2>5. CASE /\ request'[t].pc = "issued" /\ LoggingIn(t) /\ LoggingIn(t)' /\ request[t].pc = "held"
             /\ request'[t].target = LifetimeOf(request[t].loaded, pool[request[t].by])
             /\ request'[t].by = request[t].by
    <3>1. pool'[request'[t].by] \in Pools /\ request'[t].target \in inForce[t]
          BY <1>0, <1>1, <2>5 DEF LoginOK
    <3>2. inForce[t] \subseteq inForce'[t]
          BY <1>0, <2>5, InForce
    <3> QED BY <2>5, <3>1, <3>2 DEF LoginOK
  <2> QED BY <1>3, <2>1, <2>2, <2>3, <2>4, <2>5, LoginAdvances
<1>4. CASE AccessStep(t)
      BY <1>0, <1>4, AccessLeavesLogins, AccessStepPcs
<1> QED BY <1>0, <1>2, <1>3, <1>4, OwnStep DEF Active, Idle

LEMMA StepKeepsSessions == SeenInv /\ SessionInv /\ [Next]_vars => SessionInv'
<1> SUFFICES ASSUME SeenInv, SessionInv, [Next]_vars PROVE SessionInv'
    OBVIOUS
<1>1. PolicyOK' /\ PoolOK'
      BY StepKeepsPolicy, StepKeepsPools, TtlsOK DEF SessionInv
<1>2. CASE Next
  <2>1. WatchSessions
        BY <1>2 DEF Next
  <2> QED BY <1>1, <2>1, StepKeepsHeld, StepKeepsLogins DEF SessionInv
<1>3. CASE UNCHANGED vars
      BY <1>1, <1>3 DEF SessionInv, HeldOK, IssuedOK, LoggingIn, LoginOK, LifetimeOf, AtPolicy, Active, vars, accessVars, sessionVars
<1> QED BY <1>2, <1>3

LEMMA InitSessions == Init => SessionInv
<1> SUFFICES ASSUME Init PROVE SessionInv
    OBVIOUS
<1>1. policy = {} /\ \A s \in Slots : request[s].op = "none"
      BY DEF Init, AccessInit, SessionsInit, Idle
<1>2. PoolOK
      BY BeginningsOK DEF Init, AccessInit, PoolOK, Pools
<1> QED BY <1>1, <1>2 DEF SessionInv, PolicyOK, HeldOK, IssuedOK, LoggingIn, AtPolicy, OfPolicy, Active

(* However many requests read the policy first, one row is stored          *)
(* (auth/service.py:87-115).                                               *)
THEOREM PolicyIsSingleCorrect == Spec => []PolicyIsSingle
<1>1. SessionInv => PolicyIsSingle
  <2>1. ASSUME PolicyOK PROVE Cardinality(policy) \in {0, 1}
    <3>1. ASSUME NEW row, policy = {row} PROVE Cardinality(policy) = 1
          BY <3>1, FS_Singleton
    <3> QED BY <2>1, <3>1, FS_EmptySet DEF PolicyOK
  <2> QED BY <2>1 DEF SessionInv, PolicyIsSingle
<1> QED BY <1>1, InitSeen, StepKeepsSeen, InitSessions, StepKeepsSessions, PTL DEF Spec

(* A token lives as long as the policy said at some moment of its login    *)
(* (auth/service.py:130-132).                                              *)
THEOREM TokenLifetimeWasInForceCorrect == Spec => []TokenLifetimeWasInForce
<1>1. SessionInv => TokenLifetimeWasInForce
      BY DEF SessionInv, IssuedOK, LoginOK, TokenLifetimeWasInForce
<1> QED BY <1>1, InitSeen, StepKeepsSeen, InitSessions, StepKeepsSessions, PTL DEF Spec

(* An update of the policy that no other update overtakes is what is       *)
(* stored (auth/service.py:118-127).                                       *)
THEOREM PolicyUpdateHoldsCorrect == Spec => PolicyUpdateHolds
<1> DEFINE Holds == \A s \in Slots : UpdatePolicy(s) /\ s \notin overtaken =>
                        {Terms(row) : row \in policy'} = {request[s].value}
<1>1. SeenInv /\ SessionInv /\ [Next]_vars => [Holds]_<<accessVars, sessionVars>>
  <2> SUFFICES ASSUME SeenInv, SessionInv, NEW s \in Slots, UpdatePolicy(s), s \notin overtaken
               PROVE  {Terms(row) : row \in policy'} = {request[s].value}
      OBVIOUS
  <2> DEFINE row == request[s].loaded
             value == request[s].value
             stored == Stored(row, row, value)
  <2>1. /\ value \in [internal : Ttls, external : Ttls]
        /\ row \in policy
        BY DEF SeenInv, AccessInv, RequestsOK, UpdatePolicy, At, IsRequest, Idle, SessionInv, HeldOK, AtPolicy, OfPolicy
  <2>2. policy = {row} /\ IsPolicyRow(row)
        BY <2>1 DEF SessionInv, PolicyOK
  <2>3. Terms(stored) = value
        BY <2>1, <2>2 DEF Stored, Terms, IsPolicyRow
  <2>4. policy' = {IF old.id = row.id THEN Stored(old, row, value) ELSE old : old \in policy}
        BY DEF UpdatePolicy
  <2> HIDE DEF row, value
  <2>5. policy' = {stored}
        BY <2>2, <2>4
  <2> HIDE DEF stored
  <2>6. {Terms(r) : r \in policy'} = {value}
        BY <2>3, <2>5
  <2> QED BY <2>6 DEF value
<1> QED BY <1>1, InitSeen, StepKeepsSeen, InitSessions, StepKeepsSessions, PTL DEF Spec, PolicyUpdateHolds

----------------------------------------------------------------------------
(* What an assignment holds of the row it has loaded.                      *)

RowsKeyed ==
    /\ rows \subseteq RoleRecord /\ IsFiniteSet(rows)
    /\ \A row, other \in rows : row.id = other.id => row = other

LoadsOnce ==
    \A s \in Slots : request[s].op = "assign" =>
        /\ request[s].target \in Users
        /\ request[s].pc # "write" => request[s].loaded = Null

(* What an uncrossed assignment has loaded is what there is.               *)
Loaded(s) ==
    LET there == RoleRows(request[s].target, request[s].domain)
    IN  IF request[s].loaded = Null THEN there = {} ELSE request[s].loaded \in there

LoadedStands == \A s \in Slots : At(s, "assign", "write") /\ ~watch[s].crossed => Loaded(s)

(* A row with the id of a loaded one is for the same user and domain: ids  *)
(* are not used again while a request knows them.                          *)
LoadedKeyed ==
    \A s \in Slots : request[s].op = "assign" /\ request[s].loaded # Null =>
        \A row \in rows : row.id = request[s].loaded.id =>
            row.user = request[s].target /\ row.domain = request[s].domain

AssignInv == AccessInv /\ RowsKeyed /\ LoadsOnce /\ LoadedKeyed /\ LoadedStands

(* There is an identifier no row and no request has.                       *)
LEMMA FreshIdIsFresh ==
    ASSUME IsFiniteSet(rows)
    PROVE  FreshId \in Nat /\ FreshId \notin {row.id : row \in rows} /\ FreshId \notin LoadedIds
<1> DEFINE Ids  == {row.id : row \in rows}
           Held == {t \in Slots : Active(t) /\ request[t].loaded # Null /\ request[t].op \in {"assign", "revoke"}}
           N    == Cardinality(rows) + Cardinality(Slots) + 1
<1>1. IsFiniteSet(Ids) /\ Cardinality(Ids) <= Cardinality(rows) /\ Cardinality(Ids) \in Nat
  <2>1. [row \in rows |-> row.id] \in Surjection(rows, Ids)
        BY DEF Surjection
  <2> QED BY <2>1, FS_Surjection, FS_CardinalityType
<1>2. /\ IsFiniteSet(LoadedIds) /\ Cardinality(LoadedIds) <= Cardinality(Slots)
      /\ Cardinality(LoadedIds) \in Nat /\ Cardinality(Slots) \in Nat
  <2>1. IsFiniteSet(Held) /\ Cardinality(Held) <= Cardinality(Slots) /\ Cardinality(Slots) \in Nat
        BY SlotsFinite, FS_Subset, FS_CardinalityType
  <2>2. [s \in Held |-> request[s].loaded.id] \in Surjection(Held, LoadedIds)
        BY DEF Surjection, LoadedIds
  <2>3. IsFiniteSet(LoadedIds) /\ Cardinality(LoadedIds) <= Cardinality(Held)
    <3> HIDE DEF Held
    <3> QED BY <2>1, <2>2, FS_Surjection
  <2> QED BY <2>1, <2>3, FS_CardinalityType
<1>3. Cardinality(rows) \in Nat
      BY FS_CardinalityType
<1> HIDE DEF Ids, Held
<1>4. IsFiniteSet(Ids \cup LoadedIds) /\ Cardinality(Ids \cup LoadedIds) < N /\ Cardinality(Ids \cup LoadedIds) \in Nat
  <2>1. Cardinality(Ids \cap LoadedIds) \in Nat
        BY <1>1, FS_Intersection, FS_CardinalityType
  <2>2. /\ IsFiniteSet(Ids \cup LoadedIds)
        /\ Cardinality(Ids \cup LoadedIds) = Cardinality(Ids) + Cardinality(LoadedIds) - Cardinality(Ids \cap LoadedIds)
        BY <1>1, <1>2, FS_Union
  <2>3. Cardinality(Ids \cup LoadedIds) \in Nat
        BY <2>2, FS_CardinalityType
  <2> QED BY <1>1, <1>2, <1>3, <2>1, <2>2, <2>3
<1>5. Cardinality(1 .. N) = N /\ N \in Nat
  <2>1. N \in Nat /\ 1 <= N
        BY <1>2, <1>3
  <2> HIDE DEF N
  <2> QED BY <2>1, FS_Interval
<1>6. ~(1 .. N \subseteq Ids \cup LoadedIds)
      BY <1>4, <1>5, FS_Subset
<1>7. \E i \in 1 .. N : i \notin Ids \cup LoadedIds
      BY <1>6
<1>8. FreshId \in 1 .. N /\ FreshId \notin Ids /\ FreshId \notin LoadedIds
      BY <1>7 DEF FreshId, Ids
<1> QED BY <1>5, <1>8 DEF Ids

LEMMA UpdateKeepsKeys ==
    ASSUME RowsKeyed, NEW loaded, NEW role \in Roles, UpdateRole(loaded, role)
    PROVE  RowsKeyed'
<1> DEFINE Image(row) == IF row.id = loaded.id /\ role # loaded.role THEN [row EXCEPT !.role = role] ELSE row
<1>1. rows' = {Image(row) : row \in rows}
      BY DEF UpdateRole
<1>2. \A row \in rows : Image(row) \in RoleRecord /\ Image(row).id = row.id
      BY DEF RowsKeyed, RoleRecord
<1>3. [row \in rows |-> Image(row)] \in Surjection(rows, rows')
      BY <1>1 DEF Surjection
<1> HIDE DEF Image
<1>4. IsFiniteSet(rows')
      BY <1>3, FS_Surjection DEF RowsKeyed
<1>5. \A row, other \in rows' : row.id = other.id => row = other
      BY <1>1, <1>2 DEF RowsKeyed
<1> QED BY <1>1, <1>2, <1>4, <1>5 DEF RowsKeyed

LEMMA NewRowKeepsKeys ==
    ASSUME RowsKeyed, NEW u \in Users, NEW d \in Domains, NEW role \in Roles,
           rows' = rows \cup {RoleRow(u, d, role)}
    PROVE  RowsKeyed'
<1>1. RoleRow(u, d, role) \in RoleRecord /\ RoleRow(u, d, role).id \notin {row.id : row \in rows}
      BY FreshIdIsFresh DEF RowsKeyed, RoleRow, RoleRecord
<1>2. IsFiniteSet(rows')
      BY FS_AddElement DEF RowsKeyed
<1> QED BY <1>1, <1>2 DEF RowsKeyed

LEMMA StepKeepsKeys ==
    ASSUME AssignInv, [Next]_vars
    PROVE  RowsKeyed'
<1> USE DEF AssignInv
<1>1. CASE UNCHANGED rows
      BY <1>1 DEF RowsKeyed
<1>2. CASE \E s \in Slots : AccessStep(s)
  <2>1. PICK s \in Slots : AccessStep(s)
        BY <1>2
  <2>2. Active(s) => IsRequest(request[s])
        BY DEF AccessInv, RequestsOK, Active, Idle
  <2>3. CASE AssignRole(s)
    <3>1. IsRequest(request[s]) /\ request[s].op = "assign"
          BY <2>2, <2>3 DEF AssignRole, At, Active
    <3>2. request[s].value \in Roles /\ request[s].domain \in Domains /\ request[s].target \in Users
          BY <3>1 DEF IsRequest, LoadsOnce
    <3>3. \/ UpdateRole(request[s].loaded, request[s].value) \/ UNCHANGED rows
          \/ rows' = rows \cup {RoleRow(request[s].target, request[s].domain, request[s].value)}
          BY <2>3 DEF AssignRole, InsertRole
    <3> QED BY <1>1, <3>2, <3>3, UpdateKeepsKeys, NewRowKeepsKeys
  <2>4. CASE RevokeRole(s)
    <3>1. rows' \subseteq rows
          BY <2>4 DEF RevokeRole
    <3>2. IsFiniteSet(rows')
          BY <3>1, FS_Subset DEF RowsKeyed
    <3> QED BY <3>1, <3>2 DEF RowsKeyed
  <2>5. CASE CreateDomain(s)
    <3>1. IsRequest(request[s]) /\ request[s].op = "create"
          BY <2>2, <2>5 DEF CreateDomain, At, Active
    <3>2. request[s].by \in Users /\ request[s].domain \in Domains
          BY <3>1 DEF IsRequest
    <3>3. UNCHANGED rows \/ rows' = rows \cup {RoleRow(request[s].by, request[s].domain, "domain_admin")}
          BY <2>5 DEF CreateDomain
    <3> QED BY <1>1, <3>2, <3>3, NewRowKeepsKeys DEF Roles
  <2>6. CASE UNCHANGED rows
        BY <1>1, <2>6
  <2> QED BY <2>1, <2>3, <2>4, <2>5, <2>6
          DEF AccessStep, Begin, ReadPlatform, ReadRole, CheckDomain, LoadRole, ArchiveDomain, CheckName, LoadUser,
              SetPlatformAdmin, Unchanged
<1>3. CASE \E s \in Slots : SessionStep(s)
      BY <1>1, <1>3, SessionFrame
<1>4. CASE RetrievalStep \/ Crash \/ UNCHANGED vars
      BY <1>1, <1>4, OtherFrame
<1> QED BY <1>2, <1>3, <1>4, ApiSteps

(* A request that assigns was called with a user, or goes on as it was.    *)
LEMMA AssignAdvances ==
    ASSUME AccessInv, [Next]_vars, NEW s \in Slots, request'[s] # request[s], request'[s].op = "assign"
    PROVE  \/ /\ request'[s].target \in Users /\ request'[s].loaded = Null /\ request'[s].pc # "write"
              /\ ~LoadRole(s)
           \/ /\ request[s].op = "assign" /\ request'[s].target = request[s].target
              /\ request'[s].domain = request[s].domain
              /\ \/ request'[s].loaded = request[s].loaded /\ request'[s].pc # "write" /\ request[s].pc # "write"
                 \/ LoadRole(s)
<1>0. DOMAIN request = Slots
      BY DEF AccessInv, RequestsOK
<1>1. AccessStep(s)
  <2>1. ~SessionStep(s)
        BY SessionStepMoves DEF AccessInv, Becoming, SessionMoves, SessionOps, Idle
  <2> QED BY <2>1, OwnStep DEF Idle
<1>2. CASE Begin(s)
  <2>1. PICK op \in offered.ops, by \in Known \cap offered.callers : \E call \in Calls(op, by) : request' = [request EXCEPT ![s] = call]
        BY <1>2 DEF Begin
  <2>2. request'[s] \in Calls(op, by)
        BY <1>0, <2>1
  <2>3. op = "assign"
        BY <2>2, CallIsRequest
  <2>4. \E d \in Domains, u \in Known, role \in Roles : request'[s] = Call(op, by, d, u, role)
        BY <2>2, <2>3 DEF Calls
  <2>5. ~LoadRole(s)
        BY <1>2 DEF Begin, MayBegin, LoadRole, At, Active
  <2> QED BY <2>4, <2>5 DEF Call, Known
<1>3. CASE ~Begin(s)
  <2>1. ~End(s)
        BY <1>0 DEF End, Idle
  <2>2. Active(s)
        BY <1>1, <1>3 DEF AccessStep, ReadPlatform, ReadRole, CheckDomain, LoadRole, AssignRole, RevokeRole,
                          ArchiveDomain, CheckName, CreateDomain, LoadUser, SetPlatformAdmin, At, Active
  <2>3. IsRequest(request[s])
        BY <2>2 DEF AccessInv, RequestsOK, Active, Idle
  <2>4. \/ \E pc : request'[s] = [request[s] EXCEPT !.pc = pc]
        \/ \E loaded, pc : request'[s] = [request[s] EXCEPT !.loaded = loaded, !.pc = pc]
    <3>1. (\E pc : Goto(s, pc)) \/ \E loaded, pc : request' = [request EXCEPT ![s].loaded = loaded, ![s].pc = pc]
          BY <1>1, <1>3, <2>1 DEF AccessStep, ReadPlatform, ReadRole, CheckDomain, LoadRole, AssignRole, RevokeRole,
                                  ArchiveDomain, CheckName, CreateDomain, LoadUser, SetPlatformAdmin
    <3>2. CASE \E pc : Goto(s, pc)
          BY <1>0, <3>2 DEF Goto
    <3>3. CASE \E loaded, pc : request' = [request EXCEPT ![s].loaded = loaded, ![s].pc = pc]
      <4>1. PICK loaded, pc : request' = [request EXCEPT ![s].loaded = loaded, ![s].pc = pc]
            BY <3>3
      <4>2. request'[s] = [request[s] EXCEPT !.loaded = loaded, !.pc = pc]
            BY <2>2, <4>1, LoadBecomes DEF Becoming, AccessInv
      <4> QED BY <4>2
    <3> QED BY <3>1, <3>2, <3>3
  <2>5. request[s].op = "assign" /\ request'[s].target = request[s].target /\ request'[s].domain = request[s].domain
        BY <2>3, <2>4 DEF IsRequest
  <2>6. CASE ReadPlatform(s) \/ ReadRole(s) \/ CheckDomain(s)
    <3>1. request[s].pc # "write"
          BY <2>5, <2>6 DEF ReadPlatform, ReadRole, CheckDomain, At
    <3>2. \E pc \in {"check", "role", "load"} : Goto(s, pc)
          BY <2>1, <2>6 DEF ReadPlatform, ReadRole, CheckDomain
    <3>3. request'[s].pc # "write" /\ request'[s].loaded = request[s].loaded
          BY <2>2, <3>2, GotoSetsPc DEF AccessInv
    <3> QED BY <2>5, <3>1, <3>3
  <2> QED BY <1>1, <1>3, <2>1, <2>5, <2>6
          DEF AccessStep, AssignRole, RevokeRole, ArchiveDomain, CheckName, CreateDomain, LoadUser, SetPlatformAdmin, At
<1> QED BY <1>2, <1>3

LEMMA StepKeepsLoads ==
    ASSUME AssignInv, [Next]_vars
    PROVE  LoadsOnce'
<1> SUFFICES ASSUME NEW s \in Slots, request'[s].op = "assign"
             PROVE  request'[s].target \in Users /\ (request'[s].pc # "write" => request'[s].loaded = Null)
    BY DEF LoadsOnce
<1>1. CASE request'[s] = request[s]
      BY <1>1 DEF AssignInv, LoadsOnce
<1>2. CASE request'[s] # request[s] /\ LoadRole(s)
  <2>1. request[s].op = "assign" /\ request'[s].target = request[s].target
        BY <1>2, AssignAdvances DEF AssignInv, LoadRole, At
  <2>2. Active(s) /\ DOMAIN request = Slots /\ request'[s] # Idle
        BY <1>2 DEF LoadRole, At, Active, AssignInv, AccessInv, RequestsOK, Idle
  <2>3. ~End(s)
        BY <2>2 DEF End
  <2>4. IsRequest(request[s])
        BY <2>2 DEF AssignInv, AccessInv, RequestsOK, Active, Idle
  <2>5. request'[s].pc = "write"
    <3>1. CASE Goto(s, "write")
          BY <2>2, <3>1, GotoSetsPc DEF AssignInv, AccessInv
    <3>2. CASE ~Goto(s, "write")
      <4>1. PICK row \in rows : request' = [request EXCEPT ![s].loaded = row, ![s].pc = "write"]
            BY <1>2, <2>3, <3>2 DEF LoadRole, RoleRows
      <4>2. request'[s] = [request[s] EXCEPT !.loaded = row, !.pc = "write"]
            BY <2>2, <4>1, LoadBecomes DEF AssignInv, AccessInv, Becoming
      <4> QED BY <2>4, <4>2 DEF IsRequest
    <3> QED BY <3>1, <3>2
  <2> QED BY <2>1, <2>5 DEF AssignInv, LoadsOnce
<1>3. CASE request'[s] # request[s] /\ ~LoadRole(s)
      BY <1>3, AssignAdvances DEF AssignInv, LoadsOnce
<1> QED BY <1>1, <1>2, <1>3

(* What a request loads is there at that moment; from then on every change *)
(* of it by another request is a crossing.                                 *)
LEMMA StepKeepsLoaded ==
    ASSUME AssignInv, Next
    PROVE  LoadedStands'
<1> SUFFICES ASSUME NEW s \in Slots, At(s, "assign", "write")', ~watch'[s].crossed
             PROVE  Loaded(s)'
    BY DEF LoadedStands
<1>0. DOMAIN request = Slots /\ [Next]_vars
      BY DEF AssignInv, AccessInv, RequestsOK
<1>1. CASE request'[s] = request[s]
  <2>1. At(s, "assign", "write") /\ Active(s) /\ Active(s)'
        BY <1>1 DEF At, Active
  <2>2. ~watch[s].crossed /\ ~Crossed(s)
        BY <2>1 DEF Next, Watch, Active
  <2>3. RoleRows(request[s].target, request[s].domain)' = RoleRows(request[s].target, request[s].domain)
        BY <1>1, <2>1, <2>2 DEF Crossed, At
  <2>4. Loaded(s)
        BY <2>1, <2>2 DEF AssignInv, LoadedStands
  <2> QED BY <1>1, <2>3, <2>4 DEF Loaded, RoleRows
<1>2. CASE request'[s] # request[s]
  <2>1. LoadRole(s) /\ request[s].op = "assign"
        BY <1>0, <1>2, AssignAdvances DEF AssignInv, At
  <2>2. /\ Active(s) /\ ~End(s) /\ UNCHANGED rows /\ IsRequest(request[s])
        /\ request[s].loaded = Null
        BY <1>0, <2>1 DEF LoadRole, Unchanged, End, At, Active, Idle, AssignInv, AccessInv, RequestsOK, LoadsOnce
  <2> DEFINE there == RoleRows(request[s].target, request[s].domain)
  <2>3. CASE there = {} /\ Goto(s, "write")
    <3>1. /\ request'[s].target = request[s].target /\ request'[s].domain = request[s].domain
          /\ request'[s].loaded = Null
          BY <1>0, <2>2, <2>3 DEF Goto, IsRequest
    <3> QED BY <2>2, <2>3, <3>1 DEF Loaded, RoleRows
  <2>4. CASE there # {}
    <3>1. PICK row \in there : request' = [request EXCEPT ![s].loaded = row, ![s].pc = "write"]
          BY <2>1, <2>4 DEF LoadRole
    <3>2. request'[s] = [request[s] EXCEPT !.loaded = row, !.pc = "write"]
          BY <2>2, <3>1, LoadBecomes DEF AssignInv, AccessInv, Becoming
    <3>3. /\ request'[s].target = request[s].target /\ request'[s].domain = request[s].domain
          /\ request'[s].loaded = row
          BY <2>2, <3>2 DEF IsRequest
    <3>4. row # Null
          BY NullIsNoRow DEF AssignInv, RowsKeyed, RoleRows
    <3> QED BY <2>2, <3>3, <3>4 DEF Loaded, RoleRows
  <2> QED BY <2>1, <2>2, <2>3, <2>4 DEF LoadRole
<1> QED BY <1>1, <1>2

(* A row after a step is one from before, perhaps with another role, or    *)
(* has a fresh id.                                                         *)
RowsMove ==
    \A row \in rows' :
        \/ row.id = FreshId
        \/ \E old \in rows : old.id = row.id /\ old.user = row.user /\ old.domain = row.domain

LEMMA StepMovesRows ==
    ASSUME AssignInv, [Next]_vars
    PROVE  RowsMove
<1> USE DEF AssignInv
<1>1. CASE rows' \subseteq rows
      BY <1>1 DEF RowsMove
<1>2. ASSUME NEW u, NEW d, NEW role, rows' = rows \cup {RoleRow(u, d, role)}
      PROVE  RowsMove
      BY <1>2 DEF RowsMove, RoleRow
<1>3. ASSUME NEW loaded, NEW role, UpdateRole(loaded, role)
      PROVE  RowsMove
  <2> DEFINE Image(row) == IF row.id = loaded.id /\ role # loaded.role THEN [row EXCEPT !.role = role] ELSE row
  <2>1. rows' = {Image(row) : row \in rows}
        BY <1>3 DEF UpdateRole
  <2>2. \A row \in rows : Image(row).id = row.id /\ Image(row).user = row.user /\ Image(row).domain = row.domain
        BY DEF RowsKeyed, RoleRecord
  <2> HIDE DEF Image
  <2> QED BY <2>1, <2>2 DEF RowsMove
<1>4. CASE \E s \in Slots : AccessStep(s)
  <2>1. PICK s \in Slots : AccessStep(s)
        BY <1>4
  <2>2. CASE AssignRole(s)
        BY <1>1, <1>2, <1>3, <2>2 DEF AssignRole, InsertRole
  <2>3. CASE CreateDomain(s)
        BY <1>1, <1>2, <2>3 DEF CreateDomain
  <2>4. CASE RevokeRole(s)
        BY <1>1, <2>4 DEF RevokeRole
  <2>5. CASE UNCHANGED rows
        BY <1>1, <2>5
  <2> QED BY <2>1, <2>2, <2>3, <2>4, <2>5
          DEF AccessStep, Begin, ReadPlatform, ReadRole, CheckDomain, LoadRole, ArchiveDomain, CheckName, LoadUser,
              SetPlatformAdmin, Unchanged
<1>5. CASE \E s \in Slots : SessionStep(s)
      BY <1>1, <1>5, SessionFrame
<1>6. CASE RetrievalStep \/ Crash \/ UNCHANGED vars
      BY <1>1, <1>6, OtherFrame
<1> QED BY <1>4, <1>5, <1>6, ApiSteps

LEMMA StepKeepsLoadedKeyed ==
    ASSUME AssignInv, [Next]_vars
    PROVE  LoadedKeyed'
<1> SUFFICES ASSUME NEW s \in Slots, request'[s].op = "assign", request'[s].loaded # Null,
                    NEW row \in rows', row.id = request'[s].loaded.id
             PROVE  row.user = request'[s].target /\ row.domain = request'[s].domain
    BY DEF LoadedKeyed
<1>1. CASE request'[s] = request[s]
  <2>1. request[s].loaded.id \in LoadedIds
        BY <1>1 DEF LoadedIds, Active
  <2>2. FreshId \notin LoadedIds
        BY FreshIdIsFresh DEF AssignInv, RowsKeyed
  <2>3. PICK old \in rows : old.id = row.id /\ old.user = row.user /\ old.domain = row.domain
        BY <1>1, <2>1, <2>2, StepMovesRows DEF RowsMove
  <2> QED BY <1>1, <2>3 DEF AssignInv, LoadedKeyed
<1>2. CASE request'[s] # request[s]
  <2>1. /\ LoadRole(s) /\ request[s].op = "assign"
        /\ request'[s].target = request[s].target /\ request'[s].domain = request[s].domain
        BY <1>2, AssignAdvances DEF AssignInv, LoadsOnce
  <2>2. /\ Active(s) /\ ~End(s) /\ UNCHANGED rows /\ DOMAIN request = Slots /\ IsRequest(request[s])
        /\ request[s].loaded = Null
        BY <2>1 DEF LoadRole, Unchanged, End, At, Active, Idle, AssignInv, AccessInv, RequestsOK, LoadsOnce
  <2>3. ~Goto(s, "write")
    <3> SUFFICES ASSUME Goto(s, "write") PROVE FALSE
        OBVIOUS
    <3>1. request'[s] = [request[s] EXCEPT !.pc = "write"]
          BY <2>2 DEF Goto
    <3> QED BY <2>2, <3>1 DEF IsRequest
  <2>4. PICK found \in RoleRows(request[s].target, request[s].domain) :
                request' = [request EXCEPT ![s].loaded = found, ![s].pc = "write"]
        BY <2>1, <2>2, <2>3 DEF LoadRole
  <2>5. request'[s] = [request[s] EXCEPT !.loaded = found, !.pc = "write"]
        BY <2>2, <2>4, LoadBecomes DEF AssignInv, AccessInv, Becoming
  <2>6. request'[s].loaded = found
        BY <2>2, <2>5 DEF IsRequest
  <2>7. row = found
        BY <2>2, <2>4, <2>6 DEF RoleRows, AssignInv, RowsKeyed
  <2> QED BY <2>1, <2>4, <2>7 DEF RoleRows
<1> QED BY <1>1, <1>2

LEMMA StepKeepsAssign == AssignInv /\ [Next]_vars => AssignInv'
<1>1. AssignInv /\ Next => AssignInv'
      BY StepKeepsAccess, StepKeepsKeys, StepKeepsLoads, StepKeepsLoadedKeyed, StepKeepsLoaded DEF AssignInv
<1>2. AssignInv /\ UNCHANGED vars => AssignInv'
  <2> SUFFICES ASSUME AssignInv, UNCHANGED vars PROVE AssignInv'
      OBVIOUS
  <2>1. AccessInv' /\ RowsKeyed' /\ LoadsOnce' /\ LoadedKeyed'
        BY StepKeepsAccess, StepKeepsKeys, StepKeepsLoads, StepKeepsLoadedKeyed DEF AssignInv
  <2>2. UNCHANGED <<request, watch, rows>>
        BY DEF vars, accessVars
  <2>3. LoadedStands'
        BY <2>2 DEF AssignInv, LoadedStands, At, Loaded, RoleRows
  <2> QED BY <2>1, <2>3 DEF AssignInv
<1> QED BY <1>1, <1>2

LEMMA InitAssign == Init => AssignInv
<1> SUFFICES ASSUME Init PROVE AssignInv
    OBVIOUS
<1>1. RowsKeyed
      BY BeginningsOK DEF Init, AccessInit, RowsKeyed
<1>2. LoadsOnce /\ LoadedKeyed /\ LoadedStands
      BY DEF Init, AccessInit, LoadsOnce, LoadedKeyed, LoadedStands, At, Idle
<1> QED BY <1>1, <1>2, InitAccess DEF AssignInv

(* What an assignment writes, whatever has crossed it.                     *)
LEMMA AssignWrites ==
    ASSUME AssignInv, NEW s \in Slots, AssignRole(s)
    PROVE  LET r == request[s] IN
             /\ \A row \in rows' \ rows : row.user = r.target /\ row.domain = r.domain /\ row.role = r.value
             /\ \A row \in rows \ rows' : row.user = r.target /\ row.domain = r.domain
<1> DEFINE r == request[s]
<1>0. r.op = "assign"
      BY DEF AssignRole, At
<1>1. CASE r.loaded = Null
  <2> DEFINE new == RoleRow(r.target, r.domain, r.value)
  <2>1. rows' = rows \cup {new} \/ rows' = rows
        BY <1>1 DEF AssignRole, InsertRole
  <2>2. new.user = r.target /\ new.domain = r.domain /\ new.role = r.value
        BY DEF RoleRow
  <2> HIDE DEF new
  <2> QED BY <2>1, <2>2
<1>2. CASE r.loaded # Null
  <2> DEFINE Image(row) == IF row.id = r.loaded.id /\ r.value # r.loaded.role
                           THEN [row EXCEPT !.role = r.value] ELSE row
  <2>1. rows' = {Image(row) : row \in rows}
        BY <1>2 DEF AssignRole, UpdateRole
  <2>2. ASSUME NEW row \in rows, Image(row) # row
        PROVE  /\ row.user = r.target /\ row.domain = r.domain
               /\ Image(row).user = r.target /\ Image(row).domain = r.domain /\ Image(row).role = r.value
    <3>1. row.id = r.loaded.id /\ Image(row) = [row EXCEPT !.role = r.value]
          BY <2>2
    <3>2. row.user = r.target /\ row.domain = r.domain
          BY <1>0, <1>2, <3>1 DEF AssignInv, LoadedKeyed
    <3> QED BY <3>1, <3>2 DEF AssignInv, RowsKeyed, RoleRecord
  <2> HIDE DEF Image
  <2> QED BY <2>1, <2>2
<1> QED BY <1>1, <1>2

(* Whatever crosses it, an assignment writes only the role it names, for   *)
(* its user in its domain; uncrossed, it leaves the user with that role    *)
(* (domains/service.py:189-219).                                           *)
THEOREM AssignedRoleHoldsCorrect == Spec => AssignedRoleHolds
<1> DEFINE Holds == \A s \in Slots :
                      AssignRole(s) =>
                        LET r == request[s] IN
                          /\ \A row \in rows' \ rows : row.user = r.target /\ row.domain = r.domain /\ row.role = r.value
                          /\ \A row \in rows \ rows' : row.user = r.target /\ row.domain = r.domain
                          /\ ~watch[s].crossed =>
                                \E row \in rows' : row.user = r.target /\ row.domain = r.domain /\ row.role = r.value
<1>1. AssignInv => Holds
  <2> SUFFICES ASSUME AssignInv, NEW s \in Slots, AssignRole(s), ~watch[s].crossed
               PROVE  LET r == request[s] IN
                        \E row \in rows' : row.user = r.target /\ row.domain = r.domain /\ row.role = r.value
      BY AssignWrites
  <2> DEFINE r == request[s]
  <2>1. At(s, "assign", "write") /\ Loaded(s)
        BY DEF AssignRole, AssignInv, LoadedStands
  <2>2. CASE r.loaded = Null
    <3>1. InsertRole(r.target, r.domain, r.value) /\ Duplicates(r.target, r.domain) = {}
          BY <2>1, <2>2 DEF AssignRole, Loaded, RoleRows, Duplicates
    <3> DEFINE new == RoleRow(r.target, r.domain, r.value)
    <3>2. rows' = rows \cup {new}
          BY <3>1 DEF InsertRole
    <3>3. new.user = r.target /\ new.domain = r.domain /\ new.role = r.value
          BY DEF RoleRow
    <3> HIDE DEF new
    <3> QED BY <3>2, <3>3
  <2>3. CASE r.loaded # Null
    <3> DEFINE Image(row) == IF row.id = r.loaded.id /\ r.value # r.loaded.role
                             THEN [row EXCEPT !.role = r.value] ELSE row
    <3>1. r.loaded \in rows /\ r.loaded.user = r.target /\ r.loaded.domain = r.domain
          BY <2>1, <2>3 DEF Loaded, RoleRows
    <3>2. rows' = {Image(row) : row \in rows}
          BY <2>3 DEF AssignRole, UpdateRole
    <3>3. /\ Image(r.loaded).user = r.target /\ Image(r.loaded).domain = r.domain
          /\ Image(r.loaded).role = r.value
          BY <3>1 DEF AssignInv, RowsKeyed, RoleRecord
    <3> HIDE DEF Image
    <3> QED BY <3>1, <3>2, <3>3
  <2> QED BY <2>2, <2>3
<1> QED BY <1>1, InitAssign, StepKeepsAssign, PTL DEF Spec, AssignedRoleHolds

(* An archived domain takes a role only from an assignment for that user   *)
(* and domain that was under way while it was active                       *)
(* (domains/service.py:42-49, 189-219).                                    *)
THEOREM ArchivedTakesNoRolesCorrect == Spec => ArchivedTakesNoRoles
<1> DEFINE Opens == \A row \in rows' \ rows : domains[row.domain] = "archived" =>
                       \E s \in Slots : /\ At(s, "assign", "write") /\ request'[s] # request[s]
                                        /\ request[s].domain = row.domain /\ request[s].target = row.user
                                        /\ watch[s].open
<1>1. SeenInv /\ AssignInv /\ [Next]_vars => Opens
  <2> SUFFICES ASSUME SeenInv, AssignInv, [Next]_vars, NEW row \in rows' \ rows, domains[row.domain] = "archived"
               PROVE  \E s \in Slots : /\ At(s, "assign", "write") /\ request'[s] # request[s]
                                       /\ request[s].domain = row.domain /\ request[s].target = row.user
                                       /\ watch[s].open
      OBVIOUS
  <2>1. CASE \E s \in Slots : AccessStep(s)
    <3>1. PICK s \in Slots : AccessStep(s)
          BY <2>1
    <3>2. CASE AssignRole(s)
      <4>1. /\ At(s, "assign", "write") /\ Active(s) /\ End(s) /\ Assigning(s)
            BY <3>2 DEF AssignRole, At, Active, Assigning
      <4>2. request'[s] # request[s]
            BY <4>1, EndBecomes DEF AssignInv, AccessInv, Becoming, Active, Idle
      <4>3. request[s].domain = row.domain /\ request[s].target = row.user
            BY <3>2, AssignWrites
      <4> QED BY <4>1, <4>2, <4>3 DEF SeenInv, OpenSeen
    <3>3. CASE CreateDomain(s)
      <4>1. /\ domains[request[s].domain] = "none"
            /\ row = RoleRow(request[s].by, request[s].domain, "domain_admin")
            BY <3>3 DEF CreateDomain
      <4> QED BY <4>1 DEF RoleRow
    <3>4. CASE rows' \subseteq rows
          BY <3>4
    <3> QED BY <3>1, <3>2, <3>3, <3>4
            DEF AccessStep, Begin, ReadPlatform, ReadRole, CheckDomain, LoadRole, RevokeRole, ArchiveDomain, CheckName,
                LoadUser, SetPlatformAdmin, Unchanged
  <2>2. CASE \E s \in Slots : SessionStep(s)
        BY <2>2, SessionFrame
  <2>3. CASE RetrievalStep \/ Crash \/ UNCHANGED vars
        BY <2>3, OtherFrame
  <2> QED BY <2>1, <2>2, <2>3, ApiSteps
<1> QED BY <1>1, InitSeen, StepKeepsSeen, InitAssign, StepKeepsAssign, PTL DEF Spec, ArchivedTakesNoRoles

----------------------------------------------------------------------------
(* What a query answers from: passages its asker could read, of an index   *)
(* and a cache that several queries share.                                 *)


(* The fields of a query, and what the proof needs of them.                *)
IsQuery(r) ==
    /\ r = [pc |-> r.pc, by |-> r.by, wants |-> r.wants, checked |-> r.checked, missing |-> r.missing,
            entities |-> r.entities, index |-> r.index, vector |-> r.vector, graph |-> r.graph, docs |-> r.docs]
    /\ r.wants \in Seq(Domains) /\ r.checked \in Nat /\ r.index \in Nat
    /\ r.vector \subseteq Chunks /\ r.graph \subseteq Chunks

WantedOf(r) == {r.wants[i] : i \in 1 .. Len(r.wants)}

Score == Queries \cup {Null}

IndexRecord == [chunks : SUBSET Chunks, scoreOf : UNION {[T -> Score] : T \in SUBSET Chunks}]

(* A query holds passages of the domains it asks for.                      *)
HoldsWanted(r, built) ==
    /\ r.index \in 0 .. Len(built)
    /\ r.index # 0 => \A c \in built[r.index].chunks : HomeOf[c] \in WantedOf(r)
    /\ \A c \in r.vector \cup r.graph : HomeOf[c] \in WantedOf(r)
    /\ \A doc \in r.docs : HomeOf[doc.chunk] \in WantedOf(r)
    /\ r.pc \in {"new", "done", "failed"} => r.index = 0

(* What has been checked was seen to hold.                                 *)
Permitted == {"config", "configure", "lookup", "build", "store", "vector", "graph", "fuse", "generate", "enqueue"}

SeenAllowed(r, seen) ==
    /\ r.pc \in {"roles", "open"} => r.checked < Len(r.wants)
    /\ r.pc = "roles" /\ ~r.missing => \A i \in 1 .. r.checked : r.wants[i] \in seen.readable
    /\ r.pc = "open" => \A i \in 1 .. r.checked : r.wants[i] \in seen.open
    /\ r.pc \in {"open"} \cup Permitted => WantedOf(r) \subseteq seen.readable
    /\ r.pc \in Permitted => WantedOf(r) \subseteq seen.open
    /\ r.pc \in {"new", "done", "failed", "roles", "open"} \cup Permitted

QueriesOK ==
    /\ DOMAIN query = Queries
    /\ \A q \in Queries : /\ IsQuery(query[q]) /\ HoldsWanted(query[q], indexes)
                          /\ SeenAllowed(query[q], during[q])

CacheOK ==
    /\ indexes \in Seq(IndexRecord)
    /\ cache \in [SUBSET Domains -> Nat]
    /\ \A key \in SUBSET Domains : /\ cache[key] <= Len(indexes)
                                   /\ cache[key] # 0 => \A c \in indexes[cache[key]].chunks : HomeOf[c] \in key

QueryInv == QueriesOK /\ CacheOK /\ mentioned \subseteq Chunks

----------------------------------------------------------------------------
(* Records of queries.                                                     *)

(* The query asks the same.                                                *)
SameQuestion(new, r) == new.by = r.by /\ new.wants = r.wants /\ new.entities = r.entities

SamePassages(new, r) == new.vector = r.vector /\ new.graph = r.graph /\ new.docs = r.docs

LEMMA SetsPc ==
    ASSUME NEW r, IsQuery(r), NEW pc
    PROVE  LET new == [r EXCEPT !.pc = pc] IN
             /\ IsQuery(new) /\ SameQuestion(new, r) /\ SamePassages(new, r) /\ new.pc = pc
             /\ new.index = r.index /\ new.checked = r.checked /\ new.missing = r.missing
BY DEF IsQuery, SameQuestion, SamePassages

LEMMA SetsIndex ==
    ASSUME NEW r, IsQuery(r), NEW i \in Nat
    PROVE  LET new == [r EXCEPT !.index = i] IN
             /\ IsQuery(new) /\ SameQuestion(new, r) /\ SamePassages(new, r) /\ new.pc = r.pc
             /\ new.index = i /\ new.checked = r.checked /\ new.missing = r.missing
BY DEF IsQuery, SameQuestion, SamePassages

LEMMA SetsChecked ==
    ASSUME NEW r, IsQuery(r), NEW n \in Nat
    PROVE  LET new == [r EXCEPT !.checked = n] IN
             /\ IsQuery(new) /\ SameQuestion(new, r) /\ SamePassages(new, r) /\ new.pc = r.pc
             /\ new.index = r.index /\ new.checked = n /\ new.missing = r.missing
BY DEF IsQuery, SameQuestion, SamePassages

LEMMA SetsMissing ==
    ASSUME NEW r, IsQuery(r), NEW flag
    PROVE  LET new == [r EXCEPT !.missing = flag] IN
             /\ IsQuery(new) /\ SameQuestion(new, r) /\ SamePassages(new, r) /\ new.pc = r.pc
             /\ new.index = r.index /\ new.checked = r.checked /\ new.missing = flag
BY DEF IsQuery, SameQuestion, SamePassages

LEMMA SetsVector ==
    ASSUME NEW r, IsQuery(r), NEW S \in SUBSET Chunks
    PROVE  LET new == [r EXCEPT !.vector = S] IN
             /\ IsQuery(new) /\ SameQuestion(new, r) /\ new.pc = r.pc /\ new.index = r.index
             /\ new.vector = S /\ new.graph = r.graph /\ new.docs = r.docs
BY DEF IsQuery, SameQuestion

LEMMA SetsGraph ==
    ASSUME NEW r, IsQuery(r), NEW S \in SUBSET Chunks
    PROVE  LET new == [r EXCEPT !.graph = S] IN
             /\ IsQuery(new) /\ SameQuestion(new, r) /\ new.pc = r.pc /\ new.index = r.index
             /\ new.vector = r.vector /\ new.graph = S /\ new.docs = r.docs
BY DEF IsQuery, SameQuestion

LEMMA SetsDocs ==
    ASSUME NEW r, IsQuery(r), NEW D
    PROVE  LET new == [r EXCEPT !.docs = D] IN
             /\ IsQuery(new) /\ SameQuestion(new, r) /\ new.pc = r.pc /\ new.index = r.index
             /\ new.vector = r.vector /\ new.graph = r.graph /\ new.docs = D
BY DEF IsQuery, SameQuestion

LEMMA Endings ==
    ASSUME NEW r \in {Done, Fails, Unasked}
    PROVE  /\ IsQuery(r) /\ r.wants = <<>> /\ r.index = 0 /\ r.vector = {} /\ r.graph = {} /\ r.docs = {}
           /\ r.pc \in {"new", "done", "failed"}
<1>1. PICK pc \in {"new", "done", "failed"} :
          r = [pc |-> pc, by |-> Null, wants |-> <<>>, checked |-> 0, missing |-> FALSE, entities |-> FALSE,
               index |-> 0, vector |-> {}, graph |-> {}, docs |-> {}]
      BY DEF Done, Fails, Unasked
<1>2. <<>> \in Seq(Domains)
      OBVIOUS
<1>3. /\ r.pc = pc /\ r.by = Null /\ r.wants = <<>> /\ r.checked = 0 /\ r.missing = FALSE /\ r.entities = FALSE
      /\ r.index = 0 /\ r.vector = {} /\ r.graph = {} /\ r.docs = {}
      BY <1>1
<1> QED BY <1>1, <1>2, <1>3 DEF IsQuery

LEMMA EndingsHold ==
    ASSUME NEW r \in {Done, Fails, Unasked}, NEW built \in Seq(IndexRecord), NEW seen
    PROVE  IsQuery(r) /\ HoldsWanted(r, built) /\ SeenAllowed(r, seen)
<1>1. /\ IsQuery(r) /\ r.wants = <<>> /\ r.index = 0 /\ r.vector = {} /\ r.graph = {} /\ r.docs = {}
      /\ r.pc \in {"new", "done", "failed"}
      BY Endings
<1>2. Len(built) \in Nat
      OBVIOUS
<1> QED BY <1>1, <1>2 DEF HoldsWanted, SeenAllowed, Permitted

(* What a query holds survives what others do to the shared indexes.       *)
IndexesGrow ==
    /\ Len(indexes) <= Len(indexes') /\ indexes' \in Seq(IndexRecord)
    /\ \A i \in 1 .. Len(indexes) : indexes'[i].chunks = indexes[i].chunks

LEMMA HoldingSurvives ==
    ASSUME NEW r, IsQuery(r), HoldsWanted(r, indexes), CacheOK, IndexesGrow
    PROVE  HoldsWanted(r, indexes')
BY DEF HoldsWanted, IndexesGrow, CacheOK, IsQuery

LEMMA SeenSurvives ==
    ASSUME WatchQueries, NEW q \in Queries, NEW r, SeenAllowed(r, during[q]), query'[q] = r
    PROVE  SeenAllowed(r, during'[q])
<1>1. CASE r.pc \in {"new", "done", "failed"}
      BY <1>1 DEF SeenAllowed, Permitted
<1>2. CASE r.pc \notin {"new", "done", "failed"}
  <2>1. during[q].readable \subseteq during'[q].readable /\ during[q].open \subseteq during'[q].open
        BY <1>2 DEF WatchQueries, Running, Searching
  <2> QED BY <2>1 DEF SeenAllowed
<1> QED BY <1>1, <1>2

LEMMA StaysPermitted ==
    ASSUME WatchQueries, NEW q \in Queries, NEW new, query'[q] = new, new.pc \in Permitted,
           query[q].pc \in Permitted, new.wants = query[q].wants, SeenAllowed(query[q], during[q])
    PROVE  SeenAllowed(new, during'[q])
<1>1. during[q].readable \subseteq during'[q].readable /\ during[q].open \subseteq during'[q].open
      BY DEF WatchQueries, Running, Searching, Permitted
<1> QED BY <1>1 DEF SeenAllowed, WantedOf, Permitted

(* What a query and the indexes become in a step of the query.             *)
Keeps(q, new) ==
    /\ query' = [query EXCEPT ![q] = new]
    /\ IsQuery(new) /\ HoldsWanted(new, indexes') /\ SeenAllowed(new, during'[q])
    /\ CacheOK' /\ IndexesGrow

LEMMA KeepsIsKept ==
    ASSUME QueryInv, WatchQueries, NEW q \in Queries, NEW new, Keeps(q, new), UNCHANGED mentioned
    PROVE  QueryInv'
<1> SUFFICES ASSUME NEW t \in Queries
             PROVE  IsQuery(query'[t]) /\ HoldsWanted(query'[t], indexes') /\ SeenAllowed(query'[t], during'[t])
    BY DEF QueryInv, QueriesOK, Keeps
<1>1. CASE t = q
      BY <1>1 DEF Keeps, QueryInv, QueriesOK
<1>2. CASE t # q
  <2>1. query'[t] = query[t]
        BY <1>2 DEF Keeps
  <2> QED BY <2>1, HoldingSurvives, SeenSurvives DEF Keeps, QueryInv, QueriesOK
<1> QED BY <1>1, <1>2

LEMMA NothingBuilt ==
    ASSUME QueryInv, UNCHANGED cacheVars
    PROVE  CacheOK' /\ IndexesGrow
<1>1. indexes' = indexes /\ cache' = cache
      BY DEF cacheVars
<1> QED BY <1>1 DEF QueryInv, CacheOK, IndexesGrow

LEMMA EndingKeeps ==
    ASSUME QueryInv, NEW q \in Queries, NEW r \in {Done, Fails}, Becomes(q, r), UNCHANGED cacheVars
    PROVE  Keeps(q, r)
<1>1. CacheOK' /\ IndexesGrow
      BY NothingBuilt
<1>2. IsQuery(r) /\ HoldsWanted(r, indexes') /\ SeenAllowed(r, during'[q])
      BY <1>1, EndingsHold DEF IndexesGrow
<1> QED BY <1>1, <1>2 DEF Keeps, Becomes

(* A step within what is permitted that changes at most the position.      *)
LEMMA MovingKeeps ==
    ASSUME QueryInv, WatchQueries, NEW q \in Queries, query[q].pc \in Permitted, NEW pc \in Permitted,
           Becomes(q, [query[q] EXCEPT !.pc = pc]), UNCHANGED cacheVars
    PROVE  Keeps(q, [query[q] EXCEPT !.pc = pc])
<1> DEFINE new == [query[q] EXCEPT !.pc = pc]
<1>1. /\ IsQuery(new) /\ SameQuestion(new, query[q]) /\ SamePassages(new, query[q]) /\ new.pc = pc
      /\ new.index = query[q].index
      BY SetsPc DEF QueryInv, QueriesOK
<1> HIDE DEF new
<1>2. query' = [query EXCEPT ![q] = new] /\ query'[q] = new
      BY DEF Becomes, new, QueryInv, QueriesOK
<1>3. SeenAllowed(new, during'[q])
      BY <1>1, <1>2, StaysPermitted DEF QueryInv, QueriesOK, SameQuestion
<1>4. CacheOK' /\ IndexesGrow
      BY NothingBuilt
<1>5. HoldsWanted(new, indexes)
      BY <1>1 DEF QueryInv, QueriesOK, HoldsWanted, WantedOf, SameQuestion, SamePassages, Permitted
<1>6. HoldsWanted(new, indexes')
      BY <1>1, <1>4, <1>5, HoldingSurvives DEF QueryInv
<1> QED BY <1>1, <1>2, <1>3, <1>4, <1>6 DEF Keeps, new

----------------------------------------------------------------------------
(* The gates.                                                              *)

LEMMA AskKeeps ==
    ASSUME QueryInv, WatchQueries, NEW q \in Queries, AskQuery(q)
    PROVE  \E new : Keeps(q, new)
<1>1. PICK asked \in Questions :
          Becomes(q, [Unasked EXCEPT !.pc = "roles", !.by = asked.by, !.wants = asked.wants,
                                     !.entities = asked.entities])
      BY DEF AskQuery
<1> DEFINE new == [pc |-> "roles", by |-> asked.by, wants |-> asked.wants, checked |-> 0, missing |-> FALSE,
                   entities |-> asked.entities, index |-> 0, vector |-> {}, graph |-> {}, docs |-> {}]
<1>2. query' = [query EXCEPT ![q] = new]
  <2> DEFINE asking == [Unasked EXCEPT !.pc = "roles", !.by = asked.by, !.wants = asked.wants,
                                       !.entities = asked.entities]
  <2>1. asking = new
    <3>1. DOMAIN asking = DOMAIN Unasked /\ DOMAIN new = DOMAIN Unasked
          BY DEF Unasked
    <3>2. /\ asking.pc = new.pc /\ asking.by = new.by /\ asking.wants = new.wants /\ asking.entities = new.entities
          BY DEF Unasked
    <3>3. /\ asking.checked = new.checked /\ asking.missing = new.missing /\ asking.index = new.index
          /\ asking.vector = new.vector /\ asking.graph = new.graph /\ asking.docs = new.docs
          BY DEF Unasked
    <3> QED BY <3>1, <3>2, <3>3 DEF Unasked
  <2> HIDE DEF asking, new
  <2> QED BY <1>1, <2>1 DEF Becomes, asking
<1>3. asked.wants \in Seq(Domains) /\ Len(asked.wants) > 0
      BY RetrievalConstants
<1>4. /\ IsQuery(new) /\ new.pc = "roles" /\ new.checked = 0 /\ new.index = 0 /\ new.wants = asked.wants
      /\ new.vector = {} /\ new.graph = {} /\ new.docs = {}
      BY <1>3 DEF IsQuery
<1> HIDE DEF new
<1>5. CacheOK' /\ IndexesGrow
      BY NothingBuilt DEF AskQuery
<1>6. HoldsWanted(new, indexes')
      BY <1>4, <1>5 DEF HoldsWanted, IndexesGrow
<1>7. SeenAllowed(new, during'[q])
      BY <1>3, <1>4 DEF SeenAllowed, Permitted
<1> QED BY <1>2, <1>4, <1>5, <1>6, <1>7 DEF Keeps

(* What is true of a domain when it is checked is remembered.              *)
LEMMA CheckingRemembers ==
    ASSUME WatchQueries, NEW q \in Queries, Searching(q)', Running(q)', NEW d \in Wanted(q)'
    PROVE  /\ during[q].readable \subseteq during'[q].readable /\ during[q].open \subseteq during'[q].open
           /\ (\E row \in rows' : row.user = query'[q].by /\ row.domain = d) => d \in during'[q].readable
           /\ domains'[d] = "active" => d \in during'[q].open
BY DEF WatchQueries

LEMMA CheckRoleKeeps ==
    ASSUME QueryInv, WatchQueries, NEW q \in Queries, CheckRole(q), UNCHANGED rows
    PROVE  \E new : Keeps(q, new)
<1> DEFINE r == query[q]
           missing == r.missing \/ ~Permits(r.by, NextWanted(q))
<1>0. /\ IsQuery(r) /\ HoldsWanted(r, indexes) /\ SeenAllowed(r, during[q]) /\ r.pc = "roles"
      /\ r.checked \in Nat /\ r.checked < Len(r.wants) /\ r.wants \in Seq(Domains) /\ Len(r.wants) \in Nat
      /\ DOMAIN query = Queries
      BY DEF QueryInv, QueriesOK, CheckRole, Stands, IsQuery, SeenAllowed
<1>1. CacheOK' /\ IndexesGrow
      BY NothingBuilt DEF CheckRole
<1>2. \/ ~LastWanted(q) /\ Becomes(q, [r EXCEPT !.checked = r.checked + 1, !.missing = missing])
      \/ LastWanted(q) /\ ~missing /\ Becomes(q, [r EXCEPT !.pc = "open", !.checked = 0])
      \/ Becomes(q, Fails)
      BY <1>0 DEF CheckRole, IsQuery
<1>3. ASSUME NEW new, query'[q] = new, SameQuestion(new, r), new.pc \in {"roles", "open"}, ~missing
      PROVE  /\ during[q].readable \subseteq during'[q].readable
             /\ r.wants[r.checked + 1] \in during'[q].readable
  <2>1. Searching(q)' /\ Running(q)'
        BY <1>3 DEF Searching, Running
  <2>2. r.wants[r.checked + 1] \in Wanted(q)'
    <3>1. r.checked + 1 \in 1 .. Len(r.wants)
          BY <1>0
    <3> QED BY <1>3, <3>1 DEF Wanted, SameQuestion
  <2>3. \E row \in rows' : row.user = query'[q].by /\ row.domain = r.wants[r.checked + 1]
        BY <1>3 DEF Permits, HasRole, RoleRows, NextWanted, SameQuestion
  <2> QED BY <2>1, <2>2, <2>3, CheckingRemembers
<1>4. CASE ~LastWanted(q) /\ Becomes(q, [r EXCEPT !.checked = r.checked + 1, !.missing = missing])
  <2> DEFINE first == [r EXCEPT !.checked = r.checked + 1]
             new   == [r EXCEPT !.checked = r.checked + 1, !.missing = missing]
  <2>1. /\ IsQuery(first) /\ SameQuestion(first, r) /\ SamePassages(first, r) /\ first.pc = r.pc
        /\ first.index = r.index /\ first.checked = r.checked + 1
    <3>1. r.checked + 1 \in Nat
          BY <1>0
    <3> QED BY <1>0, <3>1, SetsChecked
  <2>2. new = [first EXCEPT !.missing = missing]
        BY <1>0 DEF IsQuery
  <2> HIDE DEF first, new, missing, r
  <2>a. /\ IsQuery(new) /\ SameQuestion(new, first) /\ SamePassages(new, first) /\ new.pc = first.pc
        /\ new.index = first.index /\ new.checked = first.checked /\ new.missing = missing
        BY <2>1, <2>2, SetsMissing
  <2>3. /\ IsQuery(new) /\ SameQuestion(new, r) /\ SamePassages(new, r) /\ new.pc = "roles"
        /\ new.index = r.index /\ new.checked = r.checked + 1 /\ new.missing = missing
        BY <1>0, <2>1, <2>a DEF SameQuestion, SamePassages
  <2>4. query' = [query EXCEPT ![q] = new] /\ query'[q] = new
        BY <1>0, <1>4 DEF Becomes, new
  <2>5. HoldsWanted(new, indexes)
        BY <1>0, <2>3 DEF HoldsWanted, WantedOf, SameQuestion, SamePassages
  <2>6. HoldsWanted(new, indexes')
        BY <1>1, <2>3, <2>5, HoldingSurvives DEF QueryInv
  <2>7. new.checked < Len(new.wants)
        BY <1>0, <1>4, <2>3 DEF LastWanted, SameQuestion, r
  <2>8. ASSUME ~new.missing PROVE \A i \in 1 .. new.checked : new.wants[i] \in during'[q].readable
    <3>1. ~missing /\ ~r.missing
          BY <2>3, <2>8 DEF missing
    <3>2. \A i \in 1 .. r.checked : r.wants[i] \in during[q].readable
          BY <1>0, <3>1 DEF SeenAllowed
    <3>3. during[q].readable \subseteq during'[q].readable /\ r.wants[r.checked + 1] \in during'[q].readable
          BY <1>3, <2>3, <2>4, <3>1
    <3>4. \A i \in 1 .. r.checked + 1 : i \in 1 .. r.checked \/ i = r.checked + 1
          BY <1>0
    <3> QED BY <2>3, <3>2, <3>3, <3>4 DEF SameQuestion
  <2>9. SeenAllowed(new, during'[q])
        BY <2>3, <2>7, <2>8 DEF SeenAllowed, Permitted
  <2> QED BY <1>1, <2>3, <2>4, <2>6, <2>9 DEF Keeps
<1>5. CASE LastWanted(q) /\ ~missing /\ Becomes(q, [r EXCEPT !.pc = "open", !.checked = 0])
  <2> DEFINE first == [r EXCEPT !.pc = "open"]
             new   == [r EXCEPT !.pc = "open", !.checked = 0]
  <2>1. /\ IsQuery(first) /\ SameQuestion(first, r) /\ SamePassages(first, r) /\ first.pc = "open"
        /\ first.index = r.index
        BY <1>0, SetsPc
  <2>2. new = [first EXCEPT !.checked = 0]
        BY <1>0 DEF IsQuery
  <2> HIDE DEF first, new, missing, r
  <2>3. /\ IsQuery(new) /\ SameQuestion(new, r) /\ SamePassages(new, r) /\ new.pc = "open"
        /\ new.index = r.index /\ new.checked = 0
        BY <2>1, <2>2, SetsChecked DEF SameQuestion, SamePassages
  <2>4. query' = [query EXCEPT ![q] = new] /\ query'[q] = new
        BY <1>0, <1>5 DEF Becomes, new
  <2>5. HoldsWanted(new, indexes)
        BY <1>0, <2>3 DEF HoldsWanted, WantedOf, SameQuestion, SamePassages
  <2>6. HoldsWanted(new, indexes')
        BY <1>1, <2>3, <2>5, HoldingSurvives DEF QueryInv
  <2>7. WantedOf(new) \subseteq during'[q].readable
    <3>1. ~r.missing
          BY <1>5 DEF missing
    <3>2. \A i \in 1 .. r.checked : r.wants[i] \in during[q].readable
          BY <1>0, <3>1 DEF SeenAllowed
    <3>3. during[q].readable \subseteq during'[q].readable /\ r.wants[r.checked + 1] \in during'[q].readable
          BY <1>3, <1>5, <2>3, <2>4
    <3>4. \A i \in 1 .. Len(r.wants) : i \in 1 .. r.checked \/ i = r.checked + 1
          BY <1>0, <1>5 DEF LastWanted, r
    <3> QED BY <2>3, <3>2, <3>3, <3>4 DEF SameQuestion, WantedOf
  <2>8. SeenAllowed(new, during'[q])
        BY <1>0, <2>3, <2>7 DEF SeenAllowed, Permitted, SameQuestion
  <2> QED BY <1>1, <2>3, <2>4, <2>6, <2>8 DEF Keeps
<1>6. CASE Becomes(q, Fails)
      BY <1>6, EndingKeeps DEF CheckRole
<1> QED BY <1>2, <1>4, <1>5, <1>6

LEMMA CheckOpenKeeps ==
    ASSUME QueryInv, WatchQueries, NEW q \in Queries, CheckOpen(q), UNCHANGED domains
    PROVE  \E new : Keeps(q, new)
<1> DEFINE r == query[q]
<1>0. /\ IsQuery(r) /\ HoldsWanted(r, indexes) /\ SeenAllowed(r, during[q]) /\ r.pc = "open"
      /\ r.checked \in Nat /\ r.checked < Len(r.wants) /\ r.wants \in Seq(Domains) /\ Len(r.wants) \in Nat
      /\ DOMAIN query = Queries
      BY DEF QueryInv, QueriesOK, CheckOpen, Stands, IsQuery, SeenAllowed
<1>1. CacheOK' /\ IndexesGrow
      BY NothingBuilt DEF CheckOpen
<1>2. \/ Becomes(q, Fails)
      \/ LastWanted(q) /\ domains[NextWanted(q)] = "active" /\ Becomes(q, [r EXCEPT !.pc = "config"])
      \/ ~LastWanted(q) /\ domains[NextWanted(q)] = "active" /\ Becomes(q, [r EXCEPT !.checked = r.checked + 1])
      BY <1>0 DEF CheckOpen, IsQuery
<1>3. ASSUME NEW new, query'[q] = new, SameQuestion(new, r), new.pc \in {"open", "config"},
             domains[NextWanted(q)] = "active"
      PROVE  /\ during[q].readable \subseteq during'[q].readable /\ during[q].open \subseteq during'[q].open
             /\ r.wants[r.checked + 1] \in during'[q].open
  <2>1. Searching(q)' /\ Running(q)'
        BY <1>3 DEF Searching, Running
  <2>2. r.wants[r.checked + 1] \in Wanted(q)'
    <3>1. r.checked + 1 \in 1 .. Len(r.wants)
          BY <1>0
    <3> QED BY <1>3, <3>1 DEF Wanted, SameQuestion
  <2> QED BY <1>3, <2>1, <2>2, CheckingRemembers DEF NextWanted
<1>4. CASE LastWanted(q) /\ domains[NextWanted(q)] = "active" /\ Becomes(q, [r EXCEPT !.pc = "config"])
  <2> DEFINE new == [r EXCEPT !.pc = "config"]
  <2>1. /\ IsQuery(new) /\ SameQuestion(new, r) /\ SamePassages(new, r) /\ new.pc = "config"
        /\ new.index = r.index
        BY <1>0, SetsPc
  <2> HIDE DEF new, r
  <2>2. query' = [query EXCEPT ![q] = new] /\ query'[q] = new
        BY <1>0, <1>4 DEF Becomes, new
  <2>3. HoldsWanted(new, indexes)
        BY <1>0, <2>1 DEF HoldsWanted, WantedOf, SameQuestion, SamePassages
  <2>4. HoldsWanted(new, indexes')
        BY <1>1, <2>1, <2>3, HoldingSurvives DEF QueryInv
  <2>5. WantedOf(new) \subseteq during'[q].open /\ WantedOf(new) \subseteq during'[q].readable
    <3>1. \A i \in 1 .. r.checked : r.wants[i] \in during[q].open
          BY <1>0 DEF SeenAllowed
    <3>2. /\ during[q].readable \subseteq during'[q].readable /\ during[q].open \subseteq during'[q].open
          /\ r.wants[r.checked + 1] \in during'[q].open
          BY <1>3, <1>4, <2>1, <2>2
    <3>3. \A i \in 1 .. Len(r.wants) : i \in 1 .. r.checked \/ i = r.checked + 1
          BY <1>0, <1>4 DEF LastWanted, r
    <3>4. WantedOf(r) \subseteq during[q].readable
          BY <1>0 DEF SeenAllowed
    <3> QED BY <2>1, <3>1, <3>2, <3>3, <3>4 DEF SameQuestion, WantedOf
  <2>6. SeenAllowed(new, during'[q])
        BY <2>1, <2>5 DEF SeenAllowed, Permitted
  <2> QED BY <1>1, <2>1, <2>2, <2>4, <2>6 DEF Keeps
<1>5. CASE ~LastWanted(q) /\ domains[NextWanted(q)] = "active" /\ Becomes(q, [r EXCEPT !.checked = r.checked + 1])
  <2> DEFINE new == [r EXCEPT !.checked = r.checked + 1]
  <2>1. /\ IsQuery(new) /\ SameQuestion(new, r) /\ SamePassages(new, r) /\ new.pc = "open"
        /\ new.index = r.index /\ new.checked = r.checked + 1
    <3>1. r.checked + 1 \in Nat
          BY <1>0
    <3> QED BY <1>0, <3>1, SetsChecked
  <2> HIDE DEF new, r
  <2>2. query' = [query EXCEPT ![q] = new] /\ query'[q] = new
        BY <1>0, <1>5 DEF Becomes, new
  <2>3. HoldsWanted(new, indexes)
        BY <1>0, <2>1 DEF HoldsWanted, WantedOf, SameQuestion, SamePassages
  <2>4. HoldsWanted(new, indexes')
        BY <1>1, <2>1, <2>3, HoldingSurvives DEF QueryInv
  <2>5. new.checked < Len(new.wants)
        BY <1>0, <1>5, <2>1 DEF LastWanted, SameQuestion, r
  <2>6. /\ \A i \in 1 .. new.checked : new.wants[i] \in during'[q].open
        /\ WantedOf(new) \subseteq during'[q].readable
    <3>1. \A i \in 1 .. r.checked : r.wants[i] \in during[q].open
          BY <1>0 DEF SeenAllowed
    <3>2. /\ during[q].readable \subseteq during'[q].readable /\ during[q].open \subseteq during'[q].open
          /\ r.wants[r.checked + 1] \in during'[q].open
          BY <1>3, <1>5, <2>1, <2>2
    <3>3. \A i \in 1 .. r.checked + 1 : i \in 1 .. r.checked \/ i = r.checked + 1
          BY <1>0
    <3>4. WantedOf(r) \subseteq during[q].readable
          BY <1>0 DEF SeenAllowed
    <3> QED BY <2>1, <3>1, <3>2, <3>3, <3>4 DEF SameQuestion, WantedOf
  <2>7. SeenAllowed(new, during'[q])
        BY <2>1, <2>5, <2>6 DEF SeenAllowed, Permitted
  <2> QED BY <1>1, <2>1, <2>2, <2>4, <2>7 DEF Keeps
<1>6. CASE Becomes(q, Fails)
      BY <1>6, EndingKeeps DEF CheckOpen
<1> QED BY <1>2, <1>4, <1>5, <1>6

----------------------------------------------------------------------------
(* Past the gates.                                                         *)

LEMMA PermittedKeeps ==
    ASSUME QueryInv, WatchQueries, NEW q \in Queries, query[q].pc \in Permitted,
           NEW new, IsQuery(new), new.pc \in Permitted, SameQuestion(new, query[q]),
           Becomes(q, new), CacheOK', IndexesGrow, HoldsWanted(new, indexes')
    PROVE  Keeps(q, new)
<1>1. query' = [query EXCEPT ![q] = new] /\ query'[q] = new
      BY DEF Becomes, QueryInv, QueriesOK
<1> QED BY <1>1, StaysPermitted DEF Keeps, QueryInv, QueriesOK, SameQuestion

LEMMA ConfigKeeps ==
    ASSUME QueryInv, WatchQueries, NEW q \in Queries, ReadConfig(q) \/ CreateConfig(q)
    PROVE  \E new : Keeps(q, new)
<1>1. query[q].pc \in Permitted /\ UNCHANGED cacheVars
      BY DEF ReadConfig, CreateConfig, Stands, Permitted
<1>2. Becomes(q, Fails) \/ \E pc \in {"lookup", "configure"} : Becomes(q, [query[q] EXCEPT !.pc = pc])
      BY DEF ReadConfig, CreateConfig
<1>3. {"lookup", "configure"} \subseteq Permitted
      BY DEF Permitted
<1> QED BY <1>1, <1>2, <1>3, EndingKeeps, MovingKeeps

LEMMA EndKeeps ==
    ASSUME QueryInv, WatchQueries, NEW q \in Queries, GenerationFails(q) \/ CreateQueryLog(q) \/ EnqueueEvaluation(q)
    PROVE  \E new : Keeps(q, new)
<1>1. query[q].pc \in Permitted /\ UNCHANGED cacheVars
      BY DEF GenerationFails, CreateQueryLog, EnqueueEvaluation, Stands, Permitted
<1>2. Becomes(q, Fails) \/ Becomes(q, Done) \/ Becomes(q, [query[q] EXCEPT !.pc = "enqueue"])
      BY DEF GenerationFails, CreateQueryLog, EnqueueEvaluation
<1>3. "enqueue" \in Permitted
      BY DEF Permitted
<1> QED BY <1>1, <1>2, <1>3, EndingKeeps, MovingKeeps

LEMMA LookUpKeeps ==
    ASSUME QueryInv, WatchQueries, NEW q \in Queries, LookUpIndex(q)
    PROVE  \E new : Keeps(q, new)
<1> DEFINE r == query[q]
           key == CacheKey(q)
<1>0. /\ IsQuery(r) /\ HoldsWanted(r, indexes) /\ r.pc = "lookup" /\ r.pc \in Permitted
      /\ key = WantedOf(r) /\ key \in SUBSET Domains /\ CacheOK
      BY DEF QueryInv, QueriesOK, LookUpIndex, Stands, IsQuery, CacheKey, Wanted, WantedOf, Permitted
<1>1. CacheOK' /\ IndexesGrow
      BY NothingBuilt DEF LookUpIndex
<1>2. PICK pc \in {"vector", "build"}, i \in {0, cache[key]} : Becomes(q, [r EXCEPT !.pc = pc, !.index = i])
      BY DEF LookUpIndex
<1> DEFINE first == [r EXCEPT !.pc = pc]
           new   == [r EXCEPT !.pc = pc, !.index = i]
<1>3. /\ IsQuery(first) /\ SameQuestion(first, r) /\ SamePassages(first, r) /\ first.pc = pc
      BY <1>0, SetsPc
<1>4. new = [first EXCEPT !.index = i]
      BY <1>0 DEF IsQuery
<1>5. i \in Nat /\ i <= Len(indexes) /\ (i # 0 => \A c \in indexes[i].chunks : HomeOf[c] \in WantedOf(r))
      BY <1>0 DEF CacheOK
<1> HIDE DEF first, new, key, r
<1>6. /\ IsQuery(new) /\ SameQuestion(new, r) /\ SamePassages(new, r) /\ new.pc = pc /\ new.index = i
      BY <1>3, <1>4, <1>5, SetsIndex DEF SameQuestion, SamePassages
<1>7. HoldsWanted(new, indexes)
      BY <1>0, <1>5, <1>6 DEF HoldsWanted, WantedOf, SameQuestion, SamePassages
<1>8. HoldsWanted(new, indexes')
      BY <1>0, <1>1, <1>6, <1>7, HoldingSurvives
<1>9. pc \in Permitted
      BY DEF Permitted
<1> QED BY <1>0, <1>1, <1>2, <1>6, <1>8, <1>9, PermittedKeeps DEF new, r

LEMMA SearchKeeps ==
    ASSUME QueryInv, WatchQueries, NEW q \in Queries, SearchVectors(q) \/ SearchGraph(q)
    PROVE  \E new : Keeps(q, new)
<1> DEFINE r == query[q]
<1>0. /\ IsQuery(r) /\ HoldsWanted(r, indexes) /\ r.pc \in Permitted /\ Wanted(q) = WantedOf(r)
      BY DEF QueryInv, QueriesOK, SearchVectors, SearchGraph, Stands, Wanted, WantedOf, Permitted
<1>1. CacheOK' /\ IndexesGrow /\ CacheOK
      BY NothingBuilt DEF SearchVectors, SearchGraph, QueryInv
<1>2. CASE SearchVectors(q)
  <2>1. PICK hits \in Ranked(ActiveIn(Wanted(q))), pc \in {"graph", "fuse"} :
            Becomes(q, [r EXCEPT !.vector = hits, !.pc = pc])
        BY <1>2 DEF SearchVectors
  <2>2. hits \subseteq Chunks /\ \A c \in hits : HomeOf[c] \in WantedOf(r)
        BY <1>0 DEF Ranked, ActiveIn
  <2> DEFINE first == [r EXCEPT !.vector = hits]
             new   == [r EXCEPT !.vector = hits, !.pc = pc]
  <2>3. /\ IsQuery(first) /\ SameQuestion(first, r) /\ first.index = r.index /\ first.vector = hits
        /\ first.graph = r.graph /\ first.docs = r.docs
        BY <1>0, <2>2, SetsVector
  <2>4. new = [first EXCEPT !.pc = pc]
        BY <1>0 DEF IsQuery
  <2> HIDE DEF first, new, r
  <2>5. /\ IsQuery(new) /\ SameQuestion(new, r) /\ new.index = r.index /\ new.vector = hits
        /\ new.graph = r.graph /\ new.docs = r.docs /\ new.pc = pc
        BY <2>3, <2>4, SetsPc DEF SameQuestion, SamePassages
  <2>6. HoldsWanted(new, indexes)
        BY <1>0, <2>2, <2>5 DEF HoldsWanted, WantedOf, SameQuestion
  <2>7. HoldsWanted(new, indexes') /\ pc \in Permitted
        BY <1>1, <2>5, <2>6, HoldingSurvives DEF Permitted
  <2> QED BY <1>0, <1>1, <2>1, <2>5, <2>7, PermittedKeeps DEF new, r
<1>3. CASE SearchGraph(q)
  <2>1. PICK matched \in SUBSET {c \in mentioned : HomeOf[c] \in Wanted(q)} :
            \E hits \in Ranked(matched) : Becomes(q, [r EXCEPT !.pc = "fuse", !.graph = hits])
        BY <1>3 DEF SearchGraph
  <2>2. PICK hits \in Ranked(matched) : Becomes(q, [r EXCEPT !.pc = "fuse", !.graph = hits])
        BY <2>1
  <2>3. hits \subseteq Chunks /\ \A c \in hits : HomeOf[c] \in WantedOf(r)
        BY <1>0 DEF Ranked, QueryInv
  <2> DEFINE first == [r EXCEPT !.pc = "fuse"]
             new   == [r EXCEPT !.pc = "fuse", !.graph = hits]
  <2>4. /\ IsQuery(first) /\ SameQuestion(first, r) /\ SamePassages(first, r) /\ first.index = r.index
        /\ first.pc = "fuse"
        BY <1>0, SetsPc
  <2>5. new = [first EXCEPT !.graph = hits]
        BY <1>0 DEF IsQuery
  <2> HIDE DEF first, new, r
  <2>6. /\ IsQuery(new) /\ SameQuestion(new, r) /\ new.index = r.index /\ new.vector = r.vector
        /\ new.graph = hits /\ new.docs = r.docs /\ new.pc = "fuse"
        BY <2>3, <2>4, <2>5, SetsGraph DEF SameQuestion, SamePassages
  <2>7. HoldsWanted(new, indexes)
        BY <1>0, <2>3, <2>6 DEF HoldsWanted, WantedOf, SameQuestion
  <2>8. HoldsWanted(new, indexes') /\ "fuse" \in Permitted
        BY <1>1, <2>6, <2>7, HoldingSurvives DEF Permitted
  <2> QED BY <1>0, <1>1, <2>2, <2>6, <2>8, PermittedKeeps DEF new, r
<1> QED BY <1>2, <1>3

LEMMA ReadRowsKeeps ==
    ASSUME QueryInv, WatchQueries, NEW q \in Queries, ReadRows(q)
    PROVE  \E new : Keeps(q, new)
<1> DEFINE r == query[q]
           found == ActiveIn(Wanted(q))
           built == [chunks |-> found, scoreOf |-> [c \in found |-> Null]]
<1>0. /\ IsQuery(r) /\ HoldsWanted(r, indexes) /\ r.pc \in Permitted /\ Wanted(q) = WantedOf(r) /\ CacheOK
      BY DEF QueryInv, QueriesOK, ReadRows, Stands, Wanted, WantedOf, Permitted
<1>1. CASE found = {}
  <2>1. Becomes(q, [r EXCEPT !.pc = "vector"]) /\ UNCHANGED cacheVars /\ "vector" \in Permitted
        BY <1>1 DEF ReadRows, Permitted
  <2> QED BY <1>0, <2>1, MovingKeeps
<1>2. CASE found # {}
  <2>1. /\ Becomes(q, [r EXCEPT !.pc = "store", !.index = Len(indexes) + 1])
        /\ indexes' = Append(indexes, built) /\ UNCHANGED cache
        BY <1>2 DEF ReadRows
  <2>2. built \in IndexRecord
    <3>1. found \in SUBSET Chunks
          BY DEF ActiveIn
    <3>2. [c \in found |-> Null] \in [found -> Score]
          BY DEF Score
    <3> HIDE DEF found
    <3> QED BY <3>1, <3>2 DEF IndexRecord
  <2>3. built.chunks = found
        OBVIOUS
  <2>4. \A c \in found : HomeOf[c] \in WantedOf(r)
        BY <1>0 DEF ActiveIn
  <2> DEFINE n     == Len(indexes) + 1
             first == [r EXCEPT !.pc = "store"]
             new   == [r EXCEPT !.pc = "store", !.index = n]
  <2>5. new = [first EXCEPT !.index = n]
        BY <1>0 DEF IsQuery
  <2>6. /\ IsQuery(first) /\ SameQuestion(first, r) /\ SamePassages(first, r) /\ first.pc = "store"
        BY <1>0, SetsPc
  <2> HIDE DEF built, found
  <2>7. /\ indexes' \in Seq(IndexRecord) /\ Len(indexes') = n /\ n \in Nat /\ n # 0 /\ indexes'[n] = built
        /\ \A i \in 1 .. Len(indexes) : indexes'[i] = indexes[i]
        BY <1>0, <2>1, <2>2 DEF CacheOK
  <2>8. IndexesGrow
        BY <1>0, <2>7 DEF IndexesGrow, CacheOK
  <2>9. CacheOK'
    <3>1. ASSUME NEW key \in SUBSET Domains
          PROVE  /\ cache'[key] <= Len(indexes')
                 /\ cache'[key] # 0 => \A c \in indexes'[cache'[key]].chunks : HomeOf[c] \in key
          BY <1>0, <2>1, <2>7 DEF CacheOK
    <3> QED BY <1>0, <2>1, <2>7, <3>1 DEF CacheOK
  <2> HIDE DEF n, first, new, r
  <2>10. /\ IsQuery(new) /\ SameQuestion(new, r) /\ SamePassages(new, r) /\ new.pc = "store" /\ new.index = n
        BY <2>5, <2>6, <2>7, SetsIndex DEF SameQuestion, SamePassages
  <2>11. HoldsWanted(new, indexes')
        BY <1>0, <2>3, <2>4, <2>7, <2>10 DEF HoldsWanted, WantedOf, SameQuestion, SamePassages
  <2>12. "store" \in Permitted
        BY DEF Permitted
  <2> QED BY <1>0, <2>1, <2>8, <2>9, <2>10, <2>11, <2>12, PermittedKeeps DEF new, r, n
<1> QED BY <1>1, <1>2

LEMMA StoreKeeps ==
    ASSUME QueryInv, WatchQueries, NEW q \in Queries, StoreIndex(q)
    PROVE  \E new : Keeps(q, new)
<1> DEFINE r == query[q]
           key == CacheKey(q)
           new == [r EXCEPT !.pc = "vector"]
<1>0. /\ IsQuery(r) /\ HoldsWanted(r, indexes) /\ r.pc \in Permitted /\ CacheOK
      /\ key = WantedOf(r) /\ key \in SUBSET Domains
      BY DEF QueryInv, QueriesOK, StoreIndex, Stands, IsQuery, CacheKey, Wanted, WantedOf, Permitted
<1>1. /\ Becomes(q, new) /\ cache' = [cache EXCEPT ![key] = r.index] /\ UNCHANGED indexes
      BY DEF StoreIndex
<1>2. /\ IsQuery(new) /\ SameQuestion(new, r) /\ SamePassages(new, r) /\ new.pc = "vector" /\ new.index = r.index
      BY <1>0, SetsPc
<1> HIDE DEF new, r, key
<1>3. IndexesGrow
      BY <1>0, <1>1 DEF IndexesGrow, CacheOK
<1>4. CacheOK'
  <2>1. cache' \in [SUBSET Domains -> Nat]
        BY <1>0, <1>1 DEF CacheOK, IsQuery
  <2>2. ASSUME NEW other \in SUBSET Domains
        PROVE  /\ cache'[other] <= Len(indexes)
               /\ cache'[other] # 0 => \A c \in indexes[cache'[other]].chunks : HomeOf[c] \in other
    <3>1. CASE other = key
          BY <1>0, <1>1, <3>1 DEF CacheOK, HoldsWanted
    <3>2. CASE other # key
          BY <1>0, <1>1, <3>2 DEF CacheOK
    <3> QED BY <3>1, <3>2
  <2> QED BY <1>0, <1>1, <2>1, <2>2 DEF CacheOK
<1>5. HoldsWanted(new, indexes)
      BY <1>0, <1>2 DEF HoldsWanted, WantedOf, SameQuestion, SamePassages
<1>6. "vector" \in Permitted
      BY DEF Permitted
<1> QED BY <1>0, <1>1, <1>2, <1>3, <1>4, <1>5, <1>6, PermittedKeeps DEF new, r

(* Fusing writes scores into the documents of the index the query holds.   *)
LEMMA FuseKeeps ==
    ASSUME QueryInv, WatchQueries, NEW q \in Queries, Fuse(q)
    PROVE  \E new : Keeps(q, new)
<1> DEFINE r == query[q]
<1>0. /\ IsQuery(r) /\ HoldsWanted(r, indexes) /\ r.pc \in Permitted /\ CacheOK
      BY DEF QueryInv, QueriesOK, Fuse, Stands, Permitted
<1>1. PICK text \in TextHits(q) :
          \E kept \in Ranked(r.vector \cup text \cup r.graph) :
             /\ Becomes(q, [r EXCEPT !.pc = "generate",
                   !.docs = {[chunk |-> c, score |-> GraphScore(q, c, c \in text \ r.vector)] : c \in kept}])
             /\ indexes' = [i \in DOMAIN indexes |->
                   IF i # r.index THEN indexes[i]
                   ELSE [indexes[i] EXCEPT !.scoreOf = [c \in DOMAIN @ |->
                           IF c \in kept /\ c \in text \ r.vector THEN GraphScore(q, c, TRUE) ELSE @[c]]]]
      BY DEF Fuse
<1>2. PICK kept \in Ranked(r.vector \cup text \cup r.graph) :
             /\ Becomes(q, [r EXCEPT !.pc = "generate",
                   !.docs = {[chunk |-> c, score |-> GraphScore(q, c, c \in text \ r.vector)] : c \in kept}])
             /\ indexes' = [i \in DOMAIN indexes |->
                   IF i # r.index THEN indexes[i]
                   ELSE [indexes[i] EXCEPT !.scoreOf = [c \in DOMAIN @ |->
                           IF c \in kept /\ c \in text \ r.vector THEN GraphScore(q, c, TRUE) ELSE @[c]]]]
      BY <1>1
<1> DEFINE docs  == {[chunk |-> c, score |-> GraphScore(q, c, c \in text \ r.vector)] : c \in kept}
           first == [r EXCEPT !.pc = "generate"]
           new   == [r EXCEPT !.pc = "generate", !.docs = docs]
           Scored(i, c) == IF c \in kept /\ c \in text \ r.vector THEN GraphScore(q, c, TRUE)
                           ELSE indexes[i].scoreOf[c]
           Rescored(i) == [indexes[i] EXCEPT !.scoreOf = [c \in DOMAIN indexes[i].scoreOf |-> Scored(i, c)]]
<1>3. /\ Becomes(q, new) /\ UNCHANGED cache
      /\ DOMAIN indexes' = DOMAIN indexes
      /\ \A i \in DOMAIN indexes : indexes'[i] = IF i # r.index THEN indexes[i] ELSE Rescored(i)
  <2>1. \A i \in DOMAIN indexes : indexes[i] \in IndexRecord
        BY <1>0 DEF CacheOK
  <2> QED BY <1>2, <2>1 DEF Fuse, IndexRecord
<1>4. \A c \in text : HomeOf[c] \in WantedOf(r)
      BY <1>0 DEF TextHits, Ranked, HoldsWanted
<1>5. \A c \in kept : HomeOf[c] \in WantedOf(r)
      BY <1>0, <1>4 DEF Ranked, HoldsWanted
<1>6. \A doc \in docs : HomeOf[doc.chunk] \in WantedOf(r)
      BY <1>5
<1>7. ASSUME NEW i \in DOMAIN indexes, i = r.index
      PROVE  Rescored(i) \in IndexRecord /\ Rescored(i).chunks = indexes[i].chunks
  <2> DEFINE scores == [c \in DOMAIN indexes[i].scoreOf |-> Scored(i, c)]
  <2>0. indexes[i] \in IndexRecord
        BY <1>0 DEF CacheOK
  <2>1. PICK T \in SUBSET Chunks : indexes[i].scoreOf \in [T -> Score]
        BY <2>0 DEF IndexRecord
  <2>2. ASSUME NEW c \in T PROVE Scored(i, c) \in Score
    <3>1. indexes[i].scoreOf[c] \in Score /\ q \in Score /\ Null \in Score
          BY <2>1 DEF Score
    <3>2. GraphScore(q, c, TRUE) \in Score
          BY <1>7, <3>1 DEF GraphScore
    <3> QED BY <3>1, <3>2
  <2> HIDE DEF Scored
  <2>3. scores \in [T -> Score]
        BY <2>1, <2>2
  <2> HIDE DEF scores
  <2>4. Rescored(i) = [indexes[i] EXCEPT !.scoreOf = scores]
        BY DEF scores
  <2>5. scores \in UNION {[S -> Score] : S \in SUBSET Chunks}
        BY <2>3
  <2> HIDE DEF Rescored
  <2> QED BY <2>0, <2>4, <2>5 DEF IndexRecord
<1> HIDE DEF docs, Scored, Rescored
<1>8. /\ indexes' \in Seq(IndexRecord) /\ Len(indexes') = Len(indexes)
      /\ \A i \in 1 .. Len(indexes) : indexes'[i].chunks = indexes[i].chunks
  <2>1. /\ indexes \in Seq(IndexRecord) /\ DOMAIN indexes = 1 .. Len(indexes) /\ Len(indexes) \in Nat
        /\ \A i \in DOMAIN indexes : indexes[i] \in IndexRecord
        BY <1>0 DEF CacheOK
  <2>2. \A i \in DOMAIN indexes : indexes'[i] \in IndexRecord /\ indexes'[i].chunks = indexes[i].chunks
        BY <1>3, <1>7, <2>1
  <2>3. indexes' = [i \in 1 .. Len(indexes) |-> indexes'[i]]
        BY <1>2, <2>1
  <2>4. indexes' \in [1 .. Len(indexes) -> IndexRecord]
        BY <2>1, <2>2, <2>3
  <2>5. indexes' \in Seq(IndexRecord)
        BY <2>1, <2>4
  <2> QED BY <1>3, <2>1, <2>2, <2>5
<1>9. IndexesGrow
      BY <1>0, <1>8 DEF IndexesGrow, CacheOK
<1>10. CacheOK'
  <2>1. ASSUME NEW key \in SUBSET Domains
        PROVE  /\ cache'[key] <= Len(indexes')
               /\ cache'[key] # 0 => \A c \in indexes'[cache'[key]].chunks : HomeOf[c] \in key
    <3>1. cache'[key] = cache[key] /\ cache[key] \in Nat /\ cache[key] <= Len(indexes) /\ Len(indexes) \in Nat
          BY <1>0, <1>3 DEF CacheOK
    <3>2. cache[key] # 0 => cache[key] \in 1 .. Len(indexes) /\ \A c \in indexes[cache[key]].chunks : HomeOf[c] \in key
          BY <1>0, <3>1 DEF CacheOK
    <3> QED BY <1>8, <3>1, <3>2
  <2> QED BY <1>0, <1>3, <1>8, <2>1 DEF CacheOK
<1>11. new = [first EXCEPT !.docs = docs]
       BY <1>0 DEF IsQuery
<1>12. /\ IsQuery(first) /\ SameQuestion(first, r) /\ SamePassages(first, r) /\ first.index = r.index
       /\ first.pc = "generate"
       BY <1>0, SetsPc
<1> HIDE DEF first, new, r
<1>13. /\ IsQuery(new) /\ SameQuestion(new, r) /\ new.index = r.index /\ new.vector = r.vector
       /\ new.graph = r.graph /\ new.docs = docs /\ new.pc = "generate"
       BY <1>11, <1>12, SetsDocs DEF SameQuestion, SamePassages
<1>14. HoldsWanted(new, indexes)
       BY <1>0, <1>6, <1>13 DEF HoldsWanted, WantedOf, SameQuestion
<1>15. HoldsWanted(new, indexes') /\ "generate" \in Permitted
       BY <1>0, <1>9, <1>13, <1>14, HoldingSurvives DEF Permitted
<1> QED BY <1>0, <1>3, <1>9, <1>10, <1>13, <1>15, PermittedKeeps DEF new, r

----------------------------------------------------------------------------
(* Steps of the system.                                                    *)

LEMMA QueryStepKeeps ==
    ASSUME QueryInv, WatchQueries, NEW q \in Queries, QueryStep(q), UNCHANGED <<rows, domains>>
    PROVE  \E new : Keeps(q, new)
BY AskKeeps, CheckRoleKeeps, CheckOpenKeeps, ConfigKeeps, LookUpKeeps, ReadRowsKeeps, StoreKeeps, SearchKeeps,
   FuseKeeps, EndKeeps DEF QueryStep

(* What every other step leaves of the queries.                            *)
LEMMA QuerySteps ==
    ASSUME [Next]_vars
    PROVE  \/ \E q \in Queries : QueryStep(q) /\ UNCHANGED <<rows, domains, mentioned>>
           \/ UNCHANGED <<query, indexes, cache, recordVars>> /\ (mentioned \subseteq Chunks => mentioned' \subseteq Chunks)
           \/ Crash
<1>1. CASE \E s \in Slots : UNCHANGED <<corpusVars, configured, cacheVars, query, recordVars>>
      BY <1>1 DEF corpusVars, cacheVars
<1>2. CASE RetrievalStep
  <2>1. CASE \E q \in Queries : QueryStep(q) /\ UNCHANGED <<request, corpusVars>> /\ Unchanged
        BY <2>1 DEF corpusVars, Unchanged
  <2>2. CASE \E key \in SUBSET Domains : Expire(key) /\ UNCHANGED <<request, corpusVars>> /\ Unchanged
        BY <2>2 DEF Expire, corpusVars
  <2>3. CASE \E c \in Chunks : /\ IndexGeneration(c) \/ ExtractChunk(c)
                               /\ UNCHANGED <<request, configured, cacheVars, query, recordVars>> /\ Unchanged
        BY <2>3 DEF IndexGeneration, ExtractChunk, cacheVars
  <2> QED BY <1>2, <2>1, <2>2, <2>3 DEF RetrievalStep
<1>3. CASE UNCHANGED vars
      BY <1>3 DEF vars, retrievalVars, corpusVars, cacheVars
<1> QED BY <1>1, <1>2, <1>3 DEF Next, Step

LEMMA OthersKeepQueries ==
    ASSUME QueryInv, UNCHANGED <<query, indexes, cache>>, mentioned' \subseteq Chunks,
           WatchQueries \/ UNCHANGED during
    PROVE  QueryInv'
<1>1. \A q \in Queries : SeenAllowed(query[q], during'[q])
  <2>1. CASE WatchQueries
        BY <2>1, SeenSurvives DEF QueryInv, QueriesOK
  <2>2. CASE UNCHANGED during
        BY <2>2 DEF QueryInv, QueriesOK
  <2> QED BY <2>1, <2>2
<1>2. CacheOK'
      BY DEF QueryInv, CacheOK
<1> QED BY <1>1, <1>2 DEF QueryInv, QueriesOK

(* A crash loses the indexes, and the queries that hold one.               *)
LEMMA CrashKeepsQueries ==
    ASSUME QueryInv, Crash
    PROVE  QueryInv'
<1>1. /\ query' = [q \in Queries |-> IF Running(q) THEN Fails ELSE query[q]]
      /\ indexes' = <<>> /\ cache' = [key \in SUBSET Domains |-> 0] /\ mentioned' = mentioned
      BY DEF Crash, corpusVars
<1>2. indexes' \in Seq(IndexRecord) /\ Len(indexes') = 0
      BY <1>1
<1>3. CacheOK'
      BY <1>1, <1>2 DEF CacheOK
<1>4. ASSUME NEW q \in Queries
      PROVE  IsQuery(query'[q]) /\ HoldsWanted(query'[q], indexes') /\ SeenAllowed(query'[q], during'[q])
  <2>1. CASE Running(q)
    <3>1. query'[q] = Fails
          BY <1>1, <2>1
    <3> QED BY <1>2, <3>1, EndingsHold
  <2>2. CASE ~Running(q)
    <3>1. query'[q] = query[q] /\ query[q].pc \in {"new", "done", "failed"}
          BY <1>1, <2>2 DEF Running
    <3>2. IsQuery(query[q]) /\ HoldsWanted(query[q], indexes) /\ query[q].index = 0
          BY <3>1 DEF QueryInv, QueriesOK, HoldsWanted
    <3>3. HoldsWanted(query[q], indexes')
          BY <1>2, <3>2 DEF HoldsWanted
    <3> QED BY <3>1, <3>2, <3>3 DEF SeenAllowed, Permitted
  <2> QED BY <2>1, <2>2
<1> QED BY <1>1, <1>3, <1>4 DEF QueryInv, QueriesOK

LEMMA StepKeepsQueries == QueryInv /\ [Next]_vars => QueryInv'
<1> SUFFICES ASSUME QueryInv, [Next]_vars PROVE QueryInv'
    OBVIOUS
<1>1. WatchQueries \/ UNCHANGED vars
      BY DEF Next
<1>2. CASE Crash
      BY <1>2, CrashKeepsQueries
<1>3. CASE UNCHANGED <<query, indexes, cache>> /\ (mentioned \subseteq Chunks => mentioned' \subseteq Chunks)
      BY <1>1, <1>3, OthersKeepQueries DEF QueryInv, vars, retrievalVars
<1>4. CASE /\ \E q \in Queries : QueryStep(q) /\ UNCHANGED <<rows, domains, mentioned>>
           /\ WatchQueries
      BY <1>4, QueryStepKeeps, KeepsIsKept
<1>5. UNCHANGED vars => UNCHANGED <<query, indexes, cache, mentioned>>
      BY DEF vars, retrievalVars, corpusVars, cacheVars
<1> QED BY <1>1, <1>2, <1>3, <1>4, <1>5, QuerySteps

LEMMA InitQueries == Init => QueryInv
<1> SUFFICES ASSUME Init PROVE QueryInv
    OBVIOUS
<1>1. /\ query = [q \in Queries |-> Unasked] /\ indexes = <<>> /\ cache = [key \in SUBSET Domains |-> 0]
      /\ mentioned = Indexed
      BY DEF Init, RetrievalInit
<1>2. indexes \in Seq(IndexRecord) /\ Len(indexes) = 0
      BY <1>1
<1>3. CacheOK
      BY <1>1, <1>2 DEF CacheOK
<1>4. \A q \in Queries : IsQuery(query[q]) /\ HoldsWanted(query[q], indexes) /\ SeenAllowed(query[q], during[q])
      BY <1>1, <1>2, EndingsHold
<1> QED BY <1>1, <1>3, <1>4, RetrievalConstants DEF QueryInv, QueriesOK

(* An answer holds passages of the domains asked for only, which its asker *)
(* could read and which were open during the query, whoever built the      *)
(* index it was searched in (authz/retrieval.py:30-55,                     *)
(* retrieval/bm25_retriever.py:21).                                        *)
THEOREM AnswersKeepToPermissionsCorrect == Spec => []AnswersKeepToPermissions
<1>1. QueryInv => AnswersKeepToPermissions
  <2> SUFFICES ASSUME QueryInv, NEW q \in Queries, Answered(q)
               PROVE  /\ {HomeOf[doc.chunk] : doc \in query[q].docs} \cup Wanted(q) \subseteq during[q].readable
                      /\ Wanted(q) \subseteq during[q].open
      BY DEF AnswersKeepToPermissions
  <2>1. HoldsWanted(query[q], indexes) /\ SeenAllowed(query[q], during[q]) /\ query[q].pc \in Permitted
        BY DEF QueryInv, QueriesOK, Answered, Permitted
  <2>2. WantedOf(query[q]) = Wanted(q)
        BY DEF WantedOf, Wanted
  <2> QED BY <2>1, <2>2 DEF HoldsWanted, SeenAllowed
<1> QED BY <1>1, InitQueries, StepKeepsQueries, PTL DEF Spec

(* An index is cached for the domains its passages come from               *)
(* (retrieval/bm25_retriever.py get_bm25_retriever).                       *)
THEOREM CacheIsByDomainsCorrect == Spec => []CacheIsByDomains
<1>1. QueryInv => CacheIsByDomains
      BY DEF QueryInv, CacheOK, CacheIsByDomains
<1> QED BY <1>1, InitQueries, StepKeepsQueries, PTL DEF Spec

(* Where a query stands when a second field changes with the position.     *)
LEMMA PositionOf ==
    ASSUME NEW r, IsQuery(r), NEW pc, NEW x, NEW y
    PROVE  /\ [r EXCEPT !.pc = pc, !.index = x].pc = pc
           /\ [r EXCEPT !.pc = pc, !.graph = x].pc = pc
           /\ [r EXCEPT !.pc = pc, !.docs = x].pc = pc
           /\ [r EXCEPT !.pc = pc, !.checked = x].pc = pc
           /\ [r EXCEPT !.vector = x, !.pc = pc].pc = pc
           /\ [r EXCEPT !.checked = x, !.missing = y].pc = r.pc
<1>1. "pc" \in DOMAIN r
      BY DEF IsQuery
<1>2. DOMAIN [r EXCEPT !.pc = pc] = DOMAIN r /\ DOMAIN [r EXCEPT !.vector = x] = DOMAIN r
      OBVIOUS
<1>3. [r EXCEPT !.pc = pc].pc = pc /\ [r EXCEPT !.checked = x].pc = r.pc
      BY <1>1
<1> QED BY <1>1, <1>2, <1>3

(* A query that is about to enqueue its evaluation has its log committed.  *)
LoggedInv ==
    /\ DOMAIN query = Queries
    /\ \A q \in Queries : query[q].pc = "enqueue" => q \in logs
    /\ tasks \subseteq logs

(* No task names a query without a log (retrieval/service.py               *)
(* answer_query).                                                          *)
THEOREM JudgedIsLoggedCorrect == Spec => []JudgedIsLogged
<1>1. Init => LoggedInv
      BY DEF Init, RetrievalInit, LoggedInv, Unasked
<1>2. QueryInv /\ LoggedInv /\ [Next]_vars => LoggedInv'
  <2> SUFFICES ASSUME QueryInv, LoggedInv, [Next]_vars PROVE LoggedInv'
      OBVIOUS
  <2>1. CASE UNCHANGED <<query, recordVars>>
        BY <2>1 DEF LoggedInv, recordVars
  <2>2. CASE Crash
    <3>1. /\ query' = [q \in Queries |-> IF Running(q) THEN Fails ELSE query[q]]
          /\ logs' = logs /\ tasks' = tasks
          BY <2>2 DEF Crash, recordVars
    <3>2. Fails.pc # "enqueue"
          BY DEF Fails, Unasked
    <3> QED BY <3>1, <3>2 DEF LoggedInv
  <2>3. ASSUME NEW q \in Queries, QueryStep(q) PROVE LoggedInv'
    <3>1. CASE CreateQueryLog(q)
          BY <3>1 DEF CreateQueryLog, Becomes, LoggedInv
    <3>2. CASE EnqueueEvaluation(q)
      <4>1. query[q].pc = "enqueue" /\ (Becomes(q, Done) \/ Becomes(q, Fails)) /\ logs' = logs
            /\ tasks' \subseteq tasks \cup {q}
            BY <3>2 DEF EnqueueEvaluation, Stands
      <4>2. Done.pc # "enqueue" /\ Fails.pc # "enqueue"
            BY DEF Done, Fails, Unasked
      <4> QED BY <4>1, <4>2 DEF Becomes, LoggedInv
    <3>3. CASE ~CreateQueryLog(q) /\ ~EnqueueEvaluation(q)
      <4>0. UNCHANGED recordVars /\ IsQuery(query[q])
            BY <2>3, <3>3 DEF QueryStep, AskQuery, CheckRole, CheckOpen, ReadConfig, CreateConfig, LookUpIndex,
               ReadRows, StoreIndex, SearchVectors, SearchGraph, Fuse, GenerationFails, recordVars, QueryInv, QueriesOK
      <4>1. PICK new : Becomes(q, new) /\ new.pc # "enqueue"
        <5>1. CASE AskQuery(q)
          <6>1. PICK asked \in Questions :
                    Becomes(q, [Unasked EXCEPT !.pc = "roles", !.by = asked.by, !.wants = asked.wants,
                                               !.entities = asked.entities])
                BY <5>1 DEF AskQuery
          <6>2. [Unasked EXCEPT !.pc = "roles", !.by = asked.by, !.wants = asked.wants,
                                !.entities = asked.entities].pc = "roles"
                BY DEF Unasked
          <6> QED BY <6>1, <6>2
        <5>2. CASE CheckRole(q) \/ CheckOpen(q)
          <6>1. /\ query[q].pc \in {"roles", "open"} /\ Fails.pc = "failed"
                /\ \A pc, x : [query[q] EXCEPT !.pc = pc].pc = pc /\ [query[q] EXCEPT !.checked = x].pc = query[q].pc
                BY <4>0, <5>2 DEF CheckRole, CheckOpen, Stands, Fails, Unasked, IsQuery
          <6>2. \/ Becomes(q, Fails) \/ Becomes(q, [query[q] EXCEPT !.pc = "config"])
                \/ \E x, y : Becomes(q, [query[q] EXCEPT !.checked = x, !.missing = y])
                \/ \E x : Becomes(q, [query[q] EXCEPT !.checked = x])
                \/ \E x : Becomes(q, [query[q] EXCEPT !.pc = "open", !.checked = x])
                BY <5>2 DEF CheckRole, CheckOpen
          <6>3. ASSUME NEW x, NEW y, Becomes(q, [query[q] EXCEPT !.checked = x, !.missing = y])
                PROVE  \E new : Becomes(q, new) /\ new.pc # "enqueue"
            <7>1. [query[q] EXCEPT !.checked = x, !.missing = y].pc = query[q].pc
                  BY <4>0, PositionOf
            <7> QED BY <6>1, <6>3, <7>1
          <6>4. ASSUME NEW x, Becomes(q, [query[q] EXCEPT !.pc = "open", !.checked = x])
                PROVE  \E new : Becomes(q, new) /\ new.pc # "enqueue"
            <7>1. [query[q] EXCEPT !.pc = "open", !.checked = x].pc = "open"
                  BY <4>0, PositionOf
            <7> QED BY <6>4, <7>1
          <6>5. ASSUME NEW x, Becomes(q, [query[q] EXCEPT !.checked = x])
                PROVE  \E new : Becomes(q, new) /\ new.pc # "enqueue"
            <7>1. [query[q] EXCEPT !.checked = x].pc \in {"roles", "open"}
                  BY <6>1
            <7> QED BY <6>5, <7>1
          <6>6. ASSUME Becomes(q, [query[q] EXCEPT !.pc = "config"])
                PROVE  \E new : Becomes(q, new) /\ new.pc # "enqueue"
            <7>1. [query[q] EXCEPT !.pc = "config"].pc = "config"
                  BY <6>1
            <7> QED BY <6>6, <7>1
          <6>7. ASSUME Becomes(q, Fails)
                PROVE  \E new : Becomes(q, new) /\ new.pc # "enqueue"
                BY <6>1, <6>7
          <6> QED BY <6>2, <6>3, <6>4, <6>5, <6>6, <6>7
        <5>3. CASE ReadConfig(q) \/ CreateConfig(q) \/ GenerationFails(q)
          <6>1. Fails.pc = "failed" /\ \A pc : [query[q] EXCEPT !.pc = pc].pc = pc
                BY <4>0 DEF Fails, Unasked, IsQuery
          <6>2. \/ Becomes(q, Fails) \/ \E pc \in {"lookup", "configure"} : Becomes(q, [query[q] EXCEPT !.pc = pc])
                BY <5>3 DEF ReadConfig, CreateConfig, GenerationFails
          <6> QED BY <6>1, <6>2
        <5>4. CASE LookUpIndex(q)
          <6>1. PICK pc \in {"vector", "build"} : \E x : Becomes(q, [query[q] EXCEPT !.pc = pc, !.index = x])
                BY <5>4 DEF LookUpIndex
          <6>2. PICK x : Becomes(q, [query[q] EXCEPT !.pc = pc, !.index = x])
                BY <6>1
          <6>3. [query[q] EXCEPT !.pc = pc, !.index = x].pc = pc
                BY <4>0, PositionOf
          <6> QED BY <6>2, <6>3
        <5>5. CASE ReadRows(q) \/ StoreIndex(q)
          <6>1. \A pc : [query[q] EXCEPT !.pc = pc].pc = pc
                BY <4>0 DEF IsQuery
          <6>2. \/ Becomes(q, [query[q] EXCEPT !.pc = "vector"])
                \/ \E x : Becomes(q, [query[q] EXCEPT !.pc = "store", !.index = x])
                BY <5>5 DEF ReadRows, StoreIndex
          <6>3. ASSUME NEW x, Becomes(q, [query[q] EXCEPT !.pc = "store", !.index = x])
                PROVE  \E new : Becomes(q, new) /\ new.pc # "enqueue"
            <7>1. [query[q] EXCEPT !.pc = "store", !.index = x].pc = "store"
                  BY <4>0, PositionOf
            <7> QED BY <6>3, <7>1
          <6> QED BY <6>1, <6>2, <6>3
        <5>6. CASE SearchVectors(q)
          <6>1. PICK pc \in {"graph", "fuse"} : \E x : Becomes(q, [query[q] EXCEPT !.vector = x, !.pc = pc])
                BY <5>6 DEF SearchVectors
          <6>2. PICK x : Becomes(q, [query[q] EXCEPT !.vector = x, !.pc = pc])
                BY <6>1
          <6>3. [query[q] EXCEPT !.vector = x, !.pc = pc].pc = pc
                BY <4>0, PositionOf
          <6> QED BY <6>2, <6>3
        <5>7. CASE SearchGraph(q)
          <6>1. PICK x : Becomes(q, [query[q] EXCEPT !.pc = "fuse", !.graph = x])
                BY <5>7 DEF SearchGraph
          <6>2. [query[q] EXCEPT !.pc = "fuse", !.graph = x].pc = "fuse"
                BY <4>0, PositionOf
          <6> QED BY <6>1, <6>2
        <5>8. CASE Fuse(q)
          <6>1. PICK x : Becomes(q, [query[q] EXCEPT !.pc = "generate", !.docs = x])
                BY <5>8 DEF Fuse
          <6>2. [query[q] EXCEPT !.pc = "generate", !.docs = x].pc = "generate"
                BY <4>0, PositionOf
          <6> QED BY <6>1, <6>2
        <5> QED BY <2>3, <3>3, <5>1, <5>2, <5>3, <5>4, <5>5, <5>6, <5>7, <5>8 DEF QueryStep
      <4> QED BY <4>0, <4>1 DEF Becomes, LoggedInv, recordVars
    <3> QED BY <3>1, <3>2, <3>3
  <2> QED BY <2>1, <2>2, <2>3, QuerySteps
<1>3. LoggedInv => JudgedIsLogged
      BY DEF LoggedInv, JudgedIsLogged
<1> QED BY <1>1, <1>2, <1>3, InitQueries, StepKeepsQueries, PTL DEF Spec
=============================================================================
