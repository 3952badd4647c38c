------------------------------ MODULE Sessions ------------------------------
(***************************************************************************)
(* Accounts, logins and the session policy (auth/service.py and            *)
(* auth/controller.py), beside the requests of AccessControl.              *)
(*                                                                         *)
(* Registration and logins are coroutines that never await once they have  *)
(* reached the database, so the one event loop runs them one after the     *)
(* other; the two policy endpoints run on worker threads beside them.      *)
(***************************************************************************)
EXTENDS AccessControl

CONSTANTS
    Ttls,          \* token lifetimes, in minutes
    DefaultTtl,    \* ACCESS_TOKEN_EXPIRE_MINUTES
    AdminEmails    \* users whose address is in platform_admin_emails

ASSUME TtlsOK == DefaultTtl \in Ttls /\ AdminEmails \subseteq Users

VARIABLES
    policy,   \* rows of table session_policy
    overtaken, \* observation only: requests whose policy another update has changed
    inForce   \* observation only: lifetimes in force at some moment of a login

sessionVars == <<policy, overtaken, inForce>>

Pools == {"internal", "external"}

OnLoop == {"register", "login", "sso"}

LoopIsFree == \A s \in Slots : request[s].op \notin OnLoop

\* The policy a row stands for, and what no row stands for.
Terms(row)   == [internal |-> row.internal, external |-> row.external]
DefaultTerms == [internal |-> DefaultTtl, external |-> DefaultTtl]

NewPolicy == [id |-> Cardinality(policy) + 1, internal |-> DefaultTtl, external |-> DefaultTtl]

LifetimeOfOther(terms, kind) == IF kind = "external" THEN terms.internal ELSE terms.external

\* ttl_minutes_for_pool
LifetimeOf(terms, kind) == IF kind = "internal" THEN terms.internal ELSE terms.external
(***************************************************************************)
(* Requests.                                                               *)
(***************************************************************************)
PolicyCall(op, by, value) ==
    [op |-> op, by |-> by, domain |-> Null, target |-> Null, value |-> value,
     pc |-> "platform", loaded |-> Null]

BeginPolicy(s) ==
    /\ MayBegin(s)
    /\ \E by \in Known :
          \/ /\ "getPolicy" \in offered.ops
             /\ request' = [request EXCEPT ![s] = PolicyCall("getPolicy", by, Null)]
          \/ /\ "putPolicy" \in offered.ops
             /\ \E terms \in [internal : Ttls, external : Ttls] :
                   request' = [request EXCEPT ![s] = PolicyCall("putPolicy", by, terms)]
    /\ Unchanged /\ UNCHANGED policy

\* `by` is the address, `value` the pool whose identity provider vouches for it.
BeginOnLoop(s) ==
    /\ MayBegin(s) /\ LoopIsFree
    /\ \E op \in offered.ops \cap OnLoop, u \in Users, kind \in Pools :
          request' = [request EXCEPT ![s] = [PolicyCall(op, u, kind) EXCEPT !.pc = "find"]]
    /\ Unchanged /\ UNCHANGED policy

\* register_user: the query and the insert, as no other coroutine gets between.
Register(s) ==
    /\ At(s, "register", "find")
    /\ LET u == request[s].by IN
         IF u \in Known THEN UNCHANGED <<pool, platform>>
         ELSE /\ pool' = [pool EXCEPT ![u] = "internal"]
              /\ platform' = IF u \in AdminEmails THEN platform \cup {u} ELSE platform
    /\ End(s)
    /\ UNCHANGED <<domains, rows, offered, policy>>

PoolAgrees(u, kind) == pool[u] = kind

\* authenticate_user
Authenticate(s) ==
    /\ At(s, "login", "find")
    /\ IF request[s].by \in Known
         THEN request' = [request EXCEPT ![s].pc = "check", ![s].value = pool[request[s].by]]
         ELSE End(s)
    /\ Unchanged /\ UNCHANGED policy

\* find_or_create_sso_user
FindOrCreate(s) ==
    /\ At(s, "sso", "find")
    /\ LET u == request[s].by  kind == request[s].value IN
         \/ /\ u \notin Known
            /\ pool' = [pool EXCEPT ![u] = kind]
            /\ platform' = IF u \in AdminEmails THEN platform \cup {u} ELSE platform
            /\ Goto(s, "check")
         \/ u \in Known /\ ~PoolAgrees(u, kind) /\ End(s) /\ UNCHANGED <<pool, platform>>
         \/ u \in Known /\ PoolAgrees(u, kind) /\ Goto(s, "check") /\ UNCHANGED <<pool, platform>>
    /\ UNCHANGED <<domains, rows, offered, policy>>

(***************************************************************************)
(* get_or_create_session_policy.                                           *)
(***************************************************************************)
OfPolicy == {"getPolicy", "putPolicy", "login", "sso"}

AtPolicy(s, pc) == request[s].op \in OfPolicy /\ request[s].pc = pc

Holding(s, row) ==
    request' = [request EXCEPT ![s].loaded = row, ![s].pc = "held"]

ReadPolicy(s) ==
    /\ AtPolicy(s, "check")
    /\ \/ \E row \in policy : Holding(s, row)
       \/ policy = {} /\ Goto(s, "insert")
    /\ Unchanged /\ UNCHANGED policy

\* The unique column `singleton` lets one insert in; the other is rolled back
\* and reads what the winner committed.
InsertIsRefused == policy # {}
InsertPolicy(s) ==
    /\ AtPolicy(s, "insert")
    /\ policy' = IF InsertIsRefused THEN policy ELSE policy \cup {NewPolicy}
    /\ Goto(s, "reread")
    /\ Unchanged

KeepBootstrapped(s) ==
    /\ AtPolicy(s, "reread")
    /\ Holding(s, [id |-> 0, internal |-> DefaultTtl, external |-> DefaultTtl])
    /\ Unchanged /\ UNCHANGED policy

\* refresh of the own row after the commit, or the query after the rollback
RereadPolicy(s) ==
    /\ AtPolicy(s, "reread")
    /\ \E row \in policy : Holding(s, row)
    /\ Unchanged /\ UNCHANGED policy

AnswerPolicy(s) ==
    /\ At(s, "getPolicy", "held")
    /\ End(s)
    /\ Unchanged /\ UNCHANGED policy

\* Each column is written when it differs from the loaded one.
Stored(row, loaded, terms) ==
    [row EXCEPT !.internal = IF terms.internal # loaded.internal THEN terms.internal ELSE @,
                !.external = IF terms.external # loaded.external THEN terms.external ELSE @]

UpdatePolicy(s) ==
    /\ At(s, "putPolicy", "held")
    /\ LET r == request[s] IN
         policy' = {IF row.id = r.loaded.id THEN Stored(row, r.loaded, r.value) ELSE row : row \in policy}
    /\ End(s)
    /\ Unchanged

\* create_access_token; `target` is now the lifetime the token carries
IssueToken(s) ==
    /\ At(s, "login", "held") \/ At(s, "sso", "held")
    /\ request' = [request EXCEPT ![s].pc = "issued",
                                  ![s].target = LifetimeOf(request[s].loaded, pool[request[s].by])]
    /\ Unchanged /\ UNCHANGED policy

Respond(s) ==
    /\ Active(s) /\ request[s].pc = "issued"
    /\ End(s)
    /\ Unchanged /\ UNCHANGED policy

SessionStep(s) ==
    \/ BeginPolicy(s) \/ BeginOnLoop(s) \/ Register(s) \/ Authenticate(s) \/ FindOrCreate(s)
    \/ ReadPolicy(s) \/ InsertPolicy(s) \/ RereadPolicy(s) \/ AnswerPolicy(s)
    \/ UpdatePolicy(s) \/ IssueToken(s) \/ Respond(s)

(***************************************************************************)
(* Observation.                                                            *)
(***************************************************************************)
TermsNow == IF policy = {} THEN {DefaultTerms} ELSE {Terms(row) : row \in policy}

WatchSessions ==
    /\ inForce' = [s \in Slots |->
         IF request'[s].op \notin {"login", "sso"} THEN {}
         ELSE (IF Active(s) THEN inForce[s] ELSE {})
                \cup {terms[kind] : terms \in TermsNow', kind \in {pool'[request'[s].by]} \cap Pools}]
    /\ overtaken' = {s \in Slots : /\ request'[s] = request[s] /\ AtPolicy(s, "held")
                                   /\ s \in overtaken \/ policy' # policy}

SessionsInit ==
    /\ policy = {}
    /\ overtaken = {}
    /\ inForce = [s \in Slots |-> {}]

(***************************************************************************)
(* Properties.                                                             *)
(***************************************************************************)
SessionsTypeOK ==
    /\ \A row \in policy : row.internal \in Ttls /\ row.external \in Ttls
    /\ overtaken \subseteq Slots
    /\ inForce \in [Slots -> SUBSET Ttls]

\* Whatever requests meet when the policy is read for the first time, there
\* is one row in the end, so that no update goes to a row nobody reads
\* (auth/service.py get_or_create_session_policy).
PolicyIsSingle == Cardinality(policy) <= 1

\* A token lives as long as the policy said for the pool of its owner at some
\* moment of the login, also while an administrator edits the policy and
\* while the first row is being fought for (auth/service.py ttl_minutes_for_pool).
TokenLifetimeWasInForce ==
    \A s \in Slots : Active(s) /\ request[s].pc = "issued" => request[s].target \in inForce[s]

\* An update of the policy that no other update overtakes is what is stored,
\* also when it was the request that lost the race for the first row
\* (auth/service.py update_session_policy).
PolicyUpdateHolds ==
    [][\A s \in Slots :
         UpdatePolicy(s) /\ s \notin overtaken =>
            {Terms(row) : row \in policy'} = {request[s].value}]_<<accessVars, sessionVars>>
=============================================================================
