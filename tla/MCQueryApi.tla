----------------------------- MODULE MCQueryApi -----------------------------
(* Instance of QueryApi for TLC.                                           *)
EXTENDS QueryApi, TLC

CONSTANTS ada, bob, cyd, hr, it, s1, s2, h1, h2, i1, q1, q2

Grant(id, u, d, role) == [id |-> id, user |-> u, domain |-> d, role |-> role]

Calling(ops, requests, callers, targets) ==
    [ops |-> ops, requests |-> requests, callers |-> callers, targets |-> targets]

\* Two requests at a time: roles in two domains, which may be archived; the
\* role of an administrator whom another can revoke; platform administrators,
\* two of them at first, and the domains they create and archive; a new
\* installation and its first logins.
Administration ==
    {[offered |-> Calling(ops, 2, {ada, bob}, IF "revoke" \in ops THEN {bob} ELSE {ada, bob}),
      pool |-> (ada :> "internal") @@ (bob :> "external") @@ (cyd :> "none"),
      platform |-> {}, domains |-> (hr :> "active") @@ (it :> "active"),
      rows |-> {Grant(1, ada, hr, "domain_admin"), Grant(2, bob, it, "reader")}]
        : ops \in {{"assign", "revoke"}, {"assign", "archive"}}}
    \cup
    {[offered |-> Calling(ops, 2, {ada, bob}, {ada, bob, cyd}),
      pool |-> (ada :> "internal") @@ (bob :> "internal") @@ (cyd :> "external"),
      platform |-> {ada, bob}, domains |-> (hr :> "active") @@ (it :> "none"),
      rows |-> {Grant(1, bob, hr, "domain_admin"), Grant(2, ada, hr, "contributor")}]
        : ops \in {{"create", "setAdmin"}, {"archive", "setAdmin"}}}
    \cup
    {[offered |-> Calling({"register", "login", "sso", "getPolicy", "putPolicy"}, 2, {ada, bob}, {}),
      pool |-> (ada :> "internal") @@ (bob :> "external") @@ (cyd :> "none"),
      platform |-> {ada}, domains |-> (hr :> "none") @@ (it :> "none"), rows |-> {}]}

\* Two queries of bob, who reads both domains: he loses one of them, or it
\* is archived, or its document is indexed anew.
Asking ==
    {[offered |-> Calling(ops \cup {"query"}, 1, {ada}, {bob}),
      pool |-> (ada :> "internal") @@ (bob :> "internal") @@ (cyd :> "none"),
      platform |-> {}, domains |-> (hr :> "active") @@ (it :> "active"),
      rows |-> {Grant(1, ada, hr, "domain_admin"), Grant(2, bob, hr, "reader"),
                Grant(3, bob, it, "reader")}] : ops \in {{"revoke"}, {"archive"}, {"index"}}}

SomeBeginnings == Administration \cup Asking

\* He asks for both, or for one only.
SomeQuestions == {
    [by |-> bob, wants |-> <<it, hr>>, entities |-> TRUE],
    [by |-> bob, wants |-> <<it>>, entities |-> FALSE]}

\* Two generations of the document of one domain, one of the other's.
SomeHomes == (h1 :> hr) @@ (h2 :> hr) @@ (i1 :> it)

\* Nothing tells the slots apart, nor the queries.
Symmetric == Permutations({s1, s2}) \cup Permutations({q1, q2})
=============================================================================
