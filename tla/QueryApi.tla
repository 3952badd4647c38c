------------------------------ MODULE QueryApi ------------------------------
(***************************************************************************)
(* The API process as its users see it: logins, roles and queries          *)
(* (Sessions, AccessControl, Retrieval) on the threads of one process,     *)
(* which dies and comes back now and then.                                 *)
(***************************************************************************)
EXTENDS Sessions, Retrieval

vars == <<accessVars, sessionVars, retrievalVars>>

Init == AccessInit /\ SessionsInit /\ RetrievalInit

\* The process dies: requests are gone, and what was only in its memory.
Crash ==
    /\ \E q \in Queries : Running(q)
    /\ query' = [q \in Queries |-> IF Running(q) THEN Fails ELSE query[q]]
    /\ request' = [s \in Slots |-> Idle]
    /\ indexes' = <<>>
    /\ cache' = [key \in SUBSET Domains |-> 0]
    /\ fresh' = {}
    /\ UNCHANGED <<policy, corpusVars, configured, recordVars>> /\ Unchanged

Step ==
    \/ \E s \in Slots : /\ (AccessStep(s) /\ UNCHANGED policy) \/ SessionStep(s)
                        /\ UNCHANGED <<corpusVars, configured, cacheVars, query, recordVars>>
    \/ RetrievalStep /\ UNCHANGED policy
    \/ Crash

Next == Step /\ Watch /\ WatchSessions /\ WatchQueries

Spec == Init /\ [][Next]_vars

TypeOK == AccessTypeOK /\ SessionsTypeOK /\ RetrievalTypeOK
=============================================================================
