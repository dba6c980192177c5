----------------------------- MODULE MCDataman -----------------------------
(* Small instances of Dataman. *)
EXTENDS Dataman

CONSTANTS c1, c2

MCClients == {c1, c2}
MCOneClient == {c1}

\* Key 0 has two instances, key 1 one, as DM_KEY_MISSION_STATE
MCMaxIndex == [k \in 0 .. 1 |-> IF k = 0 THEN 2 ELSE 1]

Write(k, i, p, v) == [func |-> "write", item |-> k, index |-> i, pers |-> p, val |-> v]
Read(k, i) == [func |-> "read", item |-> k, index |-> i]
Clear(k) == [func |-> "clear", item |-> k]
Restart(r) == [func |-> "restart", reason |-> r]

\* The last item of key 1, and an index of key 0 that would fall on it
MCMixedRequests == {Write(0, 2, POWER_ON, 1), Write(1, 0, POWER_ON, 1), Read(1, 0)}
MCPersistRequests == {Write(0, 0, POWER_ON, 1), Write(0, 1, IN_FLIGHT, 1),
                      Write(1, 0, VOLATILE, 1), Clear(0), Restart(IN_FLIGHT)}
MCOneWrite == {Write(0, 0, POWER_ON, 1)}
=============================================================================
