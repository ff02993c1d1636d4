------------------------ MODULE MCReconnectableStorage ------------------------
(* Instances of ReconnectableStorage for TLC: two goroutines t1 and t2     *)
(* (model values), and the calls each of them makes.                       *)
EXTENDS ReconnectableStorage, TLC

CONSTANTS t1, t2

MCThreads == {t1, t2}

\* Both goroutines connect the storage (ConnectAll racing a retrying Connect);
\* t1 may also read the pool statistics, as checkHealth does.
MCConnectOnly == (t1 :> {"Connect", "Stats"}) @@ (t2 :> {"Connect"})

\* Both goroutines run health checks on a connected storage.
MCPingOnly == [t \in MCThreads |-> {"Ping"}]

\* One goroutine connects while a health check pings.
MCConnectPing == (t1 :> {"Connect"}) @@ (t2 :> {"Ping"})

\* Enough clients for every dial any call can make: each call runs at most
\* MaxRetries + 1 Connect attempts.
MCMaxClients ==
    Cardinality(Threads) * MaxCalls * (MaxRetries + 1) + (IF TRUE \in InitConnected THEN 1 ELSE 0)

\* Either of the two: a storage connected by racing ConnectAll calls, or a
\* connected storage kept alive by racing health checks.
MCConnectOrHeal == {MCConnectOnly, MCPingOnly}

MCHealOnly == {MCPingOnly}
MCConnectAndPing == {MCConnectPing}

MCSymmetry == Permutations(MCThreads)
================================================================================
