------------------------- MODULE ReconnectableStorage -------------------------
(***************************************************************************)
(* One storage adapter (the redis adapter of src/storage/types.go, whose  *)
(* Connect/Ping/Close have the same shape as the mongodb and clickhouse    *)
(* adapters) wrapped by storage.Reconnectable (src/unnamed/part_018), and  *)
(* called concurrently by several goroutines: ConnectAll and HealthCheck   *)
(* workers, the application, the shutdown path.                            *)
(*                                                                         *)
(* Every call is split at the points where another goroutine can run in   *)
(* between: each atomic load/store/CAS of Base.state, each read or write   *)
(* of the adapter's client pointer, each network round trip.  A thread's  *)
(* record holds the decorator's frame (op, pc, attempt) and the frame of   *)
(* the adapter method it is currently inside (in, cl, res).                *)
(***************************************************************************)
EXTENDS Naturals, FiniteSets

CONSTANTS
    Threads,      \* goroutines calling the decorated storage
    NoThread,     \* the holder of an unlocked Reconnectable.mu
    Workloads,    \* a set of [Threads -> SUBSET Ops]: the calls each goroutine makes
    MaxRetries,   \* ReconnectConfig.MaxRetries
    MaxCalls,     \* bound: calls each goroutine makes
    MaxClients,   \* bound: redis clients created by Connect
    MaxOutages,   \* bound: times the backend becomes unreachable
    Cancellable,  \* whether callers cancel their context mid-call
    InitConnected \* a subset of BOOLEAN: TRUE starts from a storage whose
                  \* Connect has completed, FALSE from a new one

ASSUME MaxRetries \in Nat /\ MaxCalls \in Nat /\ MaxClients \in Nat
(* The calls a goroutine makes: the three methods of the decorated        *)
(* storage, and Stats, which checkHealth calls on a storage registered     *)
(* without the decorator (Reconnectable is no StatsProvider).              *)
Ops == {"Connect", "Ping", "Close", "Stats"}

ASSUME Workloads \subseteq [Threads -> SUBSET Ops] /\ InitConnected \subseteq BOOLEAN

VARIABLES
    state,     \* Base.state (an atomic.Int32)
    client,    \* Storage.client: 0 is nil, k > 0 the k-th redis client
    closed,    \* clients on which client.Close() has been called
    nclients,  \* redis clients created so far
    up,        \* the redis server is reachable
    outages,   \* outages so far
    mu,        \* holder of Reconnectable.mu
    th,        \* per goroutine frames
    workload   \* the element of Workloads this behaviour runs; never changes

vars == <<state, client, closed, nclients, up, outages, mu, th, workload>>

States == {"Disconnected", "Connecting", "Connected", "Disconnecting"}

(* Errors, named after the message the code builds for them. *)
Errors == {"invalid",    \* "redis: invalid state for connect"
           "notconn",    \* "redis: not connected"
           "refused",    \* dial tcp ...: connection refused
           "closed",     \* "redis: client is closed"
           "canceled",   \* context.Canceled
           "exhausted",  \* "connect failed after %d attempts: %w"
           "reconnfail"} \* "ping failed, reconnect failed: %w"

(* isConnectionError: the lower-cased message contains one of "connection  *)
(* refused", "connection reset", "broken pipe", "no such host", "timeout", *)
(* "eof", "closed".  Of the messages above, the dial error and the closed  *)
(* client error match; "exhausted" and "reconnfail" wrap the last error    *)
(* and match when it does, which no caller of this model classifies.       *)
isConnectionError(e) == e \in {"refused", "closed"}

(* The frame of a goroutine that is not inside a call. *)
Idle == [op |-> "idle", pc |-> "idle", in |-> "none", cl |-> 0, res |-> "ok",
         attempt |-> 0, ctx |-> FALSE, calls |-> 0]

TypeOK ==
    /\ state \in States
    /\ client \in 0..MaxClients
    /\ closed \subseteq 1..MaxClients
    /\ nclients \in 0..MaxClients
    /\ up \in BOOLEAN /\ outages \in 0..MaxOutages
    /\ mu \in Threads \cup {NoThread}
    /\ \A t \in Threads :
        /\ th[t].op \in Ops \cup {"idle"}
        /\ th[t].in \in {"none", "c1", "c2", "c3", "c4", "p1", "p2",
                         "k1", "k2", "k3", "k4", "k5", "s1", "s2", "panic"}
        /\ th[t].cl \in 0..MaxClients
        /\ th[t].res \in Errors \cup {"ok"}
        /\ th[t].attempt \in 0..MaxRetries
        /\ th[t].calls \in 0..MaxCalls
        /\ th[t].ctx \in BOOLEAN

Init ==
    /\ \E connected \in InitConnected :
         /\ state = IF connected THEN "Connected" ELSE "Disconnected"
         /\ client = IF connected THEN 1 ELSE 0
    /\ nclients = client
    /\ closed = {}
    /\ up = TRUE /\ outages = 0
    /\ mu = NoThread
    /\ th = [t \in Threads |-> Idle]
    /\ workload \in Workloads

(* The next frame of goroutine t, and the adapter label it is at. *)
Frame(t, f) == th' = [th EXCEPT ![t] = f]
At(t, l) == th[t].in = l

-----------------------------------------------------------------------------
(* The adapter, src/storage/types.go Storage.Connect/Ping/Close.           *)

(* Faulty variants of the steps below, each a plausible bug in the code  *)
(* it stands for; the properties are expected to tell them apart.         *)

\* The CAS replaced by a load-then-SetState: every Connect proceeds.
RedisConnectCASNoCheck(t) ==
    /\ At(t, "c1")
    /\ state' = "Connecting" /\ Frame(t, [th[t] EXCEPT !.in = "c2"])
    /\ UNCHANGED <<workload, client, closed, nclients, up, outages, mu>>

\* The CAS compared against the wrong state: only Connecting is refused.
RedisConnectCASWrongOld(t) ==
    /\ At(t, "c1")
    /\ IF state # "Connecting"
         THEN state' = "Connecting" /\ Frame(t, [th[t] EXCEPT !.in = "c2"])
         ELSE UNCHANGED state
              /\ Frame(t, [th[t] EXCEPT !.in = "none", !.res = "invalid"])
    /\ UNCHANGED <<workload, client, closed, nclients, up, outages, mu>>

\* The ping failure path returns without SetState(Disconnected).
RedisConnectDialNoRevert(t) ==
    /\ At(t, "c2")
    /\ IF up /\ ~th[t].ctx
         THEN /\ nclients < MaxClients
              /\ nclients' = nclients + 1
              /\ Frame(t, [th[t] EXCEPT !.in = "c3", !.cl = nclients + 1])
         ELSE /\ UNCHANGED nclients
              /\ Frame(t, [th[t] EXCEPT !.in = "none",
                           !.res = IF th[t].ctx THEN "canceled" ELSE "refused"])
    /\ UNCHANGED <<workload, state, client, closed, up, outages, mu>>

(* if !s.CompareAndSwapState(Disconnected, Connecting) return invalid     *)
RedisConnectCAS(t) ==
    /\ At(t, "c1")
    /\ IF state = "Disconnected"
         THEN state' = "Connecting" /\ Frame(t, [th[t] EXCEPT !.in = "c2"])
         ELSE UNCHANGED state
              /\ Frame(t, [th[t] EXCEPT !.in = "none", !.res = "invalid"])
    /\ UNCHANGED <<workload, client, closed, nclients, up, outages, mu>>

(* redis.NewClient, tracing setup, client.Ping(ctx): on failure           *)
(* SetState(Disconnected) and return the error.                           *)
RedisConnectDial(t) ==
    /\ At(t, "c2")
    /\ IF up /\ ~th[t].ctx
         THEN /\ nclients < MaxClients
              /\ nclients' = nclients + 1
              /\ Frame(t, [th[t] EXCEPT !.in = "c3", !.cl = nclients + 1])
              /\ UNCHANGED state
         ELSE /\ state' = "Disconnected" /\ UNCHANGED nclients
              /\ Frame(t, [th[t] EXCEPT !.in = "none",
                           !.res = IF th[t].ctx THEN "canceled" ELSE "refused"])
    /\ UNCHANGED <<workload, client, closed, up, outages, mu>>

(* s.client = client *)
RedisConnectStore(t) ==
    /\ At(t, "c3")
    /\ client' = th[t].cl
    /\ Frame(t, [th[t] EXCEPT !.in = "c4"])
    /\ UNCHANGED <<workload, state, closed, nclients, up, outages, mu>>

(* s.SetState(Connected); return nil *)
RedisConnectDone(t) ==
    /\ At(t, "c4")
    /\ state' = "Connected"
    /\ Frame(t, [th[t] EXCEPT !.in = "none", !.res = "ok"])
    /\ UNCHANGED <<workload, client, closed, nclients, up, outages, mu>>

(* if s.client == nil return "not connected" *)
RedisPingLoad(t) ==
    /\ At(t, "p1")
    /\ Frame(t, [th[t] EXCEPT !.in = IF client = 0 THEN "none" ELSE "p2",
                              !.res = IF client = 0 THEN "notconn" ELSE "ok"])
    /\ UNCHANGED <<workload, state, client, closed, nclients, up, outages, mu>>

(* The error of a Ping of client c. *)
PingResult(t, c) ==
    CASE c \in closed -> "closed"
      [] th[t].ctx    -> "canceled"
      [] ~up          -> "refused"
      [] OTHER        -> "ok"

(* return s.client.Ping(ctx).Err(): s.client is loaded again, so a nil   *)
(* panics and a client stored since the check is the one pinged.         *)
RedisPingIO(t) ==
    /\ At(t, "p2")
    /\ Frame(t, IF client = 0 THEN [th[t] EXCEPT !.in = "panic"]
                ELSE [th[t] EXCEPT !.in = "none", !.cl = client,
                                   !.res = PingResult(t, client)])
    /\ UNCHANGED <<workload, state, client, closed, nclients, up, outages, mu>>

(* if s.client == nil return nil *)
RedisCloseLoad(t) ==
    /\ At(t, "k1")
    /\ Frame(t, [th[t] EXCEPT !.in = IF client = 0 THEN "none" ELSE "k2",
                              !.res = "ok"])
    /\ UNCHANGED <<workload, state, client, closed, nclients, up, outages, mu>>

(* s.SetState(Disconnecting) *)
RedisCloseMark(t) ==
    /\ At(t, "k2")
    /\ state' = "Disconnecting"
    /\ Frame(t, [th[t] EXCEPT !.in = "k3"])
    /\ UNCHANGED <<workload, client, closed, nclients, up, outages, mu>>

(* err := s.client.Close(): s.client is loaded again; nil panics. *)
RedisCloseIO(t) ==
    /\ At(t, "k3")
    /\ IF client = 0
         THEN Frame(t, [th[t] EXCEPT !.in = "panic"]) /\ UNCHANGED closed
         ELSE closed' = closed \cup {client} /\ Frame(t, [th[t] EXCEPT !.in = "k4"])
    /\ UNCHANGED <<workload, state, client, nclients, up, outages, mu>>

(* s.SetState(Disconnected) *)
RedisCloseState(t) ==
    /\ At(t, "k4")
    /\ state' = "Disconnected"
    /\ Frame(t, [th[t] EXCEPT !.in = "k5"])
    /\ UNCHANGED <<workload, client, closed, nclients, up, outages, mu>>

\* Close forgets to drop its client.
RedisCloseClearKeep(t) ==
    /\ At(t, "k5")
    /\ Frame(t, [th[t] EXCEPT !.in = "none"])
    /\ UNCHANGED <<workload, state, client, closed, nclients, up, outages, mu>>

(* s.client = nil; return err *)
RedisCloseClear(t) ==
    /\ At(t, "k5")
    /\ client' = 0
    /\ Frame(t, [th[t] EXCEPT !.in = "none"])
    /\ UNCHANGED <<workload, state, closed, nclients, up, outages, mu>>

(* Stats: if s.client == nil return Stats{} *)
RedisStatsLoad(t) ==
    /\ At(t, "s1")
    /\ Frame(t, [th[t] EXCEPT !.in = IF client = 0 THEN "none" ELSE "s2", !.res = "ok"])
    /\ UNCHANGED <<workload, state, client, closed, nclients, up, outages, mu>>

(* stats := s.client.PoolStats(): s.client is loaded again; nil panics. *)
RedisStatsRead(t) ==
    /\ At(t, "s2")
    /\ Frame(t, [th[t] EXCEPT !.in = IF client = 0 THEN "panic" ELSE "none"])
    /\ UNCHANGED <<workload, state, client, closed, nclients, up, outages, mu>>

Adapter(t) ==
    \/ RedisStatsLoad(t) \/ RedisStatsRead(t)
    \/ RedisConnectCAS(t) \/ RedisConnectDial(t) \/ RedisConnectStore(t)
    \/ RedisConnectDone(t) \/ RedisPingLoad(t) \/ RedisPingIO(t)
    \/ RedisCloseLoad(t) \/ RedisCloseMark(t) \/ RedisCloseIO(t)
    \/ RedisCloseState(t) \/ RedisCloseClear(t)

-----------------------------------------------------------------------------
(* The decorator, storage.Reconnectable (src/unnamed/part_018).  Its steps *)
(* run while the goroutine is not inside an adapter method.                *)

Between(t, l) == th[t].pc = l /\ th[t].in = "none"

(* A call returns r: the deferred r.mu.Unlock() of Ping runs here. *)
Return(t, r) ==
    /\ Frame(t, [Idle EXCEPT !.calls = th[t].calls + 1])
    /\ mu' = IF mu = t THEN NoThread ELSE mu

AdapterVars == <<workload, state, client, closed, nclients, up, outages>>

(* Where each call continues after its first adapter call, and that call. *)
EntryPc == [Connect |-> "r_ret", Ping |-> "p_check", Close |-> "ret", Stats |-> "ret"]
EntryIn == [Connect |-> "c1", Ping |-> "p1", Close |-> "k1", Stats |-> "s1"]

(* A goroutine calls r.Connect, r.Ping, r.Close or s.Stats; each starts     *)
(* with the adapter call of the same name (attempt 0 of connectWithRetry    *)
(* does not wait).                                                         *)
Call(t) ==
    /\ th[t].op = "idle" /\ th[t].calls < MaxCalls
    /\ \E op \in workload[t] :
        Frame(t, [th[t] EXCEPT !.op = op, !.pc = EntryPc[op], !.in = EntryIn[op]])
    /\ UNCHANGED <<workload, AdapterVars, mu>>

(* connectWithRetry has finished with result r: Connect returns it, Ping   *)
(* pings again on success and wraps the error otherwise.                   *)
RetryReturn(t, r) ==
    IF th[t].op = "Connect" THEN Return(t, r)
    ELSE IF r = "ok" THEN Frame(t, [th[t] EXCEPT !.pc = "p_ping2", !.in = "p1"])
                          /\ UNCHANGED mu
    ELSE Return(t, "reconnfail")

(* select { case <-ctx.Done(): return ctx.Err(); case <-time.After(...) }  *)
(* then the next r.storage.Connect(ctx).                                   *)
RetryWait(t) ==
    /\ Between(t, "r_wait")
    /\ IF th[t].ctx
         THEN RetryReturn(t, "canceled")
         ELSE Frame(t, [th[t] EXCEPT !.pc = "r_ret", !.in = "c1"]) /\ UNCHANGED mu
    /\ UNCHANGED AdapterVars

\* The loop bound off by one: MaxRetries + 1 retries.
RetryResultOffByOne(t) ==
    /\ Between(t, "r_ret")
    /\ CASE th[t].res = "ok" -> RetryReturn(t, "ok")
          [] th[t].attempt <= MaxRetries ->
                Frame(t, [th[t] EXCEPT !.pc = "r_wait", !.attempt = @ + 1])
                /\ UNCHANGED mu
          [] OTHER -> RetryReturn(t, "exhausted")
    /\ UNCHANGED AdapterVars

\* The loop never advances attempt: it retries for as long as Connect fails.
RetryResultNoIncrement(t) ==
    /\ Between(t, "r_ret")
    /\ CASE th[t].res = "ok" -> RetryReturn(t, "ok")
          [] th[t].attempt < MaxRetries ->
                Frame(t, [th[t] EXCEPT !.pc = "r_wait"]) /\ UNCHANGED mu
          [] OTHER -> RetryReturn(t, "exhausted")
    /\ UNCHANGED AdapterVars

(* The result of r.storage.Connect: return nil, or retry while attempt <   *)
(* MaxRetries, or return the exhausted error.                              *)
RetryResult(t) ==
    /\ Between(t, "r_ret")
    /\ CASE th[t].res = "ok" -> RetryReturn(t, "ok")
          [] th[t].attempt < MaxRetries ->
                Frame(t, [th[t] EXCEPT !.pc = "r_wait", !.attempt = @ + 1])
                /\ UNCHANGED mu
          [] OTHER -> RetryReturn(t, "exhausted")
    /\ UNCHANGED AdapterVars

(* err := r.storage.Ping(ctx); if err != nil && isConnectionError(err)     *)
(* go on to reconnect, else return err.                                    *)
PingCheck(t) ==
    /\ Between(t, "p_check")
    /\ IF isConnectionError(th[t].res)
         THEN Frame(t, [th[t] EXCEPT !.pc = "p_lock"]) /\ UNCHANGED mu
         ELSE Return(t, th[t].res)
    /\ UNCHANGED AdapterVars

(* r.mu.Lock(); _ = r.storage.Close(ctx) *)
PingLock(t) ==
    /\ Between(t, "p_lock")
    /\ mu = NoThread
    /\ mu' = t
    /\ Frame(t, [th[t] EXCEPT !.pc = "p_closed", !.in = "k1"])
    /\ UNCHANGED AdapterVars

(* r.connectWithRetry(ctx), its attempt 0, after Close's error is dropped *)
PingReconnect(t) ==
    /\ Between(t, "p_closed")
    /\ Frame(t, [th[t] EXCEPT !.pc = "r_ret", !.in = "c1", !.attempt = 0])
    /\ UNCHANGED <<workload, AdapterVars, mu>>

(* return r.storage.Ping(ctx) *)
PingRetry(t) ==
    /\ Between(t, "p_ping2")
    /\ Return(t, th[t].res)
    /\ UNCHANGED AdapterVars

(* Reconnectable.Close: return r.storage.Close(ctx); also the return of    *)
(* a Stats call.                                                           *)
CloseReturn(t) ==
    /\ Between(t, "ret")
    /\ Return(t, th[t].res)
    /\ UNCHANGED AdapterVars

Decorator(t) ==
    \/ RetryWait(t) \/ RetryResult(t) \/ PingCheck(t) \/ PingLock(t)
    \/ PingReconnect(t) \/ PingRetry(t) \/ CloseReturn(t)

-----------------------------------------------------------------------------
(* The environment: the redis server goes away and comes back, a caller's  *)
(* context is cancelled.                                                   *)

Outage ==
    /\ up /\ outages < MaxOutages
    /\ up' = FALSE /\ outages' = outages + 1
    /\ UNCHANGED <<workload, state, client, closed, nclients, mu, th>>

Recover ==
    /\ ~up /\ up' = TRUE
    /\ UNCHANGED <<workload, state, client, closed, nclients, outages, mu, th>>

Cancel(t) ==
    /\ Cancellable /\ th[t].op # "idle" /\ ~th[t].ctx
    /\ Frame(t, [th[t] EXCEPT !.ctx = TRUE])
    /\ UNCHANGED <<workload, AdapterVars, mu>>

(* A nil dereference panics; nothing recovers it, so the process ends. *)
Crashed == \E t \in Threads : th[t].in = "panic"

Next ==
    /\ ~Crashed
    /\ \/ \E t \in Threads : Call(t) \/ Decorator(t) \/ Adapter(t) \/ Cancel(t)
       \/ Outage \/ Recover

(* Goroutines are scheduled weakly fairly; sync.Mutex hands the lock to a  *)
(* waiter that keeps asking (its starvation mode), hence strong fairness.  *)
(* Callers, the server and cancellation are not assumed to do anything.    *)
Fairness ==
    \A t \in Threads :
        /\ WF_vars(Adapter(t))
        /\ WF_vars(RetryWait(t) \/ RetryResult(t) \/ PingCheck(t) \/ PingReconnect(t)
                   \/ PingRetry(t) \/ CloseReturn(t))
        /\ SF_vars(PingLock(t))

Spec == Init /\ [][Next]_vars /\ Fairness

-----------------------------------------------------------------------------
(* Properties *)

InConnect(t) == th[t].in \in {"c2", "c3", "c4"}

(* Spec section 3: the CAS Disconnected -> Connecting lets at most one     *)
(* Connect past it, so two Connects never do their I/O and publish their   *)
(* client at the same time.                                                *)
ConnectExclusive ==
    \A t1, t2 \in Threads : InConnect(t1) /\ InConnect(t2) => t1 = t2

(* Spec section 4.1: a failed Connect reverts to Disconnected and a Close  *)
(* finishes in Disconnected, so Connecting and Disconnecting are only seen *)
(* while some goroutine is inside the Connect or Close that set them.      *)
NoStuckTransition ==
    /\ state = "Connecting" => \E t \in Threads : InConnect(t)
    /\ state = "Disconnecting" =>
            \E t \in Threads : th[t].in \in {"k3", "k4", "panic"}

(* Whenever every goroutine is between calls, the storage is Connected    *)
(* exactly when it holds a client, and that client has not been closed:   *)
(* State() and the client handle agree (spec section 4.1), so the next    *)
(* Ping either succeeds or reports an error Reconnectable heals from.      *)
QuiescentConsistent ==
    (\A t \in Threads : th[t].op = "idle") =>
        /\ state \in {"Connected", "Disconnected"}
        /\ (state = "Connected") = (client # 0)
        /\ client \notin closed

(* Spec section 4.2: r.mu keeps two failing Pings from reconnecting twice: *)
(* the Close a Ping runs under r.mu closes the client that Ping found       *)
(* broken, never the fresh one another Ping has just reconnected.          *)
NoDuplicateReconnect ==
    \A t \in Threads :
        th[t].pc = "p_closed" /\ th[t].in = "k3" => client = th[t].cl

(* No call on the decorated storage hangs, even when the server never     *)
(* comes back: retries are bounded and Ping releases r.mu on every path,  *)
(* so every call returns unless a panic has ended the process.            *)
CallsReturn == \A t \in Threads : th[t].op # "idle" ~> (th[t].op = "idle" \/ Crashed)

(* State() only moves along the documented life cycle. *)
LC == INSTANCE StorageLifecycle
        WITH Starts <- {IF c THEN "Connected" ELSE "Disconnected" : c \in InitConnected}
LifecycleRefined == LC!Spec
================================================================================
