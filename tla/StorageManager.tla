---------------------------- MODULE StorageManager ----------------------------
(***************************************************************************)
(* storage.manager (src/storage/manager.go): a registry of named storages *)
(* and the fleet operations over it, called by several goroutines.        *)
(* Register is atomic under m.mu.  ConnectAll and HealthCheck take a      *)
(* snapshot of the registration order under m.mu.RLock and start one      *)
(* goroutine per storage, then wg.Wait(); CloseAll copies the order and   *)
(* closes one storage at a time from the last registered to the first.    *)
(*                                                                         *)
(* The storages are abstract: each follows the life cycle of              *)
(* StorageLifecycle, with Connect split at its CAS and its outcome, and   *)
(* Close and Ping as single steps whose failure is a free choice (the     *)
(* server is an environment the manager does not control).                *)
(***************************************************************************)
EXTENDS Naturals, Sequences, SequencesExt

CONSTANTS
    Names,     \* storage names (Storage.Name())
    Callers,   \* goroutines calling the manager
    Workload,  \* [Callers -> SUBSET Ops]
    InitOrder, \* storages registered before the callers start, in order
    MaxCalls   \* bound: calls each caller makes

Ops == {"Register", "ConnectAll", "CloseAll", "HealthCheck"}

ASSUME Workload \in [Callers -> SUBSET Ops] /\ MaxCalls \in Nat
ASSUME InitOrder \in Seq(Names) /\ IsInjective(InitOrder)

VARIABLES
    storages,  \* the keys of m.storages
    order,     \* m.order
    sstate,    \* Base.state of each storage
    cf,        \* per caller frame of the manager method it is in
    w          \* w[c][i]: the goroutine started by c for snapshot position i

vars == <<storages, order, sstate, cf, w>>

Positions == 1..Cardinality(Names)

(* A HealthStatus slot that no goroutine has written. *)
NoStatus == [name |-> "none", healthy |-> FALSE]

Idle == [op |-> "idle", last |-> "idle", snap |-> <<>>, ci |-> 0, errs |-> {}, closedSeq |-> <<>>,
         results |-> [i \in Positions |-> NoStatus], calls |-> 0]

NoWorker == [pc |-> "none", res |-> "none"]

TypeOK ==
    /\ storages \subseteq Names
    /\ order \in Seq(Names) /\ Len(order) <= Cardinality(Names)
    /\ sstate \in [Names -> {"Disconnected", "Connecting", "Connected"}]
    /\ \A c \in Callers :
        /\ cf[c].op \in Ops \cup {"idle"}
        /\ cf[c].errs \subseteq Names
        /\ cf[c].calls \in 0..MaxCalls
        /\ cf[c].ci \in 0..Len(cf[c].snap)
        /\ \A i \in Positions :
            w[c][i].pc \in {"none", "connect", "dial", "append", "ping", "done"}

Init ==
    /\ storages = ToSet(InitOrder) /\ order = InitOrder
    /\ sstate = [n \in Names |-> "Disconnected"]
    /\ cf = [c \in Callers |-> Idle]
    /\ w = [c \in Callers |-> [i \in Positions |-> NoWorker]]

Busy(c) == cf[c].op # "idle"

(* A caller starts a manager method op. *)
Begin(c, op) ==
    /\ ~Busy(c) /\ cf[c].calls < MaxCalls /\ op \in Workload[c]

(* The caller's method returns; its frame is kept for the properties. *)
Finish(c) == [cf[c] EXCEPT !.op = "idle", !.last = cf[c].op, !.calls = @ + 1]

SetWorker(c, i, pc, res) == w' = [w EXCEPT ![c][i] = [pc |-> pc, res |-> res]]

-----------------------------------------------------------------------------
(* Register: under m.mu, refuse a name already present, else add it to    *)
(* m.storages and append it to m.order.                                   *)
Register(c) ==
    /\ Begin(c, "Register")
    /\ \E n \in Names :
        IF n \in storages
          THEN UNCHANGED <<storages, order>>
          ELSE storages' = storages \cup {n} /\ order' = Append(order, n)
    /\ cf' = [cf EXCEPT ![c] = [Finish(c) EXCEPT !.last = "Register"]]
    /\ UNCHANGED <<sstate, w>>

-----------------------------------------------------------------------------
(* ConnectAll: snapshot m.order under RLock, one goroutine per storage.   *)
ConnectAllStart(c) ==
    /\ Begin(c, "ConnectAll")
    /\ cf' = [cf EXCEPT ![c] = [@ EXCEPT !.op = "ConnectAll", !.snap = order,
                                         !.errs = {}]]
    /\ w' = [w EXCEPT ![c] = [i \in Positions |->
                IF i <= Len(order) THEN [pc |-> "connect", res |-> "none"]
                                   ELSE NoWorker]]
    /\ UNCHANGED <<storages, order, sstate>>

(* s.Connect(ctx): the CAS Disconnected -> Connecting, or invalid state. *)
ConnectCAS(c, i) ==
    LET n == cf[c].snap[i] IN
    /\ w[c][i].pc = "connect"
    /\ IF sstate[n] = "Disconnected"
         THEN sstate' = [sstate EXCEPT ![n] = "Connecting"] /\ SetWorker(c, i, "dial", "none")
         ELSE UNCHANGED sstate /\ SetWorker(c, i, "append", "invalid")
    /\ UNCHANGED <<storages, order, cf>>

(* The dial and ping of Connect succeed (Connected) or fail (Disconnected). *)
ConnectIO(c, i) ==
    LET n == cf[c].snap[i] IN
    /\ w[c][i].pc = "dial"
    /\ \/ sstate' = [sstate EXCEPT ![n] = "Connected"] /\ SetWorker(c, i, "done", "ok")
       \/ sstate' = [sstate EXCEPT ![n] = "Disconnected"] /\ SetWorker(c, i, "append", "failed")
    /\ UNCHANGED <<storages, order, cf>>

\* wg.Done() written without defer, after the success path only.
ConnectAppendNoDone(c, i) ==
    /\ w[c][i].pc = "append"
    /\ cf' = [cf EXCEPT ![c].errs = @ \cup {cf[c].snap[i]}]
    /\ SetWorker(c, i, "append_done", w[c][i].res)
    /\ UNCHANGED <<storages, order, sstate>>

(* mu.Lock(); errs = append(errs, ...); mu.Unlock(); the deferred wg.Done() *)
ConnectAppend(c, i) ==
    /\ w[c][i].pc = "append"
    /\ cf' = [cf EXCEPT ![c].errs = @ \cup {cf[c].snap[i]}]
    /\ SetWorker(c, i, "done", w[c][i].res)
    /\ UNCHANGED <<storages, order, sstate>>

\* wg.Add(1) inside the goroutine: Wait returns once any goroutine is done.
ConnectAllWaitEarly(c) ==
    /\ cf[c].op = "ConnectAll"
    /\ \/ Len(cf[c].snap) = 0
       \/ \E i \in 1..Len(cf[c].snap) : w[c][i].pc = "done"
    /\ cf' = [cf EXCEPT ![c] = Finish(c)]
    /\ UNCHANGED <<storages, order, sstate, w>>

(* wg.Wait(); return errors.Join(errs...) *)
ConnectAllWait(c) ==
    /\ cf[c].op = "ConnectAll"
    /\ \A i \in 1..Len(cf[c].snap) : w[c][i].pc = "done"
    /\ cf' = [cf EXCEPT ![c] = Finish(c)]
    /\ UNCHANGED <<storages, order, sstate, w>>

-----------------------------------------------------------------------------
(* CloseAll: copy m.order under RLock, then for i from len-1 down to 0:   *)
(* m.Get(order[i]) and s.Close(ctx), collecting errors without stopping.  *)
\* The loop starts at len(order)-2: the last registered storage is skipped.
CloseAllStartOffByOne(c) ==
    /\ Begin(c, "CloseAll")
    /\ cf' = [cf EXCEPT ![c] = [@ EXCEPT !.op = "CloseAll", !.snap = order,
                                         !.ci = IF Len(order) > 0 THEN Len(order) - 1 ELSE 0,
                                         !.errs = {}, !.closedSeq = <<>>]]
    /\ UNCHANGED <<storages, order, sstate, w>>

\* The loop starts at i := len(order), one past the last storage.
CloseAllStartPastEnd(c) ==
    /\ Begin(c, "CloseAll")
    /\ cf' = [cf EXCEPT ![c] = [@ EXCEPT !.op = "CloseAll", !.snap = order,
                                         !.ci = Len(order) + 1, !.errs = {},
                                         !.closedSeq = <<>>]]
    /\ UNCHANGED <<storages, order, sstate, w>>

CloseAllStart(c) ==
    /\ Begin(c, "CloseAll")
    /\ cf' = [cf EXCEPT ![c] = [@ EXCEPT !.op = "CloseAll", !.snap = order,
                                         !.ci = Len(order), !.errs = {},
                                         !.closedSeq = <<>>]]
    /\ UNCHANGED <<storages, order, sstate, w>>

(* One iteration: a connected storage is closed, and client.Close() may   *)
(* fail; Close on a storage with no client returns nil.                   *)
CloseAllStep(c) ==
    LET n == cf[c].snap[cf[c].ci] IN
    /\ cf[c].op = "CloseAll" /\ cf[c].ci > 0
    /\ n \in storages
    /\ \E fail \in IF sstate[n] = "Connected" THEN BOOLEAN ELSE {FALSE} :
        /\ sstate' = [sstate EXCEPT ![n] = IF @ = "Connected" THEN "Disconnected" ELSE @]
        /\ cf' = [cf EXCEPT ![c] = [@ EXCEPT !.ci = @ - 1,
                                             !.closedSeq = Append(@, n),
                                             !.errs = IF fail THEN @ \cup {n} ELSE @]]
    /\ UNCHANGED <<storages, order, w>>

(* return errors.Join(errs...) *)
CloseAllDone(c) ==
    /\ cf[c].op = "CloseAll" /\ cf[c].ci = 0
    /\ cf' = [cf EXCEPT ![c] = Finish(c)]
    /\ UNCHANGED <<storages, order, sstate, w>>

-----------------------------------------------------------------------------
(* HealthCheck: snapshot, one goroutine per storage writing results[idx]  *)
(* with checkHealth(ctx, s), wg.Wait().                                   *)
HealthCheckStart(c) ==
    /\ Begin(c, "HealthCheck")
    /\ cf' = [cf EXCEPT ![c] = [@ EXCEPT !.op = "HealthCheck", !.snap = order,
                                         !.results = [i \in Positions |-> NoStatus]]]
    /\ w' = [w EXCEPT ![c] = [i \in Positions |->
                IF i <= Len(order) THEN [pc |-> "ping", res |-> "none"]
                                   ELSE NoWorker]]
    /\ UNCHANGED <<storages, order, sstate>>

\* The goroutine closes over the loop variable instead of taking idx as an
\* argument, and reads its final value.
HealthPingCaptured(c, i) ==
    LET n == cf[c].snap[i] IN
    /\ w[c][i].pc = "ping"
    /\ \E ok \in IF sstate[n] = "Connected" THEN BOOLEAN ELSE {FALSE} :
        cf' = [cf EXCEPT ![c].results[Len(cf[c].snap)] = [name |-> n, healthy |-> ok]]
    /\ SetWorker(c, i, "done", "none")
    /\ UNCHANGED <<storages, order, sstate>>

(* checkHealth: s.Ping(ctx); Healthy = err == nil.  A storage that is not *)
(* Connected has no client and its Ping fails; a connected one may fail.  *)
HealthPing(c, i) ==
    LET n == cf[c].snap[i] IN
    /\ w[c][i].pc = "ping"
    /\ \E ok \in IF sstate[n] = "Connected" THEN BOOLEAN ELSE {FALSE} :
        cf' = [cf EXCEPT ![c].results[i] = [name |-> n, healthy |-> ok]]
    /\ SetWorker(c, i, "done", "none")
    /\ UNCHANGED <<storages, order, sstate>>

(* wg.Wait(); return results *)
HealthCheckWait(c) ==
    /\ cf[c].op = "HealthCheck"
    /\ \A i \in 1..Len(cf[c].snap) : w[c][i].pc = "done"
    /\ cf' = [cf EXCEPT ![c] = Finish(c)]
    /\ UNCHANGED <<storages, order, sstate, w>>

-----------------------------------------------------------------------------
Worker(c, i) ==
    \/ ConnectCAS(c, i) \/ ConnectIO(c, i) \/ ConnectAppend(c, i) \/ HealthPing(c, i)

Method(c) ==
    \/ ConnectAllWait(c) \/ CloseAllStep(c) \/ CloseAllDone(c) \/ HealthCheckWait(c)

Call(c) ==
    \/ Register(c) \/ ConnectAllStart(c) \/ CloseAllStart(c) \/ HealthCheckStart(c)

Next ==
    \E c \in Callers :
        \/ Call(c) \/ Method(c)
        \/ \E i \in Positions : Worker(c, i)

(* Goroutines started by the manager, and a manager method in progress,   *)
(* are scheduled weakly fairly; callers need not call.                    *)
Spec ==
    /\ Init /\ [][Next]_vars
    /\ \A c \in Callers :
        /\ WF_vars(Method(c))
        /\ \A i \in Positions : WF_vars(Worker(c, i))

-----------------------------------------------------------------------------
(* Properties *)

Returned(c, op) == ~Busy(c) /\ cf[c].last = op

(* Spec section 4.3, best effort: once ConnectAll has returned, Connect    *)
(* has been attempted on every storage of its snapshot, and the joined    *)
(* error names exactly those whose Connect failed.                        *)
ConnectAllReportsEveryFailure ==
    \A c \in Callers : Returned(c, "ConnectAll") =>
        \A i \in 1..Len(cf[c].snap) :
            /\ w[c][i].pc = "done"
            /\ (cf[c].snap[i] \in cf[c].errs) = (w[c][i].res # "ok")

(* Spec section 4.3: CloseAll closes every storage it saw, in the reverse *)
(* of registration order, one after another.                              *)
CloseAllReverseOrder ==
    \A c \in Callers : Returned(c, "CloseAll") => cf[c].closedSeq = Reverse(cf[c].snap)

(* Spec section 4.3: HealthCheck returns one status per storage, in the   *)
(* order of List() at the time of the call.                               *)
HealthCheckInListOrder ==
    \A c \in Callers : Returned(c, "HealthCheck") =>
        \A i \in Positions :
            cf[c].results[i].name = IF i <= Len(cf[c].snap) THEN cf[c].snap[i] ELSE "none"

(* ConnectAll, CloseAll and HealthCheck return: every goroutine they      *)
(* start signals the WaitGroup on every path.                             *)
EveryCallReturns == \A c \in Callers : Busy(c) ~> ~Busy(c)
================================================================================
