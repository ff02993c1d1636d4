----------------------------- MODULE AppRuntime -----------------------------
(***************************************************************************)
(* The application life cycle of src/runtime/app.go with HTTP servers      *)
(* (src/unnamed/part_028) and server Groups (src/unnamed/part_026) of      *)
(* HTTP servers as its components.  One goroutine runs the               *)
(* calls of Script on the App: Start, Stop, Register and Health.  A       *)
(* component's Start may fail to listen, and the start hooks that are in  *)
(* FailingHooks may return an error.                                       *)
(*                                                                         *)
(* comps is a.components in slice order, started[c] its entry's started  *)
(* flag, running[s] server s's own s.running.  startOrder is a history    *)
(* variable: the servers running, in the order they were started.         *)
(***************************************************************************)
EXTENDS Integers, Sequences, SequencesExt, FiniteSets

CONSTANTS
    Comps,          \* the components (servers), model values
    Initial,        \* the components registered before the first call, in order
    Late,           \* the components Register appends, in order
    Priority,       \* Comps -> Nat, the priority of Register
    Group,          \* the Group components, each mapped to g.servers
    MayFail,        \* the servers whose listen may fail
    FailingHooks,   \* a subset of {"beforeStart", "afterStart"}
    Script          \* the calls of the goroutine, in order

ASSUME Initial \o Late \in SetToSeqs(Comps)
ASSUME DOMAIN Group \subseteq Comps

IsGroup(c) == c \in DOMAIN Group

(* The servers a component consists of: a Group's servers, or itself. *)
MembersOf(c) == IF IsGroup(c) THEN ToSet(Group[c]) ELSE {c}

Servers == UNION {MembersOf(c) : c \in Comps}

(* The component whose Start starts server s. *)
Owner(s) == CHOOSE c \in Comps : s \in MembersOf(c)

VARIABLES
    state,      \* a.state
    comps,      \* a.components, the component of each entry
    started,    \* entry.started
    running,    \* HTTPServer.running
    pc,         \* where the goroutine is inside the current call
    ip,         \* the index of the current call in Script
    j,          \* the loop index of Start and of stopStarted
    gi,         \* the loop index of Group.Start and of stopServers
    outer,      \* the App's pc to resume after a Group's Stop
    startOrder  \* history: running servers in start order

vars == <<state, comps, started, running, pc, ip, j, gi, outer, startOrder>>

States == {"created", "starting", "running", "stopping", "stopped", "failed"}
Pcs == {"idle", "before", "sort", "start", "after", "rollback", "stop",
        "gstart", "grollback", "gstop"}

TypeOK ==
    /\ state \in States
    /\ comps \in Seq(Comps) /\ IsInjective(comps)
    /\ started \in [Comps -> BOOLEAN] /\ running \in [Comps \cup Servers -> BOOLEAN]
    /\ pc \in Pcs /\ ip \in 1..Len(Script) + 1 /\ j \in 0..Cardinality(Comps) + 1
    /\ gi \in 0..Cardinality(Servers) + 1 /\ outer \in Pcs
    /\ startOrder \in Seq(Servers) /\ IsInjective(startOrder)

(* New: the state Created; the Register calls made before Start. *)
Init ==
    /\ state = "created"
    /\ comps = Initial
    /\ started = [c \in Comps |-> FALSE]
    /\ running = [c \in Comps \cup Servers |-> FALSE]
    /\ pc = "idle" /\ ip = 1 /\ j = 0 /\ gi = 0 /\ outer = "idle"
    /\ startOrder = <<>>

Op == Script[ip]

(* Every server of component c is running. *)
Up(c) == \A m \in MembersOf(c) : running[m]

(* The current call returns. *)
Return == pc' = "idle" /\ ip' = ip + 1

HookMayFail(h) == IF h \in FailingHooks THEN {TRUE, FALSE} ELSE {FALSE}

-----------------------------------------------------------------------------
(* Start *)

(* The check of a.State() and setState(StateStarting). *)
StartCheck ==
    /\ pc = "idle" /\ ip <= Len(Script) /\ Op = "Start"
    /\ IF state \notin {"created", "stopped"}
         THEN Return /\ UNCHANGED state
         ELSE state' = "starting" /\ pc' = "before" /\ UNCHANGED ip
    /\ UNCHANGED <<comps, started, running, j, startOrder>> /\ UNCHANGED <<gi, outer>>

(* The beforeStart hooks: the first error sets Failed and is returned;   *)
(* nothing is stopped, since nothing was started.                         *)
StartBeforeHooks ==
    /\ pc = "before"
    /\ \E fail \in HookMayFail("beforeStart") :
         IF fail THEN state' = "failed" /\ Return
                 ELSE pc' = "sort" /\ UNCHANGED <<state, ip>>
    /\ UNCHANGED <<comps, started, running, j, startOrder>> /\ UNCHANGED <<gi, outer>>

\* A sort whose swaps may duplicate or lose entries.
SortedOrdersLoose(s) ==
    {q \in [1..Len(s) -> ToSet(s)] :
        \A k \in 1..Len(q) - 1 : Priority[q[k]] <= Priority[q[k + 1]]}

\* No sort: the entries keep their registration order.
SortedOrdersNone(s) == {s}

(* The orders sort.Slice may leave the entries in: sort.Slice is not     *)
(* stable, so entries of equal priority may end in any order.            *)
SortedOrders(s) ==
    {q \in SetToSeqs(ToSet(s)) :
        \A k \in 1..Len(q) - 1 : Priority[q[k]] <= Priority[q[k + 1]]}

(* Under a.mu, sort the entries by priority. *)
StartSort ==
    /\ pc = "sort"
    /\ \E q \in SortedOrders(comps) : comps' = q
    /\ pc' = "start" /\ j' = 1
    /\ UNCHANGED <<state, started, running, ip, startOrder>> /\ UNCHANGED <<gi, outer>>

(* HTTPServer.Start: "already running" if s.running; otherwise listen,   *)
(* which may fail, and set s.running.  The outcomes, TRUE for success.   *)
ServerStart(c) ==
    IF running[c] THEN {FALSE}
    ELSE IF c \in MayFail THEN {TRUE, FALSE} ELSE {TRUE}

(* stopStarted, entered from Start after an error: from the last entry. *)
Rollback ==
    /\ state' = "failed" /\ pc' = "rollback" /\ j' = Len(comps)
    /\ UNCHANGED ip

(* One iteration of the component loop: c.component.Start(ctx), then    *)
(* c.started = true; an error sets Failed and rolls back.               *)
StartComponent ==
    /\ pc = "start" /\ j <= Len(comps) /\ ~IsGroup(comps[j])
    /\ LET c == comps[j] IN
       \E ok \in ServerStart(c) :
         IF ok
           THEN /\ running' = [running EXCEPT ![c] = TRUE]
                /\ started' = [started EXCEPT ![c] = TRUE]
                /\ startOrder' = Append(startOrder, c)
                /\ j' = j + 1
                /\ UNCHANGED <<state, pc, ip>>
           ELSE Rollback /\ UNCHANGED <<running, started, startOrder>>
    /\ UNCHANGED comps /\ UNCHANGED <<gi, outer>>

(* The loop is done. *)
StartLoopDone ==
    /\ pc = "start" /\ j > Len(comps)
    /\ pc' = "after"
    /\ UNCHANGED <<state, comps, started, running, ip, j, startOrder>> /\ UNCHANGED <<gi, outer>>

(* The afterStart hooks: an error sets Failed and rolls back; otherwise *)
(* setState(StateRunning) and return nil.                                *)
StartAfterHooks ==
    /\ pc = "after"
    /\ \E fail \in HookMayFail("afterStart") :
         IF fail THEN Rollback
                 ELSE state' = "running" /\ Return /\ UNCHANGED j
    /\ UNCHANGED <<comps, started, running, startOrder>> /\ UNCHANGED <<gi, outer>>

-----------------------------------------------------------------------------
(* Stop *)

(* The check of a.State(), setState(StateStopping), and the beforeStop   *)
(* hooks, whose errors are ignored; then stopStarted.                     *)
StopCheck ==
    /\ pc = "idle" /\ ip <= Len(Script) /\ Op = "Stop"
    /\ IF state \notin {"running", "failed"}
         THEN Return /\ UNCHANGED <<state, j>>
         ELSE state' = "stopping" /\ pc' = "stop" /\ j' = Len(comps) /\ UNCHANGED ip
    /\ UNCHANGED <<comps, started, running, startOrder>> /\ UNCHANGED <<gi, outer>>

(* HTTPServer.Stop under s.mu: nothing unless running; s.running = false *)
(* before Shutdown, so a Shutdown that times out (its error is returned   *)
(* and only logged by the App) still leaves the server stopped.           *)
ServerStop(c) == running' = [running EXCEPT ![c] = FALSE]

\* stopStarted walking the entries forwards.
StopComponentForward ==
    /\ pc \in {"rollback", "stop"} /\ j >= 1
    /\ ~(IsGroup(comps[Len(comps) - j + 1]) /\ started[comps[Len(comps) - j + 1]])
    /\ LET c == comps[Len(comps) - j + 1] IN
         IF started[c]
           THEN /\ ServerStop(c)
                /\ started' = [started EXCEPT ![c] = FALSE]
                /\ startOrder' = Remove(startOrder, c)
           ELSE UNCHANGED <<running, started, startOrder>>
    /\ j' = j - 1
    /\ UNCHANGED <<state, comps, pc, ip>> /\ UNCHANGED <<gi, outer>>

(* One iteration of stopStarted's reverse loop: skip an entry not        *)
(* started, else HTTPServer.Stop (s.running = false, then Shutdown, whose *)
(* error is only logged) and c.started = false.                          *)
StopComponent ==
    /\ pc \in {"rollback", "stop"} /\ j >= 1
    /\ ~(IsGroup(comps[j]) /\ started[comps[j]])
    /\ LET c == comps[j] IN
         IF started[c]
           THEN /\ ServerStop(c)
                /\ started' = [started EXCEPT ![c] = FALSE]
                /\ startOrder' = Remove(startOrder, c)
           ELSE UNCHANGED <<running, started, startOrder>>
    /\ j' = j - 1
    /\ UNCHANGED <<state, comps, pc, ip>> /\ UNCHANGED <<gi, outer>>

(* stopStarted is done: Start returns its error; Stop runs the afterStop *)
(* hooks, sets Stopped and returns nil.                                   *)
StopLoopDone ==
    /\ pc \in {"rollback", "stop"} /\ j = 0
    /\ state' = IF pc = "stop" THEN "stopped" ELSE state
    /\ Return
    /\ UNCHANGED <<comps, started, running, j, startOrder>> /\ UNCHANGED <<gi, outer>>

-----------------------------------------------------------------------------
(* Group (src/unnamed/part_026), a component of the App.  gi walks        *)
(* g.servers, comps[j] is the Group.                                      *)

(* App.Start calls Group.Start on the entry. *)
GroupStart ==
    /\ pc = "start" /\ j <= Len(comps) /\ IsGroup(comps[j])
    /\ pc' = "gstart" /\ gi' = 1
    /\ UNCHANGED <<state, comps, started, running, ip, j, outer, startOrder>>

\* The rollback covers g.servers[:i-1], i the failed server's index: one
\* server short of those started.
GroupRollbackFrom(g, k) == k - 2

(* Start rolls back over g.servers[:len(g.servers)-1], from the last     *)
(* but one server, whichever server failed.                               *)
GroupRollbackFromLen(g, k) == Len(Group[g]) - 1

(* One iteration of Group.Start's loop: s.Start(ctx); on an error,       *)
(* stopServers over the prefix, then Start returns the error.            *)
GroupStartServer ==
    /\ pc = "gstart" /\ gi <= Len(Group[comps[j]])
    /\ LET s == Group[comps[j]][gi] IN
       \E ok \in ServerStart(s) :
         IF ok
           THEN /\ running' = [running EXCEPT ![s] = TRUE]
                /\ startOrder' = Append(startOrder, s)
                /\ gi' = gi + 1
                /\ UNCHANGED pc
           ELSE /\ pc' = "grollback"
                /\ gi' = GroupRollbackFromLen(comps[j], gi)
                /\ UNCHANGED <<running, startOrder>>
    /\ UNCHANGED <<state, comps, started, ip, j, outer>>

(* Every server started: Group.Start returns nil, c.started = true. *)
GroupStartDone ==
    /\ pc = "gstart" /\ gi > Len(Group[comps[j]])
    /\ started' = [started EXCEPT ![comps[j]] = TRUE]
    /\ pc' = "start" /\ j' = j + 1 /\ gi' = 0
    /\ UNCHANGED <<state, comps, running, ip, outer, startOrder>>

(* stopStarted reaches a started Group: Group.Stop, stopServers over     *)
(* every server, from the last.                                           *)
GroupStop ==
    /\ pc \in {"rollback", "stop"} /\ j >= 1
    /\ IsGroup(comps[j]) /\ started[comps[j]]
    /\ pc' = "gstop" /\ outer' = pc /\ gi' = Len(Group[comps[j]])
    /\ UNCHANGED <<state, comps, started, running, ip, j, startOrder>>

(* One iteration of stopServers' reverse loop: servers[i].Stop(ctx), a   *)
(* no-op for a server not running; an error is kept as lastErr.          *)
GroupStopServer ==
    /\ pc \in {"grollback", "gstop"} /\ gi >= 1
    /\ LET s == Group[comps[j]][gi] IN
         /\ ServerStop(s)
         /\ startOrder' = Remove(startOrder, s)
    /\ gi' = gi - 1
    /\ UNCHANGED <<state, comps, started, pc, ip, j, outer>>

(* Group.Start's rollback is done: it returns the server's error, and   *)
(* App.Start sets Failed and runs stopStarted.                           *)
GroupRollbackDone ==
    /\ pc = "grollback" /\ gi = 0
    /\ Rollback
    /\ UNCHANGED <<comps, started, running, gi, outer, startOrder>>

(* Group.Stop returns lastErr, which stopStarted only logs; then         *)
(* c.started = false and the reverse loop goes on.                        *)
GroupStopDone ==
    /\ pc = "gstop" /\ gi = 0
    /\ started' = [started EXCEPT ![comps[j]] = FALSE]
    /\ pc' = outer /\ j' = j - 1
    /\ UNCHANGED <<state, comps, running, ip, gi, outer, startOrder>>

-----------------------------------------------------------------------------
(* Register and Health *)

(* Register: under a.mu, append an entry, not started.  The component   *)
(* is the next one of Late.                                               *)
Register ==
    /\ pc = "idle" /\ ip <= Len(Script) /\ Op = "Register"
    /\ Len(comps) < Len(Initial) + Len(Late)
    /\ comps' = Append(comps, Late[Len(comps) - Len(Initial) + 1])
    /\ Return
    /\ UNCHANGED <<state, started, running, j, startOrder>> /\ UNCHANGED <<gi, outer>>

(* Health: ErrNotRunning unless Running, then the HealthChecker entries; *)
(* the servers implement none, so it changes nothing.                    *)
Health ==
    /\ pc = "idle" /\ ip <= Len(Script) /\ Op = "Health"
    /\ Return
    /\ UNCHANGED <<state, comps, started, running, j, startOrder>> /\ UNCHANGED <<gi, outer>>

Next ==
    \/ StartCheck \/ StartBeforeHooks \/ StartSort \/ StartComponent
    \/ StartLoopDone \/ StartAfterHooks
    \/ StopCheck \/ StopComponent \/ StopLoopDone
    \/ GroupStart \/ GroupStartServer \/ GroupStartDone
    \/ GroupStop \/ GroupStopServer \/ GroupRollbackDone \/ GroupStopDone
    \/ Register \/ Health

Spec == Init /\ [][Next]_vars /\ WF_vars(Next)

-----------------------------------------------------------------------------
(* Properties *)

(* Between calls, the App's started flag of every entry agrees with the  *)
(* running flag of each of its servers, a Group's included, and an App    *)
(* that is not running (created, stopped, or failed after a start error   *)
(* or hook error, rolled back by stopServers and stopStarted) has no      *)
(* server listening.                                                      *)
ServersAgree ==
    pc = "idle" =>
        /\ \A c \in ToSet(comps), s \in Servers :
              s \in MembersOf(c) => started[c] = running[s]
        /\ state \in {"created", "stopped", "failed"} => \A s \in Servers : ~running[s]

(* Register's comment: a smaller priority starts earlier and stops later. *)
(* Every server stopped, by Stop or by a rollback of the App or of a     *)
(* Group, is the one started last among those still running.              *)
StopsInReverse ==
    [][\A s \in Servers : running[s] /\ ~running'[s] => s = Last(startOrder)]_vars

(* A server starts only after every server of each registered entry of   *)
(* smaller priority is running, across restarts and late registrations,  *)
(* and after the servers before it in its Group.                          *)
StartsInPriorityOrder ==
    [][\A s \in Servers : ~running[s] /\ running'[s] =>
         /\ \A d \in ToSet(comps) : Priority[d] < Priority[Owner(s)] => Up(d)
         /\ \A g \in DOMAIN Group : \A k \in 1..Len(Group[g]) :
               s = Group[g][k] => \A l \in 1..k - 1 : running[Group[g][l]]]_vars
==============================================================================
