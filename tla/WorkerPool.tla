------------------------------ MODULE WorkerPool ------------------------------
(***************************************************************************)
(* The goroutine pool pool.Worker (pool/worker.go): a buffered taskQueue,  *)
(* worker goroutines started on demand up to maxWorkers (minWorkers of     *)
(* them at NewWorker), a 30 s idle timer after which a worker above       *)
(* minWorkers returns, and Submit / SubmitWait / Stop / StopWait.         *)
(*                                                                         *)
(* Caller goroutines run a script of calls chosen from Workload[t].  A    *)
(* call is split where another goroutine can interleave: an atomic load   *)
(* or swap, a channel operation, a cancel.  A task is a number; running   *)
(* it is one step (runTask recovers a panicking task, so a task never     *)
(* ends its worker).  The idle timer firing is an environment step, at    *)
(* most MaxTimeouts times, since time is not modelled.  A send on the    *)
(* closed taskQueue is a Go panic: the caller's pc becomes "panic".       *)
(*                                                                         *)
(* maybeSpawnWorker's check (a len and a Load) and spawnWorker's         *)
(* workers.Add(1) are separate steps, and so is the Add(-1) that reverts  *)
(* an Add above maxWorkers: two Submits can both pass the check.         *)
(***************************************************************************)
EXTENDS Naturals, Sequences, FiniteSets

CONSTANTS
    Threads,      \* caller goroutines
    Workload,     \* Workload[t]: the call sequences goroutine t may run
    MaxWorkers,   \* maxWorkers
    MinWorkers,   \* minWorkers (WithMinWorkers)
    QueueSize,    \* capacity of taskQueue
    MaxSpawn,     \* bound on the number of worker goroutines started
    MaxTasks,     \* bound on the number of tasks made
    MaxTimeouts   \* bound on idle-timer expiries

Ops == {"Submit", "SubmitWait", "Stop", "StopWait"}

ASSUME \A t \in Threads : Workload[t] \subseteq Seq(Ops)
ASSUME MinWorkers <= MaxWorkers /\ MinWorkers <= MaxSpawn

Wids  == 1..MaxSpawn
Tasks == 1..MaxTasks

VARIABLES
    closed,       \* Worker.closed
    cancelled,    \* Worker.ctx is done
    qclosed,      \* close(taskQueue) has run
    queue,        \* the tasks buffered in taskQueue
    workers,      \* Worker.workers (atomic counter)
    wgc,          \* the counter of Worker.wg
    wk,           \* wk[k]: worker goroutine k
    wtask,        \* wtask[k]: the task worker k is running
    nspawn,       \* worker goroutines started
    ntasks,       \* tasks made
    submitted,    \* tasks a Submit or SubmitWait put into taskQueue
    done,         \* tasks that have run
    timeouts,     \* idle-timer expiries so far
    th            \* per caller goroutine: script, position and call state

vars == <<closed, cancelled, qclosed, queue, workers, wgc, wk, wtask, nspawn,
          ntasks, submitted, done, timeouts, th>>

WStates == {"none", "loop", "run", "tcheck", "exit", "gone"}

TypeOK ==
    /\ closed \in BOOLEAN /\ cancelled \in BOOLEAN /\ qclosed \in BOOLEAN
    /\ queue \in Seq(Tasks) /\ Len(queue) <= QueueSize
    /\ workers \in 0..MaxWorkers + Cardinality(Threads)
    /\ wgc \in 0..MaxSpawn
    /\ wk \in [Wids -> WStates]
    /\ wtask \in [Wids -> Tasks \cup {0}]
    /\ nspawn \in 0..MaxSpawn /\ ntasks \in 0..MaxTasks
    /\ submitted \subseteq Tasks /\ done \subseteq Tasks
    /\ timeouts \in 0..MaxTimeouts

(* NewWorker followed by warmup: minWorkers workers already started. *)
Init ==
    /\ closed = FALSE /\ cancelled = FALSE /\ qclosed = FALSE
    /\ queue = <<>>
    /\ workers = MinWorkers
    /\ wgc = MinWorkers
    /\ wk = [k \in Wids |-> IF k <= MinWorkers THEN "loop" ELSE "none"]
    /\ wtask = [k \in Wids |-> 0]
    /\ nspawn = MinWorkers
    /\ ntasks = 0 /\ submitted = {} /\ done = {}
    /\ timeouts = 0
    /\ \E s \in [Threads -> UNION {Workload[u] : u \in Threads}] :
         /\ \A t \in Threads : s[t] \in Workload[t]
         /\ th = [t \in Threads |-> [pc |-> "idle", script |-> s[t], n |-> 0, task |-> 0,
                                          res |-> "ok"]]

Pool  == <<closed, cancelled, qclosed, queue, workers, wgc, wk, wtask, nspawn,
           ntasks, submitted, done, timeouts>>
Spawn == <<workers, wgc, wk, nspawn>>

Op(t) == th[t].script[th[t].n]

Goto(t, pc) == th' = [th EXCEPT ![t].pc = pc]

Return(t) == th' = [th EXCEPT ![t].pc = "idle", ![t].task = 0, ![t].res = "ok"]

Fail(t) == th' = [th EXCEPT ![t].pc = "idle", ![t].task = 0, ![t].res = "err"]

(* Goroutine t makes the next call of its script. *)
Call(t) ==
    /\ th[t].pc = "idle"
    /\ th[t].n < Len(th[t].script)
    /\ th' = [th EXCEPT ![t].pc = "call", ![t].n = @ + 1]
    /\ UNCHANGED Pool

(* Submit and SubmitWait begin alike: if w.closed.Load() return           *)
(* ErrPoolClosed; otherwise the task is made.                              *)
SubmitCheck(t) ==
    /\ th[t].pc = "call" /\ Op(t) \in {"Submit", "SubmitWait"}
    /\ IF closed
         THEN Fail(t) /\ UNCHANGED ntasks
         ELSE /\ ntasks < MaxTasks
              /\ ntasks' = ntasks + 1
              /\ th' = [th EXCEPT ![t].pc = IF Op(t) = "Submit" THEN "send" ELSE "wsend",
                                  ![t].task = ntasks + 1]
    /\ UNCHANGED <<closed, cancelled, qclosed, queue, Spawn, wtask, submitted, done, timeouts>>

(* A send that completes puts the task into taskQueue and counts it     *)
(* submitted; maybeSpawnWorker follows.                                  *)
Enqueue(t) ==
    /\ queue' = Append(queue, th[t].task)
    /\ submitted' = submitted \cup {th[t].task}
    /\ Goto(t, "spawn")

(* Mutant: a send that ignores the queue's capacity. *)
SubmitSendNoFull(t) ==
    /\ th[t].pc = "send"
    /\ IF qclosed THEN Goto(t, "panic") /\ UNCHANGED <<queue, submitted>> ELSE Enqueue(t)
    /\ UNCHANGED <<closed, cancelled, qclosed, Spawn, wtask, ntasks, done, timeouts>>

(* Submit: select { case taskQueue <- task: ...; default: ErrPoolFull }. *)
(* A send on the closed channel panics whatever the select's other cases. *)
SubmitSend(t) ==
    /\ th[t].pc = "send"
    /\ CASE qclosed                  -> Goto(t, "panic") /\ UNCHANGED <<queue, submitted>>
         [] Len(queue) < QueueSize   -> Enqueue(t)
         [] OTHER                    -> Fail(t) /\ UNCHANGED <<queue, submitted>>
    /\ UNCHANGED <<closed, cancelled, qclosed, Spawn, wtask, ntasks, done, timeouts>>

(* SubmitWait's select: the send proceeds once there is room, or at    *)
(* once on the closed channel, where it panics; or the pool's context   *)
(* is done and it returns ErrPoolClosed.  Go picks any ready case.       *)
SubmitWaitSend(t) ==
    /\ th[t].pc = "wsend"
    /\ qclosed \/ Len(queue) < QueueSize
    /\ IF qclosed THEN Goto(t, "panic") /\ UNCHANGED <<queue, submitted>>
                  ELSE Enqueue(t)
    /\ UNCHANGED <<closed, cancelled, qclosed, Spawn, wtask, ntasks, done, timeouts>>

SubmitWaitPoolDone(t) ==
    /\ th[t].pc = "wsend" /\ cancelled
    /\ Fail(t)
    /\ UNCHANGED Pool

(* The caller's context of SubmitWait (SubmitTimeout's timer) expires. *)
SubmitWaitTimeout(t) ==
    /\ th[t].pc = "wsend"
    /\ Fail(t)
    /\ UNCHANGED Pool

(* maybeSpawnWorker: only when tasks are waiting and fewer than          *)
(* maxWorkers are counted does it call spawnWorker.                       *)
MaybeSpawn(t) ==
    /\ th[t].pc = "spawn"
    /\ IF Len(queue) > 0 /\ workers < MaxWorkers
         THEN Goto(t, "add")
         ELSE Return(t)
    /\ UNCHANGED Pool

(* Mutant: spawnWorker trusting maybeSpawnWorker's check, without its own *)
(* test of the value Add returns.                                          *)
SpawnWorkerNoCheck(t) ==
    /\ th[t].pc = "add"
    /\ nspawn < MaxSpawn
    /\ workers' = workers + 1
    /\ wgc' = wgc + 1
    /\ wk' = [wk EXCEPT ![nspawn + 1] = "loop"]
    /\ nspawn' = nspawn + 1
    /\ Return(t)
    /\ UNCHANGED <<closed, cancelled, qclosed, queue, wtask, ntasks, submitted, done, timeouts>>

(* spawnWorker: workers.Add(1); above maxWorkers it is reverted, else     *)
(* wg.Add(1) and go worker().                                              *)
SpawnWorker(t) ==
    /\ th[t].pc = "add"
    /\ workers' = workers + 1
    /\ IF workers + 1 > MaxWorkers
         THEN Goto(t, "undo") /\ UNCHANGED <<wgc, wk, nspawn>>
         ELSE /\ nspawn < MaxSpawn
              /\ wgc' = wgc + 1
              /\ wk' = [wk EXCEPT ![nspawn + 1] = "loop"]
              /\ nspawn' = nspawn + 1
              /\ Return(t)
    /\ UNCHANGED <<closed, cancelled, qclosed, queue, wtask, ntasks, submitted, done, timeouts>>

(* spawnWorker's workers.Add(-1) after an Add above maxWorkers. *)
SpawnUndo(t) ==
    /\ th[t].pc = "undo"
    /\ workers' = workers - 1
    /\ Return(t)
    /\ UNCHANGED <<closed, cancelled, qclosed, queue, wgc, wk, wtask, nspawn, ntasks,
                   submitted, done, timeouts>>

(* Stop: if closed.Swap(true) was already true return; cancel the pool's *)
(* context; close(taskQueue).  It does not wait for the workers.         *)
StopSwap(t) ==
    /\ th[t].pc = "call" /\ Op(t) = "Stop"
    /\ closed' = TRUE
    /\ IF closed THEN Return(t) ELSE Goto(t, "k_cancel")
    /\ UNCHANGED <<cancelled, qclosed, queue, Spawn, wtask, ntasks, submitted, done, timeouts>>

StopCancel(t) ==
    /\ th[t].pc = "k_cancel"
    /\ cancelled' = TRUE
    /\ Goto(t, "k_close")
    /\ UNCHANGED <<closed, qclosed, queue, Spawn, wtask, ntasks, submitted, done, timeouts>>

StopClose(t) ==
    /\ th[t].pc = "k_close"
    /\ qclosed' = TRUE
    /\ Return(t)
    /\ UNCHANGED <<closed, cancelled, queue, Spawn, wtask, ntasks, submitted, done, timeouts>>

(* StopWait: if closed.Swap(true) was already true return nil;           *)
(* close(taskQueue); then wait for wg (the workers drain the queue and   *)
(* return) or for the caller's context, and cancel the pool's context.   *)
StopWaitSwap(t) ==
    /\ th[t].pc = "call" /\ Op(t) = "StopWait"
    /\ closed' = TRUE
    /\ IF closed THEN Return(t) ELSE Goto(t, "w_close")
    /\ UNCHANGED <<cancelled, qclosed, queue, Spawn, wtask, ntasks, submitted, done, timeouts>>

(* Mutant: StopWait cancelling the pool's context together with closing *)
(* the queue, as Stop does, before it waits.                             *)
StopWaitCloseCancel(t) ==
    /\ th[t].pc = "w_close"
    /\ qclosed' = TRUE
    /\ cancelled' = TRUE
    /\ Goto(t, "w_wait")
    /\ UNCHANGED <<closed, queue, Spawn, wtask, ntasks, submitted, done, timeouts>>

StopWaitClose(t) ==
    /\ th[t].pc = "w_close"
    /\ qclosed' = TRUE
    /\ Goto(t, "w_wait")
    /\ UNCHANGED <<closed, cancelled, queue, Spawn, wtask, ntasks, submitted, done, timeouts>>

StopWaitReturn(t) ==
    /\ th[t].pc = "w_wait"
    /\ wgc = 0
    /\ cancelled' = TRUE
    /\ Return(t)
    /\ UNCHANGED <<closed, qclosed, queue, Spawn, wtask, ntasks, submitted, done, timeouts>>

(* The caller's context of StopWait expires first: cancel, ctx.Err(). *)
StopWaitTimeout(t) ==
    /\ th[t].pc = "w_wait"
    /\ cancelled' = TRUE
    /\ Fail(t)
    /\ UNCHANGED <<closed, qclosed, queue, Spawn, wtask, ntasks, submitted, done, timeouts>>

Step(t) ==
    \/ SubmitCheck(t) \/ SubmitSend(t) \/ SubmitWaitSend(t) \/ SubmitWaitPoolDone(t)
    \/ MaybeSpawn(t) \/ SpawnWorker(t) \/ SpawnUndo(t)
    \/ StopSwap(t) \/ StopCancel(t) \/ StopClose(t)
    \/ StopWaitSwap(t) \/ StopWaitClose(t) \/ StopWaitReturn(t)

WorkerVars == <<wk, wtask, workers, wgc>>

SetWk(k, s) == wk' = [wk EXCEPT ![k] = s]

(* The worker loop's select.  Go picks any ready case. *)
WorkerCancelled(k) ==
    /\ wk[k] = "loop" /\ cancelled
    /\ SetWk(k, "exit")
    /\ UNCHANGED <<closed, cancelled, qclosed, queue, workers, wgc, wtask, nspawn,
                   ntasks, submitted, done, timeouts, th>>

WorkerRecv(k) ==
    /\ wk[k] = "loop" /\ queue # <<>>
    /\ SetWk(k, "run")
    /\ wtask' = [wtask EXCEPT ![k] = Head(queue)]
    /\ queue' = Tail(queue)
    /\ UNCHANGED <<closed, cancelled, qclosed, workers, wgc, nspawn, ntasks, submitted,
                   done, timeouts, th>>

(* task, ok := <-taskQueue with the channel closed and drained: !ok. *)
WorkerDrained(k) ==
    /\ wk[k] = "loop" /\ qclosed /\ queue = <<>>
    /\ SetWk(k, "exit")
    /\ UNCHANGED <<closed, cancelled, qclosed, queue, workers, wgc, wtask, nspawn,
                   ntasks, submitted, done, timeouts, th>>

(* Mutant: a worker without its for loop, returning after one task. *)
WorkerRunOnce(k) ==
    /\ wk[k] = "run"
    /\ done' = done \cup {wtask[k]}
    /\ SetWk(k, "exit")
    /\ wtask' = [wtask EXCEPT ![k] = 0]
    /\ UNCHANGED <<closed, cancelled, qclosed, queue, workers, wgc, nspawn, ntasks,
                   submitted, timeouts, th>>

(* runTask, then the idle timer is reset. *)
WorkerRun(k) ==
    /\ wk[k] = "run"
    /\ done' = done \cup {wtask[k]}
    /\ SetWk(k, "loop")
    /\ wtask' = [wtask EXCEPT ![k] = 0]
    /\ UNCHANGED <<closed, cancelled, qclosed, queue, workers, wgc, nspawn, ntasks,
                   submitted, timeouts, th>>

(* The 30 s idle timer fires in the select: the worker has waited with  *)
(* nothing to receive (a queued task would have been received first).    *)
WorkerTimer(k) ==
    /\ wk[k] = "loop" /\ queue = <<>> /\ ~qclosed /\ ~cancelled
    /\ timeouts < MaxTimeouts
    /\ timeouts' = timeouts + 1
    /\ SetWk(k, "tcheck")
    /\ UNCHANGED <<closed, cancelled, qclosed, queue, workers, wgc, wtask, nspawn,
                   ntasks, submitted, done, th>>

(* Above minWorkers the idle worker returns, otherwise it re-arms. *)
WorkerTimerCheck(k) ==
    /\ wk[k] = "tcheck"
    /\ SetWk(k, IF workers > MinWorkers THEN "exit" ELSE "loop")
    /\ UNCHANGED <<closed, cancelled, qclosed, queue, workers, wgc, wtask, nspawn,
                   ntasks, submitted, done, timeouts, th>>

(* The deferred workers.Add(-1) and wg.Done(). *)
WorkerExit(k) ==
    /\ wk[k] = "exit"
    /\ SetWk(k, "gone")
    /\ workers' = workers - 1
    /\ wgc' = wgc - 1
    /\ UNCHANGED <<closed, cancelled, qclosed, queue, wtask, nspawn, ntasks, submitted,
                   done, timeouts, th>>

Worker(k) ==
    \/ WorkerCancelled(k) \/ WorkerRecv(k) \/ WorkerDrained(k) \/ WorkerRun(k)
    \/ WorkerTimerCheck(k) \/ WorkerExit(k)

Next ==
    \/ \E t \in Threads :
         Call(t) \/ Step(t) \/ SubmitWaitTimeout(t) \/ StopWaitTimeout(t)
    \/ \E k \in Wids : Worker(k) \/ WorkerTimer(k)

(* Running goroutines are scheduled: callers' steps and workers' steps  *)
(* are weakly fair.  Starting a call, a caller's context expiring and    *)
(* the idle timer are not.                                               *)
Spec ==
    /\ Init /\ [][Next]_vars
    /\ \A t \in Threads : WF_vars(Step(t))
    /\ \A k \in Wids : WF_vars(Worker(k))

-----------------------------------------------------------------------------
(* Properties *)

(* Submit and SubmitWait check w.closed before they send; Stop and       *)
(* StopWait set it before they close taskQueue.  No caller ever sends on *)
(* the closed taskQueue, which would panic.                              *)
NoSendOnClosedChannel == \A t \in Threads : th[t].pc # "panic"

\* The worker goroutines started and not yet returned.
LiveWorkers == {k \in Wids : wk[k] \in {"loop", "run", "tcheck", "exit"}}

(* maxWorkers bounds the worker goroutines alive at once, although the    *)
(* check of maybeSpawnWorker and the Add of spawnWorker are two steps    *)
(* that concurrent Submits interleave, and exiting workers decrement the *)
(* counter only in their deferred function.                              *)
MaxWorkersBound == Cardinality(LiveWorkers) <= MaxWorkers

(* StopWait "stops and waits for all tasks to complete" (its doc         *)
(* comment; TestWorker_StopWait expects every submitted task to have run): *)
(* when it returns nil after wg.Wait, every task a Submit put into the   *)
(* queue has run.                                                        *)
StopWaitCompletes ==
    [][\A t \in Threads : StopWaitReturn(t) => submitted \subseteq done]_vars

(* A task accepted into taskQueue is eventually run by some worker,      *)
(* unless the pool's context is cancelled (Stop, or StopWait's end).     *)
SubmittedTasksRun ==
    \A x \in Tasks : x \in submitted ~> (x \in done \/ cancelled)
==============================================================================
