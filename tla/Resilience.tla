------------------------------ MODULE Resilience ------------------------------
(***************************************************************************)
(* The executors of src/resilience: TokenBucket (ratelimiter.go), Retry   *)
(* (retry.go) and CircuitBreaker (circuitbreaker.go), composed by Chain.  *)
(* Chain(e1, ..., en).Execute(fn) runs e1.Execute(e2.Execute(... fn)), so  *)
(* a goroutine's call is a stack of levels 1..Len(Chain) with fn at level *)
(* FnLevel; th[t].lvl is the level running and lv[t][i] the locals of     *)
(* level i.  Each atomic operation of the breaker (a load, an Add, a      *)
(* Store, the body of transition under cb.mu) is one step, so goroutines  *)
(* interleave between them; AllowN runs under tb.mu and is one step.      *)
(*                                                                         *)
(* Time is the clock now, advanced by Tick up to MaxTime.  fn is the      *)
(* protected service: each call succeeds or fails as the environment      *)
(* chooses.  RetryIf is the default (retry every error) and the breaker   *)
(* has no OnStateChange callback, the configuration NewRetry and          *)
(* NewCircuitBreaker build without options.                               *)
(***************************************************************************)
EXTENDS Naturals, Sequences, FiniteSetsExt

CONSTANTS
    Threads,           \* goroutines calling Execute
    Chain,             \* the executors given to Chain, outermost first
    MaxCalls,          \* bound: Execute calls per goroutine
    MaxAttempts,       \* RetryConfig.MaxAttempts
    Delay,             \* RetryConfig.Delay, in ticks
    MaxDelay,          \* RetryConfig.MaxDelay
    Multiplier,        \* RetryConfig.Multiplier (a whole number here)
    FailureThreshold,  \* CircuitBreakerConfig.FailureThreshold
    SuccessThreshold,  \* CircuitBreakerConfig.SuccessThreshold
    Timeout,           \* CircuitBreakerConfig.Timeout, in ticks
    Rate,              \* TokenBucket.rate, tokens per tick
    Burst,             \* TokenBucket.burst
    MaxTime            \* bound: the last tick of the clock

Executors == {"bucket", "retry", "breaker"}

ASSUME Chain \in Seq(Executors) /\ MaxAttempts >= 1
ASSUME {MaxCalls, Delay, MaxDelay, Multiplier, FailureThreshold,
        SuccessThreshold, Timeout, Rate, Burst, MaxTime} \subseteq Nat

Levels == 1..Len(Chain)
FnLevel == Len(Chain) + 1
Times == 0..MaxTime

\* Execute's results: nil, fn's error, ErrCircuitOpen, ErrRateLimited, ctx.Err().
Results == {"ok", "fail", "open", "limited", "cancelled"}

VARIABLES
    now,         \* the clock, time.Now()
    state,       \* cb.state
    failures,    \* cb.failures
    successes,   \* cb.successes
    lastFailure, \* cb.lastFailure
    tokens,      \* tb.tokens
    lastUpdate,  \* tb.lastUpdate
    th,          \* per goroutine: pc, running level, last result, calls made
    lv,          \* lv[t][i]: Retry.Execute's attempt and delay, and its wake-up time
    admitted     \* history: admitted[x] is the number of AllowN successes at time x

vars == <<now, state, failures, successes, lastFailure, tokens, lastUpdate, th, lv, admitted>>
cbVars == <<state, failures, successes, lastFailure>>
tbVars == <<tokens, lastUpdate, admitted>>

Pcs == {"idle", "call", "after", "sleep", "toHalf", "add", "reset", "toOpen", "toClosed"}

NoLocals == [attempt |-> 0, delay |-> 0, wake |-> 0]

TypeOK ==
    /\ now \in Times /\ lastFailure \in Times /\ lastUpdate \in Times
    /\ state \in {"closed", "open", "half-open"}
    /\ failures \in Nat /\ successes \in Nat /\ tokens \in 0..Burst
    /\ admitted \in [Times -> Nat]
    /\ \A t \in Threads :
        /\ th[t].pc \in Pcs /\ th[t].lvl \in 0..FnLevel
        /\ th[t].res \in Results \cup {"none"} /\ th[t].calls \in 0..MaxCalls
        /\ \A i \in Levels : lv[t][i].attempt \in 0..MaxAttempts

(* NewTokenBucket: a full bucket, last updated now. *)
InitBucket == tokens = Burst /\ lastUpdate = 0

Init ==
    /\ now = 0
    /\ state = "closed" /\ failures = 0 /\ successes = 0 /\ lastFailure = 0
    /\ InitBucket
    /\ th = [t \in Threads |-> [pc |-> "idle", lvl |-> 0, res |-> "none", calls |-> 0]]
    /\ lv = [t \in Threads |-> [i \in Levels |-> NoLocals]]
    /\ admitted = [x \in Times |-> 0]

\* Goroutine t is at pc in an executor of the given kind.
At(t, kind, pc) ==
    th[t].pc = pc /\ th[t].lvl \in Levels /\ Chain[th[t].lvl] = kind

Lvl(t) == th[t].lvl

Goto(t, pc) == th' = [th EXCEPT ![t].pc = pc]

\* Level i calls the function it wraps: the next executor, or fn.
Call(t, i) == th' = [th EXCEPT ![t].lvl = i, ![t].pc = "call"]

\* The running level returns r to the level that called it; at level 1 the
\* Execute call itself returns.
Return(t, r) ==
    LET up == th[t].lvl - 1 IN
    th' = [th EXCEPT ![t].lvl = up, ![t].pc = IF up = 0 THEN "idle" ELSE "after",
                     ![t].res = r, ![t].calls = IF up = 0 THEN @ + 1 ELSE @]

-----------------------------------------------------------------------------
(* A goroutine calls Execute on the chain (chainExecutor.Execute).        *)
Begin(t) ==
    /\ th[t].pc = "idle" /\ th[t].calls < MaxCalls
    /\ Call(t, 1)
    /\ UNCHANGED <<now, cbVars, tbVars, lv>>

(* fn, the protected call: the environment decides its outcome.          *)
Fn(t) ==
    /\ th[t].pc = "call" /\ Lvl(t) = FnLevel
    /\ \E r \in {"ok", "fail"} : Return(t, r)
    /\ UNCHANGED <<now, cbVars, tbVars, lv>>

-----------------------------------------------------------------------------
(* Mutant: refill without the min against the burst.                      *)
RefillNoCap == tokens + (now - lastUpdate) * Rate

(* TokenBucket.refill: add the tokens earned since lastUpdate, up to the  *)
(* burst.                                                                  *)
Refill == Min({tokens + (now - lastUpdate) * Rate, Burst})

(* TokenBucket.Execute: Allow() under tb.mu refills, then takes a token   *)
(* or refuses with ErrRateLimited.                                         *)
BucketExecute(t) ==
    /\ At(t, "bucket", "call")
    /\ lastUpdate' = now
    /\ IF Refill < 1
       THEN /\ tokens' = Refill /\ Return(t, "limited")
            /\ UNCHANGED admitted
       ELSE /\ tokens' = Refill - 1 /\ Call(t, Lvl(t) + 1)
            /\ admitted' = [admitted EXCEPT ![now] = @ + 1]
    /\ UNCHANGED <<now, cbVars, lv>>

(* TokenBucket.Execute returns what fn(ctx) returned.                      *)
BucketReturn(t) ==
    /\ At(t, "bucket", "after")
    /\ Return(t, th[t].res)
    /\ UNCHANGED <<now, cbVars, tbVars, lv>>

-----------------------------------------------------------------------------
(* Retry.Execute: attempt 0 with delay = cfg.Delay.                        *)
RetryExecute(t) ==
    /\ At(t, "retry", "call")
    /\ lv' = [lv EXCEPT ![t][Lvl(t)] = [attempt |-> 0, delay |-> Delay, wake |-> 0]]
    /\ Call(t, Lvl(t) + 1)
    /\ UNCHANGED <<now, cbVars, tbVars>>

\* Retry.Execute returns: its locals are gone.
Drop(t) == lv' = [lv EXCEPT ![t][Lvl(t)] = NoLocals]

(* After an attempt: nil returns; an error is kept as lastErr and, unless *)
(* this was attempt MaxAttempts-1, the goroutine waits delay.              *)
RetryAfter(t) ==
    LET r == th[t].res
        l == lv[t][Lvl(t)]
    IN
    /\ At(t, "retry", "after")
    /\ \/ r = "ok" /\ Return(t, "ok") /\ Drop(t)
       \/ /\ r # "ok" /\ l.attempt < MaxAttempts - 1
          /\ lv' = [lv EXCEPT ![t][Lvl(t)].wake = now + l.delay]
          /\ Goto(t, "sleep")
       \/ r # "ok" /\ l.attempt >= MaxAttempts - 1 /\ Return(t, r) /\ Drop(t)
    /\ UNCHANGED <<now, cbVars, tbVars>>

(* Mutant: the delay capped before it is multiplied.                      *)
NextDelayCapFirst(d) == (IF d > MaxDelay THEN MaxDelay ELSE d) * Multiplier

\* The delay after a wait: multiplied, then capped at MaxDelay.
NextDelay(d) == IF d * Multiplier > MaxDelay THEN MaxDelay ELSE d * Multiplier

(* time.After(delay) fires: grow the delay and make the next attempt.    *)
RetryWake(t) ==
    LET l == lv[t][Lvl(t)] IN
    /\ At(t, "retry", "sleep") /\ now >= l.wake
    /\ lv' = [lv EXCEPT ![t][Lvl(t)].attempt = @ + 1,
                        ![t][Lvl(t)].delay = NextDelay(@)]
    /\ Call(t, Lvl(t) + 1)
    /\ UNCHANGED <<now, cbVars, tbVars>>

(* ctx.Done() during the wait: return ctx.Err().                           *)
RetryCancel(t) ==
    /\ At(t, "retry", "sleep")
    /\ Return(t, "cancelled") /\ Drop(t)
    /\ UNCHANGED <<now, cbVars, tbVars>>
-----------------------------------------------------------------------------
(* CircuitBreaker.transition(to), the body under cb.mu: it reloads the    *)
(* state and does nothing if it already is to; otherwise it stores to,    *)
(* clears both counters, and on opening records the time.                 *)
Transition(to) ==
    IF state = to
    THEN UNCHANGED cbVars
    ELSE /\ state' = to /\ failures' = 0 /\ successes' = 0
         /\ lastFailure' = IF to = "open" THEN now ELSE lastFailure

(* CircuitBreaker.Execute calls allow(): one load of the state, and when  *)
(* it is open one load of lastFailure against the clock.  Closed and      *)
(* half-open let the call through; open rejects it unless Timeout has     *)
(* passed, in which case the goroutine goes on to transition(HalfOpen).   *)
BreakerAllow(t) ==
    /\ At(t, "breaker", "call")
    /\ \/ state # "open" /\ Call(t, Lvl(t) + 1)
       \/ state = "open" /\ now - lastFailure > Timeout /\ Goto(t, "toHalf")
       \/ state = "open" /\ now - lastFailure <= Timeout /\ Return(t, "open")
    /\ UNCHANGED <<now, cbVars, tbVars, lv>>

(* allow's transition(CircuitHalfOpen), then fn is called.                 *)
BreakerHalfOpen(t) ==
    /\ At(t, "breaker", "toHalf")
    /\ Transition("half-open")
    /\ Call(t, Lvl(t) + 1)
    /\ UNCHANGED <<now, tbVars, lv>>

(* After fn: recordFailure or recordSuccess loads the state once and      *)
(* branches on it; in the open state both do nothing.                     *)
BreakerRecord(t) ==
    LET ok == th[t].res = "ok" IN
    /\ At(t, "breaker", "after")
    /\ \/ state = "closed" /\ ~ok /\ Goto(t, "add")
       \/ state = "half-open" /\ ~ok /\ Goto(t, "toOpen")
       \/ state = "closed" /\ ok /\ Goto(t, "reset")
       \/ state = "half-open" /\ ok /\ Goto(t, "add")
       \/ state = "open" /\ Return(t, th[t].res)
    /\ UNCHANGED <<now, cbVars, tbVars, lv>>

(* failures.Add(1) (recordFailure, closed) or successes.Add(1)            *)
(* (recordSuccess, half-open); the value the Add returns decides whether  *)
(* to transition.                                                          *)
BreakerAdd(t) ==
    /\ At(t, "breaker", "add")
    /\ IF th[t].res = "ok"
       THEN /\ successes' = successes + 1 /\ UNCHANGED failures
            /\ IF successes + 1 >= SuccessThreshold
               THEN Goto(t, "toClosed") ELSE Return(t, "ok")
       ELSE /\ failures' = failures + 1 /\ UNCHANGED successes
            /\ IF failures + 1 >= FailureThreshold
               THEN Goto(t, "toOpen") ELSE Return(t, th[t].res)
    /\ UNCHANGED <<now, state, lastFailure, tbVars, lv>>

(* recordSuccess in the closed state: failures.Store(0).                   *)
BreakerReset(t) ==
    /\ At(t, "breaker", "reset")
    /\ failures' = 0
    /\ Return(t, "ok")
    /\ UNCHANGED <<now, state, successes, lastFailure, tbVars, lv>>

(* transition(CircuitOpen); Execute returns fn's error.                    *)
BreakerOpen(t) ==
    /\ At(t, "breaker", "toOpen")
    /\ Transition("open")
    /\ Return(t, th[t].res)
    /\ UNCHANGED <<now, tbVars, lv>>

(* transition(CircuitClosed); Execute returns nil.                         *)
BreakerClose(t) ==
    /\ At(t, "breaker", "toClosed")
    /\ Transition("closed")
    /\ Return(t, "ok")
    /\ UNCHANGED <<now, tbVars, lv>>

-----------------------------------------------------------------------------
(* Time passes.                                                            *)
Tick ==
    /\ now < MaxTime
    /\ now' = now + 1
    /\ UNCHANGED <<cbVars, tbVars, th, lv>>

(* The steps of goroutine t inside a call; Begin is the caller's choice  *)
(* and RetryCancel the context's, so neither is fair.                     *)
Step(t) ==
    \/ Fn(t) \/ BucketExecute(t) \/ BucketReturn(t)
    \/ RetryExecute(t) \/ RetryAfter(t) \/ RetryWake(t)
    \/ BreakerAllow(t) \/ BreakerHalfOpen(t) \/ BreakerRecord(t)
    \/ BreakerAdd(t) \/ BreakerReset(t) \/ BreakerOpen(t) \/ BreakerClose(t)

Next ==
    \/ Tick
    \/ \E t \in Threads : Begin(t) \/ RetryCancel(t) \/ Step(t)

Spec == Init /\ [][Next]_vars /\ \A t \in Threads : WF_vars(Step(t))

-----------------------------------------------------------------------------
(* Properties.                                                             *)

\* AllowN successes in the time window a..b.
WindowAdmitted(a, b) == MapThenSumSet(LAMBDA x : admitted[x], a..b)

\* The token bucket's promise, from the refill and the take in AllowN: in
\* any window of time no more calls get through than the burst plus what the
\* rate earns over the window, whatever the idle time before it.
TokenBucketWindow ==
    \A a, b \in 0..now :
        a <= b => WindowAdmitted(a, b) <= Burst + Rate * (b - a)

\* The reference schedule of Retry.Execute's waits: the first is Delay, the
\* k-th after it Delay * Multiplier^k capped at MaxDelay.
BackoffRef(k) == IF k = 0 THEN Delay ELSE Min({Delay * Multiplier^k, MaxDelay})

\* Retry.Execute's loop: the k-th wait of a call (k counted from 0) lasts
\* BackoffRef(k), and a call waits at most MaxAttempts - 1 times, so fn is
\* tried at most MaxAttempts times.
RetrySchedule ==
    [][\A t \in Threads :
        (th'[t].pc = "sleep" /\ th[t].pc # "sleep") =>
            LET k == lv[t][Lvl(t)].attempt IN
            /\ k < MaxAttempts - 1
            /\ lv'[t][Lvl(t)].wake - now = BackoffRef(k)]_vars

CS == INSTANCE CircuitStates WITH state <- state

\* The breaker only moves along the edges of CircuitStates: tripping from
\* closed, probing from open, recovering or re-tripping from half-open.
\* transition(to) checks only that the state is not already to, so a
\* goroutine acting on a state it loaded earlier must not be able to make
\* any other move.
BreakerRefined == CS!Spec
================================================================================
