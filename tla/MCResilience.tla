----------------------------- MODULE MCResilience -----------------------------
(* Instances of Resilience for TLC: goroutines t1 and t2 (model values)   *)
(* calling Execute on a chain of executors.                                *)
EXTENDS Resilience, TLC

CONSTANTS t1, t2

MCOneThread == {t1}
MCThreads == {t1, t2}

\* Chain(NewTokenBucket(..), NewRetry(..), NewCircuitBreaker(..)): the bucket
\* admits the logical call, Retry repeats it through the breaker.
MCChain == <<"bucket", "retry", "breaker">>

\* A chain of the breaker alone.
MCBreakerOnly == <<"breaker">>
================================================================================
