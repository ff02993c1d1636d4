----------------------------- MODULE MCWorkerPool -----------------------------
(* Bindings of WorkerPool's constants for TLC. *)
EXTENDS WorkerPool, TLC

CONSTANTS c1, c2

MCOneCaller == {c1}
MCTwoCallers == {c1, c2}

\* One goroutine submitting, then stopping the pool with StopWait or Stop,
\* while another submits with SubmitWait and Submit.
MCLifecycle ==
    (c1 :> { <<"Submit", "StopWait">>, <<"SubmitWait", "Stop">> })
    @@ (c2 :> { <<"SubmitWait", "Submit">> })

\* TestWorker_StopWait's shape: Submits, then StopWait.
MCSubmitStopWait == c1 :> { <<"Submit", "Submit", "StopWait">> }
==============================================================================
