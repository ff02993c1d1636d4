------------------------------ MODULE MCMemoryMQ ------------------------------
(* Bindings of MemoryMQ's constants for TLC: caller goroutines, one      *)
(* topic, and the call scripts each run checks.                          *)
EXTENDS MemoryMQ

CONSTANTS p1, p2, a

MCTopics == {a}

\* p1 subscribes twice to the topic, as two handlers of one topic do,
\* while p2 closes the client.
MCSubscribeThreads == {p1, p2}
MCSubscribeTwiceClose == (p1 :> <<"Subscribe", "Subscribe">>) @@ (p2 :> <<"Close">>)
==============================================================================
