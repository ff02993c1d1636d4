---------------------------- MODULE CircuitStates ----------------------------
(***************************************************************************)
(* What a circuit breaker promises about its state, and nothing else: it  *)
(* starts closed, trips open, lets a probe through by going half-open,    *)
(* and from half-open either recovers (closed) or trips again (open).     *)
(* Resilience shows the breaker of src/resilience/circuitbreaker.go       *)
(* against this machine through the mapping state <- state.               *)
(***************************************************************************)

VARIABLE state

States == {"closed", "open", "half-open"}

Init == state = "closed"

\* The moves the breaker is designed to make.
Moves == {<<"closed", "open">>, <<"open", "half-open">>,
          <<"half-open", "closed">>, <<"half-open", "open">>}

Next == \E m \in Moves : state = m[1] /\ state' = m[2]

Spec == Init /\ [][Next]_state
================================================================================
