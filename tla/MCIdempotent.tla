---------------------------- MODULE MCIdempotent ----------------------------
(* Instances of Idempotent for TLC: two application instances behind one  *)
(* Redis, and three retries of one request (one key, one body): the first *)
(* served by i1, the other two by i2.                                      *)
EXTENDS Idempotent, TLC

CONSTANTS i1, i2, r1, r2, r3, k1, b1

MCInstances == {i1, i2}
MCRequests == {r1, r2, r3}
MCKey == [r \in MCRequests |-> k1]
MCBody == [r \in MCRequests |-> b1]
MCInst == (r1 :> i1) @@ (r2 :> i2) @@ (r3 :> i2)
==============================================================================
