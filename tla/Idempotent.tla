----------------------------- MODULE Idempotent -----------------------------
(***************************************************************************)
(* The idempotency middleware (src/middleware/http/idempotent.go) and the  *)
(* handler it calls (src/idempotent/idempotent.go), storing its records in *)
(* the two-level cache of src/cache/types.go: an in-process ristretto     *)
(* cache (src/cache/memory.go) per application instance in front of one   *)
(* Redis shared by every instance, as NewMultiLevelCache builds it.        *)
(*                                                                         *)
(* Every request is a goroutine of the instance that serves it.  Each     *)
(* cache call is one atomic step on one level, so a MultiLevel Get or Set *)
(* is two or three steps another request can run between.                  *)
(***************************************************************************)
EXTENDS Naturals, FiniteSets

CONSTANTS
    Instances,          \* application instances, each with its own L1
    Requests,           \* requests carrying an X-Idempotency-Key (model values)
    Key,                \* Requests -> Keys: the X-Idempotency-Key header
    Body,               \* Requests -> Bodies: method, path and body, as hashed
    Inst,               \* Requests -> Instances: the instance serving it
    MwCheckFingerprint, \* IdempotentConfig.CheckFingerprint
    CheckFingerprint,   \* idempotent.Config.CheckFingerprint
    FnMayFail,          \* whether the downstream handler may record an error
    RedisMayFail,       \* whether a Redis command may return an error
    L1MayDrop,          \* whether ristretto may drop a Set of a new key
    NoRecord,           \* a key absent from a cache level (model value)
    NoFP                \* the empty fingerprint (model value)

Keys == {Key[r] : r \in Requests}
FPs == {Body[r] : r \in Requests} \cup {NoFP}

(* A Record, as JSON-serialised into either level; the response is the    *)
(* one the request "by" produced.                                          *)
Records == [st : {"pending", "completed"}, fp : FPs, by : Requests]

Results == {"none", "executed", "cached", "conflict", "error"}

VARIABLES
    l1,     \* l1[i][k]: instance i's ristretto cache
    l2,     \* l2[k]: Redis
    pc,     \* pc[r]: where request r is
    rec,    \* rec[r]: the Record r's Get decoded
    res,    \* res[r]: what the middleware answered r
    ran,    \* requests whose fn (the downstream handler) completed without error
    seen    \* seen[r]: the requests answered "executed" when r arrived

vars == <<l1, l2, pc, rec, res, ran, seen>>

Pcs == {"idle", "g1", "g2", "g3", "sp2", "sp1", "fn", "d1", "d2", "sc2", "sc1", "done"}

TypeOK ==
    /\ l1 \in [Instances -> [Keys -> Records \cup {NoRecord}]]
    /\ l2 \in [Keys -> Records \cup {NoRecord}]
    /\ pc \in [Requests -> Pcs]
    /\ rec \in [Requests -> Records \cup {NoRecord}]
    /\ res \in [Requests -> Results]
    /\ ran \subseteq Requests
    /\ seen \in [Requests -> SUBSET Requests]

Init ==
    /\ l1 = [i \in Instances |-> [k \in Keys |-> NoRecord]]
    /\ l2 = [k \in Keys |-> NoRecord]
    /\ pc = [r \in Requests |-> "idle"]
    /\ rec = [r \in Requests |-> NoRecord]
    /\ res = [r \in Requests |-> "none"]
    /\ ran = {} /\ seen = [r \in Requests |-> {}]

(* The fingerprint the middleware passes: Fingerprint(method, path, body) *)
(* when its CheckFingerprint is set, "" otherwise.                         *)
Fingerprint(r) == IF MwCheckFingerprint THEN Body[r] ELSE NoFP

-----------------------------------------------------------------------------
(* The cache levels.                                                      *)

(* Memory.Set: SetWithTTL updates a key ristretto already holds at once;  *)
(* a new key goes through its set buffer and admission policy, which may  *)
(* drop it, and the dropped result is ignored.  The outcomes.             *)
MemorySet(i, k, v) ==
    IF l1[i][k] = NoRecord /\ L1MayDrop
      THEN {l1, [l1 EXCEPT ![i][k] = v]}
      ELSE {[l1 EXCEPT ![i][k] = v]}

(* Whether a Redis command fails (connection refused, timeout).           *)
RedisFails == IF RedisMayFail THEN {TRUE, FALSE} ELSE {FALSE}

(* Request r moves to label l; returning sets its answer. *)
Goto(r, l) == pc' = [pc EXCEPT ![r] = l]
Answer(r, a) == pc' = [pc EXCEPT ![r] = "done"] /\ res' = [res EXCEPT ![r] = a]

-----------------------------------------------------------------------------
(* The middleware and Handler.Execute.                                    *)

(* A request arrives: POST, PUT or PATCH with a non-empty key, so the     *)
(* middleware fingerprints it and calls Execute, whose first step is the  *)
(* MultiLevel Get.  seen records the history the properties need.         *)
Arrive(r) ==
    /\ pc[r] = "idle"
    /\ Goto(r, "g1")
    /\ seen' = [seen EXCEPT ![r] = {s \in Requests : res[s] = "executed"}]
    /\ UNCHANGED <<l1, l2, rec, res, ran>>

(* Execute's checks on a record Get found: a fingerprint mismatch and a   *)
(* pending record are ErrDuplicateRequest (409), a completed record is    *)
(* the cached response.                                                    *)
Decide(r, v) ==
    IF CheckFingerprint /\ Fingerprint(r) # NoFP /\ v.fp # Fingerprint(r)
      THEN "conflict"
      ELSE IF v.st = "completed" THEN "cached" ELSE "conflict"

(* MultiLevel.Get, L1: Memory.Get of the instance's own cache. *)
GetL1(r) ==
    /\ pc[r] = "g1"
    /\ LET v == l1[Inst[r]][Key[r]] IN
         IF v # NoRecord
           THEN Answer(r, Decide(r, v)) /\ UNCHANGED rec
           ELSE Goto(r, "g2") /\ UNCHANGED <<rec, res>>
    /\ UNCHANGED <<l1, l2, ran, seen>>

(* MultiLevel.Get, L2: Redis GET.  An error is returned by Execute;       *)
(* redis.Nil is ErrNotFound, on which Execute sets the pending record.    *)
GetL2(r) ==
    /\ pc[r] = "g2"
    /\ \E fail \in RedisFails :
         IF fail THEN Answer(r, "error") /\ UNCHANGED rec
         ELSE IF l2[Key[r]] = NoRecord THEN Goto(r, "sp2") /\ UNCHANGED <<rec, res>>
         ELSE rec' = [rec EXCEPT ![r] = l2[Key[r]]] /\ Goto(r, "g3") /\ UNCHANGED res
    /\ UNCHANGED <<l1, l2, ran, seen>>

(* MultiLevel.Get backfills L1 with the record it read from L2 (TTL       *)
(* DefaultTTL), then Execute decides on that record.                      *)
Backfill(r) ==
    /\ pc[r] = "g3"
    /\ \E c \in MemorySet(Inst[r], Key[r], rec[r]) : l1' = c
    /\ Answer(r, Decide(r, rec[r]))
    /\ UNCHANGED <<l2, rec, ran, seen>>

(* MultiLevel.Set writes L2 first; its error is returned. *)
SetL2(r, v, next) ==
    \E fail \in RedisFails :
        IF fail THEN Answer(r, "error") /\ UNCHANGED l2
        ELSE l2' = [l2 EXCEPT ![Key[r]] = v] /\ Goto(r, next) /\ UNCHANGED res

(* MultiLevel.Set then writes L1, whose Set returns nil. *)
SetL1(r, v, next) ==
    /\ \E c \in MemorySet(Inst[r], Key[r], v) : l1' = c
    /\ Goto(r, next)

Pending(r) == [st |-> "pending", fp |-> Fingerprint(r), by |-> r]
Completed(r) == [st |-> "completed", fp |-> Fingerprint(r), by |-> r]

(* Set(key, pending, TTL): the Redis write. *)
SetPendingL2(r) ==
    /\ pc[r] = "sp2"
    /\ SetL2(r, Pending(r), "sp1")
    /\ UNCHANGED <<l1, rec, ran, seen>>

(* Set(key, pending, TTL): the ristretto write. *)
SetPendingL1(r) ==
    /\ pc[r] = "sp1"
    /\ SetL1(r, Pending(r), "fn")
    /\ UNCHANGED <<l2, rec, res, ran, seen>>

(* fn: c.Next() runs the handler, whose response is written to the      *)
(* client as it is captured; an error in c.Errors makes fn fail.          *)
RunFn(r) ==
    /\ pc[r] = "fn"
    /\ \E ok \in IF FnMayFail THEN {TRUE, FALSE} ELSE {TRUE} :
         IF ok THEN ran' = ran \cup {r} /\ Goto(r, "sc2")
               ELSE Goto(r, "d1") /\ UNCHANGED ran
    /\ UNCHANGED <<l1, l2, rec, res, seen>>

(* On fn's error, cache.Delete(key): MultiLevel deletes L1 first. *)
DeleteL1(r) ==
    /\ pc[r] = "d1"
    /\ l1' = [l1 EXCEPT ![Inst[r]][Key[r]] = NoRecord]
    /\ Goto(r, "d2")
    /\ UNCHANGED <<l2, rec, res, ran, seen>>

(* then Redis DEL, whose error Execute drops; fn's error is returned and *)
(* the middleware, the response already written, returns.                *)
DeleteL2(r) ==
    /\ pc[r] = "d2"
    /\ \E fail \in RedisFails :
         l2' = IF fail THEN l2 ELSE [l2 EXCEPT ![Key[r]] = NoRecord]
    /\ Answer(r, "error")
    /\ UNCHANGED <<l1, rec, ran, seen>>

(* Set(key, completed, TTL): the Redis write; an error is returned after *)
(* fn has run.                                                             *)
SetCompletedL2(r) ==
    /\ pc[r] = "sc2"
    /\ SetL2(r, Completed(r), "sc1")
    /\ UNCHANGED <<l1, rec, ran, seen>>

(* Set(key, completed, TTL): the ristretto write; Execute returns the    *)
(* fresh response and the middleware lets it through.                    *)
SetCompletedL1(r) ==
    /\ pc[r] = "sc1"
    /\ \E c \in MemorySet(Inst[r], Key[r], Completed(r)) : l1' = c
    /\ Answer(r, "executed")
    /\ UNCHANGED <<l2, rec, ran, seen>>

(* A ristretto entry reaches its TTL. *)
ExpireL1(i, k) ==
    /\ l1[i][k] # NoRecord
    /\ l1' = [l1 EXCEPT ![i][k] = NoRecord]
    /\ UNCHANGED <<l2, pc, rec, res, ran, seen>>

Next ==
    \/ \E r \in Requests :
         \/ Arrive(r) \/ GetL1(r) \/ GetL2(r) \/ Backfill(r)
         \/ SetPendingL2(r) \/ SetPendingL1(r) \/ RunFn(r)
         \/ DeleteL1(r) \/ DeleteL2(r) \/ SetCompletedL2(r) \/ SetCompletedL1(r)
    \/ \E i \in Instances, k \in Keys : ExpireL1(i, k)

Spec == Init /\ [][Next]_vars

-----------------------------------------------------------------------------
(* Properties *)

(* The package's promise, to prevent duplicate submission: the handler  *)
(* behind the middleware completes at most once per key, and a request   *)
(* arriving after a request with the same key and body was answered with *)
(* a fresh response is answered with that response from the cache, not   *)
(* with 409 or a second execution (a Redis error aside).                 *)
Idempotency ==
    /\ \A r, s \in ran : Key[r] = Key[s] => r = s
    /\ \A r \in Requests : \A s \in seen[r] :
         Key[s] = Key[r] /\ Body[s] = Body[r] => res[r] \in {"none", "cached", "error"}
==============================================================================
