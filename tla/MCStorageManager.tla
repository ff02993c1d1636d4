--------------------------- MODULE MCStorageManager ---------------------------
(* Instances of StorageManager for TLC: storages n1..n3 and callers c1, c2 *)
(* as model values.                                                        *)
EXTENDS StorageManager, TLC

CONSTANTS n1, n2, n3, c1, c2

MCNames == {n1, n2, n3}
MCCallers == {c1, c2}

\* n1 is registered at start-up.
MCInitOrder == <<n1>>

\* The application connects and closes the fleet while a second goroutine
\* registers more storages and runs health checks.
MCWorkload ==
    (c1 :> {"ConnectAll", "CloseAll"}) @@ (c2 :> {"Register", "HealthCheck"})

\* Only which storage is which matters, not its name.
MCNameSymmetry == Permutations(MCNames)
================================================================================
