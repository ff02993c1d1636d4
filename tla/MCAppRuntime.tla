---------------------------- MODULE MCAppRuntime ----------------------------
(* An App of three components: a and b registered before Start, c        *)
(* registered while the App runs; b and c share a priority.  a and c are *)
(* HTTP servers, b a Group of the HTTP servers m1 and m2.                 *)
EXTENDS AppRuntime, TLC

CONSTANTS a, b, c, m1, m2

MCComps == {a, b, c}
MCInitial == <<a, b>>
MCLate == <<c>>
MCGroup == b :> <<m1, m2>>
MCServers == {a, c, m1, m2}
MCPriority == (a :> 2) @@ (b :> 1) @@ (c :> 1)

\* Start, a late Register, a restart, and a Start after a failure.
MCScript == <<"Start", "Register", "Health", "Stop", "Start", "Stop", "Start", "Stop">>
==============================================================================
