--------------------------- MODULE StorageLifecycle ---------------------------
(***************************************************************************)
(* The abstract connection life cycle every storage.Storage promises      *)
(* (storage.State, spec section 3): a storage is created Disconnected,    *)
(* Connect moves it Disconnected -> Connecting -> Connected, or back to    *)
(* Disconnected when the attempt fails, and Close moves a Connecting or    *)
(* Connected storage through Disconnecting back to Disconnected.  Each    *)
(* step is one atomic store of Base.state.                                 *)
(***************************************************************************)

CONSTANT Starts  \* the initial states: "Disconnected", and "Connected" to
                 \* begin after a Connect

VARIABLE state

States == {"Disconnected", "Connecting", "Connected", "Disconnecting"}

Init == state \in Starts

BeginConnect   == state = "Disconnected"  /\ state' = "Connecting"
ConnectSucceed == state = "Connecting"    /\ state' = "Connected"
ConnectFail    == state = "Connecting"    /\ state' = "Disconnected"
BeginClose     == state \in {"Connecting", "Connected"} /\ state' = "Disconnecting"
EndClose       == state = "Disconnecting" /\ state' = "Disconnected"

Next == BeginConnect \/ ConnectSucceed \/ ConnectFail \/ BeginClose \/ EndClose

Spec == Init /\ [][Next]_state
================================================================================
