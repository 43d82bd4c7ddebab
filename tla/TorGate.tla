------------------------------ MODULE TorGate ------------------------------
(***************************************************************************)
(* What the proxy gate of the extension promises to the browser, with no   *)
(* companion, no port and no messages: a request that must go through Tor  *)
(* is answered with the SOCKS port the gate is open on, or refused, or     *)
(* held; and whatever moves the gate answers every held request with it.   *)
(* No request is ever answered with a port the gate is not open on, none   *)
(* is held while the gate is open or blocked.                              *)
(***************************************************************************)
CONSTANTS Ports, Requests

VARIABLES
    gate,      \* a port: open on it; "shut": requests wait; "blocked": refused
    request    \* per slot: "idle", "waiting", "unreachable" or a port

gateVars == <<gate, request>>

Init ==
    /\ gate = "shut"
    /\ request = [r \in Requests |-> "idle"]

Ask(r) ==
    /\ request[r] = "idle"
    /\ \/ gate = "shut" /\ request' = [request EXCEPT ![r] = "waiting"]
       \/ gate = "blocked" /\ request' = [request EXCEPT ![r] = "unreachable"]
       \/ gate \in Ports /\ request' = [request EXCEPT ![r] = gate]
    /\ UNCHANGED gate

Done(r) ==
    /\ request[r] \in {"unreachable"} \cup Ports
    /\ request' = [request EXCEPT ![r] = "idle"]
    /\ UNCHANGED gate

SettleAll(answer) ==
    request' = [r \in Requests |->
                  IF request[r] = "waiting" THEN answer ELSE request[r]]

Open(port) == gate' = port /\ SettleAll(port)
Shut == gate' = "shut" /\ SettleAll("unreachable")
Block == gate' = "blocked" /\ SettleAll("unreachable")

Next ==
    \/ \E r \in Requests : Ask(r) \/ Done(r)
    \/ \E port \in Ports : Open(port)
    \/ Shut
    \/ Block

Spec == Init /\ [][Next]_gateVars
=============================================================================
