------------------------------ MODULE Session ------------------------------
(***************************************************************************)
(* The companion session: background page, popup, browser requests, the    *)
(* two pipes and the companion process, with every interleaving of their   *)
(* steps; and the bytes that the pipe to the companion holds.              *)
(***************************************************************************)
EXTENDS Background, Companion, Framing

CONSTANT Json(_)    \* the bytes that the extension writes for a message

ASSUME JsonAssumption ==
    \A m \in InboundMessage : Json(m) \in Seq(0..(Base - 1)) /\ IsReadable(Json(m))

vars == <<link, backgroundVars, companionVars>>

Init == LinkInit /\ BackgroundInit /\ CompanionInit

Next ==
    \/ BackgroundNext /\ UNCHANGED companionVars
    \/ CompanionNext /\ UNCHANGED backgroundVars

Spec == Init /\ [][Next]_vars

(***************************************************************************)
(* Fairness.  Firefox delivers what a port received, and reports its end.  *)
(* The companion's loop handles what it reads; nothing it awaits there is  *)
(* unbounded, except in start(), whose download has no timeout (reqwest's  *)
(* default): that start() ends is a separate assumption.  Nothing else is  *)
(* fair: users, timers and crashes may or may not happen.                  *)
(***************************************************************************)
LoopFairness ==
    /\ WF_vars(Deliver /\ UNCHANGED companionVars)
    /\ WF_vars(Disconnected /\ UNCHANGED companionVars)
    /\ WF_vars(Handle /\ UNCHANGED backgroundVars)

StartEnds == WF_vars(FinishStart /\ UNCHANGED backgroundVars)

FairSpec == Spec /\ LoopFairness /\ StartEnds

\* As FairSpec, but a download may never end.
SlowNetworkSpec == Spec /\ LoopFairness

\* As FairSpec, with a popup that follows the status and a user who keeps
\* clicking Start whenever the button is enabled.
RetryingUserSpec ==
    /\ FairSpec
    /\ WF_vars(Render /\ UNCHANGED companionVars)
    /\ WF_vars(StartClick /\ UNCHANGED companionVars)

---------------------------------------------------------------------------
TypeOK ==
    /\ LinkTypeOK
    /\ BackgroundTypeOK
    /\ CompanionTypeOK

\* A request waits only while the gate is neither open nor blocked: each of
\* setStatus("ready"), ("error") comes with the settling of the promise.
NobodyWaitsAtOpenGate ==
    \A r \in Requests : Waiting(r) => status \in {"disconnected", "starting"}

\* The inductive form of the above: an open gate has a port to answer with.
GateInvariant ==
    /\ TypeOK
    /\ NobodyWaitsAtOpenGate
    /\ status = "ready" => socksPort \in Ports

\* A waiting request is never abandoned: a start is on its way or under way, a
\* message that settles the promise is on its way back, or the port is dying
\* (and its disconnect settles the promise).
NoStrandedRequest ==
    (\E r \in Requests : Waiting(r)) =>
        /\ companionPort
        /\ \/ process \in {"none", "starting"}
           \/ \E m \in Sent(toCompanion) : m.action = "start"
           \/ \E m \in Sent(toExtension) : m.status \in {"ready", "stopped", "error"}

\* The extension learns of the backend only through replies, in order.  What
\* the last of them says, or the status once none is left, is the truth about
\* a companion that is still running.
Verdicts(pipe) ==
    {i \in DOMAIN pipe : pipe[i].status \in {"ready", "stopped", "error"}}

LastVerdict(pipe) ==
    pipe[CHOOSE i \in Verdicts(pipe) : \A j \in Verdicts(pipe) : j =< i]

StatusFollowsBackend ==
    companionPort /\ process # "none" =>
        IF Verdicts(toExtension) = {}
        THEN /\ status = "ready" => backend = socksPort
             /\ status # "ready" => backend = NoPort
        ELSE /\ LastVerdict(toExtension).status = "ready" =>
                    backend = LastVerdict(toExtension).port
             /\ LastVerdict(toExtension).status # "ready" => backend = NoPort

\* Every pending request of a live session is carried by exactly one message:
\* never lost, never answered twice, never mistaken for another one.
Carriers(id) ==
    Cardinality({i \in DOMAIN toCompanion : toCompanion[i].id = id})
    + Cardinality({i \in DOMAIN toExtension :
                     toExtension[i].status = "reply" /\ toExtension[i].id = id})

EveryPendingHasItsReply ==
    \A id \in Ids :
        /\ pending[id] # "none" => companionPort
        /\ Carriers(id) =< 1
        /\ pending[id] # "none" /\ process # "none" => Carriers(id) = 1

\* messaging.rs:99-125: wherever the bytes end that the extension sent (Firefox
\* or the system ends in the middle of a message), the companion reads exactly
\* the messages that are whole; and so it is with any two payloads, with what is
\* left of them told apart as the end of the input or an error.
PipesSurviveCuts ==
    /\ CutsAreNoticed([i \in DOMAIN toCompanion |-> Json(toCompanion[i])])
    /\ AnyTwoSurviveCuts

\* No request is answered with a port other than the one this companion
\* reported last: what a request got is what the gate was open on.
GateState ==
    IF status = "ready" THEN socksPort
    ELSE IF status = "error" THEN "blocked" ELSE "shut"

Gate == INSTANCE TorGate WITH gate <- GateState

ImplementsGate == Gate!Spec

\* Every request that waits is answered, one way or the other.
RequestsSettle == \A r \in Requests : Waiting(r) ~> ~Waiting(r)

\* friendly_error tells the user to "try again": clicking Start in the error
\* state has some effect.
RetryLeavesError == status = "error" ~> status # "error"
=============================================================================
