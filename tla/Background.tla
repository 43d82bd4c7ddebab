----------------------------- MODULE Background -----------------------------
(***************************************************************************)
(* The extension's background page (background.js) and its popup, as far   *)
(* as the companion session goes: the Native Messaging port, the status    *)
(* shown to the user, the requests held back until Tor is up, and the two  *)
(* kinds of round-trips (broadcast waiters and id-correlated requests).    *)
(* Every action is one turn of the JavaScript event loop, with the promise *)
(* continuations it settles.                                               *)
(***************************************************************************)
EXTENDS NativeMessaging

CONSTANTS
    Requests,        \* slots for browser requests that shouldUseTor accepts
    Probes,          \* round-trips the diagnostics page may ask for
    Commands,        \* auth commands the popup and the auth pages may send
    ConnectThrows,   \* whether connectNative may throw
    MayTimeOut,      \* the round-trips whose timer may fire before the answer
    MaxInFlight      \* bound on messages in the pipes when the user acts

ASSUME BackgroundAssumption ==
    /\ Probes \subseteq {"ping", "page"}
    /\ Commands \subseteq {"auth-add", "auth-unlock", "auth-lock"}
    /\ ConnectThrows \in BOOLEAN
    /\ MayTimeOut \subseteq CorrelatedActions \cup {"ping", "page", "cache"}
    /\ MaxInFlight \in Nat

VARIABLES
    status,              \* state.status
    socksPort,           \* state.socksPort
    shown,               \* the status the popup rendered last
    companionPort,       \* whether companionPort is open (not null)
    request,             \* what handleProxyRequest answered, or that it waits
    waiters,             \* pingWaiters ("ping") and diagnosticWaiters
    pending,             \* pendingRequests: id -> action, "none" when absent
    companionProtocol,   \* whether state.companionProtocol is known
    companionUpdate,     \* whether state.companionUpdate is known
    unlocked             \* authIndex.unlocked

probeVars == <<waiters, pending, companionProtocol, companionUpdate, unlocked>>
gateVars == <<status, socksPort, request>>
backgroundVars == <<status, socksPort, shown, companionPort, request, probeVars>>

Statuses == {"disconnected", "starting", "ready", "error"}
Answered == {"unreachable"} \cup Ports

BackgroundTypeOK ==
    /\ status \in Statuses
    /\ socksPort \in Ports \cup {NoPort}
    /\ shown \in Statuses
    /\ companionPort \in BOOLEAN
    /\ request \in [Requests -> {"idle", "waiting"} \cup Answered]
    /\ waiters \subseteq {"ping", "page", "cache"}
    /\ pending \in [Ids -> CorrelatedActions \cup {"none"}]
    /\ companionProtocol \in BOOLEAN
    /\ companionUpdate \in BOOLEAN
    /\ unlocked \in BOOLEAN

BackgroundInit ==
    /\ status = "disconnected"
    /\ socksPort = NoPort
    /\ shown = "disconnected"
    /\ companionPort = FALSE
    /\ request = [r \in Requests |-> "idle"]
    /\ waiters = {}
    /\ pending = [i \in Ids |-> "none"]
    /\ companionProtocol = FALSE
    /\ companionUpdate = FALSE
    /\ unlocked = FALSE

---------------------------------------------------------------------------
\* setStatus, without the popup broadcast (the popup renders in its own turn).
SetStatus(s, port) == status' = s /\ socksPort' = port

Waiting(r) == request[r] = "waiting"

\* Mutant: each waiting request overwrites the resolver of the one before it.
SettleOne(answer) ==
    IF \E r \in Requests : Waiting(r)
    THEN \E r \in Requests : Waiting(r) /\ request' = [request EXCEPT ![r] = answer]
    ELSE UNCHANGED request

\* settleReady: one promise, shared by every request that waits.
SettleReady(answer) ==
    request' = [r \in Requests |-> IF Waiting(r) THEN answer ELSE request[r]]

\* Mutant: an id is free as soon as its request is settled or timed out.
FreshIdsOfPending == {i \in Ids : pending[i] = "none"}

\* Ids not in pendingRequests and not carried by any message: nextRequestId++
\* never returns an id that is still in use anywhere.
FreshIds == {i \in Ids : pending[i] = "none"} \ IdsInFlight
NextId == CHOOSE i \in FreshIds : TRUE
SecondId == CHOOSE i \in FreshIds \ {NextId} : TRUE

\* ensureCompanionPort, when connectNative returns: an open port is kept; else
\* a new one is opened.  The process behind it may fail to come up at all (no
\* host manifest, no binary), which only the disconnect event will tell.
EnsureCompanionPort ==
    \/ companionPort /\ UNCHANGED <<companionPort, process>>
    \/ /\ ~companionPort
       /\ companionPort' = TRUE
       /\ process' \in {"idle", "none"}

Send(messages) ==
    /\ EnsureCompanionPort
    /\ toCompanion' = toCompanion \o messages
    /\ UNCHANGED toExtension

\* ensureCompanionPort, when connectNative throws.
ConnectNativeThrows ==
    /\ ConnectThrows
    /\ ~companionPort
    /\ SetStatus("error", socksPort)
    /\ UNCHANGED <<link, companionPort>>

ConnectCompanion ==
    /\ ~companionPort
    /\ \/ SetStatus("starting", socksPort) /\ Send(<<Command("start")>>)
       \/ ConnectNativeThrows

---------------------------------------------------------------------------
\* Mutant: a known SOCKS port is used whatever the status.
AnsweredByPort(r) ==
    /\ request[r] = "idle"
    /\ socksPort # NoPort
    /\ request' = [request EXCEPT ![r] = socksPort]
    /\ UNCHANGED <<link, status, socksPort, shown, companionPort, probeVars>>

\* handleProxyRequest: the three immediate answers, and the wait.
AnsweredByGate(r) ==
    /\ request[r] = "idle"
    /\ \/ /\ status = "ready" /\ socksPort # NoPort
          /\ request' = [request EXCEPT ![r] = socksPort]
       \/ /\ status = "error"
          /\ request' = [request EXCEPT ![r] = "unreachable"]
    /\ UNCHANGED <<link, status, socksPort, shown, companionPort, probeVars>>

\* Mutant: an open port is taken for a Tor that is running or starting.
WaitForReadyNoRestart(r) ==
    /\ request[r] = "idle"
    /\ status # "error"
    /\ ~(status = "ready" /\ socksPort # NoPort)
    /\ request' = [request EXCEPT ![r] = "waiting"]
    /\ \/ ConnectCompanion
       \/ companionPort /\ UNCHANGED <<link, companionPort, status, socksPort>>
    /\ UNCHANGED <<shown, probeVars>>

\* waitForReady: joins the promise, then makes sure something will settle it.
WaitForReady(r) ==
    /\ request[r] = "idle"
    /\ status # "error"
    /\ ~(status = "ready" /\ socksPort # NoPort)
    /\ request' = [request EXCEPT ![r] = "waiting"]
    /\ \/ ConnectCompanion
       \/ /\ companionPort /\ status \notin {"starting", "ready"}
          /\ Send(<<Command("start")>>)
          /\ UNCHANGED <<status, socksPort>>
       \/ /\ companionPort /\ status \in {"starting", "ready"}
          /\ UNCHANGED <<link, companionPort, status, socksPort>>
    /\ UNCHANGED <<shown, probeVars>>

\* The browser is done with the answer; the slot takes another request.
RequestDone(r) ==
    /\ request[r] \in Answered
    /\ request' = [request EXCEPT ![r] = "idle"]
    /\ UNCHANGED <<link, status, socksPort, shown, companionPort, probeVars>>

---------------------------------------------------------------------------
\* Deliver: onCompanionMessage on the next message of the port.
Receives(s) ==
    /\ companionPort
    /\ toExtension # <<>>
    /\ Head(toExtension).status = s
    /\ toExtension' = Tail(toExtension)
    /\ UNCHANGED <<shown, companionPort, process>>

\* "ready" also asks, in this order, for the diagnostic (cacheCompanionInfo),
\* the update check and the auth index.
ReadyProbes ==
    (IF companionProtocol THEN <<>> ELSE <<Command("diagnostic")>>)
    \o (IF companionUpdate THEN <<>> ELSE <<Request("update-check", SecondId)>>)
    \o <<Request("auth-list", NextId)>>

OnReady ==
    /\ Receives("ready")
    /\ FreshIds # {} /\ FreshIds \ {NextId} # {}
    /\ SetStatus("ready", Head(toExtension).port)
    /\ SettleReady(Head(toExtension).port)
    /\ toCompanion' = toCompanion \o ReadyProbes
    /\ waiters' = waiters \cup (IF companionProtocol THEN {} ELSE {"cache"})
    /\ pending' = [pending EXCEPT
                     ![NextId] = "auth-list",
                     ![SecondId] = IF companionUpdate THEN @ ELSE "update-check"]
    /\ UNCHANGED <<companionProtocol, companionUpdate, unlocked>>

OnStopped ==
    /\ Receives("stopped")
    /\ SetStatus("disconnected", NoPort)
    /\ SettleReady("unreachable")
    /\ UNCHANGED <<toCompanion, probeVars>>

\* Mutant: an error does not settle the promise.
OnErrorKeepsWaiting ==
    /\ Receives("error")
    /\ SetStatus("error", socksPort)
    /\ UNCHANGED <<toCompanion, request, probeVars>>

OnError ==
    /\ Receives("error")
    /\ SetStatus("error", socksPort)
    /\ SettleReady("unreachable")
    /\ UNCHANGED <<toCompanion, probeVars>>

OnPong ==
    /\ Receives("pong")
    /\ waiters' = waiters \ {"ping"}
    /\ UNCHANGED <<toCompanion, gateVars, pending,
                   companionProtocol, companionUpdate, unlocked>>

OnDiagnostic ==
    /\ Receives("diagnostic")
    /\ waiters' = waiters \ {"page", "cache"}
    /\ companionProtocol' = (companionProtocol \/ "cache" \in waiters)
    /\ UNCHANGED <<toCompanion, gateVars, pending, companionUpdate, unlocked>>

---------------------------------------------------------------------------
\* "reply": a reply nobody waits for any more is dropped; the others settle
\* their request, and the awaiting function (handleAuth, refreshAuthIndex,
\* checkForUpdate) goes on in the same turn.
LateReply(id) ==
    /\ pending[id] = "none"
    /\ UNCHANGED <<toCompanion, pending, companionUpdate, unlocked>>

UpdateInfo(id, ok) ==
    /\ pending[id] = "update-check"
    /\ pending' = [pending EXCEPT ![id] = "none"]
    /\ companionUpdate' = (companionUpdate \/ ok)
    /\ UNCHANGED <<toCompanion, unlocked>>

AuthIndex(id, ok) ==
    /\ pending[id] = "auth-list"
    /\ pending' = [pending EXCEPT ![id] = "none"]
    /\ unlocked' = IF ok THEN Head(toExtension).unlocked ELSE unlocked
    /\ UNCHANGED <<toCompanion, companionUpdate>>

\* handleAuth: a successful mutation is followed by refreshAuthIndex.
AuthDone(id, ok) ==
    /\ pending[id] \in {"auth-add", "auth-unlock", "auth-lock"}
    /\ \/ /\ ~ok
          /\ pending' = [pending EXCEPT ![id] = "none"]
          /\ UNCHANGED <<toCompanion, unlocked>>
       \/ /\ ok
          /\ FreshIds # {}
          /\ unlocked' = CASE pending[id] = "auth-unlock" -> TRUE
                           [] pending[id] = "auth-lock" -> FALSE
                           [] OTHER -> unlocked
          /\ pending' = [pending EXCEPT ![id] = "none", ![NextId] = "auth-list"]
          /\ toCompanion' = Append(toCompanion, Request("auth-list", NextId))
    /\ UNCHANGED companionUpdate

OnReply ==
    /\ Receives("reply")
    /\ LET id == Head(toExtension).id
           ok == Head(toExtension).ok
       IN  \/ LateReply(id)
           \/ UpdateInfo(id, ok)
           \/ AuthIndex(id, ok)
           \/ AuthDone(id, ok)
    /\ UNCHANGED <<gateVars, waiters, companionProtocol>>

Deliver ==
    \/ OnReady
    \/ OnStopped
    \/ OnError
    \/ OnPong
    \/ OnDiagnostic
    \/ OnReply

\* onCompanionDisconnect: the process is gone.  What it wrote last may or may
\* not have been delivered; port.error is set or not, as the browser sees it.
Disconnected ==
    /\ companionPort
    /\ process = "none"
    /\ \E failed \in BOOLEAN :
          IF failed THEN SetStatus("error", socksPort)
                    ELSE SetStatus("disconnected", NoPort)
    /\ SettleReady("unreachable")
    /\ waiters' = {}
    /\ pending' = [i \in Ids |-> "none"]
    /\ unlocked' = FALSE
    /\ companionProtocol' = FALSE
    /\ companionPort' = FALSE
    /\ toCompanion' = <<>>
    /\ toExtension' = <<>>
    /\ UNCHANGED <<shown, companionUpdate, process>>

---------------------------------------------------------------------------
UserMayAct == Len(toCompanion) + Len(toExtension) < MaxInFlight

\* popup.js: render() follows the broadcasts, a moment later; Start is enabled
\* unless starting or ready is shown, Stop only then.
Render ==
    /\ shown' = status
    /\ UNCHANGED <<link, gateVars, companionPort, probeVars>>

\* With an open port connectCompanion returns at once: nothing happens.
StartClick ==
    /\ shown \notin {"starting", "ready"}
    /\ ConnectCompanion
    /\ UNCHANGED <<shown, request, probeVars>>

StopClick ==
    /\ shown \in {"starting", "ready"}
    /\ UserMayAct
    /\ companionPort
    /\ Send(<<Command("stop")>>)
    /\ UNCHANGED <<gateVars, shown, probeVars>>

\* companionRequest, from the diagnostics page: opens the port if need be.
Probe(kind) ==
    /\ UserMayAct
    /\ \/ /\ Send(<<Command(IF kind = "ping" THEN "ping" ELSE "diagnostic")>>)
          /\ waiters' = waiters \cup {kind}
          /\ UNCHANGED <<status, socksPort>>
       \/ /\ ConnectNativeThrows
          /\ UNCHANGED waiters
    /\ UNCHANGED <<shown, request, pending, companionProtocol, companionUpdate, unlocked>>

\* companionRequestId: an auth command of a page, or the daily update check.
Correlated(action) ==
    /\ UserMayAct
    /\ \/ /\ FreshIds # {}
          /\ Send(<<Request(action, NextId)>>)
          /\ pending' = [pending EXCEPT ![NextId] = action]
          /\ UNCHANGED <<status, socksPort>>
       \/ /\ ConnectNativeThrows
          /\ UNCHANGED pending
    /\ UNCHANGED <<shown, request, waiters, companionProtocol, companionUpdate, unlocked>>

UpdateAlarm ==
    /\ status = "ready"
    /\ Correlated("update-check")

\* The timers of companionRequest and companionRequestId.
ProbeTimesOut(kind) ==
    /\ kind \in waiters \cap MayTimeOut
    /\ waiters' = waiters \ {kind}
    /\ UNCHANGED <<link, gateVars, shown, companionPort, pending,
                   companionProtocol, companionUpdate, unlocked>>

RequestTimesOut(id) ==
    /\ pending[id] \in MayTimeOut
    /\ pending' = [pending EXCEPT ![id] = "none"]
    /\ UNCHANGED <<link, gateVars, shown, companionPort, waiters,
                   companionProtocol, companionUpdate, unlocked>>

\* Firefox suspends the idle event page; the next event runs it afresh.
EventPageSuspended ==
    /\ ~companionPort
    /\ \A r \in Requests : ~Waiting(r)
    /\ status' = "disconnected"
    /\ socksPort' = NoPort
    /\ companionUpdate' = FALSE
    /\ UNCHANGED <<link, shown, companionPort, request, waiters, pending,
                   companionProtocol, unlocked>>

BackgroundNext ==
    \/ \E r \in Requests : AnsweredByGate(r) \/ WaitForReady(r) \/ RequestDone(r)
    \/ Deliver
    \/ Disconnected
    \/ Render
    \/ StartClick
    \/ StopClick
    \/ \E kind \in Probes : Probe(kind)
    \/ \E action \in Commands : Correlated(action)
    \/ UpdateAlarm
    \/ \E kind \in {"ping", "page", "cache"} : ProbeTimesOut(kind)
    \/ \E id \in Ids : RequestTimesOut(id)
    \/ EventPageSuspended
=============================================================================
