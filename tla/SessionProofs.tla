--------------------------- MODULE SessionProofs ---------------------------
(***************************************************************************)
(* Theorems about the companion session, for any number of requests, ports *)
(* and ids, any bounds and any build of the companion.                     *)
(***************************************************************************)
EXTENDS Session, FiniteSetTheorems, ListLemmas

\* Messages are well formed whenever their parts are.
LEMMA MessagesWellFormed ==
    /\ \A a \in PlainActions : Command(a) \in InboundMessage
    /\ \A a \in CorrelatedActions, i \in Ids : Request(a, i) \in InboundMessage
    /\ \A p \in Ports : Ready(p) \in OutboundMessage
    /\ \A s \in {"stopped", "error", "pong", "diagnostic"} : Plain(s) \in OutboundMessage
    /\ \A i \in Ids, ok, u \in BOOLEAN : Reply(i, ok, u) \in OutboundMessage
BY DEF Command, Request, Ready, Plain, Reply, InboundMessage, OutboundMessage

\* What the head of a pipe carries, by its kind.
LEMMA InboundParts ==
    ASSUME NEW m \in InboundMessage
    PROVE  /\ m.action \in PlainActions \cup CorrelatedActions
           /\ m.action \in CorrelatedActions => m.id \in Ids
<1>1. CASE m \in [action : PlainActions, id : {NoId}]
    BY <1>1 DEF PlainActions, CorrelatedActions
<1>2. CASE m \in [action : CorrelatedActions, id : Ids]
    BY <1>2
<1> QED BY <1>1, <1>2 DEF InboundMessage

\* What a message of the companion carries, by its status.
LEMMA OutboundParts ==
    ASSUME NEW m \in OutboundMessage
    PROVE  /\ m.status = "ready" => m.port \in Ports
           /\ m.status = "reply" => m.id \in Ids /\ m.ok \in BOOLEAN /\ m.unlocked \in BOOLEAN
<1>1. CASE m \in [status : {"ready"}, port : Ports]
    BY <1>1
<1>2. CASE m \in [status : {"stopped", "error", "pong", "diagnostic"}]
    BY <1>2
<1>3. CASE m \in [status : {"reply"}, id : Ids, ok : BOOLEAN, unlocked : BOOLEAN]
    BY <1>3
<1> QED BY <1>1, <1>2, <1>3 DEF OutboundMessage

\* The two ids a handler may take are ids of the pool.
LEMMA FreshIdsInPool ==
    /\ FreshIds \subseteq Ids
    /\ FreshIds # {} => NextId \in Ids
    /\ FreshIds \ {NextId} # {} => SecondId \in Ids
BY DEF FreshIds, NextId, SecondId

\* What the ready handler sends.
LEMMA ReadyProbesWellFormed ==
    ASSUME FreshIds # {}, FreshIds \ {NextId} # {}
    PROVE  ReadyProbes \in Seq(InboundMessage)
<1> DEFINE d == IF companionProtocol THEN <<>> ELSE <<Command("diagnostic")>>
           u == IF companionUpdate THEN <<>> ELSE <<Request("update-check", SecondId)>>
           l == <<Request("auth-list", NextId)>>
<1>1. d \in Seq(InboundMessage)
    BY MessagesWellFormed DEF PlainActions
<1>2. u \in Seq(InboundMessage)
    BY MessagesWellFormed, FreshIdsInPool DEF CorrelatedActions
<1>3. l \in Seq(InboundMessage)
    BY MessagesWellFormed, FreshIdsInPool DEF CorrelatedActions
<1>4. d \o u \in Seq(InboundMessage)
    BY <1>1, <1>2, ConcatProperties
<1> QED BY <1>3, <1>4, ConcatProperties DEF ReadyProbes

---------------------------------------------------------------------------
\* Sending well-formed messages keeps the link well formed.
LEMMA SendType ==
    ASSUME LinkTypeOK, companionPort \in BOOLEAN,
           NEW messages \in Seq(InboundMessage), Send(messages)
    PROVE  LinkTypeOK' /\ companionPort' \in BOOLEAN
<1>1. toCompanion' \in Seq(InboundMessage)
    BY ConcatProperties DEF Send, LinkTypeOK
<1> QED BY <1>1 DEF Send, EnsureCompanionPort, LinkTypeOK

\* connectCompanion keeps the link, and the status it sets is a status.
LEMMA ConnectType ==
    ASSUME LinkTypeOK, companionPort \in BOOLEAN,
           socksPort \in Ports \cup {NoPort}, ConnectCompanion
    PROVE  /\ LinkTypeOK' /\ companionPort' \in BOOLEAN
           /\ status' \in {"starting", "error"} /\ socksPort' = socksPort
<1>1. CASE SetStatus("starting", socksPort) /\ Send(<<Command("start")>>)
    <2>1. <<Command("start")>> \in Seq(InboundMessage)
        BY MessagesWellFormed DEF PlainActions
    <2> QED BY <1>1, <2>1, SendType DEF SetStatus
<1>2. CASE ConnectNativeThrows
    BY <1>2 DEF ConnectNativeThrows, SetStatus, LinkTypeOK, link
<1> QED BY <1>1, <1>2 DEF ConnectCompanion

\* Answering a command, and delivering a message.
LEMMA AnswerType ==
    ASSUME LinkTypeOK, toCompanion # <<>>,
           NEW reply \in OutboundMessage, Answers(reply)
    PROVE  LinkTypeOK'
BY HeadTailProperties, AppendProperties DEF Answers, LinkTypeOK

\* Taking a delivered message off its pipe keeps the link well formed.
LEMMA ReceiveType ==
    ASSUME LinkTypeOK, companionPort, NEW s, Receives(s)
    PROVE  /\ toExtension' \in Seq(OutboundMessage)
           /\ process' \in {"none", "idle", "starting"}
           /\ Head(toExtension) \in OutboundMessage
           /\ Head(toExtension).status = s
BY HeadTailProperties DEF Receives, LinkTypeOK

---------------------------------------------------------------------------
\* The initial state is in the types.
LEMMA TypeInit == Init => TypeOK
BY EmptySeq DEF Init, LinkInit, BackgroundInit, CompanionInit,
                TypeOK, LinkTypeOK, BackgroundTypeOK, CompanionTypeOK, Statuses

\* settleReady answers the waiting requests and touches no other.
LEMMA SettleType ==
    ASSUME BackgroundTypeOK, NEW answer \in Answered, SettleReady(answer)
    PROVE  request' \in [Requests -> {"idle", "waiting"} \cup Answered]
BY DEF SettleReady, Waiting, BackgroundTypeOK

\* The request handlers.
LEMMA RequestType ==
    ASSUME TypeOK, UNCHANGED companionVars, NEW r \in Requests,
           AnsweredByGate(r) \/ WaitForReady(r) \/ RequestDone(r)
    PROVE  TypeOK'
<1> USE DEF TypeOK, BackgroundTypeOK, CompanionTypeOK, companionVars, probeVars
<1>1. CASE AnsweredByGate(r)
    BY <1>1 DEF AnsweredByGate, LinkTypeOK, link, Answered
<1>2. CASE WaitForReady(r)
    <2>1. request' \in [Requests -> {"idle", "waiting"} \cup Answered]
        BY <1>2 DEF WaitForReady
    <2>2. /\ LinkTypeOK' /\ companionPort' \in BOOLEAN
          /\ status' \in Statuses /\ socksPort' \in Ports \cup {NoPort}
        <3>1. CASE ConnectCompanion
            BY <3>1, ConnectType DEF Statuses
        <3>2. CASE Send(<<Command("start")>>) /\ UNCHANGED <<status, socksPort>>
            <4>1. <<Command("start")>> \in Seq(InboundMessage)
                BY MessagesWellFormed DEF PlainActions
            <4> QED BY <3>2, <4>1, SendType
        <3>3. CASE UNCHANGED <<link, companionPort, status, socksPort>>
            BY <3>3 DEF LinkTypeOK, link
        <3> QED BY <1>2, <3>1, <3>2, <3>3 DEF WaitForReady
    <2> QED BY <1>2, <2>1, <2>2 DEF WaitForReady
<1>3. CASE RequestDone(r)
    BY <1>3 DEF RequestDone, LinkTypeOK, link
<1> QED BY <1>1, <1>2, <1>3

\* The messages of the companion.
LEMMA DeliverType ==
    ASSUME TypeOK, UNCHANGED companionVars, Deliver
    PROVE  TypeOK'
<1> USE DEF TypeOK, CompanionTypeOK, companionVars, probeVars, gateVars
<1> DEFINE m == Head(toExtension)
<1>1. CASE OnReady
    <2>1. /\ toExtension' \in Seq(OutboundMessage)
          /\ process' \in {"none", "idle", "starting"}
          /\ m.port \in Ports
        BY <1>1, ReceiveType, OutboundParts DEF OnReady, Receives
    <2>2. toCompanion' \in Seq(InboundMessage)
        <3>1. ReadyProbes \in Seq(InboundMessage)
            BY <1>1, ReadyProbesWellFormed DEF OnReady
        <3>2. toCompanion \in Seq(InboundMessage) /\ toCompanion' = toCompanion \o ReadyProbes
            BY <1>1 DEF OnReady, LinkTypeOK
        <3> QED BY <3>1, <3>2, ConcatProperties
    <2>3. request' \in [Requests -> {"idle", "waiting"} \cup Answered]
        BY <1>1, <2>1, SettleType DEF OnReady, Answered
    <2>4. pending' \in [Ids -> CorrelatedActions \cup {"none"}]
        BY <1>1, FreshIdsInPool DEF OnReady, BackgroundTypeOK, CorrelatedActions
    <2>5. waiters' \subseteq {"ping", "page", "cache"}
        BY <1>1 DEF OnReady, BackgroundTypeOK
    <2>6. status' = "ready" /\ socksPort' \in Ports
        BY <1>1, <2>1 DEF OnReady, SetStatus
    <2>7. UNCHANGED <<shown, companionPort, companionProtocol, companionUpdate, unlocked>>
        BY <1>1 DEF OnReady, Receives
    <2> QED BY <2>1, <2>2, <2>3, <2>4, <2>5, <2>6, <2>7
            DEF BackgroundTypeOK, LinkTypeOK, Statuses
<1>2. CASE OnStopped \/ OnError
    <2>1. \E s \in {"stopped", "error"} : Receives(s)
        BY <1>2 DEF OnStopped, OnError
    <2>2. /\ toExtension' \in Seq(OutboundMessage)
          /\ process' \in {"none", "idle", "starting"}
        BY <2>1, ReceiveType DEF Receives
    <2>3. SettleReady("unreachable")
        BY <1>2 DEF OnStopped, OnError
    <2>4. request' \in [Requests -> {"idle", "waiting"} \cup Answered]
        BY <2>3, SettleType DEF Answered
    <2>5. status' \in {"disconnected", "error"} /\ socksPort' \in Ports \cup {NoPort}
        BY <1>2 DEF OnStopped, OnError, SetStatus, BackgroundTypeOK
    <2>6. UNCHANGED <<toCompanion, shown, companionPort, probeVars>>
        BY <1>2 DEF OnStopped, OnError, Receives
    <2> QED BY <2>2, <2>4, <2>5, <2>6 DEF BackgroundTypeOK, LinkTypeOK, Statuses
<1>3. CASE OnPong \/ OnDiagnostic
    <2>1. \E s \in {"pong", "diagnostic"} : Receives(s)
        BY <1>3 DEF OnPong, OnDiagnostic
    <2>2. /\ toExtension' \in Seq(OutboundMessage)
          /\ process' \in {"none", "idle", "starting"}
        BY <2>1, ReceiveType DEF Receives
    <2>3. waiters' \subseteq {"ping", "page", "cache"} /\ companionProtocol' \in BOOLEAN
        BY <1>3 DEF OnPong, OnDiagnostic, BackgroundTypeOK
    <2>4. UNCHANGED <<toCompanion, shown, companionPort, gateVars, pending,
                      companionUpdate, unlocked>>
        BY <1>3 DEF OnPong, OnDiagnostic, Receives
    <2> QED BY <2>2, <2>3, <2>4 DEF BackgroundTypeOK, LinkTypeOK
<1>4. CASE OnReply
    <2>1. /\ toExtension' \in Seq(OutboundMessage)
          /\ process' \in {"none", "idle", "starting"}
          /\ m.id \in Ids /\ m.ok \in BOOLEAN /\ m.unlocked \in BOOLEAN
        BY <1>4, ReceiveType, OutboundParts DEF OnReply, Receives
    <2>2. UNCHANGED <<gateVars, waiters, companionProtocol, shown, companionPort>>
        BY <1>4 DEF OnReply, Receives
    <2>3. /\ toCompanion' \in Seq(InboundMessage)
          /\ pending' \in [Ids -> CorrelatedActions \cup {"none"}]
          /\ companionUpdate' \in BOOLEAN
          /\ unlocked' \in BOOLEAN
        <3>1. CASE LateReply(m.id)
            BY <3>1 DEF LateReply, LinkTypeOK, BackgroundTypeOK
        <3>2. CASE UpdateInfo(m.id, m.ok)
            BY <2>1, <3>2 DEF UpdateInfo, LinkTypeOK, BackgroundTypeOK
        <3>3. CASE AuthIndex(m.id, m.ok)
            BY <2>1, <3>3 DEF AuthIndex, LinkTypeOK, BackgroundTypeOK
        <3>4. CASE AuthDone(m.id, m.ok) /\ ~m.ok
            BY <2>1, <3>4 DEF AuthDone, LinkTypeOK, BackgroundTypeOK
        <3>5. CASE AuthDone(m.id, m.ok) /\ m.ok
            <4>1. NextId \in Ids
                BY <3>5, FreshIdsInPool DEF AuthDone
            <4>2. toCompanion' \in Seq(InboundMessage)
                <5>1. Request("auth-list", NextId) \in InboundMessage
                    BY <4>1, MessagesWellFormed DEF CorrelatedActions
                <5>2. toCompanion' = Append(toCompanion, Request("auth-list", NextId))
                    BY <3>5 DEF AuthDone
                <5> QED BY <5>1, <5>2, AppendProperties DEF LinkTypeOK
            <4>3. pending' \in [Ids -> CorrelatedActions \cup {"none"}]
                BY <3>5, <4>1 DEF AuthDone, BackgroundTypeOK, CorrelatedActions
            <4>4. unlocked' \in BOOLEAN
                BY <3>5 DEF AuthDone, BackgroundTypeOK
            <4> QED BY <3>5, <4>2, <4>3, <4>4 DEF AuthDone, BackgroundTypeOK
        <3> QED BY <1>4, <3>1, <3>2, <3>3, <3>4, <3>5 DEF OnReply
    <2> QED BY <2>1, <2>2, <2>3 DEF BackgroundTypeOK, LinkTypeOK
<1> QED BY <1>1, <1>2, <1>3, <1>4 DEF Deliver

\* The disconnect, the timers and the event page.
LEMMA EndingsType ==
    ASSUME TypeOK, UNCHANGED companionVars,
           \/ Disconnected \/ Render \/ EventPageSuspended
           \/ \E kind \in {"ping", "page", "cache"} : ProbeTimesOut(kind)
           \/ \E id \in Ids : RequestTimesOut(id)
    PROVE  TypeOK'
<1> USE DEF TypeOK, CompanionTypeOK, companionVars, probeVars, gateVars, link
<1>1. CASE Disconnected
    <2>1. request' \in [Requests -> {"idle", "waiting"} \cup Answered]
        BY <1>1, SettleType DEF Disconnected, Answered
    <2>2. pending' \in [Ids -> CorrelatedActions \cup {"none"}]
        BY <1>1 DEF Disconnected
    <2>3. status' \in Statuses /\ socksPort' \in Ports \cup {NoPort}
        BY <1>1 DEF Disconnected, SetStatus, BackgroundTypeOK, Statuses
    <2>4. LinkTypeOK'
        BY <1>1, EmptySeq DEF Disconnected, LinkTypeOK
    <2>5. /\ waiters' = {} /\ unlocked' = FALSE /\ companionProtocol' = FALSE
          /\ companionPort' = FALSE /\ UNCHANGED <<shown, companionUpdate>>
        BY <1>1 DEF Disconnected
    <2> QED BY <2>1, <2>2, <2>3, <2>4, <2>5 DEF BackgroundTypeOK
<1>2. CASE Render
    BY <1>2 DEF Render, BackgroundTypeOK, LinkTypeOK
<1>3. CASE EventPageSuspended
    BY <1>3 DEF EventPageSuspended, BackgroundTypeOK, LinkTypeOK, Statuses
<1>4. ASSUME NEW kind \in {"ping", "page", "cache"}, ProbeTimesOut(kind)
      PROVE  TypeOK'
    BY <1>4 DEF ProbeTimesOut, BackgroundTypeOK, LinkTypeOK
<1>5. ASSUME NEW id \in Ids, RequestTimesOut(id)
      PROVE  TypeOK'
    BY <1>5 DEF RequestTimesOut, BackgroundTypeOK, LinkTypeOK
<1> QED BY <1>1, <1>2, <1>3, <1>4, <1>5

\* A correlated command, of a page or of the alarm.
LEMMA CorrelatedType ==
    ASSUME TypeOK, UNCHANGED companionVars,
           NEW action \in CorrelatedActions, Correlated(action)
    PROVE  TypeOK'
<1> USE DEF TypeOK, CompanionTypeOK, companionVars, link
<1>1. CASE ConnectNativeThrows /\ UNCHANGED pending
    BY <1>1 DEF Correlated, ConnectNativeThrows, SetStatus,
                BackgroundTypeOK, LinkTypeOK, Statuses
<1>2. CASE /\ FreshIds # {}
           /\ Send(<<Request(action, NextId)>>)
           /\ pending' = [pending EXCEPT ![NextId] = action]
           /\ UNCHANGED <<status, socksPort>>
    <2>1. <<Request(action, NextId)>> \in Seq(InboundMessage)
        BY <1>2, MessagesWellFormed, FreshIdsInPool
    <2>2. LinkTypeOK' /\ companionPort' \in BOOLEAN
        BY <1>2, <2>1, SendType DEF BackgroundTypeOK
    <2>3. pending' \in [Ids -> CorrelatedActions \cup {"none"}]
        BY <1>2 DEF BackgroundTypeOK
    <2>4. UNCHANGED <<status, socksPort, shown, request, waiters,
                      companionProtocol, companionUpdate, unlocked>>
        BY <1>2 DEF Correlated
    <2> QED BY <2>2, <2>3, <2>4 DEF BackgroundTypeOK
<1> QED BY <1>1, <1>2 DEF Correlated

\* The buttons of the popup and the pages.
LEMMA UserType ==
    ASSUME TypeOK, UNCHANGED companionVars,
           \/ StartClick \/ StopClick \/ UpdateAlarm
           \/ \E kind \in Probes : Probe(kind)
           \/ \E action \in Commands : Correlated(action)
    PROVE  TypeOK'
<1> USE DEF TypeOK, CompanionTypeOK, companionVars, probeVars, gateVars, link
<1>1. CASE StartClick
    <2>1. /\ LinkTypeOK' /\ companionPort' \in BOOLEAN
          /\ status' \in {"starting", "error"} /\ socksPort' = socksPort
        BY <1>1, ConnectType DEF StartClick, BackgroundTypeOK
    <2>2. UNCHANGED <<shown, request, probeVars>>
        BY <1>1 DEF StartClick
    <2> QED BY <2>1, <2>2 DEF BackgroundTypeOK, Statuses
<1>2. CASE StopClick
    <2>1. <<Command("stop")>> \in Seq(InboundMessage)
        BY MessagesWellFormed DEF PlainActions
    <2>2. LinkTypeOK' /\ companionPort' \in BOOLEAN
        BY <1>2, <2>1, SendType DEF StopClick, BackgroundTypeOK
    <2>3. UNCHANGED <<gateVars, shown, probeVars>>
        BY <1>2 DEF StopClick
    <2> QED BY <2>2, <2>3 DEF BackgroundTypeOK
<1>3. CASE UpdateAlarm
    BY <1>3, CorrelatedType DEF UpdateAlarm, CorrelatedActions
<1>4. ASSUME NEW kind \in Probes, Probe(kind)
      PROVE  TypeOK'
    <2>1. CASE ConnectNativeThrows /\ UNCHANGED waiters
        BY <1>4, <2>1 DEF Probe, ConnectNativeThrows, SetStatus,
                          BackgroundTypeOK, LinkTypeOK, Statuses
    <2>2. CASE /\ Send(<<Command(IF kind = "ping" THEN "ping" ELSE "diagnostic")>>)
               /\ waiters' = waiters \cup {kind}
               /\ UNCHANGED <<status, socksPort>>
        <3>1. <<Command(IF kind = "ping" THEN "ping" ELSE "diagnostic")>>
                \in Seq(InboundMessage)
            BY MessagesWellFormed DEF PlainActions
        <3>2. LinkTypeOK' /\ companionPort' \in BOOLEAN
            BY <2>2, <3>1, SendType DEF BackgroundTypeOK
        <3>3. waiters' \subseteq {"ping", "page", "cache"}
            BY <2>2, BackgroundAssumption DEF BackgroundTypeOK
        <3>4. UNCHANGED <<status, socksPort, shown, request, pending,
                          companionProtocol, companionUpdate, unlocked>>
            BY <1>4, <2>2 DEF Probe
        <3> QED BY <3>2, <3>3, <3>4 DEF BackgroundTypeOK
    <2> QED BY <1>4, <2>1, <2>2 DEF Probe
<1>5. ASSUME NEW action \in Commands, Correlated(action)
      PROVE  TypeOK'
    BY <1>5, CorrelatedType, BackgroundAssumption DEF CorrelatedActions
<1> QED BY <1>1, <1>2, <1>3, <1>4, <1>5

\* Every step of the companion.
LEMMA CompanionType ==
    ASSUME TypeOK, UNCHANGED backgroundVars, CompanionNext
    PROVE  TypeOK'
<1> USE DEF TypeOK, CompanionTypeOK
<1>1. BackgroundTypeOK'
    BY DEF BackgroundTypeOK, backgroundVars, probeVars
<1>2. LinkTypeOK'
    <2>1. ASSUME NEW reply \in OutboundMessage, toCompanion # <<>>, Answers(reply)
          PROVE  LinkTypeOK'
        BY <2>1, AnswerType
    <2>2. CASE HandleStart
        <3>1. CASE backend # NoPort /\ Answers(Ready(backend))
            BY <2>1, <2>2, <3>1, MessagesWellFormed DEF HandleStart, Reads
        <3>2. CASE backend = NoPort
            BY <2>2, <3>2, HeadTailProperties DEF HandleStart, Reads, Answers, LinkTypeOK
        <3> QED BY <2>2, <3>1, <3>2 DEF HandleStart
    <2>3. CASE FinishStart
        <3>1. PICK reply \in OutboundMessage : toExtension' = Append(toExtension, reply)
            BY <2>3, MessagesWellFormed DEF FinishStart
        <3> QED BY <2>3, <3>1, AppendProperties DEF FinishStart, LinkTypeOK
    <2>4. CASE HandleStop \/ HandleProbe
        BY <2>1, <2>4, MessagesWellFormed DEF HandleStop, HandleProbe, Reads
    <2>5. CASE HandleUnlock \/ HandleLock \/ HandleAuthList \/ HandleOther
        <3> DEFINE m == Head(toCompanion)
        <3>1. /\ toCompanion # <<>>
              /\ m.action \in CorrelatedActions
            BY <2>5 DEF HandleUnlock, HandleLock, HandleAuthList, HandleOther,
                        Reads, CorrelatedActions
        <3>2. m.id \in Ids
            BY <3>1, InboundParts, HeadTailProperties DEF LinkTypeOK
        <3>3. \E ok, u \in BOOLEAN : Answers(Reply(m.id, ok, u))
            BY <2>5 DEF HandleUnlock, HandleLock, HandleAuthList, HandleOther
        <3> QED BY <2>1, <3>1, <3>2, <3>3, MessagesWellFormed
    <2>6. CASE ProtocolError
        <3>1. Plain("error") \in OutboundMessage
            BY MessagesWellFormed
        <3> QED BY <2>6, <3>1, HeadTailProperties, AppendProperties
                DEF ProtocolError, Exit, LinkTypeOK
    <2>7. CASE Crash
        BY <2>7 DEF Crash, Exit, LinkTypeOK
    <2> QED BY <2>2, <2>3, <2>4, <2>5, <2>6, <2>7 DEF CompanionNext, Handle
<1>3. CompanionTypeOK'
    BY DEF CompanionNext, Handle, HandleStart, FinishStart, HandleStop, HandleProbe,
           HandleUnlock, HandleLock, HandleAuthList, HandleOther, ProtocolError,
           Crash, Exit, companionVars
<1> QED BY <1>1, <1>2, <1>3

\* One step of a session keeps every variable in its type.
LEMMA TypeStep == TypeOK /\ [Next]_vars => TypeOK'
<1> SUFFICES ASSUME TypeOK, [Next]_vars
             PROVE  TypeOK'
    OBVIOUS
<1>1. CASE BackgroundNext /\ UNCHANGED companionVars
    BY <1>1, RequestType, DeliverType, EndingsType, UserType DEF BackgroundNext
<1>2. CASE CompanionNext /\ UNCHANGED backgroundVars
    BY <1>2, CompanionType
<1>3. CASE UNCHANGED vars
    BY <1>3 DEF vars, link, backgroundVars, probeVars, companionVars,
                TypeOK, LinkTypeOK, BackgroundTypeOK, CompanionTypeOK
<1> QED BY <1>1, <1>2, <1>3 DEF Next

\* The type invariant: whatever the interleaving, both pipes only ever hold
\* messages of messaging.rs, and the state of background.js stays in its types.
THEOREM TypeCorrect == Spec => []TypeOK
BY TypeInit, TypeStep, PTL DEF Spec

---------------------------------------------------------------------------
(***************************************************************************)
(* The gate.  Every step that moves the gate settles the promise in the    *)
(* same turn; a request that starts to wait does so at a gate that is      *)
(* neither open nor blocked, as long as connectNative does not throw (when *)
(* it does, waitForReady has just set the status to "error" and the        *)
(* request waits on: see the run connect_throws).                          *)
(***************************************************************************)

\* Steps that leave the gate's variables alone keep its invariant.
LEMMA GateUntouched ==
    ASSUME GateInvariant, TypeOK', UNCHANGED gateVars
    PROVE  GateInvariant'
BY DEF GateInvariant, NobodyWaitsAtOpenGate, Waiting, gateVars

\* connectCompanion, when connectNative returns.
LEMMA ConnectStarts ==
    ASSUME ~ConnectThrows, ConnectCompanion
    PROVE  status' = "starting" /\ socksPort' = socksPort
BY DEF ConnectCompanion, ConnectNativeThrows, SetStatus

\* No request waits any more once the promise is settled.
LEMMA SettledWaitNoMore ==
    ASSUME TypeOK, NEW answer \in Answered, SettleReady(answer)
    PROVE  \A r \in Requests : ~Waiting(r)'
BY PortsAssumption DEF SettleReady, Waiting, Answered, TypeOK, BackgroundTypeOK

\* What each step of the background page does to the gate: it answers one
\* request, starts a wait, frees a slot, opens, shuts or blocks the gate for
\* everybody, or does not touch it.
LEMMA GateSteps ==
    ASSUME GateInvariant, ~ConnectThrows, BackgroundNext
    PROVE  \/ \E r \in Requests : AnsweredByGate(r) \/ WaitForReady(r) \/ RequestDone(r)
           \/ /\ \E port \in Ports : SetStatus("ready", port) /\ SettleReady(port)
           \/ /\ SettleReady("unreachable")
              /\ \/ SetStatus("disconnected", NoPort)
                 \/ SetStatus("error", socksPort)
           \/ /\ ~companionPort /\ request' = request /\ socksPort' = socksPort
              /\ status' = "starting"
           \/ /\ \A r \in Requests : ~Waiting(r)
              /\ request' = request
              /\ SetStatus("disconnected", NoPort)
           \/ UNCHANGED gateVars
<1> USE DEF gateVars
<1>1. CASE \E r \in Requests : AnsweredByGate(r) \/ WaitForReady(r) \/ RequestDone(r)
    BY <1>1
<1>2. CASE Deliver
    <2>1. CASE OnReady
        <3>1. Head(toExtension).port \in Ports
            BY <2>1, ReceiveType, OutboundParts
            DEF OnReady, Receives, GateInvariant, TypeOK
        <3> QED BY <2>1, <3>1 DEF OnReady
    <2>2. CASE OnStopped
        BY <2>2 DEF OnStopped
    <2>3. CASE OnError
        BY <2>3 DEF OnError
    <2>4. CASE OnPong \/ OnDiagnostic \/ OnReply
        BY <2>4 DEF OnPong, OnDiagnostic, OnReply
    <2> QED BY <1>2, <2>1, <2>2, <2>3, <2>4 DEF Deliver
<1>3. CASE Disconnected
    BY <1>3 DEF Disconnected
<1>4. CASE StartClick
    BY <1>4, ConnectStarts DEF StartClick, ConnectCompanion
<1>5. CASE Render \/ StopClick
    BY <1>5 DEF Render, StopClick
<1>6. ASSUME NEW kind \in Probes, Probe(kind)
      PROVE  UNCHANGED gateVars
    BY <1>6 DEF Probe, ConnectNativeThrows
<1>7. ASSUME NEW action, Correlated(action)
      PROVE  UNCHANGED gateVars
    BY <1>7 DEF Correlated, ConnectNativeThrows
<1>8. CASE UpdateAlarm
    BY <1>8, <1>7 DEF UpdateAlarm
<1>9. CASE \/ \E kind \in {"ping", "page", "cache"} : ProbeTimesOut(kind)
           \/ \E id \in Ids : RequestTimesOut(id)
    BY <1>9 DEF ProbeTimesOut, RequestTimesOut
<1>10. CASE EventPageSuspended
    BY <1>10 DEF EventPageSuspended, SetStatus
<1> QED BY <1>1, <1>2, <1>3, <1>4, <1>5, <1>6, <1>7, <1>8, <1>9, <1>10
        DEF BackgroundNext

\* One step of the session keeps the gate's invariant.
LEMMA GateStep ==
    ASSUME GateInvariant, ~ConnectThrows, [Next]_vars
    PROVE  GateInvariant'
<1> USE DEF NobodyWaitsAtOpenGate
<1>1. TypeOK'
    BY TypeStep DEF GateInvariant
<1>2. CASE UNCHANGED gateVars
    BY <1>1, <1>2, GateUntouched
<1>3. CASE BackgroundNext
    <2>1. ASSUME NEW r \in Requests, AnsweredByGate(r) \/ RequestDone(r)
          PROVE  GateInvariant'
        <3>1. \A q \in Requests : Waiting(q)' => Waiting(q)
            BY <2>1, PortsAssumption
            DEF AnsweredByGate, RequestDone, Waiting, GateInvariant, TypeOK, BackgroundTypeOK
        <3> QED BY <1>1, <2>1, <3>1 DEF AnsweredByGate, RequestDone, GateInvariant
    <2>2. ASSUME NEW r \in Requests, WaitForReady(r)
          PROVE  GateInvariant'
        <3>1. status' \in {"disconnected", "starting"} /\ socksPort' = socksPort
            BY <2>2, ConnectStarts, PortsAssumption
            DEF WaitForReady, GateInvariant, TypeOK, BackgroundTypeOK, Statuses
        <3> QED BY <1>1, <3>1 DEF GateInvariant
    <2>3. ASSUME NEW port \in Ports, SetStatus("ready", port), SettleReady(port)
          PROVE  GateInvariant'
        BY <1>1, <2>3, SettledWaitNoMore DEF GateInvariant, SetStatus, Answered
    <2>4. CASE /\ SettleReady("unreachable")
               /\ \/ SetStatus("disconnected", NoPort)
                  \/ SetStatus("error", socksPort)
        BY <1>1, <2>4, SettledWaitNoMore DEF GateInvariant, SetStatus, Answered
    <2>5. CASE \/ status' = "starting"
               \/ SetStatus("disconnected", NoPort)
        BY <1>1, <2>5 DEF GateInvariant, SetStatus
    <2> QED BY <1>2, <1>3, <2>1, <2>2, <2>3, <2>4, <2>5, GateSteps
<1>4. CASE CompanionNext /\ UNCHANGED backgroundVars
    BY <1>2, <1>4 DEF backgroundVars, gateVars
<1>5. CASE UNCHANGED vars
    BY <1>2, <1>5 DEF vars, backgroundVars, gateVars
<1> QED BY <1>3, <1>4, <1>5 DEF Next

\* The gate's invariant, provided that connectNative does not throw.
LEMMA GateCorrect ==
    ASSUME ~ConnectThrows
    PROVE  Spec => []GateInvariant
<1>1. Init => GateInvariant
    BY TypeInit DEF Init, BackgroundInit, GateInvariant, NobodyWaitsAtOpenGate, Waiting
<1>2. GateInvariant /\ [Next]_vars => GateInvariant'
    BY GateStep
<1> QED BY <1>1, <1>2, PTL DEF Spec

\* A request of handleProxyRequest is never left waiting at a gate that already
\* has an answer for it.
THEOREM NobodyWaits ==
    ASSUME ~ConnectThrows
    PROVE  Spec => []NobodyWaitsAtOpenGate
<1>1. GateInvariant => NobodyWaitsAtOpenGate
    BY DEF GateInvariant
<1> QED BY <1>1, GateCorrect, PTL

---------------------------------------------------------------------------
(***************************************************************************)
(* The session implements the gate.                                        *)
(***************************************************************************)

\* The gate's state, by status.
LEMMA GateStates ==
    /\ status = "ready" => GateState = socksPort
    /\ status = "error" => GateState = "blocked"
    /\ status \in {"disconnected", "starting"} => GateState = "shut"
BY DEF GateState

\* Every step of the session is a step of the gate, or none.
LEMMA GateRefinement ==
    ASSUME GateInvariant, ~ConnectThrows, [Next]_vars
    PROVE  [Gate!Next]_(Gate!gateVars)
<1> USE DEF Gate!Next, Gate!gateVars
<1>1. CASE UNCHANGED gateVars
    BY <1>1 DEF GateState, gateVars
<1>2. CASE BackgroundNext
    <2>1. ASSUME NEW r \in Requests, AnsweredByGate(r)
          PROVE  Gate!Ask(r)
        BY <2>1 DEF AnsweredByGate, Gate!Ask, GateState, GateInvariant
    <2>2. ASSUME NEW r \in Requests, WaitForReady(r)
          PROVE  Gate!Ask(r)
        <3>1. status \in {"disconnected", "starting"} /\ status' \in {"disconnected", "starting"}
            BY <2>2, ConnectStarts, PortsAssumption
            DEF WaitForReady, GateInvariant, TypeOK, BackgroundTypeOK, Statuses
        <3> QED BY <2>2, <3>1 DEF WaitForReady, Gate!Ask, GateState
    <2>3. ASSUME NEW r \in Requests, RequestDone(r)
          PROVE  Gate!Done(r)
        BY <2>3 DEF RequestDone, Gate!Done, GateState, Answered
    <2>4. ASSUME NEW port \in Ports, SetStatus("ready", port), SettleReady(port)
          PROVE  Gate!Open(port)
        BY <2>4 DEF SetStatus, SettleReady, Waiting, Gate!Open, Gate!SettleAll, GateState
    <2>5. CASE SettleReady("unreachable") /\ SetStatus("disconnected", NoPort)
        <3>1. Gate!Shut
            BY <2>5 DEF SetStatus, SettleReady, Waiting, Gate!Shut, Gate!SettleAll, GateState
        <3> QED BY <3>1
    <2>6. CASE SettleReady("unreachable") /\ SetStatus("error", socksPort)
        <3>1. Gate!Block
            BY <2>6 DEF SetStatus, SettleReady, Waiting, Gate!Block, Gate!SettleAll, GateState
        <3> QED BY <3>1
    <2>7. CASE /\ request' = request
               /\ status' \in {"starting", "disconnected"}
               /\ \/ \A r \in Requests : ~Waiting(r)
                  \/ socksPort' = socksPort
        <3>1. CASE \A r \in Requests : ~Waiting(r)
            <4>1. request' = [r \in Requests |->
                                IF request[r] = "waiting" THEN "unreachable" ELSE request[r]]
                BY <2>7, <3>1 DEF Waiting, GateInvariant, TypeOK, BackgroundTypeOK
            <4>2. Gate!Shut
                BY <2>7, <4>1 DEF Gate!Shut, Gate!SettleAll, GateState
            <4> QED BY <4>2
        <3>2. CASE \E r \in Requests : Waiting(r)
            BY <2>7, <3>2 DEF GateInvariant, NobodyWaitsAtOpenGate, GateState
        <3> QED BY <3>1, <3>2
    <2> QED BY <1>1, <1>2, <2>1, <2>2, <2>3, <2>4, <2>5, <2>6, <2>7, GateSteps
            DEF SetStatus
<1>3. CASE CompanionNext /\ UNCHANGED backgroundVars
    BY <1>1, <1>3 DEF backgroundVars, gateVars
<1>4. CASE UNCHANGED vars
    BY <1>1, <1>4 DEF vars, backgroundVars, gateVars
<1> QED BY <1>2, <1>3, <1>4 DEF Next

\* What the gate promises the browser, the session keeps: no request is ever
\* answered with a port Tor was not just reported on, none is held while the
\* gate is open or blocked, and none is settled but by a move of the gate.
THEOREM SessionImplementsGate ==
    ASSUME ~ConnectThrows
    PROVE  Spec => ImplementsGate
<1>1. Init => Gate!Init
    BY DEF Init, BackgroundInit, Gate!Init, GateState
<1>2. GateInvariant /\ [Next]_vars => [Gate!Next]_(Gate!gateVars)
    BY GateRefinement
<1> QED BY <1>1, <1>2, GateCorrect, PTL DEF Spec, ImplementsGate, Gate!Spec

---------------------------------------------------------------------------
(***************************************************************************)
(* The pipes.  What follows is about positions in them: where a message    *)
(* that settles the promise, or the last word about the backend, stands.   *)
(***************************************************************************)

\* One command is posted.
LEMMA OnePosted ==
    ASSUME NEW m \in InboundMessage
    PROVE  /\ <<m>> \in Seq(InboundMessage) /\ DOMAIN <<m>> = {1} /\ <<m>>[1] = m
OBVIOUS

\* What the companion still has to do, or has said, for a request that waits.
Hope ==
    /\ companionPort
    /\ \/ process \in {"none", "starting"}
       \/ \E i \in DOMAIN toCompanion : toCompanion[i].action = "start"
       \/ Verdicts(toExtension) # {}

\* A start that is under way, like a request that waits, has reason to hope.
StartInv == status = "starting" \/ (\E r \in Requests : Waiting(r)) => Hope

\* Without a port there is no process, and nothing in the pipes.
PortInv ==
    ~companionPort => /\ process = "none" /\ toCompanion = <<>> /\ toExtension = <<>>
                      /\ status # "ready"

\* A backend is held by a running process, which does not look for another one.
BackendInv == process \in {"none", "starting"} => backend = NoPort

\* What the answer to a message posts.
LEMMA DeliverPosts ==
    ASSUME TypeOK, Deliver
    PROVE  \E messages \in Seq(InboundMessage) : toCompanion' = toCompanion \o messages
<1> USE DEF TypeOK
<1>1. CASE OnReady
    BY <1>1, ReadyProbesWellFormed DEF OnReady
<1>2. CASE OnReply /\ toCompanion' # toCompanion
    <2>1. FreshIds # {} /\ toCompanion' = Append(toCompanion, Request("auth-list", NextId))
        BY <1>2 DEF OnReply, LateReply, UpdateInfo, AuthIndex, AuthDone
    <2>2. toCompanion' = toCompanion \o <<Request("auth-list", NextId)>>
        BY <2>1 DEF LinkTypeOK
    <2>3. <<Request("auth-list", NextId)>> \in Seq(InboundMessage)
        BY <2>1, FreshIdsInPool, MessagesWellFormed, OnePosted DEF CorrelatedActions
    <2> QED BY <2>2, <2>3
<1>3. CASE toCompanion' = toCompanion
    <2>1. toCompanion' = toCompanion \o << >> /\ << >> \in Seq(InboundMessage)
        BY <1>3, ConcatEmptySeq, EmptySeq DEF LinkTypeOK
    <2> QED BY <2>1
<1> QED BY <1>1, <1>2, <1>3 DEF Deliver, OnStopped, OnError, OnPong, OnDiagnostic

\* How the background page acts on the pipes.
LEMMA PageMoves ==
    ASSUME TypeOK, BackgroundNext
    PROVE  \/ /\ UNCHANGED <<link, companionPort>>
              /\ \/ UNCHANGED <<status, socksPort>>
                 \/ ~companionPort /\ status' \in {"disconnected", "error"}
           \/ \E messages \in Seq(InboundMessage) :
                 /\ Send(messages)
                 /\ \/ UNCHANGED <<status, socksPort>>
                    \/ ~companionPort /\ status' = "starting"
           \/ /\ Deliver
              /\ \E messages \in Seq(InboundMessage) : toCompanion' = toCompanion \o messages
           \/ Disconnected
<1> USE DEF TypeOK
<1>0. /\ \A a \in PlainActions : <<Command(a)>> \in Seq(InboundMessage)
      /\ \A a \in CorrelatedActions, i \in Ids : <<Request(a, i)>> \in Seq(InboundMessage)
    BY MessagesWellFormed, OnePosted
<1>a. CASE ConnectCompanion
    BY <1>0, <1>a DEF ConnectCompanion, ConnectNativeThrows, SetStatus, PlainActions
<1>1. ASSUME NEW r \in Requests, AnsweredByGate(r) \/ WaitForReady(r) \/ RequestDone(r)
      PROVE  \/ /\ UNCHANGED <<link, companionPort>>
                /\ \/ UNCHANGED <<status, socksPort>>
                   \/ ~companionPort /\ status' \in {"disconnected", "error"}
             \/ \E messages \in Seq(InboundMessage) :
                   /\ Send(messages)
                   /\ \/ UNCHANGED <<status, socksPort>>
                      \/ ~companionPort /\ status' = "starting"
    BY <1>0, <1>1 DEF AnsweredByGate, WaitForReady, RequestDone, PlainActions,
                      ConnectCompanion, ConnectNativeThrows, SetStatus
<1>2. CASE Deliver
    BY <1>2, DeliverPosts
<1>3. CASE Disconnected
    BY <1>3
<1>4. CASE StartClick
    BY <1>4, <1>a DEF StartClick
<1>5. CASE Render
    BY <1>5 DEF Render, gateVars
<1>6. CASE StopClick
    BY <1>0, <1>6 DEF StopClick, gateVars, PlainActions
<1>7. ASSUME NEW kind \in Probes, Probe(kind)
      PROVE  \/ /\ UNCHANGED <<link, companionPort>>
                /\ ~companionPort /\ status' \in {"disconnected", "error"}
             \/ \E messages \in Seq(InboundMessage) :
                   Send(messages) /\ UNCHANGED <<status, socksPort>>
    BY <1>0, <1>7 DEF Probe, ConnectNativeThrows, SetStatus, PlainActions
<1>8. ASSUME NEW action \in CorrelatedActions, Correlated(action)
      PROVE  \/ /\ UNCHANGED <<link, companionPort>>
                /\ ~companionPort /\ status' \in {"disconnected", "error"}
             \/ \E messages \in Seq(InboundMessage) :
                   Send(messages) /\ UNCHANGED <<status, socksPort>>
    BY <1>0, <1>8, FreshIdsInPool DEF Correlated, ConnectNativeThrows, SetStatus
<1>9. CASE UpdateAlarm
    BY <1>8, <1>9 DEF UpdateAlarm, CorrelatedActions
<1>10. ASSUME NEW action \in Commands, Correlated(action)
       PROVE  action \in CorrelatedActions
    BY BackgroundAssumption DEF CorrelatedActions
<1>11. CASE \/ \E kind \in {"ping", "page", "cache"} : ProbeTimesOut(kind)
            \/ \E id \in Ids : RequestTimesOut(id)
    BY <1>11 DEF ProbeTimesOut, RequestTimesOut, gateVars
<1>12. CASE EventPageSuspended
    BY <1>12 DEF EventPageSuspended
<1> QED BY <1>1, <1>2, <1>3, <1>4, <1>5, <1>6, <1>7, <1>8, <1>9, <1>10, <1>11, <1>12
        DEF BackgroundNext


\* What each handler of the companion does to the pipes: it takes the head of
\* one and writes to the other, or starts or ends a search, or ends itself.
LEMMA CompanionMoves ==
    ASSUME TypeOK, CompanionNext
    PROVE  \/ /\ process = "idle" /\ toCompanion # <<>> /\ backend' = backend
              /\ Head(toCompanion).action # "stop"
              /\ \E reply \in OutboundMessage :
                    /\ Answers(reply)
                    /\ \/ /\ Head(toCompanion).action = "start"
                          /\ reply = Ready(backend) /\ backend # NoPort
                       \/ /\ Head(toCompanion).action # "start"
                          /\ reply.status \in {"pong", "diagnostic", "reply"}
           \/ /\ process = "idle" /\ toCompanion # <<>> /\ backend' = NoPort
              /\ Head(toCompanion).action = "stop"
              /\ Answers(Plain("stopped"))
           \/ /\ process = "idle" /\ toCompanion # <<>> /\ backend = NoPort /\ backend' = NoPort
              /\ process' = "starting" /\ toCompanion' = Tail(toCompanion)
              /\ toExtension' = toExtension
           \/ /\ process = "starting" /\ process' = "idle" /\ toCompanion' = toCompanion
              /\ \/ \E port \in Ports : /\ backend' = port
                                        /\ toExtension' = Append(toExtension, Ready(port))
                 \/ backend' = backend /\ toExtension' = Append(toExtension, Plain("error"))
           \/ /\ process # "none" /\ process' = "none" /\ backend' = NoPort
<1> USE DEF TypeOK
<1>0. toCompanion # <<>> => Head(toCompanion) \in InboundMessage
    BY HeadTailProperties DEF LinkTypeOK
<1>1. CASE HandleStart
    <2>1. backend # NoPort => Ready(backend) \in OutboundMessage
        BY MessagesWellFormed DEF CompanionTypeOK
    <2> QED BY <1>1, <2>1 DEF HandleStart, Reads, companionVars
<1>2. CASE HandleStop
    BY <1>2 DEF HandleStop, Reads
<1>3. CASE HandleProbe
    <2>1. /\ Plain("pong") \in OutboundMessage /\ Plain("diagnostic") \in OutboundMessage
          /\ Plain("pong").status = "pong" /\ Plain("diagnostic").status = "diagnostic"
        BY MessagesWellFormed DEF Plain
    <2> QED BY <1>3, <2>1 DEF HandleProbe, Reads, companionVars
<1>4. CASE HandleUnlock \/ HandleLock \/ HandleAuthList \/ HandleOther
    <2>1. /\ process = "idle" /\ toCompanion # <<>> /\ backend' = backend
          /\ Head(toCompanion).action \in CorrelatedActions
        BY <1>4 DEF HandleUnlock, HandleLock, HandleAuthList, HandleOther, Reads,
                    CorrelatedActions, companionVars
    <2>2. Head(toCompanion).id \in Ids
        BY <1>0, <2>1, InboundParts
    <2>3. PICK ok \in BOOLEAN, u \in BOOLEAN : Answers(Reply(Head(toCompanion).id, ok, u))
        BY <1>4 DEF HandleUnlock, HandleLock, HandleAuthList, HandleOther, CompanionTypeOK
    <2>4. /\ Reply(Head(toCompanion).id, ok, u) \in OutboundMessage
          /\ Reply(Head(toCompanion).id, ok, u).status = "reply"
        BY <2>2, MessagesWellFormed DEF Reply
    <2> QED BY <2>1, <2>3, <2>4 DEF CorrelatedActions
<1>5. CASE ProtocolError \/ Crash
    BY <1>5 DEF ProtocolError, Crash, Exit
<1>6. CASE FinishStart
    BY <1>6 DEF FinishStart
<1> QED BY <1>1, <1>2, <1>3, <1>4, <1>5, <1>6 DEF CompanionNext, Handle

\* The process at the far end of the port, and the backend that it holds.
LEMMA PortStep ==
    ASSUME TypeOK, PortInv, BackendInv, [Next]_vars
    PROVE  PortInv' /\ BackendInv'
<1> USE DEF PortInv, BackendInv
<1>1. CASE BackgroundNext /\ UNCHANGED companionVars
    <2>1. CASE UNCHANGED <<link, companionPort>>
        <3>1. CASE ~companionPort
            <4>1. ~Deliver /\ ~Disconnected
                BY <3>1 DEF Deliver, OnReady, OnStopped, OnError, OnPong, OnDiagnostic,
                            OnReply, Receives, Disconnected
            <4>2. \A messages : ~Send(messages)
                BY <2>1, <3>1 DEF Send, EnsureCompanionPort, TypeOK, BackgroundTypeOK
            <4>3. status' # "ready"
                BY <1>1, <3>1, <4>1, <4>2, PageMoves
            <4> QED BY <1>1, <2>1, <4>3 DEF link, companionVars
        <3>2. CASE companionPort
            BY <1>1, <2>1, <3>2 DEF link, companionVars
        <3> QED BY <3>1, <3>2
    <2>2. ASSUME NEW messages \in Seq(InboundMessage), Send(messages)
          PROVE  PortInv' /\ BackendInv'
        <3>1. companionPort' = TRUE /\ backend' = backend
            BY <1>1, <2>2 DEF Send, EnsureCompanionPort, companionVars, TypeOK, BackgroundTypeOK
        <3>2. process' = process \/ ~companionPort
            BY <2>2 DEF Send, EnsureCompanionPort
        <3>3. process' \in {"none", "starting"} => backend = NoPort
            BY <3>2
        <3> QED BY <3>1, <3>3
    <2>3. CASE Deliver
        <3>1. \E s : Receives(s)
            BY <2>3 DEF Deliver, OnReady, OnStopped, OnError, OnPong, OnDiagnostic, OnReply
        <3> QED BY <1>1, <3>1 DEF Receives, companionVars
    <2>4. CASE Disconnected
        BY <1>1, <2>4 DEF Disconnected, SetStatus, companionVars
    <2> QED BY <1>1, <2>1, <2>2, <2>3, <2>4, PageMoves
<1>2. CASE CompanionNext /\ UNCHANGED backgroundVars
    BY <1>2, CompanionMoves DEF backgroundVars, Answers
<1>3. CASE UNCHANGED vars
    BY <1>3 DEF vars, link, backgroundVars, companionVars
<1> QED BY <1>1, <1>2, <1>3 DEF Next


\* What is posted takes nobody's hope away, and a start gives it.
LEMMA PostedHope ==
    ASSUME TypeOK, NEW messages \in Seq(InboundMessage), Send(messages)
    PROVE  /\ Hope => Hope'
           /\ (\E i \in DOMAIN messages : messages[i].action = "start") => Hope'
<1>1. companionPort' = TRUE /\ toExtension' = toExtension /\ toCompanion' = toCompanion \o messages
    BY DEF Send, EnsureCompanionPort, TypeOK, BackgroundTypeOK
<1>2. companionPort => process' = process
    BY DEF Send, EnsureCompanionPort
<1>3. /\ \A i \in DOMAIN toCompanion : i \in DOMAIN toCompanion' /\ toCompanion'[i] = toCompanion[i]
      /\ \A i \in DOMAIN messages : \E j \in DOMAIN toCompanion' : toCompanion'[j] = messages[i]
    <2> DEFINE q == toCompanion \o messages
    <2>1. /\ \A i \in DOMAIN toCompanion : i \in DOMAIN q /\ q[i] = toCompanion[i]
          /\ \A i \in DOMAIN messages :
                Len(toCompanion) + i \in DOMAIN q /\ q[Len(toCompanion) + i] = messages[i]
        BY Joined DEF TypeOK, LinkTypeOK
    <2>2. toCompanion' = q
        BY <1>1
    <2> HIDE DEF q
    <2> QED BY <2>1, <2>2
<1> QED BY <1>1, <1>2, <1>3 DEF Hope, Verdicts

\* Opening the port to start posts the command.
LEMMA StartHope ==
    ASSUME TypeOK, ~ConnectThrows, ConnectCompanion
    PROVE  Hope'
<1>1. Send(<<Command("start")>>)
    BY DEF ConnectCompanion, ConnectNativeThrows
<1>2. <<Command("start")>> \in Seq(InboundMessage) /\ 1 \in DOMAIN <<Command("start")>>
      /\ <<Command("start")>>[1].action = "start"
    BY MessagesWellFormed, OnePosted DEF PlainActions, Command
<1> QED BY <1>1, <1>2, PostedHope

\* The page: a request that starts to wait has a start posted, or finds one
\* under way; the message that ends the hope settles the promise.
LEMMA PageHope ==
    ASSUME GateInvariant, StartInv, ~ConnectThrows, BackgroundNext
    PROVE  StartInv'
<1> USE DEF GateInvariant
<1>0. UNCHANGED <<link, companionPort>> => Hope' = Hope
    BY DEF link, Hope, Verdicts
<1>1. ASSUME NEW r \in Requests, AnsweredByGate(r) \/ RequestDone(r)
      PROVE  StartInv'
    <2>1. \A q \in Requests : Waiting(q)' => Waiting(q)
        BY <1>1, PortsAssumption
        DEF AnsweredByGate, RequestDone, Waiting, TypeOK, BackgroundTypeOK
    <2>2. UNCHANGED <<link, companionPort, status>>
        BY <1>1 DEF AnsweredByGate, RequestDone
    <2> QED BY <1>0, <2>1, <2>2 DEF StartInv
<1>2. ASSUME NEW r \in Requests, WaitForReady(r)
      PROVE  StartInv'
    <2>1. CASE ConnectCompanion
        BY <2>1, StartHope DEF StartInv
    <2>2. CASE Send(<<Command("start")>>)
        <3>1. <<Command("start")>> \in Seq(InboundMessage) /\ 1 \in DOMAIN <<Command("start")>>
              /\ <<Command("start")>>[1].action = "start"
            BY MessagesWellFormed, OnePosted DEF PlainActions, Command
        <3> QED BY <2>2, <3>1, PostedHope DEF StartInv
    <2>3. CASE /\ companionPort /\ status \in {"starting", "ready"}
               /\ UNCHANGED <<link, companionPort, status, socksPort>>
        <3>1. status = "starting"
            BY <1>2, <2>3, PortsAssumption DEF WaitForReady
        <3> QED BY <1>0, <2>3, <3>1 DEF StartInv
    <2> QED BY <1>2, <2>1, <2>2, <2>3 DEF WaitForReady
<1>3. CASE Deliver
    <2>1. CASE OnReady
        <3>1. Head(toExtension).port \in Ports
            BY <2>1, ReceiveType, OutboundParts DEF OnReady, Receives, TypeOK
        <3>2. \A r \in Requests : ~Waiting(r)'
            BY <2>1, <3>1, SettledWaitNoMore DEF OnReady, Answered
        <3> QED BY <2>1, <3>2 DEF OnReady, SetStatus, StartInv
    <2>2. CASE OnStopped \/ OnError
        <3>1. \A r \in Requests : ~Waiting(r)'
            BY <2>2, SettledWaitNoMore DEF OnStopped, OnError, Answered
        <3> QED BY <2>2, <3>1 DEF OnStopped, OnError, SetStatus, StartInv
    <2>3. CASE OnPong \/ OnDiagnostic \/ OnReply
        <3>1. /\ Receives("pong") \/ Receives("diagnostic") \/ Receives("reply")
              /\ UNCHANGED gateVars
            BY <2>3 DEF OnPong, OnDiagnostic, OnReply
        <3>2. PICK messages \in Seq(InboundMessage) : toCompanion' = toCompanion \o messages
            BY <1>3, DeliverPosts
        <3>3. \A i \in DOMAIN toCompanion :
                 i \in DOMAIN toCompanion' /\ toCompanion'[i] = toCompanion[i]
            BY <3>2, Joined DEF TypeOK, LinkTypeOK
        <3>4. Verdicts(toExtension) # {} => Verdicts(toExtension') # {}
            <4>1. toExtension # <<>> /\ toExtension' = Tail(toExtension)
                  /\ Head(toExtension).status \notin {"ready", "stopped", "error"}
                BY <3>1 DEF Receives
            <4>2. \A i \in Verdicts(toExtension) : i - 1 \in Verdicts(toExtension')
                BY <4>1, Shortened DEF Verdicts, TypeOK, LinkTypeOK
            <4> QED BY <4>2
        <3>5. Hope => Hope'
            BY <3>1, <3>3, <3>4 DEF Hope, Receives
        <3> QED BY <3>1, <3>5 DEF StartInv, gateVars, Waiting
    <2> QED BY <1>3, <2>1, <2>2, <2>3 DEF Deliver
<1>4. CASE Disconnected
    <2>1. \A r \in Requests : ~Waiting(r)'
        BY <1>4, SettledWaitNoMore DEF Disconnected, Answered
    <2> QED BY <1>4, <2>1 DEF Disconnected, SetStatus, StartInv
<1>5. CASE StartClick
    BY <1>5, StartHope DEF StartClick, StartInv
<1>6. CASE EventPageSuspended
    BY <1>6 DEF EventPageSuspended, StartInv, Waiting
<1>7. CASE \/ Render \/ StopClick \/ UpdateAlarm
           \/ \E kind \in Probes : Probe(kind)
           \/ \E action \in Commands : Correlated(action)
           \/ \E kind \in {"ping", "page", "cache"} : ProbeTimesOut(kind)
           \/ \E id \in Ids : RequestTimesOut(id)
    <2>1. UNCHANGED gateVars
        BY <1>7 DEF Render, StopClick, UpdateAlarm, Probe, Correlated, ProbeTimesOut,
                    RequestTimesOut, ConnectNativeThrows, gateVars
    <2>2. toExtension' = toExtension
        BY <1>7 DEF Render, StopClick, UpdateAlarm, Probe, Correlated, ProbeTimesOut,
                    RequestTimesOut, ConnectNativeThrows, Send, link
    <2>3. companionPort' = companionPort \/ companionPort' = TRUE
        BY <1>7 DEF Render, StopClick, UpdateAlarm, Probe, Correlated, ProbeTimesOut,
                    RequestTimesOut, ConnectNativeThrows, Send, EnsureCompanionPort, link
    <2>4. ~Deliver
        <3>1. Tail(toExtension) # toExtension \/ toExtension = <<>>
            BY Shortened, LenProperties DEF TypeOK, LinkTypeOK
        <3> QED BY <2>2, <3>1 DEF Deliver, OnReady, OnStopped, OnError, OnPong,
                                  OnDiagnostic, OnReply, Receives
    <2>5. ~companionPort \/ ~Disconnected
        BY <2>3 DEF Disconnected, TypeOK, BackgroundTypeOK
    <2>6. Hope => Hope'
        BY <1>0, <2>4, <2>5, PageMoves, PostedHope DEF Hope
    <2> QED BY <2>1, <2>6 DEF StartInv, gateVars, Waiting
<1> QED BY <1>1, <1>2, <1>3, <1>4, <1>5, <1>6, <1>7 DEF BackgroundNext


\* The companion: a start that is read is being carried out or answered; other
\* commands leave it where it is.
LEMMA CompanionHope ==
    ASSUME TypeOK, Hope, CompanionNext, UNCHANGED backgroundVars
    PROVE  Hope'
<1> USE DEF TypeOK
<1>0. companionPort' = companionPort
    BY DEF backgroundVars
<1>1. ASSUME NEW reply \in OutboundMessage, toExtension' = Append(toExtension, reply)
      PROVE  /\ Verdicts(toExtension) # {} => Verdicts(toExtension') # {}
             /\ reply.status \in {"ready", "stopped", "error"} => Verdicts(toExtension') # {}
    <2>1. /\ \A i \in Verdicts(toExtension) : i \in Verdicts(toExtension')
          /\ reply.status \in {"ready", "stopped", "error"} =>
                Len(toExtension) + 1 \in Verdicts(toExtension')
        BY <1>1, Appended DEF Verdicts, LinkTypeOK
    <2> QED BY <2>1
<1>2. ASSUME toCompanion # <<>>, toCompanion' = Tail(toCompanion),
             Head(toCompanion).action # "start",
             NEW i \in DOMAIN toCompanion, toCompanion[i].action = "start"
      PROVE  \E j \in DOMAIN toCompanion' : toCompanion'[j].action = "start"
    <2>1. i > 1
        BY <1>2, Shortened DEF LinkTypeOK
    <2>2. i - 1 \in DOMAIN toCompanion' /\ toCompanion'[i - 1] = toCompanion[i]
        BY <1>2, <2>1, Shortened DEF LinkTypeOK
    <2> QED BY <1>2, <2>2
<1>3. CASE \/ process = "idle" /\ process' = "starting"
           \/ process' = "none"
    BY <1>0, <1>3 DEF Hope
<1>4. CASE /\ process = "idle" /\ toCompanion # <<>>
           /\ \E reply \in OutboundMessage :
                 /\ Answers(reply)
                 /\ \/ reply.status \in {"ready", "stopped", "error"}
                    \/ Head(toCompanion).action # "start"
    <2>1. PICK reply \in OutboundMessage :
             /\ toCompanion' = Tail(toCompanion) /\ process' = process
             /\ toExtension' = Append(toExtension, reply)
             /\ \/ reply.status \in {"ready", "stopped", "error"}
                \/ Head(toCompanion).action # "start"
        BY <1>4 DEF Answers
    <2> QED BY <1>0, <1>1, <1>2, <1>4, <2>1 DEF Hope
<1>5. CASE /\ process = "starting" /\ process' = "idle"
           /\ \/ \E port \in Ports : toExtension' = Append(toExtension, Ready(port))
              \/ toExtension' = Append(toExtension, Plain("error"))
    BY <1>0, <1>1, <1>5, MessagesWellFormed DEF Hope, Ready, Plain
<1>6. Plain("stopped") \in OutboundMessage /\ Plain("stopped").status = "stopped"
      /\ \A port : Ready(port).status = "ready"
    BY MessagesWellFormed DEF Plain, Ready
<1> QED BY <1>3, <1>4, <1>5, <1>6, CompanionMoves

\* One step of the session takes no hope away from those who wait.
LEMMA HopeStep ==
    ASSUME GateInvariant, StartInv, ~ConnectThrows, [Next]_vars
    PROVE  StartInv'
<1>1. CASE BackgroundNext
    BY <1>1, PageHope
<1>2. CASE CompanionNext /\ UNCHANGED backgroundVars
    BY <1>2, CompanionHope DEF GateInvariant, StartInv, backgroundVars, Waiting
<1>3. CASE UNCHANGED vars
    BY <1>3 DEF vars, link, backgroundVars, StartInv, Hope, Verdicts, Waiting
<1> QED BY <1>1, <1>2, <1>3 DEF Next

\* waitForReady (background.js:360-376): a request that waits is never
\* abandoned, whatever build is installed and whatever times out: a start is on
\* its way or under way, the message that settles the promise is on its way
\* back, or the process has ended and its disconnect will settle it.
THEOREM NobodyIsStranded ==
    ASSUME ~ConnectThrows
    PROVE  Spec => []NoStrandedRequest
<1>1. Init => StartInv
    BY DEF Init, BackgroundInit, StartInv, Waiting
<1>2. GateInvariant /\ StartInv /\ [Next]_vars => StartInv'
    BY HopeStep
<1>3. GateInvariant /\ StartInv => NoStrandedRequest
    <2> SUFFICES ASSUME StartInv, \E r \in Requests : Waiting(r)
                 PROVE  /\ companionPort
                        /\ \/ process \in {"none", "starting"}
                           \/ \E m \in Sent(toCompanion) : m.action = "start"
                           \/ \E m \in Sent(toExtension) : m.status \in {"ready", "stopped", "error"}
        BY DEF NoStrandedRequest
    <2>1. Hope
        BY DEF StartInv
    <2>2. ASSUME NEW i \in DOMAIN toCompanion, toCompanion[i].action = "start"
          PROVE  \E m \in Sent(toCompanion) : m.action = "start"
        BY <2>2 DEF Sent
    <2>3. ASSUME NEW i \in Verdicts(toExtension)
          PROVE  \E m \in Sent(toExtension) : m.status \in {"ready", "stopped", "error"}
        BY <2>3 DEF Verdicts, Sent
    <2> QED BY <2>1, <2>2, <2>3 DEF Hope
<1> QED BY <1>1, <1>2, <1>3, GateCorrect, PTL DEF Spec


---------------------------------------------------------------------------
(***************************************************************************)
(* The status and the backend.                                             *)
(***************************************************************************)

\* What a verdict with this status and port says of the backend.
Tells(verdict, port) ==
    /\ verdict = "ready" => backend = port
    /\ verdict # "ready" => backend = NoPort

\* The last verdict of the pipe, or the status if there is none, is right.
LastTells ==
    companionPort /\ process # "none" =>
        \/ Verdicts(toExtension) = {} /\ Tells(status, socksPort)
        \/ \E i \in Verdicts(toExtension) :
              /\ \A j \in Verdicts(toExtension) : j =< i
              /\ toExtension[i].status = "ready" => backend = toExtension[i].port
              /\ toExtension[i].status # "ready" => backend = NoPort

\* A reply comes last; if it is no verdict, the verdicts are those of before.
LEMMA WrittenVerdicts ==
    ASSUME LinkTypeOK, NEW reply \in OutboundMessage,
           toExtension' = Append(toExtension, reply)
    PROVE  /\ reply.status \in {"ready", "stopped", "error"} =>
                 \E i \in Verdicts(toExtension') :
                    /\ \A j \in Verdicts(toExtension') : j =< i
                    /\ toExtension'[i] = reply
           /\ reply.status \notin {"ready", "stopped", "error"} =>
                 /\ Verdicts(toExtension') = Verdicts(toExtension)
                 /\ \A i \in Verdicts(toExtension) : toExtension'[i] = toExtension[i]
<1> DEFINE s == toExtension
           q == Append(s, reply)
<1>1. /\ Len(s) \in Nat /\ DOMAIN s = 1..Len(s) /\ DOMAIN q = 1..(Len(s) + 1)
      /\ \A i \in DOMAIN s : q[i] = s[i]
      /\ q[Len(s) + 1] = reply
    BY Appended DEF LinkTypeOK
<1>2. toExtension' = q
    OBVIOUS
<1> HIDE DEF q
<1>3. ASSUME reply.status \in {"ready", "stopped", "error"}
      PROVE  \E i \in Verdicts(q) : (\A j \in Verdicts(q) : j =< i) /\ q[i] = reply
    <2>1. Len(s) + 1 \in Verdicts(q) /\ \A j \in Verdicts(q) : j =< Len(s) + 1
        BY <1>1, <1>3 DEF Verdicts
    <2> QED BY <1>1, <2>1
<1>4. ASSUME reply.status \notin {"ready", "stopped", "error"}
      PROVE  /\ Verdicts(q) = Verdicts(s)
             /\ \A i \in Verdicts(s) : q[i] = s[i]
    BY <1>1, <1>4 DEF Verdicts
<1> QED BY <1>2, <1>3, <1>4

\* The first message is delivered: the others are one place nearer.
LEMMA TakenVerdicts ==
    ASSUME LinkTypeOK, toExtension # <<>>, toExtension' = Tail(toExtension)
    PROVE  /\ \A i \in Verdicts(toExtension) :
                 i > 1 => i - 1 \in Verdicts(toExtension') /\ toExtension'[i - 1] = toExtension[i]
           /\ \A i \in Verdicts(toExtension') :
                 i + 1 \in Verdicts(toExtension) /\ toExtension'[i] = toExtension[i + 1]
           /\ 1 \in Verdicts(toExtension) <=>
                 Head(toExtension).status \in {"ready", "stopped", "error"}
           /\ Head(toExtension) = toExtension[1]
           /\ Verdicts(toExtension) \subseteq Nat \ {0} /\ Verdicts(toExtension') \subseteq Nat \ {0}
<1> DEFINE s == toExtension
           q == Tail(s)
<1>1. /\ 1 \in DOMAIN s /\ Head(s) = s[1]
      /\ DOMAIN s = 1..Len(s) /\ Len(s) \in Nat \ {0} /\ DOMAIN q = 1..(Len(s) - 1)
      /\ \A i \in DOMAIN q : i + 1 \in DOMAIN s /\ q[i] = s[i + 1]
      /\ \A i \in DOMAIN s : i > 1 => i - 1 \in DOMAIN q /\ q[i - 1] = s[i]
    BY Shortened DEF LinkTypeOK
<1>2. toExtension' = q
    OBVIOUS
<1> HIDE DEF q
<1>3. \A i \in Verdicts(s) : i > 1 => i - 1 \in Verdicts(q) /\ q[i - 1] = s[i]
    BY <1>1 DEF Verdicts
<1>4. \A i \in Verdicts(q) : i + 1 \in Verdicts(s) /\ q[i] = s[i + 1]
    BY <1>1 DEF Verdicts
<1>5. /\ 1 \in Verdicts(s) <=> Head(s).status \in {"ready", "stopped", "error"}
      /\ Verdicts(s) \subseteq Nat \ {0} /\ Verdicts(q) \subseteq Nat \ {0}
    BY <1>1 DEF Verdicts
<1> QED BY <1>1, <1>2, <1>3, <1>4, <1>5

\* A message that is delivered becomes the status, unless a later one follows.
LEMMA DeliverTells ==
    ASSUME TypeOK, LastTells, Deliver, UNCHANGED companionVars
    PROVE  LastTells'
<1> DEFINE m == Head(toExtension)
           s == toExtension
           q == toExtension'
<1>1. /\ toExtension # <<>> /\ q = Tail(s)
      /\ UNCHANGED <<companionPort, process, backend>>
    BY DEF Deliver, OnReady, OnStopped, OnError, OnPong, OnDiagnostic, OnReply, Receives,
           companionVars
<1>2. /\ m.status = "ready" => status' = "ready" /\ socksPort' = m.port
      /\ m.status \in {"stopped", "error"} => status' # "ready"
      /\ m.status \notin {"ready", "stopped", "error"} => UNCHANGED <<status, socksPort>>
    BY DEF Deliver, OnReady, OnStopped, OnError, OnPong, OnDiagnostic, OnReply, Receives,
           SetStatus, gateVars
<1>3. /\ \A i \in Verdicts(s) : i > 1 => i - 1 \in Verdicts(q) /\ q[i - 1] = s[i]
      /\ \A i \in Verdicts(q) : i + 1 \in Verdicts(s) /\ q[i] = s[i + 1]
      /\ 1 \in Verdicts(s) <=> m.status \in {"ready", "stopped", "error"}
      /\ m = s[1]
      /\ Verdicts(s) \subseteq Nat \ {0} /\ Verdicts(q) \subseteq Nat \ {0}
    BY <1>1, TakenVerdicts DEF TypeOK
<1> HIDE DEF m, s, q
<1>4. SUFFICES ASSUME companionPort, process # "none"
               PROVE  \/ Verdicts(q) = {} /\ Tells(status, socksPort)'
                      \/ \E i \in Verdicts(q) :
                            /\ \A j \in Verdicts(q) : j =< i
                            /\ q[i].status = "ready" => backend = q[i].port
                            /\ q[i].status # "ready" => backend = NoPort
    BY <1>1 DEF LastTells, q
<1>5. CASE Verdicts(s) = {} /\ Tells(status, socksPort)
    <2>1. Verdicts(q) = {} /\ UNCHANGED <<status, socksPort>>
        BY <1>2, <1>3, <1>5
    <2> QED BY <1>1, <1>5, <2>1 DEF Tells
<1>6. ASSUME NEW i \in Verdicts(s), \A j \in Verdicts(s) : j =< i,
             s[i].status = "ready" => backend = s[i].port,
             s[i].status # "ready" => backend = NoPort
      PROVE  \/ Verdicts(q) = {} /\ Tells(status, socksPort)'
             \/ \E k \in Verdicts(q) :
                   /\ \A j \in Verdicts(q) : j =< k
                   /\ q[k].status = "ready" => backend = q[k].port
                   /\ q[k].status # "ready" => backend = NoPort
    <2>1. CASE i = 1
        <3>1. Verdicts(q) = {}
            <4> SUFFICES ASSUME NEW j \in Verdicts(q) PROVE FALSE
                OBVIOUS
            <4>1. j + 1 =< 1 /\ j \in Nat \ {0}
                BY <1>3, <1>6, <2>1
            <4> QED BY <4>1
        <3>2. Tells(status, socksPort)'
            BY <1>1, <1>2, <1>3, <1>6, <2>1 DEF Tells
        <3> QED BY <3>1, <3>2
    <2>2. CASE i > 1
        <3>1. i - 1 \in Verdicts(q) /\ q[i - 1] = s[i]
            BY <1>3, <2>2
        <3>2. ASSUME NEW j \in Verdicts(q) PROVE j =< i - 1
            <4>1. j + 1 =< i /\ j \in Nat /\ i \in Nat
                BY <1>3, <1>6
            <4> QED BY <4>1
        <3> QED BY <1>6, <3>1, <3>2
    <2>3. i \in Nat \ {0}
        BY <1>3
    <2> QED BY <2>1, <2>2, <2>3
<1> QED BY <1>4, <1>5, <1>6 DEF LastTells, s


\* Every reply of the companion says what its backend has become.
LEMMA CompanionTells ==
    ASSUME TypeOK, BackendInv, LastTells, CompanionNext, UNCHANGED backgroundVars
    PROVE  LastTells'
<1> USE DEF TypeOK
<1>0. UNCHANGED <<companionPort, status, socksPort>>
    BY DEF backgroundVars
<1>1. CASE process' = "none"
    BY <1>1 DEF LastTells
<1>2. ASSUME NEW reply \in OutboundMessage, toExtension' = Append(toExtension, reply),
             reply.status \in {"ready", "stopped", "error"},
             reply.status = "ready" => backend' = reply.port,
             reply.status # "ready" => backend' = NoPort
      PROVE  LastTells'
    <2>1. PICK i \in Verdicts(toExtension') :
             (\A j \in Verdicts(toExtension') : j =< i) /\ toExtension'[i] = reply
        BY <1>2, WrittenVerdicts
    <2> QED BY <1>2, <2>1 DEF LastTells
<1>3. ASSUME NEW reply \in OutboundMessage, toExtension' = Append(toExtension, reply),
             reply.status \in {"pong", "diagnostic", "reply"},
             process # "none", backend' = backend
      PROVE  LastTells'
    <2>1. /\ Verdicts(toExtension') = Verdicts(toExtension)
          /\ \A i \in Verdicts(toExtension) : toExtension'[i] = toExtension[i]
        BY <1>3, WrittenVerdicts
    <2> QED BY <1>0, <1>3, <2>1 DEF LastTells, Tells
<1>4. CASE toExtension' = toExtension /\ process # "none" /\ backend' = backend
    BY <1>0, <1>4 DEF LastTells, Tells, Verdicts
<1>5. /\ \A port : Ready(port).status = "ready" /\ Ready(port).port = port
      /\ Plain("stopped").status = "stopped" /\ Plain("error").status = "error"
      /\ Plain("stopped") \in OutboundMessage /\ Plain("error") \in OutboundMessage
      /\ \A port \in Ports : Ready(port) \in OutboundMessage
    BY MessagesWellFormed DEF Ready, Plain
<1>6. CASE /\ process = "idle" /\ backend' = backend
           /\ \E reply \in OutboundMessage :
                 /\ Answers(reply)
                 /\ \/ reply = Ready(backend) /\ backend # NoPort
                    \/ reply.status \in {"pong", "diagnostic", "reply"}
    <2>1. PICK reply \in OutboundMessage :
             /\ Answers(reply)
             /\ \/ reply = Ready(backend) /\ backend # NoPort
                \/ reply.status \in {"pong", "diagnostic", "reply"}
        BY <1>6
    <2> QED BY <1>2, <1>3, <1>5, <1>6, <2>1 DEF Answers
<1>7. CASE backend' = NoPort /\ Answers(Plain("stopped"))
    BY <1>2, <1>5, <1>7 DEF Answers
<1>8. CASE /\ process = "starting"
           /\ \/ \E port \in Ports : /\ backend' = port
                                     /\ toExtension' = Append(toExtension, Ready(port))
              \/ backend' = backend /\ toExtension' = Append(toExtension, Plain("error"))
    BY <1>2, <1>5, <1>8 DEF BackendInv
<1> QED BY <1>1, <1>4, <1>6, <1>7, <1>8, CompanionMoves

\* One step of the session keeps the last verdict right.
LEMMA StatusStep ==
    ASSUME TypeOK, PortInv, BackendInv, LastTells, [Next]_vars
    PROVE  LastTells'
<1>1. CASE BackgroundNext /\ UNCHANGED companionVars
    <2>1. CASE UNCHANGED <<link, companionPort>> /\ ~companionPort
        BY <2>1 DEF LastTells
    <2>2. CASE UNCHANGED <<link, companionPort, status, socksPort>>
        BY <1>1, <2>2 DEF LastTells, Tells, Verdicts, link, companionVars
    <2>3. ASSUME NEW messages \in Seq(InboundMessage), Send(messages),
                 \/ UNCHANGED <<status, socksPort>>
                 \/ ~companionPort /\ status' = "starting"
          PROVE  LastTells'
        <3>1. CASE companionPort
            BY <1>1, <2>3, <3>1 DEF Send, EnsureCompanionPort, LastTells, Tells, Verdicts,
                                    companionVars
        <3>2. CASE ~companionPort
            <4>1. toExtension' = <<>> /\ backend' = NoPort /\ status' # "ready"
                BY <1>1, <2>3, <3>2 DEF Send, PortInv, BackendInv, companionVars
            <4>2. Verdicts(toExtension') = {}
                BY <4>1 DEF Verdicts
            <4> QED BY <4>1, <4>2 DEF LastTells, Tells
        <3> QED BY <3>1, <3>2
    <2>4. CASE Deliver
        BY <1>1, <2>4, DeliverTells
    <2>5. CASE Disconnected
        BY <2>5 DEF Disconnected, LastTells
    <2> QED BY <1>1, <2>1, <2>2, <2>3, <2>4, <2>5, PageMoves
<1>2. CASE CompanionNext /\ UNCHANGED backgroundVars
    BY <1>2, CompanionTells
<1>3. CASE UNCHANGED vars
    BY <1>3 DEF vars, link, backgroundVars, companionVars, LastTells, Tells, Verdicts
<1> QED BY <1>1, <1>2, <1>3 DEF Next

\* onCompanionMessage (background.js:280-326) against start and stop of main.rs:
\* as long as the companion runs, what it has said last of its backend, or the
\* status once that has been read, is the truth, through any number of starts,
\* stops, failures and restarts.
THEOREM TheStatusFollows == Spec => []StatusFollowsBackend
<1>1. Init => PortInv /\ BackendInv /\ LastTells
    BY DEF Init, LinkInit, BackgroundInit, CompanionInit, PortInv, BackendInv, LastTells
<1>2. TypeOK /\ PortInv /\ BackendInv /\ LastTells /\ [Next]_vars
         => PortInv' /\ BackendInv' /\ LastTells'
    BY PortStep, StatusStep
<1>3. TypeOK /\ LastTells => StatusFollowsBackend
    <2> SUFFICES ASSUME TypeOK, LastTells, companionPort, process # "none"
                 PROVE  IF Verdicts(toExtension) = {}
                        THEN /\ status = "ready" => backend = socksPort
                             /\ status # "ready" => backend = NoPort
                        ELSE /\ LastVerdict(toExtension).status = "ready" =>
                                    backend = LastVerdict(toExtension).port
                             /\ LastVerdict(toExtension).status # "ready" => backend = NoPort
        BY DEF StatusFollowsBackend
    <2>1. CASE Verdicts(toExtension) = {} /\ Tells(status, socksPort)
        BY <2>1 DEF Tells
    <2>2. ASSUME NEW i \in Verdicts(toExtension), \A j \in Verdicts(toExtension) : j =< i
          PROVE  LastVerdict(toExtension) = toExtension[i]
        <3> DEFINE V == Verdicts(toExtension)
                   Last(k) == \A j \in V : j =< k
                   last == CHOOSE k \in V : Last(k)
        <3>1. V \subseteq Nat
            BY LenProperties DEF Verdicts, TypeOK, LinkTypeOK
        <3> HIDE DEF V
        <3>2. last \in V /\ Last(last)
            BY <2>2 DEF V
        <3>3. last = i
            <4>1. last =< i /\ i =< last /\ last \in Nat /\ i \in Nat
                BY <2>2, <3>1, <3>2 DEF V
            <4> HIDE DEF last
            <4> QED BY <4>1
        <3> QED BY <3>3 DEF LastVerdict, V
    <2> QED BY <2>1, <2>2 DEF LastTells
<1> QED BY <1>1, <1>2, <1>3, TypeCorrect, PTL DEF Spec


---------------------------------------------------------------------------
(***************************************************************************)
(* Requests and their replies.  An id is carried by one message at most,   *)
(* on its way to the companion or back.                                    *)
(***************************************************************************)

\* The places of the two pipes c and e that carry an id.
In(c, id) == {i \in DOMAIN c : c[i].id = id}
Out(e, id) == {i \in DOMAIN e : e[i].status = "reply" /\ e[i].id = id}

\* Whether some message carries it.
Carried(c, e, id) == In(c, id) # {} \/ Out(e, id) # {}

\* No id of the pool is in two places.
Differ(c, e) ==
    \A id \in Ids : /\ \A i, j \in In(c, id) : i = j
                    /\ \A i, j \in Out(e, id) : i = j
                    /\ In(c, id) = {} \/ Out(e, id) = {}

\* Messages whose ids are new, each in one of them.
Fresh(c, e, messages) ==
    \A id \in Ids : /\ \A i, j \in In(messages, id) : i = j
                    /\ In(messages, id) # {} => ~Carried(c, e, id)

\* The places of an id in a pipe to which messages are added.
LEMMA JoinedIds ==
    ASSUME NEW s \in Seq(InboundMessage), NEW t \in Seq(InboundMessage), NEW id
    PROVE  /\ In(s \o t, id) # {} <=> In(s, id) # {} \/ In(t, id) # {}
           /\ (\A i, j \in In(s, id) : i = j) /\ In(t, id) = {}
                 => \A i, j \in In(s \o t, id) : i = j
           /\ (\A i, j \in In(t, id) : i = j) /\ In(s, id) = {}
                 => \A i, j \in In(s \o t, id) : i = j
<1> DEFINE q == s \o t
<1>1. /\ \A i \in DOMAIN s : i \in DOMAIN q /\ q[i] = s[i]
      /\ \A i \in DOMAIN t : Len(s) + i \in DOMAIN q /\ q[Len(s) + i] = t[i]
      /\ \A i \in DOMAIN q : \/ i \in DOMAIN s
                             \/ i - Len(s) \in DOMAIN t /\ q[i] = t[i - Len(s)]
      /\ Len(s) \in Nat /\ DOMAIN q \subseteq Nat
    BY Joined
<1> HIDE DEF q
<1>2. \A i \in In(s, id) : i \in In(q, id)
    BY <1>1 DEF In
<1>3. \A i \in In(t, id) : Len(s) + i \in In(q, id)
    BY <1>1 DEF In
<1>4. \A i \in In(q, id) : i \in In(s, id) \/ i - Len(s) \in In(t, id)
    BY <1>1 DEF In
<1>5. In(q, id) # {} <=> In(s, id) # {} \/ In(t, id) # {}
    BY <1>2, <1>3, <1>4
<1>6. ASSUME \A i, j \in In(s, id) : i = j, In(t, id) = {}
      PROVE  \A i, j \in In(q, id) : i = j
    BY <1>4, <1>6
<1>7. ASSUME \A i, j \in In(t, id) : i = j, In(s, id) = {},
             NEW i \in In(q, id), NEW j \in In(q, id)
      PROVE  i = j
    <2>1. i - Len(s) = j - Len(s)
        BY <1>4, <1>7
    <2>2. i \in Nat /\ j \in Nat
        BY <1>1 DEF In
    <2> QED BY <1>1, <2>1, <2>2
<1> QED BY <1>5, <1>6, <1>7 DEF q

\* Posting messages with new ids keeps ids apart, and carries those ids.
LEMMA PostIds ==
    ASSUME NEW c \in Seq(InboundMessage), NEW e \in Seq(OutboundMessage),
           NEW messages \in Seq(InboundMessage), Differ(c, e), Fresh(c, e, messages)
    PROVE  /\ Differ(c \o messages, e)
           /\ \A id \in Ids : Carried(c \o messages, e, id)
                                 <=> Carried(c, e, id) \/ In(messages, id) # {}
<1>1. \A id \in Ids : Carried(c \o messages, e, id)
                         <=> Carried(c, e, id) \/ In(messages, id) # {}
    BY JoinedIds DEF Carried
<1>2. ASSUME NEW id \in Ids
      PROVE  /\ \A i, j \in In(c \o messages, id) : i = j
             /\ \A i, j \in Out(e, id) : i = j
             /\ In(c \o messages, id) = {} \/ Out(e, id) = {}
    <2>1. CASE In(messages, id) = {}
        BY <2>1, JoinedIds DEF Differ
    <2>2. CASE In(messages, id) # {}
        <3>1. In(c, id) = {} /\ Out(e, id) = {}
            BY <2>2 DEF Fresh, Carried
        <3> QED BY <3>1, JoinedIds DEF Fresh
    <2> QED BY <2>1, <2>2
<1> QED BY <1>1, <1>2 DEF Differ

\* Delivering a message takes its id, if it carries one, out of the pipes.
LEMMA TakeIds ==
    ASSUME NEW c \in Seq(InboundMessage), NEW e \in Seq(OutboundMessage), e # <<>>,
           Differ(c, e)
    PROVE  /\ Differ(c, Tail(e))
           /\ \A id \in Ids :
                 /\ Carried(c, Tail(e), id) => Carried(c, e, id)
                 /\ Carried(c, e, id) =>
                       Carried(c, Tail(e), id) \/ (Head(e).status = "reply" /\ Head(e).id = id)
<1> DEFINE q == Tail(e)
<1>1. /\ Head(e) = e[1] /\ 1 \in DOMAIN e
      /\ \A i \in DOMAIN q : i + 1 \in DOMAIN e /\ q[i] = e[i + 1]
      /\ \A i \in DOMAIN e : i > 1 => i - 1 \in DOMAIN q /\ q[i - 1] = e[i]
      /\ DOMAIN e \subseteq Nat \ {0} /\ DOMAIN q \subseteq Nat
    BY Shortened
<1> HIDE DEF q
<1>2. ASSUME NEW id \in Ids
      PROVE  /\ \A i \in Out(q, id) : i + 1 \in Out(e, id)
             /\ \A i \in Out(e, id) : i > 1 => i - 1 \in Out(q, id)
             /\ 1 \in Out(e, id) => Head(e).status = "reply" /\ Head(e).id = id
             /\ \A i \in Out(e, id) : i = 1 \/ i > 1
             /\ Out(q, id) \subseteq Nat
    BY <1>1 DEF Out
<1>3. ASSUME NEW id \in Ids
      PROVE  /\ Out(q, id) # {} => Out(e, id) # {}
             /\ Out(e, id) # {} =>
                   Out(q, id) # {} \/ (Head(e).status = "reply" /\ Head(e).id = id)
    BY <1>2
<1>4. ASSUME NEW id \in Ids, NEW i \in Out(q, id), NEW j \in Out(q, id)
      PROVE  i = j
    <2>1. i + 1 = j + 1 /\ i \in Nat /\ j \in Nat
        BY <1>2, <1>4 DEF Differ
    <2> QED BY <2>1
<1> QED BY <1>3, <1>4 DEF Differ, Carried, q

\* Reading a command takes its id out of the pipes.
LEMMA ReadIds ==
    ASSUME NEW c \in Seq(InboundMessage), NEW e \in Seq(OutboundMessage), c # <<>>,
           Differ(c, e)
    PROVE  /\ Differ(Tail(c), e)
           /\ \A id \in Ids :
                 /\ Carried(c, e, id) => Carried(Tail(c), e, id) \/ Head(c).id = id
                 /\ Head(c).id = id => ~Carried(Tail(c), e, id)
<1> DEFINE q == Tail(c)
<1>1. /\ Head(c) = c[1] /\ 1 \in DOMAIN c
      /\ \A i \in DOMAIN q : i + 1 \in DOMAIN c /\ q[i] = c[i + 1]
      /\ \A i \in DOMAIN c : i > 1 => i - 1 \in DOMAIN q /\ q[i - 1] = c[i]
      /\ DOMAIN c \subseteq Nat \ {0} /\ DOMAIN q \subseteq Nat \ {0}
    BY Shortened
<1> HIDE DEF q
<1>2. ASSUME NEW id \in Ids
      PROVE  /\ \A i \in In(q, id) : i + 1 \in In(c, id)
             /\ \A i \in In(c, id) : i > 1 => i - 1 \in In(q, id)
             /\ 1 \in In(c, id) <=> Head(c).id = id
             /\ \A i \in In(c, id) : i = 1 \/ i > 1
             /\ In(q, id) \subseteq Nat \ {0}
    BY <1>1 DEF In
<1>3. ASSUME NEW id \in Ids
      PROVE  /\ In(q, id) # {} => In(c, id) # {}
             /\ In(c, id) # {} => In(q, id) # {} \/ Head(c).id = id
    BY <1>2
<1>4. ASSUME NEW id \in Ids, Head(c).id = id
      PROVE  In(q, id) = {} /\ Out(e, id) = {}
    <2>1. 1 \in In(c, id)
        BY <1>2, <1>4
    <2>2. ASSUME NEW i \in In(q, id) PROVE FALSE
        <3>1. i + 1 = 1 /\ i \in Nat \ {0}
            BY <1>2, <2>1 DEF Differ
        <3> QED BY <3>1
    <2> QED BY <2>1, <2>2 DEF Differ
<1>5. ASSUME NEW id \in Ids, NEW i \in In(q, id), NEW j \in In(q, id)
      PROVE  i = j
    <2>1. i + 1 = j + 1 /\ i \in Nat /\ j \in Nat
        BY <1>2, <1>5 DEF Differ
    <2> QED BY <2>1
<1> QED BY <1>3, <1>4, <1>5 DEF Differ, Carried, q

\* Writing a reply puts its id, if it carries one, into the pipes.
LEMMA WriteIds ==
    ASSUME NEW c \in Seq(InboundMessage), NEW e \in Seq(OutboundMessage),
           NEW reply \in OutboundMessage, Differ(c, e),
           reply.status = "reply" => ~Carried(c, e, reply.id)
    PROVE  /\ Differ(c, Append(e, reply))
           /\ \A id \in Ids : Carried(c, Append(e, reply), id)
                                 <=> \/ Carried(c, e, id)
                                     \/ reply.status = "reply" /\ reply.id = id
<1> DEFINE q == Append(e, reply)
<1>0. PICK n : n = Len(e) + 1
    OBVIOUS
<1>1. /\ n \notin DOMAIN e /\ n \in DOMAIN q /\ q[n] = reply
      /\ \A i \in DOMAIN e : i \in DOMAIN q /\ q[i] = e[i]
      /\ \A i \in DOMAIN q : i \in DOMAIN e \/ i = n
    BY <1>0, Appended
<1> HIDE DEF q
<1>2. ASSUME NEW id \in Ids
      PROVE  Out(q, id) = Out(e, id) \cup
                 (IF reply.status = "reply" /\ reply.id = id THEN {n} ELSE {})
    BY <1>1 DEF Out
<1>3. ASSUME NEW id \in Ids, reply.status = "reply", reply.id = id
      PROVE  In(c, id) = {} /\ Out(e, id) = {}
    BY <1>3 DEF Carried
<1>4. ASSUME NEW id \in Ids
      PROVE  /\ \A i, j \in Out(q, id) : i = j
             /\ In(c, id) = {} \/ Out(q, id) = {}
    BY <1>2, <1>3 DEF Differ
<1>5. ASSUME NEW id \in Ids
      PROVE  Carried(c, q, id) <=> \/ Carried(c, e, id)
                                   \/ reply.status = "reply" /\ reply.id = id
    BY <1>2 DEF Carried
<1> QED BY <1>4, <1>5 DEF Differ, q


\* Ids are apart, and what a live companion owes a pending request is on its way.
WireInv ==
    /\ Differ(toCompanion, toExtension)
    /\ \A id \in Ids : pending[id] # "none" =>
          /\ companionPort
          /\ process # "none" => Carried(toCompanion, toExtension, id)

\* nextRequestId++ yields an id that nothing carries.
LEMMA FreshIdsAreNew ==
    ASSUME NEW id \in FreshIds
    PROVE  id \in Ids /\ pending[id] = "none" /\ ~Carried(toCompanion, toExtension, id)
<1>1. id \in Ids /\ pending[id] = "none" /\ id \notin IdsInFlight
    BY DEF FreshIds
<1>2. \A i \in In(toCompanion, id) : id \in IdsInFlight
    BY DEF In, IdsInFlight, Sent
<1>3. \A i \in Out(toExtension, id) : id \in IdsInFlight
    BY DEF Out, IdsInFlight, Sent
<1> QED BY <1>1, <1>2, <1>3 DEF Carried

\* Commands without an id, and single requests, as messages.
LEMMA SingleIds ==
    /\ \A a, i : Command(a).id = NoId /\ Request(a, i).id = i
    /\ \A id \in Ids : In(<< >>, id) = {}
    /\ \A a : \A id \in Ids : In(<<Command(a)>>, id) = {}
    /\ \A a, i, id : In(<<Request(a, i)>>, id) = IF i = id THEN {1} ELSE {}
BY IdsAssumption DEF In, Command, Request

\* Posting, by an open port or a new one.
LEMMA PostWire ==
    ASSUME TypeOK, PortInv, WireInv,
           NEW messages \in Seq(InboundMessage), Send(messages),
           Fresh(toCompanion, toExtension, messages),
           \A id \in Ids : pending'[id] # "none" =>
                pending[id] # "none" \/ In(messages, id) # {}
    PROVE  WireInv'
<1>1. companionPort' = TRUE /\ toExtension' = toExtension /\ toCompanion' = toCompanion \o messages
    BY DEF Send, EnsureCompanionPort, TypeOK, BackgroundTypeOK
<1>2. companionPort => process' = process
    BY DEF Send, EnsureCompanionPort
<1>3. /\ Differ(toCompanion', toExtension')
      /\ \A id \in Ids : Carried(toCompanion', toExtension', id)
                            <=> Carried(toCompanion, toExtension, id) \/ In(messages, id) # {}
    BY <1>1, PostIds DEF TypeOK, LinkTypeOK, WireInv
<1> QED BY <1>1, <1>2, <1>3 DEF WireInv

\* Delivering, and posting what the answer asks for.
LEMMA TakeWire ==
    ASSUME TypeOK, WireInv, companionPort, toExtension # <<>>,
           toExtension' = Tail(toExtension), UNCHANGED <<companionPort, process>>,
           NEW messages \in Seq(InboundMessage), toCompanion' = toCompanion \o messages,
           Fresh(toCompanion, toExtension, messages),
           \A id \in Ids : pending'[id] # "none" =>
                \/ /\ pending[id] # "none"
                   /\ ~(Head(toExtension).status = "reply" /\ Head(toExtension).id = id)
                \/ In(messages, id) # {}
    PROVE  WireInv'
<1>1. toCompanion \in Seq(InboundMessage) /\ toExtension \in Seq(OutboundMessage)
    BY DEF TypeOK, LinkTypeOK
<1>2. Tail(toExtension) \in Seq(OutboundMessage)
    BY <1>1, Shortened
<1>3. /\ Differ(toCompanion, Tail(toExtension))
      /\ \A id \in Ids :
            /\ Carried(toCompanion, Tail(toExtension), id) => Carried(toCompanion, toExtension, id)
            /\ Carried(toCompanion, toExtension, id) =>
                  \/ Carried(toCompanion, Tail(toExtension), id)
                  \/ Head(toExtension).status = "reply" /\ Head(toExtension).id = id
    BY <1>1, TakeIds DEF WireInv
<1>4. Fresh(toCompanion, Tail(toExtension), messages)
    BY <1>3 DEF Fresh
<1>5. /\ Differ(toCompanion', toExtension')
      /\ \A id \in Ids : Carried(toCompanion', toExtension', id)
            <=> Carried(toCompanion, Tail(toExtension), id) \/ In(messages, id) # {}
    BY <1>1, <1>2, <1>3, <1>4, PostIds
<1> QED BY <1>3, <1>5 DEF WireInv

\* The ready handler's messages.
LEMMA ReadyProbesFresh ==
    ASSUME FreshIds # {}, FreshIds \ {NextId} # {}, companionUpdate \in BOOLEAN
    PROVE  /\ Fresh(toCompanion, toExtension, ReadyProbes)
           /\ In(ReadyProbes, NextId) # {}
           /\ ~companionUpdate => In(ReadyProbes, SecondId) # {}
<1>1. /\ NextId \in FreshIds /\ SecondId \in FreshIds /\ NextId # SecondId
      /\ NextId \in Ids /\ SecondId \in Ids
      /\ ~Carried(toCompanion, toExtension, NextId)
      /\ ~Carried(toCompanion, toExtension, SecondId)
    <2>1. NextId \in FreshIds
        BY DEF NextId
    <2>2. SecondId \in FreshIds \ {NextId}
        BY DEF SecondId
    <2> QED BY <2>1, <2>2, FreshIdsAreNew
<1> DEFINE d == IF companionProtocol THEN << >> ELSE <<Command("diagnostic")>>
           u == IF companionUpdate THEN << >> ELSE <<Request("update-check", SecondId)>>
           l == <<Request("auth-list", NextId)>>
<1>2. ASSUME NEW id \in Ids
      PROVE  /\ In(d, id) = {}
             /\ In(u, id) # {} <=> ~companionUpdate /\ id = SecondId
             /\ In(l, id) # {} <=> id = NextId
             /\ \A i, j \in In(u, id) : i = j
             /\ \A i, j \in In(l, id) : i = j
    <2>1. In(d, id) = {}
        BY SingleIds
    <2>2. In(u, id) = IF companionUpdate THEN {} ELSE IF SecondId = id THEN {1} ELSE {}
        BY SingleIds
    <2>3. In(l, id) = IF NextId = id THEN {1} ELSE {}
        BY SingleIds
    <2> HIDE DEF d, u, l
    <2> QED BY <2>1, <2>2, <2>3
<1>3. /\ d \in Seq(InboundMessage) /\ u \in Seq(InboundMessage) /\ l \in Seq(InboundMessage)
    <2>1. \A m \in InboundMessage : <<m>> \in Seq(InboundMessage)
        BY OnePosted
    <2> QED BY <1>1, <2>1, MessagesWellFormed, EmptySeq DEF PlainActions, CorrelatedActions
<1> HIDE DEF d, u, l
<1>4. /\ d \o u \in Seq(InboundMessage)
      /\ ReadyProbes = (d \o u) \o l
    BY <1>3, Joined DEF ReadyProbes, d, u, l
<1>5. ASSUME NEW id \in Ids
      PROVE  /\ In(d \o u, id) # {} <=> ~companionUpdate /\ id = SecondId
             /\ \A i, j \in In(d \o u, id) : i = j
    BY <1>2, <1>3, JoinedIds
<1>6. ASSUME NEW id \in Ids
      PROVE  /\ In(ReadyProbes, id) # {} <=>
                    (~companionUpdate /\ id = SecondId) \/ id = NextId
             /\ \A i, j \in In(ReadyProbes, id) : i = j
    <2>1. In(ReadyProbes, id) # {} <=> In(d \o u, id) # {} \/ In(l, id) # {}
        BY <1>3, <1>4, JoinedIds
    <2>2. CASE id = NextId
        <3>1. In(d \o u, id) = {} /\ (\A i, j \in In(l, id) : i = j)
            BY <1>1, <1>2, <1>5, <2>2
        <3>2. \A i, j \in In(ReadyProbes, id) : i = j
            <4> DEFINE s == d \o u
            <4>1. s \in Seq(InboundMessage) /\ In(s, id) = {} /\ ReadyProbes = s \o l
                BY <1>4, <3>1
            <4> HIDE DEF s
            <4>2. \A i, j \in In(s \o l, id) : i = j
                BY <1>3, <3>1, <4>1, JoinedIds
            <4> QED BY <4>1, <4>2
        <3>3. In(l, id) # {}
            BY <1>2, <2>2
        <3> QED BY <2>1, <2>2, <3>2, <3>3
    <2>3. CASE id # NextId
        <3>1. In(l, id) = {}
            BY <1>2, <2>3
        <3> QED BY <1>3, <1>4, <1>5, <2>1, <2>3, <3>1, JoinedIds
    <2> QED BY <2>2, <2>3
<1> QED BY <1>1, <1>6 DEF Fresh


\* Nothing is posted, or one request with the next id.
LEMMA FewFresh ==
    /\ Fresh(toCompanion, toExtension, << >>)
    /\ \A a : Fresh(toCompanion, toExtension, <<Command(a)>>)
    /\ FreshIds # {} => \A a : Fresh(toCompanion, toExtension, <<Request(a, NextId)>>)
<1>1. FreshIds # {} => NextId \in FreshIds
    BY DEF NextId
<1> QED BY <1>1, FreshIdsAreNew, SingleIds DEF Fresh

\* Nothing moves, and at most requests are given up.
LEMMA IdleWire ==
    ASSUME WireInv, UNCHANGED <<link, companionPort>>,
           \A id \in Ids : pending'[id] # "none" => pending[id] # "none"
    PROVE  WireInv'
BY DEF WireInv, link, Differ, Carried, In, Out

\* The messages of the companion.
LEMMA DeliverWire ==
    ASSUME TypeOK, WireInv, Deliver
    PROVE  WireInv'
<1> USE DEF TypeOK
<1> DEFINE m == Head(toExtension)
<1>0. /\ toCompanion \o << >> = toCompanion /\ << >> \in Seq(InboundMessage)
      /\ \A id \in Ids : In(<< >>, id) = {}
    BY ConcatEmptySeq, EmptySeq, SingleIds DEF LinkTypeOK
<1>1. CASE OnReady
    <2>1. /\ Receives("ready") /\ FreshIds # {} /\ FreshIds \ {NextId} # {}
          /\ toCompanion' = toCompanion \o ReadyProbes
          /\ pending' = [pending EXCEPT
                           ![NextId] = "auth-list",
                           ![SecondId] = IF companionUpdate THEN @ ELSE "update-check"]
        BY <1>1 DEF OnReady
    <2>2. /\ Fresh(toCompanion, toExtension, ReadyProbes)
          /\ In(ReadyProbes, NextId) # {}
          /\ ~companionUpdate => In(ReadyProbes, SecondId) # {}
        BY <2>1, ReadyProbesFresh DEF BackgroundTypeOK
    <2>3. ReadyProbes \in Seq(InboundMessage)
        BY <2>1, ReadyProbesWellFormed
    <2>4. \A id \in Ids : pending'[id] # "none" =>
             pending[id] # "none" \/ In(ReadyProbes, id) # {}
        BY <2>1, <2>2 DEF BackgroundTypeOK
    <2>5. m.status # "reply"
        BY <2>1 DEF Receives
    <2> QED BY <2>1, <2>2, <2>3, <2>4, <2>5, TakeWire DEF Receives
<1>2. CASE OnStopped \/ OnError \/ OnPong \/ OnDiagnostic
    <2>1. /\ \E s \in {"stopped", "error", "pong", "diagnostic"} : Receives(s)
          /\ UNCHANGED <<toCompanion, pending>>
        BY <1>2 DEF OnStopped, OnError, OnPong, OnDiagnostic, probeVars
    <2> QED BY <1>0, <2>1, FewFresh, TakeWire DEF Receives
<1>3. CASE OnReply
    <2> DEFINE id == m.id
    <2>1. Receives("reply") /\ id \in Ids
        BY <1>3, ReceiveType, OutboundParts DEF OnReply, Receives
    <2>2. CASE toCompanion' = toCompanion /\ \/ pending' = pending /\ pending[id] = "none"
                                             \/ pending' = [pending EXCEPT ![id] = "none"]
        <3>1. \A i \in Ids : pending'[i] # "none" => pending[i] # "none" /\ id # i
            BY <2>1, <2>2 DEF BackgroundTypeOK
        <3> HIDE DEF id
        <3>2. \A i \in Ids : pending'[i] # "none" =>
                 pending[i] # "none" /\ ~(m.status = "reply" /\ m.id = i)
            BY <3>1 DEF id
        <3> QED BY <1>0, <2>1, <2>2, <3>2, FewFresh, TakeWire DEF Receives
    <2>3. CASE /\ FreshIds # {} /\ pending[id] # "none"
               /\ pending' = [pending EXCEPT ![id] = "none", ![NextId] = "auth-list"]
               /\ toCompanion' = Append(toCompanion, Request("auth-list", NextId))
        <3>1. NextId \in Ids /\ Request("auth-list", NextId) \in InboundMessage
            BY <2>3, FreshIdsInPool, MessagesWellFormed DEF CorrelatedActions
        <3> DEFINE messages == <<Request("auth-list", NextId)>>
        <3>2. messages \in Seq(InboundMessage) /\ toCompanion' = toCompanion \o messages
            BY <2>3, <3>1, OnePosted DEF LinkTypeOK
        <3>3. In(messages, NextId) # {} /\ Fresh(toCompanion, toExtension, messages)
            BY <2>3, SingleIds, FewFresh
        <3>4. NextId # id
            <4>1. NextId \in FreshIds
                BY <2>3 DEF NextId
            <4> QED BY <2>3, <4>1, FreshIdsAreNew
        <3> HIDE DEF messages
        <3>5. \A i \in Ids : pending'[i] # "none" =>
                 \/ pending[i] # "none" /\ ~(m.status = "reply" /\ m.id = i)
                 \/ In(messages, i) # {}
            BY <2>1, <2>3, <3>1, <3>3, <3>4 DEF BackgroundTypeOK
        <3> QED BY <2>1, <3>2, <3>3, <3>5, TakeWire DEF Receives
    <2> QED BY <1>3, <2>2, <2>3 DEF OnReply, LateReply, UpdateInfo, AuthIndex, AuthDone
<1> QED BY <1>1, <1>2, <1>3 DEF Deliver

\* A correlated command, of a page or of the alarm.
LEMMA CorrelatedWire ==
    ASSUME TypeOK, PortInv, WireInv, NEW action \in CorrelatedActions, Correlated(action)
    PROVE  WireInv'
<1>1. CASE ConnectNativeThrows /\ UNCHANGED pending
    BY <1>1, IdleWire DEF ConnectNativeThrows
<1>2. CASE /\ FreshIds # {}
           /\ Send(<<Request(action, NextId)>>)
           /\ pending' = [pending EXCEPT ![NextId] = action]
    <2>1. NextId \in Ids /\ Request(action, NextId) \in InboundMessage
        BY <1>2, FreshIdsInPool, MessagesWellFormed
    <2> DEFINE messages == <<Request(action, NextId)>>
    <2>2. /\ messages \in Seq(InboundMessage) /\ Send(messages)
          /\ In(messages, NextId) # {} /\ Fresh(toCompanion, toExtension, messages)
        BY <1>2, <2>1, OnePosted, SingleIds, FewFresh
    <2> HIDE DEF messages
    <2>3. \A i \in Ids : pending'[i] # "none" => pending[i] # "none" \/ In(messages, i) # {}
        BY <1>2, <2>1, <2>2 DEF TypeOK, BackgroundTypeOK
    <2> QED BY <2>2, <2>3, PostWire
<1> QED BY <1>1, <1>2 DEF Correlated


\* Everything the background page does.
LEMMA PageWire ==
    ASSUME TypeOK, PortInv, WireInv, BackgroundNext
    PROVE  WireInv'
<1>1. ASSUME NEW a \in PlainActions, Send(<<Command(a)>>), UNCHANGED pending
      PROVE  WireInv'
    <2>1. <<Command(a)>> \in Seq(InboundMessage)
        BY MessagesWellFormed, OnePosted
    <2> QED BY <1>1, <2>1, FewFresh, PostWire
<1>2. CASE ConnectCompanion /\ UNCHANGED pending
    BY <1>1, <1>2, IdleWire DEF ConnectCompanion, ConnectNativeThrows, PlainActions
<1>3. ASSUME NEW r \in Requests, AnsweredByGate(r) \/ WaitForReady(r) \/ RequestDone(r)
      PROVE  WireInv'
    <2>1. UNCHANGED pending
        BY <1>3 DEF AnsweredByGate, WaitForReady, RequestDone, probeVars
    <2>2. \/ UNCHANGED <<link, companionPort>>
          \/ ConnectCompanion
          \/ Send(<<Command("start")>>)
        BY <1>3 DEF AnsweredByGate, WaitForReady, RequestDone
    <2> QED BY <1>1, <1>2, <2>1, <2>2, IdleWire DEF PlainActions
<1>4. CASE Deliver
    BY <1>4, DeliverWire
<1>5. CASE Disconnected
    <2>1. /\ toCompanion' = <<>> /\ toExtension' = <<>>
          /\ pending' = [i \in Ids |-> "none"]
        BY <1>5 DEF Disconnected
    <2>2. \A i \in Ids : pending'[i] = "none"
        BY <2>1
    <2>3. \A id \in Ids : In(toCompanion', id) = {} /\ Out(toExtension', id) = {}
        BY <2>1 DEF In, Out
    <2> QED BY <2>2, <2>3 DEF WireInv, Differ
<1>6. CASE StartClick
    BY <1>2, <1>6 DEF StartClick, probeVars
<1>7. CASE Render
    BY <1>7, IdleWire DEF Render, probeVars
<1>8. CASE StopClick
    BY <1>1, <1>8 DEF StopClick, PlainActions, probeVars
<1>9. ASSUME NEW kind \in Probes, Probe(kind)
      PROVE  WireInv'
    BY <1>1, <1>9, IdleWire DEF Probe, ConnectNativeThrows, PlainActions
<1>10. CASE UpdateAlarm
    BY <1>10, CorrelatedWire DEF UpdateAlarm, CorrelatedActions
<1>11. ASSUME NEW action \in Commands, Correlated(action)
       PROVE  WireInv'
    BY <1>11, CorrelatedWire, BackgroundAssumption DEF CorrelatedActions
<1>12. ASSUME NEW kind, ProbeTimesOut(kind)
       PROVE  WireInv'
    BY <1>12, IdleWire DEF ProbeTimesOut
<1>13. ASSUME NEW id \in Ids, RequestTimesOut(id)
       PROVE  WireInv'
    BY <1>13, IdleWire DEF RequestTimesOut, TypeOK, BackgroundTypeOK
<1>14. CASE EventPageSuspended
    BY <1>14, IdleWire DEF EventPageSuspended
<1> QED BY <1>3, <1>4, <1>5, <1>6, <1>7, <1>8, <1>9, <1>10, <1>11, <1>12, <1>13, <1>14
        DEF BackgroundNext

\* The companion answers a command with the id it came with, and each once.
LEMMA CompanionWire ==
    ASSUME TypeOK, WireInv, CompanionNext, UNCHANGED backgroundVars
    PROVE  WireInv'
<1> USE DEF TypeOK
<1> DEFINE m == Head(toCompanion)
<1>0. /\ UNCHANGED <<companionPort, pending>>
      /\ toCompanion \in Seq(InboundMessage) /\ toExtension \in Seq(OutboundMessage)
    BY DEF backgroundVars, probeVars, LinkTypeOK
<1>1. ASSUME toCompanion # <<>>
      PROVE  /\ Tail(toCompanion) \in Seq(InboundMessage)
             /\ m.id \in Ids \/ m.id = NoId
             /\ m.action \in PlainActions => m.id = NoId
             /\ m.action \in CorrelatedActions => m.id \in Ids
             /\ Differ(Tail(toCompanion), toExtension)
             /\ \A id \in Ids :
                   /\ Carried(toCompanion, toExtension, id) =>
                         Carried(Tail(toCompanion), toExtension, id) \/ m.id = id
                   /\ m.id = id => ~Carried(Tail(toCompanion), toExtension, id)
    <2>1. m \in InboundMessage /\ Tail(toCompanion) \in Seq(InboundMessage)
        BY <1>0, <1>1, Shortened
    <2>2. /\ m.id \in Ids \/ m.id = NoId
          /\ m.action \in PlainActions => m.id = NoId
          /\ m.action \in CorrelatedActions => m.id \in Ids
        BY <2>1 DEF InboundMessage, PlainActions, CorrelatedActions
    <2> QED BY <1>0, <1>1, <2>1, <2>2, ReadIds DEF WireInv
<1>2. ASSUME NEW c \in Seq(InboundMessage), Differ(c, toExtension), toCompanion' = c,
             NEW reply \in OutboundMessage, toExtension' = Append(toExtension, reply),
             reply.status = "reply" => reply.id \in Ids /\ ~Carried(c, toExtension, reply.id),
             \A id \in Ids : process' # "none" /\ Carried(toCompanion, toExtension, id) =>
                 Carried(c, toExtension, id) \/ (reply.status = "reply" /\ reply.id = id),
             process' # "none" => process # "none"
      PROVE  WireInv'
    <2>1. /\ Differ(toCompanion', toExtension')
          /\ \A id \in Ids : Carried(toCompanion', toExtension', id) <=>
                \/ Carried(c, toExtension, id)
                \/ reply.status = "reply" /\ reply.id = id
        BY <1>0, <1>2, WriteIds
    <2> QED BY <1>0, <1>2, <2>1 DEF WireInv
<1>3. ASSUME toCompanion # <<>>, m.id = NoId, toCompanion' = Tail(toCompanion),
             toExtension' = toExtension, process # "none"
      PROVE  WireInv'
    <2>1. \A id \in Ids : m.id # id
        BY <1>3, IdsAssumption
    <2> QED BY <1>0, <1>1, <1>3, <2>1 DEF WireInv
<1>4. ASSUME toCompanion # <<>>, NEW reply \in OutboundMessage, Answers(reply),
             process # "none",
             \/ m.id = NoId /\ reply.status # "reply"
             \/ reply.status = "reply" /\ reply.id = m.id /\ m.id \in Ids
      PROVE  WireInv'
    <2>1. \A id \in Ids : m.id = NoId => m.id # id
        BY IdsAssumption
    <2> QED BY <1>0, <1>1, <1>2, <1>4, <2>1 DEF Answers
<1>5. CASE HandleStart
    <2>1. /\ toCompanion # <<>> /\ m.id = NoId /\ process = "idle"
        BY <1>1, <1>5 DEF HandleStart, Reads, PlainActions
    <2>2. backend # NoPort => Ready(backend) \in OutboundMessage /\ Ready(backend).status # "reply"
        BY MessagesWellFormed DEF CompanionTypeOK, Ready
    <2> QED BY <1>3, <1>4, <1>5, <2>1, <2>2 DEF HandleStart
<1>6. CASE HandleStop \/ HandleProbe
    <2>1. /\ toCompanion # <<>> /\ m.id = NoId /\ process = "idle"
        BY <1>1, <1>6 DEF HandleStop, HandleProbe, Reads, PlainActions
    <2>2. \A s \in {"stopped", "pong", "diagnostic"} :
             Plain(s) \in OutboundMessage /\ Plain(s).status # "reply"
        BY MessagesWellFormed DEF Plain
    <2> QED BY <1>4, <1>6, <2>1, <2>2 DEF HandleStop, HandleProbe
<1>7. CASE HandleUnlock \/ HandleLock \/ HandleAuthList \/ HandleOther
    <2>1. /\ toCompanion # <<>> /\ m.id \in Ids /\ process = "idle"
        BY <1>1, <1>7 DEF HandleUnlock, HandleLock, HandleAuthList, HandleOther, Reads,
                          CorrelatedActions
    <2>2. PICK ok \in BOOLEAN, u \in BOOLEAN : Answers(Reply(m.id, ok, u))
        BY <1>7 DEF HandleUnlock, HandleLock, HandleAuthList, HandleOther, CompanionTypeOK
    <2>3. /\ Reply(m.id, ok, u) \in OutboundMessage
          /\ Reply(m.id, ok, u).status = "reply" /\ Reply(m.id, ok, u).id = m.id
        BY <2>1, MessagesWellFormed DEF Reply
    <2> QED BY <1>4, <2>1, <2>2, <2>3
<1>8. CASE ProtocolError
    <2>1. /\ toCompanion # <<>> /\ toCompanion' = Tail(toCompanion) /\ process' = "none"
          /\ toExtension' = Append(toExtension, Plain("error"))
        BY <1>8 DEF ProtocolError, Exit
    <2>2. Plain("error") \in OutboundMessage /\ Plain("error").status # "reply"
        BY MessagesWellFormed DEF Plain
    <2> QED BY <1>1, <1>2, <2>1, <2>2
<1>9. CASE Crash
    BY <1>0, <1>9 DEF Crash, Exit, WireInv
<1>10. CASE FinishStart
    <2>1. PICK reply \in OutboundMessage :
             toExtension' = Append(toExtension, reply) /\ reply.status # "reply"
        BY <1>10, MessagesWellFormed DEF FinishStart, Ready, Plain
    <2>2. toCompanion' = toCompanion /\ process # "none"
        BY <1>10 DEF FinishStart
    <2> QED BY <1>0, <1>2, <2>1, <2>2 DEF WireInv
<1> QED BY <1>5, <1>6, <1>7, <1>8, <1>9, <1>10 DEF CompanionNext, Handle

\* One step of the session.
LEMMA WireStep ==
    ASSUME TypeOK, PortInv, WireInv, [Next]_vars
    PROVE  WireInv'
<1>1. CASE BackgroundNext
    BY <1>1, PageWire
<1>2. CASE CompanionNext /\ UNCHANGED backgroundVars
    BY <1>2, CompanionWire
<1>3. CASE UNCHANGED vars
    BY <1>3, IdleWire DEF vars, backgroundVars, probeVars
<1> QED BY <1>1, <1>2, <1>3 DEF Next

\* A set of places that are all one is empty or has one member.
LEMMA AtMostOne ==
    ASSUME NEW S, \A i, j \in S : i = j
    PROVE  Cardinality(S) = IF S = {} THEN 0 ELSE 1
<1>1. CASE S = {}
    BY <1>1, FS_EmptySet
<1>2. CASE S # {}
    <2>1. PICK x \in S : S = {x}
        BY <1>2
    <2> QED BY <1>2, <2>1, FS_Singleton
<1> QED BY <1>1, <1>2

\* companionRequestId (background.js:652-669), "reply" (background.js:314-321)
\* and the companion's loop (main.rs:162-200): a request of a live companion that is not answered yet is carried by exactly
\* one message: it is never lost, never answered twice, and its id is never
\* another one's, whatever times out before, through crashes and restarts.
THEOREM EveryRequestIsAnsweredOnce == Spec => []EveryPendingHasItsReply
<1>1. Init => PortInv /\ BackendInv /\ WireInv
    <2> SUFFICES ASSUME Init PROVE PortInv /\ BackendInv /\ WireInv
        OBVIOUS
    <2>1. toCompanion = <<>> /\ toExtension = <<>> /\ \A id \in Ids : pending[id] = "none"
        BY DEF Init, LinkInit, BackgroundInit
    <2>2. \A id \in Ids : In(toCompanion, id) = {} /\ Out(toExtension, id) = {}
        BY <2>1 DEF In, Out
    <2>3. WireInv
        BY <2>1, <2>2 DEF WireInv, Differ
    <2> QED BY <2>3 DEF Init, LinkInit, BackgroundInit, CompanionInit, PortInv, BackendInv
<1>2. TypeOK /\ PortInv /\ BackendInv /\ WireInv /\ [Next]_vars
         => PortInv' /\ BackendInv' /\ WireInv'
    BY PortStep, WireStep
<1>3. WireInv => EveryPendingHasItsReply
    <2> SUFFICES ASSUME WireInv, NEW id \in Ids
                 PROVE  /\ pending[id] # "none" => companionPort
                        /\ Carriers(id) =< 1
                        /\ pending[id] # "none" /\ process # "none" => Carriers(id) = 1
        BY DEF EveryPendingHasItsReply
    <2>1. Carriers(id) = Cardinality(In(toCompanion, id)) + Cardinality(Out(toExtension, id))
        BY DEF Carriers, In, Out
    <2>2. /\ Cardinality(In(toCompanion, id)) = IF In(toCompanion, id) = {} THEN 0 ELSE 1
          /\ Cardinality(Out(toExtension, id)) = IF Out(toExtension, id) = {} THEN 0 ELSE 1
        BY AtMostOne DEF WireInv, Differ
    <2>3. Carriers(id) = IF Carried(toCompanion, toExtension, id) THEN 1 ELSE 0
        BY <2>1, <2>2 DEF WireInv, Differ, Carried
    <2> QED BY <2>3 DEF WireInv
<1> QED BY <1>1, <1>2, <1>3, TypeCorrect, PTL DEF Spec
---------------------------------------------------------------------------
(***************************************************************************)
(* The pipes: what is written to them is read back, wherever it is cut.    *)
(***************************************************************************)
\* Dividing by the base, once and four times.
LEMMA Divided ==
    ASSUME NEW b \in Nat, b > 1, NEW n \in Nat, NEW m \in Nat, n < b * m
    PROVE  /\ n \div b \in Nat /\ n \div b < m
           /\ n % b \in 0..(b - 1) /\ n = (n % b) + (b * (n \div b))
<1>1. n = (b * (n \div b)) + (n % b) /\ n % b \in 0..(b - 1) /\ n \div b \in Nat
    OBVIOUS
<1> DEFINE q == n \div b
           r == n % b
<1>2. q \in Nat /\ r \in 0..(b - 1) /\ n = (b * q) + r
    BY <1>1
<1> HIDE DEF q, r
<1>3. ASSUME ~(q < m) PROVE FALSE
  <2>1. PICK d \in Nat : q = m + d
    <3>1. q - m \in Nat /\ q = m + (q - m) BY <1>2, <1>3
    <3> QED BY <3>1
  <2>2. b * q = (b * m) + (b * d) BY <2>1
  <2>3. b * d \in Nat /\ b * m \in Nat /\ b * q \in Nat BY <1>2
  <2> QED BY <1>2, <2>2, <2>3
<1>4. b * q \in Nat /\ n = r + (b * q) BY <1>2
<1> QED BY <1>2, <1>3, <1>4 DEF q, r

LEMMA Digit ==
    ASSUME NEW b \in Nat, b > 1, NEW n \in Nat, n < b
    PROVE  n % b = n
OBVIOUS

\* A length is written in four bytes, and read back as it was.
LEMMA LengthsSurvive ==
    ASSUME NEW n \in Nat, n < Lengths
    PROVE  /\ ToLE(n) \in Seq(0..(Base - 1)) /\ Len(ToLE(n)) = Width
           /\ FromLE(ToLE(n)) = n
<1> DEFINE B == Base
           q == n \div B
           r == q \div B
           s == r \div B
<1>1. B \in Nat /\ B > 1 BY FramingAssumption DEF FramingAssumption
<1>2. B * (B * (B * B)) = Lengths BY <1>1 DEF Lengths
<1> HIDE DEF B
<1>3. B * B \in Nat /\ B * (B * B) \in Nat BY <1>1
<1>4. /\ q \in Nat /\ q < B * (B * B)
      /\ n % B \in 0..(B - 1) /\ n = (n % B) + (B * q)
    BY <1>1, <1>2, <1>3, Divided
<1> HIDE DEF q
<1>5. /\ r \in Nat /\ r < B * B
      /\ q % B \in 0..(B - 1) /\ q = (q % B) + (B * r)
    BY <1>1, <1>3, <1>4, Divided
<1> HIDE DEF r
<1>6. /\ s \in Nat /\ s < B
      /\ r % B \in 0..(B - 1) /\ r = (r % B) + (B * s)
    BY <1>1, <1>5, Divided
<1>7. s % B = s BY <1>1, <1>6, Digit
<1>8. ToLE(n) = <<n % B, q % B, r % B, s>>
    BY <1>7 DEF ToLE, B, q, r
<1> HIDE DEF s
<1>9. ToLE(n) \in Seq(0..(B - 1)) /\ Len(ToLE(n)) = Width
    BY <1>1, <1>4, <1>5, <1>6, <1>8 DEF Width
<1>10. FromLE(ToLE(n)) = (n % B) + (B * ((q % B) + (B * ((r % B) + (B * s)))))
    BY <1>8 DEF FromLE, B
<1>11. FromLE(ToLE(n)) = (n % B) + (B * ((q % B) + (B * r)))
    BY <1>6, <1>10
<1>12. FromLE(ToLE(n)) = (n % B) + (B * q)
    BY <1>5, <1>11
<1> QED BY <1>4, <1>9, <1>12 DEF B

\* What write_message writes: any bytes, as many as a length can say.
Byte == 0..(Base - 1)
Writable == {payload \in Seq(Byte) : Len(payload) \in 1..(Lengths - 1)}

LEMMA FrameTyped ==
    ASSUME NEW payload \in Writable
    PROVE  /\ payload \in Seq(Byte) /\ Len(payload) \in Nat \ {0} /\ Len(payload) < Lengths
           /\ DOMAIN payload = 1..Len(payload)
           /\ Frame(payload) \in Seq(Byte) /\ Len(Frame(payload)) = Width + Len(payload)
           /\ \A x \in 1..Width : Frame(payload)[x] = ToLE(Len(payload))[x]
           /\ \A x \in 1..Len(payload) : Frame(payload)[Width + x] = payload[x]
<1> DEFINE n == Len(payload)
           le == ToLE(n)
<1>0. Lengths \in Nat BY FramingAssumption DEF FramingAssumption, Lengths
<1>1. payload \in Seq(Byte) /\ n \in Nat \ {0} /\ n < Lengths /\ DOMAIN payload = 1..n
    BY <1>0 DEF Writable
<1>2. le \in Seq(Byte) /\ Len(le) = Width
    BY <1>1, LengthsSurvive DEF Byte
<1>3. Frame(payload) = le \o payload BY DEF Frame
<1> HIDE DEF le, n
<1>4. /\ Frame(payload) \in Seq(Byte) /\ Len(Frame(payload)) = Width + n
      /\ \A x \in 1..Width : Frame(payload)[x] = le[x]
      /\ \A x \in 1..n : Frame(payload)[Width + x] = payload[x]
  <2>1. /\ le \o payload \in Seq(Byte) /\ Len(le \o payload) = Len(le) + Len(payload)
        /\ \A x \in 1..(Len(le) + Len(payload)) :
              (le \o payload)[x] = IF x <= Len(le) THEN le[x] ELSE payload[x - Len(le)]
      BY <1>1, <1>2, ConcatProperties
  <2>2. \A x \in 1..n : Width + x \in 1..(Width + n) /\ ~(Width + x <= Width)
                        /\ (Width + x) - Width = x
      BY <1>1 DEF Width
  <2>3. \A x \in 1..Width : x \in 1..(Width + n) /\ x <= Width
      BY <1>1 DEF Width
  <2> QED BY <1>1, <1>2, <1>3, <2>1, <2>2, <2>3 DEF n
<1> QED BY <1>1, <1>4 DEF le, n

\* The bytes of a stream are written frame after frame.
LEMMA BytesSteps ==
    ASSUME NEW stream \in Seq(Writable)
    PROVE  \E first \in [0..Len(stream) -> Seq(Byte)] :
              /\ Bytes(stream) = first[Len(stream)]
              /\ first[0] = <<>>
              /\ \A i \in 1..Len(stream) : first[i] = first[i - 1] \o Frame(stream[i])
<1> DEFINE S == Seq(Byte)
           m == Len(stream)
           step == [p \in (1..m) \X S |-> p[2] \o Frame(stream[p[1]])]
           Loop(f) == f = [i \in 0..m |-> IF i = 0 THEN <<>> ELSE f[i - 1] \o Frame(stream[i])]
<1>1. m \in Nat /\ \A i \in 1..m : Frame(stream[i]) \in S
  <2>1. \A i \in 1..m : stream[i] \in Writable BY ElementsTyped
  <2> QED BY <2>1, FrameTyped
<1>2. \A i \in 1..m : \A s \in S : s \o Frame(stream[i]) \in S
    BY <1>1
<1>3. <<>> \in S
    OBVIOUS
<1> HIDE DEF S, m
<1>4. PICK f : Runs(f, step, m, <<>>, S)
  <2>1. IsLoop(step, m, S) BY <1>2 DEF IsLoop
  <2> HIDE DEF step
  <2> QED BY <1>1, <1>3, <2>1, Recursion
<1>5. f \in [0..m -> S] /\ f[0] = <<>> /\ \A i \in 1..m : f[i] = step[<<i, f[i - 1]>>]
  <2> HIDE DEF step
  <2> QED BY <1>4 DEF Runs
<1>6. ASSUME NEW i \in 1..m PROVE i # 0 /\ f[i] = f[i - 1] \o Frame(stream[i])
  <2>1. f[i - 1] \in S /\ i # 0 BY <1>1, <1>5
  <2> QED BY <1>5, <2>1
<1>7. Loop(f)
  <2> DEFINE h == [i \in 0..m |-> IF i = 0 THEN <<>> ELSE f[i - 1] \o Frame(stream[i])]
  <2>1. ASSUME NEW i \in 0..m PROVE f[i] = h[i]
    <3>1. CASE i = 0 BY <1>5, <3>1
    <3>2. CASE i \in 1..m BY <1>6, <3>2
    <3> QED BY <1>1, <3>1, <3>2
  <2>2. f = [i \in 0..m |-> f[i]] /\ h = [i \in 0..m |-> h[i]] BY <1>5
  <2>3. f = h
    <3> HIDE DEF h
    <3> QED BY <2>1, <2>2
  <2> QED BY <2>3
<1>8. \E g : Loop(g) /\ Bytes(stream) = g[m]
  <2>1. \E g : Loop(g) BY <1>7
  <2> QED BY <2>1 DEF Bytes, m
<1>9. PICK g : Loop(g) /\ Bytes(stream) = g[m]
  <2> HIDE DEF Loop
  <2> QED BY <1>8
<1>10. \A i \in 0..m : g[i] = IF i = 0 THEN <<>> ELSE g[i - 1] \o Frame(stream[i])
    BY <1>9
<1>11. g = [i \in 0..m |-> g[i]] BY <1>9
<1> DEFINE T == {i \in 0..m : g[i] \in S}
<1> HIDE DEF Loop
<1>12. 0 \in T BY <1>1, <1>3, <1>10
<1>13. ASSUME NEW n \in 0..(m - 1), n \in T PROVE n + 1 \in T
  <2>1. n + 1 \in 1..m /\ n + 1 \in 0..m /\ n + 1 # 0 /\ (n + 1) - 1 = n BY <1>1
  <2>2. g[n + 1] = g[n] \o Frame(stream[n + 1]) BY <1>10, <2>1
  <2> QED BY <1>2, <1>13, <2>1, <2>2
<1>14. \A i \in 0..m : i \in T
  <2> HIDE DEF T
  <2> QED BY <1>1, <1>12, <1>13, Induction
<1>15. g \in [0..m -> S] BY <1>11, <1>14
<1>16. g[0] = <<>> /\ \A i \in 1..m : g[i] = g[i - 1] \o Frame(stream[i])
  <2>1. 0 \in 0..m /\ \A i \in 1..m : i \in 0..m /\ i # 0 BY <1>1
  <2> QED BY <1>10, <2>1
<1> QED BY <1>9, <1>15, <1>16 DEF S, m

\* A message ends a length and a payload after the one before it.
LEMMA EndSteps ==
    ASSUME NEW stream \in Seq(Writable)
    PROVE  /\ End(stream, 0) = 0
           /\ \A i \in 0..Len(stream) : End(stream, i) \in Nat
           /\ \A i \in 1..Len(stream) :
                 End(stream, i) = End(stream, i - 1) + Width + Len(stream[i])
<1> DEFINE m == Len(stream)
           step == [p \in (1..m) \X Nat |-> p[2] + Width + Len(stream[p[1]])]
           Loop(f) == f = [i \in 0..m |-> IF i = 0 THEN 0 ELSE f[i - 1] + Width + Len(stream[i])]
<1>1. m \in Nat /\ \A i \in 1..m : Len(stream[i]) \in Nat
  <2>1. \A i \in 1..m : stream[i] \in Writable BY ElementsTyped
  <2> QED BY <2>1, FrameTyped
<1> HIDE DEF m
<1>2. PICK f : Runs(f, step, m, 0, Nat)
  <2>1. IsLoop(step, m, Nat) BY <1>1 DEF IsLoop, Width
  <2> HIDE DEF step
  <2> QED BY <1>1, <2>1, Recursion
<1>3. f \in [0..m -> Nat] /\ f[0] = 0 /\ \A i \in 1..m : f[i] = step[<<i, f[i - 1]>>]
  <2> HIDE DEF step
  <2> QED BY <1>2 DEF Runs
<1>4. ASSUME NEW i \in 1..m PROVE i # 0 /\ f[i] = f[i - 1] + Width + Len(stream[i])
  <2>1. f[i - 1] \in Nat /\ i # 0 BY <1>1, <1>3
  <2> QED BY <1>3, <2>1
<1>5. Loop(f)
  <2> DEFINE h == [i \in 0..m |-> IF i = 0 THEN 0 ELSE f[i - 1] + Width + Len(stream[i])]
  <2>1. ASSUME NEW i \in 0..m PROVE f[i] = h[i]
    <3>1. CASE i = 0 BY <1>3, <3>1
    <3>2. CASE i \in 1..m BY <1>4, <3>2
    <3> QED BY <1>1, <3>1, <3>2
  <2>2. f = [i \in 0..m |-> f[i]] /\ h = [i \in 0..m |-> h[i]] BY <1>3
  <2>3. f = h
    <3> HIDE DEF h
    <3> QED BY <2>1, <2>2
  <2> QED BY <2>3
<1>6. ASSUME NEW i \in 0..m PROVE End(stream, i) = f[i]
  <2>1. \E g : Loop(g) /\ End(stream, i) = g[i]
    <3>1. \E g : Loop(g) BY <1>5
    <3> QED BY <3>1 DEF End, m
  <2>2. PICK g : Loop(g) /\ End(stream, i) = g[i]
    <3> HIDE DEF Loop
    <3> QED BY <2>1
  <2>3. \A j \in 0..m : g[j] = IF j = 0 THEN 0 ELSE g[j - 1] + Width + Len(stream[j])
      BY <2>2
  <2> DEFINE T == {j \in 0..m : g[j] = f[j]}
  <2> HIDE DEF Loop
  <2>4. 0 \in T BY <1>1, <1>3, <2>3
  <2>5. ASSUME NEW n \in 0..(m - 1), n \in T PROVE n + 1 \in T
    <3>1. n + 1 \in 1..m /\ n + 1 \in 0..m /\ n + 1 # 0 /\ (n + 1) - 1 = n BY <1>1
    <3>2. g[n + 1] = g[n] + Width + Len(stream[n + 1]) BY <2>3, <3>1
    <3> QED BY <1>4, <2>5, <3>1, <3>2
  <2>6. \A j \in 0..m : j \in T
    <3> HIDE DEF T
    <3> QED BY <1>1, <2>4, <2>5, Induction
  <2> QED BY <2>2, <2>6
<1>7. \A i \in 1..m : i \in 0..m /\ i - 1 \in 0..m BY <1>1
<1>8. 0 \in 0..m BY <1>1
<1>9. End(stream, 0) = 0 /\ \A i \in 0..m : End(stream, i) \in Nat
    BY <1>3, <1>6, <1>8
<1>10. \A i \in 1..m : End(stream, i) = End(stream, i - 1) + Width + Len(stream[i])
    BY <1>4, <1>6, <1>7
<1> QED BY <1>9, <1>10 DEF m

\* Among the bytes, a message that begins at a place.
LiesAt(bytes, at, payload) ==
    /\ \A x \in 1..Width : bytes[at + x] = ToLE(Len(payload))[x]
    /\ \A x \in 1..Len(payload) : bytes[at + Width + x] = payload[x]

\* What lies where among the bytes of a stream: the messages end in their order,
\* the last with the bytes, and each is a length and its payload.
LEMMA Layout ==
    ASSUME NEW stream \in Seq(Writable)
    PROVE  /\ Bytes(stream) \in Seq(Byte) /\ Len(Bytes(stream)) = End(stream, Len(stream))
           /\ \A i \in 0..Len(stream) : \A j \in 0..i : End(stream, j) <= End(stream, i)
           /\ \A i \in 1..Len(stream) :
                 LiesAt(Bytes(stream), End(stream, i - 1), stream[i])
<1> DEFINE m == Len(stream)
           e == [i \in 0..m |-> End(stream, i)]
           len == [i \in 1..m |-> Len(stream[i])]
<1>1. m \in Nat /\ \A i \in 1..m : stream[i] \in Writable
    BY ElementsTyped
<1>2. PICK first \in [0..m -> Seq(Byte)] :
         /\ Bytes(stream) = first[m]
         /\ first[0] = <<>>
         /\ \A i \in 1..m : first[i] = first[i - 1] \o Frame(stream[i])
    BY BytesSteps
<1> HIDE DEF m
<1>3. /\ e[0] = 0 /\ \A i \in 0..m : e[i] \in Nat /\ e[i] = End(stream, i)
      /\ \A i \in 1..m : len[i] = Len(stream[i]) /\ len[i] \in Nat
                         /\ e[i] = e[i - 1] + Width + len[i]
  <2>1. \A i \in 1..m : i - 1 \in 0..m /\ i \in 0..m BY <1>1
  <2>2. 0 \in 0..m BY <1>1
  <2>3. \A i \in 1..m : len[i] = Len(stream[i]) /\ len[i] \in Nat
      BY <1>1, FrameTyped
  <2>4. /\ End(stream, 0) = 0
        /\ \A i \in 0..m : End(stream, i) \in Nat
        /\ \A i \in 1..m : End(stream, i) = End(stream, i - 1) + Width + Len(stream[i])
      BY EndSteps DEF m
  <2> QED BY <2>1, <2>2, <2>3, <2>4
<1> HIDE DEF e, len
<1>4. ASSUME NEW i \in 1..m
      PROVE  /\ i - 1 \in 0..m /\ i \in 0..m
             /\ first[i - 1] \in Seq(Byte) /\ first[i] \in Seq(Byte)
             /\ Len(first[i]) = Len(first[i - 1]) + Width + len[i]
             /\ \A x \in 1..Len(first[i - 1]) : first[i][x] = first[i - 1][x]
             /\ \A x \in 1..(Width + len[i]) :
                   first[i][Len(first[i - 1]) + x] = Frame(stream[i])[x]
  <2> DEFINE s == first[i - 1]
             t == Frame(stream[i])
  <2>1. i - 1 \in 0..m /\ i \in 0..m BY <1>1
  <2>2. s \in Seq(Byte) /\ t \in Seq(Byte) /\ Len(t) = Width + len[i]
      BY <1>1, <1>3, <2>1, FrameTyped
  <2>3. first[i] = s \o t BY <1>2
  <2>4. first[i] \in Seq(Byte) BY <1>2, <2>1
  <2> HIDE DEF s, t
  <2>5. /\ Len(s \o t) = Len(s) + Len(t)
        /\ \A x \in 1..(Len(s) + Len(t)) :
              (s \o t)[x] = IF x <= Len(s) THEN s[x] ELSE t[x - Len(s)]
      BY <2>2, ConcatProperties
  <2>6. Len(s) \in Nat /\ Width + len[i] \in Nat BY <1>3, <2>2 DEF Width
  <2>7. /\ \A x \in 1..Len(s) : x \in 1..(Len(s) + Len(t)) /\ x <= Len(s)
        /\ \A x \in 1..(Width + len[i]) :
              /\ Len(s) + x \in 1..(Len(s) + Len(t)) /\ ~(Len(s) + x <= Len(s))
              /\ (Len(s) + x) - Len(s) = x
      BY <2>2, <2>6
  <2>8. Len(first[i]) = Len(s) + Width + len[i]
      BY <1>3, <2>2, <2>3, <2>5, <2>6 DEF Width
  <2>9. \A x \in 1..Len(s) : first[i][x] = s[x] BY <2>3, <2>5, <2>7
  <2>10. \A x \in 1..(Width + len[i]) : first[i][Len(s) + x] = t[x] BY <2>3, <2>5, <2>7
  <2> QED BY <2>1, <2>2, <2>4, <2>8, <2>9, <2>10 DEF s, t
<1> DEFINE Kept(j) == /\ Len(first[j]) = e[j]
                      /\ \A i \in 0..j : /\ e[i] <= e[j]
                                         /\ \A x \in 1..e[i] : first[j][x] = first[i][x]
           T == {j \in 0..m : Kept(j)}
<1>5. 0 \in T
  <2>1. 0..0 = {0} /\ 0 \in 0..m BY <1>1
  <2> QED BY <1>2, <1>3, <2>1
<1>6. ASSUME NEW n \in 0..(m - 1), n \in T PROVE n + 1 \in T
  <2> DEFINE j == n + 1
  <2>1. j \in 1..m /\ j \in 0..m /\ j - 1 = n /\ n \in 0..m /\ 0..j = (0..n) \cup {j} BY <1>1
  <2> HIDE DEF j
  <2>2. Kept(n) BY <1>6
  <2>3. e[j] = e[n] + Width + len[j] /\ e[n] \in Nat /\ len[j] \in Nat /\ e[j] \in Nat
      BY <1>3, <2>1
  <2>4. Len(first[j]) = e[j] BY <1>4, <2>1, <2>2, <2>3
  <2>5. e[n] <= e[j] BY <2>3 DEF Width
  <2>6. ASSUME NEW i \in 0..n
        PROVE  e[i] <= e[j] /\ \A x \in 1..e[i] : first[j][x] = first[i][x]
    <3>1. i \in 0..m /\ e[i] \in Nat /\ e[i] <= e[n] BY <1>1, <1>3, <2>2, <2>1
    <3>2. \A x \in 1..e[i] : x \in 1..e[n] BY <2>3, <3>1
    <3>3. \A x \in 1..e[n] : first[j][x] = first[n][x] BY <1>4, <2>1, <2>2
    <3>4. \A x \in 1..e[i] : first[n][x] = first[i][x] BY <2>2
    <3> QED BY <2>3, <2>5, <3>1, <3>2, <3>3, <3>4
  <2>7. Kept(j) BY <2>1, <2>3, <2>4, <2>6
  <2> HIDE DEF Kept
  <2> QED BY <2>1, <2>7 DEF j
<1>7. ASSUME NEW j \in 0..m PROVE Kept(j)
  <2>1. \A n \in 0..m : n \in T
    <3> HIDE DEF T
    <3> QED BY <1>1, <1>5, <1>6, Induction
  <2> HIDE DEF Kept
  <2> QED BY <2>1
<1>8. ASSUME NEW i \in 1..m
      PROVE  LiesAt(Bytes(stream), e[i - 1], stream[i])
  <2>1. i - 1 \in 0..m /\ i \in 0..m /\ m \in 0..m BY <1>1
  <2>2. Len(first[i - 1]) = e[i - 1] /\ Kept(m) BY <1>7, <2>1
  <2>3. /\ e[i] = e[i - 1] + Width + len[i]
        /\ e[i - 1] \in Nat /\ len[i] \in Nat /\ len[i] = Len(stream[i])
      BY <1>3, <2>1
  <2>4. \A x \in 1..e[i] : Bytes(stream)[x] = first[i][x] BY <1>2, <2>1, <2>2
  <2>5. \A x \in 1..(Width + len[i]) :
           e[i - 1] + x \in 1..e[i] /\ first[i][e[i - 1] + x] = Frame(stream[i])[x]
    <3>1. \A x \in 1..(Width + len[i]) : e[i - 1] + x \in 1..e[i] BY <2>3 DEF Width
    <3> QED BY <1>4, <2>2, <3>1
  <2>6. /\ \A x \in 1..Width : Frame(stream[i])[x] = ToLE(Len(stream[i]))[x]
        /\ \A x \in 1..len[i] : Frame(stream[i])[Width + x] = stream[i][x]
      BY <1>1, <2>3, FrameTyped
  <2>7. \A x \in 1..Width : x \in 1..(Width + len[i]) BY <2>3 DEF Width
  <2>8. ASSUME NEW x \in 1..len[i]
        PROVE  /\ Width + x \in 1..(Width + len[i])
               /\ e[i - 1] + (Width + x) = e[i - 1] + Width + x
    <3> DEFINE a == e[i - 1]
               l == len[i]
    <3>1. a \in Nat /\ l \in Nat /\ x \in 1..l BY <2>3
    <3> HIDE DEF a, l
    <3>2. Width + x \in 1..(Width + l) /\ a + (Width + x) = a + Width + x
        BY <3>1 DEF Width
    <3> QED BY <3>2 DEF a, l
  <2>9. \A x \in 1..Width : Bytes(stream)[e[i - 1] + x] = ToLE(Len(stream[i]))[x]
      BY <2>4, <2>5, <2>6, <2>7
  <2>10. ASSUME NEW x \in 1..len[i]
         PROVE  Bytes(stream)[e[i - 1] + Width + x] = stream[i][x]
    <3>1. Bytes(stream)[e[i - 1] + (Width + x)] = Frame(stream[i])[Width + x]
        BY <2>4, <2>5, <2>8
    <3> QED BY <2>6, <2>8, <3>1
  <2> QED BY <2>3, <2>9, <2>10 DEF LiesAt
<1>9. Bytes(stream) \in Seq(Byte) /\ Len(Bytes(stream)) = e[m] /\ m \in 0..m
  <2>1. m \in 0..m BY <1>1
  <2>2. Kept(m) BY <1>7, <2>1
  <2> QED BY <1>2, <2>1, <2>2
<1>10. \A i \in 0..m : \A j \in 0..i : e[j] <= e[i] BY <1>7
<1>11. \A i \in 1..m : e[i - 1] = End(stream, i - 1)
  <2>1. \A i \in 1..m : i - 1 \in 0..m BY <1>1
  <2> QED BY <1>3, <2>1
<1>12. \A i \in 0..m : \A j \in 0..i : End(stream, j) <= End(stream, i)
  <2>1. \A i \in 0..m : \A j \in 0..i : j \in 0..m BY <1>1
  <2> QED BY <1>3, <1>10, <2>1
<1>13. Len(Bytes(stream)) = End(stream, m) BY <1>3, <1>9
<1>14. \A i \in 1..m : LiesAt(Bytes(stream), End(stream, i - 1), stream[i])
    BY <1>8, <1>11
<1> QED BY <1>9, <1>12, <1>13, <1>14 DEF m

\* The n elements of a list that follow the first a.
LEMMA PartOfList ==
    ASSUME NEW S, NEW s \in Seq(S), NEW a \in Nat, NEW n \in Nat, a + n <= Len(s)
    PROVE  /\ SubSeq(s, a + 1, a + n) \in Seq(S) /\ Len(SubSeq(s, a + 1, a + n)) = n
           /\ \A x \in 1..n : SubSeq(s, a + 1, a + n)[x] = s[a + x]
<1> DEFINE part == SubSeq(s, a + 1, a + n)
<1>1. a + 1 \in Int /\ a + n \in Int /\ \A i \in (a + 1)..(a + n) : s[i] \in S
  <2>1. Len(s) \in Nat /\ \A i \in 1..Len(s) : s[i] \in S BY ElementsTyped
  <2> QED BY <2>1
<1>2. /\ part \in Seq(S)
      /\ Len(part) = IF a + 1 <= a + n THEN (a + n) - (a + 1) + 1 ELSE 0
      /\ \A i \in 1..((a + n) - (a + 1) + 1) : part[i] = s[(a + 1) + i - 1]
    BY <1>1, SubSeqProperties
<1> HIDE DEF part
<1>3. (a + n) - (a + 1) + 1 = n /\ \A x \in 1..n : (a + 1) + x - 1 = a + x
    OBVIOUS
<1>4. Len(part) = n BY <1>2, <1>3
<1>5. \A x \in 1..n : part[x] = s[a + x] BY <1>2, <1>3
<1> QED BY <1>2, <1>4, <1>5 DEF part

\* read_message at the end of the i-th message of a stream of which k bytes
\* arrive: the next message if it is whole and can be read; otherwise the end of
\* the input if less than a length is left, and an error if not.
LEMMA NextMessage ==
    ASSUME NEW stream \in Seq(Writable), NEW k \in 0..Len(Bytes(stream)),
           NEW i \in 0..Len(stream), End(stream, i) <= k
    PROVE  LET r == ReadMessage(SubSeq(Bytes(stream), 1, k), End(stream, i))
           IN  IF /\ i < Len(stream) /\ End(stream, i + 1) <= k
                  /\ IsReadable(stream[i + 1])
               THEN r = [what |-> "message", message |-> stream[i + 1],
                         at |-> End(stream, i + 1)]
               ELSE r.what = IF k - End(stream, i) < Width THEN "eof" ELSE "error"
<1> DEFINE bytes == Bytes(stream)
           cut == SubSeq(bytes, 1, k)
           at == End(stream, i)
           left == Len(cut) - at
           head == SubSeq(cut, at + 1, at + Width)
           len == FromLE(head)
           body == SubSeq(cut, at + Width + 1, at + Width + len)
           r == ReadMessage(cut, at)
<1>1. /\ bytes \in Seq(Byte) /\ Len(bytes) = End(stream, Len(stream)) /\ Len(stream) \in Nat
      /\ at \in Nat /\ k \in Nat /\ k <= Len(bytes) /\ Len(bytes) \in Nat
  <2>1. bytes \in Seq(Byte) /\ Len(bytes) = End(stream, Len(stream)) BY Layout
  <2>2. at \in Nat BY EndSteps
  <2> HIDE DEF bytes, at
  <2>3. Len(bytes) \in Nat /\ Len(stream) \in Nat BY <2>1
  <2> QED BY <2>1, <2>2, <2>3 DEF bytes
<1>2. /\ cut \in Seq(Byte) /\ Len(cut) = k /\ \A x \in 1..k : cut[x] = bytes[x]
  <2> HIDE DEF bytes
  <2>1. 0 + 1 = 1 /\ 0 + k = k /\ 0 + k <= Len(bytes) /\ \A x \in 1..k : 0 + x = x BY <1>1
  <2>2. /\ SubSeq(bytes, 0 + 1, 0 + k) \in Seq(Byte) /\ Len(SubSeq(bytes, 0 + 1, 0 + k)) = k
        /\ \A x \in 1..k : SubSeq(bytes, 0 + 1, 0 + k)[x] = bytes[0 + x]
      BY <1>1, <2>1, PartOfList
  <2> QED BY <2>1, <2>2
<1>3. left = k - at BY <1>2
<1>4. /\ left < Width => r.what = "eof"
      /\ ~(left < Width) /\ (len = 0 \/ len > MAX_INBOUND_BYTES \/ left < Width + len
                             \/ body \notin JsonTexts) => r.what = "error"
      /\ ~(left < Width) /\ len # 0 /\ ~(len > MAX_INBOUND_BYTES) /\ ~(left < Width + len)
            /\ body \in JsonTexts
         => r = [what |-> "message", message |-> body, at |-> at + Width + len]
  <2> DEFINE Outcome(what) == [what |-> what, message |-> <<>>, at |-> at]
  <2>1. r = IF left < Width THEN Outcome("eof")
            ELSE IF len = 0 \/ len > MAX_INBOUND_BYTES THEN Outcome("error")
            ELSE IF left < Width + len THEN Outcome("error")
            ELSE IF body \notin JsonTexts THEN Outcome("error")
            ELSE [what |-> "message", message |-> body, at |-> at + Width + len]
      BY DEF ReadMessage
  <2>2. Outcome("eof").what = "eof" /\ Outcome("error").what = "error" OBVIOUS
  <2> HIDE DEF Outcome, r, left, len, body, at, cut
  <2> QED BY <2>1, <2>2
<1>5. CASE i = Len(stream)
  <2>1. at = Len(bytes) /\ ~(i < Len(stream)) BY <1>1, <1>5
  <2>2. left < Width /\ k - at < Width BY <1>1, <1>3, <2>1 DEF Width
  <2> HIDE DEF r, left, at
  <2>3. r.what = "eof" BY <1>4, <2>2
  <2> QED BY <2>1, <2>2, <2>3 DEF r, at
<1>6. CASE i # Len(stream)
  <2> DEFINE payload == stream[i + 1]
             n == Len(payload)
             next == End(stream, i + 1)
  <2>1. i < Len(stream) /\ i + 1 \in 1..Len(stream) /\ (i + 1) - 1 = i /\ i + 1 \in 0..Len(stream)
      BY <1>1, <1>6
  <2>2. /\ payload \in Seq(Byte) /\ n \in Nat \ {0} /\ n < Lengths
        /\ DOMAIN payload = 1..n
    <3>1. payload \in Writable BY <2>1, ElementsTyped
    <3> QED BY <3>1, FrameTyped
  <2>3. next = at + Width + n /\ next \in Nat BY <2>1, EndSteps
  <2>4. /\ \A x \in 1..Width : bytes[at + x] = ToLE(n)[x]
        /\ \A x \in 1..n : bytes[at + Width + x] = payload[x]
    <3>1. LiesAt(bytes, at, payload) BY <2>1, Layout
    <3> QED BY <3>1 DEF LiesAt
  <2> HIDE DEF next, n, payload, at, bytes
  <2>5. CASE left < Width
    <3>1. ~(next <= k) BY <1>1, <1>3, <2>2, <2>3, <2>5 DEF Width
    <3>2. r.what = "eof" /\ k - at < Width
      <4> HIDE DEF r, left
      <4> QED BY <1>3, <1>4, <2>5
    <3> HIDE DEF r
    <3> QED BY <3>1, <3>2 DEF r, next, at, bytes
  <2>6. CASE ~(left < Width)
    <3>1. at + Width <= k /\ ~(k - at < Width) BY <1>1, <1>3, <2>6 DEF Width
    <3>2. len = n
      <4>1. head \in Seq(Byte) /\ Len(head) = Width /\ \A x \in 1..Width : head[x] = cut[at + x]
        <5>1. Width \in Nat BY DEF Width
        <5> HIDE DEF cut
        <5> QED BY <1>1, <1>2, <3>1, <5>1, PartOfList
      <4>2. \A x \in 1..Width : at + x \in 1..k BY <1>1, <3>1 DEF Width
      <4> HIDE DEF head, cut
      <4>3. \A x \in 1..Width : head[x] = ToLE(n)[x] BY <1>2, <2>4, <4>1, <4>2
      <4>4. FromLE(head) = FromLE(ToLE(n))
        <5>1. head[1] = ToLE(n)[1] /\ head[2] = ToLE(n)[2] /\ head[3] = ToLE(n)[3]
              /\ head[4] = ToLE(n)[4]
            BY <4>3 DEF Width
        <5> QED BY <5>1 DEF FromLE
      <4> QED BY <2>2, <4>4, LengthsSurvive
    <3> HIDE DEF len
    <3>3. MAX_INBOUND_BYTES \in Nat BY FramingAssumption DEF FramingAssumption
    <3>4. CASE n > MAX_INBOUND_BYTES
      <4>1. ~IsReadable(payload) BY <2>2, <3>3, <3>4 DEF IsReadable, n
      <4>2. r.what = "error"
        <5> HIDE DEF r, left, body
        <5> QED BY <1>4, <2>6, <3>2, <3>4
      <4> HIDE DEF r
      <4> QED BY <3>1, <4>1, <4>2 DEF r, payload, at, bytes
    <3>5. CASE ~(n > MAX_INBOUND_BYTES) /\ ~(next <= k)
      <4>1. left < Width + len BY <1>1, <1>3, <2>2, <2>3, <3>2, <3>5 DEF Width
      <4>2. r.what = "error"
        <5> HIDE DEF r, left, body
        <5> QED BY <1>4, <2>6, <4>1
      <4> HIDE DEF r
      <4> QED BY <3>1, <3>5, <4>2 DEF r, next, at, bytes
    <3>6. CASE ~(n > MAX_INBOUND_BYTES) /\ next <= k
      <4>1. ~(left < Width + len) /\ at + Width + len = next /\ len # 0
          BY <1>1, <1>3, <2>2, <2>3, <3>2, <3>6 DEF Width
      <4>2. body = payload
        <5> DEFINE a == at + Width
        <5>1. a \in Nat /\ a + n <= Len(cut) BY <1>1, <1>2, <2>2, <2>3, <3>6 DEF Width
        <5>2. \A x \in 1..n : a + x \in 1..k BY <1>1, <2>2, <2>3, <3>6 DEF Width
        <5>3. \A x \in 1..n : bytes[a + x] = payload[x] BY <2>4
        <5> HIDE DEF a
        <5>4. /\ SubSeq(cut, a + 1, a + n) \in Seq(Byte) /\ Len(SubSeq(cut, a + 1, a + n)) = n
              /\ \A x \in 1..n : SubSeq(cut, a + 1, a + n)[x] = cut[a + x]
          <6> HIDE DEF cut
          <6> QED BY <1>2, <2>2, <5>1, PartOfList
        <5>5. body = SubSeq(cut, a + 1, a + n) BY <3>2 DEF a
        <5> HIDE DEF body, cut
        <5>6. \A x \in 1..n : body[x] = payload[x] BY <1>2, <5>2, <5>3, <5>4, <5>5
        <5> QED BY <2>2, <5>4, <5>5, <5>6, SeqEqual DEF n
      <4>3. CASE payload \in JsonTexts
        <5>1. IsReadable(payload) BY <2>2, <3>3, <3>6, <4>3 DEF IsReadable, n
        <5>2. r = [what |-> "message", message |-> payload, at |-> next]
          <6> HIDE DEF r, left, body
          <6> QED BY <1>4, <2>6, <3>2, <3>6, <4>1, <4>2, <4>3
        <5> HIDE DEF r
        <5> QED BY <2>1, <3>6, <5>1, <5>2 DEF r, next, payload, at, bytes
      <4>4. CASE payload \notin JsonTexts
        <5>1. ~IsReadable(payload) BY <4>4 DEF IsReadable
        <5>2. r.what = "error"
          <6> HIDE DEF r, left, body
          <6> QED BY <1>4, <2>6, <4>2, <4>4
        <5> HIDE DEF r
        <5> QED BY <3>1, <5>1, <5>2 DEF r, payload, at, bytes
      <4> QED BY <4>3, <4>4
    <3> QED BY <3>4, <3>5, <3>6
  <2> QED BY <2>5, <2>6
<1> QED BY <1>5, <1>6

\* How many messages arrive: all of those are whole and can be read, and the
\* next one is not.
LEMMA ArrivedMessages ==
    ASSUME NEW stream \in Seq(Writable), NEW k \in Nat
    PROVE  LET n == Arrived(stream, k)
           IN  /\ n \in 0..Len(stream)
               /\ \A i \in 1..n : End(stream, i) <= k /\ IsReadable(stream[i])
               /\ n < Len(stream) => ~(End(stream, n + 1) <= k /\ IsReadable(stream[n + 1]))
<1> DEFINE m == Len(stream)
           Here(i) == End(stream, i) <= k /\ \A j \in 1..i : IsReadable(stream[j])
           Whole == {i \in 1..m : Here(i)}
           Missing == {i \in 1..(m + 1) : i \notin Whole}
<1>1. m \in Nat OBVIOUS
<1>2. m + 1 \in Missing /\ Missing \subseteq Nat BY <1>1
<1>3. PICK x \in Missing : \A y \in Missing : x <= y
  <2> HIDE DEF Missing
  <2> QED BY <1>2, LeastNumber
<1> DEFINE n == x - 1
<1>4. x \in 1..(m + 1) /\ x \notin Whole /\ n \in 0..m /\ x = n + 1 BY <1>1, <1>3
<1>5. ASSUME NEW y \in 1..n PROVE y \in Whole
  <2>1. y \in 1..(m + 1) /\ ~(x <= y) BY <1>1, <1>4
  <2> QED BY <1>3, <2>1
<1>6. ASSUME NEW y \in Whole PROVE y \in 1..n
  <2>1. y \in 1..m /\ Here(y) OBVIOUS
  <2> SUFFICES ASSUME x <= y PROVE FALSE BY <1>1, <1>4, <2>1
  <2>2. x \in 1..m /\ x \in 0..y /\ y \in 0..m /\ x \in 0..m /\ \A j \in 1..x : j \in 1..y
      BY <1>1, <1>4, <2>1
  <2>3. End(stream, x) <= End(stream, y) BY <2>2, Layout DEF m
  <2>4. End(stream, x) \in Nat /\ End(stream, y) \in Nat BY <2>2, EndSteps DEF m
  <2>5. Here(x) BY <2>1, <2>2, <2>3, <2>4
  <2> QED BY <1>4, <2>2, <2>5
<1>7. Whole = 1..n BY <1>5, <1>6
<1>8. Arrived(stream, k) = n
  <2>1. Arrived(stream, k) = Cardinality(Whole) BY DEF Arrived
  <2>2. Cardinality(1..n) = n BY <1>1, <1>4, FS_Interval
  <2> HIDE DEF Whole, n
  <2> QED BY <1>7, <2>1, <2>2
<1>9. \A i \in 1..n : End(stream, i) <= k /\ IsReadable(stream[i])
  <2> SUFFICES ASSUME NEW i \in 1..n PROVE End(stream, i) <= k /\ IsReadable(stream[i])
      OBVIOUS
  <2>1. Here(i) BY <1>5
  <2>2. i \in 1..i BY <1>1, <1>4
  <2> QED BY <2>1, <2>2
<1>10. n < m => ~(End(stream, n + 1) <= k /\ IsReadable(stream[n + 1]))
  <2> SUFFICES ASSUME n < m, End(stream, n + 1) <= k, IsReadable(stream[n + 1]) PROVE FALSE
      OBVIOUS
  <2>1. x \in 1..m /\ \A j \in 1..x : j \in 1..n \/ j = x BY <1>1, <1>4
  <2>2. Here(x)
    <3> HIDE DEF n
    <3> QED BY <1>4, <1>9, <2>1
  <2> QED BY <1>4, <2>1, <2>2
<1> HIDE DEF n
<1> QED BY <1>4, <1>8, <1>9, <1>10

\* Every message takes five bytes or more.
LEMMA EndGrows ==
    ASSUME NEW stream \in Seq(Writable)
    PROVE  \A i \in 0..Len(stream) : (Width + 1) * i <= End(stream, i)
<1> DEFINE m == Len(stream)
           T == {i \in 0..m : (Width + 1) * i <= End(stream, i)}
<1>1. /\ m \in Nat /\ \A i \in 1..m : stream[i] \in Writable
    BY ElementsTyped
<1>2. /\ End(stream, 0) = 0
      /\ \A i \in 0..m : End(stream, i) \in Nat
      /\ \A i \in 1..m : End(stream, i) = End(stream, i - 1) + Width + Len(stream[i])
    BY EndSteps
<1> HIDE DEF m
<1>3. 0 \in T BY <1>1, <1>2 DEF Width
<1>4. ASSUME NEW n \in 0..(m - 1), n \in T PROVE n + 1 \in T
  <2>1. n + 1 \in 1..m /\ n + 1 \in 0..m /\ (n + 1) - 1 = n /\ n \in 0..m BY <1>1
  <2>2. Len(stream[n + 1]) \in Nat \ {0} BY <1>1, <2>1, FrameTyped
  <2>3. End(stream, n + 1) = End(stream, n) + Width + Len(stream[n + 1])
      BY <1>2, <2>1
  <2> QED BY <1>2, <1>4, <2>1, <2>2, <2>3 DEF Width
<1>5. \A i \in 0..m : i \in T
  <2> HIDE DEF T
  <2> QED BY <1>1, <1>3, <1>4, Induction
<1> QED BY <1>5 DEF m

\* The loop of run_native_messaging reads what arrives: its first turns read a
\* message each, the next one tells what is left, and there are turns for that.
LEMMA CutIsNoticed ==
    ASSUME NEW stream \in Seq(Writable), NEW k \in 0..Len(Bytes(stream))
    PROVE  LET n == Arrived(stream, k)
               read == ReadAll(SubSeq(Bytes(stream), 1, k))
           IN  /\ read.messages = SubSeq(stream, 1, n)
               /\ read.end = IF k - End(stream, n) < Width THEN "eof" ELSE "error"
<1> DEFINE N == Len(stream)
           cut == SubSeq(Bytes(stream), 1, k)
           n == Arrived(stream, k)
           e == [i \in 0..N |-> End(stream, i)]
           end == IF k - End(stream, n) < Width THEN "eof" ELSE "error"
           start == [messages |-> <<>>, end |-> "none", at |-> 0]
           last == (Len(cut) \div (Width + 1)) + 1
           Loop(f) == f = [i \in 0..last |-> IF i = 0 THEN start ELSE Turn(cut, f[i - 1])]
           Reading(i) == [messages |-> SubSeq(stream, 1, i), end |-> "none", at |-> End(stream, i)]
           Ended == [messages |-> SubSeq(stream, 1, n), end |-> end, at |-> End(stream, n)]
           State(i) == IF i <= n THEN Reading(i) ELSE Ended
<1>1. k \in Nat /\ N \in Nat /\ Len(cut) = k
  <2>1. Bytes(stream) \in Seq(Byte) BY Layout
  <2>2. Len(Bytes(stream)) \in Nat BY <2>1
  <2>3. k \in Nat /\ 0 + 1 = 1 /\ 0 + k = k /\ 0 + k <= Len(Bytes(stream)) BY <2>2
  <2>4. Len(SubSeq(Bytes(stream), 0 + 1, 0 + k)) = k BY <2>1, <2>3, PartOfList
  <2> QED BY <2>3, <2>4
<1>2. /\ n \in 0..N
      /\ \A i \in 1..n : End(stream, i) <= k /\ IsReadable(stream[i])
      /\ n < N => ~(End(stream, n + 1) <= k /\ IsReadable(stream[n + 1]))
  <2> HIDE DEF N, n
  <2> QED BY <1>1, ArrivedMessages DEF N, n
<1>3. End(stream, 0) = 0 /\ \A i \in 0..N : End(stream, i) \in Nat BY EndSteps
<1> HIDE DEF n, N
<1>4. \A i \in 0..n : End(stream, i) <= k /\ i \in 0..N
  <2>1. \A i \in 0..n : i = 0 \/ i \in 1..n BY <1>1, <1>2
  <2> QED BY <1>1, <1>2, <1>3, <2>1
<1>5. last \in Nat /\ n < last
  <2>1. (Width + 1) * n <= End(stream, n) /\ End(stream, n) <= k /\ End(stream, n) \in Nat
      BY <1>1, <1>2, <1>3, <1>4, EndGrows DEF N
  <2>2. n \in Nat /\ 5 * n <= k BY <1>1, <1>2, <2>1 DEF Width
  <2>3. k = (5 * (k \div 5)) + (k % 5) /\ k % 5 \in 0..4 /\ k \div 5 \in Nat BY <1>1
  <2>4. n <= k \div 5 BY <1>1, <2>2, <2>3
  <2> QED BY <1>1, <2>2, <2>3, <2>4 DEF Width
\* What each turn does.
<1>6. ASSUME NEW i \in 0..n
      PROVE  LET r == ReadMessage(cut, End(stream, i))
             IN  /\ i < n => r = [what |-> "message", message |-> stream[i + 1],
                                  at |-> End(stream, i + 1)]
                 /\ i = n => r.what = end
  <2>1. i \in 0..N /\ End(stream, i) <= k BY <1>4
  <2>2. i < n => /\ i < N /\ End(stream, i + 1) <= k /\ IsReadable(stream[i + 1])
    <3>1. i < n => i + 1 \in 1..n /\ i < N BY <1>1, <1>2
    <3> QED BY <1>2, <3>1
  <2>3. LET r == ReadMessage(cut, End(stream, i))
        IN  IF i < N /\ End(stream, i + 1) <= k /\ IsReadable(stream[i + 1])
            THEN r = [what |-> "message", message |-> stream[i + 1],
                      at |-> End(stream, i + 1)]
            ELSE r.what = IF k - End(stream, i) < Width THEN "eof" ELSE "error"
      BY <2>1, NextMessage DEF N
  <2> DEFINE r == ReadMessage(cut, End(stream, i))
  <2> HIDE DEF r, cut
  <2>4. IF i < N /\ End(stream, i + 1) <= k /\ IsReadable(stream[i + 1])
        THEN r = [what |-> "message", message |-> stream[i + 1], at |-> End(stream, i + 1)]
        ELSE r.what = IF k - End(stream, i) < Width THEN "eof" ELSE "error"
      BY <2>3 DEF r
  <2>5. i = n => r.what = end BY <1>2, <2>4
  <2> QED BY <2>2, <2>4, <2>5 DEF r
<1>7. end # "none" /\ end # "message" OBVIOUS
<1> HIDE DEF end, cut, last
<1>8. State(0) = start
  <2>1. SubSeq(stream, 1, 0) = <<>> BY SubSeqEmpty
  <2>2. 0 <= n BY <1>1, <1>2
  <2> QED BY <1>3, <2>1, <2>2
<1>9. ASSUME NEW i \in Nat PROVE State(i + 1) = Turn(cut, State(i))
  <2>0. n \in Nat BY <1>1, <1>2
  <2>1. CASE i < n
    <3> DEFINE r == ReadMessage(cut, End(stream, i))
    <3>1. i \in 0..n /\ i + 1 <= n /\ i <= n /\ i + 1 \in 1..N /\ (i + 1) - 1 = i
        BY <1>1, <1>2, <2>0, <2>1
    <3>2. r = [what |-> "message", message |-> stream[i + 1], at |-> End(stream, i + 1)]
        BY <1>6, <2>1, <3>1
    <3>3. SubSeq(stream, 1, i + 1) = Append(SubSeq(stream, 1, i), stream[i + 1])
      <4>1. 1 \in 1..Len(stream) /\ i + 1 \in 1..Len(stream) BY <1>1, <3>1 DEF N
      <4>2. SubSeq(stream, 1, i + 1) = SubSeq(stream, 1, (i + 1) - 1) \o <<stream[i + 1]>>
          BY <4>1, SubSeqRecursiveSecond
      <4>3. SubSeq(stream, 1, i) \in Seq(Writable) /\ stream[i + 1] \in Writable
        <5>1. 0 + 1 = 1 /\ 0 + i = i /\ 0 + i <= Len(stream) BY <1>1, <3>1 DEF N
        <5>2. SubSeq(stream, 0 + 1, 0 + i) \in Seq(Writable) BY <5>1, PartOfList
        <5> QED BY <4>1, <5>1, <5>2, ElementsTyped
      <4>4. Append(SubSeq(stream, 1, i), stream[i + 1])
              = SubSeq(stream, 1, i) \o <<stream[i + 1]>>
          BY <4>3, AppendIsConcat
      <4> QED BY <3>1, <4>2, <4>4
    <3>4. State(i) = Reading(i) /\ State(i + 1) = Reading(i + 1) BY <3>1
    <3>5. Turn(cut, Reading(i)) = [messages |-> Append(SubSeq(stream, 1, i), r.message),
                                   end |-> "none", at |-> r.at]
      <4>1. r.what = "message" BY <3>2
      <4> QED BY <4>1 DEF Turn
    <3> HIDE DEF r, State
    <3> QED BY <3>2, <3>3, <3>4, <3>5
  <2>2. CASE i = n
    <3>1. State(i) = Reading(n) /\ State(i + 1) = Ended BY <2>0, <2>2
    <3>2. ReadMessage(cut, End(stream, n)).what = end BY <1>6, <2>0, <2>2
    <3>3. Turn(cut, Reading(n)) = [Reading(n) EXCEPT !.end = end]
        BY <1>7, <3>2 DEF Turn
    <3>4. [Reading(n) EXCEPT !.end = end] = Ended
      <4> DEFINE seen == SubSeq(stream, 1, n)
                 at == End(stream, n)
      <4> HIDE DEF seen, at
      <4>1. [[messages |-> seen, end |-> "none", at |-> at] EXCEPT !.end = end]
               = [messages |-> seen, end |-> end, at |-> at]
          OBVIOUS
      <4> QED BY <4>1 DEF seen, at
    <3> HIDE DEF State, Reading, Ended
    <3> QED BY <3>1, <3>3, <3>4
  <2>3. CASE i > n
    <3>1. State(i) = Ended /\ State(i + 1) = Ended BY <2>0, <2>3
    <3>2. Turn(cut, Ended) = Ended BY <1>7 DEF Turn
    <3> HIDE DEF State, Ended
    <3> QED BY <3>1, <3>2
  <2> QED BY <2>0, <2>1, <2>2, <2>3
<1> HIDE DEF State
<1>10. \E f : Loop(f)
  <2> DEFINE f == [i \in 0..last |-> State(i)]
             h == [i \in 0..last |-> IF i = 0 THEN start ELSE Turn(cut, f[i - 1])]
  <2>1. ASSUME NEW i \in 0..last PROVE f[i] = h[i]
    <3>1. CASE i = 0 BY <1>8, <3>1
    <3>2. CASE i # 0
      <4>1. i - 1 \in Nat /\ i - 1 \in 0..last /\ (i - 1) + 1 = i BY <1>5, <3>2
      <4>2. State(i) = Turn(cut, State(i - 1)) BY <1>9, <4>1
      <4> QED BY <3>2, <4>1, <4>2
    <3> QED BY <3>1, <3>2
  <2>2. f = [i \in 0..last |-> f[i]] /\ h = [i \in 0..last |-> h[i]] OBVIOUS
  <2>3. f = h
    <3> HIDE DEF f, h
    <3> QED BY <2>1, <2>2
  <2>4. Loop(f) BY <2>3
  <2> HIDE DEF f, Loop
  <2> QED BY <2>4
<1>11. \E g : Loop(g) /\ ReadAll(cut) = g[last]
  <2> HIDE DEF start
  <2> QED BY <1>10 DEF ReadAll, last, start
<1>12. PICK g : Loop(g) /\ ReadAll(cut) = g[last]
  <2> HIDE DEF Loop
  <2> QED BY <1>11
<1>13. \A i \in 0..last : g[i] = IF i = 0 THEN start ELSE Turn(cut, g[i - 1])
    BY <1>12
<1> DEFINE T == {i \in 0..last : g[i] = State(i)}
<1> HIDE DEF Loop, start
<1>14. 0 \in T BY <1>5, <1>8, <1>13
<1>15. ASSUME NEW i \in 0..(last - 1), i \in T PROVE i + 1 \in T
  <2>1. i + 1 \in 0..last /\ i + 1 # 0 /\ (i + 1) - 1 = i /\ i \in Nat BY <1>5
  <2>2. g[i + 1] = Turn(cut, g[i]) BY <1>13, <2>1
  <2> QED BY <1>9, <1>15, <2>1, <2>2
<1>16. \A i \in 0..last : i \in T
  <2> HIDE DEF T
  <2> QED BY <1>5, <1>14, <1>15, Induction
<1>17. ReadAll(cut) = State(last)
  <2>1. last \in 0..last BY <1>5
  <2> QED BY <1>12, <1>16, <2>1
<1>18. State(last) = Ended BY <1>1, <1>2, <1>5 DEF State
<1>19. /\ ReadAll(cut).messages = SubSeq(stream, 1, n)
       /\ ReadAll(cut).end = end
  <2>1. Ended.messages = SubSeq(stream, 1, n) /\ Ended.end = end OBVIOUS
  <2> HIDE DEF Ended
  <2> QED BY <1>17, <1>18, <2>1
<1> QED BY <1>19 DEF cut, n, end

\* messaging.rs:99-125: whatever the extension writes, and wherever its bytes end,
\* exactly the messages that are whole and can be read are read, and what is left
\* of the rest is told apart.  For any messages, any number of them, and the base
\* and the limit that the code has.
THEOREM MessagesSurviveCuts ==
    ASSUME NEW stream \in Seq(Writable)
    PROVE  CutsAreNoticed(stream)
BY CutIsNoticed DEF CutsAreNoticed


\* Any two payloads of a byte or more, up to one more than may come in.
LEMMA TwoSurviveCuts == AnyTwoSurviveCuts
<1>1. ASSUME NEW a \in Payloads PROVE a \in Writable
  <2>1. PICK n \in 1..(MAX_INBOUND_BYTES + 1) : a \in [1..n -> 0..(Base - 1)]
      BY DEF Payloads
  <2>2. /\ MAX_INBOUND_BYTES \in Nat /\ Lengths \in Nat /\ MAX_INBOUND_BYTES + 1 < Lengths
      BY FramingAssumption DEF FramingAssumption, Lengths
  <2>3. n \in Nat /\ n \in 1..(Lengths - 1) BY <2>1, <2>2
  <2>4. a \in Seq(Byte) /\ Len(a) = n
    <3>1. a \in Seq(Byte)
      <4>1. a \in [1..n -> Byte] /\ n \in Nat BY <2>1, <2>3 DEF Byte
      <4> QED BY <4>1
    <3>2. DOMAIN a = 1..n /\ DOMAIN a = 1..Len(a) /\ Len(a) \in Nat
        BY <2>1, <3>1, LenProperties
    <3> DEFINE l == Len(a)
    <3>3. 1..n = 1..l /\ l \in Nat BY <3>2
    <3> HIDE DEF l
    <3>4. l = n BY <2>3, <3>3
    <3> QED BY <3>1, <3>4 DEF l
  <2> QED BY <2>3, <2>4 DEF Writable
<1>2. ASSUME NEW stream \in Streams PROVE stream \in Seq(Writable)
  <2>1. CASE stream = <<>> BY <2>1
  <2>2. ASSUME NEW a \in Payloads, stream = <<a>> PROVE stream \in Seq(Writable)
    <3>1. a \in Writable BY <1>1
    <3> QED BY <2>2, <3>1
  <2>3. ASSUME NEW a \in Payloads, NEW b \in Payloads, stream = <<a, b>>
        PROVE  stream \in Seq(Writable)
    <3>1. a \in Writable /\ b \in Writable BY <1>1
    <3> QED BY <2>3, <3>1
  <2> QED BY <2>1, <2>2, <2>3 DEF Streams
<1> QED BY <1>2, MessagesSurviveCuts DEF AnyTwoSurviveCuts

\* What the extension writes for a message is one that the companion can read.
LEMMA JsonIsWritable ==
    ASSUME NEW m \in InboundMessage
    PROVE  Json(m) \in Writable
<1>1. /\ Json(m) \in Seq(0..(Base - 1)) /\ Len(Json(m)) <= MAX_INBOUND_BYTES
      /\ Json(m) \in JsonTexts
    BY JsonAssumption DEF JsonAssumption, IsReadable
<1>2. /\ MAX_INBOUND_BYTES \in Nat /\ Lengths \in Nat /\ MAX_INBOUND_BYTES + 1 < Lengths
      /\ <<>> \notin JsonTexts
    BY FramingAssumption DEF FramingAssumption, Lengths
<1> DEFINE text == Json(m)
<1>3. text \in Seq(Byte) /\ text # <<>> /\ Len(text) <= MAX_INBOUND_BYTES
    BY <1>1, <1>2 DEF Byte
<1> HIDE DEF text
<1>4. Len(text) \in 1..(Lengths - 1)
  <2>1. Len(text) \in Nat /\ Len(text) # 0 BY <1>3, EmptySeq
  <2> QED BY <1>2, <1>3, <2>1
<1>5. text \in Writable BY <1>3, <1>4 DEF Writable
<1> QED BY <1>5 DEF text

\* The pipe to the companion, cut anywhere by the end of Firefox: the messages that
\* are whole are read, in their order, whatever was sent and however it is written.
THEOREM PipeIsReadBack == Spec => []PipesSurviveCuts
<1>1. TypeOK => PipesSurviveCuts
  <2> SUFFICES ASSUME TypeOK PROVE PipesSurviveCuts OBVIOUS
  <2> DEFINE n == Len(toCompanion)
             stream == [i \in DOMAIN toCompanion |-> Json(toCompanion[i])]
  <2>1. toCompanion \in Seq(InboundMessage) BY DEF TypeOK, LinkTypeOK
  <2>2. n \in Nat /\ DOMAIN toCompanion = 1..n BY <2>1
  <2>3. ASSUME NEW i \in 1..n PROVE Json(toCompanion[i]) \in Writable
    <3>1. toCompanion[i] \in InboundMessage BY <2>1, ElementsTyped
    <3> QED BY <3>1, JsonIsWritable
  <2>4. stream = [i \in 1..n |-> Json(toCompanion[i])] BY <2>2
  <2>5. stream \in [1..n -> Writable] BY <2>3, <2>4
  <2> HIDE DEF stream, n
  <2>6. stream \in Seq(Writable) BY <2>2, <2>5
  <2>7. CutsAreNoticed(stream) BY <2>6, MessagesSurviveCuts
  <2> QED BY <2>7, TwoSurviveCuts DEF PipesSurviveCuts, stream
<1> QED BY <1>1, TypeCorrect, PTL
=============================================================================
