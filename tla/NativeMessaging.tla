-------------------------- MODULE NativeMessaging --------------------------
(***************************************************************************)
(* The Native Messaging link between the extension (background.js) and the *)
(* companion process (run_native_messaging in main.rs): the messages of    *)
(* messaging.rs, the two pipes of the open port, and the process at their  *)
(* far end.  Framing and JSON are left out: a message is what the two      *)
(* sides tell apart.                                                       *)
(***************************************************************************)
EXTENDS Naturals, Sequences, FiniteSets

CONSTANTS
    Ports,        \* SOCKS ports a Tor may listen on
    NoPort,       \* "null" / None
    Ids,          \* pool of request ids (recycled once nothing carries them)
    NoId          \* the id of a message that has none

ASSUME PortsAssumption ==
    /\ NoPort \notin Ports
    /\ Ports \cap {"idle", "waiting", "unreachable"} = {}
    /\ Ports \cap {"shut", "blocked"} = {}
ASSUME IdsAssumption == NoId \notin Ids

VARIABLES
    toCompanion,   \* messages posted to the port, not yet read from stdin
    toExtension,   \* messages written to stdout, not yet delivered
    process        \* "none", "idle" (reading stdin) or "starting" (inside start())

link == <<toCompanion, toExtension, process>>

---------------------------------------------------------------------------
PlainActions == {"start", "stop", "ping", "diagnostic"}

\* "auth-unlock" also stands for auth-set-passphrase (both leave the vault
\* unlocked), "auth-add" for auth-remove (both only change the stored index).
CorrelatedActions ==
    {"auth-list", "auth-add", "auth-unlock", "auth-lock", "update-check"}

InboundMessage ==
    [action : PlainActions, id : {NoId}] \cup
    [action : CorrelatedActions, id : Ids]

OutboundMessage ==
    [status : {"ready"}, port : Ports] \cup
    [status : {"stopped", "error", "pong", "diagnostic"}] \cup
    [status : {"reply"}, id : Ids, ok : BOOLEAN, unlocked : BOOLEAN]

Command(action) == [action |-> action, id |-> NoId]
Request(action, id) == [action |-> action, id |-> id]
\* Mutant: the port of a Ready reply is left out.
ReadyWithoutPort(port) == [status |-> "ready", port |-> NoPort]

Ready(port) == [status |-> "ready", port |-> port]
Plain(status) == [status |-> status]
Reply(id, ok, unlocked) ==
    [status |-> "reply", id |-> id, ok |-> ok, unlocked |-> unlocked]

\* The messages of a pipe, whatever their order.
Sent(pipe) == {pipe[i] : i \in DOMAIN pipe}

\* Ids some message still carries, in either direction.
IdsInFlight ==
    {m.id : m \in Sent(toCompanion)} \cup
    {m.id : m \in {n \in Sent(toExtension) : n.status = "reply"}}

LinkTypeOK ==
    /\ toCompanion \in Seq(InboundMessage)
    /\ toExtension \in Seq(OutboundMessage)
    /\ process \in {"none", "idle", "starting"}

LinkInit ==
    /\ toCompanion = <<>>
    /\ toExtension = <<>>
    /\ process = "none"
=============================================================================
