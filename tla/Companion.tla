----------------------------- MODULE Companion -----------------------------
(***************************************************************************)
(* The companion in Native Messaging mode: the read-handle-reply loop of   *)
(* main.rs.  Commands are handled strictly one at a time, so everything    *)
(* sent while start() downloads or bootstraps waits in the pipe.  What     *)
(* start() does with processes, ports and files is not visible here: it    *)
(* ends with Tor on some port, or with an error.                           *)
(***************************************************************************)
EXTENDS NativeMessaging

CONSTANT Builds    \* the builds that may be installed, as the actions they parse

VARIABLES
    understood,\* the actions of the build that is installed
    backend,   \* SOCKS port of State.backend, NoPort when it is None
    ppKey      \* whether State.pp_key is set (the passphrase vault is unlocked)

companionVars == <<understood, backend, ppKey>>

CompanionTypeOK ==
    /\ understood \in Builds
    /\ backend \in Ports \cup {NoPort}
    /\ ppKey \in BOOLEAN

CompanionInit ==
    /\ understood \in Builds
    /\ backend = NoPort
    /\ ppKey = FALSE

---------------------------------------------------------------------------
\* The command at the head of stdin, once read_message can parse it.
Reads(action) ==
    /\ process = "idle"
    /\ toCompanion # <<>>
    /\ Head(toCompanion).action = action
    /\ action \in understood

\* The loop takes the command off stdin and writes the reply of its handler.
Answers(reply) ==
    /\ toCompanion' = Tail(toCompanion)
    /\ toExtension' = Append(toExtension, reply)
    /\ UNCHANGED process

\* start() answers at once when a backend is held; otherwise the search for a
\* Tor, the download, the launch and the bootstrap keep the loop busy.
HandleStart ==
    /\ Reads("start")
    /\ UNCHANGED companionVars
    /\ \/ /\ backend # NoPort
          /\ Answers(Ready(backend))
       \/ /\ backend = NoPort
          /\ process' = "starting"
          /\ toCompanion' = Tail(toCompanion)
          /\ UNCHANGED toExtension

FinishStart ==
    /\ process = "starting"
    /\ process' = "idle"
    /\ \/ \E port \in Ports :
            /\ backend' = port
            /\ toExtension' = Append(toExtension, Ready(port))
       \/ /\ toExtension' = Append(toExtension, Plain("error"))
          /\ UNCHANGED backend
    /\ UNCHANGED <<toCompanion, understood, ppKey>>

\* Mutant: the backend is shut down but not taken out of the state.
HandleStopKeepsBackend ==
    /\ Reads("stop")
    /\ Answers(Plain("stopped"))
    /\ UNCHANGED companionVars

HandleStop ==
    /\ Reads("stop")
    /\ backend' = NoPort
    /\ Answers(Plain("stopped"))
    /\ UNCHANGED <<understood, ppKey>>

HandleProbe ==
    /\ \/ Reads("ping") /\ Answers(Plain("pong"))
       \/ Reads("diagnostic") /\ Answers(Plain("diagnostic"))
    /\ UNCHANGED companionVars

\* auth_unlock and auth_set_passphrase: a refused passphrase changes nothing.
HandleUnlock ==
    /\ Reads("auth-unlock")
    /\ \E ok \in BOOLEAN :
          /\ ppKey' = (ppKey \/ ok)
          /\ Answers(Reply(Head(toCompanion).id, ok, FALSE))
    /\ UNCHANGED <<understood, backend>>

HandleLock ==
    /\ Reads("auth-lock")
    /\ ppKey' = FALSE
    /\ Answers(Reply(Head(toCompanion).id, TRUE, FALSE))
    /\ UNCHANGED <<understood, backend>>

HandleAuthList ==
    /\ Reads("auth-list")
    /\ Answers(Reply(Head(toCompanion).id, TRUE, ppKey))
    /\ UNCHANGED companionVars

\* auth_add and auth_remove may be refused.  update_check_cmd may fail once
\* there is a Tor to ask through; without one it reports "no update".
HandleOther ==
    /\ \/ Reads("auth-add")
       \/ Reads("update-check")
    /\ \E ok \in BOOLEAN :
          /\ Head(toCompanion).action = "update-check" /\ backend = NoPort => ok
          /\ Answers(Reply(Head(toCompanion).id, ok, FALSE))
    /\ UNCHANGED companionVars

\* The process ends: its memory is gone, and an owned Tor with it.
Exit ==
    /\ process' = "none"
    /\ backend' = NoPort
    /\ ppKey' = FALSE
    /\ UNCHANGED understood

\* A message read_message cannot parse: one error reply, then the loop breaks.
ProtocolError ==
    /\ process = "idle"
    /\ toCompanion # <<>>
    /\ Head(toCompanion).action \notin understood
    /\ toCompanion' = Tail(toCompanion)
    /\ toExtension' = Append(toExtension, Plain("error"))
    /\ Exit

\* The process is killed or fails, at any point of its work.
Crash ==
    /\ process # "none"
    /\ Exit
    /\ UNCHANGED <<toCompanion, toExtension>>

Handle ==
    \/ HandleStart
    \/ HandleStop
    \/ HandleProbe
    \/ HandleUnlock
    \/ HandleLock
    \/ HandleAuthList
    \/ HandleOther
    \/ ProtocolError

CompanionNext == Handle \/ FinishStart \/ Crash
=============================================================================
