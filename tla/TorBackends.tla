---------------------------- MODULE TorBackends ----------------------------
(***************************************************************************)
(* Which Tor a companion ends up with.  start() in main.rs takes, in this  *)
(* order, the Tor the tray has published (runtime.rs), a Tor that answers  *)
(* on the well-known control port (tor_detector.rs), or one it launches on *)
(* ports probed and released beforehand (proxy.rs, tor_manager.rs); the    *)
(* tray (tray.rs) does the last two.  All of them share one torrc and one  *)
(* data directory, and none of them knows of the others but through the    *)
(* runtime file and the ports.                                             *)
(***************************************************************************)
EXTENDS Naturals, FiniteSets

CONSTANTS
    Companions,            \* Native Messaging companions
    Tray,                  \* the tray daemon
    Ports,
    DEFAULT_SOCKS_PORT,    \* 9050, the well-known pair with
    DEFAULT_CONTROL_PORT,  \* 9051
    NoPort,                \* where there is no port
    TakenPorts,            \* ports other programs may listen on
    SystemTor,             \* whether a system Tor holds the well-known pair
    TrayExists,            \* whether the tray is ever started (Windows)
    MayCrash,              \* whether companions and tray may be killed
    TorMayExit,            \* whether Tor may end on its own
    PidReuse,              \* whether a dead tray's pid may name a live process
    DownloadEnds           \* whether ensure_binary's download comes to an end

ASSUME BackendsAssumption ==
    /\ Tray \notin Companions
    /\ "nobody" \notin Companions \cup {Tray}
    /\ {DEFAULT_SOCKS_PORT, DEFAULT_CONTROL_PORT} \subseteq Ports
    /\ DEFAULT_SOCKS_PORT # DEFAULT_CONTROL_PORT
    /\ TakenPorts \subseteq Ports
    /\ NoPort \notin Ports
    /\ SystemTor \in BOOLEAN /\ TrayExists \in BOOLEAN
    /\ MayCrash \in BOOLEAN /\ TorMayExit \in BOOLEAN /\ PidReuse \in BOOLEAN
    /\ DownloadEnds \in BOOLEAN
    /\ SystemTor => {DEFAULT_SOCKS_PORT, DEFAULT_CONTROL_PORT} \cap TakenPorts = {}

VARIABLES
    pc,        \* where each process is in its search for a Tor
    pair,      \* per process, the ports it has allocated
    backend,   \* per process, its State.backend / tray Backend
    torrc,     \* the ports in the shared torrc
    tor,       \* the Tor running on the shared data directory, if any
    runtime,   \* the published runtime file: a port, or NoPort
    taken,     \* the ports other programs listen on
    exited     \* ghost: a Tor has ended on its own

vars == <<pc, pair, backend, torrc, tor, runtime, taken, exited>>

Processes == Companions \cup {Tray}
Pairs == [socks : Ports, control : Ports]
DefaultPair == [socks |-> DEFAULT_SOCKS_PORT, control |-> DEFAULT_CONTROL_PORT]
None == [kind |-> "none", socks |-> NoPort]
Owned(port) == [kind |-> "owned", socks |-> port]
Reused(port) == [kind |-> "reused", socks |-> port]

\* Tor refuses to start on a data directory another Tor uses, so at most one
\* Tor of OnionRouter's runs.  Its parent is who can kill it, "nobody" when
\* that process was killed.
NoTor ==
    [running |-> FALSE, socks |-> NoPort, control |-> NoPort, parent |-> "nobody"]
Running(ports, parent) ==
    [running |-> TRUE, socks |-> ports.socks, control |-> ports.control,
     parent |-> parent]

Steps == {"down", "idle", "runtime", "probe", "allocate", "torrc", "spawn",
          "bootstrap", "publish", "icon"}

TypeOK ==
    /\ pc \in [Processes -> Steps]
    /\ pair \in [Processes -> Pairs]
    /\ \A p \in Processes :
          backend[p] = None \/ \E port \in Ports : backend[p] \in {Owned(port), Reused(port)}
    /\ torrc \in Pairs
    /\ tor = NoTor \/ \E ports \in Pairs, parent \in Processes \cup {"nobody"} :
                         tor = Running(ports, parent)
    /\ runtime \in Ports \cup {NoPort}
    /\ taken \subseteq TakenPorts
    /\ exited \in BOOLEAN

Init ==
    /\ pc = [p \in Processes |-> IF p = Tray THEN "down" ELSE "idle"]
    /\ pair = [p \in Processes |-> DefaultPair]
    /\ backend = [p \in Processes |-> None]
    /\ torrc = DefaultPair
    /\ tor = NoTor
    /\ runtime = NoPort
    /\ taken = {}
    /\ exited = FALSE

---------------------------------------------------------------------------
At(p, step) == pc[p] = step
Goto(p, step) == pc' = [pc EXCEPT ![p] = step]

TorPorts == IF tor.running THEN {tor.socks, tor.control} ELSE {}
SystemPorts == IF SystemTor THEN {DEFAULT_SOCKS_PORT, DEFAULT_CONTROL_PORT} ELSE {}
Listening == taken \cup SystemPorts \cup TorPorts

\* The Tor that runs is the child of p.
OwnTorRuns(p) == tor.running /\ tor.parent = p

\* A SOCKS port somebody's Tor really serves.
ServedByTor(port) ==
    \/ SystemTor /\ port = DEFAULT_SOCKS_PORT
    \/ tor.running /\ port = tor.socks

\* The companion holds a backend and answers Ready; the tray publishes it.
Settle(p, found) ==
    /\ backend' = [backend EXCEPT ![p] = found]
    /\ Goto(p, IF p = Tray THEN "publish" ELSE "idle")

\* Mutant: a failed launch is tried again, for ever.
GiveUpRetries(p) ==
    /\ Goto(p, "allocate")
    /\ UNCHANGED backend

\* The tray that wrote the runtime file still runs.
Published == At(Tray, "icon") \/ At(Tray, "idle")

\* No Tor: the companion answers with an error, the tray exits.
GiveUp(p) ==
    /\ Goto(p, IF p = Tray THEN "down" ELSE "idle")
    /\ UNCHANGED backend

---------------------------------------------------------------------------
\* "start" with a backend answers Ready again and searches nothing.
Start(c) ==
    /\ At(c, "idle")
    /\ backend[c] = None
    /\ Goto(c, "runtime")
    /\ UNCHANGED <<pair, backend, torrc, tor, runtime, taken>>

\* The tray's file is trusted when its pid is alive and something listens on
\* its port.
ReadRuntime(c) ==
    /\ At(c, "runtime")
    /\ \/ /\ runtime \in Listening
          /\ Published \/ PidReuse
          /\ Settle(c, Reused(runtime))
       \/ /\ runtime \notin Listening \/ ~Published
          /\ Goto(c, "probe")
          /\ UNCHANGED backend
    /\ UNCHANGED <<pair, torrc, tor, runtime, taken>>

\* Mutant: whatever listens on the control port is taken for a Tor.
ProbeAnyListener(p) ==
    /\ At(p, "probe")
    /\ IF DEFAULT_CONTROL_PORT \in Listening
       THEN Settle(p, Reused(DEFAULT_SOCKS_PORT))
       ELSE Goto(p, "allocate") /\ UNCHANGED backend
    /\ UNCHANGED <<pair, torrc, tor, runtime, taken>>

\* detect_existing: whoever answers as Tor on the control port of the pair is
\* taken to serve the SOCKS port of the pair.  A probe may also be refused
\* (password, old version) or time out.
Probe(p) ==
    /\ At(p, "probe")
    /\ \/ /\ SystemTor \/ (tor.running /\ tor.control = DEFAULT_CONTROL_PORT)
          /\ Settle(p, Reused(DEFAULT_SOCKS_PORT))
       \/ /\ Goto(p, "allocate")
          /\ UNCHANGED backend
    /\ UNCHANGED <<pair, torrc, tor, runtime, taken>>

\* Mutant: port 0 is not replaced by the port that was bound.
PicksAsked(preferred) ==
    IF preferred \notin Listening THEN {preferred} ELSE {NoPort}

\* pick_port binds the preferred port, or any free one, and lets it go again.
Picks(preferred) ==
    IF preferred \notin Listening THEN {preferred} ELSE Ports \ Listening

Allocate(p) ==
    /\ At(p, "allocate")
    /\ \/ \E socks \in Picks(DEFAULT_SOCKS_PORT), control \in Picks(DEFAULT_CONTROL_PORT) :
             /\ pair' = [pair EXCEPT ![p] = [socks |-> socks, control |-> control]]
             /\ Goto(p, "torrc")
             /\ UNCHANGED backend
       \/ /\ GiveUp(p)     \* ensure_binary fails
          /\ UNCHANGED pair
    /\ UNCHANGED <<torrc, tor, runtime, taken>>

WriteTorrc(p) ==
    /\ At(p, "torrc")
    /\ torrc' = pair[p]
    /\ Goto(p, "spawn")
    /\ UNCHANGED <<pair, backend, tor, runtime, taken>>

\* Tor reads the torrc as it is now, and exits at once if the data directory is
\* in use or a port cannot be bound.
Spawn(p) ==
    /\ At(p, "spawn")
    /\ IF tor.running \/ torrc.socks \in Listening \/ torrc.control \in Listening
          \/ torrc.socks = torrc.control
       THEN GiveUp(p) /\ UNCHANGED tor
       ELSE /\ tor' = Running(torrc, p)
            /\ Goto(p, "bootstrap")
            /\ UNCHANGED backend
    /\ UNCHANGED <<pair, torrc, runtime, taken>>

\* Mutant: the control port is reported as the SOCKS port.
BootstrapSwapsPorts(p) ==
    /\ At(p, "bootstrap")
    /\ Settle(p, Owned(pair[p].control))
    /\ UNCHANGED <<pair, torrc, tor, runtime, taken>>

\* Mutant: a Tor that did not bootstrap in time is not killed.
BootstrapLeavesChild(p) ==
    /\ At(p, "bootstrap")
    /\ Settle(p, Owned(pair[p].socks)) \/ GiveUp(p)
    /\ UNCHANGED <<pair, torrc, tor, runtime, taken>>

\* "Bootstrapped 100%" in time, or the child is killed.
Bootstrap(p) ==
    /\ At(p, "bootstrap")
    /\ \/ /\ OwnTorRuns(p)
          /\ Settle(p, Owned(pair[p].socks))
          /\ UNCHANGED tor
       \/ /\ GiveUp(p)
          /\ tor' = IF OwnTorRuns(p) THEN NoTor ELSE tor
    /\ UNCHANGED <<pair, torrc, runtime, taken>>

\* Mutant: the backend is shut down but not taken out of the state.
ReleaseKeepsBackend(p) ==
    /\ tor' = IF backend[p].kind = "owned" /\ OwnTorRuns(p)
              THEN NoTor ELSE tor
    /\ UNCHANGED backend

\* Mutant: a reused Tor is killed like an owned one.
ReleaseKillsAny(p) ==
    /\ backend' = [backend EXCEPT ![p] = None]
    /\ tor' = NoTor

\* An owned Tor is killed with its backend, a reused one is left alone.
Release(p) ==
    /\ backend' = [backend EXCEPT ![p] = None]
    /\ tor' = IF backend[p].kind = "owned" /\ OwnTorRuns(p)
              THEN NoTor ELSE tor

\* "stop", or the end of the companion's input: its successor starts afresh.
Stop(c) ==
    /\ At(c, "idle")
    /\ backend[c] # None
    /\ Release(c)
    /\ UNCHANGED <<pc, pair, torrc, runtime, taken>>

TrayStarts ==
    /\ TrayExists
    /\ At(Tray, "down")
    /\ Goto(Tray, "probe")
    /\ UNCHANGED <<pair, backend, torrc, tor, runtime, taken>>

Publish ==
    /\ At(Tray, "publish")
    /\ runtime' = backend[Tray].socks
    /\ Goto(Tray, "icon")
    /\ UNCHANGED <<pair, backend, torrc, tor, taken>>

\* The icon and its menu: a failure ends the tray, its Tor is dropped (and so
\* killed), the runtime file stays.
ShowIcon ==
    /\ At(Tray, "icon")
    /\ \/ Goto(Tray, "idle") /\ UNCHANGED <<backend, tor>>
       \/ Goto(Tray, "down") /\ Release(Tray)
    /\ UNCHANGED <<pair, torrc, runtime, taken>>

TrayQuits ==
    /\ At(Tray, "idle")
    /\ runtime' = NoPort
    /\ Release(Tray)
    /\ Goto(Tray, "down")
    /\ UNCHANGED <<pair, torrc, taken>>

\* Killed: the Tor it launched keeps running, the runtime file stays.
Crash(p) ==
    /\ MayCrash
    /\ ~At(p, "down")
    /\ Goto(p, IF p = Tray THEN "down" ELSE "idle")
    /\ backend' = [backend EXCEPT ![p] = None]
    /\ tor' = IF OwnTorRuns(p)
              THEN [tor EXCEPT !.parent = "nobody"] ELSE tor
    /\ UNCHANGED <<pair, torrc, runtime, taken>>

\* Other programs come and go, also on a port that pick_port has just released.
OthersListen ==
    /\ taken' \in SUBSET (TakenPorts \ TorPorts)
    /\ UNCHANGED <<pc, pair, backend, torrc, tor, runtime>>

\* Nobody watches the Tor that was launched: its end goes unnoticed.
TorExits ==
    /\ TorMayExit
    /\ tor.running
    /\ tor' = NoTor
    /\ exited' = TRUE
    /\ UNCHANGED <<pc, pair, backend, torrc, runtime, taken>>

Search(p) ==
    \/ Probe(p)
    \/ Allocate(p)
    \/ WriteTorrc(p)
    \/ Spawn(p)
    \/ Bootstrap(p)

Companion(c) == Start(c) \/ ReadRuntime(c) \/ Stop(c)

TrayNext == TrayStarts \/ Publish \/ ShowIcon \/ TrayQuits

Next ==
    \/ \E c \in Companions : Companion(c) /\ UNCHANGED exited
    \/ \E p \in Processes : (Search(p) \/ Crash(p)) /\ UNCHANGED exited
    \/ TrayNext /\ UNCHANGED exited
    \/ OthersListen /\ UNCHANGED exited
    \/ TorExits

Spec == Init /\ [][Next]_vars

\* The steps of a search that must end: local work, or bounded by a timeout
\* (the probe's, the handshake's, the bootstrap's).  Allocate begins with
\* ensure_binary, whose download has no timeout, so that it ends is an
\* assumption about the network.
FairSpec ==
    /\ Spec
    /\ \A c \in Companions : WF_vars(ReadRuntime(c) /\ UNCHANGED exited)
    /\ \A p \in Processes : WF_vars(Search(p) /\ ~At(p, "allocate") /\ UNCHANGED exited)
    /\ DownloadEnds => \A p \in Processes : WF_vars(Allocate(p) /\ UNCHANGED exited)
    /\ WF_vars((Publish \/ ShowIcon) /\ UNCHANGED exited)

---------------------------------------------------------------------------
\* The port of a Ready reply is, at that moment, the SOCKS port of a Tor.
ReadyNamesATor ==
    [][\A p \in Processes :
          backend'[p] # backend[p] /\ backend'[p] # None
              => ServedByTor(backend[p].socks)']_vars

\* While it holds a backend, a companion reports a Tor that is there, unless a
\* Tor ended on its own.
HeldBackendIsRunning ==
    ~exited => \A c \in Companions : backend[c] # None => ServedByTor(backend[c].socks)

\* No Tor is left behind: unless the process that launched it was killed, the
\* one that runs is held, or being bootstrapped, by that process, which will
\* kill it.
NoOrphanTor ==
    tor.running /\ tor.parent \in Processes =>
        At(tor.parent, "bootstrap") \/ backend[tor.parent].kind = "owned"

\* A process that holds an owned backend is the parent of the Tor that runs: no
\* other process can have killed it, and no two of them own a Tor.  (Once a Tor
\* has ended on its own, its owner may outlive it, and another may launch one.)
OwnerIsParent ==
    ~exited => \A p \in Processes : backend[p].kind = "owned" => OwnTorRuns(p)

\* The port of an owned backend is the one its Tor listens on.
OwnedPortIsTors ==
    \A p \in Processes :
        backend[p].kind = "owned" /\ tor.running => backend[p].socks = tor.socks

\* Every search for a Tor ends, through failed bootstraps, kills and a Tor that
\* ends on its own, provided that no download of Tor stalls (DownloadEnds).
SearchEnds ==
    \A p \in Processes : pc[p] \notin {"idle", "down"} ~> pc[p] \in {"idle", "down"}
=============================================================================
