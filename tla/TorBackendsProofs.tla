------------------------- MODULE TorBackendsProofs -------------------------
(***************************************************************************)
(* Who owns the Tor that runs: proofs about TorBackends, for any number of *)
(* companions, any ports, with or without a tray, a system Tor, crashes    *)
(* and reused pids.  Then which port is reported: by a lone companion, and *)
(* by any number of processes that do not launch at the same moment.       *)
(***************************************************************************)
EXTENDS TorBackends, TLAPS

\* The steps at which a process cannot hold a backend yet.
Searching == {"down", "runtime", "probe", "allocate", "torrc", "spawn", "bootstrap"}

\* What a process may hold, and what may run on the data directory.
Holdings == [kind : {"none", "owned", "reused"}, socks : Ports \cup {NoPort}]
Tors == [running : BOOLEAN, socks : Ports \cup {NoPort},
         control : Ports \cup {NoPort}, parent : Processes \cup {"nobody"}]

\* The shape of the state, as far as ownership goes.
Shape ==
    /\ pc \in [Processes -> Steps]
    /\ backend \in [Processes -> Holdings]
    /\ tor \in Tors
    /\ torrc \in Pairs
    /\ pair \in [Processes -> Pairs]
    /\ runtime \in Ports \cup {NoPort}
    /\ exited \in BOOLEAN

\* A process that searches for a Tor holds none: nothing is overwritten, and so
\* forgotten, when the search ends.
SearchersHoldNothing ==
    \A p \in Processes : pc[p] \in Searching => backend[p].kind = "none"

\* Until a Tor ends on its own, the child that a process waits for is there.
ChildIsRunning ==
    ~exited => \A p \in Processes : At(p, "bootstrap") => OwnTorRuns(p)

\* The inductive invariant behind both theorems.
OwnershipInv ==
    /\ Shape
    /\ SearchersHoldNothing
    /\ ChildIsRunning
    /\ OwnerIsParent
    /\ NoOrphanTor

---------------------------------------------------------------------------
\* At the start nobody holds or runs anything.
LEMMA OwnershipInit == Init => OwnershipInv
<1> SUFFICES ASSUME Init PROVE OwnershipInv
  OBVIOUS
<1>1. Shape
  BY BackendsAssumption DEF Init, Shape, Steps, Processes, Pairs, Holdings, Tors,
                            DefaultPair, None, NoTor
<1>2. SearchersHoldNothing /\ ChildIsRunning /\ OwnerIsParent /\ NoOrphanTor
  BY DEF Init, SearchersHoldNothing, ChildIsRunning, OwnerIsParent, NoOrphanTor,
         At, None, NoTor
<1> QED
  BY <1>1, <1>2 DEF OwnershipInv

\* Releasing a backend keeps the shape of what it assigns.
LEMMA ReleaseShape ==
  ASSUME Shape, NEW p \in Processes, Release(p)
  PROVE  /\ backend' \in [Processes -> Holdings]
         /\ tor' \in Tors
PROOF
  BY DEF Shape, Holdings, Tors, Release, None, NoTor

\* Every step keeps the shape of the state.
LEMMA ShapeStep ==
  ASSUME Shape, Next
  PROVE  Shape'
PROOF
<1> USE BackendsAssumption DEF Shape, Steps, Holdings, Tors, At, Goto, Settle, GiveUp
<1>1. ASSUME NEW c \in Companions, Companion(c), UNCHANGED exited PROVE Shape'
  <2>1. c \in Processes
    BY DEF Processes
  <2>2. CASE Start(c)
    BY <1>1, <2>1, <2>2 DEF Start
  <2>3. CASE ReadRuntime(c)
    BY <1>1, <2>1, <2>3 DEF ReadRuntime, Reused
  <2>4. CASE Stop(c)
    BY <1>1, <2>1, <2>4, ReleaseShape DEF Stop
  <2> QED
    BY <1>1, <2>2, <2>3, <2>4 DEF Companion
<1>2. ASSUME NEW p \in Processes, Search(p), UNCHANGED exited PROVE Shape'
  <2>1. CASE Probe(p)
    BY <1>2, <2>1 DEF Probe, Reused
  <2>2. CASE Allocate(p)
    <3>1. Picks(DEFAULT_SOCKS_PORT) \subseteq Ports /\ Picks(DEFAULT_CONTROL_PORT) \subseteq Ports
      BY DEF Picks
    <3>2. \A socks, control \in Ports : [socks |-> socks, control |-> control] \in Pairs
      BY DEF Pairs
    <3>3. pair' \in [Processes -> Pairs]
      BY <2>2, <3>1, <3>2 DEF Allocate
    <3>4. pc' \in [Processes -> Steps] /\ UNCHANGED backend
      BY <2>2 DEF Allocate
    <3> QED
      BY <1>2, <2>2, <3>3, <3>4 DEF Allocate
  <2>3. CASE WriteTorrc(p)
    BY <1>2, <2>3 DEF WriteTorrc
  <2>4. CASE Spawn(p)
    <3>1. torrc.socks \in Ports /\ torrc.control \in Ports
      BY DEF Pairs
    <3>2. pc' \in [Processes -> Steps] /\ UNCHANGED <<backend, torrc, pair, runtime>>
      BY <2>4 DEF Spawn
    <3>3. tor' = tor \/ tor' = Running(torrc, p)
      BY <2>4 DEF Spawn
    <3>4. Running(torrc, p) \in Tors
      BY <3>1 DEF Running
    <3> QED
      BY <1>2, <3>2, <3>3, <3>4
  <2>5. CASE Bootstrap(p)
    <3>1. pair[p].socks \in Ports
      BY DEF Pairs
    <3>2. pc' \in [Processes -> Steps] /\ UNCHANGED <<torrc, pair, runtime>>
      BY <2>5 DEF Bootstrap
    <3>3. backend' = backend \/ backend' = [backend EXCEPT ![p] = Owned(pair[p].socks)]
      BY <2>5 DEF Bootstrap
    <3>4. Owned(pair[p].socks) \in Holdings
      BY <3>1 DEF Owned
    <3>5. tor' = tor \/ tor' = NoTor
      BY <2>5 DEF Bootstrap
    <3>6. NoTor \in Tors
      BY DEF NoTor
    <3> QED
      BY <1>2, <3>2, <3>3, <3>4, <3>5, <3>6
  <2> QED
    BY <1>2, <2>1, <2>2, <2>3, <2>4, <2>5 DEF Search
<1>3. ASSUME NEW p \in Processes, Crash(p), UNCHANGED exited PROVE Shape'
  BY <1>3 DEF Crash, None, OwnTorRuns
<1>4. ASSUME TrayNext, UNCHANGED exited PROVE Shape'
  <2>1. Tray \in Processes
    BY DEF Processes
  <2>2. CASE TrayStarts
    BY <1>4, <2>1, <2>2 DEF TrayStarts
  <2>3. CASE Publish
    BY <1>4, <2>1, <2>3 DEF Publish
  <2>4. CASE ShowIcon
    BY <1>4, <2>1, <2>4, ReleaseShape DEF ShowIcon
  <2>5. CASE TrayQuits
    BY <1>4, <2>1, <2>5, ReleaseShape DEF TrayQuits
  <2> QED
    BY <1>4, <2>2, <2>3, <2>4, <2>5 DEF TrayNext
<1>5. CASE OthersListen /\ UNCHANGED exited
  BY <1>5 DEF OthersListen
<1>6. CASE TorExits
  BY <1>6 DEF TorExits, NoTor
<1> QED
  BY <1>1, <1>2, <1>3, <1>4, <1>5, <1>6 DEF Next

---------------------------------------------------------------------------
\* A search ends with what it found, or with nothing; the backend of a process
\* that is not searching is released or lost before it searches again.
LEMMA SearchersStep ==
  ASSUME OwnershipInv, Next
  PROVE  SearchersHoldNothing'
PROOF
<1> USE BackendsAssumption DEF OwnershipInv, Shape, Steps, Holdings, Processes,
        SearchersHoldNothing, Searching, At, Goto, Settle, GiveUp
<1>1. ASSUME NEW c \in Companions, Companion(c) PROVE SearchersHoldNothing'
  BY <1>1 DEF Companion, Start, ReadRuntime, Stop, Release, None
<1>2. ASSUME NEW p \in Processes, Search(p) PROVE SearchersHoldNothing'
  BY <1>2 DEF Search, Probe, Allocate, WriteTorrc, Spawn, Bootstrap
<1>3. ASSUME NEW p \in Processes, Crash(p) PROVE SearchersHoldNothing'
  BY <1>3 DEF Crash, None
<1>4. CASE TrayNext
  BY <1>4 DEF TrayNext, TrayStarts, Publish, ShowIcon, TrayQuits, Release, None
<1>5. CASE OthersListen \/ TorExits
  BY <1>5 DEF OthersListen, TorExits
<1> QED
  BY <1>1, <1>2, <1>3, <1>4, <1>5 DEF Next

\* A Tor is launched only while none runs, so nobody else owns one then; only
\* its parent kills it, and forgets its backend with it.
LEMMA OwnershipStep ==
  ASSUME OwnershipInv, Next
  PROVE  (ChildIsRunning /\ OwnerIsParent /\ NoOrphanTor)'
PROOF
<1> DEFINE Kept == (ChildIsRunning /\ OwnerIsParent /\ NoOrphanTor)'
<1> USE BackendsAssumption DEF OwnershipInv, Shape, Steps, Holdings, Tors, Processes,
        SearchersHoldNothing, Searching, ChildIsRunning, OwnerIsParent, NoOrphanTor,
        OwnTorRuns, At, Goto, Settle, GiveUp
<1>1. ASSUME NEW c \in Companions, Companion(c), UNCHANGED exited PROVE Kept
  <2>1. CASE Start(c)
    BY <1>1, <2>1 DEF Start, None
  <2>2. CASE ReadRuntime(c)
    BY <1>1, <2>2 DEF ReadRuntime, Reused
  <2>3. CASE Stop(c)
    BY <1>1, <2>3 DEF Stop, Release, None, NoTor
  <2> QED
    BY <1>1, <2>1, <2>2, <2>3 DEF Companion
<1>2. ASSUME NEW p \in Processes, Search(p), UNCHANGED exited PROVE Kept
  <2>1. CASE Probe(p)
    BY <1>2, <2>1 DEF Probe, Reused
  <2>2. CASE Allocate(p)
    BY <1>2, <2>2 DEF Allocate
  <2>3. CASE WriteTorrc(p)
    BY <1>2, <2>3 DEF WriteTorrc
  <2>4. CASE Spawn(p)
    BY <1>2, <2>4 DEF Spawn, Running
  <2>5. CASE Bootstrap(p)
    BY <1>2, <2>5 DEF Bootstrap, Owned, NoTor
  <2> QED
    BY <1>2, <2>1, <2>2, <2>3, <2>4, <2>5 DEF Search
<1>3. ASSUME NEW p \in Processes, Crash(p), UNCHANGED exited PROVE Kept
  BY <1>3 DEF Crash, None
<1>4. ASSUME TrayNext, UNCHANGED exited PROVE Kept
  <2>1. CASE TrayStarts
    BY <1>4, <2>1 DEF TrayStarts
  <2>2. CASE Publish
    BY <1>4, <2>2 DEF Publish
  <2>3. CASE ShowIcon
    BY <1>4, <2>3 DEF ShowIcon, Release, None, NoTor
  <2>4. CASE TrayQuits
    BY <1>4, <2>4 DEF TrayQuits, Release, None, NoTor
  <2> QED
    BY <1>4, <2>1, <2>2, <2>3, <2>4 DEF TrayNext
<1>5. CASE OthersListen /\ UNCHANGED exited
  BY <1>5 DEF OthersListen
<1>6. CASE TorExits
  BY <1>6 DEF TorExits, NoTor
<1> QED
  BY <1>1, <1>2, <1>3, <1>4, <1>5, <1>6 DEF Next

\* Every state satisfies the ownership invariant.
LEMMA OwnershipCorrect == Spec => []OwnershipInv
<1>1. OwnershipInv /\ [Next]_vars => OwnershipInv'
  <2> SUFFICES ASSUME OwnershipInv, [Next]_vars PROVE OwnershipInv'
    OBVIOUS
  <2>1. CASE Next
    <3>1. Shape'
      BY <2>1, ShapeStep DEF OwnershipInv
    <3> QED
      BY <2>1, <3>1, SearchersStep, OwnershipStep DEF OwnershipInv
  <2>2. CASE UNCHANGED vars
    BY <2>2 DEF vars, OwnershipInv, Shape, SearchersHoldNothing, ChildIsRunning,
                OwnerIsParent, NoOrphanTor, OwnTorRuns, At
  <2> QED
    BY <2>1, <2>2
<1> QED
  BY OwnershipInit, <1>1, PTL DEF Spec

\* A process that holds an owned backend (Backend::Owned in main.rs and tray.rs)
\* is the parent of the Tor that runs, so that Stop kills that Tor and no other,
\* and no two processes own one; as long as no Tor has ended on its own.
THEOREM OwnerIsTheParent == Spec => []OwnerIsParent
<1>1. OwnershipInv => OwnerIsParent
  BY DEF OwnershipInv
<1> QED
  BY OwnershipCorrect, <1>1, PTL

\* No Tor is left behind by a process that lives: whatever failed (a bootstrap,
\* the tray icon) or was asked for (stop, quit), the Tor that runs is being
\* bootstrapped, or is held, by the process that launched it.
THEOREM NoTorIsOrphaned == Spec => []NoOrphanTor
<1>1. OwnershipInv => NoOrphanTor
  BY DEF OwnershipInv
<1> QED
  BY OwnershipCorrect, <1>1, PTL

---------------------------------------------------------------------------
\* Types.

\* A backend names a port; the Tor that runs, a pair of them and its parent.
Backends == {None} \cup {Owned(port) : port \in Ports} \cup {Reused(port) : port \in Ports}
TorsThatRun == {Running(ports, parent) : ports \in Pairs, parent \in Processes \cup {"nobody"}}
Ranges ==
    /\ \A p \in Processes : backend[p] \in Backends
    /\ tor \in {NoTor} \cup TorsThatRun
    /\ taken \subseteq TakenPorts

\* What is allocated is what runs.
LEMMA TorsParts ==
    /\ \A ports \in Pairs : \A parent :
        /\ Running(ports, parent).socks = ports.socks
        /\ Running(ports, parent).control = ports.control
        /\ ports.socks \in Ports /\ ports.control \in Ports
        /\ Running(ports, parent).parent = parent
        /\ Running(ports, parent).running
    /\ \A ports \in Pairs : \A parent :
          [Running(ports, parent) EXCEPT !.parent = "nobody"] = Running(ports, "nobody")
    /\ ~NoTor.running
<1>1. \A ports \in Pairs : \A parent :
          /\ Running(ports, parent).socks = ports.socks
          /\ Running(ports, parent).control = ports.control
          /\ ports.socks \in Ports /\ ports.control \in Ports
          /\ Running(ports, parent).parent = parent
          /\ Running(ports, parent).running = TRUE
  <2> SUFFICES ASSUME NEW ports \in Pairs, NEW parent
               PROVE  /\ Running(ports, parent).socks = ports.socks
                      /\ Running(ports, parent).control = ports.control
                      /\ ports.socks \in Ports /\ ports.control \in Ports
                      /\ Running(ports, parent).parent = parent
                      /\ Running(ports, parent).running = TRUE
    OBVIOUS
  <2> QED
    BY DEF Running, Pairs
<1>2. ASSUME NEW ports \in Pairs, NEW parent
      PROVE  [Running(ports, parent) EXCEPT !.parent = "nobody"] = Running(ports, "nobody")
  <2> DEFINE R == Running(ports, parent)
             N == [R EXCEPT !.parent = "nobody"]
  <2>1. R \in [running : {TRUE}, socks : {ports.socks}, control : {ports.control},
                parent : {parent}]
    BY DEF Running
  <2> HIDE DEF R
  <2>2. N \in [running : {TRUE}, socks : {ports.socks}, control : {ports.control},
                parent : {"nobody"}]
    BY <2>1
  <2> HIDE DEF N
  <2>3. N = [running |-> TRUE, socks |-> ports.socks, control |-> ports.control,
             parent |-> "nobody"]
    BY <2>2
  <2> QED
    BY <2>3 DEF Running, N, R
<1>3. ~NoTor.running
    BY DEF NoTor
<1> QED BY <1>1, <1>2, <1>3

\* What listens, listens on a port.
LEMMA ListeningIsPorts ==
    ASSUME Ranges
    PROVE  Listening \subseteq Ports
<1>1. TorPorts \subseteq Ports
    BY TorsParts DEF Ranges, TorsThatRun, TorPorts
<1> QED
    BY <1>1, BackendsAssumption DEF Ranges, Listening, SystemPorts

\* Every step names ports only.
LEMMA RangesStep ==
    ASSUME Shape, Ranges, Next
    PROVE  Ranges'
<1>0. /\ backend \in [Processes -> Holdings] /\ Tray \in Processes /\ Companions \subseteq Processes
      /\ None \in Backends /\ \A port \in Ports : Owned(port) \in Backends /\ Reused(port) \in Backends
      /\ pair \in [Processes -> Pairs] /\ torrc \in Pairs
    BY DEF Shape, Processes, Backends
<1>1. ASSUME UNCHANGED <<backend, tor, taken>> PROVE Ranges'
    BY <1>1 DEF Ranges
<1>2. ASSUME NEW p \in Processes, NEW b \in Backends, UNCHANGED taken,
             backend' = backend \/ backend' = [backend EXCEPT ![p] = b],
             tor' \in {tor, NoTor} \cup TorsThatRun
      PROVE  Ranges'
    BY <1>0, <1>2 DEF Ranges
<1>3. ASSUME NEW c \in Companions, Companion(c) PROVE Ranges'
  <2>1. CASE Start(c)
    BY <1>1, <2>1 DEF Start
  <2>2. CASE ReadRuntime(c)
    <3>1. UNCHANGED <<tor, taken>>
          /\ (backend' = backend \/ (runtime \in Listening
                                     /\ backend' = [backend EXCEPT ![c] = Reused(runtime)]))
      BY <2>2 DEF ReadRuntime, Settle
    <3> QED
      BY <1>0, <1>2, <3>1, ListeningIsPorts
  <2>3. CASE Stop(c)
    BY <1>0, <1>2, <2>3 DEF Stop, Release
  <2> QED BY <1>3, <2>1, <2>2, <2>3 DEF Companion
<1>4. ASSUME NEW p \in Processes, Search(p) PROVE Ranges'
  <2>1. CASE Probe(p)
    <3>1. UNCHANGED <<tor, taken>>
          /\ (backend' = backend \/ backend' = [backend EXCEPT ![p] = Reused(DEFAULT_SOCKS_PORT)])
      BY <2>1 DEF Probe, Settle
    <3> QED
      BY <1>0, <1>2, <3>1, BackendsAssumption
  <2>2. CASE Allocate(p) \/ WriteTorrc(p)
    BY <1>1, <2>2 DEF Allocate, WriteTorrc, GiveUp
  <2>3. CASE Spawn(p)
    <3>1. UNCHANGED <<backend, taken>> /\ (tor' = tor \/ tor' = Running(torrc, p))
      BY <2>3 DEF Spawn, GiveUp
    <3>2. Running(torrc, p) \in TorsThatRun
      BY <1>0 DEF TorsThatRun
    <3> QED
      BY <1>0, <1>2, <3>1, <3>2
  <2>4. CASE Bootstrap(p)
    <3>1. /\ UNCHANGED taken /\ tor' \in {tor, NoTor}
          /\ backend' = backend \/ backend' = [backend EXCEPT ![p] = Owned(pair[p].socks)]
      BY <2>4 DEF Bootstrap, Settle, GiveUp
    <3>2. Owned(pair[p].socks) \in Backends
      BY <1>0 DEF Pairs
    <3> QED
      BY <1>2, <3>1, <3>2
  <2> QED BY <1>4, <2>1, <2>2, <2>3, <2>4 DEF Search
<1>5. ASSUME NEW p \in Processes, Crash(p) PROVE Ranges'
  <2>1. /\ UNCHANGED taken /\ backend' = [backend EXCEPT ![p] = None]
        /\ tor' = IF OwnTorRuns(p) THEN [tor EXCEPT !.parent = "nobody"] ELSE tor
    BY <1>5 DEF Crash
  <2>2. tor' \in {tor} \cup TorsThatRun
    <3>1. CASE OwnTorRuns(p)
      <4>1. PICK ports \in Pairs, parent \in Processes \cup {"nobody"} : tor = Running(ports, parent)
        BY <3>1, TorsParts DEF Ranges, TorsThatRun, OwnTorRuns
      <4> QED
        BY <2>1, <3>1, <4>1, TorsParts DEF TorsThatRun
    <3> QED
      BY <2>1, <3>1
  <2> QED BY <1>0, <1>2, <2>1, <2>2
<1>6. CASE TrayNext
  <2>1. CASE TrayStarts \/ Publish
    BY <1>1, <2>1 DEF TrayStarts, Publish
  <2>2. CASE ShowIcon
    <3>1. /\ UNCHANGED taken /\ tor' \in {tor, NoTor}
          /\ backend' = backend \/ backend' = [backend EXCEPT ![Tray] = None]
      BY <2>2 DEF ShowIcon, Release
    <3> QED
      BY <1>0, <1>2, <3>1
  <2>3. CASE TrayQuits
    <3>1. /\ UNCHANGED taken /\ tor' \in {tor, NoTor}
          /\ backend' = [backend EXCEPT ![Tray] = None]
      BY <2>3 DEF TrayQuits, Release
    <3> QED
      BY <1>0, <1>2, <3>1
  <2> QED BY <1>6, <2>1, <2>2, <2>3 DEF TrayNext
<1>7. CASE OthersListen
    BY <1>7 DEF OthersListen, Ranges
<1>8. CASE TorExits
    BY <1>0, <1>2, <1>8 DEF TorExits
<1> QED BY <1>3, <1>4, <1>5, <1>6, <1>7, <1>8 DEF Next

\* Backends and Tors have ports.
LEMMA RangesCorrect == Spec => []Ranges
<1>1. Init => Ranges
    BY DEF Init, Ranges, Backends
<1>2. Shape /\ Ranges /\ [Next]_vars => Ranges'
  <2> SUFFICES ASSUME Shape, Ranges, [Next]_vars PROVE Ranges'
    OBVIOUS
  <2>1. CASE UNCHANGED vars
    BY <2>1 DEF vars, Ranges
  <2> QED BY <2>1, RangesStep
<1>3. OwnershipInv => Shape
    BY DEF OwnershipInv
<1> QED
    BY <1>1, <1>2, <1>3, OwnershipCorrect, PTL DEF Spec

\* Everything the processes keep, share and publish has its type: in particular
\* every backend names a port, also one taken over from the runtime file.
THEOREM TypesAreRight == Spec => []TypeOK
<1>1. Shape /\ Ranges => TypeOK
  <2> SUFFICES ASSUME Shape, Ranges PROVE TypeOK
    OBVIOUS
  <2>1. \A p \in Processes :
           backend[p] = None \/ \E port \in Ports : backend[p] \in {Owned(port), Reused(port)}
    BY DEF Ranges, Backends
  <2>2. tor = NoTor \/ \E ports \in Pairs, parent \in Processes \cup {"nobody"} :
                          tor = Running(ports, parent)
    BY DEF Ranges, TorsThatRun
  <2> QED
    BY <2>1, <2>2 DEF Shape, Ranges, TypeOK
<1>2. OwnershipInv => Shape
    BY DEF OwnershipInv
<1> QED
    BY <1>1, <1>2, OwnershipCorrect, RangesCorrect, PTL

---------------------------------------------------------------------------
\* One companion, and no tray.  (With two, one may launch its Tor on the torrc of
\* the other, and report its own ports.)

NoTray == At(Tray, "down") /\ backend[Tray] = None /\ runtime = NoPort

\* What the torrc says, and then the Tor, is what the companion has allocated.
PortsAgree(c) ==
    /\ At(c, "spawn") => torrc = pair[c]
    /\ At(c, "bootstrap") /\ tor.running => tor.socks = pair[c].socks

\* As long as no other program can take the SOCKS port of the well-known pair, a
\* Tor is launched there, if no Tor has it; so the pair that is probed is a pair.
WellKnownSocks(c) ==
    ~exited /\ ~SystemTor =>
       /\ pc[c] \in {"torrc", "spawn"} /\ ~tor.running => pair[c].socks = DEFAULT_SOCKS_PORT
       /\ tor.running => tor.socks = DEFAULT_SOCKS_PORT
ReusedIsThere(c) ==
    ~exited /\ backend[c].kind = "reused" =>
       backend[c].socks = DEFAULT_SOCKS_PORT /\ (SystemTor \/ tor.running)

\* Without a tray there is nothing to read in the runtime file.
LEMMA RuntimeIsEmpty ==
    ASSUME Ranges, NoTray, NEW c, ReadRuntime(c)
    PROVE  Goto(c, "probe") /\ UNCHANGED <<backend, pair, torrc, tor, runtime, taken>>
<1>1. runtime \notin Listening
    BY ListeningIsPorts, BackendsAssumption DEF NoTray
<1> QED BY <1>1 DEF ReadRuntime

\* With one companion and no tray a step is one of its, or of the other programs.
LEMMA LoneStep ==
    ASSUME OwnershipInv, Ranges, NoTray, ~TrayExists, NEW c, Companions = {c}, Next
    PROVE  \/ /\ c \in Companions /\ UNCHANGED exited
              /\ Start(c) \/ ReadRuntime(c) \/ Stop(c) \/ Search(c) \/ Crash(c)
           \/ OthersListen /\ UNCHANGED exited
           \/ TorExits
<1>1. ASSUME NEW p \in Processes, Search(p) \/ Crash(p) PROVE p = c
  <2>1. p # Tray
    BY <1>1 DEF NoTray, At, Search, Probe, Allocate, WriteTorrc, Spawn, Bootstrap, Crash
  <2> QED
    BY <2>1 DEF Processes
<1>2. ~TrayNext
    BY DEF NoTray, At, TrayNext, TrayStarts, Publish, ShowIcon, TrayQuits
<1>3. ASSUME NEW x \in Companions, Companion(x) PROVE x = c
    OBVIOUS
<1> QED BY <1>1, <1>2, <1>3 DEF Next, Companion

\* A tray that is not there stays away.
LEMMA NoTrayStep ==
    ASSUME OwnershipInv, Ranges, NoTray, ~TrayExists, NEW c, Companions = {c}, Next
    PROVE  NoTray'
<1>1. c # Tray /\ c \in Processes /\ Tray \in Processes
    BY BackendsAssumption DEF Processes
<1>2. /\ pc \in [Processes -> Steps] /\ backend \in [Processes -> Holdings]
    BY DEF OwnershipInv, Shape
<1>3. CASE c \in Companions /\ (Start(c) \/ ReadRuntime(c) \/ Stop(c) \/ Search(c) \/ Crash(c))
  <2>1. /\ UNCHANGED runtime
        /\ \/ UNCHANGED pc
           \/ \E step \in Steps : pc' = [pc EXCEPT ![c] = step]
        /\ \/ UNCHANGED backend
           \/ \E b : backend' = [backend EXCEPT ![c] = b]
    BY <1>1, <1>3, BackendsAssumption
       DEF Start, ReadRuntime, Stop, Search, Crash, Probe, Allocate, WriteTorrc, Spawn, Bootstrap,
           Release, Settle, GiveUp, Goto, Steps
  <2> QED
    BY <1>1, <1>2, <2>1 DEF NoTray, At
<1>4. CASE OthersListen \/ TorExits
    BY <1>4 DEF OthersListen, TorExits, NoTray, At
<1> QED BY <1>3, <1>4, LoneStep

\* Between the allocation and the launch nobody else writes the torrc.
LEMMA PortsAgreeStep ==
    ASSUME OwnershipInv, Ranges, NoTray, ~TrayExists, NEW c, Companions = {c}, Next,
           PortsAgree(c), OwnedPortIsTors
    PROVE  PortsAgree(c)' /\ OwnedPortIsTors'
<1>0. /\ c # Tray /\ c \in Processes /\ Processes = {c, Tray}
      /\ pc \in [Processes -> Steps] /\ backend \in [Processes -> Holdings]
      /\ pair \in [Processes -> Pairs] /\ None.kind = "none"
      /\ \A port : Owned(port).kind = "owned" /\ Owned(port).socks = port
      /\ \A port : Reused(port).kind = "reused" /\ ~NoTor.running
    BY BackendsAssumption DEF Processes, OwnershipInv, Shape, None, Owned, Reused, NoTor
<1> DEFINE Agreed == PortsAgree(c)' /\ OwnedPortIsTors'
<1>01. backend[Tray].kind # "owned"
    BY <1>0 DEF NoTray
<1>1. CASE Start(c)
    BY <1>0, <1>1 DEF Start, Goto, At, PortsAgree, OwnedPortIsTors
<1>2. CASE ReadRuntime(c)
    BY <1>0, <1>2, RuntimeIsEmpty DEF Goto, At, PortsAgree, OwnedPortIsTors
<1>3. CASE Stop(c)
    BY <1>0, <1>3 DEF Stop, Release, At, PortsAgree, OwnedPortIsTors
<1>4. CASE Probe(c)
    BY <1>0, <1>4 DEF Probe, Settle, Goto, At, PortsAgree, OwnedPortIsTors
<1>5. CASE Allocate(c)
    BY <1>0, <1>5 DEF Allocate, GiveUp, Goto, At, PortsAgree, OwnedPortIsTors
<1>6. CASE WriteTorrc(c)
    BY <1>0, <1>6 DEF WriteTorrc, Goto, At, PortsAgree, OwnedPortIsTors
<1>7. CASE Spawn(c)
  <2>1. backend[c].kind # "owned"
    BY <1>0, <1>7 DEF Spawn, At, OwnershipInv, SearchersHoldNothing, Searching
  <2>2. Running(torrc, c).socks = torrc.socks
    BY DEF Running
  <2> QED
    BY <1>0, <1>01, <1>7, <2>1, <2>2 DEF Spawn, GiveUp, Goto, At, PortsAgree, OwnedPortIsTors
<1>8. CASE Bootstrap(c)
    BY <1>0, <1>01, <1>8 DEF Bootstrap, Settle, GiveUp, Goto, At, PortsAgree, OwnedPortIsTors
<1>9. CASE Crash(c)
  <2>1. tor'.socks = tor.socks /\ tor'.running = tor.running
    BY <1>9 DEF Crash, OwnershipInv, Shape, Tors
  <2> QED
    BY <1>0, <1>9, <2>1 DEF Crash, Goto, At, PortsAgree, OwnedPortIsTors
<1>10. CASE OthersListen
    BY <1>10 DEF OthersListen, At, PortsAgree, OwnedPortIsTors
<1>11. CASE TorExits
    BY <1>0, <1>11 DEF TorExits, At, PortsAgree, OwnedPortIsTors
<1> QED
    BY <1>1, <1>2, <1>3, <1>4, <1>5, <1>6, <1>7, <1>8, <1>9, <1>10, <1>11, LoneStep DEF Search

\* A Tor on the well-known port is there before it is reused, and after.
LEMMA WellKnownStep ==
    ASSUME OwnershipInv, Ranges, NoTray, ~TrayExists, NEW c, Companions = {c}, Next,
           DEFAULT_SOCKS_PORT \notin TakenPorts, WellKnownSocks(c), ReusedIsThere(c),
           PortsAgree(c)
    PROVE  WellKnownSocks(c)' /\ ReusedIsThere(c)'
<1>0. /\ c # Tray /\ c \in Processes
      /\ pc \in [Processes -> Steps] /\ backend \in [Processes -> Holdings]
      /\ pair \in [Processes -> Pairs] /\ None.kind = "none"
      /\ \A port : Owned(port).kind = "owned"
      /\ \A port : Reused(port).kind = "reused" /\ Reused(port).socks = port
      /\ ~NoTor.running
    BY BackendsAssumption DEF Processes, OwnershipInv, Shape, None, Owned, Reused, NoTor
<1>1. CASE TorExits
    BY <1>1 DEF TorExits, WellKnownSocks, ReusedIsThere
<1>2. CASE OthersListen /\ UNCHANGED exited
    BY <1>2 DEF OthersListen, WellKnownSocks, ReusedIsThere
<1>3. SUFFICES ASSUME UNCHANGED exited, ~exited,
                      Start(c) \/ ReadRuntime(c) \/ Stop(c) \/ Search(c) \/ Crash(c)
               PROVE  WellKnownSocks(c)' /\ ReusedIsThere(c)'
  <2>1. CASE exited /\ UNCHANGED exited
    BY <2>1 DEF WellKnownSocks, ReusedIsThere
  <2> QED
    BY <1>1, <1>2, <2>1, LoneStep
<1>4. CASE Start(c)
    BY <1>0, <1>3, <1>4 DEF Start, Goto, WellKnownSocks, ReusedIsThere
<1>5. CASE ReadRuntime(c)
    BY <1>0, <1>3, <1>5, RuntimeIsEmpty DEF Goto, WellKnownSocks, ReusedIsThere
<1>6. CASE Stop(c)
    BY <1>0, <1>3, <1>6 DEF Stop, Release, At, WellKnownSocks, ReusedIsThere
<1>7. CASE Probe(c)
    BY <1>0, <1>3, <1>7 DEF Probe, Settle, Goto, At, WellKnownSocks, ReusedIsThere
<1>8. CASE Allocate(c)
  <2>1. ~SystemTor /\ ~tor.running => DEFAULT_SOCKS_PORT \notin Listening
    BY DEF Listening, SystemPorts, TorPorts, Ranges
  <2>2. ~SystemTor /\ ~tor.running => Picks(DEFAULT_SOCKS_PORT) = {DEFAULT_SOCKS_PORT}
    BY <2>1 DEF Picks
  <2>3. ~SystemTor /\ ~tor.running /\ pc'[c] = "torrc" => pair'[c].socks = DEFAULT_SOCKS_PORT
    <3>1. CASE GiveUp(c)
      <4>1. pc'[c] = "idle"
        BY <1>0, <3>1 DEF GiveUp, Goto
      <4> QED BY <4>1
    <3>2. CASE ~GiveUp(c)
      <4>1. PICK socks \in Picks(DEFAULT_SOCKS_PORT), control \in Picks(DEFAULT_CONTROL_PORT) :
               pair' = [pair EXCEPT ![c] = [socks |-> socks, control |-> control]]
        BY <1>8, <3>2 DEF Allocate
      <4>2. pair'[c].socks = socks
        BY <1>0, <4>1
      <4> QED
        BY <2>2, <4>2
    <3> QED BY <3>1, <3>2
  <2>4. pc'[c] # "spawn" /\ UNCHANGED <<backend, tor>>
    BY <1>0, <1>8 DEF Allocate, Goto, GiveUp
  <2> QED
    BY <1>3, <2>3, <2>4 DEF WellKnownSocks, ReusedIsThere
<1>9. CASE WriteTorrc(c)
    BY <1>0, <1>3, <1>9 DEF WriteTorrc, Goto, At, WellKnownSocks, ReusedIsThere
<1>10. CASE Spawn(c)
  <2>1. Running(torrc, c).socks = torrc.socks /\ torrc = pair[c]
    BY <1>10 DEF Spawn, Running, PortsAgree
  <2>2. backend[c].kind = "none" /\ UNCHANGED <<backend, pair>>
    BY <1>0, <1>10 DEF Spawn, GiveUp, At, OwnershipInv, SearchersHoldNothing, Searching
  <2>3. pc[c] = "spawn" /\ pc'[c] \notin {"torrc", "spawn"}
    BY <1>0, <1>10 DEF Spawn, GiveUp, Goto, At
  <2>4. UNCHANGED tor \/ (~tor.running /\ tor' = Running(torrc, c))
    BY <1>10 DEF Spawn
  <2> QED
    BY <1>3, <2>1, <2>2, <2>3, <2>4 DEF WellKnownSocks, ReusedIsThere
<1>11. CASE Bootstrap(c)
  <2>1. backend[c].kind = "none" /\ backend'[c].kind # "reused"
    BY <1>0, <1>11 DEF Bootstrap, Settle, GiveUp, At, OwnershipInv, SearchersHoldNothing, Searching
  <2>2. pc'[c] \notin {"torrc", "spawn"}
    BY <1>0, <1>11 DEF Bootstrap, Settle, GiveUp, Goto
  <2>3. tor' \in {tor, NoTor}
    BY <1>11 DEF Bootstrap
  <2> QED
    BY <1>0, <1>3, <2>1, <2>2, <2>3 DEF WellKnownSocks, ReusedIsThere
<1>12. CASE Crash(c)
  <2>1. tor'.socks = tor.socks /\ tor'.running = tor.running
    BY <1>12 DEF Crash, OwnershipInv, Shape, Tors
  <2> QED
    BY <1>0, <1>3, <1>12, <2>1 DEF Crash, Goto, WellKnownSocks, ReusedIsThere
<1> QED
    BY <1>3, <1>4, <1>5, <1>6, <1>7, <1>8, <1>9, <1>10, <1>11, <1>12 DEF Search

\* All that has been said of a lone companion.
LoneInv(c) == NoTray /\ PortsAgree(c) /\ OwnedPortIsTors
LoneSocksInv(c) == WellKnownSocks(c) /\ ReusedIsThere(c)

\* The inductive invariant of one companion without a tray.
LEMMA LoneCorrect ==
    ASSUME NEW c, Companions = {c}, ~TrayExists
    PROVE  Spec => []LoneInv(c)
<1>1. Init => LoneInv(c)
  <2> SUFFICES ASSUME Init PROVE LoneInv(c)
    OBVIOUS
  <2>1. /\ pc[Tray] = "down" /\ pc[c] = "idle" /\ \A p \in Processes : backend[p] = None
        /\ runtime = NoPort /\ Tray \in Processes
    BY BackendsAssumption DEF Init, Processes
  <2>2. None.kind # "owned"
    BY DEF None
  <2> QED
    BY <2>1, <2>2 DEF LoneInv, NoTray, PortsAgree, OwnedPortIsTors, At
<1>2. OwnershipInv /\ Ranges /\ LoneInv(c) /\ [Next]_vars => LoneInv(c)'
  <2> SUFFICES ASSUME OwnershipInv, Ranges, LoneInv(c), [Next]_vars PROVE LoneInv(c)'
    OBVIOUS
  <2>1. CASE UNCHANGED vars
    BY <2>1 DEF vars, LoneInv, NoTray, PortsAgree, OwnedPortIsTors, At
  <2>2. CASE Next
    BY <2>2, NoTrayStep, PortsAgreeStep DEF LoneInv
  <2> QED BY <2>1, <2>2
<1> QED
    BY <1>1, <1>2, OwnershipCorrect, RangesCorrect, PTL DEF Spec

\* The same with the well-known port free of other programs.
LEMMA LoneSocksCorrect ==
    ASSUME NEW c, Companions = {c}, ~TrayExists, DEFAULT_SOCKS_PORT \notin TakenPorts
    PROVE  Spec => []LoneSocksInv(c)
<1>1. Init => LoneSocksInv(c)
  <2> SUFFICES ASSUME Init PROVE LoneSocksInv(c)
    OBVIOUS
  <2>1. pc[c] = "idle" /\ backend[c] = None /\ ~tor.running /\ None.kind = "none"
    BY BackendsAssumption DEF Init, Processes, None, NoTor
  <2> QED
    BY <2>1 DEF LoneSocksInv, WellKnownSocks, ReusedIsThere
<1>2. OwnershipInv /\ Ranges /\ LoneInv(c) /\ LoneSocksInv(c) /\ [Next]_vars => LoneSocksInv(c)'
  <2> SUFFICES ASSUME OwnershipInv, Ranges, LoneInv(c), LoneSocksInv(c), [Next]_vars
               PROVE  LoneSocksInv(c)'
    OBVIOUS
  <2>1. CASE UNCHANGED vars
    BY <2>1 DEF vars, LoneSocksInv, WellKnownSocks, ReusedIsThere
  <2>2. CASE Next
    BY <2>2, WellKnownStep DEF LoneInv, LoneSocksInv
  <2> QED BY <2>1, <2>2
<1> QED
    BY <1>1, <1>2, OwnershipCorrect, RangesCorrect, LoneCorrect, PTL DEF Spec

\* One companion and no tray: the port of an owned backend, which every Ready reply
\* names, is the one its Tor listens on, through failed launches and kills.
THEOREM ThePortIsTors ==
    ASSUME \E c : Companions = {c}, ~TrayExists
    PROVE  Spec => []OwnedPortIsTors
<1>1. PICK c : Companions = {c}
    OBVIOUS
<1>2. LoneInv(c) => OwnedPortIsTors
    BY DEF LoneInv
<1> QED
    BY <1>1, <1>2, LoneCorrect, PTL

\* What is invariant for a lone companion makes its backend one that is there.
LEMMA LoneBackendIsServed ==
    ASSUME NEW c, Companions = {c}, OwnershipInv, Ranges, LoneInv(c), LoneSocksInv(c)
    PROVE  HeldBackendIsRunning
<1> SUFFICES ASSUME ~exited, backend[c] # None
             PROVE  ServedByTor(backend[c].socks)
    BY DEF HeldBackendIsRunning
<1>1. c \in Processes /\ \E port \in Ports : backend[c] \in {Owned(port), Reused(port)}
    BY DEF Processes, Ranges, Backends
<1>2. CASE backend[c].kind = "owned"
    BY <1>1, <1>2 DEF OwnershipInv, OwnerIsParent, OwnTorRuns, LoneInv, OwnedPortIsTors, ServedByTor
<1>3. CASE backend[c].kind = "reused"
    BY <1>3 DEF LoneSocksInv, WellKnownSocks, ReusedIsThere, ServedByTor
<1> QED
    BY <1>1, <1>2, <1>3 DEF Owned, Reused

\* One companion, no tray, and a SOCKS port of the well-known pair that no other
\* program takes: while the companion holds a backend, a Tor serves the port that
\* it reports, unless a Tor ended on its own (nobody watches it, tor_manager.rs).
THEOREM TheBackendIsThere ==
    ASSUME \E c : Companions = {c}, ~TrayExists, DEFAULT_SOCKS_PORT \notin TakenPorts
    PROVE  Spec => []HeldBackendIsRunning
<1>1. PICK c : Companions = {c}
    OBVIOUS
<1>2. OwnershipInv /\ Ranges /\ LoneInv(c) /\ LoneSocksInv(c) => HeldBackendIsRunning
    BY <1>1, LoneBackendIsServed
<1> QED
    BY <1>1, <1>2, OwnershipCorrect, RangesCorrect, LoneCorrect, LoneSocksCorrect, PTL

\* Under the same conditions, and if no Tor ends on its own: the port of a Ready
\* reply is, at the moment the search ends, the SOCKS port of a Tor, whether the
\* companion has launched that Tor or found it.
THEOREM ReadyIsTrue ==
    ASSUME \E c : Companions = {c}, ~TrayExists, DEFAULT_SOCKS_PORT \notin TakenPorts, ~TorMayExit
    PROVE  Spec => ReadyNamesATor
<1> DEFINE Named == \A p \in Processes :
                       backend'[p] # backend[p] /\ backend'[p] # None
                           => ServedByTor(backend[p].socks)'
<1>1. PICK c : Companions = {c}
    OBVIOUS
<1>2. Spec => []~exited
  <2>1. Init => ~exited
    BY DEF Init
  <2>2. ~exited /\ [Next]_vars => ~exited'
    BY DEF Next, TorExits, vars
  <2> QED
    BY <2>1, <2>2, PTL DEF Spec
<1>3. (~exited)' /\ HeldBackendIsRunning' /\ LoneInv(c)' => Named
  <2> SUFFICES ASSUME ~exited', HeldBackendIsRunning', LoneInv(c)',
                      NEW p \in Processes, backend'[p] # None
               PROVE  ServedByTor(backend[p].socks)'
    OBVIOUS
  <2>1. p = c
    BY <1>1 DEF LoneInv, NoTray, Processes
  <2> QED
    BY <1>1, <2>1 DEF HeldBackendIsRunning
<1>4. Spec => []LoneInv(c)
    BY <1>1, LoneCorrect
<1>5. Spec => []HeldBackendIsRunning
    BY TheBackendIsThere
<1>6. Spec => [][Named]_vars
    BY <1>2, <1>3, <1>4, <1>5, PTL
<1> QED
    BY <1>6 DEF ReadyNamesATor


---------------------------------------------------------------------------
\* Any number of companions and the tray, as long as no two of them are between
\* the writing of the torrc and the launch at the same moment (tor_torrc_race.cfg
\* shows what happens if they are), and no Tor ends on its own.

LaunchesApart ==
    \A p, q \in Processes :
        pc[p] \in {"torrc", "spawn"} /\ pc[q] \in {"torrc", "spawn"} => p = q

\* The torrc is that of whoever is about to launch on it, and the Tor that runs
\* has the port that its parent has in mind, and then holds.
PortsFollow ==
    /\ \A p \in Processes : At(p, "spawn") => torrc = pair[p]
    /\ \A p \in Processes : At(p, "bootstrap") => tor.socks = pair[p].socks
    /\ \A p \in Processes : backend[p].kind = "owned" => backend[p].socks = tor.socks

\* Only WriteTorrc touches the torrc, and only while nobody else is about to
\* launch; a Tor is launched while none runs, so nobody waits for one or owns one.
LEMMA PortsFollowStep ==
    ASSUME OwnershipInv, ~TorMayExit, ~exited, LaunchesApart, PortsFollow, Next
    PROVE  PortsFollow'
<1>0. /\ Tray \in Processes /\ Companions \subseteq Processes
      /\ pc \in [Processes -> Steps] /\ backend \in [Processes -> Holdings]
      /\ pair \in [Processes -> Pairs] /\ None.kind = "none" /\ None.kind # "owned"
      /\ \A port : Owned(port).kind = "owned" /\ Owned(port).socks = port
      /\ \A port : Reused(port).kind = "reused" /\ ~NoTor.running
    BY DEF Processes, OwnershipInv, Shape, None, Owned, Reused, NoTor
<1>01. /\ \A p \in Processes : backend[p].kind = "owned" => OwnTorRuns(p)
       /\ \A p \in Processes : pc[p] = "bootstrap" => OwnTorRuns(p)
       /\ \A p \in Processes : pc[p] \in Searching => backend[p].kind = "none"
       /\ \A p, q \in Processes : OwnTorRuns(p) /\ OwnTorRuns(q) => p = q
    BY DEF OwnershipInv, OwnerIsParent, ChildIsRunning, SearchersHoldNothing, OwnTorRuns, At
<1>02. /\ \A p \in Processes : pc[p] = "spawn" => torrc = pair[p]
       /\ \A p \in Processes : pc[p] = "bootstrap" => tor.socks = pair[p].socks
       /\ \A p \in Processes : backend[p].kind = "owned" => backend[p].socks = tor.socks
    BY DEF PortsFollow, At
\* A process that keeps the torrc and the Tor, and does not begin to launch.
<1>1. ASSUME NEW p \in Processes, NEW step \in Steps \ {"spawn", "bootstrap"},
             pc' = pc \/ pc' = [pc EXCEPT ![p] = step],
             UNCHANGED <<pair, torrc>>, tor'.socks = tor.socks,
             \A q \in Processes : backend'[q].kind = "owned" => backend'[q] = backend[q]
      PROVE  PortsFollow'
    BY <1>0, <1>02, <1>1 DEF PortsFollow, At
\* One that lets go of its Tor, and holds nothing any more.
<1>2. ASSUME NEW p \in Processes, NEW step \in Steps \ {"spawn", "bootstrap"},
             pc' = pc \/ pc' = [pc EXCEPT ![p] = step], OwnTorRuns(p),
             pc'[p] # "bootstrap", backend'[p].kind # "owned",
             UNCHANGED <<pair, torrc>>,
             \A q \in Processes \ {p} : backend'[q] = backend[q]
      PROVE  PortsFollow'
  <2>1. \A q \in Processes \ {p} : pc[q] # "bootstrap" /\ backend[q].kind # "owned"
    BY <1>01, <1>2
  <2>2. \A q \in Processes : pc'[q] # "bootstrap" /\ backend'[q].kind # "owned"
    BY <1>0, <1>2, <2>1
  <2>3. \A q \in Processes : pc'[q] = "spawn" => pc[q] = "spawn"
    BY <1>0, <1>2
  <2> QED BY <1>02, <1>2, <2>2, <2>3 DEF PortsFollow, At
\* Stop, the end of the tray, a kill.
<1>3. ASSUME NEW p \in Processes, NEW step \in Steps \ {"spawn", "bootstrap"},
             pc' = pc \/ pc' = [pc EXCEPT ![p] = step], pc'[p] # "bootstrap", Release(p),
             UNCHANGED <<pair, torrc>>
      PROVE  PortsFollow'
  <2>1. backend' = [backend EXCEPT ![p] = None] BY <1>3 DEF Release
  <2>2. /\ backend'[p].kind # "owned"
        /\ \A q \in Processes \ {p} : backend'[q] = backend[q]
    BY <1>0, <2>1
  <2>3. CASE OwnTorRuns(p) BY <1>2, <1>3, <2>2, <2>3
  <2>4. CASE ~OwnTorRuns(p)
    <3>1. UNCHANGED tor BY <1>3, <2>4 DEF Release
    <3> QED BY <1>1, <1>3, <2>2, <3>1
  <2> QED BY <2>3, <2>4
<1>4. ASSUME NEW c \in Companions, Companion(c) PROVE PortsFollow'
  <2>1. c \in Processes BY <1>0
  <2>2. CASE Start(c) BY <1>1, <2>1, <2>2 DEF Start, Goto, Steps
  <2>3. CASE ReadRuntime(c)
    <3>1. /\ UNCHANGED <<pair, torrc, tor>>
          /\ \E step \in {"publish", "idle", "probe"} : pc' = [pc EXCEPT ![c] = step]
          /\ backend' = backend \/ backend' = [backend EXCEPT ![c] = Reused(runtime)]
      BY <2>3 DEF ReadRuntime, Settle, Goto
    <3>2. \A q \in Processes : backend'[q].kind = "owned" => backend'[q] = backend[q]
      BY <1>0, <2>1, <3>1
    <3> QED BY <1>1, <2>1, <3>1, <3>2 DEF Steps
  <2>4. CASE Stop(c) BY <1>0, <1>3, <2>1, <2>4 DEF Stop, At, Steps
  <2> QED BY <1>4, <2>2, <2>3, <2>4 DEF Companion
<1>5. ASSUME NEW p \in Processes, Search(p) PROVE PortsFollow'
  <2>1. CASE Probe(p)
    <3>1. /\ UNCHANGED <<pair, torrc, tor>>
          /\ \E step \in {"publish", "idle", "allocate"} : pc' = [pc EXCEPT ![p] = step]
          /\ \/ backend' = backend
             \/ backend' = [backend EXCEPT ![p] = Reused(DEFAULT_SOCKS_PORT)]
      BY <2>1 DEF Probe, Settle, Goto
    <3>2. \A q \in Processes : backend'[q].kind = "owned" => backend'[q] = backend[q]
      BY <1>0, <3>1
    <3> QED BY <1>1, <3>1, <3>2 DEF Steps
  <2>2. CASE Allocate(p)
    <3>1. /\ UNCHANGED <<backend, torrc, tor>>
          /\ \A q \in Processes \ {p} : pair'[q] = pair[q] /\ pc'[q] = pc[q]
          /\ pc'[p] \in {"torrc", "idle", "down"}
      BY <1>0, <2>2 DEF Allocate, GiveUp, Goto
    <3> QED BY <1>02, <3>1 DEF PortsFollow, At
  <2>3. CASE WriteTorrc(p)
    <3>1. /\ UNCHANGED <<backend, pair, tor>> /\ torrc' = pair[p] /\ pc[p] = "torrc"
          /\ \A q \in Processes \ {p} : pc'[q] = pc[q]
          /\ pc'[p] = "spawn"
      BY <1>0, <2>3 DEF WriteTorrc, Goto, At
    <3>2. \A q \in Processes \ {p} : pc[q] # "spawn" BY <3>1 DEF LaunchesApart
    <3> QED BY <1>02, <3>1, <3>2 DEF PortsFollow, At
  <2>4. CASE Spawn(p)
    <3>1. UNCHANGED <<backend, pair, torrc>> /\ pc[p] = "spawn"
      BY <2>4 DEF Spawn, GiveUp, At
    <3>2. CASE UNCHANGED tor /\ GiveUp(p)
      <4>1. \E step \in {"down", "idle"} : pc' = [pc EXCEPT ![p] = step]
        BY <3>2 DEF GiveUp, Goto
      <4> QED BY <1>1, <3>1, <3>2, <4>1 DEF Steps
    <3>3. CASE tor' = Running(torrc, p) /\ Goto(p, "bootstrap") /\ ~tor.running
      <4>1. tor'.socks = pair[p].socks BY <1>02, <3>1, <3>3 DEF Running
      <4>2. \A q \in Processes : pc[q] # "bootstrap" /\ backend[q].kind # "owned"
        BY <1>01, <3>3 DEF OwnTorRuns
      <4>3. /\ pc'[p] = "bootstrap"
            /\ \A q \in Processes \ {p} : pc'[q] = pc[q]
        BY <1>0, <3>3 DEF Goto
      <4> QED BY <1>02, <3>1, <4>1, <4>2, <4>3 DEF PortsFollow, At
    <3> QED BY <2>4, <3>2, <3>3 DEF Spawn
  <2>5. CASE Bootstrap(p)
    <3>1. pc[p] = "bootstrap" /\ UNCHANGED <<pair, torrc>> /\ OwnTorRuns(p)
      BY <1>01, <2>5 DEF Bootstrap, At
    <3>2. CASE Settle(p, Owned(pair[p].socks)) /\ UNCHANGED tor
      <4>1. /\ backend'[p].socks = tor.socks
            /\ \A q \in Processes \ {p} : backend'[q] = backend[q] /\ pc'[q] = pc[q]
            /\ pc'[p] \in {"publish", "idle"}
        BY <1>0, <1>02, <3>1, <3>2 DEF Settle, Goto
      <4> QED BY <1>02, <3>1, <3>2, <4>1 DEF PortsFollow, At
    <3>3. CASE GiveUp(p)
      <4>1. UNCHANGED backend /\ backend[p].kind = "none" /\ pc'[p] # "bootstrap"
            /\ \E step \in {"down", "idle"} : pc' = [pc EXCEPT ![p] = step]
        BY <1>0, <1>01, <3>1, <3>3 DEF GiveUp, Goto, Searching
      <4> QED BY <1>2, <3>1, <4>1 DEF Steps
    <3> QED BY <2>5, <3>2, <3>3 DEF Bootstrap
  <2> QED BY <1>5, <2>1, <2>2, <2>3, <2>4, <2>5 DEF Search
<1>6. ASSUME NEW p \in Processes, Crash(p) PROVE PortsFollow'
  <2>1. tor'.socks = tor.socks
    BY <1>6 DEF Crash, OwnershipInv, Shape, Tors
  <2>2. /\ \E step \in {"down", "idle"} : pc' = [pc EXCEPT ![p] = step]
        /\ backend' = [backend EXCEPT ![p] = None] /\ UNCHANGED <<pair, torrc>>
    BY <1>6 DEF Crash, Goto
  <2>3. \A q \in Processes : backend'[q].kind = "owned" => backend'[q] = backend[q]
    BY <1>0, <2>2
  <2> QED BY <1>1, <2>1, <2>2, <2>3 DEF Steps
<1>7. CASE TrayNext
  <2>1. CASE TrayStarts BY <1>0, <1>1, <2>1 DEF TrayStarts, Goto, Steps
  <2>2. CASE Publish BY <1>0, <1>1, <2>2 DEF Publish, Goto, Steps
  <2>3. CASE ShowIcon
    <3>1. CASE Goto(Tray, "idle") /\ UNCHANGED <<backend, tor>>
      BY <1>0, <1>1, <2>3, <3>1 DEF ShowIcon, Goto, Steps
    <3>2. CASE Goto(Tray, "down") /\ Release(Tray)
      BY <1>0, <1>3, <2>3, <3>2 DEF ShowIcon, Goto, Steps
    <3> QED BY <2>3, <3>1, <3>2 DEF ShowIcon
  <2>4. CASE TrayQuits BY <1>0, <1>3, <2>4 DEF TrayQuits, Goto, Steps
  <2> QED BY <1>7, <2>1, <2>2, <2>3, <2>4 DEF TrayNext
<1>8. CASE OthersListen
    BY <1>02, <1>8 DEF OthersListen, PortsFollow, At
<1>9. ~TorExits
    BY DEF TorExits
<1> QED BY <1>4, <1>5, <1>6, <1>7, <1>8, <1>9 DEF Next


\* What holds in every state of a run in which launches are apart.
LEMMA PortsFollowCorrect ==
    ASSUME ~TorMayExit
    PROVE  Spec /\ []LaunchesApart => [](PortsFollow /\ ~exited)
<1>1. Init => PortsFollow /\ ~exited
  <2> SUFFICES ASSUME Init PROVE PortsFollow /\ ~exited
    OBVIOUS
  <2>1. \A p \in Processes : pc[p] \in {"down", "idle"} /\ backend[p] = None
    BY DEF Init
  <2> QED
    BY <2>1 DEF Init, PortsFollow, At, None
<1>2. OwnershipInv /\ LaunchesApart /\ PortsFollow /\ ~exited /\ [Next]_vars
         => (PortsFollow /\ ~exited)'
  <2> SUFFICES ASSUME OwnershipInv, LaunchesApart, PortsFollow, ~exited, [Next]_vars
               PROVE  PortsFollow' /\ ~exited'
    OBVIOUS
  <2>1. CASE UNCHANGED vars
    BY <2>1 DEF vars, PortsFollow, At
  <2>2. CASE Next
    <3>1. PortsFollow' BY <2>2, PortsFollowStep
    <3>2. ~TorExits BY DEF TorExits
    <3>3. UNCHANGED exited BY <2>2, <3>2 DEF Next
    <3> QED BY <3>1, <3>3
  <2> QED BY <2>1, <2>2
<1> QED
    BY <1>1, <1>2, OwnershipCorrect, PTL DEF Spec

\* Companions and the tray: the port of an owned backend, which every Ready reply
\* and the runtime file name, is the one its Tor listens on, however many there
\* are, whichever of them are killed, and whatever other programs do.
THEOREM EveryPortIsTors ==
    ASSUME ~TorMayExit
    PROVE  Spec /\ []LaunchesApart => []OwnedPortIsTors
<1>1. PortsFollow => OwnedPortIsTors
    BY DEF PortsFollow, OwnedPortIsTors
<1> QED
    BY <1>1, PortsFollowCorrect, PTL

\* A pair of ports is the well-known one, or has nothing of it.
IsWhole(ports) ==
    \/ ports.socks = DEFAULT_SOCKS_PORT /\ ports.control = DEFAULT_CONTROL_PORT
    \/ {ports.socks, ports.control} \cap {DEFAULT_SOCKS_PORT, DEFAULT_CONTROL_PORT} = {}

\* As long as no other program takes either port of the well-known pair, whoever
\* answers on one of them answers on both; and what the tray has published is
\* what it holds.
PairsAreWhole ==
    /\ tor.running => IsWhole(tor)
    /\ \A p \in Processes : pc[p] \in {"torrc", "spawn"} => IsWhole(pair[p])
    /\ Published => runtime = backend[Tray].socks
    /\ backend[Tray].kind = "reused" => backend[Tray].socks = DEFAULT_SOCKS_PORT

\* pick_port finds both ports of the well-known pair free, or neither.
LEMMA PicksAreWhole ==
    ASSUME Ranges, PairsAreWhole,
           TakenPorts \cap {DEFAULT_SOCKS_PORT, DEFAULT_CONTROL_PORT} = {},
           NEW socks \in Picks(DEFAULT_SOCKS_PORT), NEW control \in Picks(DEFAULT_CONTROL_PORT)
    PROVE  IsWhole([socks |-> socks, control |-> control])
<1>1. taken \cap {DEFAULT_SOCKS_PORT, DEFAULT_CONTROL_PORT} = {}
    BY DEF Ranges
<1>2. DEFAULT_SOCKS_PORT \in Listening <=> DEFAULT_CONTROL_PORT \in Listening
    BY <1>1, BackendsAssumption DEF PairsAreWhole, IsWhole, Listening, SystemPorts, TorPorts
<1>3. CASE DEFAULT_SOCKS_PORT \notin Listening
  <2>1. socks = DEFAULT_SOCKS_PORT /\ control = DEFAULT_CONTROL_PORT
    BY <1>2, <1>3 DEF Picks
  <2> QED BY <2>1 DEF IsWhole
<1>4. CASE DEFAULT_SOCKS_PORT \in Listening
  <2>1. socks \notin Listening /\ control \notin Listening
    BY <1>2, <1>4 DEF Picks
  <2> QED BY <1>2, <1>4, <2>1 DEF IsWhole
<1> QED BY <1>3, <1>4

\* Every step keeps pairs whole: an allocation because of what it finds, a launch
\* because the torrc is that of the one who launches.
LEMMA PairsStep ==
    ASSUME OwnershipInv, Ranges, ~TorMayExit, PortsFollow, PairsAreWhole, Next,
           TakenPorts \cap {DEFAULT_SOCKS_PORT, DEFAULT_CONTROL_PORT} = {}
    PROVE  PairsAreWhole'
<1>0. /\ Tray \in Processes /\ Companions \subseteq Processes /\ Tray \notin Companions
      /\ pc \in [Processes -> Steps] /\ backend \in [Processes -> Holdings]
      /\ pair \in [Processes -> Pairs] /\ None.kind = "none"
      /\ \A port : Owned(port).kind = "owned" /\ Owned(port).socks = port
      /\ \A port : Reused(port).kind = "reused" /\ Reused(port).socks = port
      /\ ~NoTor.running
    BY BackendsAssumption DEF Processes, OwnershipInv, Shape, None, Owned, Reused, NoTor
<1>01. /\ tor.running => IsWhole(tor)
       /\ \A p \in Processes : pc[p] \in {"torrc", "spawn"} => IsWhole(pair[p])
       /\ pc[Tray] \in {"icon", "idle"} => runtime = backend[Tray].socks
       /\ backend[Tray].kind = "reused" => backend[Tray].socks = DEFAULT_SOCKS_PORT
    BY DEF PairsAreWhole, Published, At
\* A Tor that goes on, or ends, and a process that does not begin to launch.
<1>1. ASSUME tor'.running => tor.running /\ tor'.socks = tor.socks /\ tor'.control = tor.control,
             UNCHANGED pair,
             \A q \in Processes : pc'[q] \in {"torrc", "spawn"} => pc[q] \in {"torrc", "spawn"},
             pc'[Tray] \in {"icon", "idle"} => runtime' = backend'[Tray].socks,
             backend'[Tray].kind = "reused" => backend'[Tray].socks = DEFAULT_SOCKS_PORT
      PROVE  PairsAreWhole'
  <2>1. tor'.running => IsWhole(tor)' BY <1>01, <1>1 DEF IsWhole
  <2>2. \A p \in Processes : pc'[p] \in {"torrc", "spawn"} => IsWhole(pair'[p])
    BY <1>01, <1>1
  <2> QED BY <1>1, <2>1, <2>2 DEF PairsAreWhole, Published, At
\* A companion's own step.
<1>2. ASSUME NEW c \in Companions, NEW step \in Steps \ {"torrc", "spawn"},
             pc' = pc \/ pc' = [pc EXCEPT ![c] = step],
             backend' = backend \/ \E b : backend' = [backend EXCEPT ![c] = b],
             UNCHANGED <<pair, runtime>>,
             tor'.running => tor.running /\ tor'.socks = tor.socks /\ tor'.control = tor.control
      PROVE  PairsAreWhole'
  <2>1. pc'[Tray] = pc[Tray] /\ backend'[Tray] = backend[Tray] BY <1>0, <1>2
  <2>2. \A q \in Processes : pc'[q] \in {"torrc", "spawn"} => pc[q] \in {"torrc", "spawn"}
    BY <1>0, <1>2
  <2> QED BY <1>01, <1>1, <1>2, <2>1, <2>2
<1>3. ASSUME NEW c \in Companions, Companion(c) PROVE PairsAreWhole'
  <2>1. /\ UNCHANGED <<pair, runtime>> /\ tor' \in {tor, NoTor}
        /\ \/ pc' = pc
           \/ \E step \in {"runtime", "idle", "probe"} : pc' = [pc EXCEPT ![c] = step]
        /\ backend' = backend \/ \E b : backend' = [backend EXCEPT ![c] = b]
    BY <1>0, <1>3 DEF Companion, Start, ReadRuntime, Stop, Release, Settle, Goto
  <2> QED BY <1>0, <1>2, <2>1 DEF Steps
<1>4. ASSUME NEW p \in Processes, Search(p) PROVE PairsAreWhole'
  <2>1. CASE Probe(p)
    <3>1. /\ UNCHANGED <<pair, runtime, tor>>
          /\ \A q \in Processes \ {p} : pc'[q] = pc[q] /\ backend'[q] = backend[q]
          /\ pc'[p] \in {"publish", "idle", "allocate"}
          /\ p = Tray => pc'[p] \in {"publish", "allocate"}
          /\ backend'[p] \in {backend[p], Reused(DEFAULT_SOCKS_PORT)}
      BY <1>0, <2>1 DEF Probe, Settle, Goto
    <3> QED BY <1>0, <1>01, <1>1, <3>1
  <2>2. CASE Allocate(p) /\ UNCHANGED pair
    <3>1. /\ UNCHANGED <<runtime, tor, backend>>
          /\ \A q \in Processes \ {p} : pc'[q] = pc[q]
          /\ p = Tray => pc'[p] \in {"torrc", "down"}
      BY <1>0, <2>2 DEF Allocate, GiveUp, Goto
    <3>2. pc'[p] = "torrc" => IsWhole(pair'[p])
      <4>1. ASSUME NEW socks \in Picks(DEFAULT_SOCKS_PORT),
                   NEW control \in Picks(DEFAULT_CONTROL_PORT),
                   pair' = [pair EXCEPT ![p] = [socks |-> socks, control |-> control]]
            PROVE  IsWhole(pair'[p])
        <5>1. pair'[p] = [socks |-> socks, control |-> control] BY <1>0, <4>1
        <5> QED BY <5>1, PicksAreWhole
      <4>2. GiveUp(p) => pc'[p] # "torrc" BY <1>0 DEF GiveUp, Goto
      <4> QED BY <2>2, <4>1, <4>2 DEF Allocate
    <3>3. pc'[p] \in {"torrc", "idle", "down"} BY <1>0, <2>2 DEF Allocate, GiveUp, Goto
    <3> QED BY <1>0, <1>01, <2>2, <3>1, <3>2, <3>3 DEF PairsAreWhole, Published, At
  <2>3. CASE Allocate(p) /\ ~UNCHANGED pair
    <3>1. PICK socks \in Picks(DEFAULT_SOCKS_PORT), control \in Picks(DEFAULT_CONTROL_PORT) :
             pair' = [pair EXCEPT ![p] = [socks |-> socks, control |-> control]]
      BY <2>3 DEF Allocate
    <3>2. /\ UNCHANGED <<runtime, tor, backend>> /\ pc' = [pc EXCEPT ![p] = "torrc"]
      BY <2>3 DEF Allocate, Goto
    <3>3. /\ \A q \in Processes \ {p} : pc'[q] = pc[q] /\ pair'[q] = pair[q]
          /\ pc'[p] = "torrc" /\ pair'[p] = [socks |-> socks, control |-> control]
      BY <1>0, <3>1, <3>2
    <3>4. IsWhole(pair'[p]) BY <3>3, PicksAreWhole
    <3> QED BY <1>0, <1>01, <3>2, <3>3, <3>4 DEF PairsAreWhole, Published, At
  <2>4. CASE WriteTorrc(p)
    <3>1. /\ UNCHANGED <<pair, runtime, tor, backend>> /\ pc[p] = "torrc" /\ pc'[p] = "spawn"
          /\ \A q \in Processes \ {p} : pc'[q] = pc[q]
      BY <1>0, <2>4 DEF WriteTorrc, Goto, At
    <3> QED BY <1>0, <1>01, <1>1, <3>1
  <2>5. CASE Spawn(p)
    <3>1. /\ UNCHANGED <<pair, runtime, backend>> /\ pc[p] = "spawn"
          /\ \A q \in Processes \ {p} : pc'[q] = pc[q]
          /\ pc'[p] \in {"idle", "down", "bootstrap"}
          /\ p = Tray => pc'[p] \in {"down", "bootstrap"}
          /\ tor' \in {tor, Running(torrc, p)}
      BY <1>0, <2>5 DEF Spawn, GiveUp, Goto, At
    <3>2. CASE UNCHANGED tor BY <1>0, <1>01, <1>1, <3>1, <3>2
    <3>3. CASE tor' = Running(torrc, p)
      <4>1. torrc = pair[p] /\ IsWhole(pair[p]) BY <1>01, <3>1 DEF PortsFollow, At
      <4>2. tor'.socks = torrc.socks /\ tor'.control = torrc.control BY <3>3 DEF Running
      <4>3. IsWhole(tor)' BY <4>1, <4>2 DEF IsWhole
      <4> QED BY <1>0, <1>01, <3>1, <4>3 DEF PairsAreWhole, Published, At
    <3> QED BY <3>1, <3>2, <3>3
  <2>6. CASE Bootstrap(p)
    <3>1. /\ UNCHANGED <<pair, runtime>> /\ tor' \in {tor, NoTor}
          /\ \A q \in Processes \ {p} : pc'[q] = pc[q] /\ backend'[q] = backend[q]
          /\ pc'[p] \in {"publish", "idle", "down"}
          /\ p = Tray => pc'[p] \in {"publish", "down"}
          /\ backend'[p] = backend[p] \/ backend'[p].kind = "owned"
      BY <1>0, <2>6 DEF Bootstrap, Settle, GiveUp, Goto
    <3> QED BY <1>0, <1>01, <1>1, <3>1
  <2> QED BY <1>4, <2>1, <2>2, <2>3, <2>4, <2>5, <2>6 DEF Search
<1>5. ASSUME NEW p \in Processes, Crash(p) PROVE PairsAreWhole'
  <2>1. tor'.running => tor.running /\ tor'.socks = tor.socks /\ tor'.control = tor.control
    BY <1>5 DEF Crash, OwnershipInv, Shape, Tors
  <2>2. /\ \A q \in Processes \ {p} : pc'[q] = pc[q] /\ backend'[q] = backend[q]
        /\ pc'[p] \in {"down", "idle"} /\ (p = Tray => pc'[p] = "down")
        /\ backend'[p].kind = "none" /\ UNCHANGED <<pair, runtime>>
    BY <1>0, <1>5 DEF Crash, Goto
  <2> QED BY <1>0, <1>01, <1>1, <2>1, <2>2
<1>6. CASE TrayNext
  <2>1. /\ UNCHANGED pair /\ tor' \in {tor, NoTor}
        /\ \A q \in Processes \ {Tray} : pc'[q] = pc[q]
    BY <1>0, <1>6 DEF TrayNext, TrayStarts, Publish, ShowIcon, TrayQuits, Release, Goto
  <2>2. CASE TrayStarts BY <1>0, <1>01, <1>1, <2>1, <2>2 DEF TrayStarts, Goto
  <2>3. CASE Publish BY <1>0, <1>01, <1>1, <2>1, <2>3 DEF Publish, Goto
  <2>4. CASE ShowIcon
    <3>1. CASE Goto(Tray, "idle") /\ UNCHANGED <<backend, tor>>
      BY <1>0, <1>01, <1>1, <2>1, <2>4, <3>1 DEF ShowIcon, Goto, At
    <3>2. CASE Goto(Tray, "down") /\ Release(Tray)
      BY <1>0, <1>01, <1>1, <2>1, <2>4, <3>2 DEF ShowIcon, Goto, Release
    <3> QED BY <2>4, <3>1, <3>2 DEF ShowIcon
  <2>5. CASE TrayQuits BY <1>0, <1>01, <1>1, <2>1, <2>5 DEF TrayQuits, Goto, Release
  <2> QED BY <1>6, <2>2, <2>3, <2>4, <2>5 DEF TrayNext
<1>7. CASE OthersListen
    BY <1>01, <1>1, <1>7 DEF OthersListen
<1>8. ~TorExits
    BY DEF TorExits
<1> QED BY <1>3, <1>4, <1>5, <1>6, <1>7, <1>8 DEF Next


\* What holds when launches are apart and nobody else takes the well-known pair.
LEMMA PairsCorrect ==
    ASSUME ~TorMayExit, TakenPorts \cap {DEFAULT_SOCKS_PORT, DEFAULT_CONTROL_PORT} = {}
    PROVE  Spec /\ []LaunchesApart => []PairsAreWhole
<1>1. Init => PairsAreWhole
  <2> SUFFICES ASSUME Init PROVE PairsAreWhole
    OBVIOUS
  <2>1. /\ \A p \in Processes : pc[p] \in {"down", "idle"} /\ backend[p] = None
        /\ Tray \in Processes /\ pc[Tray] = "down" /\ ~tor.running
    BY DEF Init, Processes, NoTor
  <2> QED
    BY <2>1 DEF PairsAreWhole, Published, At, None
<1>2. OwnershipInv /\ Ranges /\ PortsFollow /\ PairsAreWhole /\ [Next]_vars => PairsAreWhole'
  <2> SUFFICES ASSUME OwnershipInv, Ranges, PortsFollow, PairsAreWhole, [Next]_vars
               PROVE  PairsAreWhole'
    OBVIOUS
  <2>1. CASE UNCHANGED vars
    BY <2>1 DEF vars, PairsAreWhole, IsWhole, Published, At
  <2>2. CASE Next
    BY <2>2, PairsStep
  <2> QED BY <2>1, <2>2
<1> QED
    BY <1>1, <1>2, OwnershipCorrect, RangesCorrect, PortsFollowCorrect, PTL DEF Spec

\* A backend that a process comes to hold names a Tor that serves its port: a
\* launched one by PortsFollow, a found one because the pair it was found on is
\* whole, the tray's because what is published is what the tray holds.
LEMMA FoundIsServed ==
    ASSUME OwnershipInv, Ranges, ~TorMayExit, ~PidReuse, ~exited,
           PortsFollow, PairsAreWhole, Next,
           TakenPorts \cap {DEFAULT_SOCKS_PORT, DEFAULT_CONTROL_PORT} = {},
           NEW p \in Processes, backend'[p] # backend[p], backend'[p] # None
    PROVE  ServedByTor(backend[p].socks)'
<1>0. /\ Tray \in Processes /\ Companions \subseteq Processes /\ Tray \notin Companions
      /\ backend \in [Processes -> Holdings]
      /\ \A port : Owned(port).socks = port
      /\ \A port : Reused(port).kind = "reused" /\ Reused(port).socks = port
    BY BackendsAssumption DEF Processes, OwnershipInv, Shape, Owned, Reused
<1>1. ASSUME UNCHANGED tor, NEW port, backend'[p].socks = port, ServedByTor(port)
      PROVE  ServedByTor(backend[p].socks)'
    BY <1>1 DEF ServedByTor
\* Nothing else makes anybody hold anything.
<1>2. ASSUME NEW q \in Processes, backend' = backend \/ backend' = [backend EXCEPT ![q] = None]
      PROVE  FALSE
    BY <1>0, <1>2
<1>3. ASSUME NEW c \in Companions, Companion(c) PROVE ServedByTor(backend[p].socks)'
  <2>1. c \in Processes BY <1>0
  <2>2. ~Start(c) BY <1>2, <2>1 DEF Start
  <2>3. ~Stop(c) BY <1>2, <2>1 DEF Stop, Release
  <2>4. ReadRuntime(c) BY <1>3, <2>2, <2>3 DEF Companion
  <2>5. /\ runtime \in Listening /\ Published /\ UNCHANGED tor
        /\ backend' = [backend EXCEPT ![c] = Reused(runtime)]
    BY <1>2, <2>1, <2>4 DEF ReadRuntime, Settle
  <2>6. p = c /\ backend'[p].socks = runtime BY <1>0, <2>1, <2>5
  <2>7. runtime = backend[Tray].socks BY <2>5 DEF PairsAreWhole
  <2>8. ServedByTor(runtime)
    <3>1. taken \cap {DEFAULT_SOCKS_PORT, DEFAULT_CONTROL_PORT} = {} BY DEF Ranges
    <3>2. \E port \in Ports : backend[Tray] \in {None, Owned(port), Reused(port)}
      BY <1>0, BackendsAssumption DEF Ranges, Backends
    <3>3. CASE backend[Tray].kind = "owned"
      BY <1>0, <2>7, <3>3 DEF OwnershipInv, OwnerIsParent, OwnTorRuns, PortsFollow, ServedByTor
    <3>4. CASE backend[Tray].kind = "reused"
      <4>1. DEFAULT_SOCKS_PORT \in Listening /\ runtime = DEFAULT_SOCKS_PORT
        BY <2>5, <2>7, <3>4 DEF PairsAreWhole
      <4>2. CASE SystemTor BY <4>1, <4>2 DEF ServedByTor
      <4>3. CASE ~SystemTor
        <5>1. tor.running /\ DEFAULT_SOCKS_PORT \in {tor.socks, tor.control}
          BY <3>1, <4>1, <4>3 DEF Listening, SystemPorts, TorPorts
        <5>2. tor.socks = DEFAULT_SOCKS_PORT
          BY <5>1, BackendsAssumption DEF PairsAreWhole, IsWhole
        <5> QED BY <4>1, <5>1, <5>2 DEF ServedByTor
      <4> QED BY <4>2, <4>3
    <3>5. CASE backend[Tray] = None
      <4>1. runtime = NoPort /\ NoPort \notin Ports
        BY <2>7, <3>5, BackendsAssumption DEF None
      <4>2. Listening \subseteq Ports
        <5>1. tor.running => tor \in TorsThatRun BY TorsParts DEF Ranges
        <5>2. TorPorts \subseteq Ports BY <5>1, TorsParts DEF TorPorts, TorsThatRun
        <5> QED BY <5>2, BackendsAssumption DEF Listening, SystemPorts, Ranges
      <4> QED BY <2>5, <4>1, <4>2
    <3> QED BY <3>2, <3>3, <3>4, <3>5 DEF Owned, Reused
  <2> QED BY <1>1, <2>5, <2>6, <2>8
<1>4. ASSUME NEW q \in Processes, Search(q) PROVE ServedByTor(backend[p].socks)'
  <2>1. ~Allocate(q) BY <1>2 DEF Allocate, GiveUp
  <2>2. ~WriteTorrc(q) BY <1>2 DEF WriteTorrc
  <2>3. ~Spawn(q) BY <1>2 DEF Spawn, GiveUp
  <2>4. CASE Probe(q)
    <3>1. /\ backend' = [backend EXCEPT ![q] = Reused(DEFAULT_SOCKS_PORT)] /\ UNCHANGED tor
          /\ SystemTor \/ (tor.running /\ tor.control = DEFAULT_CONTROL_PORT)
      BY <1>2, <2>4 DEF Probe, Settle
    <3>2. p = q /\ backend'[p].socks = DEFAULT_SOCKS_PORT BY <1>0, <3>1
    <3>3. ServedByTor(DEFAULT_SOCKS_PORT)
      BY <3>1, BackendsAssumption DEF ServedByTor, PairsAreWhole, IsWhole
    <3> QED BY <1>1, <3>1, <3>2, <3>3
  <2>5. CASE Bootstrap(q)
    <3>1. /\ backend' = [backend EXCEPT ![q] = Owned(pair[q].socks)] /\ UNCHANGED tor
          /\ OwnTorRuns(q) /\ tor.socks = pair[q].socks
      BY <1>2, <2>5 DEF Bootstrap, Settle, GiveUp, PortsFollow
    <3>2. p = q /\ backend'[p].socks = tor.socks BY <1>0, <3>1
    <3> QED BY <1>1, <3>1, <3>2 DEF OwnTorRuns, ServedByTor
  <2> QED BY <1>4, <2>1, <2>2, <2>3, <2>4, <2>5 DEF Search
<1>5. ASSUME NEW q \in Processes, Crash(q) PROVE FALSE
    BY <1>2, <1>5 DEF Crash
<1>6. ~TrayNext
    BY <1>0, <1>2 DEF TrayNext, TrayStarts, Publish, ShowIcon, TrayQuits, Release
<1>7. ~OthersListen
    BY <1>0, <1>2 DEF OthersListen
<1>8. ~TorExits
    BY DEF TorExits
<1> QED BY <1>3, <1>4, <1>5, <1>6, <1>7, <1>8 DEF Next

\* Companions and the tray, with launches apart, no Tor that ends on its own, no
\* pid that is taken for a dead tray's and nobody else on the well-known pair: the
\* port of a Ready reply, or of the tray's icon, is the SOCKS port of a Tor at the
\* moment the search ends.
THEOREM EveryReadyIsTrue ==
    ASSUME ~TorMayExit, ~PidReuse,
           TakenPorts \cap {DEFAULT_SOCKS_PORT, DEFAULT_CONTROL_PORT} = {}
    PROVE  Spec /\ []LaunchesApart => ReadyNamesATor
<1> DEFINE Named == \A p \in Processes :
                       backend'[p] # backend[p] /\ backend'[p] # None
                           => ServedByTor(backend[p].socks)'
<1>1. OwnershipInv /\ Ranges /\ PortsFollow /\ ~exited /\ PairsAreWhole /\ Next => Named
    BY FoundIsServed
<1>2. Spec /\ []LaunchesApart => [][Named]_vars
    BY <1>1, OwnershipCorrect, RangesCorrect, PortsFollowCorrect, PairsCorrect, PTL DEF Spec
<1> QED
    BY <1>2 DEF ReadyNamesATor
=============================================================================
