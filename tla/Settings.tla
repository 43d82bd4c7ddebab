------------------------------ MODULE Settings ------------------------------
(***************************************************************************)
(* The settings of the extension and what depends on them: storage.local,  *)
(* the copy the background page keeps in `state`, the edits of the popup,  *)
(* the WebRTC switch, and the routing of each request.  The page is an     *)
(* event page: Firefox starts it on an event and suspends it when idle, so *)
(* its copy is the defaults until loadSettings has been answered.          *)
(***************************************************************************)
EXTENDS Routing, FiniteSets

CONSTANTS
    Hosts,       \* host names the browser asks for
    Domains,     \* whitelist entries the user may add (normalized)
    MaxEdits,    \* bound on storage calls and events outstanding at an edit
    EarlyEdits   \* whether an edit may come before loadSettings is answered

ASSUME SettingsAssumption ==
    /\ MaxEdits \in Nat
    /\ EarlyEdits \in BOOLEAN

VARIABLES
    stored,      \* what storage.local holds (an absent key is its default)
    ops,         \* storage calls issued by the page, in order
    notices,     \* answers and onChanged events on their way to the page
    page,        \* "off", "loading" (before loadSettings is answered),
                 \* "booting" (before the boot code applies WebRTC), "up"
    memory,      \* mode, whitelist and webrtcDisabled of `state`
    webrtcOff,   \* Firefox's peerConnectionEnabled is forced to false
    decision,    \* the last routing decision
    wanted       \* ghost: the whitelist the user has asked for, edit by edit

vars == <<stored, ops, notices, page, memory, webrtcOff, decision, wanted>>

DEFAULT_SETTINGS == [mode |-> "onion", whitelist |-> {}, webrtcDisabled |-> FALSE]

SettingsRecord ==
    [mode : Modes, whitelist : SUBSET Domains, webrtcDisabled : BOOLEAN]

Change ==
    [key : {"mode"}, value : Modes] \cup
    [key : {"whitelist"}, value : SUBSET Domains] \cup
    [key : {"webrtcDisabled"}, value : BOOLEAN]

Via(host, settings) ==
    IF shouldUseTor(host, settings.mode, settings.whitelist) THEN "tor" ELSE "direct"

NoDecision ==
    [host |-> <<>>, via |-> "tor", intended |-> "tor",
     loaded |-> FALSE, edited |-> FALSE]

Init ==
    /\ stored = DEFAULT_SETTINGS
    /\ ops = <<>>
    /\ notices = <<>>
    /\ page = "off"
    /\ memory = DEFAULT_SETTINGS
    /\ webrtcOff = FALSE
    /\ decision = NoDecision
    /\ wanted = {}

---------------------------------------------------------------------------
Get == [op |-> "get"]
Set(key, value) == [op |-> "set", change |-> [key |-> key, value |-> value]]
Loaded(settings) == [kind |-> "loaded", settings |-> settings]
\* Mutant: onChanged takes over oldValue.
ChangedToOldValue(change) ==
    [kind |-> "changed", change |-> [change EXCEPT !.value = stored[change.key]]]

Changed(change) == [kind |-> "changed", change |-> change]

Quiet == ops = <<>> /\ notices = <<>>

\* loadSettings has been answered.
HasLoaded == page \in {"booting", "up"}

\* An edit has not reached the page's copy yet.
EditOnItsWay ==
    \/ \E i \in DOMAIN ops : ops[i].op = "set"
    \/ \E i \in DOMAIN notices : notices[i].kind = "changed"

\* Any event starts the page: its globals are the defaults, and the boot code
\* asks storage for the settings.
Wake ==
    /\ page = "off"
    /\ page' = "loading"
    /\ memory' = DEFAULT_SETTINGS
    /\ ops' = Append(ops, Get)
    /\ UNCHANGED <<stored, notices, webrtcOff, decision, wanted>>

Suspend ==
    /\ page = "up"
    /\ Quiet
    /\ page' = "off"
    /\ UNCHANGED <<stored, ops, notices, memory, webrtcOff, decision, wanted>>

\* storage.local serves the calls in order; a set also raises onChanged.
StorageStep ==
    /\ ops # <<>>
    /\ ops' = Tail(ops)
    /\ \/ /\ Head(ops).op = "get"
          /\ notices' = Append(notices, Loaded(stored))
          /\ UNCHANGED stored
       \/ /\ Head(ops).op = "set"
          /\ LET change == Head(ops).change
             IN  /\ stored' = [stored EXCEPT ![change.key] = change.value]
                 /\ notices' = Append(notices, Changed(change))
    /\ UNCHANGED <<page, memory, webrtcOff, decision, wanted>>

\* Mutant: WebRTC is set before the page has taken the change in.
applyWebRTCTooEarly == webrtcOff' = (memory.mode = "all" \/ memory.webrtcDisabled)

\* applyWebRTC, on the settings the page has just taken in.
applyWebRTC == webrtcOff' = (memory'.mode = "all" \/ memory'.webrtcDisabled)

\* loadSettings resumes; or onChanged, which may reach a page that is still
\* loading or booting, and applies WebRTC at once.
PageStep ==
    /\ page # "off"
    /\ notices # <<>>
    /\ notices' = Tail(notices)
    /\ \/ /\ Head(notices).kind = "loaded"
          /\ memory' = Head(notices).settings
          /\ page' = "booting"
          /\ UNCHANGED webrtcOff
       \/ /\ Head(notices).kind = "changed"
          /\ memory' = [memory EXCEPT
                          ![Head(notices).change.key] = Head(notices).change.value]
          /\ applyWebRTC
          /\ UNCHANGED page
    /\ UNCHANGED <<stored, ops, decision, wanted>>

\* The boot code waits for authIndexReady after loadSettings, and then applies
\* WebRTC, on whatever the copy holds by now.
BootEnds ==
    /\ page = "booting"
    /\ page' = "up"
    /\ UNCHANGED <<stored, ops, notices, memory, decision, wanted>>
    /\ applyWebRTC

---------------------------------------------------------------------------
\* saveSetting, from a popup message; the page is running when it gets one.
Save(key, value) ==
    /\ HasLoaded \/ (page = "loading" /\ EarlyEdits)
    /\ Len(ops) + Len(notices) < MaxEdits
    /\ ops' = Append(ops, Set(key, value))
    /\ UNCHANGED <<stored, notices, page, memory, webrtcOff, decision>>

SetMode(mode) == Save("mode", mode) /\ UNCHANGED wanted

SetWebRTC(off) == Save("webrtcDisabled", off) /\ UNCHANGED wanted

\* Mutant: the list is replaced by the new entry.
addToWhitelistAlone(domain) ==
    /\ Save("whitelist", {domain})
    /\ wanted' = wanted \cup {domain}

\* Both edits start from the page's copy, which only onChanged brings up to date.
addToWhitelist(domain) ==
    /\ Save("whitelist", memory.whitelist \cup {domain})
    /\ wanted' = wanted \cup {domain}

\* The popup offers to remove only what it lists.
removeFromWhitelist(domain) ==
    /\ domain \in memory.whitelist
    /\ Save("whitelist", memory.whitelist \ {domain})
    /\ wanted' = wanted \ {domain}

\* handleProxyRequest: the decision is taken on the page's copy, at once.
Route(host) ==
    /\ page # "off"
    /\ decision' = [host |-> host,
                    via |-> Via(host, memory),
                    intended |-> Via(host, stored),
                    loaded |-> HasLoaded,
                    edited |-> EditOnItsWay]
    /\ UNCHANGED <<stored, ops, notices, page, memory, webrtcOff, wanted>>

Next ==
    \/ Wake
    \/ Suspend
    \/ StorageStep
    \/ PageStep
    \/ BootEnds
    \/ \E mode \in Modes : SetMode(mode)
    \/ \E off \in BOOLEAN : SetWebRTC(off)
    \/ \E domain \in Domains : addToWhitelist(domain) \/ removeFromWhitelist(domain)
    \/ \E host \in Hosts : Route(host)

Spec == Init /\ [][Next]_vars

\* Storage answers, and Firefox runs the page for the events it owes it.
FairSpec ==
    /\ Spec
    /\ WF_vars(StorageStep)
    /\ WF_vars(PageStep)
    /\ WF_vars(BootEnds)
    /\ WF_vars(Wake /\ notices # <<>>)

---------------------------------------------------------------------------
TypeOK ==
    /\ stored \in SettingsRecord
    /\ \A i \in DOMAIN ops : ops[i] = Get \/ ops[i].change \in Change
    /\ \A i \in DOMAIN notices :
          \/ notices[i].kind = "loaded" /\ notices[i].settings \in SettingsRecord
          \/ notices[i].kind = "changed" /\ notices[i].change \in Change
    /\ page \in {"off", "loading", "booting", "up"}
    /\ memory \in SettingsRecord
    /\ webrtcOff \in BOOLEAN
    /\ wanted \subseteq Domains

\* What an onion address is, told by its labels: .onion is the top level domain,
\* whether the root label is written or not.
NamesOnionService(host) ==
    \E root \in {<<>>, <<"">>} :
        /\ Len(host) > 1 + Len(root)
        /\ IsSuffix(<<"onion">> \o root, host)

\* Outside the loading window and with no edit on its way, a request goes where
\* the stored settings send it; an onion address never goes direct, not even
\* while the page still runs on the defaults.
RoutedAsStored ==
    /\ decision.loaded /\ ~decision.edited => decision.via = decision.intended
    /\ NamesOnionService(decision.host) => decision.via = "tor"

\* When no edit is on its way, WebRTC is off exactly when the stored settings
\* ask for it, whether the page runs or is suspended, and whichever of boot code
\* and onChanged applied it last.
WebRTCAsStored ==
    Quiet /\ page # "booting" => (webrtcOff <=> stored.mode = "all" \/ stored.webrtcDisabled)

\* No edit of the whitelist undoes another one.
EditsAccumulate == Quiet => stored.whitelist = wanted

\* Mode "all" sends everything to Tor: no request goes direct that the stored
\* settings, with no edit on its way, send to Tor.
AllMeansAll ==
    ~decision.edited /\ decision.via = "direct" => decision.intended = "direct"

\* An edit of the mode reaches the running page, unless another one follows.
ModeTakesEffect ==
    \A mode \in Modes :
        stored.mode = mode ~>
            stored.mode # mode \/ (memory.mode = mode /\ page = "up") \/ page = "off"
=============================================================================
