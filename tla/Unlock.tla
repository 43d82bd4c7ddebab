------------------------------- MODULE Unlock -------------------------------
(***************************************************************************)
(* The unlock interceptor of background.js with the pages around it: a     *)
(* navigation to an onion service whose key is in the passphrase vault is  *)
(* sent to unlock.html while the vault is locked, and from there back.     *)
(* The decision is taken from a cache of the companion's index, filled by  *)
(* auth-list and kept in storage.local for the next event page.  Here the  *)
(* companion's handlers are atomic (ClientAuth has their file steps), and  *)
(* only passphrase entries matter.                                         *)
(***************************************************************************)
EXTENDS Naturals, Sequences, FiniteSets

CONSTANTS
    Onions,        \* onion addresses
    Tabs,          \* tabs that navigate to them
    Ids,           \* request ids; one is reused once nothing carries it
    MaxInFlight,   \* bound on messages in the pipes when somebody acts
    MaxEvents,     \* bound on commands of the management page and on crashes
    TimingOut,     \* requests whose timer may fire before their answer
    SlowStorage    \* whether the companion may answer before storage.local does

Mutations == {"auth-set-passphrase", "auth-unlock", "auth-lock", "auth-add", "auth-remove"}
Actions == Mutations \cup {"auth-list", "refresh"}

ASSUME UnlockAssumption ==
    /\ {"none", "manager"} \cap Tabs = {}
    /\ MaxInFlight \in Nat /\ MaxEvents \in Nat
    /\ TimingOut \subseteq Actions /\ SlowStorage \in BOOLEAN

VARIABLES
    index,         \* onions the companion's index lists in the passphrase tier
    vaultExists,   \* whether pp-vault.bin exists
    ppKey,         \* whether the companion holds the vault's key
    process,       \* whether the companion runs
    toCompanion, toExtension,   \* the pipes of the port
    companionPort, \* whether the port is open
    authIndex,     \* the page's copy: entries, unlocked
    stored,        \* storage.local's copy of the entries, if it is there
    read,          \* what loadAuthIndex found there
    load,          \* loadAuthIndex: "off" (no page), "reading", "done"
    pending,       \* pendingRequests: what each id asks, and for whom
    tab,           \* where each tab is
    goal,          \* the onion it wants
    snapshot,      \* protectedEntries, as read before the hash was awaited
    manager,       \* authorized.html: "idle", "waiting" or about to "reload"
    shown,         \* what its last auth-list said: vault, unlocked, addresses
    events,        \* commands of authorized.html and crashes so far
    excused        \* ghost: tabs that have met a moment at which to let through

companionVars == <<index, vaultExists, ppKey>>
linkVars == <<process, toCompanion, toExtension, companionPort>>
cacheVars == <<authIndex, stored, read, load>>
tabVars == <<tab, goal, snapshot>>
managerVars == <<manager, shown, events>>
vars == <<companionVars, linkVars, cacheVars, pending, tabVars, managerVars, excused>>

Askers == Tabs \cup {"manager", "none"}
Listing == [action |-> "auth-list", asker |-> "manager"]
NoRequest == [action |-> "none", asker |-> "none"]
SomeOnion == Onions \cup {"none"}

Request == [id : Ids, action : Actions, onion : SomeOnion, right : BOOLEAN]
Reply == [id : Ids, ok : BOOLEAN, entries : SUBSET Onions, vault : BOOLEAN,
          unlocked : BOOLEAN]
Copy == [there : BOOLEAN, entries : SUBSET Onions]
NoCopy == [there |-> FALSE, entries |-> {}]
Places == {"idle", "arrived", "hashing", "passed", "unlockPage", "unlocking"}

TypeOK ==
    /\ index \subseteq Onions
    /\ vaultExists \in BOOLEAN /\ ppKey \in BOOLEAN
    /\ process \in BOOLEAN /\ companionPort \in BOOLEAN
    /\ toCompanion \in Seq(Request) /\ toExtension \in Seq(Reply)
    /\ authIndex \in [entries : SUBSET Onions, unlocked : BOOLEAN]
    /\ stored \in Copy /\ read \in Copy
    /\ load \in {"off", "reading", "done"}
    /\ pending \in [Ids -> {NoRequest} \cup [action : Actions, asker : Askers]]
    /\ tab \in [Tabs -> Places] /\ goal \in [Tabs -> Onions]
    /\ snapshot \in [Tabs -> SUBSET Onions]
    /\ manager \in {"idle", "waiting", "reload"}
    /\ shown \in [vault : BOOLEAN, unlocked : BOOLEAN, addresses : SUBSET Onions]
    /\ events \in 0..MaxEvents
    /\ excused \subseteq Tabs

DefaultIndex == [entries |-> {}, unlocked |-> FALSE]

Init ==
    /\ index = {} /\ vaultExists = FALSE /\ ppKey = FALSE
    /\ process = FALSE /\ companionPort = FALSE
    /\ toCompanion = <<>> /\ toExtension = <<>>
    /\ authIndex = DefaultIndex
    /\ stored = NoCopy /\ read = NoCopy
    /\ load = "off"
    /\ pending = [i \in Ids |-> NoRequest]
    /\ tab = [t \in Tabs |-> "idle"]
    /\ goal \in [Tabs -> Onions]
    /\ snapshot = [t \in Tabs |-> {}]
    /\ manager = "reload"
    /\ shown = [vault |-> FALSE, unlocked |-> FALSE, addresses |-> {}]
    /\ events = 0
    /\ excused = {}

---------------------------------------------------------------------------
\* The page is about to learn that the vault is locked.
CorrectionOnItsWay ==
    /\ companionPort
    /\ \/ ~process
       \/ \E i \in DOMAIN toExtension :
             ~toExtension[i].unlocked
             /\ pending[toExtension[i].id].action \in {"auth-lock", "refresh"}

\* What an observer of both sides would let through: the onion needs no
\* passphrase, or the vault is open, or the page cannot know better yet (its
\* copy lost an update to a crash, or the correction is on its way).
MayPass(t) ==
    \/ goal[t] \notin index
    \/ ppKey
    \/ stored.entries # index
    \/ CorrectionOnItsWay

\* The moment after a step counts for whoever is on the way.
Excuse == excused' = {t \in Tabs : tab'[t] \in {"arrived", "hashing"}
                                   /\ (t \in excused \/ MayPass(t)')}

Carried == {toCompanion[i].id : i \in DOMAIN toCompanion} \cup
           {toExtension[i].id : i \in DOMAIN toExtension}
FreshIds == {i \in Ids : pending[i] = NoRequest} \ Carried
NextId == CHOOSE i \in FreshIds : TRUE

MayAsk == FreshIds # {} /\ Len(toCompanion) + Len(toExtension) < MaxInFlight

\* companionRequestId: opens the port if need be, and posts the request.
Ask(action, onion, right, asker) ==
    /\ MayAsk
    /\ load # "off"
    /\ load = "done" \/ SlowStorage
    /\ companionPort' = TRUE
    /\ process' = (process \/ ~companionPort)
    /\ toCompanion' = Append(toCompanion, [id |-> NextId, action |-> action,
                                           onion |-> onion, right |-> right])
    /\ pending' = [pending EXCEPT ![NextId] = [action |-> action, asker |-> asker]]
    /\ UNCHANGED toExtension

---------------------------------------------------------------------------
\* The event page: its top level starts loadAuthIndex on every wake.
Wake ==
    /\ load = "off"
    /\ load' = "reading"
    /\ read' = stored
    /\ UNCHANGED <<companionVars, linkVars, authIndex, stored, pending, tabVars, managerVars>>

\* loadAuthIndex overwrites whatever the copy is by now.
LoadAuthIndex ==
    /\ load = "reading"
    /\ load' = "done"
    /\ authIndex' = IF read.there THEN [entries |-> read.entries, unlocked |-> FALSE]
                                  ELSE authIndex
    /\ read' = NoCopy
    /\ UNCHANGED <<companionVars, linkVars, stored, pending, tabVars, managerVars>>

\* Suspended when idle: no port, nobody who waits for it.
Suspend ==
    /\ load = "done"
    /\ ~companionPort
    /\ \A t \in Tabs : tab[t] \notin {"arrived", "hashing"}
    /\ load' = "off"
    /\ authIndex' = DefaultIndex
    /\ UNCHANGED <<companionVars, linkVars, stored, read, pending, tabVars, managerVars>>

---------------------------------------------------------------------------
\* onBeforeOnionRequest, up to `await authIndexReady`.
Navigate(t) ==
    /\ tab[t] \in {"idle", "passed"}
    /\ load # "off"
    /\ tab' = [tab EXCEPT ![t] = "arrived"]
    /\ UNCHANGED <<companionVars, linkVars, cacheVars, pending, goal, snapshot, managerVars>>

\* Mutant: the cached index is not awaited.
ReadEntriesUnready(t) ==
    /\ tab[t] = "arrived"
    /\ tab' = [tab EXCEPT ![t] = "hashing"]
    /\ snapshot' = [snapshot EXCEPT ![t] = authIndex.entries]
    /\ UNCHANGED <<companionVars, linkVars, cacheVars, pending, goal, managerVars>>

\* The entries are read before the hash is awaited, ...
ReadEntries(t) ==
    /\ tab[t] = "arrived"
    /\ load = "done"
    /\ tab' = [tab EXCEPT ![t] = "hashing"]
    /\ snapshot' = [snapshot EXCEPT ![t] = authIndex.entries]
    /\ UNCHANGED <<companionVars, linkVars, cacheVars, pending, goal, managerVars>>

\* ... authIndex.unlocked after it.
Decide(t) ==
    /\ tab[t] = "hashing"
    /\ tab' = [tab EXCEPT ![t] =
                 IF authIndex.unlocked \/ goal[t] \notin snapshot[t]
                 THEN "passed" ELSE "unlockPage"]
    /\ UNCHANGED <<companionVars, linkVars, cacheVars, pending, goal, snapshot, managerVars>>

\* unlock.js: submit and cancel.
Submit(t, right) ==
    /\ tab[t] = "unlockPage"
    /\ Ask("auth-unlock", "none", right, t)
    /\ tab' = [tab EXCEPT ![t] = "unlocking"]
    /\ UNCHANGED <<companionVars, cacheVars, goal, snapshot, managerVars>>

Cancel(t) ==
    /\ tab[t] = "unlockPage"
    /\ tab' = [tab EXCEPT ![t] = "idle"]
    /\ UNCHANGED <<companionVars, linkVars, cacheVars, pending, goal, snapshot, managerVars>>

\* authorized.js offers what its last list allows; load() follows a success.
Offered(action, onion) ==
    CASE action = "auth-set-passphrase" -> ~shown.vault
      [] action = "auth-unlock" -> shown.vault /\ ~shown.unlocked
      [] action = "auth-lock" -> shown.unlocked
      [] action = "auth-add" -> shown.vault /\ onion # "none"
      [] action = "auth-remove" -> onion \in shown.addresses

Manage(action, onion) ==
    /\ manager = "idle"
    /\ events < MaxEvents
    /\ Offered(action, onion)
    /\ Ask(action, onion, TRUE, "manager")
    /\ manager' = "waiting"
    /\ events' = events + 1
    /\ UNCHANGED <<companionVars, cacheVars, tabVars, shown>>

Reload ==
    /\ manager = "reload"
    /\ Ask("auth-list", "none", TRUE, "manager")
    /\ manager' = "waiting"
    /\ UNCHANGED <<companionVars, cacheVars, tabVars, shown, events>>

\* A Ready message of the companion: refreshAuthIndex, for nobody in particular.
OnReady ==
    /\ companionPort
    /\ Ask("refresh", "none", TRUE, "none")
    /\ UNCHANGED <<companionVars, cacheVars, tabVars, managerVars>>

---------------------------------------------------------------------------
\* The companion: which commands it grants, and what they change.
Granted(r) ==
    CASE r.action = "auth-set-passphrase" -> ~vaultExists
      [] r.action = "auth-unlock" -> vaultExists /\ r.right
      [] r.action = "auth-add" -> ppKey
      [] r.action = "auth-remove" -> ppKey \/ r.onion \notin index
      [] OTHER -> TRUE

Carry(r) ==
    /\ vaultExists' = (vaultExists \/ r.action = "auth-set-passphrase")
    /\ ppKey' = CASE r.action \in {"auth-set-passphrase", "auth-unlock"} -> TRUE
                  [] r.action = "auth-lock" -> FALSE
                  [] OTHER -> ppKey
    /\ index' = CASE r.action = "auth-add" -> index \cup {r.onion}
                  [] r.action = "auth-remove" -> index \ {r.onion}
                  [] OTHER -> index

\* "refresh" is the background's own auth-list.
Handle ==
    /\ process
    /\ toCompanion # <<>>
    /\ LET r == Head(toCompanion)
       IN  /\ IF Granted(r) THEN Carry(r) ELSE UNCHANGED companionVars
           /\ toExtension' = Append(toExtension,
                 [id |-> r.id, ok |-> Granted(r), entries |-> index',
                  vault |-> vaultExists', unlocked |-> ppKey'])
    /\ toCompanion' = Tail(toCompanion)
    /\ UNCHANGED <<process, companionPort, cacheVars, pending, tabVars, managerVars>>

\* The companion ends, before, between or after the effects of its handler.
Crash ==
    /\ process
    /\ events < MaxEvents
    /\ events' = events + 1
    /\ process' = FALSE
    /\ ppKey' = FALSE
    /\ \/ UNCHANGED <<index, vaultExists>>
       \/ /\ toCompanion # <<>>
          /\ LET r == Head(toCompanion)
             IN  /\ r.action \in {"auth-add", "auth-remove"} /\ Granted(r)
                 /\ index' = IF r.action = "auth-add" THEN index \cup {r.onion}
                                                      ELSE index \ {r.onion}
          /\ UNCHANGED vaultExists
    /\ UNCHANGED <<toCompanion, toExtension, companionPort, cacheVars, pending, tabVars,
                   manager, shown>>

---------------------------------------------------------------------------
\* handleAuth returns to whoever asked: a tab goes back to the address it came
\* from or shows an error; the management page loads its list, again when that
\* is what failed (the user reloads it).
Return(askers, ok) ==
    /\ tab' = [t \in Tabs |-> IF t \notin askers THEN tab[t]
                              ELSE IF ok THEN "arrived" ELSE "unlockPage"]
    /\ manager' = IF "manager" \notin askers THEN manager
                  ELSE IF ok \/ \E i \in Ids : pending[i] = Listing THEN "reload"
                  ELSE "idle"
    /\ UNCHANGED <<goal, snapshot>>

\* Mutant: an added or removed entry does not refresh the cache.
MutationDoneNoRefresh(id, reply) ==
    /\ pending[id].action \in Mutations
    /\ pending' = [pending EXCEPT ![id] = NoRequest]
    /\ Return({pending[id].asker}, reply.ok)
    /\ authIndex' = [authIndex EXCEPT !.unlocked =
          CASE reply.ok /\ pending[id].action \in {"auth-set-passphrase", "auth-unlock"} -> TRUE
            [] reply.ok /\ pending[id].action = "auth-lock" -> FALSE
            [] OTHER -> @]
    /\ UNCHANGED <<toCompanion, stored, shown>>

\* A mutation is followed by refreshAuthIndex, for the same asker.
MutationDone(id, reply) ==
    /\ pending[id].action \in Mutations
    /\ \/ /\ ~reply.ok
          /\ pending' = [pending EXCEPT ![id] = NoRequest]
          /\ Return({pending[id].asker}, FALSE)
          /\ UNCHANGED <<toCompanion, authIndex>>
       \/ /\ reply.ok
          /\ authIndex' = [authIndex EXCEPT !.unlocked =
                CASE pending[id].action \in {"auth-set-passphrase", "auth-unlock"} -> TRUE
                  [] pending[id].action = "auth-lock" -> FALSE
                  [] OTHER -> @]
          /\ pending' = [pending EXCEPT ![id].action = "refresh"]
          /\ toCompanion' = Append(toCompanion,
                [id |-> id, action |-> "refresh", onion |-> "none", right |-> TRUE])
          /\ UNCHANGED <<tabVars, manager>>
    /\ UNCHANGED <<stored, shown>>

\* refreshAuthIndex: the copy and the store, then the asker goes on.
RefreshedTo(id, reply, unlocked, waiter) ==
    /\ pending[id].action = "refresh"
    /\ authIndex' = [entries |-> reply.entries, unlocked |-> unlocked]
    /\ stored' = [there |-> TRUE, entries |-> reply.entries]
    /\ pending' = [pending EXCEPT ![id] = waiter]
    /\ Return({pending[id].asker}, TRUE)
    /\ UNCHANGED <<toCompanion, shown>>

\* Mutants: the waiter is not removed; the copy is rebuilt from what is stored,
\* which leaves unlocked out.
RefreshedKeepsWaiter(id, reply) ==
    RefreshedTo(id, reply, reply.unlocked, [pending[id] EXCEPT !.action = "none"])
RefreshedDropsUnlocked(id, reply) == RefreshedTo(id, reply, FALSE, NoRequest)

Refreshed(id, reply) == RefreshedTo(id, reply, reply.unlocked, NoRequest)

\* The management page's own list does not touch the cache.  The addresses of
\* passphrase entries come with it only while the vault is unlocked.
Listed(id, reply) ==
    /\ pending[id].action = "auth-list"
    /\ shown' = [vault |-> reply.vault, unlocked |-> reply.unlocked,
                 addresses |-> IF reply.unlocked THEN reply.entries ELSE {}]
    /\ manager' = "idle"
    /\ pending' = [pending EXCEPT ![id] = NoRequest]
    /\ UNCHANGED <<toCompanion, authIndex, stored, tabVars>>

Late(id) ==
    /\ pending[id] = NoRequest
    /\ UNCHANGED <<toCompanion, authIndex, stored, pending, tabVars, manager, shown>>

Deliver ==
    /\ companionPort
    /\ toExtension # <<>>
    /\ LET reply == Head(toExtension)
       IN  \/ MutationDone(reply.id, reply)
           \/ Refreshed(reply.id, reply)
           \/ Listed(reply.id, reply)
           \/ Late(reply.id)
    /\ toExtension' = Tail(toExtension)
    /\ UNCHANGED <<companionVars, process, companionPort, read, load, events>>

TimesOut(id) ==
    /\ pending[id].action \in TimingOut
    /\ pending' = [pending EXCEPT ![id] = NoRequest]
    /\ Return({pending[id].asker}, FALSE)
    /\ UNCHANGED <<companionVars, linkVars, cacheVars, shown, events>>

\* Mutant: a new session is not known to start locked.
DisconnectedStaysUnlocked ==
    /\ companionPort
    /\ ~process
    /\ companionPort' = FALSE
    /\ toCompanion' = <<>> /\ toExtension' = <<>>
    /\ pending' = [i \in Ids |-> NoRequest]
    /\ Return({pending[i].asker : i \in Ids}, FALSE)
    /\ UNCHANGED <<companionVars, process, cacheVars, shown, events>>

\* onCompanionDisconnect rejects every request; a new session starts locked.
Disconnected ==
    /\ companionPort
    /\ ~process
    /\ companionPort' = FALSE
    /\ toCompanion' = <<>> /\ toExtension' = <<>>
    /\ pending' = [i \in Ids |-> NoRequest]
    /\ authIndex' = [authIndex EXCEPT !.unlocked = FALSE]
    /\ Return({pending[i].asker : i \in Ids}, FALSE)
    /\ UNCHANGED <<companionVars, process, stored, read, load, shown, events>>

---------------------------------------------------------------------------
TabStep(t) ==
    \/ Navigate(t)
    \/ ReadEntries(t)
    \/ Decide(t)
    \/ \E right \in BOOLEAN : Submit(t, right)
    \/ Cancel(t)

Step ==
    \/ Wake
    \/ LoadAuthIndex
    \/ Suspend
    \/ \E t \in Tabs : TabStep(t)
    \/ \E action \in Mutations, onion \in SomeOnion : Manage(action, onion)
    \/ Reload
    \/ OnReady
    \/ Handle
    \/ Crash
    \/ Deliver
    \/ \E id \in Ids : TimesOut(id)
    \/ Disconnected

Next == Step /\ Excuse

Spec == Init /\ [][Next]_vars

---------------------------------------------------------------------------
\* background.js:712-716: a navigation reaches a protected onion without a
\* question only if, since it began, there was a moment at which that was right.
LetThroughWasUnlocked ==
    [][\A t \in Tabs : tab[t] = "hashing" /\ tab'[t] = "passed" => t \in excused]_vars

\* background.js:77-81, 350-351: the page takes the vault for open only while it
\* is, or while the news that it is not is on its way.
BelievedUnlockedIsUnlocked == authIndex.unlocked => ppKey \/ CorrectionOnItsWay

Quiet == /\ \A i \in Ids : pending[i] = NoRequest
         /\ toExtension = <<>>
         /\ companionPort => process
         /\ load = "done"

\* With nothing under way the page knows whether the vault is open; if it is,
\* the copy, the store and the companion list the same onions.
CacheFollowsIndex ==
    Quiet => /\ authIndex.unlocked = ppKey
             /\ ppKey => authIndex.entries = index /\ stored.entries = index

\* A user who keeps trying ends up submitting the right passphrase; the page,
\* the companion and the browser do what they have begun.
Fairness ==
    /\ WF_vars(Wake /\ Excuse) /\ WF_vars(LoadAuthIndex /\ Excuse)
    /\ WF_vars(Handle /\ Excuse) /\ WF_vars(Deliver /\ Excuse)
    /\ WF_vars(Disconnected /\ Excuse)
    /\ \A t \in Tabs : /\ WF_vars((ReadEntries(t) \/ Decide(t)) /\ Excuse)
                       /\ SF_vars(Submit(t, TRUE) /\ Excuse)

FairSpec == Spec /\ Fairness

\* unlock.js and handleAuth: whoever was redirected gets where it wanted to go
\* (or gives up): unlocking does not lead back to the unlock page forever.
RedirectedReaches ==
    \A t \in Tabs : tab[t] = "unlockPage" ~> tab[t] \in {"passed", "idle"}
=============================================================================
