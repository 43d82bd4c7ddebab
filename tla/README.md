# OnionRouter, modelled in TLA+

OnionRouter sends a browser's `.onion` requests (or all of them, or those of a
whitelist) through Tor. It has two programs. The **extension** runs in Firefox:
a background page that routes each request, a popup and a few pages. The
**companion**, in Rust, is started by Firefox for each session and talks to the
extension over Native Messaging; it installs Tor, finds or launches one, and
keeps the client-authorization keys of private onion services. On Windows a
third process, the **tray** (the companion's binary with `--tray`), may hold a
Tor for everybody.

The modules here are translated from `src/extension/*.js` and
`src/companion/src/*.rs`. `PROJECT.json` maps every definition to its lines,
and lists the runs, mutants, hazards, findings and theorems. Source lines below
are relative to `src/`.

## Inventory

| Part | State | Operations | What is hard | What makes it correct |
|---|---|---|---|---|
| Companion loop (`main.rs`, `messaging.rs`) | `State`: backend, info, `pp_key` | `run_native_messaging`, one handler per command | one command at a time: everything sent during `start()` waits; a message it cannot parse ends it; it may be killed | the extension's status follows its backend; each id is answered once |
| Extension session (`background.js`) | `state.status`, `socksPort`, the port, the ready promise, waiters, `pendingRequests`, `authIndex` | `handleProxyRequest`, `waitForReady`, `onCompanionMessage`, `onCompanionDisconnect`, `companionRequest`, `companionRequestId`, timers, alarm | every `await` and callback interleaves with replies, clicks and the disconnect; the event page is suspended | no request leaks, none waits for ever, none is answered with a port Tor was not reported on |
| Routing and settings (`background.js`, `popup.js`) | `storage.local`, the page's copy, the WebRTC switch | `shouldUseTor`, `loadSettings`, `saveSetting`, `onChanged`, `applyWebRTC` | the copy lags behind the storage, and is the defaults after a wake | requests and WebRTC follow the stored settings; no edit is lost |
| Installation (`tor_manager.rs`, `tor_update.rs`) | the archive, the `.part` file, the extracted tree, per version | `resolve_bundle`, `install_from`, `download`, `verify_sha256`, `extract_tar_gz` | kills between and inside steps, failing transfers, several processes on one directory | only complete trees of verified bytes are run; no corruption blocks for ever |
| Tor selection (`main.rs`, `proxy.rs`, `runtime.rs`, `tor_detector.rs`, `tray.rs`) | backends, ports, the shared torrc and data directory, the runtime file | `start`, `stop`, `launch`, `detect_existing`, the tray's life | processes that know of each other only by ports and files; crashes; pid reuse | the port reported is a Tor's; who launched a Tor ends it, and nobody else |
| Client authorization (`auth_store.rs`, `client_auth.rs`, `main.rs`) | `index.json`, two vaults, `pp_key`, the keys of the running Tor | `auth_*`, `inject_available` | two files per change, no locks, kills inside a write, Tor's own copy of the keys | index and vaults agree; locking takes effect; nothing stored is lost |
| Control port (`tor_detector.rs`, `client_auth.rs`) | one connection, the lines of one answer | `detect_existing`, `connect_and_auth`, SAFECOOKIE, version gate, `add`, `remove` | anything may listen on the port; answers in pieces, late, without end; a command outlives its connection | the first usable Tor is found; a verdict belongs to its command; no proof for impostors; it always ends |
| Unlock (`background.js`, `unlock.js`, `authorized.js`) | `authIndex` in memory and in `storage.local`, the tabs, the list shown | `onBeforeOnionRequest`, `loadAuthIndex`, `refreshAuthIndex`, `handleAuth`, the two pages | a copy of the companion's index, read before an `await` and used after it, while it is refreshed, loaded, or the companion ends | nobody passes a locked vault's onion unasked but for news on its way; unlocking leads on, not round in a circle |
| Framing (`messaging.rs`) | none | `read_message`, `write_message` | input that ends anywhere, lengths at the limit | messages are read whole or not at all |
| Version numbers (`tor_detector.rs`, `tor_update.rs`, `tor_manager.rs`, `update_check.rs`) | none | three parsers, `is_at_least`, `version_gt`, three searches | malformed pieces, missing ones, suffixes | the newest is chosen, reported, announced |
| Diagnostics page (`diagnostics.js`) | what it shows | probes | | its commands only |
| Build, installers, logging | none | scripts | | out of scope |

The parts meet at: the two pipes of the port (`NativeMessaging`); the promise
`readyPromise` between browser requests and companion replies; `storage.local`
and its events; the disk and the ports, shared by all companions and the tray;
and the companion's index, of which the extension keeps a copy.

## Modules

    NativeMessaging        messages, the two pipes, the process at the far end
    |-- Companion          main.rs: the loop and its handlers
    |-- Background         background.js and the popup, as far as the session goes
    |-- Framing            read_message and write_message on bytes
    Session                the three together, fairness, properties
    |-- TorGate            abstract: what the proxy gate promises the browser
    |-- SessionProofs      types, the gate and its refinement, status, replies owed,
                           what is read back from a pipe that is cut
    Routing                shouldUseTor on sequences of labels
    Unlock                 the interceptor, its cache, the unlock and management pages
    |-- UnlockProofs       what the page believes, copies and lets through
    Settings               storage, the page's copy, WebRTC, routing decisions
    |-- SettingsProofs     requests and WebRTC as stored, edits that add up
    VersionNumbers         parsing, comparing and choosing versions
    |-- ControlPort        conversations with control ports
    |   |-- ControlPortProofs   order of answers, effects, proofs, the search
    |-- TorInstall         ensure_binary on a shared disk
        |-- TorInstallProofs    what one installer leaves on the disk, the newest version
    TorBackends            which Tor a companion and the tray end up with
    |-- TorBackendsProofs  who owns the Tor that runs, and that it is there
    ClientAuth             vaults, index, held key, keys of the running Tor
    |-- ClientAuthProofs   what one companion keeps, lists, and keeps locked
    ListLemmas             facts about queues, induction and recursion along a list
    MCSession, MCSettings, MCControlPort, MCTorInstall, MCClientAuth
                           constants for TLC

**Session.** `toCompanion` and `toExtension` are the pipes, FIFO, lost with the
port. `process` is the companion: `"none"`, `"idle"` (reading stdin) or
`"starting"` (inside `start()`, with commands queueing up). Each handler of
`main.rs` is one action that takes a command and writes its reply; `start()`
alone is split in two (`HandleStart`, `FinishStart`), since it takes minutes and
ends with any port or an error. On the other side each action is one turn of
the JavaScript event loop with the promise continuations it settles:
`OnReady` sets the status, settles the promise and posts `diagnostic`,
`update-check` and `auth-list`, in that order; `AuthDone` is the continuation
of `handleAuth`, which asks for the list again. `request[r]` is what
`handleProxyRequest` answered a browser request that `shouldUseTor` accepted:
`"waiting"` on the promise, `"unreachable"` (the blocking proxy) or a port.
`understood` is the build that is installed: an older one does not parse
`update-check` and ends with a protocol error (`main.rs:177`).
Ids come from a pool and are reused only when nothing carries them any more,
which stands for `nextRequestId++`.

**Settings.** `ops` are storage calls, served in order; `notices` their answers
and the `onChanged` events. The page is `"off"`, `"loading"`, `"booting"` or
`"up"`; waking it resets its copy to the defaults. Between `"loading"` and
`"up"` the boot code waits for `authIndexReady` (`background.js:817`) with the
settings in its copy, before `BootEnds` applies WebRTC; an `onChanged` that
comes first applies it too. `decision` records the last routing
decision together with what the stored settings would have decided; `wanted` is
a ghost, the whitelist the user asked for.

**Unlock.** The event page is asleep (`load = "off"`), reading `storage.local`
or ready. `authIndex` is its copy of the companion's index (`entries`,
`unlocked`), `stored` the one in `storage.local`, which outlives the page but
never holds `unlocked`. `onBeforeOnionRequest` is three steps, one for each
stretch between two awaits: `Navigate` up to `authIndexReady`, `ReadEntries` up
to the hash, `Decide`. `MutationDone` and `Refreshed` are the two halves of
`handleAuth`, between which anything may come; the second takes over the id of
the first, whose pending entry is free. `excused` is a ghost: what
an observer of both sides would have let through at some moment since the
navigation began. The companion's handlers are one step each here; their file
steps are in `ClientAuth`. Only entries of the passphrase tier are kept, as the
interceptor does.

**Framing** and **VersionNumbers** have no variables. `Session` frames what the
pipe to the companion holds (`Json(m)` is what the extension writes for `m`)
and cuts it anywhere; `TorInstall` gives its versions names (`Names`) and asks
`InstalledVersion` for the newest of the directories on its disk, listed in any
order. Both also compare the functions with reference definitions: for
`CutsAreNoticed`, `Arrived` counts the messages that are whole, and of the rest
says whether it is the end of the input or an error; `IsNewest` states the order
of versions number by number. The loops of the code are recursive functions
here: `Turn` is one turn of `run_native_messaging`, `Best` the search that three
functions share, `Parsed` the `filter_map` of `TorVersion::parse`. A base, a
limit and the set `JsonTexts` of bytes that parse are constants, with the
code's four-byte length in every instance.

**ControlPort.** `pc` is `"connect"` or the command whose answer is awaited;
`outbox` the lines on their way, of which `Hear` takes one at a time as
`read_response` does. `inbox` holds, per port, what it has not handled yet, in
order, also the commands of a connection that has been dropped (`live`): Tor
reads every connection that has data in each turn of its loop, so an older
connection's command is not overtaken by one that first has to authenticate.
A proof names the cookie it was made from; `by` tells who made it. What listens
(`Serve`, `Dribble`, `TorAnswers`) is external: a Tor of some age with some
methods, a program that greets whoever connects, one whose lines never end, or
nothing.

**TorInstall.** One `pc` per process that runs `ensure_binary`; per version the
`.part` file, the archive and a tree of two files, each `"none"`, `"torn"`,
`"good"` (the signed bytes) or `"bad"`. A process keeps the file it opened
under whatever name it gets (`writes`, `source`), as on POSIX. `extracted` are
the versions with a directory, which is all `installed_version` looks at;
`cutShort` is a ghost, set when a kill or a full disk leaves a tree emptied and
not filled again.

**TorBackends.** `pc` follows `start()` (companion) or `tray::run`. A Tor of
OnionRouter's is one record, since Tor locks its data directory; its `parent`
is who can kill it. Ports are probed by `pick_port` and bound only by Tor, and
other programs come and go in between.

**ClientAuth.** A handler that rewrites files goes through the steps `"vault"`,
`"index"`, `"rewrite"`; a kill in a writing step may leave that file truncated.
`Stop` and `Exit` (the end of the input) shut a launched Tor down, and its keys
go with it. A kill does not: `kill_on_drop` (`tor_manager.rs:382`) needs a
destructor, so `Crash` leaves the Tor running with the keys it has (`orphaned`),
also one that was still being given them in `start()`, and the next companion,
which is locked, finds it as a reused one. `OrphanEnds` is its end from outside.
`ReusedTor` says that all Tors are found rather than launched.
A derived key stands for a pair of passphrase and salt. `Retain` is
`Vec::retain`, by the rank of each kept element rather than by recursion, so
that it can be reasoned about; `MCClientAuth` compares it with `SelectSeq`.

Mutants sit beside the definition they alter, under a comment that begins with
"Mutant:"; no specification uses them.

## Runs

Safety and liveness that hold:

| Run | Instance | Shows |
|---|---|---|
| `session_gate` | 2 requests, 2 ports, up to 2 messages in the pipes when the user acts, crashes | `NobodyWaitsAtOpenGate`, `NoStrandedRequest`, and that `Session` implements `TorGate` |
| `session_roundtrips` | ping, unlock and lock, timers of ping and auth-list, either build, `connectNative` may throw | `StatusFollowsBackend`, `EveryPendingHasItsReply` |
| `session_liveness` | one request, `auth-add`, either build, crashes | `RequestsSettle`, `PipesSurviveCuts` |
| `unlock` | 2 tabs, 1 onion, 3 commands of the management page or crashes, timers of its lists | `BelievedUnlockedIsUnlocked`, `CacheFollowsIndex`, `LetThroughWasUnlocked`, `RedirectedReaches` |
| `settings` | 5 hosts (trailing dots, a subdomain, a look-alike), 2 whitelist entries, all modes, WebRTC applied by the boot code and `onChanged` in either order | `RoutedAsStored`, `WebRTCAsStored`, `EditsAccumulate`, `ModeTakesEffect` |
| `control` | 2 ports, 12 kinds of listeners, 2 operations, timers at any point | `FirstFitIsFound`, `RepliesAnswerTheirCommand`, `OkMeansDone`, `ProofsGoToTheKnowing`, `OperationEnds` |
| `install` | 1 installer, 3 versions, failing and bad transfers, a full disk, kills | `ReturnedIsWhole`, `OnlyVerifiedBytes`, `ReportedIsWhole`, `NewestIsReported`, `WholeForGood`, `EventuallyInstalled` |
| `auth` | 1 companion, 3 onions in either tier, kills that leave its Tor running | `IndexMatchesVaults`, `LiveKeysAreAvailable`, `LockTakesEffect`, `HeldKeyOpensVault`, `SecretsPersist` |
| `tor_alone` | 1 companion, 4 ports, another program on 9051, kills | `OwnedPortIsTors`, `HeldBackendIsRunning`, `ReadyNamesATor` |
| `tor_tray` | companion and tray, 3 ports, another program on 9050, kills, a reused pid, a Tor that ends | `NoOrphanTor`, `OwnerIsParent`, `SearchEnds` |

`session_gate`, `unlock` and `tor_alone` also check their type invariant; those
of the other modules are checked with the configurations further below. Every
property has a mutant of the code that breaks it under the same configuration.

Disagreements between the code and what it says of itself (`findings`):

| Run | Property | What happens |
|---|---|---|
| `retry_after_error` | `RetryLeavesError` | "try again" (`main.rs:601`): Start has no effect while the port is open (`background.js:166`) |
| `control_spaced_cookie` | `FirstFitIsFound` | "detects a running Tor Browser" (`README.md:61`): not in its default folder on Windows, whose name holds a space at which the cookie's path is cut (`tor_detector.rs:114`) |

Further configurations, not in the list of runs, show where the conditions of
the passing ones come from. TLC finds a counterexample in each:

| Configuration | Module | Property | Counterexample |
|---|---|---|---|
| `connect_throws` | MCSession | `NobodyWaitsAtOpenGate` | `connectNative` throws after the request has joined the promise (`background.js:157`, `:373`); nothing settles it |
| `slow_network` | MCSession | `RequestsSettle` | a download without timeout (`tor_manager.rs:286`) never ends; see `background.js:443-449` |
| `settings_boot` | MCSettings | `AllMeansAll` | `"all": everything → Tor` (`background.js:8`): a request that comes before the settings are loaded goes direct (`background.js:453`) |
| `unlock_slow_storage` | Unlock | `CacheFollowsIndex` | the companion answers before `storage.local` does: `loadAuthIndex` overwrites the newer copy (`background.js:697`) |
| `unlock_timeouts` | Unlock | `LetThroughWasUnlocked` | a Lock is carried out after the page has given it up: the page goes on taking the vault for open |
| `settings_racing_edits` | MCSettings | `EditsAccumulate` | two edits before `onChanged` (`background.js:579`): the second undoes the first |
| `install_torn` | MCTorInstall | `IntegrityVerified` | "installed and integrity-verified" (`tor_manager.rs:203`): an executable that a kill has left torn is returned unchecked (`:246`) |
| `install_reported` | MCTorInstall | `ReportedIsInUse` | "the real version in use" (`tor_manager.rs:145`): off line the pinned one is used, the newest extracted is reported |
| `install_offline` | MCTorInstall | `FailsOnlyWithoutTor` | off line the pinned version is tried, a newer one that is installed is not used (`tor_update.rs:13-15`) |
| `install_two_bad` | MCTorInstall | `OnlyVerifiedBytes` | two installers: one verifies, the other replaces the archive, the first opens it again |
| `auth_lock_after_stop` | MCClientAuth | `LockTakesEffect` | "so locking takes effect immediately" (`main.rs:444`): not after Stop with a reused Tor (`:569`) |
| `auth_orphaned_keys` | MCClientAuth | `NoVaultKeyWhileLocked` | a companion is killed with its vault unlocked: its Tor keeps the keys while the next companion, which is locked, works with it |
| `auth_control_fails` | MCClientAuth | `LockTakesEffect` | the Tor does not answer: `auth_lock` forgets the vault's key all the same (`main.rs:453`) and can never take the rest out of the Tor |
| `auth_two_tiers` | MCClientAuth | `RemovedIsGone` | an onion in both tiers: one secret stays, unlisted (`auth_store.rs:266`) |
| `auth_torn_write` | MCClientAuth | `StorageIsPersistent` | a kill inside `std::fs::write` empties a vault |
| `auth_two_companions` | MCClientAuth | `SecretsPersist` | two companions rewrite one vault |
| `tor_torrc_race` | TorBackends | `OwnedPortIsTors` | two companions write one torrc |
| `tor_half_pair` | TorBackends | `ReadyNamesATor` | a Tor on 9051 whose SOCKS port is not 9050 is taken for the pair (`tor_detector.rs:188`) |
| `tor_gone` | TorBackends | `HeldBackendIsRunning` | a Tor that ended is still reported (`main.rs:464`) |

### Bounds, and why they are enough

* Two requests show everything about sharing one promise: what one settles, the
  other must see. Two ports tell an old port from a new one.
* `MaxInFlight` bounds only the user (buttons, pages, the alarm), not the
  messages that replies cause: the pipes grow beyond it by what handlers post.
  Two commands ahead of a reply already give every order of Start, Stop and
  their answers.
* The pool of ids is larger than what can be in flight, except in
  `session_roundtrips`, where a handler that needs an id waits for one.
* `MaxEdits` is 1 in `settings`: edits that wait for each other. The racing
  configuration has 2 and shows the loss. `EarlyEdits` says whether an edit may
  come before the settings are loaded.
* `unlock`: with two tabs one can unlock while the other hashes; one onion is
  enough for an entry to be missing, stale or right. `MaxEvents` bounds the
  management page's commands and the crashes together: set a passphrase, add,
  lock, and each of them followed by or following a crash. Three ids: both tabs
  and the management page may wait at once.
* `control`: with two ports "the first" means something; two operations let a
  command of the first take effect during the second. Two cookies tell whose
  cookie file the companion was shown.
* `NewestIsChosen`: pieces are malformed, 0, 1 or 2, strings have one or two
  pieces and a suffix or none, lists two items; a piece decides against another
  one, or is missing. `Framing` has three byte values and a limit of three, so
  that a length can be at and over the limit, and a message be one that does not
  parse; a message of the session is one byte or two. Both are proved for lists
  of any length.
* Three bundle versions with the oldest pinned: equal, newer, and newest after a
  newer one is installed. Two files in a tree: the executable, and what it needs.
* Four ports: the well-known pair and one more for each of its members.
* `Symmetry` permutes ports and requests, in `session_gate` only, whose
  properties are all safety.

### Fairness

* The companion's loop handles what it reads; every await in a handler but
  `start()` has a timeout of its own (control port, probes, update check).
  `start()` is assumed to end separately (`StartEnds`), since the download has
  no timeout. Firefox delivers messages and reports a disconnect. Nothing else
  in `Session` is fair: not the user, the timers or crashes.
* `Settings`: storage serves its calls and Firefox runs the page for events it
  owes it.
* `Unlock`: the page, storage and the companion go on; a user who is at the
  unlock page keeps trying until the right passphrase is submitted (strong
  fairness of `Submit(t, TRUE)`), or cancels.
* `ControlPort`: the companion goes on and its timers fire; nothing is assumed
  of what listens on the ports, neither that it answers nor that it stops.
* `TorInstall`: installers go on and are started again, and the kills end
  (the premise of `EventuallyInstalled`); the server sends the
  right bytes infinitely often if asked infinitely often (strong fairness),
  which is what "a retry redownloads" relies on.
* `TorBackends`: the steps of a search that follow the download, and those
  before it, are local work or bounded by a timeout (probe, control port,
  bootstrap). `launch_owned` begins with `ensure_binary` (`main.rs:562`), whose
  download has none, as in `Session`: that it ends is an assumption,
  `DownloadEnds`. With `DownloadEnds = FALSE`, `tor_tray` has a counterexample
  to `SearchEnds`: a search that stays in `Allocate`.

## Proofs

Every theorem is checked by TLAPS for all values of the constants that satisfy
the named assumptions of the modules and those in its `ASSUME`. Where TLC shows
why such an assumption is needed, the configuration is named. `ListLemmas`
holds what the proofs share: what joining, appending to and taking from a queue
does to the elements and their places, and how to reason along a list. The
library's induction theorems have a predicate as parameter, which these provers
cannot instantiate; but it is a fact about sets alone that the finite subsets of
a set are well founded by inclusion. From it follows that a set of naturals has
a least number (`LeastNumber`), hence `Induction` for sets `T` of numbers, with
what is to be shown as the set of those for which it holds, and `Recursion`: a
function that a loop defines step by step exists (`Runs`), so that its equations
hold of the one that the model chooses.

**Session** (`SessionProofs`)

* `TypeCorrect`: `Spec => []TypeOK`. The invariant is inductive as it stands;
  the work is that each message a handler posts is well formed, and that ids
  come from the pool.
* `NobodyWaits`: the invariant needs two facts besides (`GateInvariant`): the
  types, and that a ready status comes with a port. It assumes `~ConnectThrows`,
  and is false without (`connect_throws.cfg`).
* `SessionImplementsGate`: the refinement to `TorGate` under `gate <-
  GateState`, the status and port read as open, shut or blocked. From
  `GateInvariant`, each step of the page is one of the gate's steps or none
  (`GateSteps`), and the companion's steps are stutters. Same assumption.
* `NobodyIsStranded`: `StartInv` says that whoever waits has reason to hope: a
  process inside `start()`, one that has ended, so that the disconnect is to
  come, a `start` on its way, or a verdict on its way back. Same assumption.
* `TheStatusFollows`: for all constants. `LastTells`: of the verdicts on their
  way to the page the last one is right about the backend, and the status is if
  there is none. It needs that only a running process has a backend
  (`BackendInv`) and that nothing outlives the port (`PortInv`).
* `EveryRequestIsAnsweredOnce`: for all constants. `WireInv`: no two places of
  the two pipes have the same id (`Differ`), and what a live companion owes a
  pending request is at one of them. A message read turns into its reply in one
  step, so the places only move.
* `MessagesSurviveCuts`: `CutsAreNoticed` of every sequence of messages of a byte
  or more, for any base, limit and set of texts that parse. Four digits say
  a length (`LengthsSurvive`); among the bytes the `i`-th message lies where the
  ones before it end (`Layout`); so one turn reads it, or tells the end from an
  error by what is left (`NextMessage`); and after `i` turns the loop is where
  the first `i` messages end, or has ended after the `n` that `Arrived` counts.
  There are turns enough since a message takes five bytes (`EndGrows`).
* `PipeIsReadBack`: `PipesSurviveCuts` of every reachable pipe, from the types.
  It assumes (`JsonAssumption`) that the extension writes bytes that parse, no
  more than the limit, for each message it sends.

**Unlock** (`UnlockProofs`): for any tabs, onions, ids and bounds on events.

* `TypesAreRight`: `Types`, which also says that each message in the pipes is
  well formed.
* `BelievedIsUnlocked`, if `auth-lock` does not time out
  (`unlock_timeouts.cfg`). `WireInv` relates ids, pending requests and pipes.
  `BeliefInv(FALSE)` says that a belief that is wrong in the page, or in a reply
  under way, is followed by a reply that corrects it; the same holds for `TRUE`
  if no mutation times out.
* `TheCacheFollows`, if no mutation and no refresh times out and the storage
  answers before the companion does (`unlock_slow_storage.cfg`): besides,
  `ListInv` says the same of the list, and `CopyIsStored` that page and storage
  keep the same one.
* `OnlyTheUnlockedPass`, an action property: while a tab is on its way, whatever
  would let it through has been right at some moment (`ExcuseInv`). It needs
  that `auth-lock` does not time out, and that the storage answers first.

**Settings** (`SettingsProofs`)

* `RequestsGoAsStored`: `CopyFollows` says that a key of the page's copy, or of
  a copy on its way, which differs from what is stored is followed by a change
  of that key. With it goes that `shouldUseTor` takes a name of an onion service
  for one with and without its dot, for hosts of any length (lists of labels).
* `WebRTCFollows`: the switch is what the copy asks for once the page has
  booted, and what is stored asks for while there is none. While it boots, the
  switch may still be what an older copy asked for.
* `EditsAddUp`: `MaxEdits <= 1`, where an edit waits for the one before it, and
  no edit before the settings are loaded (`settings_racing_edits.cfg` has
  neither). The list wanted is what the edit on its way will store, or what is
  stored.

**Control port** (`ControlPortProofs`): for any listeners, ports, timers and
number of operations.

* `TalkIsOrderly`: the invariant `TalkInv`. What is queued at a port and on its
  way back belongs to the operations in the order in which they were sent: the
  only command somebody waits for is the last one in its queue, it is there
  until it is answered, its answer ends with its final line, and nothing is
  learnt but from a Tor. `TypesAreRight`, `EveryReplyAnswersItsCommand`,
  `OkIsDone` and `OnlyTheKnowingGetProofs` are its conjuncts or follow.
* `TheFirstFitIsFound`, for cookie paths without a space (with one it is false:
  `control_spaced_cookie`): `SearchInv` adds that whoever is in may be, and that
  every pair passed over had no usable Tor, unless it was slow. That a version
  line is read as four numbers or none is proved of any line
  (`ParsedAreNumbers`).

**Installation** (`TorInstallProofs`)

* `OnlyVerifiedIsUnpacked`, `ReturnedTreeIsWhole`, `ReportedTreeIsWhole` and
  `WholeTreesStay`: for any set of versions and every fault, under
  `OneInstaller`; with two, the first is false (`install_two_bad.cfg`). None of
  them is inductive. `InstallInv` adds what the installer knows at each step
  (`Knows`: from `clear` to `open` the archive is still the verified one, since
  nobody else replaces it; while unpacking, the tree is exactly what has been
  unpacked), that trees are whole, empty or being filled (`NoRemains`,
  `DirectoriesAreWhole`), and that a newest directory exists, which holds for
  infinitely many versions too because directories come one at a time.
  `TypeCorrect` of this module needs no assumption on the installers.
* `NewestIsDiscovered`, `NewestIsInstalled` and `NewerIsAnnounced`: for lists of
  any length, of texts of any number of pieces. `BestIsNewest` goes along the
  list: the best so far is one of those seen, or none, and none of them comes
  after it. It needs that `Precedes` is transitive, that `Greater` is that order
  on three numbers, and that the parsers yield three numbers or `NoVersion`.
* `NewestVersionIsReported`, for any number of installers: the disk's
  directories are such a list in any order, and their names are ordered as their
  versions are (`NamesAssumption`).

**Tor selection** (`TorBackendsProofs`)

* `OwnerIsTheParent` and `NoTorIsOrphaned`: for any number of companions. The
  inductive invariant `OwnershipInv` adds that a process that searches holds
  nothing, and that the child a process waits for is there. A Tor is launched
  only while none runs; only its parent kills it, and forgets its backend in the
  same step. `TypesAreRight` has the same generality; `Ranges` says that a
  backend always names a port.
* `ThePortIsTors`: one companion without tray, since the torrc is shared
  (`tor_torrc_race.cfg`). `PortsAgree`: from the allocation to the launch the
  torrc names the ports that the companion has in mind.
* `TheBackendIsThere` and `ReadyIsTrue`: also, no other program takes the
  default SOCKS port, without which a Tor on 9051 alone passes for the pair
  (`tor_half_pair.cfg`). The second assumes that Tor does not end on its own,
  which the first has in its premise. The invariant is that a lone companion's
  Tor has the well-known SOCKS port (unless a system Tor has it), so that what
  answers on the well-known control port is the pair.
* `EveryPortIsTors` and `EveryReadyIsTrue`: any number of companions and the
  tray, killed at any moment, of which no two are between the writing of the
  torrc and the launch at the same time (`LaunchesApart`; without it,
  `tor_torrc_race.cfg`). No Tor ends on its own, which would let a second one run
  under the first's owner. The second also assumes that a dead tray's pid is
  nobody's, and that no other program takes either port of the well-known pair.
  The invariants are `PortsFollow`, that the torrc is that of whoever is about to
  launch and the Tor that runs has the port its parent has in mind, and
  `PairsAreWhole`, that `pick_port` takes both well-known ports or neither, and
  that the tray has published what it holds. A reused backend may name a Tor
  whose owner stops it later: the reply is true when it is given, and
  `HeldBackendIsRunning` stays with the lone companion.

**Client authorization** (`ClientAuthProofs`): one companion (with two,
`auth_two_companions.cfg` loses a secret), any onions and keys, every kill.

* `HeldKeyIsRight`, `SecretsAreKept` and `LockingTakesEffect`: `VaultInv` says
  what a handler that is about to write knows: the secrets it writes are those
  of the vault as it still is, give or take its onion, and the key it writes
  them under is the one held. `LoadedInv` adds that the keys in the Tor are
  among those that are open, and that what is being removed is out of it
  already. Only the last theorem needs `TorObeys`: the control port does what it
  is asked, and Tors are launched, not found; each half has a counterexample
  above. A Tor that a killed companion left behind is excepted in
  `LockTakesEffect` itself (`~orphaned[c]`), since it keeps the keys it has
  (`auth_orphaned_keys`); the theorem covers every other history with kills in
  it, and takes hold again when the orphan has ended.
* `TheIndexMatches`: if each onion is stored in one tier (`auth_two_tiers.cfg`
  shows why). `IndexInv`: a handler between its two writes has changed the
  vaults by exactly what its new list will say. It rests on what `Retain` keeps
  and in which order, proved by counting (`Numbered`, `Retained`).
* `LiveKeysAreRight`: under the same condition and `TorObeys`. `LiveInv` makes
  an equation of `LoadedInv`, up to the onion a handler is about to add or
  remove.

Only model-checked remain:

* All liveness: `RequestsSettle`, `RedirectedReaches`, `ModeTakesEffect`,
  `OperationEnds`, `EventuallyInstalled` and `SearchEnds`. Fairness and
  `ENABLED` are beyond this prover.
* What holds of several installers, or of several companions whose launches
  overlap; the configurations above show what does not.

## Not modelled, and why

* JSON, key formats, PGP, Argon2 and the AEAD, HMAC and nonces: data; what they
  conclude is an input, or a proof that names its cookie.
* How `Probe` in `TorBackends` ends is an input there, not composed with
  `ControlPort`; neither are `add` and `remove` with `ClientAuth`, where the
  control port answers, or (`ControlFails`) does part of what it is asked.
* `status` and `auth-generate`: they read or compute, and change nothing.
* A failing `runtime::write` (the tray logs it and goes on); the second known
  pair, 9150/9151, which is treated as the first.
* Of the pages: key pasting and generation, messages and layout; the toolbar
  icon, the context menu and the welcome notification of `background.js`.
* POSIX file semantics are assumed in `TorInstall`; on Windows, removing or
  replacing an open file fails instead.

## Plan

1. Extend the model: `Probe` of `TorBackends` as what `ControlPort` promises;
   the file steps of `ClientAuth` under `Unlock`'s companion.
2. Prove more: that `Unlock`'s companion, one step per command, is implemented by
   `ClientAuth` between kills; what several installers can rely on as long as the
   server's bytes are right.
