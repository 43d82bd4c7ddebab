----------------------------- MODULE ClientAuth -----------------------------
(***************************************************************************)
(* Client authorization: the credential files (auth_store.rs), the auth    *)
(* handlers of main.rs that read and rewrite them, and the keys they       *)
(* register with the running Tor (client_auth.rs).  A handler runs to its  *)
(* end before its companion takes another command, but every companion of  *)
(* the user works on the same files, and may be killed between two writes  *)
(* or in the middle of one (std::fs::write truncates first).               *)
(* Wrong passphrases, malformed keys and addresses are refused before      *)
(* anything changes and are left out.                                      *)
(***************************************************************************)
EXTENDS Sequences, Naturals, FiniteSets

CONSTANTS
    Companions,    \* companion processes
    Onions,        \* onion addresses
    Credentials,   \* what the user may store, as <<tier, onion>>; the "os" tier
                   \* only where os_available() (Windows)
    Keys,          \* derived keys: one per (passphrase, salt)
    ReusedTor,     \* the backend is a Tor the companion did not launch
    MayCrash,      \* whether a companion may be killed
    ControlFails   \* whether the control port may leave undone what it is asked

Tiers == {"os", "passphrase"}

ASSUME ClientAuthAssumption ==
    /\ Credentials \subseteq Tiers \X Onions
    /\ {"absent", "torn", "none"} \cap Keys = {}
    /\ {ReusedTor, MayCrash, ControlFails} \subseteq BOOLEAN

VARIABLES
    index,      \* index.json, in order; an unreadable file is an empty list
    osVault,    \* onions in os-vault.bin; an unreadable file is empty
    ppVault,    \* pp-vault.bin: the key that opens it, the onions inside
    ppKey,      \* per companion: State.pp_key, "none" when locked
    attached,   \* per companion: State.info is set (a backend is held)
    loaded,     \* per companion: onions whose key its Tor has
    orphaned,   \* per companion: that Tor is of a predecessor that was killed
    pc,         \* per companion: the file step its handler is at
    job,        \* per companion: what that handler works with
    killed      \* ghost: some companion has been killed

vars == <<index, osVault, ppVault, ppKey, attached, loaded, orphaned, pc, job, killed>>
diskVars == <<index, osVault, ppVault>>

Entry == [tier : Tiers, onion : Onions]
Absent == [key |-> "absent", secrets |-> {}]
Torn == [key |-> "torn", secrets |-> {}]
NoJob == [op |-> "none", tier |-> "os", onion |-> "none", key |-> "none",
          secrets |-> {}, entries |-> <<>>]

TypeOK ==
    /\ index \in Seq(Entry)
    /\ osVault \subseteq Onions
    /\ ppVault \in [key : Keys \cup {"absent", "torn"}, secrets : SUBSET Onions]
    /\ ppKey \in [Companions -> Keys \cup {"none"}]
    /\ attached \in [Companions -> BOOLEAN]
    /\ loaded \in [Companions -> SUBSET Onions]
    /\ orphaned \in [Companions -> BOOLEAN]
    /\ pc \in [Companions -> {"idle", "vault", "index", "rewrite"}]
    /\ \A c \in Companions :
          /\ job[c].secrets \subseteq Onions
          /\ job[c].entries \in Seq(Entry)
    /\ killed \in BOOLEAN

Init ==
    /\ index = <<>>
    /\ osVault = {}
    /\ ppVault = Absent
    /\ ppKey = [c \in Companions |-> "none"]
    /\ attached = [c \in Companions |-> FALSE]
    /\ loaded = [c \in Companions |-> {}]
    /\ orphaned = [c \in Companions |-> FALSE]
    /\ pc = [c \in Companions |-> "idle"]
    /\ job = [c \in Companions |-> NoJob]
    /\ killed = FALSE

---------------------------------------------------------------------------
Idle(c) == pc[c] = "idle"
Unlocked(c) == ppKey[c] # "none"

\* pp_secrets and pp_add: the held key must open the vault as it is now.
Opens(c) == Unlocked(c) /\ ppVault.key = ppKey[c]

\* Mutant: the vault is rewritten from an empty list.
SecretsAfresh(tier) == IF tier = "os" THEN osVault ELSE {}

Secrets(tier) == IF tier = "os" THEN osVault ELSE ppVault.secrets

\* The onions whose keys the companion can read.
Open(c) == osVault \cup (IF Opens(c) THEN ppVault.secrets ELSE {})

\* Vec::retain and Iterator::filter: the elements of s that are kept, in order.
\* (SelectSeq, without its recursion.)
Retain(s, kept) ==
    LET places == {i \in DOMAIN s : s[i] \in kept}
        Rank(i) == Cardinality({j \in places : j <= i})
    IN  [n \in 1..Cardinality(places) |-> s[CHOOSE i \in places : Rank(i) = n]]

Naming(onion) == {e \in Entry : e.onion = onion}

\* tier_of: the first entry of the index that matches.
TierOf(onion) ==
    LET matching == Retain(index, Naming(onion))
    IN  IF matching = <<>> THEN "none" ELSE Head(matching).tier

\* upsert_index replaces the entry of that tier (an OS entry is matched by its
\* address, a passphrase entry by its hash); removal drops both kinds.
Upsert(tier, onion) ==
    LET entry == [tier |-> tier, onion |-> onion]
    IN  Append(Retain(index, Entry \ {entry}), entry)

\* Mutant: only the entries matched by hash (the passphrase tier) are dropped.
DroppedByHash(onion) ==
    Retain(index, Entry \ {[tier |-> "passphrase", onion |-> onion]})

Dropped(onion) == Retain(index, Entry \ Naming(onion))

\* One call per onion, each with a verdict of its own that nobody looks at.
Carried(onions) == IF ControlFails THEN SUBSET onions ELSE {onions}
Register(c, onions) ==
    \E some \in Carried(onions) : loaded' = [loaded EXCEPT ![c] = @ \cup some]
Unregister(c, onions) ==
    \E some \in Carried(onions) : loaded' = [loaded EXCEPT ![c] = @ \ some]

\* Mutant: the vault is not tried.
AvailableOsOnly(c) == osVault

\* inject_available, with the key the companion holds once the step is done.
Available(c) ==
    osVault \cup (IF ppKey'[c] = ppVault.key THEN ppVault.secrets ELSE {})
Inject(c) == Register(c, Available(c))

Begin(c, op, tier, onion, key, secrets) ==
    /\ pc' = [pc EXCEPT ![c] = "vault"]
    /\ job' = [job EXCEPT ![c] = [op |-> op, tier |-> tier, onion |-> onion,
                                  key |-> key, secrets |-> secrets,
                                  entries |-> <<>>]]

---------------------------------------------------------------------------
\* auth_add, up to the vault it is about to rewrite.
AuthAdd(c, tier, onion) ==
    /\ Idle(c)
    /\ tier = "passphrase" => Opens(c)
    /\ Begin(c, "add", tier, onion, ppKey[c], Secrets(tier) \cup {onion})
    /\ UNCHANGED <<diskVars, ppKey, attached, loaded>>

\* auth_remove takes the key out of the running Tor first; the store may then
\* refuse (a passphrase entry while locked) or know nothing of the onion.
AuthRemove(c, onion) ==
    /\ Idle(c)
    /\ IF attached[c] THEN Unregister(c, {onion}) ELSE UNCHANGED loaded
    /\ LET tier == TierOf(onion)
       IN  IF tier = "os" \/ (tier = "passphrase" /\ Opens(c))
           THEN Begin(c, "remove", tier, onion, ppKey[c], Secrets(tier) \ {onion})
           ELSE UNCHANGED <<pc, job>>
    /\ UNCHANGED <<diskVars, ppKey, attached>>

\* Mutant: the key is held before the vault is written.
AuthSetPassphraseKeyFirst(c) ==
    /\ Idle(c)
    /\ ppVault = Absent
    /\ \E key \in Keys \ {ppKey[d] : d \in Companions} :
          /\ Begin(c, "init", "passphrase", "none", key, {})
          /\ ppKey' = [ppKey EXCEPT ![c] = key]
    /\ UNCHANGED <<diskVars, attached, loaded>>

\* auth_set_passphrase: refused once a vault file exists; a fresh salt, so a
\* fresh key.
AuthSetPassphrase(c) ==
    /\ Idle(c)
    /\ ppVault = Absent
    /\ \E key \in Keys \ {ppKey[d] : d \in Companions} :
          Begin(c, "init", "passphrase", "none", key, {})
    /\ UNCHANGED <<diskVars, ppKey, attached, loaded>>

WriteVault(c) ==
    /\ pc[c] = "vault"
    /\ IF job[c].tier = "os"
       THEN osVault' = job[c].secrets /\ UNCHANGED ppVault
       ELSE /\ ppVault' = [key |-> job[c].key, secrets |-> job[c].secrets]
            /\ UNCHANGED osVault
    /\ IF job[c].op = "init"
       THEN /\ ppKey' = [ppKey EXCEPT ![c] = job[c].key]
            /\ pc' = [pc EXCEPT ![c] = "idle"]
            /\ job' = [job EXCEPT ![c] = NoJob]
       ELSE pc' = [pc EXCEPT ![c] = "index"] /\ UNCHANGED <<ppKey, job>>
    /\ UNCHANGED <<index, attached, loaded>>

ReadIndex(c) ==
    /\ pc[c] = "index"
    /\ pc' = [pc EXCEPT ![c] = "rewrite"]
    /\ job' = [job EXCEPT ![c].entries =
                 IF job[c].op = "add" THEN Upsert(job[c].tier, job[c].onion)
                                      ELSE Dropped(job[c].onion)]
    /\ UNCHANGED <<diskVars, ppKey, attached, loaded>>

\* The last file; auth_add then loads the key into the running Tor.
WriteIndex(c) ==
    /\ pc[c] = "rewrite"
    /\ pc' = [pc EXCEPT ![c] = "idle"]
    /\ index' = job[c].entries
    /\ IF job[c].op = "add" /\ attached[c]
       THEN Register(c, {job[c].onion}) ELSE UNCHANGED loaded
    /\ job' = [job EXCEPT ![c] = NoJob]
    /\ UNCHANGED <<osVault, ppVault, ppKey, attached>>

\* auth_unlock, with the right passphrase for the vault as it is now.
AuthUnlock(c) ==
    /\ Idle(c)
    /\ ppVault.key \in Keys
    /\ ppKey' = [ppKey EXCEPT ![c] = ppVault.key]
    /\ IF attached[c] THEN Inject(c) ELSE UNCHANGED loaded
    /\ UNCHANGED <<diskVars, attached, pc, job>>

\* Mutant: the key is forgotten first, so the vault no longer opens.
AuthLockForgetsFirst(c) ==
    /\ Idle(c)
    /\ ppKey' = [ppKey EXCEPT ![c] = "none"]
    /\ UNCHANGED <<diskVars, attached, loaded, pc, job>>

\* auth_lock takes the vault's keys out of the Tor it still knows of.
AuthLock(c) ==
    /\ Idle(c)
    /\ IF attached[c] /\ Opens(c) THEN Unregister(c, ppVault.secrets) ELSE UNCHANGED loaded
    /\ ppKey' = [ppKey EXCEPT ![c] = "none"]
    /\ UNCHANGED <<diskVars, attached, pc, job>>

\* A Ready reply to "start", the first or a repeated one, injects; an orphan on
\* the well-known control port is found like any Tor.
Start(c) ==
    /\ Idle(c)
    /\ attached' = [attached EXCEPT ![c] = TRUE]
    /\ UNCHANGED ppKey
    /\ Inject(c)
    /\ UNCHANGED <<diskVars, pc, job>>

\* Found, not launched, by the companion that works with it.
Reused(c) == ReusedTor \/ orphaned[c]

\* An owned Tor is killed, and its keys go with it; a reused one is left alone.
Detached(c) ==
    /\ attached' = [attached EXCEPT ![c] = FALSE]
    /\ loaded' = IF Reused(c) THEN loaded ELSE [loaded EXCEPT ![c] = {}]

Stop(c) ==
    /\ Idle(c)
    /\ Detached(c)
    /\ UNCHANGED <<diskVars, ppKey, pc, job>>

\* The input ends: the companion shuts its Tor down and exits; the next one is
\* locked.
Exit(c) ==
    /\ Idle(c)
    /\ Detached(c)
    /\ ppKey' = [ppKey EXCEPT ![c] = "none"]
    /\ UNCHANGED <<diskVars, pc, job>>

\* No destructor runs in a companion that is killed: the Tor it launched lives
\* on with the keys it has, also when the kill comes during start().
LeavesTor(c) ==
    \/ /\ attached[c] \/ ~Idle(c)
       /\ orphaned' = [orphaned EXCEPT ![c] = @ \/ (attached[c] /\ ~ReusedTor)]
       /\ UNCHANGED loaded
    \/ /\ ~attached[c] /\ Idle(c)
       /\ \/ UNCHANGED <<orphaned, loaded>>
          \/ /\ orphaned' = [orphaned EXCEPT ![c] = ~ReusedTor]
             /\ \E some \in SUBSET Open(c) : loaded' = [loaded EXCEPT ![c] = @ \cup some]

\* The companion is killed; the file it was writing may be left truncated.
Crash(c) ==
    /\ MayCrash
    /\ killed' = TRUE
    /\ ppKey' = [ppKey EXCEPT ![c] = "none"]
    /\ pc' = [pc EXCEPT ![c] = "idle"]
    /\ job' = [job EXCEPT ![c] = NoJob]
    /\ attached' = [attached EXCEPT ![c] = FALSE]
    /\ LeavesTor(c)
    /\ \/ UNCHANGED diskVars
       \/ /\ pc[c] = "vault" /\ job[c].tier = "os"
          /\ osVault' = {}
          /\ UNCHANGED <<index, ppVault>>
       \/ /\ pc[c] = "vault" /\ job[c].tier = "passphrase"
          /\ ppVault' = Torn
          /\ UNCHANGED <<index, osVault>>
       \/ /\ pc[c] = "rewrite"
          /\ index' = <<>>
          /\ UNCHANGED <<osVault, ppVault>>

\* Somebody ends the Tor that was left behind, while nobody works with it.
OrphanEnds(c) ==
    /\ orphaned[c] /\ ~attached[c]
    /\ orphaned' = [orphaned EXCEPT ![c] = FALSE]
    /\ loaded' = [loaded EXCEPT ![c] = {}]
    /\ UNCHANGED <<diskVars, ppKey, attached, pc, job, killed>>

Handle(c) ==
    \/ \E credential \in Credentials : AuthAdd(c, credential[1], credential[2])
    \/ \E onion \in Onions : AuthRemove(c, onion)
    \/ AuthSetPassphrase(c)
    \/ WriteVault(c)
    \/ ReadIndex(c)
    \/ WriteIndex(c)
    \/ AuthUnlock(c)
    \/ AuthLock(c)
    \/ Start(c)
    \/ Stop(c)
    \/ Exit(c)

Next ==
    \/ \E c \in Companions : Handle(c) /\ UNCHANGED <<orphaned, killed>>
    \/ \E c \in Companions : Crash(c)
    \/ \E c \in Companions : OrphanEnds(c)

Spec == Init /\ [][Next]_vars

---------------------------------------------------------------------------
AllIdle == \A c \in Companions : Idle(c)

Listed(tier) == {index[i].onion : i \in {j \in DOMAIN index : index[j].tier = tier}}

\* Between two commands the index lists exactly what the vaults hold: nothing
\* the extension should ask a passphrase for is missing, nothing is a ghost.
\* (A companion killed between the two writes leaves them apart.)
IndexMatchesVaults ==
    AllIdle /\ ~killed => /\ Listed("os") = osVault
               /\ Listed("passphrase") = ppVault.secrets

\* Between two commands the running Tor has exactly the keys that are available
\* (the OS tier, and the vault while unlocked): none is missing, and none is
\* left behind by a removal, a lock or a stop.  (An entry that only a vault
\* still knows, after a kill, is removed from the Tor but not from the vault.)
LiveKeysAreAvailable ==
    AllIdle /\ ~killed => \A c \in Companions :
        loaded[c] = IF attached[c] THEN Open(c) ELSE {}

\* Locking "takes effect immediately": no key that only the vault holds stays
\* in a Tor of a companion that is locked, through stops, exits and kills, unless
\* that Tor was left behind by a companion that was killed.
LockTakesEffect ==
    \A c \in Companions :
        Idle(c) /\ ~Unlocked(c) /\ ~orphaned[c] =>
            loaded[c] \cap (ppVault.secrets \ osVault) = {}

\* The same of every Tor, also of one that outlived the companion that launched it.
NoVaultKeyWhileLocked ==
    \A c \in Companions :
        Idle(c) /\ ~Unlocked(c) => loaded[c] \cap (ppVault.secrets \ osVault) = {}

\* The key an unlocked companion holds opens the vault on the disk.
HeldKeyOpensVault ==
    \A c \in Companions : Unlocked(c) => Opens(c)

\* A stored secret is lost only to a command that removes it, or to a kill in
\* the middle of the write of its vault.
Stored == osVault \cup ppVault.secrets
SecretsPersist ==
    [][\A onion \in Stored \ Stored' :
          \E c \in Companions :
             \/ job[c].op = "remove" /\ job[c].onion = onion
             \/ killed' /\ pc[c] = "vault" /\ pc'[c] = "idle"]_vars

\* The store is persistent: only a removal makes a secret go.
StorageIsPersistent ==
    [][\A onion \in Stored \ Stored' :
          \E c \in Companions : job[c].op = "remove" /\ job[c].onion = onion]_vars

\* Once no entry of the index names an onion, no vault keeps a secret for it.
RemovedIsGone ==
    AllIdle => Stored \subseteq Listed("os") \cup Listed("passphrase")
=============================================================================
