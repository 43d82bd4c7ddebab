-------------------------- MODULE ClientAuthProofs --------------------------
(***************************************************************************)
(* What one companion guarantees of the secrets it stores and of the keys  *)
(* its Tor has, for any onions, credentials and keys, and through kills.   *)
(* With two, TLC finds a secret that is lost (auth_two_companions.cfg).    *)
(***************************************************************************)
EXTENDS ClientAuth, FiniteSetTheorems, ListLemmas

\* The shape of the state as far as the vaults go; what the index and its copy
\* hold does not matter here.
Shape ==
    /\ ppVault \in [key : Keys \cup {"absent", "torn"}, secrets : SUBSET Onions]
    /\ osVault \subseteq Onions
    /\ ppKey \in [Companions -> Keys \cup {"none"}]
    /\ attached \in [Companions -> BOOLEAN]
    /\ loaded \in [Companions -> SUBSET Onions]
    /\ pc \in [Companions -> {"idle", "vault", "index", "rewrite"}]
    /\ job = [c \in Companions |->
                [op |-> job[c].op, tier |-> job[c].tier, onion |-> job[c].onion,
                 key |-> job[c].key, secrets |-> job[c].secrets, entries |-> job[c].entries]]

\* A passphrase job is one of a companion whose key opens the vault.
Entitled(c) == job[c].tier = "passphrase" => Opens(c) /\ job[c].key = ppKey[c]

\* What a handler that is about to write a vault works with.
AtVault(c) ==
    /\ job[c].tier \in Tiers
    /\ \/ /\ job[c].op = "init" /\ job[c].tier = "passphrase"
          /\ ppVault = Absent /\ job[c].key \in Keys /\ job[c].secrets = {}
       \/ /\ job[c].op = "add" /\ job[c].onion \in Onions /\ Entitled(c)
          /\ job[c].secrets = Secrets(job[c].tier) \cup {job[c].onion}
       \/ /\ job[c].op = "remove" /\ Entitled(c)
          /\ job[c].secrets = Secrets(job[c].tier) \ {job[c].onion}

\* What one that has written it knows.
AtIndex(c) ==
    \/ job[c].op = "remove"
    \/ /\ job[c].op = "add" /\ job[c].onion \in Onions
       /\ \/ job[c].tier = "os" /\ job[c].onion \in osVault
          \/ job[c].tier = "passphrase" /\ Opens(c) /\ job[c].onion \in ppVault.secrets

VaultInv ==
    /\ Shape
    /\ HeldKeyOpensVault
    /\ ppVault.key \in {"absent", "torn"} => ppVault.secrets = {}
    /\ \A c \in Companions : /\ pc[c] = "vault" => AtVault(c)
                             /\ pc[c] \in {"index", "rewrite"} => AtIndex(c)

OneCompanion == \E c : Companions = {c}

---------------------------------------------------------------------------
\* There is no vault at first.
LEMMA VaultInit == ASSUME ClientAuthAssumption, Init PROVE VaultInv
BY DEF Init, VaultInv, Shape, HeldKeyOpensVault, Unlocked, Absent, NoJob

\* An addition computes the secrets it will write from the vault as it is.
LEMMA AddStep ==
    ASSUME NEW c, Companions = {c}, ClientAuthAssumption, VaultInv,
           NEW tier \in Tiers, NEW onion \in Onions, AuthAdd(c, tier, onion)
    PROVE  VaultInv'
<1> USE DEF diskVars, Idle
<1>0. c \in Companions OBVIOUS
<1>1. /\ job'[c].op = "add" /\ job'[c].tier = tier /\ job'[c].onion = onion
      /\ job'[c].key = ppKey[c] /\ job'[c].secrets = Secrets(tier) \cup {onion}
      /\ pc'[c] = "vault"
      /\ Shape'
  BY <1>0 DEF AuthAdd, Begin, VaultInv, Shape
<1>2. AtVault(c)'
  BY <1>1, <1>0 DEF AuthAdd, AtVault, Entitled, Opens, Unlocked, Secrets
<1> QED BY <1>1, <1>2 DEF AuthAdd, VaultInv, HeldKeyOpensVault, Opens, Unlocked

\* A removal does, too, and so is allowed to write only what it could read.
LEMMA RemoveStep ==
    ASSUME NEW c, Companions = {c}, ClientAuthAssumption, VaultInv,
           NEW onion \in Onions, AuthRemove(c, onion)
    PROVE  VaultInv'
<1> USE DEF diskVars, Idle
<1>0. c \in Companions OBVIOUS
<1>1. loaded' \in [Companions -> SUBSET Onions]
  BY <1>0 DEF AuthRemove, Unregister, VaultInv, Shape
<1>2. CASE UNCHANGED <<pc, job>>
  <2>1. Shape' BY <1>1, <1>2 DEF AuthRemove, VaultInv, Shape
  <2> QED BY <1>2, <2>1 DEF AuthRemove, VaultInv, HeldKeyOpensVault, Opens, Unlocked
<1>3. ASSUME NEW tier, tier = "os" \/ (tier = "passphrase" /\ Opens(c)),
             Begin(c, "remove", tier, onion, ppKey[c], Secrets(tier) \ {onion})
      PROVE  VaultInv'
  <2>1. /\ job'[c].op = "remove" /\ job'[c].tier = tier /\ job'[c].onion = onion
        /\ job'[c].key = ppKey[c] /\ job'[c].secrets = Secrets(tier) \ {onion}
        /\ pc'[c] = "vault"
        /\ Shape'
    BY <1>0, <1>1, <1>3 DEF AuthRemove, Begin, VaultInv, Shape
  <2>2. AtVault(c)'
    BY <1>3, <2>1 DEF AuthRemove, AtVault, Entitled, Opens, Unlocked, Secrets, Tiers
  <2> QED BY <2>1, <2>2 DEF AuthRemove, VaultInv, HeldKeyOpensVault, Opens, Unlocked
<1> QED BY <1>2, <1>3 DEF AuthRemove

\* A passphrase is set only while there is no vault.
LEMMA SetPassphraseStep ==
    ASSUME NEW c, Companions = {c}, ClientAuthAssumption, VaultInv, AuthSetPassphrase(c)
    PROVE  VaultInv'
<1> USE DEF diskVars, Idle
<1>0. c \in Companions OBVIOUS
<1>1. PICK key \in Keys : Begin(c, "init", "passphrase", "none", key, {})
  BY DEF AuthSetPassphrase
<1>2. /\ job'[c].op = "init" /\ job'[c].tier = "passphrase"
      /\ job'[c].key = key /\ job'[c].secrets = {}
      /\ pc'[c] = "vault"
      /\ Shape'
  BY <1>0, <1>1 DEF AuthSetPassphrase, Begin, VaultInv, Shape
<1>3. AtVault(c)' BY <1>2 DEF AuthSetPassphrase, AtVault, Tiers, Absent
<1> QED BY <1>2, <1>3 DEF AuthSetPassphrase, VaultInv, HeldKeyOpensVault, Opens, Unlocked

\* The vault is replaced by what the handler computed from it.
LEMMA WriteVaultStep ==
    ASSUME NEW c, Companions = {c}, ClientAuthAssumption, VaultInv, WriteVault(c)
    PROVE  VaultInv'
<1>0. c \in Companions OBVIOUS
<1>1. AtVault(c) /\ pc[c] = "vault" BY <1>0 DEF WriteVault, VaultInv
<1>2. CASE job[c].op = "init"
  <2>1. /\ ppVault' = [key |-> job[c].key, secrets |-> {}] /\ job[c].key \in Keys
        /\ UNCHANGED osVault
        /\ ppKey' = [ppKey EXCEPT ![c] = job[c].key]
        /\ pc' = [pc EXCEPT ![c] = "idle"]
        /\ job' = [job EXCEPT ![c] = NoJob]
        /\ UNCHANGED <<index, attached, loaded>>
    BY <1>1, <1>2 DEF WriteVault, AtVault
  <2>2. Shape' BY <1>0, <2>1 DEF VaultInv, Shape, NoJob
  <2> QED BY <1>0, <2>1, <2>2 DEF VaultInv, Shape, HeldKeyOpensVault, Opens, Unlocked
<1>3. CASE job[c].op # "init"
  <2>1. /\ pc' = [pc EXCEPT ![c] = "index"]
        /\ UNCHANGED <<ppKey, job, index, attached, loaded>>
    BY <1>3 DEF WriteVault
  <2>2. CASE job[c].tier = "os"
    <3>1. osVault' = job[c].secrets /\ UNCHANGED ppVault BY <2>2 DEF WriteVault
    <3>2. Shape' BY <1>0, <1>1, <1>3, <2>1, <2>2, <3>1 DEF VaultInv, Shape, AtVault, Secrets
    <3>3. AtIndex(c)'
      BY <1>1, <1>3, <2>1, <2>2, <3>1 DEF AtVault, AtIndex, Secrets
    <3> QED BY <1>0, <2>1, <3>1, <3>2, <3>3 DEF VaultInv, Shape, HeldKeyOpensVault, Opens, Unlocked
  <2>3. CASE job[c].tier = "passphrase"
    <3>1. ppVault' = [key |-> job[c].key, secrets |-> job[c].secrets] /\ UNCHANGED osVault
      BY <2>3 DEF WriteVault
    <3>2. Opens(c) /\ job[c].key = ppKey[c] /\ ppKey[c] \in Keys
      BY <1>0, <1>1, <1>3, <2>3 DEF AtVault, Entitled, Opens, Unlocked, VaultInv, Shape
    <3>3. Shape' BY <1>0, <1>1, <1>3, <2>1, <2>3, <3>1, <3>2
                 DEF VaultInv, Shape, AtVault, Secrets
    <3>4. Opens(c)' BY <2>1, <3>1, <3>2 DEF Opens, Unlocked
    <3>5. AtIndex(c)'
      BY <1>1, <1>3, <2>1, <2>3, <3>1, <3>4 DEF AtVault, AtIndex
    <3>6. ppVault'.key \notin {"absent", "torn"}
      BY <3>1, <3>2 DEF ClientAuthAssumption
    <3> QED BY <1>0, <2>1, <3>3, <3>4, <3>5, <3>6 DEF VaultInv, Shape, HeldKeyOpensVault
  <2> QED BY <1>1, <2>2, <2>3 DEF AtVault, Tiers
<1> QED BY <1>2, <1>3

\* Nothing of the index touches the vaults.
LEMMA IndexStep ==
    ASSUME NEW c, Companions = {c}, VaultInv, ReadIndex(c) \/ WriteIndex(c)
    PROVE  VaultInv'
<1> USE DEF diskVars
<1>0. c \in Companions OBVIOUS
<1>1. CASE ReadIndex(c)
  <2>1. /\ job'[c].op = job[c].op /\ job'[c].tier = job[c].tier
        /\ job'[c].onion = job[c].onion /\ pc'[c] = "rewrite"
        /\ Shape'
    <3>1. PICK e : job' = [job EXCEPT ![c].entries = e] BY <1>1 DEF ReadIndex
    <3>2. job = [d \in Companions |->
             [op |-> job[c].op, tier |-> job[c].tier, onion |-> job[c].onion,
              key |-> job[c].key, secrets |-> job[c].secrets, entries |-> job[c].entries]]
      BY <1>0 DEF VaultInv, Shape
    <3>3. job'[c] = [op |-> job[c].op, tier |-> job[c].tier, onion |-> job[c].onion,
                     key |-> job[c].key, secrets |-> job[c].secrets, entries |-> e]
      BY <1>0, <3>1, <3>2
    <3>4. job' = [d \in Companions |-> job'[c]] BY <1>0, <3>1, <3>2
    <3>5. pc' = [pc EXCEPT ![c] = "rewrite"] /\ UNCHANGED <<diskVars, ppKey, attached, loaded>>
      BY <1>1 DEF ReadIndex
    <3> QED BY <1>0, <3>3, <3>4, <3>5 DEF VaultInv, Shape
  <2>2. AtIndex(c)'
    BY <1>0, <1>1, <2>1 DEF ReadIndex, VaultInv, AtIndex, Opens, Unlocked
  <2> QED BY <1>1, <2>1, <2>2 DEF ReadIndex, VaultInv, HeldKeyOpensVault, Opens, Unlocked
<1>2. CASE WriteIndex(c)
  <2>1. loaded' \in [Companions -> SUBSET Onions]
    BY <1>0, <1>2 DEF WriteIndex, Register, Carried, VaultInv, Shape, AtIndex
  <2>2. Shape' /\ pc'[c] = "idle"
    BY <1>0, <1>2, <2>1 DEF WriteIndex, VaultInv, Shape, NoJob
  <2> QED BY <1>0, <1>2, <2>2 DEF WriteIndex, VaultInv, HeldKeyOpensVault, Opens, Unlocked
<1> QED BY <1>1, <1>2

\* Only keys of stored onions are injected.
LEMMA AvailableAreOnions ==
    ASSUME NEW c \in Companions, VaultInv, UNCHANGED diskVars, Inject(c)
    PROVE  loaded' \in [Companions -> SUBSET Onions]
<1>1. Available(c) \subseteq Onions BY DEF Available, VaultInv, Shape
<1> QED BY <1>1 DEF Inject, Register, Carried, VaultInv, Shape

\* Unlocking takes the key that the vault has; locking and an exit forget it.
LEMMA KeyStep ==
    ASSUME NEW c, Companions = {c}, VaultInv,
           AuthUnlock(c) \/ AuthLock(c) \/ Start(c) \/ Stop(c) \/ Exit(c)
    PROVE  VaultInv'
<1> USE DEF diskVars, Idle
<1>0. c \in Companions OBVIOUS
<1>1. CASE AuthUnlock(c)
  <2>1. loaded' \in [Companions -> SUBSET Onions]
    BY <1>0, <1>1, AvailableAreOnions DEF AuthUnlock, VaultInv, Shape
  <2>2. Shape' BY <1>0, <1>1, <2>1 DEF AuthUnlock, VaultInv, Shape
  <2> QED BY <1>0, <1>1, <2>2
          DEF AuthUnlock, VaultInv, Shape, HeldKeyOpensVault, Opens, Unlocked
<1>2. CASE AuthLock(c)
  <2>1. loaded' \in [Companions -> SUBSET Onions]
    BY <1>0, <1>2 DEF AuthLock, Unregister, VaultInv, Shape
  <2>2. Shape' BY <1>0, <1>2, <2>1 DEF AuthLock, VaultInv, Shape
  <2> QED BY <1>0, <1>2, <2>2
          DEF AuthLock, VaultInv, Shape, HeldKeyOpensVault, Opens, Unlocked
<1>3. CASE Start(c)
  <2>1. loaded' \in [Companions -> SUBSET Onions]
    BY <1>0, <1>3, AvailableAreOnions DEF Start
  <2>2. Shape' BY <1>0, <1>3, <2>1 DEF Start, VaultInv, Shape
  <2> QED BY <1>0, <1>3, <2>2 DEF Start, VaultInv, HeldKeyOpensVault, Opens, Unlocked
<1>4. CASE Stop(c)
  <2>1. loaded' \in [Companions -> SUBSET Onions]
    BY <1>0, <1>4 DEF Stop, Detached, VaultInv, Shape
  <2>2. Shape' BY <1>0, <1>4, <2>1 DEF Stop, Detached, VaultInv, Shape
  <2> QED BY <1>0, <1>4, <2>2 DEF Stop, VaultInv, HeldKeyOpensVault, Opens, Unlocked
<1>5. CASE Exit(c)
  <2>1. loaded' \in [Companions -> SUBSET Onions]
    BY <1>0, <1>5 DEF Exit, Detached, VaultInv, Shape
  <2>2. Shape' BY <1>0, <1>5, <2>1 DEF Exit, Detached, VaultInv, Shape
  <2>3. ppKey'[c] = "none" BY <1>0, <1>5 DEF Exit, VaultInv, Shape
  <2> QED BY <1>0, <1>5, <2>2, <2>3
          DEF Exit, VaultInv, HeldKeyOpensVault, Opens, Unlocked
<1> QED BY <1>1, <1>2, <1>3, <1>4, <1>5

\* A kill empties one file at most, and the killed companion holds no key.
LEMMA CrashStep ==
    ASSUME NEW c, Companions = {c}, VaultInv, Crash(c)
    PROVE  VaultInv'
<1> USE DEF diskVars
<1>0. c \in Companions OBVIOUS
<1>1. loaded' \in [Companions -> SUBSET Onions]
  <2>1. Open(c) \subseteq Onions BY DEF Open, VaultInv, Shape
  <2> QED BY <1>0, <2>1 DEF Crash, LeavesTor, VaultInv, Shape
<1>2. /\ ppVault' \in {ppVault, Torn} /\ osVault' \in {osVault, {}}
  BY DEF Crash
<1>3. Shape'
  <2>1. /\ ppVault' \in [key : Keys \cup {"absent", "torn"}, secrets : SUBSET Onions]
        /\ osVault' \subseteq Onions
    BY <1>2 DEF VaultInv, Shape, Torn
  <2>2. /\ ppKey' \in [Companions -> Keys \cup {"none"}]
        /\ attached' \in [Companions -> BOOLEAN]
        /\ pc' \in [Companions -> {"idle", "vault", "index", "rewrite"}]
    BY <1>0 DEF Crash, VaultInv, Shape
  <2>3. job' = [d \in Companions |-> NoJob] BY <1>0 DEF Crash, VaultInv, Shape
  <2> QED BY <1>1, <2>1, <2>2, <2>3 DEF Shape, NoJob
<1>4. ppKey'[c] = "none" /\ pc'[c] = "idle" BY <1>0 DEF Crash, VaultInv, Shape
<1> QED BY <1>0, <1>2, <1>3, <1>4 DEF VaultInv, HeldKeyOpensVault, Unlocked, Torn

\* The end of an orphan concerns the keys it has, and no vault.
LEMMA OrphanStep ==
    ASSUME NEW c, Companions = {c}, VaultInv, OrphanEnds(c)
    PROVE  VaultInv' /\ UNCHANGED <<diskVars, ppKey, attached, pc, job, killed>>
<1> USE DEF diskVars
<1>1. Shape' BY DEF OrphanEnds, VaultInv, Shape
<1> QED BY <1>1 DEF OrphanEnds, VaultInv, HeldKeyOpensVault, Opens, Unlocked, AtVault,
                    AtIndex, Entitled, Secrets

\* Every step keeps the vault and what is known of it in agreement.
LEMMA VaultStep ==
    ASSUME NEW c, Companions = {c}, ClientAuthAssumption, VaultInv, [Next]_vars
    PROVE  VaultInv'
<1>1. ASSUME Handle(c) PROVE VaultInv'
  <2>1. ASSUME NEW credential \in Credentials, AuthAdd(c, credential[1], credential[2])
        PROVE  VaultInv'
    <3>1. credential[1] \in Tiers /\ credential[2] \in Onions BY DEF ClientAuthAssumption
    <3> QED BY <2>1, <3>1, AddStep
  <2> QED BY <1>1, <2>1, RemoveStep, SetPassphraseStep, WriteVaultStep, IndexStep, KeyStep
          DEF Handle
<1>2. ASSUME UNCHANGED vars PROVE VaultInv'
  BY <1>2 DEF vars, diskVars, VaultInv, Shape, HeldKeyOpensVault, Opens, Unlocked, AtVault,
              AtIndex, Entitled, Secrets
<1> QED BY <1>1, <1>2, CrashStep, OrphanStep DEF Next

\* The inductive invariant of the vaults.
LEMMA VaultCorrect == ASSUME OneCompanion PROVE Spec => []VaultInv
<1>1. Init => VaultInv BY VaultInit, ClientAuthAssumption
<1>2. VaultInv /\ [Next]_vars => VaultInv'
  BY VaultStep, ClientAuthAssumption DEF OneCompanion
<1> QED BY <1>1, <1>2, PTL DEF Spec

\* A key that is held opens the vault: pp_add and pp_secrets fail only while
\* locked (auth_store.rs:238-262), whenever the companion was killed before.
THEOREM HeldKeyIsRight == ASSUME OneCompanion PROVE Spec => []HeldKeyOpensVault
<1>1. VaultInv => HeldKeyOpensVault BY DEF VaultInv
<1> QED BY <1>1, VaultCorrect, PTL

---------------------------------------------------------------------------
\* What the store has, only a handler's write or a kill takes away.
LEMMA StoredStays ==
    ASSUME NEW c, Companions = {c}, VaultInv, Handle(c), ~WriteVault(c)
    PROVE  UNCHANGED Stored
BY DEF Handle, AuthAdd, AuthRemove, AuthSetPassphrase, ReadIndex, WriteIndex, AuthUnlock,
       AuthLock, Start, Stop, Exit, diskVars, Stored

\* A write takes away only what is removed.
LEMMA WriteKeepsOthers ==
    ASSUME NEW c, Companions = {c}, VaultInv, WriteVault(c),
           NEW onion \in Stored \ Stored'
    PROVE  job[c].op = "remove" /\ job[c].onion = onion
<1>1. AtVault(c) BY DEF WriteVault, VaultInv
<1>2. CASE job[c].op = "init"
  BY <1>1, <1>2 DEF WriteVault, AtVault, Absent, Stored
<1>3. CASE job[c].tier = "os" /\ job[c].op # "init"
  BY <1>1, <1>3 DEF WriteVault, AtVault, Secrets, Stored
<1>4. CASE job[c].tier = "passphrase" /\ job[c].op # "init"
  BY <1>1, <1>4 DEF WriteVault, AtVault, Secrets, Stored
<1> QED BY <1>1, <1>2, <1>3, <1>4 DEF AtVault, Tiers

\* A kill takes something away only in the middle of the write of a vault.
LEMMA KillLosesOneFile ==
    ASSUME NEW c, Companions = {c}, VaultInv, Crash(c), NEW onion \in Stored \ Stored'
    PROVE  killed' /\ pc[c] = "vault" /\ pc'[c] = "idle"
<1>1. pc'[c] = "idle" BY DEF Crash, VaultInv, Shape
<1> QED BY <1>1 DEF Crash, Stored, diskVars

\* Neither an addition, an unlock, a lock nor a start ever loses a secret; a kill
\* does so only in the middle of the write of its vault.
THEOREM SecretsAreKept == ASSUME OneCompanion PROVE Spec => SecretsPersist
<1>1. ASSUME VaultInv, [Next]_vars
      PROVE  [\A onion \in Stored \ Stored' :
                \E c \in Companions :
                   \/ job[c].op = "remove" /\ job[c].onion = onion
                   \/ killed' /\ pc[c] = "vault" /\ pc'[c] = "idle"]_vars
  <2> PICK d : Companions = {d} BY DEF OneCompanion
  <2>1. CASE Crash(d) BY <1>1, <2>1, KillLosesOneFile
  <2>2. CASE Handle(d) /\ WriteVault(d) BY <1>1, <2>2, WriteKeepsOthers
  <2>3. CASE Handle(d) /\ ~WriteVault(d)
    <3>1. UNCHANGED Stored BY <1>1, <2>3, StoredStays
    <3> QED BY <3>1
  <2>4. CASE OrphanEnds(d)
    <3>1. UNCHANGED Stored BY <2>4 DEF OrphanEnds, diskVars, Stored
    <3> QED BY <3>1
  <2> QED BY <1>1, <2>1, <2>2, <2>3, <2>4 DEF Next
<1> QED BY <1>1, VaultCorrect, PTL DEF Spec, SecretsPersist

---------------------------------------------------------------------------
\* The control port does what it is asked, and the Tor is one that a companion
\* has launched.  Without either, a key outlives the lock (auth_control_fails.cfg,
\* auth_lock_after_stop.cfg).
TorObeys == ~ControlFails /\ ~ReusedTor

\* The keys in the Tor of a companion are open, and a companion without one has
\* none in any: until it is killed, and again when what it has left has ended.
LoadedInv ==
    /\ orphaned \in [Companions -> BOOLEAN]
    /\ \A c \in Companions : ~orphaned[c] =>
          /\ loaded[c] \subseteq Open(c)
          /\ ~attached[c] => loaded[c] = {}
          /\ pc[c] = "vault" /\ job[c].op = "remove" => job[c].onion \notin loaded[c]

\* No Tor has a key at first.
LEMMA LoadedInit == ASSUME Init PROVE LoadedInv
BY DEF Init, LoadedInv

\* A new handler takes the key of what it removes out of the Tor first.
LEMMA LoadedBegin ==
    ASSUME NEW c, Companions = {c}, TorObeys, VaultInv, LoadedInv, UNCHANGED orphaned,
           NEW onion, (\E tier : AuthAdd(c, tier, onion)) \/ AuthRemove(c, onion)
                      \/ AuthSetPassphrase(c)
    PROVE  LoadedInv'
<1> SUFFICES ASSUME ~orphaned[c] PROVE LoadedInv'
  BY DEF LoadedInv
<1> USE DEF diskVars, Idle
<1>0. c \in Companions OBVIOUS
<1>1. Open(c)' = Open(c)
  BY DEF AuthAdd, AuthRemove, AuthSetPassphrase, Open, Opens, Unlocked
<1>2. CASE \E tier : AuthAdd(c, tier, onion)
  <2>1. pc'[c] = "vault" => job'[c].op = "add"
    BY <1>0, <1>2 DEF AuthAdd, Begin, VaultInv, Shape
  <2> QED BY <1>1, <1>2, <2>1 DEF AuthAdd, LoadedInv
<1>3. CASE AuthSetPassphrase(c)
  <2>1. pc'[c] = "vault" => job'[c].op = "init"
    BY <1>0, <1>3 DEF AuthSetPassphrase, Begin, VaultInv, Shape
  <2> QED BY <1>1, <1>3, <2>1 DEF AuthSetPassphrase, LoadedInv
<1>4. CASE AuthRemove(c, onion)
  <2>1. loaded'[c] = loaded[c] \ {onion}
    BY <1>0, <1>4 DEF AuthRemove, Unregister, Carried, TorObeys, LoadedInv, VaultInv, Shape
  <2>2. pc'[c] = "vault" => job'[c].onion = onion
    BY <1>0, <1>4 DEF AuthRemove, Begin, VaultInv, Shape
  <2> QED BY <1>1, <1>4, <2>1, <2>2 DEF AuthRemove, LoadedInv
<1> QED BY <1>2, <1>3, <1>4

\* The vault may lose what is not loaded, and gains what is loaded next.
LEMMA LoadedWriteVault ==
    ASSUME NEW c, Companions = {c}, ClientAuthAssumption, VaultInv, LoadedInv,
           UNCHANGED orphaned, WriteVault(c)
    PROVE  LoadedInv'
<1> SUFFICES ASSUME ~orphaned[c] PROVE LoadedInv'
  BY DEF LoadedInv
<1>0. c \in Companions OBVIOUS
<1>1. AtVault(c) /\ pc[c] = "vault" BY <1>0 DEF WriteVault, VaultInv
<1>2. pc'[c] # "vault" BY <1>0 DEF WriteVault, VaultInv, Shape
<1>3. loaded[c] \subseteq Open(c)'
  <2>1. CASE job[c].op = "init"
    <3>1. ~Opens(c)
      BY <1>0, <1>1, <2>1 DEF AtVault, Absent, Opens, Unlocked, VaultInv, Shape, ClientAuthAssumption
    <3>2. UNCHANGED osVault BY <1>1, <2>1 DEF WriteVault, AtVault
    <3> QED BY <3>1, <3>2 DEF LoadedInv, Open
  <2>2. CASE job[c].tier = "os" /\ job[c].op # "init"
    <3>1. osVault' = job[c].secrets /\ UNCHANGED <<ppVault, ppKey>> BY <2>2 DEF WriteVault
    <3> QED BY <1>0, <1>1, <2>2, <3>1 DEF AtVault, Secrets, LoadedInv, Open, Opens, Unlocked
  <2>3. CASE job[c].tier = "passphrase" /\ job[c].op # "init"
    <3>1. /\ ppVault' = [key |-> job[c].key, secrets |-> job[c].secrets]
          /\ UNCHANGED <<osVault, ppKey>>
      BY <2>3 DEF WriteVault
    <3>2. Opens(c) /\ Opens(c)'
      BY <1>1, <2>3, <3>1 DEF AtVault, Entitled, Opens, Unlocked
    <3> QED BY <1>0, <1>1, <2>3, <3>1, <3>2 DEF AtVault, Secrets, LoadedInv, Open
  <2> QED BY <1>1, <2>1, <2>2, <2>3 DEF AtVault, Tiers
<1> QED BY <1>2, <1>3 DEF WriteVault, LoadedInv

\* An addition loads its key once it is stored.
LEMMA LoadedIndex ==
    ASSUME NEW c, Companions = {c}, TorObeys, VaultInv, LoadedInv, UNCHANGED orphaned,
           ReadIndex(c) \/ WriteIndex(c)
    PROVE  LoadedInv'
<1> SUFFICES ASSUME ~orphaned[c] PROVE LoadedInv'
  BY DEF LoadedInv
<1> USE DEF diskVars
<1>0. c \in Companions OBVIOUS
<1>1. Open(c)' = Open(c) BY DEF ReadIndex, WriteIndex, Open, Opens, Unlocked
<1>2. pc'[c] # "vault" BY <1>0 DEF ReadIndex, WriteIndex, VaultInv, Shape
<1>3. CASE ReadIndex(c) BY <1>1, <1>2, <1>3 DEF ReadIndex, LoadedInv
<1>4. CASE WriteIndex(c)
  <2>1. CASE job[c].op = "add" /\ attached[c]
    <3>1. job[c].onion \in Open(c) BY <1>0, <1>4, <2>1 DEF WriteIndex, VaultInv, AtIndex, Open
    <3>2. loaded'[c] = loaded[c] \cup {job[c].onion}
      BY <1>0, <1>4, <2>1 DEF WriteIndex, Register, Carried, TorObeys, VaultInv, Shape
    <3> QED BY <1>1, <1>2, <1>4, <2>1, <3>1, <3>2 DEF WriteIndex, LoadedInv
  <2>2. CASE ~(job[c].op = "add" /\ attached[c])
    BY <1>1, <1>2, <1>4, <2>2 DEF WriteIndex, LoadedInv
  <2> QED BY <2>1, <2>2
<1> QED BY <1>3, <1>4

\* Only what is open is injected, and a lock unloads what it closes.
LEMMA LoadedKeys ==
    ASSUME NEW c, Companions = {c}, TorObeys, ClientAuthAssumption, VaultInv, LoadedInv,
           UNCHANGED orphaned, AuthUnlock(c) \/ AuthLock(c) \/ Start(c)
    PROVE  LoadedInv'
<1> SUFFICES ASSUME ~orphaned[c] PROVE LoadedInv'
  BY DEF LoadedInv
<1> USE DEF diskVars, Idle
<1>0. c \in Companions OBVIOUS
<1>1. pc'[c] # "vault" BY DEF AuthUnlock, AuthLock, Start
<1>2. Inject(c) => loaded'[c] = loaded[c] \cup Available(c)
  BY <1>0 DEF Inject, Register, Carried, TorObeys, VaultInv, Shape
<1>3. CASE AuthUnlock(c)
  <2>1. ppKey'[c] = ppVault.key /\ ppVault.key # "none"
    BY <1>0, <1>3 DEF AuthUnlock, VaultInv, Shape, ClientAuthAssumption
  <2>2. Open(c)' = osVault \cup ppVault.secrets
    BY <1>3, <2>1 DEF AuthUnlock, Open, Opens, Unlocked
  <2>3. Available(c) = osVault \cup ppVault.secrets BY <2>1 DEF Available
  <2>4. loaded'[c] \subseteq Open(c)'
    BY <1>0, <1>2, <1>3, <2>2, <2>3 DEF AuthUnlock, LoadedInv, Open
  <2> QED BY <1>1, <1>3, <2>4 DEF AuthUnlock, LoadedInv
<1>4. CASE AuthLock(c)
  <2>1. loaded'[c] \subseteq loaded[c] \cap osVault
    BY <1>0, <1>4 DEF AuthLock, Unregister, Carried, TorObeys, LoadedInv, Open, VaultInv, Shape
  <2>2. osVault \subseteq Open(c)' BY <1>4 DEF AuthLock, Open
  <2> QED BY <1>1, <1>4, <2>1, <2>2 DEF AuthLock, LoadedInv
<1>5. CASE Start(c)
  <2>1. attached'[c] /\ UNCHANGED <<ppKey, osVault, ppVault>> /\ Inject(c)
    BY <1>0, <1>5 DEF Start, VaultInv, Shape
  <2>2. ppKey[c] = ppVault.key => Opens(c)
    BY <1>0 DEF Opens, Unlocked, VaultInv, Shape, ClientAuthAssumption
  <2>3. Available(c) \subseteq Open(c) BY <2>1, <2>2 DEF Available, Open
  <2>4. Open(c)' = Open(c) BY <2>1 DEF Open, Opens, Unlocked
  <2> QED BY <1>0, <1>1, <1>2, <2>1, <2>3, <2>4 DEF LoadedInv
<1> QED BY <1>3, <1>4, <1>5

\* A Tor that the companion stops ends, and its keys with it.
LEMMA LoadedDetached ==
    ASSUME NEW c, Companions = {c}, TorObeys, VaultInv, LoadedInv, UNCHANGED orphaned,
           Stop(c) \/ Exit(c)
    PROVE  LoadedInv'
<1> USE DEF Idle
<1>0. c \in Companions OBVIOUS
<1>1. ~orphaned[c] => loaded'[c] = {}
  BY <1>0 DEF Stop, Exit, Detached, Reused, TorObeys, VaultInv, Shape
<1>2. pc'[c] = "idle" BY DEF Stop, Exit
<1> QED BY <1>1, <1>2 DEF LoadedInv

\* A companion that is killed leaves its Tor an orphan, or has none.
LEMMA LoadedKilled ==
    ASSUME NEW c, Companions = {c}, TorObeys, VaultInv, LoadedInv, Crash(c)
    PROVE  LoadedInv'
<1>0. c \in Companions OBVIOUS
<1>1. pc'[c] = "idle" BY <1>0 DEF Crash, VaultInv, Shape
<1>2. orphaned' \in [Companions -> BOOLEAN]
  BY <1>0 DEF Crash, LeavesTor, TorObeys, LoadedInv, VaultInv, Shape
<1>3. ~orphaned'[c] => ~orphaned[c] /\ ~attached[c] /\ UNCHANGED loaded
  BY <1>0 DEF Crash, LeavesTor, TorObeys, LoadedInv, VaultInv, Shape
<1> QED BY <1>1, <1>2, <1>3 DEF LoadedInv

\* The keys of an orphan are gone when it is.
LEMMA LoadedEnds ==
    ASSUME NEW c, Companions = {c}, VaultInv, LoadedInv, OrphanEnds(c)
    PROVE  LoadedInv'
<1> USE DEF diskVars
<1>0. c \in Companions OBVIOUS
<1>1. loaded'[c] = {} BY <1>0 DEF OrphanEnds, VaultInv, Shape
<1>2. orphaned' \in [Companions -> BOOLEAN] BY <1>0 DEF OrphanEnds, LoadedInv
<1> QED BY <1>1, <1>2 DEF LoadedInv

\* No step loads a key that is not open, except into an orphan.
LEMMA LoadedStep ==
    ASSUME NEW c, Companions = {c}, TorObeys, ClientAuthAssumption, VaultInv, LoadedInv,
           [Next]_vars
    PROVE  LoadedInv'
<1>1. ASSUME Handle(c), UNCHANGED orphaned PROVE LoadedInv'
  BY <1>1, LoadedBegin, LoadedWriteVault, LoadedIndex, LoadedKeys, LoadedDetached DEF Handle
<1>2. ASSUME UNCHANGED vars PROVE LoadedInv'
  BY <1>2 DEF vars, diskVars, LoadedInv, Open, Opens, Unlocked
<1> QED BY <1>1, <1>2, LoadedKilled, LoadedEnds DEF Next

\* "so locking takes effect immediately" (main.rs:444): what is true of it.
THEOREM LockingTakesEffect ==
    ASSUME OneCompanion, TorObeys PROVE Spec => []LockTakesEffect
<1>1. Init => LoadedInv BY LoadedInit
<1>2. VaultInv /\ LoadedInv /\ [Next]_vars => LoadedInv'
  BY LoadedStep, ClientAuthAssumption DEF OneCompanion
<1>3. LoadedInv => LockTakesEffect
  BY DEF LoadedInv, LockTakesEffect, Open, Opens
<1> QED BY <1>1, <1>2, <1>3, VaultCorrect, PTL DEF Spec
---------------------------------------------------------------------------
\* The kept places, numbered in their order: each number is one place's.
LEMMA Numbered ==
    ASSUME NEW len \in Nat, NEW places \in SUBSET (1..len)
    PROVE  LET Rank(i) == Cardinality({j \in places : j <= i})
           IN  /\ Cardinality(places) \in Nat
               /\ \A i \in places : Rank(i) \in 1..Cardinality(places)
               /\ \A n \in 1..Cardinality(places) : \E i \in places : Rank(i) = n
               /\ \A i, j \in places : Rank(i) = Rank(j) => i = j
<1> DEFINE Below(i) == {j \in places : j <= i}
           Rank(i) == Cardinality(Below(i))
           size == Cardinality(places)
<1>1. IsFiniteSet(places) /\ size \in Nat
    <2>1. IsFiniteSet(1..len)
        BY FS_Interval
    <2>2. IsFiniteSet(places)
        BY <2>1, FS_Subset
    <2> QED BY <2>2, FS_CardinalityType
<1>0. \A i \in places : i \in Int
    OBVIOUS
<1>2. \A i \in places : /\ IsFiniteSet(Below(i)) /\ Rank(i) \in Nat
                        /\ Rank(i) <= size /\ Rank(i) # 0
    <2> TAKE i \in places
    <2>1. Below(i) \in SUBSET places /\ i \in Below(i)
        BY <1>0
    <2>2. IsFiniteSet(Below(i)) /\ Rank(i) <= size
        BY <1>1, <2>1, FS_Subset
    <2>3. Rank(i) \in Nat /\ Rank(i) # 0
        BY <2>1, <2>2, FS_CardinalityType, FS_EmptySet
    <2> QED BY <2>2, <2>3
<1>3. \A i, j \in places : Rank(i) = Rank(j) => i = j
    <2>1. \A i, j \in places : i < j => Rank(i) # Rank(j)
        <3> TAKE i \in places, j \in places
        <3> HAVE i < j
        <3>0. i \in Int /\ j \in Int /\ j <= j /\ ~(j <= i)
            BY <1>0
        <3>1. \A k \in places : k <= i => k <= j
            BY <1>0, <3>0
        <3>2. Below(i) \in SUBSET Below(j)
            BY <3>1
        <3>3. j \in Below(j) /\ j \notin Below(i)
            BY <3>0
        <3> HIDE DEF Below
        <3> QED BY <1>2, <3>2, <3>3, FS_Subset
    <2> HIDE DEF Rank
    <2>2. \A i, j \in places : i < j \/ j < i \/ i = j
        BY <1>0
    <2> QED BY <2>1, <2>2
<1>4. \A n \in 1..size : \E i \in places : Rank(i) = n
    <2> DEFINE f == [i \in places |-> Rank(i)]
    <2>0. \A i \in places : Rank(i) \in 1..size
        BY <1>1, <1>2
    <2> HIDE DEF Rank, size
    <2>1. f \in Injection(places, 1..size)
        BY <1>3, <2>0 DEF Injection, IsInjective
    <2>2. IsFiniteSet(1..size) /\ Cardinality(1..size) = size
        BY <1>1, FS_Interval
    <2>3. f \in Surjection(places, 1..size)
        BY <2>1, <2>2, FS_Injection DEF size
    <2> QED BY <2>3 DEF Surjection
<1>5. \A i \in places : Rank(i) \in 1..size
    BY <1>1, <1>2
<1> HIDE DEF size
<1> QED BY <1>1, <1>3, <1>4, <1>5 DEF size

\* Retain keeps exactly what is to be kept.
LEMMA Retained ==
    ASSUME NEW S, NEW s \in Seq(S), NEW kept
    PROVE  /\ Retain(s, kept) \in Seq(S)
           /\ \A x : (\E n \in DOMAIN Retain(s, kept) : Retain(s, kept)[n] = x)
                        <=> x \in kept /\ \E i \in DOMAIN s : s[i] = x
<1> DEFINE places == {i \in DOMAIN s : s[i] \in kept}
           Rank(i) == Cardinality({j \in places : j <= i})
           size == Cardinality(places)
           Nth(n) == CHOOSE i \in places : Rank(i) = n
           r == [n \in 1..size |-> s[Nth(n)]]
<1>1. Len(s) \in Nat /\ DOMAIN s = 1..Len(s) /\ \A i \in DOMAIN s : s[i] \in S
    BY LenProperties, ElementOfSeq
<1>2. places \in SUBSET (1..Len(s))
    BY <1>1
<1>3. /\ size \in Nat
      /\ \A i \in places : Rank(i) \in 1..size
      /\ \A n \in 1..size : \E i \in places : Rank(i) = n
      /\ \A i, j \in places : Rank(i) = Rank(j) => i = j
    <2> HIDE DEF places
    <2> QED BY <1>1, <1>2, Numbered DEF places
<1>0. Retain(s, kept) = r
    BY DEF Retain
<1>p. \A i \in places : i \in DOMAIN s /\ s[i] \in kept
    OBVIOUS
<1>q. \A i \in DOMAIN s : s[i] \in kept => i \in places
    OBVIOUS
<1> HIDE DEF size, Rank, places
<1>4. \A n \in 1..size : Nth(n) \in places /\ Rank(Nth(n)) = n
    BY <1>3
<1>5. \A i \in places : Nth(Rank(i)) = i
    BY <1>3, <1>4
<1> HIDE DEF Nth
<1>6. \A n \in 1..size : r[n] = s[Nth(n)]
    OBVIOUS
<1>7. r \in [1..size -> S]
    BY <1>1, <1>4, <1>p
<1>8. r \in Seq(S) /\ DOMAIN r = 1..size
    BY <1>3, <1>7, SeqDef
<1> HIDE DEF r
<1>9. ASSUME NEW x, NEW n \in 1..size, r[n] = x
      PROVE  x \in kept /\ \E i \in DOMAIN s : s[i] = x
    BY <1>4, <1>6, <1>9, <1>p
<1>10. ASSUME NEW x, x \in kept, NEW i \in DOMAIN s, s[i] = x
       PROVE  \E n \in 1..size : r[n] = x
    <2>1. i \in places BY <1>10, <1>q
    <2>2. Rank(i) \in 1..size /\ Nth(Rank(i)) = i BY <1>3, <1>5, <2>1
    <2> QED BY <1>6, <1>10, <2>2
<1> QED BY <1>0, <1>8, <1>9, <1>10

---------------------------------------------------------------------------
\* Each onion is stored in one tier.  With an onion in both, removing it leaves
\* a secret that no entry names (auth_two_tiers.cfg).
OneTierPerOnion == \A a, b \in Credentials : a[2] = b[2] => a[1] = b[1]

\* The onions a list of entries names in a tier.
Listing(s, tier) ==
    {onion \in Onions : \E i \in DOMAIN s : s[i] = [tier |-> tier, onion |-> onion]}

Agrees(s) == \A tier \in Tiers : Listing(s, tier) = Secrets(tier)

\* What a handler that has written its vault has yet to do to the index.
Intended(c, tier) ==
    IF job[c].op = "remove" THEN Listing(index, tier) \ {job[c].onion}
    ELSE IF tier = job[c].tier THEN Listing(index, tier) \cup {job[c].onion}
         ELSE Listing(index, tier)

IndexInv ==
    /\ index \in Seq(Entry)
    /\ \A tier \in Tiers : \A onion \in Secrets(tier) : <<tier, onion>> \in Credentials
    /\ \A c \in Companions :
          /\ pc[c] \in {"idle", "vault"} => Agrees(index)
          /\ pc[c] # "idle" /\ job[c].op # "init" =>
                <<job[c].tier, job[c].onion>> \in Credentials
          /\ pc[c] \in {"index", "rewrite"} =>
                \A tier \in Tiers : Secrets(tier) = Intended(c, tier)
          /\ pc[c] = "rewrite" => job[c].entries \in Seq(Entry) /\ Agrees(job[c].entries)

\* What a name in a list means.
LEMMA ListingOf ==
    ASSUME NEW s, NEW tier \in Tiers, NEW onion \in Onions
    PROVE  /\ [tier |-> tier, onion |-> onion] \in Entry
           /\ onion \in Listing(s, tier) <=>
                 \E i \in DOMAIN s : s[i] = [tier |-> tier, onion |-> onion]
BY DEF Listing, Entry

\* An entry that is retained is named as before, any other no longer.
LEMMA RetainedNames ==
    ASSUME NEW s \in Seq(Entry), NEW kept
    PROVE  /\ Retain(s, kept) \in Seq(Entry)
           /\ \A tier \in Tiers, onion \in Onions :
                 onion \in Listing(Retain(s, kept), tier) <=>
                    /\ onion \in Listing(s, tier)
                    /\ [tier |-> tier, onion |-> onion] \in kept
<1> DEFINE r == Retain(s, kept)
<1>1. /\ r \in Seq(Entry)
      /\ \A x : (\E n \in DOMAIN r : r[n] = x) <=> x \in kept /\ \E i \in DOMAIN s : s[i] = x
    <2>1. r \in Seq(Entry)
        BY Retained
    <2>2. ASSUME NEW x
          PROVE  (\E n \in DOMAIN r : r[n] = x) <=> x \in kept /\ \E i \in DOMAIN s : s[i] = x
        BY Retained
    <2> HIDE DEF r
    <2> QED BY <2>1, <2>2
<1> HIDE DEF r
<1>2. ASSUME NEW tier \in Tiers, NEW onion \in Onions
      PROVE  onion \in Listing(r, tier) <=>
                /\ onion \in Listing(s, tier)
                /\ [tier |-> tier, onion |-> onion] \in kept
    <2> DEFINE e == [tier |-> tier, onion |-> onion]
    <2>1. /\ onion \in Listing(r, tier) <=> \E n \in DOMAIN r : r[n] = e
          /\ onion \in Listing(s, tier) <=> \E i \in DOMAIN s : s[i] = e
        BY ListingOf
    <2> HIDE DEF e
    <2>2. (\E n \in DOMAIN r : r[n] = e) <=> e \in kept /\ \E i \in DOMAIN s : s[i] = e
        BY <1>1
    <2>3. onion \in Listing(r, tier) <=> onion \in Listing(s, tier) /\ e \in kept
        BY <2>1, <2>2
    <2> QED BY <2>3 DEF e
<1> QED BY <1>1, <1>2 DEF r

\* upsert_index (auth_store.rs:104-111) adds one name, whatever was there.
LEMMA UpsertAddsOne ==
    ASSUME index \in Seq(Entry), NEW tier \in Tiers, NEW onion \in Onions
    PROVE  /\ Upsert(tier, onion) \in Seq(Entry)
           /\ Listing(Upsert(tier, onion), tier) = Listing(index, tier) \cup {onion}
           /\ \A other \in Tiers \ {tier} :
                 Listing(Upsert(tier, onion), other) = Listing(index, other)
<1> DEFINE entry == [tier |-> tier, onion |-> onion]
           r == Retain(index, Entry \ {entry})
           u == Append(r, entry)
<1>1. /\ r \in Seq(Entry)
      /\ \A t \in Tiers, o \in Onions :
            o \in Listing(r, t) <=> /\ o \in Listing(index, t)
                                    /\ [tier |-> t, onion |-> o] \in Entry \ {entry}
    BY RetainedNames
<1>2. entry \in Entry
    BY ListingOf
<1>3. Upsert(tier, onion) = u
    BY DEF Upsert
<1> HIDE DEF r
<1>4. /\ u \in Seq(Entry)
      /\ \A i \in DOMAIN r : i \in DOMAIN u /\ u[i] = r[i]
      /\ \A i \in DOMAIN u : i \in DOMAIN r \/ i = Len(r) + 1
      /\ Len(r) + 1 \in DOMAIN u /\ u[Len(r) + 1] = entry
    BY <1>1, <1>2, Appended
<1> HIDE DEF u
<1>5. ASSUME NEW t \in Tiers, NEW o \in Onions
      PROVE  o \in Listing(u, t) <=> o \in Listing(r, t) \/ [tier |-> t, onion |-> o] = entry
    <2> DEFINE e == [tier |-> t, onion |-> o]
    <2>1. /\ o \in Listing(u, t) <=> \E i \in DOMAIN u : u[i] = e
          /\ o \in Listing(r, t) <=> \E i \in DOMAIN r : r[i] = e
        BY ListingOf
    <2> HIDE DEF e, entry
    <2> QED BY <1>4, <2>1 DEF e
<1>6. ASSUME NEW t \in Tiers, NEW o \in Onions
      PROVE  o \in Listing(u, t) <=> o \in Listing(index, t) \/ (t = tier /\ o = onion)
    <2>1. [tier |-> t, onion |-> o] = entry <=> t = tier /\ o = onion
        OBVIOUS
    <2>2. [tier |-> t, onion |-> o] \in Entry
        BY ListingOf
    <2> QED BY <1>1, <1>5, <2>1, <2>2
<1>7. \A t \in Tiers : Listing(u, t) \subseteq Onions /\ Listing(index, t) \subseteq Onions
    BY DEF Listing
<1> QED BY <1>3, <1>4, <1>6, <1>7

\* Removal (auth_store.rs:283-289) drops one name, from both tiers.
LEMMA DroppedDropsOne ==
    ASSUME index \in Seq(Entry), NEW onion
    PROVE  /\ Dropped(onion) \in Seq(Entry)
           /\ \A tier \in Tiers :
                 Listing(Dropped(onion), tier) = Listing(index, tier) \ {onion}
<1>1. /\ Dropped(onion) \in Seq(Entry)
      /\ \A t \in Tiers, o \in Onions :
            o \in Listing(Dropped(onion), t) <=>
               /\ o \in Listing(index, t)
               /\ [tier |-> t, onion |-> o] \in Entry \ Naming(onion)
    BY RetainedNames DEF Dropped
<1>2. ASSUME NEW t \in Tiers, NEW o \in Onions
      PROVE  [tier |-> t, onion |-> o] \in Entry \ Naming(onion) <=> o # onion
    BY ListingOf DEF Naming
<1>3. \A t \in Tiers : /\ Listing(Dropped(onion), t) \subseteq Onions
                       /\ Listing(index, t) \subseteq Onions
    BY DEF Listing
<1> QED BY <1>1, <1>2, <1>3

\* tier_of (auth_store.rs:115-124) finds an entry of the onion if there is one.
LEMMA TierOfFinds ==
    ASSUME index \in Seq(Entry), NEW onion \in Onions
    PROVE  \/ TierOf(onion) \in Tiers /\ onion \in Listing(index, TierOf(onion))
           \/ TierOf(onion) = "none" /\ \A tier \in Tiers : onion \notin Listing(index, tier)
<1> DEFINE m == Retain(index, Naming(onion))
<1>1. /\ m \in Seq(Entry)
      /\ \A t \in Tiers, o \in Onions :
            o \in Listing(m, t) <=> /\ o \in Listing(index, t)
                                    /\ [tier |-> t, onion |-> o] \in Naming(onion)
    BY RetainedNames
<1>2. TierOf(onion) = IF m = <<>> THEN "none" ELSE Head(m).tier
    BY DEF TierOf
<1>3. \A t \in Tiers : [tier |-> t, onion |-> onion] \in Naming(onion)
    BY ListingOf DEF Naming
<1>4. \A e \in Naming(onion) : e.tier \in Tiers /\ e = [tier |-> e.tier, onion |-> onion]
    BY DEF Naming, Entry
<1>5. \A n \in DOMAIN m : m[n] \in Naming(onion)
    BY Retained
<1> HIDE DEF m
<1>6. CASE m = <<>>
    <2>1. DOMAIN m = 1..Len(m) /\ Len(m) = 0
        BY <1>1, <1>6, EmptySeq, LenProperties
    <2>2. \A i \in DOMAIN m : FALSE
        BY <2>1
    <2>3. \A t \in Tiers : onion \notin Listing(m, t)
        BY <2>2, ListingOf
    <2> QED BY <1>1, <1>2, <1>3, <1>6, <2>3
<1>7. CASE m # <<>>
    <2>1. 1 \in DOMAIN m /\ Head(m) = m[1]
        BY <1>1, <1>7, Shortened
    <2>2. m[1] \in Naming(onion)
        BY <1>5, <2>1
    <2>3. m[1].tier \in Tiers /\ m[1] = [tier |-> m[1].tier, onion |-> onion]
        BY <1>4, <2>2
    <2>4. onion \in Listing(m, m[1].tier)
        BY <2>1, <2>3, ListingOf
    <2> QED BY <1>1, <1>2, <1>7, <2>1, <2>3, <2>4
<1> QED BY <1>6, <1>7


---------------------------------------------------------------------------
\* Without entries and without secrets they agree.
LEMMA IndexInit == ASSUME Init PROVE IndexInv
<1>1. \A tier \in Tiers : Secrets(tier) = {} /\ Listing(index, tier) = {}
    BY DEF Init, Secrets, Absent, Listing
<1>2. index \in Seq(Entry)
    BY EmptySeq DEF Init
<1> QED BY <1>1, <1>2 DEF Init, IndexInv, Agrees

\* What touches neither files nor jobs keeps the index right.
LEMMA IndexFrame ==
    ASSUME IndexInv, UNCHANGED <<index, osVault, ppVault, pc, job>>
    PROVE  IndexInv'
<1>1. \A tier \in Tiers : /\ Secrets(tier)' = Secrets(tier)
                          /\ Listing(index, tier)' = Listing(index, tier)
    BY DEF Secrets, Listing
<1>2. \A c \in Companions : \A tier \in Tiers :
         /\ Listing(job[c].entries, tier)' = Listing(job[c].entries, tier)
         /\ Intended(c, tier)' = Intended(c, tier)
    BY DEF Listing, Intended
<1> QED BY <1>1, <1>2 DEF IndexInv, Agrees

\* A handler begins with an index that is right.
LEMMA IndexBegin ==
    ASSUME NEW c, Companions = {c}, ClientAuthAssumption, VaultInv, IndexInv,
           \/ \E credential \in Credentials : AuthAdd(c, credential[1], credential[2])
           \/ \E onion \in Onions : AuthRemove(c, onion)
           \/ AuthSetPassphrase(c)
    PROVE  IndexInv'
<1> USE DEF diskVars, Idle
<1>0. c \in Companions /\ pc[c] = "idle" /\ Agrees(index)
    BY DEF AuthAdd, AuthRemove, AuthSetPassphrase, IndexInv
<1>1. UNCHANGED <<index, osVault, ppVault>>
    BY DEF AuthAdd, AuthRemove, AuthSetPassphrase
<1>2. Agrees(index)' /\ \A tier \in Tiers : Secrets(tier)' = Secrets(tier)
    BY <1>0, <1>1 DEF Agrees, Secrets, Listing
<1>3. ASSUME NEW op, NEW tier, NEW onion, NEW key, NEW secrets,
             Begin(c, op, tier, onion, key, secrets),
             op # "init" => <<tier, onion>> \in Credentials
      PROVE  IndexInv'
    <2>1. pc'[c] = "vault" /\ job'[c].op = op /\ job'[c].tier = tier /\ job'[c].onion = onion
        BY <1>0, <1>3 DEF Begin, VaultInv, Shape
    <2> QED BY <1>0, <1>1, <1>2, <1>3, <2>1 DEF IndexInv
<1>4. ASSUME NEW credential \in Credentials, AuthAdd(c, credential[1], credential[2])
      PROVE  IndexInv'
    <2>1. <<credential[1], credential[2]>> \in Credentials
        BY DEF ClientAuthAssumption
    <2> QED BY <1>3, <1>4, <2>1 DEF AuthAdd
<1>5. ASSUME NEW onion \in Onions, AuthRemove(c, onion)
      PROVE  IndexInv'
    <2>1. CASE UNCHANGED <<pc, job>>
        BY <1>1, <2>1, IndexFrame
    <2>2. CASE TierOf(onion) = "os" \/ (TierOf(onion) = "passphrase" /\ Opens(c))
        <3>1. TierOf(onion) \in Tiers /\ onion \in Listing(index, TierOf(onion))
            BY <2>2, TierOfFinds DEF IndexInv
        <3>2. <<TierOf(onion), onion>> \in Credentials
            BY <1>0, <3>1 DEF IndexInv, Agrees
        <3> HIDE DEF TierOf
        <3> QED BY <1>3, <1>5, <2>2, <3>2 DEF AuthRemove
    <2> QED BY <1>5, <2>1, <2>2 DEF AuthRemove
<1>6. CASE AuthSetPassphrase(c)
    BY <1>3, <1>6 DEF AuthSetPassphrase
<1> QED BY <1>4, <1>5, <1>6

\* The vault that is written holds what the index is about to name.
LEMMA IndexWriteVault ==
    ASSUME NEW c, Companions = {c}, OneTierPerOnion, VaultInv, IndexInv, WriteVault(c)
    PROVE  IndexInv'
<1>0. c \in Companions /\ pc[c] = "vault" /\ AtVault(c) /\ Agrees(index) /\ UNCHANGED index
    BY DEF WriteVault, VaultInv, IndexInv
<1>1. \A tier \in Tiers : Listing(index, tier)' = Listing(index, tier)
    BY <1>0 DEF Listing
<1>2. CASE job[c].op = "init"
    <2>1. pc'[c] = "idle" /\ \A tier \in Tiers : Secrets(tier)' = Secrets(tier)
        <3>1. /\ ppVault.secrets = {} /\ job[c].secrets = {} /\ job[c].tier = "passphrase"
            BY <1>0, <1>2 DEF AtVault, Absent
        <3>2. ppVault'.secrets = ppVault.secrets /\ UNCHANGED osVault
            BY <3>1 DEF WriteVault
        <3>3. pc'[c] = "idle"
            BY <1>0, <1>2 DEF WriteVault, VaultInv, Shape
        <3> QED BY <3>2, <3>3 DEF Secrets
    <2>2. Agrees(index)'
        BY <1>0, <1>1, <2>1 DEF Agrees
    <2> QED BY <1>0, <2>1, <2>2 DEF IndexInv
<1>3. CASE job[c].op # "init"
    <2> DEFINE t == job[c].tier
               o == job[c].onion
    <2>1. pc'[c] = "index" /\ UNCHANGED job
        BY <1>0, <1>3 DEF WriteVault, VaultInv, Shape
    <2>2. /\ <<t, o>> \in Credentials /\ t \in Tiers
          /\ \/ job[c].op = "add" /\ job[c].secrets = Secrets(t) \cup {o}
             \/ job[c].op = "remove" /\ job[c].secrets = Secrets(t) \ {o}
        BY <1>0, <1>3 DEF IndexInv, AtVault
    <2>3. /\ Secrets(t)' = job[c].secrets
          /\ \A tier \in Tiers \ {t} : Secrets(tier)' = Secrets(tier)
        BY <2>2 DEF WriteVault, Secrets, Tiers
    <2>4. \A tier \in Tiers : \A onion \in Secrets(tier) : <<tier, onion>> \in Credentials
        BY DEF IndexInv
    <2>5. \A tier \in Tiers \ {t} : o \notin Secrets(tier)
        BY <2>2, <2>4 DEF OneTierPerOnion
    <2>6. \A tier \in Tiers : Secrets(tier)' = Intended(c, tier)'
        BY <1>0, <1>1, <2>1, <2>2, <2>3, <2>5 DEF Intended, Agrees
    <2>7. \A tier \in Tiers : \A onion \in Secrets(tier)' : <<tier, onion>> \in Credentials
        <3> TAKE tier \in Tiers
        <3>1. CASE tier = t
            <4>1. Secrets(tier)' = job[c].secrets
                BY <2>1, <2>3, <3>1
            <4> QED BY <2>2, <2>4, <3>1, <4>1
        <3>2. CASE tier # t
            BY <2>3, <2>4, <3>2
        <3> QED BY <3>1, <3>2
    <2> QED BY <1>0, <1>3, <2>1, <2>2, <2>6, <2>7 DEF IndexInv
<1> QED BY <1>2, <1>3

\* The list that is written names what the vaults hold by then.
LEMMA IndexRewritten ==
    ASSUME NEW c, Companions = {c}, ClientAuthAssumption, VaultInv, IndexInv,
           ReadIndex(c) \/ WriteIndex(c)
    PROVE  IndexInv'
<1> USE DEF diskVars
<1>0. c \in Companions
    OBVIOUS
<1>1. /\ UNCHANGED <<osVault, ppVault>>
      /\ \A tier \in Tiers : Secrets(tier)' = Secrets(tier)
    BY DEF ReadIndex, WriteIndex, Secrets
<1>2. CASE ReadIndex(c)
    <2> DEFINE t == job[c].tier
               o == job[c].onion
               e == IF job[c].op = "add" THEN Upsert(t, o) ELSE Dropped(o)
    <2>1. pc[c] = "index" /\ pc'[c] = "rewrite" /\ UNCHANGED index
        BY <1>0, <1>2 DEF ReadIndex, VaultInv, Shape
    <2>2. /\ job'[c].op = job[c].op /\ job'[c].tier = t /\ job'[c].onion = o
          /\ job'[c].entries = e
        <3> HIDE DEF e
        <3>1. job' = [job EXCEPT ![c].entries = e]
            BY <1>2 DEF ReadIndex, e
        <3> QED BY <1>0, <3>1 DEF VaultInv, Shape
    <2>3. /\ job[c].op \in {"add", "remove"} /\ <<t, o>> \in Credentials
          /\ \A tier \in Tiers : Secrets(tier) = Intended(c, tier)
        BY <1>0, <2>1 DEF VaultInv, AtIndex, IndexInv
    <2>4. t \in Tiers /\ o \in Onions /\ index \in Seq(Entry)
        BY <2>3 DEF ClientAuthAssumption, IndexInv
    <2>5. e \in Seq(Entry) /\ \A tier \in Tiers : Listing(e, tier) = Intended(c, tier)
        <3>1. CASE job[c].op = "add"
            <4>1. /\ e \in Seq(Entry)
                  /\ Listing(e, t) = Listing(index, t) \cup {o}
                  /\ \A other \in Tiers \ {t} : Listing(e, other) = Listing(index, other)
                BY <2>4, <3>1, UpsertAddsOne
            <4> HIDE DEF e
            <4> QED BY <3>1, <4>1 DEF Intended
        <3>2. CASE job[c].op = "remove"
            <4>1. /\ e \in Seq(Entry)
                  /\ \A tier \in Tiers : Listing(e, tier) = Listing(index, tier) \ {o}
                BY <2>4, <3>2, DroppedDropsOne
            <4> HIDE DEF e
            <4> QED BY <3>2, <4>1 DEF Intended
        <3> QED BY <2>3, <3>1, <3>2
    <2> HIDE DEF e
    <2>6. (job[c].entries \in Seq(Entry))' /\ Agrees(job[c].entries)'
        BY <1>1, <2>2, <2>3, <2>5 DEF Agrees, Listing
    <2>7. \A tier \in Tiers : Secrets(tier)' = Intended(c, tier)'
        BY <1>1, <2>1, <2>2, <2>3 DEF Intended, Listing
    <2> QED BY <1>0, <1>1, <2>1, <2>2, <2>3, <2>6, <2>7 DEF IndexInv
<1>3. CASE WriteIndex(c)
    <2>1. /\ pc[c] = "rewrite" /\ pc'[c] = "idle" /\ index' = job[c].entries
          /\ job[c].entries \in Seq(Entry) /\ Agrees(job[c].entries)
        BY <1>0, <1>3 DEF WriteIndex, VaultInv, Shape, IndexInv
    <2>2. Agrees(index)'
        BY <1>1, <2>1 DEF Agrees, Listing
    <2> QED BY <1>0, <1>1, <2>1, <2>2 DEF IndexInv
<1> QED BY <1>2, <1>3

\* Every step but a kill keeps the index right, or knows what is left to do.
LEMMA MatchStep ==
    ASSUME NEW c, Companions = {c}, OneTierPerOnion, ClientAuthAssumption, VaultInv,
           IndexInv, Handle(c) \/ UNCHANGED vars
    PROVE  IndexInv'
<1>1. CASE AuthUnlock(c) \/ AuthLock(c) \/ Start(c) \/ Stop(c) \/ Exit(c) \/ UNCHANGED vars
    BY <1>1, IndexFrame DEF AuthUnlock, AuthLock, Start, Stop, Exit, vars, diskVars
<1> QED BY <1>1, IndexBegin, IndexWriteVault, IndexRewritten DEF Handle

\* A companion that was never killed leaves no name without a secret and no
\* secret without a name (auth_store.rs:104-111, 265-289), so that the extension
\* asks for the passphrase exactly when it has to.
THEOREM TheIndexMatches ==
    ASSUME OneCompanion, OneTierPerOnion PROVE Spec => []IndexMatchesVaults
<1> DEFINE Inv == ~killed => IndexInv
<1>1. Init => Inv
    BY IndexInit
<1>2. ASSUME VaultInv, Inv, [Next]_vars PROVE Inv'
    <2> PICK c : Companions = {c} BY DEF OneCompanion
    <2>1. CASE Crash(c)
        BY <2>1 DEF Crash
    <2>2. CASE Handle(c) /\ UNCHANGED killed
        BY <1>2, <2>2, MatchStep, ClientAuthAssumption
    <2>3. CASE UNCHANGED vars
        <3>1. UNCHANGED killed BY <2>3 DEF vars
        <3> QED BY <1>2, <2>3, <3>1, MatchStep, ClientAuthAssumption
    <2>4. CASE OrphanEnds(c)
        BY <1>2, <2>4, OrphanStep, IndexFrame DEF diskVars
    <2> QED BY <1>2, <2>1, <2>2, <2>3, <2>4 DEF Next
<1>3. ASSUME Inv PROVE IndexMatchesVaults
    <2> SUFFICES ASSUME AllIdle, ~killed
                 PROVE  Listed("os") = osVault /\ Listed("passphrase") = ppVault.secrets
        BY DEF IndexMatchesVaults
    <2>1. index \in Seq(Entry) /\ Agrees(index)
        BY <1>3 DEF AllIdle, Idle, IndexInv, OneCompanion
    <2>2. \A tier \in Tiers : Listed(tier) = Listing(index, tier)
        <3>1. \A e \in Entry : /\ e.tier \in Tiers /\ e.onion \in Onions
                               /\ e = [tier |-> e.tier, onion |-> e.onion]
            BY DEF Entry
        <3>2. \A i \in DOMAIN index : index[i] \in Entry
            BY <2>1, ElementsTyped
        <3> QED BY <3>1, <3>2 DEF Listed, Listing
    <2> QED BY <2>1, <2>2 DEF Agrees, Secrets, Tiers
<1> HIDE DEF Inv
<1> QED BY <1>1, <1>2, <1>3, VaultCorrect, PTL DEF Spec


---------------------------------------------------------------------------
\* What the Tor lacks of the keys that are open, or has too many, while a
\* handler is at work.
LiveInv ==
    \A c \in Companions : attached[c] =>
       /\ pc[c] = "vault" /\ job[c].op = "remove" => loaded[c] = Open(c) \ {job[c].onion}
       /\ pc[c] \in {"index", "rewrite"} /\ job[c].op = "add" =>
             loaded[c] \cup {job[c].onion} = Open(c)
       /\ ~(pc[c] = "vault" /\ job[c].op = "remove")
          /\ ~(pc[c] \in {"index", "rewrite"} /\ job[c].op = "add") => loaded[c] = Open(c)

\* An onion is among the keys that are open by way of one tier only.
LEMMA OneWay ==
    ASSUME OneTierPerOnion, IndexInv, NEW tier \in Tiers, NEW onion,
           <<tier, onion>> \in Credentials
    PROVE  \A other \in Tiers \ {tier} : onion \notin Secrets(other)
BY DEF OneTierPerOnion, IndexInv

\* A removal takes its key out first; if it is then refused, nothing was in.
LEMMA LiveBegin ==
    ASSUME NEW c, Companions = {c}, OneTierPerOnion, TorObeys, VaultInv, IndexInv, LiveInv,
           \/ \E tier, onion : AuthAdd(c, tier, onion)
           \/ \E onion \in Onions : AuthRemove(c, onion)
           \/ AuthSetPassphrase(c)
    PROVE  LiveInv'
<1> USE DEF diskVars, Idle
<1>0. c \in Companions /\ pc[c] = "idle" /\ UNCHANGED attached
    BY DEF AuthAdd, AuthRemove, AuthSetPassphrase
<1>1. Open(c)' = Open(c)
    BY DEF AuthAdd, AuthRemove, AuthSetPassphrase, Open, Opens, Unlocked
<1>2. attached[c] => loaded[c] = Open(c)
    BY <1>0 DEF LiveInv
<1>3. CASE (\E tier, onion : AuthAdd(c, tier, onion)) \/ AuthSetPassphrase(c)
    <2>1. pc'[c] = "vault" /\ job'[c].op # "remove" /\ UNCHANGED loaded
        BY <1>0, <1>3 DEF AuthAdd, AuthSetPassphrase, Begin, VaultInv, Shape
    <2> QED BY <1>0, <1>1, <1>2, <2>1 DEF LiveInv
<1>4. ASSUME NEW onion \in Onions, AuthRemove(c, onion) PROVE LiveInv'
    <2> DEFINE tier == TierOf(onion)
    <2>1. attached[c] => loaded'[c] = Open(c) \ {onion}
        BY <1>0, <1>2, <1>4 DEF AuthRemove, Unregister, Carried, TorObeys, VaultInv, Shape
    <2>2. CASE tier = "os" \/ (tier = "passphrase" /\ Opens(c))
        <3>1. pc'[c] = "vault" /\ job'[c].op = "remove" /\ job'[c].onion = onion
            BY <1>0, <1>4, <2>2 DEF AuthRemove, Begin, VaultInv, Shape
        <3> QED BY <1>0, <1>1, <2>1, <3>1 DEF LiveInv
    <2>3. CASE ~(tier = "os" \/ (tier = "passphrase" /\ Opens(c)))
        <3>1. UNCHANGED pc
            BY <1>4, <2>3 DEF AuthRemove
        <3>2. /\ \A t \in Tiers : Listing(index, t) = Secrets(t)
              /\ \A t \in Tiers : \A o \in Secrets(t) : <<t, o>> \in Credentials
              /\ index \in Seq(Entry)
            BY <1>0 DEF IndexInv, Agrees
        <3>3. \/ tier \in Tiers /\ onion \in Secrets(tier)
              \/ tier = "none" /\ \A t \in Tiers : onion \notin Secrets(t)
            BY <3>2, TierOfFinds
        <3> HIDE DEF tier
        <3>4. onion \notin Open(c)
            <4>1. CASE tier = "passphrase" /\ ~Opens(c)
                <5>1. onion \notin Secrets("os")
                    BY <3>2, <3>3, <4>1, OneWay DEF Tiers
                <5> QED BY <4>1, <5>1 DEF Open, Secrets
            <4>2. CASE tier = "none"
                BY <3>3, <4>2 DEF Open, Secrets, Tiers
            <4> QED BY <2>3, <3>3, <4>1, <4>2 DEF Tiers
        <3> QED BY <1>0, <1>1, <2>1, <3>1, <3>4 DEF LiveInv
    <2> QED BY <2>2, <2>3
<1> QED BY <1>3, <1>4

\* What the write of a vault does to the keys that are open.
LEMMA OpenWritten ==
    ASSUME NEW c, Companions = {c}, OneTierPerOnion, ClientAuthAssumption, VaultInv,
           IndexInv, WriteVault(c)
    PROVE  /\ job[c].op = "init" => Open(c)' = Open(c)
           /\ job[c].op = "add" => Open(c)' = Open(c) \cup {job[c].onion}
           /\ job[c].op = "remove" => Open(c)' = Open(c) \ {job[c].onion}
<1>0. c \in Companions /\ pc[c] = "vault" /\ AtVault(c)
    BY DEF WriteVault, VaultInv
<1>1. CASE job[c].op = "init"
    <2>1. ~Opens(c) /\ ppVault'.secrets = {} /\ UNCHANGED osVault
        BY <1>0, <1>1 DEF WriteVault, AtVault, Absent, Opens, Unlocked, VaultInv, Shape,
                          ClientAuthAssumption
    <2> QED BY <1>1, <2>1 DEF Open
<1>2. CASE job[c].op # "init"
    <2> DEFINE t == job[c].tier
               o == job[c].onion
    <2>1. UNCHANGED ppKey
        BY <1>2 DEF WriteVault
    <2>2. <<t, o>> \in Credentials /\ t \in Tiers
        BY <1>0, <1>2 DEF IndexInv, AtVault
    <2>3. \A other \in Tiers \ {t} : o \notin Secrets(other)
        BY <2>2, OneWay
    <2>4. CASE t = "os"
        <3>1. osVault' = job[c].secrets /\ UNCHANGED ppVault
            BY <2>4 DEF WriteVault
        <3>2. o \notin ppVault.secrets
            BY <2>3, <2>4 DEF Secrets, Tiers
        <3> QED BY <1>0, <1>2, <2>1, <2>4, <3>1, <3>2
                DEF AtVault, Secrets, Open, Opens, Unlocked
    <2>5. CASE t = "passphrase"
        <3>1. /\ ppVault' = [key |-> job[c].key, secrets |-> job[c].secrets]
              /\ UNCHANGED osVault
            BY <2>5 DEF WriteVault
        <3>2. Opens(c) /\ Opens(c)'
            BY <1>0, <1>2, <2>1, <2>5, <3>1 DEF AtVault, Entitled, Opens, Unlocked
        <3>3. o \notin osVault
            BY <2>3, <2>5 DEF Secrets, Tiers
        <3> QED BY <1>0, <1>2, <2>5, <3>1, <3>2, <3>3 DEF AtVault, Secrets, Open
    <2> QED BY <2>2, <2>4, <2>5 DEF Tiers
<1> QED BY <1>1, <1>2

\* The write of a vault opens or closes the key of one onion, which is loaded last.
LEMMA LiveWrite ==
    ASSUME NEW c, Companions = {c}, OneTierPerOnion, TorObeys, ClientAuthAssumption,
           VaultInv, IndexInv, LiveInv, WriteVault(c) \/ ReadIndex(c) \/ WriteIndex(c)
    PROVE  LiveInv'
<1> USE DEF diskVars
<1>0. c \in Companions /\ UNCHANGED attached
    BY DEF WriteVault, ReadIndex, WriteIndex
<1>1. CASE WriteVault(c)
    <2>1. pc[c] = "vault" /\ UNCHANGED loaded /\ job[c].op \in {"init", "add", "remove"}
        BY <1>0, <1>1 DEF WriteVault, VaultInv, AtVault
    <2>2. IF job[c].op = "init" THEN pc'[c] = "idle" ELSE pc'[c] = "index" /\ UNCHANGED job
        BY <1>0, <1>1 DEF WriteVault, VaultInv, Shape
    <2>3. /\ job[c].op = "init" => Open(c)' = Open(c)
          /\ job[c].op = "add" => Open(c)' = Open(c) \cup {job[c].onion}
          /\ job[c].op = "remove" => Open(c)' = Open(c) \ {job[c].onion}
        BY <1>1, OpenWritten
    <2> QED BY <1>0, <2>1, <2>2, <2>3 DEF LiveInv
<1>2. CASE ReadIndex(c)
    <2>1. /\ pc[c] = "index" /\ pc'[c] = "rewrite" /\ UNCHANGED loaded
          /\ job'[c].op = job[c].op /\ job'[c].onion = job[c].onion
        <3>1. PICK e : job' = [job EXCEPT ![c].entries = e]
            BY <1>2 DEF ReadIndex
        <3> QED BY <1>0, <1>2, <3>1 DEF ReadIndex, VaultInv, Shape
    <2>2. Open(c)' = Open(c)
        BY <1>2 DEF ReadIndex, Open, Opens, Unlocked
    <2> QED BY <1>0, <2>1, <2>2 DEF LiveInv
<1>3. CASE WriteIndex(c)
    <2>1. pc[c] = "rewrite" /\ pc'[c] = "idle" /\ Open(c)' = Open(c)
        BY <1>0, <1>3 DEF WriteIndex, VaultInv, Shape, Open, Opens, Unlocked
    <2>2. attached[c] =>
             loaded'[c] = IF job[c].op = "add" THEN loaded[c] \cup {job[c].onion} ELSE loaded[c]
        <3>0. Register(c, {job[c].onion}) => loaded'[c] = loaded[c] \cup {job[c].onion}
            BY <1>0 DEF Register, Carried, TorObeys, VaultInv, Shape
        <3>1. CASE job[c].op = "add" /\ attached[c]
            BY <1>3, <3>0, <3>1 DEF WriteIndex
        <3>2. CASE ~(job[c].op = "add" /\ attached[c])
            BY <1>3, <3>2 DEF WriteIndex
        <3> QED BY <3>1, <3>2
    <2> QED BY <1>0, <2>1, <2>2 DEF LiveInv
<1> QED BY <1>1, <1>2, <1>3

\* Unlock, lock and start leave in the Tor what is open afterwards.
LEMMA LiveKeys ==
    ASSUME NEW c, Companions = {c}, OneTierPerOnion, TorObeys, ClientAuthAssumption,
           VaultInv, LoadedInv, IndexInv, LiveInv, ~orphaned[c],
           AuthUnlock(c) \/ AuthLock(c) \/ Start(c) \/ Stop(c) \/ Exit(c)
    PROVE  LiveInv'
<1> USE DEF diskVars, Idle
<1>0. c \in Companions /\ pc[c] = "idle" /\ UNCHANGED pc
    BY DEF AuthUnlock, AuthLock, Start, Stop, Exit
<1>1. attached[c] => loaded[c] = Open(c)
    BY <1>0 DEF LiveInv
<1>2. Inject(c) => loaded'[c] = loaded[c] \cup Available(c)
    BY <1>0 DEF Inject, Register, Carried, TorObeys, VaultInv, Shape
<1>3. CASE AuthUnlock(c)
    <2>1. ppKey'[c] = ppVault.key /\ ppVault.key # "none"
        BY <1>0, <1>3 DEF AuthUnlock, VaultInv, Shape, ClientAuthAssumption
    <2>2. Open(c)' = osVault \cup ppVault.secrets /\ Available(c) = osVault \cup ppVault.secrets
        BY <1>3, <2>1 DEF AuthUnlock, Open, Opens, Unlocked, Available
    <2>3. Open(c) \subseteq osVault \cup ppVault.secrets
        BY DEF Open
    <2>4. attached[c] => loaded'[c] = Open(c)'
        BY <1>1, <1>2, <1>3, <2>2, <2>3 DEF AuthUnlock
    <2> QED BY <1>0, <1>3, <2>4 DEF AuthUnlock, LiveInv
<1>4. CASE AuthLock(c)
    <2>1. \A o \in ppVault.secrets : o \notin osVault
        <3>1. \A o \in Secrets("passphrase") : o \notin Secrets("os")
            BY OneWay DEF IndexInv, Tiers
        <3> QED BY <3>1 DEF Secrets
    <2>2. ppKey'[c] = "none" /\ UNCHANGED <<attached, osVault>>
        BY <1>0, <1>4 DEF AuthLock, VaultInv, Shape
    <2>3. Open(c)' = osVault
        BY <2>2 DEF Open, Opens, Unlocked
    <2>4. attached[c] => loaded'[c] = IF Opens(c) THEN loaded[c] \ ppVault.secrets ELSE loaded[c]
        <3>0. Unregister(c, ppVault.secrets) => loaded'[c] = loaded[c] \ ppVault.secrets
            BY <1>0 DEF Unregister, Carried, TorObeys, VaultInv, Shape
        <3>1. CASE attached[c] /\ Opens(c)
            BY <1>4, <3>0, <3>1 DEF AuthLock
        <3>2. CASE ~(attached[c] /\ Opens(c))
            BY <1>4, <3>2 DEF AuthLock
        <3> QED BY <3>1, <3>2
    <2>5. attached[c] => loaded'[c] = osVault
        BY <1>1, <2>1, <2>4 DEF Open
    <2> QED BY <1>0, <2>2, <2>3, <2>5 DEF LiveInv
<1>5. CASE Start(c)
    <2>1. attached'[c] /\ UNCHANGED <<ppKey, osVault, ppVault>> /\ Inject(c)
        BY <1>0, <1>5 DEF Start, VaultInv, Shape
    <2>2. ppKey[c] = ppVault.key <=> Opens(c)
        BY <1>0 DEF Opens, Unlocked, VaultInv, Shape, ClientAuthAssumption
    <2>3. Available(c) = Open(c) /\ Open(c)' = Open(c)
        BY <2>1, <2>2 DEF Available, Open, Opens, Unlocked
    <2>4. loaded[c] \subseteq Open(c)
        BY <1>0 DEF LoadedInv
    <2>5. loaded'[c] = Open(c)'
        BY <1>2, <2>1, <2>3, <2>4
    <2> QED BY <1>0, <2>5 DEF LiveInv
<1>6. CASE Stop(c) \/ Exit(c)
    <2>1. ~attached'[c]
        BY <1>0, <1>6 DEF Stop, Exit, Detached, VaultInv, Shape
    <2> QED BY <2>1 DEF LiveInv
<1> QED BY <1>3, <1>4, <1>5, <1>6

\* Every step but a kill keeps track of the keys the Tor has.
LEMMA LiveStep ==
    ASSUME NEW c, Companions = {c}, OneTierPerOnion, TorObeys, ClientAuthAssumption,
           VaultInv, LoadedInv, IndexInv, LiveInv, ~orphaned[c],
           Handle(c) \/ UNCHANGED vars
    PROVE  LiveInv'
<1>1. CASE UNCHANGED vars
    <2>1. Open(c)' = Open(c)
        BY <1>1 DEF vars, diskVars, Open, Opens, Unlocked
    <2> QED BY <1>1, <2>1 DEF vars, LiveInv
<1> QED BY <1>1, LiveBegin, LiveWrite, LiveKeys DEF Handle

\* inject_available (main.rs:280-308) and the handlers: between two commands the
\* Tor has the keys that are open, all of them and no other, as long as it does
\* what it is asked, is the companion's own, and nobody was killed.
THEOREM LiveKeysAreRight ==
    ASSUME OneCompanion, OneTierPerOnion, TorObeys PROVE Spec => []LiveKeysAreAvailable
<1> DEFINE Inv == ~killed => IndexInv /\ LiveInv /\ \A c \in Companions : ~orphaned[c]
<1>1. Init => Inv /\ LoadedInv
    BY IndexInit, LoadedInit DEF Init, LiveInv
<1>2. ASSUME VaultInv, LoadedInv, [Next]_vars PROVE LoadedInv'
    BY <1>2, LoadedStep, ClientAuthAssumption DEF OneCompanion
<1>3. ASSUME VaultInv, LoadedInv, Inv, [Next]_vars PROVE Inv'
    <2> PICK c : Companions = {c} BY DEF OneCompanion
    <2>1. CASE Crash(c)
        BY <2>1 DEF Crash
    <2>2. CASE Handle(c) /\ UNCHANGED <<orphaned, killed>>
        BY <1>3, <2>2, MatchStep, LiveStep, ClientAuthAssumption
    <2>3. CASE UNCHANGED vars
        <3>1. UNCHANGED <<orphaned, killed>> BY <2>3 DEF vars
        <3> QED BY <1>3, <2>3, <3>1, MatchStep, LiveStep, ClientAuthAssumption
    <2>4. CASE OrphanEnds(c)
        <3>1. orphaned[c] /\ UNCHANGED killed BY <2>4 DEF OrphanEnds
        <3> QED BY <1>3, <3>1
    <2> QED BY <1>3, <2>1, <2>2, <2>3, <2>4 DEF Next
<1>4. ASSUME LoadedInv, Inv PROVE LiveKeysAreAvailable
    <2> SUFFICES ASSUME AllIdle, ~killed, NEW c \in Companions
                 PROVE  loaded[c] = IF attached[c] THEN Open(c) ELSE {}
        BY DEF LiveKeysAreAvailable
    <2> QED BY <1>4 DEF AllIdle, Idle, LoadedInv, LiveInv, Open
<1> HIDE DEF Inv
<1> QED BY <1>1, <1>2, <1>3, <1>4, VaultCorrect, PTL DEF Spec
=============================================================================
