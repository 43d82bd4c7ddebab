--------------------------- MODULE SettingsProofs ---------------------------
(***************************************************************************)
(* The copy of the settings and what depends on it: proofs about Settings, *)
(* for any hosts and domains and any number of edits under way.            *)
(***************************************************************************)
EXTENDS Settings, ListLemmas

Keys == {"mode", "whitelist", "webrtcDisabled"}

Call == {Get} \cup [op : {"set"}, change : Change]
Notice == [kind : {"loaded"}, settings : SettingsRecord] \cup
          [kind : {"changed"}, change : Change]

Types ==
    /\ stored \in SettingsRecord /\ memory \in SettingsRecord
    /\ ops \in Seq(Call) /\ notices \in Seq(Notice)
    /\ page \in {"off", "loading", "booting", "up"}
    /\ webrtcOff \in BOOLEAN
    /\ wanted \subseteq Domains

\* A page that is off is owed nothing; one that loads has its answer to come.
Phases ==
    /\ page = "off" => ops = <<>> /\ notices = <<>>
    /\ page = "loading" => \/ \E i \in DOMAIN ops : ops[i] = Get
                           \/ \E i \in DOMAIN notices : notices[i].kind = "loaded"

\* A change of this key follows notice i.
ChangesAfter(key, i) ==
    \E j \in DOMAIN notices :
       j > i /\ notices[j].kind = "changed" /\ notices[j].change.key = key

\* Whatever no later notice changes is, key by key, what is stored.
CopyFollows ==
    /\ \A i \in DOMAIN notices :
          notices[i].kind = "changed" /\ ~ChangesAfter(notices[i].change.key, i) =>
             notices[i].change.value = stored[notices[i].change.key]
    /\ \A i \in DOMAIN notices, key \in Keys :
          notices[i].kind = "loaded" /\ ~ChangesAfter(key, i) =>
             notices[i].settings[key] = stored[key]
    /\ \A key \in Keys :
          HasLoaded /\ ~ChangesAfter(key, 0) => memory[key] = stored[key]

CopyInv == Types /\ Phases /\ CopyFollows

\* WebRTC is what the copy asks for, and without a page what is stored asks for.
WantsOff(settings) == settings.mode = "all" \/ settings.webrtcDisabled
WebRTCInv ==
    /\ page = "up" => (webrtcOff <=> WantsOff(memory))
    /\ page = "off" => (webrtcOff <=> WantsOff(stored))

\* The list that the user wants is the one that is stored or will be.
IsListEdit(i) == ops[i].op = "set" /\ ops[i].change.key = "whitelist"
WantedInv ==
    /\ \A i \in DOMAIN ops : IsListEdit(i) => ops[i].change.value = wanted
    /\ (\A i \in DOMAIN ops : ~IsListEdit(i)) => stored.whitelist = wanted

---------------------------------------------------------------------------
\* Records.

\* A change of one key is what is read of it afterwards.
LEMMA Changing ==
    ASSUME NEW s \in SettingsRecord, NEW c \in Change
    PROVE  /\ [s EXCEPT ![c.key] = c.value] \in SettingsRecord
           /\ c.key \in Keys
           /\ [s EXCEPT ![c.key] = c.value][c.key] = c.value
           /\ \A key \in Keys : key # c.key => [s EXCEPT ![c.key] = c.value][key] = s[key]
<1>1. CASE c \in [key : {"mode"}, value : Modes]
  <2>1. c.key = "mode" /\ c.value \in Modes
      BY <1>1
  <2> QED BY <2>1 DEF SettingsRecord, Keys
<1>2. CASE c \in [key : {"whitelist"}, value : SUBSET Domains]
  <2>1. c.key = "whitelist" /\ c.value \in SUBSET Domains
      BY <1>2
  <2> QED BY <2>1 DEF SettingsRecord, Keys
<1>3. CASE c \in [key : {"webrtcDisabled"}, value : BOOLEAN]
  <2>1. c.key = "webrtcDisabled" /\ c.value \in BOOLEAN
      BY <1>3
  <2> QED BY <2>1 DEF SettingsRecord, Keys
<1> QED BY <1>1, <1>2, <1>3 DEF Change

\* Settings that agree on every key are the same.
LEMMA SameSettings ==
    ASSUME NEW s \in SettingsRecord, NEW r \in SettingsRecord, \A key \in Keys : s[key] = r[key]
    PROVE  s = r
BY DEF SettingsRecord, Keys

\* What the calls and the notices are.
LEMMA Kinds ==
    /\ \A c \in Call : \/ c = Get /\ c.op = "get"
                       \/ c.op = "set" /\ c.change \in Change
    /\ \A n \in Notice : \/ n.kind = "loaded" /\ n.settings \in SettingsRecord
                         \/ n.kind = "changed" /\ n.change \in Change
BY DEF Call, Notice, Get

\* Calls and notices are well formed.
LEMMA CallsAre ==
    /\ Get \in Call /\ Get.op = "get"
    /\ \A c \in Change : Set(c.key, c.value) \in Call
    /\ \A s \in SettingsRecord : /\ Loaded(s) \in Notice /\ Loaded(s).kind = "loaded"
                                 /\ Loaded(s).settings = s
    /\ \A c \in Change : /\ Changed(c) \in Notice /\ Changed(c).kind = "changed"
                         /\ Changed(c).change = c
<1>1. Get \in Call /\ Get.op = "get"
    BY DEF Call, Get
<1>2. ASSUME NEW c \in Change PROVE Set(c.key, c.value) \in Call
  <2>1. [key |-> c.key, value |-> c.value] \in Change
      BY DEF Change
  <2> QED BY <2>1 DEF Set, Call
<1>3. ASSUME NEW s \in SettingsRecord
      PROVE  /\ Loaded(s) \in Notice /\ Loaded(s).kind = "loaded" /\ Loaded(s).settings = s
    BY DEF Loaded, Notice
<1>4. ASSUME NEW c \in Change
      PROVE  /\ Changed(c) \in Notice /\ Changed(c).kind = "changed" /\ Changed(c).change = c
    BY DEF Changed, Notice
<1> QED BY <1>1, <1>2, <1>3, <1>4

\* What an edit asks of the storage.
LEMMA EditCall ==
    ASSUME NEW key, NEW value, [key |-> key, value |-> value] \in Change
    PROVE  /\ Set(key, value) \in Call /\ Set(key, value).op = "set"
           /\ Set(key, value).change.key = key /\ Set(key, value).change.value = value
           /\ Set(key, value) # Get
BY DEF Set, Call, Get

\* Every edit is one call at the end of the queue.
Edits ==
    \/ \E mode \in Modes : SetMode(mode)
    \/ \E off \in BOOLEAN : SetWebRTC(off)
    \/ \E domain \in Domains : addToWhitelist(domain) \/ removeFromWhitelist(domain)

\* An edit is one more call to the storage.
LEMMA EditEffects ==
    ASSUME Types, Edits
    PROVE  \E key, value :
              /\ [key |-> key, value |-> value] \in Change
              /\ ops' = Append(ops, Set(key, value))
              /\ UNCHANGED <<stored, notices, page, memory, webrtcOff, decision>>
              /\ page # "off"
              /\ wanted' \subseteq Domains
<1>1. wanted \subseteq Domains /\ memory.whitelist \subseteq Domains
    BY DEF Types, SettingsRecord
<1> DEFINE Goal(key, value) ==
              /\ [key |-> key, value |-> value] \in Change
              /\ ops' = Append(ops, Set(key, value))
              /\ UNCHANGED <<stored, notices, page, memory, webrtcOff, decision>>
              /\ page # "off"
              /\ wanted' \subseteq Domains
<1>2. ASSUME NEW mode \in Modes, SetMode(mode) PROVE Goal("mode", mode)
    BY <1>1, <1>2 DEF SetMode, Save, HasLoaded, Change
<1>3. ASSUME NEW off \in BOOLEAN, SetWebRTC(off) PROVE Goal("webrtcDisabled", off)
    BY <1>1, <1>3 DEF SetWebRTC, Save, HasLoaded, Change
<1>4. ASSUME NEW domain \in Domains, addToWhitelist(domain)
      PROVE  Goal("whitelist", memory.whitelist \cup {domain})
    BY <1>1, <1>4 DEF addToWhitelist, Save, HasLoaded, Change
<1>5. ASSUME NEW domain \in Domains, removeFromWhitelist(domain)
      PROVE  Goal("whitelist", memory.whitelist \ {domain})
    BY <1>1, <1>5 DEF removeFromWhitelist, Save, HasLoaded, Change
<1> HIDE DEF Goal
<1>6. \E key, value : Goal(key, value)
    BY <1>2, <1>3, <1>4, <1>5 DEF Edits
<1> QED BY <1>6 DEF Goal

\* The steps, by what they touch.
LEMMA Cases ==
    ASSUME Next
    PROVE  Wake \/ Suspend \/ StorageStep \/ PageStep \/ BootEnds \/ Edits
           \/ \E host \in Hosts : Route(host)
BY DEF Next, Edits

---------------------------------------------------------------------------
\* Types.

\* A page that is off has nothing to follow.
LEMMA InitialCopy == Init => CopyInv /\ WebRTCInv /\ WantedInv
<1> SUFFICES ASSUME Init PROVE CopyInv /\ WebRTCInv /\ WantedInv
    OBVIOUS
<1>1. Types
    BY EmptySeq DEF Init, Types, SettingsRecord, DEFAULT_SETTINGS, Modes
<1>2. Phases /\ WebRTCInv
    BY DEF Init, Phases, WebRTCInv, WantsOff, DEFAULT_SETTINGS
<1>3. (\A i \in DOMAIN notices : FALSE) /\ (\A i \in DOMAIN ops : FALSE)
    BY EmptySeq DEF Init
<1>4. CopyFollows
    BY <1>3 DEF Init, CopyFollows
<1>5. WantedInv
    BY <1>3 DEF Init, WantedInv, DEFAULT_SETTINGS
<1> QED BY <1>1, <1>2, <1>4, <1>5 DEF CopyInv

\* Every step keeps the types.
LEMMA TypesStep ==
    ASSUME Types, [Next]_vars
    PROVE  Types'
<1>1. CASE UNCHANGED vars
    BY <1>1 DEF vars, Types
<1>2. CASE Wake
  <2>1. ops' \in Seq(Call)
      BY <1>2, Appended, CallsAre DEF Wake, Types
  <2>2. memory' \in SettingsRecord
      BY <1>2 DEF Wake, SettingsRecord, DEFAULT_SETTINGS, Modes
  <2> QED BY <1>2, <2>1, <2>2 DEF Wake, Types
<1>3. CASE Suspend
    BY <1>3 DEF Suspend, Types
<1>4. CASE StorageStep
  <2>1. ops \in Seq(Call) /\ ops # <<>> /\ ops' = Tail(ops) /\ notices \in Seq(Notice)
        /\ stored \in SettingsRecord
      BY <1>4 DEF StorageStep, Types
  <2>2. ops' \in Seq(Call) /\ Head(ops) \in Call
      BY <2>1, Shortened
  <2>3. CASE notices' = Append(notices, Loaded(stored)) /\ stored' = stored
    <3>1. notices' \in Seq(Notice)
        BY <2>1, <2>3, Appended, CallsAre
    <3> QED BY <1>4, <2>2, <2>3, <3>1 DEF StorageStep, Types
  <2>4. CASE /\ Head(ops).op = "set"
             /\ stored' = [stored EXCEPT ![Head(ops).change.key] = Head(ops).change.value]
             /\ notices' = Append(notices, Changed(Head(ops).change))
    <3>1. Head(ops).change \in Change
        BY <2>2, <2>4, Kinds DEF Get
    <3>2. notices' \in Seq(Notice)
        BY <2>1, <2>4, <3>1, Appended, CallsAre
    <3>3. stored' \in SettingsRecord
        BY <2>1, <2>4, <3>1, Changing
    <3> QED BY <1>4, <2>2, <3>2, <3>3 DEF StorageStep, Types
  <2> QED BY <1>4, <2>3, <2>4 DEF StorageStep
<1>5. CASE PageStep
  <2>1. /\ notices \in Seq(Notice) /\ notices # <<>> /\ notices' = Tail(notices)
        /\ memory \in SettingsRecord
      BY <1>5 DEF PageStep, Types
  <2>2. notices' \in Seq(Notice) /\ Head(notices) \in Notice
      BY <2>1, Shortened
  <2>3. memory' \in SettingsRecord /\ page' \in {"off", "loading", "booting", "up"}
    <3>1. CASE Head(notices).kind = "loaded" /\ memory' = Head(notices).settings /\ page' = "booting"
        BY <2>2, <3>1, Kinds
    <3>2. CASE /\ Head(notices).kind = "changed"
               /\ memory' = [memory EXCEPT
                               ![Head(notices).change.key] = Head(notices).change.value]
               /\ UNCHANGED page
      <4>1. Head(notices).change \in Change
          BY <2>2, <3>2, Kinds
      <4> QED BY <2>1, <3>2, <4>1, Changing DEF Types
    <3> QED BY <1>5, <3>1, <3>2 DEF PageStep
  <2>4. webrtcOff' \in BOOLEAN
    <3>1. webrtcOff' \in {webrtcOff, memory'.mode = "all" \/ memory'.webrtcDisabled}
        BY <1>5 DEF PageStep, applyWebRTC
    <3> QED BY <3>1 DEF Types
  <2> QED BY <1>5, <2>2, <2>3, <2>4 DEF PageStep, Types
<1>6. CASE Edits
  <2>1. PICK key, value :
              /\ [key |-> key, value |-> value] \in Change
              /\ ops' = Append(ops, Set(key, value))
              /\ UNCHANGED <<stored, notices, page, memory, webrtcOff, decision>>
              /\ wanted' \subseteq Domains
      BY <1>6, EditEffects
  <2>2. Set(key, value) \in Call
      BY <2>1, EditCall
  <2>3. ops' \in Seq(Call)
      BY <2>1, <2>2, Appended DEF Types
  <2> QED BY <2>1, <2>3 DEF Types
<1>7. CASE \E host \in Hosts : Route(host)
    BY <1>7 DEF Route, Types
<1>8. CASE BootEnds
  <2>1. webrtcOff' \in BOOLEAN
    <3>1. webrtcOff' = (memory'.mode = "all" \/ memory'.webrtcDisabled)
        BY <1>8 DEF BootEnds, applyWebRTC
    <3> QED BY <3>1
  <2> QED BY <1>8, <2>1 DEF BootEnds, Types
<1> QED BY <1>1, <1>2, <1>3, <1>4, <1>5, <1>6, <1>7, <1>8, Cases

---------------------------------------------------------------------------
\* The copy follows the store.

\* A step that moves no notice leaves what follows what.
LEMMA StillFollows ==
    ASSUME CopyFollows, UNCHANGED <<stored, notices, memory>>, HasLoaded' => HasLoaded
    PROVE  CopyFollows'
BY DEF CopyFollows, ChangesAfter

\* A new notice at the end of the queue.
LEMMA Noticed ==
    ASSUME notices \in Seq(Notice), NEW x \in Notice, notices' = Append(notices, x)
    PROVE  \E n \in Nat :
              /\ n > 0 /\ n \in DOMAIN notices' /\ notices'[n] = x
              /\ \A i \in DOMAIN notices : /\ i \in DOMAIN notices' /\ notices'[i] = notices[i]
                                           /\ n > i
              /\ \A i \in DOMAIN notices' : i \in DOMAIN notices \/ i = n
              /\ \A j \in DOMAIN notices' : ~(j > n)
<1>1. /\ Len(notices) \in Nat /\ DOMAIN notices = 1..Len(notices)
      /\ DOMAIN notices' = 1..(Len(notices) + 1)
      /\ \A i \in DOMAIN notices : i \in DOMAIN notices' /\ notices'[i] = notices[i]
      /\ \A i \in DOMAIN notices' : i \in DOMAIN notices \/ i = Len(notices) + 1
      /\ Len(notices) + 1 \in DOMAIN notices' /\ notices'[Len(notices) + 1] = x
    BY Appended
<1>2. PICK n : n = Len(notices) + 1
    OBVIOUS
<1> QED BY <1>1, <1>2

\* The storage serves a call: its notice comes last, and tells what is stored.
LEMMA StoreFollows ==
    ASSUME CopyInv, StorageStep
    PROVE  CopyFollows'
<1>1. Types /\ CopyFollows
    BY DEF CopyInv
<1>2. /\ ops \in Seq(Call) /\ ops # <<>> /\ notices \in Seq(Notice)
      /\ stored \in SettingsRecord
      /\ page' = page /\ memory' = memory
    BY <1>1 DEF StorageStep, Types
<1>3. Head(ops) \in Call
    BY <1>2, Shortened
<1>4. CASE Head(ops).op = "get" /\ notices' = Append(notices, Loaded(stored)) /\ stored' = stored
  <2>1. Loaded(stored) \in Notice /\ Loaded(stored).kind = "loaded"
        /\ Loaded(stored).settings = stored
      BY <1>2, CallsAre
  <2>2. PICK n \in Nat :
              /\ n \in DOMAIN notices' /\ notices'[n] = Loaded(stored)
              /\ \A i \in DOMAIN notices : /\ i \in DOMAIN notices' /\ notices'[i] = notices[i]
                                           /\ n > i
              /\ \A i \in DOMAIN notices' : i \in DOMAIN notices \/ i = n
      BY <1>2, <1>4, <2>1, Noticed
  <2>3. ASSUME NEW key, NEW i, ChangesAfter(key, i) PROVE ChangesAfter(key, i)'
      BY <2>2, <2>3 DEF ChangesAfter
  <2>4. ASSUME NEW i \in DOMAIN notices', notices'[i].kind = "changed",
               ~ChangesAfter(notices[i].change.key, i)'
        PROVE  notices'[i].change.value = stored'[notices'[i].change.key]
    <3>1. i \in DOMAIN notices /\ notices'[i] = notices[i]
        BY <2>1, <2>2, <2>4
    <3> QED BY <1>1, <1>4, <2>3, <2>4, <3>1 DEF CopyFollows
  <2>5. ASSUME NEW i \in DOMAIN notices', NEW key \in Keys, notices'[i].kind = "loaded",
               ~ChangesAfter(key, i)'
        PROVE  notices'[i].settings[key] = stored'[key]
    <3>1. CASE i = n
        BY <1>4, <2>1, <2>2, <3>1
    <3>2. CASE i \in DOMAIN notices
        BY <1>1, <1>4, <2>2, <2>3, <2>5, <3>2 DEF CopyFollows
    <3> QED BY <2>2, <3>1, <3>2
  <2>6. ASSUME NEW key \in Keys, HasLoaded', ~ChangesAfter(key, 0)'
        PROVE  memory'[key] = stored'[key]
      BY <1>1, <1>2, <1>4, <2>3, <2>6 DEF CopyFollows, HasLoaded
  <2> QED BY <2>4, <2>5, <2>6 DEF CopyFollows
<1>5. CASE /\ Head(ops).op = "set"
           /\ stored' = [stored EXCEPT ![Head(ops).change.key] = Head(ops).change.value]
           /\ notices' = Append(notices, Changed(Head(ops).change))
  <2>0. PICK c : c = Head(ops).change
      OBVIOUS
  <2>1. c \in Change
      BY <1>3, <1>5, <2>0, Kinds DEF Get
  <2>2. Changed(c) \in Notice /\ Changed(c).kind = "changed" /\ Changed(c).change = c
      BY <2>1, CallsAre
  <2>3. /\ stored' = [stored EXCEPT ![c.key] = c.value]
        /\ c.key \in Keys
        /\ stored'[c.key] = c.value
        /\ \A key \in Keys : key # c.key => stored'[key] = stored[key]
    <3>1. stored' = [stored EXCEPT ![c.key] = c.value]
        BY <1>5, <2>0
    <3>2. stored \in SettingsRecord
        BY <1>2
    <3> QED BY <2>1, <3>1, <3>2, Changing
  <2>4. PICK n \in Nat :
              /\ n > 0 /\ n \in DOMAIN notices' /\ notices'[n] = Changed(c)
              /\ \A i \in DOMAIN notices : /\ i \in DOMAIN notices' /\ notices'[i] = notices[i]
                                           /\ n > i
              /\ \A i \in DOMAIN notices' : i \in DOMAIN notices \/ i = n
      BY <1>2, <1>5, <2>0, <2>2, Noticed
  <2>5. ASSUME NEW key, NEW i, ChangesAfter(key, i) PROVE ChangesAfter(key, i)'
      BY <2>4, <2>5 DEF ChangesAfter
  <2>6. ChangesAfter(c.key, 0)' /\ \A i \in DOMAIN notices : ChangesAfter(c.key, i)'
      BY <2>2, <2>4 DEF ChangesAfter
  <2>7. \A i \in DOMAIN notices : notices[i].kind = "changed" => notices[i].change.key \in Keys
    <3>1. \A i \in DOMAIN notices : notices[i] \in Notice
        BY <1>2, ElementsTyped
    <3>2. \A d \in Change : d.key \in Keys
        BY DEF Change, Keys
    <3> QED BY <3>1, <3>2, Kinds
  <2>8. ASSUME NEW i \in DOMAIN notices', notices'[i].kind = "changed",
               ~ChangesAfter(notices[i].change.key, i)'
        PROVE  notices'[i].change.value = stored'[notices'[i].change.key]
    <3>1. CASE i = n
        BY <2>2, <2>3, <2>4, <3>1
    <3>2. CASE i \in DOMAIN notices
      <4>1. notices'[i] = notices[i] /\ notices[i].change.key # c.key
            /\ notices[i].change.key \in Keys
          BY <2>4, <2>6, <2>7, <2>8, <3>2
      <4> QED BY <1>1, <2>3, <2>5, <2>8, <3>2, <4>1 DEF CopyFollows
    <3> QED BY <2>4, <3>1, <3>2
  <2>9. ASSUME NEW i \in DOMAIN notices', NEW key \in Keys, notices'[i].kind = "loaded",
               ~ChangesAfter(key, i)'
        PROVE  notices'[i].settings[key] = stored'[key]
    <3>1. i \in DOMAIN notices /\ notices'[i] = notices[i]
        BY <2>2, <2>4, <2>9
    <3>2. key # c.key
        BY <2>6, <2>9, <3>1
    <3> QED BY <1>1, <2>3, <2>5, <2>9, <3>1, <3>2 DEF CopyFollows
  <2>10. ASSUME NEW key \in Keys, HasLoaded', ~ChangesAfter(key, 0)'
         PROVE  memory'[key] = stored'[key]
    <3>1. key # c.key
        BY <2>6, <2>10
    <3> QED BY <1>1, <1>2, <2>3, <2>5, <2>10, <3>1 DEF CopyFollows, HasLoaded
  <2> QED BY <2>8, <2>9, <2>10 DEF CopyFollows
<1> QED BY <1>4, <1>5 DEF StorageStep

\* The page handles a notice: what it told is in the copy, or told again later.
LEMMA PageFollows ==
    ASSUME CopyInv, PageStep
    PROVE  CopyFollows'
<1>1. Types /\ CopyFollows
    BY DEF CopyInv
<1>2. /\ notices \in Seq(Notice) /\ notices # <<>> /\ notices' = Tail(notices)
      /\ memory \in SettingsRecord /\ stored' = stored
    BY <1>1 DEF PageStep, Types
<1>3. /\ Head(notices) \in Notice /\ Head(notices) = notices[1] /\ 1 \in DOMAIN notices
      /\ DOMAIN notices = 1..Len(notices) /\ Len(notices) \in Nat \ {0}
      /\ DOMAIN notices' = 1..(Len(notices) - 1)
      /\ \A i \in DOMAIN notices' : i + 1 \in DOMAIN notices /\ notices'[i] = notices[i + 1]
      /\ \A i \in DOMAIN notices : i > 1 => /\ i - 1 \in DOMAIN notices'
                                            /\ notices'[i - 1] = notices[i]
    BY <1>2, Shortened
<1>4. ASSUME NEW key, NEW i \in Nat, ~ChangesAfter(key, i)' PROVE ~ChangesAfter(key, i + 1)
  <2> SUFFICES ASSUME NEW j \in DOMAIN notices, j > i + 1, notices[j].kind = "changed",
                      notices[j].change.key = key
               PROVE  FALSE
      BY DEF ChangesAfter
  <2>1. PICK k : k = j - 1
      OBVIOUS
  <2>2. k \in DOMAIN notices' /\ notices'[k] = notices[j] /\ k > i
      BY <1>3, <2>1
  <2> QED BY <1>4, <2>2 DEF ChangesAfter
<1>5. ASSUME NEW i \in DOMAIN notices', notices'[i].kind = "changed",
             ~ChangesAfter(notices[i].change.key, i)'
      PROVE  notices'[i].change.value = stored'[notices'[i].change.key]
  <2>1. i \in Nat /\ i + 1 \in DOMAIN notices /\ notices'[i] = notices[i + 1]
      BY <1>3
  <2>2. ~ChangesAfter(notices[i + 1].change.key, i + 1)
      BY <1>4, <1>5, <2>1
  <2> QED BY <1>1, <1>2, <1>5, <2>1, <2>2 DEF CopyFollows
<1>6. ASSUME NEW i \in DOMAIN notices', NEW key \in Keys, notices'[i].kind = "loaded",
             ~ChangesAfter(key, i)'
      PROVE  notices'[i].settings[key] = stored'[key]
  <2>1. i \in Nat /\ i + 1 \in DOMAIN notices /\ notices'[i] = notices[i + 1]
      BY <1>3
  <2>2. ~ChangesAfter(key, i + 1)
      BY <1>4, <1>6, <2>1
  <2> QED BY <1>1, <1>2, <1>6, <2>1, <2>2 DEF CopyFollows
<1>7. ASSUME NEW key \in Keys, HasLoaded', ~ChangesAfter(key, 0)'
      PROVE  memory'[key] = stored'[key]
  <2>1. ~ChangesAfter(key, 1)
    <3>1. ~ChangesAfter(key, 0 + 1)
        BY <1>4, <1>7
    <3> QED BY <3>1
  <2>2. CASE notices[1].kind = "loaded" /\ memory' = notices[1].settings
      BY <1>1, <1>2, <1>3, <2>1, <2>2 DEF CopyFollows
  <2>3. CASE /\ notices[1].kind = "changed"
             /\ memory' = [memory EXCEPT ![notices[1].change.key] = notices[1].change.value]
             /\ page' = page
    <3>0. PICK c : c = notices[1].change
        OBVIOUS
    <3>1. c \in Change
        BY <1>3, <2>3, <3>0, Kinds
    <3>2. /\ memory'[c.key] = c.value
          /\ \A k \in Keys : k # c.key => memory'[k] = memory[k]
      <4>1. memory' = [memory EXCEPT ![c.key] = c.value]
          BY <2>3, <3>0
      <4>2. memory \in SettingsRecord
          BY <1>2
      <4> QED BY <3>1, <4>1, <4>2, Changing
    <3>3. CASE key = c.key
        BY <1>1, <1>2, <1>3, <2>1, <2>3, <3>0, <3>2, <3>3 DEF CopyFollows
    <3>4. CASE key # c.key
      <4>1. ~ChangesAfter(key, 0)
        <5> SUFFICES ASSUME NEW j \in DOMAIN notices, notices[j].kind = "changed",
                            notices[j].change.key = key
                     PROVE  FALSE
            BY DEF ChangesAfter
        <5>1. j # 1
            BY <3>0, <3>4
        <5>2. j > 1
            BY <1>3, <5>1
        <5> QED BY <2>1, <5>2 DEF ChangesAfter
      <4> QED BY <1>1, <1>2, <1>7, <2>3, <3>2, <3>4, <4>1 DEF CopyFollows, HasLoaded
    <3> QED BY <3>3, <3>4
  <2> QED BY <1>3, <2>2, <2>3 DEF PageStep
<1> QED BY <1>5, <1>6, <1>7 DEF CopyFollows

\* A page that loads is owed its answer until it comes.
LEMMA PhasesStep ==
    ASSUME Types, Phases, [Next]_vars
    PROVE  Phases'
<1>1. CASE UNCHANGED vars
    BY <1>1 DEF vars, Phases
<1>2. CASE Wake
  <2>1. page' = "loading" /\ ops' = Append(ops, Get) /\ ops \in Seq(Call)
      BY <1>2 DEF Wake, Types
  <2>2. Len(ops) + 1 \in DOMAIN ops' /\ ops'[Len(ops) + 1] = Get
      BY <2>1, Appended, CallsAre
  <2> QED BY <2>1, <2>2 DEF Phases
<1>3. CASE Suspend
    BY <1>3 DEF Suspend, Quiet, Phases
<1>4. CASE StorageStep
  <2>1. /\ ops \in Seq(Call) /\ ops # <<>> /\ ops' = Tail(ops) /\ notices \in Seq(Notice)
        /\ page' = page /\ stored \in SettingsRecord
      BY <1>4 DEF StorageStep, Types
  <2>2. page # "off"
      BY <2>1 DEF Phases
  <2>3. /\ Head(ops) \in Call /\ Head(ops) = ops[1]
        /\ DOMAIN ops = 1..Len(ops) /\ Len(ops) \in Nat
        /\ \A i \in DOMAIN ops : i > 1 => i - 1 \in DOMAIN ops' /\ ops'[i - 1] = ops[i]
      BY <2>1, Shortened
  <2>4. PICK x \in Notice : /\ notices' = Append(notices, x)
                            /\ Head(ops).op = "get" => x.kind = "loaded"
    <3>1. CASE notices' = Append(notices, Loaded(stored))
        BY <2>1, <3>1, CallsAre
    <3>2. CASE Head(ops).op = "set" /\ notices' = Append(notices, Changed(Head(ops).change))
      <4>1. Head(ops).change \in Change
          BY <2>3, <3>2, Kinds DEF Get
      <4> QED BY <3>2, <4>1, CallsAre
    <3> QED BY <1>4, <3>1, <3>2 DEF StorageStep
  <2>5. /\ \A i \in DOMAIN notices : i \in DOMAIN notices' /\ notices'[i] = notices[i]
        /\ Len(notices) + 1 \in DOMAIN notices' /\ notices'[Len(notices) + 1] = x
      BY <2>1, <2>4, Appended
  <2>6. ASSUME page = "loading", NEW i \in DOMAIN ops, ops[i] = Get
        PROVE  \/ \E k \in DOMAIN ops' : ops'[k] = Get
               \/ \E k \in DOMAIN notices' : notices'[k].kind = "loaded"
    <3>1. CASE i = 1
        BY <2>3, <2>4, <2>5, <2>6, <3>1, CallsAre
    <3>2. CASE i # 1
      <4>1. i > 1
          BY <2>3, <3>2
      <4> QED BY <2>3, <2>6, <4>1
    <3> QED BY <3>1, <3>2
  <2> QED BY <2>1, <2>2, <2>5, <2>6 DEF Phases
<1>5. CASE PageStep
  <2>1. /\ notices \in Seq(Notice) /\ notices # <<>> /\ notices' = Tail(notices)
        /\ page # "off" /\ ops' = ops
      BY <1>5 DEF PageStep, Types
  <2>2. /\ Head(notices) = notices[1] /\ DOMAIN notices = 1..Len(notices) /\ Len(notices) \in Nat
        /\ \A i \in DOMAIN notices : i > 1 => /\ i - 1 \in DOMAIN notices'
                                              /\ notices'[i - 1] = notices[i]
      BY <2>1, Shortened
  <2>3. CASE page' = "booting"
      BY <2>3 DEF Phases
  <2>4. CASE page' = page /\ Head(notices).kind = "changed"
    <3>1. ASSUME NEW i \in DOMAIN notices, notices[i].kind = "loaded"
          PROVE  \E k \in DOMAIN notices' : notices'[k].kind = "loaded"
      <4>1. i > 1
          BY <2>2, <2>4, <3>1
      <4> QED BY <2>2, <3>1, <4>1
    <3> QED BY <2>1, <2>4, <3>1 DEF Phases
  <2> QED BY <1>5, <2>3, <2>4 DEF PageStep
<1>6. CASE Edits
  <2>1. PICK key, value :
              /\ [key |-> key, value |-> value] \in Change
              /\ ops' = Append(ops, Set(key, value))
              /\ UNCHANGED <<stored, notices, page, memory, webrtcOff, decision>>
              /\ page # "off"
      BY <1>6, EditEffects
  <2>2. Set(key, value) \in Call /\ ops \in Seq(Call)
      BY <2>1, EditCall DEF Types
  <2>3. \A i \in DOMAIN ops : i \in DOMAIN ops' /\ ops'[i] = ops[i]
      BY <2>1, <2>2, Appended
  <2> QED BY <2>1, <2>3 DEF Phases
<1>7. CASE (\E host \in Hosts : Route(host)) \/ BootEnds
    BY <1>7 DEF Route, BootEnds, Phases
<1> QED BY <1>1, <1>2, <1>3, <1>4, <1>5, <1>6, <1>7, Cases

\* Every step keeps the copy behind the storage by its notices only.
LEMMA CopyStep == CopyInv /\ [Next]_vars => CopyInv'
<1> SUFFICES ASSUME CopyInv, [Next]_vars PROVE CopyInv'
    OBVIOUS
<1>1. Types /\ Phases /\ CopyFollows
    BY DEF CopyInv
<1>2. Types' /\ Phases'
    BY <1>1, TypesStep, PhasesStep
<1>3. CopyFollows'
  <2>1. CASE UNCHANGED vars
      BY <1>1, <2>1, StillFollows DEF vars, HasLoaded
  <2>2. CASE Wake
    <3>1. notices = <<>> /\ notices' = <<>> /\ page' = "loading"
        BY <1>1, <2>2 DEF Wake, Phases
    <3>2. \A i \in DOMAIN notices' : FALSE
        BY <3>1, EmptySeq
    <3> QED BY <3>1, <3>2 DEF CopyFollows, HasLoaded
  <2>3. CASE Suspend
    <3>1. UNCHANGED <<stored, notices, memory>> /\ page' = "off"
        BY <2>3 DEF Suspend
    <3> QED BY <1>1, <3>1, StillFollows DEF HasLoaded
  <2>4. CASE StorageStep
      BY <2>4, StoreFollows
  <2>5. CASE PageStep
      BY <2>5, PageFollows
  <2>6. CASE Edits
    <3>1. UNCHANGED <<stored, notices, page, memory>>
        BY <1>1, <2>6, EditEffects
    <3> QED BY <1>1, <3>1, StillFollows DEF HasLoaded
  <2>7. CASE (\E host \in Hosts : Route(host)) \/ BootEnds
      BY <1>1, <2>7, StillFollows DEF Route, BootEnds, HasLoaded
  <2> QED BY <2>1, <2>2, <2>3, <2>4, <2>5, <2>6, <2>7, Cases
<1> QED BY <1>2, <1>3 DEF CopyInv

---------------------------------------------------------------------------
\* Where a request goes.

\* What Reverse of the community modules returns.
LEMMA ReverseIs ==
    ASSUME NEW S, NEW s \in Seq(S)
    PROVE  /\ Reverse(s) \in Seq(S) /\ Len(Reverse(s)) = Len(s)
           /\ \A k \in 1..Len(s) : Reverse(s)[k] = s[(Len(s) - k) + 1]
<1>1. Len(s) \in Nat /\ \A i \in 1..Len(s) : s[i] \in S
    BY LenProperties, ElementOfSeq
<1> DEFINE q == [i \in 1..Len(s) |-> s[(Len(s) - i) + 1]]
<1>2. Reverse(s) = q
    BY DEF Reverse
<1>3. q \in [1..Len(s) -> S]
    BY <1>1
<1>4. q \in Seq(S) /\ Len(q) = Len(s)
    BY <1>1, <1>3
<1> QED BY <1>2, <1>4

\* The end of a sequence with a given suffix.
LEMMA SuffixEnds ==
    ASSUME NEW S, NEW s \in Seq(S), NEW t \in Seq(S), IsSuffix(s, t)
    PROVE  /\ Len(s) <= Len(t)
           /\ \A k \in 1..Len(s) : t[(Len(t) - k) + 1] = s[(Len(s) - k) + 1]
<1> DEFINE rs == Reverse(s)
           rt == Reverse(t)
<1>1. /\ rs \in Seq(S) /\ Len(rs) = Len(s)
      /\ \A k \in 1..Len(s) : rs[k] = s[(Len(s) - k) + 1]
    BY ReverseIs
<1>2. /\ rt \in Seq(S) /\ Len(rt) = Len(t)
      /\ \A k \in 1..Len(t) : rt[k] = t[(Len(t) - k) + 1]
    BY ReverseIs
<1>3. Len(rs) <= Len(rt) /\ SubSeq(rs, 1, Len(rs)) = SubSeq(rt, 1, Len(rs))
    BY DEF IsSuffix, IsPrefix
<1> HIDE DEF rs, rt
<1>4. Len(s) \in Nat /\ Len(t) \in Nat
    BY LenProperties
<1>5. ASSUME NEW k \in 1..Len(s) PROVE rs[k] = rt[k]
    BY <1>1, <1>2, <1>3, <1>4, <1>5
<1> QED BY <1>1, <1>2, <1>3, <1>4, <1>5

\* The root label.
Root == ""

\* A host is a sequence of labels.
HostsAreLabels(labels) == {"onion", ""} \subseteq labels /\ Hosts \subseteq Seq(labels)

\* Every name of an onion service is taken for one, with or without its dot.
LEMMA OnionsAreSeen ==
    ASSUME NEW Labels, HostsAreLabels(Labels), NEW host \in Hosts, NamesOnionService(host)
    PROVE  isOnion(host)
<1>0. Root \in Labels /\ "onion" \in Labels /\ host \in Seq(Labels)
    BY Zenon DEF Root, HostsAreLabels
<1>1. \/ Len(host) > 1 + Len(<<>>) /\ IsSuffix(<<"onion">> \o <<>>, host)
      \/ Len(host) > 1 + Len(<<Root>>) /\ IsSuffix(<<"onion">> \o <<Root>>, host)
    BY Zenon DEF NamesOnionService, Root
<1>2. Unrooted(host) = IF host # <<>> /\ Last(host) = Root THEN Front(host) ELSE host
    BY Zenon DEF Unrooted, Root
<1>3. Root # "onion"
    BY Zenon DEF Root
<1>4. Len(host) \in Nat
    BY <1>0, LenProperties
<1> DEFINE o == <<"onion">>
<1>5. o \in Seq(Labels) /\ Len(o) = 1 /\ o[1] = "onion"
    BY <1>0
<1>6. CASE Len(host) > 1 + Len(<<>>) /\ IsSuffix(<<"onion">> \o <<>>, host)
  <2>1. o \o <<>> = o
      BY <1>5, ConcatEmptySeq
  <2>2. IsSuffix(o, host) /\ Len(host) > 1
      BY <1>4, <1>6, <2>1
  <2> HIDE DEF o
  <2>3. host[(Len(host) - 1) + 1] = o[(Len(o) - 1) + 1]
    <3>1. \A k \in 1..Len(o) : host[(Len(host) - k) + 1] = o[(Len(o) - k) + 1]
        BY <1>0, <1>5, <2>2, SuffixEnds
    <3>2. 1 \in 1..Len(o)
        BY <1>5
    <3> QED BY <3>1, <3>2
  <2>4. Last(host) = "onion"
      BY <1>4, <1>5, <2>3 DEF Last
  <2>5. Unrooted(host) = host
      BY <1>2, <1>3, <2>4
  <2> QED BY <2>2, <2>4, <2>5 DEF isOnion
<1>7. CASE Len(host) > 1 + Len(<<Root>>) /\ IsSuffix(<<"onion">> \o <<Root>>, host)
  <2> DEFINE r == <<Root>>
             s == o \o r
  <2>1. r \in Seq(Labels) /\ Len(r) = 1 /\ r[1] = Root
      BY <1>0
  <2>2. IsSuffix(s, host) /\ Len(host) > 2
      BY <1>4, <1>7, <2>1
  <2> HIDE DEF o, r
  <2>3. s \in Seq(Labels) /\ Len(s) = 2 /\ s[1] = "onion" /\ s[2] = Root
      BY <1>5, <2>1, ConcatProperties
  <2> HIDE DEF s
  <2>4. /\ host[(Len(host) - 1) + 1] = s[(Len(s) - 1) + 1]
        /\ host[(Len(host) - 2) + 1] = s[(Len(s) - 2) + 1]
    <3>1. \A k \in 1..Len(s) : host[(Len(host) - k) + 1] = s[(Len(s) - k) + 1]
        BY <1>0, <2>2, <2>3, SuffixEnds
    <3>2. 1 \in 1..Len(s) /\ 2 \in 1..Len(s)
        BY <2>3
    <3> QED BY <3>1, <3>2
  <2>5. Last(host) = Root /\ host[Len(host) - 1] = "onion"
      BY <1>4, <2>3, <2>4 DEF Last
  <2>6. host # <<>>
      BY <1>0, <2>2, EmptySeq
  <2> DEFINE f == SubSeq(host, 1, Len(host) - 1)
  <2>7. Unrooted(host) = f
      BY <1>2, <2>5, <2>6 DEF Front
  <2>8. \A i \in 1..(Len(host) - 1) : host[i] \in Labels
      BY <1>0, <1>4, ElementOfSeq
  <2>9. Len(f) = Len(host) - 1 /\ f[Len(host) - 1] = host[Len(host) - 1]
      BY <1>4, <2>2, <2>8, SubSeqProperties
  <2> HIDE DEF f
  <2> QED BY <1>4, <2>2, <2>5, <2>7, <2>9 DEF isOnion, Last
<1> QED BY <1>1, <1>6, <1>7

\* A page that has loaded its settings, with no change on its way holds what is stored.
LEMMA CopyIsStored ==
    ASSUME CopyInv, HasLoaded, \A i \in DOMAIN notices : notices[i].kind # "changed"
    PROVE  memory = stored
<1>1. \A key \in Keys : ~ChangesAfter(key, 0)
    BY DEF ChangesAfter
<1>2. \A key \in Keys : memory[key] = stored[key]
    BY <1>1 DEF CopyInv, CopyFollows
<1> QED BY <1>2, SameSettings DEF CopyInv, Types

\* background.js:380-423, 450-463: outside the loading window and with no edit
\* on its way a request goes where the stored settings send it, and an onion
\* address goes to Tor whatever the copy holds; a host is a sequence of labels.
THEOREM RequestsGoAsStored ==
    ASSUME NEW Labels, HostsAreLabels(Labels)
    PROVE  Spec => []RoutedAsStored
<1>1. Init => RoutedAsStored
    BY DEF Init, RoutedAsStored, NoDecision
<1>2. CopyInv /\ RoutedAsStored /\ [Next]_vars => RoutedAsStored'
  <2> SUFFICES ASSUME CopyInv, RoutedAsStored, [Next]_vars PROVE RoutedAsStored'
      OBVIOUS
  <2>1. CASE decision' = decision
      BY <2>1 DEF RoutedAsStored
  <2>2. ASSUME NEW host \in Hosts, Route(host) PROVE RoutedAsStored'
    <3>1. /\ decision'.host = host /\ decision'.via = Via(host, memory)
          /\ decision'.intended = Via(host, stored)
          /\ decision'.loaded = HasLoaded /\ decision'.edited = EditOnItsWay
        BY <2>2 DEF Route
    <3>2. ASSUME HasLoaded, ~EditOnItsWay PROVE Via(host, memory) = Via(host, stored)
      <4>1. memory = stored
          BY <3>2, CopyIsStored DEF EditOnItsWay
      <4> QED BY <4>1
    <3>3. ASSUME NamesOnionService(host) PROVE Via(host, memory) = "tor"
        BY <3>3, OnionsAreSeen DEF Via, shouldUseTor
    <3> QED BY <3>1, <3>2, <3>3 DEF RoutedAsStored
  <2>3. CASE UNCHANGED vars \/ Wake \/ Suspend \/ StorageStep \/ PageStep \/ BootEnds
      BY <2>1, <2>3 DEF vars, Wake, Suspend, StorageStep, PageStep, BootEnds
  <2>4. CASE Edits
      BY <2>1, <2>4, EditEffects DEF CopyInv
  <2> QED BY <2>2, <2>3, <2>4, Cases
<1>3. Init => CopyInv
    BY InitialCopy
<1> QED BY <1>1, <1>2, <1>3, CopyStep, PTL DEF Spec

---------------------------------------------------------------------------
\* WebRTC.

\* Every step that changes the settings of the page applies them.
LEMMA WebRTCStep ==
    ASSUME CopyInv, WebRTCInv, [Next]_vars
    PROVE  WebRTCInv'
<1>1. CASE UNCHANGED vars
    BY <1>1 DEF vars, WebRTCInv
<1>2. CASE Wake
    BY <1>2 DEF Wake, WebRTCInv
<1>3. CASE Suspend
  <2>1. page = "up" /\ Quiet /\ page' = "off" /\ webrtcOff' = webrtcOff /\ stored' = stored
      BY <1>3 DEF Suspend
  <2>2. \A i \in DOMAIN notices : FALSE
      BY <2>1, EmptySeq DEF Quiet
  <2>3. memory = stored
      BY <2>1, <2>2, CopyIsStored DEF HasLoaded
  <2> QED BY <2>1, <2>3 DEF WebRTCInv
<1>4. CASE StorageStep
  <2>1. page # "off"
      BY <1>4 DEF StorageStep, CopyInv, Phases
  <2> QED BY <1>4, <2>1 DEF StorageStep, WebRTCInv
<1>5. CASE PageStep
  <2>1. page' # "off"
      BY <1>5 DEF PageStep
  <2>2. CASE page' = "booting"
      BY <2>2 DEF WebRTCInv
  <2>3. CASE webrtcOff' = (memory'.mode = "all" \/ memory'.webrtcDisabled)
      BY <2>1, <2>3 DEF WebRTCInv, WantsOff
  <2> QED BY <1>5, <2>2, <2>3 DEF PageStep, applyWebRTC
<1>6. CASE Edits
  <2>1. UNCHANGED <<stored, page, memory, webrtcOff>>
      BY <1>6, EditEffects DEF CopyInv
  <2> QED BY <2>1 DEF WebRTCInv
<1>7. CASE \E host \in Hosts : Route(host)
    BY <1>7 DEF Route, WebRTCInv
<1>8. CASE BootEnds
  <2>1. page' = "up" /\ webrtcOff' = (memory'.mode = "all" \/ memory'.webrtcDisabled)
      BY <1>8 DEF BootEnds, applyWebRTC
  <2> QED BY <2>1 DEF WebRTCInv, WantsOff
<1> QED BY <1>1, <1>2, <1>3, <1>4, <1>5, <1>6, <1>7, <1>8, Cases

\* background.js:121-142: whenever nothing is under way, whether the page runs
\* or is suspended, and whoever applied it last, WebRTC is off exactly when the stored settings ask for it.
THEOREM WebRTCFollows == Spec => []WebRTCAsStored
<1>1. CopyInv /\ WebRTCInv => WebRTCAsStored
  <2> SUFFICES ASSUME CopyInv, WebRTCInv, Quiet, page # "booting"
               PROVE  webrtcOff <=> stored.mode = "all" \/ stored.webrtcDisabled
      BY DEF WebRTCAsStored
  <2>1. (\A i \in DOMAIN ops : FALSE) /\ (\A i \in DOMAIN notices : FALSE)
      BY EmptySeq DEF Quiet
  <2>2. page # "loading"
      BY <2>1 DEF CopyInv, Phases
  <2>3. CASE page = "up"
    <3>1. memory = stored
        BY <2>1, <2>3, CopyIsStored DEF HasLoaded
    <3> QED BY <2>3, <3>1 DEF WebRTCInv, WantsOff
  <2>4. CASE page = "off"
      BY <2>4 DEF WebRTCInv, WantsOff
  <2> QED BY <2>2, <2>3, <2>4 DEF CopyInv, Types
<1>2. Init => CopyInv /\ WebRTCInv
    BY InitialCopy
<1>3. CopyInv /\ WebRTCInv /\ [Next]_vars => WebRTCInv'
    BY WebRTCStep
<1> QED BY <1>1, <1>2, <1>3, CopyStep, PTL DEF Spec

---------------------------------------------------------------------------
\* The list the user wants.

\* The list the user wants is stored once the edits under way are.
LEMMA ListEditEffects ==
    ASSUME CopyInv, WantedInv, Edits, MaxEdits <= 1, ~EarlyEdits
    PROVE  \E key, value :
              /\ [key |-> key, value |-> value] \in Change
              /\ ops' = Append(ops, Set(key, value))
              /\ stored' = stored
              /\ IF key = "whitelist" THEN value = wanted' /\ ops = <<>> ELSE wanted' = wanted
<1> DEFINE Goal(key, value) ==
              /\ [key |-> key, value |-> value] \in Change
              /\ ops' = Append(ops, Set(key, value))
              /\ stored' = stored
              /\ IF key = "whitelist" THEN value = wanted' /\ ops = <<>> ELSE wanted' = wanted
<1>0. memory.whitelist \subseteq Domains
    BY DEF CopyInv, Types, SettingsRecord
<1>1. ASSUME NEW key, NEW value, Save(key, value)
      PROVE  ops = <<>> /\ memory.whitelist = wanted
  <2>1. HasLoaded /\ Len(ops) + Len(notices) < MaxEdits
      BY <1>1 DEF Save
  <2>2. ops \in Seq(Call) /\ notices \in Seq(Notice)
      BY DEF CopyInv, Types
  <2>3. Len(ops) = 0 /\ Len(notices) = 0
      BY <2>1, <2>2, LenProperties, SettingsAssumption
  <2>4. ops = <<>> /\ notices = <<>>
      BY <2>2, <2>3, EmptySeq
  <2>5. (\A i \in DOMAIN ops : FALSE) /\ (\A i \in DOMAIN notices : FALSE)
      BY <2>4, EmptySeq
  <2>6. memory = stored
      BY <2>1, <2>5, CopyIsStored
  <2> QED BY <2>4, <2>5, <2>6 DEF WantedInv
<1>2. ASSUME NEW mode \in Modes, SetMode(mode) PROVE Goal("mode", mode)
    BY <1>2 DEF SetMode, Save, Change
<1>3. ASSUME NEW off \in BOOLEAN, SetWebRTC(off) PROVE Goal("webrtcDisabled", off)
    BY <1>3 DEF SetWebRTC, Save, Change
<1>4. ASSUME NEW domain \in Domains, addToWhitelist(domain)
      PROVE  Goal("whitelist", memory.whitelist \cup {domain})
  <2>1. Save("whitelist", memory.whitelist \cup {domain})
      BY <1>4 DEF addToWhitelist
  <2>2. ops = <<>> /\ memory.whitelist = wanted
      BY <1>1, <2>1
  <2> QED BY <1>0, <1>4, <2>1, <2>2 DEF addToWhitelist, Save, Change
<1>5. ASSUME NEW domain \in Domains, removeFromWhitelist(domain)
      PROVE  Goal("whitelist", memory.whitelist \ {domain})
  <2>1. Save("whitelist", memory.whitelist \ {domain})
      BY <1>5 DEF removeFromWhitelist
  <2>2. ops = <<>> /\ memory.whitelist = wanted
      BY <1>1, <2>1
  <2> QED BY <1>0, <1>5, <2>1, <2>2 DEF removeFromWhitelist, Save, Change
<1> HIDE DEF Goal
<1>6. \E key, value : Goal(key, value)
    BY <1>2, <1>3, <1>4, <1>5 DEF Edits
<1> QED BY <1>6 DEF Goal

\* With one edit at a time the list that is stored is the one that is wanted.
LEMMA WantedStep ==
    ASSUME CopyInv, WantedInv, [Next]_vars, MaxEdits <= 1, ~EarlyEdits
    PROVE  WantedInv'
<1>1. ops \in Seq(Call) /\ stored \in SettingsRecord
    BY DEF CopyInv, Types
<1>2. CASE UNCHANGED vars
    BY <1>2 DEF vars, WantedInv, IsListEdit
<1>3. CASE Suspend \/ PageStep \/ BootEnds \/ \E host \in Hosts : Route(host)
  <2>1. UNCHANGED <<ops, stored, wanted>>
      BY <1>3 DEF Suspend, PageStep, BootEnds, Route
  <2> QED BY <2>1 DEF WantedInv, IsListEdit
<1>4. CASE Wake
  <2>1. ops' = Append(ops, Get) /\ stored' = stored /\ wanted' = wanted
      BY <1>4 DEF Wake
  <2>2. /\ \A i \in DOMAIN ops : i \in DOMAIN ops' /\ ops'[i] = ops[i]
        /\ \A i \in DOMAIN ops' : i \in DOMAIN ops \/ i = Len(ops) + 1
        /\ ops'[Len(ops) + 1] = Get
      BY <1>1, <2>1, Appended, CallsAre
  <2> QED BY <2>1, <2>2, CallsAre DEF WantedInv, IsListEdit
<1>5. CASE StorageStep
  <2>1. ops # <<>> /\ ops' = Tail(ops) /\ wanted' = wanted
      BY <1>5 DEF StorageStep
  <2>2. /\ Head(ops) \in Call /\ Head(ops) = ops[1] /\ 1 \in DOMAIN ops
        /\ \A i \in DOMAIN ops' : i + 1 \in DOMAIN ops /\ ops'[i] = ops[i + 1]
        /\ \A i \in DOMAIN ops : i > 1 => i - 1 \in DOMAIN ops' /\ ops'[i - 1] = ops[i]
        /\ DOMAIN ops = 1..Len(ops) /\ Len(ops) \in Nat
      BY <1>1, <2>1, Shortened
  <2>3. CASE Head(ops).op = "get" /\ stored' = stored
    <3>1. ~IsListEdit(1)
        BY <2>2, <2>3 DEF IsListEdit
    <3>2. ASSUME \A i \in DOMAIN ops' : ~IsListEdit(i)' PROVE \A i \in DOMAIN ops : ~IsListEdit(i)
        BY <2>2, <3>1, <3>2 DEF IsListEdit
    <3> QED BY <2>1, <2>2, <2>3, <3>2 DEF WantedInv, IsListEdit
  <2>4. CASE /\ Head(ops).op = "set"
             /\ stored' = [stored EXCEPT ![Head(ops).change.key] = Head(ops).change.value]
    <3>1. PICK c : c = Head(ops).change
        OBVIOUS
    <3>2. c \in Change
        BY <2>2, <2>4, <3>1, Kinds DEF Get
    <3>3. stored' = [stored EXCEPT ![c.key] = c.value]
        BY <2>4, <3>1
    <3>4. stored'[c.key] = c.value /\ \A key \in Keys : key # c.key => stored'[key] = stored[key]
        BY <1>1, <3>2, <3>3, Changing
    <3>5. \A i \in DOMAIN ops' : IsListEdit(i)' => ops'[i].change.value = wanted'
        BY <2>1, <2>2 DEF WantedInv, IsListEdit
    <3>6. CASE c.key = "whitelist"
      <4>1. stored'["whitelist"] = wanted
          BY <2>2, <2>4, <3>1, <3>4, <3>6 DEF WantedInv, IsListEdit
      <4> QED BY <2>1, <3>5, <4>1 DEF WantedInv
    <3>7. CASE c.key # "whitelist"
      <4>1. ~IsListEdit(1)
          BY <2>2, <3>1, <3>7 DEF IsListEdit
      <4>2. ASSUME \A i \in DOMAIN ops' : ~IsListEdit(i)' PROVE \A i \in DOMAIN ops : ~IsListEdit(i)
          BY <2>2, <4>1, <4>2 DEF IsListEdit
      <4>3. stored'["whitelist"] = stored["whitelist"]
          BY <3>4, <3>7 DEF Keys
      <4> QED BY <2>1, <3>5, <4>2, <4>3 DEF WantedInv
    <3> QED BY <3>6, <3>7
  <2> QED BY <1>5, <2>3, <2>4 DEF StorageStep
<1>6. CASE Edits
  <2>1. PICK key, value :
              /\ [key |-> key, value |-> value] \in Change
              /\ ops' = Append(ops, Set(key, value))
              /\ stored' = stored
              /\ IF key = "whitelist" THEN value = wanted' /\ ops = <<>> ELSE wanted' = wanted
      BY <1>6, ListEditEffects
  <2>2. /\ Set(key, value) \in Call /\ Set(key, value).op = "set"
        /\ Set(key, value).change.key = key /\ Set(key, value).change.value = value
      BY <2>1, EditCall
  <2>3. /\ \A i \in DOMAIN ops : i \in DOMAIN ops' /\ ops'[i] = ops[i]
        /\ \A i \in DOMAIN ops' : i \in DOMAIN ops \/ i = Len(ops) + 1
        /\ ops'[Len(ops) + 1] = Set(key, value) /\ Len(ops) + 1 \in DOMAIN ops'
      BY <1>1, <2>1, <2>2, Appended
  <2>4. CASE key = "whitelist"
    <3>1. \A i \in DOMAIN ops : FALSE
        BY <2>1, <2>4, EmptySeq
    <3> QED BY <2>1, <2>2, <2>3, <2>4, <3>1 DEF WantedInv, IsListEdit
  <2>5. CASE key # "whitelist"
      BY <2>1, <2>2, <2>3, <2>5 DEF WantedInv, IsListEdit
  <2> QED BY <2>4, <2>5
<1> QED BY <1>2, <1>3, <1>4, <1>5, <1>6, Cases

\* background.js:576-603: no edit of the whitelist undoes another one, as long
\* as each edit waits for the one before it and for loadSettings.
THEOREM EditsAddUp ==
    ASSUME MaxEdits <= 1, ~EarlyEdits
    PROVE  Spec => []EditsAccumulate
<1>1. WantedInv => EditsAccumulate
  <2> SUFFICES ASSUME WantedInv, Quiet PROVE stored.whitelist = wanted
      BY DEF EditsAccumulate
  <2>1. \A i \in DOMAIN ops : FALSE
      BY EmptySeq DEF Quiet
  <2> QED BY <2>1 DEF WantedInv
<1>2. Init => CopyInv /\ WantedInv
    BY InitialCopy
<1>3. CopyInv /\ WantedInv /\ [Next]_vars => WantedInv'
    BY WantedStep
<1> QED BY <1>1, <1>2, <1>3, CopyStep, PTL DEF Spec
=============================================================================
