---------------------------- MODULE UnlockProofs ----------------------------
(***************************************************************************)
(* What the unlock interceptor may take for granted: proofs about Unlock,  *)
(* for any onions, tabs and request ids and any number of commands and     *)
(* crashes.                                                                *)
(***************************************************************************)
EXTENDS Unlock, ListLemmas

\* The types, and that only onions are added.
Types ==
    /\ TypeOK
    /\ \A i \in DOMAIN toCompanion :
          toCompanion[i].action = "auth-add" => toCompanion[i].onion \in Onions

\* The process runs behind an open port; without a port there is nothing on the
\* way, nobody waits, and no key is held.
Session ==
    /\ process => companionPort
    /\ ppKey => process
    /\ ~companionPort =>
          /\ toCompanion = <<>> /\ toExtension = <<>>
          /\ pending = [i \in Ids |-> NoRequest]
          /\ ~authIndex.unlocked

\* No two messages carry the same id.
IdsDiffer ==
    /\ \A i, j \in DOMAIN toCompanion : toCompanion[i].id = toCompanion[j].id => i = j
    /\ \A i, j \in DOMAIN toExtension : toExtension[i].id = toExtension[j].id => i = j
    /\ \A i \in DOMAIN toCompanion, j \in DOMAIN toExtension :
          toCompanion[i].id # toExtension[j].id

\* What a reply answers, as the page knows it.
Answers(i) == pending[toExtension[i].id].action

\* A command is what the page remembers of it, unless it has given it up.
AskedIsPending ==
    \A i \in DOMAIN toCompanion :
       \/ pending[toCompanion[i].id].action = toCompanion[i].action
       \/ toCompanion[i].action \in TimingOut /\ pending[toCompanion[i].id] = NoRequest

\* The replies that tell that the vault has been opened, or locked.
Opening == {"auth-set-passphrase", "auth-unlock"}
Turning(v) == IF v THEN Opening ELSE {"auth-lock"}
RepliesTellTheTruth ==
    \A i \in DOMAIN toExtension :
       /\ Answers(i) = "auth-lock" => toExtension[i].ok /\ ~toExtension[i].unlocked
       /\ Answers(i) \in Opening /\ toExtension[i].ok => toExtension[i].unlocked

WireInv == Types /\ Session /\ IdsDiffer /\ AskedIsPending /\ RepliesTellTheTruth

\* Reply j tells that the vault is open (v), or that it is not.
Tells(j, v) == Answers(j) \in Turning(v) /\ toExtension[j].ok

\* What the page believes, or will after reply i, is right, or will be put right
\* by a later reply.
ReplyIsCorrected(v) ==
    process /\ ppKey = v =>
       \A i \in DOMAIN toExtension : toExtension[i].unlocked # v =>
          \E j \in DOMAIN toExtension : j > i /\ Tells(j, v)
BeliefIsCorrected(v) ==
    process /\ ppKey = v /\ authIndex.unlocked # v => \E j \in DOMAIN toExtension : Tells(j, v)
BeliefInv(v) == ReplyIsCorrected(v) /\ BeliefIsCorrected(v)

\* While the storage is read, the port is closed; then the copy is what is stored.
CopyIsStored ==
    /\ load # "done" => ~companionPort /\ authIndex = DefaultIndex
    /\ load = "reading" => read = stored
    /\ load = "done" => authIndex.entries = stored.entries
    /\ ~stored.there => stored = NoCopy

\* A list of the onions as they are now is on its way, behind reply i.
ListComesAfter(i) ==
    \/ \E k \in DOMAIN toCompanion : toCompanion[k].action = "refresh"
    \/ \E j \in DOMAIN toExtension :
          /\ j > i
          /\ \/ Answers(j) \in Mutations /\ toExtension[j].ok
             \/ Answers(j) = "refresh" /\ toExtension[j].entries = index
ListInv ==
    ppKey =>
       /\ authIndex.entries # index => ListComesAfter(0)
       /\ \A i \in DOMAIN toExtension : toExtension[i].entries # index => ListComesAfter(i)

\* A tab on its way that might pass has had its moment.
ExcuseInv ==
    /\ \A t \in Tabs : tab[t] \in {"arrived", "hashing"} /\ MayPass(t) => t \in excused
    /\ \A t \in Tabs : tab[t] = "hashing" /\ goal[t] \notin snapshot[t] => t \in excused

---------------------------------------------------------------------------
\* Types.

\* The state at the start has its type.
LEMMA InitialTypes == Init => Types
<1> SUFFICES ASSUME Init PROVE Types
    OBVIOUS
<1>1. toCompanion \in Seq(Request) /\ toExtension \in Seq(Reply)
    BY EmptySeq DEF Init
<1>2. \A i \in DOMAIN toCompanion : FALSE
    BY EmptySeq DEF Init
<1>3. /\ authIndex \in [entries : SUBSET Onions, unlocked : BOOLEAN]
      /\ stored \in Copy /\ read \in Copy
      /\ shown \in [vault : BOOLEAN, unlocked : BOOLEAN, addresses : SUBSET Onions]
    BY DEF Init, DefaultIndex, NoCopy, Copy
<1>4. /\ pending \in [Ids -> {NoRequest} \cup [action : Actions, asker : Askers]]
      /\ tab \in [Tabs -> Places] /\ goal \in [Tabs -> Onions]
      /\ snapshot \in [Tabs -> SUBSET Onions]
    BY DEF Init, Places
<1>5. events \in 0..MaxEvents
    BY UnlockAssumption DEF Init
<1> QED BY <1>1, <1>2, <1>3, <1>4, <1>5 DEF Init, Types, TypeOK

\* The id of a new request is nobody's.
LEMMA FreshId ==
    ASSUME MayAsk
    PROVE  /\ NextId \in Ids /\ pending[NextId] = NoRequest
           /\ \A i \in DOMAIN toCompanion : toCompanion[i].id # NextId
           /\ \A i \in DOMAIN toExtension : toExtension[i].id # NextId
<1>1. NextId \in FreshIds
    BY DEF MayAsk, NextId
<1> QED BY <1>1 DEF FreshIds, Carried

\* The command that asks for something.
Command(action, onion, right) ==
    [id |-> NextId, action |-> action, onion |-> onion, right |-> right]

\* A command is well formed and carries a fresh id.
LEMMA NewCommand ==
    ASSUME MayAsk, NEW action \in Actions, NEW onion \in SomeOnion, NEW right \in BOOLEAN
    PROVE  /\ Command(action, onion, right) \in Request
           /\ Command(action, onion, right).id = NextId
           /\ Command(action, onion, right).action = action
           /\ Command(action, onion, right).onion = onion
BY FreshId DEF Request, Command

\* The request of a new id, and where it is.
LEMMA Asked ==
    ASSUME Types, NEW action \in Actions, NEW onion \in SomeOnion, NEW right \in BOOLEAN,
           NEW asker \in Askers, Ask(action, onion, right, asker)
    PROVE  /\ toCompanion' = Append(toCompanion, Command(action, onion, right))
           /\ toExtension' = toExtension
           /\ MayAsk
           /\ NextId \in Ids /\ pending[NextId] = NoRequest
           /\ \A i \in DOMAIN toCompanion : toCompanion[i].id # NextId
           /\ \A i \in DOMAIN toExtension : toExtension[i].id # NextId
           /\ pending' \in [Ids -> {NoRequest} \cup [action : Actions, asker : Askers]]
           /\ pending'[NextId] = [action |-> action, asker |-> asker]
           /\ pending'[NextId].action = action
           /\ \A i \in Ids : i # NextId => pending'[i] = pending[i]
<1>1. MayAsk
    BY DEF Ask
<1>2. /\ NextId \in Ids /\ pending[NextId] = NoRequest
      /\ \A i \in DOMAIN toCompanion : toCompanion[i].id # NextId
      /\ \A i \in DOMAIN toExtension : toExtension[i].id # NextId
    BY <1>1, FreshId
<1>4. /\ pending \in [Ids -> {NoRequest} \cup [action : Actions, asker : Askers]]
      /\ pending' = [pending EXCEPT ![NextId] = [action |-> action, asker |-> asker]]
    BY DEF Ask, Types, TypeOK
<1> DEFINE r == [action |-> action, asker |-> asker]
<1>5. r \in [action : Actions, asker : Askers] /\ r.action = action
    OBVIOUS
<1>6. pending' = [pending EXCEPT ![NextId] = r]
    BY <1>4
<1> HIDE DEF r
<1>7. /\ pending' \in [Ids -> {NoRequest} \cup [action : Actions, asker : Askers]]
      /\ pending'[NextId] = r
      /\ \A i \in Ids : i # NextId => pending'[i] = pending[i]
    BY <1>2, <1>4, <1>5, <1>6
<1>8. /\ toCompanion' = Append(toCompanion, Command(action, onion, right))
      /\ toExtension' = toExtension
    BY DEF Ask, Command
<1> QED BY <1>1, <1>2, <1>5, <1>7, <1>8 DEF r

\* To ask posts one command and remembers it.
LEMMA AskedTypes ==
    ASSUME Types, NEW action \in Actions, NEW onion \in SomeOnion, NEW right \in BOOLEAN,
           NEW asker \in Askers, Ask(action, onion, right, asker),
           action = "auth-add" => onion \in Onions
    PROVE  /\ toCompanion' \in Seq(Request) /\ toExtension' \in Seq(Reply)
           /\ pending' \in [Ids -> {NoRequest} \cup [action : Actions, asker : Askers]]
           /\ companionPort' \in BOOLEAN /\ process' \in BOOLEAN
           /\ \A i \in DOMAIN toCompanion' :
                 toCompanion'[i].action = "auth-add" => toCompanion'[i].onion \in Onions
<1> DEFINE r == Command(action, onion, right)
<1>1. /\ toCompanion' = Append(toCompanion, r) /\ r \in Request
      /\ r.action = action /\ r.onion = onion
      /\ toExtension' = toExtension
  <2>1. MayAsk /\ toCompanion' = Append(toCompanion, r) /\ toExtension' = toExtension
      BY DEF Ask, Command
  <2>2. r \in Request /\ r.action = action /\ r.onion = onion
      BY <2>1, NewCommand
  <2> QED BY <2>1, <2>2
<1>2. pending' \in [Ids -> {NoRequest} \cup [action : Actions, asker : Askers]]
    BY Asked, Zenon
<1> HIDE DEF r
<1>3. toCompanion \in Seq(Request) /\ toExtension \in Seq(Reply)
      /\ companionPort \in BOOLEAN /\ process \in BOOLEAN
    BY DEF Types, TypeOK
<1>4. companionPort' \in BOOLEAN /\ process' \in BOOLEAN
    BY <1>3 DEF Ask
<1>5. /\ toCompanion' \in Seq(Request)
      /\ \A i \in DOMAIN toCompanion : toCompanion'[i] = toCompanion[i]
      /\ \A i \in DOMAIN toCompanion' : i \in DOMAIN toCompanion \/ i = Len(toCompanion) + 1
      /\ toCompanion'[Len(toCompanion) + 1] = r
    BY <1>1, <1>3, Appended
<1>6. \A i \in DOMAIN toCompanion' :
         toCompanion'[i].action = "auth-add" => toCompanion'[i].onion \in Onions
    BY <1>1, <1>5 DEF Types
<1> QED BY <1>1, <1>2, <1>3, <1>4, <1>5, <1>6

\* Those who ask keep the types.
LEMMA AskingTypes ==
    ASSUME Types, Excuse,
           \/ \E t \in Tabs, right \in BOOLEAN : Submit(t, right)
           \/ \E action \in Mutations, onion \in SomeOnion : Manage(action, onion)
           \/ Reload
           \/ OnReady
    PROVE  Types'
<1>0. excused' \subseteq Tabs
    BY DEF Excuse
<1>1. ASSUME NEW t \in Tabs, NEW right \in BOOLEAN, Submit(t, right) PROVE Types'
  <2>1. Ask("auth-unlock", "none", right, t)
      BY <1>1 DEF Submit
  <2>2. /\ toCompanion' \in Seq(Request) /\ toExtension' \in Seq(Reply)
        /\ pending' \in [Ids -> {NoRequest} \cup [action : Actions, asker : Askers]]
        /\ companionPort' \in BOOLEAN /\ process' \in BOOLEAN
        /\ \A i \in DOMAIN toCompanion' :
              toCompanion'[i].action = "auth-add" => toCompanion'[i].onion \in Onions
      BY <2>1, AskedTypes DEF SomeOnion, Actions, Mutations, Askers
  <2>3. tab' \in [Tabs -> Places]
      BY <1>1 DEF Submit, Types, TypeOK, Places
  <2> QED BY <1>0, <1>1, <2>2, <2>3
          DEF Submit, Types, TypeOK, companionVars, cacheVars, managerVars
<1>2. ASSUME NEW action \in Mutations, NEW onion \in SomeOnion, Manage(action, onion)
      PROVE  Types'
  <2>1. Ask(action, onion, TRUE, "manager")
      BY <1>2 DEF Manage
  <2>2. action = "auth-add" => onion \in Onions
      BY <1>2 DEF Manage, Offered, SomeOnion
  <2>3. /\ toCompanion' \in Seq(Request) /\ toExtension' \in Seq(Reply)
        /\ pending' \in [Ids -> {NoRequest} \cup [action : Actions, asker : Askers]]
        /\ companionPort' \in BOOLEAN /\ process' \in BOOLEAN
        /\ \A i \in DOMAIN toCompanion' :
              toCompanion'[i].action = "auth-add" => toCompanion'[i].onion \in Onions
      BY <2>1, <2>2, AskedTypes DEF Actions, Askers
  <2>4. events' \in 0..MaxEvents
      BY <1>2, UnlockAssumption DEF Manage, Types, TypeOK
  <2> QED BY <1>0, <1>2, <2>3, <2>4
          DEF Manage, Types, TypeOK, companionVars, cacheVars, tabVars
<1>3. ASSUME Reload PROVE Types'
  <2>1. Ask("auth-list", "none", TRUE, "manager")
      BY <1>3 DEF Reload
  <2>2. /\ toCompanion' \in Seq(Request) /\ toExtension' \in Seq(Reply)
        /\ pending' \in [Ids -> {NoRequest} \cup [action : Actions, asker : Askers]]
        /\ companionPort' \in BOOLEAN /\ process' \in BOOLEAN
        /\ \A i \in DOMAIN toCompanion' :
              toCompanion'[i].action = "auth-add" => toCompanion'[i].onion \in Onions
      BY <2>1, AskedTypes DEF SomeOnion, Actions, Askers
  <2> QED BY <1>0, <1>3, <2>2
          DEF Reload, Types, TypeOK, companionVars, cacheVars, tabVars
<1>4. ASSUME OnReady PROVE Types'
  <2>1. Ask("refresh", "none", TRUE, "none")
      BY <1>4 DEF OnReady
  <2>2. /\ toCompanion' \in Seq(Request) /\ toExtension' \in Seq(Reply)
        /\ pending' \in [Ids -> {NoRequest} \cup [action : Actions, asker : Askers]]
        /\ companionPort' \in BOOLEAN /\ process' \in BOOLEAN
        /\ \A i \in DOMAIN toCompanion' :
              toCompanion'[i].action = "auth-add" => toCompanion'[i].onion \in Onions
      BY <2>1, AskedTypes DEF SomeOnion, Actions, Askers
  <2> QED BY <1>0, <1>4, <2>2
          DEF OnReady, Types, TypeOK, companionVars, cacheVars, tabVars, managerVars
<1> QED BY <1>1, <1>2, <1>3, <1>4

\* What the page and the tabs do alone keeps the types.
LEMMA LocalTypes ==
    ASSUME Types, Excuse,
           \/ Wake \/ LoadAuthIndex \/ Suspend
           \/ \E t \in Tabs : Navigate(t) \/ ReadEntries(t) \/ Decide(t) \/ Cancel(t)
    PROVE  Types'
<1>0. excused' \subseteq Tabs
    BY DEF Excuse
<1>1. CASE Wake
    BY <1>0, <1>1 DEF Wake, Types, TypeOK, companionVars, linkVars, tabVars, managerVars
<1>2. CASE LoadAuthIndex
  <2>1. authIndex' \in [entries : SUBSET Onions, unlocked : BOOLEAN] /\ read' \in Copy
      BY <1>2 DEF LoadAuthIndex, Types, TypeOK, Copy, NoCopy
  <2> QED BY <1>0, <1>2, <2>1
          DEF LoadAuthIndex, Types, TypeOK, companionVars, linkVars, tabVars, managerVars
<1>3. CASE Suspend
    BY <1>0, <1>3
       DEF Suspend, DefaultIndex, Types, TypeOK, companionVars, linkVars, tabVars, managerVars
<1>4. ASSUME NEW t \in Tabs, Navigate(t) \/ ReadEntries(t) \/ Decide(t) \/ Cancel(t)
      PROVE  Types'
  <2>1. tab' \in [Tabs -> Places] /\ snapshot' \in [Tabs -> SUBSET Onions]
        /\ goal' \in [Tabs -> Onions]
      BY <1>4 DEF Navigate, ReadEntries, Decide, Cancel, Types, TypeOK, Places
  <2>2. UNCHANGED <<companionVars, linkVars, cacheVars, pending, managerVars>>
      BY <1>4 DEF Navigate, ReadEntries, Decide, Cancel
  <2> QED BY <1>0, <2>1, <2>2
          DEF Types, TypeOK, companionVars, linkVars, cacheVars, managerVars
<1> QED BY <1>1, <1>2, <1>3, <1>4

\* The companion's answer to the command at the head of its pipe.
Answered ==
    [id |-> Head(toCompanion).id, ok |-> Granted(Head(toCompanion)),
     entries |-> index', vault |-> vaultExists', unlocked |-> ppKey']

\* The companion takes the first command and answers it.
LEMMA Handled ==
    ASSUME Types, Handle
    PROVE  /\ toCompanion \in Seq(Request) /\ toCompanion # <<>>
           /\ toCompanion' = Tail(toCompanion)
           /\ toExtension' = Append(toExtension, Answered)
           /\ Answered \in Reply
           /\ Answered.id = toCompanion[1].id /\ Answered.ok = Granted(toCompanion[1])
           /\ Answered.entries = index' /\ Answered.unlocked = ppKey'
           /\ index' \subseteq Onions /\ vaultExists' \in BOOLEAN /\ ppKey' \in BOOLEAN
           /\ pending' = pending
<1>1. /\ toCompanion \in Seq(Request) /\ toCompanion # <<>>
      /\ toCompanion' = Tail(toCompanion)
      /\ toExtension' = Append(toExtension, Answered)
      /\ pending' = pending
      /\ IF Granted(Head(toCompanion)) THEN Carry(Head(toCompanion))
                                       ELSE UNCHANGED companionVars
    BY DEF Handle, Answered, Types, TypeOK
<1>2. /\ toCompanion[1] \in Request /\ Head(toCompanion) = toCompanion[1]
      /\ 1 \in DOMAIN toCompanion
    BY <1>1, Shortened
<1> DEFINE r == toCompanion[1]
<1>3. r.id \in Ids /\ r.right \in BOOLEAN /\ r.action \in Actions
      /\ (r.action = "auth-add" => r.onion \in Onions)
    BY <1>2 DEF Request, Types
<1>4. index \subseteq Onions /\ vaultExists \in BOOLEAN /\ ppKey \in BOOLEAN
    BY DEF Types, TypeOK
<1>5. IF Granted(r) THEN Carry(r) ELSE UNCHANGED companionVars
    BY <1>1, <1>2
<1> HIDE DEF r
<1>6. Granted(r) \in BOOLEAN
    BY <1>3, <1>4 DEF Granted
<1>9. index' \subseteq Onions /\ vaultExists' \in BOOLEAN /\ ppKey' \in BOOLEAN
  <2>1. CASE Granted(r)
    <3>1. Carry(r)
        BY <1>5, <2>1
    <3>2. vaultExists' \in BOOLEAN
        BY <3>1, <1>4 DEF Carry
    <3>3. ppKey' \in BOOLEAN
        BY <3>1, <1>4 DEF Carry
    <3>4. index' \subseteq Onions
        BY <3>1, <1>3, <1>4 DEF Carry
    <3> QED BY <3>2, <3>3, <3>4
  <2>2. CASE ~Granted(r)
      BY <1>4, <1>5, <2>2 DEF companionVars
  <2> QED BY <2>1, <2>2
<1>10. Head(toCompanion) = r
    BY <1>2 DEF r
<1> DEFINE g == Granted(r)
           e == index'
           v == vaultExists'
           k == ppKey'
<1>11. Answered = [id |-> r.id, ok |-> g, entries |-> e, vault |-> v, unlocked |-> k]
    BY <1>10 DEF Answered
<1>12. g \in BOOLEAN /\ e \subseteq Onions /\ v \in BOOLEAN /\ k \in BOOLEAN
    BY <1>6, <1>9
<1> HIDE DEF g, e, v, k
<1>13. /\ Answered \in Reply /\ Answered.id = r.id /\ Answered.ok = g
       /\ Answered.entries = e /\ Answered.unlocked = k
    BY <1>3, <1>11, <1>12 DEF Reply
<1>14. Answered.id = toCompanion[1].id /\ Answered.ok = Granted(toCompanion[1])
    BY <1>13, Zenon DEF r, g
<1>15. Answered \in Reply /\ Answered.entries = index' /\ Answered.unlocked = ppKey'
    BY <1>13 DEF e, k
<1> QED BY <1>1, <1>9, <1>14, <1>15, Zenon

\* The companion keeps the types.
LEMMA CompanionTypes ==
    ASSUME Types, Excuse, Handle \/ Crash
    PROVE  Types'
<1>0. excused' \subseteq Tabs
    BY DEF Excuse
<1>1. CASE Handle
  <2>1. /\ toCompanion \in Seq(Request) /\ toCompanion # <<>>
        /\ toCompanion' = Tail(toCompanion)
        /\ toExtension' = Append(toExtension, Answered)
        /\ Answered \in Reply
        /\ index' \subseteq Onions /\ vaultExists' \in BOOLEAN /\ ppKey' \in BOOLEAN
      BY <1>1, Handled
  <2>2. toExtension \in Seq(Reply)
      BY DEF Types, TypeOK
  <2>3. toExtension' \in Seq(Reply)
      BY <2>1, <2>2, Appended
  <2>4. /\ toCompanion' \in Seq(Request)
        /\ \A i \in DOMAIN toCompanion' : i + 1 \in DOMAIN toCompanion
                                          /\ toCompanion'[i] = toCompanion[i + 1]
      BY <2>1, Shortened
  <2>5. \A i \in DOMAIN toCompanion' :
           toCompanion'[i].action = "auth-add" => toCompanion'[i].onion \in Onions
      BY <2>4 DEF Types
  <2> QED BY <1>0, <1>1, <2>1, <2>3, <2>4, <2>5
          DEF Handle, Types, TypeOK, cacheVars, tabVars, managerVars
<1>2. CASE Crash
  <2>1. index' \subseteq Onions
    <3>1. CASE UNCHANGED <<index, vaultExists>>
        BY <3>1 DEF Types, TypeOK
    <3>2. CASE toCompanion # <<>>
               /\ LET r == Head(toCompanion)
                  IN  /\ r.action \in {"auth-add", "auth-remove"} /\ Granted(r)
                      /\ index' = IF r.action = "auth-add" THEN index \cup {r.onion}
                                                           ELSE index \ {r.onion}
      <4>1. toCompanion \in Seq(Request) /\ index \subseteq Onions
          BY DEF Types, TypeOK
      <4>2. 1 \in DOMAIN toCompanion /\ Head(toCompanion) = toCompanion[1]
          BY <4>1, <3>2, Shortened
      <4>3. toCompanion[1].action = "auth-add" => toCompanion[1].onion \in Onions
          BY <4>2 DEF Types
      <4> QED BY <3>2, <4>1, <4>2, <4>3
    <3> QED BY <1>2, <3>1, <3>2 DEF Crash
  <2>2. vaultExists' = vaultExists /\ ppKey' = FALSE /\ process' = FALSE
        /\ events' = events + 1 /\ events < MaxEvents
        /\ UNCHANGED <<toCompanion, toExtension, companionPort, cacheVars, pending, tabVars,
                       manager, shown>>
      BY <1>2 DEF Crash
  <2>3. events' \in 0..MaxEvents
      BY <2>2, UnlockAssumption DEF Types, TypeOK
  <2> QED BY <1>0, <2>1, <2>2, <2>3 DEF Types, TypeOK, cacheVars, tabVars
<1> QED BY <1>1, <1>2

\* Those who waited go on, and keep the types.
LEMMA ReturnTypes ==
    ASSUME Types, NEW askers, NEW ok, Return(askers, ok)
    PROVE  /\ tab' \in [Tabs -> Places] /\ goal' \in [Tabs -> Onions]
           /\ snapshot' \in [Tabs -> SUBSET Onions]
           /\ manager' \in {"idle", "waiting", "reload"}
BY DEF Return, Types, TypeOK, Places

\* The reply at the head of the page's pipe.
Heard == toExtension[1]

\* The page takes the first reply.
LEMMA Delivered ==
    ASSUME Types, Deliver
    PROVE  /\ toExtension \in Seq(Reply) /\ toExtension # <<>> /\ 1 \in DOMAIN toExtension
           /\ toExtension' = Tail(toExtension)
           /\ Heard \in Reply /\ Heard.id \in Ids /\ Heard.entries \subseteq Onions
           /\ Heard.ok \in BOOLEAN /\ Heard.unlocked \in BOOLEAN /\ Heard.vault \in BOOLEAN
           /\ \/ MutationDone(Heard.id, Heard)
              \/ Refreshed(Heard.id, Heard)
              \/ Listed(Heard.id, Heard)
              \/ Late(Heard.id)
           /\ UNCHANGED <<companionVars, process, companionPort, read, load, events>>
<1>1. /\ toExtension \in Seq(Reply) /\ toExtension # <<>>
      /\ toExtension' = Tail(toExtension)
      /\ \/ MutationDone(Head(toExtension).id, Head(toExtension))
         \/ Refreshed(Head(toExtension).id, Head(toExtension))
         \/ Listed(Head(toExtension).id, Head(toExtension))
         \/ Late(Head(toExtension).id)
      /\ UNCHANGED <<companionVars, process, companionPort, read, load, events>>
    BY DEF Deliver, Types, TypeOK
<1>2. Head(toExtension) = Heard /\ Heard \in Reply /\ 1 \in DOMAIN toExtension
    BY <1>1, Shortened DEF Heard
<1>3. /\ Heard.id \in Ids /\ Heard.entries \subseteq Onions
      /\ Heard.ok \in BOOLEAN /\ Heard.unlocked \in BOOLEAN /\ Heard.vault \in BOOLEAN
    BY <1>2 DEF Reply
<1> QED BY <1>1, <1>2, <1>3

\* The refresh that follows a mutation has the mutation's id.
Refreshing(id) == [id |-> id, action |-> "refresh", onion |-> "none", right |-> TRUE]

\* The refresh that follows a mutation is a command with the same id.
LEMMA RefreshingIs ==
    ASSUME NEW id \in Ids
    PROVE  /\ Refreshing(id) \in Request /\ Refreshing(id).id = id
           /\ Refreshing(id).action = "refresh"
BY DEF Refreshing, Request, Actions, SomeOnion

\* What each kind of reply does to the copy, the store, the waiters and the pipe.
LEMMA MutationEffects ==
    ASSUME Types, NEW id \in Ids, NEW reply \in Reply, MutationDone(id, reply)
    PROVE  /\ pending[id].action \in Mutations
           /\ ~reply.ok =>
                 /\ pending'[id] = NoRequest
                 /\ toCompanion' = toCompanion /\ authIndex' = authIndex
           /\ reply.ok =>
                 /\ pending'[id].action = "refresh"
                 /\ pending'[id].asker = pending[id].asker
                 /\ toCompanion' = Append(toCompanion, Refreshing(id))
                 /\ tab' = tab
                 /\ authIndex'.unlocked = IF pending[id].action \in Opening THEN TRUE
                                          ELSE IF pending[id].action = "auth-lock" THEN FALSE
                                          ELSE authIndex.unlocked
           /\ authIndex' \in [entries : SUBSET Onions, unlocked : BOOLEAN]
           /\ authIndex'.entries = authIndex.entries
           /\ pending' \in [Ids -> {NoRequest} \cup [action : Actions, asker : Askers]]
           /\ \A i \in Ids : i # id => pending'[i] = pending[i]
           /\ goal' = goal /\ snapshot' = snapshot
           /\ stored' = stored
<1>1. /\ pending[id].action \in Mutations
      /\ pending \in [Ids -> {NoRequest} \cup [action : Actions, asker : Askers]]
      /\ authIndex \in [entries : SUBSET Onions, unlocked : BOOLEAN]
      /\ stored' = stored
    BY DEF MutationDone, Types, TypeOK
<1>2. pending[id] \in [action : Actions, asker : Askers]
  <2>1. pending[id] # NoRequest
      BY <1>1 DEF NoRequest, Mutations
  <2> QED BY <1>1, <2>1
<1>3. CASE ~reply.ok
  <2>1. /\ pending' = [pending EXCEPT ![id] = NoRequest]
        /\ toCompanion' = toCompanion /\ authIndex' = authIndex
        /\ goal' = goal /\ snapshot' = snapshot
      BY <1>3 DEF MutationDone, Return
  <2>2. /\ pending'[id] = NoRequest
        /\ pending' \in [Ids -> {NoRequest} \cup [action : Actions, asker : Askers]]
        /\ \A i \in Ids : i # id => pending'[i] = pending[i]
      BY <1>1, <2>1
  <2> QED BY <1>1, <1>3, <2>1, <2>2
<1>4. CASE reply.ok
  <2> DEFINE u == CASE pending[id].action \in {"auth-set-passphrase", "auth-unlock"} -> TRUE
                    [] pending[id].action = "auth-lock" -> FALSE
                    [] OTHER -> authIndex.unlocked
             p == [pending[id] EXCEPT !.action = "refresh"]
  <2>1. /\ authIndex' = [authIndex EXCEPT !.unlocked = u]
        /\ pending' = [pending EXCEPT ![id] = p]
        /\ toCompanion' = Append(toCompanion, Refreshing(id))
        /\ tab' = tab /\ goal' = goal /\ snapshot' = snapshot
      BY <1>4 DEF MutationDone, Refreshing, tabVars
  <2>2. u = IF pending[id].action \in Opening THEN TRUE
            ELSE IF pending[id].action = "auth-lock" THEN FALSE
            ELSE authIndex.unlocked
      BY DEF Opening
  <2>3. u \in BOOLEAN
      BY <2>2, <1>1
  <2>4. p \in [action : Actions, asker : Askers] /\ p.action = "refresh"
        /\ p.asker = pending[id].asker
      BY <1>2 DEF Actions
  <2> HIDE DEF u, p
  <2>5. /\ pending'[id] = p
        /\ pending' \in [Ids -> {NoRequest} \cup [action : Actions, asker : Askers]]
        /\ \A i \in Ids : i # id => pending'[i] = pending[i]
      BY <1>1, <2>1, <2>4
  <2>6. /\ authIndex' \in [entries : SUBSET Onions, unlocked : BOOLEAN]
        /\ authIndex'.unlocked = u /\ authIndex'.entries = authIndex.entries
      BY <1>1, <2>1, <2>3
  <2> QED BY <1>1, <1>4, <2>1, <2>2, <2>4, <2>5, <2>6
<1>5. reply.ok \in BOOLEAN
    BY DEF Reply
<1> QED BY <1>3, <1>4, <1>5

\* What the reply to a refresh changes.
LEMMA RefreshEffects ==
    ASSUME Types, NEW id \in Ids, NEW reply \in Reply, Refreshed(id, reply)
    PROVE  /\ pending[id].action = "refresh"
           /\ pending'[id] = NoRequest
           /\ toCompanion' = toCompanion
           /\ authIndex' \in [entries : SUBSET Onions, unlocked : BOOLEAN]
           /\ authIndex'.entries = reply.entries /\ authIndex'.unlocked = reply.unlocked
           /\ stored' \in Copy /\ stored'.there /\ stored'.entries = reply.entries
           /\ pending' \in [Ids -> {NoRequest} \cup [action : Actions, asker : Askers]]
           /\ \A i \in Ids : i # id => pending'[i] = pending[i]
           /\ Return({pending[id].asker}, TRUE)
<1>1. /\ pending[id].action = "refresh"
      /\ pending' = [pending EXCEPT ![id] = NoRequest]
      /\ authIndex' = [entries |-> reply.entries, unlocked |-> reply.unlocked]
      /\ stored' = [there |-> TRUE, entries |-> reply.entries]
      /\ toCompanion' = toCompanion
      /\ Return({pending[id].asker}, TRUE)
    BY DEF Refreshed, RefreshedTo
<1>2. pending \in [Ids -> {NoRequest} \cup [action : Actions, asker : Askers]]
    BY DEF Types, TypeOK
<1>3. /\ pending'[id] = NoRequest
      /\ pending' \in [Ids -> {NoRequest} \cup [action : Actions, asker : Askers]]
      /\ \A i \in Ids : i # id => pending'[i] = pending[i]
    BY <1>1, <1>2
<1>4. /\ authIndex' \in [entries : SUBSET Onions, unlocked : BOOLEAN]
      /\ authIndex'.entries = reply.entries /\ authIndex'.unlocked = reply.unlocked
      /\ stored' \in Copy /\ stored'.there /\ stored'.entries = reply.entries
    BY <1>1 DEF Reply, Copy
<1> QED BY <1>1, <1>3, <1>4

\* What the reply to a list of the management page changes.
LEMMA ListEffects ==
    ASSUME Types, NEW id \in Ids, NEW reply \in Reply, Listed(id, reply)
    PROVE  /\ pending[id].action = "auth-list"
           /\ pending'[id] = NoRequest
           /\ toCompanion' = toCompanion /\ authIndex' = authIndex /\ stored' = stored
           /\ pending' \in [Ids -> {NoRequest} \cup [action : Actions, asker : Askers]]
           /\ \A i \in Ids : i # id => pending'[i] = pending[i]
           /\ UNCHANGED tabVars
<1>1. pending \in [Ids -> {NoRequest} \cup [action : Actions, asker : Askers]]
    BY DEF Types, TypeOK
<1>2. pending' = [pending EXCEPT ![id] = NoRequest]
    BY DEF Listed
<1>3. /\ pending'[id] = NoRequest
      /\ pending' \in [Ids -> {NoRequest} \cup [action : Actions, asker : Askers]]
      /\ \A i \in Ids : i # id => pending'[i] = pending[i]
    BY <1>1, <1>2
<1> QED BY <1>3 DEF Listed

\* Replies keep the types.
LEMMA DeliverTypes ==
    ASSUME Types, Excuse, Deliver
    PROVE  Types'
<1>0. excused' \subseteq Tabs
    BY DEF Excuse
<1>1. /\ toExtension \in Seq(Reply) /\ toExtension # <<>>
      /\ toExtension' = Tail(toExtension)
      /\ Heard \in Reply /\ Heard.id \in Ids /\ Heard.entries \subseteq Onions
      /\ Heard.ok \in BOOLEAN /\ Heard.unlocked \in BOOLEAN /\ Heard.vault \in BOOLEAN
      /\ \/ MutationDone(Heard.id, Heard)
         \/ Refreshed(Heard.id, Heard)
         \/ Listed(Heard.id, Heard)
         \/ Late(Heard.id)
      /\ UNCHANGED <<companionVars, process, companionPort, read, load, events>>
    BY Delivered
<1>2. toExtension' \in Seq(Reply)
    BY <1>1, Shortened
<1>3. CASE MutationDone(Heard.id, Heard)
  <2>1. /\ ~Heard.ok => toCompanion' = toCompanion
        /\ Heard.ok => toCompanion' = Append(toCompanion, Refreshing(Heard.id))
        /\ authIndex' \in [entries : SUBSET Onions, unlocked : BOOLEAN]
        /\ pending' \in [Ids -> {NoRequest} \cup [action : Actions, asker : Askers]]
        /\ stored' = stored
      BY <1>1, <1>3, MutationEffects
  <2>2. /\ tab' \in [Tabs -> Places] /\ goal' \in [Tabs -> Onions]
        /\ snapshot' \in [Tabs -> SUBSET Onions]
        /\ manager' \in {"idle", "waiting", "reload"}
    <3>1. CASE Return({pending[Heard.id].asker}, FALSE)
        BY <3>1, ReturnTypes
    <3>2. CASE UNCHANGED <<tabVars, manager>>
        BY <3>2 DEF tabVars, Types, TypeOK
    <3> QED BY <1>3, <3>1, <3>2 DEF MutationDone
  <2>3. shown' = shown
      BY <1>3 DEF MutationDone
  <2>4. /\ toCompanion' \in Seq(Request)
        /\ \A i \in DOMAIN toCompanion' :
              toCompanion'[i].action = "auth-add" => toCompanion'[i].onion \in Onions
    <3>1. toCompanion \in Seq(Request)
        BY DEF Types, TypeOK
    <3>2. CASE ~Heard.ok
        BY <2>1, <3>1, <3>2 DEF Types
    <3>3. CASE Heard.ok
      <4>1. /\ toCompanion' \in Seq(Request)
            /\ \A i \in DOMAIN toCompanion : toCompanion'[i] = toCompanion[i]
            /\ \A i \in DOMAIN toCompanion' :
                  i \in DOMAIN toCompanion \/ i = Len(toCompanion) + 1
            /\ toCompanion'[Len(toCompanion) + 1] = Refreshing(Heard.id)
            /\ Refreshing(Heard.id).action = "refresh"
        <5>1. Refreshing(Heard.id) \in Request /\ Refreshing(Heard.id).action = "refresh"
            BY <1>1, RefreshingIs
        <5>2. toCompanion' = Append(toCompanion, Refreshing(Heard.id))
            BY <2>1, <3>3
        <5> QED BY <3>1, <5>1, <5>2, Appended
      <4> QED BY <4>1 DEF Types
    <3> QED BY <1>1, <3>2, <3>3
  <2> QED BY <1>0, <1>1, <1>2, <2>1, <2>2, <2>3, <2>4
          DEF Types, TypeOK, companionVars
<1>4. CASE Refreshed(Heard.id, Heard)
  <2>1. /\ toCompanion' = toCompanion
        /\ authIndex' \in [entries : SUBSET Onions, unlocked : BOOLEAN]
        /\ stored' \in Copy
        /\ pending' \in [Ids -> {NoRequest} \cup [action : Actions, asker : Askers]]
        /\ Return({pending[Heard.id].asker}, TRUE)
      BY <1>1, <1>4, RefreshEffects
  <2>2. /\ tab' \in [Tabs -> Places] /\ goal' \in [Tabs -> Onions]
        /\ snapshot' \in [Tabs -> SUBSET Onions]
        /\ manager' \in {"idle", "waiting", "reload"}
      BY <2>1, ReturnTypes
  <2>3. shown' = shown
      BY <1>4 DEF Refreshed, RefreshedTo
  <2> QED BY <1>0, <1>1, <1>2, <2>1, <2>2, <2>3 DEF Types, TypeOK, companionVars
<1>5. CASE Listed(Heard.id, Heard)
  <2>1. /\ toCompanion' = toCompanion /\ authIndex' = authIndex /\ stored' = stored
        /\ pending' \in [Ids -> {NoRequest} \cup [action : Actions, asker : Askers]]
        /\ UNCHANGED tabVars
      BY <1>1, <1>5, ListEffects
  <2>2. shown' \in [vault : BOOLEAN, unlocked : BOOLEAN, addresses : SUBSET Onions]
        /\ manager' = "idle"
      BY <1>1, <1>5 DEF Listed
  <2> QED BY <1>0, <1>1, <1>2, <2>1, <2>2 DEF Types, TypeOK, companionVars, tabVars
<1>6. CASE Late(Heard.id)
    BY <1>0, <1>1, <1>2, <1>6 DEF Late, Types, TypeOK, companionVars, tabVars
<1> QED BY <1>1, <1>3, <1>4, <1>5, <1>6

\* What a timeout changes.
LEMMA GivenUp ==
    ASSUME Types, NEW id \in Ids, TimesOut(id)
    PROVE  /\ pending[id].action \in TimingOut
           /\ pending'[id] = NoRequest
           /\ pending' \in [Ids -> {NoRequest} \cup [action : Actions, asker : Askers]]
           /\ \A i \in Ids : i # id => pending'[i] = pending[i]
           /\ UNCHANGED <<companionVars, linkVars, cacheVars, shown, events>>
           /\ Return({pending[id].asker}, FALSE)
<1>1. /\ pending[id].action \in TimingOut
      /\ pending' = [pending EXCEPT ![id] = NoRequest]
      /\ UNCHANGED <<companionVars, linkVars, cacheVars, shown, events>>
      /\ Return({pending[id].asker}, FALSE)
    BY DEF TimesOut
<1>2. pending \in [Ids -> {NoRequest} \cup [action : Actions, asker : Askers]]
    BY DEF Types, TypeOK
<1> QED BY <1>1, <1>2

\* A disconnect and a timeout keep the types.
LEMMA EndTypes ==
    ASSUME Types, Excuse, Disconnected \/ \E id \in Ids : TimesOut(id)
    PROVE  Types'
<1>0. excused' \subseteq Tabs
    BY DEF Excuse
<1>1. ASSUME NEW id \in Ids, TimesOut(id) PROVE Types'
  <2>1. /\ pending' \in [Ids -> {NoRequest} \cup [action : Actions, asker : Askers]]
        /\ UNCHANGED <<companionVars, linkVars, cacheVars, shown, events>>
        /\ Return({pending[id].asker}, FALSE)
      BY <1>1, GivenUp
  <2>2. /\ tab' \in [Tabs -> Places] /\ goal' \in [Tabs -> Onions]
        /\ snapshot' \in [Tabs -> SUBSET Onions]
        /\ manager' \in {"idle", "waiting", "reload"}
      BY <2>1, ReturnTypes
  <2> QED BY <1>0, <2>1, <2>2 DEF Types, TypeOK, companionVars, linkVars, cacheVars
<1>2. CASE Disconnected
  <2>1. /\ tab' \in [Tabs -> Places] /\ goal' \in [Tabs -> Onions]
        /\ snapshot' \in [Tabs -> SUBSET Onions]
        /\ manager' \in {"idle", "waiting", "reload"}
    <3>1. Return({pending[i].asker : i \in Ids}, FALSE)
        BY <1>2 DEF Disconnected
    <3> QED BY <3>1, ReturnTypes
  <2>2. /\ authIndex' \in [entries : SUBSET Onions, unlocked : BOOLEAN]
        /\ pending' \in [Ids -> {NoRequest} \cup [action : Actions, asker : Askers]]
        /\ toCompanion' = <<>> /\ toExtension' = <<>> /\ companionPort' = FALSE
        /\ UNCHANGED <<companionVars, process, stored, read, load, shown, events>>
      BY <1>2 DEF Disconnected, Types, TypeOK
  <2>3. /\ toCompanion' \in Seq(Request) /\ toExtension' \in Seq(Reply)
        /\ \A i \in DOMAIN toCompanion' : FALSE
      BY <2>2, EmptySeq
  <2> QED BY <1>0, <2>1, <2>2, <2>3 DEF Types, TypeOK, companionVars
<1> QED BY <1>1, <1>2

\* The cases of a step.
Asking ==
    \/ \E t \in Tabs, right \in BOOLEAN : Submit(t, right)
    \/ \E action \in Mutations, onion \in SomeOnion : Manage(action, onion)
    \/ Reload
    \/ OnReady
TabMoves == \E t \in Tabs : Navigate(t) \/ ReadEntries(t) \/ Decide(t) \/ Cancel(t)

\* The steps, by who takes them.
LEMMA Cases ==
    ASSUME Next
    PROVE  /\ Excuse
           /\ \/ Wake \/ LoadAuthIndex \/ Suspend \/ TabMoves \/ Asking
              \/ Handle \/ Crash \/ Deliver \/ Disconnected
              \/ \E id \in Ids : TimesOut(id)
BY DEF Next, Step, TabStep, TabMoves, Asking

\* Every step keeps the types.
LEMMA TypesStep == Types /\ [Next]_vars => Types'
<1> SUFFICES ASSUME Types, [Next]_vars PROVE Types'
    OBVIOUS
<1>1. CASE UNCHANGED vars
    BY <1>1 DEF vars, companionVars, linkVars, cacheVars, tabVars, managerVars, Types, TypeOK
<1>2. CASE Next
  <2>1. Excuse
      BY <1>2, Cases
  <2>2. CASE Wake \/ LoadAuthIndex \/ Suspend \/ TabMoves
      BY <2>1, <2>2, LocalTypes DEF TabMoves
  <2>3. CASE Asking
      BY <2>1, <2>3, AskingTypes DEF Asking
  <2>4. CASE Handle \/ Crash
      BY <2>1, <2>4, CompanionTypes
  <2>5. CASE Deliver
      BY <2>1, <2>5, DeliverTypes
  <2>6. CASE Disconnected \/ \E id \in Ids : TimesOut(id)
      BY <2>1, <2>6, EndTypes
  <2> QED BY <1>2, <2>2, <2>3, <2>4, <2>5, <2>6, Cases
<1> QED BY <1>1, <1>2

\* Every variable of the interceptor, the pipes and the companion has the
\* values that background.js, unlock.js, authorized.js and main.rs give it.
THEOREM TypesAreRight == Spec => []TypeOK
<1>1. Types => TypeOK
    BY DEF Types
<1> QED BY <1>1, InitialTypes, TypesStep, PTL DEF Spec

---------------------------------------------------------------------------
\* The pipes.

\* Every message in the pipes is well formed.
LEMMA MessagesTyped ==
    ASSUME Types
    PROVE  /\ toCompanion \in Seq(Request) /\ toExtension \in Seq(Reply)
           /\ \A i \in DOMAIN toCompanion :
                 /\ toCompanion[i] \in Request
                 /\ toCompanion[i].id \in Ids /\ toCompanion[i].action \in Actions
           /\ \A i \in DOMAIN toExtension :
                 /\ toExtension[i] \in Reply
                 /\ toExtension[i].id \in Ids /\ toExtension[i].ok \in BOOLEAN
                 /\ toExtension[i].unlocked \in BOOLEAN
           /\ pending \in [Ids -> {NoRequest} \cup [action : Actions, asker : Askers]]
<1>1. /\ toCompanion \in Seq(Request) /\ toExtension \in Seq(Reply)
      /\ pending \in [Ids -> {NoRequest} \cup [action : Actions, asker : Askers]]
    BY DEF Types, TypeOK
<1>2. /\ \A i \in DOMAIN toCompanion : toCompanion[i] \in Request
      /\ \A i \in DOMAIN toExtension : toExtension[i] \in Reply
    BY <1>1, ElementsTyped
<1>3. /\ \A r \in Request : r.id \in Ids /\ r.action \in Actions
      /\ \A r \in Reply : r.id \in Ids /\ r.ok \in BOOLEAN /\ r.unlocked \in BOOLEAN
    BY DEF Request, Reply
<1> QED BY <1>1, <1>2, <1>3

\* At first nothing is on the way.
LEMMA InitialWire == Init => WireInv
<1> SUFFICES ASSUME Init PROVE WireInv
    OBVIOUS
<1>1. Types
    BY InitialTypes
<1>2. /\ \A i \in DOMAIN toCompanion : FALSE
      /\ \A i \in DOMAIN toExtension : FALSE
    BY EmptySeq DEF Init
<1>3. IdsDiffer /\ AskedIsPending /\ RepliesTellTheTruth
    BY <1>2 DEF IdsDiffer, AskedIsPending, RepliesTellTheTruth
<1>4. Session
    BY DEF Init, Session, DefaultIndex
<1> QED BY <1>1, <1>3, <1>4 DEF WireInv

\* Nothing moves: the pipes and the waiters are as they were.
LEMMA StillWire ==
    ASSUME WireInv, Types', UNCHANGED <<toCompanion, toExtension, pending>>, Session'
    PROVE  WireInv'
BY DEF WireInv, IdsDiffer, AskedIsPending, RepliesTellTheTruth, Answers

\* Whoever asks, asks one thing.
LEMMA SomeoneAsks ==
    ASSUME Types, Asking
    PROVE  \E action \in Actions, onion \in SomeOnion, right \in BOOLEAN, asker \in Askers :
              /\ Ask(action, onion, right, asker)
              /\ UNCHANGED <<companionVars, cacheVars>>
<1>1. ASSUME NEW t \in Tabs, NEW right \in BOOLEAN, Submit(t, right)
      PROVE  /\ "auth-unlock" \in Actions /\ "none" \in SomeOnion /\ t \in Askers
             /\ Ask("auth-unlock", "none", right, t) /\ UNCHANGED <<companionVars, cacheVars>>
    BY <1>1 DEF Submit, Actions, Mutations, SomeOnion, Askers
<1>2. ASSUME NEW action \in Mutations, NEW onion \in SomeOnion, Manage(action, onion)
      PROVE  /\ action \in Actions /\ "manager" \in Askers
             /\ Ask(action, onion, TRUE, "manager") /\ UNCHANGED <<companionVars, cacheVars>>
    BY <1>2 DEF Manage, Actions, Askers
<1>3. ASSUME Reload
      PROVE  /\ "auth-list" \in Actions /\ "none" \in SomeOnion /\ "manager" \in Askers
             /\ Ask("auth-list", "none", TRUE, "manager")
             /\ UNCHANGED <<companionVars, cacheVars>>
    BY <1>3 DEF Reload, Actions, SomeOnion, Askers
<1>4. ASSUME OnReady
      PROVE  /\ "refresh" \in Actions /\ "none" \in SomeOnion /\ "none" \in Askers
             /\ Ask("refresh", "none", TRUE, "none") /\ UNCHANGED <<companionVars, cacheVars>>
    BY <1>4 DEF OnReady, Actions, SomeOnion, Askers
<1>5. TRUE \in BOOLEAN
    OBVIOUS
<1> QED BY <1>1, <1>2, <1>3, <1>4, <1>5, Zenon DEF Asking

\* Asking puts a command at the end of the pipe, under an id that was nobody's.
LEMMA AskEffects ==
    ASSUME Types, Asking
    PROVE  \E r \in Request :
              /\ toCompanion' = Append(toCompanion, r) /\ toExtension' = toExtension
              /\ pending[r.id] = NoRequest /\ pending'[r.id].action = r.action
              /\ \A i \in DOMAIN toCompanion : toCompanion[i].id # r.id
              /\ \A i \in DOMAIN toExtension : toExtension[i].id # r.id
              /\ \A i \in Ids : i # r.id => pending'[i] = pending[i]
              /\ companionPort' /\ process' = (process \/ ~companionPort)
              /\ UNCHANGED <<companionVars, cacheVars>>
              /\ load # "off" /\ (load = "done" \/ SlowStorage)
<1>1. PICK action \in Actions, onion \in SomeOnion, right \in BOOLEAN, asker \in Askers :
         /\ Ask(action, onion, right, asker)
         /\ UNCHANGED <<companionVars, cacheVars>>
    BY SomeoneAsks
<1> DEFINE r == Command(action, onion, right)
<1>2. MayAsk /\ companionPort' /\ process' = (process \/ ~companionPort)
      /\ load # "off" /\ (load = "done" \/ SlowStorage)
    BY <1>1 DEF Ask
<1>3. r \in Request /\ r.id = NextId /\ r.action = action
    BY <1>2, NewCommand
<1>4. /\ toCompanion' = Append(toCompanion, r) /\ toExtension' = toExtension
    BY <1>1 DEF Ask, Command
<1>5. /\ pending[NextId] = NoRequest
      /\ \A i \in DOMAIN toCompanion : toCompanion[i].id # NextId
      /\ \A i \in DOMAIN toExtension : toExtension[i].id # NextId
    BY <1>2, FreshId
<1>6. /\ pending'[NextId].action = action
      /\ \A i \in Ids : i # NextId => pending'[i] = pending[i]
    BY <1>1, Asked, Zenon
<1> HIDE DEF r
<1>7. /\ pending[r.id] = NoRequest /\ pending'[r.id].action = r.action
      /\ \A i \in DOMAIN toCompanion : toCompanion[i].id # r.id
      /\ \A i \in DOMAIN toExtension : toExtension[i].id # r.id
      /\ \A i \in Ids : i # r.id => pending'[i] = pending[i]
    BY <1>3, <1>5, <1>6
<1> QED BY <1>1, <1>2, <1>3, <1>4, <1>7, Zenon

\* A fresh id is on no other message.
LEMMA AskWire ==
    ASSUME WireInv, Types', Asking
    PROVE  WireInv'
<1>1. Types /\ Session /\ IdsDiffer /\ AskedIsPending /\ RepliesTellTheTruth
    BY DEF WireInv
<1>2. PICK r \in Request :
         /\ toCompanion' = Append(toCompanion, r) /\ toExtension' = toExtension
         /\ pending[r.id] = NoRequest /\ pending'[r.id].action = r.action
         /\ \A i \in DOMAIN toCompanion : toCompanion[i].id # r.id
         /\ \A i \in DOMAIN toExtension : toExtension[i].id # r.id
         /\ \A i \in Ids : i # r.id => pending'[i] = pending[i]
         /\ companionPort' /\ process' = (process \/ ~companionPort)
         /\ UNCHANGED <<companionVars, cacheVars>>
    BY <1>1, AskEffects
<1>3. /\ \A i \in DOMAIN toCompanion : toCompanion[i].id \in Ids
      /\ \A i \in DOMAIN toExtension : toExtension[i].id \in Ids
      /\ toCompanion \in Seq(Request)
    BY <1>1, MessagesTyped
<1>4. /\ Len(toCompanion) + 1 \notin DOMAIN toCompanion
      /\ \A i \in DOMAIN toCompanion : i \in DOMAIN toCompanion'
                                       /\ toCompanion'[i] = toCompanion[i]
      /\ \A i \in DOMAIN toCompanion' : i \in DOMAIN toCompanion \/ i = Len(toCompanion) + 1
      /\ toCompanion'[Len(toCompanion) + 1] = r
    BY <1>2, <1>3, Appended
<1>5. Session'
    BY <1>1, <1>2 DEF Session, companionVars, Types, TypeOK
<1>6. IdsDiffer'
    BY <1>1, <1>2, <1>4 DEF IdsDiffer
<1>7. AskedIsPending'
  <2> SUFFICES ASSUME NEW i \in DOMAIN toCompanion'
               PROVE  \/ pending'[toCompanion'[i].id].action = toCompanion'[i].action
                      \/ /\ toCompanion'[i].action \in TimingOut
                         /\ pending'[toCompanion'[i].id] = NoRequest
      BY DEF AskedIsPending
  <2>1. CASE i \in DOMAIN toCompanion
    <3>1. toCompanion'[i] = toCompanion[i] /\ pending'[toCompanion[i].id] = pending[toCompanion[i].id]
        BY <1>2, <1>3, <1>4, <2>1
    <3> QED BY <1>1, <2>1, <3>1 DEF AskedIsPending
  <2>2. CASE i = Len(toCompanion) + 1
      BY <1>2, <1>4, <2>2
  <2> QED BY <1>4, <2>1, <2>2
<1>8. RepliesTellTheTruth'
  <2>1. \A i \in DOMAIN toExtension : pending'[toExtension[i].id] = pending[toExtension[i].id]
      BY <1>2, <1>3
  <2> QED BY <1>1, <1>2, <2>1 DEF RepliesTellTheTruth, Answers
<1> QED BY <1>5, <1>6, <1>7, <1>8 DEF WireInv

\* What a reply changes of the pipes: a refresh may take its id over.
LEMMA DeliverEffects ==
    ASSUME Types, Deliver
    PROVE  /\ \/ toCompanion' = toCompanion
              \/ /\ toCompanion' = Append(toCompanion, Refreshing(Heard.id))
                 /\ pending'[Heard.id].action = "refresh"
           /\ \A i \in Ids : i # Heard.id => pending'[i] = pending[i]
           /\ companionPort /\ UNCHANGED <<companionVars, process, companionPort, read, load>>
<1>1. /\ Heard \in Reply /\ Heard.id \in Ids /\ Heard.ok \in BOOLEAN
      /\ \/ MutationDone(Heard.id, Heard)
         \/ Refreshed(Heard.id, Heard)
         \/ Listed(Heard.id, Heard)
         \/ Late(Heard.id)
      /\ UNCHANGED <<companionVars, process, companionPort, read, load>>
    BY Delivered
<1>2. companionPort
    BY DEF Deliver
<1> DEFINE Goal == /\ \/ toCompanion' = toCompanion
                      \/ /\ toCompanion' = Append(toCompanion, Refreshing(Heard.id))
                         /\ pending'[Heard.id].action = "refresh"
                   /\ \A i \in Ids : i # Heard.id => pending'[i] = pending[i]
<1>3. ASSUME MutationDone(Heard.id, Heard) PROVE Goal
    BY <1>1, <1>3, MutationEffects
<1>4. ASSUME Refreshed(Heard.id, Heard) PROVE Goal
    BY <1>1, <1>4, RefreshEffects
<1>5. ASSUME Listed(Heard.id, Heard) PROVE Goal
    BY <1>1, <1>5, ListEffects
<1>6. ASSUME Late(Heard.id) PROVE Goal
    BY <1>6 DEF Late
<1>7. Goal
    BY <1>1, <1>3, <1>4, <1>5, <1>6
<1> QED BY <1>1, <1>2, <1>7

\* An answer carries the id of its command, which is gone, and tells what happened.
LEMMA HandleWire ==
    ASSUME WireInv, Types', Handle
    PROVE  WireInv'
<1>1. Types /\ Session /\ IdsDiffer /\ AskedIsPending /\ RepliesTellTheTruth
    BY DEF WireInv
<1>2. /\ toCompanion \in Seq(Request) /\ toCompanion # <<>>
      /\ toCompanion' = Tail(toCompanion)
      /\ toExtension' = Append(toExtension, Answered)
      /\ Answered \in Reply
      /\ Answered.id = toCompanion[1].id /\ Answered.ok = Granted(toCompanion[1])
      /\ Answered.unlocked = ppKey'
      /\ ppKey' \in BOOLEAN
      /\ pending' = pending
    BY <1>1, Handled
<1>3. /\ 1 \in DOMAIN toCompanion /\ Head(toCompanion) = toCompanion[1]
      /\ DOMAIN toCompanion \subseteq Nat
      /\ \A i \in DOMAIN toCompanion' : /\ i + 1 \in DOMAIN toCompanion /\ i + 1 # 1 /\ i \in Nat
                                        /\ toCompanion'[i] = toCompanion[i + 1]
    BY <1>2, Shortened
<1>4. toExtension \in Seq(Reply) /\ toCompanion[1].action \in Actions
    BY <1>1, <1>3, MessagesTyped
<1>5. /\ Len(toExtension) + 1 \notin DOMAIN toExtension
      /\ \A i \in DOMAIN toExtension : toExtension'[i] = toExtension[i]
      /\ \A i \in DOMAIN toExtension' : i \in DOMAIN toExtension \/ i = Len(toExtension) + 1
      /\ toExtension'[Len(toExtension) + 1] = Answered
    BY <1>2, <1>4, Appended
<1>6. Session'
    BY <1>1 DEF Handle, Session, cacheVars
<1>7. IdsDiffer'
  <2>1. \A i, j \in DOMAIN toCompanion' : toCompanion'[i].id = toCompanion'[j].id => i = j
      BY <1>1, <1>3 DEF IdsDiffer
  <2>2. \A i, j \in DOMAIN toExtension' : toExtension'[i].id = toExtension'[j].id => i = j
      BY <1>1, <1>2, <1>3, <1>5 DEF IdsDiffer
  <2>3. \A i \in DOMAIN toCompanion', j \in DOMAIN toExtension' :
           toCompanion'[i].id # toExtension'[j].id
      BY <1>1, <1>2, <1>3, <1>5 DEF IdsDiffer
  <2> QED BY <2>1, <2>2, <2>3 DEF IdsDiffer
<1>8. AskedIsPending'
    BY <1>1, <1>2, <1>3 DEF AskedIsPending
<1>9. RepliesTellTheTruth'
  <2> DEFINE a == pending[Answered.id].action
  <2>1. a = toCompanion[1].action \/ a = "none"
      BY <1>1, <1>2, <1>3 DEF AskedIsPending, NoRequest
  <2>2. Granted(toCompanion[1]) => Carry(toCompanion[1])
      BY <1>3 DEF Handle
  <2>3. a = "auth-lock" => Answered.ok /\ ~Answered.unlocked
    <3> SUFFICES ASSUME a = "auth-lock" PROVE Answered.ok /\ ~Answered.unlocked
        OBVIOUS
    <3>1. toCompanion[1].action = "auth-lock"
        BY <2>1
    <3>2. Granted(toCompanion[1])
        BY <3>1 DEF Granted
    <3>3. ppKey' = FALSE
        BY <2>2, <3>1, <3>2 DEF Carry
    <3> QED BY <1>2, <3>2, <3>3
  <2>4. a \in Opening /\ Answered.ok => Answered.unlocked
    <3> SUFFICES ASSUME a \in Opening, Answered.ok PROVE Answered.unlocked
        OBVIOUS
    <3>1. toCompanion[1].action \in {"auth-set-passphrase", "auth-unlock"}
        BY <2>1 DEF Opening
    <3>2. Granted(toCompanion[1])
        BY <1>2
    <3>3. ppKey' = TRUE
        BY <2>2, <3>1, <3>2 DEF Carry
    <3> QED BY <1>2, <3>3
  <2> HIDE DEF a
  <2>5. \A i \in DOMAIN toExtension' :
           \/ i \in DOMAIN toExtension /\ toExtension'[i] = toExtension[i]
              /\ pending'[toExtension'[i].id].action = Answers(i)
           \/ toExtension'[i] = Answered /\ pending'[toExtension'[i].id].action = a
      BY <1>2, <1>5 DEF a, Answers
  <2> QED BY <1>1, <2>3, <2>4, <2>5 DEF RepliesTellTheTruth, Answers
<1> QED BY <1>6, <1>7, <1>8, <1>9 DEF WireInv

\* A reply that is taken frees its id, or hands it to the refresh.
LEMMA DeliverWire ==
    ASSUME WireInv, Types', Deliver
    PROVE  WireInv'
<1>1. Types /\ Session /\ IdsDiffer /\ AskedIsPending /\ RepliesTellTheTruth
    BY DEF WireInv
<1>2. /\ toExtension \in Seq(Reply) /\ toExtension # <<>> /\ 1 \in DOMAIN toExtension
      /\ toExtension' = Tail(toExtension)
      /\ Heard \in Reply /\ Heard.id \in Ids
    BY <1>1, Delivered
<1>3. /\ DOMAIN toExtension \subseteq Nat
      /\ \A i \in DOMAIN toExtension' : /\ i + 1 \in DOMAIN toExtension /\ i + 1 # 1 /\ i \in Nat
                                        /\ toExtension'[i] = toExtension[i + 1]
    BY <1>2, Shortened
<1>4. /\ \/ toCompanion' = toCompanion
         \/ /\ toCompanion' = Append(toCompanion, Refreshing(Heard.id))
            /\ pending'[Heard.id].action = "refresh"
      /\ \A i \in Ids : i # Heard.id => pending'[i] = pending[i]
      /\ companionPort /\ UNCHANGED <<companionVars, process, companionPort>>
    BY <1>1, DeliverEffects
<1>5. Refreshing(Heard.id) \in Request /\ Refreshing(Heard.id).id = Heard.id
      /\ Refreshing(Heard.id).action = "refresh"
    BY <1>2, RefreshingIs
<1>6. /\ \A i \in DOMAIN toCompanion : toCompanion[i].id \in Ids
      /\ \A i \in DOMAIN toExtension : toExtension[i].id \in Ids
      /\ toCompanion \in Seq(Request)
    BY <1>1, MessagesTyped
\* The other messages have other ids than the reply.
<1>7. /\ \A i \in DOMAIN toCompanion : toCompanion[i].id # Heard.id
      /\ \A i \in DOMAIN toExtension' : toExtension'[i].id # Heard.id
    BY <1>1, <1>2, <1>3 DEF IdsDiffer, Heard
<1>8. \/ toCompanion' = toCompanion
      \/ /\ \A i \in DOMAIN toCompanion' :
               \/ i \in DOMAIN toCompanion /\ toCompanion'[i] = toCompanion[i]
               \/ i = Len(toCompanion) + 1 /\ toCompanion'[i] = Refreshing(Heard.id)
         /\ Len(toCompanion) + 1 \notin DOMAIN toCompanion
         /\ pending'[Heard.id].action = "refresh"
    BY <1>4, <1>5, <1>6, Appended
<1>9. Session'
    BY <1>1, <1>4 DEF Session, companionVars
<1>10. IdsDiffer'
  <2>1. \A i, j \in DOMAIN toCompanion' : toCompanion'[i].id = toCompanion'[j].id => i = j
      BY <1>1, <1>5, <1>7, <1>8 DEF IdsDiffer
  <2>2. \A i, j \in DOMAIN toExtension' : toExtension'[i].id = toExtension'[j].id => i = j
      BY <1>1, <1>3 DEF IdsDiffer
  <2>3. \A i \in DOMAIN toCompanion', j \in DOMAIN toExtension' :
           toCompanion'[i].id # toExtension'[j].id
      BY <1>1, <1>3, <1>5, <1>7, <1>8 DEF IdsDiffer
  <2> QED BY <2>1, <2>2, <2>3 DEF IdsDiffer
<1>11. AskedIsPending'
  <2> SUFFICES ASSUME NEW i \in DOMAIN toCompanion'
               PROVE  \/ pending'[toCompanion'[i].id].action = toCompanion'[i].action
                      \/ /\ toCompanion'[i].action \in TimingOut
                         /\ pending'[toCompanion'[i].id] = NoRequest
      BY DEF AskedIsPending
  <2>1. CASE i \in DOMAIN toCompanion /\ toCompanion'[i] = toCompanion[i]
    <3>1. pending'[toCompanion[i].id] = pending[toCompanion[i].id]
        BY <1>4, <1>6, <1>7, <2>1
    <3> QED BY <1>1, <2>1, <3>1 DEF AskedIsPending
  <2>2. CASE /\ i = Len(toCompanion) + 1 /\ toCompanion'[i] = Refreshing(Heard.id)
             /\ pending'[Heard.id].action = "refresh"
      BY <1>5, <2>2
  <2> QED BY <1>8, <2>1, <2>2
<1>12. RepliesTellTheTruth'
  <2>1. \A i \in DOMAIN toExtension' :
           /\ i + 1 \in DOMAIN toExtension /\ toExtension'[i] = toExtension[i + 1]
           /\ pending'[toExtension'[i].id].action = Answers(i + 1)
      BY <1>3, <1>4, <1>6, <1>7 DEF Answers
  <2> QED BY <1>1, <2>1 DEF RepliesTellTheTruth, Answers
<1> QED BY <1>9, <1>10, <1>11, <1>12 DEF WireInv

\* A timeout forgets the request, not its message.
LEMMA GiveUpWire ==
    ASSUME WireInv, Types', NEW id \in Ids, TimesOut(id)
    PROVE  WireInv'
<1>1. Types /\ Session /\ IdsDiffer /\ AskedIsPending /\ RepliesTellTheTruth
    BY DEF WireInv
<1>2. /\ pending[id].action \in TimingOut
      /\ pending'[id] = NoRequest
      /\ \A i \in Ids : i # id => pending'[i] = pending[i]
      /\ UNCHANGED <<companionVars, linkVars, cacheVars>>
    BY <1>1, GivenUp
<1>3. /\ \A i \in DOMAIN toCompanion : toCompanion[i].id \in Ids
      /\ \A i \in DOMAIN toExtension : toExtension[i].id \in Ids
    BY <1>1, MessagesTyped
<1>4. Session'
  <2>1. "none" \notin TimingOut
      BY UnlockAssumption DEF Actions, Mutations
  <2>2. pending # [i \in Ids |-> NoRequest]
      BY <1>2, <2>1 DEF NoRequest
  <2>3. companionPort
      BY <1>1, <2>2 DEF Session, Types, TypeOK
  <2> QED BY <1>1, <1>2, <2>3 DEF Session, companionVars, linkVars
<1>5. IdsDiffer'
    BY <1>1, <1>2 DEF IdsDiffer, linkVars
<1>6. AskedIsPending'
  <2> SUFFICES ASSUME NEW i \in DOMAIN toCompanion
               PROVE  \/ pending'[toCompanion[i].id].action = toCompanion[i].action
                      \/ /\ toCompanion[i].action \in TimingOut
                         /\ pending'[toCompanion[i].id] = NoRequest
      BY <1>2 DEF AskedIsPending, linkVars
  <2>1. CASE toCompanion[i].id = id
      BY <1>1, <1>2, <2>1 DEF AskedIsPending
  <2>2. CASE toCompanion[i].id # id
      BY <1>1, <1>2, <1>3, <2>2 DEF AskedIsPending
  <2> QED BY <2>1, <2>2
<1>7. RepliesTellTheTruth'
  <2>1. toExtension' = toExtension
      BY <1>2 DEF linkVars
  <2>2. \A i \in DOMAIN toExtension :
           \/ pending'[toExtension[i].id].action = Answers(i)
           \/ pending'[toExtension[i].id].action = "none"
      BY <1>2, <1>3 DEF Answers, NoRequest
  <2> QED BY <1>1, <2>1, <2>2 DEF RepliesTellTheTruth, Answers, Opening
<1> QED BY <1>4, <1>5, <1>6, <1>7 DEF WireInv

\* With the port everything that was on the way is lost.
LEMMA EndWire ==
    ASSUME WireInv, Types', Disconnected
    PROVE  WireInv'
<1>1. Types /\ Session
    BY DEF WireInv
<1>2. toCompanion' = <<>> /\ toExtension' = <<>>
    BY DEF Disconnected
<1>3. /\ \A i \in DOMAIN toCompanion' : FALSE
      /\ \A i \in DOMAIN toExtension' : FALSE
    BY <1>2, EmptySeq
<1>4. Session'
    BY <1>1 DEF Disconnected, Session, companionVars, Types, TypeOK
<1>5. IdsDiffer' /\ AskedIsPending' /\ RepliesTellTheTruth'
    BY <1>3 DEF IdsDiffer, AskedIsPending, RepliesTellTheTruth
<1> QED BY <1>4, <1>5 DEF WireInv

\* Every step keeps the pipes and the pending requests in agreement.
LEMMA WireStep == WireInv /\ [Next]_vars => WireInv'
<1> SUFFICES ASSUME WireInv, [Next]_vars PROVE WireInv'
    OBVIOUS
<1>1. Types /\ Session
    BY DEF WireInv
<1>2. Types'
    BY <1>1, TypesStep
<1>3. CASE UNCHANGED vars
  <2>1. UNCHANGED <<toCompanion, toExtension, pending>> /\ Session'
      BY <1>1, <1>3 DEF vars, companionVars, linkVars, cacheVars, Session
  <2> QED BY <1>2, <2>1, StillWire
<1>4. CASE Wake \/ LoadAuthIndex \/ Suspend \/ TabMoves
  <2>1. UNCHANGED <<toCompanion, toExtension, pending>>
      BY <1>4 DEF Wake, LoadAuthIndex, Suspend, TabMoves, Navigate, ReadEntries, Decide, Cancel,
                  linkVars
  <2>2. UNCHANGED <<companionVars, linkVars>>
        /\ (authIndex' = authIndex \/ authIndex'.unlocked = FALSE)
      BY <1>4 DEF Wake, LoadAuthIndex, Suspend, TabMoves, Navigate, ReadEntries, Decide, Cancel,
                  cacheVars, DefaultIndex
  <2>3. Session'
      BY <1>1, <2>1, <2>2 DEF Session, companionVars, linkVars
  <2> QED BY <1>2, <2>1, <2>3, StillWire
<1>5. CASE Crash
  <2>1. UNCHANGED <<toCompanion, toExtension, pending>>
      BY <1>5 DEF Crash
  <2>2. Session'
      BY <1>1, <1>5 DEF Crash, Session, cacheVars
  <2> QED BY <1>2, <2>1, <2>2, StillWire
<1>6. CASE Asking
    BY <1>2, <1>6, AskWire
<1>7. CASE Handle
    BY <1>2, <1>7, HandleWire
<1>8. CASE Deliver
    BY <1>2, <1>8, DeliverWire
<1>9. CASE Disconnected
    BY <1>2, <1>9, EndWire
<1>10. CASE \E id \in Ids : TimesOut(id)
    BY <1>2, <1>10, GiveUpWire
<1> QED BY <1>3, <1>4, <1>5, <1>6, <1>7, <1>8, <1>9, <1>10, Cases

\* The ids of requests are reused safely and a reply says of the vault what the
\* command it answers has done to it.
LEMMA WireIsRight == Spec => []WireInv
BY InitialWire, WireStep, PTL DEF Spec

---------------------------------------------------------------------------
\* What the page believes.

\* At first nothing is believed and nothing is held.
LEMMA InitialBelief ==
    ASSUME NEW v \in BOOLEAN
    PROVE  Init => BeliefInv(v)
BY DEF Init, BeliefInv, ReplyIsCorrected, BeliefIsCorrected

\* A command turns the vault only to where its kind turns it.
LEMMA OnlyTurningTurns ==
    ASSUME Types, Handle, NEW v \in BOOLEAN, ppKey # v, ppKey' = v
    PROVE  toCompanion[1].action \in Turning(v) /\ Granted(toCompanion[1])
<1>1. toCompanion \in Seq(Request) /\ toCompanion # <<>> /\ ppKey \in BOOLEAN
    BY DEF Handle, Types, TypeOK
<1>2. Head(toCompanion) = toCompanion[1]
    BY <1>1, Shortened
<1> DEFINE r == toCompanion[1]
<1>3. IF Granted(r) THEN Carry(r) ELSE UNCHANGED companionVars
    BY <1>2 DEF Handle
<1> HIDE DEF r
<1>4. Granted(r) /\ Carry(r)
    BY <1>3 DEF companionVars
<1>5. ppKey' = CASE r.action \in {"auth-set-passphrase", "auth-unlock"} -> TRUE
                 [] r.action = "auth-lock" -> FALSE
                 [] OTHER -> ppKey
    BY <1>4 DEF Carry
<1>6. CASE v = TRUE
    BY <1>1, <1>4, <1>5, <1>6 DEF Turning, Opening, r
<1>7. CASE v = FALSE
    BY <1>1, <1>4, <1>5, <1>7 DEF Turning, Opening, r
<1> QED BY <1>6, <1>7

\* What does not move the replies nor the belief changes nothing.
LEMMA StillBelief ==
    ASSUME NEW v \in BOOLEAN, BeliefInv(v),
           UNCHANGED <<ppKey, process, toExtension, pending>>,
           authIndex'.unlocked = authIndex.unlocked \/ ~process
    PROVE  BeliefInv(v)'
BY DEF BeliefInv, ReplyIsCorrected, BeliefIsCorrected, Tells, Answers

\* To ask changes no belief.
LEMMA AskBelief ==
    ASSUME NEW v \in BOOLEAN, WireInv, BeliefInv(v), Asking
    PROVE  BeliefInv(v)'
<1>1. Types /\ Session
    BY DEF WireInv
<1>2. PICK r \in Request :
         /\ toExtension' = toExtension
         /\ \A i \in DOMAIN toExtension : toExtension[i].id # r.id
         /\ \A i \in Ids : i # r.id => pending'[i] = pending[i]
         /\ process' = (process \/ ~companionPort)
         /\ UNCHANGED <<companionVars, cacheVars>>
    BY <1>1, AskEffects
<1>3. \A i \in DOMAIN toExtension : toExtension[i].id \in Ids
    BY <1>1, MessagesTyped
<1>4. \A i \in DOMAIN toExtension : Tells(i, v)' <=> Tells(i, v)
    BY <1>2, <1>3 DEF Tells, Answers
<1>5. ppKey' = ppKey /\ authIndex' = authIndex
    BY <1>2 DEF companionVars, cacheVars
<1>6. CASE process
    BY <1>2, <1>4, <1>5, <1>6 DEF BeliefInv, ReplyIsCorrected, BeliefIsCorrected
<1>7. CASE ~process /\ companionPort
    BY <1>2, <1>7 DEF BeliefInv, ReplyIsCorrected, BeliefIsCorrected, Types, TypeOK
<1>8. CASE ~process /\ ~companionPort
  <2>1. ppKey = FALSE /\ authIndex.unlocked = FALSE /\ toExtension = <<>>
      BY <1>1, <1>8 DEF Session, Types, TypeOK
  <2>2. \A i \in DOMAIN toExtension : FALSE
      BY <2>1, EmptySeq
  <2>3. ppKey' = v => authIndex'.unlocked = v
      BY <2>1, <1>5
  <2> QED BY <1>2, <2>2, <2>3 DEF BeliefInv, ReplyIsCorrected, BeliefIsCorrected
<1> QED BY <1>6, <1>7, <1>8

\* Whenever the companion changes its mind it tells so in its last reply.
LEMMA HandleBelief ==
    ASSUME NEW v \in BOOLEAN, WireInv, BeliefInv(v), Handle, Turning(v) \cap TimingOut = {}
    PROVE  BeliefInv(v)'
<1>1. Types /\ AskedIsPending
    BY DEF WireInv
<1>2. /\ toCompanion \in Seq(Request) /\ toCompanion # <<>>
      /\ toExtension' = Append(toExtension, Answered)
      /\ Answered \in Reply
      /\ Answered.id = toCompanion[1].id /\ Answered.ok = Granted(toCompanion[1])
      /\ Answered.unlocked = ppKey'
      /\ pending' = pending
    BY <1>1, Handled
<1>3. 1 \in DOMAIN toCompanion
    BY <1>2, Shortened
<1>4. toExtension \in Seq(Reply) /\ ppKey \in BOOLEAN
    BY <1>1 DEF Types, TypeOK
<1>4a. PICK n : n = Len(toExtension) + 1
    OBVIOUS
<1>5. /\ Len(toExtension) \in Nat /\ DOMAIN toExtension = 1..Len(toExtension)
      /\ n \in DOMAIN toExtension'
      /\ \A i \in DOMAIN toExtension : i \in DOMAIN toExtension' /\ toExtension'[i] = toExtension[i]
      /\ \A i \in DOMAIN toExtension' : i \in DOMAIN toExtension \/ i = n
      /\ toExtension'[n] = Answered
    BY <1>2, <1>4, <1>4a, Appended
<1>6. \A i \in DOMAIN toExtension : n > i
    BY <1>4a, <1>5
<1>7. process /\ process' = process /\ authIndex' = authIndex
    BY DEF Handle, cacheVars
<1>8. \A i \in DOMAIN toExtension : Tells(i, v) => Tells(i, v)'
    BY <1>2, <1>5 DEF Tells, Answers
<1>9. CASE ppKey' # v
    BY <1>9 DEF BeliefInv, ReplyIsCorrected, BeliefIsCorrected
<1>10. CASE ppKey' = v /\ ppKey = v
  <2>1. ReplyIsCorrected(v)'
      BY <1>2, <1>5, <1>7, <1>8, <1>10 DEF BeliefInv, ReplyIsCorrected
  <2>2. BeliefIsCorrected(v)'
      BY <1>5, <1>7, <1>8, <1>10 DEF BeliefInv, BeliefIsCorrected
  <2> QED BY <2>1, <2>2 DEF BeliefInv
<1>11. CASE ppKey' = v /\ ppKey # v
  <2>1. toCompanion[1].action \in Turning(v) /\ Granted(toCompanion[1])
      BY <1>1, <1>11, OnlyTurningTurns
  <2>2. pending[toCompanion[1].id].action = toCompanion[1].action
      BY <1>1, <1>3, <2>1 DEF AskedIsPending
  <2>3. Tells(n, v)'
      BY <1>2, <1>5, <2>1, <2>2 DEF Tells, Answers
  <2>4. ReplyIsCorrected(v)'
      BY <1>2, <1>5, <1>6, <1>11, <2>3 DEF ReplyIsCorrected
  <2>5. BeliefIsCorrected(v)'
      BY <1>5, <2>3 DEF BeliefIsCorrected
  <2> QED BY <2>4, <2>5 DEF BeliefInv
<1> QED BY <1>9, <1>10, <1>11

\* The page believes the replies in the order they were given.
LEMMA DeliverBelief ==
    ASSUME NEW v \in BOOLEAN, WireInv, BeliefInv(v), Deliver
    PROVE  BeliefInv(v)'
<1>1. Types /\ IdsDiffer /\ RepliesTellTheTruth
    BY DEF WireInv
<1>2. /\ toExtension \in Seq(Reply) /\ toExtension # <<>> /\ 1 \in DOMAIN toExtension
      /\ toExtension' = Tail(toExtension)
      /\ Heard \in Reply /\ Heard.id \in Ids
      /\ Heard.ok \in BOOLEAN /\ Heard.unlocked \in BOOLEAN
      /\ \/ MutationDone(Heard.id, Heard)
         \/ Refreshed(Heard.id, Heard)
         \/ Listed(Heard.id, Heard)
         \/ Late(Heard.id)
    BY <1>1, Delivered
<1>3. /\ DOMAIN toExtension \subseteq Nat
      /\ \A i \in DOMAIN toExtension' : /\ i + 1 \in DOMAIN toExtension /\ i + 1 # 1 /\ i \in Nat
                                        /\ toExtension'[i] = toExtension[i + 1]
      /\ \A i \in DOMAIN toExtension : i > 1 => /\ i - 1 \in DOMAIN toExtension'
                                                /\ toExtension'[i - 1] = toExtension[i]
      /\ \A i \in DOMAIN toExtension : i = 1 \/ i > 1
    BY <1>2, Shortened
<1>4. /\ \A i \in Ids : i # Heard.id => pending'[i] = pending[i]
      /\ UNCHANGED <<companionVars, process, companionPort>>
    BY <1>1, DeliverEffects
<1>5. \A i \in DOMAIN toExtension : toExtension[i].id \in Ids
    BY <1>1, MessagesTyped
<1>6. \A i \in DOMAIN toExtension' : toExtension'[i].id # Heard.id
    BY <1>1, <1>2, <1>3 DEF IdsDiffer, Heard
\* A later reply still tells what it told.
<1>7. \A j \in DOMAIN toExtension : j > 1 /\ Tells(j, v) =>
         j - 1 \in DOMAIN toExtension' /\ Tells(j - 1, v)'
  <2> SUFFICES ASSUME NEW j \in DOMAIN toExtension, j > 1, Tells(j, v)
               PROVE  j - 1 \in DOMAIN toExtension' /\ Tells(j - 1, v)'
      OBVIOUS
  <2>1. j - 1 \in DOMAIN toExtension' /\ toExtension'[j - 1] = toExtension[j]
      BY <1>3
  <2>2. pending'[toExtension[j].id] = pending[toExtension[j].id]
      BY <1>4, <1>5, <1>6, <2>1
  <2> QED BY <2>1, <2>2 DEF Tells, Answers
<1>8. ppKey' = ppKey /\ process' = process
    BY <1>4 DEF companionVars
<1>9. ReplyIsCorrected(v)'
  <2> SUFFICES ASSUME process, ppKey = v,
                      NEW i \in DOMAIN toExtension', toExtension'[i].unlocked # v
               PROVE  \E j \in DOMAIN toExtension' : j > i /\ Tells(j, v)'
      BY <1>8 DEF ReplyIsCorrected
  <2>1. i + 1 \in DOMAIN toExtension /\ toExtension[i + 1].unlocked # v /\ i \in Nat
      BY <1>3
  <2>2. PICK j \in DOMAIN toExtension : j > i + 1 /\ Tells(j, v)
      BY <2>1 DEF BeliefInv, ReplyIsCorrected
  <2>3. j > 1 /\ j - 1 > i
      BY <1>3, <2>1, <2>2
  <2> QED BY <1>7, <2>2, <2>3
<1>10. BeliefIsCorrected(v)'
  <2> SUFFICES ASSUME process, ppKey = v, authIndex'.unlocked # v
               PROVE  \E j \in DOMAIN toExtension' : Tells(j, v)'
      BY <1>8 DEF BeliefIsCorrected
  <2>1. \/ Heard.unlocked # v
        \/ authIndex'.unlocked = authIndex.unlocked /\ ~Tells(1, v)
    <3>1. CASE MutationDone(Heard.id, Heard)
      <4>1. /\ ~Heard.ok => authIndex' = authIndex
            /\ Heard.ok => authIndex'.unlocked = IF pending[Heard.id].action \in Opening THEN TRUE
                                                 ELSE IF pending[Heard.id].action = "auth-lock"
                                                 THEN FALSE ELSE authIndex.unlocked
          BY <1>1, <1>2, <3>1, MutationEffects
      <4>2. Answers(1) = pending[Heard.id].action
          BY DEF Answers, Heard
      <4>3. /\ Answers(1) = "auth-lock" => ~Heard.unlocked
            /\ Answers(1) \in Opening /\ Heard.ok => Heard.unlocked
          BY <1>1, <1>2 DEF RepliesTellTheTruth, Heard
      <4>4. Tells(1, v) <=> Answers(1) \in Turning(v) /\ Heard.ok
          BY DEF Tells, Heard
      <4>5. CASE ~Heard.ok
          BY <4>1, <4>4, <4>5
      <4>6. CASE Heard.ok /\ v = TRUE
          BY <1>2, <4>1, <4>2, <4>3, <4>4, <4>6 DEF Turning, Opening
      <4>7. CASE Heard.ok /\ v = FALSE
          BY <1>2, <4>1, <4>2, <4>3, <4>4, <4>7 DEF Turning, Opening
      <4> QED BY <4>5, <4>6, <4>7
    <3>2. CASE Refreshed(Heard.id, Heard)
        BY <1>1, <1>2, <3>2, RefreshEffects
    <3>3. CASE Listed(Heard.id, Heard)
      <4>1. pending[Heard.id].action = "auth-list" /\ authIndex' = authIndex
          BY <1>1, <1>2, <3>3, ListEffects
      <4> QED BY <4>1 DEF Tells, Answers, Heard, Turning, Opening
    <3>4. CASE Late(Heard.id)
      <4>1. pending[Heard.id].action = "none" /\ authIndex' = authIndex
          BY <3>4 DEF Late, NoRequest
      <4> QED BY <4>1 DEF Tells, Answers, Heard, Turning, Opening
    <3> QED BY <1>2, <3>1, <3>2, <3>3, <3>4
  <2>2. CASE Heard.unlocked # v
    <3>1. PICK j \in DOMAIN toExtension : j > 1 /\ Tells(j, v)
        BY <1>2, <2>2 DEF BeliefInv, ReplyIsCorrected, Heard
    <3> QED BY <1>7, <3>1
  <2>3. CASE authIndex'.unlocked = authIndex.unlocked /\ ~Tells(1, v)
    <3>1. PICK j \in DOMAIN toExtension : Tells(j, v)
        BY <2>3 DEF BeliefInv, BeliefIsCorrected
    <3>2. j > 1
        BY <1>3, <2>3, <3>1
    <3> QED BY <1>7, <3>1, <3>2
  <2> QED BY <2>1, <2>2, <2>3
<1> QED BY <1>9, <1>10 DEF BeliefInv

\* A request that is given up was none that changes the key.
LEMMA GiveUpBelief ==
    ASSUME NEW v \in BOOLEAN, WireInv, BeliefInv(v), NEW id \in Ids, TimesOut(id),
           Turning(v) \cap TimingOut = {}
    PROVE  BeliefInv(v)'
<1>1. Types
    BY DEF WireInv
<1>2. /\ pending[id].action \in TimingOut
      /\ \A i \in Ids : i # id => pending'[i] = pending[i]
      /\ UNCHANGED <<companionVars, linkVars, cacheVars>>
    BY <1>1, GivenUp
<1>3. \A i \in DOMAIN toExtension : toExtension[i].id \in Ids
    BY <1>1, MessagesTyped
<1>4. ppKey' = ppKey /\ process' = process /\ toExtension' = toExtension /\ authIndex' = authIndex
    BY <1>2 DEF companionVars, linkVars, cacheVars
<1>5. \A j \in DOMAIN toExtension : Tells(j, v) => Tells(j, v)'
    BY <1>2, <1>3, <1>4 DEF Tells, Answers
<1> QED BY <1>4, <1>5 DEF BeliefInv, ReplyIsCorrected, BeliefIsCorrected

\* Every step keeps beliefs right, or about to be put right.
LEMMA BeliefStep ==
    ASSUME NEW v \in BOOLEAN, WireInv, BeliefInv(v), [Next]_vars,
           Turning(v) \cap TimingOut = {},
           v => (load = "reading" => ~companionPort)
    PROVE  BeliefInv(v)'
<1>1. Types /\ Session
    BY DEF WireInv
<1>2. CASE UNCHANGED vars
    BY <1>2, StillBelief DEF vars, companionVars, linkVars, cacheVars
<1>3. CASE Wake \/ TabMoves
  <2>1. UNCHANGED <<ppKey, process, toExtension, pending, authIndex>>
      BY <1>3 DEF Wake, TabMoves, Navigate, ReadEntries, Decide, Cancel, companionVars, linkVars,
                  cacheVars
  <2> QED BY <2>1, StillBelief
<1>4. CASE LoadAuthIndex
  <2>1. /\ UNCHANGED <<ppKey, process, toExtension, pending>> /\ load = "reading"
        /\ authIndex'.unlocked = authIndex.unlocked \/ authIndex'.unlocked = FALSE
      BY <1>4 DEF LoadAuthIndex, companionVars, linkVars
  <2>2. CASE v = TRUE
    <3>1. ~process
        BY <1>1, <2>1, <2>2 DEF Session
    <3> QED BY <2>1, <3>1, StillBelief
  <2>3. CASE v = FALSE
      BY <2>1, <2>3 DEF BeliefInv, ReplyIsCorrected, BeliefIsCorrected, Tells, Answers
  <2> QED BY <2>2, <2>3
<1>5. CASE Suspend
  <2>1. UNCHANGED <<ppKey, process, toExtension, pending>> /\ ~companionPort
      BY <1>5 DEF Suspend, companionVars, linkVars
  <2>2. ~process
      BY <1>1, <2>1 DEF Session
  <2> QED BY <2>1, <2>2, StillBelief
<1>6. CASE Asking
    BY <1>6, AskBelief
<1>7. CASE Handle
    BY <1>7, HandleBelief
<1>8. CASE Crash \/ Disconnected
  <2>1. process' = FALSE
      BY <1>1, <1>8 DEF Crash, Disconnected, Types, TypeOK
  <2> QED BY <2>1 DEF BeliefInv, ReplyIsCorrected, BeliefIsCorrected
<1>9. CASE Deliver
    BY <1>9, DeliverBelief
<1>10. CASE \E id \in Ids : TimesOut(id)
    BY <1>10, GiveUpBelief
<1> QED BY <1>2, <1>3, <1>4, <1>5, <1>6, <1>7, <1>8, <1>9, <1>10, Cases

\* background.js:77-81, 350-351: whenever the page takes the vault for open it
\* is, or the news that it is not is on its way, as long as auth-lock is not
\* given up by a timeout before its answer.
THEOREM BelievedIsUnlocked ==
    ASSUME "auth-lock" \notin TimingOut
    PROVE  Spec => []BelievedUnlockedIsUnlocked
<1>1. Turning(FALSE) \cap TimingOut = {}
    BY DEF Turning
<1>2. WireInv /\ BeliefInv(FALSE) /\ [Next]_vars => BeliefInv(FALSE)'
    BY <1>1, BeliefStep
<1>3. WireInv /\ BeliefInv(FALSE) => BelievedUnlockedIsUnlocked
  <2> SUFFICES ASSUME WireInv, BeliefInv(FALSE), authIndex.unlocked, ~ppKey
               PROVE  CorrectionOnItsWay
      BY DEF BelievedUnlockedIsUnlocked
  <2>1. Types /\ Session /\ RepliesTellTheTruth
      BY DEF WireInv
  <2>2. companionPort
      BY <2>1 DEF Session
  <2>3. ppKey = FALSE /\ authIndex.unlocked # FALSE
      BY <2>1 DEF Types, TypeOK
  <2>4. CASE ~process
      BY <2>2, <2>4 DEF CorrectionOnItsWay
  <2>5. CASE process
    <3>1. PICK j \in DOMAIN toExtension : Tells(j, FALSE)
        BY <2>3, <2>5 DEF BeliefInv, BeliefIsCorrected
    <3>2. Answers(j) = "auth-lock" /\ ~toExtension[j].unlocked
        BY <2>1, <3>1 DEF RepliesTellTheTruth, Tells, Turning
    <3> QED BY <2>2, <3>2 DEF CorrectionOnItsWay, Answers
  <2> QED BY <2>4, <2>5
<1>4. Init => BeliefInv(FALSE)
    BY InitialBelief
<1> QED BY <1>2, <1>3, <1>4, InitialWire, WireStep, PTL DEF Spec

---------------------------------------------------------------------------
\* The copy and the list.

\* At first the copies are empty.
LEMMA InitialCopy == Init => CopyIsStored /\ ListInv
BY DEF Init, CopyIsStored, ListInv, NoCopy, DefaultIndex

\* Every step that changes the copy stores it.
LEMMA CopyStep ==
    ASSUME WireInv, CopyIsStored, [Next]_vars, ~SlowStorage
    PROVE  CopyIsStored'
<1>1. Types
    BY DEF WireInv
<1>2. CASE UNCHANGED vars
    BY <1>2 DEF vars, linkVars, cacheVars, CopyIsStored
<1>3. CASE TabMoves \/ Handle \/ Crash
  <2>1. UNCHANGED <<companionPort, cacheVars>>
      BY <1>3 DEF TabMoves, Navigate, ReadEntries, Decide, Cancel, Handle, Crash, linkVars
  <2> QED BY <2>1 DEF cacheVars, CopyIsStored
<1>4. CASE \E id \in Ids : TimesOut(id)
    BY <1>4 DEF TimesOut, linkVars, cacheVars, CopyIsStored
<1>5. CASE Wake
    BY <1>5 DEF Wake, linkVars, CopyIsStored
<1>6. CASE LoadAuthIndex
  <2>1. /\ load = "reading" /\ read = stored /\ authIndex = DefaultIndex /\ ~companionPort
        /\ (~stored.there => stored = NoCopy)
      BY <1>6 DEF LoadAuthIndex, CopyIsStored
  <2>2. load' = "done" /\ stored' = stored
      BY <1>6 DEF LoadAuthIndex
  <2>3. CASE stored.there
    <3>1. authIndex' = [entries |-> stored.entries, unlocked |-> FALSE]
        BY <1>6, <2>1, <2>3 DEF LoadAuthIndex
    <3> QED BY <2>1, <2>2, <3>1 DEF CopyIsStored
  <2>4. CASE ~stored.there
    <3>1. authIndex' = DefaultIndex /\ stored = NoCopy
        BY <1>6, <2>1, <2>4 DEF LoadAuthIndex
    <3> QED BY <2>1, <2>2, <3>1 DEF CopyIsStored, DefaultIndex, NoCopy
  <2> QED BY <2>3, <2>4
<1>7. CASE Suspend
    BY <1>7 DEF Suspend, linkVars, CopyIsStored
<1>8. CASE Asking
  <2>1. UNCHANGED cacheVars /\ load = "done"
      BY <1>1, <1>8, AskEffects
  <2> QED BY <2>1 DEF cacheVars, CopyIsStored
<1>9. CASE Deliver
  <2>1. /\ Heard \in Reply /\ Heard.id \in Ids /\ Heard.ok \in BOOLEAN
        /\ \/ MutationDone(Heard.id, Heard)
           \/ Refreshed(Heard.id, Heard)
           \/ Listed(Heard.id, Heard)
           \/ Late(Heard.id)
        /\ UNCHANGED <<companionPort, read, load>>
      BY <1>1, <1>9, Delivered
  <2>2. load = "done"
      BY <1>9 DEF Deliver, CopyIsStored
  <2>3. \/ authIndex'.entries = authIndex.entries /\ stored' = stored
        \/ authIndex'.entries = stored'.entries /\ stored'.there
    <3>1. CASE MutationDone(Heard.id, Heard)
        BY <1>1, <2>1, <3>1, MutationEffects
    <3>2. CASE Refreshed(Heard.id, Heard)
        BY <1>1, <2>1, <3>2, RefreshEffects
    <3>3. CASE Listed(Heard.id, Heard)
        BY <1>1, <2>1, <3>3, ListEffects
    <3>4. CASE Late(Heard.id)
        BY <3>4 DEF Late
    <3> QED BY <2>1, <3>1, <3>2, <3>3, <3>4
  <2> QED BY <2>1, <2>2, <2>3 DEF CopyIsStored
<1>10. CASE Disconnected
  <2>1. /\ companionPort /\ load' = load /\ stored' = stored /\ companionPort' = FALSE
        /\ authIndex' = [authIndex EXCEPT !.unlocked = FALSE]
      BY <1>10 DEF Disconnected
  <2>2. authIndex'.entries = authIndex.entries
      BY <1>1, <2>1 DEF Types, TypeOK
  <2> QED BY <2>1, <2>2 DEF CopyIsStored
<1> QED BY <1>2, <1>3, <1>4, <1>5, <1>6, <1>7, <1>8, <1>9, <1>10, Cases

\* What a step leaves of a list that is on its way.
LEMMA StillListed ==
    ASSUME ListInv,
           \/ UNCHANGED <<ppKey, index, toCompanion, toExtension, pending, authIndex>>
           \/ ~ppKey'
    PROVE  ListInv'
BY DEF ListInv, ListComesAfter, Answers

\* To ask changes no list.
LEMMA AskList ==
    ASSUME WireInv, ListInv, Asking
    PROVE  ListInv'
<1>1. Types
    BY DEF WireInv
<1>2. PICK r \in Request :
         /\ toCompanion' = Append(toCompanion, r) /\ toExtension' = toExtension
         /\ \A i \in DOMAIN toExtension : toExtension[i].id # r.id
         /\ \A i \in Ids : i # r.id => pending'[i] = pending[i]
         /\ UNCHANGED <<companionVars, cacheVars>>
    BY <1>1, AskEffects
<1>3. (\A i \in DOMAIN toExtension : toExtension[i].id \in Ids) /\ toCompanion \in Seq(Request)
    BY <1>1, MessagesTyped
<1>4. \A i \in DOMAIN toCompanion : i \in DOMAIN toCompanion' /\ toCompanion'[i] = toCompanion[i]
    BY <1>2, <1>3, Appended
<1>5. \A i \in DOMAIN toExtension : Answers(i)' = Answers(i)
    BY <1>2, <1>3 DEF Answers
<1>6. index' = index /\ ppKey' = ppKey /\ authIndex' = authIndex
    BY <1>2 DEF companionVars, cacheVars
<1>7. ASSUME NEW i, ListComesAfter(i) PROVE ListComesAfter(i)'
    BY <1>2, <1>4, <1>5, <1>6, <1>7 DEF ListComesAfter
<1> QED BY <1>2, <1>6, <1>7 DEF ListInv

\* A change of the index is told by the reply, or asked for next.
LEMMA HandleList ==
    ASSUME WireInv, ListInv, Handle, TimingOut \cap (Mutations \cup {"refresh"}) = {}
    PROVE  ListInv'
<1>1. Types /\ AskedIsPending
    BY DEF WireInv
<1>2. /\ toCompanion \in Seq(Request) /\ toCompanion # <<>>
      /\ toCompanion' = Tail(toCompanion)
      /\ toExtension' = Append(toExtension, Answered)
      /\ Answered \in Reply
      /\ Answered.id = toCompanion[1].id /\ Answered.ok = Granted(toCompanion[1])
      /\ Answered.entries = index'
      /\ pending' = pending
    BY <1>1, Handled
<1>3. /\ 1 \in DOMAIN toCompanion /\ Head(toCompanion) = toCompanion[1]
      /\ \A k \in DOMAIN toCompanion : k > 1 => /\ k - 1 \in DOMAIN toCompanion'
                                                /\ toCompanion'[k - 1] = toCompanion[k]
      /\ \A k \in DOMAIN toCompanion : k = 1 \/ k > 1
    BY <1>2, Shortened
<1>4. toExtension \in Seq(Reply) /\ toCompanion[1].action \in Actions
    BY <1>1, <1>3, MessagesTyped
<1>5. PICK n : n = Len(toExtension) + 1
    OBVIOUS
<1>6. /\ Len(toExtension) \in Nat /\ DOMAIN toExtension = 1..Len(toExtension)
      /\ n \in DOMAIN toExtension'
      /\ \A i \in DOMAIN toExtension : i \in DOMAIN toExtension' /\ toExtension'[i] = toExtension[i]
      /\ \A i \in DOMAIN toExtension' : i \in DOMAIN toExtension \/ i = n
      /\ toExtension'[n] = Answered
    BY <1>2, <1>4, <1>5, Appended
<1>7. n > 0 /\ \A i \in DOMAIN toExtension : n > i
    BY <1>5, <1>6
<1>8. authIndex' = authIndex
    BY DEF Handle, cacheVars
<1> DEFINE r == toCompanion[1]
<1>9. IF Granted(r) THEN Carry(r) ELSE UNCHANGED companionVars
    BY <1>3 DEF Handle
<1>10. \/ r.action = "refresh" /\ Granted(r)
       \/ r.action \in Mutations /\ Granted(r)
       \/ r.action # "refresh" /\ index' = index /\ ppKey' = ppKey
  <2>1. CASE ~Granted(r)
    <3>1. r.action # "refresh"
        BY <2>1 DEF Granted
    <3> QED BY <1>9, <2>1, <3>1 DEF companionVars
  <2>2. CASE Granted(r) /\ r.action = "auth-list"
    <3>1. index' = index /\ ppKey' = ppKey
        BY <1>9, <2>2 DEF Carry
    <3> QED BY <2>2, <3>1
  <2> QED BY <1>4, <2>1, <2>2 DEF Actions
<1>11. CASE (r.action = "refresh" \/ r.action \in Mutations) /\ Granted(r)
  <2>1. pending[r.id].action = r.action
      BY <1>1, <1>3, <1>11 DEF AskedIsPending
  <2>2. \/ Answers(n)' \in Mutations /\ toExtension'[n].ok
        \/ Answers(n)' = "refresh" /\ toExtension'[n].entries = index'
      BY <1>2, <1>6, <1>11, <2>1 DEF Answers
  <2>3. ListComesAfter(0)' /\ \A i \in DOMAIN toExtension : ListComesAfter(i)'
      BY <1>6, <1>7, <2>2 DEF ListComesAfter
  <2> QED BY <1>2, <1>6, <2>3 DEF ListInv
<1>12. CASE r.action # "refresh" /\ index' = index /\ ppKey' = ppKey
  <2>1. ASSUME NEW i, ListComesAfter(i) PROVE ListComesAfter(i)'
    <3>1. CASE \E k \in DOMAIN toCompanion : toCompanion[k].action = "refresh"
      <4>1. PICK k \in DOMAIN toCompanion : toCompanion[k].action = "refresh"
          BY <3>1
      <4>2. k - 1 \in DOMAIN toCompanion' /\ toCompanion'[k - 1].action = "refresh"
          BY <1>3, <1>12, <4>1
      <4> QED BY <4>2 DEF ListComesAfter
    <3>2. CASE \E j \in DOMAIN toExtension :
                  /\ j > i
                  /\ \/ Answers(j) \in Mutations /\ toExtension[j].ok
                     \/ Answers(j) = "refresh" /\ toExtension[j].entries = index
        BY <1>2, <1>6, <1>12, <3>2 DEF ListComesAfter, Answers
    <3> QED BY <2>1, <3>1, <3>2 DEF ListComesAfter
  <2> QED BY <1>2, <1>6, <1>8, <1>12, <2>1 DEF ListInv
<1> QED BY <1>10, <1>11, <1>12

\* The copy takes a list, or asks for the one that is newer.
LEMMA DeliverList ==
    ASSUME WireInv, ListInv, Deliver
    PROVE  ListInv'
<1>1. Types /\ IdsDiffer
    BY DEF WireInv
<1>2. /\ toExtension \in Seq(Reply) /\ toExtension # <<>> /\ 1 \in DOMAIN toExtension
      /\ toExtension' = Tail(toExtension)
      /\ Heard \in Reply /\ Heard.id \in Ids /\ Heard.ok \in BOOLEAN
      /\ \/ MutationDone(Heard.id, Heard)
         \/ Refreshed(Heard.id, Heard)
         \/ Listed(Heard.id, Heard)
         \/ Late(Heard.id)
    BY <1>1, Delivered
<1>3. /\ DOMAIN toExtension \subseteq Nat
      /\ \A i \in DOMAIN toExtension' : /\ i + 1 \in DOMAIN toExtension /\ i + 1 # 1 /\ i \in Nat
                                        /\ toExtension'[i] = toExtension[i + 1]
      /\ \A i \in DOMAIN toExtension : i > 1 => /\ i - 1 \in DOMAIN toExtension'
                                                /\ toExtension'[i - 1] = toExtension[i]
      /\ \A i \in DOMAIN toExtension : i = 1 \/ i > 1
    BY <1>2, Shortened
<1>4. /\ \/ toCompanion' = toCompanion
         \/ toCompanion' = Append(toCompanion, Refreshing(Heard.id))
      /\ \A i \in Ids : i # Heard.id => pending'[i] = pending[i]
      /\ index' = index /\ ppKey' = ppKey
    BY <1>1, DeliverEffects DEF companionVars
<1>5. (\A i \in DOMAIN toExtension : toExtension[i].id \in Ids) /\ toCompanion \in Seq(Request)
    BY <1>1, MessagesTyped
<1>6. \A i \in DOMAIN toExtension' : toExtension'[i].id # Heard.id
    BY <1>1, <1>2, <1>3 DEF IdsDiffer, Heard
<1>7. Refreshing(Heard.id) \in Request /\ Refreshing(Heard.id).action = "refresh"
    BY <1>2, RefreshingIs
<1>8. \A k \in DOMAIN toCompanion : k \in DOMAIN toCompanion' /\ toCompanion'[k] = toCompanion[k]
    BY <1>4, <1>5, <1>7, Appended
\* A list that comes after a reply comes after it still.
<1>9. ASSUME NEW i \in Nat, i >= 1, ListComesAfter(i) PROVE ListComesAfter(i - 1)'
  <2>1. CASE \E k \in DOMAIN toCompanion : toCompanion[k].action = "refresh"
      BY <1>8, <2>1 DEF ListComesAfter
  <2>2. CASE \E j \in DOMAIN toExtension :
                /\ j > i
                /\ \/ Answers(j) \in Mutations /\ toExtension[j].ok
                   \/ Answers(j) = "refresh" /\ toExtension[j].entries = index
    <3>1. PICK j \in DOMAIN toExtension :
                /\ j > i
                /\ \/ Answers(j) \in Mutations /\ toExtension[j].ok
                   \/ Answers(j) = "refresh" /\ toExtension[j].entries = index
        BY <2>2
    <3>2. PICK k : k = j - 1
        OBVIOUS
    <3>3. k \in DOMAIN toExtension' /\ toExtension'[k] = toExtension[j] /\ k > i - 1
        BY <1>3, <1>9, <3>1, <3>2
    <3>4. Answers(k)' = Answers(j)
        BY <1>4, <1>5, <1>6, <3>3 DEF Answers
    <3> QED BY <1>4, <3>1, <3>3, <3>4 DEF ListComesAfter
  <2> QED BY <1>9, <2>1, <2>2 DEF ListComesAfter
<1>10. ASSUME ppKey, NEW i \in DOMAIN toExtension', toExtension'[i].entries # index
       PROVE  ListComesAfter(i)'
  <2>1. i \in Nat /\ i + 1 \in DOMAIN toExtension /\ toExtension[i + 1].entries # index
      BY <1>3, <1>10
  <2>2. ListComesAfter(i + 1)
      BY <1>10, <2>1 DEF ListInv
  <2>3. ListComesAfter((i + 1) - 1)'
      BY <1>9, <2>1, <2>2
  <2>4. (i + 1) - 1 = i
      BY <2>1
  <2> QED BY <2>3, <2>4
<1>11. ASSUME ppKey, authIndex'.entries # index
       PROVE  ListComesAfter(0)'
  <2>1. \/ \E k \in DOMAIN toCompanion' : toCompanion'[k].action = "refresh"
        \/ authIndex'.entries = Heard.entries
        \/ /\ authIndex'.entries = authIndex.entries
           /\ ~(Answers(1) \in Mutations /\ toExtension[1].ok)
           /\ Answers(1) # "refresh"
    <3>0. Answers(1) = pending[Heard.id].action /\ toExtension[1].ok = Heard.ok
        BY DEF Answers, Heard
    <3>1. CASE MutationDone(Heard.id, Heard)
      <4>1. /\ pending[Heard.id].action \in Mutations
            /\ authIndex'.entries = authIndex.entries
            /\ Heard.ok => toCompanion' = Append(toCompanion, Refreshing(Heard.id))
          BY <1>1, <1>2, <3>1, MutationEffects
      <4>2. CASE Heard.ok
          BY <1>5, <1>7, <4>1, <4>2, Appended
      <4>3. CASE ~Heard.ok
          BY <3>0, <4>1, <4>3 DEF Mutations
      <4> QED BY <4>2, <4>3
    <3>2. CASE Refreshed(Heard.id, Heard)
        BY <1>1, <1>2, <3>2, RefreshEffects
    <3>3. CASE Listed(Heard.id, Heard)
      <4>1. pending[Heard.id].action = "auth-list" /\ authIndex' = authIndex
          BY <1>1, <1>2, <3>3, ListEffects
      <4> QED BY <3>0, <4>1 DEF Mutations
    <3>4. CASE Late(Heard.id)
      <4>1. pending[Heard.id].action = "none" /\ authIndex' = authIndex
          BY <3>4 DEF Late, NoRequest
      <4> QED BY <3>0, <4>1 DEF Mutations
    <3> QED BY <1>2, <3>1, <3>2, <3>3, <3>4
  <2>2. CASE \E k \in DOMAIN toCompanion' : toCompanion'[k].action = "refresh"
      BY <2>2 DEF ListComesAfter
  <2>3. CASE authIndex'.entries = Heard.entries
    <3>1. ListComesAfter(1)
        BY <1>2, <1>11, <2>3 DEF ListInv, Heard
    <3>2. ListComesAfter(1 - 1)'
        BY <1>9, <3>1
    <3>3. 1 - 1 = 0
        OBVIOUS
    <3> QED BY <3>2, <3>3
  <2>4. CASE /\ authIndex'.entries = authIndex.entries
             /\ ~(Answers(1) \in Mutations /\ toExtension[1].ok)
             /\ Answers(1) # "refresh"
    <3>1. ListComesAfter(0)
        BY <1>11, <2>4 DEF ListInv
    <3>2. ListComesAfter(1)
        BY <1>3, <2>4, <3>1 DEF ListComesAfter
    <3>3. ListComesAfter(1 - 1)'
        BY <1>9, <3>2
    <3>4. 1 - 1 = 0
        OBVIOUS
    <3> QED BY <3>3, <3>4
  <2> QED BY <2>1, <2>2, <2>3, <2>4
<1> QED BY <1>4, <1>10, <1>11 DEF ListInv

\* What is given up was not to bring a list.
LEMMA GiveUpList ==
    ASSUME WireInv, ListInv, NEW id \in Ids, TimesOut(id),
           TimingOut \cap (Mutations \cup {"refresh"}) = {}
    PROVE  ListInv'
<1>1. Types
    BY DEF WireInv
<1>2. /\ pending[id].action \in TimingOut
      /\ \A i \in Ids : i # id => pending'[i] = pending[i]
      /\ UNCHANGED <<companionVars, linkVars, cacheVars>>
    BY <1>1, GivenUp
<1>3. \A i \in DOMAIN toExtension : toExtension[i].id \in Ids
    BY <1>1, MessagesTyped
<1>4. /\ index' = index /\ ppKey' = ppKey /\ authIndex' = authIndex
      /\ toCompanion' = toCompanion /\ toExtension' = toExtension
    BY <1>2 DEF companionVars, linkVars, cacheVars
<1>5. \A j \in DOMAIN toExtension : Answers(j) \in Mutations \cup {"refresh"} => Answers(j)' = Answers(j)
    BY <1>2, <1>3, <1>4 DEF Answers
<1>6. ASSUME NEW i, ListComesAfter(i) PROVE ListComesAfter(i)'
    BY <1>4, <1>5, <1>6 DEF ListComesAfter
<1> QED BY <1>4, <1>6 DEF ListInv

\* Every step keeps the newest list on its way.
LEMMA ListStep ==
    ASSUME WireInv, CopyIsStored, ListInv, [Next]_vars,
           TimingOut \cap (Mutations \cup {"refresh"}) = {}
    PROVE  ListInv'
<1>1. Types /\ Session
    BY DEF WireInv
<1>2. CASE UNCHANGED vars
    BY <1>2, StillListed DEF vars, companionVars, linkVars, cacheVars
<1>3. CASE Wake \/ TabMoves
  <2>1. UNCHANGED <<ppKey, index, toCompanion, toExtension, pending, authIndex>>
      BY <1>3 DEF Wake, TabMoves, Navigate, ReadEntries, Decide, Cancel, companionVars, linkVars,
                  cacheVars
  <2> QED BY <2>1, StillListed
<1>4. CASE LoadAuthIndex \/ Suspend
  <2>1. ~companionPort /\ ppKey' = ppKey
      BY <1>4 DEF LoadAuthIndex, Suspend, companionVars, CopyIsStored
  <2>2. ~ppKey'
      BY <1>1, <2>1 DEF Session
  <2> QED BY <2>2, StillListed
<1>5. CASE Asking
    BY <1>5, AskList
<1>6. CASE Handle
    BY <1>6, HandleList
<1>7. CASE Crash \/ Disconnected
  <2>1. ~ppKey'
      BY <1>1, <1>7 DEF Crash, Disconnected, Session, companionVars
  <2> QED BY <2>1, StillListed
<1>8. CASE Deliver
    BY <1>8, DeliverList
<1>9. CASE \E id \in Ids : TimesOut(id)
    BY <1>9, GiveUpList
<1> QED BY <1>2, <1>3, <1>4, <1>5, <1>6, <1>7, <1>8, <1>9, Cases

\* background.js:671-707, 765-788: once nothing is under way the page knows whether the
\* vault is open, and if it is, the copy, the store and the companion list the
\* same onions, as long as no mutation and no refresh is given up by a timeout
\* and the storage is read before the companion answers.
THEOREM TheCacheFollows ==
    ASSUME TimingOut \cap (Mutations \cup {"refresh"}) = {}, ~SlowStorage
    PROVE  Spec => []CacheFollowsIndex
<1> DEFINE Inv == WireInv /\ BeliefInv(TRUE) /\ BeliefInv(FALSE) /\ CopyIsStored /\ ListInv
<1>1. Init => Inv
  <2>1. TRUE \in BOOLEAN /\ FALSE \in BOOLEAN
      OBVIOUS
  <2> QED BY <2>1, InitialWire, InitialBelief, InitialCopy
<1>2. Inv /\ [Next]_vars => Inv'
  <2> SUFFICES ASSUME Inv, [Next]_vars PROVE Inv'
      OBVIOUS
  <2>1. WireInv'
      BY WireStep
  <2>2. CopyIsStored'
      BY CopyStep
  <2>3. ListInv'
      BY ListStep
  <2>4. /\ Turning(TRUE) \cap TimingOut = {} /\ Turning(FALSE) \cap TimingOut = {}
        /\ (load = "reading" => ~companionPort)
      BY DEF Turning, Opening, Mutations, CopyIsStored
  <2>5. BeliefInv(TRUE)'
      BY <2>4, BeliefStep
  <2>6. BeliefInv(FALSE)'
      BY <2>4, BeliefStep
  <2> QED BY <2>1, <2>2, <2>3, <2>5, <2>6
<1>3. Inv => CacheFollowsIndex
  <2> SUFFICES ASSUME Inv, Quiet
               PROVE  /\ authIndex.unlocked = ppKey
                      /\ ppKey => authIndex.entries = index /\ stored.entries = index
      BY DEF CacheFollowsIndex
  <2>1. Types /\ Session /\ AskedIsPending
      BY DEF WireInv
  <2>2. /\ \A i \in Ids : pending[i] = NoRequest
        /\ toExtension = <<>> /\ (companionPort => process) /\ load = "done"
      BY DEF Quiet
  <2>3. \A i \in DOMAIN toExtension : FALSE
      BY <2>2, EmptySeq
  <2>4. authIndex.unlocked = ppKey
    <3>1. ppKey \in BOOLEAN /\ authIndex.unlocked \in BOOLEAN
        BY <2>1 DEF Types, TypeOK
    <3>2. CASE process
        BY <2>3, <3>1, <3>2 DEF BeliefInv, BeliefIsCorrected
    <3>3. CASE ~process
        BY <2>1, <2>2, <3>1, <3>3 DEF Session
    <3> QED BY <3>2, <3>3
  <2>5. \A k \in DOMAIN toCompanion : toCompanion[k].action # "refresh"
    <3>1. \A k \in DOMAIN toCompanion : toCompanion[k].id \in Ids
        BY <2>1, MessagesTyped
    <3> QED BY <2>1, <2>2, <3>1 DEF AskedIsPending, NoRequest
  <2>6. ~ListComesAfter(0)
      BY <2>3, <2>5 DEF ListComesAfter
  <2> QED BY <2>2, <2>4, <2>6 DEF ListInv, CopyIsStored
<1> QED BY <1>1, <1>2, <1>3, PTL DEF Spec

---------------------------------------------------------------------------
\* What is let through.

\* How a tab comes to be hashing, and how it passes.
LEMMA TabSteps ==
    ASSUME Types, [Next]_vars, NEW t \in Tabs
    PROVE  /\ goal' = goal
           /\ tab'[t] = "hashing" =>
                 \/ tab[t] = "hashing" /\ snapshot'[t] = snapshot[t]
                 \/ /\ load = "done" /\ snapshot'[t] = authIndex.entries
                    /\ UNCHANGED <<companionVars, stored>>
           /\ tab'[t] = "passed" => tab[t] = "passed" \/ Decide(t)
<1>1. tab \in [Tabs -> Places] /\ snapshot \in [Tabs -> SUBSET Onions]
    BY DEF Types, TypeOK
<1> DEFINE Goal == /\ goal' = goal
                   /\ tab'[t] = "hashing" =>
                         \/ tab[t] = "hashing" /\ snapshot'[t] = snapshot[t]
                         \/ /\ load = "done" /\ snapshot'[t] = authIndex.entries
                            /\ UNCHANGED <<companionVars, stored>>
                   /\ tab'[t] = "passed" => tab[t] = "passed" \/ Decide(t)
<1>2. ASSUME UNCHANGED tabVars PROVE Goal
    BY <1>2 DEF tabVars
<1>3. ASSUME NEW askers, NEW ok, Return(askers, ok) PROVE Goal
    BY <1>1, <1>3 DEF Return
<1>4. ASSUME NEW u \in Tabs, Navigate(u) PROVE Goal
    BY <1>1, <1>4 DEF Navigate
<1>5. ASSUME NEW u \in Tabs, ReadEntries(u) PROVE Goal
    BY <1>1, <1>5 DEF ReadEntries, cacheVars
<1>6. ASSUME NEW u \in Tabs, Decide(u) PROVE Goal
  <2>1. CASE u = t
      BY <1>1, <1>6, <2>1 DEF Decide
  <2>2. CASE u # t
      BY <1>1, <1>6, <2>2 DEF Decide
  <2> QED BY <2>1, <2>2
<1>7. ASSUME NEW u \in Tabs, NEW right, Submit(u, right) PROVE Goal
    BY <1>1, <1>7 DEF Submit
<1>8. ASSUME NEW u \in Tabs, Cancel(u) PROVE Goal
    BY <1>1, <1>8 DEF Cancel
<1>9. CASE UNCHANGED vars
    BY <1>2, <1>9 DEF vars
<1>10. CASE Wake \/ LoadAuthIndex \/ Suspend \/ Handle \/ Crash
    BY <1>2, <1>10 DEF Wake, LoadAuthIndex, Suspend, Handle, Crash
<1>11. CASE TabMoves
    BY <1>4, <1>5, <1>6, <1>8, <1>11 DEF TabMoves
<1>12. CASE Asking
    BY <1>2, <1>7, <1>12 DEF Asking, Manage, Reload, OnReady
<1>13. CASE Disconnected \/ \E id \in Ids : TimesOut(id)
    BY <1>3, <1>13 DEF Disconnected, TimesOut
<1>14. CASE Deliver
    BY <1>2, <1>3, <1>14, Delivered
       DEF MutationDone, Refreshed, RefreshedTo, Listed, Late, tabVars
<1> QED BY <1>9, <1>10, <1>11, <1>12, <1>13, <1>14, Cases

\* A tab that might pass has had its moment when the copy was right.
LEMMA ExcuseStep ==
    ASSUME WireInv, CopyIsStored, ExcuseInv, [Next]_vars
    PROVE  ExcuseInv'
<1>1. Types
    BY DEF WireInv
<1>2. CASE UNCHANGED vars
  <2>1. UNCHANGED <<tab, goal, snapshot, excused>>
      BY <1>2 DEF vars, tabVars
  <2>2. \A t \in Tabs : MayPass(t)' <=> MayPass(t)
      BY <1>2 DEF vars, companionVars, linkVars, cacheVars, tabVars, MayPass, CorrectionOnItsWay
  <2> QED BY <2>1, <2>2 DEF ExcuseInv
<1>3. CASE Next
  <2>1. excused' = {t \in Tabs : tab'[t] \in {"arrived", "hashing"}
                                 /\ (t \in excused \/ MayPass(t)')}
      BY <1>3, Cases DEF Excuse
  <2>2. ASSUME NEW t \in Tabs, tab'[t] = "hashing", goal'[t] \notin snapshot'[t]
        PROVE  t \in excused'
    <3>1. /\ goal' = goal
          /\ \/ tab[t] = "hashing" /\ snapshot'[t] = snapshot[t]
             \/ /\ load = "done" /\ snapshot'[t] = authIndex.entries
                /\ UNCHANGED <<companionVars, stored>>
        BY <1>1, <2>2, TabSteps
    <3>2. CASE tab[t] = "hashing" /\ snapshot'[t] = snapshot[t]
      <4>1. t \in excused
          BY <2>2, <3>1, <3>2 DEF ExcuseInv
      <4> QED BY <2>1, <2>2, <4>1
    <3>3. CASE /\ load = "done" /\ snapshot'[t] = authIndex.entries
               /\ UNCHANGED <<companionVars, stored>>
      <4>1. goal'[t] \notin stored'.entries
          BY <2>2, <3>3 DEF CopyIsStored
      <4>2. goal'[t] \notin index' \/ stored'.entries # index'
          BY <4>1
      <4>3. MayPass(t)'
          BY <4>2 DEF MayPass
      <4> QED BY <2>1, <2>2, <4>3
    <3> QED BY <3>1, <3>2, <3>3
  <2> QED BY <2>1, <2>2 DEF ExcuseInv
<1> QED BY <1>2, <1>3

\* background.js:712-716: a navigation reaches a protected onion without a
\* question only if, since it began, there was a moment at which that was
\* right, as long as auth-lock is not given up by a timeout and the storage is
\* read before the companion answers.
THEOREM OnlyTheUnlockedPass ==
    ASSUME "auth-lock" \notin TimingOut, ~SlowStorage
    PROVE  Spec => LetThroughWasUnlocked
<1> DEFINE Inv == BelievedUnlockedIsUnlocked /\ WireInv /\ CopyIsStored /\ ExcuseInv
           Excused == \A t \in Tabs : tab[t] = "hashing" /\ tab'[t] = "passed" => t \in excused
<1>1. Spec => []Inv
  <2>1. Spec => []BelievedUnlockedIsUnlocked
      BY BelievedIsUnlocked
  <2>2. Init => ExcuseInv
      BY DEF Init, ExcuseInv
  <2>3. WireInv /\ CopyIsStored /\ [Next]_vars => CopyIsStored'
      BY CopyStep
  <2>4. WireInv /\ CopyIsStored /\ ExcuseInv /\ [Next]_vars => ExcuseInv'
      BY ExcuseStep
  <2> QED BY <2>1, <2>2, <2>3, <2>4, InitialWire, WireStep, InitialCopy, PTL DEF Spec
<1>2. Inv /\ [Next]_vars => Excused
  <2> SUFFICES ASSUME Inv, [Next]_vars,
                      NEW t \in Tabs, tab[t] = "hashing", tab'[t] = "passed"
               PROVE  t \in excused
      OBVIOUS
  <2>1. Types
      BY DEF WireInv
  <2>2. Decide(t)
      BY <2>1, TabSteps
  <2>3. authIndex.unlocked \/ goal[t] \notin snapshot[t]
      BY <2>1, <2>2 DEF Decide, Types, TypeOK
  <2>4. CASE authIndex.unlocked
    <3>1. MayPass(t)
        BY <2>4 DEF BelievedUnlockedIsUnlocked, MayPass
    <3> QED BY <3>1 DEF ExcuseInv
  <2>5. CASE goal[t] \notin snapshot[t]
      BY <2>5 DEF ExcuseInv
  <2> QED BY <2>3, <2>4, <2>5
<1>3. Spec => [][Excused]_vars
  <2>1. Inv /\ [Next]_vars => [Excused]_vars
      BY <1>2
  <2> QED BY <1>1, <2>1, PTL DEF Spec
<1> QED BY <1>3 DEF LetThroughWasUnlocked
=============================================================================
