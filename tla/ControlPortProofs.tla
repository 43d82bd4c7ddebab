------------------------- MODULE ControlPortProofs -------------------------
(***************************************************************************)
(* What the companion may conclude from a control port: proofs about       *)
(* ControlPort, for any number of pairs and operations and whatever        *)
(* listens on the ports.                                                   *)
(***************************************************************************)
EXTENDS ControlPort, ListLemmas

\* What lines may say, and the lines themselves.
Challenge(s) == [topic |-> "challenge", proof |-> [by |-> "tor", cookie |-> s.cookie]]
Version(s) == [topic |-> "version", version |-> s.version]
Sayings == {Nothing} \cup {AuthLine(s) : s \in Servers} \cup {Challenge(s) : s \in Servers}
           \cup {Version(s) : s \in Servers}
Lines == [answers : Verbs \cup {"nothing"}, final : BOOLEAN, ok : BOOLEAN, said : Sayings]

Kinds == {"none", "detect", "ADD", "REMOVE"}
SomeOnion == Onions \cup {"none"}

\* The shape of the state.
Shape ==
    /\ server \in [KNOWN_PAIRS -> Servers]
    /\ op \in [kind : Kinds, onion : SomeOnion]
    /\ pair \in KNOWN_PAIRS
    /\ pc \in Verbs \cup {"idle", "connect"}
    /\ status \in {"reading", "ok", "refused"}
    /\ heard \subseteq Sayings
    /\ done \in BOOLEAN
    /\ inbox \in [KNOWN_PAIRS -> Seq(Command)]
    /\ outbox \in Seq(Lines)
    /\ session \in {"new", "in", "closed"}
    /\ registered \in [KNOWN_PAIRS -> SUBSET Onions]
    /\ result \in [kind : Kinds, onion : SomeOnion, ok : BOOLEAN, pair : KNOWN_PAIRS]
    /\ slow \in BOOLEAN
    /\ ops \in 0..MaxOps

\* All that the lines of this connection say, read or not.
Said == heard \cup {outbox[i].said : i \in DOMAIN outbox}

\* The answer to the last command has been given, if not read.
Answered == outbox # <<>> \/ status # "reading"

\* Which operation asks what.
Order ==
    /\ pc = "idle" <=> op.kind = "none"
    /\ op.kind = "detect" => pc \notin {"ADD", "REMOVE", "QUIT"}
    /\ op.kind \in {"ADD", "REMOVE"} => op.onion \in Onions /\ op.onion # "none"
    /\ op.kind \in {"ADD", "REMOVE"} => pc # "GETINFO"
    /\ pc \in {"ADD", "REMOVE"} => pc = op.kind
    /\ result.kind # "none" => pc = "idle"

\* Between connections nothing is read, and nobody is authenticated.
Silent == pc \notin Verbs => outbox = <<>> /\ heard = {} /\ status = "reading" /\ session # "in"

\* The one command whose sender still listens is the last one sent, and it has
\* not been answered; the commands of ended connections come before it.
LiveIsLast ==
    \A p \in KNOWN_PAIRS : \A i \in DOMAIN inbox[p] :
       inbox[p][i].live =>
          /\ p = pair /\ i = Len(inbox[p])
          /\ pc \in Verbs /\ inbox[p][i].verb = pc
          /\ pc \in {"ADD", "REMOVE"} => inbox[p][i].onion = op.onion
          /\ Here.speaks = "tor" => ~Answered

\* Until it is answered it is there.
LiveIsThere ==
    pc \in Verbs /\ Here.speaks = "tor" /\ inbox[pair] # <<>> =>
       inbox[pair][Len(inbox[pair])].live

\* Only ADD and REMOVE name an onion.
OnionsNamed ==
    \A p \in KNOWN_PAIRS : \A i \in DOMAIN inbox[p] :
       /\ inbox[p][i].verb \in {"ADD", "REMOVE"} => inbox[p][i].onion \in Onions
       /\ inbox[p][i].verb \notin {"ADD", "REMOVE"} => inbox[p][i].onion = "none"

\* While QUIT is answered, nothing else is left on the port.
QuitAlone ==
    pc = "QUIT" => \A i \in DOMAIN inbox[pair] : inbox[pair][i].verb = "QUIT"

\* Only a Tor gets more than the first command, and only of it is known which
\* methods it offers, that it knows the cookie, and which version it is.
OnlyTor == pc \in Verbs \ {"PROTOCOLINFO"} => Here.speaks = "tor"
SaidByTor ==
    \A said \in Said :
       /\ said.topic # "nothing" => Here.speaks = "tor"
       /\ said.topic = "auth" => said = AuthLine(Here)
       /\ said.topic = "challenge" => said = Challenge(Here)
       /\ said.topic = "version" => said = Version(Here) /\ session = "in"

\* An answer of Tor ends with its final line.
FinalIsLast ==
    Here.speaks = "tor" => \A i \in DOMAIN outbox : outbox[i].final <=> i = Len(outbox)

\* The answer says, or has said, that the command was carried out.
SaysOk == status = "ok" \/ \E i \in DOMAIN outbox : outbox[i].final /\ outbox[i].ok

\* What is then true of the key.
IsDone == (op.kind = "ADD") = (op.onion \in registered[pair])
DoneIsDone ==
    /\ pc \in {"ADD", "REMOVE"} /\ SaysOk => IsDone
    /\ pc = "QUIT" /\ done => IsDone

\* The inductive invariant of the conversation.
TalkInv ==
    /\ Shape
    /\ Order
    /\ Silent
    /\ LiveIsLast
    /\ LiveIsThere
    /\ OnionsNamed
    /\ QuitAlone
    /\ OnlyTor
    /\ SaidByTor
    /\ FinalIsLast
    /\ RepliesAnswerTheirCommand
    /\ DoneIsDone
    /\ OkMeansDone
    /\ ProofsGoToTheKnowing

---------------------------------------------------------------------------
\* Whom the companion can authenticate to.
Authable(s) ==
    \/ "NULL" \in s.methods
    \/ s.methods \cap {"COOKIE", "SAFECOOKIE"} # {} /\ s.file = s.cookie

\* Whoever is in has been let in.
InIsAuthable ==
    /\ session = "in" => Authable(Here)
    /\ \A p \in KNOWN_PAIRS : \A i \in DOMAIN inbox[p] :
          inbox[p][i].live /\ inbox[p][i].verb = "AUTHENTICATE" =>
             inbox[p][i].proof = Nobody \/ inbox[p][i].proof.cookie = Here.file

\* With a usable Tor nothing goes wrong but time.
Handshake == {"PROTOCOLINFO", "AUTHCHALLENGE", "AUTHENTICATE", "GETINFO"}
GoodPath ==
    IsFit(Here) /\ pc \in Handshake =>
       /\ status # "refused" /\ \A i \in DOMAIN outbox : outbox[i].ok
       /\ pc = "PROTOCOLINFO" /\ Answered => AuthLine(Here) \in Said
       /\ pc = "AUTHCHALLENGE" => "NULL" \notin Here.methods /\ "SAFECOOKIE" \in Here.methods
       /\ pc = "AUTHCHALLENGE" /\ Answered => Challenge(Here) \in Said
       /\ pc = "AUTHENTICATE" => \A i \in DOMAIN inbox[pair] :
             inbox[pair][i].live => Accepts(Here, inbox[pair][i].proof)
       /\ pc = "AUTHENTICATE" /\ Answered => session = "in"
       /\ pc = "GETINFO" => session = "in"
       /\ pc = "GETINFO" /\ Answered => Version(Here) \in Said

\* The pairs passed over had no usable Tor, unless one was slow.
PassedOver ==
    op.kind = "detect" /\ ~slow => \A p \in 1..(pair - 1) : ~IsFit(server[p])

\* The inductive invariant of the search.
SearchInv ==
    /\ InIsAuthable
    /\ GoodPath
    /\ PassedOver
    /\ FirstFitIsFound

---------------------------------------------------------------------------
\* The queues.

\* The commands that are sent are well formed.
LEMMA CommandsWellFormed ==
    /\ Nobody \in Proof
    /\ \A s \in Servers : [by |-> "companion", cookie |-> s.file] \in Proof
    /\ \A file \in Files : [by |-> "cookie", cookie |-> file] \in Proof
    /\ \A verb \in Verbs, proof \in Proof, onion \in SomeOnion, live \in BOOLEAN :
          [verb |-> verb, proof |-> proof, onion |-> onion, live |-> live] \in Command
BY ControlAssumption DEF Nobody, Proof, Files, Command, SomeOnion

\* A command that is sent is the last of its port's.
LEMMA PostAppends ==
    ASSUME Shape, NEW verb \in Verbs, NEW proof \in Proof, NEW onion \in SomeOnion,
           Post(verb, proof, onion)
    PROVE  LET c == [verb |-> verb, proof |-> proof, onion |-> onion, live |-> TRUE]
           IN  /\ inbox' \in [KNOWN_PAIRS -> Seq(Command)]
               /\ \A p \in KNOWN_PAIRS : p # pair => inbox'[p] = inbox[p]
               /\ Len(inbox[pair]) \in Nat /\ DOMAIN inbox[pair] = 1..Len(inbox[pair])
               /\ Len(inbox'[pair]) = Len(inbox[pair]) + 1
               /\ DOMAIN inbox'[pair] = 1..(Len(inbox[pair]) + 1)
               /\ \A i \in DOMAIN inbox[pair] : inbox'[pair][i] = inbox[pair][i]
               /\ inbox'[pair][Len(inbox[pair]) + 1] = c
<1> DEFINE c == [verb |-> verb, proof |-> proof, onion |-> onion, live |-> TRUE]
           q == Append(inbox[pair], c)
<1>1. c \in Command /\ inbox[pair] \in Seq(Command)
    BY CommandsWellFormed DEF Shape
<1>2. /\ q \in Seq(Command) /\ Len(q) = Len(inbox[pair]) + 1
      /\ \A i \in 1..Len(inbox[pair]) : q[i] = inbox[pair][i]
      /\ q[Len(inbox[pair]) + 1] = c
    BY <1>1, AppendProperties
<1>3. /\ Len(inbox[pair]) \in Nat /\ DOMAIN inbox[pair] = 1..Len(inbox[pair])
      /\ DOMAIN q = 1..Len(q)
    BY <1>1, <1>2, LenProperties
<1>4. inbox' = [inbox EXCEPT ![pair] = q]
    BY DEF Post
<1> HIDE DEF q
<1> QED BY <1>2, <1>3, <1>4 DEF Shape

\* Dropping the connection leaves its commands where they are, unheard.
LEMMA DropUnhears ==
    ASSUME Shape, Drop
    PROVE  /\ inbox' \in [KNOWN_PAIRS -> Seq(Command)]
           /\ \A p \in KNOWN_PAIRS : p # pair => inbox'[p] = inbox[p]
           /\ DOMAIN inbox'[pair] = DOMAIN inbox[pair]
           /\ \A i \in DOMAIN inbox[pair] :
                 /\ ~inbox'[pair][i].live
                 /\ inbox'[pair][i].verb = inbox[pair][i].verb
                 /\ inbox'[pair][i].onion = inbox[pair][i].onion
                 /\ inbox'[pair][i].proof = inbox[pair][i].proof
<1> DEFINE q == Unheard(inbox[pair])
<1>1. inbox[pair] \in Seq(Command)
    BY DEF Shape
<1>2. Len(inbox[pair]) \in Nat /\ DOMAIN inbox[pair] = 1..Len(inbox[pair])
      /\ \A i \in 1..Len(inbox[pair]) : inbox[pair][i] \in Command
    BY <1>1, LenProperties, ElementOfSeq
<1>3. \A i \in 1..Len(inbox[pair]) :
         q[i] = [verb |-> inbox[pair][i].verb, proof |-> inbox[pair][i].proof,
                 onion |-> inbox[pair][i].onion, live |-> FALSE]
    BY <1>2 DEF Unheard, Command
<1>4. \A i \in 1..Len(inbox[pair]) : q[i] \in Command
  <2> SUFFICES ASSUME NEW i \in 1..Len(inbox[pair]) PROVE q[i] \in Command
    OBVIOUS
  <2>1. inbox[pair][i] \in Command
    BY <1>2
  <2>2. /\ inbox[pair][i].verb \in Verbs /\ inbox[pair][i].proof \in Proof
        /\ inbox[pair][i].onion \in SomeOnion
    BY <2>1 DEF Command, SomeOnion
  <2> QED
    BY <1>3, <2>2, CommandsWellFormed
<1>5. q \in Seq(Command) /\ DOMAIN q = 1..Len(inbox[pair])
  <2>1. q \in [1..Len(inbox[pair]) -> Command]
    BY <1>2, <1>4 DEF Unheard
  <2> QED
    BY <1>2, <2>1, SeqDef
<1>6. inbox' = [inbox EXCEPT ![pair] = q]
    BY DEF Drop
<1> HIDE DEF q
<1> QED BY <1>2, <1>3, <1>5, <1>6 DEF Shape

\* The first command of a port is taken out of its queue.
LEMMA ServeTakes ==
    ASSUME Shape, NEW p \in KNOWN_PAIRS, Serve(p)
    PROVE  /\ Head(inbox[p]) \in Command /\ Head(inbox[p]) = inbox[p][1]
           /\ Len(inbox[p]) \in Nat \ {0} /\ DOMAIN inbox[p] = 1..Len(inbox[p])
           /\ inbox' \in [KNOWN_PAIRS -> Seq(Command)]
           /\ \A x \in KNOWN_PAIRS : x # p => inbox'[x] = inbox[x]
           /\ Len(inbox'[p]) = Len(inbox[p]) - 1
           /\ DOMAIN inbox'[p] = 1..(Len(inbox[p]) - 1)
           /\ \A i \in DOMAIN inbox'[p] : i + 1 \in DOMAIN inbox[p] /\ inbox'[p][i] = inbox[p][i + 1]
           /\ inbox'[p] = <<>> <=> Len(inbox[p]) = 1
<1> DEFINE q == Tail(inbox[p])
<1>1. inbox[p] \in Seq(Command) /\ inbox[p] # <<>>
    BY DEF Shape, Serve
<1>2. /\ Head(inbox[p]) \in Command /\ q \in Seq(Command)
      /\ Len(q) = Len(inbox[p]) - 1
      /\ \A i \in 1..Len(q) : q[i] = inbox[p][i + 1]
    BY <1>1, HeadTailProperties
<1>3. /\ Len(inbox[p]) \in Nat \ {0} /\ DOMAIN inbox[p] = 1..Len(inbox[p])
      /\ DOMAIN q = 1..Len(q)
    BY <1>1, <1>2, LenProperties, EmptySeq
<1>4. q = <<>> <=> Len(q) = 0
    BY <1>2, EmptySeq
<1>5. inbox' = [inbox EXCEPT ![p] = q]
    BY DEF Serve
<1>6. Head(inbox[p]) = inbox[p][1]
    BY <1>1
<1> HIDE DEF q
<1> QED BY <1>2, <1>3, <1>4, <1>5, <1>6 DEF Shape

---------------------------------------------------------------------------
\* The answers of a Tor.

\* Whether a Tor carries a command out.
Grants(s, c, authenticated, granted) ==
    \/ c.verb \in {"PROTOCOLINFO", "QUIT"}
    \/ c.verb = "AUTHCHALLENGE" /\ "SAFECOOKIE" \in s.methods
    \/ c.verb = "AUTHENTICATE" /\ Accepts(s, c.proof)
    \/ c.verb = "GETINFO" /\ authenticated
    \/ c.verb \in {"ADD", "REMOVE"} /\ authenticated /\ granted

\* What a listener says is well formed.
LEMMA SayingsWellFormed ==
    \A s \in Servers : {Nothing, AuthLine(s), Challenge(s), Version(s)} \subseteq Sayings
BY DEF Sayings

\* One thing after another.
LEMMA TwoLines ==
    ASSUME NEW x, NEW y
    PROVE  <<x>> \o <<y>> = <<x, y>>
<1> DEFINE S == {x, y}
<1>1. <<x>> \in Seq(S) /\ <<y>> \in Seq(S) /\ <<x, y>> \in Seq(S)
    OBVIOUS
<1>2. Len(<<x>>) = 1 /\ Len(<<y>>) = 1 /\ Len(<<x, y>>) = 2
    OBVIOUS
<1> HIDE DEF S
<1>3. /\ <<x>> \o <<y>> \in Seq(S) /\ Len(<<x>> \o <<y>>) = 2
      /\ (<<x>> \o <<y>>)[1] = <<x>>[1] /\ (<<x>> \o <<y>>)[2] = <<y>>[1]
    BY <1>1, <1>2, ConcatProperties
<1>4. \A i \in 1..2 : (<<x>> \o <<y>>)[i] = <<x, y>>[i]
    BY <1>3
<1> QED BY <1>1, <1>2, <1>3, <1>4, SeqEqual

\* What each of the things said is about.
LEMMA Topics ==
    /\ Nothing.topic = "nothing"
    /\ \A s : AuthLine(s).topic = "auth" /\ Challenge(s).topic = "challenge"
              /\ Version(s).topic = "version"
BY DEF Nothing, AuthLine, Challenge, Version

\* Every answer has one or two lines, the last of which is the final one; what
\* they say depends on the command.
LEMMA AnswersOfTor ==
    ASSUME NEW s \in Servers, NEW c \in Command, NEW a \in BOOLEAN, NEW g \in BOOLEAN
    PROVE  \/ /\ c.verb = "PROTOCOLINFO"
              /\ TorAnswers(s, c, a, g) = <<Line(c.verb, FALSE, TRUE, AuthLine(s)),
                                            Line(c.verb, TRUE, TRUE, Nothing)>>
           \/ /\ c.verb = "AUTHCHALLENGE"
              /\ TorAnswers(s, c, a, g) = <<Line(c.verb, TRUE, "SAFECOOKIE" \in s.methods,
                                                 Challenge(s))>>
           \/ /\ c.verb = "AUTHENTICATE"
              /\ TorAnswers(s, c, a, g) = <<Line(c.verb, TRUE, Accepts(s, c.proof), Nothing)>>
           \/ /\ c.verb = "GETINFO" /\ a
              /\ TorAnswers(s, c, a, g) = <<Line(c.verb, FALSE, TRUE, Version(s)),
                                            Line(c.verb, TRUE, TRUE, Nothing)>>
           \/ /\ c.verb = "GETINFO" /\ ~a
              /\ TorAnswers(s, c, a, g) = <<Line(c.verb, TRUE, FALSE, Nothing)>>
           \/ /\ c.verb \in {"ADD", "REMOVE"} /\ a
              /\ TorAnswers(s, c, a, g) = <<Line(c.verb, TRUE, g, Nothing)>>
           \/ /\ c.verb \in {"ADD", "REMOVE"} /\ ~a
              /\ TorAnswers(s, c, a, g) = <<Line(c.verb, TRUE, FALSE, Nothing)>>
           \/ /\ c.verb = "QUIT"
              /\ TorAnswers(s, c, a, g) = <<Line(c.verb, TRUE, TRUE, Nothing)>>
<1> DEFINE A == TorAnswers(s, c, a, g)
<1>1. c.verb \in Verbs
    BY DEF Command
<1>2. A = IF c.verb = "PROTOCOLINFO"
          THEN <<Line(c.verb, FALSE, TRUE, AuthLine(s))>> \o Final(c, TRUE)
          ELSE IF c.verb = "AUTHCHALLENGE"
          THEN <<Line(c.verb, TRUE, "SAFECOOKIE" \in s.methods, Challenge(s))>>
          ELSE IF c.verb = "AUTHENTICATE" THEN Final(c, Accepts(s, c.proof))
          ELSE IF c.verb = "GETINFO" /\ a
          THEN <<Line(c.verb, FALSE, TRUE, Version(s))>> \o Final(c, TRUE)
          ELSE IF c.verb \in {"ADD", "REMOVE"} /\ a THEN Final(c, g)
          ELSE IF c.verb = "QUIT" THEN Final(c, TRUE)
          ELSE Final(c, FALSE)
    BY Zenon DEF TorAnswers, Challenge, Version
<1>3. \A x, y : <<x>> \o <<y>> = <<x, y>>
    BY TwoLines
<1> HIDE DEF A
<1>4. \A ok : Final(c, ok) = <<Line(c.verb, TRUE, ok, Nothing)>>
    BY DEF Final
<1>5. CASE c.verb = "PROTOCOLINFO"
    BY <1>2, <1>3, <1>4, <1>5 DEF A
<1>6. CASE c.verb = "AUTHCHALLENGE"
    BY <1>2, <1>6 DEF A
<1>7. CASE c.verb = "AUTHENTICATE"
    BY <1>2, <1>4, <1>7 DEF A
<1>8. CASE c.verb = "GETINFO"
    BY <1>2, <1>3, <1>4, <1>8 DEF A
<1>9. CASE c.verb \in {"ADD", "REMOVE"}
    BY <1>2, <1>4, <1>9 DEF A
<1>10. CASE c.verb = "QUIT"
    BY <1>2, <1>4, <1>10 DEF A
<1> QED BY <1>1, <1>5, <1>6, <1>7, <1>8, <1>9, <1>10 DEF Verbs

\* What holds of every line of an answer.
Answer(A, s, c, a, g) ==
    /\ A \in Seq(Lines) /\ Len(A) \in {1, 2} /\ DOMAIN A = 1..Len(A)
    /\ \A i \in DOMAIN A :
          /\ A[i].answers = c.verb
          /\ A[i].final <=> i = Len(A)
          /\ A[i].said = Nothing \/ A[i].said = AuthLine(s) \/ A[i].said = Challenge(s)
             \/ (A[i].said = Version(s) /\ a)
          /\ A[i].final /\ A[i].ok => Grants(s, c, a, g)
          /\ Grants(s, c, a, g) => A[i].ok
    /\ c.verb = "PROTOCOLINFO" => A[1].said = AuthLine(s)
    /\ c.verb = "AUTHCHALLENGE" => A[1].said = Challenge(s)
    /\ c.verb = "GETINFO" /\ a => A[1].said = Version(s)

\* Answers of one line and of two.
LEMMA OneLine ==
    ASSUME NEW l \in Lines
    PROVE  <<l>> \in Seq(Lines) /\ Len(<<l>>) = 1 /\ DOMAIN <<l>> = 1..1 /\ <<l>>[1] = l
OBVIOUS

\* An answer of two lines, as a sequence.
LEMMA LineAndFinal ==
    ASSUME NEW l \in Lines, NEW m \in Lines
    PROVE  /\ <<l, m>> \in Seq(Lines) /\ Len(<<l, m>>) = 2 /\ DOMAIN <<l, m>> = 1..2
           /\ <<l, m>>[1] = l /\ <<l, m>>[2] = m
OBVIOUS

\* What Tor answers to a command, whoever has sent it and whatever it is.
LEMMA AnswerLines ==
    ASSUME NEW s \in Servers, NEW c \in Command, NEW a \in BOOLEAN, NEW g \in BOOLEAN
    PROVE  Answer(TorAnswers(s, c, a, g), s, c, a, g)
<1> DEFINE A == TorAnswers(s, c, a, g)
<1>0. /\ c.verb \in Verbs /\ Nothing \in Sayings /\ AuthLine(s) \in Sayings
      /\ Challenge(s) \in Sayings /\ Version(s) \in Sayings
    BY SayingsWellFormed DEF Command
<1>01. ("SAFECOOKIE" \in s.methods) \in BOOLEAN /\ Accepts(s, c.proof) \in BOOLEAN
    BY DEF Accepts
<1> HIDE DEF A
<1>1. ASSUME NEW ok \in BOOLEAN, NEW said \in {Nothing, Challenge(s)},
             A = <<Line(c.verb, TRUE, ok, said)>>, ok <=> Grants(s, c, a, g),
             c.verb # "PROTOCOLINFO", c.verb = "AUTHCHALLENGE" <=> said = Challenge(s),
             ~(c.verb = "GETINFO" /\ a)
      PROVE  Answer(A, s, c, a, g)
  <2> DEFINE l == Line(c.verb, TRUE, ok, said)
  <2>0. c.verb \in Verbs \cup {"nothing"} /\ said \in Sayings /\ TRUE \in BOOLEAN
    BY <1>0, <1>1
  <2>1. /\ l \in Lines /\ l.answers = c.verb /\ l.final = TRUE /\ l.ok = ok /\ l.said = said
    BY <2>0 DEF Line, Lines
  <2> HIDE DEF l
  <2>2. A \in Seq(Lines) /\ Len(A) = 1 /\ DOMAIN A = 1..1 /\ A[1] = l
    BY <1>1, <2>1, OneLine DEF l
  <2>3. \A i \in DOMAIN A : i = 1 /\ A[i] = l
    BY <2>2
  <2>4. \A i \in DOMAIN A : A[i].final <=> i = Len(A)
    BY <2>1, <2>2, <2>3
  <2>5. \A i \in DOMAIN A : A[i].ok <=> Grants(s, c, a, g)
    BY <1>1, <2>1, <2>3
  <2> QED BY <1>1, <2>1, <2>2, <2>3, <2>4, <2>5 DEF Answer
<1>2. ASSUME NEW said \in {AuthLine(s), Version(s)},
             A = <<Line(c.verb, FALSE, TRUE, said), Line(c.verb, TRUE, TRUE, Nothing)>>,
             Grants(s, c, a, g), c.verb # "AUTHCHALLENGE", said = AuthLine(s) \/ a,
             c.verb = "PROTOCOLINFO" => said = AuthLine(s),
             c.verb = "GETINFO" => said = Version(s)
      PROVE  Answer(A, s, c, a, g)
  <2> DEFINE l == Line(c.verb, FALSE, TRUE, said)
             m == Line(c.verb, TRUE, TRUE, Nothing)
  <2>0. /\ c.verb \in Verbs \cup {"nothing"} /\ said \in Sayings /\ Nothing \in Sayings
        /\ TRUE \in BOOLEAN /\ FALSE \in BOOLEAN
    BY <1>0, <1>2
  <2>1. /\ l \in Lines /\ l.answers = c.verb /\ l.final = FALSE /\ l.ok = TRUE /\ l.said = said
        /\ m \in Lines /\ m.answers = c.verb /\ m.final = TRUE /\ m.ok = TRUE /\ m.said = Nothing
    BY <2>0 DEF Line, Lines
  <2> HIDE DEF l, m
  <2>2. A \in Seq(Lines) /\ Len(A) = 2 /\ DOMAIN A = 1..2 /\ A[1] = l /\ A[2] = m
    BY <1>2, <2>1, LineAndFinal DEF l, m
  <2>3. \A i \in DOMAIN A : (i = 1 /\ A[i] = l) \/ (i = 2 /\ A[i] = m)
    BY <2>2
  <2>4. \A i \in DOMAIN A : A[i].final <=> i = Len(A)
    BY <2>1, <2>2, <2>3
  <2>5. \A i \in DOMAIN A : A[i].ok
    BY <2>1, <2>3
  <2> QED BY <1>2, <2>1, <2>2, <2>3, <2>4, <2>5 DEF Answer
<1>3. Nothing # Challenge(s) /\ AuthLine(s) # Version(s)
    BY Topics
<1>4. CASE c.verb = "PROTOCOLINFO"
    BY <1>4, <1>2, <1>3, AnswersOfTor DEF A, Grants
<1>5. CASE c.verb = "AUTHCHALLENGE"
    BY <1>5, <1>1, <1>01, <1>3, AnswersOfTor DEF A, Grants
<1>6. CASE c.verb = "AUTHENTICATE"
    BY <1>6, <1>1, <1>01, <1>3, AnswersOfTor DEF A, Grants
<1>7. CASE c.verb = "GETINFO"
    BY <1>7, <1>1, <1>2, <1>3, AnswersOfTor DEF A, Grants
<1>8. CASE c.verb \in {"ADD", "REMOVE"}
    BY <1>8, <1>1, <1>3, AnswersOfTor DEF A, Grants
<1>9. CASE c.verb = "QUIT"
    BY <1>9, <1>1, <1>3, AnswersOfTor DEF A, Grants
<1> QED BY <1>0, <1>4, <1>5, <1>6, <1>7, <1>8, <1>9 DEF A, Verbs

---------------------------------------------------------------------------
\* The conversation, when it ends.

\* What the invariant says about where the conversation stands.
LEMMA WhereItStands ==
    ASSUME TalkInv
    PROVE  /\ Here \in Servers
           /\ Len(outbox) \in Nat /\ DOMAIN outbox = 1..Len(outbox)
           /\ outbox = <<>> <=> Len(outbox) = 0
           /\ \A p \in KNOWN_PAIRS : Len(inbox[p]) \in Nat /\ DOMAIN inbox[p] = 1..Len(inbox[p])
           /\ \A p \in KNOWN_PAIRS : inbox[p] = <<>> <=> Len(inbox[p]) = 0
           /\ Here.speaks = "tor" /\ status # "reading" => outbox = <<>>
           /\ Here.speaks = "tor" /\ pc \in Verbs /\ Answered => inbox[pair] = <<>>
<1>1. Here \in Servers
    BY DEF TalkInv, Shape, Here
<1>2. /\ Len(outbox) \in Nat /\ DOMAIN outbox = 1..Len(outbox)
      /\ outbox = <<>> <=> Len(outbox) = 0
    BY LenProperties, EmptySeq DEF TalkInv, Shape
<1>3. \A p \in KNOWN_PAIRS : /\ Len(inbox[p]) \in Nat /\ DOMAIN inbox[p] = 1..Len(inbox[p])
                             /\ inbox[p] = <<>> <=> Len(inbox[p]) = 0
    BY LenProperties, EmptySeq DEF TalkInv, Shape
<1>4. Here.speaks = "tor" /\ status # "reading" => outbox = <<>>
  <2>1. outbox # <<>> => 1 \in DOMAIN outbox
    BY <1>2
  <2> QED
    BY <2>1 DEF TalkInv, RepliesAnswerTheirCommand
<1>5. ASSUME Here.speaks = "tor", pc \in Verbs, Answered, inbox[pair] # <<>>
      PROVE  FALSE
  <2>1. pair \in KNOWN_PAIRS /\ Len(inbox[pair]) \in DOMAIN inbox[pair]
    BY <1>3, <1>5 DEF TalkInv, Shape
  <2>2. inbox[pair][Len(inbox[pair])].live
    BY <1>5 DEF TalkInv, LiveIsThere
  <2> QED
    BY <1>5, <2>1, <2>2 DEF TalkInv, LiveIsLast
<1> QED BY <1>1, <1>2, <1>3, <1>4, <1>5

\* Nothing is said, read or awaited: only the records of the past matter.
LEMMA Calm ==
    ASSUME Shape', Order', OnionsNamed', OkMeansDone', ProofsGoToTheKnowing',
           pc' \notin Verbs, outbox' = <<>>, heard' = {}, status' = "reading",
           session' # "in", \A p \in KNOWN_PAIRS : \A i \in DOMAIN inbox'[p] : ~inbox'[p][i].live
    PROVE  TalkInv'
<1>1. Said' = {} /\ DOMAIN outbox' = {}
    BY DEF Said
<1>2. Silent' /\ LiveIsLast' /\ LiveIsThere'
    BY DEF Silent, LiveIsLast, LiveIsThere
<1>3. QuitAlone' /\ OnlyTor' /\ SaidByTor' /\ FinalIsLast' /\ RepliesAnswerTheirCommand'
    BY <1>1 DEF QuitAlone, OnlyTor, SaidByTor, FinalIsLast, RepliesAnswerTheirCommand, Verbs
<1>4. DoneIsDone'
    BY DEF DoneIsDone, Verbs
<1> QED BY <1>2, <1>3, <1>4 DEF TalkInv

\* Whatever is dropped stays what it was, but nobody listens for its answer.
LEMMA DropForgets ==
    ASSUME TalkInv, Drop, UNCHANGED server
    PROVE  /\ OnionsNamed' /\ ProofsGoToTheKnowing'
           /\ \A p \in KNOWN_PAIRS : \A i \in DOMAIN inbox'[p] : ~inbox'[p][i].live
           /\ inbox' \in [KNOWN_PAIRS -> Seq(Command)]
           /\ outbox' = <<>> /\ outbox' \in Seq(Lines) /\ heard' = {}
           /\ status' = "reading" /\ session' = "closed"
<1>1. Shape
    BY DEF TalkInv
<1>2. OnionsNamed'
    BY <1>1, DropUnhears DEF TalkInv, OnionsNamed
<1>3. ProofsGoToTheKnowing'
    BY <1>1, DropUnhears DEF TalkInv, ProofsGoToTheKnowing
<1>4. \A p \in KNOWN_PAIRS : \A i \in DOMAIN inbox'[p] : ~inbox'[p][i].live
    BY <1>1, DropUnhears DEF TalkInv, LiveIsLast
<1> QED BY <1>1, <1>2, <1>3, <1>4, DropUnhears DEF Drop

\* An operation ends; it ends well only when it has been carried out.
LEMMA EndTalk ==
    ASSUME TalkInv, pc # "idle", NEW ok \in BOOLEAN, End(ok),
           UNCHANGED <<server, registered, ops>>, slow' \in BOOLEAN,
           ok /\ op.kind \in {"ADD", "REMOVE"} => IsDone /\ pc = "QUIT"
    PROVE  TalkInv'
<1>1. Drop /\ pc' = "idle" /\ op' = [kind |-> "none", onion |-> "none"] /\ UNCHANGED <<pair, done>>
      /\ result' = [kind |-> op.kind, onion |-> op.onion, ok |-> ok, pair |-> pair]
    BY DEF End
<1>2. Shape /\ op.kind \in Kinds /\ op.onion \in SomeOnion
    BY DEF TalkInv, Shape
<1>3. Shape'
    BY <1>1, <1>2, DropForgets DEF Shape, Kinds, SomeOnion
<1>4. Order'
    BY <1>1 DEF Order
<1>5. OkMeansDone'
  <2> SUFFICES ASSUME op.kind \in {"ADD", "REMOVE"}, ok
               PROVE  OkMeansDone'
    BY <1>1, <1>2 DEF OkMeansDone, Kinds
  <2>1. IsDone /\ pc = "QUIT" /\ op.onion # "none"
    BY DEF TalkInv, Order
  <2>2. \A i \in DOMAIN inbox[pair] : inbox[pair][i].onion = "none"
    BY <1>2, <2>1 DEF TalkInv, QuitAlone, OnionsNamed, Shape
  <2>3. \A i \in DOMAIN inbox'[pair] : inbox'[pair][i].onion # op.onion
    BY <1>1, <1>2, <2>1, <2>2, DropUnhears
  <2> QED
    BY <1>1, <2>1, <2>3 DEF OkMeansDone, IsDone
<1>6. pc' \notin Verbs /\ session' # "in"
    BY <1>1, DropForgets DEF Verbs
<1> QED BY <1>1, <1>3, <1>4, <1>5, <1>6, DropForgets, Calm

\* The next pair, or the end.
LEMMA GiveUpTalk ==
    ASSUME TalkInv, pc # "idle", GiveUp,
           UNCHANGED <<server, registered, ops>>, slow' \in BOOLEAN
    PROVE  TalkInv'
<1>1. CASE op.kind = "detect" /\ pair < NumPairs
  <2>1. pair' = pair + 1 /\ pc' = "connect" /\ Drop /\ UNCHANGED <<op, result, done>>
    BY <1>1 DEF GiveUp
  <2>2. pair' \in KNOWN_PAIRS
    BY <1>1, <2>1, ControlAssumption DEF TalkInv, Shape, KNOWN_PAIRS
  <2>3. Shape'
    BY <2>1, <2>2, DropForgets DEF TalkInv, Shape
  <2>4. Order' /\ OkMeansDone'
    BY <1>1, <2>1 DEF TalkInv, Order, OkMeansDone
  <2>5. pc' \notin Verbs /\ session' # "in"
    BY <2>1, DropForgets DEF Verbs
  <2> QED BY <2>1, <2>3, <2>4, <2>5, DropForgets, Calm
<1>2. CASE ~(op.kind = "detect" /\ pair < NumPairs)
    BY <1>2, EndTalk DEF GiveUp
<1> QED BY <1>1, <1>2

---------------------------------------------------------------------------
\* The conversation, while it goes on.

\* A command goes out when nothing of the last answer is left.
LEMMA PostTalk ==
    ASSUME TalkInv, pc # "idle",
           NEW verb \in Verbs, NEW proof \in Proof, NEW onion \in SomeOnion,
           Post(verb, proof, onion),
           UNCHANGED <<server, pair, op, registered, result, slow, ops>>,
           done' \in BOOLEAN, session' \in {"new", "in", "closed"}, outbox' \in Seq(Lines),
           \A p \in KNOWN_PAIRS : \A i \in DOMAIN inbox[p] : ~inbox[p][i].live,
           \A i \in DOMAIN outbox' : outbox'[i].said = Nothing,
           Here.speaks = "tor" => outbox' = <<>>,
           verb # "PROTOCOLINFO" => Here.speaks = "tor",
           verb = "GETINFO" => op.kind = "detect",
           verb \notin {"ADD", "REMOVE"} => onion = "none",
           verb \in {"ADD", "REMOVE"} => verb = op.kind /\ onion = op.onion,
           verb = "QUIT" => /\ op.kind \in {"ADD", "REMOVE"} /\ inbox[pair] = <<>>
                            /\ done' => IsDone,
           proof.by = "companion" => proof.cookie = Here.cookie
    PROVE  TalkInv'
<1> DEFINE c == [verb |-> verb, proof |-> proof, onion |-> onion, live |-> TRUE]
<1>1. Shape /\ pair \in KNOWN_PAIRS /\ Here' = Here
    BY DEF TalkInv, Shape, Here
<1>2. /\ pc' = verb /\ status' = "reading" /\ heard' = {}
    BY DEF Post
<1>3. /\ inbox' \in [KNOWN_PAIRS -> Seq(Command)]
      /\ \A p \in KNOWN_PAIRS : p # pair => inbox'[p] = inbox[p]
      /\ Len(inbox[pair]) \in Nat /\ DOMAIN inbox[pair] = 1..Len(inbox[pair])
      /\ Len(inbox'[pair]) = Len(inbox[pair]) + 1
      /\ DOMAIN inbox'[pair] = 1..(Len(inbox[pair]) + 1)
      /\ \A i \in DOMAIN inbox[pair] : inbox'[pair][i] = inbox[pair][i]
      /\ inbox'[pair][Len(inbox[pair]) + 1] = c
    BY <1>1, PostAppends
<1>5. c.verb = verb /\ c.proof = proof /\ c.onion = onion /\ c.live = TRUE
    OBVIOUS
<1> HIDE DEF c
<1>4. ASSUME NEW i \in DOMAIN inbox'[pair]
      PROVE  \/ i = Len(inbox'[pair]) /\ inbox'[pair][i] = c
             \/ i \in DOMAIN inbox[pair] /\ inbox'[pair][i] = inbox[pair][i]
  <2>1. i \in 1..Len(inbox[pair]) \/ i = Len(inbox[pair]) + 1
    BY <1>3
  <2> QED
    BY <1>3, <2>1
<1>6. Said' \subseteq {Nothing}
    BY <1>2 DEF Said
<1>7. Shape'
    BY <1>1, <1>2, <1>3 DEF Shape
<1>8. Order'
    BY <1>1, <1>2 DEF TalkInv, Order, Verbs
<1>9. Silent'
    BY <1>2 DEF Silent
<1>10. LiveIsLast'
  <2>1. Here.speaks = "tor" => ~Answered'
    BY <1>2 DEF Answered
  <2>2. ASSUME NEW p \in KNOWN_PAIRS, NEW i \in DOMAIN inbox'[p], inbox'[p][i].live
        PROVE  p = pair /\ i = Len(inbox'[p]) /\ inbox'[p][i] = c
    BY <1>3, <1>4, <2>2
  <2> QED
    BY <1>1, <1>2, <1>5, <2>1, <2>2 DEF LiveIsLast
<1>11. LiveIsThere'
    BY <1>1, <1>3, <1>5 DEF LiveIsThere
<1>12. OnionsNamed'
  <2> SUFFICES ASSUME NEW p \in KNOWN_PAIRS, NEW i \in DOMAIN inbox'[p]
               PROVE  /\ inbox'[p][i].verb \in {"ADD", "REMOVE"} => inbox'[p][i].onion \in Onions
                      /\ inbox'[p][i].verb \notin {"ADD", "REMOVE"} => inbox'[p][i].onion = "none"
    BY DEF OnionsNamed
  <2>1. CASE i \in DOMAIN inbox[p] /\ inbox'[p][i] = inbox[p][i]
    BY <2>1 DEF TalkInv, OnionsNamed
  <2>2. CASE p = pair /\ inbox'[p][i] = c
    BY <1>5, <2>2 DEF TalkInv, Order
  <2> QED
    BY <1>3, <1>4, <2>1, <2>2
<1>13. QuitAlone'
  <2> SUFFICES ASSUME verb = "QUIT", NEW i \in DOMAIN inbox'[pair]
               PROVE  inbox'[pair][i].verb = "QUIT"
    BY <1>2 DEF QuitAlone
  <2>1. i \notin DOMAIN inbox[pair]
    OBVIOUS
  <2> QED
    BY <1>4, <1>5, <2>1
<1>14. OnlyTor' /\ SaidByTor'
    BY <1>1, <1>2, <1>6, Topics DEF OnlyTor, SaidByTor
<1>15. FinalIsLast' /\ RepliesAnswerTheirCommand'
    BY <1>1 DEF FinalIsLast, RepliesAnswerTheirCommand
<1>16. DoneIsDone'
    BY <1>1, <1>2 DEF DoneIsDone, SaysOk, IsDone
<1>17. OkMeansDone'
    BY DEF TalkInv, Order, OkMeansDone
<1>18. ProofsGoToTheKnowing'
  <2> SUFFICES ASSUME NEW p \in KNOWN_PAIRS, NEW i \in DOMAIN inbox'[p],
                      inbox'[p][i].proof.by = "companion"
               PROVE  inbox'[p][i].proof.cookie = server[p].cookie
    BY DEF ProofsGoToTheKnowing
  <2>1. CASE i \in DOMAIN inbox[p] /\ inbox'[p][i] = inbox[p][i]
    BY <2>1 DEF TalkInv, ProofsGoToTheKnowing
  <2>2. CASE p = pair /\ inbox'[p][i] = c
    BY <1>5, <2>2 DEF Here
  <2> QED
    BY <1>3, <1>4, <2>1, <2>2
<1> QED BY <1>7, <1>8, <1>9, <1>10, <1>11, <1>12, <1>13, <1>14, <1>15, <1>16, <1>17, <1>18
        DEF TalkInv

\* The next command to a Tor, once the last one has been answered.
LEMMA SendTalk ==
    ASSUME TalkInv, pc \in Verbs, Here.speaks = "tor", status # "reading",
           NEW verb \in Verbs, NEW proof \in Proof, NEW onion \in SomeOnion,
           Send(verb, proof, onion), UNCHANGED <<server, registered, slow, ops>>,
           verb = "GETINFO" => op.kind = "detect",
           verb \notin {"ADD", "REMOVE"} => onion = "none",
           verb \in {"ADD", "REMOVE"} => verb = op.kind /\ onion = op.onion,
           verb # "QUIT",
           proof.by = "companion" => proof.cookie = Here.cookie
    PROVE  TalkInv'
<1>1. Shape /\ pc # "idle"
    BY DEF TalkInv, Verbs
<1>2. outbox = <<>> /\ DOMAIN outbox = {}
    BY WhereItStands
<1>3. \A p \in KNOWN_PAIRS : \A i \in DOMAIN inbox[p] : ~inbox[p][i].live
    BY DEF TalkInv, LiveIsLast, Answered
<1>4. Post(verb, proof, onion) /\ UNCHANGED <<op, pair, done, result, outbox, session>>
    BY DEF Send
<1>5. done' \in BOOLEAN /\ session' \in {"new", "in", "closed"} /\ outbox' \in Seq(Lines)
    BY <1>1, <1>4 DEF Shape
<1> QED BY <1>1, <1>2, <1>3, <1>4, <1>5, PostTalk

\* What the companion knows of the port after PROTOCOLINFO: nothing, or what it
\* is, with a cookie file whose path it may have cut short.
LEMMA WhatIsOffered ==
    ASSUME TalkInv
    PROVE  \/ AuthLine(Here) \notin heard /\ Offered = {} /\ CookieFile = "none"
           \/ /\ AuthLine(Here) \in heard /\ Here.speaks = "tor" /\ Offered = Here.methods
              /\ CookieFile \in {"unreadable", Here.file}
              /\ ~Here.spaced \/ Here.file = "none" => CookieFile = Here.file
<1>1. heard \subseteq Said
    BY DEF Said
<1>2. \A said \in AuthLines : said = AuthLine(Here) /\ Here.speaks = "tor"
    BY <1>1, Topics DEF TalkInv, SaidByTor, AuthLines
<1>3. CASE AuthLine(Here) \notin heard
  <2>1. AuthLines = {}
    BY <1>2, <1>3 DEF AuthLines
  <2> QED
    BY <1>3, <2>1 DEF Offered, CookieFile
<1>4. CASE AuthLine(Here) \in heard
  <2>1. AuthLines = {AuthLine(Here)} /\ Here.speaks = "tor"
    BY <1>2, <1>4, Topics DEF AuthLines
  <2>2. /\ AuthLine(Here).methods = Here.methods /\ AuthLine(Here).file = Here.file
        /\ AuthLine(Here).spaced = Here.spaced
    BY DEF AuthLine
  <2>3. Offered = Here.methods
    BY <2>1, <2>2 DEF Offered
  <2>4. CASE Here.file = "none"
    BY <1>4, <2>1, <2>2, <2>3, <2>4 DEF CookieFile
  <2>5. CASE Here.file # "none"
    <3>1. (CHOOSE a \in AuthLines : a.file # "none") = AuthLine(Here)
      BY <2>1, <2>2, <2>5
    <3>2. CookieFile = IF Here.spaced THEN "unreadable" ELSE Here.file
      BY <2>1, <2>2, <2>5, <3>1 DEF CookieFile
    <3>3. Here.spaced \in BOOLEAN
      BY WhereItStands, ControlAssumption
    <3> QED
      BY <1>4, <2>1, <2>3, <2>5, <3>2, <3>3
  <2> QED BY <2>4, <2>5
<1> QED BY <1>3, <1>4

\* The ways Authenticate goes on.
LEMMA AuthenticateCases ==
    ASSUME Authenticate
    PROVE  \/ /\ GiveUp
              /\ "NULL" \notin Offered
              /\ \/ CookieFile \notin Cookies
                 \/ Offered \cap {"SAFECOOKIE", "COOKIE"} = {}
           \/ /\ "NULL" \in Offered
              /\ Send("AUTHENTICATE", Nobody, "none")
           \/ /\ "NULL" \notin Offered /\ "SAFECOOKIE" \in Offered /\ CookieFile \in Cookies
              /\ Send("AUTHCHALLENGE", Nobody, "none")
           \/ /\ "NULL" \notin Offered /\ "COOKIE" \in Offered
              /\ CookieFile \notin {"none", "unreadable"}
              /\ Send("AUTHENTICATE", [by |-> "cookie", cookie |-> CookieFile], "none")
<1>0. "none" \notin Cookies /\ "unreadable" \notin Cookies
    BY ControlAssumption
<1>1. CASE "NULL" \in Offered
    BY <1>1, Zenon DEF Authenticate
<1>2. CASE "NULL" \notin Offered /\ CookieFile # "none" /\ "SAFECOOKIE" \in Offered
  <2>0. Offered \cap {"SAFECOOKIE", "COOKIE"} # {"COOKIE"}
    BY <1>2
  <2>1. CASE CookieFile \in Cookies
    <3>1. Send("AUTHCHALLENGE", Nobody, "none")
      BY <1>2, <2>0, <2>1, Zenon DEF Authenticate
    <3> QED
      BY <1>2, <2>1, <3>1, Zenon
  <2>2. CASE CookieFile \notin Cookies
    <3>1. GiveUp
      BY <1>2, <2>0, <2>2, Zenon DEF Authenticate
    <3> QED
      BY <1>2, <2>2, <3>1, Zenon
  <2> QED
    BY <2>1, <2>2
<1>3. CASE /\ "NULL" \notin Offered /\ CookieFile # "none" /\ "SAFECOOKIE" \notin Offered
           /\ Offered \cap {"SAFECOOKIE", "COOKIE"} = {"COOKIE"}
  <2>1. "COOKIE" \in Offered
    BY <1>3
  <2>2. CASE CookieFile = "unreadable"
    <3>1. GiveUp
      BY <1>3, <2>2, Zenon DEF Authenticate
    <3> QED
      BY <1>0, <1>3, <2>2, <3>1, Zenon
  <2>3. CASE CookieFile # "unreadable"
    <3>1. Send("AUTHENTICATE", [by |-> "cookie", cookie |-> CookieFile], "none")
      BY <1>3, <2>3, Zenon DEF Authenticate
    <3> QED
      BY <1>3, <2>1, <2>3, <3>1, Zenon
  <2> QED
    BY <2>2, <2>3
<1>4. CASE /\ "NULL" \notin Offered
           /\ \/ CookieFile = "none"
              \/ /\ "SAFECOOKIE" \notin Offered
                 /\ Offered \cap {"SAFECOOKIE", "COOKIE"} # {"COOKIE"}
  <2>1. GiveUp
    BY <1>4, Zenon DEF Authenticate
  <2>2. CookieFile = "none" \/ Offered \cap {"SAFECOOKIE", "COOKIE"} = {}
    BY <1>4
  <2> QED
    BY <1>0, <1>4, <2>1, <2>2, Zenon
<1> QED BY <1>1, <1>2, <1>3, <1>4, Zenon

\* The steps of the companion that begin, end or go on with an operation.
LEMMA BeginTalk ==
    ASSUME TalkInv, NEW kind \in {"detect", "ADD", "REMOVE"}, NEW onion \in SomeOnion,
           NEW p \in KNOWN_PAIRS, Begin(kind, onion, p)
    PROVE  TalkInv'
<1>1. /\ pc = "idle" /\ pc' = "connect" /\ op' = [kind |-> kind, onion |-> onion] /\ pair' = p
      /\ result' = [result EXCEPT !.kind = "none"] /\ slow' = FALSE /\ ops' = ops + 1 /\ ops < MaxOps
      /\ UNCHANGED <<server, inbox, outbox, session, registered, status, heard, done>>
    BY DEF Begin, portVars
<1>2. (kind = "detect") = (onion = "none")
    BY DEF Begin
<1>3. /\ outbox = <<>> /\ heard = {} /\ status = "reading" /\ session # "in"
      /\ \A x \in KNOWN_PAIRS : \A i \in DOMAIN inbox[x] : ~inbox[x][i].live
    BY <1>1 DEF TalkInv, Silent, LiveIsLast, Verbs
<1>4. Shape'
  <2>1. result' \in [kind : Kinds, onion : SomeOnion, ok : BOOLEAN, pair : KNOWN_PAIRS]
    BY <1>1 DEF TalkInv, Shape, Kinds
  <2>2. op' \in [kind : Kinds, onion : SomeOnion]
    BY <1>1 DEF Kinds
  <2>3. ops' \in 0..MaxOps
    BY <1>1, ControlAssumption DEF TalkInv, Shape
  <2> QED
    BY <1>1, <2>1, <2>2, <2>3 DEF TalkInv, Shape
<1>5. result'.kind = "none"
    BY <1>1 DEF TalkInv, Shape
<1>6. Order' /\ OkMeansDone'
    BY <1>1, <1>2, <1>5 DEF Order, OkMeansDone, SomeOnion
<1>7. OnionsNamed' /\ ProofsGoToTheKnowing' /\ pc' \notin Verbs
    BY <1>1 DEF TalkInv, OnionsNamed, ProofsGoToTheKnowing, Verbs
<1> QED BY <1>1, <1>3, <1>4, <1>6, <1>7, Calm

\* A connection is silent at first.
LEMMA ConnectTalk ==
    ASSUME TalkInv, Connect
    PROVE  TalkInv'
<1>1. /\ pc = "connect" /\ Post("PROTOCOLINFO", Nobody, "none") /\ session' = "new"
      /\ outbox' = IF Here.speaks = "chatter"
                   THEN <<Line("nothing", TRUE, TRUE, Nothing)>> ELSE <<>>
      /\ UNCHANGED <<server, registered, op, pair, done, result, slow, ops>>
    BY DEF Connect
<1> DEFINE l == Line("nothing", TRUE, TRUE, Nothing)
<1>2. l \in Lines /\ l.said = Nothing
    BY DEF Line, Lines, Sayings
<1>3. outbox' = <<l>> \/ outbox' = <<>>
    BY <1>1
<1> HIDE DEF l
<1>4. outbox' \in Seq(Lines) /\ \A i \in DOMAIN outbox' : outbox'[i].said = Nothing
  <2>1. CASE outbox' = <<l>>
    BY <1>2, <2>1, OneLine
  <2>2. CASE outbox' = <<>>
    BY <2>2
  <2> QED
    BY <1>3, <2>1, <2>2
<1>5. Here.speaks = "tor" => outbox' = <<>>
    BY <1>1
<1>6. /\ \A p \in KNOWN_PAIRS : \A i \in DOMAIN inbox[p] : ~inbox[p][i].live
      /\ done' \in BOOLEAN
    BY <1>1 DEF TalkInv, Shape, LiveIsLast, Verbs
<1>7. "PROTOCOLINFO" \in Verbs /\ "none" \in SomeOnion /\ Nobody \in Proof
      /\ Nobody.by # "companion"
    BY CommandsWellFormed DEF Verbs, SomeOnion, Nobody
<1> QED BY <1>1, <1>4, <1>5, <1>6, <1>7, PostTalk

\* A connection that ends leaves its command behind, to nobody.
LEMMA FailuresTalk ==
    ASSUME TalkInv, Refused \/ ReadFails \/ TimesOut \/ IsRefused
    PROVE  TalkInv'
<1>1. slow \in BOOLEAN /\ done \in BOOLEAN
    BY DEF TalkInv, Shape
<1>2. CASE Refused
    BY <1>1, <1>2, GiveUpTalk DEF Refused
<1>3. CASE ReadFails
  <2>1. CASE pc = "QUIT"
    BY <1>1, <1>3, <2>1, EndTalk DEF ReadFails, TalkInv, DoneIsDone
  <2>2. CASE pc # "QUIT"
    BY <1>3, <2>2, GiveUpTalk DEF ReadFails, Verbs
  <2> QED BY <2>1, <2>2
<1>4. CASE TimesOut
    BY <1>4, GiveUpTalk DEF TimesOut
<1>5. CASE IsRefused
    BY <1>1, <1>5, GiveUpTalk DEF IsRefused
<1> QED BY <1>2, <1>3, <1>4, <1>5

\* The next command is sent once the one before it is answered.
LEMMA ProceedTalk ==
    ASSUME TalkInv, Authenticate \/ Prove \/ Ask \/ CheckVersion
    PROVE  TalkInv'
<1>0. slow \in BOOLEAN /\ op \in [kind : Kinds, onion : SomeOnion]
      /\ "none" \in SomeOnion /\ Here \in Servers
    BY WhereItStands DEF TalkInv, Shape, SomeOnion
<1>1. CASE Authenticate
  <2>1. pc = "PROTOCOLINFO" /\ status = "ok" /\ UNCHANGED <<server, registered, slow, ops>>
    BY <1>1 DEF Authenticate
  <2>2. CASE GiveUp
    BY <1>0, <2>1, <2>2, GiveUpTalk
  <2>3. ASSUME NEW verb \in {"AUTHENTICATE", "AUTHCHALLENGE"}, NEW proof \in Proof,
               Here.speaks = "tor", proof.by # "companion", Send(verb, proof, "none")
        PROVE  TalkInv'
    BY <1>0, <2>1, <2>3, SendTalk DEF Verbs
  <2>4. Nobody \in Proof /\ Nobody.by # "companion"
    BY CommandsWellFormed DEF Nobody
  <2>5. CASE CookieFile # "none" \/ Offered # {}
    <3>1. Here.speaks = "tor" /\ CookieFile \in Files
      BY <1>0, <2>5, WhatIsOffered, ControlAssumption DEF Files
    <3>2. [by |-> "cookie", cookie |-> CookieFile] \in Proof
          /\ [by |-> "cookie", cookie |-> CookieFile].by # "companion"
      BY <3>1, CommandsWellFormed
    <3> QED
      BY <1>1, <2>2, <2>3, <2>4, <3>1, <3>2, AuthenticateCases
  <2>6. CASE CookieFile = "none" /\ Offered = {}
    BY <1>1, <2>2, <2>6, AuthenticateCases
  <2> QED BY <2>5, <2>6
<1>2. CASE Prove
  <2>1. pc = "AUTHCHALLENGE" /\ status = "ok" /\ UNCHANGED <<server, registered, slow, ops>>
    BY <1>2 DEF Prove
  <2>2. CASE \E said \in heard : said.topic = "challenge"
                                 /\ said.proof = [by |-> "tor", cookie |-> Here.file]
    <3> DEFINE proof == [by |-> "companion", cookie |-> Here.file]
    <3>1. Send("AUTHENTICATE", proof, "none")
      BY <1>2, <2>2 DEF Prove
    <3>2. Here.speaks = "tor" /\ Here.file = Here.cookie
      <4>1. PICK said \in heard : /\ said.topic = "challenge"
                                  /\ said.proof = [by |-> "tor", cookie |-> Here.file]
        BY <2>2
      <4>2. said \in Said
        BY DEF Said
      <4>3. Here.speaks = "tor" /\ said = Challenge(Here)
        BY <4>1, <4>2 DEF TalkInv, SaidByTor
      <4> QED
        BY <4>1, <4>3 DEF Challenge
    <3>3. proof \in Proof /\ proof.cookie = Here.cookie
      BY <1>0, <3>2, CommandsWellFormed
    <3> HIDE DEF proof
    <3> QED
      BY <1>0, <2>1, <3>1, <3>2, <3>3, SendTalk DEF Verbs
  <2>3. CASE ~\E said \in heard : said.topic = "challenge"
                                  /\ said.proof = [by |-> "tor", cookie |-> Here.file]
    BY <1>0, <1>2, <2>1, <2>3, GiveUpTalk DEF Prove
  <2> QED BY <2>2, <2>3
<1>3. CASE Ask
  <2>1. pc = "AUTHENTICATE" /\ status = "ok" /\ UNCHANGED <<server, registered, slow, ops>>
        /\ Nobody \in Proof /\ Nobody.by # "companion"
    BY <1>3, CommandsWellFormed DEF Ask, Nobody
  <2>2. Here.speaks = "tor" /\ op.kind # "none"
    BY <2>1 DEF TalkInv, OnlyTor, Order, Verbs
  <2>3. CASE op.kind = "detect"
    BY <1>0, <1>3, <2>1, <2>2, <2>3, SendTalk DEF Ask, Verbs
  <2>4. CASE op.kind # "detect"
    <3>1. op.kind \in {"ADD", "REMOVE"} /\ Send(op.kind, Nobody, op.onion)
      BY <1>0, <1>3, <2>2, <2>4 DEF Ask, Kinds
    <3> QED
      BY <1>0, <2>1, <2>2, <3>1, SendTalk DEF Verbs
  <2> QED BY <2>3, <2>4
<1>4. CASE CheckVersion
  <2>1. /\ pc = "GETINFO" /\ UNCHANGED <<server, registered, slow, ops>>
        /\ End(TRUE) \/ GiveUp
    BY <1>4 DEF CheckVersion
  <2>2. op.kind \notin {"ADD", "REMOVE"}
    BY <2>1 DEF TalkInv, Order
  <2>3. CASE GiveUp
    BY <1>0, <2>1, <2>3, GiveUpTalk
  <2>4. CASE End(TRUE)
    BY <1>0, <2>1, <2>2, <2>4, EndTalk
  <2> QED BY <2>1, <2>3, <2>4
<1> QED BY <1>1, <1>2, <1>3, <1>4

\* An operation ends with QUIT, and is reported after its answer.
LEMMA FarewellTalk ==
    ASSUME TalkInv, Leave \/ Report
    PROVE  TalkInv'
<1>0. Shape
    BY DEF TalkInv
<1>1. CASE Leave
  <2>1. /\ pc \in {"ADD", "REMOVE"} /\ status # "reading" /\ done' = (status = "ok")
        /\ Post("QUIT", Nobody, "none")
        /\ UNCHANGED <<server, registered, slow, ops, op, pair, result, outbox, session>>
    BY <1>1 DEF Leave
  <2>2. Here.speaks = "tor" /\ op.kind \in {"ADD", "REMOVE"} /\ pc # "idle"
    BY <2>1 DEF TalkInv, OnlyTor, Order, Verbs
  <2>3. outbox = <<>> /\ DOMAIN outbox = {} /\ inbox[pair] = <<>>
    BY <2>1, <2>2, WhereItStands DEF Answered, Verbs
  <2>4. \A p \in KNOWN_PAIRS : \A i \in DOMAIN inbox[p] : ~inbox[p][i].live
    BY <2>1, <2>2 DEF TalkInv, LiveIsLast, Answered
  <2>5. done' => IsDone
    BY <2>1 DEF TalkInv, DoneIsDone, SaysOk
  <2>6. /\ "QUIT" \in Verbs /\ Nobody \in Proof /\ Nobody.by # "companion" /\ "none" \in SomeOnion
        /\ done' \in BOOLEAN /\ session' \in {"new", "in", "closed"} /\ outbox' \in Seq(Lines)
    BY <1>0, <2>1, CommandsWellFormed DEF Verbs, Nobody, SomeOnion, Shape
  <2> QED
    BY <2>1, <2>2, <2>3, <2>4, <2>5, <2>6, PostTalk
<1>2. CASE Report
  <2>1. pc = "QUIT" /\ End(done) /\ UNCHANGED <<server, registered, slow, ops>>
    BY <1>2 DEF Report
  <2>2. done => IsDone
    BY <2>1 DEF TalkInv, DoneIsDone
  <2>3. done \in BOOLEAN /\ slow' \in BOOLEAN
    BY <1>0, <2>1 DEF Shape
  <2> QED
    BY <2>1, <2>2, <2>3, EndTalk
<1> QED BY <1>1, <1>2

---------------------------------------------------------------------------
\* The lines that are read, and the commands that are carried out.

\* Reading takes the first line.
LEMMA HearTakes ==
    ASSUME TalkInv, Hear
    PROVE  /\ Head(outbox) \in Lines /\ Head(outbox) = outbox[1] /\ 1 \in DOMAIN outbox
           /\ outbox' \in Seq(Lines) /\ Len(outbox') = Len(outbox) - 1
           /\ DOMAIN outbox' = 1..Len(outbox')
           /\ \A i \in DOMAIN outbox' : i + 1 \in DOMAIN outbox /\ outbox'[i] = outbox[i + 1]
           /\ Said' = Said
           /\ heard' = heard \cup {Head(outbox).said}
           /\ status' = IF ~Head(outbox).final THEN "reading"
                        ELSE IF Head(outbox).ok THEN "ok" ELSE "refused"
           /\ pc \in Verbs /\ status = "reading" /\ outbox # <<>>
           /\ UNCHANGED <<server, op, pair, pc, done, result, slow, ops, inbox, session, registered>>
<1>1. /\ pc \in Verbs /\ status = "reading" /\ outbox # <<>> /\ outbox' = Tail(outbox)
      /\ heard' = heard \cup {Head(outbox).said}
      /\ UNCHANGED <<server, op, pair, pc, done, result, slow, ops, inbox, session, registered>>
    BY DEF Hear
<1>2. outbox \in Seq(Lines)
    BY DEF TalkInv, Shape
<1>3. /\ Head(outbox) \in Lines /\ outbox' \in Seq(Lines) /\ Len(outbox') = Len(outbox) - 1
      /\ \A i \in 1..Len(outbox') : outbox'[i] = outbox[i + 1]
    BY <1>1, <1>2, HeadTailProperties
<1>4. /\ DOMAIN outbox' = 1..Len(outbox') /\ DOMAIN outbox = 1..Len(outbox)
      /\ Len(outbox) \in Nat \ {0}
    BY <1>1, <1>2, <1>3, LenProperties, EmptySeq
<1>5. Head(outbox) = outbox[1] /\ 1 \in DOMAIN outbox
    BY <1>1, <1>2, <1>4
<1>6. \A i \in DOMAIN outbox' : i + 1 \in DOMAIN outbox /\ outbox'[i] = outbox[i + 1]
    BY <1>3, <1>4
<1>7. \A i \in DOMAIN outbox : i = 1 \/ (i - 1 \in DOMAIN outbox' /\ outbox[i] = outbox'[i - 1])
    BY <1>3, <1>4
<1>8. Said' = Said
    BY <1>1, <1>5, <1>6, <1>7 DEF Said
<1>9. status' = IF ~Head(outbox).final THEN "reading"
                ELSE IF Head(outbox).ok THEN "ok" ELSE "refused"
  <2>1. CASE ~Head(outbox).final
    <3>1. status' = "reading"
      BY <2>1, Zenon DEF Hear
    <3> QED BY <2>1, <3>1
  <2>2. CASE Head(outbox).final /\ Head(outbox).ok
    <3>1. status' = "ok"
      BY <2>2, Zenon DEF Hear
    <3> QED BY <2>2, <3>1
  <2>3. CASE Head(outbox).final /\ ~Head(outbox).ok
    <3>1. status' = "refused"
      BY <2>3, Zenon DEF Hear
    <3> QED BY <2>3, <3>1
  <2> QED BY <2>1, <2>2, <2>3
<1> QED BY <1>1, <1>3, <1>4, <1>5, <1>6, <1>8, <1>9

\* One more line of the answer is read.
LEMMA HearTalk ==
    ASSUME TalkInv, Hear
    PROVE  TalkInv'
<1> DEFINE first == Head(outbox)
<1>1. /\ first \in Lines /\ first = outbox[1] /\ 1 \in DOMAIN outbox
      /\ outbox' \in Seq(Lines) /\ Len(outbox') = Len(outbox) - 1
      /\ DOMAIN outbox' = 1..Len(outbox')
      /\ \A i \in DOMAIN outbox' : i + 1 \in DOMAIN outbox /\ outbox'[i] = outbox[i + 1]
      /\ Said' = Said /\ heard' = heard \cup {first.said}
      /\ status' = IF ~first.final THEN "reading" ELSE IF first.ok THEN "ok" ELSE "refused"
      /\ pc \in Verbs /\ status = "reading" /\ outbox # <<>>
      /\ UNCHANGED <<server, op, pair, pc, done, result, slow, ops, inbox, session, registered>>
    BY HearTakes
<1> HIDE DEF first
<1>2. Shape /\ Here' = Here /\ Len(outbox) \in Nat /\ DOMAIN outbox = 1..Len(outbox)
      /\ pair \in KNOWN_PAIRS
    BY <1>1, WhereItStands DEF TalkInv, Shape, Here
<1>3. Here.speaks = "tor" => inbox[pair] = <<>> /\ DOMAIN inbox[pair] = {}
    BY <1>1, WhereItStands DEF Answered
<1>4. Shape'
    BY <1>1, <1>2 DEF Shape, Lines
<1>5. Order' /\ Silent' /\ OnionsNamed' /\ QuitAlone' /\ OnlyTor' /\ ProofsGoToTheKnowing'
      /\ OkMeansDone'
    BY <1>1, <1>2 DEF TalkInv, Order, Silent, OnionsNamed, QuitAlone, OnlyTor,
                      ProofsGoToTheKnowing, OkMeansDone
<1>6. LiveIsLast'
    BY <1>1, <1>2, <1>3 DEF TalkInv, LiveIsLast
<1>7. LiveIsThere'
    BY <1>1, <1>2, <1>3 DEF LiveIsThere
<1>8. SaidByTor'
    BY <1>1, <1>2 DEF TalkInv, SaidByTor
<1>9. FinalIsLast'
    BY <1>1, <1>2 DEF TalkInv, FinalIsLast
<1>10. RepliesAnswerTheirCommand'
  <2> SUFFICES ASSUME Here.speaks = "tor", NEW i \in DOMAIN outbox'
               PROVE  status' = "reading" /\ outbox'[i].answers = pc
    BY <1>1, <1>2 DEF RepliesAnswerTheirCommand
  <2>1. 1 # Len(outbox)
    BY <1>1, <1>2
  <2>2. ~first.final
    BY <1>1, <2>1 DEF TalkInv, FinalIsLast
  <2> QED
    BY <1>1, <2>2 DEF TalkInv, RepliesAnswerTheirCommand
<1>11. SaysOk' => SaysOk
    BY <1>1 DEF SaysOk
<1>12. DoneIsDone'
    BY <1>1, <1>11 DEF TalkInv, DoneIsDone, IsDone
<1> QED BY <1>4, <1>5, <1>6, <1>7, <1>8, <1>9, <1>10, <1>12 DEF TalkInv

\* A listener that is no Tor sends lines as it likes.
LEMMA DribbleTalk ==
    ASSUME TalkInv, Dribble
    PROVE  TalkInv'
<1> DEFINE l == Line("nothing", FALSE, TRUE, Nothing)
<1>1. /\ pc \in Verbs /\ Here.speaks = "web" /\ outbox = <<>> /\ outbox' = <<l>>
      /\ UNCHANGED <<server, clientVars, inbox, session, registered>>
    BY DEF Dribble
<1>2. l \in Lines /\ l.said = Nothing /\ ~l.final
    BY DEF Line, Lines, Sayings
<1> HIDE DEF l
<1>3. outbox' \in Seq(Lines) /\ DOMAIN outbox' = 1..1 /\ outbox'[1] = l
    BY <1>1, <1>2, OneLine
<1>4. Shape' /\ Here' = Here
    BY <1>1, <1>3 DEF TalkInv, Shape, Here, clientVars
<1>5. Said' \subseteq Said \cup {Nothing}
    BY <1>1, <1>2, <1>3 DEF Said, clientVars
<1>6. Order' /\ Silent' /\ OnionsNamed' /\ QuitAlone' /\ OnlyTor' /\ ProofsGoToTheKnowing'
      /\ OkMeansDone'
    BY <1>1, <1>4 DEF TalkInv, Order, Silent, OnionsNamed, QuitAlone, OnlyTor,
                      ProofsGoToTheKnowing, OkMeansDone, clientVars
<1>7. LiveIsLast' /\ LiveIsThere'
    BY <1>1, <1>4 DEF TalkInv, LiveIsLast, LiveIsThere, clientVars
<1>8. SaidByTor'
    BY <1>1, <1>4, <1>5, Topics DEF TalkInv, SaidByTor, clientVars
<1>9. FinalIsLast' /\ RepliesAnswerTheirCommand'
    BY <1>1, <1>4 DEF FinalIsLast, RepliesAnswerTheirCommand
<1>10. SaysOk' => SaysOk
    BY <1>1, <1>2, <1>3 DEF SaysOk, clientVars
<1>11. DoneIsDone'
    BY <1>1, <1>10 DEF TalkInv, DoneIsDone, IsDone, clientVars
<1> QED BY <1>4, <1>6, <1>7, <1>8, <1>9, <1>11 DEF TalkInv

\* What a command does when it is carried out: it changes what the port holds
\* about its own onion, and its answer goes to whoever listens.
LEMMA ServeEffects ==
    ASSUME TalkInv, NEW p \in KNOWN_PAIRS, Serve(p)
    PROVE  LET c == Head(inbox[p])
               s == server[p]
               a == ~c.live \/ session = "in"
           IN  \E granted \in BOOLEAN :
                 /\ registered' \in [KNOWN_PAIRS -> SUBSET Onions]
                 /\ \A x \in KNOWN_PAIRS : x # p => registered'[x] = registered[x]
                 /\ \A o : o # c.onion \/ c.verb \notin {"ADD", "REMOVE"} =>
                             (o \in registered'[p] <=> o \in registered[p])
                 /\ s.speaks = "tor" /\ granted /\ a /\ c.verb \in {"ADD", "REMOVE"} =>
                             ((c.verb = "ADD") = (c.onion \in registered'[p]))
                 /\ session' = IF c.live /\ c.verb = "AUTHENTICATE" /\ s.speaks = "tor"
                                  /\ Accepts(s, c.proof)
                               THEN "in" ELSE session
                 /\ ~c.live => outbox' = outbox
                 /\ c.live /\ s.speaks = "tor" => outbox' = outbox \o TorAnswers(s, c, a, granted)
                 /\ c.live /\ s.speaks = "chatter" => outbox' = outbox \o Final(c, FALSE)
                 /\ c.live /\ s.speaks \notin {"tor", "chatter"} => outbox' = outbox
<1> DEFINE c == Head(inbox[p])
           s == server[p]
           a == ~c.live \/ session = "in"
<1>1. PICK granted \in IF c.verb \in {"ADD", "REMOVE"} THEN BOOLEAN ELSE {TRUE} :
         /\ registered' = [registered EXCEPT ![p] =
               CASE s.speaks = "tor" /\ a /\ granted /\ c.verb = "ADD" -> registered[p] \cup {c.onion}
                 [] s.speaks = "tor" /\ a /\ granted /\ c.verb = "REMOVE" -> registered[p] \ {c.onion}
                 [] OTHER -> registered[p]]
         /\ session' = IF c.live /\ c.verb = "AUTHENTICATE" /\ s.speaks = "tor"
                          /\ Accepts(s, c.proof)
                       THEN "in" ELSE session
         /\ outbox' = CASE c.live /\ s.speaks = "tor" -> outbox \o TorAnswers(s, c, a, granted)
                        [] c.live /\ s.speaks = "chatter" -> outbox \o Final(c, FALSE)
                        [] OTHER -> outbox
    BY Zenon DEF Serve
<1>2. granted \in BOOLEAN /\ c \in Command /\ registered \in [KNOWN_PAIRS -> SUBSET Onions]
    BY <1>1, ServeTakes DEF TalkInv, Shape
<1> DEFINE V == CASE s.speaks = "tor" /\ a /\ granted /\ c.verb = "ADD" -> registered[p] \cup {c.onion}
                  [] s.speaks = "tor" /\ a /\ granted /\ c.verb = "REMOVE" -> registered[p] \ {c.onion}
                  [] OTHER -> registered[p]
<1>3. registered' = [registered EXCEPT ![p] = V]
    BY <1>1
<1> HIDE DEF c, s, a
<1>4. (s.speaks = "tor" /\ a /\ granted /\ c.verb = "ADD") => V = registered[p] \cup {c.onion}
    BY Zenon
<1>5. (s.speaks = "tor" /\ a /\ granted /\ c.verb = "REMOVE") => V = registered[p] \ {c.onion}
    BY Zenon
<1>6. ~(s.speaks = "tor" /\ a /\ granted /\ c.verb \in {"ADD", "REMOVE"}) => V = registered[p]
    BY Zenon
<1>7. ~c.live => outbox' = outbox
    BY <1>1, Zenon
<1>8. c.live /\ s.speaks = "tor" => outbox' = outbox \o TorAnswers(s, c, a, granted)
    BY <1>1, Zenon
<1>9. c.live /\ s.speaks = "chatter" => outbox' = outbox \o Final(c, FALSE)
    BY <1>1, Zenon
<1>10. c.live /\ s.speaks \notin {"tor", "chatter"} => outbox' = outbox
    BY <1>1, Zenon
<1> HIDE DEF V
<1>11. c.verb \in {"ADD", "REMOVE"} => c.onion \in Onions
    BY ServeTakes DEF TalkInv, Shape, OnionsNamed, c
<1>12. V \in SUBSET Onions
    BY <1>2, <1>4, <1>5, <1>6, <1>11
<1>13. /\ registered' \in [KNOWN_PAIRS -> SUBSET Onions]
       /\ \A x \in KNOWN_PAIRS : x # p => registered'[x] = registered[x]
       /\ registered'[p] = V
    BY <1>2, <1>3, <1>12
<1>14. \A o : o # c.onion \/ c.verb \notin {"ADD", "REMOVE"} =>
                 (o \in V <=> o \in registered[p])
    BY <1>4, <1>5, <1>6
<1>15. s.speaks = "tor" /\ granted /\ a /\ c.verb \in {"ADD", "REMOVE"} =>
          ((c.verb = "ADD") = (c.onion \in V))
    BY <1>4, <1>5
<1> QED BY <1>1, <1>2, <1>7, <1>8, <1>9, <1>10, <1>13, <1>14, <1>15 DEF c, s, a

\* A Tor takes its commands in the order they came, of ended connections too.
LEMMA ServeTalk ==
    ASSUME TalkInv, NEW p \in KNOWN_PAIRS, Serve(p)
    PROVE  TalkInv'
<1> DEFINE c == Head(inbox[p])
           s == server[p]
           a == ~c.live \/ session = "in"
<1>1. PICK granted \in BOOLEAN :
         /\ registered' \in [KNOWN_PAIRS -> SUBSET Onions]
         /\ \A x \in KNOWN_PAIRS : x # p => registered'[x] = registered[x]
         /\ \A o : o # c.onion \/ c.verb \notin {"ADD", "REMOVE"} =>
                     (o \in registered'[p] <=> o \in registered[p])
         /\ s.speaks = "tor" /\ granted /\ a /\ c.verb \in {"ADD", "REMOVE"} =>
               ((c.verb = "ADD") = (c.onion \in registered'[p]))
         /\ session' = IF c.live /\ c.verb = "AUTHENTICATE" /\ s.speaks = "tor"
                          /\ Accepts(s, c.proof)
                       THEN "in" ELSE session
         /\ ~c.live => outbox' = outbox
         /\ c.live /\ s.speaks = "tor" => outbox' = outbox \o TorAnswers(s, c, a, granted)
         /\ c.live /\ s.speaks = "chatter" => outbox' = outbox \o Final(c, FALSE)
         /\ c.live /\ s.speaks \notin {"tor", "chatter"} => outbox' = outbox
    BY ServeEffects
<1>2. /\ c \in Command /\ c = inbox[p][1]
      /\ Len(inbox[p]) \in Nat \ {0} /\ DOMAIN inbox[p] = 1..Len(inbox[p])
      /\ inbox' \in [KNOWN_PAIRS -> Seq(Command)]
      /\ \A x \in KNOWN_PAIRS : x # p => inbox'[x] = inbox[x]
      /\ Len(inbox'[p]) = Len(inbox[p]) - 1
      /\ DOMAIN inbox'[p] = 1..(Len(inbox[p]) - 1)
      /\ \A i \in DOMAIN inbox'[p] : i + 1 \in DOMAIN inbox[p] /\ inbox'[p][i] = inbox[p][i + 1]
      /\ inbox'[p] = <<>> <=> Len(inbox[p]) = 1
    BY ServeTakes DEF TalkInv, Shape
<1>3. UNCHANGED <<server, op, pair, pc, status, heard, done, result, slow, ops>>
    BY DEF Serve, clientVars
<1>4. a \in BOOLEAN
    OBVIOUS
<1> HIDE DEF c, s, a
<1>5. Shape /\ Here' = Here /\ pair \in KNOWN_PAIRS /\ s \in Servers
    BY <1>3 DEF TalkInv, Shape, Here, s
<1>6. c.live => /\ p = pair /\ Len(inbox[p]) = 1 /\ pc \in Verbs /\ c.verb = pc /\ s = Here
                /\ pc \in {"ADD", "REMOVE"} => c.onion = op.onion
                /\ Here.speaks = "tor" => ~Answered
    BY <1>2 DEF TalkInv, LiveIsLast, s, Here
<1>7. 1 \in DOMAIN inbox[p]
    BY <1>2
\* What is left was there before.
<1>8. \A x \in KNOWN_PAIRS : \A i \in DOMAIN inbox'[x] :
         \E j \in DOMAIN inbox[x] : inbox'[x][i] = inbox[x][j] /\ (j = Len(inbox[x]) => i = Len(inbox'[x]))
  <2> SUFFICES ASSUME NEW x \in KNOWN_PAIRS, NEW i \in DOMAIN inbox'[x]
               PROVE  \E j \in DOMAIN inbox[x] :
                         inbox'[x][i] = inbox[x][j] /\ (j = Len(inbox[x]) => i = Len(inbox'[x]))
    OBVIOUS
  <2>1. CASE x = p
    <3>1. i + 1 \in DOMAIN inbox[p] /\ inbox'[p][i] = inbox[p][i + 1]
          /\ (i + 1 = Len(inbox[p]) => i = Len(inbox'[p]))
      BY <1>2, <2>1
    <3> QED
      BY <2>1, <3>1
  <2>2. CASE x # p
    BY <1>2, <2>2
  <2> QED BY <2>1, <2>2
<1>9. Order' /\ OnionsNamed' /\ QuitAlone' /\ OnlyTor' /\ ProofsGoToTheKnowing'
  <2>1. Order' /\ OnlyTor'
    BY <1>3, <1>5 DEF TalkInv, Order, OnlyTor
  <2>2. OnionsNamed' /\ QuitAlone'
    BY <1>3, <1>5, <1>8 DEF TalkInv, OnionsNamed, QuitAlone
  <2>3. ProofsGoToTheKnowing'
    BY <1>3, <1>8 DEF TalkInv, ProofsGoToTheKnowing
  <2> QED BY <2>1, <2>2, <2>3
<1>10. OkMeansDone'
  <2> SUFFICES ASSUME result.kind \in {"ADD", "REMOVE"}, result.ok
               PROVE  /\ (result.kind = "ADD") = (result.onion \in registered'[result.pair])
                      /\ \A i \in DOMAIN inbox'[result.pair] :
                            inbox'[result.pair][i].onion # result.onion
    BY <1>3 DEF OkMeansDone
  <2>1. /\ (result.kind = "ADD") = (result.onion \in registered[result.pair])
        /\ \A i \in DOMAIN inbox[result.pair] : inbox[result.pair][i].onion # result.onion
        /\ result.pair \in KNOWN_PAIRS
    BY <1>5 DEF TalkInv, OkMeansDone, Shape
  <2>2. result.onion \in registered'[result.pair] <=> result.onion \in registered[result.pair]
    BY <1>1, <1>2, <1>7, <2>1
  <2> QED
    BY <1>8, <2>1, <2>2
<1>11. CASE ~c.live
  <2>1. outbox' = outbox /\ session' = session
    BY <1>1, <1>11
  <2>2. Shape' /\ Silent' /\ SaidByTor' /\ FinalIsLast' /\ RepliesAnswerTheirCommand'
    <3>1. Shape'
      BY <1>1, <1>2, <1>3, <1>5, <2>1 DEF Shape
    <3>2. Silent' /\ FinalIsLast' /\ RepliesAnswerTheirCommand'
      BY <1>3, <1>5, <2>1 DEF TalkInv, Silent, FinalIsLast, RepliesAnswerTheirCommand
    <3>3. SaidByTor'
      BY <1>3, <1>5, <2>1 DEF TalkInv, SaidByTor, Said
    <3> QED BY <3>1, <3>2, <3>3
  <2>3. LiveIsLast'
    <3> SUFFICES ASSUME NEW x \in KNOWN_PAIRS, NEW i \in DOMAIN inbox'[x], inbox'[x][i].live
                 PROVE  /\ x = pair /\ i = Len(inbox'[x])
                        /\ pc \in Verbs /\ inbox'[x][i].verb = pc
                        /\ pc \in {"ADD", "REMOVE"} => inbox'[x][i].onion = op.onion
                        /\ Here.speaks = "tor" => ~Answered'
      BY <1>3, <1>5 DEF LiveIsLast
    <3>1. PICK j \in DOMAIN inbox[x] :
             inbox'[x][i] = inbox[x][j] /\ (j = Len(inbox[x]) => i = Len(inbox'[x]))
      BY <1>8
    <3> QED
      BY <1>3, <2>1, <3>1 DEF TalkInv, LiveIsLast, Answered
  <2>4. LiveIsThere'
    <3> SUFFICES ASSUME pc \in Verbs, Here.speaks = "tor", inbox'[pair] # <<>>
                 PROVE  inbox'[pair][Len(inbox'[pair])].live
      BY <1>3, <1>5 DEF LiveIsThere
    <3>1. CASE pair # p
      BY <1>2, <1>5, <3>1 DEF TalkInv, LiveIsThere
    <3>2. CASE pair = p
      <4>1. inbox[p] # <<>> /\ Len(inbox[p]) # 1
        BY <1>2, <1>7, <3>2
      <4>2. inbox[p][Len(inbox[p])].live
        BY <3>2, <4>1 DEF TalkInv, LiveIsThere
      <4>3. Len(inbox'[p]) \in DOMAIN inbox'[p] /\ Len(inbox'[p]) + 1 = Len(inbox[p])
        BY <1>2, <4>1
      <4> QED
        BY <1>2, <3>2, <4>2, <4>3
    <3> QED BY <3>1, <3>2
  <2>5. DoneIsDone'
    <3>1. SaysOk' <=> SaysOk
      BY <1>3, <2>1 DEF SaysOk
    <3>2. CASE p # pair
      BY <1>1, <1>3, <1>5, <3>1, <3>2 DEF TalkInv, DoneIsDone, IsDone
    <3>3. CASE p = pair
      <4>1. ~(pc \in {"ADD", "REMOVE"} /\ SaysOk)
        <5> SUFFICES ASSUME pc \in {"ADD", "REMOVE"}, SaysOk PROVE FALSE
          OBVIOUS
        <5>1. Here.speaks = "tor" /\ pc \in Verbs
          BY DEF TalkInv, OnlyTor, Verbs
        <5>2. Answered
          BY WhereItStands DEF SaysOk, Answered
        <5> QED
          BY <1>2, <1>7, <3>3, <5>1, <5>2, WhereItStands
      <4>2. pc = "QUIT" => c.verb = "QUIT"
        BY <1>2, <1>7, <3>3 DEF TalkInv, QuitAlone
      <4>3. pc = "QUIT" => (op.onion \in registered'[pair] <=> op.onion \in registered[pair])
        BY <1>1, <3>3, <4>2
      <4> QED
        BY <1>3, <3>1, <4>1, <4>3 DEF TalkInv, DoneIsDone, IsDone
    <3> QED BY <3>2, <3>3
  <2> QED
    BY <1>9, <1>10, <2>2, <2>3, <2>4, <2>5 DEF TalkInv
<1>12. CASE c.live
  <2>1. /\ p = pair /\ Len(inbox[p]) = 1 /\ pc \in Verbs /\ c.verb = pc /\ s = Here
        /\ inbox'[pair] = <<>> /\ DOMAIN inbox'[pair] = {}
        /\ pc \in {"ADD", "REMOVE"} => c.onion = op.onion
        /\ Here.speaks = "tor" => ~Answered
    BY <1>2, <1>6, <1>12
  <2>2. \A x \in KNOWN_PAIRS : \A i \in DOMAIN inbox'[x] : ~inbox'[x][i].live
    BY <1>2, <1>3, <2>1 DEF TalkInv, LiveIsLast
  <2>3. LiveIsLast' /\ LiveIsThere'
    BY <1>3, <2>1, <2>2 DEF LiveIsLast, LiveIsThere
  <2>4. session' \in {"new", "in", "closed"} /\ (session = "in" => session' = "in")
    BY <1>1, <1>5 DEF Shape
  <2>5. Silent'
    BY <1>3, <2>1 DEF Silent
  <2>6. CASE Here.speaks = "tor"
    <3> DEFINE A == TorAnswers(s, c, a, granted)
    <3>1. Answer(A, s, c, a, granted)
      BY <1>2, <1>4, <1>5, AnswerLines
    <3>2. outbox = <<>> /\ status = "reading"
      BY <2>1, <2>6 DEF Answered
    <3>3. outbox' = outbox \o A
      BY <1>1, <1>12, <2>1, <2>6
    <3> HIDE DEF A
    <3>4. A \in Seq(Lines)
      BY <3>1 DEF Answer
    <3>5. outbox' = A
      BY <3>2, <3>3, <3>4, ConcatEmptySeq
    <3>6. Shape'
      BY <1>1, <1>2, <1>3, <1>5, <2>4, <3>4, <3>5 DEF Shape
    <3>7. SaidByTor'
      <4> SUFFICES ASSUME NEW said \in Said'
                   PROVE  /\ said.topic = "auth" => said = AuthLine(Here)
                          /\ said.topic = "challenge" => said = Challenge(Here)
                          /\ said.topic = "version" => said = Version(Here) /\ session' = "in"
        BY <1>3, <1>5, <2>6 DEF SaidByTor
      <4>1. CASE said \in heard
        BY <2>4, <4>1 DEF TalkInv, SaidByTor, Said
      <4>2. CASE said \notin heard
        <5>1. PICK i \in DOMAIN A : said = A[i].said
          BY <1>3, <3>5, <4>2 DEF Said
        <5>2. \/ said = Nothing \/ said = AuthLine(s) \/ said = Challenge(s)
              \/ (said = Version(s) /\ a)
          BY <3>1, <5>1 DEF Answer
        <5>3. a => session' = "in"
          BY <1>12, <2>4 DEF a
        <5> QED
          BY <2>1, <5>2, <5>3, Topics
      <4> QED BY <4>1, <4>2
    <3>8. FinalIsLast' /\ RepliesAnswerTheirCommand'
      BY <1>3, <1>5, <2>1, <3>1, <3>2, <3>5 DEF FinalIsLast, RepliesAnswerTheirCommand, Answer
    <3>9. DoneIsDone'
      <4>1. ASSUME pc \in {"ADD", "REMOVE"}, SaysOk'
            PROVE  IsDone'
        <5>1. PICK i \in DOMAIN A : A[i].final /\ A[i].ok
          BY <1>3, <3>2, <3>5, <4>1 DEF SaysOk
        <5>2. Grants(s, c, a, granted)
          BY <3>1, <5>1 DEF Answer
        <5>3. a /\ granted
          BY <2>1, <4>1, <5>2 DEF Grants
        <5>4. (c.verb = "ADD") = (c.onion \in registered'[p])
          BY <1>1, <2>1, <2>6, <4>1, <5>3
        <5>5. pc = op.kind
          BY <4>1 DEF TalkInv, Order
        <5> QED
          BY <1>3, <2>1, <4>1, <5>4, <5>5 DEF IsDone
      <4>2. ASSUME pc = "QUIT", done
            PROVE  IsDone'
        <5>1. op.onion \in registered'[pair] <=> op.onion \in registered[pair]
          BY <1>1, <2>1, <4>2
        <5> QED
          BY <1>3, <4>2, <5>1 DEF TalkInv, DoneIsDone, IsDone
      <4> QED
        BY <1>3, <4>1, <4>2 DEF DoneIsDone
    <3> QED
      BY <1>9, <1>10, <2>3, <2>5, <3>6, <3>7, <3>8, <3>9 DEF TalkInv
  <2>7. CASE Here.speaks # "tor"
    <3>1. pc = "PROTOCOLINFO"
      BY <2>1, <2>7 DEF TalkInv, OnlyTor
    <3>2. outbox' \in Seq(Lines) /\ Said' \subseteq Said \cup {Nothing}
      <4>1. CASE Here.speaks = "chatter"
        <5> DEFINE l == Line(c.verb, TRUE, FALSE, Nothing)
        <5>1. l \in Lines /\ l.said = Nothing
          BY <1>2 DEF Line, Lines, Sayings, Command
        <5>2. outbox' = outbox \o <<l>>
          BY <1>1, <1>12, <2>1, <4>1 DEF Final
        <5> HIDE DEF l
        <5>3. <<l>> \in Seq(Lines) /\ Len(<<l>>) = 1 /\ <<l>>[1] = l
          BY <5>1, OneLine
        <5>4. /\ outbox' \in Seq(Lines) /\ Len(outbox') = Len(outbox) + 1
              /\ \A i \in 1..(Len(outbox) + 1) :
                    outbox'[i] = IF i <= Len(outbox) THEN outbox[i] ELSE <<l>>[i - Len(outbox)]
          BY <1>5, <5>2, <5>3, ConcatProperties DEF Shape
        <5>5. /\ DOMAIN outbox' = 1..(Len(outbox) + 1) /\ DOMAIN outbox = 1..Len(outbox)
              /\ Len(outbox) \in Nat
          BY <5>4, WhereItStands, LenProperties
        <5>6. \A i \in DOMAIN outbox' : outbox'[i] = l \/ (i \in DOMAIN outbox /\ outbox'[i] = outbox[i])
          BY <5>3, <5>4, <5>5
        <5> QED
          BY <1>3, <5>1, <5>4, <5>6 DEF Said
      <4>2. CASE Here.speaks # "chatter"
        <5>1. outbox' = outbox
          BY <1>1, <1>12, <2>1, <2>7, <4>2
        <5> QED
          BY <1>3, <1>5, <5>1 DEF Said, Shape
      <4> QED BY <4>1, <4>2
    <3>3. Shape'
      BY <1>1, <1>2, <1>3, <1>5, <2>4, <3>2 DEF Shape
    <3>4. SaidByTor'
      BY <1>3, <1>5, <2>4, <3>2, Topics DEF TalkInv, SaidByTor
    <3>5. FinalIsLast' /\ RepliesAnswerTheirCommand' /\ DoneIsDone'
      BY <1>3, <1>5, <2>7, <3>1 DEF FinalIsLast, RepliesAnswerTheirCommand, DoneIsDone
    <3> QED
      BY <1>9, <1>10, <2>3, <2>5, <3>3, <3>4, <3>5 DEF TalkInv
  <2> QED BY <2>6, <2>7
<1> QED BY <1>2, <1>11, <1>12 DEF Command

---------------------------------------------------------------------------
\* The conversation as a whole.

\* Nothing is said at first.
LEMMA TalkInit == Init => TalkInv
<1> SUFFICES ASSUME Init PROVE TalkInv
  OBVIOUS
<1>1. Shape
  <2>1. 1 \in KNOWN_PAIRS /\ 0 \in 0..MaxOps
    BY ControlAssumption DEF KNOWN_PAIRS
  <2>2. /\ op \in [kind : Kinds, onion : SomeOnion]
        /\ result \in [kind : Kinds, onion : SomeOnion, ok : BOOLEAN, pair : KNOWN_PAIRS]
    BY <2>1 DEF Init, Kinds, SomeOnion
  <2>3. inbox \in [KNOWN_PAIRS -> Seq(Command)]
    BY EmptySeq DEF Init
  <2>4. outbox \in Seq(Lines)
    BY EmptySeq DEF Init
  <2>5. /\ server \in [KNOWN_PAIRS -> Servers] /\ pair \in KNOWN_PAIRS
        /\ pc = "idle" /\ status = "reading" /\ heard \subseteq Sayings /\ done \in BOOLEAN
        /\ session = "closed" /\ registered \in [KNOWN_PAIRS -> SUBSET Onions]
        /\ slow \in BOOLEAN /\ ops \in 0..MaxOps
    BY <2>1 DEF Init
  <2> QED
    BY <2>2, <2>3, <2>4, <2>5 DEF Shape
<1>2. /\ pc = "idle" /\ op.kind = "none" /\ status = "reading" /\ heard = {} /\ done = FALSE
      /\ outbox = <<>> /\ session = "closed" /\ result.kind = "none"
      /\ \A p \in KNOWN_PAIRS : DOMAIN inbox[p] = {}
    BY DEF Init
<1>3. Said = {}
  BY <1>2 DEF Said
<1>4. Order /\ Silent /\ OnlyTor /\ OkMeansDone /\ DoneIsDone
  BY <1>2 DEF Order, Silent, OnlyTor, OkMeansDone, DoneIsDone, Verbs
<1>5. LiveIsLast /\ LiveIsThere /\ OnionsNamed /\ QuitAlone /\ ProofsGoToTheKnowing
  BY <1>2 DEF LiveIsLast, LiveIsThere, OnionsNamed, QuitAlone, ProofsGoToTheKnowing, Verbs
<1>6. SaidByTor /\ FinalIsLast /\ RepliesAnswerTheirCommand
  BY <1>2, <1>3 DEF SaidByTor, FinalIsLast, RepliesAnswerTheirCommand
<1> QED
  BY <1>1, <1>4, <1>5, <1>6 DEF TalkInv

\* Every step keeps the conversation orderly.
LEMMA TalkStep == TalkInv /\ [Next]_vars => TalkInv'
<1> SUFFICES ASSUME TalkInv, [Next]_vars PROVE TalkInv'
  OBVIOUS
<1>1. CASE \E kind \in {"detect", "ADD", "REMOVE"}, onion \in Onions \cup {"none"},
              p \in KNOWN_PAIRS : Begin(kind, onion, p)
  BY <1>1, BeginTalk DEF SomeOnion
<1>2. CASE Companion
  BY <1>2, ConnectTalk, FailuresTalk, ProceedTalk, FarewellTalk, HearTalk DEF Companion
<1>3. CASE TimesOut
  BY <1>3, FailuresTalk
<1>4. CASE Dribble
  BY <1>4, DribbleTalk
<1>5. CASE \E p \in KNOWN_PAIRS : Serve(p)
  BY <1>5, ServeTalk
<1>6. CASE UNCHANGED vars
  BY <1>6 DEF vars, clientVars, portVars, TalkInv, Shape, Order, Silent, LiveIsLast, LiveIsThere,
     OnionsNamed, QuitAlone, OnlyTor, SaidByTor, Said, Answered, Here, FinalIsLast,
     RepliesAnswerTheirCommand, DoneIsDone, SaysOk, IsDone, OkMeansDone, ProofsGoToTheKnowing
<1> QED
  BY <1>1, <1>2, <1>3, <1>4, <1>5, <1>6 DEF Next

\* tor_detector.rs:206-216, 391-423, client_auth.rs:91-126: through any number of
\* searches and operations the commands queued at a port are those of the
\* conversation, in order, and each line on its way back belongs to the last one.
THEOREM TalkIsOrderly == Spec => []TalkInv
<1>1. Init => TalkInv
  BY TalkInit
<1>2. TalkInv /\ [Next]_vars => TalkInv'
  BY TalkStep
<1> QED
  BY <1>1, <1>2, PTL DEF Spec

\* Everything the program and the ports keep has its type.
THEOREM TypesAreRight == Spec => []TypeOK
<1>1. TalkInv => TypeOK
  <2> SUFFICES ASSUME Shape PROVE TypeOK
    BY DEF TalkInv
  <2>1. \A said \in heard : said.topic \in {"nothing", "auth", "challenge", "version"}
    BY Topics DEF Shape, Sayings
  <2>2. \A p \in KNOWN_PAIRS : \A i \in DOMAIN inbox[p] : inbox[p][i] \in Command
    BY LenProperties, ElementOfSeq DEF Shape
  <2>3. \A i \in DOMAIN outbox : outbox[i].answers \in Verbs \cup {"nothing"}
                                  /\ outbox[i].ok \in BOOLEAN
    <3>1. \A i \in DOMAIN outbox : outbox[i] \in Lines
      BY LenProperties, ElementOfSeq DEF Shape
    <3> QED
      BY <3>1 DEF Lines
  <2> QED
    BY <2>1, <2>2, <2>3 DEF Shape, TypeOK, Kinds, SomeOnion
<1> QED
  BY <1>1, TalkIsOrderly, PTL

\* tor_detector.rs:391-423: every line read from a Tor belongs to the answer to
\* the last command.
THEOREM EveryReplyAnswersItsCommand == Spec => []RepliesAnswerTheirCommand
<1>1. TalkInv => RepliesAnswerTheirCommand
  BY DEF TalkInv
<1> QED
  BY <1>1, TalkIsOrderly, PTL

\* client_auth.rs:91-126: after Ok the key is registered, or gone, and stays so,
\* whatever earlier operations have left in the port's queue.
THEOREM OkIsDone == Spec => []OkMeansDone
<1>1. TalkInv => OkMeansDone
  BY DEF TalkInv
<1> QED
  BY <1>1, TalkIsOrderly, PTL

\* tor_detector.rs:326-334: a hash over the cookie goes only to a port that knows
\* that cookie.
THEOREM OnlyTheKnowingGetProofs == Spec => []ProofsGoToTheKnowing
<1>1. TalkInv => ProofsGoToTheKnowing
  BY DEF TalkInv
<1> QED
  BY <1>1, TalkIsOrderly, PTL

---------------------------------------------------------------------------
\* The search for a usable Tor.

\* A cookie file whose path holds a space is not found (see WhatIsOffered).
PlainPaths == \A s \in Servers : s.speaks = "tor" => ~s.spaced

\* The pieces that parse are numbers.
LEMMA ParsedAreNumbers ==
    ASSUME NEW pieces \in Seq(Nat \cup {Bad})
    PROVE  Parsed(pieces) \in Seq(Nat)
<1> DEFINE S == Seq(Nat)
           m == Len(pieces)
           Kept(i, s) == IF pieces[i] = Bad THEN s ELSE Append(s, pieces[i])
           step == [p \in (1..m) \X S |-> Kept(p[1], p[2])]
           Loop(f) == f = [i \in 0..m |-> IF i = 0 THEN <<>> ELSE
                                          IF pieces[i] = Bad THEN f[i - 1]
                                          ELSE Append(f[i - 1], pieces[i])]
<1>1. m \in Nat /\ \A i \in 1..m : pieces[i] \in Nat \cup {Bad}
    BY ElementsTyped
<1>2. \A i \in 1..m : \A s \in S : Kept(i, s) \in S
    BY <1>1
<1>3. <<>> \in S
    OBVIOUS
<1> HIDE DEF S, m
<1>4. PICK f : Runs(f, step, m, <<>>, S)
  <2>1. IsLoop(step, m, S)
    <3> HIDE DEF Kept
    <3> QED BY <1>2 DEF IsLoop
  <2> HIDE DEF step
  <2> QED BY <1>1, <1>3, <2>1, Recursion
<1>5. f \in [0..m -> S] /\ f[0] = <<>> /\ \A i \in 1..m : f[i] = step[<<i, f[i - 1]>>]
  <2> HIDE DEF step
  <2> QED BY <1>4 DEF Runs
<1>6. ASSUME NEW i \in 1..m PROVE i # 0 /\ f[i] = Kept(i, f[i - 1])
  <2>1. f[i - 1] \in S /\ i # 0 BY <1>1, <1>5
  <2>2. step[<<i, f[i - 1]>>] = Kept(i, f[i - 1])
    <3> HIDE DEF Kept
    <3> QED BY <2>1
  <2> HIDE DEF step, Kept
  <2> QED BY <1>5, <2>1, <2>2
<1>7. Loop(f)
  <2> DEFINE h == [i \in 0..m |-> IF i = 0 THEN <<>> ELSE
                                  IF pieces[i] = Bad THEN f[i - 1]
                                  ELSE Append(f[i - 1], pieces[i])]
  <2>1. ASSUME NEW i \in 0..m PROVE f[i] = h[i]
    <3>1. CASE i = 0 BY <1>5, <3>1
    <3>2. CASE i \in 1..m BY <1>6, <3>2
    <3> QED BY <1>1, <3>1, <3>2
  <2>2. f = [i \in 0..m |-> f[i]] /\ h = [i \in 0..m |-> h[i]] BY <1>5
  <2>3. f = h
    <3> HIDE DEF h
    <3> QED BY <2>1, <2>2
  <2> QED BY <2>3
<1>8. \E g : Loop(g) /\ Parsed(pieces) = g[m]
  <2>1. \E g : Loop(g) BY <1>7
  <2> QED BY <2>1 DEF Parsed, m
<1>9. PICK g : Loop(g) /\ Parsed(pieces) = g[m]
  <2> HIDE DEF Loop
  <2> QED BY <1>8
<1>10. \A i \in 0..m : g[i] = IF i = 0 THEN <<>> ELSE Kept(i, g[i - 1])
    BY <1>9
<1> DEFINE T == {i \in 0..m : g[i] \in S}
<1> HIDE DEF Loop, Kept
<1>11. 0 \in T BY <1>1, <1>3, <1>10
<1>12. ASSUME NEW n \in 0..(m - 1), n \in T PROVE n + 1 \in T
  <2>1. n + 1 \in 1..m /\ n + 1 \in 0..m /\ n + 1 # 0 /\ (n + 1) - 1 = n BY <1>1
  <2>2. g[n + 1] = Kept(n + 1, g[n]) BY <1>10, <2>1
  <2> QED BY <1>2, <1>12, <2>1, <2>2
<1>13. \A i \in 0..m : i \in T
  <2> HIDE DEF T
  <2> QED BY <1>1, <1>11, <1>12, Induction
<1>14. m \in 0..m BY <1>1
<1> QED BY <1>9, <1>13, <1>14 DEF S

\* What TorVersion::parse returns are four numbers, or none.
LEMMA VersionsAreNumbers ==
    ASSUME NEW text \in Texts
    PROVE  TorVersion(text) \in {NoVersion} \cup [1..4 -> Nat]
<1> DEFINE good == Parsed(text.core)
<1>1. good \in Seq(Nat) BY ParsedAreNumbers DEF Texts
<1> HIDE DEF good
<1>2. CASE Len(good) < 3 BY <1>2 DEF TorVersion, good
<1>3. CASE ~(Len(good) < 3)
  <2>1. good[1] \in Nat /\ good[2] \in Nat /\ good[3] \in Nat /\ At3(good, 4) \in Nat
      BY <1>1, <1>3 DEF At3
  <2>2. TorVersion(text) = <<good[1], good[2], good[3], At3(good, 4)>>
      BY <1>3 DEF TorVersion, good
  <2> QED BY <2>1, <2>2
<1> QED BY <1>2, <1>3

\* Comparing from the left is asking for 0.4.7 or newer.
LEMMA AtLeastIsRecent ==
    ASSUME NEW v \in [1..4 -> Nat]
    PROVE  AtLeast(v, MIN_REUSABLE_TOR_VERSION) <=> IsRecent(v)
<1> DEFINE m == <<0, 4, 7, 0>>
<1>1. m[1] = 0 /\ m[2] = 4 /\ m[3] = 7 /\ m[4] = 0 /\ m \in [1..4 -> Nat]
    OBVIOUS
<1>2. v[1] \in Nat /\ v[2] \in Nat /\ v[3] \in Nat /\ v[4] \in Nat /\ DOMAIN v = 1..4
    OBVIOUS
<1> HIDE DEF m
<1>3. v = m <=> v[1] = 0 /\ v[2] = 4 /\ v[3] = 7 /\ v[4] = 0
  <2>1. ASSUME v[1] = 0, v[2] = 4, v[3] = 7, v[4] = 0
        PROVE  v = m
    <3>1. \A i \in 1..4 : v[i] = m[i]
      BY <1>1, <2>1
    <3> QED
      BY <1>1, <3>1
  <2> QED
    BY <1>1, <2>1
<1>4. Greater(v, m) <=> \/ v[1] > 0
                        \/ v[1] = 0 /\ v[2] > 4
                        \/ v[1] = 0 /\ v[2] = 4 /\ v[3] > 7
                        \/ v[1] = 0 /\ v[2] = 4 /\ v[3] = 7 /\ v[4] > 0
  <2>1. ASSUME NEW i \in 1..4, v[i] > m[i], \A j \in 1..(i - 1) : v[j] = m[j]
        PROVE  \/ v[1] > 0
               \/ v[1] = 0 /\ v[2] > 4
               \/ v[1] = 0 /\ v[2] = 4 /\ v[3] > 7
               \/ v[1] = 0 /\ v[2] = 4 /\ v[3] = 7 /\ v[4] > 0
    <3>1. i = 1 \/ i = 2 \/ i = 3 \/ i = 4
      OBVIOUS
    <3> QED
      BY <1>1, <1>2, <2>1, <3>1
  <2>2. CASE v[1] > 0
    <3>1. 1 \in DOMAIN v /\ v[1] > m[1] /\ \A j \in 1..(1 - 1) : v[j] = m[j]
      BY <1>1, <1>2, <2>2
    <3> QED
      BY <1>2, <2>2, <3>1 DEF Greater
  <2>3. CASE v[1] = 0 /\ v[2] > 4
    <3>1. 2 \in DOMAIN v /\ v[2] > m[2] /\ \A j \in 1..(2 - 1) : v[j] = m[j]
      BY <1>1, <1>2, <2>3
    <3> QED
      BY <1>2, <2>3, <3>1 DEF Greater
  <2>4. CASE v[1] = 0 /\ v[2] = 4 /\ v[3] > 7
    <3>1. 3 \in DOMAIN v /\ v[3] > m[3] /\ \A j \in 1..(3 - 1) : v[j] = m[j]
      BY <1>1, <1>2, <2>4
    <3> QED
      BY <1>2, <2>4, <3>1 DEF Greater
  <2>5. CASE v[1] = 0 /\ v[2] = 4 /\ v[3] = 7 /\ v[4] > 0
    <3>1. 4 \in DOMAIN v /\ v[4] > m[4] /\ \A j \in 1..(4 - 1) : v[j] = m[j]
      BY <1>1, <1>2, <2>5
    <3> QED
      BY <1>2, <2>5, <3>1 DEF Greater
  <2> QED
    BY <1>2, <2>1, <2>2, <2>3, <2>4, <2>5 DEF Greater
<1>5. AtLeast(v, m) <=> IsRecent(v)
  BY <1>2, <1>3, <1>4 DEF AtLeast, IsRecent
<1> QED
  BY <1>5 DEF m, MIN_REUSABLE_TOR_VERSION

\* What the companion asks of a version is what makes it recent enough.
LEMMA VersionsCompared ==
    ASSUME NEW s \in Servers, s.speaks = "tor"
    PROVE  /\ TorVersion(s.version) # NoVersion
           /\ AtLeast(TorVersion(s.version), MIN_REUSABLE_TOR_VERSION)
           <=> TorVersion(s.version) # NoVersion /\ IsRecent(TorVersion(s.version))
<1> DEFINE v == TorVersion(s.version)
<1>1. v \in {NoVersion} \cup [1..4 -> Nat]
  BY ControlAssumption, VersionsAreNumbers DEF ControlAssumption
<1> HIDE DEF v
<1>2. CASE v = NoVersion
  BY <1>2 DEF v
<1>3. CASE v # NoVersion
  <2>1. AtLeast(v, MIN_REUSABLE_TOR_VERSION) <=> IsRecent(v)
    BY <1>1, <1>3, AtLeastIsRecent
  <2> QED BY <1>3, <2>1 DEF v
<1> QED BY <1>2, <1>3

\* Between connections only the pairs passed over matter.
LEMMA CalmSearch ==
    ASSUME pc' \notin Handshake, session' # "in",
           \A p \in KNOWN_PAIRS : \A i \in DOMAIN inbox'[p] : ~inbox'[p][i].live,
           PassedOver', FirstFitIsFound'
    PROVE  SearchInv'
<1>1. InIsAuthable' /\ GoodPath'
  BY DEF InIsAuthable, GoodPath
<1> QED BY <1>1 DEF SearchInv

\* A search that is over has found what it should.
LEMMA EndSearch ==
    ASSUME TalkInv, SearchInv, NEW ok \in BOOLEAN, End(ok), UNCHANGED <<server, registered, ops>>,
           slow' = slow,
           op.kind = "detect" => IF ok THEN IsFit(Here)
                                 ELSE pair = NumPairs /\ ~IsFit(Here)
    PROVE  SearchInv'
<1>1. Drop /\ pc' = "idle" /\ op' = [kind |-> "none", onion |-> "none"] /\ UNCHANGED <<pair, done>>
      /\ result' = [kind |-> op.kind, onion |-> op.onion, ok |-> ok, pair |-> pair]
    BY DEF End
<1>2. PassedOver' /\ pc' \notin Handshake
    BY <1>1 DEF PassedOver, Handshake
<1>3. pair \in KNOWN_PAIRS /\ KNOWN_PAIRS = 1..NumPairs /\ NumPairs \in Nat
    BY ControlAssumption DEF TalkInv, Shape, KNOWN_PAIRS
<1>4. FirstFitIsFound'
  <2> SUFFICES ASSUME op.kind = "detect"
               PROVE  /\ ok => IsFit(server[pair])
                      /\ ~slow => IF ok THEN \A p \in 1..(pair - 1) : ~IsFit(server[p])
                                  ELSE \A p \in KNOWN_PAIRS : ~IsFit(server[p])
    BY <1>1 DEF FirstFitIsFound
  <2>1. ~slow => \A p \in 1..(pair - 1) : ~IsFit(server[p])
    BY DEF SearchInv, PassedOver
  <2>2. CASE ok
    BY <2>1, <2>2 DEF Here
  <2>3. CASE ~ok
    <3>1. \A p \in KNOWN_PAIRS : p \in 1..(pair - 1) \/ p = pair
      BY <1>3, <2>3
    <3> QED
      BY <2>1, <2>3, <3>1 DEF Here
  <2> QED BY <2>2, <2>3
<1> QED BY <1>1, <1>2, <1>4, DropForgets, CalmSearch

\* An operation that ends without being a search, or after something was slow.
LEMMA EndOther ==
    ASSUME TalkInv, SearchInv, NEW ok \in BOOLEAN, End(ok), UNCHANGED <<server, registered, ops>>,
           op.kind = "detect" => slow' = TRUE /\ ~ok
    PROVE  SearchInv'
<1>1. Drop /\ pc' = "idle" /\ op' = [kind |-> "none", onion |-> "none"] /\ UNCHANGED <<pair, done>>
      /\ result' = [kind |-> op.kind, onion |-> op.onion, ok |-> ok, pair |-> pair]
    BY DEF End
<1>2. PassedOver' /\ pc' \notin Handshake
    BY <1>1 DEF PassedOver, Handshake
<1>3. FirstFitIsFound'
    BY <1>1 DEF FirstFitIsFound
<1> QED BY <1>1, <1>2, <1>3, DropForgets, CalmSearch

\* A pair is passed over because it has no usable Tor, or because it was slow.
LEMMA GiveUpSearch ==
    ASSUME TalkInv, SearchInv, pc # "idle", GiveUp, UNCHANGED <<server, registered, ops>>,
           slow' = TRUE \/ (slow' = slow /\ (op.kind = "detect" => ~IsFit(Here)))
    PROVE  SearchInv'
<1>1. CASE op.kind = "detect" /\ pair < NumPairs
  <2>1. pair' = pair + 1 /\ pc' = "connect" /\ Drop /\ UNCHANGED <<op, result, done>>
    BY <1>1 DEF GiveUp
  <2>2. pair \in Nat \ {0}
    BY ControlAssumption DEF TalkInv, Shape, KNOWN_PAIRS
  <2>3. PassedOver'
    <3> SUFFICES ASSUME slow' = slow, ~slow, NEW p \in 1..(pair' - 1)
                 PROVE  ~IsFit(server[p])
      BY <1>1, <2>1 DEF PassedOver
    <3>1. p \in 1..(pair - 1) \/ p = pair
      BY <2>1, <2>2
    <3> QED
      BY <1>1, <3>1 DEF SearchInv, PassedOver, Here
  <2>4. result.kind = "none"
    BY DEF TalkInv, Order
  <2>5. FirstFitIsFound' /\ pc' \notin Handshake
    BY <2>1, <2>4 DEF FirstFitIsFound, Handshake
  <2> QED BY <2>1, <2>3, <2>5, DropForgets, CalmSearch
<1>2. CASE ~(op.kind = "detect" /\ pair < NumPairs)
  <2>1. End(FALSE)
    BY <1>2 DEF GiveUp
  <2>2. op.kind = "detect" => pair = NumPairs
    BY <1>2, ControlAssumption DEF TalkInv, Shape, KNOWN_PAIRS
  <2>3. CASE slow' = TRUE
    BY <2>1, <2>3, EndOther
  <2>4. CASE slow' = slow /\ (op.kind = "detect" => ~IsFit(Here))
    BY <2>1, <2>2, <2>4, EndSearch
  <2> QED BY <2>3, <2>4
<1> QED BY <1>1, <1>2

\* A command that goes out is one the port should accept, if it is a usable Tor.
LEMMA PostSearch ==
    ASSUME TalkInv, SearchInv,
           NEW verb \in Verbs, NEW proof \in Proof, NEW onion \in SomeOnion,
           Post(verb, proof, onion), UNCHANGED <<server, pair, op, result, slow>>,
           session' \in {session, "new"},
           \A p \in KNOWN_PAIRS : \A i \in DOMAIN inbox[p] : ~inbox[p][i].live,
           Here.speaks = "tor" => outbox' = <<>>,
           verb = "AUTHENTICATE" => proof = Nobody \/ proof.cookie = Here.file,
           verb = "AUTHENTICATE" /\ IsFit(Here) => Accepts(Here, proof),
           verb = "AUTHCHALLENGE" => "NULL" \notin Here.methods /\ "SAFECOOKIE" \in Here.methods,
           verb = "GETINFO" /\ IsFit(Here) => session' = "in"
    PROVE  SearchInv'
<1> DEFINE c == [verb |-> verb, proof |-> proof, onion |-> onion, live |-> TRUE]
<1>1. Shape /\ pair \in KNOWN_PAIRS /\ Here' = Here
    BY DEF TalkInv, Shape, Here
<1>2. /\ pc' = verb /\ status' = "reading" /\ heard' = {}
    BY DEF Post
<1>3. /\ \A p \in KNOWN_PAIRS : p # pair => inbox'[p] = inbox[p]
      /\ Len(inbox[pair]) \in Nat /\ DOMAIN inbox[pair] = 1..Len(inbox[pair])
      /\ DOMAIN inbox'[pair] = 1..(Len(inbox[pair]) + 1)
      /\ \A i \in DOMAIN inbox[pair] : inbox'[pair][i] = inbox[pair][i]
      /\ inbox'[pair][Len(inbox[pair]) + 1] = c
    BY <1>1, PostAppends
<1>4. c.verb = verb /\ c.proof = proof /\ c.live = TRUE
    OBVIOUS
<1> HIDE DEF c
<1>5. ASSUME NEW p \in KNOWN_PAIRS, NEW i \in DOMAIN inbox'[p], inbox'[p][i].live
      PROVE  inbox'[p][i] = c
  <2>1. CASE i \in DOMAIN inbox[p] /\ inbox'[p][i] = inbox[p][i]
    BY <1>5, <2>1
  <2>2. CASE p = pair /\ i \notin DOMAIN inbox[p]
    <3>1. i = Len(inbox[pair]) + 1
      BY <1>3, <2>2
    <3> QED
      BY <1>3, <2>2, <3>1
  <2> QED
    BY <1>3, <2>1, <2>2
<1>6. InIsAuthable'
    BY <1>1, <1>4, <1>5 DEF SearchInv, InIsAuthable
<1>7. GoodPath'
  <2> SUFFICES ASSUME IsFit(Here), verb \in Handshake PROVE GoodPath'
    BY <1>1, <1>2 DEF GoodPath
  <2>1. outbox' = <<>> /\ DOMAIN outbox' = {} /\ ~Answered'
    BY <1>2 DEF IsFit, Answered
  <2> QED
    BY <1>1, <1>2, <1>4, <1>5, <2>1 DEF GoodPath
<1>8. PassedOver' /\ FirstFitIsFound'
    BY DEF SearchInv, PassedOver, FirstFitIsFound
<1> QED BY <1>6, <1>7, <1>8 DEF SearchInv

\* Once an answer of a Tor has been read, it has been heard to the end.
LEMMA AllIsHeard ==
    ASSUME TalkInv, Here.speaks = "tor", status # "reading"
    PROVE  /\ Answered /\ outbox = <<>> /\ DOMAIN outbox = {} /\ Said = heard
           /\ \A p \in KNOWN_PAIRS : \A i \in DOMAIN inbox[p] : ~inbox[p][i].live
<1>1. outbox = <<>> /\ DOMAIN outbox = {}
    BY WhereItStands
<1>2. \A p \in KNOWN_PAIRS : \A i \in DOMAIN inbox[p] : ~inbox[p][i].live
    BY DEF TalkInv, LiveIsLast, Answered
<1> QED BY <1>1, <1>2 DEF Answered, Said

\* A search begins with the first pair.
LEMMA BeginSearch ==
    ASSUME TalkInv, SearchInv, NEW kind \in {"detect", "ADD", "REMOVE"}, NEW onion \in SomeOnion,
           NEW p \in KNOWN_PAIRS, Begin(kind, onion, p)
    PROVE  SearchInv'
<1>1. /\ pc = "idle" /\ pc' = "connect" /\ op' = [kind |-> kind, onion |-> onion] /\ pair' = p
      /\ result' = [result EXCEPT !.kind = "none"] /\ (kind = "detect" => p = 1)
      /\ UNCHANGED <<inbox, session>>
    BY DEF Begin, portVars
<1>2. /\ session # "in"
      /\ \A x \in KNOWN_PAIRS : \A i \in DOMAIN inbox[x] : ~inbox[x][i].live
    BY <1>1 DEF TalkInv, Silent, LiveIsLast, Verbs
<1>3. result'.kind = "none"
    BY <1>1 DEF TalkInv, Shape
<1>4. PassedOver' /\ FirstFitIsFound' /\ pc' \notin Handshake
    BY <1>1, <1>3 DEF PassedOver, FirstFitIsFound, Handshake
<1> QED BY <1>1, <1>2, <1>4, CalmSearch

\* To connect decides nothing about the Tor that is there.
LEMMA ConnectSearch ==
    ASSUME TalkInv, SearchInv, Connect
    PROVE  SearchInv'
<1>1. /\ pc = "connect" /\ Post("PROTOCOLINFO", Nobody, "none") /\ session' = "new"
      /\ Here.speaks = "tor" => outbox' = <<>>
      /\ UNCHANGED <<server, pair, op, result, slow>>
    BY DEF Connect
<1>2. \A p \in KNOWN_PAIRS : \A i \in DOMAIN inbox[p] : ~inbox[p][i].live
    BY <1>1 DEF TalkInv, LiveIsLast, Verbs
<1>3. "PROTOCOLINFO" \in Verbs /\ "none" \in SomeOnion /\ Nobody \in Proof
    BY CommandsWellFormed DEF Verbs, SomeOnion
<1> QED BY <1>1, <1>2, <1>3, PostSearch

\* A pair is passed over only if its Tor is no fit, or slow.
LEMMA FailuresSearch ==
    ASSUME TalkInv, SearchInv, Refused \/ ReadFails \/ TimesOut \/ IsRefused
    PROVE  SearchInv'
<1>1. CASE Refused
    BY <1>1, GiveUpSearch DEF Refused, IsFit
<1>2. CASE ReadFails
  <2>1. CASE pc = "QUIT"
    <3>1. op.kind # "detect" /\ done \in BOOLEAN
      BY <2>1 DEF TalkInv, Order, Shape
    <3> QED
      BY <1>2, <2>1, <3>1, EndOther DEF ReadFails
  <2>2. CASE pc # "QUIT"
    BY <1>2, <2>2, GiveUpSearch DEF ReadFails, Verbs
  <2> QED BY <2>1, <2>2
<1>3. CASE TimesOut
    BY <1>3, GiveUpSearch DEF TimesOut
<1>4. CASE IsRefused
  <2>1. ~IsFit(Here) /\ pc # "idle"
    BY <1>4 DEF IsRefused, SearchInv, GoodPath, Handshake
  <2> QED
    BY <1>4, <2>1, GiveUpSearch DEF IsRefused
<1> QED BY <1>1, <1>2, <1>3, <1>4

\* The companion chooses a method by which a usable Tor lets it in.
LEMMA AuthenticateSearch ==
    ASSUME TalkInv, SearchInv, PlainPaths, Authenticate
    PROVE  SearchInv'
<1>1. pc = "PROTOCOLINFO" /\ status = "ok" /\ UNCHANGED <<server, registered, slow, ops>>
    BY DEF Authenticate
<1>2. Here \in Servers /\ (Here.speaks = "tor" => ~Here.spaced) /\ Here.cookie \in Cookies
    BY WhereItStands, ControlAssumption DEF PlainPaths
<1>3. CookieFile # "none" \/ Offered # {} =>
         Here.speaks = "tor" /\ Offered = Here.methods /\ CookieFile = Here.file
    BY <1>2, WhatIsOffered
<1>4. IsFit(Here) => Here.speaks = "tor" /\ Offered = Here.methods /\ CookieFile = Here.file
  <2> SUFFICES ASSUME IsFit(Here) PROVE AuthLine(Here) \in heard
    BY <1>2, WhatIsOffered DEF IsFit
  <2>1. Answered /\ Said = heard
    BY <1>1, AllIsHeard DEF IsFit
  <2> QED
    BY <1>1, <2>1 DEF SearchInv, GoodPath, Handshake
<1>5. CASE GiveUp /\ "NULL" \notin Offered
           /\ (CookieFile \notin Cookies \/ Offered \cap {"SAFECOOKIE", "COOKIE"} = {})
  <2>1. ~IsFit(Here)
    BY <1>2, <1>4, <1>5 DEF IsFit
  <2> QED
    BY <1>1, <1>5, <2>1, GiveUpSearch
<1>6. ASSUME NEW verb \in {"AUTHENTICATE", "AUTHCHALLENGE"}, NEW proof \in Proof,
             Send(verb, proof, "none"), Here.speaks = "tor",
             verb = "AUTHENTICATE" => proof = Nobody \/ proof.cookie = Here.file,
             verb = "AUTHENTICATE" /\ IsFit(Here) => Accepts(Here, proof),
             verb = "AUTHCHALLENGE" => "NULL" \notin Here.methods /\ "SAFECOOKIE" \in Here.methods
      PROVE  SearchInv'
  <2>1. /\ Post(verb, proof, "none") /\ UNCHANGED <<op, pair, done, result, outbox, session>>
        /\ verb \in Verbs /\ "none" \in SomeOnion /\ verb # "GETINFO"
    BY <1>6 DEF Send, Verbs, SomeOnion
  <2> QED
    BY <1>1, <1>6, <2>1, AllIsHeard, PostSearch
<1>7. CASE "NULL" \in Offered /\ Send("AUTHENTICATE", Nobody, "none")
  <2>1. Here.speaks = "tor" /\ Offered = Here.methods
    BY <1>3, <1>7
  <2>2. Accepts(Here, Nobody) /\ Nobody \in Proof
    BY <1>7, <2>1, CommandsWellFormed DEF Accepts
  <2> QED
    BY <1>6, <1>7, <2>1, <2>2
<1>8. CASE "NULL" \notin Offered /\ "SAFECOOKIE" \in Offered /\ Send("AUTHCHALLENGE", Nobody, "none")
  <2>1. Here.speaks = "tor" /\ Offered = Here.methods /\ Nobody \in Proof
    BY <1>3, <1>8, CommandsWellFormed
  <2> QED
    BY <1>6, <1>8, <2>1
<1>9. CASE /\ "NULL" \notin Offered /\ "COOKIE" \in Offered
           /\ Send("AUTHENTICATE", [by |-> "cookie", cookie |-> CookieFile], "none")
  <2> DEFINE proof == [by |-> "cookie", cookie |-> CookieFile]
  <2>1. Here.speaks = "tor" /\ Offered = Here.methods /\ CookieFile = Here.file
    BY <1>3, <1>9
  <2>2. proof \in Proof /\ proof.cookie = Here.file /\ proof.by = "cookie"
    BY <1>2, <2>1, CommandsWellFormed, ControlAssumption
  <2>3. Send("AUTHENTICATE", proof, "none")
    BY <1>9
  <2> HIDE DEF proof
  <2>4. IsFit(Here) => Accepts(Here, proof)
    BY <1>9, <2>1, <2>2 DEF IsFit, Accepts
  <2> QED
    BY <1>6, <2>1, <2>2, <2>3, <2>4
<1> QED BY <1>5, <1>7, <1>8, <1>9, AuthenticateCases

\* A usable Tor proves the cookie, lets the companion in, and is recent enough.
LEMMA ProceedSearch ==
    ASSUME TalkInv, SearchInv, Prove \/ Ask \/ CheckVersion
    PROVE  SearchInv'
<1>0. pc \in Verbs \ {"PROTOCOLINFO"} /\ status = "ok" /\ Here.speaks = "tor" /\ pc # "idle"
      /\ UNCHANGED <<server, registered, slow, ops>> /\ "none" \in SomeOnion
    BY DEF Prove, Ask, CheckVersion, TalkInv, OnlyTor, Verbs, SomeOnion
<1>1. /\ Answered /\ outbox = <<>> /\ Said = heard /\ Here \in Servers
      /\ \A p \in KNOWN_PAIRS : \A i \in DOMAIN inbox[p] : ~inbox[p][i].live
    BY <1>0, AllIsHeard, WhereItStands
<1>2. ASSUME NEW verb \in Verbs, NEW proof \in Proof, NEW onion \in SomeOnion,
             Send(verb, proof, onion),
             verb = "AUTHENTICATE" => proof.cookie = Here.file,
             verb = "AUTHENTICATE" /\ IsFit(Here) => Accepts(Here, proof),
             verb # "AUTHCHALLENGE",
             verb = "GETINFO" /\ IsFit(Here) => session = "in"
      PROVE  SearchInv'
  <2>1. Post(verb, proof, onion) /\ UNCHANGED <<op, pair, done, result, outbox, session>>
    BY <1>2 DEF Send
  <2> QED
    BY <1>0, <1>1, <1>2, <2>1, PostSearch
<1>3. CASE Prove
  <2> DEFINE proof == [by |-> "companion", cookie |-> Here.file]
  <2>1. pc = "AUTHCHALLENGE"
    BY <1>3 DEF Prove
  <2>2. CASE Send("AUTHENTICATE", proof, "none")
    <3>1. proof \in Proof /\ proof.cookie = Here.file /\ proof.by = "companion"
      BY <1>1, CommandsWellFormed
    <3> HIDE DEF proof
    <3>2. IsFit(Here) => Accepts(Here, proof)
      BY <2>1, <3>1 DEF SearchInv, GoodPath, Handshake, IsFit, Accepts
    <3> QED
      BY <1>0, <1>2, <2>2, <3>1, <3>2 DEF Verbs
  <2>3. CASE GiveUp /\ ~\E said \in heard : said.topic = "challenge"
                                /\ said.proof = [by |-> "tor", cookie |-> Here.file]
    <3>1. ~IsFit(Here)
      <4> SUFFICES ASSUME IsFit(Here) PROVE FALSE
        OBVIOUS
      <4>1. Challenge(Here) \in heard /\ Here.file = Here.cookie
        BY <1>1, <2>1 DEF SearchInv, GoodPath, Handshake, IsFit
      <4> QED
        BY <2>3, <4>1 DEF Challenge
    <3> QED
      BY <1>0, <2>3, <3>1, GiveUpSearch
  <2> QED
    BY <1>3, <2>2, <2>3 DEF Prove
<1>4. CASE Ask
  <2>1. pc = "AUTHENTICATE" /\ Nobody \in Proof
    BY <1>4, CommandsWellFormed DEF Ask
  <2>2. IsFit(Here) => session = "in"
    BY <1>1, <2>1 DEF SearchInv, GoodPath, Handshake
  <2>3. CASE op.kind = "detect"
    BY <1>0, <1>2, <1>4, <2>1, <2>2, <2>3 DEF Ask, Verbs
  <2>4. CASE op.kind # "detect"
    <3>1. op.kind \in {"ADD", "REMOVE"} /\ op.onion \in SomeOnion /\ Send(op.kind, Nobody, op.onion)
      BY <1>0, <1>4, <2>4 DEF Ask, TalkInv, Shape, Order, Kinds
    <3> QED
      BY <1>2, <2>1, <3>1 DEF Verbs
  <2> QED BY <2>3, <2>4
<1>5. CASE CheckVersion
  <2>1. pc = "GETINFO" /\ op.kind = "detect"
    BY <1>0, <1>5 DEF CheckVersion, TalkInv, Shape, Order, Kinds
  <2>2. /\ TorVersion(Here.version) # NoVersion
        /\ AtLeast(TorVersion(Here.version), MIN_REUSABLE_TOR_VERSION)
        <=> TorVersion(Here.version) # NoVersion /\ IsRecent(TorVersion(Here.version))
    BY <1>0, <1>1, VersionsCompared
  <2>3. \A said \in heard : said.topic = "version" => said = Version(Here) /\ session = "in"
    BY <1>1 DEF TalkInv, SaidByTor
  <2>4. CASE /\ End(TRUE)
             /\ \E said \in heard :
                   /\ said.topic = "version"
                   /\ TorVersion(said.version) # NoVersion
                   /\ AtLeast(TorVersion(said.version), MIN_REUSABLE_TOR_VERSION)
    <3>1. PICK said \in heard :
             /\ said.topic = "version"
             /\ TorVersion(said.version) # NoVersion
             /\ AtLeast(TorVersion(said.version), MIN_REUSABLE_TOR_VERSION)
      BY <2>4
    <3>2. said.version = Here.version /\ session = "in"
      BY <2>3, <3>1 DEF Version
    <3>3. Authable(Here)
      BY <3>2 DEF SearchInv, InIsAuthable
    <3>4. IsFit(Here)
      BY <1>0, <2>2, <3>1, <3>2, <3>3 DEF IsFit, Authable
    <3> QED
      BY <1>0, <2>1, <2>4, <3>4, EndSearch
  <2>5. CASE /\ GiveUp
             /\ ~\E said \in heard :
                    /\ said.topic = "version"
                    /\ TorVersion(said.version) # NoVersion
                    /\ AtLeast(TorVersion(said.version), MIN_REUSABLE_TOR_VERSION)
    <3>1. ~IsFit(Here)
      <4> SUFFICES ASSUME IsFit(Here) PROVE FALSE
        OBVIOUS
      <4>1. Version(Here) \in heard
        BY <1>1, <2>1 DEF SearchInv, GoodPath, Handshake
      <4>2. Version(Here).topic = "version" /\ Version(Here).version = Here.version
        BY DEF Version
      <4> QED
        BY <2>2, <2>5, <4>1, <4>2 DEF IsFit
    <3> QED
      BY <1>0, <2>5, <3>1, GiveUpSearch
  <2> QED
    BY <1>5, <2>4, <2>5 DEF CheckVersion
<1> QED BY <1>3, <1>4, <1>5

\* The end of an operation changes nothing that was found.
LEMMA FarewellSearch ==
    ASSUME TalkInv, SearchInv, Leave \/ Report
    PROVE  SearchInv'
<1>1. CASE Leave
  <2>1. /\ pc \in {"ADD", "REMOVE"} /\ status # "reading"
        /\ Post("QUIT", Nobody, "none")
        /\ UNCHANGED <<server, registered, slow, ops, op, pair, result, outbox, session>>
    BY <1>1 DEF Leave
  <2>2. Here.speaks = "tor" /\ "QUIT" \in Verbs /\ Nobody \in Proof /\ "none" \in SomeOnion
    BY <2>1, CommandsWellFormed DEF TalkInv, OnlyTor, Verbs, SomeOnion
  <2>3. outbox = <<>> /\ \A p \in KNOWN_PAIRS : \A i \in DOMAIN inbox[p] : ~inbox[p][i].live
    BY <2>1, <2>2, AllIsHeard
  <2> QED
    BY <2>1, <2>2, <2>3, PostSearch
<1>2. CASE Report
  <2>1. op.kind # "detect" /\ done \in BOOLEAN
    BY <1>2 DEF Report, TalkInv, Order, Shape
  <2> QED
    BY <1>2, <2>1, EndOther DEF Report
<1> QED BY <1>1, <1>2

\* Reading changes nothing but what has been read.
LEMMA HearSearch ==
    ASSUME TalkInv, SearchInv, Hear
    PROVE  SearchInv'
<1>1. /\ Head(outbox) = outbox[1] /\ 1 \in DOMAIN outbox
      /\ \A i \in DOMAIN outbox' : i + 1 \in DOMAIN outbox /\ outbox'[i] = outbox[i + 1]
      /\ Said' = Said
      /\ status' = IF ~Head(outbox).final THEN "reading"
                   ELSE IF Head(outbox).ok THEN "ok" ELSE "refused"
      /\ status = "reading" /\ outbox # <<>>
      /\ UNCHANGED <<server, op, pair, pc, done, result, slow, ops, inbox, session, registered>>
    BY HearTakes
<1>2. Here' = Here /\ Answered
    BY <1>1 DEF Here, Answered
<1>3. InIsAuthable' /\ PassedOver' /\ FirstFitIsFound'
    BY <1>1, <1>2 DEF SearchInv, InIsAuthable, PassedOver, FirstFitIsFound
<1>4. GoodPath'
  <2> SUFFICES ASSUME IsFit(Here), pc \in Handshake PROVE GoodPath'
    BY <1>1, <1>2 DEF GoodPath
  <2>1. status' # "refused" /\ \A i \in DOMAIN outbox' : outbox'[i].ok
    BY <1>1 DEF SearchInv, GoodPath
  <2> QED
    BY <1>1, <1>2, <2>1 DEF SearchInv, GoodPath
<1> QED BY <1>3, <1>4 DEF SearchInv

\* A listener that is no Tor is no fit.
LEMMA DribbleSearch ==
    ASSUME TalkInv, SearchInv, Dribble
    PROVE  SearchInv'
<1>1. /\ Here.speaks = "web"
      /\ UNCHANGED <<server, op, pair, pc, result, slow, inbox, session>>
    BY DEF Dribble, clientVars
<1>2. Here' = Here /\ ~IsFit(Here)
    BY <1>1 DEF Here, IsFit
<1>3. InIsAuthable' /\ GoodPath' /\ PassedOver' /\ FirstFitIsFound'
    BY <1>1, <1>2 DEF SearchInv, InIsAuthable, GoodPath, PassedOver, FirstFitIsFound
<1> QED BY <1>3 DEF SearchInv

\* A usable Tor carries out every command of the handshake.
LEMMA ServeSearch ==
    ASSUME TalkInv, SearchInv, NEW p \in KNOWN_PAIRS, Serve(p)
    PROVE  SearchInv'
<1> DEFINE c == Head(inbox[p])
           s == server[p]
           a == ~c.live \/ session = "in"
<1>1. PICK granted \in BOOLEAN :
         /\ session' = IF c.live /\ c.verb = "AUTHENTICATE" /\ s.speaks = "tor"
                          /\ Accepts(s, c.proof)
                       THEN "in" ELSE session
         /\ ~c.live => outbox' = outbox
         /\ c.live /\ s.speaks = "tor" => outbox' = outbox \o TorAnswers(s, c, a, granted)
    BY ServeEffects
<1>2. /\ c \in Command /\ c = inbox[p][1] /\ 1 \in DOMAIN inbox[p]
      /\ \A x \in KNOWN_PAIRS : x # p => inbox'[x] = inbox[x]
      /\ \A i \in DOMAIN inbox'[p] : i + 1 \in DOMAIN inbox[p] /\ inbox'[p][i] = inbox[p][i + 1]
    BY ServeTakes DEF TalkInv, Shape
<1>3. UNCHANGED <<server, op, pair, pc, status, heard, result, slow>>
    BY DEF Serve, clientVars
<1>4. a \in BOOLEAN
    OBVIOUS
<1> HIDE DEF c, s, a
<1>5. Here' = Here /\ pair \in KNOWN_PAIRS /\ s \in Servers
    BY <1>3 DEF TalkInv, Shape, Here, s
<1>6. \A x \in KNOWN_PAIRS : \A i \in DOMAIN inbox'[x] :
         \E j \in DOMAIN inbox[x] : inbox'[x][i] = inbox[x][j]
    BY <1>2
<1>7. c.live => /\ pc \in Verbs /\ c.verb = pc /\ p = pair /\ s = Here
                /\ Here.speaks = "tor" => ~Answered
    BY <1>2 DEF TalkInv, LiveIsLast, s, Here
<1>8. InIsAuthable'
  <2>1. session' = "in" => Authable(Here)
    <3>1. CASE session = "in"
      BY <3>1 DEF SearchInv, InIsAuthable
    <3>2. CASE session # "in" /\ session' = "in"
      <4>1. c.live /\ c.verb = "AUTHENTICATE" /\ Accepts(Here, c.proof)
        BY <1>1, <1>7, <3>2
      <4>2. c.proof = Nobody \/ c.proof.cookie = Here.file
        BY <1>2, <4>1 DEF SearchInv, InIsAuthable
      <4> QED
        BY <4>1, <4>2 DEF Accepts, Authable, Nobody
    <3> QED BY <3>1, <3>2
  <2> QED
    BY <1>5, <1>6, <2>1 DEF SearchInv, InIsAuthable
<1>9. PassedOver' /\ FirstFitIsFound'
    BY <1>3 DEF SearchInv, PassedOver, FirstFitIsFound
<1>10. GoodPath'
  <2> SUFFICES ASSUME IsFit(Here), pc \in Handshake PROVE GoodPath'
    BY <1>3, <1>5 DEF GoodPath
  <2>0. /\ Here.speaks = "tor"
        /\ status # "refused" /\ \A i \in DOMAIN outbox : outbox[i].ok
        /\ pc = "PROTOCOLINFO" /\ Answered => AuthLine(Here) \in Said
        /\ pc = "AUTHCHALLENGE" => "NULL" \notin Here.methods /\ "SAFECOOKIE" \in Here.methods
        /\ pc = "AUTHCHALLENGE" /\ Answered => Challenge(Here) \in Said
        /\ pc = "AUTHENTICATE" => \A i \in DOMAIN inbox[pair] :
              inbox[pair][i].live => Accepts(Here, inbox[pair][i].proof)
        /\ pc = "AUTHENTICATE" /\ Answered => session = "in"
        /\ pc = "GETINFO" => session = "in"
        /\ pc = "GETINFO" /\ Answered => Version(Here) \in Said
    BY DEF SearchInv, GoodPath, IsFit
  <2>1. pc = "AUTHENTICATE" => \A i \in DOMAIN inbox'[pair] :
              inbox'[pair][i].live => Accepts(Here, inbox'[pair][i].proof)
    BY <1>5, <1>6, <2>0
  <2>2. session = "in" => session' = "in"
    BY <1>1
  <2>3. CASE ~c.live
    <3>1. outbox' = outbox /\ session' = session
      BY <1>1, <2>3
    <3>2. Said' = Said /\ Answered' = Answered
      BY <1>3, <3>1 DEF Said, Answered
    <3> QED
      BY <1>3, <1>5, <2>0, <2>1, <3>1, <3>2 DEF GoodPath
  <2>4. CASE c.live
    <3> DEFINE A == TorAnswers(s, c, a, granted)
    <3>1. Answer(A, s, c, a, granted)
      BY <1>2, <1>4, <1>5, AnswerLines
    <3>2. outbox' = outbox \o A /\ outbox = <<>> /\ s = Here /\ p = pair /\ c.verb = pc
      BY <1>1, <1>7, <2>0, <2>4 DEF Answered
    <3> HIDE DEF A
    <3>3. outbox' = A /\ 1 \in DOMAIN A /\ A # <<>>
      <4>1. A \in Seq(Lines) /\ 1 \in DOMAIN A
        BY <3>1 DEF Answer
      <4> QED
        BY <3>2, <4>1, ConcatEmptySeq
    <3>4. pc = "AUTHENTICATE" => Accepts(Here, c.proof)
      BY <1>2, <2>0, <2>4, <3>2
    <3>5. Grants(s, c, a, granted)
      BY <2>0, <3>2, <3>4 DEF Grants, Handshake, a
    <3>6. \A i \in DOMAIN outbox' : outbox'[i].ok
      BY <3>1, <3>3, <3>5 DEF Answer
    <3>7. A[1].said \in Said'
      BY <3>3 DEF Said
    <3>8. pc = "AUTHENTICATE" => session' = "in"
      BY <1>1, <2>0, <2>4, <3>2, <3>4
    <3>9. pc = "GETINFO" => a
      BY <2>0 DEF a
    <3>10. /\ pc = "PROTOCOLINFO" => AuthLine(Here) \in Said'
           /\ pc = "AUTHCHALLENGE" => Challenge(Here) \in Said'
           /\ pc = "GETINFO" => Version(Here) \in Said'
      BY <3>1, <3>2, <3>7, <3>9 DEF Answer
    <3> QED
      BY <1>3, <1>5, <2>0, <2>1, <2>2, <3>6, <3>8, <3>10 DEF GoodPath
  <2> QED BY <2>3, <2>4
<1> QED BY <1>8, <1>9, <1>10 DEF SearchInv

\* Nothing has been passed over at first.
LEMMA SearchInit == Init => SearchInv
BY DEF Init, SearchInv, InIsAuthable, GoodPath, PassedOver, FirstFitIsFound, Handshake

\* Every step keeps the search right.
LEMMA SearchStep ==
    ASSUME PlainPaths
    PROVE  TalkInv /\ SearchInv /\ [Next]_vars => SearchInv'
<1> SUFFICES ASSUME TalkInv, SearchInv, [Next]_vars PROVE SearchInv'
  OBVIOUS
<1>1. CASE \E kind \in {"detect", "ADD", "REMOVE"}, onion \in Onions \cup {"none"},
              p \in KNOWN_PAIRS : Begin(kind, onion, p)
  BY <1>1, BeginSearch DEF SomeOnion
<1>2. CASE Companion
  BY <1>2, ConnectSearch, FailuresSearch, AuthenticateSearch, ProceedSearch, FarewellSearch,
     HearSearch DEF Companion
<1>3. CASE TimesOut
  BY <1>3, FailuresSearch
<1>4. CASE Dribble
  BY <1>4, DribbleSearch
<1>5. CASE \E p \in KNOWN_PAIRS : Serve(p)
  BY <1>5, ServeSearch
<1>6. CASE UNCHANGED vars
  BY <1>6 DEF vars, clientVars, portVars, SearchInv, InIsAuthable, GoodPath, PassedOver,
     FirstFitIsFound, Said, Answered, Here
<1> QED
  BY <1>1, <1>2, <1>3, <1>4, <1>5, <1>6 DEF Next

\* tor_detector.rs:136: a search that finds a pair has found the first one with a
\* usable Tor, one the companion can authenticate to and recent enough, and a
\* search that finds none has passed over none, unless one was slow.  No space may
\* be in the path of a cookie file: such a path is read wrongly (AuthInfo::parse_line).
THEOREM TheFirstFitIsFound ==
    ASSUME PlainPaths
    PROVE  Spec => []FirstFitIsFound
<1>1. Init => SearchInv
  BY SearchInit
<1>2. TalkInv /\ SearchInv /\ [Next]_vars => SearchInv'
  BY SearchStep
<1>3. SearchInv => FirstFitIsFound
  BY DEF SearchInv
<1> QED
  BY <1>1, <1>2, <1>3, TalkIsOrderly, PTL DEF Spec
=============================================================================
