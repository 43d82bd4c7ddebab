---------------------------- MODULE ControlPort ----------------------------
(***************************************************************************)
(* The companion's conversations with control ports (tor_detector.rs, and  *)
(* add/remove of client_auth.rs): connect, PROTOCOLINFO, authenticate, then*)
(* one question or command, each answered by lines that are read up to the *)
(* final one.  Whatever listens on the port is external: Tor, some other   *)
(* program, or nothing.  A command outlives the connection that sent it.   *)
(***************************************************************************)
EXTENDS VersionNumbers, FiniteSets

CONSTANTS
    NumPairs,    \* KNOWN_PAIRS are 1..NumPairs, in order of priority
    Servers,     \* what may listen on a control port
    Onions,      \* addresses client keys are registered for
    Cookies,     \* the secrets of control cookies
    MaxOps       \* bound on operations

MIN_REUSABLE_TOR_VERSION == <<0, 4, 7, 0>>

KNOWN_PAIRS == 1..NumPairs
Methods == {"NULL", "COOKIE", "SAFECOOKIE", "HASHEDPASSWORD"}
\* What its cookie file holds, "none" when PROTOCOLINFO names none.
Files == Cookies \cup {"short", "unreadable", "none"}

ASSUME ControlAssumption ==
    /\ NumPairs \in Nat \ {0} /\ MaxOps \in Nat
    /\ \A s \in Servers :
          /\ s.speaks \in {"tor", "chatter", "web", "nothing"}
          /\ s.methods \subseteq Methods
          /\ s.cookie \in Cookies /\ s.file \in Files /\ s.spaced \in BOOLEAN
          /\ s.version \in Texts
    /\ Cookies \cap {"short", "unreadable", "none"} = {}

VARIABLES
    server,      \* what listens on each control port
    op,          \* the operation under way: kind, onion
    pair,        \* the pair it talks to
    pc,          \* "idle", "connect", or the command whose answer is awaited
    status,      \* the answer: "reading", then "ok" or "refused"
    heard,       \* what its lines have said so far
    done,        \* the verdict on ADD or REMOVE, kept while QUIT is answered
    inbox,       \* per port, the commands it has not handled, in order
    outbox,      \* the lines on their way to the companion
    session,     \* the port's view of the connection: "new", "in", "closed"
    registered,  \* per port, the onions whose key it holds
    result,      \* how the last operation ended
    slow,        \* ghost: it has given up on a port because of a timeout
    ops          \* operations so far

clientVars == <<op, pair, pc, status, heard, done, result, slow, ops>>
portVars == <<inbox, outbox, session, registered>>
vars == <<server, clientVars, portVars>>

Verbs == {"PROTOCOLINFO", "AUTHCHALLENGE", "AUTHENTICATE", "GETINFO", "ADD", "REMOVE", "QUIT"}
\* A cookie, or a hash of it and both nonces that only who knows it can make.
Proof == [by : {"tor", "companion", "cookie", "nobody"}, cookie : Files]
Nobody == [by |-> "nobody", cookie |-> "none"]
Nothing == [topic |-> "nothing"]

\* live: the connection that sent it is still open.
Command == [verb : Verbs, proof : Proof, onion : Onions \cup {"none"}, live : BOOLEAN]

TypeOK ==
    /\ server \in [KNOWN_PAIRS -> Servers]
    /\ op \in [kind : {"none", "detect", "ADD", "REMOVE"}, onion : Onions \cup {"none"}]
    /\ pair \in KNOWN_PAIRS
    /\ pc \in Verbs \cup {"idle", "connect"}
    /\ status \in {"reading", "ok", "refused"}
    /\ \A said \in heard : said.topic \in {"nothing", "auth", "challenge", "version"}
    /\ done \in BOOLEAN
    /\ \A p \in KNOWN_PAIRS : \A i \in DOMAIN inbox[p] : inbox[p][i] \in Command
    /\ \A i \in DOMAIN outbox : outbox[i].answers \in Verbs \cup {"nothing"}
                                /\ outbox[i].ok \in BOOLEAN
    /\ session \in {"new", "in", "closed"}
    /\ registered \in [KNOWN_PAIRS -> SUBSET Onions]
    /\ result \in [kind : {"none", "detect", "ADD", "REMOVE"}, onion : Onions \cup {"none"},
                   ok : BOOLEAN, pair : KNOWN_PAIRS]
    /\ slow \in BOOLEAN
    /\ ops \in 0..MaxOps

Init ==
    /\ server \in [KNOWN_PAIRS -> Servers]
    /\ op = [kind |-> "none", onion |-> "none"]
    /\ pair = 1
    /\ pc = "idle" /\ status = "reading" /\ heard = {} /\ done = FALSE
    /\ inbox = [p \in KNOWN_PAIRS |-> <<>>]
    /\ outbox = <<>>
    /\ session = "closed"
    /\ registered = [p \in KNOWN_PAIRS |-> {}]
    /\ result = [kind |-> "none", onion |-> "none", ok |-> FALSE, pair |-> 1]
    /\ slow = FALSE
    /\ ops = 0

Here == server[pair]

---------------------------------------------------------------------------
\* The program at the other end (external).
Line(answers, final, ok, said) ==
    [answers |-> answers, final |-> final, ok |-> ok, said |-> said]
Final(c, ok) == <<Line(c.verb, TRUE, ok, Nothing)>>

\* The path of the cookie file is quoted and may hold a space.
AuthLine(s) == [topic |-> "auth", methods |-> s.methods, file |-> s.file,
                spaced |-> s.spaced]

Accepts(s, proof) ==
    \/ "NULL" \in s.methods
    \/ {"COOKIE", "SAFECOOKIE"} \cap s.methods # {} /\ proof.cookie = s.cookie
       /\ proof.by \in {"companion", "cookie"}

TorAnswers(s, c, authenticated, granted) ==
    CASE c.verb = "PROTOCOLINFO" ->
            <<Line(c.verb, FALSE, TRUE, AuthLine(s))>> \o Final(c, TRUE)
      [] c.verb = "AUTHCHALLENGE" ->
            <<Line(c.verb, TRUE, "SAFECOOKIE" \in s.methods,
                   [topic |-> "challenge", proof |-> [by |-> "tor", cookie |-> s.cookie]])>>
      [] c.verb = "AUTHENTICATE" -> Final(c, Accepts(s, c.proof))
      [] c.verb = "GETINFO" /\ authenticated ->
            <<Line(c.verb, FALSE, TRUE, [topic |-> "version", version |-> s.version])>>
            \o Final(c, TRUE)
      [] c.verb \in {"ADD", "REMOVE"} /\ authenticated -> Final(c, granted)
      [] c.verb = "QUIT" -> Final(c, TRUE)
      [] OTHER -> Final(c, FALSE)

\* A command handled: its effect, and its answer if somebody still listens.  A
\* command whose connection is gone was sent by an authenticated one.
Serve(p) ==
    /\ inbox[p] # <<>>
    /\ inbox' = [inbox EXCEPT ![p] = Tail(@)]
    /\ LET c == Head(inbox[p])
           s == server[p]
           authenticated == ~c.live \/ session = "in"
       IN  \E granted \in IF c.verb \in {"ADD", "REMOVE"} THEN BOOLEAN ELSE {TRUE} :
             /\ LET obeyed == s.speaks = "tor" /\ authenticated /\ granted
                IN  registered' = [registered EXCEPT ![p] =
                      CASE obeyed /\ c.verb = "ADD" -> @ \cup {c.onion}
                        [] obeyed /\ c.verb = "REMOVE" -> @ \ {c.onion}
                        [] OTHER -> @]
             /\ session' = IF c.live /\ c.verb = "AUTHENTICATE" /\ s.speaks = "tor"
                              /\ Accepts(s, c.proof)
                           THEN "in" ELSE session
             /\ outbox' = CASE c.live /\ s.speaks = "tor" ->
                                  outbox \o TorAnswers(s, c, authenticated, granted)
                            [] c.live /\ s.speaks = "chatter" -> outbox \o Final(c, FALSE)
                            [] OTHER -> outbox
    /\ UNCHANGED <<server, clientVars>>

\* Some other protocol's lines, none of them final, for as long as it likes.
Dribble ==
    /\ pc \in Verbs
    /\ Here.speaks = "web"
    /\ outbox = <<>>
    /\ outbox' = <<Line("nothing", FALSE, TRUE, Nothing)>>
    /\ UNCHANGED <<server, clientVars, inbox, session, registered>>

---------------------------------------------------------------------------
\* The companion.
Post(verb, proof, onion) ==
    /\ inbox' = [inbox EXCEPT ![pair] =
                   Append(@, [verb |-> verb, proof |-> proof, onion |-> onion, live |-> TRUE])]
    /\ pc' = verb
    /\ status' = "reading"
    /\ heard' = {}

Send(verb, proof, onion) ==
    /\ Post(verb, proof, onion)
    /\ UNCHANGED <<op, pair, done, result, outbox, session>>

\* The connection is dropped: nobody reads its answers any more, but what it has
\* sent may still be handled.
Unheard(queue) == [i \in DOMAIN queue |-> [queue[i] EXCEPT !.live = FALSE]]

Drop ==
    /\ inbox' = [inbox EXCEPT ![pair] = Unheard(@)]
    /\ outbox' = <<>>
    /\ session' = "closed"
    /\ status' = "reading"
    /\ heard' = {}

End(ok) ==
    /\ pc' = "idle"
    /\ result' = [kind |-> op.kind, onion |-> op.onion, ok |-> ok, pair |-> pair]
    /\ op' = [kind |-> "none", onion |-> "none"]
    /\ Drop
    /\ UNCHANGED <<pair, done>>

\* detect_existing goes on with the next pair; add and remove fail.
GiveUp ==
    IF op.kind = "detect" /\ pair < NumPairs
    THEN /\ pair' = pair + 1
         /\ pc' = "connect"
         /\ Drop
         /\ UNCHANGED <<op, result, done>>
    ELSE End(FALSE)

Begin(kind, onion, p) ==
    /\ pc = "idle"
    /\ ops < MaxOps
    /\ kind = "detect" => p = 1
    /\ (kind = "detect") = (onion = "none")
    /\ pc' = "connect"
    /\ op' = [kind |-> kind, onion |-> onion]
    /\ pair' = p
    /\ slow' = FALSE
    /\ ops' = ops + 1
    /\ result' = [result EXCEPT !.kind = "none"]
    /\ UNCHANGED <<server, portVars, status, heard, done>>

\* Connecting, and the first command; some programs greet whoever connects.
Connect ==
    /\ pc = "connect"
    /\ Here.speaks # "nothing"
    /\ Post("PROTOCOLINFO", Nobody, "none")
    /\ session' = "new"
    /\ outbox' = IF Here.speaks = "chatter"
                 THEN <<Line("nothing", TRUE, TRUE, Nothing)>> ELSE <<>>
    /\ UNCHANGED <<server, registered, op, pair, done, result, slow, ops>>

Refused ==
    /\ pc = "connect"
    /\ Here.speaks = "nothing"
    /\ GiveUp
    /\ UNCHANGED <<server, registered, slow, ops>>

\* Mutant: the first line is taken for the whole answer.
HearFirst ==
    /\ pc \in Verbs /\ status = "reading" /\ outbox # <<>>
    /\ heard' = heard \cup {Head(outbox).said}
    /\ status' = IF Head(outbox).ok THEN "ok" ELSE "refused"
    /\ outbox' = Tail(outbox)
    /\ UNCHANGED <<server, op, pair, pc, done, result, slow, ops, inbox, session, registered>>

\* read_response, line by line.
Hear ==
    /\ pc \in Verbs /\ status = "reading" /\ outbox # <<>>
    /\ heard' = heard \cup {Head(outbox).said}
    /\ status' = CASE ~Head(outbox).final -> "reading"
                   [] Head(outbox).final /\ Head(outbox).ok -> "ok"
                   [] OTHER -> "refused"
    /\ outbox' = Tail(outbox)
    /\ UNCHANGED <<server, op, pair, pc, done, result, slow, ops, inbox, session, registered>>

\* READ_TIMEOUT, or the port has closed the connection.  What QUIT would have
\* been answered does not matter.
ReadFails ==
    /\ pc \in Verbs /\ status = "reading" /\ outbox = <<>>
    /\ IF pc = "QUIT" THEN End(done) ELSE GiveUp
    /\ slow' = TRUE
    /\ UNCHANGED <<server, registered, ops>>

\* Mutant: only the connection is given a time limit.
TimesOutConnecting ==
    /\ pc = "connect"
    /\ GiveUp
    /\ slow' = TRUE
    /\ UNCHANGED <<server, registered, ops>>

\* HANDSHAKE_TIMEOUT of a pair, CONTROL_OP_TIMEOUT of an operation.
TimesOut ==
    /\ pc # "idle"
    /\ GiveUp
    /\ slow' = TRUE
    /\ UNCHANGED <<server, registered, ops>>

IsRefused ==
    /\ status = "refused"
    /\ pc \in {"PROTOCOLINFO", "AUTHCHALLENGE", "AUTHENTICATE", "GETINFO"}
    /\ GiveUp
    /\ UNCHANGED <<server, registered, slow, ops>>

\* AuthInfo::parse_line splits the line at every space, those of the path too:
\* what is left of such a path names no file.
AuthLines == {said \in heard : said.topic = "auth"}
Offered == UNION {said.methods : said \in AuthLines}
CookieFile ==
    IF \E said \in AuthLines : said.file # "none"
    THEN LET said == CHOOSE a \in AuthLines : a.file # "none"
         IN  IF said.spaced THEN "unreadable" ELSE said.file
    ELSE "none"

\* authenticate: NULL, then SAFECOOKIE, then COOKIE; no second method is tried.
Authenticate ==
    /\ pc = "PROTOCOLINFO" /\ status = "ok"
    /\ CASE "NULL" \in Offered -> Send("AUTHENTICATE", Nobody, "none")
         [] "NULL" \notin Offered /\ CookieFile # "none" /\ "SAFECOOKIE" \in Offered ->
               IF CookieFile \in Cookies THEN Send("AUTHCHALLENGE", Nobody, "none")
                                         ELSE GiveUp
         [] "NULL" \notin Offered /\ CookieFile # "none"
            /\ Offered \cap {"SAFECOOKIE", "COOKIE"} = {"COOKIE"} ->
               IF CookieFile # "unreadable"
               THEN Send("AUTHENTICATE", [by |-> "cookie", cookie |-> CookieFile], "none")
               ELSE GiveUp
         [] OTHER -> GiveUp
    /\ UNCHANGED <<server, registered, slow, ops>>

\* Mutant: SERVERHASH is not compared.
ProveAnyway ==
    /\ pc = "AUTHCHALLENGE" /\ status = "ok"
    /\ Send("AUTHENTICATE", [by |-> "companion", cookie |-> Here.file], "none")
    /\ UNCHANGED <<server, registered, slow, ops>>

\* safecookie_auth: the companion proves the cookie to a port that has proved it.
\* (The cookie was read before the challenge.)
Prove ==
    /\ pc = "AUTHCHALLENGE" /\ status = "ok"
    /\ IF \E said \in heard : said.topic = "challenge"
                               /\ said.proof = [by |-> "tor", cookie |-> Here.file]
       THEN Send("AUTHENTICATE", [by |-> "companion", cookie |-> Here.file], "none")
       ELSE GiveUp
    /\ UNCHANGED <<server, registered, slow, ops>>

Ask ==
    /\ pc = "AUTHENTICATE" /\ status = "ok"
    /\ IF op.kind = "detect" THEN Send("GETINFO", Nobody, "none")
                             ELSE Send(op.kind, Nobody, op.onion)
    /\ UNCHANGED <<server, registered, slow, ops>>

\* verify_pair: old enough, or the next pair.  (QUIT goes out unanswered.)
CheckVersion ==
    /\ pc = "GETINFO" /\ status = "ok"
    /\ IF \E said \in heard :
             /\ said.topic = "version"
             /\ TorVersion(said.version) # NoVersion
             /\ AtLeast(TorVersion(said.version), MIN_REUSABLE_TOR_VERSION)
       THEN End(TRUE) ELSE GiveUp
    /\ UNCHANGED <<server, registered, slow, ops>>

\* add and remove take their leave before they report the verdict.
Leave ==
    /\ pc \in {"ADD", "REMOVE"} /\ status # "reading"
    /\ done' = (status = "ok")
    /\ Post("QUIT", Nobody, "none")
    /\ UNCHANGED <<server, registered, slow, ops, op, pair, result, outbox, session>>

\* Mutant: what counts is the answer to QUIT.
ReportQuit ==
    /\ pc = "QUIT" /\ status # "reading"
    /\ End(status = "ok")
    /\ UNCHANGED <<server, registered, slow, ops>>

Report ==
    /\ pc = "QUIT" /\ status # "reading"
    /\ End(done)
    /\ UNCHANGED <<server, registered, slow, ops>>

Companion ==
    \/ Connect
    \/ Refused
    \/ Hear
    \/ ReadFails
    \/ IsRefused
    \/ Authenticate
    \/ Prove
    \/ Ask
    \/ CheckVersion
    \/ Leave
    \/ Report

Next ==
    \/ \E kind \in {"detect", "ADD", "REMOVE"}, onion \in Onions \cup {"none"},
          p \in KNOWN_PAIRS : Begin(kind, onion, p)
    \/ Companion
    \/ TimesOut
    \/ Dribble
    \/ \E p \in KNOWN_PAIRS : Serve(p)

Spec == Init /\ [][Next]_vars

\* The companion goes on and its timers fire; nothing is assumed of the ports.
FairSpec == Spec /\ WF_vars(Companion) /\ WF_vars(TimesOut)

---------------------------------------------------------------------------
\* What a usable Tor is: one the companion can authenticate to, recent enough.
IsRecent(v) == v[1] > 0 \/ v[2] > 4 \/ (v[2] = 4 /\ v[3] >= 7)
IsFit(s) ==
    /\ s.speaks = "tor"
    /\ \/ "NULL" \in s.methods
       \/ s.methods \cap {"COOKIE", "SAFECOOKIE"} # {} /\ s.file = s.cookie
    /\ TorVersion(s.version) # NoVersion
    /\ IsRecent(TorVersion(s.version))

\* tor_detector.rs:136: the first pair with a usable Tor is found (unless one was
\* given up because it was slow), and nothing else is.
FirstFitIsFound ==
    result.kind = "detect" =>
       /\ result.ok => IsFit(server[result.pair])
       /\ ~slow => IF result.ok
                   THEN \A p \in 1..(result.pair - 1) : ~IsFit(server[p])
                   ELSE \A p \in KNOWN_PAIRS : ~IsFit(server[p])

\* tor_detector.rs:391-423: every line read from a Tor belongs to the answer to
\* the last command; nothing of an answer is left when the next one goes out.
RepliesAnswerTheirCommand ==
    Here.speaks = "tor" => \A i \in DOMAIN outbox : status = "reading" /\ outbox[i].answers = pc

\* client_auth.rs:91-126: after Ok the key is registered, or gone, and no command
\* given up earlier is left that could undo it.
OkMeansDone ==
    result.kind \in {"ADD", "REMOVE"} /\ result.ok =>
       /\ (result.kind = "ADD") = (result.onion \in registered[result.pair])
       /\ \A i \in DOMAIN inbox[result.pair] : inbox[result.pair][i].onion # result.onion

\* tor_detector.rs:326-334: a hash over the cookie goes only to a port that knows
\* that cookie.
ProofsGoToTheKnowing ==
    \A p \in KNOWN_PAIRS : \A i \in DOMAIN inbox[p] :
       inbox[p][i].proof.by = "companion" => inbox[p][i].proof.cookie = server[p].cookie

\* tor_detector.rs:139, client_auth.rs:95: whatever listens on the port, the
\* companion gets its answer and can go on.
OperationEnds == pc # "idle" ~> pc = "idle"
=============================================================================
