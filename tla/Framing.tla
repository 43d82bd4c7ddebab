------------------------------ MODULE Framing ------------------------------
(***************************************************************************)
(* How messages cross the pipes (messaging.rs): a little-endian length of  *)
(* four bytes, and as many bytes of JSON.                                  *)
(***************************************************************************)
EXTENDS Naturals, Sequences, FiniteSets

CONSTANTS
    Base,                 \* values of a byte: 256
    MAX_INBOUND_BYTES,    \* 1 MiB
    JsonTexts             \* the bytes that parse as an InboundMessage

Width == 4
Lengths == Base * Base * Base * Base

ASSUME FramingAssumption ==
    /\ Base \in Nat /\ Base > 1
    /\ MAX_INBOUND_BYTES \in Nat /\ MAX_INBOUND_BYTES + 1 < Lengths
    /\ <<>> \notin JsonTexts

ToLE(n) ==
    LET q == n \div Base
        r == q \div Base
        s == r \div Base
    IN  <<n % Base, q % Base, r % Base, s % Base>>
\* Mutant: most significant byte first.
FromBE(b) == b[4] + (Base * (b[3] + (Base * (b[2] + (Base * b[1])))))
FromLE(b) == b[1] + (Base * (b[2] + (Base * (b[3] + (Base * b[4])))))

\* write_message.
Frame(payload) == ToLE(Len(payload)) \o payload

\* read_message, from position `at` of the bytes that ever arrive: what it
\* returns, and where the next call begins.
ReadMessage(bytes, at) ==
    LET left == Len(bytes) - at
        len == FromLE(SubSeq(bytes, at + 1, at + Width))
        body == SubSeq(bytes, at + Width + 1, at + Width + len)
        Outcome(what) == [what |-> what, message |-> <<>>, at |-> at]
    IN  IF left < Width THEN Outcome("eof")
        ELSE IF len = 0 \/ len > MAX_INBOUND_BYTES THEN Outcome("error")
        ELSE IF left < Width + len THEN Outcome("error")
        ELSE IF body \notin JsonTexts THEN Outcome("error")
        ELSE [what |-> "message", message |-> body, at |-> at + Width + len]

\* The loop of run_native_messaging: messages until end of file or an error.  A
\* turn takes a length and a byte at least, or is the last one.
Turn(bytes, s) ==
    LET r == ReadMessage(bytes, s.at)
    IN  IF s.end # "none" THEN s
        ELSE IF r.what # "message" THEN [s EXCEPT !.end = r.what]
        ELSE [messages |-> Append(s.messages, r.message), end |-> "none", at |-> r.at]

ReadAll(bytes) ==
    LET last == (Len(bytes) \div (Width + 1)) + 1
        turn[i \in 0..last] ==
          IF i = 0 THEN [messages |-> <<>>, end |-> "none", at |-> 0]
          ELSE Turn(bytes, turn[i - 1])
    IN  turn[last]

---------------------------------------------------------------------------
\* The bytes of a stream, and where its i-th message ends.
Bytes(stream) ==
    LET first[i \in 0..Len(stream)] ==
          IF i = 0 THEN <<>> ELSE first[i - 1] \o Frame(stream[i])
    IN  first[Len(stream)]

End(stream, i) ==
    LET ends[j \in 0..Len(stream)] ==
          IF j = 0 THEN 0 ELSE ends[j - 1] + Width + Len(stream[j])
    IN  ends[i]

IsReadable(payload) == Len(payload) <= MAX_INBOUND_BYTES /\ payload \in JsonTexts

\* How many messages arrive when only the first k bytes do, up to the first
\* that cannot be read.
Arrived(stream, k) ==
    Cardinality({i \in 1..Len(stream) :
                    End(stream, i) <= k /\ \A j \in 1..i : IsReadable(stream[j])})

\* Wherever the bytes end, exactly these are read, and what is left of the rest
\* is told apart: the end of the input if it is less than a length, an error
\* otherwise.
CutsAreNoticed(stream) ==
    LET bytes == Bytes(stream)
    IN  \A k \in 0..Len(bytes) :
           LET n == Arrived(stream, k)
               read == ReadAll(SubSeq(bytes, 1, k))
           IN  /\ read.messages = SubSeq(stream, 1, n)
               /\ read.end = IF k - End(stream, n) < Width THEN "eof" ELSE "error"

\* Bounds: payloads of up to one byte more than may come in, two in a row.
Payloads == UNION {[1..n -> 0..(Base - 1)] : n \in 1..(MAX_INBOUND_BYTES + 1)}
Streams == {<<>>} \cup {<<a>> : a \in Payloads} \cup {<<a, b>> : a \in Payloads, b \in Payloads}
AnyTwoSurviveCuts == \A stream \in Streams : CutsAreNoticed(stream)
=============================================================================
