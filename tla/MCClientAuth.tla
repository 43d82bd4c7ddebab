---------------------------- MODULE MCClientAuth ----------------------------
(* ClientAuth on small instances. *)
EXTENDS ClientAuth, SequencesExt

CONSTANTS x, y, z

TwoOnions == {x, y}
ThreeOnions == {x, y, z}

\* Linux has no OS tier; on Windows the user may give each onion a tier of its
\* own, or store the same onion in both.
Linux == {"passphrase"} \X {x, y}
OneTierEach == {<<"os", x>>, <<"passphrase", y>>, <<"passphrase", z>>}
Windows == Tiers \X {x, y}

\* Retain is SelectSeq, for all lists of up to three entries of either tier.
ASSUME RetainSelects ==
    LET entries == [tier : Tiers, onion : {x, y}]
    IN  \A s \in BoundedSeq(entries, 3), kept \in SUBSET entries :
            Retain(s, kept) = SelectSeq(s, LAMBDA e : e \in kept)
=============================================================================
