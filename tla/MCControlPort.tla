--------------------------- MODULE MCControlPort ---------------------------
(* ControlPort on small instances. *)
EXTENDS ControlPort

\* Tors as they are found on a machine: with and without a password, a cookie
\* of their own or one another Tor has overwritten, recent and old.
Tor(methods, file, core) ==
    [speaks |-> "tor", methods |-> methods, cookie |-> "own", file |-> file,
     spaced |-> FALSE, version |-> Text(core, FALSE)]
Other(speaks) == [Tor({}, "none", <<0>>) EXCEPT !.speaks = speaks]

Both == {"COOKIE", "SAFECOOKIE"}
Unspaced ==
    {Tor({"NULL"}, "none", <<0, 4, 8, 12>>), Tor({"NULL"}, "none", <<0, 4, 6, 99>>),
     Tor(Both, "own", <<0, 4, 7>>), Tor(Both, "theirs", <<0, 4, 8, 12>>),
     Tor(Both, "short", <<0, 4, 8, 12>>),
     Tor({"COOKIE"}, "own", <<1, 0, 0, 0>>), Tor({"COOKIE"}, "theirs", <<0, 4, 8, 12>>),
     Tor({"COOKIE"}, "unreadable", <<0, 4, 8, 12>>),
     Tor({"HASHEDPASSWORD"}, "none", <<0, 4, 8, 12>>),
     Other("chatter"), Other("web"), Other("nothing")}

\* Tor Browser in its default folder.
Spaced == {[Tor(Both, "own", <<0, 4, 8, 12>>) EXCEPT !.spaced = TRUE]}
=============================================================================
