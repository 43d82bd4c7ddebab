--------------------------- MODULE VersionNumbers ---------------------------
(***************************************************************************)
(* How the companion reads and compares version numbers: Tor's own         *)
(* (tor_detector.rs), Tor bundles (tor_update.rs, tor_manager.rs) and its  *)
(* own releases (update_check.rs).  A string is the pieces between the     *)
(* dots of its longest prefix of digits and dots, and whether anything     *)
(* follows that prefix; a piece that is not a u32 is Bad.                  *)
(***************************************************************************)
EXTENDS Integers, Sequences, Functions

Bad == -1
NoVersion == <<>>

Text(core, rest) == [core |-> core, rest |-> rest]
Texts == [core : Seq(Nat \cup {Bad}), rest : BOOLEAN]

At3(pieces, i) == IF i <= Len(pieces) THEN pieces[i] ELSE 0

\* TorVersion::parse: unparsable pieces are skipped, three must remain.
Parsed(pieces) ==
    LET good[i \in 0..Len(pieces)] ==
          IF i = 0 THEN <<>>
          ELSE IF pieces[i] = Bad THEN good[i - 1] ELSE Append(good[i - 1], pieces[i])
    IN  good[Len(pieces)]

TorVersion(text) ==
    LET good == Parsed(text.core)
    IN  IF Len(good) < 3 THEN NoVersion
        ELSE <<good[1], good[2], good[3], At3(good, 4)>>

\* Three numbers, missing ones 0; an unparsable piece spoils the whole.
Triple(pieces) ==
    LET three == <<At3(pieces, 1), At3(pieces, 2), At3(pieces, 3)>>
    IN  IF \E i \in 1..3 : three[i] = Bad THEN NoVersion ELSE three

\* update_check::parse_semver ignores what follows the prefix; parse_version and
\* tor_manager::parse_semver do not: there the last piece runs on into it.
ReleaseVersion(text) == Triple(text.core)
BundleVersion(text) ==
    Triple([i \in DOMAIN text.core |->
              IF i = Len(text.core) /\ text.rest THEN Bad ELSE text.core[i]])

\* Mutant: each number is compared by itself.
GreaterAnywhere(a, b) == \E i \in DOMAIN a : a[i] > b[i]

\* Rust compares tuples from the left.
Greater(a, b) ==
    \E i \in DOMAIN a : a[i] > b[i] /\ \A j \in 1..(i - 1) : a[j] = b[j]

\* TorVersion::is_at_least.
AtLeast(a, b) == a = b \/ Greater(a, b)

\* The loop all three searches share, over the versions of the items, NoVersion
\* where an item is skipped: the first of the greatest.
Best(versions) ==
    LET best[i \in 0..Len(versions)] ==
          IF i = 0 THEN NoVersion
          ELSE IF /\ versions[i] # NoVersion
                  /\ best[i - 1] = NoVersion \/ Greater(versions[i], best[i - 1])
               THEN versions[i] ELSE best[i - 1]
    IN  best[Len(versions)]

\* discover_latest: hrefs of nothing but digits and dots.
DiscoverLatest(hrefs) ==
    Best([i \in DOMAIN hrefs |->
            IF hrefs[i].rest THEN NoVersion ELSE BundleVersion(hrefs[i])])

\* installed_version: directories that hold an extracted tree.
InstalledVersion(dirs) ==
    Best([i \in DOMAIN dirs |->
            IF dirs[i].extracted THEN BundleVersion(dirs[i].name) ELSE NoVersion])

\* update_check::check, of the releases the page lists.
CheckForUpdate(releases, current) ==
    LET latest == Best([i \in DOMAIN releases |->
                          IF releases[i].prerelease \/ ~releases[i].companion
                          THEN NoVersion ELSE ReleaseVersion(releases[i].tag)])
    IN  [latest |-> latest,
         update_available |-> latest # NoVersion /\ Greater(latest, current)]

---------------------------------------------------------------------------
\* The order that version numbers are meant to have: the first number in which
\* they differ decides, and no version comes before any.
Precedes(v, w) ==
    /\ w # NoVersion
    /\ \/ v = NoVersion
       \/ v[1] < w[1]
       \/ v[1] = w[1] /\ v[2] < w[2]
       \/ v[1] = w[1] /\ v[2] = w[2] /\ v[3] < w[3]

IsNewest(v, versions) ==
    /\ v \in versions \cup {NoVersion}
    /\ \A w \in versions : ~Precedes(v, w)

\* What each search is to find, in lists of any length.
DiscoversNewest(hrefs) ==
    IsNewest(DiscoverLatest(hrefs),
             {Triple(h.core) : h \in {t \in Range(hrefs) : ~t.rest}})

ReportsNewest(dirs) ==
    IsNewest(InstalledVersion(dirs),
             {BundleVersion(d.name) : d \in {e \in Range(dirs) : e.extracted}})

AnnouncesNewer(releases, current) ==
    LET stable == {r \in Range(releases) : r.companion /\ ~r.prerelease}
        answer == CheckForUpdate(releases, current)
    IN  /\ IsNewest(answer.latest, {ReleaseVersion(r.tag) : r \in stable})
        /\ answer.update_available =
              \E r \in stable : Precedes(current, ReleaseVersion(r.tag))

\* Bounds: two pieces are enough for an order to be wrong, and two items for
\* one to be passed over.
Pieces == {Bad, 0, 1, 2}
ShortTexts == {Text(core, rest) : core \in UNION {[1..n -> Pieces] : n \in 1..2},
                                  rest \in BOOLEAN}
Pairs(S) == {<<a, b>> : a \in S, b \in S}

\* tor_update.rs:90-91, tor_manager.rs:144-146, update_check.rs:36: each search
\* ends with the greatest of the versions it may choose from, and an update is
\* announced if and only if some stable companion release is newer.
NewestIsChosen ==
    \A names \in Pairs(ShortTexts) :
       /\ DiscoversNewest(names)
       /\ \A flags \in Pairs(BOOLEAN) :
             /\ ReportsNewest([i \in 1..2 |-> [name |-> names[i], extracted |-> flags[i]]])
             /\ \A mine \in 0..2 :
                   AnnouncesNewer([i \in 1..2 |-> [tag |-> names[i], companion |-> TRUE,
                                                   prerelease |-> flags[i]]],
                                  <<mine, 1, 0>>)
=============================================================================
