----------------------------- MODULE TorInstall -----------------------------
(***************************************************************************)
(* How a Tor binary gets on the disk (tor_manager.rs, tor_update.rs):      *)
(* ensure_binary resolves a version, then downloads, verifies and extracts *)
(* it, falling back to the pinned version.  The directory is shared by     *)
(* every companion of the user (one per Firefox profile, and the tray),    *)
(* each of which may be killed between any two steps.  Files are as on a   *)
(* POSIX disk: a writer keeps the file it opened, whatever its name is.    *)
(***************************************************************************)
EXTENDS FiniteSets, VersionNumbers

CONSTANTS
    Installers,      \* processes that may run ensure_binary
    Versions,        \* bundle versions in existence, in order
    Names,           \* what each is called
    Pinned,          \* BUNDLE_VERSION
    NetworkFails,    \* whether a transfer may fail
    BadDownloads,    \* whether the server may send other bytes than the signed
    MayCrash,        \* whether an installer may be killed
    DiskFills        \* whether the disk may be full while it unpacks

ASSUME InstallAssumption ==
    /\ Versions \subseteq Nat /\ IsFiniteSet(Versions)
    /\ Pinned \in Versions
    /\ NetworkFails \in BOOLEAN /\ BadDownloads \in BOOLEAN /\ MayCrash \in BOOLEAN
    /\ DiskFills \in BOOLEAN

ASSUME NamesAssumption ==
    /\ \A v \in Versions : Names[v] \in Texts /\ BundleVersion(Names[v]) # NoVersion
    /\ \A v, w \in Versions :
          v < w => Precedes(BundleVersion(Names[v]), BundleVersion(Names[w]))

VARIABLES
    pc,         \* where each installer is
    target,     \* the version it installs
    resolved,   \* the version resolve_bundle gave it
    part,       \* per version, the .part file next to the archive
    archive,    \* per version, the archive
    tree,       \* per version and file, the extracted file
    extracted,  \* versions that have a directory for their tree
    writes,     \* the file an installer has open: "part", "archive" or "none"
    source,     \* what the archive an installer unpacks holds
    unpacked,   \* the files it has unpacked so far
    cutShort    \* ghost: a kill or a full disk left a tree emptied, not refilled

vars == <<pc, target, resolved, part, archive, tree, extracted, writes, source, unpacked,
          cutShort>>
diskVars == <<part, archive, tree, extracted>>

Steps == {"idle", "check", "download", "write", "rename", "verify", "clear",
          "open", "unpack", "returned", "failed"}
Contents == {"none", "torn", "good", "bad"}

\* An archive holds the executable and a file the executable needs.
Files == {"binary", "library"}

Empty == [f \in Files |-> "none"]
Whole == [f \in Files |-> "good"]

TypeOK ==
    /\ pc \in [Installers -> Steps]
    /\ target \in [Installers -> Versions]
    /\ resolved \in [Installers -> Versions]
    /\ part \in [Versions -> Contents]
    /\ archive \in [Versions -> Contents]
    /\ tree \in [Versions -> [Files -> Contents]]
    /\ extracted \subseteq Versions
    /\ writes \in [Installers -> {"none", "part", "archive"}]
    /\ source \in [Installers -> Contents]
    /\ unpacked \in [Installers -> SUBSET Files]
    /\ cutShort \in BOOLEAN

Init ==
    /\ pc = [p \in Installers |-> "idle"]
    /\ target = [p \in Installers |-> Pinned]
    /\ resolved = [p \in Installers |-> Pinned]
    /\ part = [v \in Versions |-> "none"]
    /\ archive = [v \in Versions |-> "none"]
    /\ tree = [v \in Versions |-> Empty]
    /\ extracted = {}
    /\ writes = [p \in Installers |-> "none"]
    /\ source = [p \in Installers |-> "none"]
    /\ unpacked = [p \in Installers |-> {}]
    /\ cutShort = FALSE

---------------------------------------------------------------------------
At(p, step) == pc[p] = step
Goto(p, step) == pc' = [pc EXCEPT ![p] = step]

\* install_from failed: once, the pinned version is tried instead; a failure of
\* the pinned version itself is the failure of ensure_binary.
Fail(p) ==
    IF resolved[p] # Pinned /\ target[p] # Pinned
    THEN Goto(p, "check") /\ target' = [target EXCEPT ![p] = Pinned]
    ELSE Goto(p, "failed") /\ UNCHANGED target

\* resolve_bundle never fails: the newest version the listing names, when it is
\* newer than the pinned one, its sums could be fetched, their signature
\* verifies and they list this platform's archive; the pinned one otherwise.
Resolve(p) ==
    /\ pc[p] \in {"idle", "returned", "failed"}
    /\ Goto(p, "check")
    /\ \E latest \in Versions, fetched, signed, listed \in BOOLEAN :
          /\ ~fetched => NetworkFails
          /\ resolved' = [resolved EXCEPT
                ![p] = IF latest > Pinned /\ fetched /\ signed /\ listed
                       THEN latest ELSE Pinned]
    /\ target' = [target EXCEPT ![p] = resolved'[p]]
    /\ UNCHANGED <<diskVars, writes, source, unpacked, cutShort>>

\* Mutant: an archive that exists is not verified again.
CheckTrustsArchive(p) ==
    /\ At(p, "check")
    /\ IF tree[target[p]]["binary"] # "none" THEN Goto(p, "returned")
       ELSE IF archive[target[p]] = "none" THEN Goto(p, "download")
       ELSE Goto(p, "clear")
    /\ UNCHANGED <<target, resolved, diskVars, writes, source, unpacked, cutShort>>

\* Mutant: the binary is extracted anew at each start.
CheckReinstalls(p) ==
    /\ At(p, "check")
    /\ IF archive[target[p]] = "none" THEN Goto(p, "download") ELSE Goto(p, "verify")
    /\ UNCHANGED <<target, resolved, diskVars, writes, source, unpacked, cutShort>>

\* A binary that exists is taken as it is; an archive that exists is not
\* downloaded again.
Check(p) ==
    /\ At(p, "check")
    /\ IF tree[target[p]]["binary"] # "none" THEN Goto(p, "returned")
       ELSE IF archive[target[p]] = "none" THEN Goto(p, "download")
       ELSE Goto(p, "verify")
    /\ UNCHANGED <<target, resolved, diskVars, writes, source, unpacked, cutShort>>

\* download: the whole body first; then fs::write opens (and empties) the
\* .part file, fills it, and it is renamed to the archive.
DownloadFails(p) ==
    /\ At(p, "download")
    /\ NetworkFails
    /\ Fail(p)
    /\ UNCHANGED <<resolved, diskVars, writes, source, unpacked, cutShort>>

OpenPart(p) ==
    /\ At(p, "download")
    /\ Goto(p, "write")
    /\ part' = [part EXCEPT ![target[p]] = "torn"]
    /\ writes' = [writes EXCEPT ![p] = "part"]
    /\ UNCHANGED <<target, resolved, archive, tree, extracted, source, unpacked, cutShort>>

WritePart(p) ==
    /\ At(p, "write")
    /\ Goto(p, "rename")
    /\ \E body \in {"good"} \cup (IF BadDownloads THEN {"bad"} ELSE {}) :
          /\ part' = IF writes[p] = "part"
                     THEN [part EXCEPT ![target[p]] = body] ELSE part
          /\ archive' = IF writes[p] = "archive"
                        THEN [archive EXCEPT ![target[p]] = body] ELSE archive
    /\ writes' = [writes EXCEPT ![p] = "none"]
    /\ UNCHANGED <<target, resolved, tree, extracted, source, unpacked, cutShort>>

\* Those who have the file open under its old name now write to the archive;
\* those who had the replaced archive open write to a file without a name.
Rename(p) ==
    /\ At(p, "rename")
    /\ LET v == target[p]
       IN  \/ /\ part[v] = "none"
              /\ Fail(p)
              /\ UNCHANGED <<diskVars, writes>>
           \/ /\ part[v] # "none"
              /\ Goto(p, "verify")
              /\ archive' = [archive EXCEPT ![v] = part[v]]
              /\ part' = [part EXCEPT ![v] = "none"]
              /\ writes' = [q \in Installers |->
                    CASE target[q] = v /\ writes[q] = "part" -> "archive"
                      [] target[q] = v /\ writes[q] = "archive" -> "none"
                      [] OTHER -> writes[q]]
              /\ UNCHANGED <<target, tree, extracted>>
    /\ UNCHANGED <<resolved, source, unpacked, cutShort>>

\* Mutant: a mismatch does not wipe the archive.
VerifyKeepsArchive(p) ==
    /\ At(p, "verify")
    /\ IF archive[target[p]] = "good" THEN Goto(p, "clear") /\ UNCHANGED target
                                      ELSE Fail(p)
    /\ UNCHANGED <<resolved, diskVars, writes, source, unpacked, cutShort>>

\* verify_sha256: a mismatch wipes the archive, "so a retry redownloads".
Verify(p) ==
    /\ At(p, "verify")
    /\ LET v == target[p]
       IN  \/ /\ archive[v] = "good"
              /\ Goto(p, "clear")
              /\ UNCHANGED <<target, archive, writes>>
           \/ /\ archive[v] # "good"
              /\ Fail(p)
              /\ archive' = [archive EXCEPT ![v] = "none"]
              /\ writes' = [q \in Installers |->
                    IF target[q] = v /\ writes[q] = "archive" THEN "none" ELSE writes[q]]
    /\ UNCHANGED <<resolved, part, tree, extracted, source, unpacked, cutShort>>

\* extract_tar_gz: removes the old tree, opens the archive again (by name), and
\* unpacks it file by file, creating the directories it needs.
ClearTree(p) ==
    /\ At(p, "clear")
    /\ Goto(p, "open")
    /\ tree' = [tree EXCEPT ![target[p]] = Empty]
    /\ extracted' = extracted \cup {target[p]}
    /\ UNCHANGED <<target, resolved, part, archive, writes, source, unpacked, cutShort>>

OpenArchive(p) ==
    /\ At(p, "open")
    /\ \/ archive[target[p]] = "none" /\ Fail(p)
       \/ archive[target[p]] # "none" /\ Goto(p, "unpack") /\ UNCHANGED target
    /\ source' = [source EXCEPT ![p] = archive[target[p]]]
    /\ unpacked' = [unpacked EXCEPT ![p] = {}]
    /\ UNCHANGED <<resolved, diskVars, writes, cutShort>>

\* A torn archive ends early, possibly in the middle of a file.
UnpackFile(p) ==
    /\ At(p, "unpack")
    /\ \E f \in Files \ unpacked[p] :
          \/ /\ source[p] # "torn"
             /\ tree' = [tree EXCEPT ![target[p]][f] = source[p]]
             /\ unpacked' = [unpacked EXCEPT ![p] = @ \cup {f}]
             /\ UNCHANGED <<pc, target>>
          \/ /\ source[p] = "torn"
             /\ Fail(p)
             /\ tree' = [tree EXCEPT ![target[p]][f] = "torn"]
             /\ UNCHANGED unpacked
    /\ UNCHANGED <<resolved, part, archive, extracted, writes, source, cutShort>>

\* Mutant: done as soon as the executable is there.
FinishEarly(p) ==
    /\ At(p, "unpack")
    /\ tree[target[p]]["binary"] # "none"
    /\ Goto(p, "returned")
    /\ UNCHANGED <<target, resolved, diskVars, writes, source, unpacked, cutShort>>

Finish(p) ==
    /\ At(p, "unpack")
    /\ unpacked[p] = Files
    /\ IF tree[target[p]]["binary"] # "none"
       THEN Goto(p, "returned") /\ UNCHANGED target
       ELSE Fail(p)
    /\ UNCHANGED <<resolved, diskVars, writes, source, unpacked, cutShort>>

\* Killed; while unpacking, possibly in the middle of a file.
Crash(p) ==
    /\ MayCrash
    /\ pc[p] \notin {"idle", "returned", "failed"}
    /\ Goto(p, "idle")
    /\ \/ UNCHANGED tree
       \/ At(p, "unpack") /\ \E f \in Files \ unpacked[p] :
             tree' = [tree EXCEPT ![target[p]][f] = "torn"]
    /\ writes' = [writes EXCEPT ![p] = "none"]
    /\ cutShort' = (cutShort \/ pc[p] \in {"open", "unpack"})
    /\ UNCHANGED <<target, resolved, part, archive, extracted, source, unpacked>>

\* A file that cannot be written to its end stays as it is; so does what was
\* unpacked before.
DiskIsFull(p) ==
    /\ DiskFills
    /\ Fail(p)
    /\ \/ /\ At(p, "write")
          /\ writes' = [writes EXCEPT ![p] = "none"]
          /\ UNCHANGED <<tree, cutShort>>
       \/ /\ At(p, "unpack")
          /\ \E f \in Files \ unpacked[p] : tree' = [tree EXCEPT ![target[p]][f] = "torn"]
          /\ cutShort' = TRUE
          /\ UNCHANGED writes
    /\ UNCHANGED <<resolved, part, archive, extracted, source, unpacked>>

\* Mutant: every version whose archive is there counts.
ReportedByArchive == {v \in Versions : archive[v] # "none"}

\* installed_version: the newest of the versions with an extracted directory.
InstalledVersions == extracted
ReportedVersion == CHOOSE v \in InstalledVersions : \A w \in InstalledVersions : w <= v

Work(p) ==
    \/ Check(p)
    \/ DownloadFails(p)
    \/ OpenPart(p)
    \/ WritePart(p)
    \/ Rename(p)
    \/ Verify(p)
    \/ ClearTree(p)
    \/ OpenArchive(p)
    \/ UnpackFile(p)
    \/ Finish(p)

Next ==
    \/ \E p \in Installers : Resolve(p) \/ Work(p)
    \/ \E p \in Installers : Crash(p) \/ DiskIsFull(p)

Spec == Init /\ [][Next]_vars

\* Every installer goes on with its work, is started again and again, and the
\* server sends the signed bytes infinitely often when it is asked infinitely
\* often.
GoodBody(p) == WritePart(p) /\ (part'[target[p]] = "good" \/ archive'[target[p]] = "good")
FairSpec ==
    /\ Spec
    /\ \A p \in Installers :
          /\ WF_vars(Resolve(p))
          /\ WF_vars(Work(p))
          /\ SF_vars(OpenPart(p))
          /\ SF_vars(GoodBody(p))

---------------------------------------------------------------------------
\* ensure_binary returns only a binary whose tree is complete and holds the
\* bytes of the archive whose hash was verified.
IntegrityVerified ==
    \A p \in Installers : At(p, "returned") => tree[target[p]] = Whole

\* So it is as long as no extraction is cut short: neither a kill elsewhere, a
\* failed transfer, a bad body, the fallback nor a retry leaves a tree that is
\* taken for whole.
ReturnedIsWhole == ~cutShort => IntegrityVerified

\* Nothing of an archive that does not match its hash is ever unpacked.
OnlyVerifiedBytes ==
    \A v \in Versions, f \in Files : tree[v][f] # "bad"

\* ensure_binary fails only while the disk holds no complete Tor: whatever
\* auto-update installed or failed to install, the companion can still run one.
FailsOnlyWithoutTor ==
    \A p \in Installers : At(p, "failed") => \A v \in Versions : tree[v] # Whole

\* A corrupt archive or download does not block the installation for ever, once
\* the kills stop, as long as no extraction is cut short.
EventuallyInstalled ==
    <>[][\A p \in Installers : pc'[p] # "idle"]_pc
       => <>(cutShort \/ \E v \in Versions : tree[v] = Whole)

\* tor_manager.rs:144-146: with nobody unpacking, the version that diagnostics
\* report is one that can be run, unless an extraction was cut short.
ReportedIsWhole ==
    ~cutShort /\ InstalledVersions # {} /\ (\A p \in Installers : pc[p] \notin {"open", "unpack"})
       => tree[ReportedVersion] = Whole

\* tor_manager.rs:144-146: "so diagnostics can report the real version in use".
ReportedIsInUse ==
    \A p \in Installers : At(p, "returned") => ReportedVersion = target[p]

Listings == {order \in [1..Cardinality(Versions) -> Versions] : Range(order) = Versions}

\* tor_manager.rs:144-146, tor_update.rs:90-91, update_check.rs:36: in whatever
\* order the disk lists its directories, the newest version that has been
\* extracted is the one reported; and so it is with any names on the disk, on
\* the download page and among the releases.
NewestIsReported ==
    /\ \A order \in Listings :
          LET dirs == [i \in DOMAIN order |-> [name |-> Names[order[i]],
                                              extracted |-> order[i] \in extracted]]
          IN  InstalledVersion(dirs) =
                 IF extracted = {} THEN NoVersion ELSE BundleVersion(Names[ReportedVersion])
    /\ NewestIsChosen

\* A complete tree stays complete.
WholeForGood == [][\A v \in Versions : tree[v] = Whole => tree'[v] = Whole]_vars
=============================================================================
