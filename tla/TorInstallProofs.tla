-------------------------- MODULE TorInstallProofs --------------------------
(***************************************************************************)
(* What one installer leaves on the disk, whatever fails and whenever it   *)
(* is killed: for any set of versions, and under every fault of TorInstall.*)
(* With two, TLC finds bytes that nobody verified (install_two_bad.cfg).   *)
(***************************************************************************)
EXTENDS TorInstall, ListLemmas

---------------------------------------------------------------------------
\* A failure falls back to a version, or ends.
LEMMA FailKeepsTypes ==
    ASSUME NEW p \in Installers, InstallAssumption, TypeOK, Fail(p)
    PROVE  /\ pc' \in [Installers -> Steps]
           /\ target' \in [Installers -> Versions]
<1>1. Pinned \in Versions BY DEF InstallAssumption
<1> QED BY <1>1 DEF Fail, TypeOK, Goto, Steps

\* Every step keeps the types.
LEMMA StepKeepsTypes ==
    ASSUME InstallAssumption, TypeOK, NEW p \in Installers,
           Resolve(p) \/ Work(p) \/ Crash(p) \/ DiskIsFull(p)
    PROVE  TypeOK'
<1> USE DEF At, Goto, diskVars
<1>0. Pinned \in Versions BY DEF InstallAssumption
<1>1. CASE Resolve(p)
  BY <1>0, <1>1, Zenon DEF Resolve, TypeOK, Steps
<1>2. CASE Check(p) BY <1>2 DEF Check, TypeOK, Steps
<1>3. CASE DownloadFails(p) BY <1>3, FailKeepsTypes DEF DownloadFails, TypeOK
<1>4. CASE OpenPart(p) BY <1>4 DEF OpenPart, TypeOK, Steps, Contents
<1>5. CASE WritePart(p) BY <1>5 DEF WritePart, TypeOK, Steps, Contents
<1>6. CASE Rename(p)
  <2>1. CASE part[target[p]] = "none"
    <3>1. Fail(p) /\ UNCHANGED <<part, archive, tree, extracted, writes>>
      BY <1>6, <2>1 DEF Rename
    <3> QED BY <3>1, <1>6, FailKeepsTypes DEF Rename, TypeOK
  <2>2. CASE part[target[p]] # "none"
    <3>1. /\ pc' = [pc EXCEPT ![p] = "verify"]
          /\ archive' = [archive EXCEPT ![target[p]] = part[target[p]]]
          /\ part' = [part EXCEPT ![target[p]] = "none"]
          /\ UNCHANGED <<target, resolved, tree, extracted, source, unpacked, cutShort>>
      BY <1>6, <2>2 DEF Rename
    <3>2. writes' = [q \in Installers |->
             IF target[q] = target[p] /\ writes[q] = "part" THEN "archive"
             ELSE IF target[q] = target[p] /\ writes[q] = "archive" THEN "none"
             ELSE writes[q]]
      BY <1>6, <2>2, Zenon DEF Rename
    <3>3. writes' \in [Installers -> {"none", "part", "archive"}]
      BY <3>2 DEF TypeOK
    <3> QED BY <3>1, <3>3 DEF TypeOK, Steps, Contents
  <2> QED BY <2>1, <2>2
<1>7. CASE Verify(p) BY <1>7, FailKeepsTypes DEF Verify, TypeOK, Steps, Contents
<1>8. CASE ClearTree(p) BY <1>8 DEF ClearTree, TypeOK, Steps, Contents, Empty
<1>9. CASE OpenArchive(p) BY <1>9, FailKeepsTypes DEF OpenArchive, TypeOK, Steps
<1>10. CASE UnpackFile(p) BY <1>10, FailKeepsTypes DEF UnpackFile, TypeOK, Contents
<1>11. CASE Finish(p) BY <1>11, FailKeepsTypes DEF Finish, TypeOK, Steps
<1>12. CASE Crash(p) BY <1>12 DEF Crash, TypeOK, Steps, Contents
<1>13. CASE DiskIsFull(p)
  <2>1. /\ pc' \in [Installers -> Steps] /\ target' \in [Installers -> Versions]
        /\ UNCHANGED <<resolved, part, archive, extracted, source, unpacked>>
    BY <1>13, FailKeepsTypes DEF DiskIsFull
  <2>2. /\ tree' \in [Versions -> [Files -> Contents]] /\ cutShort' \in BOOLEAN
        /\ writes' \in [Installers -> {"none", "part", "archive"}]
    <3>1. CASE writes' = [writes EXCEPT ![p] = "none"] /\ UNCHANGED <<tree, cutShort>>
      BY <3>1 DEF TypeOK
    <3>2. ASSUME NEW f \in Files, tree' = [tree EXCEPT ![target[p]][f] = "torn"],
                 cutShort', UNCHANGED writes
          PROVE  /\ tree' \in [Versions -> [Files -> Contents]] /\ cutShort' \in BOOLEAN
                 /\ writes' \in [Installers -> {"none", "part", "archive"}]
      BY <3>2 DEF TypeOK, Contents
    <3> QED BY <1>13, <3>1, <3>2 DEF DiskIsFull
  <2> QED BY <2>1, <2>2 DEF TypeOK
<1> QED BY <1>1, <1>2, <1>3, <1>4, <1>5, <1>6, <1>7, <1>8, <1>9, <1>10, <1>11, <1>12, <1>13
    DEF Work

\* The empty disk has its type.
LEMMA InitTypes == ASSUME InstallAssumption, Init PROVE TypeOK
BY DEF InstallAssumption, Init, TypeOK, Steps, Contents, Empty

\* Types are right for any installers, however many work on the directory.
THEOREM TypeCorrect == Spec => []TypeOK
<1>1. Init => TypeOK BY InitTypes, InstallAssumption
<1>2. TypeOK /\ [Next]_vars => TypeOK'
  <2>1. ASSUME TypeOK, Next PROVE TypeOK'
    BY <2>1, InstallAssumption, StepKeepsTypes DEF Next
  <2>2. ASSUME TypeOK, UNCHANGED vars PROVE TypeOK'
    BY <2>2 DEF TypeOK, vars
  <2> QED BY <2>1, <2>2
<1> QED BY <1>1, <1>2, PTL DEF Spec

---------------------------------------------------------------------------
(* One installer. *)

\* While it fetches and clears, the version it installs has no executable.
Fetching == {"download", "write", "rename", "verify", "clear", "open"}

\* What a lone installer at work knows: the archive it has verified is the one
\* it opens, and the tree it fills holds nothing but what it has unpacked.
Knows(p) ==
    /\ writes[p] # "archive"
    /\ pc[p] # "write" => writes[p] = "none"
    /\ pc[p] \in {"clear", "open"} => archive[target[p]] = "good"
    /\ pc[p] \in Fetching => tree[target[p]]["binary"] = "none"
    /\ pc[p] = "open" => tree[target[p]] = Empty
    /\ pc[p] = "unpack" =>
          /\ source[p] = "good"
          /\ tree[target[p]] = [f \in Files |-> IF f \in unpacked[p] THEN "good" ELSE "none"]

\* Unless an extraction was cut short, a tree is whole, or empty, or being filled.
NoRemains ==
    ~cutShort => \A v \in Versions :
       \/ tree[v] \in {Empty, Whole}
       \/ \E p \in Installers : pc[p] = "unpack" /\ target[p] = v

\* Unless one was cut short, a version has a directory only if it is whole, or
\* is being made so.
DirectoriesAreWhole ==
    ~cutShort => \A v \in extracted :
       \/ tree[v] = Whole
       \/ \E p \in Installers : pc[p] \in {"open", "unpack"} /\ target[p] = v

\* The version that is reported exists, also where there is no end of versions:
\* directories are made one at a time.
NewestExists ==
    InstalledVersions # {} => \E v \in InstalledVersions : \A w \in InstalledVersions : w <= v

InstallInv ==
    /\ TypeOK
    /\ \A p \in Installers : Knows(p)
    /\ NoRemains
    /\ DirectoriesAreWhole
    /\ NewestExists
    /\ OnlyVerifiedBytes
    /\ ReturnedIsWhole

OneInstaller == \E p : Installers = {p}

\* On an empty disk there is nothing to be wrong.
LEMMA InstallInit == ASSUME InstallAssumption, Init PROVE InstallInv
<1>1. TypeOK BY InitTypes
<1>2. Pinned \in Versions BY DEF InstallAssumption
<1> QED BY <1>1, <1>2 DEF Init, InstallInv, Knows, NoRemains, DirectoriesAreWhole,
             NewestExists, InstalledVersions, OnlyVerifiedBytes, ReturnedIsWhole, IntegrityVerified, At, Empty, Whole, Fetching

\* A failure ends the work, or starts it again.
LEMMA FailLeaves ==
    ASSUME NEW p \in Installers, TypeOK, Fail(p)
    PROVE  pc'[p] \in {"check", "failed"}
BY DEF Fail, Goto, TypeOK

\* What the lone installer does to the tree it fills.
LEMMA KnowsStep ==
    ASSUME NEW p, Installers = {p}, InstallAssumption, TypeOK, TypeOK', Knows(p),
           Resolve(p) \/ Work(p) \/ Crash(p) \/ DiskIsFull(p)
    PROVE  Knows(p)'
<1> USE DEF At, Goto, diskVars, Fetching
<1>0. p \in Installers OBVIOUS
<1>1. CASE Resolve(p) BY <1>1, <1>0 DEF Resolve, Knows, TypeOK
<1>2. CASE Check(p) BY <1>2, <1>0 DEF Check, Knows, TypeOK
<1>3. CASE DownloadFails(p) BY <1>3, <1>0, FailLeaves DEF DownloadFails, Knows, TypeOK
<1>4. CASE OpenPart(p) BY <1>4, <1>0 DEF OpenPart, Knows, TypeOK
<1>5. CASE WritePart(p) BY <1>5, <1>0 DEF WritePart, Knows, TypeOK
<1>6. CASE Rename(p)
  <2>1. CASE Fail(p) /\ UNCHANGED <<diskVars, writes>>
    BY <1>6, <2>1, <1>0, FailLeaves DEF Rename, Knows, TypeOK
  <2>2. CASE pc' = [pc EXCEPT ![p] = "verify"] /\ UNCHANGED <<target, tree, extracted>>
    <3>1. writes[p] = "none" BY <1>6 DEF Rename, Knows
    <3>2. writes'[p] = "none" BY <1>6, <3>1, <1>0, Zenon DEF Rename
    <3> QED BY <1>6, <2>2, <3>2, <1>0 DEF Rename, Knows, TypeOK
  <2> QED BY <1>6, <2>1, <2>2 DEF Rename
<1>7. CASE Verify(p)
  <2>1. CASE archive[target[p]] = "good"
    BY <1>7, <2>1, <1>0 DEF Verify, Knows, TypeOK
  <2>2. CASE archive[target[p]] # "good"
    BY <1>7, <2>2, <1>0, FailLeaves DEF Verify, Knows, TypeOK
  <2> QED BY <2>1, <2>2
<1>8. CASE ClearTree(p) BY <1>8, <1>0 DEF ClearTree, Knows, TypeOK, Empty, Files
<1>9. CASE OpenArchive(p)
  BY <1>9, <1>0, FailLeaves DEF OpenArchive, Knows, TypeOK, Empty
<1>10. CASE UnpackFile(p)
  <2>1. source[p] = "good" BY <1>10 DEF UnpackFile, Knows
  <2>2. PICK f \in Files \ unpacked[p] :
           /\ tree' = [tree EXCEPT ![target[p]][f] = "good"]
           /\ unpacked' = [unpacked EXCEPT ![p] = @ \cup {f}]
           /\ UNCHANGED <<pc, target>>
    BY <1>10, <2>1 DEF UnpackFile
  <2>3. tree'[target[p]] = [g \in Files |-> IF g \in unpacked'[p] THEN "good" ELSE "none"]
    <3>1. tree'[target[p]] = [tree[target[p]] EXCEPT ![f] = "good"]
      BY <2>2, <1>0 DEF TypeOK
    <3>2. tree[target[p]] = [g \in Files |-> IF g \in unpacked[p] THEN "good" ELSE "none"]
      BY <1>10 DEF UnpackFile, Knows
    <3>3. unpacked'[p] = unpacked[p] \cup {f} BY <2>2, <1>0 DEF TypeOK
    <3> QED BY <3>1, <3>2, <3>3
  <2> QED BY <1>10, <2>1, <2>2, <2>3 DEF UnpackFile, Knows
<1>11. CASE Finish(p)
  <2>1. pc'[p] \in {"returned", "check", "failed"}
    BY <1>11, <1>0, FailLeaves DEF Finish, TypeOK
  <2>2. writes'[p] = "none" BY <1>11 DEF Finish, Knows
  <2> QED BY <2>1, <2>2 DEF Knows
<1>12. CASE Crash(p) BY <1>12, <1>0 DEF Crash, Knows, TypeOK
<1>13. CASE DiskIsFull(p)
  <2>1. pc'[p] \in {"check", "failed"} BY <1>13, <1>0, FailLeaves DEF DiskIsFull
  <2>2. writes'[p] = "none" BY <1>13, <1>0 DEF DiskIsFull, Knows, TypeOK
  <2> QED BY <2>1, <2>2 DEF Knows
<1> QED BY <1>1, <1>2, <1>3, <1>4, <1>5, <1>6, <1>7, <1>8, <1>9, <1>10, <1>11, <1>12, <1>13
    DEF Work

\* What each step does to the trees: it empties one that has no executable, adds
\* verified bytes to the one it fills, or tears a file of it and says so.
TreesGrow(p) ==
    \/ UNCHANGED tree
    \/ /\ pc[p] = "clear" /\ tree[target[p]]["binary"] = "none"
       /\ tree' = [tree EXCEPT ![target[p]] = Empty]
    \/ /\ pc[p] = "unpack"
       /\ \E f \in Files \ unpacked[p] :
             \/ /\ tree' = [tree EXCEPT ![target[p]][f] = "good"]
                /\ UNCHANGED <<pc, target>>
             \/ tree' = [tree EXCEPT ![target[p]][f] = "torn"] /\ cutShort'

\* How a step of the one installer changes a tree.
LEMMA StepGrowsTrees ==
    ASSUME NEW p, Installers = {p}, TypeOK, Knows(p),
           Resolve(p) \/ Work(p) \/ Crash(p) \/ DiskIsFull(p)
    PROVE  TreesGrow(p)
<1> USE DEF At, diskVars
<1>1. CASE UNCHANGED tree BY <1>1 DEF TreesGrow
<1>2. CASE ClearTree(p) BY <1>2 DEF ClearTree, Knows, Fetching, TreesGrow
<1>3. CASE UnpackFile(p) BY <1>3 DEF UnpackFile, Knows, TreesGrow
<1>4. CASE Crash(p)
  BY <1>4 DEF Crash, TreesGrow
<1>5. CASE DiskIsFull(p)
  BY <1>5 DEF DiskIsFull, TreesGrow
<1>6. CASE Rename(p) BY <1>6, <1>1 DEF Rename
<1>7. CASE Resolve(p) BY <1>7, <1>1 DEF Resolve
<1>8. CASE Check(p) BY <1>8, <1>1 DEF Check
<1>9. CASE DownloadFails(p) \/ OpenPart(p) \/ WritePart(p)
  BY <1>9, <1>1 DEF DownloadFails, OpenPart, WritePart
<1>10. CASE Verify(p) BY <1>10, <1>1 DEF Verify
<1>11. CASE OpenArchive(p) \/ Finish(p) BY <1>11, <1>1 DEF OpenArchive, Finish
<1> QED BY <1>2, <1>3, <1>4, <1>5, <1>6, <1>7, <1>8, <1>9, <1>10, <1>11 DEF Work

\* Trees grow by verified files only.
LEMMA VerifiedStep ==
    ASSUME NEW p, Installers = {p}, TypeOK, OnlyVerifiedBytes, TreesGrow(p)
    PROVE  OnlyVerifiedBytes'
<1> SUFFICES ASSUME NEW v \in Versions, NEW g \in Files PROVE tree'[v][g] # "bad"
  BY DEF OnlyVerifiedBytes
<1>1. tree[v][g] # "bad" BY DEF OnlyVerifiedBytes
<1>2. tree'[v][g] \in {tree[v][g], "none", "good", "torn"}
  BY DEF TreesGrow, TypeOK, Empty
<1> QED BY <1>1, <1>2

\* A whole tree stays whole.
LEMMA WholeStays ==
    ASSUME NEW p, Installers = {p}, TypeOK, Knows(p), TreesGrow(p),
           NEW v \in Versions, tree[v] = Whole
    PROVE  tree'[v] = Whole
<1>1. tree[v]["binary"] = "good" BY DEF Whole, Files
<1>2. CASE UNCHANGED tree BY <1>2
<1>3. CASE /\ tree[target[p]]["binary"] = "none"
           /\ tree' = [tree EXCEPT ![target[p]] = Empty]
  BY <1>1, <1>3 DEF TypeOK
<1>4. ASSUME pc[p] = "unpack", NEW f \in Files \ unpacked[p], NEW content,
             tree' = [tree EXCEPT ![target[p]][f] = content]
      PROVE  tree'[v] = Whole
  <2>1. tree[target[p]][f] = "none" BY <1>4 DEF Knows
  <2>2. v # target[p] BY <2>1 DEF Whole
  <2> QED BY <1>4, <2>2 DEF TypeOK
<1> QED BY <1>2, <1>3, <1>4 DEF TreesGrow

\* What is unpacked to its end is whole.
LEMMA UnpackedIsWhole ==
    ASSUME NEW p \in Installers, Knows(p), pc[p] = "unpack", unpacked[p] = Files
    PROVE  tree[target[p]] = Whole
BY DEF Knows, Whole

\* What a kill has cut short stays recorded.
LEMMA CutShortStays ==
    ASSUME NEW p \in Installers, Resolve(p) \/ Work(p) \/ Crash(p) \/ DiskIsFull(p), cutShort
    PROVE  cutShort'
<1> USE DEF diskVars
<1>1. CASE Work(p)
  BY <1>1 DEF Work, Check, DownloadFails, OpenPart, WritePart, Rename, Verify, ClearTree,
              OpenArchive, UnpackFile, Finish
<1>2. CASE Resolve(p) BY <1>2 DEF Resolve
<1>3. CASE Crash(p) BY <1>3 DEF Crash
<1>4. CASE DiskIsFull(p) BY <1>4 DEF DiskIsFull
<1> QED BY <1>1, <1>2, <1>3, <1>4

\* The unpacking ends with a file more, with all files, or cut short.
LEMMA UnpackEnds ==
    ASSUME NEW p \in Installers, pc[p] = "unpack",
           Resolve(p) \/ Work(p) \/ Crash(p) \/ DiskIsFull(p)
    PROVE  UnpackFile(p) \/ (Finish(p) /\ unpacked[p] = Files) \/ cutShort'
<1> USE DEF At
<1>1. CASE Work(p)
  BY <1>1 DEF Work, Check, DownloadFails, OpenPart, WritePart, Rename, Verify, ClearTree,
              OpenArchive, Finish
<1>2. CASE Resolve(p) BY <1>2 DEF Resolve
<1>3. CASE Crash(p) BY <1>3 DEF Crash
<1>4. CASE DiskIsFull(p) BY <1>4 DEF DiskIsFull
<1> QED BY <1>1, <1>2, <1>3, <1>4

\* A tree that nobody fills is whole or empty, until a kill cuts it short.
LEMMA NoRemainsStep ==
    ASSUME NEW p, Installers = {p}, TypeOK, Knows(p), NoRemains,
           Resolve(p) \/ Work(p) \/ Crash(p) \/ DiskIsFull(p)
    PROVE  NoRemains'
<1>0. p \in Installers OBVIOUS
<1> SUFFICES ASSUME ~cutShort', NEW v \in Versions
             PROVE  \/ tree'[v] \in {Empty, Whole}
                    \/ pc'[p] = "unpack" /\ target'[p] = v
  BY <1>0 DEF NoRemains
<1>1. tree[v] \in {Empty, Whole} \/ (pc[p] = "unpack" /\ target[p] = v)
  BY <1>0, CutShortStays DEF NoRemains
<1>2. TreesGrow(p) BY StepGrowsTrees
<1>3. CASE UNCHANGED tree
  <2>1. CASE tree[v] \in {Empty, Whole} BY <1>3, <2>1
  <2>2. CASE pc[p] = "unpack" /\ target[p] = v
    <3>1. CASE UnpackFile(p)
      BY <2>2, <3>1, <1>0 DEF UnpackFile, Knows
    <3>2. CASE unpacked[p] = Files BY <1>0, <1>3, <2>2, <3>2, UnpackedIsWhole
    <3> QED BY <1>0, <2>2, <3>1, <3>2, UnpackEnds
  <2> QED BY <1>1, <2>1, <2>2
<1>4. CASE pc[p] = "clear" /\ tree' = [tree EXCEPT ![target[p]] = Empty]
  BY <1>1, <1>4 DEF TypeOK
<1>5. ASSUME pc[p] = "unpack", NEW f \in Files,
             tree' = [tree EXCEPT ![target[p]][f] = "good"], UNCHANGED <<pc, target>>
      PROVE  tree'[v] \in {Empty, Whole} \/ (pc'[p] = "unpack" /\ target'[p] = v)
  BY <1>1, <1>5 DEF TypeOK
<1> QED BY <1>2, <1>3, <1>4, <1>5 DEF TreesGrow

\* Only a check that finds an executable, and an unpacking that is complete,
\* make the installer return.
LEMMA ReturnsFrom ==
    ASSUME NEW p \in Installers, TypeOK, pc'[p] = "returned",
           Resolve(p) \/ Work(p) \/ Crash(p) \/ DiskIsFull(p)
    PROVE  \/ Check(p) /\ tree[target[p]]["binary"] # "none"
           \/ Finish(p) /\ unpacked[p] = Files /\ UNCHANGED target
<1> USE DEF At, Goto, TypeOK
<1>1. ~Fail(p) BY FailLeaves
<1>2. CASE Check(p) BY <1>2 DEF Check
<1>3. CASE Finish(p) BY <1>1, <1>3 DEF Finish
<1>4. ~Resolve(p) BY DEF Resolve
<1>5. ~(DownloadFails(p) \/ OpenPart(p) \/ WritePart(p))
  BY <1>1 DEF DownloadFails, OpenPart, WritePart
<1>6. ~Rename(p) BY <1>1 DEF Rename
<1>7. ~Verify(p) BY <1>1 DEF Verify
<1>8. ~ClearTree(p) BY DEF ClearTree
<1>9. ~OpenArchive(p) BY <1>1 DEF OpenArchive
<1>10. ~UnpackFile(p) BY <1>1 DEF UnpackFile
<1>11. ~Crash(p) BY DEF Crash
<1>12. ~DiskIsFull(p) BY <1>1 DEF DiskIsFull
<1> QED BY <1>2, <1>3, <1>4, <1>5, <1>6, <1>7, <1>8, <1>9, <1>10, <1>11, <1>12 DEF Work

\* A tree is returned only once it is whole.
LEMMA ReturnedStep ==
    ASSUME NEW p, Installers = {p}, TypeOK, Knows(p), NoRemains,
           Resolve(p) \/ Work(p) \/ Crash(p) \/ DiskIsFull(p)
    PROVE  ReturnedIsWhole'
<1>0. p \in Installers OBVIOUS
<1> SUFFICES ASSUME ~cutShort', pc'[p] = "returned" PROVE tree'[target'[p]] = Whole
  BY DEF ReturnedIsWhole, IntegrityVerified, At
<1>1. ~cutShort BY <1>0, CutShortStays
<1>2. CASE Check(p) /\ tree[target[p]]["binary"] # "none"
  <2>1. target[p] \in Versions BY <1>0 DEF TypeOK
  <2>2. tree[target[p]] # Empty BY <1>2 DEF Empty, Files
  <2>3. pc[p] # "unpack" BY <1>2 DEF Check, At
  <2>4. tree[target[p]] = Whole BY <1>1, <2>1, <2>2, <2>3 DEF NoRemains
  <2> QED BY <1>2, <2>4 DEF Check, diskVars
<1>3. CASE Finish(p) /\ unpacked[p] = Files /\ UNCHANGED target
  BY <1>0, <1>3, UnpackedIsWhole DEF Finish, At, diskVars
<1> QED BY <1>0, <1>2, <1>3, ReturnsFrom

\* A directory appears when its tree is cleared, and never goes.
LEMMA ExtractedGrows ==
    ASSUME NEW p \in Installers, Resolve(p) \/ Work(p) \/ Crash(p) \/ DiskIsFull(p)
    PROVE  \/ UNCHANGED extracted
           \/ ClearTree(p) /\ extracted' = extracted \cup {target[p]}
<1> USE DEF diskVars
<1>1. CASE Work(p)
  BY <1>1 DEF Work, Check, DownloadFails, OpenPart, WritePart, Rename, Verify, ClearTree,
              OpenArchive, UnpackFile, Finish
<1>2. CASE Resolve(p) BY <1>2 DEF Resolve
<1>3. CASE Crash(p) BY <1>3 DEF Crash
<1>4. CASE DiskIsFull(p) BY <1>4 DEF DiskIsFull
<1> QED BY <1>1, <1>2, <1>3, <1>4

\* Directories come one at a time, so one of them stays the newest.
LEMMA NewestStep ==
    ASSUME NEW p \in Installers, InstallAssumption, TypeOK, NewestExists,
           Resolve(p) \/ Work(p) \/ Crash(p) \/ DiskIsFull(p)
    PROVE  NewestExists'
<1> USE DEF NewestExists, InstalledVersions
<1>1. CASE UNCHANGED extracted BY <1>1
<1>2. CASE extracted' = extracted \cup {target[p]}
  <2>1. extracted \subseteq Nat /\ target[p] \in Nat BY DEF TypeOK, InstallAssumption
  <2>2. CASE extracted = {} BY <1>2, <2>1, <2>2
  <2>3. CASE extracted # {}
    <3>1. PICK v \in extracted : \A w \in extracted : w <= v BY <2>3
    <3>2. CASE target[p] <= v BY <1>2, <3>1, <3>2
    <3>3. CASE ~(target[p] <= v) BY <1>2, <2>1, <3>1, <3>3
    <3> QED BY <3>2, <3>3
  <2> QED BY <2>2, <2>3
<1> QED BY <1>1, <1>2, ExtractedGrows

\* Between the clearing of a tree and its unpacking nothing can fail but by a kill.
LEMMA OpenLeadsToUnpack ==
    ASSUME NEW p, Installers = {p}, TypeOK, Knows(p), pc[p] = "open",
           Resolve(p) \/ Work(p) \/ Crash(p) \/ DiskIsFull(p), ~cutShort'
    PROVE  pc'[p] = "unpack" /\ UNCHANGED <<target, tree, extracted>>
<1> USE DEF At, diskVars
<1>0. p \in Installers OBVIOUS
<1>1. CASE Work(p)
  <2>1. OpenArchive(p)
    BY <1>1 DEF Work, Check, DownloadFails, OpenPart, WritePart, Rename, Verify, ClearTree,
                UnpackFile, Finish
  <2>2. archive[target[p]] # "none" BY DEF Knows
  <2> QED BY <1>0, <2>1, <2>2 DEF OpenArchive, Goto, TypeOK
<1>2. CASE Resolve(p) BY <1>2 DEF Resolve
<1>3. CASE Crash(p) BY <1>3 DEF Crash
<1>4. CASE DiskIsFull(p) BY <1>4 DEF DiskIsFull
<1> QED BY <1>1, <1>2, <1>3, <1>4

\* A directory is whole unless it is being filled, or was cut short.
LEMMA DirectoriesStep ==
    ASSUME NEW p, Installers = {p}, TypeOK, Knows(p), DirectoriesAreWhole,
           Resolve(p) \/ Work(p) \/ Crash(p) \/ DiskIsFull(p)
    PROVE  DirectoriesAreWhole'
<1>0. p \in Installers OBVIOUS
<1> SUFFICES ASSUME ~cutShort', NEW v \in extracted'
             PROVE  \/ tree'[v] = Whole
                    \/ pc'[p] \in {"open", "unpack"} /\ target'[p] = v
  BY <1>0 DEF DirectoriesAreWhole
<1>1. TreesGrow(p) BY StepGrowsTrees
<1>2. CASE ClearTree(p) /\ v = target[p]
  BY <1>0, <1>2 DEF ClearTree, Goto, TypeOK
<1>3. CASE v \in extracted
  <2>1. v \in Versions BY <1>3 DEF TypeOK
  <2>2. CASE tree[v] = Whole BY <1>1, <2>1, <2>2, WholeStays
  <2>3. CASE pc[p] = "open" /\ target[p] = v BY <2>3, OpenLeadsToUnpack
  <2>4. CASE pc[p] = "unpack" /\ target[p] = v
    <3>1. CASE UnpackFile(p)
      BY <2>4, <3>1, <1>0 DEF UnpackFile, Knows
    <3>2. CASE Finish(p) /\ unpacked[p] = Files
      BY <1>0, <2>4, <3>2, UnpackedIsWhole DEF Finish, diskVars
    <3> QED BY <1>0, <2>4, <3>1, <3>2, UnpackEnds
  <2> QED BY <1>0, <1>3, <2>2, <2>3, <2>4, CutShortStays DEF DirectoriesAreWhole
<1> QED BY <1>0, <1>2, <1>3, ExtractedGrows

\* Every step of the one installer keeps the whole invariant.
LEMMA InstallStep ==
    ASSUME InstallAssumption, OneInstaller, InstallInv, [Next]_vars
    PROVE  InstallInv'
<1> PICK p : Installers = {p} BY DEF OneInstaller
<1>1. CASE Resolve(p) \/ Work(p) \/ Crash(p) \/ DiskIsFull(p)
  <2>1. TypeOK' BY <1>1, StepKeepsTypes DEF InstallInv
  <2>2. Knows(p) BY DEF InstallInv
  <2>3. Knows(p)' BY <1>1, <2>1, <2>2, KnowsStep DEF InstallInv
  <2>4. TreesGrow(p) BY <1>1, <2>2, StepGrowsTrees DEF InstallInv
  <2>5. NoRemains' BY <1>1, <2>2, NoRemainsStep DEF InstallInv
  <2>6. DirectoriesAreWhole' BY <1>1, <2>2, DirectoriesStep DEF InstallInv
  <2>7. NewestExists' BY <1>1, NewestStep DEF InstallInv
  <2>8. OnlyVerifiedBytes' BY <2>4, VerifiedStep DEF InstallInv
  <2>9. ReturnedIsWhole' BY <1>1, <2>2, ReturnedStep DEF InstallInv
  <2> QED BY <2>1, <2>3, <2>5, <2>6, <2>7, <2>8, <2>9 DEF InstallInv
<1>2. CASE UNCHANGED vars
  BY <1>2 DEF vars, InstallInv, TypeOK, Knows, NoRemains, DirectoriesAreWhole, NewestExists,
              InstalledVersions, OnlyVerifiedBytes, ReturnedIsWhole, IntegrityVerified, At
<1> QED BY <1>1, <1>2 DEF Next

\* The inductive invariant of one installer.
LEMMA InstallCorrect == ASSUME OneInstaller PROVE Spec => []InstallInv
<1>1. Init => InstallInv BY InstallInit, InstallAssumption
<1>2. InstallInv /\ [Next]_vars => InstallInv' BY InstallStep, InstallAssumption
<1> QED BY <1>1, <1>2, PTL DEF Spec

\* Whatever the network sends, nothing but bytes of a verified archive is ever
\* unpacked: verify_sha256 and extract_tar_gz see the same file.
THEOREM OnlyVerifiedIsUnpacked == ASSUME OneInstaller PROVE Spec => []OnlyVerifiedBytes
<1>1. InstallInv => OnlyVerifiedBytes BY DEF InstallInv
<1> QED BY <1>1, InstallCorrect, PTL

\* What ensure_binary returns is complete, unless an extraction was cut short.
THEOREM ReturnedTreeIsWhole == ASSUME OneInstaller PROVE Spec => []ReturnedIsWhole
<1>1. InstallInv => ReturnedIsWhole BY DEF InstallInv
<1> QED BY <1>1, InstallCorrect, PTL

\* So is the version that installed_version reports while nobody unpacks.
THEOREM ReportedTreeIsWhole == ASSUME OneInstaller PROVE Spec => []ReportedIsWhole
<1>1. ASSUME InstallInv PROVE ReportedIsWhole
  <2> SUFFICES ASSUME ~cutShort, InstalledVersions # {},
                      \A p \in Installers : pc[p] \notin {"open", "unpack"}
               PROVE  tree[ReportedVersion] = Whole
    BY DEF ReportedIsWhole
  <2>1. ReportedVersion \in InstalledVersions
    BY <1>1 DEF InstallInv, NewestExists, ReportedVersion
  <2> QED BY <1>1, <2>1 DEF InstallInv, DirectoriesAreWhole, InstalledVersions
<1> QED BY <1>1, InstallCorrect, PTL

\* A complete tree stays complete, also through kills and full disks.
THEOREM WholeTreesStay == ASSUME OneInstaller PROVE Spec => WholeForGood
<1>1. ASSUME InstallInv, [Next]_vars
      PROVE  [\A v \in Versions : tree[v] = Whole => tree'[v] = Whole]_vars
  <2> PICK p : Installers = {p} BY DEF OneInstaller
  <2>1. CASE Resolve(p) \/ Work(p) \/ Crash(p) \/ DiskIsFull(p)
    BY <1>1, <2>1, StepGrowsTrees, WholeStays DEF InstallInv
  <2>2. CASE UNCHANGED vars BY <2>2
  <2> QED BY <1>1, <2>1, <2>2 DEF Next
<1> QED BY <1>1, InstallCorrect, PTL DEF Spec, WholeForGood

---------------------------------------------------------------------------
(* The searches for the newest version (VersionNumbers): in lists of any   *)
(* length, by induction on the turns of their loop.                        *)

\* The versions that three numbers can be, and none.
Triples == Nat \X Nat \X Nat
Versioned == Triples \cup {NoVersion}

\* The left-to-right comparison of the code is the order meant.
LEMMA GreaterIsMeant ==
    ASSUME NEW a \in Triples, NEW b \in Triples
    PROVE  Greater(a, b) <=> Precedes(b, a)
<1>1. /\ a = <<a[1], a[2], a[3]>> /\ a[1] \in Nat /\ a[2] \in Nat /\ a[3] \in Nat
      /\ b = <<b[1], b[2], b[3]>> /\ b[1] \in Nat /\ b[2] \in Nat /\ b[3] \in Nat
      /\ DOMAIN a = 1..3 /\ a # NoVersion /\ b # NoVersion
    BY DEF Triples, NoVersion
<1>2. 1..3 = {1, 2, 3} /\ 1..(1 - 1) = {} /\ 1..(2 - 1) = {1} /\ 1..(3 - 1) = {1, 2}
    OBVIOUS
<1>3. Greater(a, b) <=> \/ a[1] > b[1]
                        \/ a[2] > b[2] /\ a[1] = b[1]
                        \/ a[3] > b[3] /\ a[1] = b[1] /\ a[2] = b[2]
    BY <1>1, <1>2, Zenon DEF Greater
<1> QED BY <1>1, <1>3 DEF Precedes

\* Of any two versions one comes before the other, and what comes before
\* something also comes before what that does not come before.
LEMMA OrderIsLinear ==
    ASSUME NEW a \in Versioned, NEW b \in Versioned
    PROVE  /\ ~Precedes(a, a)
           /\ Precedes(a, b) => ~Precedes(b, a)
           /\ a = b \/ Precedes(a, b) \/ Precedes(b, a)
           /\ \A c \in Versioned : Precedes(c, b) /\ ~Precedes(a, b) => Precedes(c, a)
<1>1. \A v \in Versioned :
         \/ v = NoVersion
         \/ v # NoVersion /\ v = <<v[1], v[2], v[3]>>
            /\ v[1] \in Nat /\ v[2] \in Nat /\ v[3] \in Nat
    BY DEF Versioned, Triples, NoVersion
<1>2. a = b \/ Precedes(a, b) \/ Precedes(b, a)
    BY <1>1 DEF Precedes
<1>3. ~Precedes(a, a) /\ (Precedes(a, b) => ~Precedes(b, a))
    BY <1>1 DEF Precedes
<1>4. \A c \in Versioned : Precedes(c, b) /\ ~Precedes(a, b) => Precedes(c, a)
    BY <1>1 DEF Precedes
<1> QED BY <1>2, <1>3, <1>4

\* The loop of the searches is a loop: its state after i items, from that after
\* i - 1.
LEMMA BestSteps ==
    ASSUME NEW versions \in Seq(Versioned)
    PROVE  \E best \in [0..Len(versions) -> Versioned] :
              /\ Best(versions) = best[Len(versions)]
              /\ best[0] = NoVersion
              /\ \A i \in 1..Len(versions) :
                    best[i] = IF /\ versions[i] # NoVersion
                                 /\ best[i - 1] = NoVersion \/ Greater(versions[i], best[i - 1])
                              THEN versions[i] ELSE best[i - 1]
<1> DEFINE m == Len(versions)
           Chosen(i, s) == IF /\ versions[i] # NoVersion
                              /\ s = NoVersion \/ Greater(versions[i], s)
                           THEN versions[i] ELSE s
           step == [p \in (1..m) \X Versioned |-> Chosen(p[1], p[2])]
           Loop(f) == f = [i \in 0..m |-> IF i = 0 THEN NoVersion ELSE Chosen(i, f[i - 1])]
<1>1. m \in Nat /\ \A i \in 1..m : versions[i] \in Versioned
    BY ElementsTyped
<1>2. NoVersion \in Versioned BY DEF Versioned
<1>3. \A i \in 1..m : \A s \in Versioned :
         step[<<i, s>>] = Chosen(i, s) /\ step[<<i, s>>] \in Versioned
    BY <1>1
<1>4. \E f : Loop(f)
  <2>0. PICK f : Runs(f, step, m, NoVersion, Versioned)
    <3>1. IsLoop(step, m, Versioned)
      <4>1. \A i \in 1..m : \A s \in Versioned : Chosen(i, s) \in Versioned BY <1>1
      <4> HIDE DEF Chosen, m
      <4> QED BY <4>1 DEF IsLoop
    <3>2. m \in Nat BY <1>1
    <3> HIDE DEF step, m
    <3> QED BY <1>2, <3>1, <3>2, Recursion
  <2>1. /\ f \in [0..m -> Versioned] /\ f[0] = NoVersion
        /\ \A i \in 1..m : f[i] = step[<<i, f[i - 1]>>]
    <3> HIDE DEF step, m
    <3> QED BY <2>0 DEF Runs
  <2> DEFINE h == [i \in 0..m |-> IF i = 0 THEN NoVersion ELSE Chosen(i, f[i - 1])]
  <2>2. ASSUME NEW i \in 0..m PROVE f[i] = h[i]
    <3>1. CASE i = 0 BY <2>1, <3>1
    <3>2. CASE i \in 1..m
      <4>1. f[i - 1] \in Versioned BY <1>1, <2>1, <3>2
      <4>2. f[i] = Chosen(i, f[i - 1])
        <5> HIDE DEF step, Chosen, m
        <5> QED BY <1>3, <2>1, <3>2, <4>1
      <4>3. i # 0 BY <1>1, <3>2
      <4> HIDE DEF Chosen, m
      <4> QED BY <4>2, <4>3
    <3> QED BY <1>1, <3>1, <3>2
  <2>3. f = [i \in 0..m |-> f[i]] /\ h = [i \in 0..m |-> h[i]] BY <2>1
  <2>4. f = h
    <3> HIDE DEF h, m
    <3> QED BY <2>2, <2>3
  <2> QED BY <2>4
<1>7. \E f : Loop(f) /\ Best(versions) = f[m]
    BY <1>4 DEF Best
<1>8. PICK f : Loop(f) /\ Best(versions) = f[m]
  <2> HIDE DEF Loop, m
  <2> QED BY <1>7
<1>9. f[0] = NoVersion /\ \A i \in 1..m : f[i] = Chosen(i, f[i - 1])
  <2>1. DOMAIN f = 0..m BY <1>8
  <2> HIDE DEF Chosen
  <2> QED BY <1>1, <1>8
<1>10. f \in [0..m -> Versioned]
  <2> DEFINE T == {n \in 0..m : f[n] \in Versioned}
  <2>1. 0 \in T BY <1>1, <1>2, <1>9
  <2>2. ASSUME NEW n \in 0..(m - 1), n \in T PROVE n + 1 \in T
    <3>1. n + 1 \in 1..m /\ (n + 1) - 1 = n BY <1>1, <2>2
    <3> QED BY <1>1, <1>9, <2>2, <3>1
  <2>3. \A n \in 0..m : n \in T
    <3> HIDE DEF T, m
    <3> QED BY <1>1, <2>1, <2>2, Induction
  <2> HIDE DEF Chosen, m
  <2> QED BY <2>3, <1>8
<1> HIDE DEF Loop
<1> QED BY <1>8, <1>9, <1>10

\* It ends with a version of the list that comes before no other.
LEMMA BestIsNewest ==
    ASSUME NEW versions \in Seq(Versioned)
    PROVE  IsNewest(Best(versions), Range(versions))
<1> DEFINE m == Len(versions)
<1>1. /\ m \in Nat /\ DOMAIN versions = 1..m
      /\ \A i \in 1..m : versions[i] \in Versioned
    BY ElementsTyped
<1>2. PICK best \in [0..m -> Versioned] :
         /\ Best(versions) = best[m]
         /\ best[0] = NoVersion
         /\ \A i \in 1..m :
               best[i] = IF /\ versions[i] # NoVersion
                            /\ best[i - 1] = NoVersion \/ Greater(versions[i], best[i - 1])
                         THEN versions[i] ELSE best[i - 1]
    BY BestSteps
<1> HIDE DEF m
<1> DEFINE Among(n) == best[n] = NoVersion \/ \E j \in 1..n : best[n] = versions[j]
           Top(n) == \A j \in 1..n : ~Precedes(best[n], versions[j])
           T == {n \in 0..m : Among(n) /\ Top(n)}
<1>3. 0 \in T BY <1>1, <1>2
<1>4. ASSUME NEW n \in 0..(m - 1), n \in T PROVE n + 1 \in T
  <2> DEFINE i == n + 1
  <2>1. i \in 1..m /\ i - 1 = n /\ n \in 0..m /\ 1..i = (1..n) \cup {i} BY <1>1
  <2>2. versions[i] \in Versioned /\ best[n] \in Versioned /\ best[i] \in Versioned
      BY <1>1, <2>1
  <2>3. best[i] = IF /\ versions[i] # NoVersion
                     /\ best[n] = NoVersion \/ Greater(versions[i], best[n])
                  THEN versions[i] ELSE best[n]
      BY <1>2, <2>1
  <2>4. Among(n) /\ Top(n) BY <1>4
  <2> HIDE DEF i
  <2>5. Among(i)
    <3>1. best[i] = versions[i] \/ best[i] = best[n] BY <2>3
    <3> QED BY <2>1, <2>4, <3>1
  <2>6. /\ ~Precedes(best[i], versions[i])
        /\ \A v \in Versioned : ~Precedes(best[n], v) => ~Precedes(best[i], v)
    <3>1. CASE versions[i] = NoVersion
      <4>1. best[i] = best[n] BY <2>3, <3>1
      <4> QED BY <3>1, <4>1 DEF Precedes
    <3>2. CASE versions[i] # NoVersion /\ best[n] = NoVersion
      <4>1. best[i] = versions[i] BY <2>3, <3>2
      <4>2. \A v \in Versioned : ~Precedes(best[n], v) => v = NoVersion
          BY <3>2 DEF Precedes
      <4> QED BY <2>2, <4>1, <4>2, OrderIsLinear DEF Precedes
    <3>3. CASE versions[i] # NoVersion /\ best[n] # NoVersion
      <4>1. Greater(versions[i], best[n]) <=> Precedes(best[n], versions[i])
          BY <2>2, <3>3, GreaterIsMeant DEF Versioned
      <4>2. CASE Precedes(best[n], versions[i])
        <5>1. best[i] = versions[i] BY <2>3, <3>3, <4>1, <4>2
        <5> QED BY <2>2, <4>2, <5>1, OrderIsLinear
      <4>3. CASE ~Precedes(best[n], versions[i])
        <5>1. best[i] = best[n] BY <2>3, <3>3, <4>1, <4>3
        <5> QED BY <4>3, <5>1
      <4> QED BY <4>2, <4>3
    <3> QED BY <3>1, <3>2, <3>3
  <2>7. Top(i)
    <3>1. ASSUME NEW j \in 1..i PROVE ~Precedes(best[i], versions[j])
      <4>1. CASE j \in 1..n
        <5>1. versions[j] \in Versioned BY <1>1, <2>1, <4>1
        <5> QED BY <2>4, <2>6, <4>1, <5>1
      <4> QED BY <2>1, <2>6, <4>1
    <3> QED BY <3>1
  <2>8. i \in 0..m BY <1>1, <2>1
  <2> HIDE DEF Among, Top
  <2> QED BY <2>5, <2>7, <2>8 DEF i
<1>5. m \in T
  <2>1. \A n \in 0..m : n \in T
    <3> HIDE DEF T
    <3> QED BY <1>1, <1>3, <1>4, Induction
  <2> QED BY <1>1, <2>1
<1>6. Range(versions) = {versions[i] : i \in 1..m} BY <1>1 DEF Range
<1>7. Among(m) /\ Top(m) BY <1>5
<1> QED BY <1>2, <1>6, <1>7 DEF IsNewest

\* What a text is read as is a version, or none.
LEMMA TripleTyped ==
    ASSUME NEW pieces \in Seq(Nat \cup {Bad})
    PROVE  Triple(pieces) \in Versioned
<1>1. \A i \in 1..3 : At3(pieces, i) \in Nat \cup {Bad}
  <2>1. \A i \in 1..Len(pieces) : pieces[i] \in Nat \cup {Bad} BY ElementsTyped
  <2>2. Len(pieces) \in Nat OBVIOUS
  <2> QED BY <2>1, <2>2 DEF At3
<1> DEFINE three == <<At3(pieces, 1), At3(pieces, 2), At3(pieces, 3)>>
<1>2. CASE \E i \in 1..3 : three[i] = Bad
    BY <1>2 DEF Triple, Versioned
<1>3. CASE \A i \in 1..3 : three[i] # Bad
  <2>1. three[1] \in Nat /\ three[2] \in Nat /\ three[3] \in Nat BY <1>1, <1>3
  <2>2. three \in Triples BY <2>1 DEF Triples
  <2>3. Triple(pieces) = three BY <1>3 DEF Triple
  <2> QED BY <2>2, <2>3 DEF Versioned
<1> QED BY <1>2, <1>3

LEMMA TextsAreVersions ==
    ASSUME NEW text \in Texts
    PROVE  /\ ReleaseVersion(text) \in Versioned
           /\ BundleVersion(text) \in Versioned
           /\ ~text.rest => BundleVersion(text) = Triple(text.core)
<1> DEFINE read == [i \in DOMAIN text.core |->
                      IF i = Len(text.core) /\ text.rest THEN Bad ELSE text.core[i]]
<1>1. text.core \in Seq(Nat \cup {Bad}) /\ text.rest \in BOOLEAN BY DEF Texts
<1>2. /\ DOMAIN text.core = 1..Len(text.core) /\ Len(text.core) \in Nat
      /\ \A i \in DOMAIN text.core : text.core[i] \in Nat \cup {Bad}
    BY <1>1, ElementsTyped
<1>3. read \in Seq(Nat \cup {Bad}) BY <1>2
<1>4. ~text.rest => read = text.core BY <1>1
<1>5. BundleVersion(text) = Triple(read) BY DEF BundleVersion
<1> HIDE DEF read
<1> QED BY <1>1, <1>3, <1>4, <1>5, TripleTyped DEF ReleaseVersion

\* The search among the items of a list that are in ok.
LEMMA NewestOfSome ==
    ASSUME NEW n \in Nat, NEW version \in [1..n -> Versioned], NEW ok \in SUBSET (1..n)
    PROVE  IsNewest(Best([i \in 1..n |-> IF i \in ok THEN version[i] ELSE NoVersion]),
                    {version[i] : i \in ok})
<1> DEFINE list == [i \in 1..n |-> IF i \in ok THEN version[i] ELSE NoVersion]
<1>1. list \in Seq(Versioned) BY DEF Versioned
<1>2. IsNewest(Best(list), Range(list))
  <2> HIDE DEF list
  <2> QED BY <1>1, BestIsNewest
<1>3. Range(list) \subseteq {version[i] : i \in ok} \cup {NoVersion} BY DEF Range
<1>4. {version[i] : i \in ok} \subseteq Range(list)
  <2> SUFFICES ASSUME NEW i \in ok PROVE version[i] \in Range(list) OBVIOUS
  <2>1. i \in DOMAIN list /\ list[i] = version[i] OBVIOUS
  <2> HIDE DEF list
  <2> QED BY <2>1 DEF Range
<1> HIDE DEF list
<1>5. IsNewest(Best(list), {version[i] : i \in ok}) BY <1>2, <1>3, <1>4 DEF IsNewest
<1> QED BY <1>5 DEF list

\* tor_update.rs:90-91: of all the links of the download page, in whatever order
\* and however many, discover_latest finds the newest version that one names.
THEOREM NewestIsDiscovered ==
    ASSUME NEW hrefs \in Seq(Texts)
    PROVE  DiscoversNewest(hrefs)
<1>1. /\ Len(hrefs) \in Nat /\ DOMAIN hrefs = 1..Len(hrefs)
      /\ \A i \in DOMAIN hrefs : hrefs[i] \in Texts
    BY ElementsTyped
<1> DEFINE n == Len(hrefs)
           version == [i \in 1..n |-> BundleVersion(hrefs[i])]
           ok == {i \in 1..n : ~hrefs[i].rest}
<1>2. version \in [1..n -> Versioned] BY <1>1, TextsAreVersions
<1>3. DiscoverLatest(hrefs)
         = Best([i \in 1..n |-> IF i \in ok THEN version[i] ELSE NoVersion])
  <2>1. [i \in 1..n |-> IF i \in ok THEN version[i] ELSE NoVersion]
          = [i \in DOMAIN hrefs |-> IF hrefs[i].rest THEN NoVersion
                                    ELSE BundleVersion(hrefs[i])]
      BY <1>1
  <2> QED BY <2>1 DEF DiscoverLatest
<1>4. {version[i] : i \in ok} = {Triple(h.core) : h \in {t \in Range(hrefs) : ~t.rest}}
  <2>1. \A i \in ok : version[i] = Triple(hrefs[i].core) BY <1>1, TextsAreVersions
  <2> QED BY <1>1, <2>1 DEF Range
<1> HIDE DEF version, ok
<1> QED BY <1>1, <1>2, <1>3, <1>4, NewestOfSome DEF DiscoversNewest, ok

\* tor_manager.rs:144-146: of all directories, installed_version reports the
\* newest version that has an extracted tree, whatever else lies there.
THEOREM NewestIsInstalled ==
    ASSUME NEW dirs \in Seq([name : Texts, extracted : BOOLEAN])
    PROVE  ReportsNewest(dirs)
<1>0. \A i \in DOMAIN dirs : dirs[i] \in [name : Texts, extracted : BOOLEAN]
    BY ElementsTyped
<1>1. /\ Len(dirs) \in Nat /\ DOMAIN dirs = 1..Len(dirs)
      /\ \A i \in DOMAIN dirs : dirs[i].name \in Texts
    BY <1>0
<1> DEFINE n == Len(dirs)
           version == [i \in 1..n |-> BundleVersion(dirs[i].name)]
           ok == {i \in 1..n : dirs[i].extracted}
<1>2. version \in [1..n -> Versioned] BY <1>1, TextsAreVersions
<1>3. InstalledVersion(dirs)
         = Best([i \in 1..n |-> IF i \in ok THEN version[i] ELSE NoVersion])
  <2>1. [i \in 1..n |-> IF i \in ok THEN version[i] ELSE NoVersion]
          = [i \in DOMAIN dirs |-> IF dirs[i].extracted THEN BundleVersion(dirs[i].name)
                                   ELSE NoVersion]
      BY <1>1
  <2> QED BY <2>1 DEF InstalledVersion
<1>4. {version[i] : i \in ok}
        = {BundleVersion(d.name) : d \in {e \in Range(dirs) : e.extracted}}
    BY <1>1 DEF Range
<1> HIDE DEF version, ok
<1> QED BY <1>1, <1>2, <1>3, <1>4, NewestOfSome DEF ReportsNewest, ok

\* update_check.rs:36, 59-91: the check ends with the newest of the stable
\* companion releases, and announces an update if and only if one of them is
\* newer than this build.
THEOREM NewerIsAnnounced ==
    ASSUME NEW releases \in Seq([tag : Texts, companion : BOOLEAN, prerelease : BOOLEAN]),
           NEW current \in Triples
    PROVE  AnnouncesNewer(releases, current)
<1>0. \A i \in DOMAIN releases :
         releases[i] \in [tag : Texts, companion : BOOLEAN, prerelease : BOOLEAN]
    BY ElementsTyped
<1>1. /\ Len(releases) \in Nat /\ DOMAIN releases = 1..Len(releases)
      /\ \A i \in DOMAIN releases :
            releases[i].tag \in Texts /\ releases[i].companion \in BOOLEAN
            /\ releases[i].prerelease \in BOOLEAN
    BY <1>0
<1> DEFINE n == Len(releases)
           version == [i \in 1..n |-> ReleaseVersion(releases[i].tag)]
           ok == {i \in 1..n : releases[i].companion /\ ~releases[i].prerelease}
           stable == {r \in Range(releases) : r.companion /\ ~r.prerelease}
           those == {ReleaseVersion(r.tag) : r \in stable}
           answer == CheckForUpdate(releases, current)
<1>2. version \in [1..n -> Versioned] BY <1>1, TextsAreVersions
<1>3. /\ answer.latest
           = Best([i \in 1..n |-> IF i \in ok THEN version[i] ELSE NoVersion])
      /\ answer.update_available
           = (answer.latest # NoVersion /\ Greater(answer.latest, current))
  <2>1. [i \in 1..n |-> IF i \in ok THEN version[i] ELSE NoVersion]
          = [i \in DOMAIN releases |->
               IF releases[i].prerelease \/ ~releases[i].companion
               THEN NoVersion ELSE ReleaseVersion(releases[i].tag)]
      BY <1>1
  <2> QED BY <2>1 DEF CheckForUpdate
<1>4. {version[i] : i \in ok} = those BY <1>1 DEF Range
<1>5. IsNewest(answer.latest, those)
  <2> HIDE DEF version, ok, answer, those
  <2> QED BY <1>1, <1>2, <1>3, <1>4, NewestOfSome DEF ok
<1>6. those \subseteq Versioned
  <2>1. {version[i] : i \in ok} \subseteq Versioned BY <1>2
  <2> HIDE DEF version, ok, those
  <2> QED BY <1>4, <2>1
<1>7. answer.update_available = \E v \in those : Precedes(current, v)
  <2> HIDE DEF answer, those, version, ok
  <2>1. answer.latest \in those \cup {NoVersion} /\ \A v \in those : ~Precedes(answer.latest, v)
      BY <1>5 DEF IsNewest
  <2>2. current # NoVersion /\ current \in Versioned BY DEF Versioned, Triples, NoVersion
  <2>3. CASE answer.latest = NoVersion
    <3>1. \A v \in those : v = NoVersion BY <2>1, <2>3 DEF Precedes
    <3> QED BY <1>3, <2>3, <3>1 DEF Precedes
  <2>4. CASE answer.latest # NoVersion
    <3>1. answer.latest \in those /\ answer.latest \in Triples
        BY <1>6, <2>1, <2>4 DEF Versioned
    <3>2. Greater(answer.latest, current) <=> Precedes(current, answer.latest)
        BY <3>1, GreaterIsMeant
    <3>3. \A v \in those : Precedes(current, v) => Precedes(current, answer.latest)
        BY <1>6, <2>1, <2>2, <3>1, OrderIsLinear
    <3> QED BY <1>3, <2>4, <3>1, <3>2, <3>3
  <2> QED BY <2>3, <2>4
<1>8. (\E v \in those : Precedes(current, v))
        = (\E r \in stable : Precedes(current, ReleaseVersion(r.tag)))
  <2> HIDE DEF stable
  <2> QED OBVIOUS
<1> HIDE DEF answer, those
<1> QED BY <1>5, <1>7, <1>8 DEF AnnouncesNewer, answer, those

\* The bounded instances of the three.
LEMMA NewestIsChosenAmongTwo == NewestIsChosen
<1>1. \A t \in ShortTexts : t \in Texts
  <2> SUFFICES ASSUME NEW t \in ShortTexts PROVE t \in Texts OBVIOUS
  <2>1. PICK core \in UNION {[1..n -> Pieces] : n \in 1..2}, rest \in BOOLEAN :
           t = Text(core, rest)
      BY DEF ShortTexts
  <2>2. PICK n \in 1..2 : core \in [1..n -> Pieces] BY <2>1
  <2>3. core \in Seq(Nat \cup {Bad}) BY <2>2 DEF Pieces
  <2> QED BY <2>1, <2>3 DEF Text, Texts
<1>2. ASSUME NEW names \in Pairs(ShortTexts)
      PROVE  /\ names \in Seq(Texts) /\ names[1] \in Texts /\ names[2] \in Texts
             /\ DiscoversNewest(names)
  <2>1. PICK a \in ShortTexts, b \in ShortTexts : names = <<a, b>> BY DEF Pairs
  <2>2. a \in Texts /\ b \in Texts BY <1>1
  <2>3. names \in Seq(Texts) /\ names[1] \in Texts /\ names[2] \in Texts BY <2>1, <2>2
  <2> QED BY <2>3, NewestIsDiscovered
<1>3. ASSUME NEW flags \in Pairs(BOOLEAN)
      PROVE  flags[1] \in BOOLEAN /\ flags[2] \in BOOLEAN
    BY DEF Pairs
<1>4. ASSUME NEW names \in Pairs(ShortTexts), NEW flags \in Pairs(BOOLEAN)
      PROVE  ReportsNewest([i \in 1..2 |-> [name |-> names[i], extracted |-> flags[i]]])
  <2> DEFINE dirs == [i \in 1..2 |-> [name |-> names[i], extracted |-> flags[i]]]
  <2>1. \A i \in 1..2 : i = 1 \/ i = 2 OBVIOUS
  <2>2. \A i \in 1..2 : names[i] \in Texts /\ flags[i] \in BOOLEAN BY <1>2, <1>3, <2>1
  <2>3. dirs \in Seq([name : Texts, extracted : BOOLEAN]) BY <2>2
  <2> HIDE DEF dirs
  <2> QED BY <2>3, NewestIsInstalled DEF dirs
<1>5. ASSUME NEW names \in Pairs(ShortTexts), NEW flags \in Pairs(BOOLEAN), NEW mine \in 0..2
      PROVE  AnnouncesNewer([i \in 1..2 |-> [tag |-> names[i], companion |-> TRUE,
                                             prerelease |-> flags[i]]], <<mine, 1, 0>>)
  <2> DEFINE releases == [i \in 1..2 |-> [tag |-> names[i], companion |-> TRUE,
                                          prerelease |-> flags[i]]]
  <2>1. \A i \in 1..2 : i = 1 \/ i = 2 OBVIOUS
  <2>2. \A i \in 1..2 : names[i] \in Texts /\ flags[i] \in BOOLEAN BY <1>2, <1>3, <2>1
  <2>3. releases \in Seq([tag : Texts, companion : BOOLEAN, prerelease : BOOLEAN])
      BY <2>2
  <2>4. <<mine, 1, 0>> \in Triples BY DEF Triples
  <2> HIDE DEF releases
  <2> QED BY <2>3, <2>4, NewerIsAnnounced DEF releases
<1> QED BY <1>2, <1>4, <1>5 DEF NewestIsChosen

\* tor_manager.rs:144-146: in whatever order the disk lists its directories, the
\* version that diagnostics report is the newest that has been extracted; with
\* any number of installers, versions and names.
THEOREM NewestVersionIsReported == Spec => []NewestIsReported
<1>1. ASSUME TypeOK, NEW order \in Listings
      PROVE  InstalledVersion([i \in DOMAIN order |->
                                  [name |-> Names[order[i]],
                                   extracted |-> order[i] \in extracted]])
               = IF extracted = {} THEN NoVersion ELSE BundleVersion(Names[ReportedVersion])
  <2> DEFINE n == Cardinality(Versions)
             dirs == [i \in DOMAIN order |-> [name |-> Names[order[i]],
                                              extracted |-> order[i] \in extracted]]
             those == {BundleVersion(Names[v]) : v \in extracted}
             found == InstalledVersion(dirs)
  <2>1. /\ n \in Nat /\ order \in [1..n -> Versions] /\ Range(order) = Versions
        /\ DOMAIN order = 1..n
      BY InstallAssumption, FS_CardinalityType DEF Listings, InstallAssumption
  <2>2. \A v \in Versions : v \in Nat /\ Names[v] \in Texts /\ BundleVersion(Names[v]) # NoVersion
      BY InstallAssumption, NamesAssumption DEF InstallAssumption, NamesAssumption
  <2>3. extracted \subseteq Versions BY <1>1 DEF TypeOK
  <2> HIDE DEF n
  <2>4. dirs \in Seq([name : Texts, extracted : BOOLEAN]) BY <2>1, <2>2
  <2>5. {BundleVersion(d.name) : d \in {e \in Range(dirs) : e.extracted}} = those
    <3>1. Range(dirs) = {dirs[i] : i \in 1..n} BY <2>1 DEF Range
    <3>2. \A i \in 1..n : dirs[i].name = Names[order[i]]
                          /\ dirs[i].extracted = (order[i] \in extracted)
        BY <2>1
    <3>3. \A v \in extracted : \E i \in 1..n : order[i] = v BY <2>1, <2>3 DEF Range
    <3>4. \A i \in 1..n : order[i] \in Versions BY <2>1
    <3> HIDE DEF dirs
    <3>5. ASSUME NEW v \in extracted
          PROVE  \E i \in 1..n :
                    dirs[i].extracted /\ BundleVersion(dirs[i].name) = BundleVersion(Names[v])
      <4>1. PICK i \in 1..n : order[i] = v BY <3>3
      <4> QED BY <3>2, <4>1
    <3>6. those \subseteq {BundleVersion(d.name) : d \in {e \in Range(dirs) : e.extracted}}
      <4> SUFFICES ASSUME NEW v \in extracted
                   PROVE  \E d \in {e \in Range(dirs) : e.extracted} :
                             BundleVersion(Names[v]) = BundleVersion(d.name)
          OBVIOUS
      <4>1. PICK i \in 1..n :
               dirs[i].extracted /\ BundleVersion(dirs[i].name) = BundleVersion(Names[v])
          BY <3>5
      <4> QED BY <3>1, <4>1
    <3>7. {BundleVersion(d.name) : d \in {e \in Range(dirs) : e.extracted}} \subseteq those
      <4> SUFFICES ASSUME NEW d \in Range(dirs), d.extracted
                   PROVE  BundleVersion(d.name) \in those
          OBVIOUS
      <4>1. PICK i \in 1..n : d = dirs[i] BY <3>1
      <4> QED BY <3>2, <4>1
    <3> QED BY <3>6, <3>7
  <2>6. IsNewest(found, those)
    <3> HIDE DEF dirs, those
    <3> QED BY <2>4, <2>5, NewestIsInstalled DEF ReportsNewest
  <2> SUFFICES found = IF extracted = {} THEN NoVersion
                       ELSE BundleVersion(Names[ReportedVersion])
      OBVIOUS
  <2> HIDE DEF found, dirs
  <2>7. CASE extracted = {} BY <2>6, <2>7 DEF IsNewest
  <2>8. CASE extracted # {}
    <3>1. found # NoVersion
      <4>1. PICK v \in extracted : TRUE BY <2>8
      <4>2. BundleVersion(Names[v]) \in those BY <4>1
      <4>3. ~Precedes(found, BundleVersion(Names[v])) BY <2>6, <4>2 DEF IsNewest
      <4> QED BY <2>2, <2>3, <4>1, <4>3 DEF Precedes
    <3>2. PICK v \in extracted : found = BundleVersion(Names[v])
        BY <2>6, <3>1 DEF IsNewest
    <3>3. \A w \in extracted : w <= v
      <4> SUFFICES ASSUME NEW w \in extracted, v < w PROVE FALSE BY <2>2, <2>3
      <4>1. Precedes(found, BundleVersion(Names[w]))
          BY <2>3, <3>2, NamesAssumption DEF NamesAssumption
      <4> QED BY <2>6, <4>1 DEF IsNewest
    <3>4. \A u \in extracted : (\A w \in extracted : w <= u) => u = v
        BY <2>2, <2>3, <3>3
    <3>5. ReportedVersion = v
        BY <3>3, <3>4 DEF ReportedVersion, InstalledVersions
    <3> QED BY <2>8, <3>2, <3>5
  <2> QED BY <2>7, <2>8
<1>2. TypeOK => NewestIsReported BY <1>1, NewestIsChosenAmongTwo DEF NewestIsReported
<1> QED BY <1>2, TypeCorrect, PTL
=============================================================================
