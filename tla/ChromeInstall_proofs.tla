------------------------ MODULE ChromeInstall_proofs ------------------------
(***************************************************************************)
(* What install leaves, finds and reports, for every set of requests, of   *)
(* files and of profile directories, and any number of commands and of     *)
(* faults.                                                                 *)
(***************************************************************************)
EXTENDS ChromeInstall, FunctionTheorems, FiniteSetTheorems, TLAPS

LastIsBinary == order[Len(order)] = Binary
Extracting == pc \in {"open", "write"}

\* The files of d are those of one archive, all of it.
Complete(d) ==
    \E u \in URLs : u[1] = d /\ \A f \in Files : disk[d][f] = [url |-> u, whole |-> TRUE]

\* The command that runs is an install of something that can be installed.
Commands ==
    /\ pc \in Steps => request \in Supported /\ url \in URLs /\ url[1] = request
    /\ pc \in {"binary", "download"} => fresh = "absent"
    /\ pc \in {"ok", "failed"} /\ url # <<>> => url \in URLs

\* From the download to the extraction there is an archive, and no binary.
Downloads ==
    /\ pc \in {"download", "fetch", "unzip"} => disk[request][Binary] = Absent
    /\ pc = "unzip" => IF fixedName THEN archive[url] # "absent" ELSE fresh = "whole"

\* What has been extracted so far; the binary, if it is to be the last file, has not.
Extracted ==
    /\ Extracting =>
          /\ \A i \in 1..Len(order) : i < at => disk[request][order[i]] = [url |-> url, whole |-> TRUE]
          /\ LastIsBinary /\ at <= Len(order) => ~disk[request][Binary].whole
    /\ pc = "write" => at <= Len(order)
    /\ pc = "prepare" => \A f \in Files : disk[request][f] = [url |-> url, whole |-> TRUE]
    /\ pc = "version" => disk[request][Binary] # Absent

\* A whole binary that is the last file of its archive has all the others beside it.
LastComesLast == LastIsBinary => \A d \in Requests : disk[d][Binary].whole => Complete(d)

\* While there is no fault an installation is complete, or under way, or not there.
Undisturbed ==
    faults = 0 =>
        /\ \A d \in Requests :
              \/ d = request /\ (Extracting \/ pc = "prepare")
              \/ \A f \in Files : disk[d][f] = Absent
              \/ Complete(d) /\ d \in permitted
        /\ pc \in {"download", "fetch", "unzip", "open", "write", "prepare"} => request \notin told

\* The directories of the profile that have been waited for are there.
ProfileMade ==
    /\ pc = "wait" => \A i \in DOMAIN ProfileDirs : i < at => ProfileDirs[i] \in profile
    /\ pc = "terminate" => profile = {ProfileDirs[i] : i \in DOMAIN ProfileDirs}

InstallInv ==
    /\ TypeOK /\ Commands /\ Downloads /\ Extracted /\ LastComesLast /\ Undisturbed
    /\ ProfileMade /\ ToldMeansInstalled /\ FailsForACause /\ InitializedProfile

-----------------------------------------------------------------------------

LEMMA Bounds ==
  /\ MaxVersion \in Nat \ {0} /\ MaxRuns \in Nat /\ MaxFaults \in Nat
  /\ Binary \in Files
  /\ Len(ProfileDirs) \in Nat \ {0} /\ DOMAIN ProfileDirs = 1..Len(ProfileDirs)
<1>1. ProfileDirs \in Seq(STRING) /\ ProfileDirs # <<>>
  BY ProfileDirsAssumption
<1> QED
  BY <1>1, BoundsAssumption, FilesAssumption

\* A URL is a request with a version; what is extracted from one is a file.
LEMMA FilesOf ==
  ASSUME NEW u \in URLs
  PROVE  /\ u # <<>> /\ u[1] \in Requests
         /\ \A whole \in BOOLEAN : /\ [url |-> u, whole |-> whole] \in File
                                   /\ [url |-> u, whole |-> whole] # Absent
<1>1. u # <<>> /\ u[1] \in Requests
  BY DEF URLs
<1>2. ASSUME NEW whole \in BOOLEAN
      PROVE  [url |-> u, whole |-> whole] \in File /\ [url |-> u, whole |-> whole] # Absent
  <2>1. [url |-> u, whole |-> whole].url = u /\ Absent.url = <<>>
    BY DEF Absent
  <2> QED
    BY <1>1, <2>1 DEF File
<1> QED
  BY <1>1, <1>2

LEMMA NoFile == Absent \in File /\ Absent.whole = FALSE
  BY DEF Absent, File

\* An order names every file, once.
LEMMA OrderNamesAll ==
  ASSUME NEW o \in Orders
  PROVE  /\ Len(o) = Cardinality(Files) /\ Len(o) \in Nat \ {0} /\ DOMAIN o = 1..Len(o)
         /\ \A i \in 1..Len(o) : o[i] \in Files
         /\ \A i, j \in 1..Len(o) : i # j => o[i] # o[j]
         /\ \A f \in Files : \E i \in 1..Len(o) : o[i] = f
<1> DEFINE n == Cardinality(Files)
<1>1. IsFiniteSet(Files) /\ Binary \in Files
  BY FilesAssumption
<1>2. n \in Nat /\ n # 0
  BY <1>1, FS_CardinalityType, FS_EmptySet
<1>3. o \in [1..n -> Files] /\ \A i, j \in DOMAIN o : i # j => o[i] # o[j]
  BY DEF Orders
<1>4. o \in Injection(1..n, Files)
  BY <1>3 DEF Injection, IsInjective
<1>5. IsFiniteSet(1..n) /\ Cardinality(1..n) = n
  BY <1>2, FS_Interval
<1>6. o \in Surjection(1..n, Files)
  BY <1>1, <1>4, <1>5, FS_Injection
<1>7. \A f \in Files : \E i \in 1..n : o[i] = f
  BY <1>6 DEF Surjection
<1>8. Len(o) = n /\ DOMAIN o = 1..n
  BY <1>2, <1>3
<1> QED
  BY <1>2, <1>3, <1>7, <1>8

LEMMA InitInstalls == Init => InstallInv
<1> SUFFICES ASSUME Init PROVE InstallInv
  OBVIOUS
<1>1. TypeOK
  <2>1. disk \in [Requests -> [Files -> File]]
    BY NoFile DEF Init
  <2>2. manifest \in [Requests -> 0..MaxVersion] /\ faults \in 0..MaxFaults /\ runs \in 0..MaxRuns
    BY Bounds DEF Init
  <2> QED
    BY <2>1, <2>2 DEF Init, TypeOK, Steps
<1>2. Commands /\ Downloads /\ Extracted /\ ProfileMade
  BY DEF Init, Steps, Commands, Downloads, Extracted, Extracting, ProfileMade
<1>3. LastComesLast
  BY NoFile, Bounds DEF Init, LastComesLast
<1>4. Undisturbed
  BY DEF Init, Undisturbed
<1>5. ToldMeansInstalled /\ FailsForACause /\ InitializedProfile
  BY DEF Init, ToldMeansInstalled, FailsForACause, InitializedProfile
<1> QED
  BY <1>1, <1>2, <1>3, <1>4, <1>5 DEF InstallInv

\* What a step may do to the disk: a file of the archive it extracts.
LEMMA DiskStep ==
  ASSUME TypeOK, Commands, Extracted, [Next]_vars
  PROVE  /\ disk' \in [Requests -> [Files -> File]]
         /\ \/ UNCHANGED disk
            \/ /\ OpenFile /\ at <= Len(order)
               /\ \A d \in Requests, f \in Files :
                     disk'[d][f] = IF d = request /\ f = order[at]
                                   THEN [url |-> url, whole |-> FALSE] ELSE disk[d][f]
            \/ /\ WriteFile /\ at \in 1..Len(order)
               /\ \A d \in Requests, f \in Files :
                     disk'[d][f] = IF d = request /\ f = order[at]
                                   THEN [url |-> url, whole |-> TRUE] ELSE disk[d][f]
<1>0. disk \in [Requests -> [Files -> File]] /\ request \in Requests
  BY DEF TypeOK
<1>1. ASSUME NEW whole \in BOOLEAN, url \in URLs, Put(order[at], whole)
      PROVE  /\ disk' \in [Requests -> [Files -> File]]
             /\ \A d \in Requests, f \in Files :
                   disk'[d][f] = IF d = request /\ f = order[at]
                                 THEN [url |-> url, whole |-> whole] ELSE disk[d][f]
  <2> DEFINE new == [url |-> url, whole |-> whole]
  <2>1. new \in File
    BY <1>1, FilesOf
  <2>2. disk' = [disk EXCEPT ![request] = [disk[request] EXCEPT ![order[at]] = new]]
    BY <1>0, <1>1 DEF Put
  <2> HIDE DEF new
  <2>3. [disk[request] EXCEPT ![order[at]] = new] \in [Files -> File]
    BY <1>0, <2>1
  <2>4. disk' \in [Requests -> [Files -> File]]
    BY <1>0, <2>2, <2>3
  <2>5. \A d \in Requests, f \in Files :
           disk'[d][f] = IF d = request /\ f = order[at] THEN new ELSE disk[d][f]
    BY <1>0, <2>2
  <2> QED
    BY <2>4, <2>5 DEF new
<1>2. CASE OpenFile
  <2>1. CASE at > Len(order)
    BY <1>0, <1>2, <2>1 DEF OpenFile
  <2>2. CASE ~(at > Len(order))
    <3>1. Put(order[at], FALSE) /\ url \in URLs
      BY <1>2, <2>2 DEF OpenFile, Commands, Steps
    <3>2. at <= Len(order)
      <4>1. at \in 1..Len(order) + 1 /\ Len(order) \in Nat
        BY <1>2, OrderNamesAll DEF OpenFile, TypeOK
      <4> QED
        BY <4>1, <2>2
    <3> QED
      BY <1>1, <1>2, <3>1, <3>2
  <2> QED
    BY <2>1, <2>2
<1>3. CASE WriteFile
  <2>1. Put(order[at], TRUE) /\ url \in URLs
    BY <1>3 DEF WriteFile, Commands, Steps
  <2>2. at \in 1..Len(order)
    <3>1. at \in 1..Len(order) + 1 /\ Len(order) \in Nat /\ at <= Len(order)
      BY <1>3, OrderNamesAll DEF WriteFile, TypeOK, Extracted
    <3> QED
      BY <3>1
  <2> QED
    BY <1>1, <1>3, <2>1, <2>2
<1>4. CASE UNCHANGED disk
  BY <1>0, <1>4
<1>5. Next => UNCHANGED disk \/ OpenFile \/ WriteFile
  BY DEF Next, InstallStep, Killed, Fails, Fault, Release, Install, Paths, Begin, BinaryExists,
         Download, Fetched, OpenArchive, PrepareInstallDir, GetVersion, Launch, WaitForDir,
         GiveUpWaiting, Terminate, BrowserMakesDir, cache
<1> QED
  BY <1>2, <1>3, <1>4, <1>5 DEF vars, cache

LEMMA TypeStep ==
  ASSUME TypeOK, Commands, Extracted, [Next]_vars
  PROVE  TypeOK'
<1>0. disk' \in [Requests -> [Files -> File]]
  BY DiskStep
<1>1. CASE Killed \/ Fails
  <2>1. faults' \in 0..MaxFaults /\ browser' \in {"none", "running"}
    BY <1>1, Bounds DEF TypeOK, Killed, Fails, Fault
  <2>2. pc' \in {"killed", "failed"} /\ hit' = TRUE
    BY <1>1 DEF Killed, Fails, Fault
  <2>3. UNCHANGED <<environment, manifest, cache, request, url, fresh, at, runs, told>>
    BY <1>1 DEF Killed, Fails, Fault
  <2> QED
    BY <1>0, <2>1, <2>2, <2>3 DEF TypeOK, environment, cache
<1>2. ASSUME NEW r \in Requests, Release(r)
      PROVE  TypeOK'
  <2>1. manifest' \in [Requests -> 0..MaxVersion]
    BY <1>2, Bounds DEF TypeOK, Release
  <2> QED
    BY <1>0, <1>2, <2>1 DEF TypeOK, Release, environment, cache
<1>3. ASSUME NEW r \in Requests, Begin(r), pc' \in {"binary", "ok", "failed"}, told' \subseteq Supported,
             url' \in URLs \cup {<<>>}
      PROVE  TypeOK'
  <2>1. runs' \in 0..MaxRuns
    BY <1>3, Bounds DEF TypeOK, Begin
  <2> QED
    BY <1>0, <1>3, <2>1 DEF TypeOK, Begin, environment, cache, Steps
<1>4. ASSUME NEW r \in Requests, Install(r)
      PROVE  TypeOK'
  <2>1. HasDownload(r) => <<r, manifest[r]>> \in URLs
    BY Bounds DEF TypeOK, HasDownload, URLs
  <2>2. url' \in URLs \cup {<<>>}
    BY <1>4, <2>1 DEF Install
  <2> QED
    BY <1>3, <1>4, <2>2 DEF Install, TypeOK
<1>5. ASSUME NEW r \in Requests, Paths(r)
      PROVE  TypeOK'
  BY <1>3, <1>5 DEF Paths, TypeOK
<1>6. CASE BinaryExists \/ PrepareInstallDir \/ GetVersion
  <2>1. pc \in Steps /\ request \in Supported
    BY <1>6 DEF BinaryExists, PrepareInstallDir, GetVersion, Steps, Commands
  <2> QED
    BY <1>0, <1>6, <2>1 DEF TypeOK, BinaryExists, PrepareInstallDir, GetVersion, Goto, environment,
                            cache, Steps
<1>7. CASE Download \/ Fetched
  <2>1. archive' \in [URLs -> {"absent", "partial", "whole"}] /\ fresh' \in {"absent", "partial", "whole"}
    BY <1>7 DEF TypeOK, Download, Fetched, ArchiveBecomes
  <2> QED
    BY <1>0, <1>7, <2>1 DEF TypeOK, Download, Fetched, Goto, environment, cache, Steps
<1>8. CASE OpenArchive
  <2>1. Len(order) \in Nat
    BY OrderNamesAll DEF TypeOK
  <2> QED
    BY <1>0, <1>8, <2>1 DEF TypeOK, OpenArchive, Goto, environment, cache, Steps
<1>9. CASE OpenFile \/ WriteFile
  <2>1. Len(order) \in Nat
    BY OrderNamesAll DEF TypeOK
  <2>2. at \in 1..Len(order) + 1 /\ (pc = "write" => at <= Len(order))
    BY <1>9 DEF TypeOK, Extracted, OpenFile, WriteFile
  <2>3. pc' # "wait" /\ at' \in 1..Len(order) + 1
    <3>1. CASE OpenFile
      BY <2>2, <3>1 DEF OpenFile, Goto
    <3>2. CASE WriteFile
      <4>1. pc' = "open" /\ at' = at + 1 /\ pc = "write"
        BY <3>2 DEF WriteFile, Goto
      <4> QED
        BY <2>1, <2>2, <4>1
    <3> QED
      BY <1>9, <3>1, <3>2
  <2> QED
    BY <1>0, <1>9, <2>3 DEF TypeOK, OpenFile, WriteFile, Goto, environment, cache, Steps
<1>10. CASE Launch \/ WaitForDir
  <2>1. at' \in 1..Len(ProfileDirs) /\ pc' \notin {"open", "write"}
    BY <1>10, Bounds DEF TypeOK, Launch, WaitForDir, Goto
  <2> QED
    BY <1>0, <1>10, <2>1 DEF TypeOK, Launch, WaitForDir, Goto, environment, cache, Steps
<1>11. CASE GiveUpWaiting \/ Terminate
  BY <1>0, <1>11 DEF TypeOK, GiveUpWaiting, Terminate, Goto, environment, cache, Steps
<1>12. ASSUME NEW i \in DOMAIN ProfileDirs, BrowserMakesDir(ProfileDirs[i])
       PROVE  TypeOK'
  BY <1>0, <1>12 DEF TypeOK, BrowserMakesDir, environment
<1>13. CASE UNCHANGED vars
  BY <1>0, <1>13 DEF TypeOK, vars, environment, cache
<1> QED
  BY <1>1, <1>2, <1>4, <1>5, <1>6, <1>7, <1>8, <1>9, <1>10, <1>11, <1>12, <1>13 DEF Next, InstallStep

LEMMA CommandsStep ==
  ASSUME TypeOK, Commands, [Next]_vars
  PROVE  Commands'
<1>1. ASSUME NEW r \in Requests, Install(r)
      PROVE  Commands'
  <2>1. HasDownload(r) => <<r, manifest[r]>> \in URLs /\ <<r, manifest[r]>>[1] = r
    BY Bounds DEF TypeOK, HasDownload, URLs
  <2>2. pc' = "binary" => url' \in URLs /\ url'[1] = r /\ r \in Supported
    BY <1>1, <2>1 DEF Install
  <2>3. pc' = "failed" /\ url' # <<>> => url' \in URLs
    BY <1>1, <2>1 DEF Install
  <2>4. pc' \in {"binary", "failed"} /\ request' = r /\ fresh' = "absent"
    BY <1>1 DEF Install, Begin
  <2> QED
    BY <2>2, <2>3, <2>4 DEF Commands, Steps, Supported
<1>2. ASSUME NEW r \in Requests, Paths(r)
      PROVE  Commands'
  BY <1>2 DEF Paths, Begin, Commands, Steps
<1>3. CASE Killed \/ Fails
  BY <1>3 DEF Commands, Killed, Fails, Fault, Steps, Idle
<1>4. CASE InstallStep
  BY <1>4 DEF InstallStep, BinaryExists, Download, Fetched, OpenArchive, OpenFile, WriteFile,
              PrepareInstallDir, GetVersion, Launch, WaitForDir, GiveUpWaiting, Terminate, Goto,
              Commands, Steps, Supported
<1>5. ASSUME UNCHANGED <<pc, request, url, fresh>>
      PROVE  Commands'
  BY <1>5 DEF Commands, Supported
<1>6. (\E r \in Requests : Release(r)) \/ (\E i \in DOMAIN ProfileDirs : BrowserMakesDir(ProfileDirs[i]))
        \/ UNCHANGED vars => UNCHANGED <<pc, request, url, fresh>>
  BY DEF Release, BrowserMakesDir, vars
<1> QED
  BY <1>1, <1>2, <1>3, <1>4, <1>5, <1>6 DEF Next

\* The steps that move a command from one part of an installation to another.
LEMMA Moves ==
  ASSUME [Next]_vars
  PROVE  \/ UNCHANGED <<pc, request, url, at, disk, archive, fresh, fixedName, order>>
         \/ pc' \in {"ok", "failed", "killed", "binary", "launch", "wait", "terminate"} /\ UNCHANGED disk
         \/ BinaryExists \/ Download \/ Fetched \/ OpenArchive \/ OpenFile \/ WriteFile
         \/ PrepareInstallDir
<1>1. CASE InstallStep
  BY <1>1 DEF InstallStep, GetVersion, Launch, WaitForDir, GiveUpWaiting, Terminate, Goto, cache
<1>2. ASSUME NEW r \in Requests, Install(r) \/ Paths(r)
      PROVE  pc' \in {"ok", "failed", "binary"} /\ UNCHANGED disk
  BY <1>2 DEF Install, Paths, Begin, cache
<1>3. CASE Killed \/ Fails
  BY <1>3 DEF Killed, Fails, Fault, cache
<1>4. ASSUME NEW r \in Requests, Release(r)
      PROVE  UNCHANGED <<pc, request, url, at, disk, archive, fresh, fixedName, order>>
  BY <1>4 DEF Release, cache, environment
<1>5. ASSUME NEW i \in DOMAIN ProfileDirs, BrowserMakesDir(ProfileDirs[i])
      PROVE  UNCHANGED <<pc, request, url, at, disk, archive, fresh, fixedName, order>>
  BY <1>5 DEF BrowserMakesDir, environment
<1>6. CASE UNCHANGED vars
  BY <1>6 DEF vars, cache, environment
<1> QED
  BY <1>1, <1>2, <1>3, <1>4, <1>5, <1>6 DEF Next

LEMMA DownloadsStep ==
  ASSUME TypeOK, Commands, Downloads, [Next]_vars
  PROVE  Downloads'
<1>1. CASE BinaryExists
  BY <1>1 DEF BinaryExists, Goto, cache, Downloads
<1>2. CASE Download \/ Fetched
  <2>1. pc \in {"download", "fetch"} /\ pc' \in {"fetch", "unzip"} /\ UNCHANGED <<disk, request, url, fixedName>>
    BY <1>2 DEF Download, Fetched, Goto, environment
  <2>2. url \in URLs /\ (pc = "download" => fresh = "absent")
    BY <2>1 DEF Commands, Steps
  <2>3. pc' = "unzip" => IF fixedName THEN archive'[url] # "absent" ELSE fresh' = "whole"
    <3>1. CASE Download
      BY <2>2, <3>1 DEF Download, Goto, Archive, DownloadPath
    <3>2. CASE Fetched
      BY <2>2, <3>2 DEF TypeOK, Fetched, ArchiveBecomes, DownloadPath
    <3> QED
      BY <1>2, <3>1, <3>2
  <2> QED
    BY <2>1, <2>3 DEF Downloads
<1>3. CASE OpenArchive \/ OpenFile \/ WriteFile \/ PrepareInstallDir
  BY <1>3 DEF OpenArchive, OpenFile, WriteFile, PrepareInstallDir, Goto, Downloads
<1>4. CASE UNCHANGED <<pc, request, url, at, disk, archive, fresh, fixedName, order>>
  BY <1>4 DEF Downloads
<1>5. CASE pc' \in {"ok", "failed", "killed", "binary", "launch", "wait", "terminate"}
  BY <1>5 DEF Downloads
<1> QED
  BY Moves, <1>1, <1>2, <1>3, <1>4, <1>5

LEMMA ExtractedStep ==
  ASSUME TypeOK, Commands, Downloads, Extracted, [Next]_vars
  PROVE  Extracted'
<1> DEFINE whole == [url |-> url, whole |-> TRUE]
<1>0. /\ Len(order) \in Int /\ 1 <= Len(order) /\ request \in Requests
      /\ pc \in {"open", "write"} => at \in Int /\ 1 <= at /\ at <= Len(order) + 1
  BY OrderNamesAll DEF TypeOK
<1>a. /\ \A i \in 1..Len(order) : order[i] \in Files
      /\ \A i, j \in 1..Len(order) : i # j => order[i] # order[j]
  BY OrderNamesAll DEF TypeOK
<1>b. \A f \in Files : \E i \in 1..Len(order) : order[i] = f
  BY OrderNamesAll DEF TypeOK
<1>c. Extracting => \A i \in 1..Len(order) : i < at => disk[request][order[i]] = whole
  BY DEF Extracted
<1>1. CASE BinaryExists
  BY <1>1 DEF BinaryExists, Goto, cache, Extracted, Extracting
<1>2. CASE Download \/ Fetched
  BY <1>2 DEF Download, Fetched, Goto, Extracted, Extracting
<1>3. CASE OpenArchive
  <2>1. at' = 1 /\ pc' \in {"open", "failed"} /\ UNCHANGED <<disk, request, url, order>>
    BY <1>3 DEF OpenArchive, Goto, cache, environment
  <2>2. ~disk[request][Binary].whole
    BY <1>3, NoFile DEF OpenArchive, Downloads
  <2> QED
    BY <1>0, <2>1, <2>2 DEF Extracted, Extracting, LastIsBinary
<1>4. CASE OpenFile
  <2>0. pc = "open" /\ UNCHANGED <<request, url, order, at>>
    BY <1>4 DEF OpenFile, Goto, environment
  <2>1. CASE at > Len(order)
    <3>1. pc' = "prepare" /\ UNCHANGED disk
      BY <1>4, <2>1 DEF OpenFile, Goto
    <3>2. \A i \in 1..Len(order) : disk[request][order[i]] = whole
      <4>1. \A i \in 1..Len(order) : i < at
        BY <1>0, <2>0, <2>1
      <4> QED
        BY <1>c, <2>0, <4>1 DEF Extracting
    <3>3. \A f \in Files : disk[request][f] = [url |-> url, whole |-> TRUE]
      BY <1>b, <3>2
    <3> QED
      BY <2>0, <3>1, <3>3 DEF Extracted, Extracting
  <2>2. CASE at <= Len(order)
    <3>1. ~(at > Len(order))
      BY <1>0, <2>0, <2>2
    <3>2. pc' = "write" /\ Put(order[at], FALSE) /\ url \in URLs
      BY <1>4, <3>1 DEF OpenFile, Goto, Commands, Steps
    <3>3. \A f \in Files : disk'[request][f] = IF f = order[at]
                                              THEN [url |-> url, whole |-> FALSE] ELSE disk[request][f]
      BY <1>0, <2>0, <2>2, <3>2 DEF Put, TypeOK
    <3>4. ASSUME NEW i \in 1..Len(order), i < at
          PROVE  disk'[request][order[i]] = whole
      <4>1. disk[request][order[i]] = whole /\ order[i] \in Files
        BY <1>a, <1>c, <2>0, <3>4 DEF Extracting
      <4>2. i # at /\ at \in 1..Len(order)
        BY <1>0, <2>0, <2>2, <3>4
      <4> QED
        BY <1>a, <3>3, <4>1, <4>2
    <3>5. LastIsBinary => ~disk'[request][Binary].whole
      BY <1>0, <2>0, <2>2, <3>3, Bounds DEF Extracted, Extracting
    <3> QED
      BY <2>0, <2>2, <3>2, <3>4, <3>5 DEF Extracted, Extracting, LastIsBinary
  <2> QED
    BY <1>0, <2>0, <2>1, <2>2
<1>5. CASE WriteFile
  <2>0. /\ pc = "write" /\ pc' = "open" /\ at' = at + 1 /\ UNCHANGED <<request, url, order>>
        /\ at \in 1..Len(order) /\ url \in URLs
    BY <1>0, <1>5 DEF WriteFile, Goto, environment, TypeOK, Extracted, Commands, Steps
  <2>1. Put(order[at], TRUE)
    BY <1>5 DEF WriteFile
  <2>2. \A f \in Files : disk'[request][f] = IF f = order[at]
                                            THEN [url |-> url, whole |-> TRUE] ELSE disk[request][f]
    BY <1>0, <2>0, <2>1 DEF Put, TypeOK
  <2>3. ASSUME NEW i \in 1..Len(order), i < at + 1
        PROVE  disk'[request][order[i]] = whole
    <3>1. i < at \/ i = at
      BY <1>0, <2>0, <2>3
    <3> QED
      BY <1>a, <1>c, <2>0, <2>2, <3>1 DEF Extracting
  <2>4. LastIsBinary /\ at + 1 <= Len(order) => ~disk'[request][Binary].whole
    BY <1>0, <1>a, <2>0, <2>2, Bounds DEF Extracted, Extracting, LastIsBinary
  <2> QED
    BY <2>0, <2>3, <2>4 DEF Extracted, Extracting, LastIsBinary
<1>6. CASE PrepareInstallDir
  <2>1. url \in URLs /\ disk[request][Binary] = [url |-> url, whole |-> TRUE]
    BY <1>6, Bounds DEF PrepareInstallDir, Extracted, Commands, Steps
  <2>2. disk[request][Binary] # Absent
    BY <2>1, FilesOf
  <2> QED
    BY <1>6, <2>2 DEF PrepareInstallDir, Goto, Extracted, Extracting
<1>7. CASE UNCHANGED <<pc, request, url, at, disk, archive, fresh, fixedName, order>>
  BY <1>7 DEF Extracted, Extracting, LastIsBinary
<1>8. CASE pc' \in {"ok", "failed", "killed", "binary", "launch", "wait", "terminate"}
  BY <1>8 DEF Extracted, Extracting
<1> QED
  BY Moves, <1>1, <1>2, <1>3, <1>4, <1>5, <1>6, <1>7, <1>8

LEMMA EnvironmentStays == [Next]_vars => UNCHANGED environment
  BY DEF Next, InstallStep, Killed, Fails, Fault, Release, Install, Paths, Begin, BinaryExists,
         Download, Fetched, OpenArchive, OpenFile, WriteFile, PrepareInstallDir, GetVersion, Launch,
         WaitForDir, GiveUpWaiting, Terminate, BrowserMakesDir, Goto, vars

LEMMA CompleteStays ==
  ASSUME NEW d \in Requests, \A f \in Files : disk'[d][f] = disk[d][f], Complete(d)
  PROVE  Complete(d)'
  BY DEF Complete

LEMMA CompleteIsThere ==
  ASSUME NEW d \in Requests, Complete(d)
  PROVE  disk[d][Binary] # Absent /\ disk[d][Binary].whole
<1>1. PICK u \in URLs : disk[d][Binary] = [url |-> u, whole |-> TRUE]
  BY Bounds DEF Complete
<1>2. [url |-> u, whole |-> TRUE] # Absent /\ [url |-> u, whole |-> TRUE].whole
  BY FilesOf
<1> QED
  BY <1>1, <1>2

LEMMA LastStep ==
  ASSUME TypeOK, Commands, Extracted, LastComesLast, [Next]_vars
  PROVE  LastComesLast'
<1> SUFFICES ASSUME LastIsBinary', NEW d \in Requests, disk'[d][Binary].whole
             PROVE  Complete(d)'
  BY DEF LastComesLast
<1>0. LastIsBinary /\ (disk[d][Binary].whole => Complete(d))
  BY EnvironmentStays DEF LastIsBinary, environment, LastComesLast
<1>1. CASE UNCHANGED disk
  BY <1>0, <1>1, CompleteStays
<1>2. CASE d # request /\ \A f \in Files : disk'[d][f] = disk[d][f]
  BY <1>0, <1>2, CompleteStays, Bounds
<1>3. CASE /\ d = request /\ OpenFile /\ at <= Len(order)
           /\ \A f \in Files : disk'[d][f] = IF f = order[at] THEN [url |-> url, whole |-> FALSE]
                                                             ELSE disk[d][f]
  BY <1>0, <1>3, Bounds DEF OpenFile, Extracted, Extracting
<1>4. CASE /\ d = request /\ WriteFile /\ at \in 1..Len(order)
           /\ \A f \in Files : disk'[d][f] = IF f = order[at] THEN [url |-> url, whole |-> TRUE]
                                                             ELSE disk[d][f]
  <2>0. pc = "write" /\ url \in URLs /\ url[1] = request /\ ~disk[d][Binary].whole
    BY <1>0, <1>4, OrderNamesAll DEF TypeOK, WriteFile, Commands, Steps, Extracted, Extracting
  <2>1. order[at] = Binary
    BY <1>4, <2>0, Bounds
  <2>2. \A i \in 1..Len(order) : i = at \/ i < at
    <3>1. at = Len(order)
      BY <1>0, <1>4, <2>1, OrderNamesAll DEF TypeOK, LastIsBinary
    <3> QED
      BY <3>1, OrderNamesAll DEF TypeOK
  <2>3. ASSUME NEW f \in Files
        PROVE  disk'[d][f] = [url |-> url, whole |-> TRUE]
    <3>1. PICK i \in 1..Len(order) : order[i] = f
      BY OrderNamesAll DEF TypeOK
    <3>2. i < at => disk[d][f] = [url |-> url, whole |-> TRUE]
      BY <1>4, <2>0, <3>1 DEF Extracted, Extracting
    <3> QED
      BY <1>4, <2>2, <3>1, <3>2
  <2> QED
    BY <1>4, <2>0, <2>3 DEF Complete
<1> QED
  <2>1. request \in Requests
    BY DEF TypeOK
  <2> QED
    BY <1>1, <1>2, <1>3, <1>4, <2>1, DiskStep

LEMMA UndisturbedStep ==
  ASSUME TypeOK, Commands, Downloads, Extracted, Undisturbed, ToldMeansInstalled, [Next]_vars
  PROVE  Undisturbed'
<1> DEFINE Busy == Extracting \/ pc = "prepare"
           Fetches == pc \in {"download", "fetch", "unzip", "open", "write", "prepare"}
<1> SUFFICES ASSUME faults' = 0
             PROVE  /\ \A d \in Requests :
                          \/ d = request' /\ Busy'
                          \/ \A f \in Files : disk'[d][f] = Absent
                          \/ Complete(d)' /\ d \in permitted'
                    /\ Fetches' => request' \notin told'
  BY DEF Undisturbed
<1>0. request \in Requests
  BY DEF TypeOK
<1>1. CASE Killed \/ Fails
  BY <1>1 DEF Killed, Fails, Fault, TypeOK
<1>2. CASE ~(Killed \/ Fails)
  <2>0. /\ faults = 0
        /\ \A d \in Requests : \/ d = request /\ Busy
                               \/ \A f \in Files : disk[d][f] = Absent
                               \/ Complete(d) /\ d \in permitted
        /\ Fetches => request \notin told
    <3>1. UNCHANGED faults
      BY <1>2 DEF Next, InstallStep, Release, Install, Paths, Begin, BinaryExists, Download, Fetched,
                  OpenArchive, OpenFile, WriteFile, PrepareInstallDir, GetVersion, Launch, WaitForDir,
                  GiveUpWaiting, Terminate, BrowserMakesDir, Goto, vars
    <3> QED
      BY <3>1 DEF Undisturbed
  <2>1. ASSUME UNCHANGED <<disk, permitted>>, Busy => request' = request /\ Busy'
        PROVE  \A d \in Requests : \/ d = request' /\ Busy'
                                   \/ \A f \in Files : disk'[d][f] = Absent
                                   \/ Complete(d)' /\ d \in permitted'
    BY <2>0, <2>1, CompleteStays
  <2>2. ASSUME NEW r \in Requests, Install(r) \/ Paths(r)
        PROVE  UNCHANGED <<disk, permitted>> /\ ~Busy /\ ~Fetches'
    BY <2>2 DEF Install, Paths, Begin, Idle, Steps, cache, Extracting
  <2>3. CASE BinaryExists
    <3>1. UNCHANGED <<disk, permitted, told, request>> /\ ~Busy
      BY <2>3 DEF BinaryExists, Goto, cache, Extracting
    <3>2. request \in told => disk[request][Binary] # Absent
      <4>1. request \in told => Complete(request)
        BY <2>0 DEF ToldMeansInstalled, Installed, Complete
      <4> QED
        BY <1>0, <4>1, CompleteIsThere
    <3>3. Fetches' => disk[request][Binary] = Absent
      BY <2>3 DEF BinaryExists, Goto
    <3> QED
      BY <2>1, <3>1, <3>2, <3>3
  <2>4. CASE Download \/ Fetched \/ OpenArchive
    <3>1. UNCHANGED <<disk, permitted, told, request>> /\ ~Busy /\ Fetches
      BY <2>4 DEF Download, Fetched, OpenArchive, Goto, cache, Extracting
    <3> QED
      BY <2>0, <2>1, <3>1
  <2>5. CASE OpenFile \/ WriteFile
    <3>1. UNCHANGED <<permitted, told, request>> /\ Busy /\ Busy' /\ Fetches
      BY <2>5 DEF OpenFile, WriteFile, Goto, Extracting
    <3>2. \A d \in Requests \ {request}, f \in Files : disk'[d][f] = disk[d][f]
      BY DiskStep
    <3>3. ASSUME NEW d \in Requests, d # request
          PROVE  (\A f \in Files : disk'[d][f] = Absent) \/ (Complete(d)' /\ d \in permitted')
      BY <2>0, <3>1, <3>2, <3>3, CompleteStays
    <3> QED
      BY <2>0, <3>1, <3>3
  <2>6. CASE PrepareInstallDir
    <3>1. UNCHANGED <<disk, request>> /\ permitted' = permitted \cup {request} /\ ~Fetches'
      BY <2>6 DEF PrepareInstallDir, Goto
    <3>2. Complete(request)
      BY <2>6 DEF PrepareInstallDir, Complete, Extracted, Commands, Steps
    <3> QED
      BY <2>0, <3>1, <3>2, CompleteStays
  <2>7. CASE GetVersion \/ Launch \/ WaitForDir \/ GiveUpWaiting \/ Terminate
    <3>1. UNCHANGED <<disk, permitted>> /\ ~Busy /\ ~Fetches'
      BY <2>7 DEF GetVersion, Launch, WaitForDir, GiveUpWaiting, Terminate, Goto, cache, Extracting
    <3> QED
      BY <2>1, <3>1
  <2>8. CASE UNCHANGED <<disk, permitted, told, request, pc>>
    BY <2>0, <2>1, <2>8 DEF Extracting
  <2>9. (\E r \in Requests : Release(r)) \/ (\E i \in DOMAIN ProfileDirs : BrowserMakesDir(ProfileDirs[i]))
          \/ UNCHANGED vars => UNCHANGED <<disk, permitted, told, request, pc>>
    BY DEF Release, BrowserMakesDir, vars, cache
  <2> QED
    BY <1>2, <2>1, <2>2, <2>3, <2>4, <2>5, <2>6, <2>7, <2>8, <2>9 DEF Next, InstallStep
<1> QED
  BY <1>1, <1>2

LEMMA ProfileStep ==
  ASSUME TypeOK, ProfileMade, InitializedProfile, [Next]_vars
  PROVE  ProfileMade' /\ InitializedProfile'
<1> DEFINE dirs == {ProfileDirs[i] : i \in DOMAIN ProfileDirs}
<1>0. profile \subseteq dirs
  BY DEF TypeOK
<1>1. CASE WaitForDir
  <2>1. /\ pc = "wait" /\ at \in 1..Len(ProfileDirs) /\ ProfileDirs[at] \in profile /\ UNCHANGED profile
        /\ \A i \in DOMAIN ProfileDirs : i < at => ProfileDirs[i] \in profile
    BY <1>1 DEF WaitForDir, TypeOK, cache, ProfileMade
  <2>2. CASE at < Len(ProfileDirs)
    <3>1. pc' = "wait" /\ at' = at + 1
      BY <1>1, <2>2 DEF WaitForDir
    <3>2. \A i \in DOMAIN ProfileDirs : i < at + 1 => i < at \/ i = at
      BY <2>1, Bounds
    <3> QED
      BY <2>1, <3>1, <3>2 DEF ProfileMade, InitializedProfile
  <2>3. CASE ~(at < Len(ProfileDirs))
    <3>1. pc' = "terminate"
      BY <1>1, <2>3 DEF WaitForDir
    <3>2. \A i \in DOMAIN ProfileDirs : i < at \/ i = at
      BY <2>1, <2>3, Bounds
    <3>3. profile = dirs
      BY <1>0, <2>1, <3>2
    <3> QED
      BY <2>1, <3>1, <3>3 DEF ProfileMade, InitializedProfile
  <2> QED
    BY <2>2, <2>3
<1>2. CASE Terminate
  BY <1>2 DEF Terminate, Goto, cache, ProfileMade, InitializedProfile
<1>3. CASE Launch
  BY <1>3, Bounds DEF Launch, Goto, ProfileMade, InitializedProfile
<1>4. CASE \/ BinaryExists \/ Download \/ Fetched \/ OpenArchive \/ OpenFile \/ WriteFile
           \/ PrepareInstallDir \/ GiveUpWaiting \/ Killed \/ Fails
  <2>1. pc' \notin {"wait", "terminate", "ok"}
    BY <1>4 DEF BinaryExists, Download, Fetched, OpenArchive, OpenFile, WriteFile,
                PrepareInstallDir, GiveUpWaiting, Killed, Fails, Fault, Goto
  <2> QED
    BY <2>1 DEF ProfileMade, InitializedProfile
<1>5. CASE GetVersion
  BY <1>5 DEF GetVersion, Goto, environment, ProfileMade, InitializedProfile
<1>6. ASSUME NEW r \in Requests, Install(r) \/ Paths(r)
      PROVE  ProfileMade' /\ InitializedProfile'
  BY <1>6 DEF Install, Paths, ProfileMade, InitializedProfile
<1>7. ASSUME NEW i \in DOMAIN ProfileDirs, BrowserMakesDir(ProfileDirs[i])
      PROVE  ProfileMade' /\ InitializedProfile'
  BY <1>0, <1>7 DEF BrowserMakesDir, environment, ProfileMade, InitializedProfile
<1>8. CASE UNCHANGED <<environment, profile, pc, url, at, browser>>
  BY <1>8 DEF environment, ProfileMade, InitializedProfile
<1>9. (\E r \in Requests : Release(r)) \/ UNCHANGED vars
        => UNCHANGED <<environment, profile, pc, url, at, browser>>
  BY DEF Release, vars, cache
<1> QED
  BY <1>1, <1>2, <1>3, <1>4, <1>5, <1>6, <1>7, <1>8, <1>9 DEF Next, InstallStep

LEMMA FailsStep ==
  ASSUME TypeOK, Commands, Downloads, Extracted, FailsForACause, [Next]_vars
  PROVE  FailsForACause'
<1>1. CASE Killed \/ Fails \/ GiveUpWaiting
  BY <1>1 DEF Killed, Fails, Fault, GiveUpWaiting, FailsForACause
<1>2. CASE OpenArchive
  <2>1. /\ url \in URLs /\ archive \in [URLs -> {"absent", "partial", "whole"}]
        /\ UNCHANGED <<archive, url, fixedName>>
    BY <1>2 DEF OpenArchive, Goto, cache, environment, TypeOK, Commands, Steps
  <2>2. pc' = "failed" => fixedName /\ archive[url] = "partial"
    BY <1>2, <2>1 DEF OpenArchive, Goto, Archive, DownloadPath, Downloads
  <2> QED
    BY <2>1, <2>2 DEF FailsForACause
<1>3. CASE GetVersion
  <2>1. disk[request][Binary] # Absent /\ UNCHANGED <<disk, request>>
    BY <1>3 DEF GetVersion, Goto, cache, Extracted
  <2> QED
    BY <1>3, <2>1 DEF GetVersion, Goto, FailsForACause
<1>4. CASE \/ BinaryExists \/ Download \/ Fetched \/ OpenFile \/ WriteFile
           \/ PrepareInstallDir \/ Launch \/ WaitForDir \/ Terminate
  <2>1. pc' # "failed"
    BY <1>4 DEF BinaryExists, Download, Fetched, OpenFile, WriteFile, PrepareInstallDir, Launch,
                WaitForDir, Terminate, Goto
  <2> QED
    BY <2>1 DEF FailsForACause
<1>5. ASSUME NEW r \in Requests, Install(r) \/ Paths(r)
      PROVE  FailsForACause'
  BY <1>5 DEF Install, Paths, Begin, FailsForACause
<1>6. CASE UNCHANGED <<pc, url, hit, request, disk, archive, fixedName>>
  BY <1>6 DEF FailsForACause
<1>7. (\E r \in Requests : Release(r)) \/ (\E i \in DOMAIN ProfileDirs : BrowserMakesDir(ProfileDirs[i]))
        \/ UNCHANGED vars => UNCHANGED <<pc, url, hit, request, disk, archive, fixedName>>
  BY DEF Release, BrowserMakesDir, vars, cache, environment
<1> QED
  BY <1>1, <1>2, <1>3, <1>4, <1>5, <1>6, <1>7 DEF Next, InstallStep

\* An installation that was complete stays so while its command does not extract.
LEMMA InstalledStays ==
  ASSUME TypeOK, [Next]_vars, UNCHANGED disk, NEW d \in Requests, Installed(d)
  PROVE  Installed(d)'
<1>1. permitted \subseteq permitted'
  BY DEF Next, InstallStep, Killed, Fails, Fault, Release, Install, Paths, Begin, BinaryExists,
         Download, Fetched, OpenArchive, OpenFile, WriteFile, PrepareInstallDir, GetVersion, Launch,
         WaitForDir, GiveUpWaiting, Terminate, BrowserMakesDir, Goto, vars, cache
<1> QED
  BY <1>1, EnvironmentStays DEF Installed, environment

LEMMA ToldStep ==
  ASSUME TypeOK, Commands, Extracted, LastComesLast, Undisturbed, ToldMeansInstalled, [Next]_vars
  PROVE  ToldMeansInstalled'
<1> DEFINE Since(d) == request = d /\ url # <<>> /\ pc \in {"launch", "wait", "terminate", "ok"}
<1> SUFFICES ASSUME NEW d \in told'
             PROVE  \/ Installed(d)'
                    \/ faults' > 0 /\ (goos' = "unix" /\ LastIsBinary' => ~Since(d)')
  BY DEF ToldMeansInstalled, LastIsBinary
<1>0. /\ told' \subseteq Requests /\ faults \in Nat /\ UNCHANGED <<goos, order>>
      /\ LastIsBinary' <=> LastIsBinary
  BY TypeStep, EnvironmentStays, Bounds DEF TypeOK, environment, Supported, LastIsBinary
<1>a. d \in told => \/ Installed(d)
                    \/ faults > 0 /\ (goos = "unix" /\ LastIsBinary => ~Since(d))
  BY DEF ToldMeansInstalled, LastIsBinary
<1>1. CASE Killed \/ Fails
  <2>1. faults' = faults + 1 /\ pc' \in {"killed", "failed"}
    BY <1>1 DEF Killed, Fails, Fault
  <2> QED
    BY <1>0, <2>1
<1>2. CASE OpenFile \/ WriteFile
  <2>1. /\ pc' \in {"open", "write", "prepare"} /\ UNCHANGED <<told, faults>>
        /\ pc \in {"open", "write"}
    BY <1>2 DEF OpenFile, WriteFile, Goto
  <2>2. CASE faults > 0
    BY <2>1, <2>2
  <2>3. CASE faults = 0
    <3>1. d # request /\ Installed(d)
      BY <1>0, <1>a, <2>1, <2>3 DEF Undisturbed
    <3>2. \A f \in Files : disk'[d][f] = disk[d][f]
      BY <1>0, <3>1, DiskStep
    <3>3. UNCHANGED <<goos, permitted>>
      BY <1>0, <1>2 DEF OpenFile, WriteFile
    <3> QED
      BY <3>1, <3>2, <3>3 DEF Installed
  <2> QED
    BY <1>0, <2>2, <2>3
<1>3. CASE GetVersion
  <2>1. /\ pc = "version" /\ UNCHANGED <<disk, permitted, request, url, faults>>
        /\ told' \in {told, told \cup {request}}
    BY <1>3 DEF GetVersion, Goto, cache
  <2>2. CASE d # request
    <3>1. d \in told /\ ~Since(d)'
      BY <2>1, <2>2
    <3> QED
      BY <1>0, <1>a, <2>1, <3>1, InstalledStays
  <2>3. CASE d = request /\ pc' \notin {"launch", "ok"}
    <3>1. d \in told /\ ~Since(d)'
      BY <1>3, <2>3 DEF GetVersion, Goto
    <3> QED
      BY <1>0, <1>a, <2>1, <3>1, InstalledStays
  <2>4. CASE d = request /\ pc' \in {"launch", "ok"}
    <3>1. disk[d][Binary] # Absent /\ (goos = "windows" \/ disk[d][Binary].whole)
      BY <1>3, <2>1, <2>4 DEF GetVersion, Goto, Extracted
    <3>2. CASE faults = 0
      <4>1. Complete(d) /\ d \in permitted
        BY <1>0, <2>1, <3>1, <3>2, Bounds DEF Undisturbed, Extracting
      <4>2. Installed(d)
        BY <4>1 DEF Installed, Complete
      <4> QED
        BY <1>0, <2>1, <4>2, InstalledStays
    <3>3. CASE faults > 0 /\ goos = "unix" /\ LastIsBinary
      <4>1. Complete(d)
        BY <1>0, <3>1, <3>3 DEF LastComesLast
      <4>2. Installed(d)
        BY <3>3, <4>1 DEF Installed, Complete
      <4> QED
        BY <1>0, <2>1, <4>2, InstalledStays
    <3>4. CASE faults > 0 /\ ~(goos = "unix" /\ LastIsBinary)
      BY <1>0, <2>1, <3>4
    <3> QED
      BY <1>0, <3>2, <3>3, <3>4
  <2> QED
    BY <2>2, <2>3, <2>4
<1>4. ASSUME NEW r \in Requests, Install(r)
      PROVE  \/ Installed(d)'
             \/ faults' > 0 /\ (goos' = "unix" /\ LastIsBinary' => ~Since(d)')
  <2>1. UNCHANGED <<disk, faults, told>> /\ pc' \in {"binary", "failed"}
    BY <1>4 DEF Install, Begin, cache
  <2> QED
    BY <1>0, <1>a, <2>1, InstalledStays
<1>5. ASSUME NEW r \in Requests, Paths(r)
      PROVE  \/ Installed(d)'
             \/ faults' > 0 /\ (goos' = "unix" /\ LastIsBinary' => ~Since(d)')
  <2>1. /\ UNCHANGED <<disk, faults>> /\ url' = <<>> /\ pc \notin Steps
        /\ d \notin told => d = r /\ disk[d][Binary] # Absent
    BY <1>5 DEF Paths, Begin, cache, Idle
  <2>2. CASE d \in told
    BY <1>0, <1>a, <2>1, <2>2, InstalledStays
  <2>3. CASE d \notin told /\ faults = 0
    <3>1. Complete(d) /\ d \in permitted
      BY <1>0, <2>1, <2>3, Bounds DEF Undisturbed, Extracting, Steps
    <3>2. Installed(d)
      BY <3>1 DEF Installed, Complete
    <3> QED
      BY <1>0, <2>1, <3>2, InstalledStays
  <2>4. CASE d \notin told /\ faults > 0
    BY <1>0, <2>1, <2>4
  <2> QED
    BY <1>0, <2>2, <2>3, <2>4
<1>6. ASSUME UNCHANGED <<disk, faults, told>>, Since(d)' => Since(d)
      PROVE  \/ Installed(d)'
             \/ faults' > 0 /\ (goos' = "unix" /\ LastIsBinary' => ~Since(d)')
  BY <1>0, <1>a, <1>6, InstalledStays
<1>7. CASE \/ BinaryExists \/ Download \/ Fetched \/ OpenArchive \/ PrepareInstallDir \/ Launch
           \/ WaitForDir \/ GiveUpWaiting \/ Terminate
  <2>1. UNCHANGED <<disk, faults, told>> /\ (Since(d)' => Since(d))
    BY <1>7 DEF BinaryExists, Download, Fetched, OpenArchive, PrepareInstallDir, Launch, WaitForDir,
                GiveUpWaiting, Terminate, Goto, cache
  <2> QED
    BY <1>6, <2>1
<1>8. CASE UNCHANGED <<disk, faults, told, pc, request, url>>
  BY <1>6, <1>8
<1>9. (\E r \in Requests : Release(r)) \/ (\E i \in DOMAIN ProfileDirs : BrowserMakesDir(ProfileDirs[i]))
        \/ UNCHANGED vars => UNCHANGED <<disk, faults, told, pc, request, url>>
  BY DEF Release, BrowserMakesDir, vars, cache
<1> QED
  BY <1>1, <1>2, <1>3, <1>4, <1>5, <1>7, <1>8, <1>9 DEF Next, InstallStep

-----------------------------------------------------------------------------

\* What installs leave on a cache, with every interruption, keeps InstallInv.
THEOREM Installing == Spec => []InstallInv
<1>1. InstallInv /\ [Next]_vars => InstallInv'
  BY TypeStep, CommandsStep, DownloadsStep, ExtractedStep, LastStep, UndisturbedStep, ProfileStep,
     ToldStep, FailsStep DEF InstallInv
<1> QED
  BY InitInstalls, <1>1, PTL DEF Spec

\* The binary install and paths report is that of a complete installation, but
\* for what an interrupted command can leave.
THEOREM ToldIsInstalled == Spec => []ToldMeansInstalled
  BY Installing, PTL DEF InstallInv

\* An install fails for a fault, a late browser, or what an earlier fault left.
THEOREM FailuresHaveCauses == Spec => []FailsForACause
  BY Installing, PTL DEF InstallInv

\* A successful initialization has waited for every directory of the profile.
THEOREM ProfilesAreWhole == Spec => []InitializedProfile
  BY Installing, PTL DEF InstallInv

=============================================================================
