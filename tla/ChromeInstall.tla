--------------------------- MODULE ChromeInstall ---------------------------
(***************************************************************************)
(* chrome-for-testing (src/chrome-for-testing): install and paths, run one *)
(* after the other on a machine whose tool cache outlives them.  An        *)
(* install may be killed between any two of its steps, and any of its      *)
(* operations may fail.                                                    *)
(*                                                                         *)
(* A request is [app, channel, platform], and so is the directory of the   *)
(* cache it is installed in.  The manifest maps the requests that have a   *)
(* download to its version; the URL of a download is its request with its  *)
(* version.  A file on the disk is what was extracted there last,          *)
(* [url, whole], or Absent.                                                *)
(***************************************************************************)
EXTENDS Naturals, Sequences, FiniteSets

CONSTANTS
    Requests,    \* what install and paths are asked for
    Files,       \* the files of every archive,
    Binary,      \*   the executable among them
    ProfileDirs, \* sequence of directories browser.init waits for
    MaxVersion, MaxRuns, MaxFaults   \* bounds

Platforms == {"linux64", "mac-arm64", "mac-x64", "win64"}
Channels == {"stable", "beta", "dev", "canary"}
Applications == {"chrome", "chromedriver", "chrome-headless-shell"}

ASSUME RequestsAssumption ==
    Requests \subseteq [app : Applications, channel : Channels, platform : Platforms]
ASSUME FilesAssumption == IsFiniteSet(Files) /\ Binary \in Files
ASSUME ProfileDirsAssumption == ProfileDirs \in Seq(STRING) \ {<<>>}
ASSUME BoundsAssumption == MaxVersion \in Nat \ {0} /\ MaxRuns \in Nat /\ MaxFaults \in Nat

\* applicationPaths: every platform has an installSpec, not every application.
Supported == {r \in Requests : r.app \in {"chrome", "chromedriver"}}

VARIABLES
    goos,       \* "unix" or "windows"
    fixedName,  \* -uuid-download=false
    initialize, \* -initialize
    order,      \* of the files in the archives
    manifest,   \* version of each request's download, 0 if it has none
    archive,    \* by URL, downloaded under a fixed name: "absent", "partial", "whole"
    disk,       \* the files of each directory of the cache
    permitted,  \* directories that have been through prepareInstallDir
    profile,    \* directories in the user data directory
    pc, request, url,  \* the command that runs: its step, request and URL,
    fresh,             \*   the archive it has downloaded under a name of its own,
    at,                \*   the file it extracts, or the directory it waits for
    browser,    \* "none", or "running": the one this command has started
    runs, faults,      \* commands, faults so far
    hit,        \* (observer) this command met a fault, or its browser was late
    told        \* (observer) the directories of which "chrome-path" was output

environment == <<goos, fixedName, initialize, order>>
cache == <<archive, disk, permitted, profile>>
vars == <<environment, manifest, cache, pc, request, url, fresh, at, browser,
          runs, faults, hit, told>>

URLs == Requests \X (1..MaxVersion)
Absent == [url |-> <<>>, whole |-> FALSE]
File == [url : URLs, whole : BOOLEAN] \cup {Absent}
Orders == {o \in [1..Cardinality(Files) -> Files] : \A i, j \in DOMAIN o : i # j => o[i] # o[j]}
Steps == {"binary", "download", "fetch", "unzip", "open", "write", "prepare",
          "version", "launch", "wait", "terminate"}
Idle == pc \notin Steps

TypeOK ==
    /\ goos \in {"unix", "windows"} /\ order \in Orders
    /\ fixedName \in BOOLEAN /\ initialize \in BOOLEAN
    /\ manifest \in [Requests -> 0..MaxVersion]
    /\ archive \in [URLs -> {"absent", "partial", "whole"}]
    /\ disk \in [Requests -> [Files -> File]]
    /\ permitted \subseteq Supported /\ told \subseteq Supported
    /\ profile \subseteq {ProfileDirs[i] : i \in DOMAIN ProfileDirs}
    /\ pc \in Steps \cup {"idle", "ok", "failed", "killed"} /\ request \in Requests
    /\ url \in URLs \cup {<<>>}
    /\ pc \in {"open", "write"} => at \in 1..Len(order) + 1
    /\ pc = "wait" => at \in 1..Len(ProfileDirs)
    /\ fresh \in {"absent", "partial", "whole"} /\ browser \in {"none", "running"}
    /\ runs \in 0..MaxRuns /\ faults \in 0..MaxFaults /\ hit \in BOOLEAN

Init ==
    /\ goos \in {"unix", "windows"} /\ order \in Orders
    /\ fixedName \in BOOLEAN /\ initialize \in BOOLEAN
    /\ manifest \in [Requests -> {0, 1}]
    /\ archive = [u \in URLs |-> "absent"]
    /\ disk = [d \in Requests |-> [f \in Files |-> Absent]]
    /\ permitted = {} /\ profile = {} /\ told = {}
    /\ pc = "idle" /\ request \in Requests /\ url = <<>> /\ fresh = "absent" /\ at = 1
    /\ browser = "none" /\ runs = 0 /\ faults = 0 /\ hit = FALSE

-----------------------------------------------------------------------------

\* Faults: the command is killed, or an operation of its step fails.  A failed
\* download may leave what it has got.
Fault(outcome) ==
    /\ faults < MaxFaults /\ faults' = faults + 1 /\ hit' = TRUE
    /\ pc' = outcome
    /\ UNCHANGED <<environment, manifest, cache, request, url, fresh, at, runs, told>>

\* The browser outlives a killed install, not always a failed one.
Killed == ~Idle /\ Fault("killed") /\ UNCHANGED browser

Fails ==
    /\ pc \in Steps \ {"binary"}
    /\ Fault("failed") /\ browser' \in {"none", browser}

\* The manifest names a newer version (the vendor's releases).
Release(r) ==
    /\ manifest[r] < MaxVersion
    /\ manifest' = [manifest EXCEPT ![r] = @ + 1]
    /\ UNCHANGED <<environment, cache, pc, request, url, fresh, at, browser, runs,
                   faults, hit, told>>

Goto(step) ==
    /\ pc' = step
    /\ UNCHANGED <<environment, manifest, request, url, runs, faults, hit>>

-----------------------------------------------------------------------------

\* A new command.  Without a manifest, a download for the request or an
\* installSpec it ends at once.
Begin(r) ==
    /\ Idle /\ runs < MaxRuns /\ runs' = runs + 1
    /\ request' = r /\ hit' = FALSE /\ fresh' = "absent" /\ at' = 1 /\ browser' = "none"
    /\ UNCHANGED <<environment, manifest, cache, faults>>

\* GetRequestedDownload: the request's channel, application and platform are there.
HasDownload(r) == manifest[r] # 0

\* Faulty variant: what cannot be installed is not refused.
InstallWithoutSpec(r) ==
    /\ Begin(r)
    /\ url' = IF HasDownload(r) THEN <<r, manifest[r]>> ELSE <<>>
    /\ pc' = IF HasDownload(r) THEN "binary" ELSE "failed"
    /\ UNCHANGED told

Install(r) ==
    /\ Begin(r)
    /\ url' = IF HasDownload(r) THEN <<r, manifest[r]>> ELSE <<>>
    /\ pc' = IF HasDownload(r) /\ r \in Supported THEN "binary" ELSE "failed"
    /\ UNCHANGED told

\* pathsCmd: the same layout, and no more than a Stat.
Paths(r) ==
    /\ Begin(r)
    /\ url' = <<>>
    /\ IF r \in Supported /\ disk[r][Binary] # Absent
       THEN pc' = "ok" /\ told' = told \cup {r}
       ELSE pc' = "failed" /\ UNCHANGED told

\* What is installed already is not installed again, whatever its version.
BinaryExists ==
    /\ pc = "binary"
    /\ Goto(IF disk[request][Binary] # Absent THEN "version" ELSE "download")
    /\ UNCHANGED <<cache, fresh, at, browser, told>>

\* Faulty variant: the name of a download is always that of its URL.
DownloadPathByURL == "hash"

\* With -uuid-download a command's download is nobody else's.
DownloadPath == IF fixedName THEN "hash" ELSE "uuid"

Archive == IF DownloadPath = "hash" THEN archive[url] ELSE fresh

ArchiveBecomes(state) ==
    IF DownloadPath = "hash"
    THEN archive' = [archive EXCEPT ![url] = state] /\ UNCHANGED fresh
    ELSE fresh' = state /\ UNCHANGED archive

\* A file that is there is taken for the download.
Download ==
    /\ pc = "download"
    /\ IF Archive # "absent" THEN Goto("unzip") /\ UNCHANGED <<archive, fresh>>
                             ELSE Goto("fetch") /\ ArchiveBecomes("partial")
    /\ UNCHANGED <<disk, permitted, profile, at, browser, told>>

Fetched ==
    /\ pc = "fetch" /\ Goto("unzip") /\ ArchiveBecomes("whole")
    /\ UNCHANGED <<disk, permitted, profile, at, browser, told>>

\* zip.OpenReader refuses an archive that is not whole: its directory is at its end.
OpenArchive ==
    /\ pc = "unzip" /\ at' = 1
    /\ Goto(IF Archive = "whole" THEN "open" ELSE "failed")
    /\ UNCHANGED <<cache, fresh, browser, told>>

Put(file, whole) == disk' = [disk EXCEPT ![request][file] = [url |-> url, whole |-> whole]]

\* The files are extracted in place and in order, each truncated and written.
OpenFile ==
    /\ pc = "open"
    /\ IF at > Len(order) THEN Goto("prepare") /\ UNCHANGED disk
                          ELSE Goto("write") /\ Put(order[at], FALSE)
    /\ UNCHANGED <<archive, permitted, profile, fresh, at, browser, told>>

\* Faulty variant: the binary's existence is enough to go on extracting the rest.
WriteFileBinaryOnly ==
    /\ pc = "write"
    /\ Goto(IF order[at] = Binary THEN "prepare" ELSE "open")
    /\ Put(order[at], TRUE) /\ at' = at + 1
    /\ UNCHANGED <<archive, permitted, profile, fresh, browser, told>>

WriteFile ==
    /\ pc = "write" /\ Goto("open")
    /\ Put(order[at], TRUE) /\ at' = at + 1
    /\ UNCHANGED <<archive, permitted, profile, fresh, browser, told>>

PrepareInstallDir ==
    /\ pc = "prepare" /\ Goto("version")
    /\ permitted' = permitted \cup {request}
    /\ UNCHANGED <<archive, disk, profile, fresh, at, browser, told>>

\* On unix the binary is run, on windows its properties are read.
GetVersion ==
    /\ pc = "version"
    /\ IF goos = "windows" \/ disk[request][Binary].whole
       THEN /\ Goto(IF initialize THEN "launch" ELSE "ok")
            /\ told' = told \cup {request}
       ELSE Goto("failed") /\ UNCHANGED told
    /\ UNCHANGED <<cache, fresh, at, browser>>

Launch ==
    /\ pc = "launch" /\ Goto("wait")
    /\ browser' = "running" /\ at' = 1
    /\ UNCHANGED <<cache, fresh, told>>

\* A browser that runs makes the directories of its profile, in any order.
BrowserMakesDir(dir) ==
    /\ browser = "running" /\ dir \notin profile
    /\ profile' = profile \cup {dir}
    /\ UNCHANGED <<environment, manifest, archive, disk, permitted, pc, request, url,
                   fresh, at, browser, runs, faults, hit, told>>

\* Faulty variant: the directories are taken for made together.
WaitForFirstDir ==
    /\ pc = "wait" /\ ProfileDirs[at] \in profile
    /\ Goto("terminate")
    /\ UNCHANGED <<cache, fresh, at, browser, told>>

WaitForDir ==
    /\ pc = "wait" /\ ProfileDirs[at] \in profile
    /\ IF at < Len(ProfileDirs) THEN pc' = "wait" /\ at' = at + 1
                                ELSE pc' = "terminate" /\ UNCHANGED at
    /\ UNCHANGED <<environment, manifest, cache, request, url, fresh, browser, runs,
                   faults, hit, told>>

\* Faulty variant: the deadline is that of the first directory.
GiveUpOnFirst ==
    /\ pc = "wait" /\ at = 1 /\ ProfileDirs[at] \notin profile
    /\ pc' = "failed" /\ hit' = TRUE /\ browser' \in {"none", "running"}
    /\ UNCHANGED <<environment, manifest, cache, request, url, fresh, at, runs, faults, told>>

\* Three minutes for all of them, whose end may be taken although the directory is
\* there, or what is there is no directory.  The browser is killed with the context,
\* if the process does not end first.
GiveUpWaiting ==
    /\ pc = "wait"
    /\ pc' = "failed" /\ hit' = TRUE /\ browser' \in {"none", "running"}
    /\ UNCHANGED <<environment, manifest, cache, request, url, fresh, at, runs, faults, told>>

Terminate ==
    /\ pc = "terminate" /\ Goto("ok") /\ browser' = "none"
    /\ UNCHANGED <<cache, fresh, at, told>>

-----------------------------------------------------------------------------

InstallStep ==
    \/ BinaryExists \/ Download \/ Fetched \/ OpenArchive \/ OpenFile \/ WriteFile
    \/ PrepareInstallDir \/ GetVersion \/ Launch \/ WaitForDir \/ GiveUpWaiting
    \/ Terminate

Next ==
    \/ Killed \/ Fails
    \/ \E r \in Requests : Release(r) \/ Install(r) \/ Paths(r)
    \/ InstallStep
    \/ \E i \in DOMAIN ProfileDirs : BrowserMakesDir(ProfileDirs[i])

Spec == Init /\ [][Next]_vars

\* An install goes on: its operations return, its contexts have deadlines.  The
\* browser need not make anything.
FairSpec == Spec /\ WF_vars(InstallStep)

-----------------------------------------------------------------------------

Installed(d) ==
    /\ \E u \in URLs : u[1] = d /\ \A f \in Files : disk[d][f] = [url |-> u, whole |-> TRUE]
    /\ goos = "windows" => d \in permitted

\* chrome-path is output of an install that is complete, of one version and of
\* what was asked for, unless an earlier command was killed or failed; and even
\* then, where install is what output it, if the binary is the last file of the
\* archive and its version is asked by running it.
ToldMeansInstalled ==
    \A d \in told :
        \/ Installed(d)
        \/ /\ faults > 0
           /\ goos = "unix" /\ order[Len(order)] = Binary =>
                ~(request = d /\ url # <<>> /\ pc \in {"launch", "wait", "terminate", "ok"})

\* An install fails for a fault of its own (or a late browser), for want of a
\* download, or because of what a fault left: a binary that does not run, or,
\* under a fixed name, an archive.  With a name of its own per download nothing
\* else stays in the way.
FailsForACause ==
    pc = "failed" /\ url # <<>> =>
        \/ hit \/ request \notin Supported
        \/ ~disk[request][Binary].whole /\ disk[request][Binary] # Absent
        \/ fixedName /\ archive[url] = "partial"

\* An install that succeeds with -initialize has a whole profile and has stopped
\* its browser.
InitializedProfile ==
    pc = "ok" /\ initialize /\ url # <<>> =>
        /\ profile = {ProfileDirs[i] : i \in DOMAIN ProfileDirs}
        /\ browser = "none"

\* Every command ends, whatever the browser does.
CommandEnds == ~Idle ~> Idle

=============================================================================
