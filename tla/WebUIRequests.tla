--------------------------- MODULE WebUIRequests ---------------------------
(***************************************************************************)
(* What the web UI's API answers while the handlers are at work:           *)
(* webui_backend.go behind webui/server.go, over the state that            *)
(* WorkflowHandler changes.  A request takes no lock over its steps:       *)
(*   - Pools asks the providers for their VMs and then the status tracker  *)
(*     for the workflows, and combines the two;                            *)
(*   - DownloadWorkflowLog reads the record of a workflow, opens a file    *)
(*     that may be growing and fixes its length, and copies it later;      *)
(*   - CancelWorkflow is the Cancel of WorkflowHandler.                    *)
(* Requests read and, but for Cancel, change nothing, so one at a time is  *)
(* enough.                                                                 *)
(***************************************************************************)
EXTENDS WorkflowHandler

VARIABLES
    ready,    \* webuiBackend.wh is set
    paths,    \* the names whose record has JobLogPath and DiagLogPath
    req,      \* how far the request is, or its answer
    page,     \* the last answer of ListWorkflows or GetWorkflow
    vms,      \* Pools: the VM of each instance, as listed and then as answered
    log,      \* DownloadWorkflowLog
    leased,   \* (observer) VMs acquired at some moment of the Pools request
    worked    \* (observer) VMs a job was executed on during all of it

uiVars == <<ready, paths, req, page, vms, log, leased, worked>>

Requests == {"none", "workflows", "listed", "pools", "refused", "opened", "log", "missing"}

\* vmspool.VMInfo of a VM in "tart list", if it is there.
VMInfo == {"absent", "running", "suspended", "stopped"}
VMState == {"acquired", "available", "staging", "stopped"}

Artifacts == {"job", "diag"}
NoVMs == [n \in Names |-> "absent"]
NoStatus == [state |-> "", logs |-> FALSE]
NoPage == [n \in Names |-> NoStatus]
NoLog == [name |-> NoName, artifact |-> "job", state |-> "", length |-> 0, got |-> 0]

UITypeOK ==
    /\ ready \in BOOLEAN
    /\ paths \subseteq Names
    /\ req \in Requests
    /\ page \in [Names -> [state : WorkflowStates \cup {""}, logs : BOOLEAN]]
    /\ vms \in [Names -> VMInfo \cup VMState]
    /\ log \in [name : Names \cup {NoName}, artifact : Artifacts,
                state : WorkflowStates \cup {""}, length : 0..2, got : 0..2]
    /\ leased \subseteq Names /\ worked \subseteq Names

UIInit ==
    /\ Init
    /\ ready = FALSE /\ req = "none"
    /\ page = NoPage
    /\ vms = NoVMs /\ log = NoLog
    /\ paths = {} /\ leased = {} /\ worked = {}

-----------------------------------------------------------------------------
(* The handlers, seen by a request.                                         *)

\* A job is executed on the VM of n.
Working(n) == Listening(n) /\ \E j \in Jobs : job[j].runner = n /\ job[j].status = "in_progress"

\* snapshotFromInstance is part of the first upsert and of that of "running"; a
\* record that was pruned and comes back has no paths.
RecordPaths ==
    paths' = {n \in Names :
                /\ recs'[n].state # ""
                /\ n \in paths \/ (pc'[n] # pc[n] /\ pc'[n] \in {"acquiring", "config"})}

\* Webhooks and requests to cancel come after SetHandler.
Handlers ==
    /\ ready /\ Next
    /\ RecordPaths
    /\ IF req = "listed"
       THEN /\ leased' = leased \cup {n \in Names : vm'[n] = "acquired"}
            /\ worked' = {n \in worked : Working(n)'}
       ELSE UNCHANGED <<leased, worked>>
    /\ UNCHANGED <<ready, req, page, vms, log>>

SetHandler ==
    /\ ~ready /\ ready' = TRUE
    /\ UNCHANGED <<vars, paths, req, page, vms, log, leased, worked>>

-----------------------------------------------------------------------------
(* Requests.                                                                *)

\* A request begins when no other one is under way, and forgets the last answer;
\* only the workflows stay on the page while one of them is asked about.
Begin(r) ==
    /\ ready /\ req \notin {"listed", "opened"}
    /\ req' = r
    /\ UNCHANGED <<vars, ready, paths>>

\* workflowStatusFromSnapshot: the state, and whether there are logs to download.
WorkflowStatus(n) == [state |-> recs[n].state, logs |-> n \in paths]

\* statusTracker.list and get, under the tracker's lock.
Snapshot(names) == [n \in Names |-> IF n \in names THEN WorkflowStatus(n) ELSE NoStatus]

\* ListWorkflows, all of them or those in one state; GetWorkflow, one.
ListWorkflows ==
    /\ Begin("workflows")
    /\ \E names \in {Names} \cup {{n} : n \in Names}
                    \cup {{n \in Names : recs[n].state = s} : s \in WorkflowStates} :
          page' = Snapshot(names)
    /\ vms' = NoVMs /\ log' = NoLog /\ leased' = {} /\ worked' = {}

\* What "tart list" says of the VM of n.  A warm VM, not yet anybody's, may be in
\* any state; one that was released is stopped, unless the stop failed, until it
\* is deleted; a Delete that failed may have stopped it, or more.
ListedAs(n) ==
    CASE vm[n] = "none"     -> {"absent", "running", "suspended"}
      [] vm[n] = "acquired" -> {"running"}
      [] vm[n] = "released" -> {"stopped", "absent"} \cup
             IF runErr[n] \/ pc[n] \in {"run", "extract", "stop"} THEN {"running"} ELSE {}
      [] vm[n] = "deleted"  -> {"absent"}
      [] vm[n] = "undeleted" -> {"absent", "running", "stopped"}

\* Pools: PoolStatus.  No VM is shown when a provider fails.
ListVMs ==
    /\ Begin("listed")
    /\ vms' \in [Names -> VMInfo]
    /\ \A n \in Names : vms'[n] \in ListedAs(n)
    /\ leased' = {n \in Names : vm[n] = "acquired"}
    /\ worked' = {n \in Names : Working(n)}
    /\ page' = NoPage /\ log' = NoLog

AcquiredVMIDs ==
    {n \in Names : recs[n].state \in {"running", "acquiring"} /\ recs[n].vmid = "set"}

\* Faulty variant: the workflow decides, whatever the provider says.
MapVMStateByWorkflow(info, acquired) ==
    CASE info = "absent"    -> "absent"
      [] acquired           -> "acquired"
      [] info = "running"   -> "available"
      [] info = "suspended" -> "staging"
      [] info = "stopped"   -> "stopped"

MapVMState(info, acquired) ==
    CASE info = "absent"    -> "absent"
      [] info = "running"   -> IF acquired THEN "acquired" ELSE "available"
      [] info = "suspended" -> "staging"
      [] info = "stopped"   -> "stopped"

\* Pools: the workflows are read, and the answer put together.
AnswerPools ==
    /\ req = "listed" /\ req' = "pools"
    /\ vms' = [n \in Names |-> MapVMState(vms[n], n \in AcquiredVMIDs)]
    /\ worked' = {n \in worked : recs[n].state # "canceled"}
    /\ UNCHANGED <<vars, ready, paths, page, log, leased>>

\* CancelWorkflow of a workflow on the page: 404 if Cancel finds no instance;
\* else Cancel goes on by itself, and the answer is 202 or 500.
CancelWorkflow(n) ==
    /\ n \in Cancellable /\ page[n].state # ""
    /\ n \notin instances
    /\ Begin("refused")
    /\ log' = [NoLog EXCEPT !.name = n]
    /\ vms' = NoVMs /\ leased' = {} /\ worked' = {} /\ UNCHANGED page

-----------------------------------------------------------------------------
(* Log files.                                                               *)

\* What the handler of n has written: nothing, a part of it, or everything.  The
\* job's log is that of both runCmds, the diagnostics that of extractLogs, which
\* comes at once.
Written(n, artifact) ==
    CASE pc[n] \in {"unused", "acquiring", "acquire_failed", "acquired", "failed"} -> 0
      [] pc[n] \in {"config", "run"} -> IF artifact = "job" THEN 1 ELSE 0
      [] pc[n] = "extract" -> IF artifact = "job" THEN 2 ELSE 0
      [] OTHER             -> 2

\* WorkflowLog: the record is read; the file is opened and its length taken, or
\* there is no record, none with a path, or no such file.
OpenLog(n, artifact) ==
    /\ page[n].logs
    /\ \/ /\ n \in paths /\ Begin("opened")
          /\ log' = [name |-> n, artifact |-> artifact, state |-> page[n].state,
                     length |-> Written(n, artifact), got |-> 0]
       \/ /\ Begin("missing")
          /\ log' = NoLog
    /\ vms' = NoVMs /\ leased' = {} /\ worked' = {} /\ UNCHANGED page

\* fileDownloadResponse.write: the file is copied to its end.  Content-Length is
\* the length it had, unless that was 0; when it has grown since, the client
\* gets no more, or the download breaks off.
CopyLog ==
    LET written == Written(log.name, log.artifact) IN
    /\ req = "opened" /\ req' = "log"
    /\ \E got \in IF log.length \in {0, written} THEN {written} ELSE {0, log.length} :
          log' = [log EXCEPT !.got = got]
    /\ UNCHANGED <<vars, ready, paths, page, vms, leased, worked>>

Request ==
    \/ ListWorkflows \/ ListVMs \/ AnswerPools \/ CopyLog
    \/ \E n \in Names : CancelWorkflow(n)
    \/ \E n \in Names, artifact \in Artifacts : OpenLog(n, artifact)

UINext == Handlers \/ SetHandler \/ Request

UISpec == UIInit /\ [][UINext]_<<vars, uiVars>>

-----------------------------------------------------------------------------

\* The answer of Pools is put together from two readings, with handlers at work
\* between them.  Still a VM shown "acquired" was leased at some moment of the
\* request (or its stop failed), and one that a job was executed on during all
\* of it is shown "acquired": unless its workflow is shown canceled, when its
\* VM passes for an idle one (webui_backend.go:196).
PoolsShowLeases ==
    req = "pools" =>
        \A n \in Names :
            /\ vms[n] = "acquired" => n \in leased \/ runErr[n]
            /\ n \in worked => vms[n] = "acquired"

\* The log downloaded of a workflow that the page shows to be through is all
\* that its handler ever writes, although the length is fixed when the file is
\* opened; and a cancellation is refused only of a workflow whose handler is
\* through (server.go:144, webui_backend.go:337).
ThroughMeansWritten ==
    /\ req = "log" /\ log.state \in {"vm_completed", "completed", "failed"} =>
          log.got = Written(log.name, log.artifact) /\ pc[log.name] \in {"delete"} \cup Ended
    /\ req = "refused" => pc[log.name] = "ended"

=============================================================================
