-------------------------- MODULE WorkflowHandler --------------------------
(***************************************************************************)
(* WorkflowEventHandler (githubclient/event_handler.go): what the          *)
(* orchestrator does with each workflow_job webhook and with a person's    *)
(* request to cancel a job.                                                *)
(*                                                                         *)
(* Four kinds of goroutine work on the same state with no lock held from   *)
(* one step to the next:                                                   *)
(*   - one handleQueuedEvent per "queued" webhook: it creates a runner     *)
(*     instance, acquires a VM and a token, runs the GitHub runner on the  *)
(*     VM and tears it down;                                               *)
(*   - one handleInProgressEvent and one handleCompleted per job;          *)
(*   - one Cancel per request of the web UI.                               *)
(* An action is the stretch of a goroutine up to its next lock, call or    *)
(* channel send; pc, starting, completing and cancel say where each is.    *)
(***************************************************************************)
EXTENDS StatusTracker, GitHubJobs, FiniteSets

CONSTANT
    Cancellable  \* the instances somebody at the web UI may ask to cancel

ASSUME CancellableAssumption == Cancellable \subseteq Names

VARIABLES
    instances,   \* workflowInstanceManager.instances: the names with a live instance
    eventOf,     \* WorkflowInstance.Event: the job whose webhook created the instance
    pc,          \* where the handleQueuedEvent of each instance is
    acq,         \* what AcquireVMAndToken's two goroutines got back
    vm,          \* the VM of each instance
    runErr,      \* some step of runQueuedJob failed
    pushed,      \* completion events pushed for each instance's VM
    recs,        \* statusTracker.records
    now,         \* time.Now()
    starting,    \* the handleInProgressEvent of each job
    completing,  \* the handleCompleted of each job
    cancel       \* the Cancel of each instance

\* Observations of the calls made to GitHub; no action reads them.
VARIABLES
    cancelCalls, \* <<n, j>>: Cancel(n) had the run of job j cancelled
    reruns       \* jobs GitHub was asked to rerun

ASSUME NoNameAssumption == NoName \notin Names \cup Jobs

instVars == <<instances, eventOf, pc, acq, vm, runErr>>
callVars == <<cancelCalls, reruns>>
\* what the steps of handleQueuedEvent leave alone, but for its first
otherVars == <<starting, completing, cancel, callVars, ghVars>>
vars == <<instVars, pushed, recs, now, otherVars>>

-----------------------------------------------------------------------------

Ended == {"ended", "failed"}

HandlerSteps == {"unused", "acquiring", "acquire_failed", "acquired", "config",
                 "run", "extract", "stop", "push", "record", "delete"} \cup Ended

\* From the creation of the instance to the end of its handler.
Handling == HandlerSteps \ ({"unused"} \cup Ended)

Answers == {"pending", "ok", "err"}

Outcomes == {"success", "failure", "canceled"}

TypeOK ==
    /\ instances \subseteq Names
    /\ eventOf \in [Names -> Jobs \cup {NoName}]
    /\ pc \in [Names -> HandlerSteps]
    /\ acq \in [Names -> [token : Answers, vm : Answers]]
    /\ vm \in [Names -> {"none", "acquired", "released", "deleted", "undeleted"}]
    /\ runErr \in [Names -> BOOLEAN]
    /\ pushed \in [Names -> SUBSET Outcomes]
    /\ recs \in [Names -> WorkflowSnapshot]
    /\ now \in Times \ {Never}
    /\ starting \in [Jobs -> [step : {"none", "rerun", "done"},
                              name : Names \cup {NoName}]]
    /\ completing \in [Jobs -> [step : {"none", "gone", "live", "stop", "push", "done"},
                                name : Names \cup {NoName}]]
    /\ cancel \in [Names -> {"idle", "api", "record"}]
    /\ cancelCalls \subseteq Names \X (Jobs \cup {NoName})
    /\ reruns \subseteq Jobs
    /\ job \in [Jobs -> JobRecord(Names, Conclusions)]
    /\ webhooks \subseteq Webhook

Init ==
    /\ instances = {}
    /\ eventOf = [n \in Names |-> NoName]
    /\ pc = [n \in Names |-> "unused"]
    /\ acq = [n \in Names |-> [token |-> "pending", vm |-> "pending"]]
    /\ vm = [n \in Names |-> "none"]
    /\ runErr = [n \in Names |-> FALSE]
    /\ pushed = [n \in Names |-> {}]
    /\ recs = [n \in Names |-> Absent]
    /\ now = 1
    /\ starting = [j \in Jobs |-> [step |-> "none", name |-> NoName]]
    /\ completing = [j \in Jobs |-> [step |-> "none", name |-> NoName]]
    /\ cancel = [n \in Names |-> "idle"]
    /\ cancelCalls = {}
    /\ reruns = {}
    /\ GitHubInit

\* status.upsert(n, ...) with rec the mutated record
Record(n, rec) == recs' = Upsert(recs, n, rec, now)

\* The handler of n goes from step a to step b.
Goto(n, a, b) ==
    /\ pc[n] = a
    /\ pc' = [pc EXCEPT ![n] = b]

-----------------------------------------------------------------------------
(* handleQueuedEvent                                                        *)

\* newInstance and the first upsert.  Nobody can name n before that upsert
\* returns: GitHub and the web UI learn of it later.
StartQueued(j, n) ==
    /\ Deliver("queued", j)
    /\ Goto(n, "unused", "acquiring")
    /\ instances' = instances \cup {n}
    /\ eventOf' = [eventOf EXCEPT ![n] = j]
    /\ Record(n, [recs[n] EXCEPT !.state = "acquiring"])
    /\ UNCHANGED <<acq, vm, runErr, pushed, now, starting, completing, cancel, callVars, job>>

TokenReturns(n, a) ==
    /\ pc[n] = "acquiring" /\ acq[n].token = "pending"
    /\ acq' = [acq EXCEPT ![n].token = a]
    /\ UNCHANGED <<instances, eventOf, pc, vm, runErr, pushed, recs, now, otherVars>>

VMReturns(n, a) ==
    /\ pc[n] = "acquiring" /\ acq[n].vm = "pending"
    /\ acq' = [acq EXCEPT ![n].vm = a]
    /\ vm' = [vm EXCEPT ![n] = IF a = "ok" THEN "acquired" ELSE @]
    /\ UNCHANGED <<instances, eventOf, pc, runErr, pushed, recs, now, otherVars>>

\* g.Wait() returns nil.
AcquireSucceeds(n) ==
    /\ acq[n] = [token |-> "ok", vm |-> "ok"]
    /\ Goto(n, "acquiring", "acquired")
    /\ UNCHANGED <<instances, eventOf, acq, vm, runErr, pushed, recs, now, otherVars>>

\* Faulty variant: the VM is kept when only the token is missing.
AcquireFailsKeepingVM(n) ==
    /\ "pending" \notin {acq[n].token, acq[n].vm}
    /\ "err" \in {acq[n].token, acq[n].vm}
    /\ Goto(n, "acquiring", "acquire_failed")
    /\ UNCHANGED <<instances, eventOf, acq, vm, runErr, pushed, recs, now, otherVars>>

\* What becomes of the VM of n in a Delete whose error is ignored: the handler's
\* context may well be the one that expired.
DeleteAcquired(n) ==
    \E after \in IF vm[n] = "acquired" THEN {"deleted", "undeleted"} ELSE {vm[n]} :
        vm' = [vm EXCEPT ![n] = after]

\* Faulty variant: only a missing token is reported.
AcquireFailsOnToken(n) ==
    /\ acq[n].token = "err" /\ acq[n].vm # "pending"
    /\ Goto(n, "acquiring", "acquire_failed")
    /\ DeleteAcquired(n)
    /\ UNCHANGED <<instances, eventOf, acq, runErr, pushed, recs, now, otherVars>>

\* g.Wait() returns an error once both goroutines are back; a VM that was
\* acquired is to be deleted.
AcquireFails(n) ==
    /\ "pending" \notin {acq[n].token, acq[n].vm}
    /\ "err" \in {acq[n].token, acq[n].vm}
    /\ Goto(n, "acquiring", "acquire_failed")
    /\ DeleteAcquired(n)
    /\ UNCHANGED <<instances, eventOf, acq, runErr, pushed, recs, now, otherVars>>

\* The handler returns here, before deleteInstance is deferred: n stays in
\* instances.
RecordAcquireFailure(n) ==
    /\ Goto(n, "acquire_failed", "failed")
    /\ Record(n, [recs[n] EXCEPT !.state = "failed", !.completedAt = now])
    /\ UNCHANGED <<instances, eventOf, acq, vm, runErr, pushed, now, otherVars>>

\* Faulty variant: the VM's id is not recorded.
RecordRunningNoVM(n) ==
    /\ Goto(n, "acquired", "config")
    /\ Record(n, [recs[n] EXCEPT !.state = "running"])
    /\ UNCHANGED <<instances, eventOf, acq, vm, runErr, pushed, now, otherVars>>

RecordRunning(n) ==
    /\ Goto(n, "acquired", "config")
    /\ Record(n, [recs[n] EXCEPT !.state = "running", !.vmid = "set"])
    /\ UNCHANGED <<instances, eventOf, acq, vm, runErr, pushed, now, otherVars>>

\* runCmds, its first command: register the runner with GitHub.
RunConfig(n) ==
    /\ \/ Goto(n, "config", "run") /\ UNCHANGED runErr
       \/ Goto(n, "config", "extract") /\ runErr' = [runErr EXCEPT ![n] = TRUE]
    /\ UNCHANGED <<instances, eventOf, acq, vm, pushed, recs, now, otherVars>>

\* runCmds, its second command: the runner waits for a job and executes it.  It
\* exits with no error only after GitHub has the job's conclusion; a timeout, a
\* lost VM or a failing runner ends it with one at any time.
RunEnds(n) ==
    /\ Goto(n, "run", "extract")
    /\ \/ /\ vm[n] = "acquired"
          /\ \E j \in Jobs : job[j].runner = n /\ job[j].status = "completed"
          /\ UNCHANGED runErr
       \/ runErr' = [runErr EXCEPT ![n] = TRUE]
    /\ UNCHANGED <<instances, eventOf, acq, vm, pushed, recs, now, otherVars>>

ExtractLogs(n) ==
    /\ Goto(n, "extract", "stop")
    /\ \/ vm[n] = "acquired" /\ UNCHANGED runErr
       \/ runErr' = [runErr EXCEPT ![n] = TRUE]
    /\ UNCHANGED <<instances, eventOf, acq, vm, pushed, recs, now, otherVars>>

\* Faulty variant: the outcome is pushed before the VM has been stopped.
StopAndReleaseLate(n) ==
    /\ Goto(n, "stop", "push")
    /\ \/ UNCHANGED runErr
       \/ runErr' = [runErr EXCEPT ![n] = TRUE]
    /\ UNCHANGED <<instances, eventOf, acq, vm, pushed, recs, now, otherVars>>

\* Faulty variant: the instance is forgotten together with its VM.
StopAndReleaseForgetting(n) ==
    /\ Goto(n, "stop", "push")
    /\ vm' = [vm EXCEPT ![n] = "released"]
    /\ instances' = instances \ {n}
    /\ UNCHANGED <<eventOf, acq, runErr, pushed, recs, now, otherVars>>

StopAndRelease(n) ==
    /\ Goto(n, "stop", "push")
    /\ vm' = [vm EXCEPT ![n] = "released"]
    /\ \/ UNCHANGED runErr
       \/ runErr' = [runErr EXCEPT ![n] = TRUE]
    /\ UNCHANGED <<instances, eventOf, acq, pushed, recs, now, otherVars>>

PushOutcome(n) ==
    /\ Goto(n, "push", "record")
    /\ pushed' = [pushed EXCEPT ![n] = @ \cup {IF runErr[n] THEN "failure" ELSE "success"}]
    /\ UNCHANGED <<instances, eventOf, acq, vm, runErr, recs, now, otherVars>>

\* Faulty variant: the time of expiry is recorded, not that of the end.
RecordVMCompletedDeadline(n) ==
    /\ Goto(n, "record", "delete")
    /\ Record(n, [recs[n] EXCEPT !.state = "vm_completed",
                                 !.vmCompletedAt = now + Retention,
                                 !.result = IF runErr[n] THEN "Failed" ELSE "Succeeded"])
    /\ UNCHANGED <<instances, eventOf, acq, vm, runErr, pushed, now, otherVars>>

\* Faulty variant: a workflow that is shown canceled is left so.
RecordVMCompletedUnlessCanceled(n) ==
    /\ Goto(n, "record", "delete")
    /\ IF recs[n].state = "canceled"
       THEN Record(n, recs[n])
       ELSE Record(n, [recs[n] EXCEPT !.state = "vm_completed",
                                      !.vmCompletedAt = now,
                                      !.result = IF runErr[n] THEN "Failed" ELSE "Succeeded"])
    /\ UNCHANGED <<instances, eventOf, acq, vm, runErr, pushed, now, otherVars>>

RecordVMCompleted(n) ==
    /\ Goto(n, "record", "delete")
    /\ Record(n, [recs[n] EXCEPT !.state = "vm_completed",
                                 !.vmCompletedAt = now,
                                 !.result = IF runErr[n] THEN "Failed" ELSE "Succeeded"])
    /\ UNCHANGED <<instances, eventOf, acq, vm, runErr, pushed, now, otherVars>>

\* The deferred deleteInstance.
DeleteInstance(n) ==
    /\ Goto(n, "delete", "ended")
    /\ instances' = instances \ {n}
    /\ UNCHANGED <<eventOf, acq, vm, runErr, pushed, recs, now, otherVars>>

HandlerStep(n) ==
    \/ \E a \in Answers \ {"pending"} : TokenReturns(n, a) \/ VMReturns(n, a)
    \/ AcquireSucceeds(n) \/ AcquireFails(n) \/ RecordAcquireFailure(n)
    \/ RecordRunning(n) \/ RunConfig(n) \/ RunEnds(n) \/ ExtractLogs(n)
    \/ StopAndRelease(n) \/ PushOutcome(n) \/ RecordVMCompleted(n) \/ DeleteInstance(n)

HandleQueuedEvent(n) == HandlerStep(n) \/ \E j \in Jobs : StartQueued(j, n)

-----------------------------------------------------------------------------
(* handleInProgressEvent and handleCompleted                                *)

\* Faulty variant: the instance that was created for the job, if it is live.
InstanceByEvent(j) ==
    IF \E n \in instances : eventOf[n] = j
    THEN {CHOOSE n \in instances : eventOf[n] = j}
    ELSE ResolvedNames(j)

\* getInstanceForEvent: the names the lookup may end with.
InstanceForEvent(j) == ResolvedNames(j)

InProgressLookup(j) ==
    /\ Deliver("in_progress", j)
    /\ starting[j].step = "none"
    /\ \E n \in InstanceForEvent(j) :
         starting' = [starting EXCEPT ![j] =
             [step |-> IF n \in instances THEN "done" ELSE "rerun", name |-> n]]
    /\ UNCHANGED <<instVars, pushed, recs, now, completing, cancel, callVars, job>>

RerunWorkflowJob(j) ==
    /\ starting[j].step = "rerun"
    /\ starting' = [starting EXCEPT ![j].step = "done"]
    /\ reruns' = reruns \cup {j}
    /\ UNCHANGED <<instVars, pushed, recs, now, completing, cancel, cancelCalls, ghVars>>

\* Faulty variant: no branch for an instance that is still live.
CompletedLookupUnchecked(j) ==
    /\ Deliver("completed", j)
    /\ completing[j].step = "none"
    /\ \E n \in InstanceForEvent(j) :
         completing' = [completing EXCEPT ![j] =
             [step |-> IF n # NoName THEN "gone" ELSE "done", name |-> n]]
    /\ UNCHANGED <<instVars, pushed, recs, now, starting, cancel, callVars, job>>

CompletedLookup(j) ==
    /\ Deliver("completed", j)
    /\ completing[j].step = "none"
    /\ \E n \in InstanceForEvent(j) :
         completing' = [completing EXCEPT ![j] =
             [step |-> IF n \in instances THEN "live"
                       ELSE IF n # NoName THEN "gone" ELSE "done",
              name |-> n]]
    /\ UNCHANGED <<instVars, pushed, recs, now, starting, cancel, callVars, job>>

\* handleCompleted for a name goes from step a to step b.
CompletedGoto(j, a, b) ==
    /\ completing[j].step = a
    /\ completing' = [completing EXCEPT ![j].step = b]

\* The Result a completed webhook of j gives a record that has one already: a
\* webhook without a conclusion leaves it.
ConclusionOr(j, result) == IF job[j].conclusion = "" THEN result ELSE job[j].conclusion

\* Faulty variant: only the state is written.
RecordCompletedStateOnly(j) ==
    LET n == completing[j].name IN
    /\ CompletedGoto(j, "gone", "done")
    /\ Record(n, [recs[n] EXCEPT !.state = "completed"])
    /\ UNCHANGED <<instVars, pushed, now, starting, cancel, callVars, ghVars>>

\* No live instance: the record of the name becomes completed.
RecordCompleted(j) ==
    LET n == completing[j].name IN
    /\ CompletedGoto(j, "gone", "done")
    /\ Record(n, [recs[n] EXCEPT !.state = "completed",
                                 !.completedAt = now,
                                 !.result = ConclusionOr(j, @)])
    /\ UNCHANGED <<instVars, pushed, now, starting, cancel, callVars, ghVars>>

\* A live instance: canceled, its VM stopped, a failure pushed.
RecordCanceled(j) ==
    LET n == completing[j].name IN
    /\ CompletedGoto(j, "live", "stop")
    /\ Record(n, [recs[n] EXCEPT !.state = "canceled",
                                 !.completedAt = now,
                                 !.result = ConclusionOr(j, @)])
    /\ UNCHANGED <<instVars, pushed, now, starting, cancel, callVars, ghVars>>

StopCompletedVM(j) ==
    LET n == completing[j].name IN
    /\ CompletedGoto(j, "stop", "push")
    /\ vm' = [vm EXCEPT ![n] = "released"]
    /\ UNCHANGED <<instances, eventOf, pc, acq, runErr, pushed, recs, now,
                   starting, cancel, callVars, ghVars>>

PushCanceled(j) ==
    /\ CompletedGoto(j, "push", "done")
    /\ pushed' = [pushed EXCEPT ![completing[j].name] = @ \cup {"canceled"}]
    /\ UNCHANGED <<instVars, recs, now, starting, cancel, callVars, ghVars>>

CompletedStep(j) ==
    RecordCompleted(j) \/ RecordCanceled(j) \/ StopCompletedVM(j) \/ PushCanceled(j)

HandleCompleted(j) == CompletedLookup(j) \/ CompletedStep(j)

-----------------------------------------------------------------------------
(* Cancel(n); one request at a time for a name                              *)

CancelLookup(n) ==
    /\ n \in Cancellable
    /\ n \in instances
    /\ cancel[n] = "idle"
    /\ cancel' = [cancel EXCEPT ![n] = "api"]
    /\ UNCHANGED <<instVars, pushed, recs, now, starting, completing, callVars, ghVars>>

\* CancelWorkflowRunFullName, of the run of the job the instance was created
\* for; on an error Cancel returns.
CancelRun(n) ==
    /\ cancel[n] = "api"
    /\ \/ /\ cancel' = [cancel EXCEPT ![n] = "record"]
          /\ cancelCalls' = cancelCalls \cup {<<n, eventOf[n]>>}
       \/ cancel' = [cancel EXCEPT ![n] = "idle"] /\ UNCHANGED cancelCalls
    /\ UNCHANGED <<instVars, pushed, recs, now, starting, completing, reruns, ghVars>>

RecordCancel(n) ==
    /\ cancel[n] = "record"
    /\ cancel' = [cancel EXCEPT ![n] = "idle"]
    /\ Record(n, [recs[n] EXCEPT !.state = "canceled"])
    /\ UNCHANGED <<instVars, pushed, now, starting, completing, callVars, ghVars>>

-----------------------------------------------------------------------------
(* The environment: GitHub, and the clock.                                  *)

Unchanged == UNCHANGED <<instVars, pushed, recs, now, starting, completing, cancel, callVars>>

\* The runner of n is up: registered, on a VM, and not yet exited.
Listening(n) == pc[n] = "run" /\ vm[n] = "acquired"

\* A job succeeds only on a runner that is up; it may fail (a lost runner) or be
\* cancelled (a person, or Cancel) at any time.
GitHubStep ==
    /\ Unchanged
    /\ \/ \E j \in Jobs : QueueJob(j)
       \/ \E j \in Jobs, n \in Names : Listening(n) /\ AssignJob(j, n)
       \/ \E j \in Jobs, c \in Conclusions :
              /\ c = "success" => \E n \in Names : job[j].runner = n /\ Listening(n)
              /\ ConcludeJob(j, c)

Tick ==
    /\ now < MaxTime
    /\ now' = now + 1
    /\ UNCHANGED <<instVars, pushed, recs, otherVars>>

Next ==
    \/ \E n \in Names : HandleQueuedEvent(n)
    \/ \E j \in Jobs : InProgressLookup(j) \/ RerunWorkflowJob(j) \/ HandleCompleted(j)
    \/ \E n \in Names : CancelLookup(n) \/ CancelRun(n) \/ RecordCancel(n)
    \/ GitHubStep
    \/ Tick

Spec == Init /\ [][Next]_vars

(***************************************************************************)
(* Every step of a handler that has started returns: the acquisition and   *)
(* the commands on the VM run under the handler's timeout, the extraction  *)
(* of logs and the stop of the VM under 30 seconds of their own.  GitHub   *)
(* and the web UI owe nothing, and a webhook may never arrive.             *)
(***************************************************************************)
Fairness ==
    /\ \A n \in Names : WF_vars(HandlerStep(n)) /\ WF_vars(CancelRun(n) \/ RecordCancel(n))
    /\ \A j \in Jobs : WF_vars(RerunWorkflowJob(j)) /\ WF_vars(CompletedStep(j))

FairSpec == Spec /\ Fairness

-----------------------------------------------------------------------------
(* What the handlers guarantee between them.                                *)

\* A workflow is shown "completed" only once nothing of its runner is left to do:
\* the handler has returned, the VM has been given back, its outcome is on the
\* completion queue and no later "queued"-handler write can follow
\* (handleCompleted's "normal path").
CompletedAfterTeardown ==
    \A n \in Names : recs[n].state = "completed" =>
        /\ n \notin instances
        /\ pc[n] = "ended"
        /\ vm[n] = "released"
        /\ pushed[n] \cap {"success", "failure"} # {}

\* The Result of a "completed" workflow is the conclusion GitHub reached for the
\* job that this very runner executed, never the local outcome (unless GitHub's
\* webhook carries no conclusion) and never that of the job whose webhook created
\* the runner.
CompletedMatchesGitHub ==
    \A n \in Names : recs[n].state = "completed" =>
        \E j \in Jobs : /\ job[j].runner = n
                        /\ job[j].status = "completed"
                        /\ job[j].conclusion \in {recs[n].result, ""}

\* Whoever pushes a completion event, the VM it carries has been given back by
\* StopAndRelease: the completion queue deletes VMs, never one with a runner on it.
PushedAfterRelease ==
    \A n \in Names : pushed[n] # {} => vm[n] = "released"

\* No handler stops a VM under a job in progress: as long as GitHub has not
\* concluded the job and the runner has not exited, its VM stays acquired,
\* whatever webhooks of other jobs are being handled.
JobKeepsItsVM ==
    \A j \in Jobs, n \in Names :
        job[j].status = "in_progress" /\ job[j].runner = n /\ pc[n] = "run"
            => vm[n] = "acquired"

\* A handler that is through, in whichever way, has stopped its VM or called its
\* Delete.  Where that Delete failed, the VM was never used: the acquisition had no
\* token, so no runner was registered on it, and no completion event carries it.
NoVMAbandoned ==
    \A n \in Names : pc[n] \in Ended =>
        /\ vm[n] # "acquired"
        /\ vm[n] = "undeleted" => pc[n] = "failed" /\ acq[n].token = "err" /\ pushed[n] = {}

\* The state shown of a workflow is that of its handler.  The web UI counts on
\* "running" meaning that the handler holds a VM, known by its id
\* (webui_backend.go, acquiredVMIDs).
StatusAgrees ==
    \A n \in Names :
        /\ recs[n].state = "acquiring" => pc[n] \in {"acquiring", "acquire_failed", "acquired"}
        /\ recs[n].state = "running" =>
              /\ pc[n] \in {"config", "run", "extract", "stop", "push", "record"}
              /\ recs[n].vmid = "set" /\ vm[n] \in {"acquired", "released"}
        /\ recs[n].state = "vm_completed" => pc[n] \in {"delete", "ended"}
        /\ recs[n].state = "failed" => pc[n] = "failed"

\* GitHub is asked to rerun a job with a known runner only when that runner's
\* handler is through, so never while the job may still be executing here.
RerunOnlyOrphans ==
    \A j \in Jobs :
        starting[j].step = "rerun" /\ starting[j].name # NoName
            => pc[starting[j].name] = "ended"

\* A move of the state shown of n, in one step.
StatusMove(n) ==
    LET s == recs[n].state
        t == recs'[n].state
    IN  s # t =>
        /\ t \in CASE s = ""             -> {"acquiring", "vm_completed", "completed", "canceled"}
                   [] s = "acquiring"    -> {"running", "failed", "canceled"}
                   [] s = "running"      -> {"vm_completed", "canceled"}
                   [] s = "vm_completed" -> {"completed", "canceled", ""}
                   [] s = "canceled"     -> {"running", "failed", "vm_completed", "completed", ""}
                   [] OTHER              -> {"canceled", ""}
        /\ s \in {"completed", "failed"} /\ t = "canceled" => cancel[n] = "record"

\* How the state of a workflow may change, over all the handlers that write it.
\* A completed one is final but for a Cancel that found it while it was live.
StatusMoves == [][\A n \in Names : StatusMove(n)]_vars

\* The record of n is there and pruneLocked will never drop it.
Stays(n) ==
    /\ recs[n].state # ""
    /\ ~(IsTerminal(recs[n].state) /\ recs[n].completedAt # Never)
    /\ ~(recs[n].state = "vm_completed" /\ recs[n].vmCompletedAt # Never)

\* The handler of n has written its last to the record.
HasRecorded(n) == pc[n] \in {"delete"} \cup Ended

\* Retention bounds what is shown: once its handler has written its last, a
\* workflow's record is on its way out, whatever webhooks and requests to cancel
\* were handled before that; only a Cancel that comes to its own write after that
\* leaves one that is never dropped.
OnlyLateCancelsStay ==
    [][\A n \in Names :
         (HasRecorded(n) /\ Stays(n))' => RecordCancel(n) \/ (HasRecorded(n) /\ Stays(n))]_vars

\* Every handler comes to its end.
HandlerEnds == \A n \in Names : pc[n] = "acquiring" ~> pc[n] \in Ended

\* A VM that was acquired is stopped, or its Delete is called.  One whose Delete
\* fails is left: nobody tries again in this process.
VMGivenUp ==
    \A n \in Names : vm[n] = "acquired" ~> vm[n] \in {"released", "deleted", "undeleted"}

-----------------------------------------------------------------------------
(* Why: the invariant the guarantees above rest on.                         *)

\* The handler of n has got as far as running a GitHub runner.
Ran == {"run", "extract", "stop", "push", "record", "delete", "ended"}

\* A name is in the manager's map from newInstance to deleteInstance, which a
\* handler whose acquisition failed never calls.
InstanceInv == \A n \in Names : n \in instances <=> pc[n] \notin {"unused", "ended"}

\* The VM and the completion event at each step of the handler.  Before the
\* handler's own stop only a handleCompleted can have released the VM.
VMInv ==
    \A n \in Names :
        /\ pc[n] = "unused" => vm[n] = "none" /\ acq[n].vm = "pending"
        /\ pc[n] = "acquiring" => vm[n] = IF acq[n].vm = "ok" THEN "acquired" ELSE "none"
        /\ pc[n] \in {"acquire_failed", "failed"} => vm[n] \in {"none", "deleted", "undeleted"}
        /\ vm[n] = "undeleted" => acq[n].token = "err"
        /\ pc[n] \in {"acquired", "config"} => vm[n] = "acquired"
        /\ pc[n] \in {"run", "extract", "stop"} => vm[n] \in {"acquired", "released"}
        /\ pc[n] \in {"push", "record", "delete", "ended"} => vm[n] = "released"
        /\ pc[n] \in {"record", "delete", "ended"} => pushed[n] \cap {"success", "failure"} # {}
        /\ pushed[n] # {} => vm[n] = "released"
        /\ pc[n] = "run" /\ vm[n] = "released" =>
              \E j \in Jobs : job[j].runner = n /\ job[j].status = "completed"

\* A runner name GitHub has is that of a runner that ran, for one job only; a
\* webhook tells what has happened.
GitHubInv ==
    \A j \in Jobs :
        /\ job[j].status \in {"none", "queued"} => job[j].runner = NoName
        /\ job[j].runner # NoName => pc[job[j].runner] \in Ran
        /\ \A i \in Jobs : job[i].runner = job[j].runner /\ job[j].runner # NoName => i = j
        /\ [action |-> "in_progress", job |-> j] \in webhooks \/ starting[j].step # "none"
              => job[j].status \in {"in_progress", "completed"}
        /\ [action |-> "completed", job |-> j] \in webhooks \/ completing[j].step # "none"
              => job[j].status = "completed"

\* The name a webhook handler works with is that of the job's runner, and what
\* its lookup found of it still holds.
LookupInv ==
    \A j \in Jobs :
        /\ starting[j].name \in {job[j].runner, NoName}
        /\ starting[j].step = "rerun" /\ starting[j].name # NoName
              => pc[starting[j].name] = "ended"
        /\ completing[j].name \in {job[j].runner, NoName}
        /\ completing[j].step \in {"gone", "live", "stop", "push"} => completing[j].name # NoName
        /\ completing[j].step = "gone" => pc[completing[j].name] = "ended"
        /\ completing[j].step = "push" => vm[completing[j].name] = "released"

StatusInv ==
    /\ StatusAgrees
    /\ CompletedMatchesGitHub
    /\ \A n \in Names : recs[n].state = "completed" => pc[n] = "ended"

HandlerInv ==
    /\ TypeOK /\ InstanceInv /\ VMInv /\ GitHubInv /\ LookupInv /\ StatusInv

\* What a record has been through: nothing before its handler began; no time of
\* completion before its runner ran; that time once it is through; and GitHub's
\* webhook if it is completed.
RecordsInv ==
    \A n \in Names :
        /\ recs[n].state \in {"completed", "failed"} => recs[n].completedAt # Never
        /\ recs[n].state = "vm_completed" => recs[n].vmCompletedAt # Never
        /\ pc[n] = "unused" => recs[n].state = "" /\ cancel[n] = "idle"
        /\ pc[n] \in {"unused", "acquiring", "acquire_failed", "acquired"} =>
              recs[n].completedAt = Never
        /\ pc[n] \in {"acquiring", "acquire_failed", "acquired"} =>
              recs[n].state \in {"acquiring", "canceled"}
        /\ recs[n].state = "running" => recs[n].completedAt = Never
        /\ recs[n].state = "completed" =>
              \E j \in Jobs : completing[j] = [step |-> "done", name |-> n]

-----------------------------------------------------------------------------
(* What the comments say and the handlers do not do.                        *)

\* event_handler.go:328: a job reported completed while its instance is live "was
\* canceled on GitHub".  So only such a job, or one Cancel was asked for, is shown
\* canceled.
CanceledWasCanceled ==
    \A n \in Names : recs[n].state = "canceled" =>
        \/ \E j \in Jobs : <<n, j>> \in cancelCalls
        \/ \E j \in Jobs : job[j].runner = n /\ job[j].conclusion = "cancelled"

\* event_handler.go:93: Cancel "returns ErrWorkflowNotRunning if no live instance
\* exists"; the name of a workflow whose handler has returned is not running.
OnlyRunningCanceled ==
    [][\A n \in Names : CancelLookup(n) => pc[n] \notin Ended]_vars

\* event_handler.go:91: Cancel "cancels a running workflow job by runner-instance
\* name": the run it cancels is that of the job on this runner.
CancelHitsItsJob ==
    [][\A n \in Names, i, j \in Jobs :
         <<n, j>> \in cancelCalls' \ cancelCalls /\ job[i].runner = n => i = j]_vars

\* status.go:61: the tracker retains "completed jobs for a configurable period".
\* Once nobody is left to write the record of a workflow, pruneLocked can drop it.
CanceledRecordsAge ==
    \A n \in Names :
        /\ recs[n].state = "canceled" /\ pc[n] \in Ended /\ cancel[n] = "idle"
        /\ webhooks = {}
        /\ \A j \in Jobs : job[j].status = "completed" /\ completing[j].step = "done"
        => recs[n].completedAt # Never

-----------------------------------------------------------------------------
(* The handlers implement RunnerLifecycle.                                  *)

lifeOf ==
    [n \in Names |-> IF n \in instances THEN "live"
                     ELSE IF pc[n] = "unused" THEN "new" ELSE "retired"]

Lifecycle ==
    INSTANCE RunnerLifecycle WITH
        life <- lifeOf, lease <- vm, told <- pushed,
        acknowledged <- {n \in Names : recs[n].state = "completed"}

\* Every step of every handler is one that the promise allows, or changes nothing
\* the promise speaks of.
ImplementsLifecycle == Lifecycle!Spec

=============================================================================
