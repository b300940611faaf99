----------------------- MODULE WorkflowHandler_proofs -----------------------
(***************************************************************************)
(* Theorems about WorkflowHandler, for every number of instances and jobs, *)
(* every retention and every bound of the clock: the handlers' inductive   *)
(* invariant and what follows from it, the records of workflows, and the   *)
(* promise of RunnerLifecycle, which the handlers keep.                    *)
(***************************************************************************)
EXTENDS WorkflowHandler, TLAPS

-----------------------------------------------------------------------------
(* The tracker's operators.                                                 *)

LEMMA AbsentType == Absent \in WorkflowSnapshot
  BY MaxTimeAssumption DEF Absent, WorkflowSnapshot, Results, Times, Never

\* Every mutation the handlers pass to upsert makes a record of a record.
LEMMA MutationType ==
  ASSUME NEW r \in WorkflowSnapshot, NEW s \in WorkflowStates, NEW t \in Times,
         NEW x \in Results
  PROVE  /\ [r EXCEPT !.state = s] \in WorkflowSnapshot
         /\ [r EXCEPT !.state = s, !.vmid = "set"] \in WorkflowSnapshot
         /\ [r EXCEPT !.state = s, !.completedAt = t] \in WorkflowSnapshot
         /\ [r EXCEPT !.state = s, !.completedAt = t, !.result = x] \in WorkflowSnapshot
         /\ [r EXCEPT !.state = s, !.vmCompletedAt = t, !.result = x] \in WorkflowSnapshot
  BY DEF WorkflowSnapshot

\* GitHub's updates make a job of a job.
LEMMA JobMutationType ==
  ASSUME NEW r \in JobRecord(Names, Conclusions)
  PROVE  /\ [r EXCEPT !.status = "queued"] \in JobRecord(Names, Conclusions)
         /\ \A n \in Names : [r EXCEPT !.status = "in_progress", !.runner = n]
                               \in JobRecord(Names, Conclusions)
         /\ \A c \in Conclusions : [r EXCEPT !.status = "completed", !.conclusion = c]
                                     \in JobRecord(Names, Conclusions)
  BY DEF JobRecord

\* upsert leaves a map of records.
LEMMA UpsertType ==
  ASSUME recs \in [Names -> WorkflowSnapshot], NEW n \in Names, NEW rec \in WorkflowSnapshot
  PROVE  Upsert(recs, n, rec, now) \in [Names -> WorkflowSnapshot]
  BY AbsentType DEF Upsert, PruneLocked

\* What upsert makes of one record: the new one, the old one, or none.
LEMMA UpsertCases ==
  ASSUME recs \in [Names -> WorkflowSnapshot], NEW n \in Names, NEW rec, NEW m \in Names
  PROVE  \/ Upsert(recs, n, rec, now)[m] = Absent
         \/ m = n /\ Upsert(recs, n, rec, now)[m] = rec
         \/ m # n /\ Upsert(recs, n, rec, now)[m] = recs[m]
  BY DEF Upsert, PruneLocked

\* What the mutations the handlers pass to upsert show.
LEMMA MutationShows ==
  ASSUME NEW r \in WorkflowSnapshot, NEW s, NEW t, NEW x
  PROVE  /\ [r EXCEPT !.state = s].state = s
         /\ [r EXCEPT !.state = s, !.vmid = t].state = s
         /\ [r EXCEPT !.state = s, !.vmid = t].vmid = t
         /\ [r EXCEPT !.state = s, !.completedAt = t].state = s
         /\ [r EXCEPT !.state = s, !.completedAt = t, !.result = x].state = s
         /\ [r EXCEPT !.state = s, !.completedAt = t, !.result = x].result = x
         /\ [r EXCEPT !.state = s, !.vmCompletedAt = t, !.result = x].state = s
<1>1. [r EXCEPT !.state = s].state = s
  BY DEF WorkflowSnapshot
<1>2. [r EXCEPT !.state = s, !.vmid = t].state = s
  BY DEF WorkflowSnapshot
<1>3. [r EXCEPT !.state = s, !.vmid = t].vmid = t
  BY DEF WorkflowSnapshot
<1>4. [r EXCEPT !.state = s, !.completedAt = t].state = s
  BY DEF WorkflowSnapshot
<1>5. [r EXCEPT !.state = s, !.completedAt = t, !.result = x].state = s
  BY DEF WorkflowSnapshot
<1>6. [r EXCEPT !.state = s, !.completedAt = t, !.result = x].result = x
  BY DEF WorkflowSnapshot
<1>7. [r EXCEPT !.state = s, !.vmCompletedAt = t, !.result = x].state = s
  BY DEF WorkflowSnapshot
<1> QED BY <1>1, <1>2, <1>3, <1>4, <1>5, <1>6, <1>7, Zenon

\* What a write shows of a workflow: what was written, or nothing once pruned; and
\* of another workflow what was shown of it, or nothing.
LEMMA RecordShows ==
  ASSUME recs \in [Names -> WorkflowSnapshot], NEW n \in Names, NEW rec, Record(n, rec)
  PROVE  /\ recs'[n].state = "" \/ recs'[n] = rec
         /\ \A m \in Names : m # n => recs'[m].state = "" \/ recs'[m] = recs[m]
<1>1. Absent.state = ""
  BY DEF Absent
<1>2. ASSUME NEW m \in Names
      PROVE  \/ recs'[m] = Absent
             \/ m = n /\ recs'[m] = rec
             \/ m # n /\ recs'[m] = recs[m]
  BY <1>2, UpsertCases DEF Record
<1> QED BY <1>1, <1>2

\* The Result after a webhook: the conclusion, or what it was.
LEMMA ConclusionType ==
  ASSUME TypeOK, NEW j \in Jobs, NEW n \in Names
  PROVE  ConclusionOr(j, recs[n].result) \in Results
<1>1. job[j].conclusion \in Results
  BY DEF TypeOK, JobRecord, Results
<1>2. recs[n].result \in Results
  BY DEF TypeOK, WorkflowSnapshot
<1> QED BY <1>1, <1>2 DEF ConclusionOr

\* A failed acquisition deletes the VM it got, or tries to.
LEMMA AcquisitionUndone ==
  ASSUME TypeOK, NEW n \in Names, AcquireFails(n)
  PROVE  /\ vm' \in [Names -> {"none", "acquired", "released", "deleted", "undeleted"}]
         /\ \A m \in Names : m # n => vm'[m] = vm[m]
         /\ IF vm[n] = "acquired" THEN vm'[n] \in {"deleted", "undeleted"} ELSE vm' = vm
         /\ vm[n] = "acquired" =>
              \E after \in {"deleted", "undeleted"} : vm' = [vm EXCEPT ![n] = after]
<1>0. vm \in [Names -> {"none", "acquired", "released", "deleted", "undeleted"}]
  BY DEF TypeOK
<1>1. PICK after \in IF vm[n] = "acquired" THEN {"deleted", "undeleted"} ELSE {vm[n]} :
          vm' = [vm EXCEPT ![n] = after]
  BY DEF AcquireFails, DeleteAcquired
<1> QED BY <1>0, <1>1

-----------------------------------------------------------------------------
(* Type correctness.                                                        *)

LEMMA InitTyping == Init => TypeOK
<1> SUFFICES ASSUME Init PROVE TypeOK
  OBVIOUS
<1> USE DEF Init
<1>1. recs \in [Names -> WorkflowSnapshot] /\ now \in Times \ {Never}
  BY AbsentType, MaxTimeAssumption DEF Times, Never
<1>2. job \in [Jobs -> JobRecord(Names, Conclusions)] /\ webhooks \subseteq Webhook
  BY DEF GitHubInit, JobRecord
<1> QED BY <1>1, <1>2 DEF TypeOK, HandlerSteps, Ended, Answers

\* The handlers' state, whatever happens, is of the types of its variables.
THEOREM Typing == Spec => []TypeOK
<1>1. Init => TypeOK
  BY InitTyping
<1>2. TypeOK /\ [Next]_vars => TypeOK'
  <2> SUFFICES ASSUME TypeOK, [Next]_vars PROVE TypeOK'
    OBVIOUS
  <2> USE DEF TypeOK, Goto, otherVars, callVars, ghVars, instVars
  <2>1. ASSUME NEW n \in Names, NEW j \in Jobs, StartQueued(j, n) PROVE TypeOK'
    <3>1. [recs[n] EXCEPT !.state = "acquiring"] \in WorkflowSnapshot
      BY MutationType DEF WorkflowStates, Results
    <3>2. recs' \in [Names -> WorkflowSnapshot]
      BY <2>1, <3>1, UpsertType DEF StartQueued, Record
    <3> QED BY <2>1, <3>2 DEF StartQueued, Deliver, HandlerSteps, Ended
  <2>2. ASSUME NEW n \in Names, NEW a \in Answers, TokenReturns(n, a) PROVE TypeOK'
    BY <2>2 DEF TokenReturns
  <2>3. ASSUME NEW n \in Names, NEW a \in Answers, VMReturns(n, a) PROVE TypeOK'
    BY <2>3 DEF VMReturns
  <2>4. ASSUME NEW n \in Names, AcquireSucceeds(n) PROVE TypeOK'
    BY <2>4 DEF AcquireSucceeds, HandlerSteps, Ended
  <2>5. ASSUME NEW n \in Names, AcquireFails(n) PROVE TypeOK'
    <3>1. vm' \in [Names -> {"none", "acquired", "released", "deleted", "undeleted"}]
      BY <2>5, AcquisitionUndone
    <3> QED BY <2>5, <3>1 DEF AcquireFails, HandlerSteps, Ended
  <2>6. ASSUME NEW n \in Names, RunConfig(n) PROVE TypeOK'
    BY <2>6 DEF RunConfig, HandlerSteps, Ended
  <2>7. ASSUME NEW n \in Names, RunEnds(n) PROVE TypeOK'
    BY <2>7 DEF RunEnds, HandlerSteps, Ended
  <2>8. ASSUME NEW n \in Names, ExtractLogs(n) PROVE TypeOK'
    BY <2>8 DEF ExtractLogs, HandlerSteps, Ended
  <2>9. ASSUME NEW n \in Names, StopAndRelease(n) PROVE TypeOK'
    BY <2>9 DEF StopAndRelease, HandlerSteps, Ended
  <2>10. ASSUME NEW n \in Names, PushOutcome(n) PROVE TypeOK'
    BY <2>10 DEF PushOutcome, HandlerSteps, Ended, Outcomes
  <2>11. ASSUME NEW n \in Names, DeleteInstance(n) PROVE TypeOK'
    BY <2>11 DEF DeleteInstance, HandlerSteps, Ended
  <2>12. ASSUME NEW n \in Names, RecordAcquireFailure(n) PROVE TypeOK'
    <3>1. [recs[n] EXCEPT !.state = "failed", !.completedAt = now] \in WorkflowSnapshot
      BY MutationType DEF WorkflowStates, Results
    <3>2. recs' \in [Names -> WorkflowSnapshot]
      BY <2>12, <3>1, UpsertType DEF RecordAcquireFailure, Record
    <3> QED BY <2>12, <3>2 DEF RecordAcquireFailure, HandlerSteps, Ended
  <2>13. ASSUME NEW n \in Names, RecordRunning(n) PROVE TypeOK'
    <3>1. [recs[n] EXCEPT !.state = "running", !.vmid = "set"] \in WorkflowSnapshot
      BY MutationType DEF WorkflowStates, Results
    <3>2. recs' \in [Names -> WorkflowSnapshot]
      BY <2>13, <3>1, UpsertType DEF RecordRunning, Record
    <3> QED BY <2>13, <3>2 DEF RecordRunning, HandlerSteps, Ended
  <2>14. ASSUME NEW n \in Names, RecordVMCompleted(n) PROVE TypeOK'
    <3>1. [recs[n] EXCEPT !.state = "vm_completed",
                     !.vmCompletedAt = now,
                     !.result = IF runErr[n] THEN "Failed" ELSE "Succeeded"] \in WorkflowSnapshot
      BY MutationType DEF WorkflowStates, Results
    <3>2. recs' \in [Names -> WorkflowSnapshot]
      BY <2>14, <3>1, UpsertType DEF RecordVMCompleted, Record
    <3> QED BY <2>14, <3>2 DEF RecordVMCompleted, HandlerSteps, Ended
  <2>15. ASSUME NEW n \in Names, RecordCancel(n) PROVE TypeOK'
    <3>1. [recs[n] EXCEPT !.state = "canceled"] \in WorkflowSnapshot
      BY MutationType DEF WorkflowStates, Results
    <3>2. recs' \in [Names -> WorkflowSnapshot]
      BY <2>15, <3>1, UpsertType DEF RecordCancel, Record
    <3> QED BY <2>15, <3>2 DEF RecordCancel, HandlerSteps, Ended
  <2>16. ASSUME NEW j \in Jobs, InProgressLookup(j) PROVE TypeOK'
    <3>1. PICK n \in ResolvedNames(j) :
               starting' = [starting EXCEPT ![j] =
                 [step |-> IF n \in instances THEN "done" ELSE "rerun", name |-> n]]
      BY <2>16 DEF InProgressLookup, InstanceForEvent
    <3>2. n \in Names \cup {NoName}
      BY DEF ResolvedNames, JobRecord
    <3> QED BY <2>16, <3>1, <3>2 DEF InProgressLookup, Deliver
  <2>17. ASSUME NEW j \in Jobs, RerunWorkflowJob(j) PROVE TypeOK'
    BY <2>17 DEF RerunWorkflowJob
  <2>18. ASSUME NEW j \in Jobs, CompletedLookup(j) PROVE TypeOK'
    <3>1. PICK n \in ResolvedNames(j) :
               completing' = [completing EXCEPT ![j] =
                 [step |-> IF n \in instances THEN "live"
                          ELSE IF n # NoName THEN "gone" ELSE "done", name |-> n]]
      BY <2>18 DEF CompletedLookup, InstanceForEvent
    <3>2. n \in Names \cup {NoName}
      BY DEF ResolvedNames, JobRecord
    <3> QED BY <2>18, <3>1, <3>2 DEF CompletedLookup, Deliver
  <2>19. ASSUME NEW j \in Jobs, StopCompletedVM(j) PROVE TypeOK'
    BY <2>19 DEF StopCompletedVM, CompletedGoto
  <2>20. ASSUME NEW j \in Jobs, PushCanceled(j) PROVE TypeOK'
    BY ZenonT(60), <2>20 DEF PushCanceled, CompletedGoto, Outcomes
  <2>21. ASSUME NEW n \in Names, CancelLookup(n) PROVE TypeOK'
    BY <2>21 DEF CancelLookup
  <2>22. ASSUME NEW n \in Names, CancelRun(n) PROVE TypeOK'
    <3>1. cancelCalls' \subseteq Names \X (Jobs \cup {NoName})
      BY <2>22 DEF CancelRun
    <3>2. cancel' \in [Names -> {"idle", "api", "record"}]
      BY <2>22 DEF CancelRun
    <3> QED BY <2>22, <3>1, <3>2 DEF CancelRun
  <2>23. ASSUME NEW j \in Jobs, RecordCompleted(j) \/ RecordCanceled(j) PROVE TypeOK'
    <3> DEFINE n == completing[j].name
    <3>2. CASE n \in Names
      <4>0. ConclusionOr(j, recs[n].result) \in Results
        BY <3>2, ConclusionType
      <4>1. /\ [recs[n] EXCEPT !.state = "completed", !.completedAt = now,
                               !.result = ConclusionOr(j, recs[n].result)] \in WorkflowSnapshot
            /\ [recs[n] EXCEPT !.state = "canceled", !.completedAt = now,
                               !.result = ConclusionOr(j, recs[n].result)] \in WorkflowSnapshot
        BY ZenonT(60), <4>0, <3>2, MutationType DEF WorkflowStates
      <4>2. recs' \in [Names -> WorkflowSnapshot]
        BY <2>23, <3>2, <4>1, UpsertType DEF RecordCompleted, RecordCanceled, Record
      <4> QED BY SMTT(30), <2>23, <4>2 DEF RecordCompleted, RecordCanceled, CompletedGoto
    <3>3. CASE n = NoName
      <4>0. \E rec : Record(NoName, rec)
        BY <2>23, <3>3 DEF RecordCompleted, RecordCanceled
      <4>1. recs' \in [Names -> WorkflowSnapshot]
        BY <4>0, AbsentType, NoNameAssumption DEF Record, Upsert, PruneLocked
      <4> QED BY SMTT(30), <2>23, <4>1 DEF RecordCompleted, RecordCanceled, CompletedGoto
    <3> QED BY <3>2, <3>3
  <2>24. ASSUME Tick PROVE TypeOK'
    BY <2>24, MaxTimeAssumption DEF Tick, Times, Never
  <2>25. ASSUME GitHubStep PROVE TypeOK'
    <3>1. ASSUME NEW j \in Jobs, QueueJob(j) PROVE TypeOK'
      <4>1. [job[j] EXCEPT !.status = "queued"] \in JobRecord(Names, Conclusions)
        BY JobMutationType
      <4>2. webhooks' \subseteq Webhook
        BY <3>1 DEF QueueJob, Send, Webhook, Actions
      <4> QED BY <2>25, <3>1, <4>1, <4>2 DEF GitHubStep, Unchanged, QueueJob
    <3>2. ASSUME NEW j \in Jobs, NEW n \in Names, AssignJob(j, n) PROVE TypeOK'
      <4>1. [job[j] EXCEPT !.status = "in_progress", !.runner = n] \in JobRecord(Names, Conclusions)
        BY JobMutationType
      <4>2. webhooks' \subseteq Webhook
        BY <3>2 DEF AssignJob, Send, Webhook, Actions
      <4> QED BY <2>25, <3>2, <4>1, <4>2 DEF GitHubStep, Unchanged, AssignJob
    <3>3. ASSUME NEW j \in Jobs, NEW c \in Conclusions, ConcludeJob(j, c) PROVE TypeOK'
      <4>1. [job[j] EXCEPT !.status = "completed", !.conclusion = c] \in JobRecord(Names, Conclusions)
        BY JobMutationType
      <4>2. webhooks' \subseteq Webhook
        BY <3>3 DEF ConcludeJob, Send, Webhook, Actions
      <4> QED BY <2>25, <3>3, <4>1, <4>2 DEF GitHubStep, Unchanged, ConcludeJob
    <3> QED BY <2>25, <3>1, <3>2, <3>3 DEF GitHubStep
  <2>26. CASE UNCHANGED vars
    BY <2>26 DEF vars
  <2> QED
    BY <2>1, <2>2, <2>3, <2>4, <2>5, <2>6, <2>7, <2>8, <2>9, <2>10, <2>11, <2>12, <2>13,
       <2>14, <2>15, <2>16, <2>17, <2>18, <2>19, <2>20, <2>21, <2>22, <2>23, <2>24, <2>25, <2>26
    DEF Next, HandleQueuedEvent, HandlerStep, HandleCompleted, CompletedStep
<1> QED BY <1>1, <1>2, PTL DEF Spec

-----------------------------------------------------------------------------
(* The invariant, conjunct by conjunct.                                     *)

\* A job keeps its runner once it has one, and a concluded job does not change.
LEMMA KnownJobsStay ==
  ASSUME TypeOK, GitHubInv, GitHubStep, NEW i \in Jobs
  PROVE  /\ job[i].runner # NoName => job'[i].runner = job[i].runner
         /\ job[i].status = "completed" => job'[i] = job[i]
<1> USE DEF TypeOK, JobRecord
<1>1. ASSUME NEW j \in Jobs, QueueJob(j) PROVE job[i].status = "none" \/ job'[i] = job[i]
  BY <1>1 DEF QueueJob
<1>2. ASSUME NEW j \in Jobs, NEW n \in Names, AssignJob(j, n)
      PROVE  job[i].status = "queued" \/ job'[i] = job[i]
  BY <1>2 DEF AssignJob
<1>3. ASSUME NEW j \in Jobs, NEW c \in Conclusions, ConcludeJob(j, c)
      PROVE  /\ job'[i].runner = job[i].runner
             /\ job[i].status = "completed" => job'[i] = job[i]
  BY <1>3 DEF ConcludeJob
<1> QED BY <1>1, <1>2, <1>3 DEF GitHubStep, GitHubInv

\* The instance map and the handlers' steps.
LEMMA InstanceStep == TypeOK /\ InstanceInv /\ [Next]_vars => InstanceInv'
<1> SUFFICES ASSUME TypeOK, InstanceInv, [Next]_vars PROVE InstanceInv'
  OBVIOUS
<1> USE DEF InstanceInv, Goto
<1>1. ASSUME NEW n \in Names, NEW j \in Jobs, StartQueued(j, n) PROVE InstanceInv'
  BY <1>1 DEF StartQueued, TypeOK
<1>2. ASSUME NEW n \in Names, DeleteInstance(n) PROVE InstanceInv'
  BY <1>2 DEF DeleteInstance, TypeOK
<1>3. ASSUME NEW n \in Names, HandlerStep(n), ~DeleteInstance(n) PROVE InstanceInv'
  <2>1. instances' = instances
    BY <1>3 DEF HandlerStep, TokenReturns, VMReturns, AcquireSucceeds, AcquireFails,
       RecordAcquireFailure, RecordRunning, RunConfig, RunEnds, ExtractLogs, StopAndRelease,
       PushOutcome, RecordVMCompleted
  <2>2. \/ pc' = pc
        \/ /\ pc[n] \notin {"unused", "ended"}
           /\ \E s \in HandlerSteps \ {"unused", "ended"} : pc' = [pc EXCEPT ![n] = s]
    BY <1>3 DEF HandlerStep, TokenReturns, VMReturns, AcquireSucceeds, AcquireFails,
       RecordAcquireFailure, RecordRunning, RunConfig, RunEnds, ExtractLogs, StopAndRelease,
       PushOutcome, RecordVMCompleted, HandlerSteps, Ended
  <2> QED BY <2>1, <2>2 DEF TypeOK
<1>4. ASSUME instances' = instances, pc' = pc PROVE InstanceInv'
  BY <1>4
<1> QED
  BY <1>1, <1>2, <1>3, <1>4
  DEF Next, HandleQueuedEvent, HandleCompleted, CompletedStep, InProgressLookup,
      RerunWorkflowJob, CompletedLookup, RecordCompleted, RecordCanceled, StopCompletedVM,
      PushCanceled, CancelLookup, CancelRun, RecordCancel, GitHubStep, Unchanged, Tick, vars, instVars

\* The VM of an instance and its completion events.  A handleCompleted touches
\* them only for an instance that ran.
LEMMA VMStep ==
  TypeOK /\ VMInv /\ GitHubInv /\ LookupInv /\ [Next]_vars => VMInv'
<1> SUFFICES ASSUME TypeOK, VMInv, GitHubInv, LookupInv, [Next]_vars PROVE VMInv'
  OBVIOUS
<1> USE DEF VMInv, Goto
<1>1. ASSUME NEW n \in Names, NEW j \in Jobs, StartQueued(j, n) PROVE VMInv'
  <2>1. /\ pc[n] = "unused" /\ pc' = [pc EXCEPT ![n] = "acquiring"]
        /\ UNCHANGED <<acq, vm, pushed, job>>
    BY <1>1 DEF StartQueued
  <2> QED BY <2>1 DEF TypeOK
<1>2. ASSUME NEW n \in Names, NEW a \in Answers, TokenReturns(n, a) \/ VMReturns(n, a)
      PROVE  VMInv'
  <2>1. UNCHANGED <<pc, pushed, job>>
    BY <1>2 DEF TokenReturns, VMReturns, otherVars, ghVars
  <2>2. CASE TokenReturns(n, a)
    <3>1. vm' = vm /\ \A m \in Names : acq'[m].vm = acq[m].vm
      BY <2>2 DEF TokenReturns, TypeOK
    <3>2. vm[n] # "undeleted" /\ \A m \in Names : m # n => acq'[m] = acq[m]
      BY <2>2 DEF TokenReturns, TypeOK
    <3> QED BY <2>1, <3>1, <3>2
  <2>3. CASE VMReturns(n, a)
    <3>1. /\ pc[n] = "acquiring" /\ acq[n].vm = "pending"
          /\ acq' = [acq EXCEPT ![n].vm = a]
          /\ vm' = [vm EXCEPT ![n] = IF a = "ok" THEN "acquired" ELSE @]
      BY <2>3 DEF VMReturns
    <3>2. \A m \in Names : m # n => acq'[m] = acq[m] /\ vm'[m] = vm[m]
      BY <3>1 DEF TypeOK
    <3>3. acq'[n].vm = a /\ vm'[n] = IF a = "ok" THEN "acquired" ELSE "none"
      BY <3>1 DEF TypeOK
    <3>4. pushed[n] = {}
      BY <3>1
    <3> QED BY <2>1, <3>1, <3>2, <3>3, <3>4
  <2> QED BY <1>2, <2>2, <2>3
<1>3. ASSUME NEW n \in Names, AcquireSucceeds(n) \/ AcquireFails(n) PROVE VMInv'
  <2>1. CASE AcquireSucceeds(n)
    <3>1. /\ pc[n] = "acquiring" /\ acq[n].vm = "ok" /\ pc' = [pc EXCEPT ![n] = "acquired"]
          /\ UNCHANGED <<acq, vm, pushed, job>>
      BY <2>1 DEF AcquireSucceeds, otherVars, ghVars
    <3> QED BY <3>1 DEF TypeOK
  <2>2. CASE AcquireFails(n)
    <3>1. /\ pc[n] = "acquiring" /\ pc' = [pc EXCEPT ![n] = "acquire_failed"]
          /\ UNCHANGED <<acq, pushed, job>>
          /\ "err" \in {acq[n].token, acq[n].vm}
      BY <2>2 DEF AcquireFails, otherVars, ghVars
    <3>2. vm[n] \in {"none", "acquired"} /\ pushed[n] = {}
      BY <3>1
    <3>3. vm[n] = "acquired" => acq[n].token = "err"
      BY <3>1
    <3>4. /\ \A m \in Names : m # n => vm'[m] = vm[m]
          /\ IF vm[n] = "acquired" THEN vm'[n] \in {"deleted", "undeleted"} ELSE vm' = vm
      BY <2>2, AcquisitionUndone
    <3>5. vm'[n] \in {"none", "deleted", "undeleted"} /\ (vm'[n] = "undeleted" => acq[n].token = "err")
      BY <3>2, <3>3, <3>4
    <3>6. pc'[n] = "acquire_failed" /\ \A m \in Names : m # n => pc'[m] = pc[m]
      BY <3>1 DEF TypeOK
    <3> QED BY <3>1, <3>2, <3>4, <3>5, <3>6
  <2> QED BY <1>3, <2>1, <2>2
<1>4. ASSUME NEW n \in Names, RecordAcquireFailure(n) \/ RecordRunning(n) PROVE VMInv'
  <2>1. \/ pc[n] = "acquire_failed" /\ pc' = [pc EXCEPT ![n] = "failed"]
        \/ pc[n] = "acquired" /\ pc' = [pc EXCEPT ![n] = "config"]
    BY <1>4 DEF RecordAcquireFailure, RecordRunning
  <2>2. UNCHANGED <<acq, vm, pushed, job>>
    BY <1>4 DEF RecordAcquireFailure, RecordRunning, otherVars, ghVars
  <2> QED BY <2>1, <2>2 DEF TypeOK
<1>5. ASSUME NEW n \in Names, RunConfig(n) \/ RunEnds(n) \/ ExtractLogs(n) PROVE VMInv'
  <2>1. \/ pc[n] = "config" /\ pc' = [pc EXCEPT ![n] = "run"]
        \/ pc[n] = "config" /\ pc' = [pc EXCEPT ![n] = "extract"]
        \/ pc[n] = "run" /\ pc' = [pc EXCEPT ![n] = "extract"]
        \/ pc[n] = "extract" /\ pc' = [pc EXCEPT ![n] = "stop"]
    BY <1>5 DEF RunConfig, RunEnds, ExtractLogs
  <2>2. UNCHANGED <<acq, vm, pushed, job>>
    BY <1>5 DEF RunConfig, RunEnds, ExtractLogs, otherVars, ghVars
  <2> QED BY <2>1, <2>2 DEF TypeOK
<1>6. ASSUME NEW n \in Names, StopAndRelease(n) PROVE VMInv'
  <2>1. /\ pc[n] = "stop" /\ pc' = [pc EXCEPT ![n] = "push"]
        /\ vm' = [vm EXCEPT ![n] = "released"]
        /\ UNCHANGED <<acq, pushed, job>>
    BY <1>6 DEF StopAndRelease, otherVars, ghVars
  <2> QED BY <2>1 DEF TypeOK
<1>7. ASSUME NEW n \in Names, PushOutcome(n) PROVE VMInv'
  <2>1. /\ pc[n] = "push" /\ pc' = [pc EXCEPT ![n] = "record"]
        /\ UNCHANGED <<acq, vm, job>>
    BY <1>7 DEF PushOutcome, otherVars, ghVars
  <2>2. PICK o \in {"success", "failure"} : pushed' = [pushed EXCEPT ![n] = @ \cup {o}]
    BY <1>7 DEF PushOutcome
  <2>3. \A m \in Names : m # n => pc'[m] = pc[m] /\ pushed'[m] = pushed[m]
    BY <2>1, <2>2 DEF TypeOK
  <2>4. pc'[n] = "record"
    BY <2>1 DEF TypeOK
  <2>5. pushed'[n] = pushed[n] \cup {o}
    BY <2>2 DEF TypeOK
  <2>6. pushed'[n] \cap {"success", "failure"} # {}
    BY <2>5
  <2>7. vm[n] = "released"
    BY <2>1
  <2> QED BY <2>1, <2>3, <2>4, <2>6, <2>7
<1>8. ASSUME NEW n \in Names, RecordVMCompleted(n) \/ DeleteInstance(n) PROVE VMInv'
  <2>1. \/ pc[n] = "record" /\ pc' = [pc EXCEPT ![n] = "delete"]
        \/ pc[n] = "delete" /\ pc' = [pc EXCEPT ![n] = "ended"]
    BY <1>8 DEF RecordVMCompleted, DeleteInstance
  <2>2. UNCHANGED <<acq, vm, pushed, job>>
    BY <1>8 DEF RecordVMCompleted, DeleteInstance, otherVars, ghVars
  <2> QED BY <2>1, <2>2 DEF TypeOK
<1>9. ASSUME NEW j \in Jobs, StopCompletedVM(j) PROVE VMInv'
  <2> DEFINE n == completing[j].name
  <2>1. n # NoName /\ n = job[j].runner /\ job[j].status = "completed" /\ pc[n] \in Ran
    BY <1>9 DEF StopCompletedVM, CompletedGoto, LookupInv, GitHubInv
  <2> QED BY <1>9, <2>1 DEF StopCompletedVM, CompletedGoto, TypeOK, Ran, ghVars
<1>10. ASSUME NEW j \in Jobs, PushCanceled(j) PROVE VMInv'
  BY <1>10 DEF PushCanceled, CompletedGoto, LookupInv, TypeOK, instVars, ghVars
<1>11. ASSUME GitHubStep PROVE VMInv'
  <2>1. \A i \in Jobs : job[i].status = "completed" =>
          job'[i].status = "completed" /\ job'[i].runner = job[i].runner
    BY <1>11, KnownJobsStay
  <2> QED BY <1>11, <2>1 DEF GitHubStep, Unchanged, instVars
<1>12. ASSUME UNCHANGED <<pc, vm, acq, pushed, job>> PROVE VMInv'
  BY <1>12
<1> QED
  BY <1>1, <1>2, <1>3, <1>4, <1>5, <1>6, <1>7, <1>8, <1>9, <1>10, <1>11, <1>12
  DEF Next, HandleQueuedEvent, HandlerStep, HandleCompleted, CompletedStep, InProgressLookup,
      RerunWorkflowJob, CompletedLookup, RecordCompleted, RecordCanceled, CancelLookup,
      CancelRun, RecordCancel, Tick, vars, instVars, otherVars, ghVars

\* What GitHub knows of runners.
LEMMA GitHubStepInv ==
  TypeOK /\ GitHubInv /\ [Next]_vars => GitHubInv'
<1> SUFFICES ASSUME TypeOK, GitHubInv, [Next]_vars PROVE GitHubInv'
  OBVIOUS
<1> USE DEF GitHubInv
<1>1. ASSUME NEW n \in Names, HandleQueuedEvent(n) PROVE GitHubInv'
  <2>1. \A m \in Names : pc[m] \in Ran => pc'[m] \in Ran
    BY <1>1 DEF HandleQueuedEvent, HandlerStep, StartQueued, TokenReturns, VMReturns,
       AcquireSucceeds, AcquireFails, RecordAcquireFailure, RecordRunning, RunConfig, RunEnds,
       ExtractLogs, StopAndRelease, PushOutcome, RecordVMCompleted, DeleteInstance, Goto, Ran,
       TypeOK
  <2>2. webhooks' \subseteq webhooks /\ UNCHANGED <<job, starting, completing>>
    BY <1>1 DEF HandleQueuedEvent, HandlerStep, StartQueued, TokenReturns, VMReturns,
       AcquireSucceeds, AcquireFails, RecordAcquireFailure, RecordRunning, RunConfig, RunEnds,
       ExtractLogs, StopAndRelease, PushOutcome, RecordVMCompleted, DeleteInstance, Deliver,
       otherVars, ghVars
  <2> QED BY <2>1, <2>2 DEF TypeOK, JobRecord
<1>2. ASSUME NEW j \in Jobs, InProgressLookup(j) \/ CompletedLookup(j) PROVE GitHubInv'
  BY ZenonT(60), <1>2 DEF InProgressLookup, CompletedLookup, Deliver, TypeOK, instVars
<1>3. ASSUME NEW j \in Jobs, RerunWorkflowJob(j) \/ CompletedStep(j) PROVE GitHubInv'
  BY ZenonT(60), <1>3 DEF RerunWorkflowJob, CompletedStep, RecordCompleted, RecordCanceled,
     StopCompletedVM, PushCanceled, CompletedGoto, TypeOK, instVars, ghVars
<1>4. ASSUME NEW j \in Jobs, QueueJob(j), Unchanged PROVE GitHubInv'
  BY ZenonT(60), <1>4 DEF QueueJob, Send, Unchanged, TypeOK, JobRecord, instVars
<1>5. ASSUME NEW j \in Jobs, NEW n \in Names, Listening(n), AssignJob(j, n), Unchanged
      PROVE  GitHubInv'
  <2>1. /\ job[j].status = "queued" /\ \A i \in Jobs : job[i].runner # n
        /\ job' = [job EXCEPT ![j].status = "in_progress", ![j].runner = n]
        /\ webhooks' = webhooks \cup {[action |-> "in_progress", job |-> j]}
        /\ pc[n] = "run" /\ UNCHANGED <<pc, starting, completing>>
    BY <1>5 DEF AssignJob, Send, Unchanged, Listening, instVars
  <2>2. job'[j].status = "in_progress" /\ job'[j].runner = n
    BY <2>1 DEF TypeOK, JobRecord
  <2>3. \A i \in Jobs : i # j => job'[i] = job[i]
    BY <2>1 DEF TypeOK
  <2>4. \A i \in Jobs : [action |-> "completed", job |-> i] \in webhooks'
                        => [action |-> "completed", job |-> i] \in webhooks
    BY <2>1
  <2>5. \A i \in Jobs : i # j /\ [action |-> "in_progress", job |-> i] \in webhooks'
                        => [action |-> "in_progress", job |-> i] \in webhooks
    BY <2>1
  <2>6. job[j].status # "completed" /\ completing[j].step = "none"
    BY <2>1
  <2>7. ASSUME NEW i \in Jobs PROVE
          /\ job'[i].status \in {"none", "queued"} => job'[i].runner = NoName
          /\ job'[i].runner # NoName => pc'[job'[i].runner] \in Ran
    BY <2>1, <2>2, <2>3 DEF Ran
  <2>8. ASSUME NEW i \in Jobs, NEW k \in Jobs,
               job'[k].runner = job'[i].runner, job'[i].runner # NoName
        PROVE  k = i
    BY ZenonT(60), <2>1, <2>2, <2>3, <2>8
  <2>9. ASSUME NEW i \in Jobs PROVE
          /\ [action |-> "in_progress", job |-> i] \in webhooks' \/ starting'[i].step # "none"
                => job'[i].status \in {"in_progress", "completed"}
          /\ [action |-> "completed", job |-> i] \in webhooks' \/ completing'[i].step # "none"
                => job'[i].status = "completed"
    <3>1. CASE i = j
      BY <3>1, <2>1, <2>2, <2>4, <2>6
    <3>2. CASE i # j
      BY <3>2, <2>1, <2>3, <2>4, <2>5
    <3> QED BY <3>1, <3>2
  <2> QED BY <2>7, <2>8, <2>9
<1>6. ASSUME NEW j \in Jobs, NEW c \in Conclusions, ConcludeJob(j, c), Unchanged
      PROVE  GitHubInv'
  BY ZenonT(60), <1>6 DEF ConcludeJob, Send, Unchanged, TypeOK, JobRecord, instVars
<1>7. ASSUME UNCHANGED <<pc, job, webhooks, starting, completing>> PROVE GitHubInv'
  BY <1>7
<1> QED
  BY <1>1, <1>2, <1>3, <1>4, <1>5, <1>6, <1>7
  DEF Next, HandleCompleted, CancelLookup, CancelRun, RecordCancel, GitHubStep, Tick, vars,
      instVars, otherVars, ghVars

\* What a lookup found stays true while its handler acts on it: an ended handler
\* does not start again, and a VM given back is not acquired again.
LEMMA LookupStep ==
  TypeOK /\ InstanceInv /\ VMInv /\ GitHubInv /\ LookupInv /\ [Next]_vars => LookupInv'
<1> SUFFICES ASSUME TypeOK, InstanceInv, VMInv, GitHubInv, LookupInv, [Next]_vars
             PROVE  LookupInv'
  OBVIOUS
<1>1. ASSUME NEW n \in Names, HandleQueuedEvent(n) PROVE LookupInv'
  <2>1. \A m \in Names : pc[m] = "ended" => pc'[m] = "ended"
    BY <1>1 DEF HandleQueuedEvent, HandlerStep, StartQueued, TokenReturns, VMReturns,
       AcquireSucceeds, AcquireFails, RecordAcquireFailure, RecordRunning, RunConfig, RunEnds,
       ExtractLogs, StopAndRelease, PushOutcome, RecordVMCompleted, DeleteInstance, Goto, TypeOK
  <2>2. \A m \in Names : vm[m] = "released" => vm'[m] = "released"
    BY <1>1, AcquisitionUndone DEF HandleQueuedEvent, HandlerStep, StartQueued, TokenReturns, VMReturns,
       AcquireSucceeds, AcquireFails, RecordAcquireFailure, RecordRunning, RunConfig, RunEnds,
       ExtractLogs, StopAndRelease, PushOutcome, RecordVMCompleted, DeleteInstance, Goto, TypeOK,
       VMInv
  <2>3. UNCHANGED <<job, starting, completing>>
    BY <1>1 DEF HandleQueuedEvent, HandlerStep, StartQueued, TokenReturns, VMReturns,
       AcquireSucceeds, AcquireFails, RecordAcquireFailure, RecordRunning, RunConfig, RunEnds,
       ExtractLogs, StopAndRelease, PushOutcome, RecordVMCompleted, DeleteInstance, Deliver,
       otherVars, ghVars
  <2> QED BY <2>1, <2>2, <2>3 DEF LookupInv, TypeOK
<1>2. ASSUME NEW j \in Jobs, InProgressLookup(j) PROVE LookupInv'
  <2>1. PICK n \in ResolvedNames(j) :
          starting' = [starting EXCEPT ![j] =
              [step |-> IF n \in instances THEN "done" ELSE "rerun", name |-> n]]
    BY <1>2 DEF InProgressLookup, InstanceForEvent
  <2>2. n # NoName /\ n \notin instances => pc[n] = "ended"
    BY DEF ResolvedNames, GitHubInv, InstanceInv, TypeOK, JobRecord, Ran
  <2>3. UNCHANGED <<pc, vm, job, completing>>
    BY <1>2 DEF InProgressLookup, instVars
  <2> QED BY <2>1, <2>2, <2>3 DEF LookupInv, TypeOK, ResolvedNames
<1>3. ASSUME NEW j \in Jobs, CompletedLookup(j) PROVE LookupInv'
  <2>1. PICK n \in ResolvedNames(j) :
          completing' = [completing EXCEPT ![j] =
              [step |-> IF n \in instances THEN "live"
                        ELSE IF n # NoName THEN "gone" ELSE "done", name |-> n]]
    BY <1>3 DEF CompletedLookup, InstanceForEvent
  <2>2. n # NoName /\ n \notin instances => pc[n] = "ended"
    BY DEF ResolvedNames, GitHubInv, InstanceInv, TypeOK, JobRecord, Ran
  <2>3. NoName \notin instances
    BY NoNameAssumption DEF TypeOK
  <2>4. UNCHANGED <<pc, vm, job, starting>>
    BY <1>3 DEF CompletedLookup, instVars
  <2>5. completing'[j].name = n /\ completing'[j].step \in {"live", "gone", "done"}
    BY <2>1 DEF TypeOK
  <2>6. completing'[j].step = "live" => n \in instances
    BY <2>1 DEF TypeOK
  <2>7. completing'[j].step = "gone" => n # NoName /\ n \notin instances
    BY <2>1 DEF TypeOK
  <2>8. \A i \in Jobs : i # j => completing'[i] = completing[i]
    BY <2>1 DEF TypeOK
  <2>9. n \in {job[j].runner, NoName}
    BY DEF ResolvedNames
  <2> QED BY <2>2, <2>3, <2>4, <2>5, <2>6, <2>7, <2>8, <2>9 DEF LookupInv
<1>4. ASSUME NEW j \in Jobs, RerunWorkflowJob(j) PROVE LookupInv'
  BY <1>4 DEF RerunWorkflowJob, LookupInv, TypeOK, instVars, ghVars
<1>5. ASSUME NEW j \in Jobs, RecordCompleted(j) \/ RecordCanceled(j) \/ PushCanceled(j)
      PROVE  LookupInv'
  <2>1. UNCHANGED <<pc, vm, job, starting>>
    BY <1>5 DEF RecordCompleted, RecordCanceled, PushCanceled, instVars, ghVars
  <2>2. \/ completing' = [completing EXCEPT ![j].step = "done"]
        \/ completing[j].step = "live" /\ completing' = [completing EXCEPT ![j].step = "stop"]
    <3>1. CASE RecordCompleted(j)
      BY <3>1 DEF RecordCompleted, CompletedGoto
    <3>2. CASE RecordCanceled(j)
      BY <3>2 DEF RecordCanceled, CompletedGoto
    <3>3. CASE PushCanceled(j)
      BY <3>3 DEF PushCanceled, CompletedGoto
    <3> QED BY <1>5, <3>1, <3>2, <3>3
  <2>3. /\ completing'[j].name = completing[j].name
        /\ \/ completing'[j].step = "done"
           \/ completing[j].step = "live" /\ completing'[j].step = "stop"
    BY <2>2 DEF TypeOK
  <2>4. \A i \in Jobs : i # j => completing'[i] = completing[i]
    BY <2>2 DEF TypeOK
  <2> QED BY <2>1, <2>3, <2>4 DEF LookupInv
<1>6. ASSUME NEW j \in Jobs, StopCompletedVM(j) PROVE LookupInv'
  <2>1. /\ completing[j].step = "stop" /\ completing' = [completing EXCEPT ![j].step = "push"]
        /\ vm' = [vm EXCEPT ![completing[j].name] = "released"]
        /\ UNCHANGED <<pc, job, starting>>
    BY <1>6 DEF StopCompletedVM, CompletedGoto, ghVars
  <2>2. completing[j].name \in Names
    BY <2>1 DEF LookupInv, TypeOK, JobRecord
  <2> QED BY <2>1, <2>2 DEF LookupInv, TypeOK
<1>7. ASSUME GitHubStep PROVE LookupInv'
  <2>1. UNCHANGED <<pc, vm, starting, completing>>
    BY <1>7 DEF GitHubStep, Unchanged, instVars
  <2>2. \A i \in Jobs : job[i].runner # NoName => job'[i].runner = job[i].runner
    BY <1>7, KnownJobsStay
  <2> QED BY <2>1, <2>2 DEF LookupInv
<1>8. ASSUME UNCHANGED <<pc, vm, job, starting, completing>> PROVE LookupInv'
  BY <1>8 DEF LookupInv
<1> QED
  BY <1>1, <1>2, <1>3, <1>4, <1>5, <1>6, <1>7, <1>8
  DEF Next, HandleCompleted, CompletedStep, CancelLookup, CancelRun, RecordCancel, Tick, vars,
      instVars, otherVars, ghVars

\* StatusInv, of one workflow.
StatusAt(n) ==
  /\ recs[n].state = "acquiring" => pc[n] \in {"acquiring", "acquire_failed", "acquired"}
  /\ recs[n].state = "running" =>
        /\ pc[n] \in {"config", "run", "extract", "stop", "push", "record"}
        /\ recs[n].vmid = "set" /\ vm[n] \in {"acquired", "released"}
  /\ recs[n].state = "vm_completed" => pc[n] \in {"delete", "ended"}
  /\ recs[n].state = "failed" => pc[n] = "failed"
  /\ recs[n].state = "completed" =>
        /\ pc[n] = "ended"
        /\ \E j \in Jobs : /\ job[j].runner = n
                          /\ job[j].status = "completed"
                          /\ job[j].conclusion \in {recs[n].result, ""}

LEMMA StatusByName == StatusInv <=> \A n \in Names : StatusAt(n)
  BY ZenonT(30) DEF StatusInv, StatusAgrees, CompletedMatchesGitHub, StatusAt

\* A write to the record of n that moves no other handler and no job leaves the
\* others' status as it should be.
LEMMA StatusFrame ==
  ASSUME NEW n \in Names, StatusInv, StatusAt(n)',
         \A m \in Names : m # n => recs'[m].state = "" \/ recs'[m] = recs[m],
         \A m \in Names : m # n => pc'[m] = pc[m] /\ vm'[m] = vm[m],
         job' = job
  PROVE  StatusInv'
<1>1. ASSUME NEW m \in Names, m # n PROVE StatusAt(m)'
  <2>1. StatusAt(m)
    BY StatusByName
  <2>2. pc'[m] = pc[m] /\ vm'[m] = vm[m]
    BY <1>1
  <2>3. CASE recs'[m].state = ""
    BY <2>3 DEF StatusAt
  <2>4. CASE recs'[m] = recs[m]
    BY <2>1, <2>2, <2>4 DEF StatusAt
  <2>5. recs'[m].state = "" \/ recs'[m] = recs[m]
    BY <1>1
  <2> QED BY <2>3, <2>4, <2>5
<1>2. \A m \in Names : StatusAt(m)'
  BY <1>1
<1> QED BY <1>2, Zenon DEF StatusAt, StatusInv, StatusAgrees, CompletedMatchesGitHub

\* What is shown of a workflow, over every write to its record.
LEMMA StatusStep ==
  TypeOK /\ InstanceInv /\ VMInv /\ GitHubInv /\ LookupInv /\ StatusInv /\ [Next]_vars
    => StatusInv'
<1> SUFFICES ASSUME TypeOK, InstanceInv, VMInv, GitHubInv, LookupInv, StatusInv, [Next]_vars
             PROVE  StatusInv'
  OBVIOUS
<1>1. ASSUME NEW n \in Names, NEW j \in Jobs, StartQueued(j, n) PROVE StatusInv'
  <2>1. pc[n] = "unused" /\ pc' = [pc EXCEPT ![n] = "acquiring"] /\ UNCHANGED <<vm, job>>
    BY <1>1 DEF StartQueued, Goto, otherVars, ghVars, instVars
  <2> DEFINE rec == [recs[n] EXCEPT !.state = "acquiring"]
  <2>2. Record(n, rec)
    BY <1>1 DEF StartQueued
  <2>3. rec.state = "acquiring"
    BY MutationShows DEF TypeOK
  <2> HIDE DEF rec
  <2>4. /\ recs'[n].state = "" \/ recs'[n] = rec
        /\ \A m \in Names : m # n => recs'[m].state = "" \/ recs'[m] = recs[m]
    BY <2>2, RecordShows DEF TypeOK
  <2>5. pc'[n] = "acquiring"
    BY <2>1 DEF TypeOK
  <2>7. StatusAt(n)'
    BY <2>3, <2>4, <2>5 DEF StatusAt
  <2>6. (\A m \in Names : m # n => pc'[m] = pc[m] /\ vm'[m] = vm[m]) /\ job' = job
    BY <2>1 DEF TypeOK
  <2> QED BY <2>7, <2>6, <2>4, StatusFrame
<1>2. ASSUME NEW n \in Names, NEW a \in Answers, TokenReturns(n, a) \/ VMReturns(n, a)
      PROVE  StatusInv'
  <2>1. pc[n] = "acquiring" /\ UNCHANGED <<pc, recs, job>>
    BY <1>2 DEF TokenReturns, VMReturns, otherVars, ghVars
  <2>2. \A m \in Names : m # n => vm'[m] = vm[m]
    BY <1>2 DEF TokenReturns, VMReturns, TypeOK
  <2> QED BY <2>1, <2>2 DEF StatusInv, StatusAgrees, CompletedMatchesGitHub
<1>3. ASSUME NEW n \in Names,
             \/ AcquireSucceeds(n) \/ AcquireFails(n) \/ RunConfig(n) \/ RunEnds(n)
             \/ ExtractLogs(n) \/ StopAndRelease(n) \/ PushOutcome(n) \/ DeleteInstance(n)
      PROVE  StatusInv'
  <2>1. UNCHANGED <<recs, job>>
    BY <1>3 DEF AcquireSucceeds, AcquireFails, RunConfig, RunEnds, ExtractLogs, StopAndRelease,
       PushOutcome, DeleteInstance, otherVars, ghVars
  <2>2. \A m \in Names : m # n => vm'[m] = vm[m] /\ pc'[m] = pc[m]
    BY <1>3, AcquisitionUndone DEF AcquireSucceeds, AcquireFails, RunConfig, RunEnds, ExtractLogs,
       StopAndRelease, PushOutcome, DeleteInstance, Goto, TypeOK
  <2>3. \/ pc[n] = "acquiring" /\ pc'[n] \in {"acquired", "acquire_failed"}
        \/ /\ pc[n] \in {"config", "run", "extract", "stop", "push"}
           /\ pc'[n] \in {"run", "extract", "stop", "push", "record"}
           /\ vm'[n] \in {vm[n], "released"}
        \/ pc[n] = "delete" /\ pc'[n] = "ended"
    BY <1>3 DEF AcquireSucceeds, AcquireFails, RunConfig, RunEnds, ExtractLogs, StopAndRelease,
       PushOutcome, DeleteInstance, Goto, TypeOK
  <2>4. StatusAt(n)'
    <3>1. StatusAt(n)
      BY StatusByName
    <3> QED BY <2>1, <2>3, <3>1 DEF StatusAt
  <2>5. \A m \in Names : m # n => recs'[m].state = "" \/ recs'[m] = recs[m]
    BY <2>1
  <2> QED BY <2>1, <2>2, <2>4, <2>5, StatusFrame
<1>4. ASSUME NEW n \in Names, RecordAcquireFailure(n) PROVE StatusInv'
  <2>1. pc[n] = "acquire_failed" /\ pc' = [pc EXCEPT ![n] = "failed"] /\ UNCHANGED <<vm, job>>
    BY <1>4 DEF RecordAcquireFailure, Goto, otherVars, ghVars, instVars
  <2> DEFINE rec == [recs[n] EXCEPT !.state = "failed", !.completedAt = now]
  <2>2. Record(n, rec)
    BY <1>4 DEF RecordAcquireFailure
  <2>3. rec.state = "failed"
    BY MutationShows DEF TypeOK
  <2> HIDE DEF rec
  <2>4. /\ recs'[n].state = "" \/ recs'[n] = rec
        /\ \A m \in Names : m # n => recs'[m].state = "" \/ recs'[m] = recs[m]
    BY <2>2, RecordShows DEF TypeOK
  <2>5. pc'[n] = "failed"
    BY <2>1 DEF TypeOK
  <2>7. StatusAt(n)'
    BY <2>3, <2>4, <2>5 DEF StatusAt
  <2>6. (\A m \in Names : m # n => pc'[m] = pc[m] /\ vm'[m] = vm[m]) /\ job' = job
    BY <2>1 DEF TypeOK
  <2> QED BY <2>7, <2>6, <2>4, StatusFrame
<1>5. ASSUME NEW n \in Names, RecordRunning(n) PROVE StatusInv'
  <2>1. pc[n] = "acquired" /\ pc' = [pc EXCEPT ![n] = "config"] /\ UNCHANGED <<vm, job>>
    BY <1>5 DEF RecordRunning, Goto, otherVars, ghVars, instVars
  <2> DEFINE rec == [recs[n] EXCEPT !.state = "running", !.vmid = "set"]
  <2>2. Record(n, rec)
    BY <1>5 DEF RecordRunning
  <2>3. rec.state = "running" /\ rec.vmid = "set"
    BY MutationShows DEF TypeOK
  <2> HIDE DEF rec
  <2>4. /\ recs'[n].state = "" \/ recs'[n] = rec
        /\ \A m \in Names : m # n => recs'[m].state = "" \/ recs'[m] = recs[m]
    BY <2>2, RecordShows DEF TypeOK
  <2>5. pc'[n] = "config" /\ vm'[n] = "acquired"
    BY <2>1 DEF VMInv, TypeOK
  <2>7. StatusAt(n)'
    BY <2>3, <2>4, <2>5 DEF StatusAt
  <2>6. (\A m \in Names : m # n => pc'[m] = pc[m] /\ vm'[m] = vm[m]) /\ job' = job
    BY <2>1 DEF TypeOK
  <2> QED BY <2>7, <2>6, <2>4, StatusFrame
<1>6. ASSUME NEW n \in Names, RecordVMCompleted(n) PROVE StatusInv'
  <2>1. pc[n] = "record" /\ pc' = [pc EXCEPT ![n] = "delete"] /\ UNCHANGED <<vm, job>>
    BY <1>6 DEF RecordVMCompleted, Goto, otherVars, ghVars, instVars
  <2> DEFINE rec == [recs[n] EXCEPT !.state = "vm_completed",
             !.vmCompletedAt = now,
             !.result = IF runErr[n] THEN "Failed" ELSE "Succeeded"]
  <2>2. Record(n, rec)
    BY <1>6 DEF RecordVMCompleted
  <2>3. rec.state = "vm_completed"
    BY MutationShows DEF TypeOK
  <2> HIDE DEF rec
  <2>4. /\ recs'[n].state = "" \/ recs'[n] = rec
        /\ \A m \in Names : m # n => recs'[m].state = "" \/ recs'[m] = recs[m]
    BY <2>2, RecordShows DEF TypeOK
  <2>5. pc'[n] = "delete"
    BY <2>1 DEF TypeOK
  <2>7. StatusAt(n)'
    BY <2>3, <2>4, <2>5 DEF StatusAt
  <2>6. (\A m \in Names : m # n => pc'[m] = pc[m] /\ vm'[m] = vm[m]) /\ job' = job
    BY <2>1 DEF TypeOK
  <2> QED BY <2>7, <2>6, <2>4, StatusFrame
<1>7. ASSUME NEW n \in Names, RecordCancel(n) PROVE StatusInv'
  <2>1. UNCHANGED <<pc, vm, job>>
    BY <1>7 DEF RecordCancel, Goto, otherVars, ghVars, instVars
  <2> DEFINE rec == [recs[n] EXCEPT !.state = "canceled"]
  <2>2. Record(n, rec)
    BY <1>7 DEF RecordCancel
  <2>3. rec.state = "canceled"
    BY MutationShows DEF TypeOK
  <2> HIDE DEF rec
  <2>4. /\ recs'[n].state = "" \/ recs'[n] = rec
        /\ \A m \in Names : m # n => recs'[m].state = "" \/ recs'[m] = recs[m]
    BY <2>2, RecordShows DEF TypeOK
  <2>5. StatusAt(n)'
    BY <2>1, <2>3, <2>4 DEF StatusAt, StatusInv, StatusAgrees, VMInv, TypeOK
  <2>6. (\A m \in Names : m # n => pc'[m] = pc[m] /\ vm'[m] = vm[m]) /\ job' = job
    BY <2>1 DEF TypeOK
  <2> QED BY <2>5, <2>6, <2>4, StatusFrame
<1>8. ASSUME NEW j \in Jobs, RecordCompleted(j) PROVE StatusInv'
  <2>0. PICK n \in Names : n = completing[j].name
    BY <1>8 DEF RecordCompleted, CompletedGoto, LookupInv, TypeOK
  <2>1. n = job[j].runner /\ pc[n] = "ended" /\ job[j].status = "completed"
    BY <1>8, <2>0, NoNameAssumption DEF RecordCompleted, CompletedGoto, LookupInv, GitHubInv
  <2> DEFINE rec == [recs[n] EXCEPT !.state = "completed",
             !.completedAt = now,
             !.result = ConclusionOr(j, recs[n].result)]
  <2>2. Record(n, rec)
    BY <1>8, <2>0 DEF RecordCompleted
  <2>3. /\ rec.state = "completed"
        /\ job[j].conclusion \in {rec.result, ""}
    <3>1. rec.state = "completed" /\ rec.result = ConclusionOr(j, recs[n].result)
      BY <2>1, MutationShows DEF TypeOK
    <3> QED BY <3>1 DEF ConclusionOr
  <2> HIDE DEF rec
  <2>4. /\ recs'[n].state = "" \/ recs'[n] = rec
        /\ \A m \in Names : m # n => recs'[m].state = "" \/ recs'[m] = recs[m]
    BY <2>1, <2>2, RecordShows DEF TypeOK
  <2>5. UNCHANGED <<pc, vm, job>>
    BY <1>8 DEF RecordCompleted, instVars, ghVars
  <2>6. StatusAt(n)'
    <3>1. CASE recs'[n].state = ""
      BY <3>1 DEF StatusAt
    <3>2. CASE recs'[n] = rec
      <4>1. pc'[n] = "ended" /\ job'[j] = job[j]
        BY <2>1, <2>5
      <4> QED BY <2>1, <2>3, <3>2, <4>1 DEF StatusAt
    <3> QED BY <2>4, <3>1, <3>2
  <2>7. (\A m \in Names : m # n => pc'[m] = pc[m] /\ vm'[m] = vm[m]) /\ job' = job
    BY <2>5 DEF TypeOK
  <2> QED BY <2>6, <2>7, <2>4, StatusFrame
<1>9. ASSUME NEW j \in Jobs, RecordCanceled(j) PROVE StatusInv'
  <2>1. PICK n \in Names : n = completing[j].name
    BY <1>9 DEF RecordCanceled, CompletedGoto, LookupInv, TypeOK
  <2> DEFINE rec == [recs[n] EXCEPT !.state = "canceled",
             !.completedAt = now,
             !.result = ConclusionOr(j, recs[n].result)]
  <2>2. Record(n, rec)
    BY <1>9, <2>1 DEF RecordCanceled
  <2>3. rec.state = "canceled"
    BY <2>1, MutationShows DEF TypeOK
  <2> HIDE DEF rec
  <2>4. /\ recs'[n].state = "" \/ recs'[n] = rec
        /\ \A m \in Names : m # n => recs'[m].state = "" \/ recs'[m] = recs[m]
    BY <2>1, <2>2, RecordShows DEF TypeOK
  <2>5. UNCHANGED <<pc, vm, job>>
    BY <1>9 DEF RecordCanceled, instVars, ghVars
  <2>6. StatusAt(n)'
    BY <2>1, <2>3, <2>4, <2>5 DEF StatusAt, StatusInv, StatusAgrees, VMInv, TypeOK
  <2>7. (\A m \in Names : m # n => pc'[m] = pc[m] /\ vm'[m] = vm[m]) /\ job' = job
    BY <2>5 DEF TypeOK
  <2> QED BY <2>6, <2>7, <2>4, StatusFrame
<1>10. ASSUME NEW j \in Jobs, StopCompletedVM(j) PROVE StatusInv'
  <2>1. UNCHANGED <<pc, recs, job>>
    BY <1>10 DEF StopCompletedVM, ghVars
  <2>2. \A m \in Names : vm'[m] \in {vm[m], "released"}
    BY <1>10 DEF StopCompletedVM, TypeOK
  <2> QED BY <2>1, <2>2 DEF StatusInv, StatusAgrees, CompletedMatchesGitHub
<1>11. ASSUME GitHubStep PROVE StatusInv'
  <2>1. UNCHANGED <<pc, vm, recs>>
    BY <1>11 DEF GitHubStep, Unchanged, instVars
  <2>2. \A i \in Jobs : job[i].status = "completed" => job'[i] = job[i]
    BY <1>11, KnownJobsStay
  <2>3. ASSUME NEW m \in Names PROVE StatusAt(m)'
    <3>1. StatusAt(m)
      BY StatusByName
    <3> QED BY <2>1, <2>2, <3>1 DEF StatusAt
  <2> QED BY <2>3, Zenon DEF StatusAt, StatusInv, StatusAgrees, CompletedMatchesGitHub
<1>12. ASSUME UNCHANGED <<pc, vm, recs, job>> PROVE StatusInv'
  BY <1>12 DEF StatusInv, StatusAgrees, CompletedMatchesGitHub
<1> QED
  BY <1>1, <1>2, <1>3, <1>4, <1>5, <1>6, <1>7, <1>8, <1>9, <1>10, <1>11, <1>12
  DEF Next, HandleQueuedEvent, HandlerStep, HandleCompleted, CompletedStep, InProgressLookup,
      RerunWorkflowJob, CompletedLookup, PushCanceled, CancelLookup, CancelRun, Tick, vars,
      instVars, otherVars, ghVars

\* Together, the invariant the guarantees rest on.
THEOREM Invariance == Spec => []HandlerInv
<1>1. Init => HandlerInv
  <2> SUFFICES ASSUME Init PROVE HandlerInv
    OBVIOUS
  <2>1. TypeOK
    BY InitTyping
  <2>2. InstanceInv
    BY DEF Init, InstanceInv
  <2>3. VMInv
    BY DEF Init, VMInv
  <2>4. GitHubInv
    BY DEF Init, GitHubInit, GitHubInv
  <2>5. LookupInv
    BY DEF Init, GitHubInit, LookupInv
  <2>6. \A n \in Names : StatusAt(n)
    BY DEF Init, Absent, StatusAt
  <2> QED BY <2>1, <2>2, <2>3, <2>4, <2>5, <2>6, StatusByName DEF HandlerInv
<1>2. HandlerInv /\ TypeOK' /\ [Next]_vars => HandlerInv'
  BY InstanceStep, VMStep, GitHubStepInv, LookupStep, StatusStep, Zenon DEF HandlerInv
<1> QED BY <1>1, <1>2, Typing, PTL DEF Spec

-----------------------------------------------------------------------------
(* The guarantees.                                                          *)

\* For every number of instances and jobs: a workflow is shown "completed" only once
\* its handler has returned, its VM was given back and its outcome pushed.
THEOREM CompletedIsAfterTeardown == Spec => []CompletedAfterTeardown
<1>1. HandlerInv => CompletedAfterTeardown
  BY DEF HandlerInv, InstanceInv, VMInv, StatusInv, CompletedAfterTeardown
<1> QED BY <1>1, Invariance, PTL

\* The result shown of a completed workflow is GitHub's conclusion of the job its
\* own runner executed.
THEOREM CompletedIsGitHubs == Spec => []CompletedMatchesGitHub
<1>1. HandlerInv => CompletedMatchesGitHub
  BY DEF HandlerInv, StatusInv
<1> QED BY <1>1, Invariance, PTL

\* The completion queue is told of a VM only once it has been stopped.
THEOREM PushesFollowRelease == Spec => []PushedAfterRelease
<1>1. HandlerInv => PushedAfterRelease
  BY DEF HandlerInv, VMInv, PushedAfterRelease
<1> QED BY <1>1, Invariance, PTL

\* A job in progress keeps the VM of its runner.
THEOREM JobsKeepTheirVM == Spec => []JobKeepsItsVM
<1>1. HandlerInv => JobKeepsItsVM
  <2> SUFFICES ASSUME HandlerInv, NEW j \in Jobs, NEW n \in Names,
                      job[j].status = "in_progress", job[j].runner = n, pc[n] = "run"
               PROVE  vm[n] = "acquired"
    BY DEF JobKeepsItsVM
  <2>1. vm[n] = "released" => \E i \in Jobs : job[i].runner = n /\ job[i].status = "completed"
    BY DEF HandlerInv, VMInv
  <2>2. \A i \in Jobs : job[i].runner = n => i = j
    BY NoNameAssumption DEF HandlerInv, GitHubInv
  <2>3. vm[n] \in {"acquired", "released"}
    BY DEF HandlerInv, VMInv
  <2> QED BY <2>1, <2>2, <2>3
<1> QED BY <1>1, Invariance, PTL

\* No handler that is through has left its VM without a call of its Delete, and one
\* whose Delete failed was never used.
THEOREM NoVMIsAbandoned == Spec => []NoVMAbandoned
<1>1. HandlerInv => NoVMAbandoned
  BY DEF HandlerInv, VMInv, NoVMAbandoned, Ended
<1> QED BY <1>1, Invariance, PTL

\* The state shown of a workflow is that of its handler.
THEOREM StatusIsHandlers == Spec => []StatusAgrees
<1>1. HandlerInv => StatusAgrees
  BY DEF HandlerInv, StatusInv
<1> QED BY <1>1, Invariance, PTL

\* GitHub is asked to rerun a job only once the handler of its runner is through.
THEOREM RerunsAreOfOrphans == Spec => []RerunOnlyOrphans
<1>1. HandlerInv => RerunOnlyOrphans
  BY DEF HandlerInv, LookupInv, RerunOnlyOrphans
<1> QED BY <1>1, Invariance, PTL

-----------------------------------------------------------------------------
(* The records of workflows: what each step of the handlers does to a       *)
(* record, the times a record carries once its workflow is through, and the *)
(* moves its state makes.                                                   *)

Acquiring == {"acquiring", "acquire_failed", "acquired"}

\* The seven writes: rec is what the mutation passed to upsert makes of n's record.
Wrote(n, rec) ==
  \/ /\ pc[n] = "unused" /\ pc'[n] = "acquiring"
     /\ rec.state = "acquiring" /\ rec.completedAt = recs[n].completedAt
     /\ rec.vmid = recs[n].vmid
  \/ /\ pc[n] = "acquire_failed" /\ pc'[n] = "failed"
     /\ rec.state = "failed" /\ rec.completedAt = now
     /\ rec.vmid = recs[n].vmid
  \/ /\ pc[n] = "acquired" /\ pc'[n] = "config"
     /\ rec.state = "running" /\ rec.completedAt = recs[n].completedAt
     /\ rec.vmid = "set"
  \/ /\ pc[n] = "record" /\ pc'[n] = "delete"
     /\ rec.state = "vm_completed" /\ rec.vmCompletedAt = now
     /\ rec.vmid = recs[n].vmid
  \/ /\ pc'[n] = pc[n]
     /\ rec.state = "completed" /\ rec.completedAt = now
     /\ rec.vmid = recs[n].vmid
     /\ \E j \in Jobs : /\ completing[j] = [step |-> "gone", name |-> n]
                        /\ completing'[j] = [step |-> "done", name |-> n]
  \/ /\ pc'[n] = pc[n]
     /\ rec.state = "canceled" /\ rec.completedAt = now
     /\ rec.vmid = recs[n].vmid
     /\ \E j \in Jobs : completing[j] = [step |-> "live", name |-> n]
  \/ /\ pc'[n] = pc[n] /\ cancel[n] = "record" /\ RecordCancel(n)
     /\ rec.state = "canceled" /\ rec.completedAt = recs[n].completedAt
     /\ rec.vmid = recs[n].vmid

\* A step that does not write the record of n moves the handler of n neither out of
\* "unused" nor out of the acquisition, nor past its last write.
Unwritten(n) ==
  /\ pc[n] = "unused" <=> pc'[n] = "unused"
  /\ pc[n] \in Acquiring <=> pc'[n] \in Acquiring
  /\ pc'[n] \in {"delete", "ended", "failed"} => pc[n] \in {"delete", "ended", "failed"}

\* A record is left alone, written, or pruned, the written one included.
Fate(n) ==
  \/ /\ Unwritten(n)
     /\ recs'[n] = recs[n] \/ (recs'[n] = Absent /\ Prunable(recs[n], now))
  \/ \E rec : Wrote(n, rec) /\ (recs'[n] = rec \/ (recs'[n] = Absent /\ Prunable(rec, now)))

-----------------------------------------------------------------------------

\* The times and the VM's id in what the handlers pass to upsert.
LEMMA MutationTimes ==
  ASSUME NEW r \in WorkflowSnapshot, NEW s, NEW t, NEW x
  PROVE  /\ [r EXCEPT !.state = s].completedAt = r.completedAt
         /\ [r EXCEPT !.state = s, !.vmid = t].completedAt = r.completedAt
         /\ [r EXCEPT !.state = s, !.completedAt = t].completedAt = t
         /\ [r EXCEPT !.state = s, !.completedAt = t, !.result = x].completedAt = t
         /\ [r EXCEPT !.state = s, !.vmCompletedAt = t, !.result = x].vmCompletedAt = t
         /\ [r EXCEPT !.state = s].vmid = r.vmid
         /\ [r EXCEPT !.state = s, !.completedAt = t].vmid = r.vmid
         /\ [r EXCEPT !.state = s, !.completedAt = t, !.result = x].vmid = r.vmid
         /\ [r EXCEPT !.state = s, !.vmCompletedAt = t, !.result = x].vmid = r.vmid
<1>1. [r EXCEPT !.state = s].completedAt = r.completedAt
  BY DEF WorkflowSnapshot
<1>2. [r EXCEPT !.state = s, !.vmid = t].completedAt = r.completedAt
  BY DEF WorkflowSnapshot
<1>3. [r EXCEPT !.state = s, !.completedAt = t].completedAt = t
  BY DEF WorkflowSnapshot
<1>4. [r EXCEPT !.state = s, !.completedAt = t, !.result = x].completedAt = t
  BY DEF WorkflowSnapshot
<1>5. [r EXCEPT !.state = s, !.vmCompletedAt = t, !.result = x].vmCompletedAt = t
  BY DEF WorkflowSnapshot
<1>6. [r EXCEPT !.state = s].vmid = r.vmid
  BY DEF WorkflowSnapshot
<1>7. [r EXCEPT !.state = s, !.completedAt = t].vmid = r.vmid
  BY DEF WorkflowSnapshot
<1>8. [r EXCEPT !.state = s, !.completedAt = t, !.result = x].vmid = r.vmid
  BY DEF WorkflowSnapshot
<1>9. [r EXCEPT !.state = s, !.vmCompletedAt = t, !.result = x].vmid = r.vmid
  BY DEF WorkflowSnapshot
<1> QED BY <1>1, <1>2, <1>3, <1>4, <1>5, <1>6, <1>7, <1>8, <1>9, Zenon

\* A write to the record of n decides the fate of every record.
LEMMA WriteFates ==
  ASSUME recs \in [Names -> WorkflowSnapshot], NEW n \in Names, NEW rec, Record(n, rec),
         Wrote(n, rec), \A m \in Names : m # n => pc'[m] = pc[m]
  PROVE  \A m \in Names : Fate(m)
<1> DEFINE w == [recs EXCEPT ![n] = rec]
<1>0. w[n] = rec /\ \A m \in Names : m # n => w[m] = recs[m]
  OBVIOUS
<1>a. recs' = [m \in Names |-> IF Prunable(w[m], now) THEN Absent ELSE w[m]]
  BY DEF Record, Upsert, PruneLocked
<1> HIDE DEF w
<1>b. \A m \in Names : recs'[m] = w[m] \/ (recs'[m] = Absent /\ Prunable(w[m], now))
  BY <1>a
<1>1. recs'[n] = rec \/ (recs'[n] = Absent /\ Prunable(rec, now))
  BY <1>0, <1>b
<1>2. ASSUME NEW m \in Names, m # n
      PROVE  recs'[m] = recs[m] \/ (recs'[m] = Absent /\ Prunable(recs[m], now))
  BY <1>0, <1>b, <1>2
<1>3. Fate(n)
  BY <1>1, Zenon DEF Fate
<1>4. ASSUME NEW m \in Names, m # n PROVE Fate(m)
  BY <1>2, <1>4, Zenon DEF Fate, Unwritten
<1> QED BY <1>3, <1>4

\* What a step does to every record.
LEMMA Fates == HandlerInv /\ [Next]_vars => \A n \in Names : Fate(n)
<1> SUFFICES ASSUME HandlerInv, [Next]_vars PROVE \A n \in Names : Fate(n)
  OBVIOUS
<1> USE DEF Goto
<1>0. TypeOK /\ recs \in [Names -> WorkflowSnapshot] /\ pc \in [Names -> HandlerSteps]
  BY DEF HandlerInv, TypeOK
<1>1. ASSUME NEW n \in Names, NEW j \in Jobs, StartQueued(j, n)
      PROVE  \A m \in Names : Fate(m)
  <2> DEFINE rec == [recs[n] EXCEPT !.state = "acquiring"]
  <2>1. Record(n, rec) /\ pc[n] = "unused" /\ pc' = [pc EXCEPT ![n] = "acquiring"]
    BY <1>1 DEF StartQueued
  <2>2. rec.state = "acquiring" /\ rec.completedAt = recs[n].completedAt /\ rec.vmid = recs[n].vmid
    BY <1>0, MutationShows, MutationTimes
  <2> HIDE DEF rec
  <2>3. Wrote(n, rec) /\ \A m \in Names : m # n => pc'[m] = pc[m]
    BY <1>0, <2>1, <2>2 DEF Wrote
  <2> QED BY <1>0, <2>1, <2>3, WriteFates
<1>2. ASSUME NEW n \in Names, RecordAcquireFailure(n) PROVE \A m \in Names : Fate(m)
  <2> DEFINE rec == [recs[n] EXCEPT !.state = "failed", !.completedAt = now]
  <2>1. Record(n, rec) /\ pc[n] = "acquire_failed" /\ pc' = [pc EXCEPT ![n] = "failed"]
    BY <1>2 DEF RecordAcquireFailure
  <2>2. rec.state = "failed" /\ rec.completedAt = now /\ rec.vmid = recs[n].vmid
    BY <1>0, MutationShows, MutationTimes
  <2> HIDE DEF rec
  <2>3. Wrote(n, rec) /\ \A m \in Names : m # n => pc'[m] = pc[m]
    BY <1>0, <2>1, <2>2 DEF Wrote
  <2> QED BY <1>0, <2>1, <2>3, WriteFates
<1>3. ASSUME NEW n \in Names, RecordRunning(n) PROVE \A m \in Names : Fate(m)
  <2> DEFINE rec == [recs[n] EXCEPT !.state = "running", !.vmid = "set"]
  <2>1. Record(n, rec) /\ pc[n] = "acquired" /\ pc' = [pc EXCEPT ![n] = "config"]
    BY <1>3 DEF RecordRunning
  <2>2. rec.state = "running" /\ rec.completedAt = recs[n].completedAt /\ rec.vmid = "set"
    BY <1>0, MutationShows, MutationTimes
  <2> HIDE DEF rec
  <2>3. Wrote(n, rec) /\ \A m \in Names : m # n => pc'[m] = pc[m]
    BY <1>0, <2>1, <2>2 DEF Wrote
  <2> QED BY <1>0, <2>1, <2>3, WriteFates
<1>4. ASSUME NEW n \in Names, RecordVMCompleted(n) PROVE \A m \in Names : Fate(m)
  <2> DEFINE rec == [recs[n] EXCEPT !.state = "vm_completed", !.vmCompletedAt = now,
                                    !.result = IF runErr[n] THEN "Failed" ELSE "Succeeded"]
  <2>1. Record(n, rec) /\ pc[n] = "record" /\ pc' = [pc EXCEPT ![n] = "delete"]
    BY <1>4 DEF RecordVMCompleted
  <2>2. rec.state = "vm_completed" /\ rec.vmCompletedAt = now /\ rec.vmid = recs[n].vmid
    BY <1>0, MutationShows, MutationTimes
  <2> HIDE DEF rec
  <2>3. Wrote(n, rec) /\ \A m \in Names : m # n => pc'[m] = pc[m]
    BY <1>0, <2>1, <2>2 DEF Wrote
  <2> QED BY <1>0, <2>1, <2>3, WriteFates
<1>5. ASSUME NEW j \in Jobs, RecordCompleted(j) \/ RecordCanceled(j)
      PROVE  \A m \in Names : Fate(m)
  <2>1. PICK n \in Names : n = completing[j].name
    BY <1>5 DEF RecordCompleted, RecordCanceled, CompletedGoto, HandlerInv, LookupInv, TypeOK
  <2>2. pc' = pc
    BY <1>5 DEF RecordCompleted, RecordCanceled, instVars
  <2>3. CASE RecordCompleted(j)
    <3> DEFINE rec == [recs[n] EXCEPT !.state = "completed", !.completedAt = now,
                                      !.result = ConclusionOr(j, recs[n].result)]
    <3>1. Record(n, rec)
      BY <2>1, <2>3 DEF RecordCompleted
    <3>2. rec.state = "completed" /\ rec.completedAt = now /\ rec.vmid = recs[n].vmid
      BY <1>0, MutationShows, MutationTimes
    <3> HIDE DEF rec
    <3>3. /\ completing[j] = [step |-> "gone", name |-> n]
          /\ completing'[j] = [step |-> "done", name |-> n]
      BY <1>0, <2>1, <2>3 DEF RecordCompleted, CompletedGoto, TypeOK
    <3>4. Wrote(n, rec)
      BY <2>2, <3>2, <3>3 DEF Wrote
    <3> QED BY <1>0, <2>2, <3>1, <3>4, WriteFates
  <2>4. CASE RecordCanceled(j)
    <3> DEFINE rec == [recs[n] EXCEPT !.state = "canceled", !.completedAt = now,
                                      !.result = ConclusionOr(j, recs[n].result)]
    <3>1. Record(n, rec)
      BY <2>1, <2>4 DEF RecordCanceled
    <3>2. rec.state = "canceled" /\ rec.completedAt = now /\ rec.vmid = recs[n].vmid
      BY <1>0, MutationShows, MutationTimes
    <3> HIDE DEF rec
    <3>3. completing[j] = [step |-> "live", name |-> n]
      BY <1>0, <2>1, <2>4 DEF RecordCanceled, CompletedGoto, TypeOK
    <3>4. Wrote(n, rec)
      BY <2>2, <3>2, <3>3 DEF Wrote
    <3> QED BY <1>0, <2>2, <3>1, <3>4, WriteFates
  <2> QED BY <1>5, <2>3, <2>4
<1>6. ASSUME NEW n \in Names, RecordCancel(n) PROVE \A m \in Names : Fate(m)
  <2> DEFINE rec == [recs[n] EXCEPT !.state = "canceled"]
  <2>1. Record(n, rec) /\ cancel[n] = "record" /\ pc' = pc
    BY <1>6 DEF RecordCancel, instVars
  <2>2. rec.state = "canceled" /\ rec.completedAt = recs[n].completedAt /\ rec.vmid = recs[n].vmid
    BY <1>0, MutationShows, MutationTimes
  <2> HIDE DEF rec
  <2>3. Wrote(n, rec)
    BY <1>6, <2>1, <2>2 DEF Wrote
  <2> QED BY <1>0, <2>1, <2>3, WriteFates
<1>7. ASSUME NEW n \in Names,
             \/ AcquireSucceeds(n) \/ AcquireFails(n) \/ RunConfig(n) \/ RunEnds(n)
             \/ ExtractLogs(n) \/ StopAndRelease(n) \/ PushOutcome(n) \/ DeleteInstance(n)
      PROVE  \A m \in Names : Fate(m)
  <2>1. recs' = recs
    BY <1>7 DEF AcquireSucceeds, AcquireFails, RunConfig, RunEnds, ExtractLogs, StopAndRelease,
       PushOutcome, DeleteInstance
  <2>2. \A m \in Names : m # n => pc'[m] = pc[m]
    BY <1>0, <1>7 DEF AcquireSucceeds, AcquireFails, RunConfig, RunEnds, ExtractLogs,
       StopAndRelease, PushOutcome, DeleteInstance
  <2>3. \/ pc[n] = "acquiring" /\ pc'[n] \in {"acquired", "acquire_failed"}
        \/ /\ pc[n] \in {"config", "run", "extract", "stop", "push"}
           /\ pc'[n] \in {"run", "extract", "stop", "push", "record"}
        \/ pc[n] = "delete" /\ pc'[n] = "ended"
    BY <1>0, <1>7 DEF AcquireSucceeds, AcquireFails, RunConfig, RunEnds, ExtractLogs,
       StopAndRelease, PushOutcome, DeleteInstance
  <2>4. Unwritten(n)
    BY <2>3 DEF Unwritten, Acquiring
  <2>5. \A m \in Names : Unwritten(m)
    BY <2>2, <2>4 DEF Unwritten
  <2>6. \A m \in Names : recs'[m] = recs[m]
    BY <2>1
  <2> QED BY <2>5, <2>6, Zenon DEF Fate
<1>8. ASSUME UNCHANGED <<pc, recs>> PROVE \A m \in Names : Fate(m)
  BY <1>8 DEF Fate, Unwritten
<1> QED
  <2>1. CASE \E n \in Names : HandleQueuedEvent(n)
    <3>1. PICK n \in Names : HandleQueuedEvent(n)
      BY <2>1
    <3>2. CASE \E a \in Answers \ {"pending"} : TokenReturns(n, a) \/ VMReturns(n, a)
      BY <1>8, <3>2 DEF TokenReturns, VMReturns
    <3> QED
      BY <1>1, <1>2, <1>3, <1>4, <1>7, <3>1, <3>2 DEF HandleQueuedEvent, HandlerStep
  <2>2. CASE \E j \in Jobs : InProgressLookup(j) \/ RerunWorkflowJob(j) \/ CompletedLookup(j)
                             \/ StopCompletedVM(j) \/ PushCanceled(j)
    BY <1>8, <2>2 DEF InProgressLookup, RerunWorkflowJob, CompletedLookup, StopCompletedVM,
       PushCanceled, instVars
  <2>3. CASE \E n \in Names : CancelLookup(n) \/ CancelRun(n)
    BY <1>8, <2>3 DEF CancelLookup, CancelRun, instVars
  <2>4. CASE GitHubStep \/ Tick \/ UNCHANGED vars
    BY <1>8, <2>4 DEF GitHubStep, Unchanged, Tick, vars, instVars
  <2> QED
    BY <1>5, <1>6, <2>1, <2>2, <2>3, <2>4 DEF Next, HandleCompleted, CompletedStep

-----------------------------------------------------------------------------
(* The records.                                                             *)

\* A handleCompleted that is through stays so, and Cancel starts with a name that
\* the manager knows.
LEMMA Frames ==
  HandlerInv /\ [Next]_vars =>
    /\ \A j \in Jobs : completing[j].step = "done" => completing'[j] = completing[j]
    /\ \A n \in Names : cancel'[n] # "idle" => cancel[n] # "idle" \/ n \in instances
<1> SUFFICES ASSUME HandlerInv, [Next]_vars
             PROVE  /\ \A j \in Jobs : completing[j].step = "done" =>
                                          completing'[j] = completing[j]
                    /\ \A n \in Names : cancel'[n] # "idle" =>
                                          cancel[n] # "idle" \/ n \in instances
  OBVIOUS
<1>0. TypeOK
  BY DEF HandlerInv
<1>1. ASSUME NEW j \in Jobs, HandleCompleted(j)
      PROVE  /\ \A i \in Jobs : completing[i].step = "done" => completing'[i] = completing[i]
             /\ cancel' = cancel
  BY <1>0, <1>1 DEF HandleCompleted, CompletedStep, CompletedLookup, RecordCompleted,
     RecordCanceled, StopCompletedVM, PushCanceled, CompletedGoto, TypeOK
<1>2. ASSUME NEW n \in Names, CancelLookup(n) \/ CancelRun(n) \/ RecordCancel(n)
      PROVE  /\ completing' = completing
             /\ \A m \in Names : cancel'[m] # "idle" => cancel[m] # "idle" \/ m \in instances
  BY <1>0, <1>2 DEF CancelLookup, CancelRun, RecordCancel, TypeOK
<1>3. ASSUME NEW n \in Names, HandleQueuedEvent(n) PROVE UNCHANGED <<completing, cancel>>
  BY <1>3 DEF HandleQueuedEvent, HandlerStep, StartQueued, TokenReturns, VMReturns,
     AcquireSucceeds, AcquireFails, RecordAcquireFailure, RecordRunning, RunConfig, RunEnds,
     ExtractLogs, StopAndRelease, PushOutcome, RecordVMCompleted, DeleteInstance, otherVars
<1>4. ASSUME UNCHANGED <<completing, cancel>>
      PROVE  /\ \A j \in Jobs : completing[j].step = "done" => completing'[j] = completing[j]
             /\ \A n \in Names : cancel'[n] # "idle" => cancel[n] # "idle" \/ n \in instances
  BY <1>4
<1>5. CASE \E j \in Jobs : InProgressLookup(j) \/ RerunWorkflowJob(j)
  BY <1>4, <1>5 DEF InProgressLookup, RerunWorkflowJob
<1>6. CASE GitHubStep \/ Tick \/ UNCHANGED vars
  BY <1>4, <1>6 DEF GitHubStep, Unchanged, Tick, vars, otherVars
<1> QED BY <1>1, <1>2, <1>3, <1>4, <1>5, <1>6 DEF Next

\* RecordsInv, of one workflow.
RecordAt(n) ==
  /\ recs[n].state \in {"completed", "failed"} => recs[n].completedAt # Never
  /\ recs[n].state = "vm_completed" => recs[n].vmCompletedAt # Never
  /\ pc[n] = "unused" => recs[n].state = "" /\ cancel[n] = "idle"
  /\ pc[n] \in {"unused", "acquiring", "acquire_failed", "acquired"} =>
        recs[n].completedAt = Never
  /\ pc[n] \in {"acquiring", "acquire_failed", "acquired"} =>
        recs[n].state \in {"acquiring", "canceled"}
  /\ recs[n].state = "running" => recs[n].completedAt = Never
  /\ recs[n].state = "completed" =>
        \E j \in Jobs : completing[j] = [step |-> "done", name |-> n]

LEMMA RecordsByName == RecordsInv <=> \A n \in Names : RecordAt(n)
  BY ZenonT(30) DEF RecordsInv, RecordAt

\* A record whose runner has not run, or that nobody has written, is not pruned.
LEMMA NotPruned ==
  ASSUME NEW rec, NEW t, Prunable(rec, t), rec.completedAt = Never
  PROVE  rec.state = "vm_completed"
  BY DEF Prunable, BeforeCutoff

LEMMA RecordsStep == HandlerInv /\ RecordsInv /\ [Next]_vars => RecordsInv'
<1> SUFFICES ASSUME HandlerInv, RecordsInv, [Next]_vars, NEW n \in Names
             PROVE  RecordAt(n)'
  BY ZenonT(30) DEF RecordsInv, RecordAt
<1>1. RecordAt(n) /\ Fate(n) /\ now # Never
  BY RecordsByName, Fates DEF HandlerInv, TypeOK
<1>2. Absent.state = "" /\ Absent.completedAt = Never
  BY DEF Absent
<1>3. pc'[n] = "unused" => cancel'[n] = "idle"
  <2>1. pc'[n] = "unused" => pc[n] = "unused"
    BY <1>1 DEF Fate, Wrote, Unwritten
  <2>2. pc[n] = "unused" => n \notin instances /\ cancel[n] = "idle"
    BY <1>1 DEF HandlerInv, InstanceInv, RecordAt
  <2>3. cancel'[n] # "idle" => cancel[n] # "idle" \/ n \in instances
    BY Frames
  <2> QED BY <2>1, <2>2, <2>3
<1>4. \A j \in Jobs : completing[j] = [step |-> "done", name |-> n]
                      => completing'[j] = [step |-> "done", name |-> n]
  BY Frames
<1>5. CASE Unwritten(n) /\ recs'[n] = recs[n]
  BY <1>1, <1>3, <1>4, <1>5 DEF RecordAt, Unwritten, Acquiring
<1>6. CASE Unwritten(n) /\ recs'[n] = Absent /\ Prunable(recs[n], now)
  <2>1. pc[n] \notin Acquiring
    <3> SUFFICES ASSUME pc[n] \in Acquiring PROVE FALSE
      OBVIOUS
    <3>1. recs[n].completedAt = Never /\ recs[n].state # "vm_completed"
      BY <1>1 DEF RecordAt, Acquiring
    <3> QED BY <1>6, <3>1, NotPruned
  <2> QED BY <1>2, <1>3, <1>6, <2>1 DEF RecordAt, Unwritten, Acquiring
<1>7. ASSUME NEW rec, Wrote(n, rec)
      PROVE  /\ rec.state \in {"completed", "failed"} => rec.completedAt # Never
             /\ rec.state = "vm_completed" => rec.vmCompletedAt # Never
             /\ pc'[n] # "unused"
             /\ pc'[n] \in Acquiring => /\ rec.completedAt = Never
                                        /\ rec.state \in {"acquiring", "canceled"}
             /\ rec.state = "running" => rec.completedAt = Never
             /\ rec.state = "completed" =>
                   \E j \in Jobs : completing'[j] = [step |-> "done", name |-> n]
  <2>1. \A j \in Jobs : completing[j].name = n /\ completing[j].step \in {"gone", "live"}
                        => pc[n] \in Ran
    BY NoNameAssumption DEF HandlerInv, LookupInv, GitHubInv
  <2>2. CASE pc[n] = "unused" /\ pc'[n] = "acquiring"
             /\ rec.state = "acquiring" /\ rec.completedAt = recs[n].completedAt
    BY <1>1, <2>2 DEF RecordAt
  <2>3. CASE pc[n] = "acquire_failed" /\ pc'[n] = "failed"
             /\ rec.state = "failed" /\ rec.completedAt = now
    BY <1>1, <2>3 DEF Acquiring
  <2>4. CASE pc[n] = "acquired" /\ pc'[n] = "config"
             /\ rec.state = "running" /\ rec.completedAt = recs[n].completedAt
    BY <1>1, <2>4 DEF RecordAt, Acquiring
  <2>5. CASE pc[n] = "record" /\ pc'[n] = "delete"
             /\ rec.state = "vm_completed" /\ rec.vmCompletedAt = now
    BY <1>1, <2>5 DEF Acquiring
  <2>6. CASE /\ pc'[n] = pc[n]
             /\ rec.state = "completed" /\ rec.completedAt = now
             /\ \E j \in Jobs : /\ completing[j] = [step |-> "gone", name |-> n]
                                /\ completing'[j] = [step |-> "done", name |-> n]
    <3>1. pc[n] \in Ran
      BY <2>1, <2>6
    <3> QED BY <1>1, <2>6, <3>1 DEF Ran, Acquiring
  <2>7. CASE /\ pc'[n] = pc[n]
             /\ rec.state = "canceled" /\ rec.completedAt = now
             /\ \E j \in Jobs : completing[j] = [step |-> "live", name |-> n]
    <3>1. pc[n] \in Ran
      BY <2>1, <2>7
    <3> QED BY <2>7, <3>1 DEF Ran, Acquiring
  <2>8. CASE /\ pc'[n] = pc[n] /\ cancel[n] = "record"
             /\ rec.state = "canceled" /\ rec.completedAt = recs[n].completedAt
    BY <1>1, <2>8 DEF RecordAt, Acquiring
  <2> QED BY <1>7, <2>2, <2>3, <2>4, <2>5, <2>6, <2>7, <2>8 DEF Wrote
<1>8. ASSUME NEW rec, Wrote(n, rec), recs'[n] = rec PROVE RecordAt(n)'
  BY <1>7, <1>8 DEF RecordAt, Acquiring
<1>9. ASSUME NEW rec, Wrote(n, rec), recs'[n] = Absent, Prunable(rec, now)
      PROVE  RecordAt(n)'
  <2>1. pc'[n] \notin Acquiring
    BY <1>7, <1>9, NotPruned
  <2>2. pc'[n] # "unused"
    BY <1>7, <1>9
  <2> QED BY <1>2, <1>9, <2>1, <2>2 DEF RecordAt, Acquiring
<1> QED BY <1>1, <1>5, <1>6, <1>8, <1>9 DEF Fate

LEMMA RecordsInvariance == Spec => []RecordsInv
<1>1. Init => RecordsInv
  <2> SUFFICES ASSUME Init, NEW n \in Names PROVE RecordAt(n)
    BY RecordsByName
  <2> QED BY DEF Init, Absent, RecordAt
<1> QED BY <1>1, RecordsStep, Invariance, PTL DEF Spec

\* Once its handler has written its last, a workflow's record is on its way out, but
\* for one a Cancel writes to after that.
THEOREM OnlyLateCancelsRemain == Spec => OnlyLateCancelsStay
<1>1. ASSUME HandlerInv, [Next]_vars, NEW n \in Names, (HasRecorded(n) /\ Stays(n))'
      PROVE  RecordCancel(n) \/ (HasRecorded(n) /\ Stays(n))
  <2>1. Fate(n) /\ now # Never /\ Absent.state = ""
    BY <1>1, Fates DEF HandlerInv, TypeOK, Absent
  <2>2. pc'[n] \in {"delete", "ended", "failed"} /\ recs'[n].state # ""
    BY <1>1 DEF HasRecorded, Stays, Ended
  <2>3. /\ ~(IsTerminal(recs'[n].state) /\ recs'[n].completedAt # Never)
        /\ ~(recs'[n].state = "vm_completed" /\ recs'[n].vmCompletedAt # Never)
    BY <1>1 DEF Stays
  <2>4. CASE Unwritten(n) /\ recs'[n] = recs[n]
    <3>1. HasRecorded(n)
      BY <2>2, <2>4 DEF Unwritten, HasRecorded, Ended
    <3>2. Stays(n)
      BY <2>2, <2>3, <2>4 DEF Stays
    <3> QED BY <3>1, <3>2
  <2>5. ASSUME NEW rec, Wrote(n, rec), recs'[n] = rec PROVE RecordCancel(n)
    BY <2>1, <2>2, <2>3, <2>5 DEF Wrote, IsTerminal
  <2> QED BY <2>1, <2>2, <2>4, <2>5 DEF Fate
<1>2. HandlerInv /\ [Next]_vars =>
        \A n \in Names :
          (HasRecorded(n) /\ Stays(n))' => RecordCancel(n) \/ (HasRecorded(n) /\ Stays(n))
  BY <1>1
<1> QED BY <1>2, Invariance, PTL DEF Spec, OnlyLateCancelsStay

-----------------------------------------------------------------------------
(* The moves of a state.                                                    *)

\* The moves of StatusMoves, move by move.
Moved(n, s, t) ==
  \/ s = t
  \/ t = "acquiring" /\ s = ""
  \/ t \in {"running", "failed"} /\ s \in {"acquiring", "canceled"}
  \/ t = "vm_completed" /\ s \in {"", "running", "canceled"}
  \/ t = "completed" /\ s \in {"", "vm_completed", "canceled"}
  \/ t = "canceled" /\ s \in {"", "acquiring", "running", "vm_completed"}
  \/ t = "canceled" /\ s \in {"completed", "failed"} /\ cancel[n] = "record"
  \/ t = "" /\ s \in {"vm_completed", "completed", "failed", "canceled"}

\* A record whose time is now is kept.
LEMMA NewIsKept ==
  ASSUME NEW rec, NEW t \in Nat, Prunable(rec, t)
  PROVE  /\ rec.state \in {"completed", "failed", "canceled"} => rec.completedAt # t
         /\ rec.state = "vm_completed" => rec.vmCompletedAt # t
         /\ rec.state \in {"completed", "failed", "canceled", "vm_completed"}
  BY RetentionAssumption DEF Prunable, BeforeCutoff, IsTerminal

LEMMA StateMoves ==
  ASSUME HandlerInv, RecordsInv, [Next]_vars, NEW n \in Names
  PROVE  Moved(n, recs[n].state, recs'[n].state)
<1> DEFINE s == recs[n].state
<1>1. RecordAt(n) /\ StatusAt(n) /\ Fate(n)
  BY RecordsByName, StatusByName, Fates DEF HandlerInv
<1>2. now \in Nat /\ s \in WorkflowStates \cup {""} /\ Absent.state = ""
  <2>1. now \in Nat
    BY MaxTimeAssumption DEF HandlerInv, TypeOK, Times
  <2>2. recs[n] \in WorkflowSnapshot
    BY DEF HandlerInv, TypeOK
  <2>3. s \in WorkflowStates \cup {""}
    BY <2>2 DEF WorkflowSnapshot
  <2>4. Absent.state = ""
    BY DEF Absent
  <2> QED BY <2>1, <2>3, <2>4
<1>3. CASE recs'[n] = recs[n]
  BY <1>3 DEF Moved
<1>4. CASE recs'[n] = Absent /\ Prunable(recs[n], now)
  BY <1>2, <1>4, NewIsKept DEF Moved
<1>5. ASSUME NEW rec, Wrote(n, rec), recs'[n] = rec \/ (recs'[n] = Absent /\ Prunable(rec, now))
      PROVE  Moved(n, recs[n].state, recs'[n].state)
  <2>0. \/ recs'[n].state = rec.state
        \/ recs'[n].state = "" /\ Prunable(rec, now)
    BY <1>2, <1>5
  <2>1. \A j \in Jobs : completing[j].name = n /\ completing[j].step \in {"gone", "live"}
          => /\ pc[n] \in Ran
             /\ completing[j].step = "gone" => pc[n] = "ended"
             /\ \A i \in Jobs : completing[i].name = n => i = j
    BY NoNameAssumption DEF HandlerInv, LookupInv, GitHubInv
  <2>2. CASE pc[n] = "unused" /\ pc'[n] = "acquiring"
             /\ rec.state = "acquiring" /\ rec.completedAt = recs[n].completedAt
    BY <1>1, <2>0, <2>2 DEF RecordAt, Moved
  <2>3. CASE pc[n] = "acquire_failed" /\ pc'[n] = "failed"
             /\ rec.state = "failed" /\ rec.completedAt = now
    <3>1. ~Prunable(rec, now)
      BY <1>2, <2>3, NewIsKept
    <3> QED BY <1>1, <2>0, <2>3, <3>1 DEF RecordAt, Moved
  <2>4. CASE pc[n] = "acquired" /\ pc'[n] = "config"
             /\ rec.state = "running" /\ rec.completedAt = recs[n].completedAt
    <3>1. ~Prunable(rec, now)
      BY <1>2, <2>4, NewIsKept
    <3> QED BY <1>1, <2>0, <2>4, <3>1 DEF RecordAt, Moved
  <2>5. CASE pc[n] = "record" /\ pc'[n] = "delete"
             /\ rec.state = "vm_completed" /\ rec.vmCompletedAt = now
    <3>1. ~Prunable(rec, now)
      BY <1>2, <2>5, NewIsKept
    <3>2. s \in {"", "running", "canceled"}
      BY <1>1, <1>2, <2>5 DEF StatusAt, WorkflowStates
    <3> QED BY <2>0, <2>5, <3>1, <3>2 DEF Moved
  <2>6. CASE /\ pc'[n] = pc[n]
             /\ rec.state = "completed" /\ rec.completedAt = now
             /\ \E j \in Jobs : /\ completing[j] = [step |-> "gone", name |-> n]
                                /\ completing'[j] = [step |-> "done", name |-> n]
    <3>1. ~Prunable(rec, now)
      BY <1>2, <2>6, NewIsKept
    <3>2. pc[n] = "ended"
      BY <2>1, <2>6
    <3>3. s \in {"", "vm_completed", "canceled", "completed"}
      BY <1>1, <1>2, <3>2 DEF StatusAt, WorkflowStates
    <3> QED BY <2>0, <2>6, <3>1, <3>3 DEF Moved
  <2>7. CASE /\ pc'[n] = pc[n]
             /\ rec.state = "canceled" /\ rec.completedAt = now
             /\ \E j \in Jobs : completing[j] = [step |-> "live", name |-> n]
    <3>1. ~Prunable(rec, now)
      BY <1>2, <2>7, NewIsKept
    <3>2. PICK j \in Jobs : completing[j] = [step |-> "live", name |-> n]
      BY <2>7
    <3>3. s # "failed"
      <4>1. pc[n] # "failed"
        BY <2>1, <3>2 DEF Ran
      <4> QED BY <1>1, <4>1 DEF StatusAt
    <3>4. s # "completed"
      <4> SUFFICES ASSUME s = "completed" PROVE FALSE
        OBVIOUS
      <4>1. PICK i \in Jobs : completing[i] = [step |-> "done", name |-> n]
        BY <1>1 DEF RecordAt
      <4>2. i = j
        BY <2>1, <3>2, <4>1
      <4> QED BY <3>2, <4>1, <4>2
    <3> QED BY <1>2, <2>0, <2>7, <3>1, <3>3, <3>4 DEF Moved, WorkflowStates
  <2>8. CASE /\ pc'[n] = pc[n] /\ cancel[n] = "record"
             /\ rec.state = "canceled" /\ rec.completedAt = recs[n].completedAt
    <3>1. CASE recs'[n].state = "canceled"
      BY <1>2, <2>8, <3>1 DEF Moved, WorkflowStates
    <3>2. CASE recs'[n].state = "" /\ Prunable(rec, now)
      <4>1. rec.completedAt # Never
        BY <2>8, <3>2, NotPruned
      <4>2. s \notin {"acquiring", "running"}
        BY <1>1, <2>8, <4>1 DEF RecordAt, StatusAt
      <4> QED BY <1>2, <3>2, <4>2 DEF Moved, WorkflowStates
    <3> QED BY <2>0, <2>8, <3>1, <3>2
  <2> QED BY <1>5, <2>2, <2>3, <2>4, <2>5, <2>6, <2>7, <2>8 DEF Wrote
<1> QED BY <1>1, <1>3, <1>4, <1>5 DEF Fate

\* The moves the state of a workflow makes, over all the handlers that write it, the
\* pruning, and requests to cancel.
THEOREM StatusesMove == Spec => StatusMoves
<1>1. HandlerInv /\ RecordsInv /\ [Next]_vars => \A n \in Names : StatusMove(n)
  <2> SUFFICES ASSUME HandlerInv, RecordsInv, [Next]_vars, NEW n \in Names
               PROVE  StatusMove(n)
    OBVIOUS
  <2>1. Moved(n, recs[n].state, recs'[n].state)
    BY StateMoves
  <2>2. ASSUME NEW s, NEW t, Moved(n, s, t), s # t, s = recs[n].state, t = recs'[n].state
        PROVE  StatusMove(n)
    BY <2>2 DEF Moved, StatusMove
  <2> QED BY <2>1, <2>2 DEF StatusMove
<1> QED BY <1>1, Invariance, RecordsInvariance, PTL DEF Spec, StatusMoves

-----------------------------------------------------------------------------
(* The promise of RunnerLifecycle: every step of the handlers is one it     *)
(* allows, or changes nothing it speaks of.                                 *)
(* First, what the steps do to the variables the promise speaks of.         *)

Acknowledged == {n \in Names : recs[n].state = "completed"}

\* A write that does not show a workflow completed acknowledges none.
LEMMA WriteForgets ==
  ASSUME recs \in [Names -> WorkflowSnapshot], NEW n \in Names, NEW rec, Record(n, rec),
         rec.state # "completed"
  PROVE  Acknowledged' \subseteq Acknowledged
<1>1. recs'[n].state # "completed"
  BY RecordShows
<1>2. \A m \in Names : m # n => recs'[m].state = "" \/ recs'[m] = recs[m]
  BY RecordShows
<1>3. ASSUME NEW m \in Names, recs'[m].state = "completed"
      PROVE  recs[m].state = "completed"
  BY <1>1, <1>2, <1>3
<1> QED BY <1>3 DEF Acknowledged

\* As long as instances and the handlers that have not begun stay, so do the lives.
LEMMA LivesStay ==
  ASSUME instances' = instances,
         \A n \in Names : pc'[n] = "unused" <=> pc[n] = "unused"
  PROVE  lifeOf' = lifeOf
  BY DEF lifeOf

\* A step of a handler under way leaves the lives alone, but for the last.
LEMMA HandlersKeepLives ==
  ASSUME TypeOK, NEW n \in Names, NEW a, NEW b, Goto(n, a, b), a # "unused", b # "unused",
         instances' = instances
  PROVE  lifeOf' = lifeOf
  BY LivesStay DEF Goto, TypeOK

-----------------------------------------------------------------------------

LEMMA InitRefines == Init => Lifecycle!Init
<1> SUFFICES ASSUME Init PROVE Lifecycle!Init
  OBVIOUS
<1>1. lifeOf = [n \in Names |-> "new"]
  BY DEF Init, lifeOf
<1>2. {n \in Names : recs[n].state = "completed"} = {}
  <2>1. Absent.state = ""
    BY DEF Absent
  <2> QED BY <2>1 DEF Init
<1>3. vm = [n \in Names |-> "none"] /\ pushed = [n \in Names |-> {}]
  BY DEF Init
<1> QED BY <1>1, <1>2, <1>3 DEF Lifecycle!Init

Promised == [Lifecycle!Next]_(Lifecycle!lifecycleVars)

\* A step that only writes records, none of them completed.
LEMMA Forgetting ==
  ASSUME lifeOf' = lifeOf, vm' = vm, pushed' = pushed, Acknowledged' \subseteq Acknowledged
  PROVE  Promised
  BY DEF Promised, Lifecycle!Next, Lifecycle!Forget, Acknowledged

\* A VM given up by an instance that is live.
LEMMA GivingUp ==
  ASSUME NEW n \in Names, n \in instances, vm[n] = "acquired",
         NEW how \in {"released", "deleted", "undeleted"}, vm' = [vm EXCEPT ![n] = how],
         lifeOf' = lifeOf, pushed' = pushed, recs' = recs
  PROVE  Promised
<1>1. lifeOf[n] = "live"
  BY DEF lifeOf
<1> QED BY <1>1 DEF Promised, Lifecycle!Next, Lifecycle!GiveUp, Lifecycle!Forget

\* An outcome pushed for a VM that was given back.
LEMMA Telling ==
  ASSUME NEW n \in Names, vm[n] = "released", NEW o \in Outcomes,
         pushed' = [pushed EXCEPT ![n] = @ \cup {o}],
         lifeOf' = lifeOf, vm' = vm, recs' = recs
  PROVE  Promised
  BY DEF Promised, Lifecycle!Next, Lifecycle!Tell, Lifecycle!Forget

\* The steps of handleQueuedEvent.
LEMMA HandlerRefines ==
  ASSUME HandlerInv, NEW n \in Names, HandleQueuedEvent(n)
  PROVE  Promised
<1> USE DEF HandlerInv
<1>1. ASSUME NEW j \in Jobs, StartQueued(j, n) PROVE Promised
  <2>1. pc[n] = "unused" /\ n \notin instances
    BY <1>1 DEF StartQueued, Goto, InstanceInv
  <2>2. lifeOf[n] = "new"
    BY <2>1 DEF lifeOf
  <2>3. lifeOf' = [lifeOf EXCEPT ![n] = "live"]
    <3>1. lifeOf'[n] = "live"
      BY <1>1 DEF StartQueued, lifeOf
    <3>2. \A m \in Names : m # n => lifeOf'[m] = lifeOf[m]
      BY <1>1 DEF StartQueued, Goto, lifeOf, TypeOK
    <3> QED BY <3>1, <3>2 DEF lifeOf
  <2> DEFINE rec == [recs[n] EXCEPT !.state = "acquiring"]
  <2>4. Record(n, rec) /\ recs[n] \in WorkflowSnapshot
    BY <1>1 DEF StartQueued, TypeOK
  <2>5. rec.state = "acquiring"
    BY <2>4, MutationShows
  <2> HIDE DEF rec
  <2>6. Acknowledged' \subseteq Acknowledged
    BY <2>4, <2>5, WriteForgets DEF TypeOK
  <2>7. vm' = vm /\ pushed' = pushed
    BY <1>1 DEF StartQueued
  <2>8. Lifecycle!Begin(n)
    BY <2>2, <2>3, <2>6, <2>7 DEF Lifecycle!Begin, Lifecycle!Forget, Acknowledged
  <2> QED BY <2>8 DEF Promised, Lifecycle!Next
<1>2. ASSUME NEW a \in Answers, TokenReturns(n, a) PROVE Promised
  <2>1. lifeOf' = lifeOf
    BY <1>2, LivesStay DEF TokenReturns
  <2> QED BY <1>2, <2>1, Forgetting DEF TokenReturns, Acknowledged
<1>3. ASSUME NEW a \in Answers, VMReturns(n, a) PROVE Promised
  <2>1. lifeOf' = lifeOf
    BY <1>3, LivesStay DEF VMReturns
  <2>2. pushed' = pushed /\ recs' = recs
    BY <1>3 DEF VMReturns
  <2>3. CASE a = "ok"
    <3>1. vm[n] = "none" /\ n \in instances
      BY <1>3 DEF VMReturns, VMInv, InstanceInv
    <3>2. vm' = [vm EXCEPT ![n] = "acquired"]
      BY <1>3, <2>3 DEF VMReturns
    <3>3. lifeOf[n] = "live"
      BY <3>1 DEF lifeOf
    <3>4. Lifecycle!Acquire(n)
      BY <2>1, <2>2, <3>1, <3>2, <3>3 DEF Lifecycle!Acquire, Lifecycle!Forget
    <3> QED BY <3>4 DEF Promised, Lifecycle!Next
  <2>4. CASE a # "ok"
    <3>1. vm' = vm
      BY <1>3, <2>4 DEF VMReturns, TypeOK
    <3> QED BY <2>1, <2>2, <3>1, Forgetting DEF Acknowledged
  <2> QED BY <2>3, <2>4
<1>4. ASSUME AcquireSucceeds(n) \/ RunConfig(n) \/ RunEnds(n) \/ ExtractLogs(n) PROVE Promised
  <2>1. lifeOf' = lifeOf
    <3>1. CASE AcquireSucceeds(n)
      BY <3>1, HandlersKeepLives DEF AcquireSucceeds
    <3>2. CASE RunConfig(n)
      BY <3>2, HandlersKeepLives DEF RunConfig
    <3>3. CASE RunEnds(n)
      BY <3>3, HandlersKeepLives DEF RunEnds
    <3>4. CASE ExtractLogs(n)
      BY <3>4, HandlersKeepLives DEF ExtractLogs
    <3> QED BY <1>4, <3>1, <3>2, <3>3, <3>4
  <2>2. UNCHANGED <<vm, pushed, recs>>
    BY <1>4 DEF AcquireSucceeds, RunConfig, RunEnds, ExtractLogs
  <2> QED BY <2>1, <2>2, Forgetting DEF Acknowledged
<1>5. ASSUME AcquireFails(n) PROVE Promised
  <2>1. lifeOf' = lifeOf
    BY <1>5, HandlersKeepLives DEF AcquireFails
  <2>2. n \in instances /\ pushed' = pushed /\ recs' = recs
    BY <1>5 DEF AcquireFails, Goto, InstanceInv
  <2>3. CASE vm[n] = "acquired"
    <3>1. PICK after \in {"deleted", "undeleted"} : vm' = [vm EXCEPT ![n] = after]
      BY <1>5, <2>3, AcquisitionUndone
    <3> QED BY <2>1, <2>2, <2>3, <3>1, GivingUp
  <2>4. CASE vm[n] # "acquired"
    <3>1. vm' = vm
      BY <1>5, <2>4, AcquisitionUndone
    <3> QED BY <2>1, <2>2, <3>1, Forgetting DEF Acknowledged
  <2> QED BY <2>3, <2>4
<1>6. ASSUME StopAndRelease(n) PROVE Promised
  <2>1. lifeOf' = lifeOf
    BY <1>6, HandlersKeepLives DEF StopAndRelease
  <2>2. /\ n \in instances /\ pushed' = pushed /\ recs' = recs
        /\ vm[n] \in {"acquired", "released"} /\ vm' = [vm EXCEPT ![n] = "released"]
    BY <1>6 DEF StopAndRelease, Goto, InstanceInv, VMInv
  <2>3. CASE vm[n] = "acquired"
    BY <2>1, <2>2, <2>3, GivingUp
  <2>4. CASE vm[n] = "released"
    <3>1. vm' = vm
      BY <2>2, <2>4 DEF TypeOK
    <3> QED BY <2>1, <2>2, <3>1, Forgetting DEF Acknowledged
  <2> QED BY <2>2, <2>3, <2>4
<1>7. ASSUME PushOutcome(n) PROVE Promised
  <2>1. lifeOf' = lifeOf
    BY <1>7, HandlersKeepLives DEF PushOutcome
  <2>2. vm[n] = "released" /\ vm' = vm /\ recs' = recs
    BY <1>7 DEF PushOutcome, Goto, VMInv
  <2>3. PICK o \in Outcomes : pushed' = [pushed EXCEPT ![n] = @ \cup {o}]
    BY <1>7 DEF PushOutcome, Outcomes
  <2> QED BY <2>1, <2>2, <2>3, Telling
<1>8. ASSUME RecordAcquireFailure(n) \/ RecordRunning(n) \/ RecordVMCompleted(n) PROVE Promised
  <2>1. lifeOf' = lifeOf
    <3>1. CASE RecordAcquireFailure(n)
      BY <3>1, HandlersKeepLives DEF RecordAcquireFailure
    <3>2. CASE RecordRunning(n)
      BY <3>2, HandlersKeepLives DEF RecordRunning
    <3>3. CASE RecordVMCompleted(n)
      BY <3>3, HandlersKeepLives DEF RecordVMCompleted
    <3> QED BY <1>8, <3>1, <3>2, <3>3
  <2>2. recs[n] \in WorkflowSnapshot
    BY DEF TypeOK
  <2>3. PICK rec : Record(n, rec) /\ rec.state # "completed"
    <3>1. CASE RecordAcquireFailure(n)
      <4>1. [recs[n] EXCEPT !.state = "failed", !.completedAt = now].state = "failed"
        BY <2>2, MutationShows
      <4> QED BY <3>1, <4>1 DEF RecordAcquireFailure
    <3>2. CASE RecordRunning(n)
      <4>1. [recs[n] EXCEPT !.state = "running", !.vmid = "set"].state = "running"
        BY <2>2, MutationShows
      <4> QED BY <3>2, <4>1 DEF RecordRunning
    <3>3. CASE RecordVMCompleted(n)
      <4>1. PICK x : Record(n, [recs[n] EXCEPT !.state = "vm_completed",
                                               !.vmCompletedAt = now, !.result = x])
        BY <3>3 DEF RecordVMCompleted
      <4>2. [recs[n] EXCEPT !.state = "vm_completed", !.vmCompletedAt = now,
                            !.result = x].state = "vm_completed"
        BY <2>2, MutationShows
      <4> QED BY <4>1, <4>2
    <3> QED BY <1>8, <3>1, <3>2, <3>3
  <2>4. Acknowledged' \subseteq Acknowledged
    BY <2>3, WriteForgets DEF TypeOK
  <2>5. UNCHANGED <<vm, pushed>>
    BY <1>8 DEF RecordAcquireFailure, RecordRunning, RecordVMCompleted
  <2> QED BY <2>1, <2>4, <2>5, Forgetting
<1>9. ASSUME DeleteInstance(n) PROVE Promised
  <2>1. /\ n \in instances /\ vm[n] = "released" /\ pushed[n] # {}
        /\ UNCHANGED <<vm, pushed, recs>>
    BY <1>9 DEF DeleteInstance, Goto, InstanceInv, VMInv
  <2>2. lifeOf[n] = "live"
    BY <2>1 DEF lifeOf
  <2>3. lifeOf' = [lifeOf EXCEPT ![n] = "retired"]
    <3>1. lifeOf'[n] = "retired"
      BY <1>9 DEF DeleteInstance, Goto, lifeOf, TypeOK
    <3>2. \A m \in Names : m # n => lifeOf'[m] = lifeOf[m]
      BY <1>9 DEF DeleteInstance, Goto, lifeOf, TypeOK
    <3> QED BY <3>1, <3>2 DEF lifeOf
  <2>4. Lifecycle!Retire(n)
    BY <2>1, <2>2, <2>3 DEF Lifecycle!Retire, Lifecycle!Forget
  <2> QED BY <2>4 DEF Promised, Lifecycle!Next
<1> QED
  BY <1>1, <1>2, <1>3, <1>4, <1>5, <1>6, <1>7, <1>8, <1>9 DEF HandleQueuedEvent, HandlerStep

\* The steps of handleCompleted.
LEMMA CompletedRefines ==
  ASSUME HandlerInv, NEW j \in Jobs, CompletedStep(j)
  PROVE  Promised
<1> USE DEF HandlerInv
<1>1. PICK n \in Names : n = completing[j].name /\ n = job[j].runner
  BY DEF CompletedStep, RecordCompleted, RecordCanceled, StopCompletedVM, PushCanceled,
     CompletedGoto, LookupInv, TypeOK
<1>2. recs[n] \in WorkflowSnapshot
  BY DEF TypeOK
<1>3. ASSUME instances' = instances, pc' = pc PROVE lifeOf' = lifeOf
  BY <1>3, LivesStay
<1>4. CASE RecordCompleted(j)
  <2>1. lifeOf' = lifeOf /\ UNCHANGED <<vm, pushed>>
    BY <1>3, <1>4 DEF RecordCompleted, instVars
  <2>2. lifeOf[n] = "retired"
    BY <1>1, <1>4 DEF RecordCompleted, CompletedGoto, LookupInv, InstanceInv, lifeOf
  <2>3. PICK rec : Record(n, rec)
    BY <1>1, <1>4 DEF RecordCompleted
  <2>4. \A m \in Names : m # n => recs'[m].state = "" \/ recs'[m] = recs[m]
    BY <2>3, RecordShows DEF TypeOK
  <2>5. Acknowledged' \subseteq Acknowledged \cup {n}
    <3>1. ASSUME NEW m \in Names, recs'[m].state = "completed", m # n
          PROVE  recs[m].state = "completed"
      BY <2>4, <3>1
    <3> QED BY <3>1 DEF Acknowledged
  <2>6. Lifecycle!Acknowledge(n)
    BY <2>1, <2>2, <2>5 DEF Lifecycle!Acknowledge, Acknowledged
  <2> QED BY <2>6 DEF Promised, Lifecycle!Next
<1>5. CASE RecordCanceled(j)
  <2>1. lifeOf' = lifeOf /\ UNCHANGED <<vm, pushed>>
    BY <1>3, <1>5 DEF RecordCanceled, instVars
  <2> DEFINE rec == [recs[n] EXCEPT !.state = "canceled", !.completedAt = now,
                                    !.result = ConclusionOr(j, recs[n].result)]
  <2>2. Record(n, rec)
    BY <1>1, <1>5 DEF RecordCanceled
  <2>3. rec.state = "canceled"
    BY <1>2, MutationShows
  <2> HIDE DEF rec
  <2>4. Acknowledged' \subseteq Acknowledged
    BY <2>2, <2>3, WriteForgets DEF TypeOK
  <2> QED BY <2>1, <2>4, Forgetting
<1>6. CASE StopCompletedVM(j)
  <2>1. lifeOf' = lifeOf /\ UNCHANGED <<pushed, recs>> /\ vm' = [vm EXCEPT ![n] = "released"]
    BY <1>1, <1>3, <1>6 DEF StopCompletedVM
  <2>2. pc[n] \in Ran
    BY <1>1, NoNameAssumption DEF GitHubInv
  <2>3. /\ vm[n] \in {"acquired", "released"}
        /\ vm[n] = "acquired" => n \in instances
    BY <2>2 DEF VMInv, InstanceInv, Ran
  <2>4. CASE vm[n] = "acquired"
    BY <2>1, <2>3, <2>4, GivingUp
  <2>5. CASE vm[n] = "released"
    <3>1. vm' = vm
      BY <2>1, <2>5 DEF TypeOK
    <3> QED BY <2>1, <3>1, Forgetting DEF Acknowledged
  <2> QED BY <2>3, <2>4, <2>5
<1>7. CASE PushCanceled(j)
  <2>1. /\ lifeOf' = lifeOf /\ UNCHANGED <<vm, recs>>
        /\ pushed' = [pushed EXCEPT ![n] = @ \cup {"canceled"}]
    BY <1>1, <1>3, <1>7 DEF PushCanceled, instVars
  <2>2. vm[n] = "released"
    BY <1>1, <1>7 DEF PushCanceled, CompletedGoto, LookupInv
  <2> QED BY <2>1, <2>2, Telling DEF Outcomes
<1> QED BY <1>4, <1>5, <1>6, <1>7 DEF CompletedStep

LEMMA StepRefines == HandlerInv /\ [Next]_vars => Promised
<1> SUFFICES ASSUME HandlerInv, [Next]_vars PROVE Promised
  OBVIOUS
<1>1. ASSUME NEW n \in Names, RecordCancel(n) PROVE Promised
  <2>1. recs[n] \in WorkflowSnapshot
    BY DEF HandlerInv, TypeOK
  <2> DEFINE rec == [recs[n] EXCEPT !.state = "canceled"]
  <2>2. Record(n, rec)
    BY <1>1 DEF RecordCancel
  <2>3. rec.state = "canceled"
    BY <2>1, MutationShows
  <2> HIDE DEF rec
  <2>4. Acknowledged' \subseteq Acknowledged
    BY <2>2, <2>3, WriteForgets DEF HandlerInv, TypeOK
  <2>5. lifeOf' = lifeOf /\ UNCHANGED <<vm, pushed>>
    BY <1>1, LivesStay DEF RecordCancel, instVars
  <2> QED BY <2>4, <2>5, Forgetting
<1>2. ASSUME UNCHANGED <<instances, pc, vm, pushed, recs>> PROVE Promised
  <2>1. lifeOf' = lifeOf
    BY <1>2, LivesStay
  <2> QED BY <1>2, <2>1, Forgetting DEF Acknowledged
<1>3. ASSUME NEW j \in Jobs, InProgressLookup(j) \/ RerunWorkflowJob(j) \/ CompletedLookup(j)
      PROVE  Promised
  BY <1>2, <1>3 DEF InProgressLookup, RerunWorkflowJob, CompletedLookup, instVars
<1>4. ASSUME NEW n \in Names, CancelLookup(n) \/ CancelRun(n) PROVE Promised
  BY <1>2, <1>4 DEF CancelLookup, CancelRun, instVars
<1>5. ASSUME GitHubStep \/ Tick \/ UNCHANGED vars PROVE Promised
  BY <1>2, <1>5 DEF GitHubStep, Unchanged, Tick, vars, instVars
<1> QED
  BY <1>1, <1>3, <1>4, <1>5, HandlerRefines, CompletedRefines DEF Next, HandleCompleted

\* The handlers implement RunnerLifecycle.
THEOREM HandlersImplementLifecycle == Spec => ImplementsLifecycle
<1>1. HandlerInv /\ [Next]_vars => [Lifecycle!Next]_(Lifecycle!lifecycleVars)
  BY StepRefines DEF Promised
<1> QED
  BY <1>1, InitRefines, Invariance, PTL DEF Spec, ImplementsLifecycle, Lifecycle!Spec

=============================================================================
