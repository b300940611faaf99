------------------------ MODULE WebUIRequests_proofs ------------------------
(***************************************************************************)
(* What the web UI answers, for every number of workflows and jobs: the    *)
(* requests read a state for which the handlers' invariants hold, and what *)
(* they remember of it is still worth something when they read again.      *)
(***************************************************************************)
EXTENDS WebUIRequests, WorkflowHandler_proofs

Through == {"vm_completed", "completed", "failed"}

\* No job of the runner of n has been concluded.
Unconcluded(n) == \A j \in Jobs : job[j].runner = n => job[j].status # "completed"

\* A VM that a handleCompleted stops, or has stopped under its handler, is not that
\* of a workflow shown running.
StoppedIsNotRunning(n) ==
    /\ \A j \in Jobs : completing[j].step = "stop" /\ completing[j].name = n
                          => recs[n].state # "running"
    /\ vm[n] = "released" /\ pc[n] \in {"run", "extract", "stop"} => recs[n].state # "running"

\* The record of a runner that is up is there, and has its VM's id; before the
\* acquisition is through it has none.
RunningIsRecorded(n) ==
    /\ pc[n] \in {"unused"} \cup Acquiring => recs[n].vmid = ""
    /\ pc[n] \in {"config", "run"} /\ Unconcluded(n) =>
          /\ recs[n].state \in {"running", "canceled"}
          /\ recs[n].completedAt = Never /\ recs[n].vmid = "set"

VMsInv == \A n \in Names : StoppedIsNotRunning(n) /\ RunningIsRecorded(n)

\* Between the two readings of Pools.
ListedInv ==
    req = "listed" =>
        \A n \in Names :
            /\ vms[n] \in VMInfo
            /\ vm[n] = "acquired" => n \in leased
            /\ n \in worked => Working(n) /\ vms[n] = "running"
            /\ vms[n] = "running" /\ n \notin leased =>
                  vm[n] \in {"none", "deleted", "undeleted"} \/ runErr[n] \/ recs[n].state # "running"

\* What the page shows of a workflow that is through stays true of its handler.
PageInv ==
    /\ \A n \in Names :
          /\ page[n].state # "" => pc[n] # "unused"
          /\ page[n].state \in Through => pc[n] \in {"delete"} \cup Ended
    /\ req \in {"opened", "log"} /\ log.state \in Through =>
          /\ log.name \in Names /\ pc[log.name] \in {"delete"} \cup Ended
          /\ req = "opened" => log.length = Written(log.name, log.artifact)
    /\ req = "refused" => log.name \in Names

RequestInv == UITypeOK /\ ListedInv /\ PageInv /\ PoolsShowLeases /\ ThroughMeansWritten

-----------------------------------------------------------------------------
(* What a step of the handlers does.                                        *)

\* The handler of n, and its VM.
HandlerMove(n) ==
    /\ pc[n] # "unused" => pc'[n] # "unused"
    /\ pc'[n] \in {"config", "run"} => pc[n] \in {"acquired", "config", "run"}
    /\ pc'[n] \in {"run", "extract", "stop"} => pc[n] \in {"config", "run", "extract", "stop"}
    /\ pc[n] \in Ended => pc'[n] = pc[n]
    /\ pc[n] = "delete" => pc'[n] \in {"delete", "ended"}
    /\ runErr[n] => runErr'[n]
    /\ \/ vm'[n] = vm[n]
       \/ vm[n] = "none" /\ vm'[n] = "acquired"
       \/ pc[n] = "acquiring" /\ vm'[n] \in {"deleted", "undeleted"}
       \/ pc[n] = "stop" /\ pc'[n] = "push"
       \/ /\ pc'[n] = pc[n] /\ vm'[n] = "released"
          /\ \E j \in Jobs : completing[j].step = "stop" /\ completing[j].name = n

LEMMA HandlerMoves == HandlerInv /\ [Next]_vars => \A n \in Names : HandlerMove(n)
<1> SUFFICES ASSUME HandlerInv, [Next]_vars PROVE \A n \in Names : HandlerMove(n)
  OBVIOUS
<1>0. /\ pc \in [Names -> HandlerSteps] /\ runErr \in [Names -> BOOLEAN]
      /\ vm \in [Names -> {"none", "acquired", "released", "deleted", "undeleted"}]
  BY DEF HandlerInv, TypeOK
<1>1. ASSUME UNCHANGED <<pc, vm, runErr>>
      PROVE  \A n \in Names : HandlerMove(n)
  BY <1>1 DEF HandlerMove, Ended
<1>2. ASSUME NEW n \in Names, HandleQueuedEvent(n)
      PROVE  \A m \in Names : HandlerMove(m)
  <2>1. \A m \in Names : m # n => pc'[m] = pc[m] /\ vm'[m] = vm[m] /\ runErr'[m] = runErr[m]
    BY <1>0, <1>2, AcquisitionUndone DEF HandlerInv, HandleQueuedEvent, HandlerStep, StartQueued,
       TokenReturns, VMReturns, AcquireSucceeds, AcquireFails, RecordAcquireFailure, RecordRunning, RunConfig, RunEnds,
       ExtractLogs, StopAndRelease, PushOutcome, RecordVMCompleted, DeleteInstance, Goto
  <2>2. \A m \in Names : m # n => HandlerMove(m)
    BY <2>1 DEF HandlerMove, Ended
  <2>3. CASE \E j \in Jobs : StartQueued(j, n)
    <3>1. HandlerMove(n)
      BY <1>0, <2>3 DEF StartQueued, Goto, HandlerMove, Ended
    <3> QED
      BY <2>2, <3>1
  <2>4. CASE \E a \in Answers \ {"pending"} : TokenReturns(n, a) \/ VMReturns(n, a)
    <3>1. UNCHANGED <<pc, runErr>>
      BY <2>4 DEF TokenReturns, VMReturns
    <3>2. vm'[n] = vm[n] \/ (vm[n] = "none" /\ vm'[n] = "acquired")
      BY <1>0, <2>4 DEF TokenReturns, VMReturns, HandlerInv, VMInv
    <3>3. HandlerMove(n)
      BY <3>1, <3>2 DEF HandlerMove, Ended
    <3> QED
      BY <2>2, <3>3
  <2>5. CASE AcquireSucceeds(n) \/ RecordAcquireFailure(n) \/ RecordRunning(n) \/ PushOutcome(n)
               \/ RecordVMCompleted(n) \/ DeleteInstance(n)
    <3>1. /\ UNCHANGED <<vm, runErr>>
          /\ <<pc[n], pc'[n]>> \in {<<"acquiring", "acquired">>, <<"acquire_failed", "failed">>,
                                    <<"acquired", "config">>, <<"push", "record">>,
                                    <<"record", "delete">>, <<"delete", "ended">>}
      BY <1>0, <2>5 DEF AcquireSucceeds, RecordAcquireFailure, RecordRunning, PushOutcome,
                        RecordVMCompleted, DeleteInstance, Goto
    <3>2. HandlerMove(n)
      BY <3>1 DEF HandlerMove, Ended
    <3> QED
      BY <2>2, <3>2
  <2>6. CASE AcquireFails(n)
    <3>1. vm'[n] = vm[n] \/ vm'[n] \in {"deleted", "undeleted"}
      BY <2>6, AcquisitionUndone DEF HandlerInv
    <3>2. pc[n] = "acquiring" /\ pc'[n] = "acquire_failed" /\ runErr' = runErr
      BY <1>0, <2>6 DEF AcquireFails, Goto
    <3>3. HandlerMove(n)
      BY <3>1, <3>2 DEF HandlerMove, Ended
    <3> QED
      BY <2>2, <3>3
  <2>7. CASE RunConfig(n) \/ RunEnds(n) \/ ExtractLogs(n)
    <3>1. UNCHANGED vm /\ (runErr[n] => runErr'[n])
      BY <1>0, <2>7 DEF RunConfig, RunEnds, ExtractLogs
    <3>2. <<pc[n], pc'[n]>> \in {<<"config", "run">>, <<"config", "extract">>, <<"run", "extract">>,
                                 <<"extract", "stop">>}
      BY <1>0, <2>7 DEF RunConfig, RunEnds, ExtractLogs, Goto
    <3>3. HandlerMove(n)
      BY <3>1, <3>2 DEF HandlerMove, Ended
    <3> QED
      BY <2>2, <3>3
  <2>8. CASE StopAndRelease(n)
    <3>1. HandlerMove(n)
      BY <1>0, <2>8 DEF StopAndRelease, Goto, HandlerMove, Ended
    <3> QED
      BY <2>2, <3>1
  <2> QED
    BY <1>2, <2>2, <2>3, <2>4, <2>5, <2>6, <2>7, <2>8 DEF HandleQueuedEvent, HandlerStep
<1>3. ASSUME NEW j \in Jobs, StopCompletedVM(j)
      PROVE  \A n \in Names : HandlerMove(n)
  <2>1. UNCHANGED <<pc, runErr>> /\ completing[j].step = "stop"
    BY <1>3 DEF StopCompletedVM, CompletedGoto
  <2>2. \A n \in Names : vm'[n] = IF n = completing[j].name THEN "released" ELSE vm[n]
    BY <1>0, <1>3 DEF StopCompletedVM
  <2> QED
    BY <2>1, <2>2 DEF HandlerMove, Ended
<1>4. ASSUME NEW j \in Jobs, \/ InProgressLookup(j) \/ RerunWorkflowJob(j) \/ CompletedLookup(j)
                             \/ RecordCompleted(j) \/ RecordCanceled(j) \/ PushCanceled(j)
      PROVE  UNCHANGED <<pc, vm, runErr>>
  BY <1>4 DEF InProgressLookup, RerunWorkflowJob, CompletedLookup, RecordCompleted, RecordCanceled,
              PushCanceled, instVars
<1>5. ASSUME NEW n \in Names, CancelLookup(n) \/ CancelRun(n) \/ RecordCancel(n)
      PROVE  UNCHANGED <<pc, vm, runErr>>
  BY <1>5 DEF CancelLookup, CancelRun, RecordCancel, instVars
<1>6. GitHubStep \/ Tick \/ UNCHANGED vars => UNCHANGED <<pc, vm, runErr>>
  BY DEF GitHubStep, Unchanged, Tick, vars, instVars
<1> QED
  BY <1>1, <1>2, <1>3, <1>4, <1>5, <1>6 DEF Next, HandleCompleted, CompletedStep

\* A job that is concluded stays so, on its runner.
LEMMA ConcludedStays ==
  ASSUME HandlerInv, [Next]_vars, NEW n \in Names, Unconcluded(n)'
  PROVE  Unconcluded(n)
<1>1. CASE GitHubStep
  BY <1>1, KnownJobsStay DEF Unconcluded, HandlerInv
<1>2. CASE UNCHANGED job
  BY <1>2 DEF Unconcluded
<1>3. [Next]_vars => GitHubStep \/ UNCHANGED job
  BY DEF Next, HandleQueuedEvent, HandlerStep, StartQueued, TokenReturns, VMReturns,
       AcquireSucceeds, AcquireFails, RecordAcquireFailure, RecordRunning, RunConfig, RunEnds,
       ExtractLogs, StopAndRelease, PushOutcome, RecordVMCompleted, DeleteInstance,
       InProgressLookup, RerunWorkflowJob, HandleCompleted, CompletedLookup, CompletedStep,
       RecordCompleted, RecordCanceled, StopCompletedVM, PushCanceled, CancelLookup, CancelRun,
       RecordCancel, Tick, vars, otherVars, ghVars
<1> QED
  BY <1>1, <1>2, <1>3

\* A workflow becomes running by the handler that has just acquired its VM.
LEMMA BecomesRunning ==
  ASSUME HandlerInv, [Next]_vars, NEW n \in Names, recs'[n].state = "running", recs[n].state # "running"
  PROVE  pc[n] = "acquired" /\ pc'[n] = "config"
<1>1. Absent.state = ""
  BY DEF Absent
<1>2. PICK rec : Wrote(n, rec) /\ rec.state = "running"
  BY <1>1, Fates DEF Fate
<1> QED
  BY <1>2 DEF Wrote

\* The runner a handleCompleted is at work on has run, and its job is concluded.
LEMMA CompletingRan ==
  ASSUME HandlerInv, NEW j \in Jobs, completing[j].step \in {"gone", "live", "stop", "push"}
  PROVE  /\ completing[j].name \in Names /\ pc[completing[j].name] \in Ran
         /\ job[j].runner = completing[j].name /\ job[j].status = "completed"
  BY NoNameAssumption DEF HandlerInv, TypeOK, LookupInv, GitHubInv

\* A handleCompleted comes to stopping a VM from showing its workflow canceled.
LEMMA StopsFrom ==
  ASSUME HandlerInv, [Next]_vars, NEW j \in Jobs, completing'[j].step = "stop"
  PROVE  \/ completing'[j] = completing[j]
         \/ /\ completing[j].step = "live" /\ completing'[j].name = completing[j].name
            /\ recs'[completing[j].name].state \in {"", "canceled"}
<1>0. /\ completing \in [Jobs -> [step : {"none", "gone", "live", "stop", "push", "done"},
                                  name : Names \cup {NoName}]]
      /\ recs \in [Names -> WorkflowSnapshot]
  BY DEF HandlerInv, TypeOK
<1>1. CASE UNCHANGED completing
  BY <1>1
<1>2. ASSUME NEW i \in Jobs, CompletedLookup(i) \/ RecordCompleted(i) \/ StopCompletedVM(i)
                             \/ PushCanceled(i)
      PROVE  completing'[j] = completing[j]
  BY <1>0, <1>2 DEF CompletedLookup, RecordCompleted, StopCompletedVM, PushCanceled, CompletedGoto
<1>3. ASSUME NEW i \in Jobs, i # j, RecordCanceled(i)
      PROVE  completing'[j] = completing[j]
  BY <1>0, <1>3 DEF RecordCanceled, CompletedGoto
<1>4. CASE RecordCanceled(j)
  <2> DEFINE n == completing[j].name
             rec == [recs[n] EXCEPT !.state = "canceled", !.completedAt = now,
                                    !.result = ConclusionOr(j, recs[n].result)]
  <2>1. completing[j].step = "live" /\ completing'[j].name = n /\ Record(n, rec)
    BY <1>0, <1>4 DEF RecordCanceled, CompletedGoto
  <2>2. n \in Names
    BY <2>1, CompletingRan
  <2>3. rec.state = "canceled"
    BY <1>0, <2>2, MutationShows
  <2> HIDE DEF rec
  <2>4. recs'[n].state = "" \/ recs'[n] = rec
    BY <1>0, <2>1, <2>2, RecordShows
  <2> QED
    BY <2>1, <2>3, <2>4
<1>5. [Next]_vars => (\E i \in Jobs : HandleCompleted(i)) \/ UNCHANGED completing
  BY DEF Next, HandleQueuedEvent, HandlerStep, StartQueued, TokenReturns, VMReturns,
       AcquireSucceeds, AcquireFails, RecordAcquireFailure, RecordRunning, RunConfig, RunEnds,
       ExtractLogs, StopAndRelease, PushOutcome, RecordVMCompleted, DeleteInstance,
       InProgressLookup, RerunWorkflowJob, CancelLookup, CancelRun, RecordCancel, GitHubStep,
       Unchanged, Tick, vars, otherVars
<1> QED
  BY <1>1, <1>2, <1>3, <1>4, <1>5 DEF HandleCompleted, CompletedStep

\* A step leaves no VM of a workflow shown running stopped.
LEMMA StoppedStep ==
  ASSUME HandlerInv, VMsInv, [Next]_vars, NEW n \in Names
  PROVE  StoppedIsNotRunning(n)'
<1>0. StoppedIsNotRunning(n)
  BY DEF VMsInv
<1>1. ASSUME NEW j \in Jobs, completing'[j].step = "stop", completing'[j].name = n
      PROVE  recs'[n].state # "running"
  <2>1. CASE completing'[j] = completing[j]
    <3>1. recs[n].state # "running" /\ pc[n] \in Ran
      BY <1>0, <1>1, <2>1, CompletingRan DEF StoppedIsNotRunning
    <3> QED
      BY <3>1, BecomesRunning DEF Ran
  <2>2. CASE recs'[completing'[j].name].state \in {"", "canceled"}
    BY <1>1, <2>2
  <2> QED
    BY <1>1, <2>1, <2>2, StopsFrom
<1>2. ASSUME vm'[n] = "released", pc'[n] \in {"run", "extract", "stop"}
      PROVE  recs'[n].state # "running"
  <2>1. HandlerMove(n) /\ pc[n] \in {"config", "run", "extract", "stop"}
    BY <1>2, HandlerMoves DEF HandlerMove
  <2>2. \/ vm'[n] = vm[n]
        \/ \E j \in Jobs : completing[j].step = "stop" /\ completing[j].name = n
    BY <1>2, <2>1 DEF HandlerMove
  <2>3. recs[n].state # "running"
    BY <1>0, <1>2, <2>1, <2>2 DEF StoppedIsNotRunning, HandlerInv, VMInv
  <2> QED
    BY <2>1, <2>3, BecomesRunning
<1> QED
  BY <1>1, <1>2 DEF StoppedIsNotRunning

\* A step leaves the record of a runner that is up.
LEMMA RecordedStep ==
  ASSUME HandlerInv, RecordsInv, VMsInv, [Next]_vars, NEW n \in Names
  PROVE  RunningIsRecorded(n)'
<1>0. /\ RunningIsRecorded(n) /\ RecordAt(n) /\ Fate(n) /\ HandlerMove(n)
      /\ Absent.vmid = "" /\ Absent.completedAt = Never
  BY RecordsByName, Fates, HandlerMoves DEF VMsInv, Absent
<1>1. ASSUME pc'[n] \in {"unused"} \cup Acquiring
      PROVE  recs'[n].vmid = ""
  <2>1. CASE Unwritten(n) /\ (recs'[n] = recs[n] \/ recs'[n] = Absent)
    BY <1>0, <1>1, <2>1 DEF Unwritten, RunningIsRecorded
  <2>2. ASSUME NEW rec, Wrote(n, rec), recs'[n] = rec \/ recs'[n] = Absent
        PROVE  recs'[n].vmid = ""
    <3>1. pc[n] \in {"unused"} \cup Acquiring => recs[n].vmid = ""
      BY <1>0 DEF RunningIsRecorded
    <3>2. rec.vmid = "" \/ (rec.vmid = recs[n].vmid /\ pc[n] \in {"unused"} \cup Acquiring)
      BY <1>1, <2>2 DEF Wrote, Acquiring
    <3> QED
      BY <1>0, <2>2, <3>1, <3>2
  <2> QED
    BY <1>0, <2>1, <2>2 DEF Fate
<1>2. ASSUME pc'[n] \in {"config", "run"}, Unconcluded(n)'
      PROVE  /\ recs'[n].state \in {"running", "canceled"}
             /\ recs'[n].completedAt = Never /\ recs'[n].vmid = "set"
  <2>0. Unconcluded(n) /\ pc[n] \in {"acquired", "config", "run"}
    BY <1>0, <1>2, ConcludedStays DEF HandlerMove
  <2>1. ASSUME pc[n] \in {"config", "run"}
        PROVE  /\ recs[n].state \in {"running", "canceled"}
               /\ recs[n].completedAt = Never /\ recs[n].vmid = "set"
    BY <1>0, <2>0, <2>1 DEF RunningIsRecorded
  <2>2. ASSUME Unwritten(n), recs'[n] = recs[n] \/ (recs'[n] = Absent /\ Prunable(recs[n], now))
        PROVE  /\ recs'[n].state \in {"running", "canceled"}
               /\ recs'[n].completedAt = Never /\ recs'[n].vmid = "set"
    <3>1. pc[n] \in {"config", "run"}
      BY <1>2, <2>0, <2>2 DEF Unwritten, Acquiring
    <3>2. ~Prunable(recs[n], now)
      BY <2>1, <3>1, NotPruned
    <3> QED
      BY <2>1, <2>2, <3>1, <3>2
  <2>3. ASSUME NEW rec, Wrote(n, rec)
        PROVE  /\ rec.state \in {"running", "canceled"}
               /\ rec.completedAt = Never /\ rec.vmid = "set"
    <3>1. ~\E j \in Jobs : /\ completing[j].step \in {"gone", "live"}
                           /\ completing[j].name = n
      BY <2>0, CompletingRan DEF Unconcluded
    <3>2. \/ /\ pc[n] = "acquired"
             /\ rec.state = "running" /\ rec.completedAt = recs[n].completedAt /\ rec.vmid = "set"
          \/ /\ pc'[n] = pc[n]
             /\ rec.state = "canceled" /\ rec.completedAt = recs[n].completedAt
             /\ rec.vmid = recs[n].vmid
      BY <1>2, <2>0, <2>3, <3>1 DEF Wrote
    <3>3. pc[n] = "acquired" => recs[n].completedAt = Never
      BY <1>0 DEF RecordAt
    <3> QED
      BY <1>2, <2>1, <3>2, <3>3
  <2>4. ASSUME NEW rec, Wrote(n, rec), recs'[n] = rec \/ (recs'[n] = Absent /\ Prunable(rec, now))
        PROVE  recs'[n] = rec
    <3>1. ~Prunable(rec, now)
      BY <2>3, <2>4, NotPruned
    <3> QED
      BY <2>4, <3>1
  <2> QED
    BY <1>0, <2>2, <2>3, <2>4 DEF Fate
<1> QED
  BY <1>1, <1>2 DEF RunningIsRecorded

\* The two hold at every moment, so in particular at those at which a request reads.
LEMMA VMsInvariance == Spec => []VMsInv
<1>1. Init => VMsInv
  <2> SUFFICES ASSUME Init, NEW n \in Names PROVE StoppedIsNotRunning(n) /\ RunningIsRecorded(n)
    BY DEF VMsInv
  <2>1. StoppedIsNotRunning(n)
    BY DEF Init, StoppedIsNotRunning
  <2>2. RunningIsRecorded(n)
    BY DEF Init, RunningIsRecorded, Absent
  <2> QED
    BY <2>1, <2>2
<1>2. HandlerInv /\ RecordsInv /\ VMsInv /\ [Next]_vars => VMsInv'
  BY StoppedStep, RecordedStep DEF VMsInv
<1> QED
  BY <1>1, <1>2, Invariance, RecordsInvariance, PTL DEF Spec

-----------------------------------------------------------------------------
(* What a request relies on, step by step.                                  *)

HandlersAre == HandlerInv /\ RecordsInv /\ VMsInv

\* A request changes nothing of the handlers.
LEMMA RequestsOnlyRead == [UINext]_<<vars, uiVars>> => [Next]_vars
  BY DEF UINext, Handlers, SetHandler, Request, ListWorkflows, ListVMs, AnswerPools, CopyLog,
         CancelWorkflow, OpenLog, Begin

\* What has been written of the logs of a handler that is through is all of it.
LEMMA ThroughIsWritten ==
  ASSUME NEW n \in Names, NEW a \in Artifacts, pc[n] \in {"delete"} \cup Ended, HandlerMove(n)
  PROVE  pc'[n] \in {"delete"} \cup Ended /\ Written(n, a)' = Written(n, a)
<1>1. <<pc[n], pc'[n]>> \in {<<"delete", "delete">>, <<"delete", "ended">>, <<"ended", "ended">>,
                             <<"failed", "failed">>}
  BY DEF HandlerMove, Ended
<1> QED
  BY <1>1 DEF Written, Ended

LEMMA WrittenType == \A n, a : Written(n, a) \in 0..2
  BY DEF Written

\* A step of the handlers leaves what a request under way remembers as good as it was.
LEMMA HandlersStep ==
  ASSUME HandlersAre, HandlersAre', RequestInv, Handlers
  PROVE  RequestInv'
<1> USE DEF Handlers
<1>0. /\ UITypeOK /\ UNCHANGED <<ready, req, page, vms, log>>
      /\ \A n \in Names : HandlerMove(n)
  BY HandlerMoves DEF RequestInv, HandlersAre
<1>1. UITypeOK'
  BY <1>0 DEF UITypeOK, RecordPaths
<1>2. ListedInv'
  <2> SUFFICES ASSUME req = "listed", NEW n \in Names
               PROVE  /\ vms[n] \in VMInfo
                      /\ vm'[n] = "acquired" => n \in leased'
                      /\ n \in worked' => Working(n)' /\ vms[n] = "running"
                      /\ vms[n] = "running" /\ n \notin leased' =>
                            vm'[n] \in {"none", "deleted", "undeleted"} \/ runErr'[n] \/ recs'[n].state # "running"
    BY <1>0 DEF ListedInv
  <2>1. /\ vms[n] \in VMInfo
        /\ n \in worked => Working(n) /\ vms[n] = "running"
        /\ vms[n] = "running" /\ n \notin leased =>
              vm[n] \in {"none", "deleted", "undeleted"} \/ runErr[n] \/ recs[n].state # "running"
        /\ leased' = leased \cup {m \in Names : vm'[m] = "acquired"}
        /\ worked' = {m \in worked : Working(m)'}
    BY <1>0 DEF RequestInv, ListedInv
  <2>2. ASSUME vms[n] = "running", n \notin leased'
        PROVE  vm'[n] \in {"none", "deleted", "undeleted"} \/ runErr'[n] \/ recs'[n].state # "running"
    <3>1. vm'[n] # "acquired" /\ n \notin leased
      BY <2>1, <2>2
    <3>2. CASE vm[n] \in {"none", "deleted", "undeleted"}
      <4>1. pc[n] # "stop" /\ ~\E j \in Jobs : completing[j].step = "stop" /\ completing[j].name = n
        BY <3>2, CompletingRan DEF HandlersAre, HandlerInv, VMInv, Ran
      <4> QED
        BY <1>0, <3>1, <3>2, <4>1 DEF HandlerMove
    <3>3. CASE runErr[n]
      BY <1>0, <3>3 DEF HandlerMove
    <3>4. CASE recs[n].state # "running"
      <4>1. recs'[n].state = "running" => pc'[n] = "config"
        BY <3>4, BecomesRunning DEF HandlersAre
      <4>2. pc'[n] # "config"
        BY <3>1 DEF HandlersAre, HandlerInv, VMInv
      <4> QED
        BY <4>1, <4>2
    <3> QED
      BY <2>1, <2>2, <3>1, <3>2, <3>3, <3>4
  <2> QED
    BY <2>1, <2>2
<1>3. ASSUME req \in {"opened", "log"}, log.state \in Through
      PROVE  /\ log.name \in Names /\ pc'[log.name] \in {"delete"} \cup Ended
             /\ Written(log.name, log.artifact)' = Written(log.name, log.artifact)
  <2>1. log.name \in Names /\ pc[log.name] \in {"delete"} \cup Ended /\ log.artifact \in Artifacts
    BY <1>0, <1>3 DEF RequestInv, PageInv, UITypeOK
  <2>2. Written(log.name, log.artifact)' = Written(log.name, log.artifact)
        /\ pc'[log.name] \in {"delete"} \cup Ended
    BY <1>0, <2>1, ThroughIsWritten
  <2> QED
    BY <2>1, <2>2
<1>4. PageInv'
  <2>1. \A n \in Names : /\ page[n].state # "" => pc'[n] # "unused"
                         /\ page[n].state \in Through => pc'[n] \in {"delete"} \cup Ended
    BY <1>0 DEF RequestInv, PageInv, HandlerMove, Ended
  <2>2. /\ req = "opened" /\ log.state \in Through =>
             log.length = Written(log.name, log.artifact)
        /\ req = "refused" => log.name \in Names
    BY DEF RequestInv, PageInv
  <2>3. log' = log /\ page' = page /\ req' = req
    BY <1>0
  <2> QED
    BY <1>3, <2>1, <2>2, <2>3 DEF PageInv
<1>5. PoolsShowLeases'
  <2> SUFFICES ASSUME req = "pools", NEW n \in Names
               PROVE  /\ vms[n] = "acquired" => n \in leased' \/ runErr'[n]
                      /\ n \in worked' => vms[n] = "acquired"
    BY <1>0 DEF PoolsShowLeases
  <2>1. UNCHANGED <<leased, worked>> /\ (runErr[n] => runErr'[n])
    BY <1>0 DEF HandlerMove
  <2> QED
    BY <2>1 DEF RequestInv, PoolsShowLeases
<1>6. ThroughMeansWritten'
  <2>1. req = "refused" => pc'[log.name] = "ended"
    BY <1>0 DEF RequestInv, PageInv, ThroughMeansWritten, HandlerMove, Ended
  <2>2. req = "log" /\ log.state \in Through => log.got = Written(log.name, log.artifact)
    BY DEF RequestInv, ThroughMeansWritten, Through
  <2>3. log' = log /\ req' = req
    BY <1>0
  <2> QED
    BY <1>3, <2>1, <2>2, <2>3 DEF ThroughMeansWritten, Through
<1> QED
  BY <1>1, <1>2, <1>4, <1>5, <1>6 DEF RequestInv

Pages == [Names -> [state : WorkflowStates \cup {""}, logs : BOOLEAN]]
Logs == [name : Names \cup {NoName}, artifact : Artifacts,
         state : WorkflowStates \cup {""}, length : 0..2, got : 0..2]

\* The answers of requests that have not been made.
LEMMA Blanks == /\ NoVMs \in [Names -> VMInfo \cup VMState]
                /\ NoLog \in Logs /\ NoPage \in Pages
<1>1. NoVMs \in [Names -> VMInfo \cup VMState]
  BY DEF NoVMs, VMInfo
<1>2. NoLog \in Logs
  BY DEF NoLog, Logs, Artifacts
<1>3. NoPage \in Pages
  BY DEF NoPage, NoStatus, Pages
<1> QED
  BY <1>1, <1>2, <1>3

\* The steps of the requests, one by one.
LEMMA ListWorkflowsStep ==
  ASSUME HandlersAre, RequestInv, ListWorkflows
  PROVE  RequestInv'
<1>0. req' = "workflows" /\ UNCHANGED <<vars, ready, paths>>
  BY DEF ListWorkflows, Begin
<1>1. PICK names : page' = Snapshot(names)
  BY DEF ListWorkflows
<1>2. \A n \in Names : recs[n].state \in WorkflowStates \cup {""}
  BY DEF HandlersAre, HandlerInv, TypeOK, WorkflowSnapshot
<1>3. /\ page' \in Pages
      /\ \A n \in Names : page'[n] = IF n \in names THEN WorkflowStatus(n) ELSE NoStatus
  <2>1. ASSUME NEW n \in Names
        PROVE  WorkflowStatus(n) \in [state : WorkflowStates \cup {""}, logs : BOOLEAN]
    <3>1. recs[n].state \in WorkflowStates \cup {""}
      BY <1>2
    <3>2. (n \in paths) \in BOOLEAN
      OBVIOUS
    <3> QED
      BY <3>1, <3>2, Zenon DEF WorkflowStatus
  <2>2. NoStatus \in [state : WorkflowStates \cup {""}, logs : BOOLEAN]
    BY DEF NoStatus
  <2> QED
    BY <1>1, <2>1, <2>2 DEF Snapshot, Pages
<1>4. UITypeOK'
  <2>1. /\ vms' = NoVMs /\ log' = NoLog /\ leased' = {} /\ worked' = {}
        /\ ready \in BOOLEAN /\ paths \subseteq Names
    BY DEF ListWorkflows, RequestInv, UITypeOK
  <2> QED
    BY <1>0, <1>3, <2>1, Blanks DEF UITypeOK, Requests, Pages, Logs
<1>5. PageInv'
  <2> SUFFICES ASSUME NEW n \in Names
               PROVE  /\ page'[n].state # "" => pc[n] # "unused"
                      /\ page'[n].state \in Through => pc[n] \in {"delete"} \cup Ended
    BY <1>0 DEF PageInv, vars, instVars
  <2>1. page'[n].state \in {"", recs[n].state}
    <3>1. WorkflowStatus(n).state = recs[n].state /\ NoStatus.state = ""
      BY Zenon DEF WorkflowStatus, NoStatus
    <3> QED
      BY <1>3, <3>1
  <2>2. pc[n] = "unused" => recs[n].state = ""
    BY DEF HandlersAre, RecordsInv
  <2>3. recs[n].state \in Through => pc[n] \in {"delete"} \cup Ended
    BY DEF HandlersAre, HandlerInv, StatusInv, StatusAgrees, Through, Ended
  <2> QED
    BY <2>1, <2>2, <2>3 DEF Through
<1> QED
  BY <1>0, <1>4, <1>5 DEF RequestInv, ListedInv, PoolsShowLeases, ThroughMeansWritten

LEMMA ListVMsStep ==
  ASSUME HandlersAre, RequestInv, ListVMs
  PROVE  RequestInv'
<1>0. req' = "listed" /\ UNCHANGED <<vars, ready, paths>>
  BY DEF ListVMs, Begin
<1>1. UITypeOK'
  <2>1. /\ vms' \in [Names -> VMInfo] /\ page' = NoPage /\ log' = NoLog
        /\ leased' = {n \in Names : vm[n] = "acquired"} /\ worked' = {n \in Names : Working(n)}
        /\ ready \in BOOLEAN /\ paths \subseteq Names
    BY DEF ListVMs, RequestInv, UITypeOK
  <2> QED
    BY <1>0, <2>1, Blanks DEF UITypeOK, Requests, Pages, Logs
<1>2. PageInv'
  BY <1>0 DEF ListVMs, PageInv, NoPage, NoStatus, Through
<1>3. ListedInv'
  <2> SUFFICES ASSUME NEW n \in Names
               PROVE  /\ vms'[n] \in VMInfo
                      /\ vm[n] = "acquired" => n \in leased'
                      /\ n \in worked' => Working(n)' /\ vms'[n] = "running"
                      /\ vms'[n] = "running" /\ n \notin leased' =>
                            vm[n] \in {"none", "deleted", "undeleted"} \/ runErr[n] \/ recs[n].state # "running"
    BY <1>0 DEF ListedInv, vars, instVars
  <2>1. /\ vms'[n] \in VMInfo /\ vms'[n] \in ListedAs(n)
        /\ leased' = {m \in Names : vm[m] = "acquired"} /\ worked' = {m \in Names : Working(m)}
    BY DEF ListVMs
  <2>2. Working(n) => Working(n)' /\ vm[n] = "acquired"
    BY <1>0 DEF Working, Listening, vars, instVars, otherVars, ghVars
  <2>3. vm[n] = "acquired" => vms'[n] = "running"
    BY <2>1 DEF ListedAs
  <2>4. ASSUME vms'[n] = "running", vm[n] # "acquired"
        PROVE  vm[n] \in {"none", "deleted", "undeleted"} \/ runErr[n] \/ recs[n].state # "running"
    <3>1. vm[n] \in {"none", "released", "deleted", "undeleted"}
      BY <2>4 DEF HandlersAre, HandlerInv, TypeOK
    <3>2. vm[n] = "released" => runErr[n] \/ pc[n] \in {"run", "extract", "stop"}
      BY <2>1, <2>4 DEF ListedAs
    <3> QED
      BY <3>1, <3>2 DEF HandlersAre, VMsInv, StoppedIsNotRunning
  <2> QED
    BY <2>1, <2>2, <2>3, <2>4
<1> QED
  BY <1>0, <1>1, <1>2, <1>3 DEF RequestInv, PoolsShowLeases, ThroughMeansWritten

LEMMA AnswerPoolsStep ==
  ASSUME HandlersAre, RequestInv, AnswerPools
  PROVE  RequestInv'
<1>0. /\ req = "listed" /\ req' = "pools" /\ UNCHANGED <<vars, ready, paths, page, log, leased>>
      /\ vms' = [n \in Names |-> MapVMState(vms[n], n \in AcquiredVMIDs)]
      /\ worked' = {n \in worked : recs[n].state # "canceled"}
  BY DEF AnswerPools
<1>1. \A n \in Names :
         /\ vms[n] \in VMInfo
         /\ n \in worked => Working(n) /\ vms[n] = "running"
         /\ vms[n] = "running" /\ n \notin leased =>
               vm[n] \in {"none", "deleted", "undeleted"} \/ runErr[n] \/ recs[n].state # "running"
  BY <1>0 DEF RequestInv, ListedInv
<1>2. \A n \in Names :
         /\ vms'[n] \in VMInfo \cup VMState
         /\ vms'[n] = "acquired" <=> vms[n] = "running" /\ n \in AcquiredVMIDs
  BY <1>0, <1>1 DEF MapVMState, VMInfo, VMState
<1>3. UITypeOK'
  BY <1>0, <1>2 DEF RequestInv, UITypeOK, Requests
<1>4. PageInv'
  BY <1>0 DEF RequestInv, PageInv, vars, instVars
<1>5. PoolsShowLeases'
  <2> SUFFICES ASSUME NEW n \in Names
               PROVE  /\ vms'[n] = "acquired" => n \in leased \/ runErr[n]
                      /\ n \in worked' => vms'[n] = "acquired"
    BY <1>0 DEF PoolsShowLeases, vars, instVars
  <2>1. ASSUME vms'[n] = "acquired"
        PROVE  n \in leased \/ runErr[n]
    <3>1. vms[n] = "running" /\ recs[n].state \in {"running", "acquiring"} /\ recs[n].vmid = "set"
      BY <1>2, <2>1 DEF AcquiredVMIDs
    <3>2. recs[n].state # "acquiring"
      BY <3>1 DEF HandlersAre, HandlerInv, StatusInv, StatusAgrees, VMsInv, RunningIsRecorded,
                  Acquiring
    <3>3. vm[n] \in {"acquired", "released"}
      BY <3>1, <3>2 DEF HandlersAre, HandlerInv, StatusInv, StatusAgrees
    <3> QED
      BY <1>1, <3>1, <3>2, <3>3
  <2>2. ASSUME n \in worked'
        PROVE  vms'[n] = "acquired"
    <3>1. Working(n) /\ vms[n] = "running" /\ recs[n].state # "canceled"
      BY <1>0, <1>1, <2>2
    <3>2. Unconcluded(n)
      BY <3>1, NoNameAssumption DEF Working, Unconcluded, HandlersAre, HandlerInv, GitHubInv
    <3>3. recs[n].state = "running" /\ recs[n].vmid = "set"
      BY <3>1, <3>2 DEF HandlersAre, VMsInv, RunningIsRecorded, Working, Listening
    <3> QED
      BY <1>2, <3>1, <3>3 DEF AcquiredVMIDs
  <2> QED
    BY <2>1, <2>2
<1> QED
  BY <1>0, <1>3, <1>4, <1>5 DEF RequestInv, ListedInv, ThroughMeansWritten

LEMMA CancelWorkflowStep ==
  ASSUME HandlersAre, RequestInv, NEW n \in Names, CancelWorkflow(n)
  PROVE  RequestInv'
<1>0. /\ req' = "refused" /\ UNCHANGED <<vars, ready, paths, page>>
      /\ log' = [NoLog EXCEPT !.name = n]
      /\ vms' = NoVMs /\ leased' = {} /\ worked' = {}
      /\ page[n].state # "" /\ n \notin instances
  BY DEF CancelWorkflow, Begin
<1>1. log'.name = n /\ log' \in Logs
  BY <1>0, Blanks DEF Logs
<1>2. UITypeOK'
  <2>1. page \in Pages /\ ready \in BOOLEAN /\ paths \subseteq Names
    BY DEF RequestInv, UITypeOK, Pages
  <2> QED
    BY <1>0, <1>1, <2>1, Blanks DEF UITypeOK, Requests, Pages, Logs
<1>3. PageInv'
  BY <1>0, <1>1 DEF RequestInv, PageInv, vars, instVars
<1>4. pc[n] = "ended"
  BY <1>0 DEF RequestInv, PageInv, HandlersAre, HandlerInv, InstanceInv
<1> QED
  BY <1>0, <1>1, <1>2, <1>3, <1>4
  DEF RequestInv, ListedInv, PoolsShowLeases, ThroughMeansWritten, vars, instVars

LEMMA OpenLogStep ==
  ASSUME HandlersAre, RequestInv, NEW n \in Names, NEW a \in Artifacts, OpenLog(n, a)
  PROVE  RequestInv'
<1>0. /\ req' \in {"opened", "missing"} /\ UNCHANGED <<vars, ready, paths, page>>
      /\ vms' = NoVMs /\ leased' = {} /\ worked' = {}
      /\ req' = "opened" => log' = [name |-> n, artifact |-> a, state |-> page[n].state,
                                    length |-> Written(n, a), got |-> 0]
      /\ req' = "missing" => log' = NoLog
  BY DEF OpenLog, Begin
<1>1. UITypeOK'
  <2>1. page \in Pages /\ ready \in BOOLEAN /\ paths \subseteq Names
    BY DEF RequestInv, UITypeOK, Pages
  <2>2. page[n].state \in WorkflowStates \cup {""} /\ Written(n, a) \in 0..2
    BY <2>1, WrittenType DEF Pages
  <2>3. [name |-> n, artifact |-> a, state |-> page[n].state, length |-> Written(n, a), got |-> 0]
          \in Logs
    <3>1. n \in Names \cup {NoName} /\ 0 \in 0..2
      OBVIOUS
    <3> QED
      BY <2>2, <3>1, Zenon DEF Logs
  <2>4. log' \in Logs
    BY <1>0, <2>3, Blanks
  <2> QED
    BY <1>0, <2>1, <2>4, Blanks DEF UITypeOK, Requests, Pages, Logs
<1>2. PageInv'
  <2>1. \A m \in Names : /\ page[m].state # "" => pc[m] # "unused"
                         /\ page[m].state \in Through => pc[m] \in {"delete"} \cup Ended
    BY DEF RequestInv, PageInv
  <2>2. UNCHANGED <<pc, page>> /\ Written(n, a)' = Written(n, a)
    BY <1>0 DEF vars, instVars, Written
  <2>3. CASE req' = "opened"
    <3>1. /\ log'.name = n /\ log'.artifact = a /\ log'.state = page[n].state
          /\ log'.length = Written(n, a)
      BY <1>0, <2>3
    <3>2. Written(log.name, log.artifact)' = Written(n, a)'
      BY <3>1 DEF Written
    <3> QED
      BY <2>1, <2>2, <2>3, <3>1, <3>2 DEF PageInv
  <2>4. CASE req' = "missing"
    BY <2>1, <2>2, <2>4 DEF PageInv
  <2> QED
    BY <1>0, <2>3, <2>4
<1> QED
  BY <1>0, <1>1, <1>2 DEF RequestInv, ListedInv, PoolsShowLeases, ThroughMeansWritten

LEMMA CopyLogStep ==
  ASSUME HandlersAre, RequestInv, CopyLog
  PROVE  RequestInv'
<1> DEFINE written == Written(log.name, log.artifact)
<1>0. /\ req = "opened" /\ req' = "log" /\ UNCHANGED <<vars, ready, paths, page, vms, leased, worked>>
      /\ \E got \in IF log.length \in {0, written} THEN {written} ELSE {0, log.length} :
            log' = [log EXCEPT !.got = got]
  BY DEF CopyLog
<1>1. PICK got : /\ log' = [log EXCEPT !.got = got]
                 /\ got \in IF log.length \in {0, written} THEN {written} ELSE {0, log.length}
  BY <1>0
<1>2. log \in Logs
  BY DEF RequestInv, UITypeOK, Logs
<1>a. got \in 0..2
  <2>1. written \in 0..2 /\ log.length \in 0..2
    BY <1>2, WrittenType DEF Logs
  <2> HIDE DEF written
  <2> QED
    BY <1>1, <2>1
<1>3. /\ log'.name = log.name /\ log'.artifact = log.artifact /\ log'.state = log.state
      /\ log'.got = got /\ log' \in Logs
  BY <1>1, <1>2, <1>a DEF Logs
<1>4. UITypeOK'
  BY <1>0, <1>3 DEF RequestInv, UITypeOK, Requests, Logs
<1>5. PageInv'
  BY <1>0, <1>3 DEF RequestInv, PageInv, vars, instVars
<1>6. log.state \in Through =>
         log'.got = Written(log.name, log.artifact)' /\ pc[log.name] \in {"delete"} \cup Ended
  <2>1. log.state \in Through => log.length = written /\ pc[log.name] \in {"delete"} \cup Ended
    BY <1>0 DEF RequestInv, PageInv
  <2>2. Written(log.name, log.artifact)' = written
    BY <1>0, <1>3 DEF Written, vars, instVars
  <2> QED
    BY <1>1, <1>3, <2>1, <2>2
<1> QED
  BY <1>0, <1>3, <1>4, <1>5, <1>6
  DEF RequestInv, ListedInv, PoolsShowLeases, ThroughMeansWritten, Through, vars, instVars

\* Each step, of a request or of a handler, preserves the invariant.
LEMMA RequestStep ==
  HandlersAre /\ HandlersAre' /\ RequestInv /\ [UINext]_<<vars, uiVars>> => RequestInv'
<1> SUFFICES ASSUME HandlersAre, HandlersAre', RequestInv, [UINext]_<<vars, uiVars>>
             PROVE  RequestInv'
  OBVIOUS
<1>1. CASE Handlers
  BY <1>1, HandlersStep
<1>2. CASE Request
  BY <1>2, ListWorkflowsStep, ListVMsStep, AnswerPoolsStep, CancelWorkflowStep, OpenLogStep,
     CopyLogStep DEF Request
<1>3. CASE SetHandler \/ UNCHANGED <<vars, uiVars>>
  <2>1. /\ UNCHANGED <<vars, paths, req, page, vms, log, leased, worked>>
        /\ ready' \in BOOLEAN
    BY <1>3 DEF SetHandler, uiVars, RequestInv, UITypeOK
  <2>2. /\ UNCHANGED <<pc, vm, runErr, recs, job>>
        /\ \A n \in Names : Working(n)' = Working(n)
        /\ \A n \in Names, a \in Artifacts : Written(n, a)' = Written(n, a)
    BY <2>1 DEF vars, instVars, otherVars, ghVars, Working, Listening, Written
  <2>3. Written(log.name, log.artifact)' = Written(log.name, log.artifact)
    BY <2>1, <2>2 DEF Written
  <2>4. UITypeOK'
    BY <2>1 DEF RequestInv, UITypeOK
  <2>5. ListedInv'
    BY <2>1, <2>2 DEF RequestInv, ListedInv
  <2>6. PageInv'
    BY <2>1, <2>2, <2>3 DEF RequestInv, PageInv
  <2>7. PoolsShowLeases'
    BY <2>1, <2>2 DEF RequestInv, PoolsShowLeases
  <2>8. ThroughMeansWritten'
    BY <2>1, <2>2, <2>3 DEF RequestInv, ThroughMeansWritten
  <2> QED
    BY <2>4, <2>5, <2>6, <2>7, <2>8 DEF RequestInv
<1> QED
  BY <1>1, <1>2, <1>3 DEF UINext

\* The web UI reads the handlers' state, and writes it only where Cancel does
\* (webui_backend.go): whatever it is asked, the handlers behave as they do without
\* it, so that what is proved of them holds beside it.
THEOREM RequestsRefineHandlers == UISpec => Spec
<1>1. UIInit => Init
  BY DEF UIInit
<1> QED
  BY <1>1, RequestsOnlyRead, PTL DEF UISpec, Spec

\* What a request remembers of the handlers between its steps is worth what it makes
\* of it, whatever the handlers do in between.
THEOREM RequestsInvariance == UISpec => []RequestInv
<1>1. UIInit => RequestInv
  <2> SUFFICES ASSUME UIInit PROVE RequestInv
    OBVIOUS
  <2>1. UITypeOK
    BY Blanks DEF UIInit, UITypeOK, Requests, Pages, Logs
  <2>2. PageInv
    BY DEF UIInit, PageInv, NoPage, NoStatus, Through
  <2> QED
    BY <2>1, <2>2 DEF UIInit, RequestInv, ListedInv, PoolsShowLeases, ThroughMeansWritten
<1>2. Spec => []HandlersAre
  BY Invariance, RecordsInvariance, VMsInvariance, PTL DEF HandlersAre
<1> QED
  BY <1>1, <1>2, RequestsRefineHandlers, RequestStep, PTL DEF UISpec

\* A VM that the answer of Pools shows as acquired was leased in the course of the
\* request, and a VM that was at work during all of it is shown as acquired.
THEOREM PoolsAreTrue == UISpec => []PoolsShowLeases
<1>1. RequestInv => PoolsShowLeases
  BY DEF RequestInv
<1> QED
  BY <1>1, RequestsInvariance, PTL

\* The log downloaded of a workflow shown to be through is all that is ever written,
\* and only a workflow that is through is refused its cancellation.
THEOREM LogsAreWhole == UISpec => []ThroughMeansWritten
<1>1. RequestInv => ThroughMeansWritten
  BY DEF RequestInv
<1> QED
  BY <1>1, RequestsInvariance, PTL

=============================================================================
