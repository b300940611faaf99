---------------------------- MODULE Orchestrator ----------------------------
(***************************************************************************)
(* The life of the orchestrator process: RunCommand.Run (run_cmd.go) with  *)
(* the webhook listener it blocks in (githubwebhook/listener.go), and the  *)
(* goroutines that push onto the completion queue, up to its shutdown.     *)
(*                                                                         *)
(* The listener waits for the goroutines it starts, and handleCompleted    *)
(* runs in one of those.  handleQueuedEvent does not: HandleWebhooks       *)
(* starts it in a goroutine of its own.                                    *)
(***************************************************************************)
EXTENDS CompletionQueue

VARIABLES
    ctx,     \* the process's context; Ctrl-C cancels it
    reader,  \* waitForEvent: reading, or returned with eventCh closed
    eventCh, \* the event waitForEvent has put in its channel, if any
    main,    \* where Run is
    workers  \* the goroutines that push: one handleQueuedEvent and one
             \* handleCompleted for each VM

listenVars == <<ctx, reader, eventCh>>
vars == <<queueVars, listenVars, main, workers>>

-----------------------------------------------------------------------------

Kinds == {"queued", "completed"}
Workers == Kinds \X VMs

\* Run: in Listen's select and its g.Wait(); then in its deferred calls:
\* DrainCompletionQueue, vmPools.Close, completeQueue.Close of either queue.
MainSteps == {"select", "wait", "drain", "pools", "success", "failure",
              "exited", "panicked"}

Alive == main \notin {"exited", "panicked"}

TypeOK ==
    /\ QueueTypeOK
    /\ ctx \in {"live", "cancelled"}
    /\ reader \in {"reading", "closed"}
    /\ eventCh \subseteq Workers /\ Cardinality(eventCh) <= 1
    /\ main \in MainSteps
    /\ workers \in [Workers -> [step : {"none", "busy", "sending", "sent", "done"},
                                queue : Queues, ttl : TTLs]]

Init ==
    /\ QueueInit
    /\ ctx = "live"
    /\ reader = "reading"
    /\ eventCh = {}
    /\ main = "select"
    /\ workers = [w \in Workers |-> [step |-> "none", queue |-> "failure", ttl |-> 0]]

-----------------------------------------------------------------------------
(* The listener.                                                            *)

\* The relay has an event: a job is queued, or one that was is completed.
WaitForEvent(w) ==
    /\ main = "select" /\ reader = "reading" /\ eventCh = {}
    /\ workers[w].step = "none"
    /\ w[1] = "completed" => workers[<<"queued", w[2]>>].step # "none"
    /\ eventCh' = {w}
    /\ UNCHANGED <<queueVars, ctx, reader, main, workers>>

\* The relay closes cleanly, or the context is cancelled: eventCh is closed.
ReaderReturns ==
    /\ main = "select" /\ reader = "reading" /\ eventCh = {}
    /\ reader' = "closed"
    /\ UNCHANGED <<queueVars, ctx, eventCh, main, workers>>

\* Listen receives an event, starts its handler and reads on.  handleQueuedEvent
\* gets a VM; handleCompleted has something to stop when the instance is live.
Dispatch ==
    /\ main = "select"
    /\ eventCh' = {}
    /\ \E w \in eventCh :
         LET live == workers[<<"queued", w[2]>>].step \in {"busy", "sending"} IN
         /\ workers' = [workers EXCEPT ![w].step =
                           IF w[1] = "queued" \/ live THEN "busy" ELSE "done"]
         /\ vm' = [vm EXCEPT ![w[2]] = IF w[1] = "queued" THEN "held" ELSE @]
    /\ UNCHANGED <<queue, closed, ctx, reader, main>>

\* Faulty variant: Listen only looks at eventCh.
LeaveLoopOnClosed ==
    /\ main = "select" /\ reader = "closed"
    /\ main' = "wait"
    /\ UNCHANGED <<queueVars, listenVars, workers>>

\* Listen leaves its loop: eventCh is closed or the context cancelled (Run never
\* calls Stop).  An event that is already in eventCh may be lost.
LeaveLoop ==
    /\ main = "select"
    /\ reader = "closed" \/ ctx = "cancelled"
    /\ main' = "wait"
    /\ UNCHANGED <<queueVars, listenVars, workers>>

\* Faulty variant: Listen returns without waiting for its handlers.
ListenReturnsAtOnce ==
    /\ main = "wait"
    /\ main' = "drain"
    /\ UNCHANGED <<queueVars, listenVars, workers>>

\* g.Wait() is over once every handler that Listen started has returned.
ListenReturns ==
    /\ main = "wait"
    /\ \A v \in VMs : workers[<<"completed", v>>].step \notin {"busy", "sending"}
    /\ main' = "drain"
    /\ UNCHANGED <<queueVars, listenVars, workers>>

Interrupt ==
    /\ Alive /\ ctx = "live"
    /\ ctx' = "cancelled"
    /\ UNCHANGED <<queueVars, reader, eventCh, main, workers>>

-----------------------------------------------------------------------------
(* The goroutines that push.                                                *)

\* StopAndRelease, and the push up to its send: runQueuedJob has an outcome of
\* either kind, handleCompleted pushes a failure.  The event's expiration time is
\* set here, before there is room for it.
StartPush(w, q) ==
    /\ Alive
    /\ workers[w].step = "busy"
    /\ w[1] = "completed" => q = "failure"
    /\ workers' = [workers EXCEPT ![w] = [step |-> "sending", queue |-> q, ttl |-> Retained(q)]]
    /\ vm' = [vm EXCEPT ![w[2]] = IF @ = "held" THEN "released" ELSE @]
    /\ UNCHANGED <<queue, closed, listenVars, main>>

SendEvent(w) ==
    /\ Alive
    /\ workers[w].step = "sending"
    /\ Accept(workers[w].queue, w[2], workers[w].ttl)
    /\ workers' = [workers EXCEPT ![w].step = "sent"]
    /\ UNCHANGED <<listenVars, main>>

\* A send on a closed channel takes the whole process down.
SendPanics(w) ==
    /\ Alive
    /\ workers[w].step = "sending" /\ workers[w].queue \in closed
    /\ main' = "panicked"
    /\ UNCHANGED <<queueVars, listenVars, workers>>

-----------------------------------------------------------------------------
(* The end of Run.                                                          *)

\* DrainCompletionQueue takes what the FIFOs have to offer and leaves as soon as
\* they offer nothing, which says nothing about what they hold.
DrainCompletionQueue ==
    /\ main = "drain"
    /\ \/ (\E q \in Queues : Receive(q)) /\ UNCHANGED main
       \/ main' = "pools" /\ UNCHANGED queueVars
    /\ UNCHANGED <<listenVars, workers>>

\* vmPools.Close; VMs that jobs hold are left as they are (DeleteAcquiredOnClose
\* is off).
ClosePools ==
    /\ main = "pools"
    /\ main' = "success"
    /\ UNCHANGED <<queueVars, listenVars, workers>>

\* completeQueue.Close: first the successes, then the failures.
CloseQueue ==
    /\ main \in Queues
    /\ \/ CloseCQ(main) /\ UNCHANGED main
       \/ main \in closed /\ Receive(main) /\ UNCHANGED main
       \/ /\ main \in closed /\ queue[main] = <<>>
          /\ main' = IF main = "success" THEN "failure" ELSE "exited"
          /\ UNCHANGED queueVars
    /\ UNCHANGED <<listenVars, workers>>

Expiration(q) ==
    /\ Alive
    /\ Scan(q)
    /\ UNCHANGED <<listenVars, main, workers>>

\* A tick of the clock.
Tick ==
    /\ Alive
    /\ queue' = QueuesAge
    /\ workers' = [w \in Workers |->
                      IF workers[w].step \in {"sending", "sent"}
                      THEN [workers[w] EXCEPT !.ttl = Older(@)] ELSE workers[w]]
    /\ UNCHANGED <<closed, vm, listenVars, main>>

Run == ListenReturns \/ DrainCompletionQueue \/ ClosePools \/ CloseQueue

Next ==
    \/ \E w \in Workers : WaitForEvent(w)
    \/ ReaderReturns \/ Dispatch \/ LeaveLoop \/ Interrupt
    \/ \E w \in Workers : SendEvent(w) \/ SendPanics(w) \/ \E q \in Queues : StartPush(w, q)
    \/ Run
    \/ \E q \in Queues : Expiration(q)
    \/ Tick

Spec == Init /\ [][Next]_vars

(***************************************************************************)
(* Every goroutine that can go on does, the scans run every second, and    *)
(* time passes.  Nobody owes an event or a Ctrl-C.  A sender may be passed *)
(* over while others fill the queue: each has one event to send, so weak   *)
(* fairness is enough for it.                                              *)
(***************************************************************************)
Fairness ==
    /\ WF_vars(Dispatch) /\ WF_vars(LeaveLoop) /\ WF_vars(Run) /\ WF_vars(Tick)
    /\ \A w \in Workers :
          /\ WF_vars(SendEvent(w) \/ SendPanics(w))
          /\ WF_vars(\E q \in Queues : StartPush(w, q))
    /\ \A q \in Queues : WF_vars(Expiration(q))

FairSpec == Spec /\ Fairness

-----------------------------------------------------------------------------

\* While the orchestrator serves, Delete is called of a finished VM only after the
\* retention period of a completion event that was pushed for it: the expiration is
\* fixed when the push begins and the call is the scan's, however long the sender
\* waits.
KeptForRetention ==
    main \in {"select", "wait"} =>
        \A v \in VMs : vm[v] \in Gone =>
            \E k \in Kinds : workers[<<k, v>>].step = "sent" /\ workers[<<k, v>>].ttl < 0

\* No VM that the queue was told of is forgotten: when the process exits its Delete
\* has been called, whichever queue its events are on and whenever they came, by the
\* expiration, the drain or the close.  A VM that is left is one whose Delete failed.
NoVMForgotten ==
    main = "exited" =>
        \A w \in Workers : workers[w].step = "sent" => vm[w[2]] \in Gone

\* A handler that Listen waits for never meets a closed queue.
AwaitedBeforeClose ==
    closed # {} => \A v \in VMs : workers[<<"completed", v>>].step \notin {"busy", "sending"}

\* A full queue delays a push but blocks none for ever: the scan makes room.
PushesEnd ==
    \A w \in Workers : workers[w].step = "sending" ~> (workers[w].step = "sent" \/ ~Alive)

\* After Ctrl-C the process ends, whatever is running or blocked on the queue.
InterruptEnds == ctx = "cancelled" ~> ~Alive

-----------------------------------------------------------------------------
(* What the comments say and the process does not do.                       *)

\* self_hosted_runner.go:102: runQueuedJob "stops the VM, then pushes the outcome
\* onto the completion queue".  So the push does not take the process down.
OutcomesPushed == main # "panicked"

\* listener.go:51: Listen "will block until the context is cancelled or the listener
\* is stopped"; Run never stops it.
ListenBlocks == main # "select" => ctx = "cancelled"

=============================================================================
