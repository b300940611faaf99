-------------------------- MODULE CompletionQueue --------------------------
(***************************************************************************)
(* The queue of finished VMs (vmsclient/completion_queue.go): two bounded  *)
(* FIFOs, one of successes and one of failures, whose events keep a        *)
(* stopped VM for its retention period and then have it deleted.           *)
(*                                                                         *)
(* The FIFO itself (cloudeng.io/sync/patterns) is not in the repository:   *)
(* it is taken to hold up to Capacity events, to make a sender wait while  *)
(* it is full, and to drop every event its periodic scan's predicate is    *)
(* true of.  A send on a closed channel panics, a blocked one included.    *)
(*                                                                         *)
(* An event carries the time it has left (ttl) instead of the time it      *)
(* expires at, so that the clock needs no bound; -1 is past expiration.    *)
(***************************************************************************)
EXTENDS Integers, Sequences, FiniteSets

CONSTANTS
    VMs,              \* the VMs handed to jobs
    Capacity,         \* completion_queue_size
    SuccessRetention, \* successful_vm_retention_period, in ticks
    FailureRetention  \* failed_vm_retention_period, in ticks

ASSUME CapacityAssumption == Capacity \in Nat
ASSUME RetentionsAssumption == SuccessRetention \in Nat /\ FailureRetention \in Nat

VARIABLES
    queue,   \* CompletionQueue.success and .failure
    closed,  \* the FIFOs whose In() is closed
    vm       \* each VM: held by its job, released (stopped), deleted, or left by a
             \* Delete that failed

queueVars == <<queue, closed, vm>>

Queues == {"success", "failure"}

Retained(q) == IF q = "success" THEN SuccessRetention ELSE FailureRetention

TTLs == -1 .. (IF SuccessRetention > FailureRetention THEN SuccessRetention ELSE FailureRetention)

CompletionEvent == [vm : VMs, ttl : TTLs]

\* Its Delete has been called.
Gone == {"deleted", "undeleted"}

VMStates == {"none", "held", "released"} \cup Gone

QueueTypeOK ==
    /\ queue \in [Queues -> Seq(CompletionEvent)]
    /\ \A q \in Queues : Len(queue[q]) <= Capacity
    /\ closed \subseteq Queues
    /\ vm \in [VMs -> VMStates]

QueueInit ==
    /\ queue = [q \in Queues |-> <<>>]
    /\ closed = {}
    /\ vm = [v \in VMs |-> "none"]

-----------------------------------------------------------------------------

Older(ttl) == IF ttl < 0 THEN ttl ELSE ttl - 1

\* A tick of the clock, seen by the queued events.
QueuesAge ==
    [q \in Queues |-> [i \in DOMAIN queue[q] |->
        [queue[q][i] EXCEPT !.ttl = Older(@)]]]

\* Delete is called of the VMs vs.  An error is logged, or returned at the end, and
\* the event is dropped all the same: only another event of that VM tries again.
DeleteAll(vs) ==
    \E failed \in SUBSET vs :
        vm' = [v \in VMs |-> IF v \notin vs \/ vm[v] = "deleted" THEN vm[v]
                             ELSE IF v \in failed THEN "undeleted" ELSE "deleted"]

\* Faulty variant: the queue takes one event too many.
AcceptOneMore(q, v, ttl) ==
    /\ q \notin closed
    /\ Len(queue[q]) <= Capacity
    /\ queue' = [queue EXCEPT ![q] = Append(@, [vm |-> v, ttl |-> ttl])]
    /\ UNCHANGED <<closed, vm>>

\* PushSuccess and PushFailure, the send: there is room.
Accept(q, v, ttl) ==
    /\ q \notin closed
    /\ Len(queue[q]) < Capacity
    /\ queue' = [queue EXCEPT ![q] = Append(@, [vm |-> v, ttl |-> ttl])]
    /\ UNCHANGED <<closed, vm>>

\* Faulty variant: an event expires at its expiration time, not after it.
ExpiredEarly(e) == e.ttl <= 0

\* Faulty variant: the two times are swapped.
ExpiredSwapped(e) == e.ttl > 0

\* time.Now().After(e.expirationTime)
Expired(e) == e.ttl < 0

\* A periodic scan with the expiration predicate: every expired event is dropped
\* and its VM to be deleted, wherever in the queue it is; the others stay in order.
\* (SelectSeq, written as a choice so that proofs can reason about it.)
Scan(q) ==
    LET events == queue[q]
        kept == {i \in DOMAIN events : ~Expired(events[i])}
    IN  /\ q \notin closed
        /\ kept # DOMAIN events
        /\ \E at \in [1..Cardinality(kept) -> kept] :
              /\ \A i, j \in DOMAIN at : i < j => at[i] < at[j]
              /\ queue' = [queue EXCEPT ![q] = [i \in DOMAIN at |-> events[at[i]]]]
        /\ DeleteAll({events[i].vm : i \in DOMAIN events \ kept})
        /\ UNCHANGED closed

\* A receive from Out(): the receiver deletes the event's VM, and goes on if it
\* cannot.
Receive(q) ==
    /\ queue[q] # <<>>
    /\ queue' = [queue EXCEPT ![q] = Tail(@)]
    /\ DeleteAll({Head(queue[q]).vm})
    /\ UNCHANGED closed

\* Faulty variant: the queue is emptied and its VMs are forgotten.
CloseCQForgetting(q) ==
    /\ q \notin closed
    /\ closed' = closed \cup {q}
    /\ queue' = [queue EXCEPT ![q] = <<>>]
    /\ UNCHANGED vm

\* closeCQ: close(cq.In()).  Its range over Out() is a Receive per event.
CloseCQ(q) ==
    /\ q \notin closed
    /\ closed' = closed \cup {q}
    /\ UNCHANGED <<queue, vm>>

=============================================================================
