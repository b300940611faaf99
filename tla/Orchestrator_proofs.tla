------------------------- MODULE Orchestrator_proofs -------------------------
(***************************************************************************)
(* The completion queue and the shutdown, for every number of VMs, every   *)
(* capacity and both retention periods.                                    *)
(***************************************************************************)
EXTENDS Orchestrator, FiniteSetTheorems, SequenceTheorems, TLAPS

\* The events of queue q.
Event(q, i) == queue[q][i]

\* An event in a queue is that of a goroutine that has sent it, with the time it
\* has left.
EventsAreSent ==
    \A q \in Queues : \A i \in DOMAIN queue[q] :
        \E k \in Kinds : /\ workers[<<k, Event(q, i).vm>>].step = "sent"
                         /\ workers[<<k, Event(q, i).vm>>].ttl = Event(q, i).ttl

\* A goroutine's event is in a queue until the Delete of its VM is called.
Queued(v) == \E q \in Queues : \E i \in DOMAIN queue[q] : Event(q, i).vm = v

SentIsKept ==
    \A w \in Workers : workers[w].step = "sent" => vm[w[2]] \in Gone \/ Queued(w[2])

\* Listen reads an event once, and that of a completed job after that of the queued.
EventsInOrder ==
    /\ \A w \in eventCh : /\ workers[w].step = "none"
                          /\ w[1] = "completed" => workers[<<"queued", w[2]>>].step # "none"
    /\ \A v \in VMs : workers[<<"completed", v>>].step # "none" =>
                          workers[<<"queued", v>>].step # "none"

\* What the end of Run has left behind when it is where it is.
Closing ==
    /\ closed # {} => main \in {"success", "failure", "exited", "panicked"}
    /\ main \in {"failure", "exited"} => "success" \in closed /\ queue["success"] = <<>>
    /\ main = "exited" => "failure" \in closed /\ queue["failure"] = <<>>

\* Listen has waited for the handlers it started.
Awaited ==
    main \in {"drain", "pools", "success", "failure", "exited"} \/ closed # {} =>
        \A v \in VMs : workers[<<"completed", v>>].step \notin {"busy", "sending"}

ShutdownInv ==
    /\ TypeOK /\ EventsAreSent /\ SentIsKept /\ EventsInOrder /\ Closing /\ Awaited
    /\ KeptForRetention

-----------------------------------------------------------------------------
(* Times and queues. *)

LEMMA TimesType ==
  /\ TTLs \subseteq Int /\ 0 \in TTLs
  /\ \A q \in Queues : Retained(q) \in TTLs
  /\ \A t \in TTLs : Older(t) \in TTLs /\ (t < 0 => Older(t) < 0)
<1>1. SuccessRetention \in Nat /\ FailureRetention \in Nat
  BY RetentionsAssumption
<1> QED
  BY <1>1 DEF TTLs, Queues, Retained, Older

LEMMA InitShutdown == Init => ShutdownInv
<1> SUFFICES ASSUME Init PROVE ShutdownInv
  OBVIOUS
<1> USE DEF Init, QueueInit
<1>1. \A q \in Queues : queue[q] = <<>> /\ Len(queue[q]) = 0 /\ DOMAIN queue[q] = {}
  OBVIOUS
<1>2. queue \in [Queues -> Seq(CompletionEvent)]
  OBVIOUS
<1>3. QueueTypeOK
  BY <1>1, <1>2, CapacityAssumption DEF QueueTypeOK, VMStates
<1>4. workers \in [Workers -> [step : {"none", "busy", "sending", "sent", "done"},
                               queue : Queues, ttl : TTLs]]
  BY TimesType DEF Queues
<1>5. Cardinality(eventCh) <= 1
  BY FS_EmptySet
<1>6. TypeOK
  BY <1>3, <1>4, <1>5 DEF TypeOK, MainSteps
<1>7. EventsAreSent
  BY <1>1 DEF EventsAreSent
<1>8. SentIsKept /\ EventsInOrder
  BY DEF SentIsKept, EventsInOrder, Workers, Kinds
<1>9. Closing /\ Awaited /\ KeptForRetention
  BY DEF Closing, Awaited, KeptForRetention, Gone
<1> QED
  BY <1>6, <1>7, <1>8, <1>9 DEF ShutdownInv

\* An event is appended at the end of its queue, which has room for it.
LEMMA AcceptEffect ==
  ASSUME QueueTypeOK, NEW q \in Queues, NEW v \in VMs, NEW ttl \in TTLs, Accept(q, v, ttl)
  PROVE  /\ QueueTypeOK' /\ UNCHANGED <<closed, vm>> /\ q \notin closed
         /\ \A p \in Queues \ {q} : queue'[p] = queue[p]
         /\ DOMAIN queue'[q] = 1..Len(queue[q]) + 1
         /\ \A i \in DOMAIN queue[q] : queue'[q][i] = queue[q][i]
         /\ queue'[q][Len(queue[q]) + 1] = [vm |-> v, ttl |-> ttl]
<1> DEFINE e == [vm |-> v, ttl |-> ttl]
<1>1. /\ queue' = [queue EXCEPT ![q] = Append(@, e)]
      /\ Len(queue[q]) < Capacity /\ q \notin closed /\ UNCHANGED <<closed, vm>>
  BY DEF Accept
<1>2. e \in CompletionEvent
  BY DEF CompletionEvent
<1>3. queue[q] \in Seq(CompletionEvent)
  BY DEF QueueTypeOK
<1> HIDE DEF e
<1>4. /\ Append(queue[q], e) \in Seq(CompletionEvent)
      /\ Len(Append(queue[q], e)) = Len(queue[q]) + 1
      /\ \A i \in 1..Len(queue[q]) : Append(queue[q], e)[i] = queue[q][i]
      /\ Append(queue[q], e)[Len(queue[q]) + 1] = e
  BY <1>2, <1>3, AppendProperties
<1>5. queue'[q] = Append(queue[q], e) /\ \A p \in Queues \ {q} : queue'[p] = queue[p]
  BY <1>1 DEF QueueTypeOK
<1>6. queue' \in [Queues -> Seq(CompletionEvent)]
  BY <1>1, <1>4 DEF QueueTypeOK
<1>7. Capacity \in Nat /\ Len(queue[q]) \in Nat
  BY <1>3, CapacityAssumption
<1>8. \A p \in Queues : Len(queue'[p]) <= Capacity
  BY <1>1, <1>4, <1>5, <1>7 DEF QueueTypeOK
<1>9. QueueTypeOK'
  BY <1>1, <1>6, <1>8 DEF QueueTypeOK
<1>10. DOMAIN queue[q] = 1..Len(queue[q]) /\ DOMAIN queue'[q] = 1..Len(queue[q]) + 1
  BY <1>3, <1>4, <1>5
<1> QED
  BY <1>1, <1>4, <1>5, <1>9, <1>10 DEF e

\* What removing events from queue q does: nothing appears, and what disappears has
\* the Delete of its VM called.
Removes(q) ==
    /\ UNCHANGED closed
    /\ \A p \in Queues \ {q} : queue'[p] = queue[p]
    /\ \A i \in DOMAIN queue'[q] : \E j \in DOMAIN queue[q] : queue'[q][i] = queue[q][j]
    /\ \A j \in DOMAIN queue[q] : \/ vm'[queue[q][j].vm] \in Gone
                                 \/ \E i \in DOMAIN queue'[q] : queue'[q][i] = queue[q][j]
    /\ \A v \in VMs : vm'[v] \in {vm[v]} \cup Gone

\* The VMs of vs are gone, as deleted ones already were; the others stay.
LEMMA DeleteEffect ==
  ASSUME QueueTypeOK, NEW vs, DeleteAll(vs)
  PROVE  /\ vm' \in [VMs -> VMStates]
         /\ \A v \in VMs : IF v \in vs THEN vm'[v] \in Gone ELSE vm'[v] = vm[v]
  BY DEF DeleteAll, QueueTypeOK, VMStates, Gone

\* A receive takes the first event.
LEMMA ReceiveEffect ==
  ASSUME QueueTypeOK, NEW q \in Queues, Receive(q)
  PROVE  QueueTypeOK' /\ Removes(q)
<1>1. /\ queue[q] # <<>> /\ queue' = [queue EXCEPT ![q] = Tail(@)]
      /\ DeleteAll({Head(queue[q]).vm}) /\ UNCHANGED closed
  BY DEF Receive
<1>2. queue[q] \in Seq(CompletionEvent)
  BY DEF QueueTypeOK
<1>3. /\ Head(queue[q]) \in CompletionEvent
      /\ Tail(queue[q]) \in Seq(CompletionEvent)
      /\ Len(Tail(queue[q])) = Len(queue[q]) - 1
      /\ \A i \in 1..Len(Tail(queue[q])) : Tail(queue[q])[i] = queue[q][i + 1]
  BY <1>1, <1>2, HeadTailProperties
<1>4. queue'[q] = Tail(queue[q]) /\ \A p \in Queues \ {q} : queue'[p] = queue[p]
  BY <1>1 DEF QueueTypeOK
<1>5. Capacity \in Nat /\ Len(queue[q]) \in Nat
  BY <1>2, CapacityAssumption
<1>6. vm' \in [VMs -> VMStates]
  BY <1>1, DeleteEffect
<1>7. QueueTypeOK'
  <2>1. queue' \in [Queues -> Seq(CompletionEvent)]
    BY <1>1, <1>3 DEF QueueTypeOK
  <2>2. Len(queue[q]) <= Capacity /\ \A p \in Queues \ {q} : Len(queue[p]) <= Capacity
    BY DEF QueueTypeOK
  <2>3. Len(queue'[q]) <= Capacity
    BY <1>3, <1>4, <1>5, <2>2
  <2>4. \A p \in Queues : Len(queue'[p]) <= Capacity
    BY <1>4, <2>2, <2>3
  <2> QED
    BY <1>1, <1>6, <2>1, <2>4 DEF QueueTypeOK
<1>8. DOMAIN queue[q] = 1..Len(queue[q]) /\ DOMAIN queue'[q] = 1..Len(queue[q]) - 1
  BY <1>2, <1>3, <1>4
<1>9. \A i \in DOMAIN queue'[q] : i + 1 \in DOMAIN queue[q] /\ queue'[q][i] = queue[q][i + 1]
  BY <1>3, <1>4, <1>5, <1>8
<1>10. ASSUME NEW j \in DOMAIN queue[q]
       PROVE  \/ vm'[queue[q][j].vm] \in Gone
              \/ \E i \in DOMAIN queue'[q] : queue'[q][i] = queue[q][j]
  <2>1. CASE j = 1
    <3>1. Head(queue[q]) = queue[q][j] /\ Head(queue[q]).vm \in VMs
      BY <1>1, <1>2, <1>3, <2>1, HeadTailProperties DEF CompletionEvent
    <3> QED
      BY <1>1, <3>1, DeleteEffect
  <2>2. CASE j # 1
    <3>1. j - 1 \in DOMAIN queue'[q] /\ queue'[q][j - 1] = queue[q][j]
      BY <1>3, <1>4, <1>5, <1>8, <2>2
    <3> QED
      BY <3>1
  <2> QED
    BY <2>1, <2>2
<1>11. \A v \in VMs : vm'[v] \in {vm[v]} \cup Gone
  BY <1>1, DeleteEffect
<1> QED
  BY <1>1, <1>4, <1>7, <1>9, <1>10, <1>11 DEF Removes

\* A scan takes the expired events, all of them and no other.
LEMMA ScanEffect ==
  ASSUME QueueTypeOK, NEW q \in Queues, Scan(q)
  PROVE  /\ QueueTypeOK' /\ Removes(q) /\ q \notin closed
         /\ \A v \in VMs : vm'[v] # vm[v] =>
                \E j \in DOMAIN queue[q] : queue[q][j].vm = v /\ queue[q][j].ttl < 0
<1> DEFINE events == queue[q]
           kept == {i \in DOMAIN events : ~Expired(events[i])}
<1>1. PICK at \in [1..Cardinality(kept) -> kept] :
         /\ \A i, j \in DOMAIN at : i < j => at[i] < at[j]
         /\ queue' = [queue EXCEPT ![q] = [i \in DOMAIN at |-> events[at[i]]]]
  BY DEF Scan
<1>2. /\ q \notin closed /\ UNCHANGED closed
      /\ DeleteAll({events[i].vm : i \in DOMAIN events \ kept})
  BY DEF Scan
<1>3. events \in Seq(CompletionEvent) /\ Len(events) \in Nat /\ DOMAIN events = 1..Len(events)
  BY DEF QueueTypeOK
<1>4. /\ IsFiniteSet(kept) /\ Cardinality(kept) \in Nat
      /\ Cardinality(kept) <= Len(events)
  <2>1. IsFiniteSet(1..Len(events)) /\ Cardinality(1..Len(events)) = Len(events)
    BY <1>3, FS_Interval
  <2>2. kept \in SUBSET (1..Len(events))
    BY <1>3
  <2> HIDE DEF kept, events
  <2>3. IsFiniteSet(kept) /\ Cardinality(kept) <= Cardinality(1..Len(events))
    BY <2>1, <2>2, FS_Subset
  <2>4. Cardinality(kept) \in Nat
    BY <2>3, FS_CardinalityType
  <2> QED
    BY <2>1, <2>3, <2>4
<1>5. at \in Surjection(1..Cardinality(kept), kept)
  <2>1. \A i, j \in 1..Cardinality(kept) : at[i] = at[j] => i = j
    <3>1. \A i \in 1..Cardinality(kept) : at[i] \in Int
      BY <1>3
    <3>2. ASSUME NEW i \in 1..Cardinality(kept), NEW j \in 1..Cardinality(kept), i < j
          PROVE  at[i] # at[j]
      BY <1>1, <3>1, <3>2
    <3> HIDE DEF kept, events
    <3> QED
      BY <1>4, <3>2
  <2>2. at \in Injection(1..Cardinality(kept), kept)
    <3> HIDE DEF kept, events
    <3> QED
      BY <2>1 DEF Injection, IsInjective
  <2>3. Cardinality(1..Cardinality(kept)) = Cardinality(kept)
    BY <1>4, FS_Interval
  <2> HIDE DEF kept, events
  <2> QED
    BY <1>4, <2>2, <2>3, FS_Injection
<1>6. DOMAIN at = 1..Cardinality(kept)
  OBVIOUS
<1> DEFINE rest == [i \in DOMAIN at |-> events[at[i]]]
<1>7. rest \in Seq(CompletionEvent) /\ Len(rest) = Cardinality(kept)
  <2>1. rest \in [1..Cardinality(kept) -> CompletionEvent]
    <3>1. \A i \in 1..Cardinality(kept) : at[i] \in DOMAIN events
      OBVIOUS
    <3>2. \A j \in DOMAIN events : events[j] \in CompletionEvent
      BY <1>3, ElementOfSeq
    <3> HIDE DEF kept, events
    <3> QED
      BY <1>6, <3>1, <3>2
  <2> HIDE DEF kept, events, rest
  <2> QED
    BY <1>4, <2>1, IsASeq
<1>8. queue'[q] = rest /\ \A p \in Queues \ {q} : queue'[p] = queue[p]
  BY <1>1 DEF QueueTypeOK
<1>9. QueueTypeOK'
  <2>1. queue' \in [Queues -> Seq(CompletionEvent)]
    BY <1>1, <1>7 DEF QueueTypeOK
  <2>4. Len(events) <= Capacity /\ \A p \in Queues \ {q} : Len(queue[p]) <= Capacity
    BY DEF QueueTypeOK
  <2>5. Len(queue'[q]) <= Capacity
    <3>1. Capacity \in Nat
      BY CapacityAssumption
    <3> HIDE DEF kept, events, rest
    <3> QED
      BY <1>3, <1>4, <1>7, <1>8, <2>4, <3>1
  <2>2. \A p \in Queues : Len(queue'[p]) <= Capacity
    BY <1>8, <2>4, <2>5
  <2>3. vm' \in [VMs -> VMStates]
    BY <1>2, DeleteEffect
  <2> QED
    BY <1>2, <2>1, <2>2, <2>3 DEF QueueTypeOK
<1>10. \A i \in DOMAIN queue'[q] : \E j \in DOMAIN events : queue'[q][i] = events[j]
  BY <1>6, <1>8
<1>11. ASSUME NEW j \in DOMAIN events
       PROVE  \/ vm'[events[j].vm] \in Gone
              \/ \E i \in DOMAIN queue'[q] : queue'[q][i] = events[j]
  <2>1. CASE j \in kept
    <3>1. PICK i \in 1..Cardinality(kept) : at[i] = j
      BY <1>5, <2>1 DEF Surjection
    <3> QED
      BY <1>6, <1>8, <3>1
  <2>2. CASE j \notin kept
    <3>1. events[j].vm \in VMs
      <4>1. \A n \in DOMAIN events : events[n] \in CompletionEvent
        BY <1>3, ElementOfSeq
      <4> HIDE DEF events
      <4> QED
        BY <4>1 DEF CompletionEvent
    <3> QED
      BY <1>2, <2>2, <3>1, DeleteEffect
  <2> QED
    BY <2>1, <2>2
<1>12. \A v \in VMs : vm'[v] \in {vm[v]} \cup Gone
  BY <1>2, DeleteEffect
<1>13. ASSUME NEW v \in VMs, vm'[v] # vm[v]
       PROVE  \E j \in DOMAIN events : events[j].vm = v /\ events[j].ttl < 0
  BY <1>2, <1>13, DeleteEffect DEF Expired
<1> QED
  BY <1>2, <1>8, <1>9, <1>10, <1>11, <1>12, <1>13 DEF Removes

\* A tick of the clock leaves every event where it is, with its time.
LEMMA AgeEffect ==
  ASSUME QueueTypeOK, queue' = QueuesAge, UNCHANGED <<closed, vm>>
  PROVE  /\ QueueTypeOK'
         /\ \A q \in Queues : /\ DOMAIN queue'[q] = DOMAIN queue[q]
                             /\ \A i \in DOMAIN queue[q] :
                                   /\ queue'[q][i].vm = queue[q][i].vm
                                   /\ queue'[q][i].ttl = Older(queue[q][i].ttl)
<1>1. ASSUME NEW q \in Queues
      PROVE  /\ queue'[q] \in Seq(CompletionEvent) /\ Len(queue'[q]) = Len(queue[q])
             /\ DOMAIN queue'[q] = DOMAIN queue[q]
             /\ \A i \in DOMAIN queue[q] :
                    /\ queue'[q][i].vm = queue[q][i].vm
                    /\ queue'[q][i].ttl = Older(queue[q][i].ttl)
  <2>1. queue[q] \in Seq(CompletionEvent) /\ Len(queue[q]) \in Nat
        /\ DOMAIN queue[q] = 1..Len(queue[q])
    BY DEF QueueTypeOK
  <2>2. queue'[q] = [i \in DOMAIN queue[q] |-> [queue[q][i] EXCEPT !.ttl = Older(@)]]
    BY DEF QueuesAge
  <2>3. \A i \in DOMAIN queue[q] : queue[q][i] \in CompletionEvent
    BY <2>1, ElementOfSeq
  <2>4. \A i \in DOMAIN queue[q] :
           [queue[q][i] EXCEPT !.ttl = Older(@)] \in CompletionEvent
    BY <2>3, TimesType DEF CompletionEvent
  <2>5. queue'[q] \in [1..Len(queue[q]) -> CompletionEvent]
    BY <2>1, <2>2, <2>4
  <2>6. queue'[q] \in Seq(CompletionEvent) /\ Len(queue'[q]) = Len(queue[q])
    BY <2>1, <2>5, IsASeq
  <2>8. \A i \in DOMAIN queue[q] :
           /\ queue'[q][i].vm = queue[q][i].vm
           /\ queue'[q][i].ttl = Older(queue[q][i].ttl)
    BY <2>2, <2>3, TimesType DEF CompletionEvent, Older
  <2> QED
    BY <2>2, <2>6, <2>8
<1>2. queue' \in [Queues -> Seq(CompletionEvent)]
  BY <1>1 DEF QueuesAge
<1> QED
  BY <1>1, <1>2 DEF QueueTypeOK

\* An empty queue is empty after it.
LEMMA AgeOfNone ==
  ASSUME QueueTypeOK, queue' = QueuesAge, NEW q \in Queues, queue[q] = <<>>
  PROVE  queue'[q] = <<>>
<1>1. queue'[q] = [i \in DOMAIN queue[q] |-> [queue[q][i] EXCEPT !.ttl = Older(@)]]
  BY DEF QueuesAge
<1>2. DOMAIN queue[q] = {}
  OBVIOUS
<1> QED
  BY <1>1, <1>2

-----------------------------------------------------------------------------
(* Types. *)

WorkerType == [step : {"none", "busy", "sending", "sent", "done"}, queue : Queues, ttl : TTLs]

LEMMA TypeStep ==
  ASSUME TypeOK, [Next]_vars
  PROVE  TypeOK'
<1> USE DEF listenVars, queueVars
<1>0. QueueTypeOK /\ workers \in [Workers -> WorkerType]
  BY DEF TypeOK, WorkerType
<1>1. ASSUME NEW w \in Workers, WaitForEvent(w)
      PROVE  TypeOK'
  <2>1. Cardinality(eventCh') <= 1
    BY <1>1, FS_Singleton DEF WaitForEvent
  <2> QED
    BY <1>1, <2>1 DEF WaitForEvent, TypeOK, QueueTypeOK
<1>2. CASE ReaderReturns \/ LeaveLoop \/ Interrupt
  BY <1>2 DEF ReaderReturns, LeaveLoop, Interrupt, TypeOK, QueueTypeOK, MainSteps
<1>3. CASE Dispatch
  <2>1. PICK w \in eventCh :
          LET live == workers[<<"queued", w[2]>>].step \in {"busy", "sending"} IN
          /\ workers' = [workers EXCEPT ![w].step =
                            IF w[1] = "queued" \/ live THEN "busy" ELSE "done"]
          /\ vm' = [vm EXCEPT ![w[2]] = IF w[1] = "queued" THEN "held" ELSE @]
    BY <1>3 DEF Dispatch
  <2>2. workers' \in [Workers -> WorkerType]
    BY <1>0, <2>1 DEF WorkerType
  <2>3. vm' \in [VMs -> VMStates]
    BY <1>0, <2>1 DEF QueueTypeOK, VMStates
  <2>4. Cardinality(eventCh') <= 1
    BY <1>3, FS_EmptySet DEF Dispatch
  <2> QED
    BY <1>3, <2>2, <2>3, <2>4 DEF Dispatch, TypeOK, QueueTypeOK, WorkerType
<1>4. ASSUME NEW w \in Workers, NEW q \in Queues, StartPush(w, q)
      PROVE  TypeOK'
  <2>1. workers' \in [Workers -> WorkerType]
    BY <1>0, <1>4, TimesType DEF StartPush, WorkerType
  <2>2. vm' \in [VMs -> VMStates]
    BY <1>0, <1>4 DEF StartPush, QueueTypeOK, VMStates
  <2> QED
    BY <1>4, <2>1, <2>2 DEF StartPush, TypeOK, QueueTypeOK, WorkerType
<1>5. ASSUME NEW w \in Workers, SendEvent(w)
      PROVE  TypeOK'
  <2>1. w[2] \in VMs /\ workers[w].queue \in Queues /\ workers[w].ttl \in TTLs
    BY <1>0 DEF Workers, WorkerType
  <2>2. QueueTypeOK'
    BY <1>0, <1>5, <2>1, AcceptEffect DEF SendEvent
  <2>3. workers' \in [Workers -> WorkerType]
    BY <1>0, <1>5 DEF SendEvent, WorkerType
  <2> QED
    BY <1>5, <2>2, <2>3 DEF SendEvent, TypeOK, WorkerType
<1>6. ASSUME NEW w \in Workers, SendPanics(w)
      PROVE  TypeOK'
  BY <1>6 DEF SendPanics, TypeOK, QueueTypeOK, MainSteps
<1>7. CASE Run
  <2>1. main' \in MainSteps /\ UNCHANGED <<listenVars, workers>>
    BY <1>7 DEF Run, ListenReturns, DrainCompletionQueue, ClosePools, CloseQueue, MainSteps, TypeOK
  <2>2. QueueTypeOK'
    <3>1. CASE UNCHANGED queueVars
      BY <1>0, <3>1 DEF QueueTypeOK
    <3>2. ASSUME NEW q \in Queues, Receive(q) PROVE QueueTypeOK'
      BY <1>0, <3>2, ReceiveEffect
    <3>3. ASSUME NEW q \in Queues, CloseCQ(q) PROVE QueueTypeOK'
      BY <1>0, <3>3 DEF CloseCQ, QueueTypeOK
    <3> QED
      BY <1>7, <3>1, <3>2, <3>3
         DEF Run, ListenReturns, DrainCompletionQueue, ClosePools, CloseQueue
  <2> QED
    BY <2>1, <2>2 DEF TypeOK
<1>8. ASSUME NEW q \in Queues, Expiration(q)
      PROVE  TypeOK'
  BY <1>0, <1>8, ScanEffect DEF Expiration, TypeOK
<1>9. CASE Tick
  <2>1. QueueTypeOK'
    BY <1>0, <1>9, AgeEffect DEF Tick
  <2>2. workers' \in [Workers -> WorkerType]
    BY <1>0, <1>9, TimesType DEF Tick, WorkerType
  <2> QED
    BY <1>9, <2>1, <2>2 DEF Tick, TypeOK, WorkerType
<1>10. CASE UNCHANGED vars
  BY <1>10 DEF vars, TypeOK, QueueTypeOK
<1> QED
  BY <1>1, <1>2, <1>3, <1>4, <1>5, <1>6, <1>7, <1>8, <1>9, <1>10 DEF Next

-----------------------------------------------------------------------------
(* The other parts of the invariant. *)

LEMMA WorkersAre ==
  \A w \in Workers : w[1] \in Kinds /\ w[2] \in VMs /\ w = <<w[1], w[2]>>
  BY DEF Workers

\* What has been sent is not taken back; its time passes with the clock.
LEMMA SentStays ==
  ASSUME TypeOK, EventsInOrder, [Next]_vars, NEW w \in Workers, workers[w].step = "sent"
  PROVE  /\ workers'[w].step = "sent"
         /\ workers'[w].ttl = IF Tick THEN Older(workers[w].ttl) ELSE workers[w].ttl
<1>0. workers \in [Workers -> WorkerType]
  BY DEF TypeOK, WorkerType
<1>1. CASE Tick
  BY <1>0, <1>1 DEF Tick, WorkerType
<1>2. CASE ~Tick
  <2> SUFFICES workers'[w] = workers[w]
    BY <1>2
  <2>1. CASE Dispatch
    BY <1>0, <2>1 DEF Dispatch, EventsInOrder, WorkerType
  <2>2. ASSUME NEW x \in Workers, NEW q \in Queues, StartPush(x, q)
        PROVE  workers'[w] = workers[w]
    BY <1>0, <2>2 DEF StartPush
  <2>3. ASSUME NEW x \in Workers, SendEvent(x)
        PROVE  workers'[w] = workers[w]
    BY <1>0, <2>3 DEF SendEvent
  <2> QED
    BY <1>2, <2>1, <2>2, <2>3
       DEF Next, WaitForEvent, ReaderReturns, LeaveLoop, Interrupt, SendPanics, Run, ListenReturns,
           DrainCompletionQueue, ClosePools, CloseQueue, Expiration, vars
<1> QED
  BY <1>1, <1>2

LEMMA EventsInOrderStep ==
  ASSUME TypeOK, EventsInOrder, [Next]_vars
  PROVE  EventsInOrder'
<1>0. workers \in [Workers -> WorkerType] /\ eventCh \subseteq Workers
  BY DEF TypeOK, WorkerType
<1>1. ASSUME NEW w \in Workers, WaitForEvent(w)
      PROVE  EventsInOrder'
  BY <1>1 DEF WaitForEvent, EventsInOrder
<1>2. CASE Dispatch
  <2>1. PICK w \in eventCh :
          workers' = [workers EXCEPT ![w].step =
             IF w[1] = "queued" \/ workers[<<"queued", w[2]>>].step \in {"busy", "sending"}
             THEN "busy" ELSE "done"]
    BY <1>2 DEF Dispatch
  <2>2. eventCh' = {}
    BY <1>2 DEF Dispatch
  <2>3. \A x \in Workers : x # w => workers'[x] = workers[x]
    BY <1>0, <2>1
  <2>4. workers'[w].step # "none"
    BY <1>0, <2>1 DEF WorkerType
  <2>5. ASSUME NEW v \in VMs, workers'[<<"completed", v>>].step # "none"
        PROVE  workers'[<<"queued", v>>].step # "none"
    <3>1. <<"queued", v>> \in Workers /\ <<"completed", v>> \in Workers
      BY DEF Workers, Kinds
    <3>2. CASE w = <<"completed", v>>
      BY <1>0, <2>3, <3>1, <3>2 DEF EventsInOrder
    <3>3. CASE w = <<"queued", v>>
      BY <2>4, <3>3
    <3> QED
      BY <2>3, <2>5, <3>1, <3>2, <3>3 DEF EventsInOrder
  <2> QED
    BY <2>2, <2>5 DEF EventsInOrder
<1>3. ASSUME \A w \in Workers : workers'[w].step = "none" <=> workers[w].step = "none",
             UNCHANGED eventCh
      PROVE  EventsInOrder'
  <2>1. \A v \in VMs : <<"queued", v>> \in Workers /\ <<"completed", v>> \in Workers
    BY DEF Workers, Kinds
  <2> QED
    BY <1>0, <1>3, <2>1, WorkersAre DEF EventsInOrder
<1>4. ASSUME NEW w \in Workers, NEW q \in Queues, StartPush(w, q)
      PROVE  EventsInOrder'
  <2>1. \A x \in Workers : workers'[x].step = "none" <=> workers[x].step = "none"
    BY <1>0, <1>4 DEF StartPush, WorkerType
  <2> QED
    BY <1>3, <1>4, <2>1 DEF StartPush, listenVars
<1>5. ASSUME NEW w \in Workers, SendEvent(w)
      PROVE  EventsInOrder'
  <2>1. \A x \in Workers : workers'[x].step = "none" <=> workers[x].step = "none"
    BY <1>0, <1>5 DEF SendEvent, WorkerType
  <2> QED
    BY <1>3, <1>5, <2>1 DEF SendEvent, listenVars
<1>6. CASE Tick
  <2>1. \A x \in Workers : workers'[x].step = "none" <=> workers[x].step = "none"
    BY <1>0, <1>6 DEF Tick, WorkerType
  <2> QED
    BY <1>3, <1>6, <2>1 DEF Tick, listenVars
<1>7. CASE UNCHANGED <<eventCh, workers>>
  BY <1>3, <1>7
<1> QED
  BY <1>1, <1>2, <1>4, <1>5, <1>6, <1>7
     DEF Next, ReaderReturns, LeaveLoop, Interrupt, SendPanics, Run, ListenReturns,
         DrainCompletionQueue, ClosePools, CloseQueue, Expiration, vars, listenVars

\* A step that touches a queue sends, receives, scans, or is a tick.
LEMMA QueueSteps ==
  ASSUME TypeOK, [Next]_vars
  PROVE  \/ \E w \in Workers : SendEvent(w)
         \/ \E q \in Queues : Removes(q) /\ UNCHANGED workers
         \/ Tick
         \/ UNCHANGED queue
<1>1. ASSUME NEW q \in Queues, Receive(q) PROVE Removes(q)
  BY <1>1, ReceiveEffect DEF TypeOK
<1>2. ASSUME NEW q \in Queues, Scan(q) PROVE Removes(q)
  BY <1>2, ScanEffect DEF TypeOK
<1> QED
  BY <1>1, <1>2
     DEF Next, WaitForEvent, Dispatch, StartPush, ReaderReturns, LeaveLoop, Interrupt, SendPanics,
         Run, ListenReturns, DrainCompletionQueue, ClosePools, CloseQueue, CloseCQ, Expiration,
         vars, listenVars, queueVars

LEMMA EventsAreSentStep ==
  ASSUME TypeOK, EventsInOrder, EventsAreSent, [Next]_vars
  PROVE  EventsAreSent'
<1>0. /\ workers \in [Workers -> WorkerType] /\ QueueTypeOK
      /\ \A q \in Queues : \A i \in DOMAIN queue[q] :
            /\ queue[q][i] \in CompletionEvent
            /\ \A k \in Kinds : <<k, queue[q][i].vm>> \in Workers
  <2>1. \A q \in Queues : \A i \in DOMAIN queue[q] : queue[q][i] \in CompletionEvent
    BY ElementOfSeq DEF TypeOK, QueueTypeOK
  <2> QED
    BY <2>1 DEF TypeOK, WorkerType, Workers, CompletionEvent
<1>1. ASSUME NEW w \in Workers, SendEvent(w)
      PROVE  EventsAreSent'
  <2>1. w[2] \in VMs /\ w[1] \in Kinds /\ w = <<w[1], w[2]>>
        /\ workers[w].queue \in Queues /\ workers[w].ttl \in TTLs
    BY <1>0, WorkersAre DEF WorkerType
  <2> DEFINE p == workers[w].queue
  <2>2. Accept(p, w[2], workers[w].ttl) /\ workers' = [workers EXCEPT ![w].step = "sent"]
    BY <1>1 DEF SendEvent
  <2>3. /\ \A q \in Queues \ {p} : queue'[q] = queue[q]
        /\ DOMAIN queue'[p] = 1..Len(queue[p]) + 1 /\ DOMAIN queue[p] = 1..Len(queue[p])
        /\ \A i \in DOMAIN queue[p] : queue'[p][i] = queue[p][i]
        /\ queue'[p][Len(queue[p]) + 1] = [vm |-> w[2], ttl |-> workers[w].ttl]
        /\ Len(queue[p]) \in Nat
    BY <1>0, <2>1, <2>2, AcceptEffect DEF QueueTypeOK
  <2>4. workers'[w].step = "sent" /\ workers'[w].ttl = workers[w].ttl
        /\ \A x \in Workers : workers'[x].ttl = workers[x].ttl
                             /\ (workers[x].step = "sent" => workers'[x].step = "sent")
    BY <1>0, <2>2 DEF WorkerType
  <2>5. ASSUME NEW q \in Queues, NEW i \in DOMAIN queue'[q]
        PROVE  \E k \in Kinds : /\ workers'[<<k, queue'[q][i].vm>>].step = "sent"
                               /\ workers'[<<k, queue'[q][i].vm>>].ttl = queue'[q][i].ttl
    <3>1. CASE i \in DOMAIN queue[q] /\ queue'[q][i] = queue[q][i]
      BY <1>0, <2>4, <3>1 DEF EventsAreSent, Event
    <3>2. CASE q = p /\ i = Len(queue[p]) + 1
      <4>1. queue'[q][i].vm = w[2] /\ queue'[q][i].ttl = workers[w].ttl
        BY <2>3, <3>2
      <4>2. /\ workers'[<<w[1], queue'[q][i].vm>>].step = "sent"
            /\ workers'[<<w[1], queue'[q][i].vm>>].ttl = queue'[q][i].ttl
        BY <2>1, <2>4, <4>1
      <4> QED
        BY <2>1, <4>2
    <3>3. CASE q # p
      BY <2>3, <3>1, <3>3
    <3>4. CASE q = p /\ i # Len(queue[p]) + 1
      <4>1. i \in 1..Len(queue[p]) + 1
        BY <2>3, <3>4
      <4>2. i \in DOMAIN queue[p]
        BY <2>3, <3>4, <4>1
      <4> QED
        BY <2>3, <3>1, <3>4, <4>2
    <3> QED
      BY <3>2, <3>3, <3>4
  <2> QED
    BY <2>5 DEF EventsAreSent, Event
<1>2. ASSUME NEW p \in Queues, Removes(p), UNCHANGED workers
      PROVE  EventsAreSent'
  <2>1. \A q \in Queues : \A i \in DOMAIN queue'[q] : \E j \in DOMAIN queue[q] : queue'[q][i] = queue[q][j]
    BY <1>2 DEF Removes
  <2> QED
    BY <1>2, <2>1 DEF EventsAreSent, Event
<1>3. CASE Tick
  <2>1. \A q \in Queues : /\ DOMAIN queue'[q] = DOMAIN queue[q]
                        /\ \A i \in DOMAIN queue[q] :
                              /\ queue'[q][i].vm = queue[q][i].vm
                              /\ queue'[q][i].ttl = Older(queue[q][i].ttl)
    <3>1. QueueTypeOK /\ queue' = QueuesAge /\ UNCHANGED <<closed, vm>>
      BY <1>0, <1>3 DEF Tick
    <3> HIDE <1>0
    <3> QED
      BY <3>1, AgeEffect
  <2>2. ASSUME NEW q \in Queues, NEW i \in DOMAIN queue'[q]
        PROVE  \E k \in Kinds : /\ workers'[<<k, queue'[q][i].vm>>].step = "sent"
                               /\ workers'[<<k, queue'[q][i].vm>>].ttl = queue'[q][i].ttl
    <3>1. /\ i \in DOMAIN queue[q] /\ queue'[q][i].vm = queue[q][i].vm
          /\ queue'[q][i].ttl = Older(queue[q][i].ttl)
      BY <2>1
    <3>2. PICK k \in Kinds : /\ workers[<<k, queue[q][i].vm>>].step = "sent"
                             /\ workers[<<k, queue[q][i].vm>>].ttl = queue[q][i].ttl
      BY <3>1 DEF EventsAreSent, Event
    <3>3. <<k, queue[q][i].vm>> \in Workers
      BY <1>0, <3>1
    <3> QED
      BY <1>3, <3>1, <3>2, <3>3, SentStays
  <2> QED
    BY <2>2 DEF EventsAreSent, Event
<1>4. CASE UNCHANGED queue /\ ~Tick
  <2>1. ASSUME NEW q \in Queues, NEW i \in DOMAIN queue[q]
        PROVE  \E k \in Kinds : /\ workers'[<<k, queue[q][i].vm>>].step = "sent"
                               /\ workers'[<<k, queue[q][i].vm>>].ttl = queue[q][i].ttl
    <3>2. PICK k \in Kinds : /\ workers[<<k, queue[q][i].vm>>].step = "sent"
                             /\ workers[<<k, queue[q][i].vm>>].ttl = queue[q][i].ttl
      BY DEF EventsAreSent, Event
    <3>3. <<k, queue[q][i].vm>> \in Workers
      BY <1>0
    <3> QED
      BY <1>4, <3>2, <3>3, SentStays
  <2> QED
    BY <1>4, <2>1 DEF EventsAreSent, Event
<1> QED
  BY <1>1, <1>2, <1>3, <1>4, QueueSteps

LEMMA SentIsKeptStep ==
  ASSUME TypeOK, EventsInOrder, SentIsKept, [Next]_vars
  PROVE  SentIsKept'
<1>0. /\ workers \in [Workers -> WorkerType] /\ QueueTypeOK
      /\ vm \in [VMs -> VMStates]
  BY DEF TypeOK, WorkerType, QueueTypeOK
<1>1. ASSUME NEW w \in Workers, SendEvent(w)
      PROVE  SentIsKept'
  <2>1. w[2] \in VMs /\ workers[w].queue \in Queues /\ workers[w].ttl \in TTLs
    BY <1>0, WorkersAre DEF WorkerType
  <2> DEFINE p == workers[w].queue
  <2>2. Accept(p, w[2], workers[w].ttl) /\ workers' = [workers EXCEPT ![w].step = "sent"]
    BY <1>1 DEF SendEvent
  <2>3. /\ \A q \in Queues \ {p} : queue'[q] = queue[q]
        /\ DOMAIN queue'[p] = 1..Len(queue[p]) + 1 /\ DOMAIN queue[p] = 1..Len(queue[p])
        /\ \A i \in DOMAIN queue[p] : queue'[p][i] = queue[p][i]
        /\ queue'[p][Len(queue[p]) + 1] = [vm |-> w[2], ttl |-> workers[w].ttl]
        /\ Len(queue[p]) \in Nat /\ vm' = vm
    BY <1>0, <2>1, <2>2, AcceptEffect DEF QueueTypeOK
  <2>4. Queued(w[2])'
    <3>1. Len(queue[p]) + 1 \in DOMAIN queue'[p]
      BY <2>3
    <3>2. queue'[p][Len(queue[p]) + 1].vm = w[2]
      BY <2>3
    <3> QED
      BY <2>1, <3>1, <3>2 DEF Queued, Event
  <2>5. ASSUME NEW v \in VMs, Queued(v) PROVE Queued(v)'
    <3>1. PICK q \in Queues : \E i \in DOMAIN queue[q] : queue[q][i].vm = v
      BY <2>5 DEF Queued, Event
    <3>2. PICK i \in DOMAIN queue[q] : queue[q][i].vm = v
      BY <3>1
    <3>3. i \in DOMAIN queue'[q] /\ queue'[q][i] = queue[q][i]
      <4>1. CASE q = p
        BY <2>3, <4>1
      <4>2. CASE q # p
        BY <2>3, <4>2
      <4> QED
        BY <4>1, <4>2
    <3> QED
      BY <3>2, <3>3 DEF Queued, Event
  <2>6. \A x \in Workers \ {w} : workers'[x] = workers[x]
    BY <1>0, <2>2
  <2> QED
    BY <2>3, <2>4, <2>5, <2>6, WorkersAre DEF SentIsKept
<1>2. ASSUME NEW p \in Queues, Removes(p), UNCHANGED workers
      PROVE  SentIsKept'
  <2> SUFFICES ASSUME NEW w \in Workers, workers[w].step = "sent", vm'[w[2]] \notin Gone
               PROVE  Queued(w[2])'
    BY <1>2 DEF SentIsKept
  <2>1. w[2] \in VMs /\ vm[w[2]] \notin Gone
    BY <1>2, WorkersAre DEF Removes
  <2>2. Queued(w[2])
    BY <2>1 DEF SentIsKept
  <2>3. PICK q \in Queues : \E i \in DOMAIN queue[q] : queue[q][i].vm = w[2]
    BY <2>2 DEF Queued, Event
  <2>4. PICK i \in DOMAIN queue[q] : queue[q][i].vm = w[2]
    BY <2>3
  <2>5. \E j \in DOMAIN queue'[q] : queue'[q][j] = queue[q][i]
    <3>1. CASE q = p
      BY <1>2, <2>4, <3>1 DEF Removes
    <3>2. CASE q # p
      BY <1>2, <3>2 DEF Removes
    <3> QED
      BY <3>1, <3>2
  <2> QED
    BY <2>4, <2>5 DEF Queued, Event
<1>3. CASE Tick
  <2>1. \A q \in Queues : /\ DOMAIN queue'[q] = DOMAIN queue[q]
                        /\ \A i \in DOMAIN queue[q] :
                              /\ queue'[q][i].vm = queue[q][i].vm
                              /\ queue'[q][i].ttl = Older(queue[q][i].ttl)
    <3>1. QueueTypeOK /\ queue' = QueuesAge /\ UNCHANGED <<closed, vm>>
      BY <1>0, <1>3 DEF Tick
    <3> HIDE <1>0
    <3> QED
      BY <3>1, AgeEffect
  <2>2. \A v \in VMs : Queued(v) => Queued(v)'
    BY <2>1 DEF Queued, Event
  <2>3. vm' = vm /\ \A w \in Workers : workers'[w].step = workers[w].step
    BY <1>0, <1>3 DEF Tick, WorkerType
  <2> QED
    BY <2>2, <2>3, WorkersAre DEF SentIsKept
<1>4. CASE Dispatch
  <2>1. PICK w \in eventCh :
          /\ workers' = [workers EXCEPT ![w].step =
               IF w[1] = "queued" \/ workers[<<"queued", w[2]>>].step \in {"busy", "sending"}
               THEN "busy" ELSE "done"]
          /\ vm' = [vm EXCEPT ![w[2]] = IF w[1] = "queued" THEN "held" ELSE @]
    BY <1>4 DEF Dispatch
  <2>2. queue' = queue /\ w \in Workers /\ w[2] \in VMs
    BY <1>4, WorkersAre DEF Dispatch, TypeOK
  <2>3. workers'[w].step # "sent" /\ \A x \in Workers \ {w} : workers'[x] = workers[x]
    BY <1>0, <2>1, <2>2 DEF WorkerType
  <2>4. ASSUME NEW x \in Workers, workers[x].step = "sent", x # w
        PROVE  vm'[x[2]] = vm[x[2]]
    <3>1. CASE x[2] = w[2] /\ w[1] = "queued"
      <4>1. w = <<"queued", x[2]>> /\ workers[w].step = "none"
        BY <3>1, <2>2, WorkersAre DEF EventsInOrder
      <4>2. x = <<"completed", x[2]>>
        BY <2>4, <4>1, WorkersAre DEF Kinds
      <4> QED
        BY <2>4, <2>2, <4>1, <4>2, <3>1 DEF EventsInOrder
    <3>2. CASE ~(x[2] = w[2] /\ w[1] = "queued")
      BY <1>0, <2>1, <2>2, <3>2, WorkersAre
    <3> QED
      BY <3>1, <3>2
  <2>5. \A v : Queued(v)' = Queued(v)
    BY <2>2 DEF Queued, Event
  <2> QED
    BY <2>2, <2>3, <2>4, <2>5 DEF SentIsKept
<1>5. ASSUME NEW w \in Workers, NEW q \in Queues, StartPush(w, q)
      PROVE  SentIsKept'
  <2>1. queue' = queue /\ \A v \in VMs : vm[v] \in Gone => vm'[v] \in Gone
    BY <1>0, <1>5 DEF StartPush, Gone
  <2>2. workers'[w].step # "sent" /\ \A x \in Workers \ {w} : workers'[x] = workers[x]
    BY <1>0, <1>5 DEF StartPush
  <2>3. \A v : Queued(v)' = Queued(v)
    BY <2>1 DEF Queued, Event
  <2> QED
    BY <2>1, <2>2, <2>3, WorkersAre DEF SentIsKept
<1>6. CASE UNCHANGED <<queue, vm, workers>>
  BY <1>6 DEF SentIsKept, Queued, Event
<1>7. ASSUME NEW q \in Queues, Receive(q) PROVE Removes(q)
  BY <1>0, <1>7, ReceiveEffect
<1>8. ASSUME NEW q \in Queues, Scan(q) PROVE Removes(q)
  BY <1>0, <1>8, ScanEffect
<1> QED
  BY <1>1, <1>2, <1>3, <1>4, <1>5, <1>6, <1>7, <1>8
     DEF Next, WaitForEvent, ReaderReturns, LeaveLoop, Interrupt, SendPanics, Run, ListenReturns,
         DrainCompletionQueue, ClosePools, CloseQueue, CloseCQ, Expiration, vars, listenVars,
         queueVars

\* A closed queue that is empty stays so.
LEMMA ClosedStaysEmpty ==
  ASSUME TypeOK, [Next]_vars, NEW q \in Queues, q \in closed, queue[q] = <<>>
  PROVE  q \in closed' /\ queue'[q] = <<>>
<1>0. QueueTypeOK /\ workers \in [Workers -> WorkerType]
  BY DEF TypeOK, WorkerType
<1>1. ASSUME NEW w \in Workers, SendEvent(w)
      PROVE  q \in closed' /\ queue'[q] = <<>>
  <2>1. /\ workers[w].queue \in Queues /\ workers[w].queue # q /\ UNCHANGED closed
        /\ queue' = [queue EXCEPT ![workers[w].queue] =
                        Append(@, [vm |-> w[2], ttl |-> workers[w].ttl])]
    BY <1>0, <1>1 DEF SendEvent, Accept, WorkerType
  <2> QED
    BY <1>0, <2>1 DEF QueueTypeOK
<1>2. ASSUME NEW p \in Queues, Receive(p)
      PROVE  q \in closed' /\ queue'[q] = <<>>
  BY <1>0, <1>2 DEF Receive, QueueTypeOK
<1>3. ASSUME NEW p \in Queues, Scan(p)
      PROVE  q \in closed' /\ queue'[q] = <<>>
  BY <1>0, <1>3, ScanEffect DEF Removes
<1>4. ASSUME NEW p \in Queues, CloseCQ(p)
      PROVE  q \in closed' /\ queue'[q] = <<>>
  BY <1>4 DEF CloseCQ
<1>5. CASE Tick
  BY <1>0, <1>5, AgeOfNone DEF Tick
<1>6. CASE UNCHANGED <<queue, closed>>
  BY <1>6
<1> QED
  BY <1>1, <1>2, <1>3, <1>4, <1>5, <1>6
     DEF Next, WaitForEvent, ReaderReturns, Dispatch, StartPush, LeaveLoop, Interrupt, SendPanics,
         Run, ListenReturns, DrainCompletionQueue, ClosePools, CloseQueue, Expiration, vars,
         queueVars

LEMMA ClosingStep ==
  ASSUME TypeOK, Closing, [Next]_vars
  PROVE  Closing'
<1>0. "success" \in Queues /\ "failure" \in Queues
  BY DEF Queues
<1>1. CASE UNCHANGED <<main, closed>>
  BY <1>0, <1>1, ClosedStaysEmpty DEF Closing
<1>2. ASSUME NEW w \in Workers, SendPanics(w)
      PROVE  Closing'
  BY <1>2 DEF SendPanics, queueVars, Closing
<1>3. CASE LeaveLoop \/ ListenReturns \/ DrainCompletionQueue \/ ClosePools
  <2>1. closed' = closed
    BY <1>3 DEF LeaveLoop, ListenReturns, DrainCompletionQueue, ClosePools, Receive, queueVars
  <2> QED
    BY <1>3, <2>1 DEF LeaveLoop, ListenReturns, DrainCompletionQueue, ClosePools, Closing
<1>4. CASE CloseQueue
  <2>1. CASE CloseCQ(main) /\ UNCHANGED main
    BY <1>4, <2>1 DEF CloseQueue, CloseCQ, Closing, Queues
  <2>2. CASE main \in closed /\ Receive(main) /\ UNCHANGED main
    BY <1>0, <1>1, <2>2 DEF Receive
  <2>3. CASE /\ main \in closed /\ queue[main] = <<>>
             /\ main' = IF main = "success" THEN "failure" ELSE "exited"
             /\ UNCHANGED queueVars
    BY <1>4, <2>3 DEF CloseQueue, Closing, Queues, queueVars
  <2> QED
    BY <1>4, <2>1, <2>2, <2>3 DEF CloseQueue
<1>5. ASSUME NEW w \in Workers, SendEvent(w)
      PROVE  Closing'
  BY <1>1, <1>5 DEF SendEvent, Accept
<1>6. ASSUME NEW q \in Queues, Expiration(q)
      PROVE  Closing'
  BY <1>1, <1>6 DEF Expiration, Scan
<1> QED
  BY <1>1, <1>2, <1>3, <1>4, <1>5, <1>6
     DEF Next, Run, WaitForEvent, ReaderReturns, Dispatch, StartPush, Interrupt, Tick, vars, queueVars

LEMMA AwaitedStep ==
  ASSUME TypeOK, Closing, Awaited, [Next]_vars
  PROVE  Awaited'
<1>0. /\ workers \in [Workers -> WorkerType]
      /\ \A v \in VMs : <<"completed", v>> \in Workers
  BY DEF TypeOK, WorkerType, Workers, Kinds
<1> DEFINE Pushing(v) == workers[<<"completed", v>>].step \in {"busy", "sending"}
           Over == main \in {"drain", "pools", "success", "failure", "exited"} \/ closed # {}
<1>1. CASE Dispatch
  <2>1. main' = "select" /\ closed' = {}
    BY <1>1 DEF Dispatch, Closing
  <2> QED
    BY <2>1 DEF Awaited
<1>2. CASE ListenReturns
  BY <1>2 DEF ListenReturns, queueVars, Awaited
<1>3. ASSUME Over' => Over, \A v \in VMs : Pushing(v)' => Pushing(v)
      PROVE  Awaited'
  BY <1>3 DEF Awaited
<1>4. ASSUME NEW w \in Workers, NEW q \in Queues, StartPush(w, q)
      PROVE  Awaited'
  <2>1. \A v \in VMs : Pushing(v)' => Pushing(v)
    BY <1>0, <1>4 DEF StartPush
  <2> QED
    BY <1>3, <1>4, <2>1 DEF StartPush
<1>5. ASSUME NEW w \in Workers, SendEvent(w)
      PROVE  Awaited'
  <2>1. \A v \in VMs : Pushing(v)' => Pushing(v)
    BY <1>0, <1>5 DEF SendEvent, WorkerType
  <2> QED
    BY <1>3, <1>5, <2>1 DEF SendEvent, Accept
<1>6. CASE Tick
  <2>1. \A v \in VMs : Pushing(v)' => Pushing(v)
    BY <1>0, <1>6 DEF Tick, WorkerType
  <2> QED
    BY <1>3, <1>6, <2>1 DEF Tick
<1>7. CASE CloseQueue \/ DrainCompletionQueue \/ ClosePools
  <2>1. UNCHANGED workers
    BY <1>7 DEF CloseQueue, DrainCompletionQueue, ClosePools
  <2>2. Over
    BY <1>7 DEF CloseQueue, DrainCompletionQueue, ClosePools, Queues
  <2> QED
    BY <1>3, <2>1, <2>2
<1>8. ASSUME NEW q \in Queues, Expiration(q)
      PROVE  Awaited'
  BY <1>3, <1>8 DEF Expiration, Scan
<1>9. ASSUME NEW w \in Workers, WaitForEvent(w) \/ SendPanics(w)
      PROVE  Awaited'
  BY <1>3, <1>9 DEF WaitForEvent, SendPanics, queueVars
<1>10. CASE ReaderReturns \/ LeaveLoop \/ Interrupt \/ UNCHANGED vars
  BY <1>3, <1>10 DEF ReaderReturns, LeaveLoop, Interrupt, vars, queueVars
<1> QED
  BY <1>1, <1>2, <1>4, <1>5, <1>6, <1>7, <1>8, <1>9, <1>10 DEF Next, Run

LEMMA KeptStep ==
  ASSUME TypeOK, EventsInOrder, EventsAreSent, KeptForRetention, [Next]_vars
  PROVE  KeptForRetention'
<1>0. workers \in [Workers -> WorkerType] /\ QueueTypeOK
  BY DEF TypeOK, WorkerType
<1> SUFFICES ASSUME main' \in {"select", "wait"}, NEW v \in VMs, vm'[v] \in Gone
             PROVE  \E k \in Kinds : /\ workers'[<<k, v>>].step = "sent"
                                    /\ workers'[<<k, v>>].ttl < 0
  BY DEF KeptForRetention
<1>1. ASSUME NEW k \in Kinds, workers[<<k, v>>].step = "sent", workers[<<k, v>>].ttl < 0
      PROVE  workers'[<<k, v>>].step = "sent" /\ workers'[<<k, v>>].ttl < 0
  <2>1. <<k, v>> \in Workers /\ workers[<<k, v>>].ttl \in TTLs
    BY <1>0 DEF Workers, WorkerType
  <2> QED
    BY <1>1, <2>1, SentStays, TimesType
<1>2. CASE vm[v] \in Gone
  <2>1. main \in {"select", "wait"}
    BY DEF Next, WaitForEvent, ReaderReturns, Dispatch, LeaveLoop, Interrupt, StartPush, SendEvent,
           SendPanics, Run, ListenReturns, DrainCompletionQueue, ClosePools, CloseQueue, Queues,
           Expiration, Tick, vars
  <2> QED
    BY <1>1, <1>2, <2>1 DEF KeptForRetention
<1>3. CASE vm[v] \notin Gone
  <2>1. PICK q \in Queues : Expiration(q)
    BY <1>0, <1>3
       DEF Next, WaitForEvent, ReaderReturns, Dispatch, LeaveLoop, Interrupt, StartPush, SendEvent,
           Accept, SendPanics, Run, ListenReturns, DrainCompletionQueue, ClosePools, CloseQueue,
           Queues, Tick, vars, queueVars, QueueTypeOK, VMStates, Gone
  <2>2. PICK j \in DOMAIN queue[q] : queue[q][j].vm = v /\ queue[q][j].ttl < 0
    BY <1>0, <1>3, <2>1, ScanEffect DEF Expiration
  <2>3. PICK k \in Kinds : workers[<<k, v>>].step = "sent" /\ workers[<<k, v>>].ttl < 0
    BY <2>2 DEF EventsAreSent, Event
  <2> QED
    BY <1>1, <2>3
<1> QED
  BY <1>2, <1>3

-----------------------------------------------------------------------------

\* The strengthening of the properties below: an event in a queue and the goroutine
\* that has sent it know of each other, whatever the shutdown does meanwhile.
THEOREM Shutdown == Spec => []ShutdownInv
<1>1. ShutdownInv /\ [Next]_vars => ShutdownInv'
  BY TypeStep, EventsAreSentStep, SentIsKeptStep, EventsInOrderStep, ClosingStep, AwaitedStep,
     KeptStep DEF ShutdownInv
<1> QED
  BY InitShutdown, <1>1, PTL DEF Spec

\* The state is of its type; the queues hold what they have room for.
THEOREM Typing == Spec => []TypeOK
  BY Shutdown, PTL DEF ShutdownInv

\* No Delete of a finished VM is called before its retention period is over while
\* the orchestrator serves.
THEOREM RetentionIsKept == Spec => []KeptForRetention
  BY Shutdown, PTL DEF ShutdownInv

\* A process that exits has called the Delete of every VM the queue was told of.
THEOREM NoVMIsForgotten == Spec => []NoVMForgotten
<1>1. ShutdownInv => NoVMForgotten
  <2> SUFFICES ASSUME ShutdownInv, main = "exited", NEW w \in Workers, workers[w].step = "sent"
               PROVE  vm[w[2]] \in Gone
    BY DEF NoVMForgotten
  <2>1. \A q \in Queues : queue[q] = <<>> /\ DOMAIN queue[q] = {}
    BY DEF ShutdownInv, Closing, Queues
  <2> QED
    BY <2>1 DEF ShutdownInv, SentIsKept, Queued
<1> QED
  BY Shutdown, <1>1, PTL

\* No handler that Listen waits for meets a closed queue.
THEOREM HandlersAreAwaited == Spec => []AwaitedBeforeClose
<1>1. ShutdownInv => AwaitedBeforeClose
  BY DEF ShutdownInv, Awaited, AwaitedBeforeClose
<1> QED
  BY Shutdown, <1>1, PTL

=============================================================================
