-------------------------- MODULE RunnerLifecycle --------------------------
(***************************************************************************)
(* What the orchestrator promises of a runner instance, whoever handles    *)
(* which webhook and in what order:                                        *)
(*   - a VM is leased to at most one instance, and by a live one only;     *)
(*   - a lease ends by the VM being given back (StopAndRelease), or by a   *)
(*     Delete, which may fail, of a VM nothing ran on; it is never taken   *)
(*     up again;                                                           *)
(*   - the completion queue is told of a VM after it was given back, and   *)
(*     an instance with a VM is not retired before that;                   *)
(*   - a workflow is acknowledged as completed after its instance retired. *)
(***************************************************************************)
CONSTANTS
    Names,    \* runner-instance names
    Outcomes  \* what the completion queue may be told

VARIABLES
    life,         \* of each instance: "new", "live" or "retired"
    lease,        \* of each instance's VM: "none", "acquired", "released", "deleted"
                  \* or, where the deletion failed, "undeleted"
    told,         \* outcomes the completion queue was told of
    acknowledged  \* instances shown as completed

lifecycleVars == <<life, lease, told, acknowledged>>

Init ==
    /\ life = [n \in Names |-> "new"]
    /\ lease = [n \in Names |-> "none"]
    /\ told = [n \in Names |-> {}]
    /\ acknowledged = {}

\* What is shown may be dropped at any time (retention).
Forget == acknowledged' \subseteq acknowledged

Begin(n) ==
    /\ life[n] = "new"
    /\ life' = [life EXCEPT ![n] = "live"]
    /\ Forget /\ UNCHANGED <<lease, told>>

Acquire(n) ==
    /\ life[n] = "live" /\ lease[n] = "none"
    /\ lease' = [lease EXCEPT ![n] = "acquired"]
    /\ Forget /\ UNCHANGED <<life, told>>

GiveUp(n) ==
    /\ life[n] = "live" /\ lease[n] = "acquired"
    /\ \E how \in {"released", "deleted", "undeleted"} : lease' = [lease EXCEPT ![n] = how]
    /\ Forget /\ UNCHANGED <<life, told>>

Tell(n) ==
    /\ lease[n] = "released"
    /\ \E o \in Outcomes : told' = [told EXCEPT ![n] = @ \cup {o}]
    /\ Forget /\ UNCHANGED <<life, lease>>

Retire(n) ==
    /\ life[n] = "live" /\ lease[n] = "released" /\ told[n] # {}
    /\ life' = [life EXCEPT ![n] = "retired"]
    /\ Forget /\ UNCHANGED <<lease, told>>

Acknowledge(n) ==
    /\ life[n] = "retired"
    /\ acknowledged' \subseteq acknowledged \cup {n}
    /\ UNCHANGED <<life, lease, told>>

Next ==
    \/ \E n \in Names : Begin(n) \/ Acquire(n) \/ GiveUp(n) \/ Tell(n)
                        \/ Retire(n) \/ Acknowledge(n)
    \/ Forget /\ UNCHANGED <<life, lease, told>>

Spec == Init /\ [][Next]_lifecycleVars

=============================================================================
