--------------------------- MODULE StatusTracker ---------------------------
(***************************************************************************)
(* The orchestrator's record keeping of workflow jobs: githubclient's      *)
(* statusTracker (status.go).  The module holds no variable of its own:    *)
(* the tracker's map is a function from runner-instance names to records,  *)
(* and every operation on it is an operator on such functions, so that the *)
(* handlers that call the tracker (WorkflowHandler) can apply it inside    *)
(* the step of theirs that holds the tracker's lock.                       *)
(***************************************************************************)
EXTENDS Integers

CONSTANTS
    Names,       \* runner-instance names, one per handled "queued" event
    Conclusions, \* what GitHub says of a finished job: "success", "failure"...
    Retention,   \* web_ui status retention, in ticks; 0 or less: keep forever
    MaxTime      \* bound on the clock

ASSUME RetentionAssumption == Retention \in Int
ASSUME MaxTimeAssumption == MaxTime \in Nat \ {0}

-----------------------------------------------------------------------------

\* The zero time.Time; the clock starts at 1.
Never == 0
Times == 0..MaxTime

WorkflowStates == {"acquiring", "running", "vm_completed",
                   "completed", "failed", "canceled"}

\* "" is the Result of a record nobody has set one in.
Results == {"", "Succeeded", "Failed"} \cup Conclusions

\* The fields of WorkflowSnapshot that a decision depends on.  state "" is that
\* of a name the map has no record for: every mutation the handlers pass to
\* upsert sets the state.
WorkflowSnapshot ==
    [state         : WorkflowStates \cup {""},
     vmid          : {"", "set"},
     result        : Results,
     vmCompletedAt : Times,
     completedAt   : Times]

\* &WorkflowSnapshot{Name: name}, and equally a name with no record.
Absent == [state |-> "", vmid |-> "", result |-> "",
           vmCompletedAt |-> Never, completedAt |-> Never]

IsTerminal(s) == s \in {"completed", "failed", "canceled"}

\* time t is set and lies before the cutoff now - Retention
BeforeCutoff(t, now) == t # Never /\ t < now - Retention

Prunable(rec, now) ==
    /\ Retention > 0
    /\ \/ IsTerminal(rec.state) /\ BeforeCutoff(rec.completedAt, now)
       \/ rec.state = "vm_completed" /\ BeforeCutoff(rec.vmCompletedAt, now)

PruneLocked(recs, now) ==
    [n \in Names |-> IF Prunable(recs[n], now) THEN Absent ELSE recs[n]]

\* upsert(name, mutate): rec is what mutate makes of the record of n, absent
\* ones included.
Upsert(recs, n, rec, now) ==
    PruneLocked([recs EXCEPT ![n] = rec], now)

=============================================================================
