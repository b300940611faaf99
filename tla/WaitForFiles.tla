---------------------------- MODULE WaitForFiles ----------------------------
(***************************************************************************)
(* waitforfiles (src/waitforfiles/main.go): a goroutine per file polls for *)
(* it with a ticker until it is there, its time is up, or the process is   *)
(* interrupted; main waits for all of them and exits.                      *)
(*                                                                         *)
(* Time passes in units the scheduler is fast compared to: a goroutine     *)
(* that can go on does so before the clock does.  Where the ticker and the *)
(* deadline come at the same instant either one is taken.                  *)
(***************************************************************************)
EXTENDS Integers, FiniteSets

CONSTANTS
    Files,
    Second,       \* what an interval of 0 stands for
    MaxInterval, MaxTotal, MaxInitial, MaxTime   \* bounds

ASSUME TimesAssumption ==
    /\ Second \in Nat \ {0} /\ {MaxInterval, MaxTotal, MaxInitial} \subseteq Nat
    /\ MaxTime \in Nat /\ MaxTime > MaxInitial + MaxTotal

VARIABLES
    interval, total, initial,  \* the flags
    now,
    interrupted,   \* SIGINT or SIGTERM has come
    appeared,      \* when each file appeared, Never
    pc,            \* of each file's goroutine: "stat", "select", "found", "nil", "failed"
    ticked,        \* its ticker's channel holds a tick
    cause,         \* of its context: "none", "deadline", "interrupt"
    exit           \* "none" before, then the exit status, or "panic"

vars == <<interval, total, initial, now, interrupted, appeared, pc, ticked, cause, exit>>
flags == <<interval, total, initial>>

Never == -1
There(f) == appeared[f] # Never
Started == now >= initial

\* NewTicker is not given a 0, and panics with less.
Interval == IF interval > 0 THEN interval ELSE Second

TypeOK ==
    /\ interval \in -1..MaxInterval /\ total \in 0..MaxTotal /\ initial \in 0..MaxInitial
    /\ now \in 0..MaxTime /\ interrupted \in BOOLEAN
    /\ \A f \in Files :
          /\ There(f) => appeared[f] \in 0..now
          /\ pc[f] \in {"stat", "select", "found", "nil", "failed"}
          /\ pc[f] = "found" => There(f)
          /\ pc[f] = "select" /\ cause[f] = "none" => now < initial + total
    /\ ticked \in [Files -> BOOLEAN]
    /\ cause \in [Files -> {"none", "deadline", "interrupt"}]
    /\ exit \in {"none", "0", "1", "panic"}

\* -1 stands for every interval below 0; a total or an initial delay below 0 is as
\* good as 0.
Init ==
    /\ interval \in -1..MaxInterval /\ total \in 0..MaxTotal /\ initial \in 0..MaxInitial
    /\ now = 0 /\ interrupted = FALSE
    /\ appeared \in [Files -> {Never, 0}]
    /\ pc = [f \in Files |-> "stat"]
    /\ ticked = [f \in Files |-> FALSE]
    /\ cause = [f \in Files |-> "none"]
    /\ exit = "none"

Appears(f) ==
    /\ ~There(f) /\ appeared' = [appeared EXCEPT ![f] = now]
    /\ UNCHANGED <<flags, now, interrupted, pc, ticked, cause, exit>>

\* The signal cancels the context of all goroutines; the first cause stays.
Interrupt ==
    /\ ~interrupted /\ interrupted' = TRUE
    /\ cause' = [f \in Files |->
          IF pc[f] = "select" /\ cause[f] = "none" THEN "interrupt" ELSE cause[f]]
    /\ UNCHANGED <<flags, now, appeared, pc, ticked, exit>>

\* The first look, and the context that is derived after it.
Stat(f) ==
    /\ exit = "none" /\ Started /\ pc[f] = "stat"
    /\ There(f) \/ interval >= 0
    /\ pc' = [pc EXCEPT ![f] = IF There(f) THEN "found" ELSE "select"]
    /\ cause' = [cause EXCEPT ![f] = IF interrupted THEN "interrupt"
                                     ELSE IF total = 0 THEN "deadline" ELSE "none"]
    /\ UNCHANGED <<flags, now, interrupted, appeared, ticked, exit>>

\* The first look does not see the file and there can be no ticker.
NewTickerPanics(f) ==
    /\ exit = "none" /\ Started /\ pc[f] = "stat" /\ ~There(f) /\ interval < 0
    /\ exit' = "panic"
    /\ UNCHANGED <<flags, now, interrupted, appeared, pc, ticked, cause>>

\* Faulty variant: a tick only looks for what the one before has seen.
SelectTickLate(f) ==
    /\ pc[f] = "select" /\ ticked[f]
    /\ ticked' = [ticked EXCEPT ![f] = FALSE]
    /\ pc' = [pc EXCEPT ![f] = IF There(f) /\ appeared[f] < now - Interval
                               THEN "found" ELSE "select"]
    /\ UNCHANGED <<flags, now, interrupted, appeared, cause, exit>>

SelectTick(f) ==
    /\ pc[f] = "select" /\ ticked[f]
    /\ ticked' = [ticked EXCEPT ![f] = FALSE]
    /\ pc' = [pc EXCEPT ![f] = IF There(f) THEN "found" ELSE "select"]
    /\ UNCHANGED <<flags, now, interrupted, appeared, cause, exit>>

\* An interrupt is no error.
SelectDone(f) ==
    /\ pc[f] = "select" /\ cause[f] # "none"
    /\ pc' = [pc EXCEPT ![f] = IF cause[f] = "interrupt" THEN "nil" ELSE "failed"]
    /\ UNCHANGED <<flags, now, interrupted, appeared, ticked, cause, exit>>

\* Faulty variant: the first goroutine that ends decides.
ExitWithFirst ==
    /\ exit = "none" /\ \E f \in Files : pc[f] \in {"found", "nil", "failed"}
    /\ exit' = IF \E f \in Files : pc[f] = "failed" THEN "1" ELSE "0"
    /\ UNCHANGED <<flags, now, interrupted, appeared, pc, ticked, cause>>

\* wg.Wait, and the errors of all files; it is an error to wait for none.
Exit ==
    /\ exit = "none" /\ \A f \in Files : pc[f] \in {"found", "nil", "failed"}
    /\ exit' = IF Files = {} \/ \E f \in Files : pc[f] = "failed" THEN "1" ELSE "0"
    /\ UNCHANGED <<flags, now, interrupted, appeared, pc, ticked, cause>>

Busy == Started /\ \E f \in Files :
    \/ pc[f] = "stat"
    \/ pc[f] = "select" /\ (ticked[f] \/ cause[f] # "none")

\* Faulty variant: the time of a file's context is never up.
TickWithoutDeadline ==
    /\ ~Busy /\ now < MaxTime /\ exit = "none"
    /\ now' = now + 1
    /\ ticked' = [f \in Files |->
          ticked[f] \/ (pc[f] = "select" /\ (now' - initial) % Interval = 0)]
    /\ UNCHANGED <<flags, interrupted, appeared, pc, cause, exit>>

\* A tick nobody has received yet takes the place of the next one.
Tick ==
    /\ ~Busy /\ now < MaxTime /\ exit = "none"
    /\ now' = now + 1
    /\ ticked' = [f \in Files |->
          ticked[f] \/ (pc[f] = "select" /\ (now' - initial) % Interval = 0)]
    /\ cause' = [f \in Files |->
          IF pc[f] = "select" /\ cause[f] = "none" /\ now' = initial + total
          THEN "deadline" ELSE cause[f]]
    /\ UNCHANGED <<flags, interrupted, appeared, pc, exit>>

Next ==
    \/ Tick \/ Interrupt \/ Exit
    \/ \E f \in Files : \/ Appears(f) \/ Stat(f) \/ NewTickerPanics(f)
                        \/ SelectTick(f) \/ SelectDone(f)

Spec == Init /\ [][Next]_vars

\* Time passes and goroutines run; no file need appear, no signal come.
FairSpec ==
    /\ Spec /\ WF_vars(Tick) /\ WF_vars(Exit)
    /\ \A f \in Files : WF_vars(Stat(f) \/ NewTickerPanics(f) \/ SelectTick(f) \/ SelectDone(f))

-----------------------------------------------------------------------------

\* The last instant before the deadline at which a file is looked for.
LastLook == initial + IF total = 0 THEN 0 ELSE ((total - 1) \div Interval) * Interval

\* Status 1: some file was not there at the last look strictly before the
\* deadline.  One that was is found, though the deadline races the ticker; one
\* that came with the deadline may be missed.  (Or there was no file to wait for.)
FailureMeansLate ==
    exit = "1" => Files = {} \/ \E f \in Files : ~There(f) \/ appeared[f] >= LastLook

\* Status 0 without an interrupt: every file was there in time.  (With one it may
\* be missing: main.go:107-109.)
SuccessMeansThere ==
    exit = "0" /\ ~interrupted =>
        \A f \in Files : There(f) /\ appeared[f] <= initial + total

\* The process ends, whatever appears.
WaitEnds == <>(exit # "none")

=============================================================================
