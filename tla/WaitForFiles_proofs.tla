------------------------ MODULE WaitForFiles_proofs ------------------------
(***************************************************************************)
(* What the exit status of waitforfiles says of the files, for every set   *)
(* of files and every value of the flags.                                  *)
(***************************************************************************)
EXTENDS WaitForFiles, TLAPS

\* The flags and the clock are numbers, and what the state is made of.
Types ==
    /\ interval \in Int /\ total \in Nat /\ initial \in Nat /\ now \in Nat
    /\ interrupted \in BOOLEAN
    /\ appeared \in [Files -> Nat \cup {Never}]
    /\ pc \in [Files -> {"stat", "select", "found", "nil", "failed"}]
    /\ ticked \in [Files -> BOOLEAN]
    /\ cause \in [Files -> {"none", "deadline", "interrupt"}]

\* Goroutines are fast: where each one can be at which time.
OnTime ==
    \A f \in Files :
        /\ There(f) => appeared[f] <= now
        /\ pc[f] = "stat" => now <= initial
        /\ pc[f] = "failed" => initial + total <= now
        /\ pc[f] = "select" =>
              /\ initial <= now /\ now <= initial + total
              /\ cause[f] = "none" => now < initial + total
              /\ cause[f] = "deadline" => now = initial + total

\* A file that was there before the last look is found then: the tick of that
\* instant is received before the clock moves on.
LastLookSees ==
    \A f \in Files :
        pc[f] = "select" /\ There(f) /\ appeared[f] < LastLook =>
            now < LastLook \/ (now = LastLook /\ total > 0 /\ ticked[f])

\* What each outcome of a file says.
Outcomes ==
    \A f \in Files :
        /\ pc[f] = "found" => There(f) /\ appeared[f] <= initial + total
        /\ pc[f] = "failed" => ~There(f) \/ appeared[f] >= LastLook
        /\ pc[f] = "nil" \/ cause[f] = "interrupt" => interrupted

Verdict ==
    /\ exit \in {"none", "0", "1", "panic"}
    /\ exit \in {"0", "1"} => \A f \in Files : pc[f] \in {"found", "nil", "failed"}
    /\ exit = "0" => \A f \in Files : pc[f] \in {"found", "nil"}
    /\ exit = "1" => Files = {} \/ \E f \in Files : pc[f] = "failed"

WaitInv == Types /\ OnTime /\ LastLookSees /\ Outcomes /\ Verdict

-----------------------------------------------------------------------------

\* The last look is a tick: a multiple of the interval after the start.
LEMMA LastLookTicks ==
  ASSUME interval \in Int, total \in Nat, initial \in Nat
  PROVE  /\ LastLook \in Nat /\ initial <= LastLook /\ LastLook <= initial + total
         /\ total > 0 => LastLook < initial + total
         /\ (LastLook - initial) % Interval = 0
<1>1. Interval \in Nat \ {0}
  BY TimesAssumption DEF Interval
<1>2. \A a \in Nat, b \in Nat \ {0} :
         /\ (a \div b) * b \in Nat /\ (a \div b) * b <= a
         /\ ((a \div b) * b) % b = 0
  OBVIOUS
<1>3. CASE total = 0
  BY <1>1, <1>2, <1>3 DEF LastLook
<1>4. CASE total > 0
  <2>1. total - 1 \in Nat
    BY <1>4
  <2> DEFINE turns == ((total - 1) \div Interval) * Interval
  <2>2. turns \in Nat /\ turns <= total - 1 /\ turns % Interval = 0
    BY <1>1, <1>2, <2>1
  <2>3. LastLook = initial + turns
    BY <1>4 DEF LastLook
  <2> HIDE DEF turns
  <2>4. LastLook - initial = turns
    BY <2>2, <2>3
  <2> QED
    BY <1>4, <2>2, <2>3, <2>4
<1> QED
  BY <1>3, <1>4

LEMMA InitWait == Init => WaitInv
<1> SUFFICES ASSUME Init PROVE WaitInv
  OBVIOUS
<1>1. Types
  <2>1. MaxInterval \in Nat /\ MaxTotal \in Nat /\ MaxInitial \in Nat
    BY TimesAssumption
  <2>2. appeared \in [Files -> Nat \cup {Never}]
    BY DEF Init
  <2>3. interval \in Int /\ total \in Nat /\ initial \in Nat
    BY <2>1 DEF Init
  <2> QED
    BY <2>2, <2>3 DEF Init, Types
<1>2. OnTime
  BY <1>1 DEF Init, Types, OnTime, There, Never
<1>3. LastLookSees /\ Outcomes /\ Verdict
  BY DEF Init, LastLookSees, Outcomes, Verdict
<1> QED
  BY <1>1, <1>2, <1>3 DEF WaitInv

LEMMA StepWait == WaitInv /\ [Next]_vars => WaitInv'
<1> SUFFICES ASSUME WaitInv, [Next]_vars PROVE WaitInv'
  OBVIOUS
<1> USE DEF WaitInv
<1>0. /\ LastLook \in Nat /\ initial <= LastLook /\ LastLook <= initial + total
      /\ total > 0 => LastLook < initial + total
      /\ (LastLook - initial) % Interval = 0
  BY LastLookTicks DEF Types
<1>1. CASE Tick
  <2>1. /\ now' = now + 1 /\ UNCHANGED <<flags, interrupted, appeared, pc, exit>>
        /\ LastLook' = LastLook /\ Interval' = Interval
    BY <1>1 DEF Tick, flags, LastLook, Interval
  <2>2. \A f \in Files : pc[f] = "stat" => now < initial
    BY <1>1 DEF Tick, Busy, Types, Started
  <2>3. \A f \in Files : pc[f] = "select" => ~ticked[f] /\ cause[f] = "none"
    BY <1>1 DEF Tick, Busy, Types, OnTime, Started
  <2>4. Types'
    <3>1. ticked' \in [Files -> BOOLEAN]
      BY <1>1 DEF Tick, Types
    <3>2. cause' \in [Files -> {"none", "deadline", "interrupt"}]
      BY <1>1 DEF Tick, Types
    <3> QED
      BY <2>1, <3>1, <3>2 DEF Types, flags
  <2>5. \A f \in Files :
           cause'[f] = IF pc[f] = "select" /\ cause[f] = "none" /\ now + 1 = initial + total
                       THEN "deadline" ELSE cause[f]
    BY <1>1 DEF Tick
  <2>6. OnTime'
    BY <2>1, <2>2, <2>3, <2>5 DEF OnTime, Types, There, flags, Never
  <2>7. LastLookSees'
    <3> SUFFICES ASSUME NEW f \in Files, pc[f] = "select", There(f), appeared[f] < LastLook,
                        ~(now + 1 < LastLook)
                 PROVE  now + 1 = LastLook /\ total > 0 /\ ticked'[f]
      BY <1>0, <2>1 DEF LastLookSees, There, Types, flags
    <3>1. now + 1 = LastLook
      BY <1>0, <2>3 DEF LastLookSees, Types
    <3>3. total > 0
      BY <1>0, <3>1 DEF OnTime, Types
    <3>2. pc[f] = "select" /\ (now' - initial) % Interval = 0 => ticked'[f]
      BY <1>1, Zenon DEF Tick
    <3> QED
      BY <1>0, <2>1, <3>1, <3>2, <3>3
  <2>8. Outcomes'
    BY <2>1, <2>5 DEF Outcomes, There, Types, flags
  <2>9. Verdict'
    BY <2>1 DEF Verdict
  <2> QED
    BY <2>4, <2>6, <2>7, <2>8, <2>9
<1>2. CASE Interrupt
  <2>1. /\ interrupted' = TRUE /\ UNCHANGED <<flags, now, appeared, pc, ticked, exit>>
        /\ LastLook' = LastLook
    BY <1>2 DEF Interrupt, flags, LastLook, Interval
  <2>2. /\ cause' \in [Files -> {"none", "deadline", "interrupt"}]
        /\ \A f \in Files : cause'[f] \in {cause[f], "interrupt"}
    BY <1>2 DEF Interrupt, Types
  <2>3. Types'
    BY <2>1, <2>2 DEF Types, flags
  <2>4. OnTime'
    BY <2>1, <2>2 DEF OnTime, There, flags
  <2>5. LastLookSees' /\ Verdict'
    BY <2>1 DEF LastLookSees, Verdict, There, flags
  <2>6. Outcomes'
    BY <2>1 DEF Outcomes, There, flags
  <2> QED
    BY <2>3, <2>4, <2>5, <2>6
<1>3. CASE Exit
  <2>1. UNCHANGED <<flags, now, interrupted, appeared, pc, ticked, cause>> /\ LastLook' = LastLook
    BY <1>3 DEF Exit, flags, LastLook, Interval
  <2>2. Verdict'
    BY <1>3, <2>1 DEF Exit, Verdict, Types
  <2> QED
    BY <2>1, <2>2 DEF Types, OnTime, LastLookSees, Outcomes, There, flags
<1>4. ASSUME NEW f \in Files, Appears(f)
      PROVE  WaitInv'
  <2>1. /\ ~There(f) /\ appeared' = [appeared EXCEPT ![f] = now]
        /\ UNCHANGED <<flags, now, interrupted, pc, ticked, cause, exit>>
        /\ LastLook' = LastLook
    BY <1>4 DEF Appears, flags, LastLook, Interval
  <2>2. Types' /\ Verdict'
    BY <2>1 DEF Types, Verdict, flags
  <2>3. OnTime' /\ LastLookSees'
    BY <1>0, <2>1 DEF OnTime, LastLookSees, Types, There, flags, Never
  <2>4. Outcomes'
    BY <1>0, <2>1 DEF Outcomes, OnTime, Types, There, flags, Never
  <2> QED
    BY <2>2, <2>3, <2>4
<1>5. ASSUME NEW f \in Files, Stat(f)
      PROVE  WaitInv'
  <2>1. /\ Started /\ pc[f] = "stat"
        /\ pc' = [pc EXCEPT ![f] = IF There(f) THEN "found" ELSE "select"]
        /\ UNCHANGED <<flags, now, interrupted, appeared, ticked, exit>>
        /\ LastLook' = LastLook
    BY <1>5 DEF Stat, flags, LastLook, Interval
  <2>2. cause' = [cause EXCEPT ![f] = IF interrupted THEN "interrupt"
                                      ELSE IF total = 0 THEN "deadline" ELSE "none"]
    BY <1>5 DEF Stat
  <2>3. now = initial
    BY <2>1 DEF OnTime, Started, Types
  <2>4. Types' /\ Verdict'
    BY <2>1, <2>2 DEF Types, Verdict, flags
  <2>5. OnTime' /\ LastLookSees'
    BY <1>0, <2>1, <2>2, <2>3 DEF OnTime, LastLookSees, Types, There, flags, Never
  <2>6. Outcomes'
    BY <1>0, <2>1, <2>2, <2>3 DEF Outcomes, OnTime, Types, There, flags, Never
  <2> QED
    BY <2>4, <2>5, <2>6
<1>6. ASSUME NEW f \in Files, SelectTick(f)
      PROVE  WaitInv'
  <2>1. /\ pc[f] = "select" /\ ticked[f]
        /\ ticked' = [ticked EXCEPT ![f] = FALSE]
        /\ pc' = [pc EXCEPT ![f] = IF There(f) THEN "found" ELSE "select"]
        /\ UNCHANGED <<flags, now, interrupted, appeared, cause, exit>>
        /\ LastLook' = LastLook
    BY <1>6 DEF SelectTick, flags, LastLook, Interval
  <2>2. Types' /\ Verdict'
    BY <2>1 DEF Types, Verdict, flags
  <2>3. OnTime' /\ LastLookSees'
    BY <1>0, <2>1 DEF OnTime, LastLookSees, Types, There, flags, Never
  <2>4. Outcomes'
    BY <1>0, <2>1 DEF Outcomes, OnTime, Types, There, flags, Never
  <2> QED
    BY <2>2, <2>3, <2>4
<1>7. ASSUME NEW f \in Files, SelectDone(f)
      PROVE  WaitInv'
  <2>1. /\ pc[f] = "select" /\ cause[f] # "none"
        /\ pc' = [pc EXCEPT ![f] = IF cause[f] = "interrupt" THEN "nil" ELSE "failed"]
        /\ UNCHANGED <<flags, now, interrupted, appeared, ticked, cause, exit>>
        /\ LastLook' = LastLook
    BY <1>7 DEF SelectDone, flags, LastLook, Interval
  <2>2. Types' /\ Verdict'
    BY <2>1 DEF Types, Verdict, flags
  <2>3. OnTime' /\ LastLookSees'
    BY <1>0, <2>1 DEF OnTime, LastLookSees, Types, There, flags, Never
  <2>4. cause[f] = "deadline" /\ There(f) => appeared[f] >= LastLook
    <3> SUFFICES ASSUME cause[f] = "deadline", There(f), appeared[f] < LastLook PROVE FALSE
      BY <1>0 DEF Types, There
    <3>1. now = initial + total /\ ~(now < LastLook)
      BY <1>0, <2>1 DEF OnTime, Types
    <3>2. now = LastLook /\ total > 0
      BY <1>0, <2>1, <3>1 DEF LastLookSees, Types
    <3> QED
      BY <1>0, <3>1, <3>2 DEF Types
  <2>5. Outcomes'
    BY <2>1, <2>4 DEF Outcomes, Types, There, flags
  <2> QED
    BY <2>2, <2>3, <2>5
<1>8. ASSUME NEW f \in Files, NewTickerPanics(f)
      PROVE  WaitInv'
  <2>1. /\ exit' = "panic" /\ UNCHANGED <<flags, now, interrupted, appeared, pc, ticked, cause>>
        /\ LastLook' = LastLook
    BY <1>8 DEF NewTickerPanics, flags, LastLook, Interval
  <2> QED
    BY <2>1 DEF Types, OnTime, LastLookSees, Outcomes, Verdict, There, flags
<1>9. CASE UNCHANGED vars
  BY <1>9 DEF vars, Types, OnTime, LastLookSees, Outcomes, Verdict, There, LastLook, Interval
<1> QED
  BY <1>1, <1>2, <1>3, <1>4, <1>5, <1>6, <1>7, <1>8, <1>9 DEF Next

\* The strengthening of both properties holds throughout.
THEOREM Waiting == Spec => []WaitInv
  BY InitWait, StepWait, PTL DEF Spec

\* The flags stay what they were, and the clock within its bound.
Bounded ==
    /\ interval \in -1..MaxInterval /\ total \in 0..MaxTotal /\ initial \in 0..MaxInitial
    /\ now \in 0..MaxTime

\* The variables are of their types, with what the types say of a file's goroutine: it
\* has found no file that is not there, and waits for none when its time is up.
THEOREM Typing == Spec => []TypeOK
<1>0. /\ {MaxInterval, MaxTotal, MaxInitial} \subseteq Nat
      /\ MaxTime \in Nat
  BY TimesAssumption
<1>1. Init => Bounded
  BY <1>0 DEF Init, Bounded
<1>2. Bounded /\ [Next]_vars => Bounded'
  BY <1>0 DEF Bounded, Next, Tick, Interrupt, Exit, Appears, Stat, NewTickerPanics,
               SelectTick, SelectDone, vars, flags
<1>3. WaitInv /\ Bounded => TypeOK
  BY DEF WaitInv, Bounded, Types, OnTime, Outcomes, Verdict, TypeOK, There, Never
<1> QED
  BY <1>1, <1>2, <1>3, Waiting, PTL DEF Spec

\* Status 0 without an interrupt means that every file was there in time: a
\* goroutine says "found" only of a file it has seen before its deadline has passed.
THEOREM SuccessIsTrue == Spec => []SuccessMeansThere
<1>1. WaitInv => SuccessMeansThere
  BY DEF WaitInv, Outcomes, Verdict, SuccessMeansThere
<1> QED
  BY Waiting, <1>1, PTL

\* Status 1 means that a file was not there at the last look: of the tick that is
\* due then and the deadline, which comes later, the tick is always received first.
THEOREM FailureIsTrue == Spec => []FailureMeansLate
<1>1. WaitInv => FailureMeansLate
  BY DEF WaitInv, Outcomes, Verdict, FailureMeansLate
<1> QED
  BY Waiting, <1>1, PTL

=============================================================================
