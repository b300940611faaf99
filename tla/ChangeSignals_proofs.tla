------------------------ MODULE ChangeSignals_proofs ------------------------
(***************************************************************************)
(* What becomes of a change's signal, for every number of changes,         *)
(* refreshes and lost connections.                                         *)
(***************************************************************************)
EXTENDS ChangeSignals, FiniteSetTheorems, TLAPS

\* Before there is a handler nothing is shown, and nothing was asked for.
NothingYet == wh = "none" => asked = [k \in Kinds |-> 0]

Fetching == IsFiniteSet(fetches)

\* A publication is that of a change.
OfAChange == \A k \in Kinds : unpublished[k] < version[k]

SignalInv == TypeOK /\ Fetching /\ OfAChange /\ NothingYet /\ ChangesSignalled

-----------------------------------------------------------------------------

LEMMA Bounds == MaxVersion \in Nat \ {0} /\ MaxFetches \in Nat \ {0} /\ MaxDrops \in Nat
  BY BoundsAssumption

LEMMA ViewType == TypeOK => View \in [Kinds -> Versions]
  BY Bounds DEF TypeOK, View, Seen, Versions

\* Ask, whatever else the step does.
LEMMA AskType ==
  ASSUME TypeOK, Fetching, Ask
  PROVE  /\ fetches' \subseteq Refresh /\ Cardinality(fetches') <= MaxFetches
         /\ IsFiniteSet(fetches')
         /\ asked' \in [Kinds -> Versions] /\ missed' \in BOOLEAN
<1>1. Blank \in Refresh
  BY DEF Blank, Refresh
<1>2. Cardinality(fetches) \in Nat
  BY FS_CardinalityType DEF Fetching
<1>3. /\ IsFiniteSet(fetches \cup {Blank})
      /\ Cardinality(fetches \cup {Blank}) <= Cardinality(fetches) + 1
  BY FS_AddElement, <1>2 DEF Fetching
<1>4. fetches' = fetches \cup {Blank} /\ asked' = View /\ missed' = FALSE
      /\ Cardinality(fetches) < MaxFetches
  BY DEF Ask
<1>5. fetches' \subseteq Refresh
  BY <1>1, <1>4 DEF TypeOK
<1>6. Cardinality(fetches \cup {Blank}) \in Nat
  BY <1>3, FS_CardinalityType
<1>7. Cardinality(fetches') <= MaxFetches
  BY Bounds, <1>2, <1>3, <1>4, <1>6
<1> QED
  BY ViewType, <1>3, <1>4, <1>5, <1>7

LEMMA InitSignals == Init => SignalInv
<1> SUFFICES ASSUME Init PROVE SignalInv
  OBVIOUS
<1>1. 0 \in Versions /\ 1 \in Versions
  BY Bounds DEF Versions
<1>2. fetches \subseteq Refresh /\ Cardinality(fetches) <= MaxFetches /\ Fetching
  BY FS_EmptySet, Bounds DEF Init, Fetching
<1>3. shown \in Refresh
  BY DEF Init, Blank, Refresh
<1>4. /\ version \in [Kinds -> Versions] /\ unpublished \in [Kinds -> Versions]
      /\ asked \in [Kinds -> Versions] /\ sig \in [Kinds -> BOOLEAN]
      /\ drops \in 0..MaxDrops
  BY <1>1, Bounds DEF Init
<1>5. TypeOK
  BY <1>2, <1>3, <1>4 DEF Init, TypeOK
<1> QED
  BY <1>2, <1>5 DEF Init, SignalInv, NothingYet, OfAChange, ChangesSignalled, OnItsWay

-----------------------------------------------------------------------------
(* Types. *)

LEMMA TypeStep ==
  ASSUME TypeOK, Fetching, OfAChange, [Next]_vars
  PROVE  TypeOK' /\ Fetching'
<1> USE Bounds DEF server
<1>1. CASE SetHandlerStep
  BY <1>1 DEF SetHandlerStep, SetHandler, PublishToStreams, TypeOK, Fetching
<1>2. CASE Interrupt
  BY <1>2 DEF Interrupt, TypeOK, Fetching
<1>3. CASE LoadPage
  <2>1. Ask /\ stream' = "off" /\ UNCHANGED <<server, pumpSig, event, timer, shown, drops>>
    BY <1>3 DEF LoadPage
  <2>2. /\ fetches' \subseteq Refresh /\ Cardinality(fetches') <= MaxFetches
        /\ IsFiniteSet(fetches')
        /\ asked' \in [Kinds -> Versions] /\ missed' \in BOOLEAN
    BY <2>1, AskType
  <2> QED
    BY <2>1, <2>2 DEF TypeOK, Fetching
<1>4. CASE LoseConnection
  <2>1. drops' \in 0..MaxDrops
    BY <1>4 DEF LoseConnection, TypeOK
  <2>2. UNCHANGED <<wh, cancelled, version, unpublished, sig, merged, pumpSig, timer, fetches,
                    shown, asked, missed>>
        /\ stream' = "off" /\ event' = FALSE
    BY <1>4 DEF LoseConnection
  <2> QED
    BY <2>1, <2>2 DEF TypeOK, Fetching
<1>5. ASSUME NEW k \in Kinds, Change(k)
      PROVE  TypeOK' /\ Fetching'
  <2>1. version' = [version EXCEPT ![k] = @ + 1] /\ version[k] \in 0..MaxVersion
        /\ version[k] < MaxVersion
    BY <1>5 DEF Change, TypeOK, Versions
  <2>2. version' \in [Kinds -> Versions]
    BY <2>1 DEF TypeOK, Versions
  <2>3. unpublished' \in [Kinds -> Versions]
    BY <1>5, <2>1 DEF Change, TypeOK, Versions, OfAChange
  <2> QED
    BY <1>5, <2>2, <2>3 DEF Change, TypeOK, Fetching
<1>6. ASSUME NEW k \in Kinds, Publish(k)
      PROVE  TypeOK' /\ Fetching'
  <2>1. unpublished' \in [Kinds -> Versions]
    BY <1>6 DEF Publish, TypeOK, Versions
  <2>2. sig' \in [Kinds -> BOOLEAN] /\ missed' \in BOOLEAN
    BY <1>6 DEF Publish, TypeOK
  <2> QED
    BY <1>6, <2>1, <2>2 DEF Publish, TypeOK, Fetching
<1>7. ASSUME NEW k \in Kinds, Merge(k)
      PROVE  TypeOK' /\ Fetching'
  BY <1>7 DEF Merge, TypeOK, Fetching
<1>8. CASE Forward
  BY <1>8 DEF Forward, PublishToStreams, TypeOK, Fetching
<1>9. CASE PumpEvents
  BY <1>9 DEF PumpEvents, TypeOK, Fetching
<1>10. CASE Connect
  BY <1>10 DEF Connect, TypeOK, Fetching
<1>11. CASE OnChange
  BY <1>11 DEF OnChange, TypeOK, Fetching
<1>12. CASE TimerFires
  BY <1>12, AskType DEF TimerFires, TypeOK, Fetching
<1>13. ASSUME NEW f \in fetches, Serve(f)
       PROVE  TypeOK' /\ Fetching'
  <2>1. PICK k \in Kinds : fetches' = (fetches \ {f}) \cup {[f EXCEPT ![k] = Seen(k)]}
    BY <1>13 DEF Serve
  <2>2. f \in Refresh /\ [f EXCEPT ![k] = Seen(k)] \in Refresh
    BY DEF TypeOK, Refresh, Seen, Versions
  <2>3. Cardinality(fetches) \in Nat /\ Cardinality(fetches) <= MaxFetches
    BY FS_CardinalityType DEF Fetching, TypeOK
  <2>4. /\ IsFiniteSet(fetches \ {f})
        /\ Cardinality(fetches \ {f}) = Cardinality(fetches) - 1
    BY FS_RemoveElement DEF Fetching
  <2> DEFINE g == [f EXCEPT ![k] = Seen(k)]
  <2>6. /\ IsFiniteSet((fetches \ {f}) \cup {g})
        /\ \/ Cardinality((fetches \ {f}) \cup {g}) = Cardinality(fetches \ {f})
           \/ Cardinality((fetches \ {f}) \cup {g}) = Cardinality(fetches \ {f}) + 1
    BY FS_AddElement, <2>4
  <2>5. IsFiniteSet(fetches') /\ Cardinality(fetches') <= MaxFetches
    BY Bounds, <2>1, <2>3, <2>4, <2>6
  <2> QED
    BY <1>13, <2>1, <2>2, <2>5 DEF Serve, TypeOK, Fetching
<1>14. ASSUME NEW f \in fetches, Finish(f)
       PROVE  TypeOK' /\ Fetching'
  <2>1. Cardinality(fetches) \in Nat
    BY FS_CardinalityType DEF Fetching
  <2>2. IsFiniteSet(fetches') /\ Cardinality(fetches') = Cardinality(fetches) - 1
    BY FS_RemoveElement, <1>14 DEF Finish, Fetching
  <2>3. shown' \in Refresh
    BY <1>14 DEF Finish, TypeOK
  <2> QED
    BY <1>14, <2>1, <2>2, <2>3 DEF Finish, TypeOK, Fetching
<1>15. CASE UNCHANGED vars
  BY <1>15 DEF vars, TypeOK, Fetching
<1> QED
  BY <1>1, <1>2, <1>3, <1>4, <1>5, <1>6, <1>7, <1>8, <1>9, <1>10, <1>11, <1>12, <1>13,
     <1>14, <1>15 DEF Next, Signal, Page

LEMMA NothingYetStep ==
  ASSUME TypeOK, NothingYet, [Next]_vars
  PROVE  NothingYet'
<1>1. Ask => asked' = View
  BY DEF Ask
<1>2. wh = "none" => View = [k \in Kinds |-> 0]
  BY DEF View, Seen
<1>3. asked' \in {asked, View} /\ (wh' = "none" => wh = "none")
  BY <1>1 DEF Next, Signal, Page, SetHandlerStep, SetHandler, Interrupt, LoadPage, LoseConnection,
          Change, Publish, Merge, Forward, PumpEvents, Connect, OnChange, TimerFires, Serve,
          Finish, server, vars
<1> QED
  BY <1>2, <1>3 DEF NothingYet

LEMMA OfAChangeStep ==
  ASSUME TypeOK, OfAChange, [Next]_vars
  PROVE  OfAChange'
<1>1. ASSUME NEW k \in Kinds, Change(k) PROVE OfAChange'
  BY <1>1, Bounds DEF Change, TypeOK, Versions, OfAChange
<1>2. ASSUME NEW k \in Kinds, Publish(k) PROVE OfAChange'
  BY <1>2, Bounds DEF Publish, TypeOK, Versions, OfAChange
<1>3. CASE UNCHANGED <<version, unpublished>>
  BY <1>3 DEF OfAChange
<1> QED
  BY <1>1, <1>2, <1>3
     DEF Next, Signal, Page, SetHandlerStep, Interrupt, LoadPage, LoseConnection, Merge, Forward,
         PumpEvents, Connect, OnChange, TimerFires, Serve, Finish, server, vars

-----------------------------------------------------------------------------
(* Signals. *)

\* An outstanding signal stays outstanding, step by step.
LEMMA SignalStep ==
  ASSUME TypeOK, NothingYet, ChangesSignalled, [Next]_vars
  PROVE  ChangesSignalled'
<1> USE DEF server
<1>0. View' = [k \in Kinds |-> IF wh' = "none" THEN 0 ELSE version'[k]]
  BY DEF View, Seen
<1>1. CASE SetHandlerStep
  <2>1. CASE wh = "none"
    BY <1>1, <2>1 DEF SetHandlerStep, SetHandler, ChangesSignalled, OnItsWay
  <2>2. CASE wh # "none"
    <3>1. View' = View
      BY <1>1, <2>2 DEF SetHandlerStep, SetHandler, View, Seen
    <3> QED
      BY <1>1, <2>2, <3>1 DEF SetHandlerStep, SetHandler, PublishToStreams, Subscribed, TypeOK,
                            ChangesSignalled, OnItsWay
  <2> QED
    BY <2>1, <2>2
<1>2. CASE Interrupt
  BY <1>2 DEF Interrupt, ChangesSignalled
<1>3. CASE LoadPage
  BY <1>3 DEF LoadPage, ChangesSignalled, OnItsWay
<1>4. CASE LoseConnection
  BY <1>4 DEF LoseConnection, ChangesSignalled, OnItsWay
<1>5. ASSUME NEW k \in Kinds, Change(k)
      PROVE  ChangesSignalled'
  <2>1. unpublished'[k] > 0
    BY <1>5, Bounds DEF Change, TypeOK, Versions
  <2> QED
    BY <2>1 DEF ChangesSignalled, OnItsWay
<1>6. ASSUME NEW k \in Kinds, Publish(k)
      PROVE  ChangesSignalled'
  <2>1. CASE wh = "none"
    <3>1. asked' = View'
      BY <1>6, <2>1 DEF Publish, NothingYet, View, Seen
    <3> QED
      BY <3>1 DEF ChangesSignalled
  <2>2. CASE wh \in {"set", "announced"}
    BY <1>6, <2>2 DEF Publish, ChangesSignalled, OnItsWay
  <2>3. CASE wh = "forwarding"
    <3>1. sig'[k]
      BY <1>6, <2>3 DEF Publish, TypeOK
    <3> QED
      BY <3>1 DEF ChangesSignalled, OnItsWay
  <2> QED
    BY <2>1, <2>2, <2>3 DEF TypeOK
<1>7. ASSUME NEW k \in Kinds, Merge(k)
      PROVE  ChangesSignalled'
  BY <1>7 DEF Merge, ChangesSignalled, OnItsWay
<1>8. CASE Forward
  <2>1. View' = View
    BY <1>8 DEF Forward, View, Seen
  <2> QED
    BY <1>8, <2>1 DEF Forward, PublishToStreams, Subscribed, TypeOK, ChangesSignalled, OnItsWay
<1>9. CASE PumpEvents
  <2>1. View' = View
    BY <1>9 DEF PumpEvents, View, Seen
  <2> QED
    BY <1>9, <2>1 DEF PumpEvents, TypeOK, ChangesSignalled, OnItsWay
<1>10. CASE Connect
  BY <1>10 DEF Connect, ChangesSignalled, OnItsWay
<1>11. CASE OnChange
  BY <1>11 DEF OnChange, ChangesSignalled, OnItsWay
<1>12. CASE TimerFires
  <2>1. asked' = View'
    BY <1>12 DEF TimerFires, Ask, View, Seen
  <2> QED
    BY <2>1 DEF ChangesSignalled
<1>13. ASSUME UNCHANGED <<wh, cancelled, version, unpublished, sig, merged, stream, pumpSig,
                         event, timer, asked, missed>>
       PROVE  ChangesSignalled'
  BY <1>13 DEF View, Seen, ChangesSignalled, OnItsWay
<1> QED
  BY <1>1, <1>2, <1>3, <1>4, <1>5, <1>6, <1>7, <1>8, <1>9, <1>10, <1>11, <1>12, <1>13
     DEF Next, Signal, Page, Serve, Finish, vars

\* The invariant of the signals.
THEOREM Signalling == Spec => []SignalInv
<1>1. SignalInv /\ [Next]_vars => SignalInv'
  BY TypeStep, OfAChangeStep, NothingYetStep, SignalStep DEF SignalInv
<1> QED
  BY InitSignals, <1>1, PTL DEF Spec

\* No signal of what a page has not asked for is lost, however many of them
\* coalesce, but at the two places that ChangesSignalled names.
THEOREM NoSignalIsLost == Spec => []ChangesSignalled
  BY Signalling, PTL DEF SignalInv

\* The state is of its type.
THEOREM Typing == Spec => []TypeOK
  BY Signalling, PTL DEF SignalInv

-----------------------------------------------------------------------------
(* The refinement. *)

\* A page that asks does what RefreshedView calls a refresh; any other step leaves
\* what it asked for alone.
LEMMA ViewStep ==
  ASSUME TypeOK, TypeOK', [Next]_vars
  PROVE  [PageView!Change \/ PageView!Refresh \/ PageView!Excuse]_PageView!viewVars
<1> DEFINE excused == missed \/ cancelled \/ stream = "none"
<1>1. View' \in [Kinds -> Versions]
  <2>1. View' = [k \in Kinds |-> IF wh' = "none" THEN 0 ELSE version'[k]]
    BY DEF View, Seen
  <2> QED
    BY <2>1, Bounds DEF TypeOK, Versions
<1>2. excused' \in BOOLEAN
  OBVIOUS
<1>3. CASE UNCHANGED asked
  BY <1>1, <1>2, <1>3 DEF PageView!Change
<1>4. CASE Ask /\ UNCHANGED server
  <2>1. asked' = View /\ View' = View
    BY <1>4 DEF Ask, View, Seen, server
  <2> QED
    BY <1>2, <2>1 DEF PageView!Refresh
<1> QED
  BY <1>3, <1>4
     DEF Next, Signal, Page, SetHandlerStep, Interrupt, LoadPage, LoseConnection, Change, Publish,
         Merge, Forward, PumpEvents, Connect, OnChange, TimerFires, Serve, Finish, server, vars

\* The safety part of ImplementsView: in every behaviour a page asks for nothing
\* but the state as it is.
THEOREM PagesAskForWhatIs ==
  Spec => PageView!Init /\ [][PageView!Change \/ PageView!Refresh \/ PageView!Excuse]_PageView!viewVars
<1>1. Init => PageView!Init
  BY InitSignals, ViewType DEF SignalInv, Init, TypeOK, PageView!Init
<1>2. TypeOK /\ TypeOK' /\ [Next]_vars =>
         [PageView!Change \/ PageView!Refresh \/ PageView!Excuse]_PageView!viewVars
  BY ViewStep
<1> QED
  BY Typing, <1>1, <1>2, PTL DEF Spec

=============================================================================
