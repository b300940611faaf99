--------------------------- MODULE ChangeSignals ---------------------------
(***************************************************************************)
(* How a change of a workflow or of a VM pool reaches an open page of the  *)
(* web UI.  Nothing but signals travels, each through a channel of one:    *)
(*   status.go, pool_status.go  publish after a change (sig)               *)
(*   event_handler.go           Subscribe merges the two (merged)          *)
(*   webui_backend.go           SetHandler forwards to every stream        *)
(*   webui/server.go            pumpEvents answers with frames (pumpSig)   *)
(*   useOrchestrator.ts         a frame starts a timer, the timer a        *)
(*                              refresh: two requests, applied together.   *)
(* PubSub is a library: a publication reaches those subscribed at the      *)
(* time, and coalesces with one they have not received yet.                *)
(***************************************************************************)
EXTENDS Integers, FiniteSets

CONSTANTS
    MaxVersion,  \* bound: versions of what is shown; the first one is 1
    MaxFetches,  \* bound: refreshes of the page in flight
    MaxDrops     \* bound: connections lost

ASSUME BoundsAssumption ==
    MaxVersion \in Nat \ {0} /\ MaxFetches \in Nat \ {0} /\ MaxDrops \in Nat

VARIABLES
    wh,          \* SetHandler: "none", "set", "announced", "forwarding"
    cancelled,   \* the context of Run
    version,     \* of the pools and of the workflows
    unpublished, \* changes whose writer has yet to publish
    sig,         \* the handler's subscriptions to pools and workflows
    merged,      \* the channel Subscribe returns
    stream,      \* the page's event stream
    pumpSig,     \* pumpEvents' subscription
    event,       \* frames on their way to the page
    timer,       \* the page's debouncing timer
    fetches,     \* refreshes in flight
    shown,       \* what the page shows
    drops,       \* connections lost so far
    asked,       \* (observer) what there was when the last refresh began
    missed       \* (observer) a change since then whose signal came to nothing

vars == <<wh, cancelled, version, unpublished, sig, merged, stream, pumpSig,
          event, timer, fetches, shown, drops, asked, missed>>

server == <<wh, cancelled, version, unpublished, sig, merged>>

Kinds == {"pool", "workflow"}
Versions == 0..MaxVersion
Unread == -1

\* Promise.all of getPools and getWorkflows.
Refresh == [Kinds -> Versions \cup {Unread}]
Blank == [k \in Kinds |-> Unread]

TypeOK ==
    /\ wh \in {"none", "set", "announced", "forwarding"}
    /\ version \in [Kinds -> Versions]
    /\ unpublished \in [Kinds -> Versions]
    /\ sig \in [Kinds -> BOOLEAN]
    /\ {cancelled, merged, pumpSig, event, timer, missed} \subseteq BOOLEAN
    /\ stream \in {"none", "off", "subscribed", "greeted", "open"}
    /\ fetches \subseteq Refresh /\ Cardinality(fetches) <= MaxFetches
    /\ shown \in Refresh
    /\ drops \in 0..MaxDrops
    /\ asked \in [Kinds -> Versions]

Init ==
    /\ wh = "none" /\ stream = "none" /\ drops = 0
    /\ version = [k \in Kinds |-> 1]
    /\ unpublished = [k \in Kinds |-> 0]
    /\ sig = [k \in Kinds |-> FALSE]
    /\ cancelled = FALSE /\ merged = FALSE /\ pumpSig = FALSE
    /\ event = FALSE /\ timer = FALSE /\ missed = FALSE
    /\ fetches = {} /\ shown = Blank
    /\ asked = [k \in Kinds |-> 0]

-----------------------------------------------------------------------------
(* The server. *)

\* What Pools and Workflows return: nothing before there is a handler.
Seen(k) == IF wh = "none" THEN 0 ELSE version[k]
View == [k \in Kinds |-> Seen(k)]

Subscribed == stream \in {"subscribed", "greeted", "open"}

\* b.changes.Publish
PublishToStreams == pumpSig' = (pumpSig \/ (Subscribed /\ ~cancelled))

SetHandler ==
    \/ /\ wh = "none" /\ wh' = "set"
       /\ UNCHANGED pumpSig
    \/ /\ wh = "set" /\ wh' = "announced"
       /\ PublishToStreams
    \/ /\ wh = "announced" /\ wh' = "forwarding"
       /\ UNCHANGED pumpSig

SetHandlerStep ==
    /\ SetHandler
    /\ UNCHANGED <<cancelled, version, unpublished, sig, merged, stream, event,
                   timer, fetches, shown, drops, asked, missed>>

\* upsert, or an event of a pool recorded.  Listen starts after SetHandler, the
\* pools have been at work before.
Change(k) ==
    /\ version[k] < MaxVersion
    /\ IF k = "workflow" THEN wh = "forwarding" ELSE wh # "none"
    /\ version' = [version EXCEPT ![k] = @ + 1]
    /\ unpublished' = [unpublished EXCEPT ![k] = @ + 1]
    /\ UNCHANGED <<wh, cancelled, sig, merged, stream, pumpSig, event, timer,
                   fetches, shown, drops, asked, missed>>

\* The publication, after the unlock.  One that comes after SetHandler's own
\* publication and before its subscription reaches nobody.
Publish(k) ==
    /\ unpublished[k] > 0
    /\ unpublished' = [unpublished EXCEPT ![k] = @ - 1]
    /\ sig' = [sig EXCEPT ![k] = @ \/ wh = "forwarding"]
    /\ missed' = (missed \/ wh = "announced")
    /\ UNCHANGED <<wh, cancelled, version, merged, stream, pumpSig, event, timer,
                   fetches, shown, drops, asked>>

\* The goroutine of Subscribe: receive, and notify without blocking.
Merge(k) ==
    /\ sig[k]
    /\ sig' = [sig EXCEPT ![k] = FALSE]
    /\ merged' = TRUE
    /\ UNCHANGED <<wh, cancelled, version, unpublished, stream, pumpSig, event,
                   timer, fetches, shown, drops, asked, missed>>

\* The goroutine of SetHandler.
Forward ==
    /\ merged /\ ~cancelled
    /\ merged' = FALSE
    /\ PublishToStreams
    /\ UNCHANGED <<wh, cancelled, version, unpublished, sig, stream, event, timer,
                   fetches, shown, drops, asked, missed>>

Interrupt ==
    /\ ~cancelled /\ cancelled' = TRUE
    /\ UNCHANGED <<wh, version, unpublished, sig, merged, stream, pumpSig, event,
                   timer, fetches, shown, drops, asked, missed>>

\* Faulty variant: the snapshot comes first, then the subscription.
PumpEventsLate ==
    /\ \/ /\ stream = "subscribed" /\ stream' = "greeted"
          /\ event' = TRUE /\ UNCHANGED <<pumpSig, missed>>
       \/ /\ stream = "greeted" /\ stream' = "open"
          /\ pumpSig' = FALSE /\ UNCHANGED <<event, missed>>
       \/ /\ stream = "open" /\ pumpSig /\ pumpSig' = FALSE
          /\ event' = TRUE /\ UNCHANGED <<stream, missed>>
    /\ UNCHANGED <<server, timer, fetches, shown, drops, asked>>

\* pumpEvents: hello, a snapshot, a snapshot per signal, the end.  writeSnapshot
\* writes no frame when the pools cannot be listed and there is no workflow.
PumpEvents ==
    /\ \/ /\ stream = "subscribed" /\ stream' = "greeted"
          /\ event' = TRUE /\ UNCHANGED <<pumpSig, missed>>
       \/ /\ stream = "greeted" /\ stream' = "open"
          /\ \E written \in IF wh = "none" THEN {FALSE} ELSE BOOLEAN :
                event' = (event \/ written)
          /\ UNCHANGED <<pumpSig, missed>>
       \/ /\ stream = "open" /\ pumpSig /\ pumpSig' = FALSE
          /\ \E written \in BOOLEAN : /\ event' = (event \/ written)
                                      /\ missed' = (missed \/ ~written)
          /\ UNCHANGED stream
       \/ /\ stream = "open" /\ cancelled /\ stream' = "off"
          /\ UNCHANGED <<event, pumpSig, missed>>
    /\ UNCHANGED <<server, timer, fetches, shown, drops, asked>>

-----------------------------------------------------------------------------
(* The page. *)

\* refresh is called.
Ask ==
    /\ Cardinality(fetches) < MaxFetches
    /\ fetches' = fetches \cup {Blank}
    /\ asked' = View
    /\ missed' = FALSE

LoadPage ==
    /\ stream = "none" /\ stream' = "off"
    /\ Ask
    /\ UNCHANGED <<server, pumpSig,
                   event, timer, shown, drops>>

\* EventSource connects, and connects again; StreamEvents subscribes first.
Connect ==
    /\ stream = "off" /\ stream' = "subscribed"
    /\ pumpSig' = FALSE
    /\ UNCHANGED <<server, event, timer,
                   fetches, shown, drops, asked, missed>>

LoseConnection ==
    /\ Subscribed /\ stream' = "off"
    /\ drops < MaxDrops /\ drops' = drops + 1
    /\ event' = FALSE
    /\ UNCHANGED <<server, pumpSig,
                   timer, fetches, shown, asked, missed>>

\* Faulty variant: no timer, every event refreshes.
OnChangeAtOnce ==
    /\ event /\ event' = FALSE
    /\ fetches' = fetches \cup {Blank}
    /\ asked' = View /\ missed' = FALSE
    /\ UNCHANGED <<server, stream,
                   pumpSig, timer, shown, drops>>

\* Faulty variant: events during a refresh are ignored.
OnChangeUnlessBusy ==
    /\ event /\ event' = FALSE
    /\ timer' = (timer \/ fetches = {})
    /\ UNCHANGED <<server, stream,
                   pumpSig, fetches, shown, drops, asked, missed>>

\* onChange: an event starts the timer unless it runs.
OnChange ==
    /\ event /\ event' = FALSE
    /\ timer' = TRUE
    /\ UNCHANGED <<server, stream,
                   pumpSig, fetches, shown, drops, asked, missed>>

TimerFires ==
    /\ timer /\ timer' = FALSE
    /\ Ask
    /\ UNCHANGED <<server, stream,
                   pumpSig, event, shown, drops>>

\* The two requests of a refresh are served on their own.
Serve(f) ==
    /\ \E k \in Kinds :
          /\ f[k] = Unread
          /\ fetches' = (fetches \ {f}) \cup {[f EXCEPT ![k] = Seen(k)]}
    /\ UNCHANGED <<server, stream,
                   pumpSig, event, timer, shown, drops, asked, missed>>

\* Both answers are there and replace what is shown, or one of them failed.
Finish(f) ==
    /\ fetches' = fetches \ {f}
    /\ \/ (\A k \in Kinds : f[k] # Unread) /\ shown' = f
       \/ UNCHANGED shown
    /\ UNCHANGED <<server, stream,
                   pumpSig, event, timer, drops, asked, missed>>

-----------------------------------------------------------------------------

Signal == (\E k \in Kinds : Publish(k) \/ Merge(k)) \/ Forward \/ PumpEvents
Page == Connect \/ OnChange \/ TimerFires

Next ==
    \/ SetHandlerStep \/ Interrupt \/ LoadPage \/ LoseConnection
    \/ \E k \in Kinds : Change(k)
    \/ Signal \/ Page
    \/ \E f \in fetches : Serve(f) \/ Finish(f)

Spec == Init /\ [][Next]_vars

\* Every goroutine and the browser go on.  A page is not obliged to be opened, a
\* change to happen, a connection to be lost.
Fairness ==
    /\ WF_vars(SetHandlerStep) /\ WF_vars(Forward) /\ WF_vars(PumpEvents)
    /\ \A k \in Kinds : WF_vars(Publish(k)) /\ WF_vars(Merge(k))
    /\ WF_vars(Connect) /\ WF_vars(OnChange) /\ WF_vars(TimerFires)
    /\ WF_vars(\E f \in fetches : Finish(f))

FairSpec == Spec /\ Fairness

-----------------------------------------------------------------------------

\* A signal of what the page has not asked for is on its way.
OnItsWay ==
    \/ stream \in {"none", "off", "subscribed"}
    \/ event \/ timer \/ pumpSig \/ merged \/ wh = "set"
    \/ \E k \in Kinds : sig[k] \/ unpublished[k] > 0

\* No coalescing on the way loses the last change: while a page has not asked
\* for the present state, a signal for it is somewhere between the writer and
\* the page's timer.  The two exceptions are the code's: a publication between
\* SetHandler's own and its subscription (webui_backend.go:52-54), and a signal
\* writeSnapshot answers with no frame (server.go:234-249).
ChangesSignalled == asked # View => OnItsWay \/ missed \/ cancelled

\* A page that is open asks, in the end, for every change, and only for the
\* state as it is (RefreshedView), through lost connections and until Ctrl-C.
PageView == INSTANCE RefreshedView WITH
    Views <- [Kinds -> Versions], truth <- View,
    excused <- missed \/ cancelled \/ stream = "none"
ImplementsView == PageView!Spec

\* useOrchestrator.ts:14-16: "Re-fetching a consistent snapshot (rather than
\* mutating from individual events) keeps additions, updates AND deletions
\* correct": what a page shows never gets older.
PageNeverGoesBack ==
    [][\A k \in Kinds : shown'[k] >= shown[k]]_vars

=============================================================================
