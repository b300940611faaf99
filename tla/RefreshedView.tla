--------------------------- MODULE RefreshedView ---------------------------
(***************************************************************************)
(* What a page of the web UI may rely on: it never asks for anything but   *)
(* the present state, and a change is sooner or later followed by a        *)
(* refresh that asks for it, unless the change is excused.                 *)
(***************************************************************************)
CONSTANT Views  \* the states a server can show

VARIABLES
    truth,   \* what the server would show now
    asked,   \* what it would have shown when the page last asked
    excused  \* the page need not be told of what it has not asked for

viewVars == <<truth, asked, excused>>

Init == truth \in Views /\ asked \in Views /\ excused \in BOOLEAN

Change  == truth' \in Views /\ excused' \in BOOLEAN /\ UNCHANGED asked
Refresh == asked' = truth /\ excused' \in BOOLEAN /\ UNCHANGED truth
Excuse  == excused' \in BOOLEAN /\ UNCHANGED <<truth, asked>>

\* asked becomes the truth of a page that is owed it
Told == ~excused /\ asked # truth /\ Refresh

Spec == Init /\ [][Change \/ Refresh \/ Excuse]_viewVars /\ WF_viewVars(Told)

=============================================================================
