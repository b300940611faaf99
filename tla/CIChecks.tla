------------------------------ MODULE CIChecks ------------------------------
(***************************************************************************)
(* multimod (src/multimod/main.go): runs the commands of the requested     *)
(* actions in every module of a repository, one module at a time or in all *)
(* of them at once; with govulnchecker as one of the commands, the way     *)
(* .multimod.yaml of the repository uses the two.                          *)
(*                                                                         *)
(* A script is [spec, excluded, listed, unlisted]: the words of its        *)
(* commands, the modules excluded from it, and whether its action is under *)
(* "concurrent" and "not-concurrent".  A word is ";", an environment       *)
(* setting (in EnvWords), or a part of a command; only the first word of a *)
(* command matters.                                                        *)
(***************************************************************************)
EXTENDS Govulnchecker, Integers, FiniteSets, SequencesExt

CONSTANTS
    Dirs,      \* sequence of the directories with a go.mod, as Walk finds them
    Plans,     \* sequences of scripts that may be asked for
    EnvWords,  \* words that start with "env:"
    Streams,   \* what govulncheck may print about a module
    MaxScripts \* bound: scripts of a plan, commands of a script

VARIABLES
    plan,        \* the scripts of the requested actions
    always,      \* -concurrent
    stream,      \* what govulncheck prints about each module
    script,      \* where main is: script, command,
    command,     \*   and pass over the modules: "none", "concurrent", "sequential"
    pass,
    visited,     \* number of Dirs the sequential pass has come by
    running,     \* modules in which the command runs
    failed,      \* a command of this pass failed
    checker,     \* the govulnchecker running in each module
    exit,        \* how main ended: "ok" is status 0; "none" before
    ran          \* (observer) the exit codes of each command in each module

vars == <<plan, always, stream, script, command, pass, visited, running, failed,
          checker, exit, ran>>

Modules == ToSet(Dirs)
Keys == (1..MaxScripts) \X (1..MaxScripts) \X Modules

TypeOK ==
    /\ plan \in Plans /\ always \in BOOLEAN /\ stream \in [Modules -> Streams]
    /\ script \in 1..MaxScripts + 1 /\ command \in 1..MaxScripts + 1
    /\ pass \in {"none", "concurrent", "sequential"}
    /\ visited \in 0..Len(Dirs)
    /\ running \subseteq Modules
    /\ pass = "sequential" => Cardinality(running) <= 1
    /\ failed \in BOOLEAN
    /\ \A d \in Modules : checker[d].at \in 1..Len(stream[d].values) + 1
    /\ exit \in {"none", "ok", "failed", "panic"}
    /\ ran \in [Keys -> Seq({0, 1})]

Init ==
    /\ plan \in Plans /\ always \in BOOLEAN /\ stream \in [Modules -> Streams]
    /\ script = 1 /\ command = 1 /\ pass = "none"
    /\ visited = 0 /\ running = {} /\ failed = FALSE
    /\ checker = [d \in Modules |-> NewChecker]
    /\ exit = "none"
    /\ ran = [k \in Keys |-> <<>>]

-----------------------------------------------------------------------------

\* splitCmd: a ";" ends a command, and so does the end of the words unless it comes
\* right after one.
SplitCmd(spec) ==
    LET ends == {i \in DOMAIN spec : spec[i] = ";"}
                    \cup (IF spec = <<>> \/ Last(spec) = ";" THEN {} ELSE {Len(spec) + 1})
        End(c) == CHOOSE e \in ends \cup {0} : Cardinality({f \in ends : f <= e}) = c
    IN  [c \in 1..Cardinality(ends) |-> SubSeq(spec, End(c - 1) + 1, End(c) - 1)]

\* extraceEnv: the leading environment settings are not part of the command.
ExtractEnv(cmd) ==
    LET first == SelectInSeq(cmd, LAMBDA w : w \notin EnvWords)
    IN  IF first = 0 THEN <<>> ELSE SubSeq(cmd, first, Len(cmd))

ScriptRecord == [spec : Seq(STRING), excluded : SUBSET STRING,
                 listed : BOOLEAN, unlisted : BOOLEAN]

ASSUME DirsAssumption == Dirs \in Seq(STRING)
ASSUME PlansAssumption ==
    \A p \in Plans : /\ p \in Seq(ScriptRecord) /\ Len(p) <= MaxScripts
                     /\ \A s \in DOMAIN p : Len(SplitCmd(p[s].spec)) <= MaxScripts
ASSUME StreamsAssumption == \A s \in Streams : s \in Stream
ASSUME BoundAssumption == MaxScripts \in Nat

Commands == SplitCmd(plan[script].spec)
Program == Head(ExtractEnv(Commands[command]))
Allowed(s) == Modules \ plan[s].excluded

\* not-concurrent wins over concurrent and -concurrent.
Concurrent(s) == (always \/ plan[s].listed) /\ ~plan[s].unlisted

Started(dirs) ==
    /\ running' = dirs
    /\ checker' = [d \in Modules |-> IF d \in dirs THEN NewChecker ELSE checker[d]]

\* An action without a command ends main before anything has run.
Unsupported ==
    /\ exit = "none" /\ \E s \in DOMAIN plan : plan[s].spec = <<>>
    /\ exit' = "failed"
    /\ UNCHANGED <<plan, always, stream, script, command, pass, visited, running,
                   failed, checker, ran>>

\* The head of the loops over scripts and commands.  A command without words is
\* indexed all the same.
BeginCommand ==
    /\ exit = "none" /\ pass = "none" /\ \A s \in DOMAIN plan : plan[s].spec # <<>>
    /\ failed' = FALSE
    /\ \/ /\ script > Len(plan) /\ exit' = "ok"
          /\ UNCHANGED <<script, command, pass, visited, running, checker>>
       \/ /\ script <= Len(plan) /\ command > Len(Commands)
          /\ script' = script + 1 /\ command' = 1
          /\ UNCHANGED <<exit, pass, visited, running, checker>>
       \/ /\ script <= Len(plan) /\ command <= Len(Commands)
          /\ ExtractEnv(Commands[command]) = <<>>
          /\ exit' = "panic"
          /\ UNCHANGED <<script, command, pass, visited, running, checker>>
       \/ /\ script <= Len(plan) /\ command <= Len(Commands)
          /\ ExtractEnv(Commands[command]) # <<>>
          /\ visited' = 0
          /\ IF Concurrent(script)
             THEN pass' = "concurrent" /\ Started(Allowed(script))
             ELSE pass' = "sequential" /\ Started({})
          /\ UNCHANGED <<exit, script, command>>
    /\ UNCHANGED <<plan, always, stream, ran>>

\* runInDir returns in module d.
Returns(d, code) ==
    /\ running' = running \ {d}
    /\ failed' = (failed \/ code # 0)
    /\ ran' = [ran EXCEPT ![<<script, command, d>>] = Append(@, code)]

ProgramReturns(d) ==
    /\ exit = "none" /\ d \in running /\ Program # "govulnchecker"
    /\ \E code \in {0, 1} : Returns(d, code)
    /\ UNCHANGED <<plan, always, stream, script, command, pass, visited, checker, exit>>

\* govulnchecker's own settings cannot be read, or govulncheck does not start.
CheckerFails(d) ==
    /\ exit = "none" /\ d \in running /\ Program = "govulnchecker"
    /\ checker[d] = NewChecker
    /\ Returns(d, 1)
    /\ UNCHANGED <<plan, always, stream, script, command, pass, visited, checker, exit>>

CheckerDecodes(d) ==
    /\ exit = "none" /\ d \in running /\ Program = "govulnchecker"
    /\ checker' = [checker EXCEPT ![d] = Decode(@, stream[d])]
    /\ UNCHANGED <<plan, always, stream, script, command, pass, visited, running,
                   failed, exit, ran>>

CheckerReturns(d) ==
    /\ exit = "none" /\ d \in running /\ Program = "govulnchecker"
    /\ LoopEnds(checker[d], stream[d])
    /\ Returns(d, ExitStatus(checker[d], stream[d]))
    /\ UNCHANGED <<plan, always, stream, script, command, pass, visited, checker, exit>>

\* Faulty variant: nobody waits for the goroutines.
ConcurrentPassEndsUnwaited ==
    /\ exit = "none" /\ pass = "concurrent"
    /\ IF failed THEN exit' = "failed" /\ UNCHANGED pass
                 ELSE pass' = "sequential" /\ UNCHANGED exit
    /\ UNCHANGED <<plan, always, stream, script, command, visited, running, failed,
                   checker, ran>>

\* g.Wait: a failure ends main; without one the modules are visited again, one
\* at a time.
ConcurrentPassEnds ==
    /\ exit = "none" /\ pass = "concurrent" /\ running = {}
    /\ IF failed THEN exit' = "failed" /\ UNCHANGED pass
                 ELSE pass' = "sequential" /\ UNCHANGED exit
    /\ UNCHANGED <<plan, always, stream, script, command, visited, running, failed,
                   checker, ran>>

NextModule ==
    /\ exit = "none" /\ pass = "sequential" /\ running = {}
    /\ \E i \in visited + 1..Len(Dirs) :
          /\ Dirs[i] \in Allowed(script)
          /\ \A j \in visited + 1..i - 1 : Dirs[j] \notin Allowed(script)
          /\ visited' = i
          /\ Started({Dirs[i]})
    /\ UNCHANGED <<plan, always, stream, script, command, pass, failed, exit, ran>>

\* All modules have been visited.
AllVisited == \A i \in visited + 1..Len(Dirs) : Dirs[i] \notin Allowed(script)

\* Faulty variant: only the last module's result counts.
SequentialPassEndsWithLast ==
    /\ exit = "none" /\ pass = "sequential" /\ running = {} /\ AllVisited
    /\ LET last == ran[<<script, command, Last(Dirs)>>]
       IN  IF failed /\ last # <<>> /\ Last(last) = 1
           THEN exit' = "failed" /\ UNCHANGED <<pass, command>>
           ELSE pass' = "none" /\ command' = command + 1 /\ UNCHANGED exit
    /\ UNCHANGED <<plan, always, stream, script, visited, running, failed, checker, ran>>

\* A failure ends main after all modules were visited.
SequentialPassEnds ==
    /\ exit = "none" /\ pass = "sequential" /\ running = {} /\ AllVisited
    /\ IF failed THEN exit' = "failed" /\ UNCHANGED <<pass, command>>
                 ELSE pass' = "none" /\ command' = command + 1 /\ UNCHANGED exit
    /\ UNCHANGED <<plan, always, stream, script, visited, running, failed, checker, ran>>

-----------------------------------------------------------------------------

Main == Unsupported \/ BeginCommand \/ ConcurrentPassEnds \/ NextModule \/ SequentialPassEnds
Command(d) == ProgramReturns(d) \/ CheckerFails(d) \/ CheckerDecodes(d) \/ CheckerReturns(d)

Next == Main \/ \E d \in Modules : Command(d)

Spec == Init /\ [][Next]_vars

\* Programs end and main goes on.
FairSpec == Spec /\ WF_vars(Main) /\ \A d \in Modules : WF_vars(Command(d))

-----------------------------------------------------------------------------

\* A command runs in a module only after the one before it has succeeded in all
\* the modules of its script, whatever ran concurrently (update: "go get" before
\* "go mod tidy").
CommandsInOrder ==
    \A s \in DOMAIN plan, c \in 1..MaxScripts-1, d \in Modules :
        ran[<<s, c + 1, d>>] # <<>> =>
            \A e \in Allowed(s) : ran[<<s, c, e>>] # <<>> /\ Last(ran[<<s, c, e>>]) = 0

\* Status 0: every command of every script ran in every module it is for and was
\* never seen to fail, and it ran in no other one.
ZeroMeansAll ==
    exit = "ok" => \A s \in DOMAIN plan : \A c \in DOMAIN SplitCmd(plan[s].spec) : \A d \in Modules :
        LET codes == ran[<<s, c, d>>]
        IN  IF d \in plan[s].excluded THEN codes = <<>>
            ELSE codes # <<>> /\ 1 \notin ToSet(codes)

\* The last configuration before value i, if any, says that symbols were scanned.
SymbolsScanned(values, i) ==
    \A j \in 1..i-1 : values[j].kind = "config" /\ values[j].level # "symbol" =>
        \E k \in j+1..i-1 : values[k].kind = "config"

\* Value i is no vulnerability that is called (or, when only imports were scanned,
\* imported) and not ignored.
Clean(values, i) ==
    values[i].kind = "finding" =>
        \/ values[i].osv \in Ignored \cup {""}
        \/ ~values[i].called /\ ~IncludeNotCalled /\ SymbolsScanned(values, i)

\* Status 0 with govulnchecker among the commands: it found the output about every
\* module it is for clean.
ZeroMeansClean ==
    exit = "ok" => \A s \in DOMAIN plan : \A c \in DOMAIN SplitCmd(plan[s].spec) :
        Head(ExtractEnv(SplitCmd(plan[s].spec)[c])) = "govulnchecker" =>
            \A d \in Modules \ plan[s].excluded :
                \A i \in DOMAIN stream[d].values : Clean(stream[d].values, i)

\* multimod ends if govulncheck's output does not break off (if it does, the
\* loop of govulnchecker never ends: main.go:164-169).
ChecksEnd == (\A d \in Modules : ~stream[d].cut) ~> exit # "none"

\* README.md:19: multimod "executes defined actions across modules sequentially
\* or concurrently"; main.go:163: -concurrent will "run commands concurrently in
\* all modules".  A command runs once in a module.
RunsOnce == \A k \in Keys : Len(ran[k]) <= 1

=============================================================================
