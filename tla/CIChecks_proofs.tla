-------------------------- MODULE CIChecks_proofs --------------------------
(***************************************************************************)
(* Theorems about CIChecks and Govulnchecker, for every repository, every  *)
(* plan, every output of govulncheck and every number of scripts.          *)
(***************************************************************************)
EXTENDS CIChecks, FiniteSetTheorems, SequenceTheorems, TLAPS

Cmds(s) == SplitCmd(plan[s].spec)
IsChecker(cmd) == Head(ExtractEnv(cmd)) = "govulnchecker"

\* Where main is.
PlaceOK ==
    /\ plan \in Plans /\ always \in BOOLEAN /\ stream \in [Modules -> Streams]
    /\ script \in 1..MaxScripts + 1 /\ command \in 1..MaxScripts + 1
    /\ pass \in {"none", "concurrent", "sequential"}
    /\ visited \in 0..Len(Dirs)
    /\ failed \in BOOLEAN /\ exit \in {"none", "ok", "failed", "panic"}
    /\ pass # "none" => script \in DOMAIN plan /\ command \in DOMAIN Cmds(script)
    /\ exit = "ok" => script > Len(plan)

\* Where the command runs.
RunningOK ==
    /\ pass = "none" => running = {}
    /\ pass # "none" => running \subseteq Allowed(script)
    /\ pass = "sequential" => running = {} \/ \E d \in Modules : running = {d}

\* What a govulnchecker knows of the values v it has read.
Knows(c, v) ==
    /\ c.at \in 1..Len(v) + 1
    /\ c.level = "symbol" => SymbolsScanned(v, c.at)
    /\ ~c.unmatched => \A i \in 1..c.at - 1 : Clean(v, i)

CheckersOK ==
    /\ checker = [d \in Modules |-> checker[d]]
    /\ \A d \in Modules : Knows(checker[d], stream[d].values)

\* Command c of script s comes before the one main is at.
Past(s, c) == s < script \/ (s = script /\ c < command)

\* A command has been run where it is for up to where main is, and nowhere else; a
\* govulnchecker that returned 0 had a clean output.
RanOK ==
    \A s, c \in 1..MaxScripts : \A d \in Modules :
        LET codes == ran[<<s, c, d>>]
        IN  /\ codes # <<>> => /\ s \in DOMAIN plan /\ c \in DOMAIN Cmds(s) /\ d \in Allowed(s)
                               /\ Past(s, c) \/ (s = script /\ c = command /\ pass # "none")
            /\ s \in DOMAIN plan /\ c \in DOMAIN Cmds(s) /\ d \in Allowed(s) /\ Past(s, c)
                  => codes # <<>> /\ 1 \notin ToSet(codes)
            /\ 0 \in ToSet(codes) /\ IsChecker(Cmds(s)[c])
                  => \A i \in DOMAIN stream[d].values : Clean(stream[d].values, i)

\* The pass main is in.
PassOK ==
    pass # "none" =>
        /\ ~failed => \A d \in Modules : 1 \notin ToSet(ran[<<script, command, d>>])
        /\ pass = "concurrent" =>
              \A d \in Allowed(script) \ running : ran[<<script, command, d>>] # <<>>
        /\ pass = "sequential" =>
              \A i \in 1..visited : Dirs[i] \in Allowed(script) \ running
                                       => ran[<<script, command, Dirs[i]>>] # <<>>

ChecksInv ==
    /\ PlaceOK
    /\ RunningOK
    /\ CheckersOK
    /\ ran \in [Keys -> Seq({0, 1})]
    /\ RanOK
    /\ PassOK

-----------------------------------------------------------------------------
(* Words, commands and exit codes.                                          *)

\* splitCmd makes a sequence of commands of the words it is given.
LEMMA SplitCmdIs ==
  ASSUME NEW spec \in Seq(STRING)
  PROVE  /\ Len(SplitCmd(spec)) \in Nat
         /\ DOMAIN SplitCmd(spec) = 1..Len(SplitCmd(spec))
<1> DEFINE after == IF spec = <<>> \/ Last(spec) = ";" THEN {} ELSE {Len(spec) + 1}
           ended == {i \in DOMAIN spec : spec[i] = ";"}
           ends == ended \cup after
           End(c) == CHOOSE e \in ends \cup {0} : Cardinality({f \in ends : f <= e}) = c
           n == Cardinality(ends)
<1>1. n \in Nat
  <2>1. Len(spec) + 1 \in Int /\ 1 \in Int
    OBVIOUS
  <2>2. IsFiniteSet(1..Len(spec) + 1)
    BY <2>1, FS_Interval
  <2>3. ends \subseteq 1..Len(spec) + 1
    <3>1. Len(spec) \in Nat /\ DOMAIN spec = 1..Len(spec)
      OBVIOUS
    <3>2. after \subseteq {Len(spec) + 1}
      OBVIOUS
    <3>3. ended \subseteq 1..Len(spec)
      BY <3>1
    <3> HIDE DEF after, ended
    <3> QED BY <3>1, <3>2, <3>3
  <2> HIDE DEF ends
  <2> QED BY <2>2, <2>3, FS_Subset, FS_CardinalityType
<1>2. SplitCmd(spec) = [c \in 1..n |-> SubSeq(spec, End(c - 1) + 1, End(c) - 1)]
  BY DEF SplitCmd
<1> HIDE DEF n, End
<1> QED BY <1>1, <1>2

LEMMA PlanIs ==
  ASSUME PlaceOK
  PROVE  /\ Len(plan) \in 0..MaxScripts /\ DOMAIN plan = 1..Len(plan)
         /\ \A s \in DOMAIN plan :
               /\ s \in 1..MaxScripts
               /\ Len(Cmds(s)) \in 0..MaxScripts /\ DOMAIN Cmds(s) = 1..Len(Cmds(s))
<1> USE BoundAssumption
<1>1. plan \in Seq(ScriptRecord) /\ Len(plan) <= MaxScripts
      /\ \A s \in DOMAIN plan : Len(SplitCmd(plan[s].spec)) <= MaxScripts
  BY PlansAssumption DEF PlaceOK
<1>2. Len(plan) \in 0..MaxScripts /\ DOMAIN plan = 1..Len(plan)
  BY <1>1
<1>3. ASSUME NEW s \in DOMAIN plan
      PROVE  /\ s \in 1..MaxScripts
             /\ Len(Cmds(s)) \in 0..MaxScripts /\ DOMAIN Cmds(s) = 1..Len(Cmds(s))
  <2>1. plan[s].spec \in Seq(STRING)
    <3>1. plan[s] \in ScriptRecord
      BY <1>1
    <3> QED BY <3>1 DEF ScriptRecord
  <2>2. Len(Cmds(s)) \in Nat /\ DOMAIN Cmds(s) = 1..Len(Cmds(s))
    BY <2>1, SplitCmdIs DEF Cmds
  <2>3. Len(Cmds(s)) <= MaxScripts
    BY <1>1 DEF Cmds
  <2> QED BY <1>2, <2>2, <2>3
<1> QED BY <1>2, <1>3

\* Main is at a command of the plan while a pass is on.
LEMMA PassIsAt ==
  ASSUME PlaceOK, pass # "none"
  PROVE  /\ script \in 1..MaxScripts /\ script \in DOMAIN plan
         /\ command \in 1..MaxScripts /\ command \in DOMAIN Cmds(script)
         /\ Commands = Cmds(script)
<1>1. script \in DOMAIN plan /\ command \in DOMAIN Cmds(script)
  BY DEF PlaceOK
<1>2. Commands = Cmds(script)
  BY DEF Commands, Cmds
<1> QED BY <1>1, <1>2, PlanIs, BoundAssumption

LEMMA AppendCode ==
  ASSUME NEW codes \in Seq({0, 1}), NEW code \in {0, 1}
  PROVE  /\ Append(codes, code) \in Seq({0, 1}) /\ Append(codes, code) # <<>>
         /\ ToSet(Append(codes, code)) = ToSet(codes) \cup {code}
<1> DEFINE more == Append(codes, code)
<1>1. /\ more \in Seq({0, 1}) /\ Len(more) = Len(codes) + 1 /\ Len(codes) \in Nat
      /\ \A i \in 1..Len(codes) : more[i] = codes[i]
      /\ more[Len(codes) + 1] = code
  BY AppendProperties
<1>2. DOMAIN more = 1..Len(codes) + 1 /\ DOMAIN codes = 1..Len(codes)
  BY <1>1
<1> HIDE DEF more
<1>3. more # <<>>
  BY <1>1
<1>4. ToSet(more) = ToSet(codes) \cup {code}
  <2>1. ASSUME NEW x \in ToSet(more)
        PROVE  x \in ToSet(codes) \cup {code}
    BY <1>1, <1>2, <2>1 DEF ToSet
  <2>2. ASSUME NEW x \in ToSet(codes) \cup {code}
        PROVE  x \in ToSet(more)
    <3>1. CASE x = code
      BY <1>1, <1>2, <3>1 DEF ToSet
    <3>2. CASE x \in ToSet(codes)
      <4>1. PICK i \in 1..Len(codes) : x = codes[i]
        BY <1>2, <3>2 DEF ToSet
      <4>2. i \in DOMAIN more /\ more[i] = x
        BY <1>1, <1>2, <4>1
      <4> QED BY <4>2 DEF ToSet
    <3> QED BY <3>1, <3>2
  <2> QED BY <2>1, <2>2
<1> QED BY <1>1, <1>3, <1>4 DEF more

\* Codes that are there and hold no 1 end in 0.
LEMMA AllZero ==
  ASSUME NEW codes \in Seq({0, 1}), codes # <<>>, 1 \notin ToSet(codes)
  PROVE  Last(codes) = 0 /\ 0 \in ToSet(codes)
<1>1. Len(codes) \in DOMAIN codes
  OBVIOUS
<1>2. codes[Len(codes)] \in {0, 1} /\ codes[Len(codes)] \in ToSet(codes)
  BY <1>1 DEF ToSet
<1> QED BY <1>2 DEF Last

-----------------------------------------------------------------------------
(* govulnchecker.                                                           *)

LEMMA KnowsNothing ==
  ASSUME NEW v, Len(v) \in Nat
  PROVE  Knows(NewChecker, v)
  BY DEF Knows, NewChecker, SymbolsScanned

\* One turn of the loop keeps the scan level and remembers what counts.
LEMMA DecodeKnows ==
  ASSUME NEW c, NEW s, Len(s.values) \in Nat, Knows(c, s.values)
  PROVE  Knows(Decode(c, s), s.values)
<1> DEFINE v == s.values
           value == v[c.at]
           d == Decode(c, s)
<1>1. CASE AtEnd(c, s)
  BY <1>1 DEF Decode
<1>2. CASE ~AtEnd(c, s)
  <2>1. /\ d.at = c.at + 1
        /\ d.level = IF value.kind = "config" THEN value.level ELSE c.level
        /\ d.unmatched = (c.unmatched \/ Counts(value, c.level))
    BY <1>2 DEF Decode
  <2>2. c.at \in 1..Len(v) /\ d.at \in 1..Len(v) + 1
    BY <1>2, <2>1 DEF AtEnd, Knows
  <2>3. ASSUME d.level = "symbol"
        PROVE  SymbolsScanned(v, c.at + 1)
    <3> SUFFICES ASSUME NEW j \in 1..c.at, v[j].kind = "config", v[j].level # "symbol"
                 PROVE  \E k \in j + 1..c.at : v[k].kind = "config"
      BY <2>2 DEF SymbolsScanned
    <3>1. CASE value.kind = "config"
      <4>1. j # c.at
        BY <2>1, <2>3, <3>1
      <4> QED BY <2>2, <3>1, <4>1
    <3>2. CASE value.kind # "config"
      <4>1. SymbolsScanned(v, c.at) /\ j \in 1..c.at - 1
        BY <2>1, <2>2, <2>3, <3>2 DEF Knows
      <4>2. PICK k \in j + 1..c.at - 1 : v[k].kind = "config"
        BY <4>1 DEF SymbolsScanned
      <4> QED BY <2>2, <4>2
    <3> QED BY <3>1, <3>2
  <2>4. ASSUME ~d.unmatched, NEW i \in 1..c.at
        PROVE  Clean(v, i)
    <3>1. CASE i = c.at
      <4>1. ~Counts(value, c.level)
        BY <2>1, <2>4
      <4>2. SymbolsScanned(v, c.at) \/ c.level # "symbol"
        BY DEF Knows
      <4> QED BY <3>1, <4>1, <4>2 DEF Counts, Clean
    <3>2. CASE i # c.at
      <4>1. i \in 1..c.at - 1
        BY <2>2, <3>2
      <4>2. ~c.unmatched
        BY <2>1, <2>4
      <4> QED BY <4>1, <4>2 DEF Knows
    <3> QED BY <3>1, <3>2
  <2>5. (c.at + 1) - 1 = c.at
    BY <2>2
  <2> HIDE DEF d, v
  <2> QED BY <2>1, <2>2, <2>3, <2>4, <2>5 DEF Knows, v, d
<1> QED BY <1>1, <1>2

\* A govulnchecker that ends with 0 has read everything and found it clean.
LEMMA ZeroKnows ==
  ASSUME NEW c, NEW s, s.values \in Seq(Value), Knows(c, s.values), LoopEnds(c, s),
         ExitStatus(c, s) = 0
  PROVE  \A i \in DOMAIN s.values : Clean(s.values, i)
<1>1. ~c.unmatched
  BY DEF ExitStatus
<1>2. c.at = Len(s.values) + 1 /\ DOMAIN s.values = 1..c.at - 1
  BY DEF LoopEnds, AtEnd, Knows
<1> QED BY <1>1, <1>2 DEF Knows

-----------------------------------------------------------------------------
(* The steps.                                                               *)

LEMMA InitChecks == Init => ChecksInv
<1> SUFFICES ASSUME Init PROVE ChecksInv
  OBVIOUS
<1> USE BoundAssumption
<1>1. plan \in Seq(ScriptRecord) /\ Len(plan) \in Nat /\ Len(Dirs) \in Nat
  BY PlansAssumption, DirsAssumption DEF Init
<1>2. PlaceOK
  <2>1. plan \in Plans /\ always \in BOOLEAN /\ stream \in [Modules -> Streams]
    BY DEF Init
  <2>2. 1 \in 1..MaxScripts + 1 /\ 0 \in 0..Len(Dirs)
    BY <1>1
  <2>3. /\ script = 1 /\ command = 1 /\ pass = "none" /\ visited = 0
        /\ failed = FALSE /\ exit = "none"
    BY DEF Init
  <2> QED BY <2>1, <2>2, <2>3 DEF PlaceOK
<1>3. RunningOK /\ PassOK
  BY DEF Init, RunningOK, PassOK
<1>4. CheckersOK
  <2>1. ASSUME NEW d \in Modules
        PROVE  Knows(checker[d], stream[d].values)
    <3>1. stream[d] \in Stream
      BY StreamsAssumption DEF Init
    <3>2. Len(stream[d].values) \in Nat
      BY <3>1 DEF Stream
    <3>3. checker[d] = NewChecker
      BY DEF Init
    <3> QED BY <3>2, <3>3, KnowsNothing
  <2>2. checker = [d \in Modules |-> checker[d]]
    BY DEF Init
  <2> QED BY <2>1, <2>2 DEF CheckersOK
<1>5. ran \in [Keys -> Seq({0, 1})]
  BY DEF Init
<1>6. RanOK
  <2>1. ASSUME NEW s \in 1..MaxScripts, NEW c \in 1..MaxScripts, NEW d \in Modules
        PROVE  ran[<<s, c, d>>] = <<>> /\ ToSet(ran[<<s, c, d>>]) = {}
    BY DEF Init, Keys, ToSet
  <2>2. ASSUME NEW s \in 1..MaxScripts, NEW c, s \in DOMAIN plan, c \in DOMAIN Cmds(s)
        PROVE  ~Past(s, c)
    <3>1. c \in Nat /\ c >= 1
      BY <1>2, <2>2, PlanIs
    <3> QED BY <3>1 DEF Past, Init
  <2> QED BY <2>1, <2>2 DEF RanOK
<1> QED BY <1>2, <1>3, <1>4, <1>5, <1>6 DEF ChecksInv

\* What stays of the checkers when the modules in dirs get new ones.
LEMMA StartedKnows ==
  ASSUME PlaceOK, CheckersOK, UNCHANGED stream, NEW dirs, Started(dirs)
  PROVE  CheckersOK' /\ running' = dirs
<1>1. ASSUME NEW d \in Modules
      PROVE  Knows(checker'[d], stream[d].values)
  <2>1. stream[d] \in Stream
    BY StreamsAssumption DEF PlaceOK
  <2>2. Len(stream[d].values) \in Nat
    BY <2>1 DEF Stream
  <2>3. checker'[d] = NewChecker \/ checker'[d] = checker[d]
    BY DEF Started
  <2> QED BY <2>2, <2>3, KnowsNothing DEF CheckersOK
<1>2. checker' = [d \in Modules |-> checker'[d]]
  BY DEF Started
<1>3. Modules' = Modules /\ running' = dirs
  BY DEF Modules, Started
<1> QED BY <1>1, <1>2, <1>3 DEF CheckersOK

\* A step that runs nothing and passes no command that is in the plan.
LEMMA RanStays ==
  ASSUME ChecksInv, UNCHANGED <<plan, stream, ran>>,
         \A s, c \in 1..MaxScripts : s \in DOMAIN plan /\ c \in DOMAIN Cmds(s)
                                        => (Past(s, c)' <=> Past(s, c)),
         pass # "none" => pass' # "none" /\ UNCHANGED <<script, command>>
  PROVE  ran' \in [Keys -> Seq({0, 1})] /\ RanOK'
<1>1. ran' \in [Keys -> Seq({0, 1})]
  BY DEF ChecksInv
<1>2. ASSUME NEW s \in 1..MaxScripts, NEW c \in 1..MaxScripts, NEW d \in Modules
      PROVE  /\ ran[<<s, c, d>>] # <<>>
                  => /\ s \in DOMAIN plan /\ c \in DOMAIN Cmds(s) /\ d \in Allowed(s)
                     /\ Past(s, c)' \/ (s = script' /\ c = command' /\ pass' # "none")
             /\ s \in DOMAIN plan /\ c \in DOMAIN Cmds(s) /\ d \in Allowed(s) /\ Past(s, c)'
                  => ran[<<s, c, d>>] # <<>> /\ 1 \notin ToSet(ran[<<s, c, d>>])
             /\ 0 \in ToSet(ran[<<s, c, d>>]) /\ IsChecker(Cmds(s)[c])
                  => \A i \in DOMAIN stream[d].values : Clean(stream[d].values, i)
  BY <1>2 DEF ChecksInv, RanOK
<1> QED BY <1>1, <1>2 DEF RanOK, Cmds, Allowed, Modules

LEMMA UnsupportedKeeps ==
  ASSUME ChecksInv, Unsupported
  PROVE  ChecksInv'
<1>1. /\ UNCHANGED <<plan, always, stream, script, command, pass, visited, running,
                     failed, checker, ran>>
      /\ exit' = "failed"
  BY DEF Unsupported
<1>2. PlaceOK'
  BY <1>1 DEF ChecksInv, PlaceOK, Modules, Cmds
<1>3. RunningOK' /\ CheckersOK' /\ PassOK'
  BY <1>1 DEF ChecksInv, RunningOK, CheckersOK, PassOK, Modules, Allowed
<1>4. ran' \in [Keys -> Seq({0, 1})] /\ RanOK'
  BY <1>1, RanStays DEF Past
<1> QED BY <1>2, <1>3, <1>4 DEF ChecksInv

LEMMA BeginCommandKeeps ==
  ASSUME ChecksInv, BeginCommand
  PROVE  ChecksInv'
<1> USE BoundAssumption
<1>1. /\ PlaceOK /\ RunningOK /\ CheckersOK /\ RanOK
      /\ exit = "none" /\ pass = "none" /\ failed' = FALSE /\ running = {}
      /\ UNCHANGED <<plan, always, stream, ran>>
  BY DEF BeginCommand, ChecksInv, RunningOK
<1>2. /\ plan' \in Plans /\ always' \in BOOLEAN /\ stream' \in [Modules -> Streams]
      /\ failed' \in BOOLEAN /\ visited \in 0..Len(Dirs) /\ Len(Dirs) \in Nat
      /\ script \in 1..MaxScripts + 1 /\ command \in 1..MaxScripts + 1
  <2>1. /\ plan' \in Plans /\ stream' \in [Modules -> Streams] /\ visited \in 0..Len(Dirs)
        /\ script \in 1..MaxScripts + 1 /\ command \in 1..MaxScripts + 1
    BY <1>1 DEF PlaceOK
  <2>2. always' \in BOOLEAN
    BY <1>1 DEF PlaceOK
  <2>3. failed' \in BOOLEAN
    BY <1>1
  <2>4. Len(Dirs) \in Nat
    BY DirsAssumption
  <2> QED BY <2>1, <2>2, <2>3, <2>4
<1>3. CASE /\ script > Len(plan) /\ exit' = "ok"
           /\ UNCHANGED <<script, command, pass, visited, running, checker>>
  <2>1. PlaceOK'
    BY <1>1, <1>2, <1>3 DEF PlaceOK, Modules
  <2>2. RunningOK' /\ CheckersOK' /\ PassOK'
    BY <1>1, <1>3 DEF RunningOK, CheckersOK, PassOK, Modules
  <2>3. ran' \in [Keys -> Seq({0, 1})] /\ RanOK'
    BY <1>1, <1>3, RanStays DEF Past
  <2> QED BY <2>1, <2>2, <2>3 DEF ChecksInv
<1>4. CASE /\ script <= Len(plan) /\ command > Len(Commands)
           /\ script' = script + 1 /\ command' = 1
           /\ UNCHANGED <<exit, pass, visited, running, checker>>
  <2>1. PlaceOK'
    <3>1. script' \in 1..MaxScripts + 1 /\ command' \in 1..MaxScripts + 1
      BY <1>1, <1>2, <1>4, PlanIs
    <3> QED BY <1>1, <1>2, <1>4, <3>1 DEF PlaceOK, Modules
  <2>2. RunningOK' /\ CheckersOK' /\ PassOK'
    BY <1>1, <1>4 DEF RunningOK, CheckersOK, PassOK, Modules
  <2>3. ASSUME NEW s \in 1..MaxScripts, NEW c \in 1..MaxScripts,
               s \in DOMAIN plan, c \in DOMAIN Cmds(s)
        PROVE  Past(s, c)' <=> Past(s, c)
    <3>1. Past(s, c)' <=> s < script + 1
      BY <1>2, <1>4 DEF Past
    <3>2. CASE s = script
      <4>1. Commands = Cmds(s)
        BY <3>2 DEF Commands, Cmds
      <4>2. c <= Len(Cmds(s)) /\ Len(Cmds(s)) \in Nat
        BY <1>1, <2>3, PlanIs
      <4> QED BY <1>2, <1>4, <3>1, <3>2, <4>1, <4>2 DEF Past
    <3>3. CASE s # script
      BY <1>2, <3>1, <3>3 DEF Past
    <3> QED BY <3>2, <3>3
  <2>4. ran' \in [Keys -> Seq({0, 1})] /\ RanOK'
    BY <1>1, <2>3, RanStays
  <2> QED BY <2>1, <2>2, <2>4 DEF ChecksInv
<1>5. CASE /\ exit' = "panic"
           /\ UNCHANGED <<script, command, pass, visited, running, checker>>
  <2>1. PlaceOK'
    BY <1>1, <1>2, <1>5 DEF PlaceOK, Modules
  <2>2. RunningOK' /\ CheckersOK' /\ PassOK'
    BY <1>1, <1>5 DEF RunningOK, CheckersOK, PassOK, Modules
  <2>3. ran' \in [Keys -> Seq({0, 1})] /\ RanOK'
    BY <1>1, <1>5, RanStays DEF Past
  <2> QED BY <2>1, <2>2, <2>3 DEF ChecksInv
<1>6. CASE /\ script <= Len(plan) /\ command <= Len(Commands)
           /\ visited' = 0
           /\ IF Concurrent(script)
              THEN pass' = "concurrent" /\ Started(Allowed(script))
              ELSE pass' = "sequential" /\ Started({})
           /\ UNCHANGED <<exit, script, command>>
  <2>1. PICK dirs \in {Allowed(script), {}} :
           /\ Started(dirs)
           /\ \/ pass' = "concurrent" /\ dirs = Allowed(script)
              \/ pass' = "sequential" /\ dirs = {}
    BY <1>6
  <2>2. CheckersOK' /\ running' = dirs
    BY <1>1, <2>1, StartedKnows
  <2>3. script \in DOMAIN plan /\ command \in DOMAIN Cmds(script)
    <3>1. script \in DOMAIN plan
      BY <1>1, <1>2, <1>6, PlanIs
    <3>2. Commands = Cmds(script)
      BY DEF Commands, Cmds
    <3> QED BY <1>1, <1>2, <1>6, <3>1, <3>2, PlanIs
  <2>4. PlaceOK'
    BY <1>1, <1>2, <1>6, <2>1, <2>3 DEF PlaceOK, Modules, Cmds
  <2>5. RunningOK'
    BY <1>1, <1>6, <2>1, <2>2 DEF RunningOK, Allowed, Modules
  <2>6. ran' \in [Keys -> Seq({0, 1})] /\ RanOK'
    BY <1>1, <1>6, RanStays DEF Past
  <2>7. ASSUME NEW d \in Modules
        PROVE  ToSet(ran[<<script, command, d>>]) = {}
    <3>1. script \in 1..MaxScripts /\ command \in 1..MaxScripts
      BY <1>1, <2>3, PlanIs
    <3>2. ~Past(script, command)
      BY <1>2 DEF Past
    <3>3. ran[<<script, command, d>>] = <<>>
      BY <1>1, <3>1, <3>2 DEF RanOK
    <3> QED BY <3>3 DEF ToSet
  <2>8. PassOK'
    <3>1. \A i \in 1..visited' : FALSE
      BY <1>6
    <3>2. pass' = "concurrent" => Allowed(script) \ running' = {}
      BY <2>1, <2>2
    <3> QED BY <1>1, <1>6, <2>7, <3>1, <3>2 DEF PassOK, Allowed, Modules
  <2> QED BY <2>2, <2>4, <2>5, <2>6, <2>8 DEF ChecksInv
<1> QED BY <1>3, <1>4, <1>5, <1>6 DEF BeginCommand

\* The command of this pass has not been past yet.
LEMMA NotPast ==
  ASSUME PlaceOK
  PROVE  ~Past(script, command)
<1>1. script \in Int /\ command \in Int
  BY BoundAssumption DEF PlaceOK
<1> QED BY <1>1 DEF Past

\* A command returns in a module; a govulnchecker's 0 means a clean output.
LEMMA ReturnsKeeps ==
  ASSUME ChecksInv, NEW d \in running, NEW code \in {0, 1}, Returns(d, code),
         UNCHANGED <<plan, always, stream, script, command, pass, visited, checker, exit>>,
         code = 0 /\ Program = "govulnchecker"
            => \A i \in DOMAIN stream[d].values : Clean(stream[d].values, i)
  PROVE  ChecksInv'
<1> DEFINE k == <<script, command, d>>
<1>1. PlaceOK /\ RunningOK /\ CheckersOK /\ RanOK /\ PassOK /\ ran \in [Keys -> Seq({0, 1})]
  BY DEF ChecksInv
<1>2. pass # "none" /\ d \in Allowed(script) /\ d \in Modules
  BY <1>1 DEF RunningOK, Allowed
<1>3. /\ script \in 1..MaxScripts /\ script \in DOMAIN plan
      /\ command \in 1..MaxScripts /\ command \in DOMAIN Cmds(script)
      /\ Program = Head(ExtractEnv(Cmds(script)[command]))
  BY <1>1, <1>2, PassIsAt DEF Program
<1>4. k \in Keys
  BY <1>2, <1>3 DEF Keys
<1>5. /\ ran' = [ran EXCEPT ![k] = Append(@, code)]
      /\ running' = running \ {d}
      /\ failed' = (failed \/ code # 0)
  BY DEF Returns
<1>6. /\ ran'[k] \in Seq({0, 1}) /\ ran'[k] # <<>>
      /\ ToSet(ran'[k]) = ToSet(ran[k]) \cup {code}
      /\ \A j \in Keys : j # k => ran'[j] = ran[j]
  <2>1. ran[k] \in Seq({0, 1}) /\ ran'[k] = Append(ran[k], code)
    BY <1>1, <1>4, <1>5
  <2> QED BY <1>1, <1>5, <2>1, AppendCode
<1>7. ran' \in [Keys -> Seq({0, 1})]
  <2>1. DOMAIN ran' = Keys /\ ran' = [j \in Keys |-> ran'[j]]
    BY <1>1, <1>5
  <2>2. \A j \in Keys : ran'[j] \in Seq({0, 1})
    BY <1>1, <1>6
  <2> QED BY <2>1, <2>2
<1>8. PlaceOK'
  <2>1. failed' \in BOOLEAN
    BY <1>5
  <2> QED BY <1>1, <2>1 DEF PlaceOK, Modules, Cmds
<1>9. RunningOK'
  BY <1>1, <1>2, <1>5 DEF RunningOK, Allowed, Modules
<1>10. CheckersOK'
  BY <1>1 DEF CheckersOK, Modules
<1>11. RanOK'
  <2>1. ASSUME NEW s \in 1..MaxScripts, NEW c \in 1..MaxScripts
        PROVE  Past(s, c)' <=> Past(s, c)
    BY DEF Past
  <2>2. ASSUME NEW s \in 1..MaxScripts, NEW c \in 1..MaxScripts, NEW e \in Modules
        PROVE  /\ ran'[<<s, c, e>>] # <<>>
                    => /\ s \in DOMAIN plan /\ c \in DOMAIN Cmds(s) /\ e \in Allowed(s)
                       /\ Past(s, c)' \/ (s = script /\ c = command /\ pass # "none")
               /\ s \in DOMAIN plan /\ c \in DOMAIN Cmds(s) /\ e \in Allowed(s) /\ Past(s, c)'
                    => ran'[<<s, c, e>>] # <<>> /\ 1 \notin ToSet(ran'[<<s, c, e>>])
               /\ 0 \in ToSet(ran'[<<s, c, e>>]) /\ IsChecker(Cmds(s)[c])
                    => \A i \in DOMAIN stream[e].values : Clean(stream[e].values, i)
    <3>1. CASE <<s, c, e>> = k
      <4>1. s = script /\ c = command /\ e = d
        BY <3>1
      <4>2. ~Past(s, c)'
        BY <1>1, <2>1, <4>1, NotPast
      <4>3. 0 \in ToSet(ran'[k]) /\ IsChecker(Cmds(script)[command])
              => \A i \in DOMAIN stream[d].values : Clean(stream[d].values, i)
        <5> SUFFICES ASSUME 0 \in ToSet(ran[k]) \cup {code}, IsChecker(Cmds(script)[command])
                     PROVE  \A i \in DOMAIN stream[d].values : Clean(stream[d].values, i)
          BY <1>6
        <5>1. CASE code = 0
          BY <1>3, <5>1 DEF IsChecker
        <5>2. CASE 0 \in ToSet(ran[k])
          BY <1>1, <1>2, <1>3, <5>2 DEF RanOK
        <5> QED BY <5>1, <5>2
      <4> HIDE DEF k
      <4> QED BY <1>2, <1>3, <1>6, <3>1, <4>1, <4>2, <4>3
    <3>2. CASE <<s, c, e>> # k
      <4>1. ran'[<<s, c, e>>] = ran[<<s, c, e>>]
        BY <1>6, <3>2 DEF Keys
      <4> QED BY <1>1, <2>1, <4>1 DEF RanOK
    <3> QED BY <3>1, <3>2
  <2> QED BY <2>2, ZenonT(60) DEF RanOK, Cmds, Allowed, Modules
<1>12. PassOK'
  <2>1. ASSUME NEW e \in Modules
        PROVE  <<script, command, e>> \in Keys
    BY <1>3 DEF Keys
  <2>2. ASSUME ~failed', NEW e \in Modules
        PROVE  1 \notin ToSet(ran'[<<script, command, e>>])
    <3>1. ~failed /\ code = 0
      BY <1>5, <2>2
    <3>2. 1 \notin ToSet(ran[<<script, command, e>>])
      BY <1>1, <1>2, <3>1 DEF PassOK
    <3>3. CASE e = d
      BY <1>6, <3>1, <3>2, <3>3
    <3>4. CASE e # d
      BY <1>6, <2>1, <3>2, <3>4
    <3> QED BY <3>3, <3>4
  <2>3. ASSUME NEW e \in Modules,
               e = d \/ ran[<<script, command, e>>] # <<>>
        PROVE  ran'[<<script, command, e>>] # <<>>
    BY <1>6, <2>1, <2>3
  <2>4. \A e \in Allowed(script) \ running' : e \in Modules /\ (e = d \/ e \notin running)
    BY <1>5 DEF Allowed
  <2>5. pass = "concurrent" =>
           \A e \in Allowed(script) \ running' : ran'[<<script, command, e>>] # <<>>
    BY <1>1, <2>3, <2>4 DEF PassOK
  <2>6. pass = "sequential" =>
           \A i \in 1..visited : Dirs[i] \in Allowed(script) \ running'
                                    => ran'[<<script, command, Dirs[i]>>] # <<>>
    BY <1>1, <2>3, <2>4 DEF PassOK
  <2> QED BY <2>2, <2>5, <2>6 DEF PassOK, Allowed, Modules
<1> QED BY <1>7, <1>8, <1>9, <1>10, <1>11, <1>12 DEF ChecksInv

LEMMA ProgramReturnsKeeps ==
  ASSUME ChecksInv, NEW d \in Modules, ProgramReturns(d)
  PROVE  ChecksInv'
<1>1. PICK code \in {0, 1} : Returns(d, code)
  BY DEF ProgramReturns
<1> QED BY <1>1, ReturnsKeeps DEF ProgramReturns

LEMMA CheckerFailsKeeps ==
  ASSUME ChecksInv, NEW d \in Modules, CheckerFails(d)
  PROVE  ChecksInv'
<1>1. Returns(d, 1)
  BY DEF CheckerFails
<1> QED BY <1>1, ReturnsKeeps DEF CheckerFails

LEMMA CheckerReturnsKeeps ==
  ASSUME ChecksInv, NEW d \in Modules, CheckerReturns(d)
  PROVE  ChecksInv'
<1> DEFINE code == ExitStatus(checker[d], stream[d])
<1>1. code \in {0, 1}
  BY DEF ExitStatus
<1>2. stream[d].values \in Seq(Value)
  <2>1. stream[d] \in Stream
    BY StreamsAssumption DEF ChecksInv, PlaceOK
  <2> QED BY <2>1 DEF Stream
<1>3. Knows(checker[d], stream[d].values) /\ LoopEnds(checker[d], stream[d])
  BY DEF CheckerReturns, ChecksInv, CheckersOK
<1>4. code = 0 => \A i \in DOMAIN stream[d].values : Clean(stream[d].values, i)
  BY <1>2, <1>3, ZeroKnows
<1> HIDE DEF code
<1>5. Returns(d, code)
  BY DEF CheckerReturns, code
<1> QED BY <1>1, <1>4, <1>5, ReturnsKeeps DEF CheckerReturns

LEMMA CheckerDecodesKeeps ==
  ASSUME ChecksInv, NEW d \in Modules, CheckerDecodes(d)
  PROVE  ChecksInv'
<1>1. /\ UNCHANGED <<plan, always, stream, script, command, pass, visited, running,
                     failed, exit, ran>>
      /\ checker' = [checker EXCEPT ![d] = Decode(@, stream[d])]
  BY DEF CheckerDecodes
<1>2. CheckersOK'
  <2>1. /\ checker = [e \in Modules |-> checker[e]]
        /\ \A e \in Modules : Knows(checker[e], stream[e].values)
    BY DEF ChecksInv, CheckersOK
  <2>2. Len(stream[d].values) \in Nat
    <3>1. stream[d] \in Stream
      BY StreamsAssumption DEF ChecksInv, PlaceOK
    <3> QED BY <3>1 DEF Stream
  <2>3. Knows(Decode(checker[d], stream[d]), stream[d].values)
    BY <2>1, <2>2, DecodeKnows
  <2>4. \A e \in Modules : checker'[e] = IF e = d THEN Decode(checker[d], stream[d])
                                                  ELSE checker[e]
    BY <1>1, <2>1
  <2>5. checker' = [e \in Modules |-> checker'[e]]
    BY <1>1, <2>1
  <2> QED BY <1>1, <2>1, <2>3, <2>4, <2>5 DEF CheckersOK, Modules
<1>3. PlaceOK'
  BY <1>1 DEF ChecksInv, PlaceOK, Modules, Cmds
<1>4. RunningOK' /\ PassOK'
  BY <1>1 DEF ChecksInv, RunningOK, PassOK, Modules, Allowed
<1>5. ran' \in [Keys -> Seq({0, 1})] /\ RanOK'
  BY <1>1, RanStays DEF Past
<1> QED BY <1>2, <1>3, <1>4, <1>5 DEF ChecksInv

LEMMA ConcurrentPassEndsKeeps ==
  ASSUME ChecksInv, ConcurrentPassEnds
  PROVE  ChecksInv'
<1>1. /\ UNCHANGED <<plan, always, stream, script, command, visited, running, failed,
                     checker, ran>>
      /\ pass = "concurrent" /\ running = {}
      /\ \/ exit' = "failed" /\ pass' = pass
         \/ exit' = exit /\ pass' = "sequential"
  BY DEF ConcurrentPassEnds
<1>2. PlaceOK'
  BY <1>1 DEF ChecksInv, PlaceOK, Modules, Cmds
<1>3. RunningOK' /\ CheckersOK'
  BY <1>1 DEF ChecksInv, RunningOK, CheckersOK, Modules, Allowed
<1>4. PassOK'
  <2>1. \A d \in Allowed(script) : ran[<<script, command, d>>] # <<>>
    BY <1>1 DEF ChecksInv, PassOK
  <2>2. ~failed => \A d \in Modules : 1 \notin ToSet(ran[<<script, command, d>>])
    BY <1>1 DEF ChecksInv, PassOK
  <2> QED BY <1>1, <2>1, <2>2 DEF PassOK, Modules, Allowed
<1>5. ran' \in [Keys -> Seq({0, 1})] /\ RanOK'
  BY <1>1, RanStays DEF Past
<1> QED BY <1>2, <1>3, <1>4, <1>5 DEF ChecksInv

LEMMA NextModuleKeeps ==
  ASSUME ChecksInv, NextModule
  PROVE  ChecksInv'
<1>1. /\ UNCHANGED <<plan, always, stream, script, command, pass, failed, exit, ran>>
      /\ pass = "sequential" /\ running = {}
  BY DEF NextModule
<1>2. PICK i \in visited + 1..Len(Dirs) :
         /\ Dirs[i] \in Allowed(script)
         /\ \A j \in visited + 1..i - 1 : Dirs[j] \notin Allowed(script)
         /\ visited' = i
         /\ Started({Dirs[i]})
  BY DEF NextModule
<1>3. visited \in 0..Len(Dirs) /\ Len(Dirs) \in Nat /\ i \in 1..Len(Dirs)
  BY <1>2, DirsAssumption DEF ChecksInv, PlaceOK
<1>4. CheckersOK' /\ running' = {Dirs[i]}
  BY <1>1, <1>2, StartedKnows DEF ChecksInv
<1>5. PlaceOK'
  BY <1>1, <1>2, <1>3 DEF ChecksInv, PlaceOK, Modules, Cmds
<1>6. RunningOK'
  BY <1>1, <1>2, <1>4 DEF RunningOK, Modules, Allowed
<1>7. PassOK'
  <2>1. ASSUME NEW j \in 1..i, Dirs[j] \in Allowed(script), Dirs[j] # Dirs[i]
        PROVE  ran[<<script, command, Dirs[j]>>] # <<>>
    <3>1. j \in 1..visited \/ j \in visited + 1..i - 1
      BY <1>3, <2>1
    <3>2. j \in 1..visited
      BY <1>2, <2>1, <3>1
    <3> QED BY <1>1, <2>1, <3>2 DEF ChecksInv, PassOK
  <2>2. ~failed => \A d \in Modules : 1 \notin ToSet(ran[<<script, command, d>>])
    BY <1>1 DEF ChecksInv, PassOK
  <2> QED BY <1>1, <1>2, <1>4, <2>1, <2>2 DEF PassOK, Modules, Allowed
<1>8. ran' \in [Keys -> Seq({0, 1})] /\ RanOK'
  BY <1>1, RanStays DEF Past
<1> QED BY <1>4, <1>5, <1>6, <1>7, <1>8 DEF ChecksInv

\* The pass that succeeded leaves the command past.
LEMMA SequentialPassEndsKeeps ==
  ASSUME ChecksInv, SequentialPassEnds
  PROVE  ChecksInv'
<1>1. /\ UNCHANGED <<plan, always, stream, script, visited, running, failed, checker, ran>>
      /\ pass = "sequential" /\ running = {} /\ AllVisited
  BY DEF SequentialPassEnds
<1>2. CheckersOK'
  BY <1>1 DEF ChecksInv, CheckersOK, Modules
<1>3. CASE failed /\ exit' = "failed" /\ UNCHANGED <<pass, command>>
  <2>1. PlaceOK'
    BY <1>1, <1>3 DEF ChecksInv, PlaceOK, Modules, Cmds
  <2>2. RunningOK' /\ PassOK'
    BY <1>1, <1>3 DEF ChecksInv, RunningOK, PassOK, Modules, Allowed
  <2>3. ran' \in [Keys -> Seq({0, 1})] /\ RanOK'
    BY <1>1, <1>3, RanStays DEF Past
  <2> QED BY <1>2, <2>1, <2>2, <2>3 DEF ChecksInv
<1>4. CASE ~failed /\ pass' = "none" /\ command' = command + 1 /\ UNCHANGED exit
  <2>1. /\ script \in 1..MaxScripts /\ script \in DOMAIN plan
        /\ command \in 1..MaxScripts /\ command \in DOMAIN Cmds(script)
    BY <1>1, PassIsAt DEF ChecksInv
  <2>2. PlaceOK'
    <3>1. command' \in 1..MaxScripts + 1
      BY <1>4, <2>1, BoundAssumption
    <3> QED BY <1>1, <1>4, <3>1 DEF ChecksInv, PlaceOK, Modules
  <2>3. RunningOK' /\ PassOK'
    BY <1>1, <1>4 DEF RunningOK, PassOK
  <2>4. ASSUME NEW d \in Allowed(script)
        PROVE  /\ ran[<<script, command, d>>] # <<>>
               /\ 1 \notin ToSet(ran[<<script, command, d>>])
    <3>1. PICK i \in DOMAIN Dirs : d = Dirs[i]
      BY DEF Allowed, Modules, ToSet
    <3>2. visited \in 0..Len(Dirs) /\ i \in 1..Len(Dirs) /\ Len(Dirs) \in Nat
      BY <3>1, DirsAssumption DEF ChecksInv, PlaceOK
    <3>3. i \notin visited + 1..Len(Dirs)
      BY <1>1, <3>1 DEF AllVisited
    <3>4. i \in 1..visited
      BY <3>2, <3>3
    <3> QED BY <1>1, <1>4, <3>1, <3>4 DEF ChecksInv, PassOK, Allowed
  <2>5. ASSUME NEW s \in 1..MaxScripts, NEW c \in 1..MaxScripts
        PROVE  Past(s, c)' <=> Past(s, c) \/ (s = script /\ c = command)
    BY <1>1, <1>4, <2>1 DEF Past
  <2>6. RanOK'
    <3>1. ASSUME NEW s \in 1..MaxScripts, NEW c \in 1..MaxScripts, NEW d \in Modules
          PROVE  /\ ran[<<s, c, d>>] # <<>>
                      => /\ s \in DOMAIN plan /\ c \in DOMAIN Cmds(s) /\ d \in Allowed(s)
                         /\ Past(s, c)'
                 /\ s \in DOMAIN plan /\ c \in DOMAIN Cmds(s) /\ d \in Allowed(s)
                    /\ Past(s, c)'
                      => ran[<<s, c, d>>] # <<>> /\ 1 \notin ToSet(ran[<<s, c, d>>])
                 /\ 0 \in ToSet(ran[<<s, c, d>>]) /\ IsChecker(Cmds(s)[c])
                      => \A i \in DOMAIN stream[d].values : Clean(stream[d].values, i)
      BY <2>4, <2>5 DEF ChecksInv, RanOK
    <3> QED BY <1>1, <3>1, ZenonT(60) DEF RanOK, Cmds, Allowed, Modules
  <2> QED BY <1>1, <1>2, <2>2, <2>3, <2>6 DEF ChecksInv, Keys, Modules
<1> QED BY <1>3, <1>4 DEF SequentialPassEnds

LEMMA NextKeeps == ChecksInv /\ [Next]_vars => ChecksInv'
<1> SUFFICES ASSUME ChecksInv, [Next]_vars PROVE ChecksInv'
  OBVIOUS
<1>1. CASE Main
  BY <1>1, UnsupportedKeeps, BeginCommandKeeps, ConcurrentPassEndsKeeps, NextModuleKeeps,
     SequentialPassEndsKeeps DEF Main
<1>2. ASSUME NEW d \in Modules, Command(d)
      PROVE  ChecksInv'
  BY <1>2, ProgramReturnsKeeps, CheckerFailsKeeps, CheckerDecodesKeeps, CheckerReturnsKeeps
     DEF Command
<1>3. CASE UNCHANGED vars
  <2>1. UNCHANGED <<plan, always, stream, script, command, pass, visited, running, failed,
                    checker, exit, ran>>
    BY <1>3 DEF vars
  <2>2. PlaceOK'
    BY <2>1 DEF ChecksInv, PlaceOK, Modules, Cmds
  <2>3. RunningOK' /\ CheckersOK' /\ PassOK'
    BY <2>1 DEF ChecksInv, RunningOK, CheckersOK, PassOK, Modules, Allowed
  <2>4. ran' \in [Keys -> Seq({0, 1})] /\ RanOK'
    BY <2>1, RanStays DEF Past
  <2> QED BY <2>2, <2>3, <2>4 DEF ChecksInv
<1> QED BY <1>1, <1>2, <1>3 DEF Next

-----------------------------------------------------------------------------
(* The theorems.                                                            *)

\* What main, the modules' commands and the govulncheckers know of each other,
\* whatever the plan, the modules and govulncheck's output.
THEOREM Invariance == Spec => []ChecksInv
<1>1. Init => ChecksInv
  BY InitChecks
<1>2. ChecksInv /\ [Next]_vars => ChecksInv'
  BY NextKeeps
<1> QED BY <1>1, <1>2, PTL DEF Spec

\* The variables of multimod have their types; the sequential pass runs in one
\* module at a time.
THEOREM Typing == Spec => []TypeOK
<1>1. ASSUME ChecksInv
      PROVE  TypeOK
  <2>1. ASSUME pass = "sequential"
        PROVE  Cardinality(running) <= 1
    <3>1. CASE running = {}
      BY <3>1, FS_EmptySet
    <3>2. CASE running # {}
      <4>1. PICK d \in Modules : running = {d}
        BY <1>1, <2>1, <3>2 DEF ChecksInv, RunningOK
      <4> QED BY <4>1, FS_Singleton
    <3> QED BY <3>1, <3>2
  <2>2. running \subseteq Modules
    BY <1>1 DEF ChecksInv, PlaceOK, RunningOK, Allowed
  <2>3. \A d \in Modules : checker[d].at \in 1..Len(stream[d].values) + 1
    BY <1>1 DEF ChecksInv, CheckersOK, Knows
  <2> QED BY <1>1, <2>1, <2>2, <2>3 DEF ChecksInv, PlaceOK, TypeOK
<1> QED BY <1>1, Invariance, PTL

\* A command of a script runs in a module only after the one before it returned 0
\* in all the script's modules, concurrently or one after the other.
THEOREM CommandsRunInOrder == Spec => []CommandsInOrder
<1>1. ASSUME ChecksInv
      PROVE  CommandsInOrder
  <2> SUFFICES ASSUME NEW s \in DOMAIN plan, NEW c \in 1..MaxScripts - 1, NEW d \in Modules,
                      ran[<<s, c + 1, d>>] # <<>>, NEW e \in Allowed(s)
               PROVE  ran[<<s, c, e>>] # <<>> /\ Last(ran[<<s, c, e>>]) = 0
    BY DEF CommandsInOrder
  <2> USE BoundAssumption
  <2>1. s \in 1..MaxScripts /\ Len(Cmds(s)) \in Nat /\ DOMAIN Cmds(s) = 1..Len(Cmds(s))
    BY <1>1, PlanIs DEF ChecksInv
  <2>2. c \in 1..MaxScripts /\ c + 1 \in 1..MaxScripts
    OBVIOUS
  <2>3. /\ c + 1 \in DOMAIN Cmds(s)
        /\ Past(s, c + 1) \/ (s = script /\ c + 1 = command)
    BY <1>1, <2>1, <2>2 DEF ChecksInv, RanOK
  <2>4. c \in DOMAIN Cmds(s)
    BY <2>1, <2>2, <2>3
  <2>5. Past(s, c)
    <3>1. script \in Int /\ command \in Int
      BY <1>1 DEF ChecksInv, PlaceOK
    <3> QED BY <2>1, <2>2, <2>3, <3>1 DEF Past
  <2>6. e \in Modules
    BY DEF Allowed
  <2>7. ran[<<s, c, e>>] # <<>> /\ 1 \notin ToSet(ran[<<s, c, e>>])
    BY <1>1, <2>1, <2>2, <2>4, <2>5, <2>6 DEF ChecksInv, RanOK
  <2>8. ran[<<s, c, e>>] \in Seq({0, 1})
    BY <1>1, <2>1, <2>2, <2>6 DEF ChecksInv, Keys
  <2> QED BY <2>7, <2>8, AllZero
<1> QED BY <1>1, Invariance, PTL

\* A status of 0 says of every command what RanOK says of a command that is past.
LEMMA AllPast ==
  ASSUME ChecksInv, exit = "ok", NEW s \in DOMAIN plan, NEW c \in DOMAIN Cmds(s),
         NEW d \in Modules
  PROVE  /\ s \in 1..MaxScripts /\ c \in 1..MaxScripts
         /\ d \in Allowed(s) => ran[<<s, c, d>>] # <<>> /\ 1 \notin ToSet(ran[<<s, c, d>>])
<1> USE BoundAssumption
<1>1. s \in 1..MaxScripts /\ c \in 1..MaxScripts /\ s <= Len(plan) /\ Len(plan) \in Nat
  BY PlanIs DEF ChecksInv
<1>2. Past(s, c)
  BY <1>1 DEF ChecksInv, PlaceOK, Past
<1> QED BY <1>1, <1>2 DEF ChecksInv, RanOK

\* Status 0 of multimod: every command of every script has run in every module it is
\* for, never with another status, and in none of the excluded ones.
THEOREM ZeroRunsAll == Spec => []ZeroMeansAll
<1>1. ASSUME ChecksInv
      PROVE  ZeroMeansAll
  <2> SUFFICES ASSUME exit = "ok", NEW s \in DOMAIN plan,
                      NEW c \in DOMAIN SplitCmd(plan[s].spec), NEW d \in Modules
               PROVE  IF d \in plan[s].excluded THEN ran[<<s, c, d>>] = <<>>
                      ELSE ran[<<s, c, d>>] # <<>> /\ 1 \notin ToSet(ran[<<s, c, d>>])
    BY DEF ZeroMeansAll
  <2>1. c \in DOMAIN Cmds(s)
    BY DEF Cmds
  <2>2. /\ s \in 1..MaxScripts /\ c \in 1..MaxScripts
        /\ d \in Allowed(s) => ran[<<s, c, d>>] # <<>> /\ 1 \notin ToSet(ran[<<s, c, d>>])
    BY <1>1, <2>1, AllPast
  <2>3. d \notin Allowed(s) => ran[<<s, c, d>>] = <<>>
    BY <1>1, <2>2 DEF ChecksInv, RanOK
  <2>4. d \in Allowed(s) <=> d \notin plan[s].excluded
    BY DEF Allowed
  <2> QED BY <2>2, <2>3, <2>4
<1> QED BY <1>1, Invariance, PTL

\* Status 0 of multimod with govulnchecker among the commands: no vulnerability that
\* counts was in what govulncheck printed about any module the script is for.
THEOREM ZeroIsClean == Spec => []ZeroMeansClean
<1>1. ASSUME ChecksInv
      PROVE  ZeroMeansClean
  <2> SUFFICES ASSUME exit = "ok", NEW s \in DOMAIN plan,
                      NEW c \in DOMAIN SplitCmd(plan[s].spec),
                      Head(ExtractEnv(SplitCmd(plan[s].spec)[c])) = "govulnchecker",
                      NEW d \in Modules \ plan[s].excluded
               PROVE  \A i \in DOMAIN stream[d].values : Clean(stream[d].values, i)
    BY DEF ZeroMeansClean
  <2>1. c \in DOMAIN Cmds(s) /\ IsChecker(Cmds(s)[c]) /\ d \in Allowed(s) /\ d \in Modules
    BY DEF Cmds, IsChecker, Allowed
  <2>2. /\ s \in 1..MaxScripts /\ c \in 1..MaxScripts
        /\ ran[<<s, c, d>>] # <<>> /\ 1 \notin ToSet(ran[<<s, c, d>>])
    BY <1>1, <2>1, AllPast
  <2>3. ran[<<s, c, d>>] \in Seq({0, 1})
    BY <1>1, <2>1, <2>2 DEF ChecksInv, Keys
  <2>4. 0 \in ToSet(ran[<<s, c, d>>])
    BY <2>2, <2>3, AllZero
  <2> QED BY <1>1, <2>1, <2>2, <2>4 DEF ChecksInv, RanOK
<1> QED BY <1>1, Invariance, PTL

=============================================================================
