----------------------- MODULE RunnerResources_proofs -----------------------
(***************************************************************************)
(* Theorems about RunnerResources, for every accepted or rejected          *)
(* configuration, every set of events and handlers, every lifetime and     *)
(* margin of a token and every bound of boots and VMs.                     *)
(***************************************************************************)
EXTENDS RunnerResources, WellFoundedInduction, SequenceTheorems, TLAPS

HandlerRecord ==
    [pc : {"idle", "check", "create", "store", "token", "run"}, event : Events,
     token : Left, wait : 0..Margin + 1, vm : VM \cup {NoVM}]

ProcessOK ==
    /\ cfg \in Configs
    /\ phase \in {"down", "sweep", "start", "up"}
    /\ boot \in 0..MaxBoots /\ (phase # "down" => boot # 0)
    /\ toSweep \subseteq Pools /\ toStart \subseteq Pools /\ unswept \subseteq Pools
    /\ startErr \in BOOLEAN /\ cache \in Left

\* A VM is named after its own pool, with a number no later VM gets.
VmsOK ==
    /\ vms \subseteq VM /\ created \in 0..MaxVMs
    /\ \A v, w \in vms : v.name = w.name => v = w
    /\ \A v \in vms : \E i \in 1..created : v.name = Append(VMNamePrefix(cfg, v.pool), i)

\* What the sweep has yet to do or has failed to do.
SweepInv ==
    phase = "sweep" => \A v \in vms : v.boot < boot => v.pool \in toSweep \cup unswept

\* A handler's record r is as it has to be when the VMs are V, boot is b and cfg is c:
\* its event has a runner, and a VM it has is leased from that runner's pool.
HasLease(r, V, b, c) ==
    LET runner == RunnerFor(c, r.event.repo, r.event.labels)
    IN  /\ r.pc # "idle" => runner # NoRunner
        /\ r.pc = "run" => r.vm # NoVM
        /\ r.vm # NoVM => /\ r.pc # "idle"
                          /\ r.vm \in V /\ r.vm.leased
                          /\ r.vm.boot = b /\ r.vm.pool = runner.pool

LeaseInv ==
    \A h \in Handlers :
        /\ HasLease(handler[h], vms, boot, cfg)
        /\ \A g \in Handlers \ {h} : handler[h].vm # NoVM => handler[g].vm # handler[h].vm

\* What a token has left is no less than what is left of the margin.
GoodToken(r) ==
    /\ r.pc \in {"idle", "check", "create"} => r.wait = 0
    /\ r.pc \in {"store", "token"} /\ r.wait <= Margin => r.token >= Margin - r.wait

ResourcesInv ==
    /\ ProcessOK
    /\ VmsOK
    /\ handler \in [Handlers -> HandlerRecord]
    /\ phase # "up" => \A h \in Handlers : handler[h] = Idle
    /\ SweepInv
    /\ LeaseInv
    /\ \A h \in Handlers : GoodToken(handler[h])

-----------------------------------------------------------------------------
(* The operators on sets and sequences.                                     *)

\* The least-number principle, for sets.
LEMMA LeastOf ==
  ASSUME NEW S \in SUBSET Nat, S # {}
  PROVE  \E n \in S : \A m \in S : n <= m
<1> DEFINE R == {ss \in Nat \X Nat : ss[1] < ss[2]}
<1>1. IsWellFoundedOn(R, Nat)
  BY NatLessThanWellFounded, Zenon DEF OpToRel
<1>2. \E n \in S : \A m \in S : <<m, n>> \notin R
  <2> HIDE DEF R
  <2> QED BY <1>1, WFMin
<1>3. PICK n \in S : \A m \in S : <<m, n>> \notin R
  BY <1>2
<1>4. \A m \in S : n <= m
  <2> TAKE m \in S
  <2>1. m < n <=> <<m, n>> \in R
    OBVIOUS
  <2> HIDE DEF R
  <2> QED BY <2>1, <1>3
<1> QED BY <1>4

\* A set of positions that is not empty has a last one.
LEMMA MaxOfPositions ==
  ASSUME NEW n \in Nat, NEW S \in SUBSET (1..n), S # {}
  PROVE  Max(S) \in S
<1> DEFINE T == {n - i : i \in S}
<1>1. PICK t \in T : \A u \in T : t <= u
  <2>1. \A i \in S : n - i \in Nat
    OBVIOUS
  <2>2. T \in SUBSET Nat /\ T # {}
    BY <2>1
  <2> HIDE DEF T
  <2> QED BY <2>2, LeastOf
<1>2. PICK i \in S : t = n - i
  OBVIOUS
<1>3. \A j \in S : i >= j
  <2> TAKE j \in S
  <2>1. n - j \in T
    OBVIOUS
  <2> HIDE DEF T
  <2> QED BY <1>1, <1>2, <2>1
<1> QED BY <1>3 DEF Max

\* runnerMap only has runners of the configuration, under their own key.
LEMMA RunnerSelected ==
  ASSUME NEW c, IsConfig(c), NEW repo, NEW labels, RunnerFor(c, repo, labels) # NoRunner
  PROVE  \E i \in DOMAIN c.repositories : \E j \in DOMAIN c.repositories[i].runners :
            /\ RunnerFor(c, repo, labels) = c.repositories[i].runners[j]
            /\ Selects(c, repo, labels, i, j)
<1> DEFINE In(i) == {j \in DOMAIN c.repositories[i].runners : Selects(c, repo, labels, i, j)}
           entries == {i \in DOMAIN c.repositories : In(i) # {}}
           last == Max(entries)
<1>1. /\ entries # {}
      /\ RunnerFor(c, repo, labels) = c.repositories[last].runners[Max(In(last))]
  BY Zenon DEF RunnerFor
<1>2. c.repositories \in Seq(RepositoryConfig)
  BY DEF IsConfig
<1>3. last \in entries
  <2>1. entries \subseteq 1..Len(c.repositories) /\ Len(c.repositories) \in Nat
    BY <1>2
  <2> HIDE DEF entries
  <2> QED BY <1>1, <2>1, MaxOfPositions
<1>4. last \in DOMAIN c.repositories /\ In(last) # {}
  BY <1>3
<1>5. c.repositories[last].runners \in Seq(RunnerConfig)
  <2> HIDE DEF last
  <2>1. c.repositories[last] \in RepositoryConfig
    BY <1>2, <1>4
  <2> QED BY <2>1 DEF RepositoryConfig
<1>6. Max(In(last)) \in In(last)
  <2> HIDE DEF last
  <2>1. In(last) \subseteq 1..Len(c.repositories[last].runners)
        /\ Len(c.repositories[last].runners) \in Nat
    BY <1>5
  <2> HIDE DEF In
  <2> QED BY <1>4, <2>1, MaxOfPositions
<1> HIDE DEF last
<1> QED BY <1>1, <1>4, <1>6

PrefixWords == Seq(STRING \cup {"ghr-orchestrator"})

\* The names of a pool's VMs begin with a sequence of words.
LEMMA PrefixType ==
  ASSUME NEW c, IsConfig(c), NEW p \in DOMAIN c.pools
  PROVE  VMNamePrefix(c, p) \in PrefixWords
<1> DEFINE S == STRING \cup {"ghr-orchestrator"}
<1>1. p \in Seq(STRING) /\ c.pools[p] \in Seq(STRING)
  BY DEF IsConfig, Words
<1>2. p \in Seq(S) /\ c.pools[p] \in Seq(S)
  BY <1>1
<1>3. <<"ghr-orchestrator">> \in Seq(S)
  OBVIOUS
<1> HIDE DEF S
<1>4. VMNamePrefix(c, p) \in Seq(S)
  BY <1>2, <1>3 DEF VMNamePrefix
<1> QED BY <1>4 DEF PrefixWords, S

\* A number makes a name unique: names with the same prefix or not.
LEMMA NumbersDiffer ==
  ASSUME NEW s \in PrefixWords, NEW t \in PrefixWords, NEW i \in Nat, NEW j \in Nat,
         Append(s, i) = Append(t, j)
  PROVE  i = j
<1>1. Append(s, i)[Len(s) + 1] = i /\ Append(t, j)[Len(t) + 1] = j
  BY DEF PrefixWords
<1>2. Len(Append(s, i)) = Len(s) + 1 /\ Len(Append(t, j)) = Len(t) + 1
  BY DEF PrefixWords
<1> QED BY <1>1, <1>2

\* A pool's provider lists the VMs that are named after it.
LEMMA OwnAreListed ==
  ASSUME NEW c, IsConfig(c), NEW p \in DOMAIN c.pools, NEW i \in Nat
  PROVE  Lists(c, p, Append(VMNamePrefix(c, p), i))
<1> DEFINE s == VMNamePrefix(c, p)
           t == Append(s, i)
<1> DEFINE S == (STRING \cup {"ghr-orchestrator"}) \cup Nat
<1>1. s \in Seq(S)
  <2>1. s \in PrefixWords
    BY PrefixType
  <2> HIDE DEF s
  <2> QED BY <2>1 DEF PrefixWords
<1>2. /\ t \in Seq(S) /\ Len(t) = Len(s) + 1
      /\ \A k \in 1..Len(s) : t[k] = s[k]
  BY <1>1, AppendProperties
<1> HIDE DEF s, t, S
<1>3. Len(s) <= Len(t)
  BY <1>1, <1>2
<1>4. SubSeq(s, 1, Len(s)) = SubSeq(t, 1, Len(s))
  BY <1>1, <1>2
<1> QED BY <1>3, <1>4 DEF Lists, IsPrefix, s, t

-----------------------------------------------------------------------------
(* The VMs.                                                                 *)

LEMMA SamePools ==
  ASSUME cfg' = cfg
  PROVE  Pools' = Pools /\ VM' = VM
  BY DEF Pools, VM

\* VMs that go take nothing from the others.
LEMMA VmsShrink ==
  ASSUME VmsOK, cfg' = cfg, created' = created, vms' \subseteq vms
  PROVE  VmsOK'
<1>1. VM' = VM
  BY SamePools
<1> HIDE DEF VM
<1>2. vms' \subseteq VM' /\ created' \in 0..MaxVMs
  BY <1>1 DEF VmsOK
<1>3. (\A v, w \in vms : v.name = w.name => v = w)'
  BY DEF VmsOK
<1>4. ASSUME NEW v \in vms'
      PROVE  \E i \in 1..created' : v.name = Append(VMNamePrefix(cfg', v.pool), i)
  <2>1. PICK i \in 1..created : v.name = Append(VMNamePrefix(cfg, v.pool), i)
    BY DEF VmsOK
  <2> QED BY <2>1
<1> QED BY <1>2, <1>3, <1>4 DEF VmsOK

\* A new VM gets a name no other has.
LEMMA VmsGrow ==
  ASSUME VmsOK, cfg \in Configs, cfg' = cfg, boot \in 1..MaxBoots,
         NEW p \in Pools, NewVM(p)
  PROVE  /\ VmsOK' /\ vms \subseteq vms'
         /\ \A v \in vms' \ vms : v.boot = boot
<1> DEFINE prefix(q) == VMNamePrefix(cfg, q)
           new == [name |-> Append(prefix(p), created + 1),
                   pool |-> p, boot |-> boot, leased |-> FALSE]
<1> USE BoundsAssumption
<1>1. IsConfig(cfg)
  BY ConfigsAssumption
<1>2. VM' = VM
  BY SamePools
<1>3. created \in 0..MaxVMs /\ created < MaxVMs /\ created' = created + 1
  BY DEF NewVM, VmsOK
<1>4. vms' = vms \cup {new}
  BY DEF NewVM
<1>5. new \in VM
  BY <1>3 DEF VM
<1>6. \A q \in Pools : prefix(q) \in PrefixWords
  BY <1>1, PrefixType DEF Pools
<1>7. \A v \in vms : v.pool \in Pools
  BY DEF VmsOK, VM
<1>8. new.name = Append(prefix(p), created + 1) /\ new.pool = p /\ new.boot = boot
  OBVIOUS
<1> HIDE DEF prefix, new
<1>9. \A v \in vms : v.name # new.name
  <2> SUFFICES ASSUME NEW v \in vms, v.name = new.name
               PROVE  FALSE
    OBVIOUS
  <2>1. PICK i \in 1..created : v.name = Append(prefix(v.pool), i)
    BY DEF VmsOK, prefix
  <2>2. i = created + 1
    BY <1>3, <1>6, <1>7, <1>8, <2>1, NumbersDiffer
  <2> QED BY <1>3, <2>2
<1>10. vms' \subseteq VM' /\ created' \in 0..MaxVMs
  BY <1>2, <1>3, <1>4, <1>5 DEF VmsOK
<1>11. (\A v, w \in vms : v.name = w.name => v = w)'
  BY <1>4, <1>9 DEF VmsOK
<1>12. ASSUME NEW v \in vms'
      PROVE  \E i \in 1..created' : v.name = Append(VMNamePrefix(cfg', v.pool), i)
  <2>1. CASE v = new
    <3>1. created + 1 \in 1..created'
      BY <1>3
    <3>2. v.name = Append(VMNamePrefix(cfg', v.pool), created + 1)
      BY <2>1, <1>8 DEF prefix
    <3> QED BY <3>1, <3>2
  <2>2. CASE v \in vms
    <3>1. PICK i \in 1..created : v.name = Append(VMNamePrefix(cfg, v.pool), i)
      BY <2>2 DEF VmsOK
    <3>2. i \in 1..created'
      BY <1>3
    <3> QED BY <3>1, <3>2
  <2> QED BY <2>1, <2>2, <1>4
<1> QED BY <1>4, <1>8, <1>10, <1>11, <1>12 DEF VmsOK

Leased(v) == [v EXCEPT !.leased = TRUE]

\* A VM that is handed out stays what it was.
LEMMA LeasedIs ==
  ASSUME NEW v \in VM
  PROVE  /\ Leased(v) \in VM /\ Leased(v).leased
         /\ Leased(v).name = v.name /\ Leased(v).pool = v.pool /\ Leased(v).boot = v.boot
<1> DEFINE names == {Append(VMNamePrefix(cfg, p), i) : p \in Pools, i \in 1..MaxVMs}
           boots == 1..MaxBoots
           pools == Pools
<1>1. VM = [name : names, pool : pools, boot : boots, leased : BOOLEAN]
  BY DEF VM
<1> HIDE DEF names, boots, pools
<1>2. Leased(v).name = v.name /\ Leased(v).pool = v.pool /\ Leased(v).boot = v.boot
  BY <1>1 DEF Leased
<1>3. Leased(v).leased
  BY <1>1 DEF Leased
<1>4. Leased(v) \in VM
  BY <1>1, Zenon DEF Leased
<1> QED BY <1>2, <1>3, <1>4

LEMMA VmsLease ==
  ASSUME VmsOK, cfg' = cfg, created' = created, NEW v \in vms, ~v.leased,
         vms' = (vms \ {v}) \cup {Leased(v)}
  PROVE  VmsOK' /\ Leased(v) \notin vms
<1>1. VM' = VM
  BY SamePools
<1>2. v \in VM /\ vms \subseteq VM
  BY DEF VmsOK
<1>3. /\ Leased(v) \in VM
      /\ Leased(v).name = v.name /\ Leased(v).pool = v.pool
  BY <1>2, LeasedIs
<1>4. Leased(v) # v
  BY <1>2, LeasedIs
<1>5. Leased(v) \notin vms
  BY <1>3, <1>4 DEF VmsOK
<1>6. vms' \subseteq VM' /\ created' \in 0..MaxVMs
  BY <1>1, <1>2, <1>3 DEF VmsOK
<1>7. (\A u, w \in vms : u.name = w.name => u = w)'
  BY <1>3 DEF VmsOK
<1>8. ASSUME NEW w \in vms'
      PROVE  \E i \in 1..created' : w.name = Append(VMNamePrefix(cfg', w.pool), i)
  <2>1. PICK u \in vms : w.name = u.name /\ w.pool = u.pool
    BY <1>3
  <2>2. PICK i \in 1..created : u.name = Append(VMNamePrefix(cfg, u.pool), i)
    BY DEF VmsOK
  <2> QED BY <2>1, <2>2
<1> QED BY <1>5, <1>6, <1>7, <1>8 DEF VmsOK

-----------------------------------------------------------------------------
(* The handlers.                                                            *)

LEMMA SameRecords ==
  ASSUME cfg' = cfg
  PROVE  HandlerRecord' = HandlerRecord
  BY SamePools DEF HandlerRecord

LEMMA IdleRecord ==
  /\ Idle \in HandlerRecord
  /\ Idle.pc = "idle" /\ Idle.vm = NoVM /\ Idle.wait = 0
<1> DEFINE vm == VM \cup {NoVM}
<1>1. NoVM \in vm
  OBVIOUS
<1>2. (CHOOSE e \in Events : TRUE) \in Events
  BY EventsAssumption
<1>3. NoToken \in Left /\ 0 \in 0..Margin + 1
  BY TimesAssumption DEF NoToken, Left
<1> HIDE DEF vm
<1>4. Idle \in [pc : {"idle", "check", "create", "store", "token", "run"}, event : Events,
                token : Left, wait : 0..Margin + 1, vm : vm]
  BY <1>1, <1>2, <1>3 DEF Idle
<1>5. Idle \in HandlerRecord
  BY <1>4 DEF HandlerRecord, vm
<1> QED BY <1>5 DEF Idle

\* A process without jobs owes nothing.
LEMMA AllIdle ==
  ASSUME cfg' = cfg, handler' = [h \in Handlers |-> Idle]
  PROVE  /\ handler' \in [Handlers -> HandlerRecord']
         /\ \A h \in Handlers : handler'[h] = Idle /\ GoodToken(handler'[h])
         /\ LeaseInv'
<1>1. \A h \in Handlers : handler'[h] = Idle
  OBVIOUS
<1>2. handler' \in [Handlers -> HandlerRecord']
  BY IdleRecord, SameRecords
<1>3. GoodToken(Idle)
  BY IdleRecord DEF GoodToken
<1>4. HasLease(Idle, vms', boot', cfg')
  BY IdleRecord DEF HasLease
<1>5. LeaseInv'
  BY <1>1, <1>4, IdleRecord DEF LeaseInv
<1> QED BY <1>1, <1>2, <1>3, <1>5

\* One handler's step, which takes no VM from the others.
LEMMA HandlerSteps ==
  ASSUME ResourcesInv, cfg' = cfg, boot' = boot,
         NEW h \in Handlers, NEW rec \in HandlerRecord, Becomes(h, rec),
         HasLease(rec, vms', boot, cfg), GoodToken(rec),
         \A g \in Handlers \ {h} :
            handler[g].vm # NoVM => handler[g].vm \in vms' /\ handler[g].vm # rec.vm
  PROVE  /\ handler' \in [Handlers -> HandlerRecord']
         /\ \A g \in Handlers : GoodToken(handler'[g])
         /\ LeaseInv'
<1>1. handler' = [handler EXCEPT ![h] = rec] /\ handler \in [Handlers -> HandlerRecord]
  BY DEF Becomes, ResourcesInv
<1>2. handler'[h] = rec /\ \A g \in Handlers \ {h} : handler'[g] = handler[g]
  BY <1>1
<1>3. handler' \in [Handlers -> HandlerRecord']
  BY <1>1, SameRecords
<1>4. \A g \in Handlers : GoodToken(handler'[g])
  BY <1>2 DEF ResourcesInv
<1>5. \A g \in Handlers : HasLease(handler'[g], vms', boot', cfg')
  <2> SUFFICES ASSUME NEW g \in Handlers \ {h}
               PROVE  HasLease(handler[g], vms', boot, cfg)
    BY <1>2
  <2>1. HasLease(handler[g], vms, boot, cfg)
    BY DEF ResourcesInv, LeaseInv
  <2> QED BY <2>1 DEF HasLease
<1>6. ASSUME NEW f \in Handlers, NEW g \in Handlers \ {f}, handler'[f].vm # NoVM
      PROVE  handler'[g].vm # handler'[f].vm
  BY <1>2, <1>6 DEF ResourcesInv, LeaseInv
<1> QED BY <1>3, <1>4, <1>5, <1>6 DEF LeaseInv

\* A step of the process that leaves the handlers alone, and their VMs.
LEMMA HandlersStay ==
  ASSUME ResourcesInv, cfg' = cfg, handler' = handler,
         phase = "up" => boot' = boot /\ vms \subseteq vms'
  PROVE  /\ handler' \in [Handlers -> HandlerRecord']
         /\ \A h \in Handlers : GoodToken(handler'[h])
         /\ LeaseInv'
         /\ phase # "up" => \A h \in Handlers : handler'[h] = Idle
<1>1. CASE phase # "up"
  <2>1. handler' = [h \in Handlers |-> Idle]
    BY <1>1 DEF ResourcesInv
  <2> QED BY <2>1, AllIdle
<1>2. CASE phase = "up"
  <2>1. \A h \in Handlers : HasLease(handler'[h], vms', boot', cfg')
    BY <1>2 DEF ResourcesInv, LeaseInv, HasLease
  <2>2. LeaseInv'
    BY <2>1 DEF ResourcesInv, LeaseInv
  <2>3. handler' \in [Handlers -> HandlerRecord']
    BY SameRecords DEF ResourcesInv
  <2> QED BY <1>2, <2>2, <2>3 DEF ResourcesInv
<1> QED BY <1>1, <1>2

-----------------------------------------------------------------------------
(* The steps of the process.                                                *)

LEMMA StartKeeps ==
  ASSUME ResourcesInv, Start
  PROVE  ResourcesInv'
<1> USE BoundsAssumption
<1>1. /\ cfg' = cfg /\ handler' = handler /\ vms' = vms /\ created' = created /\ phase = "down"
      /\ phase' \in {"sweep", "start"}
  BY DEF Start
<1>2. VmsOK'
  BY <1>1, VmsShrink DEF ResourcesInv
<1>3. ProcessOK'
  <2>1. boot' \in 0..MaxBoots /\ boot' # 0
    BY DEF Start, ResourcesInv, ProcessOK
  <2>2. /\ toSweep' \subseteq Pools' /\ toStart' \subseteq Pools' /\ unswept' \subseteq Pools'
        /\ startErr' \in BOOLEAN /\ cache' \in Left
    BY <1>1, SamePools DEF Start, ResourcesInv, ProcessOK
  <2> QED BY <1>1, <2>1, <2>2 DEF ResourcesInv, ProcessOK
<1>4. \A v \in vms : v.pool \in Pools
  BY DEF ResourcesInv, VmsOK, VM
<1>5. SweepInv'
  BY <1>1, <1>4 DEF Start, SweepInv
<1> QED BY <1>1, <1>2, <1>3, <1>5, HandlersStay DEF ResourcesInv

LEMMA SweepPoolKeeps ==
  ASSUME ResourcesInv, NEW p \in Pools, SweepPool(p)
  PROVE  ResourcesInv'
<1>1. /\ cfg' = cfg /\ handler' = handler /\ vms' \subseteq vms /\ created' = created
      /\ phase = "sweep" /\ phase' = "sweep" /\ boot' = boot
      /\ toSweep' = toSweep \ {p} /\ toStart' = toStart /\ startErr' = startErr
      /\ cache' = cache
  BY DEF SweepPool
<1>2. VmsOK'
  BY <1>1, VmsShrink DEF ResourcesInv
<1>3. unswept' \subseteq unswept \cup {p} /\ unswept \subseteq unswept'
  BY DEF SweepPool
<1>4. ProcessOK'
  BY <1>1, <1>3, SamePools DEF ResourcesInv, ProcessOK
<1>5. \A v \in vms' : v.boot < boot => v.pool \in toSweep \cup unswept
  BY <1>1 DEF ResourcesInv, SweepInv
<1>6. p \in unswept' \/ \A v \in vms' : v.pool # p
  <2>1. CASE vms' = vms \ {v \in vms : Lists(cfg, p, v.name)}
    <3> SUFFICES ASSUME NEW v \in vms, v.pool = p
                 PROVE  Lists(cfg, p, v.name)
      BY <2>1
    <3>1. PICK i \in 1..created : v.name = Append(VMNamePrefix(cfg, p), i)
      BY DEF ResourcesInv, VmsOK
    <3>2. i \in Nat
      BY BoundsAssumption DEF ResourcesInv, VmsOK
    <3>3. IsConfig(cfg) /\ p \in DOMAIN cfg.pools
      BY ConfigsAssumption DEF ResourcesInv, ProcessOK, Pools
    <3> QED BY <3>1, <3>2, <3>3, OwnAreListed
  <2>2. CASE p \in unswept'
    BY <2>2
  <2> QED BY <2>1, <2>2 DEF SweepPool
<1>7. SweepInv'
  BY <1>1, <1>3, <1>5, <1>6 DEF SweepInv
<1> QED BY <1>1, <1>2, <1>4, <1>7, HandlersStay DEF ResourcesInv

LEMMA SweepEndsKeeps ==
  ASSUME ResourcesInv, SweepEnds
  PROVE  ResourcesInv'
<1>1. /\ cfg' = cfg /\ handler' = handler /\ vms' = vms /\ created' = created
      /\ phase = "sweep" /\ phase' = "start"
  BY DEF SweepEnds
<1>2. VmsOK'
  BY <1>1, VmsShrink DEF ResourcesInv
<1>3. ProcessOK' /\ SweepInv'
  BY <1>1, SamePools DEF SweepEnds, ResourcesInv, ProcessOK, SweepInv
<1> QED BY <1>1, <1>2, <1>3, HandlersStay DEF ResourcesInv

\* The process has counted its start.
LEMMA BootCounts ==
  ASSUME ResourcesInv, phase # "down"
  PROVE  boot \in 1..MaxBoots
  BY BoundsAssumption DEF ResourcesInv, ProcessOK

LEMMA StartPoolKeeps ==
  ASSUME ResourcesInv, NEW p \in Pools, StartPool(p)
  PROVE  ResourcesInv'
<1>1. /\ cfg' = cfg /\ handler' = handler /\ phase = "start" /\ phase' = "start"
      /\ boot' = boot
  BY DEF StartPool
<1>2. VmsOK'
  <2>1. CASE NewVM(p)
    BY <1>1, <2>1, VmsGrow, BootCounts DEF ResourcesInv, ProcessOK
  <2>2. CASE UNCHANGED <<vms, created>>
    BY <1>1, <2>2, VmsShrink DEF ResourcesInv
  <2> QED BY <2>1, <2>2 DEF StartPool
<1>3. ProcessOK' /\ SweepInv'
  BY <1>1, SamePools DEF StartPool, ResourcesInv, ProcessOK, SweepInv
<1> QED BY <1>1, <1>2, <1>3, HandlersStay DEF ResourcesInv

LEMMA PoolsStartedKeeps ==
  ASSUME ResourcesInv, PoolsStarted
  PROVE  ResourcesInv'
<1>1. /\ cfg' = cfg /\ handler' = handler /\ vms' = vms /\ created' = created
      /\ phase = "start" /\ phase' \in {"down", "up"} /\ boot' = boot
  BY DEF PoolsStarted
<1>2. VmsOK'
  BY <1>1, VmsShrink DEF ResourcesInv
<1>3. ProcessOK' /\ SweepInv'
  BY <1>1, SamePools DEF PoolsStarted, ResourcesInv, ProcessOK, SweepInv
<1> QED BY <1>1, <1>2, <1>3, HandlersStay DEF ResourcesInv

LEMMA ReplenishKeeps ==
  ASSUME ResourcesInv, NEW p \in Pools, Replenish(p)
  PROVE  ResourcesInv'
<1>1. /\ cfg' = cfg /\ handler' = handler /\ phase = "up" /\ phase' = "up" /\ boot' = boot
      /\ NewVM(p)
  BY DEF Replenish
<1>2. VmsOK' /\ vms \subseteq vms'
  BY <1>1, VmsGrow, BootCounts DEF ResourcesInv, ProcessOK
<1>3. ProcessOK' /\ SweepInv'
  BY <1>1, SamePools DEF Replenish, ResourcesInv, ProcessOK, SweepInv
<1> QED BY <1>1, <1>2, <1>3, HandlersStay DEF ResourcesInv

\* Close and a crash: what is left is VMs.
LEMMA EndKeeps ==
  ASSUME ResourcesInv, Close \/ Crash
  PROVE  ResourcesInv'
<1>1. Ended /\ vms' \subseteq vms
  BY DEF Close, Crash
<1>2. cfg' = cfg /\ created' = created /\ handler' = [h \in Handlers |-> Idle] /\ phase' = "down"
  BY <1>1 DEF Ended
<1>3. VmsOK'
  BY <1>1, <1>2, VmsShrink DEF ResourcesInv
<1>4. NoToken \in Left
  BY TimesAssumption DEF NoToken, Left
<1>5. ProcessOK' /\ SweepInv'
  BY <1>1, <1>4, SamePools DEF Ended, ResourcesInv, ProcessOK, SweepInv
<1> QED BY <1>2, <1>3, <1>5, AllIdle DEF ResourcesInv

-----------------------------------------------------------------------------
(* The steps of the handlers.                                               *)

\* Only a process that is up has handlers at work.
LEMMA AtWork ==
  ASSUME ResourcesInv, NEW h \in Handlers, handler[h].pc # "idle"
  PROVE  phase = "up"
  BY IdleRecord DEF ResourcesInv

LEMMA HandlerKeeps ==
  ASSUME ResourcesInv, UNCHANGED Process, phase = "up", cache' \in Left, VmsOK',
         handler' \in [Handlers -> HandlerRecord'],
         \A h \in Handlers : GoodToken(handler'[h]), LeaseInv'
  PROVE  ResourcesInv'
<1>1. /\ cfg' = cfg /\ phase' = phase /\ boot' = boot /\ toSweep' = toSweep
      /\ toStart' = toStart /\ startErr' = startErr /\ unswept' = unswept
  BY DEF Process
<1>2. ProcessOK' /\ SweepInv'
  BY <1>1, SamePools DEF ResourcesInv, ProcessOK, SweepInv
<1> QED BY <1>1, <1>2 DEF ResourcesInv

\* A handler that goes on with the same event and the same VM, if any.
LEMMA GoesOn ==
  ASSUME ResourcesInv, UNCHANGED <<Process, vms>>, cache' \in Left,
         NEW h \in Handlers, handler[h].pc # "idle",
         NEW rec \in HandlerRecord, Becomes(h, rec),
         rec.event = handler[h].event, rec.vm = handler[h].vm,
         rec.pc # "idle", rec.pc = "run" => rec.vm # NoVM, GoodToken(rec)
  PROVE  ResourcesInv'
<1>1. cfg' = cfg /\ boot' = boot /\ created' = created /\ vms' = vms
  BY DEF Process
<1>2. VmsOK'
  BY <1>1, VmsShrink DEF ResourcesInv
<1>3. HasLease(rec, vms', boot, cfg)
  BY <1>1 DEF ResourcesInv, LeaseInv, HasLease
<1>4. \A g \in Handlers \ {h} :
         handler[g].vm # NoVM => handler[g].vm \in vms' /\ handler[g].vm # rec.vm
  BY <1>1 DEF ResourcesInv, LeaseInv, HasLease
<1>5. /\ handler' \in [Handlers -> HandlerRecord']
      /\ \A g \in Handlers : GoodToken(handler'[g])
      /\ LeaseInv'
  BY <1>1, <1>3, <1>4, HandlerSteps
<1> QED BY <1>2, <1>5, AtWork, HandlerKeeps

\* The records the handlers write.
LEMMA RecordWrites ==
  ASSUME NEW r \in HandlerRecord
  PROVE  /\ \A p \in {"check", "create", "store", "token", "run"} :
               /\ [r EXCEPT !.pc = p] \in HandlerRecord
               /\ \A t \in Left : [r EXCEPT !.pc = p, !.token = t] \in HandlerRecord
               /\ \A e \in Events : [r EXCEPT !.pc = p, !.event = e] \in HandlerRecord
         /\ \A v \in VM : [r EXCEPT !.vm = v] \in HandlerRecord
<1> DEFINE vm == VM \cup {NoVM}
           pcs == {"idle", "check", "create", "store", "token", "run"}
           waits == 0..Margin + 1
           left == Left
<1>1. HandlerRecord = [pc : pcs, event : Events, token : left, wait : waits, vm : vm]
  BY DEF HandlerRecord
<1>2. (\A p \in {"check", "create", "store", "token", "run"} : p \in pcs)
      /\ VM \subseteq vm /\ Left = left
  OBVIOUS
<1> HIDE DEF vm, pcs, waits, left
<1> QED BY <1>1, <1>2

LEMMA QueuedEventKeeps ==
  ASSUME ResourcesInv, NEW h \in Handlers, NEW e \in Events, QueuedEvent(h, e)
  PROVE  ResourcesInv'
<1> DEFINE rec == [Idle EXCEPT !.pc = "check", !.event = e]
<1>1. cfg' = cfg /\ boot' = boot /\ created' = created /\ vms' = vms /\ phase = "up"
      /\ cache' = cache
  BY DEF QueuedEvent, Process
<1>2. VmsOK' /\ cache' \in Left
  BY <1>1, VmsShrink DEF ResourcesInv, ProcessOK
<1>3. rec \in HandlerRecord
  BY IdleRecord, RecordWrites
<1>4. rec.pc = "check" /\ rec.event = e /\ rec.vm = NoVM /\ rec.wait = 0
  BY DEF Idle
<1> HIDE DEF rec
<1>5. Becomes(h, rec) /\ RunnerFor(cfg, e.repo, e.labels) # NoRunner
  BY DEF QueuedEvent, rec
<1>6. HasLease(rec, vms', boot, cfg)
  BY <1>4, <1>5 DEF HasLease
<1>7. GoodToken(rec)
  BY <1>4 DEF GoodToken
<1>8. \A g \in Handlers \ {h} :
         handler[g].vm # NoVM => handler[g].vm \in vms' /\ handler[g].vm # rec.vm
  BY <1>1, <1>4 DEF ResourcesInv, LeaseInv, HasLease
<1>9. /\ handler' \in [Handlers -> HandlerRecord']
      /\ \A g \in Handlers : GoodToken(handler'[g])
      /\ LeaseInv'
  BY <1>1, <1>3, <1>5, <1>6, <1>7, <1>8, HandlerSteps
<1>10. UNCHANGED Process
  BY DEF QueuedEvent
<1> QED BY <1>1, <1>2, <1>9, <1>10, HandlerKeeps

\* A cached token that is handed out has at least the margin left.
LEMMA ExistingTokenIs ==
  ASSUME ResourcesInv
  PROVE  /\ ExistingToken \in Left
         /\ ExistingToken # NoToken => ExistingToken >= Margin
  BY TimesAssumption DEF ExistingToken, NoToken, Left, ResourcesInv, ProcessOK

LEMMA CheckTokenKeeps ==
  ASSUME ResourcesInv, NEW h \in Handlers, CheckToken(h)
  PROVE  ResourcesInv'
<1> DEFINE t == ExistingToken
           p == IF t = NoToken THEN "create" ELSE "token"
           rec == [handler[h] EXCEPT !.pc = p, !.token = t]
<1>1. handler[h] \in HandlerRecord /\ handler[h].pc = "check" /\ GoodToken(handler[h])
  BY DEF CheckToken, ResourcesInv
<1>2. t \in Left /\ (t # NoToken => t >= Margin)
  BY ExistingTokenIs
<1>3. Becomes(h, rec) /\ cache' = t /\ UNCHANGED <<Process, vms>>
  BY DEF CheckToken
<1> HIDE DEF t
<1>4. p \in {"create", "token"} /\ (p = "token" => t # NoToken)
  OBVIOUS
<1> HIDE DEF p
<1>5. rec \in HandlerRecord
  BY <1>1, <1>2, <1>4, RecordWrites
<1>6. /\ rec.pc = p /\ rec.token = t /\ rec.event = handler[h].event
      /\ rec.vm = handler[h].vm /\ rec.wait = handler[h].wait
  BY <1>1 DEF HandlerRecord
<1> HIDE DEF rec
<1>7. GoodToken(rec)
  BY <1>1, <1>2, <1>4, <1>6, TimesAssumption DEF GoodToken
<1> QED BY <1>1, <1>2, <1>3, <1>4, <1>5, <1>6, <1>7, GoesOn

LEMMA CreateTokenKeeps ==
  ASSUME ResourcesInv, NEW h \in Handlers, CreateToken(h)
  PROVE  ResourcesInv'
<1> DEFINE rec == [handler[h] EXCEPT !.pc = "store", !.token = Lifetime]
<1>1. handler[h] \in HandlerRecord /\ handler[h].pc = "create" /\ GoodToken(handler[h])
  BY DEF CreateToken, ResourcesInv
<1>2. Becomes(h, rec) /\ cache' = cache /\ UNCHANGED <<Process, vms>>
  BY DEF CreateToken
<1>3. Lifetime \in Left /\ Lifetime >= Margin /\ cache \in Left
  BY TimesAssumption DEF NoToken, Left, ResourcesInv, ProcessOK
<1>4. rec \in HandlerRecord
  BY <1>1, <1>3, RecordWrites
<1>5. /\ rec.pc = "store" /\ rec.token = Lifetime /\ rec.event = handler[h].event
      /\ rec.vm = handler[h].vm /\ rec.wait = handler[h].wait
  BY <1>1 DEF HandlerRecord
<1> HIDE DEF rec
<1>6. GoodToken(rec)
  BY <1>1, <1>3, <1>5, TimesAssumption DEF GoodToken
<1> QED BY <1>1, <1>2, <1>3, <1>4, <1>5, <1>6, GoesOn

LEMMA StoreTokenKeeps ==
  ASSUME ResourcesInv, NEW h \in Handlers, StoreToken(h)
  PROVE  ResourcesInv'
<1> DEFINE rec == [handler[h] EXCEPT !.pc = "token"]
<1>1. handler[h] \in HandlerRecord /\ handler[h].pc = "store" /\ GoodToken(handler[h])
  BY DEF StoreToken, ResourcesInv
<1>2. Becomes(h, rec) /\ cache' = handler[h].token /\ UNCHANGED <<Process, vms>>
  BY DEF StoreToken
<1>3. cache' \in Left
  BY <1>1, <1>2 DEF HandlerRecord
<1>4. rec \in HandlerRecord
  BY <1>1, RecordWrites
<1>5. /\ rec.pc = "token" /\ rec.token = handler[h].token /\ rec.event = handler[h].event
      /\ rec.vm = handler[h].vm /\ rec.wait = handler[h].wait
  BY <1>1 DEF HandlerRecord
<1> HIDE DEF rec
<1>6. GoodToken(rec)
  BY <1>1, <1>5 DEF GoodToken
<1> QED BY <1>1, <1>2, <1>3, <1>4, <1>5, <1>6, GoesOn

LEMMA ConfigureRunnerKeeps ==
  ASSUME ResourcesInv, NEW h \in Handlers, ConfigureRunner(h)
  PROVE  ResourcesInv'
<1> DEFINE rec == [handler[h] EXCEPT !.pc = "run"]
<1>1. handler[h] \in HandlerRecord /\ handler[h].pc = "token" /\ handler[h].vm # NoVM
  BY DEF ConfigureRunner, ResourcesInv
<1>2. Becomes(h, rec) /\ cache' = cache /\ UNCHANGED <<Process, vms>>
  BY DEF ConfigureRunner
<1>3. cache' \in Left
  BY <1>2 DEF ResourcesInv, ProcessOK
<1>4. rec \in HandlerRecord
  BY <1>1, RecordWrites
<1>5. rec.pc = "run" /\ rec.event = handler[h].event /\ rec.vm = handler[h].vm
  BY <1>1 DEF HandlerRecord
<1> HIDE DEF rec
<1>6. GoodToken(rec)
  BY <1>5 DEF GoodToken
<1> QED BY <1>1, <1>2, <1>3, <1>4, <1>5, <1>6, GoesOn

LEMMA AcquireVMKeeps ==
  ASSUME ResourcesInv, NEW h \in Handlers, AcquireVM(h)
  PROVE  ResourcesInv'
<1>1. /\ handler[h] \in HandlerRecord /\ handler[h].pc # "idle" /\ handler[h].vm = NoVM
      /\ GoodToken(handler[h]) /\ HasLease(handler[h], vms, boot, cfg)
      /\ cache' = cache /\ UNCHANGED Process
  BY DEF AcquireVM, ResourcesInv, LeaseInv
<1>2. PICK v \in vms : /\ v.pool = PoolOf(handler[h].event) /\ v.boot = boot /\ ~v.leased
                       /\ vms' = (vms \ {v}) \cup {Leased(v)}
                       /\ Becomes(h, [handler[h] EXCEPT !.vm = Leased(v)])
  BY DEF AcquireVM, Leased
<1> DEFINE rec == [handler[h] EXCEPT !.vm = Leased(v)]
<1>3. cfg' = cfg /\ boot' = boot /\ created' = created
  BY <1>1 DEF Process
<1>4. VmsOK' /\ Leased(v) \notin vms
  BY <1>2, <1>3, VmsLease DEF ResourcesInv
<1>5. v \in VM
  BY DEF ResourcesInv, VmsOK
<1>6. /\ Leased(v) \in VM /\ Leased(v).leased
      /\ Leased(v).pool = v.pool /\ Leased(v).boot = v.boot
  BY <1>5, LeasedIs
<1>7. rec \in HandlerRecord
  BY <1>1, <1>6, RecordWrites
<1>8. /\ rec.pc = handler[h].pc /\ rec.token = handler[h].token /\ rec.event = handler[h].event
      /\ rec.vm = Leased(v) /\ rec.wait = handler[h].wait
  BY <1>1 DEF HandlerRecord
<1>9. Becomes(h, rec)
  BY <1>2
<1> HIDE DEF rec
<1>10. GoodToken(rec)
  BY <1>1, <1>8 DEF GoodToken
<1>11. HasLease(rec, vms', boot, cfg)
  <2>1. RunnerFor(cfg, rec.event.repo, rec.event.labels) # NoRunner /\ rec.pc # "run"
    BY <1>1, <1>8 DEF HasLease
  <2>2. rec.vm \in vms' /\ rec.vm.boot = boot /\ rec.vm.pool = PoolOf(rec.event)
    BY <1>2, <1>6, <1>8
  <2>3. rec.vm.leased
    BY <1>6, <1>8
  <2> QED BY <2>1, <2>2, <2>3, <1>1, <1>8 DEF HasLease, PoolOf
<1>12. ASSUME NEW g \in Handlers \ {h}, handler[g].vm # NoVM
       PROVE  handler[g].vm \in vms' /\ handler[g].vm # rec.vm
  <2>1. handler[g].vm \in vms /\ handler[g].vm.leased
    BY <1>12 DEF ResourcesInv, LeaseInv, HasLease
  <2>2. handler[g].vm # v
    BY <1>2, <2>1
  <2> QED BY <1>2, <1>4, <1>8, <2>1, <2>2
<1>13. /\ handler' \in [Handlers -> HandlerRecord']
       /\ \A g \in Handlers : GoodToken(handler'[g])
       /\ LeaseInv'
  BY <1>3, <1>7, <1>9, <1>10, <1>11, <1>12, HandlerSteps
<1>14. cache' \in Left
  BY <1>1 DEF ResourcesInv, ProcessOK
<1> QED BY <1>1, <1>4, <1>13, <1>14, AtWork, HandlerKeeps

\* A handler is through, well or badly, and its VM is gone or left to a sweep.
LEMMA GivesUp ==
  ASSUME ResourcesInv, NEW h \in Handlers, AcquireFails(h) \/ JobEnds(h)
  PROVE  ResourcesInv'
<1>1. /\ handler[h].pc # "idle" /\ Delete(handler[h].vm) /\ Becomes(h, Idle)
      /\ UNCHANGED <<Process, cache>>
  BY DEF AcquireFails, JobEnds
<1>2. cfg' = cfg /\ boot' = boot /\ created' = created
  BY <1>1 DEF Process
<1>3. VmsOK' /\ cache' \in Left
  BY <1>1, <1>2, VmsShrink DEF ResourcesInv, ProcessOK, Delete
<1>4. HasLease(Idle, vms', boot, cfg) /\ GoodToken(Idle)
  BY IdleRecord DEF HasLease, GoodToken
<1>5. ASSUME NEW g \in Handlers \ {h}, handler[g].vm # NoVM
      PROVE  handler[g].vm \in vms' /\ handler[g].vm # Idle.vm
  <2>1. handler[g].vm \in vms
    BY <1>5 DEF ResourcesInv, LeaseInv, HasLease
  <2>2. handler[g].vm # handler[h].vm
    BY <1>5 DEF ResourcesInv, LeaseInv
  <2> QED BY <1>1, <1>5, <2>1, <2>2, IdleRecord DEF Delete
<1>6. /\ handler' \in [Handlers -> HandlerRecord']
      /\ \A g \in Handlers : GoodToken(handler'[g])
      /\ LeaseInv'
  BY <1>1, <1>2, <1>4, <1>5, IdleRecord, HandlerSteps
<1> QED BY <1>1, <1>3, <1>6, AtWork, HandlerKeeps

LEMMA OlderIs ==
  ASSUME NEW t \in Left
  PROVE  /\ Older(t) \in Left
         /\ t >= 0 => Older(t) = t - 1
  BY TimesAssumption DEF Older, Left, NoToken

Aged(r) ==
  [r EXCEPT !.token = Older(@),
            !.wait = IF r.pc \in {"store", "token"} /\ @ <= Margin THEN @ + 1 ELSE @]

\* Time takes from a token what it takes from the margin.
LEMMA AgedIs ==
  ASSUME NEW r \in HandlerRecord, GoodToken(r)
  PROVE  /\ Aged(r) \in HandlerRecord /\ GoodToken(Aged(r))
         /\ Aged(r).pc = r.pc /\ Aged(r).event = r.event /\ Aged(r).vm = r.vm
<1> DEFINE vm == VM \cup {NoVM}
           pcs == {"idle", "check", "create", "store", "token", "run"}
           waits == 0..Margin + 1
           left == Left
           t == Older(r.token)
           w == IF r.pc \in {"store", "token"} /\ r.wait <= Margin THEN r.wait + 1 ELSE r.wait
<1>1. HandlerRecord = [pc : pcs, event : Events, token : left, wait : waits, vm : vm]
  BY DEF HandlerRecord
<1>2. r.token \in Left /\ r.wait \in 0..Margin + 1 /\ Margin \in Nat
  BY TimesAssumption DEF HandlerRecord
<1>3. t \in left /\ w \in waits
  BY <1>2, OlderIs
<1>4. r.pc \in {"store", "token"} /\ w <= Margin => t >= Margin - w
  <2> SUFFICES ASSUME r.pc \in {"store", "token"}, w <= Margin
               PROVE  t >= Margin - w
    OBVIOUS
  <2>1. r.wait <= Margin /\ w = r.wait + 1
    BY <1>2
  <2>2. r.token >= Margin - r.wait /\ r.token >= 0 /\ r.token \in Int
    BY <1>2, <2>1, TimesAssumption DEF GoodToken, Left, NoToken
  <2>3. t = r.token - 1
    BY <1>2, <2>2, OlderIs
  <2> QED BY <1>2, <2>1, <2>2, <2>3
<1>5. Aged(r) = [r EXCEPT !.token = t, !.wait = w]
  BY <1>1 DEF Aged
<1>6. r.pc \in {"idle", "check", "create"} => w = r.wait
  OBVIOUS
<1> HIDE DEF vm, pcs, waits, left, t, w
<1>7. /\ Aged(r) \in HandlerRecord
      /\ Aged(r).pc = r.pc /\ Aged(r).event = r.event /\ Aged(r).vm = r.vm
      /\ Aged(r).token = t /\ Aged(r).wait = w
  BY <1>1, <1>3, <1>5
<1>8. GoodToken(Aged(r))
  BY <1>4, <1>6, <1>7 DEF GoodToken
<1> QED BY <1>7, <1>8

LEMMA TickKeeps ==
  ASSUME ResourcesInv, Tick
  PROVE  ResourcesInv'
<1>1. /\ phase = "up" /\ cache' = Older(cache) /\ vms' = vms /\ UNCHANGED Process
  BY DEF Tick
<1>2. cfg' = cfg /\ boot' = boot /\ created' = created
  BY <1>1 DEF Process
<1>3. VmsOK' /\ cache' \in Left
  BY <1>1, <1>2, VmsShrink, OlderIs DEF ResourcesInv, ProcessOK
<1>4. handler' = [h \in Handlers |-> Aged(handler[h])]
  BY DEF Tick, Aged
<1>5. \A h \in Handlers :
         /\ handler'[h] \in HandlerRecord /\ GoodToken(handler'[h])
         /\ handler'[h].pc = handler[h].pc /\ handler'[h].event = handler[h].event
         /\ handler'[h].vm = handler[h].vm
  BY <1>4, AgedIs DEF ResourcesInv
<1>6. handler' \in [Handlers -> HandlerRecord']
  BY <1>2, <1>4, <1>5, SameRecords
<1>7. \A h \in Handlers : HasLease(handler'[h], vms', boot', cfg')
  BY <1>1, <1>2, <1>5 DEF ResourcesInv, LeaseInv, HasLease
<1>8. LeaseInv'
  BY <1>5, <1>7 DEF ResourcesInv, LeaseInv
<1> QED BY <1>1, <1>3, <1>5, <1>6, <1>8, HandlerKeeps

-----------------------------------------------------------------------------

LEMMA InitInv == Init => ResourcesInv
<1> SUFFICES ASSUME Init
             PROVE  ResourcesInv
  OBVIOUS
<1>1. ProcessOK
  <2>1. boot = 0 /\ 0 \in 0..MaxBoots /\ cache \in Left
    BY BoundsAssumption, TimesAssumption DEF Init, Left, NoToken
  <2>2. startErr \in BOOLEAN
    BY DEF Init
  <2> QED BY <2>1, <2>2 DEF Init, ProcessOK
<1>2. VmsOK
  BY BoundsAssumption DEF Init, VmsOK
<1>3. handler = [h \in Handlers |-> Idle] /\ \A h \in Handlers : handler[h] = Idle
  BY DEF Init
<1>4. handler \in [Handlers -> HandlerRecord]
  BY <1>3, IdleRecord
<1>5. \A h \in Handlers : GoodToken(handler[h])
  BY <1>3, IdleRecord DEF GoodToken
<1>6. LeaseInv
  BY <1>3, IdleRecord DEF LeaseInv, HasLease
<1>7. SweepInv
  BY DEF Init, SweepInv
<1> QED BY <1>1, <1>2, <1>3, <1>4, <1>5, <1>6, <1>7 DEF ResourcesInv

LEMMA StutterKeeps ==
  ASSUME ResourcesInv, UNCHANGED vars
  PROVE  ResourcesInv'
<1>1. /\ cfg' = cfg /\ phase' = phase /\ boot' = boot /\ toSweep' = toSweep
      /\ toStart' = toStart /\ startErr' = startErr /\ vms' = vms /\ created' = created
      /\ cache' = cache /\ handler' = handler /\ unswept' = unswept
  BY DEF vars
<1>2. VmsOK'
  BY <1>1, VmsShrink DEF ResourcesInv
<1>3. ProcessOK' /\ SweepInv'
  BY <1>1, SamePools DEF ResourcesInv, ProcessOK, SweepInv
<1> QED BY <1>1, <1>2, <1>3, HandlersStay DEF ResourcesInv

LEMMA StepInv == ResourcesInv /\ [Next]_vars => ResourcesInv'
<1> SUFFICES ASSUME ResourcesInv, [Next]_vars
             PROVE  ResourcesInv'
  OBVIOUS
<1>1. CASE Start
  BY <1>1, StartKeeps
<1>2. CASE SweepEnds
  BY <1>2, SweepEndsKeeps
<1>3. CASE PoolsStarted
  BY <1>3, PoolsStartedKeeps
<1>4. CASE Close \/ Crash
  BY <1>4, EndKeeps
<1>5. CASE Tick
  BY <1>5, TickKeeps
<1>6. ASSUME NEW p \in Pools, SweepPool(p) \/ StartPool(p) \/ Replenish(p)
      PROVE  ResourcesInv'
  BY <1>6, SweepPoolKeeps, StartPoolKeeps, ReplenishKeeps
<1>7. ASSUME NEW h \in Handlers, NEW e \in Events, QueuedEvent(h, e)
      PROVE  ResourcesInv'
  BY <1>7, QueuedEventKeeps
<1>8. ASSUME NEW h \in Handlers, CheckToken(h) \/ CreateToken(h) \/ StoreToken(h)
      PROVE  ResourcesInv'
  BY <1>8, CheckTokenKeeps, CreateTokenKeeps, StoreTokenKeeps
<1>9. ASSUME NEW h \in Handlers,
             AcquireVM(h) \/ AcquireFails(h) \/ ConfigureRunner(h) \/ JobEnds(h)
      PROVE  ResourcesInv'
  BY <1>9, AcquireVMKeeps, GivesUp, ConfigureRunnerKeeps
<1>10. CASE UNCHANGED vars
  BY <1>10, StutterKeeps
<1> QED BY <1>1, <1>2, <1>3, <1>4, <1>5, <1>6, <1>7, <1>8, <1>9, <1>10 DEF Next

\* The invariant, along every behaviour of the processes and their handlers.
THEOREM Invariance == Spec => []ResourcesInv
<1> QED BY InitInv, StepInv, PTL DEF Spec

\* Types, and that no two VMs on the host share a name, whichever process created
\* them and for whichever pool (tart.go:48-56).
THEOREM Typing == Spec => []TypeOK
<1>1. ResourcesInv => TypeOK
  <2> SUFFICES ASSUME ResourcesInv
               PROVE  TypeOK
    OBVIOUS
  <2>1. \A h \in Handlers :
          /\ handler[h].pc \in {"idle", "check", "create", "store", "token", "run"}
          /\ handler[h].event \in Events /\ handler[h].token \in Left
          /\ handler[h].wait \in 0..Margin + 1
          /\ handler[h].vm \in VM \cup {NoVM}
    BY DEF ResourcesInv, HandlerRecord
  <2> QED BY <2>1 DEF ResourcesInv, ProcessOK, VmsOK, TypeOK
<1> QED BY <1>1, Invariance, PTL

\* A job runs in the pool of a runner its repository lists with exactly the job's
\* labels, on a VM of this process that nobody else runs on, however events,
\* acquisitions, failures, crashes and sweeps interleave (event_handler.go:190-257).
THEOREM RightPools == Spec => []RightPool
<1>1. ResourcesInv => RightPool
  <2> SUFFICES ASSUME ResourcesInv, NEW h \in Handlers, handler[h].pc = "run"
               PROVE  /\ handler[h].vm \in vms /\ handler[h].vm.boot = boot
                      /\ \E i \in DOMAIN cfg.repositories :
                         \E j \in DOMAIN cfg.repositories[i].runners :
                           LET r == cfg.repositories[i].runners[j]
                           IN  /\ cfg.repositories[i].repo = handler[h].event.repo
                               /\ r.pool = handler[h].vm.pool
                               /\ {Lower(l) : l \in ToSet(r.labels)}
                                    = {Lower(l) : l \in ToSet(handler[h].event.labels)}
                      /\ \A g \in Handlers \ {h} : handler[g].vm # handler[h].vm
    BY DEF RightPool
  <2> DEFINE e == handler[h].event
  <2>1. /\ handler[h].vm # NoVM /\ handler[h].vm \in vms /\ handler[h].vm.boot = boot
        /\ handler[h].vm.pool = RunnerFor(cfg, e.repo, e.labels).pool
        /\ RunnerFor(cfg, e.repo, e.labels) # NoRunner
    BY DEF ResourcesInv, LeaseInv, HasLease
  <2>2. \A g \in Handlers \ {h} : handler[g].vm # handler[h].vm
    BY <2>1 DEF ResourcesInv, LeaseInv
  <2>3. IsConfig(cfg)
    BY ConfigsAssumption DEF ResourcesInv, ProcessOK
  <2>4. PICK i \in DOMAIN cfg.repositories : \E j \in DOMAIN cfg.repositories[i].runners :
           /\ RunnerFor(cfg, e.repo, e.labels) = cfg.repositories[i].runners[j]
           /\ Selects(cfg, e.repo, e.labels, i, j)
    BY <2>1, <2>3, RunnerSelected
  <2>5. PICK j \in DOMAIN cfg.repositories[i].runners :
           /\ RunnerFor(cfg, e.repo, e.labels) = cfg.repositories[i].runners[j]
           /\ Selects(cfg, e.repo, e.labels, i, j)
    BY <2>4
  <2>6. /\ cfg.repositories[i].repo = e.repo
        /\ cfg.repositories[i].runners[j].pool = handler[h].vm.pool
        /\ {Lower(l) : l \in ToSet(cfg.repositories[i].runners[j].labels)}
             = {Lower(l) : l \in ToSet(e.labels)}
    BY <2>1, <2>5 DEF Selects, LabelSet
  <2> QED BY <2>1, <2>2, <2>6
<1> QED BY <1>1, Invariance, PTL

\* When the sweep is over, a VM of an earlier process is left only in a pool that
\* could not be listed or cleaned (provider.go:86-101).
THEOREM SweepsAreThorough == Spec => SweepIsThorough
<1>1. ResourcesInv /\ [Next]_vars =>
        [phase = "sweep" /\ phase' = "start" =>
            \A v \in vms : v.boot < boot => v.pool \in unswept]_vars
  <2> SUFFICES ASSUME ResourcesInv, [Next]_vars, phase = "sweep", phase' = "start"
               PROVE  \A v \in vms : v.boot < boot => v.pool \in unswept
    OBVIOUS
  <2>1. toSweep = {}
    BY AtWork DEF Next, vars, Start, SweepEnds, PoolsStarted, Close, Crash, Ended, Tick,
       SweepPool, StartPool, Replenish, QueuedEvent, CheckToken, CreateToken, StoreToken,
       AcquireVM, AcquireFails, ConfigureRunner, JobEnds, Process
  <2> QED BY <2>1 DEF ResourcesInv, SweepInv
<1> QED BY <1>1, Invariance, PTL DEF Spec, SweepIsThorough

\* Whichever handler created a token and whichever was stored last, a runner that
\* gets its VM within the margin is configured with a token that has not expired
\* (github_client.go:35-60).
THEOREM TokensGoodWhenUsed == Spec => TokenGoodWhenUsed
<1>1. ResourcesInv =>
        [\A h \in Handlers :
           handler[h].pc = "token" /\ handler'[h].pc = "run" /\ handler[h].wait <= Margin
              => handler[h].token >= 0]_vars
  <2> SUFFICES ASSUME ResourcesInv, NEW h \in Handlers, handler[h].pc = "token",
                      handler[h].wait <= Margin
               PROVE  handler[h].token >= 0
    OBVIOUS
  <2>1. handler[h] \in HandlerRecord /\ GoodToken(handler[h])
    BY DEF ResourcesInv
  <2>2. handler[h].token \in Int /\ handler[h].wait \in Nat
    BY <2>1, TimesAssumption DEF HandlerRecord, Left, NoToken
  <2> QED BY <2>1, <2>2, TimesAssumption DEF GoodToken
<1> QED BY <1>1, Invariance, PTL DEF TokenGoodWhenUsed

=============================================================================
