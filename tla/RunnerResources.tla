-------------------------- MODULE RunnerResources --------------------------
(***************************************************************************)
(* What a runner needs before its job can start, and what is left of it    *)
(* when processes end: the VM pools of an orchestrator process from start  *)
(* to exit or crash (vmsclient.go, run_cmd.go), the sweep of orphaned VMs  *)
(* at the next start (vms_cleanup.go, provider.go), and the acquisition of *)
(* a VM and of a registration token by concurrent handlers, the token out  *)
(* of a cache (github_client.go).                                          *)
(*                                                                         *)
(* The pool is a library: Start creates a VM or fails, Acquire hands one   *)
(* out, Close deletes those not handed out.  Times are what is left of     *)
(* them, so that no clock is needed.                                       *)
(***************************************************************************)
EXTENDS RunnerConfigs, Integers, FiniteSets

CONSTANTS
    Configs,   \* configurations the orchestrator may be given
    Events,    \* queued events: [repo, labels]
    Handlers,  \* concurrent handleQueuedEvents of one process
    Lifetime,  \* of a new registration token
    Margin,    \* a cached token is renewed with less than this left
    MaxBoots,  \* bound: starts of the process
    MaxVMs     \* bound: VMs created

ASSUME TimesAssumption == Lifetime \in Nat /\ Margin \in 0..Lifetime
ASSUME BoundsAssumption == MaxBoots \in Nat /\ MaxVMs \in Nat
ASSUME ConfigsAssumption == \A c \in Configs : IsConfig(c)
ASSUME EventsAssumption == Events # {}

VARIABLES
    cfg,       \* the configuration
    phase,     \* of Run: "down", "sweep", "start", "up"
    boot,      \* starts so far
    toSweep,   \* pools DeletePoolVMs has yet to visit
    toStart,   \* pools NewPools has yet to start
    startErr,  \* a pool failed to start
    vms,       \* the VMs on the host
    created,   \* number of VMs created (vmInstID and the time make names unique)
    cache,     \* time left of the cached token, NoToken if none
    handler,   \* the handlers
    unswept    \* (observer) pools whose deletion failed in this boot

vars == <<cfg, phase, boot, toSweep, toStart, startErr, vms, created, cache,
          handler, unswept>>

NoToken == -1
Left == NoToken..Lifetime
Pools == DOMAIN cfg.pools

\* name: the prefix of its pool and a number; pool, boot: who created it.
VM == [name : {Append(VMNamePrefix(cfg, p), i) : p \in Pools, i \in 1..MaxVMs},
       pool : Pools, boot : 1..MaxBoots, leased : BOOLEAN]
NoVM == [name |-> <<>>]

Idle == [pc |-> "idle", event |-> CHOOSE e \in Events : TRUE, token |-> NoToken,
         wait |-> 0, vm |-> NoVM]

TypeOK ==
    /\ cfg \in Configs
    /\ phase \in {"down", "sweep", "start", "up"}
    /\ boot \in 0..MaxBoots
    /\ toSweep \subseteq Pools /\ toStart \subseteq Pools /\ unswept \subseteq Pools
    /\ startErr \in BOOLEAN
    /\ vms \subseteq VM /\ created \in 0..MaxVMs
    /\ \A v, w \in vms : v.name = w.name => v = w
    /\ cache \in Left
    /\ \A h \in Handlers :
          /\ handler[h].pc \in {"idle", "check", "create", "store", "token", "run"}
          /\ handler[h].event \in Events /\ handler[h].token \in Left
          /\ handler[h].wait \in 0..Margin + 1
          /\ handler[h].vm \in VM \cup {NoVM}

Init ==
    /\ cfg \in Configs
    /\ phase = "down" /\ boot = 0
    /\ toSweep = {} /\ toStart = {} /\ unswept = {} /\ startErr = FALSE
    /\ vms = {} /\ created = 0
    /\ cache = NoToken
    /\ handler = [h \in Handlers |-> Idle]

-----------------------------------------------------------------------------
(* The process. *)

\* main and Run up to the sweep, which --delete-orphaned-vms asks for.
Start ==
    /\ phase = "down" /\ boot < MaxBoots /\ ValidConfig(cfg)
    /\ boot' = boot + 1
    /\ toStart' = Pools /\ startErr' = FALSE /\ unswept' = {}
    /\ \/ phase' = "sweep" /\ toSweep' = Pools
       \/ phase' = "start" /\ toSweep' = {}
    /\ UNCHANGED <<cfg, vms, created, cache, handler>>

\* Faulty variant: the first pool that cannot be cleaned ends the sweep.
SweepPoolOrStop(p) ==
    /\ phase = "sweep" /\ p \in toSweep
    /\ LET listed == {v \in vms : Lists(cfg, p, v.name)}
       IN  \/ vms' = vms \ listed /\ unswept' = unswept /\ toSweep' = toSweep \ {p}
           \/ /\ \E gone \in SUBSET listed : vms' = vms \ gone
              /\ unswept' = unswept \cup {p}
              /\ toSweep' = {}
    /\ UNCHANGED <<cfg, phase, boot, toStart, startErr, created, cache, handler>>

\* One turn of DeletePoolVMs' loop: the VMs with the pool's prefix go, or some of
\* them when the provider fails; the error is kept and the loop goes on.
SweepPool(p) ==
    /\ phase = "sweep" /\ p \in toSweep
    /\ toSweep' = toSweep \ {p}
    /\ LET listed == {v \in vms : Lists(cfg, p, v.name)}
       IN  \/ vms' = vms \ listed /\ unswept' = unswept
           \/ /\ \E gone \in SUBSET listed : vms' = vms \ gone
              /\ unswept' = unswept \cup {p}
    /\ UNCHANGED <<cfg, phase, boot, toStart, startErr, created, cache, handler>>

SweepEnds ==
    /\ phase = "sweep" /\ toSweep = {}
    /\ phase' = "start"
    /\ UNCHANGED <<cfg, boot, toSweep, toStart, startErr, vms, created, cache,
                   handler, unswept>>

\* Faulty variant: a number for each pool.
NewVMNumberedByPool(p) ==
    LET i == Cardinality({v \in vms : v.pool = p}) + 1
    IN  /\ created < MaxVMs
        /\ created' = created + 1
        /\ vms' = vms \cup {[name |-> Append(VMNamePrefix(cfg, p), i),
                             pool |-> p, boot |-> boot, leased |-> FALSE]}

\* A VM of pool p comes up.
NewVM(p) ==
    /\ created < MaxVMs
    /\ created' = created + 1
    /\ vms' = vms \cup {[name |-> Append(VMNamePrefix(cfg, p), created + 1),
                         pool |-> p, boot |-> boot, leased |-> FALSE]}

\* A goroutine of NewPools: the pool starts, or fails.
StartPool(p) ==
    /\ phase = "start" /\ p \in toStart
    /\ toStart' = toStart \ {p}
    /\ \/ NewVM(p) /\ UNCHANGED startErr
       \/ startErr' = TRUE /\ UNCHANGED <<vms, created>>
    /\ UNCHANGED <<cfg, phase, boot, toSweep, cache, handler, unswept>>

\* NewPools' g.Wait.  NewWorkflowEventHandler gives up with the first error, and
\* Run returns before its deferred Close: the pools that did start stay.
PoolsStarted ==
    /\ phase = "start" /\ toStart = {}
    /\ phase' = IF startErr THEN "down" ELSE "up"
    /\ UNCHANGED <<cfg, boot, toSweep, toStart, startErr, vms, created, cache,
                   handler, unswept>>

\* A pool puts a VM in the place of one it handed out.
Replenish(p) ==
    /\ phase = "up" /\ ~\E v \in vms : v.pool = p /\ v.boot = boot /\ ~v.leased
    /\ NewVM(p)
    /\ UNCHANGED <<cfg, phase, boot, toSweep, toStart, startErr, cache, handler, unswept>>

Ended ==
    /\ phase' = "down" /\ toSweep' = {} /\ toStart' = {}
    /\ cache' = NoToken
    /\ handler' = [h \in Handlers |-> Idle]
    /\ UNCHANGED <<cfg, boot, created, startErr, unswept>>

\* Close at the end of Run: DeleteAcquiredOnClose decides about leased VMs, and a
\* VM that cannot be deleted stays.
Close ==
    /\ phase = "up"
    /\ \E gone \in SUBSET {v \in vms : v.boot = boot} : vms' = vms \ gone
    /\ Ended

Crash == phase # "down" /\ Ended /\ UNCHANGED vms

-----------------------------------------------------------------------------
(* The handlers of queued events. *)

Becomes(h, rec) == handler' = [handler EXCEPT ![h] = rec]
Process == <<cfg, phase, boot, toSweep, toStart, startErr, created, unswept>>

\* matchOnLabelsAndAction: an event with a runner gets a handler.
QueuedEvent(h, e) ==
    /\ phase = "up" /\ handler[h].pc = "idle"
    /\ RunnerFor(cfg, e.repo, e.labels) # NoRunner
    /\ Becomes(h, [Idle EXCEPT !.pc = "check", !.event = e])
    /\ UNCHANGED <<Process, vms, cache>>

PoolOf(e) == RunnerFor(cfg, e.repo, e.labels).pool

\* Faulty variant: any token that has not expired will do.
ExistingTokenUnexpired == cache

\* existingToken: the cached token unless it is about to expire.
ExistingToken == IF cache < Margin THEN NoToken ELSE cache

\* The lock of existingToken, which also forgets a token that is too old.
CheckToken(h) ==
    /\ handler[h].pc = "check"
    /\ cache' = ExistingToken
    /\ Becomes(h, [handler[h] EXCEPT !.pc = IF ExistingToken = NoToken THEN "create" ELSE "token",
                                     !.token = ExistingToken])
    /\ UNCHANGED <<Process, vms>>

\* CreateRegistrationToken, outside the lock: several may be created at once.
CreateToken(h) ==
    /\ handler[h].pc = "create"
    /\ Becomes(h, [handler[h] EXCEPT !.pc = "store", !.token = Lifetime])
    /\ UNCHANGED <<Process, vms, cache>>

\* The second lock: the last one to come decides what is cached.
StoreToken(h) ==
    /\ handler[h].pc = "store"
    /\ cache' = handler[h].token
    /\ Becomes(h, [handler[h] EXCEPT !.pc = "token"])
    /\ UNCHANGED <<Process, vms>>

\* Acquire, concurrent with the token.
AcquireVM(h) ==
    /\ handler[h].pc # "idle" /\ handler[h].vm = NoVM
    /\ \E v \in vms :
          /\ v.pool = PoolOf(handler[h].event) /\ v.boot = boot /\ ~v.leased
          /\ LET leased == [v EXCEPT !.leased = TRUE]
             IN  /\ vms' = (vms \ {v}) \cup {leased}
                 /\ Becomes(h, [handler[h] EXCEPT !.vm = leased])
    /\ UNCHANGED <<Process, cache>>

\* A VM is deleted, or its deletion fails: it stays, leased, for a sweep to find.
Delete(vm) == vms' \in {vms \ {vm}, vms}

\* Either acquisition fails, or times out: a VM that was acquired is deleted, and
\* what comes of it is not looked at.
AcquireFails(h) ==
    /\ handler[h].pc \in {"check", "create", "store", "token"}
    /\ Delete(handler[h].vm)
    /\ Becomes(h, Idle)
    /\ UNCHANGED <<Process, cache>>

\* Both are there: the runner is configured with the token.
ConfigureRunner(h) ==
    /\ handler[h].pc = "token" /\ handler[h].vm # NoVM
    /\ Becomes(h, [handler[h] EXCEPT !.pc = "run"])
    /\ UNCHANGED <<Process, vms, cache>>

\* The job is over and its VM deleted, with its retention (CompletionQueue).
JobEnds(h) ==
    /\ handler[h].pc = "run"
    /\ Delete(handler[h].vm)
    /\ Becomes(h, Idle)
    /\ UNCHANGED <<Process, cache>>

Older(left) == IF left = NoToken THEN NoToken ELSE left - 1

\* Time passes for the tokens; wait is what has passed since a handler has one.
Tick ==
    /\ phase = "up"
    /\ cache' = Older(cache)
    /\ handler' = [h \in Handlers |->
          [handler[h] EXCEPT !.token = Older(@),
                             !.wait = IF handler[h].pc \in {"store", "token"} /\ @ <= Margin
                                      THEN @ + 1 ELSE @]]
    /\ UNCHANGED <<Process, vms>>

-----------------------------------------------------------------------------

Next ==
    \/ Start \/ SweepEnds \/ PoolsStarted \/ Close \/ Crash \/ Tick
    \/ \E p \in Pools : SweepPool(p) \/ StartPool(p) \/ Replenish(p)
    \/ \E h \in Handlers :
          \/ \E e \in Events : QueuedEvent(h, e)
          \/ CheckToken(h) \/ CreateToken(h) \/ StoreToken(h) \/ AcquireVM(h)
          \/ AcquireFails(h) \/ ConfigureRunner(h) \/ JobEnds(h)

Spec == Init /\ [][Next]_vars

-----------------------------------------------------------------------------

\* After a sweep no VM of an earlier process is left in a pool that could be
\* listed and cleaned, whichever other pools could not (provider.go:86-100), and
\* although names are all there is to go by.
SweepIsThorough ==
    [][phase = "sweep" /\ phase' = "start" =>
          \A v \in vms : v.boot < boot => v.pool \in unswept]_vars

\* A job runs in the pool of a runner its repository lists with exactly the
\* job's labels, however they are ordered, repeated or spelled, and its VM is one
\* of this process that nobody else runs on.
RightPool ==
    \A h \in Handlers : handler[h].pc = "run" =>
        /\ handler[h].vm \in vms /\ handler[h].vm.boot = boot
        /\ \E i \in DOMAIN cfg.repositories : \E j \in DOMAIN cfg.repositories[i].runners :
              LET r == cfg.repositories[i].runners[j]
              IN  /\ cfg.repositories[i].repo = handler[h].event.repo
                  /\ r.pool = handler[h].vm.pool
                  /\ {Lower(l) : l \in ToSet(r.labels)}
                       = {Lower(l) : l \in ToSet(handler[h].event.labels)}
        /\ \A g \in Handlers \ {h} : handler[g].vm # handler[h].vm

\* A token is there before the VM is: it is still good when the runner is
\* configured with it if the VM took no longer than the cache's margin,
\* whichever handler created it and whichever was stored last.
TokenGoodWhenUsed ==
    [][\A h \in Handlers :
          handler[h].pc = "token" /\ handler'[h].pc = "run" /\ handler[h].wait <= Margin
             => handler[h].token >= 0]_vars

=============================================================================
