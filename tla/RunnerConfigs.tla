--------------------------- MODULE RunnerConfigs ---------------------------
(***************************************************************************)
(* The orchestrator's configuration as far as it decides who runs a job:   *)
(* which configurations are accepted (config.go, github_config.go), which  *)
(* runner an event selects (event_handler.go), and which VMs a pool takes  *)
(* for its own by their names (vmsclient/tart.go).                         *)
(*                                                                         *)
(* A configuration is [repositories, pools]; an entry of repositories is   *)
(* [repo, runners], a runner [prefix, labels, pool].  A name made of words *)
(* joined by "-" is the sequence of its words.                             *)
(***************************************************************************)
EXTENDS Naturals, Sequences, SequencesExt

CONSTANT Lower(_)  \* strings.ToLower

Words == Seq(STRING)
RunnerConfig == [prefix : Words, labels : Words, pool : Words]
RepositoryConfig == [repo : STRING, runners : Seq(RunnerConfig)]

\* What the YAML of a configuration is read into: pools is a function from pool
\* names to images (<<>>: none given).
IsConfig(cfg) ==
    /\ cfg.repositories \in Seq(RepositoryConfig)
    /\ DOMAIN cfg.pools \subseteq Words /\ cfg.pools \in [DOMAIN cfg.pools -> Words]

\* canonicalLabelSet: equal for two label slices iff they are the same set, case
\* apart.
LabelSet(labels) == {Lower(l) : l \in ToSet(labels)}

ValidRunner(r) == r.prefix # <<>> /\ r.labels # <<>> /\ r.pool # <<>>

ValidRepository(entry) ==
    /\ entry.runners # <<>>
    /\ \A i, j \in DOMAIN entry.runners :
          i # j => LabelSet(entry.runners[i].labels) # LabelSet(entry.runners[j].labels)
    /\ \A i \in DOMAIN entry.runners : ValidRunner(entry.runners[i])

\* Validate.
ValidConfig(cfg) ==
    /\ \A i \in DOMAIN cfg.repositories : ValidRepository(cfg.repositories[i])
    /\ \A i \in DOMAIN cfg.repositories : \A j \in DOMAIN cfg.repositories[i].runners :
          cfg.repositories[i].runners[j].pool \in DOMAIN cfg.pools
    /\ \A p \in DOMAIN cfg.pools : cfg.pools[p] # <<>>

NoRunner == [prefix |-> <<>>, labels |-> <<>>, pool |-> <<>>]

\* Faulty variant: an event selects a runner that has all its labels.
SelectsSubset(cfg, repo, labels, i, j) ==
    /\ cfg.repositories[i].repo = repo
    /\ LabelSet(labels) \subseteq LabelSet(cfg.repositories[i].runners[j].labels)

\* Runner j of entry i is entered in runnerMap under the event's key,
\* repo + ":" + canonicalLabelSet(labels).
Selects(cfg, repo, labels, i, j) ==
    /\ cfg.repositories[i].repo = repo
    /\ LabelSet(labels) = LabelSet(cfg.repositories[i].runners[j].labels)

\* What runnerMap has for an event: a later entry of the same repository takes the
\* place of an earlier one.  An event without labels has no runner (errNoLabels),
\* nor has one nothing is configured for.
RunnerFor(cfg, repo, labels) ==
    LET RunnersIn(i) == {j \in DOMAIN cfg.repositories[i].runners :
                            Selects(cfg, repo, labels, i, j)}
        entries == {i \in DOMAIN cfg.repositories : RunnersIn(i) # {}}
        last == Max(entries)
    IN  IF labels = <<>> \/ entries = {} THEN NoRunner
        ELSE cfg.repositories[last].runners[Max(RunnersIn(last))]

\* The words of "ghr-orchestrator-<pool>-<image>-".
VMNamePrefix(cfg, pool) == <<"ghr-orchestrator">> \o pool \o cfg.pools[pool]

\* What the pool's provider lists and deletes.
Lists(cfg, pool, name) == IsPrefix(VMNamePrefix(cfg, pool), name)

=============================================================================
