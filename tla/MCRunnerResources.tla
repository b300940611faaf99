------------------------ MODULE MCRunnerResources ------------------------
(* RunnerResources for TLC.  The pools "mac" and "mac-ci" share the name   *)
(* prefix of their VMs.                                                    *)
EXTENDS RunnerResources, TLC

LowerCase(l) == IF l = "ARM" THEN "arm" ELSE l

Runner(labels, pool) == [prefix |-> <<"r">>, labels |-> labels, pool |-> pool]
Entry(repo, runners) == [repo |-> repo, runners |-> runners]
Both == (<<"mac">> :> <<"ci", "base">>) @@ (<<"mac", "ci">> :> <<"base">>)

\* Two runners whose label sets are nested; one without its pool; two alike.
SmallConfigs ==
    { [repositories |-> <<Entry("a", <<Runner(<<"arm">>, <<"mac", "ci">>),
                                        Runner(<<"arm", "mac">>, <<"mac">>)>>)>>,
       pools |-> Both],
      [repositories |-> <<Entry("a", <<Runner(<<"arm">>, <<"linux">>)>>)>>,
       pools |-> Both],
      [repositories |-> <<Entry("a", <<Runner(<<"arm", "mac">>, <<"mac">>),
                                        Runner(<<"mac", "ARM">>, <<"mac", "ci">>)>>)>>,
       pools |-> Both] }

SmallEvents == { [repo |-> "a", labels |-> <<"mac", "ARM", "mac">>],
                 [repo |-> "a", labels |-> <<"arm">>],
                 [repo |-> "b", labels |-> <<"arm">>] }

Alike == Permutations(Handlers)

=============================================================================
