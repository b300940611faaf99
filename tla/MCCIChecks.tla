----------------------------- MODULE MCCIChecks -----------------------------
(* CIChecks for TLC: two modules, the shapes of .multimod.yaml's actions.  *)
EXTENDS CIChecks

TwoDirs == <<"a", "b">>

Script(spec, excluded, listed, unlisted) ==
    [spec |-> spec, excluded |-> excluded, listed |-> listed, unlisted |-> unlisted]

SmallPlans ==
    { <<Script(<<"get", ";", "tidy">>, {}, TRUE, FALSE)>>,
      <<Script(<<"env:X", "govulnchecker">>, {}, FALSE, FALSE)>>,
      <<Script(<<"lint">>, {"b"}, TRUE, TRUE), Script(<<"govulnchecker">>, {}, TRUE, FALSE)>>,
      <<Script(<<"get", ";", ";", "tidy">>, {}, FALSE, FALSE)>>,
      <<Script(<<"get">>, {}, FALSE, FALSE), Script(<<>>, {}, FALSE, FALSE)>> }

Level(l) == [kind |-> "config", level |-> l]
Found(osv, called) == [kind |-> "finding", osv |-> osv, called |-> called]
Mismatch == [kind |-> "mismatch"]

SmallStreams ==
    { [values |-> v, cut |-> FALSE, code |-> c] :
        v \in { <<>>, <<Level("symbol"), Found("o1", FALSE), Mismatch, Found("o1", TRUE)>>,
                <<Level("module"), Found("o2", FALSE), Found("o1", FALSE)>>,
                <<Found("o2", TRUE), Found("o1", FALSE)>>,
                <<Level("package"), Level("symbol"), Found("o1", FALSE)>> },
        c \in {0, 1, 3} }
    \cup { [values |-> <<Found("o1", TRUE)>>, cut |-> TRUE, code |-> 1] }

=============================================================================
