--------------------------- MODULE Govulnchecker ---------------------------
(***************************************************************************)
(* govulnchecker (src/govulnchecker/main.go): reads what "govulncheck      *)
(* -format=json" prints, one value at a time, and decides.  A stream is    *)
(* [values, cut, code]: the JSON values, whether the output breaks off in  *)
(* the middle of one, and govulncheck's exit code.  A value is a record    *)
(*   [kind |-> "config", level], [kind |-> "finding", osv, called]         *)
(* or one of another kind: "other" messages, "mismatch" (JSON, but not an  *)
(* object).  checker is what the loop knows: [at, level, unmatched].       *)
(***************************************************************************)
EXTENDS Naturals, Sequences

CONSTANTS Ignored,          \* ids of the configuration's ignore list
          IncludeNotCalled  \* -include-not-called

Value == [kind : {"config"}, level : STRING]
            \cup [kind : {"finding"}, osv : STRING, called : BOOLEAN]
            \cup [kind : {"other", "mismatch"}]
Stream == [values : Seq(Value), cut : BOOLEAN, code : Nat]

NewChecker == [at |-> 1, level |-> "symbol", unmatched |-> FALSE]

\* A finding that is neither ignored nor without an id nor, when symbols were
\* scanned, only imported.
Counts(value, level) ==
    /\ value.kind = "finding"
    /\ value.osv \notin Ignored \cup {""}
    /\ level # "symbol" \/ IncludeNotCalled \/ value.called

AtEnd(checker, stream) == checker.at > Len(stream.values)

\* Faulty variant: what is only imported is skipped at every level.
DecodeSkippingImported(checker, stream) ==
    LET value == stream.values[checker.at]
    IN  IF AtEnd(checker, stream) THEN checker
        ELSE [at |-> checker.at + 1,
              level |-> IF value.kind = "config" THEN value.level ELSE checker.level,
              unmatched |-> checker.unmatched \/ Counts(value, "symbol")]

\* Faulty variant: a value that cannot be decoded is tried again.
DecodeRetrying(checker, stream) ==
    LET value == stream.values[checker.at]
    IN  IF AtEnd(checker, stream) \/ value.kind = "mismatch" THEN checker
        ELSE [at |-> checker.at + 1,
              level |-> IF value.kind = "config" THEN value.level ELSE checker.level,
              unmatched |-> checker.unmatched \/ Counts(value, checker.level)]

\* One turn of the loop.  A value of another type is an error that is passed
\* over; output that breaks off is one the decoder returns for ever, as the loop
\* goes on after every error but EOF.
Decode(checker, stream) ==
    LET value == stream.values[checker.at]
    IN  IF AtEnd(checker, stream) THEN checker
        ELSE [at |-> checker.at + 1,
              level |-> IF value.kind = "config" THEN value.level ELSE checker.level,
              unmatched |-> checker.unmatched \/ Counts(value, checker.level)]

\* EOF: the loop is left.
LoopEnds(checker, stream) == AtEnd(checker, stream) /\ ~stream.cut

\* The exit status.  3 is govulncheck's "vulnerabilities found".
ExitStatus(checker, stream) ==
    IF checker.unmatched \/ stream.code \notin {0, 3} THEN 1 ELSE 0

=============================================================================
