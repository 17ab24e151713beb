------------------------------- MODULE MCJobs -------------------------------
(***************************************************************************)
(* Small instances of Jobs: the values a configuration file cannot write.  *)
(***************************************************************************)
EXTENDS Jobs, TLC

CONSTANTS sub1, sub2, tui, cli

OneTarget == {sub1}
TwoTargets == {sub1, sub2}
OneCaller == {tui}
TwoCallers == {tui, cli}
OneSecond == {"tmp"}
TwoSeconds == {"tmp-1", "tmp-2"}

\* Callers run the same code, targets are only compared.
Alike == Permutations(Callers) \cup Permutations(Targets)
=============================================================================
