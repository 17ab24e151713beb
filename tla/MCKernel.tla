------------------------------ MODULE MCKernel ------------------------------
(***************************************************************************)
(* Small instances of Kernel: one process with two tasks, or two processes. *)
(***************************************************************************)
EXTENDS Kernel, TLC

CONSTANTS keys, update, tick, cli

OneClient == {keys}
TwoClients == {keys, update}
OneMonitor == {tick}
OneProcess == [a \in Clients \cup Monitors |-> "tui"]
TuiAndCli == {keys, cli}
TwoProcesses == [a \in Clients \cup Monitors |-> IF a = cli THEN "cli" ELSE "tui"]
NoCommand == {}
CliOnly == {"cli"}
TuiKinds == [c \in Clients |-> AllKinds \ Foregrounds]
CliKinds == [c \in Clients |-> IF c = cli THEN AllKinds \ {"status"} ELSE {"start", "stop"}]
StartStop == [c \in Clients |-> {"start", "stop"}]

\* The tasks of one process run the same code.
Alike == Permutations(Clients)
=============================================================================
