----------------------------- MODULE MCProfiles -----------------------------
(***************************************************************************)
(* Small instances of ProfileTransaction: a subscription with an           *)
(* enhancement of its own, and a local profile or a second subscription.   *)
(***************************************************************************)
EXTENDS ProfileTransaction, TLC

CONSTANTS sub, other, merge, tui, cli, job, job2, v1, v2, nodeA

OneSubscription == {sub}
TwoSubscriptions == {sub, other}
NoLocal == {}
OneLocal == {other}
Profiles == {sub, other, merge}
TwoProfiles == {sub, other}
NoRefs == [u \in TwoProfiles |-> {}]
MergeOfSub == [u \in Profiles |-> IF u = sub THEN {merge} ELSE {}]
TwoVersions == {v1, v2}
OneVersion == {v1}
OneSelection == {nodeA}

Tui == {tui}
TuiAndCli == {tui, cli}
OneTask == {job}
TwoTasks == {job, job2}
NoTask == {}
OneProcess == [a \in Clients \cup Tasks |-> "tui"]
ProcessEach == [a \in Clients \cup Tasks |-> a]

MainProfiles == Remote \cup Local
Transactions == Locked
AllOperations == AllKinds
UpdateAndSelect == {"update", "select"}
ActivateAndDelete == {"activate", "delete"}

\* Contents are only compared.  Without an enhancement subscriptions are alike,
\* and so are processes that run the same operations.
AlikeVersions == Permutations(Versions)
AlikeProcesses == Permutations(Clients) \cup Permutations(Remote)
=============================================================================
