----------------------------- MODULE MCMonitor ------------------------------
(* Values of the constants of Monitor for TLC. *)
EXTENDS Monitor, TLC

\* The threads are interchangeable.
Threads == Permutations(Worker)

SvnAndGit == {1, 2}
OneSvn    == {1}
OneGit    == {2}
NoGit     == {}
TwoSvn    == {1, 2}

\* The hash of a commit comes before that of the one before.
BackwardHashes == [r \in 1..MaxRev |-> MaxRev - r]

NothingIgnored == {}
SecondIgnored  == {2}
NinthIgnored   == {9}

NoFaults == {}
LogFault == {"log"}
ConnectFault == {"connect"}
FetchFault == {"fetch"}

Refresh  == {"refreshall"}
CheckOne == {"checknow"}
FetchMore == {"fetchnext"}
CheckAndRemove == {"checknow", "remove"}
=============================================================================
