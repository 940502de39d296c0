---------------------------- MODULE MCLifecycle -----------------------------
(* Values of the constants of Lifecycle for TLC. *)
EXTENDS Lifecycle

OneSvn == {1}
TwoSvn == {1, 2}
NoGit  == {}
\* The hash of a commit comes before that of the one before.
BackwardHashes == [r \in 1..MaxRev |-> MaxRev - r]

NothingIgnored == {}
NoUiOps  == {}
MarkRead == {"markread"}
NoFaults == {}
ComFault == {"com"}
ExitOnly == {"exit"}
=============================================================================
