--------------------------- MODULE MCPersistence ----------------------------
(* Values of the constants of Persistence for TLC. *)
EXTENDS Persistence, TLC

TwoProjects == {1, 2}
NoticedFaults == AllFaults \ {"flush"}

\* Both processes run the same program.
Symmetry == Permutations(Process)

\* Nothing is promised afterwards.
UntilOverlap == ~overlapped
=============================================================================
