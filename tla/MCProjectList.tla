--------------------------- MODULE MCProjectList ----------------------------
(* Values of the constants of ProjectList for TLC. *)
EXTENDS ProjectList, TLC

\* A project, a list and its repository; the list may be the first there is.
Projects == 1 .. 3
OneList  == 2 :> {3}

\* What the user has from the start, and with everything off.
OnAndOff == {[icon |-> TRUE, animate |-> TRUE, popups |-> TRUE],
             [icon |-> FALSE, animate |-> FALSE, popups |-> FALSE]}

\* The user is busy; the shell and the popups are.
EitherIsBusy == {[user |-> 2, shell |-> 0, popups |-> 1],
                 [user |-> 0, shell |-> 1, popups |-> 2]}

\* The loop of the main dialog over the map S, with its iterator at u, that erases
\* what is in M.
RECURSIVE EraseLoop(_, _, _)
EraseLoop(S, u, M) ==
  IF u = End THEN S
  ELSE EraseLoop(MapAfterRound(S, u, M), IteratorAfterRound(S, u, M), M)

\* Erase is what the loop computes, for any map of up to six keys.
ASSUME EraseIsLoop ==
  \A S, M \in SUBSET (1 .. 6) : EraseLoop(S, Least(S), M) = Erase(S, M)
=============================================================================
