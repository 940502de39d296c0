------------------------- MODULE ProjectList_proofs -------------------------
(***************************************************************************)
(* A check that adds projects comes to all the others; what the removal of *)
(* a list leaves of what is below it; and all of it leaves the icon and    *)
(* the popups as Notification promises, for any lists.                     *)
(***************************************************************************)
EXTENDS ProjectList, Notification_proofs, WellFoundedInduction

-----------------------------------------------------------------------------
(* Iterators of the map.                                                   *)

\* A set of keys that is not empty has a first one.
LEMMA LeastIsFirst ==
  ASSUME NEW S \in SUBSET Nat, S # {}
  PROVE  Least(S) \in S /\ \A u \in S : Least(S) <= u
<1> DEFINE Less == {ss \in Nat \X Nat : ss[1] < ss[2]}
<1>1. IsWellFoundedOn(Less, Nat)
  BY NatLessThanWellFounded, Zenon DEF OpToRel
<1> HIDE DEF Less
<1>2. PICK m \in S : \A n \in S : <<n, m>> \notin Less
  BY <1>1, WFMin, Zenon
<1>3. ASSUME NEW n \in S PROVE m <= n
  <2>1. m \in Nat /\ n \in Nat /\ <<n, m>> \notin Less
    BY <1>2
  <2> QED
    BY <2>1 DEF Less
<1>4. Least(S) = CHOOSE u \in S : \A v \in S : u <= v
  BY DEF Least
<1> QED
  BY <1>3, <1>4

\* ++ comes to the next key, or to the end if there is none.
LEMMA AfterIsNext ==
  ASSUME NEW S \in SUBSET (Nat \ {0}), NEW u \in Nat
  PROVE  /\ After(S, u) \in S \cup {End}
         /\ \A v \in S : After(S, u) = End \/ v < After(S, u) => v <= u
<1> DEFINE T == {v \in S : v > u}
<1>1. After(S, u) = Least(T) /\ T \in SUBSET Nat
  BY DEF After
<1>2. CASE T = {}
  <2>1. Least(T) = End
    BY <1>2 DEF Least
  <2> QED
    BY <1>1, <1>2, <2>1
<1>3. CASE T # {}
  <2>1. PICK m \in T : m = After(S, u) /\ \A v \in T : m <= v
    <3> HIDE DEF T
    <3> QED
      BY <1>1, <1>3, LeastIsFirst
  <2>2. m \in S /\ m \in Nat
    BY <2>1
  <2>3. ASSUME NEW v \in S, After(S, u) = End \/ v < After(S, u) PROVE v <= u
    <3>1. v < m
      BY <2>1, <2>2, <2>3 DEF End
    <3>2. v \notin T
      <4> HIDE DEF T
      <4> QED
        BY <2>1, <2>2, <3>1
    <3> QED
      BY <3>2
  <2> QED
    BY <2>1, <2>2, <2>3
<1> QED
  BY <1>2, <1>3

\* ++ does not go back.
LEMMA AfterIsLater ==
  ASSUME NEW S \in SUBSET (Nat \ {0}), NEW u \in Nat
  PROVE  After(S, u) = End \/ After(S, u) > u
<1> DEFINE T == {v \in S : v > u}
<1>1. After(S, u) = Least(T) /\ T \in SUBSET Nat /\ \A v \in T : v > u
  BY DEF After
<1> HIDE DEF T
<1>2. CASE T = {}
  BY <1>1, <1>2 DEF Least
<1>3. CASE T # {}
  BY <1>1, <1>3, LeastIsFirst
<1> QED
  BY <1>2, <1>3

\* A key that is in the map and not after any other is the first.
LEMMA FirstIsLeast ==
  ASSUME NEW S \in SUBSET Nat, NEW u \in S, \A v \in S : u <= v
  PROVE  Least(S) = u
<1>1. PICK m \in S : m = Least(S) /\ m <= u
  BY LeastIsFirst
<1> QED
  BY <1>1

-----------------------------------------------------------------------------
(* The loop of the main dialog that erases a project and what is below it. *)

\* The key that begin() gives from the first erase on: the first of the map, or the
\* second if the first is erased.
Stays(S, M) == IF Least(S) \in M THEN Least(S \ {Least(S)}) ELSE Least(S)

\* In the middle of the loop over S, with the map T and the iterator at u: nothing is
\* erased but what is in M, and what is before the iterator is not in M, or is the key that
\* was passed over.
EraseInv(S, M, T, u) ==
  /\ T \subseteq S /\ S \ M \subseteq T
  /\ u \in T \cup {End}
  /\ \/ T = S /\ u = Least(S)
     \/ /\ Least(T) = Stays(S, M)
        /\ Stays(S, M) \in S => Stays(S, M) \in T
        /\ Stays(S, M) \in M => u = End \/ u > Stays(S, M)
        /\ \A v \in T : u = End \/ v < u => v = Stays(S, M) \/ v \notin M

\* A round of the loop keeps the invariant.
LEMMA RoundEraseInv ==
  ASSUME NEW S \in SUBSET (Nat \ {0}), NEW M \in SUBSET (Nat \ {0}), NEW T, NEW u, u # End,
         EraseInv(S, M, T, u)
  PROVE  EraseInv(S, M, MapAfterRound(T, u, M), IteratorAfterRound(T, u, M))
<1>1. /\ T \in SUBSET (Nat \ {0}) /\ u \in T /\ u \in Nat
      /\ Least(T) \in T /\ \A v \in T : Least(T) <= v
  BY LeastIsFirst DEF EraseInv
<1>2. PICK stays : stays = Stays(S, M)
  OBVIOUS
<1>3. CASE u \in M
  <2>1. PICK R \in SUBSET (Nat \ {0}) : R = T \ {u}
    BY <1>1
  <2>2. MapAfterRound(T, u, M) = R /\ IteratorAfterRound(T, u, M) = After(R, Least(R))
    BY <1>3, <2>1 DEF MapAfterRound, IteratorAfterRound
  <2>3. R \subseteq S /\ S \ M \subseteq R
    BY <1>3, <2>1 DEF EraseInv
  <2>4. Least(R) = stays /\ (stays \in S => stays \in R)
    <3>1. CASE T = S /\ u = Least(S)
      <4>1. stays = Least(R)
        BY <1>2, <1>3, <2>1, <3>1 DEF Stays
      <4>2. R # {} => Least(R) \in R
        BY <2>1, LeastIsFirst
      <4>3. R = {} => stays = End
        BY <4>1 DEF Least
      <4> QED
        BY <4>1, <4>2, <4>3 DEF End
    <3>2. CASE ~(T = S /\ u = Least(S))
      <4>1. /\ Least(T) = stays /\ (stays \in S => stays \in T)
            /\ stays \in M => u > stays
        BY <1>2, <3>2 DEF EraseInv
      <4>2. stays \in T /\ stays # u /\ \A v \in T : stays <= v
        BY <1>1, <1>3, <4>1
      <4> QED
        BY <2>1, <4>2, FirstIsLeast
    <3> QED
      BY <3>1, <3>2
  <2>5. stays \in Nat /\ (R # {} => stays \in R /\ \A v \in R : stays <= v)
    <3>1. R = {} => stays = End
      BY <2>4 DEF Least
    <3> QED
      BY <2>1, <2>4, <3>1, LeastIsFirst DEF End
  <2>6. PICK k : k = After(R, stays)
    OBVIOUS
  <2>7. /\ k \in R \cup {End} /\ (k = End \/ k > stays)
        /\ \A v \in R : k = End \/ v < k => v <= stays
    BY <2>5, <2>6, AfterIsNext, AfterIsLater
  <2>8. \A v \in R : k = End \/ v < k => v = stays
    BY <2>1, <2>5, <2>7
  <2> QED
    BY <1>2, <2>2, <2>3, <2>4, <2>6, <2>7, <2>8 DEF EraseInv
<1>4. CASE u \notin M
  <2>1. PICK k : k = After(T, u)
    OBVIOUS
  <2>2. MapAfterRound(T, u, M) = T /\ IteratorAfterRound(T, u, M) = k
    BY <1>4, <2>1 DEF MapAfterRound, IteratorAfterRound
  <2>3. /\ k \in T \cup {End} /\ (k = End \/ k > u)
        /\ \A v \in T : k = End \/ v < k => v <= u
    BY <1>1, <2>1, AfterIsNext, AfterIsLater
  <2>4. CASE T = S /\ u = Least(S)
    <3>1. stays = u
      BY <1>2, <1>4, <2>4 DEF Stays
    <3>2. \A v \in T : k = End \/ v < k => v = stays
      BY <1>1, <2>3, <2>4, <3>1
    <3> QED
      BY <1>2, <1>4, <2>2, <2>3, <2>4, <3>1, <3>2 DEF EraseInv
  <2>5. CASE ~(T = S /\ u = Least(S))
    <3>1. /\ Least(T) = stays /\ (stays \in S => stays \in T)
          /\ stays \in M => u > stays
          /\ \A v \in T : v < u => v = stays \/ v \notin M
      BY <1>2, <2>5 DEF EraseInv
    <3>2. \A v \in T : k = End \/ v < k => v = stays \/ v \notin M
      BY <1>1, <1>4, <2>3, <3>1
    <3>3. stays \in M => k = End \/ k > stays
      BY <1>1, <2>3, <3>1
    <3> QED
      BY <1>2, <2>2, <2>3, <3>1, <3>2, <3>3 DEF EraseInv
  <2> QED
    BY <2>4, <2>5
<1> QED
  BY <1>3, <1>4

\* Where the iterator is at the end, the map is what Erase says.
LEMMA EraseInvAtEnd ==
  ASSUME NEW S \in SUBSET (Nat \ {0}), NEW M \in SUBSET (Nat \ {0}), NEW T, EraseInv(S, M, T, End)
  PROVE  T = Erase(S, M)
<1>1. CASE T = S /\ End = Least(S)
  <2>1. S = {}
    BY <1>1, LeastIsFirst DEF End
  <2> QED
    BY <1>1, <2>1 DEF Erase
<1>2. CASE ~(T = S /\ End = Least(S))
  <2>1. /\ T \subseteq S /\ S \ M \subseteq T
        /\ Stays(S, M) \in S => Stays(S, M) \in T
        /\ \A v \in T : v = Stays(S, M) \/ v \notin M
    BY <1>2 DEF EraseInv
  <2>2. CASE Least(S) \in M
    BY <2>1, <2>2 DEF Erase, Stays
  <2>3. CASE Least(S) \notin M
    BY <2>1, <2>3 DEF Erase, Stays
  <2> QED
    BY <2>2, <2>3
<1> QED
  BY <1>1, <1>2

\* What RemoveProject does in one step is what the loop of the main dialog does in
\* any number of rounds, over any map and whatever it erases: map[i] and key[i] are the
\* map and the iterator after i rounds, and after n rounds the iterator is at the end.
THEOREM EraseLoopLeaves ==
  ASSUME NEW S \in SUBSET (Nat \ {0}), NEW M \in SUBSET (Nat \ {0}),
         NEW n \in Nat, NEW map, NEW key,
         map[0] = S, key[0] = Least(S),
         \A i \in 0..(n - 1) : /\ key[i] # End
                               /\ map[i + 1] = MapAfterRound(map[i], key[i], M)
                               /\ key[i + 1] = IteratorAfterRound(map[i], key[i], M),
         key[n] = End
  PROVE  map[n] = Erase(S, M)
<1> DEFINE Fails == {i \in 0..n : ~EraseInv(S, M, map[i], key[i])}
<1>1. EraseInv(S, M, map[0], key[0])
  <2>1. S # {} => Least(S) \in S
    BY LeastIsFirst
  <2>2. S = {} => Least(S) = End
    BY DEF Least
  <2> QED
    BY <2>1, <2>2 DEF EraseInv
<1>2. ASSUME NEW i \in 0..(n - 1), EraseInv(S, M, map[i], key[i])
      PROVE  EraseInv(S, M, map[i + 1], key[i + 1])
  BY <1>2, RoundEraseInv
<1>3. Fails = {}
  <2> SUFFICES ASSUME Fails # {} PROVE FALSE
    OBVIOUS
  <2>1. PICK m \in Fails : \A i \in Fails : m <= i
    <3>1. Fails \in SUBSET Nat
      OBVIOUS
    <3> HIDE DEF Fails
    <3> QED
      BY <3>1, LeastIsFirst
  <2>2. m \in 1..n
    BY <1>1
  <2>3. m - 1 \notin Fails /\ m - 1 \in 0..(n - 1) /\ (m - 1) + 1 = m
    <3>1. m - 1 < m
      BY <2>2
    <3> QED
      BY <2>1, <2>2, <3>1
  <2> QED
    BY <1>2, <2>2, <2>3
<1>4. EraseInv(S, M, map[n], End)
  BY <1>3
<1> QED
  BY <1>4, EraseInvAtEnd

-----------------------------------------------------------------------------
(* Types, of what the properties below speak of.                           *)

AtProject == {"stored", "popup", "errpopup", "page", "links", "newprojects"}

ListTypeInv ==
  /\ present \subseteq Project
  /\ parentpath \subseteq Parent
  /\ snapshot \subseteq Project
  /\ pc \in {"idle", "snapshot", "loop", "end"} \cup AtProject
  /\ it \in Project \cup {End}
  /\ pc = "links" => links \subseteq Project /\ it \in Parent

\* The projects are numbered, and what is in a list is a project.
LEMMA ProjectType ==
  /\ Project \subseteq Nat \ {0}
  /\ Parent \subseteq Project
  /\ \A u \in Parent : /\ Listed[u] \subseteq Project \ Parent
                       /\ \A v \in Listed[u] : v > u
BY ProjectListAssumption DEF ProjectListAssumption

\* What the loop of the main dialog leaves was there before.
LEMMA EraseShrinks ==
  ASSUME NEW S, NEW M
  PROVE  Erase(S, M) \subseteq S
BY DEF Erase

\* Steps that are not the monitor thread's leave its check alone.
LEMMA OthersFrame ==
  ASSUME Timer \/ MainDialog \/ MarkAllAsRead \/ Dispatch \/ Outside
  PROVE  /\ UNCHANGED <<snapshot, it, links, visited>>
         /\ pc' = pc \/ (pc = "idle" /\ pc' = "snapshot")
<1>1. CASE Timer
  BY <1>1 DEF Timer
<1>2. CASE MarkAllAsRead \/ Dispatch \/ Outside
  BY <1>2 DEF MarkAllAsRead, Dispatch, Outside, checkVars
<1>3. CASE MainDialog
  BY <1>3 DEF MainDialog, OpenDialog, CloseDialog, ReadCommits, AddProject, RemoveProject,
              SaveRemoved, TellRemoved, checkVars
<1> QED
  BY <1>1, <1>2, <1>3

\* The projects there are initially are projects.
LEMMA ListTypeInit == ProjectListInit => ListTypeInv
<1>1. ProjectListInit => present \subseteq Project
  BY ProjectType DEF ProjectListInit
<1> QED
  BY <1>1 DEF ProjectListInit, ListTypeInv, AtProject

\* Every step keeps the types; what is added by a page is a project.
LEMMA ListTypeNext ==
  ASSUME ListTypeInv, [ProjectListNext]_vars
  PROVE  ListTypeInv'
<1> USE DEF AtProject
<1>1. CASE Check
  <2>1. ASSUME NEW u \in Nat, it' = After(snapshot, u) PROVE it' \in Project \cup {End}
    <3>1. snapshot \in SUBSET (Nat \ {0}) /\ snapshot \subseteq Project
      BY ProjectType DEF ListTypeInv
    <3>2. After(snapshot, u) \in snapshot \cup {End}
      BY <3>1, AfterIsNext
    <3> QED
      BY <2>1, <3>1, <3>2
  <2>2. it \in Nat /\ (\A S \in SUBSET Project : Least(S) \in S \cup {End} /\ Least(S) \in Nat)
    <3>1. ASSUME NEW S \in SUBSET Project, S # {} PROVE Least(S) \in S /\ Least(S) \in Nat
      BY <3>1, ProjectType, LeastIsFirst
    <3>2. Least({}) = End
      BY DEF Least
    <3> QED
      BY <3>1, <3>2, ProjectType DEF ListTypeInv, End
  <2>3. CASE Snapshot
    BY <2>2, <2>3 DEF Snapshot, Goto, ListTypeInv, mapVars
  <2>4. CASE Visit \/ VisitFinds \/ VisitFails
    BY <2>1, <2>2, <2>4 DEF Visit, VisitFinds, VisitFails, Goto, NextFrom, ListTypeInv
  <2>5. CASE StillUnread \/ ErrPopup
    BY <2>5 DEF StillUnread, ErrPopup, Goto, ListTypeInv, mapVars
  <2>6. CASE NothingUnread \/ NoPage \/ CommitsPopup
    BY <2>1, <2>2, <2>6 DEF NothingUnread, NoPage, CommitsPopup, Goto, NextFrom, ListTypeInv, mapVars
  <2>7. CASE Page
    BY <2>7, ProjectType DEF Page, Goto, ListTypeInv, mapVars
  <2>8. CASE Link
    BY <2>8 DEF Link, Goto, ListTypeInv
  <2>9. CASE LinksDone
    BY <2>1, <2>2, <2>9 DEF LinksDone, Goto, NextFrom, ListTypeInv, mapVars
  <2>10. CASE NewProjectsPopup
    BY <2>1, <2>2, <2>10 DEF NewProjectsPopup, Restart, Goto, NextFrom, ListTypeInv, mapVars
  <2>11. CASE Finish \/ EndCheck
    BY <2>11 DEF Finish, EndCheck, Goto, ListTypeInv, mapVars
  <2> QED
    BY <1>1, <2>3, <2>4, <2>5, <2>6, <2>7, <2>8, <2>9, <2>10, <2>11 DEF Check
<1>2. CASE Timer \/ MainDialog \/ MarkAllAsRead \/ Dispatch \/ Outside
  <2>1. present' \subseteq Project /\ parentpath' \subseteq Parent
    <3>1. CASE Timer \/ MarkAllAsRead \/ Dispatch \/ Outside
      BY <3>1 DEF Timer, MarkAllAsRead, Dispatch, Outside, ListTypeInv, mapVars
    <3>2. ASSUME NEW u \in Project, AddProject(u)
          PROVE  present' \subseteq Project /\ parentpath' \subseteq Parent
      BY <3>2 DEF AddProject, ListTypeInv
    <3>3. ASSUME NEW u \in Project, RemoveProject(u)
          PROVE  present' \subseteq Project /\ parentpath' \subseteq Parent
      BY <3>3, EraseShrinks DEF RemoveProject, ListTypeInv
    <3>4. CASE OpenDialog \/ CloseDialog \/ ReadCommits \/ SaveRemoved \/ TellRemoved
      BY <3>4 DEF OpenDialog, CloseDialog, ReadCommits, SaveRemoved, TellRemoved, ListTypeInv, mapVars
    <3> QED
      BY <1>2, <3>1, <3>2, <3>3, <3>4 DEF MainDialog
  <2> QED
    BY <1>2, <2>1, OthersFrame DEF ListTypeInv
<1>3. CASE UNCHANGED vars
  BY <1>3 DEF vars, mapVars, checkVars, ListTypeInv
<1> QED
  BY <1>1, <1>2, <1>3 DEF ProjectListNext

\* The types of the projects and of the check hold in every state.
LEMMA AlwaysListTypeInv == ProjectListSpec => []ListTypeInv
BY ListTypeInit, ListTypeNext, PTL DEF ProjectListSpec

-----------------------------------------------------------------------------
(* The check comes to every project.                                       *)

\* What the iterator has passed was visited, also after it began again.
VisitInv ==
  /\ pc \in {"loop", "end"} \cup AtProject =>
       \A u \in snapshot : it = End \/ u < it => u \in visited
  /\ pc \in AtProject => it \in snapshot \cap visited
  /\ pc = "loop" => it \in snapshot \cup {End}
  /\ pc = "end" => it = End

\* The loop goes on to the next project when this one was visited.
LEMMA NextIsVisited ==
  ASSUME ListTypeInv, it \in snapshot, NextFrom(it),
         \A u \in snapshot : u < it \/ u = it => u \in visited'
  PROVE  /\ \A u \in snapshot : it' = End \/ u < it' => u \in visited'
         /\ it' \in snapshot \cup {End}
<1>1. snapshot \in SUBSET (Nat \ {0}) /\ it \in Nat
  BY ProjectType DEF ListTypeInv
<1>2. \A u \in snapshot : u <= it => u < it \/ u = it
  BY <1>1
<1> QED
  BY <1>1, <1>2, AfterIsNext DEF NextFrom

\* When it begins again it passes over the first project, which was visited.
LEMMA RestartIsVisited ==
  ASSUME ListTypeInv, it \in snapshot, Restart,
         \A u \in snapshot : u < it \/ u = it => u \in visited
  PROVE  /\ \A u \in snapshot : it' = End \/ u < it' => u \in visited
         /\ it' \in snapshot \cup {End}
<1>1. snapshot \in SUBSET (Nat \ {0}) /\ it \in Nat
  BY ProjectType DEF ListTypeInv
<1>2. PICK first \in snapshot : first = Least(snapshot) /\ first <= it
  BY <1>1, LeastIsFirst
<1>3. it' = After(snapshot, first) /\ first \in Nat
  BY <1>1, <1>2 DEF Restart, NextFrom
<1>4. \A u \in snapshot : u <= first => u < it \/ u = it
  BY <1>1, <1>2
<1> QED
  BY <1>1, <1>3, <1>4, AfterIsNext

\* Every step keeps the invariant: the iterator passes over nothing it has not visited.
LEMMA VisitNext ==
  ASSUME ListTypeInv, VisitInv, [ProjectListNext]_vars
  PROVE  VisitInv'
<1> USE DEF AtProject
<1>1. CASE Check
  <2>1. CASE Snapshot
    <3>1. snapshot' \in SUBSET (Nat \ {0}) /\ it' = Least(snapshot') /\ pc' = "loop"
      BY <2>1, ProjectType DEF Snapshot, Goto, ListTypeInv
    <3>2. CASE snapshot' = {}
      BY <3>1, <3>2 DEF VisitInv, Least
    <3>3. CASE snapshot' # {}
      <4>1. PICK S \in SUBSET (Nat \ {0}) : S = snapshot'
        BY <3>1
      <4>2. Least(S) \in S /\ \A u \in S : Least(S) <= u
        BY <3>3, <4>1, LeastIsFirst
      <4>3. PICK m \in S : m = it' /\ m \in Nat /\ m # End /\ \A u \in S : m <= u
        BY <3>1, <4>1, <4>2 DEF End
      <4>4. \A u \in S : ~(u < m)
        BY <4>1, <4>3
      <4> QED
        BY <3>1, <4>1, <4>3, <4>4 DEF VisitInv
    <3> QED
      BY <3>2, <3>3
  <2>2. CASE Visit
    <3>1. it \in snapshot /\ NextFrom(it) /\ visited' = visited \cup {it}
          /\ snapshot' = snapshot /\ pc = "loop" /\ pc' = "loop"
      BY <2>2 DEF Visit, Goto, VisitInv
    <3>2. \A u \in snapshot : u < it \/ u = it => u \in visited'
      BY <3>1 DEF VisitInv
    <3> QED
      BY <3>1, <3>2, NextIsVisited DEF VisitInv
  <2>3. CASE VisitFinds \/ VisitFails
    BY <2>3 DEF VisitFinds, VisitFails, Goto, VisitInv
  <2>4. CASE StillUnread \/ ErrPopup \/ Page \/ Link
    BY <2>4 DEF StillUnread, ErrPopup, Page, Link, Goto, VisitInv
  <2>5. CASE NothingUnread \/ NoPage \/ CommitsPopup \/ (LinksDone /\ pc' = "loop")
    <3>1. it \in snapshot /\ NextFrom(it) /\ visited' = visited
          /\ snapshot' = snapshot /\ pc \in AtProject /\ pc' = "loop"
      BY <2>5 DEF NothingUnread, NoPage, CommitsPopup, LinksDone, Goto, VisitInv
    <3>2. \A u \in snapshot : u < it \/ u = it => u \in visited'
      BY <3>1 DEF VisitInv
    <3> QED
      BY <3>1, <3>2, NextIsVisited DEF VisitInv
  <2>6. CASE LinksDone /\ pc' # "loop"
    BY <2>6 DEF LinksDone, Goto, VisitInv
  <2>7. CASE NewProjectsPopup
    <3>1. it \in snapshot /\ Restart /\ visited' = visited
          /\ snapshot' = snapshot /\ pc \in AtProject /\ pc' = "loop"
      BY <2>7 DEF NewProjectsPopup, Goto, VisitInv
    <3>2. \A u \in snapshot : u < it \/ u = it => u \in visited
      BY <3>1 DEF VisitInv
    <3> QED
      BY <3>1, <3>2, RestartIsVisited DEF VisitInv
  <2>8. CASE Finish \/ EndCheck
    BY <2>8 DEF Finish, EndCheck, Goto, VisitInv
  <2> QED
    BY <1>1, <2>1, <2>2, <2>3, <2>4, <2>5, <2>6, <2>7, <2>8 DEF Check
<1>2. CASE Timer \/ MainDialog \/ MarkAllAsRead \/ Dispatch \/ Outside
  BY <1>2, OthersFrame DEF VisitInv
<1>3. CASE UNCHANGED vars
  BY <1>3 DEF vars, checkVars, VisitInv
<1> QED
  BY <1>1, <1>2, <1>3 DEF ProjectListNext

\* A check comes to every project of its snapshot, however often the loop begins again
\* because a page named new projects, and whatever the user adds and removes meanwhile.
THEOREM ProjectListAllVisited == ProjectListSpec => []AllVisited
<1>1. ProjectListInit => VisitInv
  BY DEF ProjectListInit, VisitInv, AtProject
<1>2. VisitInv => AllVisited
  BY DEF VisitInv, AllVisited, AtProject
<1> QED
  BY AlwaysListTypeInv, VisitNext, <1>1, <1>2, PTL DEF ProjectListSpec

-----------------------------------------------------------------------------
(* What stays when a list is removed.                                      *)

\* Only the main dialog takes projects away.
LEMMA OnlyRemoval ==
  ASSUME [ProjectListNext]_vars, NEW u \in present \ present'
  PROVE  \E v \in Project : RemoveProject(v)
<1>1. ~(Check \/ UNCHANGED vars)
  BY DEF Check, Snapshot, Visit, VisitFinds, StillUnread, NothingUnread, VisitFails, ErrPopup,
         NoPage, Page, Link, LinksDone, NewProjectsPopup, CommitsPopup, Finish, EndCheck, mapVars, vars
<1>2. ~(Timer \/ MarkAllAsRead \/ Dispatch \/ Outside)
  BY DEF Timer, MarkAllAsRead, Dispatch, Outside, mapVars
<1>3. ~(OpenDialog \/ CloseDialog \/ ReadCommits \/ SaveRemoved \/ TellRemoved)
  BY DEF OpenDialog, CloseDialog, ReadCommits, SaveRemoved, TellRemoved, mapVars
<1>4. \A v \in Project : ~AddProject(v)
  BY DEF AddProject
<1> QED
  BY <1>1, <1>2, <1>3, <1>4 DEF ProjectListNext, MainDialog

\* What stays of the projects below the list u, in one removal: the second project there
\* is, if the list is the first and the second is below it, and else nothing.
Leaves(u) ==
  Listed[u] \cap present' = IF u = Least(present) THEN Listed[u] \cap {Least(present \ {u})} ELSE {}

\* The loop leaves that, whatever else there is.
LEMMA RemovalLeaves ==
  ASSUME ListTypeInv, NEW v \in Project, RemoveProject(v), NEW u \in present \ present',
         u \in parentpath
  PROVE  Leaves(u)
<1>1. present' = Erase(present, Below(v)) /\ u \in Below(v)
  BY DEF RemoveProject, Erase
<1>2. u = v
  BY <1>1, ProjectType DEF Below, ListTypeInv
<1>3. Below(v) = {u} \cup Listed[u] /\ u \notin Listed[u]
  BY <1>2, ProjectType DEF Below, ListTypeInv
<1>4. PICK first : first = Least(present)
  OBVIOUS
<1>5. present \in SUBSET (Nat \ {0}) /\ first \in present /\ \A w \in present : first <= w
  <2>1. present \in SUBSET (Nat \ {0}) /\ present # {}
    BY ProjectType DEF ListTypeInv
  <2> QED
    BY <1>4, <2>1, LeastIsFirst
<1>6. CASE first = u
  <2>1. PICK next : next = Least(present \ {u})
    OBVIOUS
  <2>2. present' = present \ (Below(v) \ {next})
    BY <1>1, <1>4, <1>6, <2>1 DEF Erase
  <2>3. next \in Listed[u] => next \in present
    <3>1. CASE present \ {u} = {}
      <4>1. next = End
        BY <2>1, <3>1 DEF Least
      <4>2. Listed[u] \subseteq Nat \ {0}
        BY ProjectType DEF ListTypeInv
      <4> QED
        BY <4>1, <4>2 DEF End
    <3>2. CASE present \ {u} # {}
      BY <1>5, <2>1, <3>2, LeastIsFirst
    <3> QED
      BY <3>1, <3>2
  <2>4. Listed[u] \cap present' = Listed[u] \cap {next}
    BY <1>3, <2>2, <2>3
  <2> QED
    BY <1>4, <1>6, <2>1, <2>4 DEF Leaves
<1>7. CASE first # u
  <2>1. first \notin Listed[u]
    <3>1. u \in Nat /\ \A w \in Listed[u] : w > u
      BY ProjectType DEF ListTypeInv
    <3>2. first \in Nat /\ first <= u
      BY <1>5
    <3> QED
      BY <3>1, <3>2
  <2>2. present' = present \ Below(v)
    BY <1>1, <1>3, <1>4, <1>7, <2>1 DEF Erase
  <2>3. Listed[u] \cap present' = {}
    BY <1>3, <2>2
  <2> QED
    BY <1>4, <1>7, <2>3 DEF Leaves
<1> QED
  BY <1>6, <1>7

\* What is left below a list that was removed, for any lists and any other projects: "we
\* also have to remove all sub-projects as well" (MainDlg.cpp, removal of a project) holds
\* but for one project.  If the list is the first project there is, the loop that restarts
\* at begin() passes over the second, which stays if it is below the list.  Nobody else
\* takes a list away.
THEOREM ProjectListRemovalLeaves ==
  ProjectListSpec => [][\A u \in present \ present' : u \in parentpath => Leaves(u)]_present
<1>1. ListTypeInv /\ [ProjectListNext]_vars
        => [\A u \in present \ present' : u \in parentpath => Leaves(u)]_present
  BY OnlyRemoval, RemovalLeaves
<1> QED
  BY AlwaysListTypeInv, <1>1, PTL DEF ProjectListSpec

-----------------------------------------------------------------------------
(* The icon and the popups.                                                *)

\* A step of the projects is one of Notification, apart from counting what the user does.
LEMMA NotificationSteps ==
  ASSUME [ProjectListNext]_vars
  PROVE  [NotificationNext]_notificationVars \/ UNCHANGED <<iconVars, popupVars, taskbar>>
<1>1. CASE Timer
  <2>1. CASE ResetIcon /\ ShowTrayIcon(FALSE)
    <3>1. IconMessage(FALSE)
      BY <1>1, <2>1 DEF Timer, IconMessage
    <3> QED
      BY <3>1 DEF NotificationNext
  <2>2. CASE UNCHANGED <<hIcon, animate, tray>>
    BY <1>1, <2>2 DEF Timer, iconVars, shellVars
  <2> QED
    BY <1>1, <2>1, <2>2 DEF Timer, ResetIcon
<1>2. CASE PopupMessage \/ IconMessage(FALSE) \/ UNCHANGED notificationVars
  BY <1>2 DEF NotificationNext
<1>3. CASE Check
  BY <1>2, <1>3 DEF Check, Snapshot, Visit, VisitFinds, StillUnread, NothingUnread, VisitFails, ErrPopup,
              NoPage, Page, Link, LinksDone, NewProjectsPopup, CommitsPopup, Finish, EndCheck
<1>4. CASE Dispatch \/ Outside
  BY <1>4 DEF Dispatch, Outside, NotificationNext, NotificationStep
<1>5. CASE CloseDialog \/ ReadCommits \/ SaveRemoved \/ TellRemoved \/ MarkAllAsRead
  BY <1>2, <1>5 DEF CloseDialog, ReadCommits, SaveRemoved, TellRemoved, MarkAllAsRead
<1>6. CASE OpenDialog \/ \E u \in Project : AddProject(u) \/ RemoveProject(u)
  BY <1>6 DEF OpenDialog, AddProject, RemoveProject
<1>7. CASE UNCHANGED vars
  BY <1>2, <1>7 DEF vars
<1> QED
  BY <1>1, <1>3, <1>4, <1>5, <1>6, <1>7 DEF ProjectListNext, MainDialog

\* What Notification promises holds while projects are checked, added and removed: the
\* icon is animated only while it is red, it is there whenever there is a taskbar, and no
\* two popups are at the same place.
THEOREM ProjectListNotifies ==
  ProjectListSpec => [](AnimationIsRed /\ TrayIconIsThere /\ SlotsAreApart)
<1>1. ProjectListInit => IconInv /\ SlotsInv
  <2>1. NotificationInit => SlotsInv
    BY DEF NotificationInit, SlotsInv, SlotsAreApart
  <2> QED
    BY <2>1, IconInvInit DEF ProjectListInit
<1>2. IconInv /\ SlotsInv /\ [ProjectListNext]_vars => IconInv' /\ SlotsInv'
  <2>1. IconInv /\ UNCHANGED <<iconVars, taskbar>> => IconInv'
    BY DEF IconInv, IconTypeOK, AnimationIsRed, TrayIconIsThere, iconVars
  <2>2. SlotsInv /\ UNCHANGED popupVars => SlotsInv'
    BY DEF SlotsInv, SlotsAreApart, popupVars
  <2> QED
    BY <2>1, <2>2, NotificationSteps, IconInvNext, SlotsInvNext
<1>3. IconInv /\ SlotsInv => AnimationIsRed /\ TrayIconIsThere /\ SlotsAreApart
  BY DEF IconInv, SlotsInv
<1> QED
  BY <1>1, <1>2, <1>3, PTL DEF ProjectListSpec
=============================================================================
