--------------------------- MODULE Commits_proofs ---------------------------
(***************************************************************************)
(* What the monitor thread counts as checked it has fetched: the invariants*)
(* behind NoCommitSkipped and HashIsFetched, for any number of projects and*)
(* commits.                                                                *)
(***************************************************************************)
EXTENDS Monitor_proofs

Svn == Url \ GitUrl

-----------------------------------------------------------------------------
(* The assumptions.  Without any one of them NoCommitSkipped does not hold.*)

\* No more than one monitor thread at a time.
OneThread == \E w \in Worker : Worker = {w}

\* Every check but the first of a project goes on from an earlier one.
GoesOn == OneThread /\ "refreshall" \notin UiOps

\* A check that began before the first check of its project was complete, or after a
\* refresh that went back to 0, gets no more than the NumLogs newest commits: those are
\* all that were made since that first check.
LogsSuffice ==
  \A w \in Worker :
    pc[w] = "checked" /\ cur[w] \in Svn /\ since[cur[w]] # 0 /\ Seen(w).lastcheckedrev = 0 =>
      headrev[w] <= since[cur[w]] + NumLogs

\* The user neither edits a project, nor fetches older commits or discards some; and
\* nothing is removed and added again while two threads are at it.
Undisturbed ==
  /\ UiOps \cap {"edit", "fetchnext", "discard"} = {}
  /\ OneThread \/ UiOps \cap {"add", "remove"} = {}

-----------------------------------------------------------------------------
(* The invariant behind NoCommitSkipped.                                   *)

Held(u, r) == r \in infos[u].log \/ IsTrimmed(u, infos[u], r)

Kept(u, r) == Held(u, r) \/ Pending(u, r)

Covered(u, n) == since[u] # 0 => \A r \in (since[u] + 1)..n : Kept(u, r)

\* A project may count as checked up to n.
Reached(u, n) ==
  /\ Covered(u, n)
  /\ GoesOn /\ since[u] # 0 => n # 0
  /\ ~OneThread /\ since[u] = 0 => n = 0

\* A project: besides, its entries are covered, because RefreshAll goes back to one of
\* them, and the commits are stored one after the other.
ProjectInv(u) ==
  /\ since[u] # 0 => u \in present
  /\ infos[u].startfromrev = 0
  /\ infos[u].log \subseteq 1..head[u]
  /\ Reached(u, infos[u].lastcheckedrev)
  /\ \A r \in infos[u].log : Covered(u, r)
  /\ ~OneThread /\ since[u] = 0 => infos[u].log = {}
  /\ ~OneThread => u \in present

\* The projects a thread is still to ask for, and the one it asked for.
Ahead(w) ==
  todo[w] \cup IF pc[w] \in {"filter", "due", "query", "getlog", "checked"} THEN {cur[w]} ELSE {}

\* The copy of the thread is as good as the project itself.
CopyInv(w) ==
  /\ \A u \in Svn : copy[w][u].startfromrev = 0
  /\ \A u \in Ahead(w) \cap Svn : Reached(u, copy[w][u].lastcheckedrev)

\* The thread knows that there is something new.
QueriedInv(w) ==
  pc[w] \in {"getlog", "checked"} /\ cur[w] \in Svn =>
    /\ headrev[w] <= head[cur[w]]
    /\ copy[w][cur[w]].lastcheckedrev < headrev[w]
    /\ OneThread => infos[cur[w]].log \subseteq 1..headrev[w]

\* The thread has fetched what follows the revision it saw.
FetchedInv(w) ==
  pc[w] = "checked" /\ cur[w] \in Svn =>
    /\ logs[w] \subseteq 1..headrev[w]
    /\ \A r \in 1..headrev[w] :
         /\ copy[w][cur[w]].lastcheckedrev < r
         /\ copy[w][cur[w]].lastcheckedrev # 0 \/ headrev[w] - r < NumLogs
         => r \in logs[w]

\* The thread stores what it has fetched.
StoringInv(w) ==
  pc[w] = "store" /\ cur[w] \in Svn =>
    /\ logs[w] \subseteq 1..headrev[w]
    /\ headrev[w] <= head[cur[w]]
    /\ Covered(cur[w], headrev[w])
    /\ ~OneThread => since[cur[w]] # 0

ThreadInv(w) ==
  /\ CopyInv(w)
  /\ pc[w] \in {"hash", "gitstore"} => cur[w] \in GitUrl
  /\ QueriedInv(w)
  /\ FetchedInv(w)
  /\ StoringInv(w)

\* The dialogs that could disturb this are not open.
UiInv ==
  /\ edit = NoEdit
  /\ ui.op \in {"none", "timer", "getall", "reset", "scan", "save", "forcesave"} \cup UiOps
  /\ confirm # NoUrl => "remove" \in UiOps

SkipInv ==
  /\ UiInv
  /\ \A u \in Svn : ProjectInv(u)
  /\ \A w \in Worker : ThreadInv(w)

-----------------------------------------------------------------------------
(* What a step may do to a project and to the threads that do not take it. *)

\* Progress stays what it is, nothing that is kept gets lost ...
Stays(u) ==
  /\ since'[u] = since[u]
  /\ since[u] # 0 => \A r \in Rev : Kept(u, r) => Kept(u, r)'

\* ... or the project is one that was never checked.
Begins(u) ==
  /\ since'[u] = 0
  /\ infos'[u].log = {}
  /\ infos'[u].lastcheckedrev = 0
  /\ infos'[u].startfromrev = 0

\* For a thread that does not take the step: a check of the project is not its own.
Passes(u) ==
  \/ Stays(u)
  \/ Begins(u) /\ OneThread
  \/ since[u] = 0 /\ ~OneThread

\* Two of the assumptions on the constants.
LEMMA MaxRevType == MaxRev \in Nat
BY UrlInfosAssumption DEF UrlInfosAssumption

LEMMA NumLogsType == NumLogs \in Nat
BY UrlInfosAssumption DEF UrlInfosAssumption

\* What is covered stays covered, up to any revision.
LEMMA CoveredStays ==
  ASSUME TypeOK, NEW u \in Svn, Stays(u), NEW n \in Rev0, Covered(u, n)
  PROVE  since'[u] # 0 => \A r \in (since'[u] + 1)..n : Kept(u, r)'
<1>1. since[u] \in Nat /\ n \in 0..MaxRev /\ MaxRev \in Nat /\ since'[u] = since[u]
  BY MaxRevType DEF TypeOK, Rev0, Svn, Stays
<1>2. \A r \in (since[u] + 1)..n : r \in Rev
  BY <1>1 DEF Rev
<1> QED
  BY <1>1, <1>2 DEF Covered, Stays

\* As far as a project may count as checked it may after the step of another thread.
LEMMA ReachedPasses ==
  ASSUME TypeOK, TypeOK', Undisturbed, NEW u \in Svn, Passes(u), NEW n \in Rev0, Reached(u, n)
  PROVE  Reached(u, n)'
<1>0. since'[u] \in Nat
  BY MaxRevType DEF TypeOK, Rev0, Svn
<1>1. CASE Stays(u)
  <2>1. Covered(u, n)'
    BY <1>1, CoveredStays DEF Covered, Reached
  <2> QED
    BY <1>1, <2>1 DEF Reached, Stays
<1>2. CASE Begins(u) /\ OneThread
  BY <1>2 DEF Begins, Reached, Covered
<1>3. CASE since[u] = 0 /\ ~OneThread
  <2>1. n = 0 /\ ~GoesOn
    BY <1>3 DEF Reached, GoesOn
  <2>2. \A r : r \notin (since'[u] + 1)..0
    BY <1>0
  <2>3. Covered(u, n)'
    BY <2>1, <2>2 DEF Covered
  <2> QED
    BY <2>1, <2>3 DEF Reached
<1> QED
  BY <1>1, <1>2, <1>3 DEF Passes

\* So the copies of the threads that do not take the step stay as good as they are.
LEMMA CopyPasses ==
  ASSUME TypeOK, TypeOK', Undisturbed, NEW v \in Worker, CopyInv(v), copy'[v] = copy[v],
         Ahead(v)' \cap Svn \subseteq Ahead(v), \A u \in Ahead(v)' \cap Svn : Passes(u)
  PROVE  CopyInv(v)'
<1>1. \A u \in Svn : copy'[v][u].startfromrev = 0
  BY DEF CopyInv
<1>2. ASSUME NEW u \in Ahead(v)' \cap Svn PROVE Reached(u, copy[v][u].lastcheckedrev)'
  <2>1. Reached(u, copy[v][u].lastcheckedrev)
    BY <1>2 DEF CopyInv
  <2>2. ASSUME NEW n \in Rev0, Reached(u, n) PROVE Reached(u, n)'
    BY <1>2, <2>2, ReachedPasses
  <2>3. PICK n \in Rev0 : n = copy[v][u].lastcheckedrev
    BY <1>2 DEF TypeOK, Svn, Info
  <2>4. Reached(u, n)'
    BY <2>1, <2>2, <2>3
  <2> QED
    BY <2>3, <2>4 DEF Reached, Covered
<1> QED
  BY <1>1, <1>2 DEF CopyInv

\* A thread that does not take the step finds everything as good as it was.
LEMMA ThreadStays ==
  ASSUME TypeOK, TypeOK', AtProject, Undisturbed, NEW v \in Worker, ThreadInv(v),
         pc'[v] = pc[v] \/ {pc[v], pc'[v]} \subseteq {"idle", "created"},
         copy'[v] = copy[v], todo'[v] = todo[v], cur'[v] = cur[v],
         headrev'[v] = headrev[v], logs'[v] = logs[v],
         \A u \in Svn : head'[u] >= head[u] /\ Passes(u),
         OneThread => \A u \in Svn : infos'[u].log \subseteq infos[u].log
  PROVE  ThreadInv(v)'
<1>m. MaxRev \in Nat
  BY MaxRevType
<1>t. /\ \A u \in Svn : u \in Url /\ copy[v][u].lastcheckedrev \in Rev0
                        /\ head[u] \in Nat /\ head'[u] \in Nat
      /\ headrev[v] \in Rev0 /\ headrev[v] \in Nat /\ logs[v] \in SUBSET Rev
      /\ 0 \in Rev0
  <2>1. \A u \in Svn : u \in Url /\ head[u] \in Rev /\ head'[u] \in Rev /\ copy[v][u] \in Info
    BY DEF TypeOK, Svn
  <2>2. headrev[v] \in Rev0 /\ logs[v] \in SUBSET Rev
    BY DEF TypeOK
  <2>3. \A info \in Info : info.lastcheckedrev \in Rev0
    BY DEF Info
  <2> QED
    BY <1>m, <2>1, <2>2, <2>3 DEF Rev, Rev0
<1>1. CopyInv(v)'
  <2>1. Ahead(v)' = Ahead(v)
    BY DEF Ahead
  <2> QED
    BY <2>1, CopyPasses DEF ThreadInv
<1>3. CASE pc'[v] # pc[v]
  BY <1>1, <1>3 DEF ThreadInv, QueriedInv, FetchedInv, StoringInv
<1>4. CASE pc'[v] = pc[v]
  <2>1. pc'[v] \in {"hash", "gitstore"} => cur'[v] \in GitUrl
    BY <1>4 DEF ThreadInv
  <2>2. QueriedInv(v)'
    <3> SUFFICES ASSUME pc[v] \in {"getlog", "checked"}, cur[v] \in Svn
                 PROVE  /\ headrev[v] <= head'[cur[v]]
                        /\ copy[v][cur[v]].lastcheckedrev < headrev[v]
                        /\ OneThread => infos'[cur[v]].log \subseteq 1..headrev[v]
      BY <1>4 DEF QueriedInv
    <3>1. /\ headrev[v] <= head[cur[v]]
          /\ copy[v][cur[v]].lastcheckedrev < headrev[v]
          /\ OneThread => infos[cur[v]].log \subseteq 1..headrev[v]
      BY DEF ThreadInv, QueriedInv
    <3>2. headrev[v] <= head'[cur[v]]
      BY <1>t, <3>1
    <3>3. OneThread => infos'[cur[v]].log \subseteq 1..headrev[v]
      BY <3>1 DEF Passes, Begins
    <3> QED
      BY <3>1, <3>2, <3>3
  <2>3. FetchedInv(v)'
    BY <1>4 DEF ThreadInv, FetchedInv
  <2>4. StoringInv(v)'
    <3> SUFFICES ASSUME pc[v] = "store", cur[v] \in Svn
                 PROVE  /\ logs[v] \subseteq 1..headrev[v]
                        /\ headrev[v] <= head'[cur[v]]
                        /\ Covered(cur[v], headrev[v])'
                        /\ ~OneThread => since'[cur[v]] # 0
      BY <1>4 DEF StoringInv
    <3>1. /\ logs[v] \subseteq 1..headrev[v]
          /\ headrev[v] <= head[cur[v]]
          /\ Covered(cur[v], headrev[v])
          /\ ~OneThread => since[cur[v]] # 0
      BY DEF ThreadInv, StoringInv
    <3>2. headrev[v] <= head'[cur[v]]
      BY <1>t, <3>1
    <3>3. CASE Stays(cur[v])
      BY <1>t, <3>1, <3>2, <3>3, CoveredStays DEF Covered, Stays
    <3>4. CASE Begins(cur[v]) /\ OneThread
      BY <3>1, <3>2, <3>4 DEF Covered, Begins
    <3> QED
      BY <3>1, <3>3, <3>4 DEF Passes
  <2> QED
    BY <1>1, <2>1, <2>2, <2>3, <2>4 DEF ThreadInv
<1> QED
  BY <1>3, <1>4

\* A project of which nothing gets lost, and to which nothing is added.
LEMMA ProjectStays ==
  ASSUME TypeOK, TypeOK', NEW u \in Svn, ProjectInv(u), head'[u] >= head[u], Stays(u),
         u \in present => u \in present',
         infos'[u].lastcheckedrev = infos[u].lastcheckedrev,
         infos'[u].startfromrev = infos[u].startfromrev,
         infos'[u].log \subseteq infos[u].log
  PROVE  ProjectInv(u)'
<1>t. /\ head[u] \in Nat /\ head'[u] \in Nat
      /\ infos[u].lastcheckedrev \in Rev0 /\ infos[u].log \in SUBSET Rev /\ Rev \subseteq Rev0
  <2>1. head[u] \in Rev /\ head'[u] \in Rev /\ infos[u] \in Info
    BY DEF TypeOK, Svn
  <2>2. infos[u].lastcheckedrev \in Rev0 /\ infos[u].log \in SUBSET Rev
    BY <2>1 DEF Info
  <2> QED
    BY <2>1, <2>2, MaxRevType DEF Rev, Rev0
<1>1. infos'[u].log \subseteq 1..head'[u]
  BY <1>t DEF ProjectInv
<1>2. ASSUME NEW n \in Rev0, Covered(u, n) PROVE Covered(u, n)'
  BY <1>2, CoveredStays DEF Covered
<1>3. Reached(u, infos[u].lastcheckedrev)'
  <2>1. Reached(u, infos[u].lastcheckedrev)
    BY DEF ProjectInv
  <2>2. PICK n \in Rev0 : n = infos[u].lastcheckedrev
    BY <1>t
  <2>3. Covered(u, n)'
    BY <1>2, <2>1, <2>2 DEF Reached
  <2> QED
    BY <2>1, <2>2, <2>3 DEF Reached, Covered, Stays
<1>4. \A r \in infos'[u].log : Covered(u, r)'
  BY <1>t, <1>2 DEF ProjectInv
<1>5. infos'[u].startfromrev = 0
  BY DEF ProjectInv
<1>6. since'[u] # 0 => u \in present'
  BY DEF ProjectInv, Stays
<1>7. ~OneThread /\ since'[u] = 0 => infos'[u].log = {}
  BY DEF ProjectInv, Stays
<1>8. ~OneThread => u \in present'
  BY DEF ProjectInv
<1> QED
  BY <1>1, <1>3, <1>4, <1>5, <1>6, <1>7, <1>8 DEF ProjectInv

\* A project that was never checked has nothing to lose.
LEMMA ProjectBegins ==
  ASSUME TypeOK, NEW u \in Svn, Begins(u), OneThread
  PROVE  ProjectInv(u)'
BY DEF ProjectInv, Begins, Reached, Covered

-----------------------------------------------------------------------------
(* Steps of the user-interface thread.                                     *)

\* Progress and entries of a project are left alone.
Aside(u) ==
  /\ since'[u] = since[u]
  /\ u \in present => u \in present'
  /\ infos'[u].lastcheckedrev = infos[u].lastcheckedrev
  /\ infos'[u].startfromrev = infos[u].startfromrev
  /\ infos'[u].log = infos[u].log

\* What is held is held as long as entries are only added.
LEMMA HeldStays ==
  ASSUME NEW u, infos'[u].log \in SUBSET Rev, infos[u].log \subseteq infos'[u].log,
         NEW r \in Rev, Held(u, r)
  PROVE  Held(u, r)'
<1>1. CASE r \in infos[u].log
  BY <1>1 DEF Held
<1>2. CASE IsTrimmed(u, infos[u], r)
  <2>1. IsTrimmed(u, infos'[u], r)
    <3>1. ASSUME NEW old, NEW new, new.log \in SUBSET Rev, old.log \subseteq new.log,
                 IsTrimmed(u, old, r)
          PROVE  IsTrimmed(u, new, r)
      BY <3>1, MoreEntriesTrimmed
    <3> QED
      BY <1>2, <3>1
  <2> QED
    BY <2>1 DEF Held
<1> QED
  BY <1>1, <1>2 DEF Held

\* A thread that is about to store commits stays so while others take steps.
LEMMA PendingStays ==
  ASSUME \A v \in Worker : /\ pc[v] = "store" => pc'[v] = "store"
                           /\ pc[v] = "store" => cur'[v] = cur[v] /\ logs'[v] = logs[v],
         NEW u, NEW r, Pending(u, r)
  PROVE  Pending(u, r)'
BY DEF Pending, At

\* A project whose progress and entries a step leaves alone keeps what it has.
LEMMA AsideStays ==
  ASSUME TypeOK', NEW u \in Svn, Aside(u), \A r : Pending(u, r) => Pending(u, r)'
  PROVE  Stays(u)
<1>1. infos'[u].log \in SUBSET Rev
  BY DEF TypeOK, Svn, Info
<1>2. ASSUME NEW r \in Rev, Kept(u, r) PROVE Kept(u, r)'
  BY <1>1, <1>2, HeldStays DEF Kept, Aside
<1> QED
  BY <1>2 DEF Stays, Aside

\* Such a step keeps the invariant of the project, and disturbs no thread.
LEMMA AsideKeeps ==
  ASSUME TypeOK, TypeOK', NEW u \in Svn, ProjectInv(u), head'[u] >= head[u],
         Aside(u), \A r : Pending(u, r) => Pending(u, r)'
  PROVE  ProjectInv(u)' /\ Passes(u) /\ infos'[u].log \subseteq infos[u].log
<1>1. Stays(u)
  BY AsideStays
<1>2. infos'[u].log \subseteq infos[u].log
  BY DEF Aside
<1> QED
  BY <1>1, <1>2, ProjectStays DEF Aside, Passes

\* RefreshAll goes back to the revision before an entry: up to there all is kept.
LEMMA RefreshReaches ==
  ASSUME TypeOK, NEW u \in Svn, ProjectInv(u), ~GoesOn
  PROVE  Reached(u, RevToRefreshFrom(infos[u]))
<1> DEFINE rev == RevToRefreshFrom(infos[u])
<1>1. since[u] \in Nat /\ infos[u].log \in SUBSET Rev /\ MaxRev \in Nat
  <2>1. since[u] \in Rev0 /\ infos[u] \in Info
    BY DEF TypeOK, Svn
  <2> QED
    BY <2>1, MaxRevType DEF Info, Rev0
<1>2. CASE infos[u].log = {}
  <2>1. rev = 0
    BY <1>2 DEF RevToRefreshFrom
  <2>2. \A r : r \notin (since[u] + 1)..0
    BY <1>1
  <2>3. Reached(u, 0)
    BY <2>2 DEF Reached, Covered
  <2> QED
    BY <2>1, <2>3
<1>3. CASE infos[u].log # {}
  <2>1. PICK k \in infos[u].log : rev = k - 1
    BY <1>1, <1>3, FirstKeyType DEF RevToRefreshFrom
  <2>2. k \in Nat
    BY <1>1, <2>1 DEF Rev
  <2>3. Covered(u, k)
    BY <2>1 DEF ProjectInv
  <2>4. \A r \in (since[u] + 1)..(k - 1) : r \in (since[u] + 1)..k
    BY <1>1, <2>2
  <2>5. Covered(u, k - 1)
    BY <2>3, <2>4 DEF Covered
  <2>6. ~(~OneThread /\ since[u] = 0)
    BY <1>3 DEF ProjectInv
  <2> HIDE DEF rev
  <2>7. Reached(u, rev)
    BY <2>1, <2>5, <2>6 DEF Reached
  <2> QED
    BY <2>7 DEF rev
<1> QED
  BY <1>2, <1>3

\* The user never gets at what would disturb the monitor.
LEMMA UserUiInv ==
  ASSUME Undisturbed, UiInv, UserInterface
  PROVE  /\ UiInv'
         /\ ~Discard /\ ~FetchNext /\ ~OpenEdit /\ ~StoreEdit /\ ~EditOk /\ ~EditCancel
         /\ AddProject \/ Remove => OneThread
         /\ RefreshAll => ~GoesOn
<1>1. UiOps \cap {"edit", "fetchnext", "discard"} = {} /\ "editok" \notin UiOps
  BY MonitorAssumption DEF MonitorAssumption, AllUiOps, Undisturbed
<1>2. /\ ~Discard /\ ~FetchNext /\ ~OpenEdit /\ ~StoreEdit /\ ~EditOk /\ ~EditCancel
  BY <1>1 DEF UiInv, Discard, FetchNext, OpenEdit, StoreEdit, EditOk, EditCancel, Doing
<1>3. /\ AddProject \/ Remove => OneThread
      /\ RefreshAll => ~GoesOn
  BY DEF UiInv, Undisturbed, AddProject, Remove, RefreshAll, Doing, GoesOn
<1>4. UiInv'
  <2> USE DEF UiInv, Change, Replace, UiGoto, Doing
  <2>1. CASE GetAll
    BY <2>1 DEF GetAll
  <2>2. CASE Reset
    BY <2>2 DEF Reset
  <2>3. CASE Scan
    BY <2>3 DEF Scan
  <2>4. CASE Save
    BY <2>4 DEF Save
  <2>5. CASE CheckNow
    BY <2>5 DEF CheckNow
  <2>6. CASE MarkAllAsRead
    BY <2>6 DEF MarkAllAsRead
  <2>7. CASE Select
    BY <2>7 DEF Select
  <2>8. CASE MarkAsUnread
    BY <2>8 DEF MarkAsUnread
  <2>9. CASE SelectNothing
    BY <2>9 DEF SelectNothing
  <2>10. CASE ClearError
    BY <2>10 DEF ClearError
  <2>11. CASE ToggleActive
    BY <2>11 DEF ToggleActive
  <2>12. CASE RefreshAll
    BY <2>12 DEF RefreshAll
  <2>13. CASE AddProject
    BY <2>13 DEF AddProject
  <2>14. CASE AskRemove
    BY <2>14 DEF AskRemove
  <2>15. CASE Remove
    BY <2>15 DEF Remove
  <2>16. CASE KeepProject
    BY <2>16 DEF KeepProject
  <2>17. CASE Timer
    BY <2>17 DEF Timer
  <2>18. CASE SaveInfo
    BY <2>18 DEF SaveInfo
  <2>19. ASSUME NEW op \in UiOps, NEW u \in Url \cup {NoUrl}, Want(op, u) PROVE UiInv'
    BY <2>19 DEF Want
  <2> QED
    BY <1>2, <2>1, <2>2, <2>3, <2>4, <2>5, <2>6, <2>7, <2>8, <2>9, <2>10, <2>11, <2>12, <2>13, <2>14, <2>15, <2>16, <2>17, <2>18, <2>19 DEF UserInterface, Handle, Answer
<1> QED
  BY <1>2, <1>3, <1>4

\* A step of the user-interface thread, or of the world: it leaves what the monitor
\* threads hold alone.
LEMMA OutsideSkipInv ==
  ASSUME TypeOK, TypeOK', AtProject, Undisturbed, SkipInv, UiInv',
         UNCHANGED <<iterVars, resultVars>>,
         \A v \in Worker : pc'[v] = pc[v] \/ {pc[v], pc'[v]} \subseteq {"idle", "created"},
         \A u \in Svn : head'[u] >= head[u],
         \A u \in Svn : \/ Aside(u)
                        \/ ProjectInv(u)' /\ Passes(u) /\ infos'[u].log \subseteq infos[u].log
  PROVE  SkipInv'
<1>1. \A v \in Worker : /\ pc[v] = "store" => pc'[v] = "store"
                        /\ cur'[v] = cur[v] /\ logs'[v] = logs[v]
  BY DEF iterVars, resultVars
<1>2. \A u, r : Pending(u, r) => Pending(u, r)'
  BY <1>1, PendingStays
<1>3. \A u \in Svn : ProjectInv(u)' /\ Passes(u) /\ infos'[u].log \subseteq infos[u].log
  BY <1>2, AsideKeeps DEF SkipInv
<1>4. \A v \in Worker : ThreadInv(v)'
  BY <1>3, ThreadStays DEF SkipInv, iterVars, resultVars
<1> QED
  BY <1>3, <1>4 DEF SkipInv

\* Save erases entries of which enough others are left.
LEMMA TrimSkips ==
  ASSUME TypeOK, TypeOK', NEW u \in Svn, ProjectInv(u), head'[u] >= head[u],
         infos' = TrimAll(infos), UNCHANGED <<present, since>>,
         \A r : Pending(u, r) => Pending(u, r)'
  PROVE  ProjectInv(u)' /\ Passes(u) /\ infos'[u].log \subseteq infos[u].log
<1>1. infos[u] \in Info /\ infos'[u] = Trimmed(u, infos[u])
  BY DEF TypeOK, Svn, TrimAll
<1>2. \A r \in Rev : Held(u, r) => Held(u, r)'
  BY <1>1, TrimKeeps DEF Held
<1>3. Stays(u)
  BY <1>2 DEF Stays, Kept
<1>4. /\ infos'[u].lastcheckedrev = infos[u].lastcheckedrev
      /\ infos'[u].startfromrev = infos[u].startfromrev
      /\ infos'[u].log \subseteq infos[u].log
  BY <1>1 DEF Trimmed, Info
<1> QED
  BY <1>3, <1>4, ProjectStays DEF Passes

\* What the main dialog writes into a project is aside.
LEMMA ChangeAside ==
  ASSUME TypeOK, NEW info, NEW next, Change(info, next),
         ui.url \in Svn => /\ info.lastcheckedrev = Mine.lastcheckedrev
                           /\ info.startfromrev = Mine.startfromrev
                           /\ info.log = Mine.log
  PROVE  \A u \in Svn : Aside(u)
<1> SUFFICES ASSUME NEW u \in Svn PROVE Aside(u)
  OBVIOUS
<1>1. CASE ui.url = u
  BY <1>1 DEF TypeOK, Svn, Change, Mine, Aside
<1>2. CASE ui.url # u
  BY <1>2 DEF TypeOK, Svn, Change, Mine, Aside
<1> QED
  BY <1>1, <1>2

\* Most operations of the user are.
LEMMA UserAside ==
  ASSUME TypeOK, UserInterface,
         ~Save, ~AddProject, ~Remove, ~RefreshAll, ~Discard, ~FetchNext, ~StoreEdit
  PROVE  \A u \in Svn : Aside(u)
<1>i. ui.url \in Svn => Mine \in Info
  BY DEF TypeOK, Svn, Mine
<1>1. CASE Reset
  <2>1. \A info \in Info : [info EXCEPT !.age = 2].log = info.log
                           /\ [info EXCEPT !.age = 2].lastcheckedrev = info.lastcheckedrev
                           /\ [info EXCEPT !.age = 2].startfromrev = info.startfromrev
    BY DEF Info
  <2> QED
    BY <1>1, <2>1 DEF Reset, Aside, TypeOK, Svn, histVars
<1>2. CASE CheckNow
  BY <1>2, ChangeAside DEF CheckNow
<1>3. CASE MarkAllAsRead
  <2>1. \A info \in Info : [info EXCEPT !.unread = {}].log = info.log
                           /\ [info EXCEPT !.unread = {}].lastcheckedrev = info.lastcheckedrev
                           /\ [info EXCEPT !.unread = {}].startfromrev = info.startfromrev
    BY DEF Info
  <2> QED
    BY <1>3, <2>1 DEF MarkAllAsRead, Aside, TypeOK, Svn, histVars
<1>4. CASE Select
  <2>1. PICK r \in Mine.log : Change([Mine EXCEPT !.unread = @ \ {r}], UiGoto("none", NoUrl))
    BY <1>4 DEF Select
  <2>2. ui.url \in Svn => LET info == [Mine EXCEPT !.unread = @ \ {r}] IN
                            /\ info.lastcheckedrev = Mine.lastcheckedrev
                            /\ info.startfromrev = Mine.startfromrev
                            /\ info.log = Mine.log
    BY <1>i DEF Info
  <2> QED
    BY <2>1, <2>2, ChangeAside
<1>5. CASE MarkAsUnread
  <2>1. PICK r \in Mine.log : Change([Mine EXCEPT !.unread = @ \cup {r}], UiGoto("none", NoUrl))
    BY <1>5 DEF MarkAsUnread
  <2>2. ui.url \in Svn => LET info == [Mine EXCEPT !.unread = @ \cup {r}] IN
                            /\ info.lastcheckedrev = Mine.lastcheckedrev
                            /\ info.startfromrev = Mine.startfromrev
                            /\ info.log = Mine.log
    BY <1>i DEF Info
  <2> QED
    BY <2>1, <2>2, ChangeAside
<1>6. CASE SelectNothing
  BY <1>6, ChangeAside DEF SelectNothing
<1>7. CASE ClearError
  <2>1. ui.url \in Svn => LET info == [Mine EXCEPT !.error = FALSE] IN
                            /\ info.lastcheckedrev = Mine.lastcheckedrev
                            /\ info.startfromrev = Mine.startfromrev
                            /\ info.log = Mine.log
    BY <1>i DEF Info
  <2> QED
    BY <1>7, <2>1, ChangeAside DEF ClearError
<1>8. CASE ToggleActive
  <2>1. ui.url \in Svn => LET info == [Mine EXCEPT !.monitored = ~@] IN
                            /\ info.lastcheckedrev = Mine.lastcheckedrev
                            /\ info.startfromrev = Mine.startfromrev
                            /\ info.log = Mine.log
    BY <1>i DEF Info
  <2> QED
    BY <1>8, <2>1, ChangeAside DEF ToggleActive
<1>9. CASE AskRemove \/ KeepProject \/ OpenEdit \/ EditCancel
  BY <1>9 DEF AskRemove, KeepProject, OpenEdit, EditCancel, Replace, Aside, histVars
<1>10. CASE GetAll \/ Scan \/ EditOk \/ Timer \/ SaveInfo
  BY <1>10 DEF GetAll, Scan, EditOk, Timer, SaveInfo, Aside, dataVars, histVars
<1>11. ASSUME NEW op \in UiOps, NEW u \in Url \cup {NoUrl}, Want(op, u)
       PROVE  \A v \in Svn : Aside(v)
  BY <1>11 DEF Want, Aside, dataVars, histVars
<1> QED
  BY <1>1, <1>2, <1>3, <1>4, <1>5, <1>6, <1>7, <1>8, <1>9, <1>10, <1>11
  DEF UserInterface, Handle, Answer

\* A step of the user-interface thread leaves the repositories and what the monitor
\* threads work with alone.  It may create a thread, which it then remembers.
LEMMA UserFrame ==
  ASSUME UserInterface
  PROVE  /\ UNCHANGED <<envVars, iterVars, resultVars, bRun, threadRunning>>
         /\ process' \in {process, "crashed"}
         /\ \/ UNCHANGED <<pc, handle>>
            \/ \E w \in Worker : At(w, "idle") /\ Goto(w, "created") /\ handle' = w
<1>1. CASE Scan
  BY <1>1 DEF Scan
<1>2. CASE Save
  BY <1>2 DEF Save, Trim
<1>3. CASE GetAll \/ Reset \/ Timer \/ SaveInfo \/ EditOk \/ MarkAllAsRead
           \/ \E op \in UiOps, u \in Url \cup {NoUrl} : Want(op, u)
  BY <1>3 DEF GetAll, Reset, Timer, SaveInfo, EditOk, MarkAllAsRead, Want, threadVars
<1>4. CASE CheckNow \/ Select \/ MarkAsUnread \/ Discard \/ SelectNothing \/ ClearError
           \/ ToggleActive \/ RefreshAll \/ FetchNext
  BY <1>4 DEF CheckNow, Select, MarkAsUnread, Discard, SelectNothing, ClearError, ToggleActive,
              RefreshAll, FetchNext, Change, threadVars
<1>5. CASE AddProject \/ AskRemove \/ OpenEdit \/ StoreEdit \/ Remove \/ KeepProject \/ EditCancel
  BY <1>5 DEF AddProject, AskRemove, OpenEdit, StoreEdit, Remove, KeepProject, EditCancel,
              Replace, threadVars
<1> QED
  BY <1>1, <1>2, <1>3, <1>4, <1>5 DEF UserInterface, Handle, Answer

\* Every step of the user-interface thread keeps the invariant.
LEMMA UserSkipInv ==
  ASSUME TypeOK, TypeOK', AtProject, Undisturbed, SkipInv, UserInterface
  PROVE  SkipInv'
<1>1. /\ UiInv'
      /\ ~Discard /\ ~FetchNext /\ ~StoreEdit
      /\ AddProject \/ Remove => OneThread
      /\ RefreshAll => ~GoesOn
  BY UserUiInv DEF SkipInv
<1>2. UNCHANGED <<head, clone, iterVars, resultVars>>
  BY UserFrame DEF envVars
<1>3. \A v \in Worker : pc'[v] = pc[v] \/ {pc[v], pc'[v]} \subseteq {"idle", "created"}
  BY UserFrame DEF At, Goto, TypeOK
<1>4. \A u, r : Pending(u, r) => Pending(u, r)'
  <2>1. \A v \in Worker : /\ pc[v] = "store" => pc'[v] = "store"
                          /\ cur'[v] = cur[v] /\ logs'[v] = logs[v]
    BY <1>2, <1>3 DEF iterVars, resultVars
  <2> QED
    BY <2>1, PendingStays
<1>5. \A u \in Svn : head'[u] >= head[u]
  BY <1>2 DEF TypeOK, Svn, Rev
<1>6. \A u \in Svn : ProjectInv(u) /\ u \in Url
  BY DEF SkipInv, Svn
<1>8. \A u \in Svn : head'[u] \in Nat
  BY DEF TypeOK, Svn, Rev
<1>7. \A u \in Svn : \/ Aside(u)
                     \/ ProjectInv(u)' /\ Passes(u) /\ infos'[u].log \subseteq infos[u].log
  <2> TAKE u \in Svn
  <2>1. CASE Save
    BY <1>4, <1>5, <1>6, <2>1, TrimSkips DEF Save, Trim, histVars
  <2>2. CASE AddProject
    <3>1. CASE u = ui.url
      <4>1. Begins(u)
        BY <1>6, <2>2, <3>1 DEF AddProject, Replace, Begins, NewInfo, TypeOK
      <4> QED
        BY <1>1, <1>5, <1>6, <1>8, <2>2, <4>1, ProjectBegins DEF Passes, Begins
    <3>2. CASE u # ui.url
      BY <1>6, <2>2, <3>2 DEF AddProject, Replace, Aside, TypeOK
    <3> QED
      BY <3>1, <3>2
  <2>3. CASE Remove
    <3>1. CASE u = confirm
      <4>1. Begins(u)
        BY <1>6, <2>3, <3>1 DEF Remove, Replace, Begins, NewInfo, TypeOK
      <4> QED
        BY <1>1, <1>5, <1>6, <1>8, <2>3, <4>1, ProjectBegins DEF Passes, Begins
    <3>2. CASE u # confirm
      BY <1>6, <2>3, <3>2 DEF Remove, Replace, Aside, TypeOK
    <3> QED
      BY <3>1, <3>2
  <2>4. CASE RefreshAll
    <3> DEFINE rev == RevToRefreshFrom(Mine)
    <3>1. UNCHANGED <<present, since>>
      BY <2>4 DEF RefreshAll, Change
    <3>2. CASE u = ui.url
      <4>1. infos[u] \in Info /\ Mine = infos[u] /\ u \notin GitUrl
        BY <1>6, <3>2 DEF TypeOK, Mine, Svn
      <4>2. infos'[u] = [infos[u] EXCEPT !.lastcheckedrev = rev, !.age = 2]
        BY <1>6, <2>4, <3>2, <4>1 DEF RefreshAll, Change, TypeOK
      <4>3. PICK n : n = rev
        OBVIOUS
      <4>4. /\ infos'[u].log = infos[u].log
            /\ infos'[u].lastcheckedrev = n
            /\ infos'[u].startfromrev = infos[u].startfromrev
        BY <4>1, <4>2, <4>3 DEF Info
      <4>5. Reached(u, n) /\ n \in Rev0
        BY <1>1, <1>6, <2>4, <4>1, <4>3, RefreshReaches, RevToRefreshFromType
      <4>6. Stays(u)
        <5>1. infos'[u].log \in SUBSET Rev
          BY <4>1, <4>4 DEF Info
        <5> QED
          BY <1>4, <3>1, <4>4, <5>1, HeldStays DEF Stays, Kept
      <4>7. \A k \in Rev0 : Covered(u, k) => Covered(u, k)'
        BY <4>6, CoveredStays DEF Covered
      <4>8. Reached(u, infos[u].lastcheckedrev)'
        BY <3>1, <4>4, <4>5, <4>7 DEF Reached, Covered
      <4>9. \A r \in infos'[u].log : Covered(u, r)'
        <5>1. infos[u].log \subseteq Rev0
          BY <4>1, MaxRevType DEF Info, Rev, Rev0
        <5> QED
          BY <1>6, <4>4, <4>7, <5>1 DEF ProjectInv
      <4>10. ProjectInv(u)'
        BY <1>2, <1>6, <3>1, <4>4, <4>8, <4>9 DEF ProjectInv
      <4> QED
        BY <4>4, <4>6, <4>10 DEF Passes
    <3>3. CASE u # ui.url
      BY <1>6, <2>4, <3>1, <3>3 DEF RefreshAll, Change, Aside, TypeOK
    <3> QED
      BY <3>2, <3>3
  <2>5. CASE ~(Save \/ AddProject \/ Remove \/ RefreshAll)
    BY <1>1, <2>5, UserAside
  <2> QED
    BY <2>1, <2>2, <2>3, <2>4, <2>5
<1> QED
  BY <1>1, <1>2, <1>3, <1>5, <1>7, OutsideSkipInv

\* Somebody commits to a repository, or time passes.
LEMMA WorldSkipInv ==
  ASSUME TypeOK, TypeOK', AtProject, Undisturbed, SkipInv, World
  PROVE  SkipInv'
<1>1. /\ UNCHANGED <<iterVars, resultVars, pc, present, since, uiVars>>
      /\ \A u \in Url : head'[u] >= head[u]
  <2>1. ASSUME NEW v \in Url, Commit(v)
        PROVE  /\ UNCHANGED <<iterVars, resultVars, pc, present, since, uiVars>>
               /\ \A u \in Url : head'[u] >= head[u]
    <3>1. head' = [head EXCEPT ![v] = head[v] + 1] /\ \A u \in Url : head[u] \in Nat
      BY <2>1 DEF Commit, TypeOK, Rev
    <3> QED
      BY <2>1, <3>1 DEF Commit, TypeOK, dataVars, histVars
  <2>2. ASSUME NEW v \in Url, Elapse(v)
        PROVE  /\ UNCHANGED <<iterVars, resultVars, pc, present, since, uiVars>>
               /\ \A u \in Url : head'[u] >= head[u]
    BY <2>2 DEF Elapse, TypeOK, Rev, histVars, envVars
  <2> QED
    BY <2>1, <2>2 DEF World
<1>2. \A u \in Svn : Aside(u)
  <2>1. \A info \in Info : \A age : [info EXCEPT !.age = age].log = info.log
                           /\ [info EXCEPT !.age = age].lastcheckedrev = info.lastcheckedrev
                           /\ [info EXCEPT !.age = age].startfromrev = info.startfromrev
    BY DEF Info
  <2>2. CASE infos' = infos
    BY <1>1, <2>2 DEF Aside
  <2>3. ASSUME NEW v \in Url, Elapse(v) PROVE \A u \in Svn : Aside(u)
    BY <1>1, <2>1, <2>3 DEF Elapse, Aside, TypeOK, Svn
  <2> QED
    BY <2>2, <2>3 DEF World, Commit, dataVars
<1>3. UiInv'
  BY <1>1 DEF SkipInv, UiInv, uiVars
<1> QED
  BY <1>1, <1>2, <1>3, OutsideSkipInv DEF Svn

-----------------------------------------------------------------------------
(* Steps of a monitor thread.                                              *)

\* A critical section that leaves progress and entries alone.
LEMMA UpdateAside ==
  ASSUME TypeOK, NEW w \in Worker, NEW info, Update(w, info), UNCHANGED <<present, since>>,
         cur[w] \in Svn => /\ info.lastcheckedrev = Shared(w).lastcheckedrev
                           /\ info.startfromrev = Shared(w).startfromrev
                           /\ info.log = Shared(w).log
  PROVE  \A u \in Svn : Aside(u)
<1> SUFFICES ASSUME NEW u \in Svn PROVE Aside(u)
  OBVIOUS
<1>1. CASE cur[w] = u
  BY <1>1 DEF TypeOK, Svn, Update, Shared, Aside
<1>2. CASE cur[w] # u
  BY <1>2 DEF TypeOK, Svn, Update, Shared, Aside
<1> QED
  BY <1>1, <1>2

\* All but two of them do.
LEMMA CheckAside ==
  ASSUME TypeOK, NEW w \in Worker, ThreadInv(w), Check(w), ~SetChecked(w), ~StoreNext(w)
  PROVE  \A u \in Svn : Aside(u)
<1>i. cur[w] \in Svn => Shared(w) \in Info
  BY DEF TypeOK, Svn, Shared
<1>1. CASE Denied(w)
  <2>1. cur[w] \in Svn => LET info == Failed(Shared(w), TRUE) IN
                           /\ info.lastcheckedrev = Shared(w).lastcheckedrev
                           /\ info.startfromrev = Shared(w).startfromrev
                           /\ info.log = Shared(w).log
    BY <1>i DEF Info, Failed
  <2> QED
    BY <1>1, <2>1, UpdateAside DEF Denied, histVars
<1>2. CASE SetHash(w)
  <2>1. cur[w] \in Svn => LET info == [Shared(w) EXCEPT !.lastcheckedhash = headrev[w]] IN
                           /\ info.lastcheckedrev = Shared(w).lastcheckedrev
                           /\ info.startfromrev = Shared(w).startfromrev
                           /\ info.log = Shared(w).log
    BY <1>i DEF Info
  <2> QED
    BY <1>2, <2>1, UpdateAside DEF SetHash, histVars
<1>3. CASE GitStore(w)
  <2>1. cur[w] \notin Svn
    BY <1>3 DEF GitStore, At, ThreadInv, Svn
  <2> QED
    BY <1>3, <2>1, UpdateAside DEF GitStore
<1>4. CASE LogFailed(w)
  <2>1. PICK auth : Update(w, Failed(Shared(w), auth))
    BY <1>4 DEF LogFailed
  <2>2. cur[w] \in Svn => LET info == Failed(Shared(w), auth) IN
                           /\ info.lastcheckedrev = Shared(w).lastcheckedrev
                           /\ info.startfromrev = Shared(w).startfromrev
                           /\ info.log = Shared(w).log
    BY <1>i DEF Info, Failed
  <2> QED
    BY <1>4, <2>1, <2>2, UpdateAside DEF LogFailed, histVars
<1>5. CASE NoUpdates(w)
  <2>1. PICK e, n : Update(w, [Shared(w) EXCEPT !.age = 0, !.error = e, !.notAuthorized = n])
    BY <1>5 DEF NoUpdates
  <2>2. cur[w] \in Svn =>
          LET info == [Shared(w) EXCEPT !.age = 0, !.error = e, !.notAuthorized = n] IN
            /\ info.lastcheckedrev = Shared(w).lastcheckedrev
            /\ info.startfromrev = Shared(w).startfromrev
            /\ info.log = Shared(w).log
    BY <1>i DEF Info
  <2> QED
    BY <1>5, <2>1, <2>2, UpdateAside DEF NoUpdates, histVars
<1>6. CASE RunThread(w) \/ Snapshot(w) \/ NextProject(w) \/ Filter(w) \/ Due(w) \/ GetHEADRevision(w) \/ GetLatestCommit(w) \/ FetchLog(w) \/ Notify(w) \/ Popup(w) \/ ErrPopup(w) \/ Finish(w) \/ End(w) \/ ThreadEnds(w)
  <2>1. UNCHANGED <<infos, present, since>>
    BY <1>6 DEF RunThread, Snapshot, NextProject, Filter, Due, GetHEADRevision, GetLatestCommit, FetchLog, Notify, Popup, ErrPopup, Finish, End, ThreadEnds, dataVars, histVars
  <2> QED
    BY <2>1 DEF Aside
<1>7. CASE StoreDone(w)
  <2>1. UNCHANGED <<present, since>> /\ (infos' = infos \/ Robots(w))
    BY <1>7 DEF StoreDone, histVars
  <2>2. CASE infos' = infos
    BY <2>1, <2>2 DEF Aside
  <2>3. CASE Robots(w)
    <3>1. PICK age : Update(w, [Shared(w) EXCEPT !.age = age])
      BY <2>3 DEF Robots
    <3>2. cur[w] \in Svn => LET info == [Shared(w) EXCEPT !.age = age] IN
                             /\ info.lastcheckedrev = Shared(w).lastcheckedrev
                             /\ info.startfromrev = Shared(w).startfromrev
                             /\ info.log = Shared(w).log
      BY <1>i DEF Info
    <3> QED
      BY <2>1, <3>1, <3>2, UpdateAside
  <2> QED
    BY <2>1, <2>2, <2>3
<1> QED
  BY <1>1, <1>2, <1>3, <1>4, <1>5, <1>6, <1>7 DEF Check

\* What a thread that takes no step holds.
SameThread(v) ==
  /\ pc'[v] = pc[v]
  /\ copy'[v] = copy[v] /\ todo'[v] = todo[v] /\ cur'[v] = cur[v]
  /\ headrev'[v] = headrev[v] /\ logs'[v] = logs[v]

\* A step of a monitor thread leaves the other ones, the repositories and the dialogs alone.
LEMMA CheckFrame ==
  ASSUME TypeOK, NEW w \in Worker, Check(w)
  PROVE  /\ \A v \in Worker \ {w} : SameThread(v)
         /\ UNCHANGED <<head, uiVars>>
<1> USE DEF TypeOK, SameThread, At, Goto, GotoUnlessStopped, NoResult, Request,
            iterVars, resultVars, envVars
<1>1. CASE RunThread(w)
  BY <1>1 DEF RunThread
<1>2. CASE Snapshot(w)
  BY <1>2 DEF Snapshot
<1>3. CASE NextProject(w)
  <2>1. \/ UNCHANGED iterVars /\ pc' = [pc EXCEPT ![w] = "finish"]
        \/ \E u : /\ cur' = [cur EXCEPT ![w] = u]
                  /\ todo' = [todo EXCEPT ![w] = @ \ {u}]
                  /\ UNCHANGED copy /\ pc' = [pc EXCEPT ![w] = "filter"]
    BY <1>3 DEF NextProject
  <2> QED
    BY <1>3, <2>1 DEF NextProject
<1>4. CASE Filter(w)
  BY <1>4 DEF Filter
<1>5. CASE Due(w)
  BY <1>5 DEF Due
<1>6. CASE GetHEADRevision(w)
  BY <1>6 DEF GetHEADRevision
<1>7. CASE GetLatestCommit(w)
  BY <1>7 DEF GetLatestCommit, Fetch
<1>8. CASE Denied(w)
  BY <1>8 DEF Denied
<1>9. CASE SetHash(w)
  BY <1>9 DEF SetHash
<1>10. CASE FetchLog(w)
  <2>1. head' = head
    BY <1>10 DEF FetchLog, Fetch
  <2>2. /\ \E S : logs' = [logs EXCEPT ![w] = S] \/ logs' = logs
        /\ \E l : pc' = [pc EXCEPT ![w] = l]
        /\ UNCHANGED <<copy, todo, cur, headrev, uiVars>>
    BY <1>10 DEF FetchLog
  <2> QED
    BY <2>1, <2>2
<1>11. CASE GitStore(w)
  BY <1>11 DEF GitStore
<1>12. CASE SetChecked(w)
  BY <1>12 DEF SetChecked
<1>13. CASE StoreNext(w)
  BY <1>13 DEF StoreNext
<1>14. CASE StoreDone(w)
  BY <1>14 DEF StoreDone
<1>15. CASE Notify(w)
  BY <1>15 DEF Notify
<1>16. CASE Popup(w)
  BY <1>16 DEF Popup
<1>17. CASE LogFailed(w)
  BY <1>17 DEF LogFailed
<1>18. CASE NoUpdates(w)
  BY <1>18 DEF NoUpdates
<1>19. CASE ErrPopup(w)
  BY <1>19 DEF ErrPopup
<1>20. CASE Finish(w)
  BY <1>20 DEF Finish
<1>21. CASE End(w)
  BY <1>21 DEF End
<1>22. CASE ThreadEnds(w)
  BY <1>22 DEF ThreadEnds
<1> QED
  BY <1>1, <1>2, <1>3, <1>4, <1>5, <1>6, <1>7, <1>8, <1>9, <1>10, <1>11, <1>12, <1>13, <1>14, <1>15, <1>16, <1>17, <1>18, <1>19, <1>20, <1>21, <1>22 DEF Check

\* Whoever leaves "store" has stored everything, unless it was told to stop.
LEMMA CheckPending ==
  ASSUME TypeOK, NEW w \in Worker, Check(w), ~StoreNext(w), NEW u, NEW r, Pending(u, r),
         pc[w] = "store" => bRun
  PROVE  Pending(u, r)'
<1>1. PICK v \in Worker : pc[v] = "store" /\ cur[v] = u /\ r \in logs[v]
  BY DEF Pending, At
<1>2. v # w
  BY <1>1 DEF Check, At, RunThread, Snapshot, NextProject, Filter, Due, GetHEADRevision, GetLatestCommit, Denied, SetHash, FetchLog, GitStore, SetChecked, StoreDone, Notify, Popup, LogFailed, NoUpdates, ErrPopup, Finish, End, ThreadEnds
<1>3. SameThread(v)
  BY <1>2, CheckFrame
<1> QED
  BY <1>1, <1>3 DEF Pending, At, SameThread

\* The thread is where nothing but its copy matters.
LEMMA OnlyCopy ==
  ASSUME NEW w \in Worker, CopyInv(w)',
         pc'[w] \notin {"hash", "gitstore", "getlog", "checked", "store"}
  PROVE  ThreadInv(w)'
BY DEF ThreadInv, QueriedInv, FetchedInv, StoringInv

\* The copy while the iterator goes on.
LEMMA AheadShrinks ==
  ASSUME TypeOK, AtProject, NEW w \in Worker, ThreadInv(w), Check(w),
         ~Snapshot(w), ~End(w)
  PROVE  copy'[w] = copy[w] /\ Ahead(w)' \cap Svn \subseteq Ahead(w)
<1> USE DEF TypeOK, At, Goto, GotoUnlessStopped, iterVars, Ahead
<1>1. CASE RunThread(w)
  BY <1>1 DEF RunThread
<1>3. CASE NextProject(w)
  <2>1. CASE todo[w] = {} \/ ~bRun
    BY <1>3, <2>1 DEF NextProject
  <2>2. CASE ~(todo[w] = {} \/ ~bRun)
    <3>1. PICK u \in todo[w] : /\ cur' = [cur EXCEPT ![w] = u]
                               /\ todo' = [todo EXCEPT ![w] = todo[w] \ {u}]
      BY <1>3, <2>2 DEF NextProject
    <3>2. copy' = copy /\ pc' = [pc EXCEPT ![w] = "filter"]
      BY <1>3, <2>2 DEF NextProject
    <3> QED
      BY <3>1, <3>2
  <2> QED
    BY <2>1, <2>2
<1>4. CASE Filter(w)
  BY <1>4 DEF Filter
<1>5. CASE Due(w)
  BY <1>5 DEF Due
<1>6. CASE GetHEADRevision(w)
  BY <1>6 DEF GetHEADRevision
<1>7. CASE GetLatestCommit(w)
  BY <1>7 DEF GetLatestCommit
<1>8. CASE Denied(w)
  BY <1>8 DEF Denied
<1>9. CASE SetHash(w)
  BY <1>9 DEF SetHash, ThreadInv, Svn
<1>10. CASE FetchLog(w)
  BY <1>10 DEF FetchLog
<1>11. CASE GitStore(w)
  BY <1>11 DEF GitStore, ThreadInv, Svn
<1>12. CASE SetChecked(w)
  BY <1>12 DEF SetChecked
<1>13. CASE StoreNext(w)
  BY <1>13 DEF StoreNext
<1>14. CASE StoreDone(w)
  BY <1>14 DEF StoreDone, AfterStore
<1>15. CASE Notify(w)
  BY <1>15 DEF Notify
<1>16. CASE Popup(w)
  BY <1>16 DEF Popup
<1>17. CASE LogFailed(w)
  BY <1>17 DEF LogFailed
<1>18. CASE NoUpdates(w)
  BY <1>18 DEF NoUpdates
<1>19. CASE ErrPopup(w)
  BY <1>19 DEF ErrPopup
<1>20. CASE Finish(w)
  BY <1>20 DEF Finish
<1>22. CASE ThreadEnds(w)
  BY <1>22 DEF ThreadEnds
<1> QED
  BY <1>1, <1>3, <1>4, <1>5, <1>6, <1>7, <1>8, <1>9, <1>10, <1>11, <1>12, <1>13, <1>14, <1>15, <1>16, <1>17, <1>18, <1>19, <1>20, <1>22 DEF Check

\* There is something new, and the log of it is asked for.
LEMMA QueryOwn ==
  ASSUME TypeOK, AtProject, NEW w \in Worker, SkipInv, GetHEADRevision(w), CopyInv(w)',
         \A u \in Svn : Aside(u), UNCHANGED head
  PROVE  ThreadInv(w)'
<1>1. CASE pc'[w] \notin {"hash", "gitstore", "getlog", "checked", "store"}
  BY <1>1, OnlyCopy
<1>2. CASE pc'[w] \in {"hash", "gitstore", "getlog", "checked", "store"}
  <2>1. /\ pc'[w] = "getlog"
        /\ headrev'[w] = head[cur[w]]
        /\ head[cur[w]] > copy[w][cur[w]].lastcheckedrev
        /\ cur'[w] = cur[w] /\ copy'[w] = copy[w]
        /\ cur[w] \in Svn
    BY <1>2 DEF GetHEADRevision, TypeOK, Request, Goto, GotoUnlessStopped, iterVars,
                AtProject, At, Svn, Seen
  <2>2. /\ head[cur[w]] \in Nat /\ copy[w][cur[w]].lastcheckedrev \in Nat
    <3>1. head[cur[w]] \in Rev /\ copy[w][cur[w]] \in Info
      BY <2>1 DEF TypeOK, Svn
    <3>2. \A info \in Info : info.lastcheckedrev \in Rev0
      BY DEF Info
    <3> QED
      BY <3>1, <3>2, MaxRevType DEF Rev, Rev0
  <2>3. infos'[cur[w]].log \subseteq 1..head[cur[w]]
    BY <2>1 DEF SkipInv, ProjectInv, Aside
  <2>4. QueriedInv(w)'
    BY <2>1, <2>2, <2>3 DEF QueriedInv
  <2> QED
    BY <2>1, <2>4 DEF ThreadInv, FetchedInv, StoringInv
<1> QED
  BY <1>1, <1>2

\* What was fetched reaches from the revision the thread saw to headrev.
LEMMA FetchOwn ==
  ASSUME TypeOK, AtProject, NEW w \in Worker, SkipInv, FetchLog(w), CopyInv(w)',
         \A u \in Svn : Aside(u), UNCHANGED head
  PROVE  ThreadInv(w)'
<1>1. CASE pc'[w] \notin {"hash", "gitstore", "getlog", "checked", "store"}
  BY <1>1, OnlyCopy
<1>2. CASE cur[w] \in GitUrl
  BY <1>2 DEF FetchLog, ThreadInv, QueriedInv, FetchedInv, StoringInv, iterVars, Svn
<1>3. CASE cur[w] \notin GitUrl /\ pc'[w] \in {"hash", "gitstore", "getlog", "checked", "store"}
  <2>1. /\ pc[w] = "getlog" /\ pc'[w] = "checked"
        /\ logs'[w] = LogRange(copy[w][cur[w]], headrev[w])
        /\ headrev'[w] = headrev[w] /\ cur'[w] = cur[w] /\ copy'[w] = copy[w]
        /\ cur[w] \in Svn
    BY <1>3 DEF FetchLog, TypeOK, Goto, GotoUnlessStopped, iterVars, AtProject, At, Svn, Seen
  <2> DEFINE info == copy[w][cur[w]]
  <2>2. info \in Info /\ info.lastcheckedrev \in Nat /\ info.startfromrev = 0
    <3>1. info \in Info
      BY <2>1 DEF TypeOK, Svn
    <3>2. \A i \in Info : i.lastcheckedrev \in Rev0
      BY DEF Info
    <3>3. info.startfromrev = 0
      BY <2>1 DEF SkipInv, ThreadInv, CopyInv
    <3> QED
      BY <3>1, <3>2, <3>3, MaxRevType DEF Rev0
  <2>3. /\ headrev[w] <= head[cur[w]]
        /\ info.lastcheckedrev < headrev[w]
        /\ OneThread => infos[cur[w]].log \subseteq 1..headrev[w]
    BY <2>1 DEF SkipInv, ThreadInv, QueriedInv
  <2>4. headrev[w] \in Rev /\ MaxRev \in Nat /\ NumLogs \in Nat /\ headrev[w] \in Nat
    <3>1. headrev[w] \in Rev0
      BY DEF TypeOK
    <3> QED
      BY <2>2, <2>3, <3>1, MaxRevType, NumLogsType DEF Rev, Rev0
  <2>5. QueriedInv(w)'
    BY <2>1, <2>3 DEF QueriedInv, Aside
  <2> HIDE DEF info
  <2>6. LogRange(info, headrev[w]) \subseteq 1..headrev[w]
    BY <2>2, <2>3, <2>4, LogRangeBelowHead
  <2>7. \A r \in 1..headrev[w] :
          /\ info.lastcheckedrev < r
          /\ info.lastcheckedrev # 0 \/ headrev[w] - r < NumLogs
          => r \in LogRange(info, headrev[w])
    <3>1. \A r \in 1..headrev[w] : r \in Rev /\ r <= headrev[w]
      BY <2>4 DEF Rev
    <3> QED
      BY <2>2, <2>4, <3>1, LogRangeCovers
  <2>8. FetchedInv(w)'
    BY <2>1, <2>6, <2>7 DEF FetchedInv, info
  <2> QED
    BY <2>1, <2>5, <2>8 DEF ThreadInv, StoringInv
<1> QED
  BY <1>1, <1>2, <1>3

\* The thread that takes the step keeps what it knows, by each of its actions that leaves
\* the projects alone.
LEMMA OwnThread ==
  ASSUME TypeOK, TypeOK', AtProject, Undisturbed, SkipInv, NEW w \in Worker, Check(w),
         ~SetChecked(w), ~StoreNext(w), UNCHANGED head,
         \A u \in Svn : Aside(u) /\ Stays(u) /\ ProjectInv(u)'
  PROVE  ThreadInv(w)'
<1>t. ThreadInv(w)
  BY DEF SkipInv
<1>1. CASE Snapshot(w)
  <2>1. /\ copy'[w] = infos' /\ todo'[w] = present' /\ pc'[w] = "loop"
    BY <1>1 DEF Snapshot, TypeOK, Goto, dataVars
  <2>2. \A u \in Svn : Reached(u, infos[u].lastcheckedrev)' /\ infos'[u].startfromrev = 0
    BY DEF ProjectInv
  <2>3. CopyInv(w)'
    BY <2>1, <2>2 DEF CopyInv, Reached, Covered
  <2> QED
    BY <2>1, <2>3, OnlyCopy
<1>2. CASE End(w)
  <2>1. /\ copy'[w] = [u \in Url |-> NewInfo] /\ todo'[w] = {} /\ pc'[w] = "leaving"
    BY <1>2 DEF End, TypeOK, Goto
  <2>2. CopyInv(w)'
    BY <2>1 DEF CopyInv, Ahead, Svn, NewInfo
  <2> QED
    BY <2>1, <2>2, OnlyCopy
<1>3. CASE ~Snapshot(w) /\ ~End(w)
  <2>1. CopyInv(w)'
    BY <1>t, <1>3, AheadShrinks, CopyPasses DEF ThreadInv, Passes
  <2>2. CASE GetHEADRevision(w)
    BY <2>1, <2>2, QueryOwn
  <2>3. CASE FetchLog(w)
    BY <2>1, <2>3, FetchOwn
  <2>4. CASE GetLatestCommit(w) \/ SetHash(w) \/ GitStore(w)
    <3>1. cur'[w] = cur[w] /\ cur[w] \in GitUrl /\ cur'[w] \notin Svn
      BY <1>t, <2>4 DEF ThreadInv, GetLatestCommit, SetHash, GitStore, At, iterVars, Svn
    <3> QED
      BY <2>1, <3>1 DEF ThreadInv, QueriedInv, FetchedInv, StoringInv
  <2>5. CASE RunThread(w) \/ NextProject(w) \/ Filter(w) \/ Due(w) \/ Denied(w) \/ StoreDone(w) \/ Notify(w) \/ Popup(w) \/ LogFailed(w) \/ NoUpdates(w) \/ ErrPopup(w) \/ Finish(w) \/ ThreadEnds(w)
    <3>p. pc \in [Worker -> PC]
      BY DEF TypeOK
    <3>1. pc'[w] \notin {"hash", "gitstore", "getlog", "checked", "store"}
      <4>1. CASE RunThread(w)
        BY <3>p, <4>1 DEF RunThread, At, Goto, GotoUnlessStopped
      <4>2. CASE NextProject(w)
        BY <3>p, <4>2 DEF NextProject, At, Goto, GotoUnlessStopped
      <4>3. CASE Filter(w)
        BY <3>p, <4>3 DEF Filter, At, Goto, GotoUnlessStopped
      <4>4. CASE Due(w)
        BY <3>p, <4>4 DEF Due, At, Goto, GotoUnlessStopped
      <4>5. CASE Denied(w)
        BY <3>p, <4>5 DEF Denied, At, Goto, GotoUnlessStopped
      <4>6. CASE StoreDone(w)
        BY <3>p, <4>6 DEF StoreDone, AfterStore, At, Goto, GotoUnlessStopped
      <4>7. CASE Notify(w)
        BY <3>p, <4>7 DEF Notify, At, Goto, GotoUnlessStopped
      <4>8. CASE Popup(w)
        BY <3>p, <4>8 DEF Popup, At, Goto, GotoUnlessStopped
      <4>9. CASE LogFailed(w)
        BY <3>p, <4>9 DEF LogFailed, At, Goto, GotoUnlessStopped
      <4>10. CASE NoUpdates(w)
        BY <3>p, <4>10 DEF NoUpdates, At, Goto, GotoUnlessStopped
      <4>11. CASE ErrPopup(w)
        BY <3>p, <4>11 DEF ErrPopup, At, Goto, GotoUnlessStopped
      <4>12. CASE Finish(w)
        BY <3>p, <4>12 DEF Finish, At, Goto, GotoUnlessStopped
      <4>13. CASE ThreadEnds(w)
        BY <3>p, <4>13 DEF ThreadEnds, At, Goto
      <4> QED
        BY <2>5, <4>1, <4>2, <4>3, <4>4, <4>5, <4>6, <4>7, <4>8, <4>9, <4>10, <4>11, <4>12, <4>13
    <3> QED
      BY <2>1, <3>1, OnlyCopy
  <2> QED
    BY <1>3, <2>2, <2>3, <2>4, <2>5 DEF Check
<1> QED
  BY <1>1, <1>2, <1>3

\* Most steps of a check.
LEMMA AsideSkipInv ==
  ASSUME TypeOK, TypeOK', AtProject, Undisturbed, SkipInv, NEW w \in Worker, Check(w),
         ~SetChecked(w), ~StoreNext(w), pc[w] = "store" => bRun
  PROVE  /\ \A u \in Svn : ProjectInv(u)' /\ Passes(u)
         /\ ThreadInv(w)'
<1>1. UNCHANGED head /\ \A u \in Svn : head'[u] >= head[u]
  BY CheckFrame DEF TypeOK, Svn, Rev
<1>2. \A u \in Svn : Aside(u)
  BY CheckAside DEF SkipInv
<1>3. \A u, r : Pending(u, r) => Pending(u, r)'
  BY CheckPending
<1>4. \A u \in Svn : ProjectInv(u)' /\ Passes(u) /\ Stays(u)
  BY <1>1, <1>2, <1>3, AsideKeeps, AsideStays DEF SkipInv
<1> QED
  BY <1>1, <1>2, <1>4, OwnThread

\* The commit that is stored is no longer pending, but held; what came before it is
\* covered because all that the thread fetched is.
LEMMA StoreSkipInv ==
  ASSUME TypeOK, TypeOK', AtProject, Undisturbed, SkipInv, NEW w \in Worker, StoreNext(w)
  PROVE  /\ \A u \in Svn : ProjectInv(u)' /\ Passes(u)
         /\ ThreadInv(w)'
<1>0. /\ pc[w] = "store" /\ pc'[w] = "store"
      /\ UNCHANGED <<head, present, since, pc, cur, todo, copy, headrev>>
      /\ \A u \in Svn : head'[u] >= head[u]
  BY DEF StoreNext, At, envVars, iterVars, TypeOK, Svn, Rev
<1>c. Check(w)
  BY DEF Check
<1>1. PICK r \in logs[w] : /\ Update(w, StoreOne(Shared(w), r))
                           /\ logs' = [logs EXCEPT ![w] = @ \ {r}]
  BY DEF StoreNext
<1>2. r \in Rev /\ logs'[w] = logs[w] \ {r} /\ \A v \in Worker \ {w} : logs'[v] = logs[v]
  BY <1>1 DEF TypeOK
<1>3. ASSUME NEW u \in Svn
      PROVE  /\ infos[u] \in Info /\ infos'[u] \in Info
             /\ infos'[u].lastcheckedrev = infos[u].lastcheckedrev
             /\ infos'[u].startfromrev = infos[u].startfromrev
             /\ IF u = cur[w] /\ u \in present THEN infos'[u].log = infos[u].log \cup {r}
                                               ELSE infos'[u].log = infos[u].log
  <2>1. infos[u] \in Info /\ infos'[u] \in Info
    BY DEF TypeOK, Svn
  <2>2. CASE u = cur[w] /\ u \in present
    <3>1. infos'[u] = StoreOne(infos[u], r)
      BY <1>1, <2>2 DEF Update, Shared, TypeOK, Svn
    <3> QED
      BY <2>1, <2>2, <3>1 DEF StoreOne, Info
  <2>3. CASE ~(u = cur[w] /\ u \in present)
    <3>1. infos'[u] = infos[u]
      BY <1>1, <2>3 DEF Update, Shared, TypeOK, Svn
    <3> QED
      BY <2>1, <2>3, <3>1
  <2> QED
    BY <2>2, <2>3, <2>1
<1>4. ASSUME NEW u \in Svn PROVE Stays(u)
  <2> SUFFICES ASSUME since[u] # 0, NEW s \in Rev, Kept(u, s) PROVE Kept(u, s)'
    BY <1>0 DEF Stays
  <2>1. u \in present
    BY DEF SkipInv, ProjectInv
  <2>2. Held(u, s) => Held(u, s)'
    <3>1. infos'[u].log \in SUBSET Rev /\ infos[u].log \subseteq infos'[u].log
      BY <1>3 DEF Info
    <3> QED
      BY <3>1, HeldStays
  <2>3. Pending(u, s) => Pending(u, s)' \/ s \in infos'[u].log
    <3> SUFFICES ASSUME NEW v \in Worker, pc[v] = "store", cur[v] = u, s \in logs[v]
                 PROVE  Pending(u, s)' \/ s \in infos'[u].log
      BY DEF Pending, At
    <3>1. CASE v = w /\ s = r
      BY <1>3, <2>1, <3>1
    <3>2. CASE v # w \/ s # r
      <4>1. s \in logs'[v]
        BY <1>2, <3>2
      <4> QED
        BY <1>0, <4>1 DEF Pending, At
    <3> QED
      BY <3>1, <3>2
  <2> QED
    BY <2>2, <2>3 DEF Kept, Held
<1>5. \A u \in Svn : Passes(u)
  BY <1>4 DEF Passes
<1>t. ThreadInv(w) /\ \A u \in Svn : ProjectInv(u)
  BY DEF SkipInv
<1>6. ASSUME NEW u \in Svn PROVE ProjectInv(u)'
  <2>1. CASE u = cur[w] /\ u \in present
    <3>1. /\ logs[w] \subseteq 1..headrev[w]
          /\ headrev[w] <= head[u]
          /\ Covered(u, headrev[w])
          /\ ~OneThread => since[u] # 0
      BY <1>0, <1>t, <2>1 DEF ThreadInv, StoringInv
    <3>2. /\ head[u] \in Nat /\ headrev[w] \in Rev0 /\ headrev[w] \in Nat
          /\ infos[u].lastcheckedrev \in Rev0 /\ infos[u].log \in SUBSET Rev
          /\ since[u] \in Nat /\ Rev \subseteq Rev0
      <4>1. head[u] \in Rev /\ headrev[w] \in Rev0 /\ since[u] \in Rev0
        BY DEF TypeOK, Svn
      <4> QED
        BY <1>3, <4>1, MaxRevType DEF Rev, Rev0, Info
    <3>3. r \in 1..head[u] /\ r <= headrev[w]
      BY <1>1, <3>1, <3>2
    <3>4. Covered(u, r)
      <4>1. \A s \in (since[u] + 1)..r : s \in (since[u] + 1)..headrev[w]
        BY <3>2, <3>3
      <4> QED
        BY <3>1, <4>1 DEF Covered
    <3>5. \A k \in Rev0 : Covered(u, k) => Covered(u, k)'
      BY <1>4, CoveredStays DEF Covered
    <3>6. \A s \in infos'[u].log : Covered(u, s)'
      BY <1>2, <1>3, <1>t, <2>1, <3>2, <3>4, <3>5 DEF ProjectInv
    <3>7. Reached(u, infos[u].lastcheckedrev)'
      <4>1. Reached(u, infos[u].lastcheckedrev)
        BY <1>t DEF ProjectInv
      <4>2. PICK n \in Rev0 : n = infos[u].lastcheckedrev
        BY <3>2
      <4>3. Covered(u, n)'
        BY <3>5, <4>1, <4>2 DEF Reached
      <4>4. infos'[u].lastcheckedrev = n
        BY <1>3, <4>2
      <4> QED
        BY <1>0, <4>1, <4>2, <4>3, <4>4 DEF Reached, Covered
    <3>8. infos'[u].log \subseteq 1..head'[u]
      BY <1>0, <1>3, <1>t, <2>1, <3>3 DEF ProjectInv
    <3> QED
      BY <1>0, <1>3, <1>t, <3>1, <3>6, <3>7, <3>8 DEF ProjectInv
  <2>2. CASE ~(u = cur[w] /\ u \in present)
    <3>1. infos'[u].log = infos[u].log
      BY <1>3, <2>2
    <3> QED
      BY <1>0, <1>3, <1>4, <1>t, <3>1, ProjectStays
  <2> QED
    BY <2>1, <2>2
<1>7. ThreadInv(w)'
  <2>1. CopyInv(w)'
    BY <1>0, <1>5, <1>t, CopyPasses DEF ThreadInv, Ahead
  <2>2. StoringInv(w)'
    <3> SUFFICES ASSUME cur[w] \in Svn
                 PROVE  /\ logs'[w] \subseteq 1..headrev[w]
                        /\ headrev[w] <= head[cur[w]]
                        /\ Covered(cur[w], headrev[w])'
                        /\ ~OneThread => since[cur[w]] # 0
      BY <1>0 DEF StoringInv
    <3>1. /\ logs[w] \subseteq 1..headrev[w]
          /\ headrev[w] <= head[cur[w]]
          /\ Covered(cur[w], headrev[w])
          /\ ~OneThread => since[cur[w]] # 0
      BY <1>0, <1>t DEF ThreadInv, StoringInv
    <3>2. headrev[w] \in Rev0
      BY DEF TypeOK
    <3>3. Covered(cur[w], headrev[w])'
      BY <1>0, <1>4, <3>1, <3>2, CoveredStays DEF Covered
    <3> QED
      BY <1>2, <3>1, <3>3
  <2> QED
    BY <1>0, <2>1, <2>2 DEF ThreadInv, QueriedInv, FetchedInv
<1> QED
  BY <1>5, <1>6, <1>7

\* The iterator does not come back to the project it points at.
PastIterator ==
  \A w \in Worker :
    pc[w] \notin {"idle", "created", "snapshot", "loop", "finish", "end", "leaving"} => cur[w] \notin todo[w]

\* The iterator only moves on.
LEMMA CheckPastIterator ==
  ASSUME TypeOK, PastIterator, NEW w \in Worker, Check(w)
  PROVE  PastIterator'
<1> USE DEF TypeOK, PastIterator, At, Goto, GotoUnlessStopped, iterVars
<1>1. CASE RunThread(w) \/ Snapshot(w) \/ Finish(w) \/ End(w) \/ ThreadEnds(w)
  <2>1. pc'[w] \in {"idle", "created", "snapshot", "loop", "finish", "end", "leaving"}
    BY <1>1 DEF RunThread, Snapshot, Finish, End, ThreadEnds
  <2>2. \A v \in Worker \ {w} : SameThread(v)
    BY CheckFrame
  <2> QED
    BY <2>1, <2>2 DEF SameThread
<1>2. CASE NextProject(w)
  <2>1. CASE todo[w] = {} \/ ~bRun
    BY <1>2, <2>1 DEF NextProject
  <2>2. CASE ~(todo[w] = {} \/ ~bRun)
    <3>1. PICK u \in todo[w] : /\ cur' = [cur EXCEPT ![w] = u]
                               /\ todo' = [todo EXCEPT ![w] = todo[w] \ {u}]
      BY <1>2, <2>2 DEF NextProject
    <3>2. cur'[w] \notin todo'[w]
      BY <3>1
    <3> QED
      BY <3>2, CheckFrame DEF SameThread
  <2> QED
    BY <2>1, <2>2
<1>3. CASE ~(RunThread(w) \/ Snapshot(w) \/ Finish(w) \/ End(w) \/ ThreadEnds(w) \/ NextProject(w))
  <2>1. cur'[w] = cur[w] /\ todo'[w] = todo[w]
    BY <1>3 DEF Check, Filter, Due, GetHEADRevision, GetLatestCommit, Denied, SetHash, FetchLog, GitStore, SetChecked, StoreNext, StoreDone, Notify, Popup, LogFailed, NoUpdates, ErrPopup
  <2>2. pc[w] \notin {"idle", "created", "snapshot", "loop", "finish", "end", "leaving"}
    BY <1>3 DEF Check, Filter, Due, GetHEADRevision, GetLatestCommit, Denied, SetHash, FetchLog, GitStore, SetChecked, StoreNext, StoreDone, Notify, Popup, LogFailed, NoUpdates, ErrPopup
  <2> QED
    BY <2>1, <2>2, CheckFrame DEF SameThread
<1> QED
  BY <1>1, <1>2, <1>3

\* The project counts as checked: what follows the revision the thread saw is about to
\* be stored.  The first check of a project sets where NoCommitSkipped begins.
LEMMA CheckedSkipInv ==
  ASSUME TypeOK, TypeOK', AtProject, PastIterator, Undisturbed, SkipInv,
         NEW w \in Worker, SetChecked(w), bRun, GoesOn \/ LogsSuffice
  PROVE  /\ \A u \in Svn : ProjectInv(u)'
         /\ ~OneThread => \A u \in Svn : Passes(u)
         /\ ThreadInv(w)'
<1>0. /\ pc[w] = "checked" /\ pc'[w] = "store"
      /\ UNCHANGED <<head, present, cur, todo, copy, headrev, logs>>
      /\ \A u \in Svn : head'[u] >= head[u]
  BY DEF SetChecked, At, Goto, GotoUnlessStopped, envVars, iterVars, resultVars, TypeOK, Svn, Rev
<1>n. PICK c \in Url, h \in Rev0, n \in Rev0 :
        c = cur[w] /\ h = headrev[w] /\ n = copy[w][cur[w]].lastcheckedrev
  <2>1. cur[w] \in Url
    BY <1>0 DEF AtProject
  <2> QED
    BY <2>1 DEF TypeOK, Info
<1> USE <1>n
<1>c. Check(w)
  BY DEF Check
<1>t. ThreadInv(w) /\ \A u \in Svn : ProjectInv(u)
  BY DEF SkipInv
<1>p. \A u, r : Pending(u, r) => Pending(u, r)'
  <2>1. ~StoreNext(w)
    BY <1>0 DEF StoreNext, At
  <2> QED
    BY <1>c, <2>1, CheckPending
<1>a. ASSUME NEW u \in Svn, u # c \/ u \notin present PROVE Aside(u)
  <2>1. since'[u] = since[u]
    BY <1>a DEF SetChecked, TypeOK, Svn
  <2>2. infos'[u] = infos[u]
    BY <1>a DEF SetChecked, Update, TypeOK, Svn
  <2> QED
    BY <1>0, <2>1, <2>2 DEF Aside
<1>b. ASSUME NEW u \in Svn, u # c \/ u \notin present PROVE ProjectInv(u)' /\ Stays(u)
  BY <1>0, <1>a, <1>b, <1>p, <1>t, AsideKeeps, AsideStays
<1>d. c \notin Ahead(w)'
  BY <1>0 DEF PastIterator, Ahead
<1>1. CASE c \notin Svn
  <2>1. CopyInv(w)'
    BY <1>0, <1>1, <1>b, <1>t, CopyPasses DEF ThreadInv, Passes, Ahead
  <2>2. ThreadInv(w)'
    BY <1>0, <1>1, <2>1 DEF ThreadInv, QueriedInv, FetchedInv, StoringInv
  <2> QED
    BY <1>1, <1>b, <2>2 DEF Passes
<1>2. CASE c \in Svn /\ c \notin present
  <2>1. CopyInv(w)'
    BY <1>0, <1>2, <1>b, <1>t, CopyPasses DEF ThreadInv, Passes, Ahead
  <2>2. since[c] = 0 /\ since'[c] = 0 /\ OneThread
    BY <1>2, <1>a, <1>t DEF ProjectInv, Aside
  <2>3. logs[w] \subseteq 1..h /\ h <= head[c]
    BY <1>0, <1>2, <1>t DEF ThreadInv, QueriedInv, FetchedInv
  <2>4. StoringInv(w)'
    BY <1>0, <2>2, <2>3 DEF StoringInv, Covered
  <2>5. ThreadInv(w)'
    BY <1>0, <2>1, <2>4 DEF ThreadInv, QueriedInv, FetchedInv
  <2> QED
    BY <1>2, <1>b, <2>5 DEF Passes
<1>3. CASE c \in Svn /\ c \in present
  <2>1. /\ h <= head[c] /\ n < h
        /\ OneThread => infos[c].log \subseteq 1..h
        /\ logs[w] \subseteq 1..h
        /\ \A r \in 1..h : n < r /\ (n # 0 \/ h - r < NumLogs) => r \in logs[w]
        /\ Reached(c, n)
    BY <1>0, <1>3, <1>t DEF ThreadInv, QueriedInv, FetchedInv, CopyInv, Ahead
  <2>2. /\ h \in Rev0 /\ h \in Nat /\ n \in Rev0 /\ n \in Nat /\ since[c] \in Nat
        /\ NumLogs \in Nat /\ infos[c] \in Info /\ infos[c].log \in SUBSET Rev
        /\ Rev \subseteq Rev0 /\ h > 0
    <3>1. h \in Rev0 /\ copy[w][c] \in Info /\ since[c] \in Rev0 /\ infos[c] \in Info
      BY <1>0 DEF TypeOK
    <3>2. \A info \in Info : info.lastcheckedrev \in Rev0 /\ info.log \in SUBSET Rev
      BY DEF Info
    <3> QED
      BY <2>1, <3>1, <3>2, MaxRevType, NumLogsType DEF Rev, Rev0
  <2>3. /\ infos'[c].lastcheckedrev = h
        /\ infos'[c].startfromrev = 0
        /\ infos'[c].log = infos[c].log
        /\ since'[c] = IF since[c] = 0 THEN h ELSE since[c]
    <3>1. infos'[c] = Checked(infos[c], h)
      BY <1>0, <1>3 DEF SetChecked, Update, Shared, TypeOK, Svn
    <3>2. since'[c] = IF since[c] = 0 THEN h ELSE since[c]
      BY <1>0, <1>3 DEF SetChecked, TypeOK
    <3> QED
      BY <2>2, <3>1, <3>2 DEF Checked, Info
  <2>4. since[c] # 0 => Stays(c)
    <3>1. infos'[c].log \in SUBSET Rev /\ infos[c].log \subseteq infos'[c].log
      BY <2>2, <2>3
    <3> QED
      BY <1>p, <2>3, <3>1, HeldStays DEF Stays, Kept
  <2>5. \A r \in (since'[c] + 1)..h : Kept(c, r)'
    <3>1. CASE since[c] = 0
      BY <2>2, <2>3, <3>1
    <3>2. CASE since[c] # 0
      <4> SUFFICES ASSUME NEW r \in (since[c] + 1)..h PROVE Kept(c, r)'
        BY <2>3, <3>2
      <4>1. (h <= since[c] + NumLogs \/ n # 0) /\ Covered(c, n)
        BY <1>0, <1>3, <2>1, <3>2 DEF Reached, LogsSuffice, Seen
      <4>2. CASE r <= n
        <5>1. \A s \in (since'[c] + 1)..n : Kept(c, s)'
          BY <2>2, <2>3, <2>4, <1>3, <3>2, <4>1, CoveredStays
        <5>2. r \in (since'[c] + 1)..n
          BY <2>2, <2>3, <3>2, <4>2
        <5> QED
          BY <5>1, <5>2
      <4>3. CASE n < r
        <5>1. r \in 1..h /\ (n # 0 \/ h - r < NumLogs)
          BY <2>2, <4>1
        <5>2. r \in logs'[w]
          BY <1>0, <2>1, <4>1, <4>3, <5>1
        <5> QED
          BY <1>0, <5>2 DEF Kept, Pending, At
      <4> QED
        BY <2>2, <4>2, <4>3
    <3> QED
      BY <3>1, <3>2
  <2>6. Covered(c, h)'
    BY <1>0, <2>5 DEF Covered
  <2>7. Reached(c, infos[c].lastcheckedrev)'
    BY <1>0, <2>2, <2>3, <2>6 DEF Reached, Covered
  <2>8. \A r \in infos'[c].log : Covered(c, r)'
    <3>1. CASE since[c] = 0
      <4>1. infos[c].log \subseteq 1..h
        BY <1>3, <1>t, <2>1, <3>1 DEF ProjectInv
      <4>2. ASSUME NEW r \in infos'[c].log PROVE \A s : s \notin (since'[c] + 1)..r
        <5>1. since'[c] = h /\ r \in Nat /\ r <= h
          BY <2>2, <2>3, <3>1, <4>1
        <5> QED
          BY <2>2, <5>1
      <4> QED
        BY <4>2 DEF Covered
    <3>2. CASE since[c] # 0
      <4>1. \A k \in Rev0 : Covered(c, k) => Covered(c, k)'
        BY <1>3, <2>4, <3>2, CoveredStays DEF Covered
      <4> QED
        BY <1>3, <1>t, <2>2, <2>3, <4>1 DEF ProjectInv
    <3> QED
      BY <3>1, <3>2
  <2>9. ProjectInv(c)'
    BY <1>0, <1>3, <1>t, <2>1, <2>2, <2>3, <2>7, <2>8 DEF ProjectInv
  <2>10. CopyInv(w)'
    <3>1. \A u \in Ahead(w)' \cap Svn : Passes(u)
      BY <1>b, <1>d DEF Passes
    <3>2. Ahead(w)' \cap Svn \subseteq Ahead(w)
      BY <1>0 DEF Ahead
    <3> QED
      BY <1>0, <1>t, <3>1, <3>2, CopyPasses DEF ThreadInv
  <2>11. StoringInv(w)'
    BY <1>0, <2>1, <2>2, <2>3, <2>6 DEF StoringInv
  <2>12. ThreadInv(w)'
    BY <1>0, <2>10, <2>11 DEF ThreadInv, QueriedInv, FetchedInv
  <2>13. ~OneThread => Passes(c)
    BY <2>4 DEF Passes
  <2> QED
    BY <1>b, <2>9, <2>12, <2>13 DEF Passes
<1> QED
  BY <1>1, <1>2, <1>3

\* Every step of a monitor thread keeps the invariant: the other threads, if there are
\* any, find what they need as it was.
LEMMA CheckSkipInv ==
  ASSUME TypeOK, TypeOK', AtProject, PastIterator, Undisturbed, SkipInv,
         NEW w \in Worker, Check(w), pc[w] \in {"checked", "store"} => bRun, GoesOn \/ LogsSuffice
  PROVE  SkipInv'
<1>1. /\ \A u \in Svn : ProjectInv(u)'
      /\ ~OneThread => \A u \in Svn : Passes(u)
      /\ ThreadInv(w)'
  <2>1. CASE SetChecked(w)
    <3>1. bRun
      BY <2>1 DEF SetChecked, At
    <3> QED
      BY <2>1, <3>1, CheckedSkipInv
  <2>2. CASE StoreNext(w)
    BY <2>2, StoreSkipInv
  <2>3. CASE ~SetChecked(w) /\ ~StoreNext(w)
    BY <2>3, AsideSkipInv
  <2> QED
    BY <2>1, <2>2, <2>3
<1>2. (\A v \in Worker \ {w} : SameThread(v)) /\ UNCHANGED <<head, uiVars>>
  BY CheckFrame
<1>3. \A u \in Svn : head'[u] >= head[u]
  BY <1>2 DEF TypeOK, Svn, Rev
<1>4. ASSUME NEW v \in Worker \ {w} PROVE ThreadInv(v)'
  <2>1. ~OneThread
    BY DEF OneThread
  <2>2. ThreadInv(v) /\ SameThread(v)
    BY <1>2 DEF SkipInv
  <2> QED
    BY <1>1, <1>3, <2>1, <2>2, ThreadStays DEF SameThread
<1>5. UiInv'
  BY <1>2 DEF SkipInv, UiInv, uiVars
<1> QED
  BY <1>1, <1>4, <1>5 DEF SkipInv

\* Initially no project was ever checked.
LEMMA InitSkipInv == Init => SkipInv /\ PastIterator
<1> SUFFICES ASSUME Init PROVE SkipInv /\ PastIterator
  OBVIOUS
<1>1. UiInv
  BY DEF Init, UiInv, NoUi
<1>2. \A u \in Svn : ProjectInv(u)
  BY DEF Init, ProjectInv, Reached, Covered, Svn, NewInfo
<1>3. \A w \in Worker : ThreadInv(w)
  BY DEF Init, ThreadInv, CopyInv, Ahead, QueriedInv, FetchedInv, StoringInv, Svn, NewInfo
<1>4. PastIterator
  BY DEF Init, PastIterator
<1> QED
  BY <1>1, <1>2, <1>3, <1>4 DEF SkipInv

\* No step of anybody makes an iterator go back.
LEMMA NextPastIterator ==
  ASSUME TypeOK, PastIterator, [Next]_vars
  PROVE  PastIterator'
<1>1. CASE World \/ UNCHANGED vars
  BY <1>1 DEF PastIterator, World, Commit, Elapse, vars, iterVars
<1>2. CASE UserInterface
  <2>1. UNCHANGED iterVars
    BY <1>2 DEF UserInterface, Handle, Answer, GetAll, Reset, Scan, Save, Trim, CheckNow, MarkAllAsRead, Select, MarkAsUnread, Discard, SelectNothing, ClearError, ToggleActive, RefreshAll, FetchNext, AddProject, AskRemove, OpenEdit, StoreEdit, Remove, KeepProject, EditOk, EditCancel, Timer, SaveInfo, Want, Change, Replace
  <2>2. UNCHANGED pc \/ \E w \in Worker : Goto(w, "created")
    BY <1>2 DEF UserInterface, Handle, Answer, GetAll, Reset, Scan, Save, Trim, CheckNow, MarkAllAsRead, Select, MarkAsUnread, Discard, SelectNothing, ClearError, ToggleActive, RefreshAll, FetchNext, AddProject, AskRemove, OpenEdit, StoreEdit, Remove, KeepProject, EditOk, EditCancel, Timer, SaveInfo, Want, Change, Replace
  <2> QED
    BY <2>1, <2>2 DEF TypeOK, PastIterator, Goto, iterVars
<1> QED
  BY <1>1, <1>2, CheckPastIterator DEF Next

\* Every step keeps the invariant.
LEMMA NextSkipInv ==
  ASSUME TypeInv, TypeInv', OwedInv, PastIterator, Undisturbed, SkipInv, [Next]_vars,
         GoesOn \/ LogsSuffice
  PROVE  SkipInv'
<1>1. CASE World
  BY <1>1, WorldSkipInv DEF TypeInv
<1>2. CASE UserInterface
  BY <1>2, UserSkipInv DEF TypeInv
<1>3. ASSUME NEW w \in Worker, Check(w) PROVE SkipInv'
  BY <1>3, CheckSkipInv DEF TypeInv, OwedInv
<1>4. CASE UNCHANGED vars
  BY <1>4 DEF vars, envVars, dataVars, uiVars, iterVars, resultVars, histVars,
              SkipInv, UiInv, ProjectInv, ThreadInv, CopyInv, Ahead, QueriedInv, FetchedInv,
              StoringInv, Reached, Covered, Kept, Held, Pending, At
<1> QED
  BY <1>1, <1>2, <1>3, <1>4 DEF Next

\* No commit is skipped: what a Subversion project counts as checked, after its first
\* check, is among its entries, about to be stored, or trimmed, whatever the threads, the
\* user and the faults of the network do in between.  It is assumed that the user does not
\* edit a project, fetch older commits or discard some; and that a check that does not go
\* on from an earlier one is not overtaken by more than NumLogs commits, which one thread
\* without RefreshAll makes sure of.
THEOREM MonitorNoCommitSkipped ==
  ASSUME Undisturbed
  PROVE  Spec /\ [](GoesOn \/ LogsSuffice) => []NoCommitSkipped
<1>1. TypeInv /\ OwedInv /\ PastIterator /\ SkipInv /\ (GoesOn \/ LogsSuffice) /\ [Next]_vars /\ TypeInv'
        => SkipInv' /\ PastIterator'
  BY NextSkipInv, NextPastIterator DEF TypeInv
<1>2. TypeOK /\ SkipInv => NoCommitSkipped
  BY DEF SkipInv, ProjectInv, Reached, Covered, Kept, Held, NoCommitSkipped, Svn, TypeOK
<1> QED
  BY AlwaysTypeInv, AlwaysOwedInv, InitSkipInv, <1>1, <1>2, PTL DEF Spec, TypeInv

-----------------------------------------------------------------------------
(* The invariant behind HashIsFetched.                                     *)

\* No log request fails, and the user neither edits a project nor discards commits: the
\* copy of the project dialog has the hash without the commits that came meanwhile.
HashUndisturbed == "log" \notin Faults /\ UiOps \cap {"edit", "discard"} = {}

\* Fewer commits than one request returns are made after the hash was asked for and
\* before the log is.
FewCommits ==
  \A w \in Worker : pc[w] = "getlog" /\ cur[w] \in GitUrl =>
    head[cur[w]] < headrev[w] + GitLimit

\* The thread that wrote the hash is on its way: once it has fetched the log, the commit
\* is in it.
Fetches(w, u) ==
  /\ cur[w] = u
  /\ headrev[w] = infos[u].lastcheckedhash
  /\ pc[w] = "getlog" \/ (pc[w] = "gitstore" /\ headrev[w] \in logs[w])

HashInv(u) ==
  infos[u].lastcheckedhash # 0 =>
    Held(u, infos[u].lastcheckedhash) \/ \E w \in Worker : Fetches(w, u)

\* The hash a thread works with is that of a commit in the clone, which has no others
\* than the repository.
HashKnown(w) ==
  pc[w] \in {"hash", "getlog"} /\ cur[w] \in GitUrl => headrev[w] \in 1..clone[cur[w]]

CloneInv == \A u \in GitUrl : clone[u] <= head[u]

FetchedHashInv ==
  /\ edit = NoEdit /\ ui.op \notin {"edit", "editok", "discard"}
  /\ \A u \in present \cap GitUrl : HashInv(u)
  /\ \A w \in Worker : HashKnown(w)
  /\ CloneInv

\* The hash stays, and no entry gets lost but for those that are trimmed; or the project
\* is new.
HashStays(u) ==
  \/ infos'[u].lastcheckedhash = 0
  \/ /\ u \in present' => u \in present
     /\ infos'[u].lastcheckedhash = infos[u].lastcheckedhash
     /\ infos[u].log \subseteq infos'[u].log \/ infos'[u] = Trimmed(u, infos[u])

\* What is held is held when a project is saved, or left alone.
LEMMA HashInvStays ==
  ASSUME TypeOK, TypeOK', NEW u \in GitUrl, HashStays(u), u \in present => HashInv(u),
         u \in present',
         \A w \in Worker : Fetches(w, u) /\ infos'[u].lastcheckedhash = infos[u].lastcheckedhash
                             => Fetches(w, u)'
  PROVE  HashInv(u)'
<1> SUFFICES ASSUME infos'[u].lastcheckedhash # 0,
                    ~ \E w \in Worker : Fetches(w, u)'
             PROVE  Held(u, infos[u].lastcheckedhash)'
  BY DEF HashInv
<1>1. /\ infos'[u].lastcheckedhash = infos[u].lastcheckedhash
      /\ infos[u].log \subseteq infos'[u].log \/ infos'[u] = Trimmed(u, infos[u])
      /\ Held(u, infos[u].lastcheckedhash)
  BY DEF HashStays, HashInv
<1>2. u \in Url
  BY UrlInfosAssumption DEF UrlInfosAssumption
<1>3. infos[u] \in Info /\ infos'[u].log \in SUBSET Rev
  BY <1>2 DEF TypeOK, Info
<1>4. PICK r \in Rev : r = infos[u].lastcheckedhash
  BY <1>1, <1>3, MaxRevType DEF Info, Rev, Rev0
<1>5. Held(u, r)'
  <2>1. CASE infos[u].log \subseteq infos'[u].log
    BY <1>1, <1>3, <1>4, <2>1, HeldStays
  <2>2. CASE infos'[u] = Trimmed(u, infos[u])
    BY <1>1, <1>3, <1>4, <2>2, TrimKeeps DEF Held
  <2> QED
    BY <1>1, <2>1, <2>2
<1> QED
  BY <1>1, <1>4, <1>5 DEF Held

-----------------------------------------------------------------------------
(* Steps of the user-interface thread.                                     *)

\* What the user asks for changes entries and hash of no Git project, but by discarding.
LEMMA ChangeHashStays ==
  ASSUME TypeOK, NEW info, NEW next, Change(info, next),
         ui.url \in GitUrl => /\ info.lastcheckedhash = Mine.lastcheckedhash
                              /\ info.log = Mine.log
  PROVE  \A u \in GitUrl : HashStays(u)
<1> SUFFICES ASSUME NEW u \in GitUrl PROVE HashStays(u)
  OBVIOUS
<1>0. u \in Url
  BY UrlInfosAssumption DEF UrlInfosAssumption
<1>1. CASE ui.url = u
  BY <1>0, <1>1 DEF TypeOK, Change, Mine, HashStays
<1>2. CASE ui.url # u
  BY <1>0, <1>2 DEF TypeOK, Change, Mine, HashStays
<1> QED
  BY <1>1, <1>2

\* The user interface changes neither the hash nor the entries, but for a save and for a
\* project that is added or removed.
LEMMA UserHashStays ==
  ASSUME TypeOK, UserInterface, ~Discard, ~StoreEdit
  PROVE  \A u \in GitUrl : HashStays(u)
<1>u. \A u \in GitUrl : u \in Url /\ infos[u] \in Info
  BY UrlInfosAssumption DEF UrlInfosAssumption, TypeOK
<1>m. ui.url \in GitUrl => Mine \in Info
  BY <1>u DEF Mine
<1>i. \A info \in Info :
        /\ [info EXCEPT !.age = 2].log = info.log
        /\ [info EXCEPT !.age = 2].lastcheckedhash = info.lastcheckedhash
        /\ [info EXCEPT !.error = FALSE].log = info.log
        /\ [info EXCEPT !.error = FALSE].lastcheckedhash = info.lastcheckedhash
        /\ [info EXCEPT !.monitored = ~@].log = info.log
        /\ [info EXCEPT !.monitored = ~@].lastcheckedhash = info.lastcheckedhash
        /\ \A s : /\ [info EXCEPT !.unread = s].log = info.log
                  /\ [info EXCEPT !.unread = s].lastcheckedhash = info.lastcheckedhash
  BY DEF Info
<1>1. CASE Reset
  BY <1>1, <1>u, <1>i DEF Reset, HashStays, TypeOK
<1>2. CASE CheckNow
  BY <1>2, ChangeHashStays DEF CheckNow
<1>3. CASE MarkAllAsRead
  BY <1>3, <1>u, <1>i DEF MarkAllAsRead, HashStays, TypeOK
<1>4. CASE Select
  <2>1. PICK s : Change([Mine EXCEPT !.unread = s], UiGoto("none", NoUrl))
    BY <1>4 DEF Select
  <2> QED
    BY <1>m, <1>i, <2>1, ChangeHashStays
<1>5. CASE MarkAsUnread
  <2>1. PICK s : Change([Mine EXCEPT !.unread = s], UiGoto("none", NoUrl))
    BY <1>5 DEF MarkAsUnread
  <2> QED
    BY <1>m, <1>i, <2>1, ChangeHashStays
<1>6. CASE SelectNothing
  BY <1>6, ChangeHashStays DEF SelectNothing
<1>7. CASE ClearError
  <2>1. Change([Mine EXCEPT !.error = FALSE], UiGoto("none", NoUrl))
    BY <1>7 DEF ClearError
  <2> QED
    BY <1>m, <1>i, <2>1, ChangeHashStays
<1>8. CASE ToggleActive
  <2>1. Change([Mine EXCEPT !.monitored = ~@], UiGoto("none", NoUrl))
    BY <1>8 DEF ToggleActive
  <2> QED
    BY <1>m, <1>i, <2>1, ChangeHashStays
<1>9. CASE RefreshAll
  <2>1. PICK rev : Change([Mine EXCEPT !.lastcheckedrev = rev, !.age = 2], UiGoto("getall", ui.url))
    BY <1>9 DEF RefreshAll
  <2>2. ui.url \in GitUrl =>
          /\ [Mine EXCEPT !.lastcheckedrev = rev, !.age = 2].lastcheckedhash = Mine.lastcheckedhash
          /\ [Mine EXCEPT !.lastcheckedrev = rev, !.age = 2].log = Mine.log
    BY <1>m DEF Info
  <2> QED
    BY <2>1, <2>2, ChangeHashStays
<1>10. CASE FetchNext
  <2>1. PICK rev : Change([Mine EXCEPT !.lastcheckedrev = 0, !.startfromrev = rev], UiGoto("getall", ui.url))
    BY <1>10 DEF FetchNext
  <2>2. ui.url \in GitUrl =>
          /\ [Mine EXCEPT !.lastcheckedrev = 0, !.startfromrev = rev].lastcheckedhash = Mine.lastcheckedhash
          /\ [Mine EXCEPT !.lastcheckedrev = 0, !.startfromrev = rev].log = Mine.log
    BY <1>m DEF Info
  <2> QED
    BY <2>1, <2>2, ChangeHashStays
<1>11. CASE Save
  <2>1. \A u \in GitUrl : Trimmed(u, infos[u]).lastcheckedhash = infos[u].lastcheckedhash
    BY <1>u DEF Trimmed, Info
  <2> QED
    BY <1>11, <1>u, <2>1 DEF Save, Trim, TrimAll, HashStays
<1>12. CASE AddProject
  BY <1>12, <1>u DEF AddProject, Replace, NewInfo, HashStays, TypeOK
<1>13. CASE Remove
  BY <1>13, <1>u DEF Remove, Replace, NewInfo, HashStays, TypeOK
<1>14. CASE AskRemove \/ KeepProject \/ OpenEdit \/ EditCancel
  BY <1>14 DEF AskRemove, KeepProject, OpenEdit, EditCancel, Replace, HashStays
<1>15. CASE GetAll \/ Scan \/ EditOk \/ Timer \/ SaveInfo
  BY <1>15 DEF GetAll, Scan, EditOk, Timer, SaveInfo, HashStays, dataVars
<1>16. ASSUME NEW op \in UiOps, NEW u \in Url \cup {NoUrl}, Want(op, u)
       PROVE  \A v \in GitUrl : HashStays(v)
  BY <1>16 DEF Want, HashStays, dataVars
<1> QED
  BY <1>1, <1>2, <1>3, <1>4, <1>5, <1>6, <1>7, <1>8, <1>9, <1>10, <1>11, <1>12, <1>13, <1>14, <1>15, <1>16
  DEF UserInterface, Handle, Answer

\* Without the dialog and without discarding, no step of the user-interface thread
\* opens the dialog or discards.
LEMMA UserHashUi ==
  ASSUME HashUndisturbed, UserInterface,
         edit = NoEdit, ui.op \notin {"edit", "editok", "discard"}
  PROVE  /\ edit' = NoEdit /\ ui'.op \notin {"edit", "editok", "discard"}
         /\ ~Discard /\ ~StoreEdit
<1>1. UiOps \cap {"edit", "discard", "editok"} = {}
  BY MonitorAssumption DEF MonitorAssumption, AllUiOps, HashUndisturbed
<1>2. ~Discard /\ ~StoreEdit /\ ~OpenEdit /\ ~EditOk /\ ~EditCancel
  BY DEF Discard, StoreEdit, OpenEdit, EditOk, EditCancel, Doing
<1>3. edit' = NoEdit
  BY <1>2 DEF UserInterface, Handle, Answer, GetAll, Reset, Scan, Save, Trim, CheckNow, MarkAllAsRead, Select, MarkAsUnread, SelectNothing, ClearError, ToggleActive, RefreshAll, FetchNext, AddProject, AskRemove, Remove, KeepProject, Timer, SaveInfo, Want, Change, Replace
<1>4. ui'.op \notin {"edit", "editok", "discard"}
  <2> USE DEF Change, Replace, UiGoto
  <2>1. CASE GetAll \/ Reset \/ Scan \/ Save \/ Timer \/ SaveInfo
    BY <2>1 DEF GetAll, Reset, Scan, Save, Timer, SaveInfo
  <2>6. CASE CheckNow
    BY <2>6 DEF CheckNow
  <2>7. CASE MarkAllAsRead
    BY <2>7 DEF MarkAllAsRead
  <2>8. CASE Select
    BY <2>8 DEF Select
  <2>9. CASE MarkAsUnread
    BY <2>9 DEF MarkAsUnread
  <2>10. CASE SelectNothing
    BY <2>10 DEF SelectNothing
  <2>11. CASE ClearError
    BY <2>11 DEF ClearError
  <2>12. CASE ToggleActive
    BY <2>12 DEF ToggleActive
  <2>13. CASE RefreshAll
    BY <2>13 DEF RefreshAll
  <2>14. CASE FetchNext
    BY <2>14 DEF FetchNext
  <2>4. CASE AddProject \/ AskRemove \/ Remove \/ KeepProject
    BY <2>4 DEF AddProject, AskRemove, Remove, KeepProject
  <2>5. ASSUME NEW op \in UiOps, NEW u \in Url \cup {NoUrl}, Want(op, u)
        PROVE  ui'.op \notin {"edit", "editok", "discard"}
    BY <1>1, <2>5 DEF Want
  <2> QED
    BY <1>2, <2>1, <2>4, <2>5, <2>6, <2>7, <2>8, <2>9, <2>10, <2>11, <2>12, <2>13, <2>14 DEF UserInterface, Handle, Answer
<1> QED
  BY <1>2, <1>3, <1>4

\* A step of the user-interface thread, or of the world.
LEMMA OutsideHashInv ==
  ASSUME TypeOK, TypeOK', FetchedHashInv,
         edit' = NoEdit /\ ui'.op \notin {"edit", "editok", "discard"},
         UNCHANGED <<iterVars, resultVars>>,
         \A v \in Worker : pc'[v] = pc[v] \/ {pc[v], pc'[v]} \subseteq {"idle", "created"},
         clone' = clone, \A u \in GitUrl : head'[u] >= head[u] /\ HashStays(u)
  PROVE  FetchedHashInv'
<1>1. ASSUME NEW u \in present' \cap GitUrl PROVE HashInv(u)'
  <2>1. ASSUME NEW w \in Worker, Fetches(w, u),
               infos'[u].lastcheckedhash = infos[u].lastcheckedhash
        PROVE  Fetches(w, u)'
    BY <2>1 DEF Fetches, iterVars, resultVars
  <2> QED
    BY <1>1, <2>1, HashInvStays DEF FetchedHashInv
<1>2. \A w \in Worker : HashKnown(w)'
  BY DEF FetchedHashInv, HashKnown, iterVars, resultVars
<1>3. CloneInv'
  <2>1. \A u \in GitUrl : clone[u] \in Nat /\ head[u] \in Nat /\ head'[u] \in Nat
    BY UrlInfosAssumption DEF UrlInfosAssumption, TypeOK, Rev
  <2> QED
    BY <2>1 DEF CloneInv, FetchedHashInv
<1> QED
  BY <1>1, <1>2, <1>3 DEF FetchedHashInv

\* Every step of the user-interface thread keeps the invariant.
LEMMA UserFetchedHashInv ==
  ASSUME TypeOK, TypeOK', HashUndisturbed, FetchedHashInv, UserInterface
  PROVE  FetchedHashInv'
<1>1. /\ edit' = NoEdit /\ ui'.op \notin {"edit", "editok", "discard"}
      /\ ~Discard /\ ~StoreEdit
  BY UserHashUi DEF FetchedHashInv
<1>2. UNCHANGED <<head, clone, iterVars, resultVars>>
  BY UserFrame DEF envVars
<1>3. \A v \in Worker : pc'[v] = pc[v] \/ {pc[v], pc'[v]} \subseteq {"idle", "created"}
  BY UserFrame DEF At, Goto, TypeOK
<1>4. \A u \in GitUrl : head'[u] >= head[u]
  BY <1>2, UrlInfosAssumption DEF UrlInfosAssumption, TypeOK, Rev
<1> QED
  BY <1>1, <1>2, <1>3, <1>4, UserHashStays, OutsideHashInv

\* So do the commits and the time.
LEMMA WorldFetchedHashInv ==
  ASSUME TypeOK, TypeOK', FetchedHashInv, World
  PROVE  FetchedHashInv'
<1>u. GitUrl \subseteq Url
  BY UrlInfosAssumption DEF UrlInfosAssumption
<1>1. UNCHANGED <<iterVars, resultVars, pc, present, uiVars, clone>>
  BY DEF World, Commit, Elapse, dataVars, envVars
<1>2. ASSUME NEW v \in Url, Commit(v)
      PROVE  \A u \in GitUrl : head'[u] >= head[u] /\ HashStays(u)
  <2>1. \A u \in GitUrl : head'[u] >= head[u]
    BY <1>2, <1>u DEF Commit, TypeOK, Rev
  <2> QED
    BY <1>2, <2>1 DEF Commit, dataVars, HashStays
<1>3. ASSUME NEW v \in Url, Elapse(v)
      PROVE  \A u \in GitUrl : head'[u] >= head[u] /\ HashStays(u)
  <2>1. \A info \in Info : \A age :
        /\ [info EXCEPT !.age = age].log = info.log
        /\ [info EXCEPT !.age = age].lastcheckedhash = info.lastcheckedhash
    BY DEF Info
  <2>2. \A u \in GitUrl : head'[u] >= head[u]
    BY <1>3, <1>u DEF Elapse, envVars, TypeOK, Rev
  <2> QED
    BY <1>3, <1>u, <2>1, <2>2 DEF Elapse, HashStays, TypeOK
<1> QED
  BY <1>1, <1>2, <1>3, OutsideHashInv DEF World, FetchedHashInv, uiVars

-----------------------------------------------------------------------------
(* Steps of a monitor thread.                                              *)

\* A critical section that changes one project and neither its hash nor takes an entry away.
LEMMA UpdateHashStays ==
  ASSUME TypeOK, NEW w \in Worker, NEW info, Update(w, info), UNCHANGED present,
         cur[w] \in GitUrl => /\ info.lastcheckedhash = Shared(w).lastcheckedhash
                              /\ Shared(w).log \subseteq info.log
  PROVE  \A u \in GitUrl : HashStays(u)
<1> SUFFICES ASSUME NEW u \in GitUrl PROVE HashStays(u)
  OBVIOUS
<1>0. u \in Url
  BY UrlInfosAssumption DEF UrlInfosAssumption
<1>1. CASE cur[w] = u
  BY <1>0, <1>1 DEF TypeOK, Update, Shared, HashStays
<1>2. CASE cur[w] # u
  BY <1>0, <1>2 DEF TypeOK, Update, Shared, HashStays
<1> QED
  BY <1>1, <1>2

\* Only SetHash changes the hash, and no critical section removes an entry.
LEMMA CheckHashStays ==
  ASSUME TypeOK, NEW w \in Worker, Check(w), ~SetHash(w)
  PROVE  \A u \in GitUrl : HashStays(u)
<1>s. cur[w] \in GitUrl => Shared(w) \in Info
  BY UrlInfosAssumption DEF UrlInfosAssumption, TypeOK, Shared
<1>i. \A info \in Info :
        /\ \A auth : /\ Failed(info, auth).lastcheckedhash = info.lastcheckedhash
                     /\ Failed(info, auth).log = info.log
        /\ \A rev : /\ Checked(info, rev).lastcheckedhash = info.lastcheckedhash
                    /\ Checked(info, rev).log = info.log
                    /\ StoreOne(info, rev).lastcheckedhash = info.lastcheckedhash
                    /\ info.log \subseteq StoreOne(info, rev).log
        /\ \A revs : /\ StoreMissing(info, revs).lastcheckedhash = info.lastcheckedhash
                     /\ info.log \subseteq StoreMissing(info, revs).log
  BY DEF Info, Failed, Checked, StoreOne, StoreMissing
<1>1. CASE Denied(w)
  BY <1>1, <1>s, <1>i, UpdateHashStays DEF Denied
<1>2. CASE LogFailed(w)
  <2>1. PICK auth : Update(w, Failed(Shared(w), auth)) /\ UNCHANGED present
    BY <1>2 DEF LogFailed
  <2> QED
    BY <1>s, <1>i, <2>1, UpdateHashStays
<1>3. CASE NoUpdates(w)
  <2>1. PICK e, a : /\ Update(w, [Shared(w) EXCEPT !.age = 0, !.error = e, !.notAuthorized = a])
                    /\ UNCHANGED present
    BY <1>3 DEF NoUpdates
  <2>2. cur[w] \in GitUrl =>
          LET info == [Shared(w) EXCEPT !.age = 0, !.error = e, !.notAuthorized = a] IN
            /\ info.lastcheckedhash = Shared(w).lastcheckedhash
            /\ Shared(w).log \subseteq info.log
    BY <1>s DEF Info
  <2> QED
    BY <2>1, <2>2, UpdateHashStays
<1>4. CASE SetChecked(w)
  <2>1. PICK rev : Update(w, Checked(Shared(w), rev)) /\ UNCHANGED present
    BY <1>4 DEF SetChecked
  <2> QED
    BY <1>s, <1>i, <2>1, UpdateHashStays
<1>5. CASE StoreNext(w)
  <2>1. PICK rev : Update(w, StoreOne(Shared(w), rev)) /\ UNCHANGED present
    BY <1>5 DEF StoreNext
  <2> QED
    BY <1>s, <1>i, <2>1, UpdateHashStays
<1>6. CASE GitStore(w)
  <2>1. PICK revs : Update(w, StoreMissing(Shared(w), revs)) /\ UNCHANGED present
    BY <1>6 DEF GitStore
  <2> QED
    BY <1>s, <1>i, <2>1, UpdateHashStays
<1>7. CASE RunThread(w) \/ Snapshot(w) \/ NextProject(w) \/ Filter(w) \/ Due(w) \/ GetHEADRevision(w) \/ GetLatestCommit(w) \/ FetchLog(w) \/ Notify(w) \/ Popup(w) \/ ErrPopup(w) \/ Finish(w) \/ End(w) \/ ThreadEnds(w)
  <2>1. UNCHANGED <<infos, present>>
    BY <1>7 DEF RunThread, Snapshot, NextProject, Filter, Due, GetHEADRevision, GetLatestCommit, FetchLog, Notify, Popup, ErrPopup, Finish, End, ThreadEnds, dataVars
  <2> QED
    BY <2>1 DEF HashStays
<1>8. CASE StoreDone(w)
  <2>1. UNCHANGED present /\ (infos' = infos \/ Robots(w))
    BY <1>8 DEF StoreDone
  <2>2. CASE infos' = infos
    BY <2>1, <2>2 DEF HashStays
  <2>3. CASE Robots(w)
    <3>1. PICK age : Update(w, [Shared(w) EXCEPT !.age = age])
      BY <2>3 DEF Robots
    <3>2. cur[w] \in GitUrl => LET info == [Shared(w) EXCEPT !.age = age] IN
            /\ info.lastcheckedhash = Shared(w).lastcheckedhash
            /\ Shared(w).log \subseteq info.log
      BY <1>s DEF Info
    <3> QED
      BY <2>1, <3>1, <3>2, UpdateHashStays
  <2> QED
    BY <2>1, <2>2, <2>3
<1> QED
  BY <1>1, <1>2, <1>3, <1>4, <1>5, <1>6, <1>7, <1>8 DEF Check

\* Only "git fetch" changes a clone, and takes nothing away from it.
LEMMA CheckClone ==
  ASSUME TypeOK, AtProject, CloneInv, NEW w \in Worker, Check(w), NEW u \in GitUrl
  PROVE  clone[u] <= clone'[u] /\ clone'[u] <= head[u]
<1>1. u \in Url /\ clone[u] \in Nat /\ head[u] \in Nat /\ clone[u] <= head[u]
  BY UrlInfosAssumption DEF UrlInfosAssumption, TypeOK, Rev, CloneInv
<1>2. clone' = clone \/ clone' = [clone EXCEPT ![cur[w]] = head[cur[w]]]
  <2>1. CASE GetLatestCommit(w) \/ FetchLog(w)
    BY <2>1 DEF GetLatestCommit, FetchLog, Fetch, envVars
  <2>2. CASE ~GetLatestCommit(w) /\ ~FetchLog(w)
    BY <2>2 DEF Check, RunThread, Snapshot, NextProject, Filter, Due, GetHEADRevision, Denied, SetHash, GitStore, SetChecked, StoreNext, StoreDone, Notify, Popup, LogFailed, NoUpdates, ErrPopup, Finish, End, ThreadEnds, envVars
  <2> QED
    BY <2>1, <2>2
<1>3. clone'[u] \in {clone[u], head[u]}
  <2>1. clone \in [Url -> Rev]
    BY DEF TypeOK
  <2> QED
    BY <1>1, <1>2, <2>1
<1> QED
  BY <1>1, <1>3

\* What the thread asks for is the newest commit of the clone.
LEMMA OwnHashKnown ==
  ASSUME TypeOK, AtProject, CloneInv, NEW w \in Worker, Check(w), HashKnown(w)
  PROVE  HashKnown(w)'
<1> SUFFICES ASSUME pc'[w] \in {"hash", "getlog"}, cur'[w] \in GitUrl
             PROVE  headrev'[w] \in 1..clone'[cur'[w]]
  BY DEF HashKnown
<1>p. pc \in [Worker -> PC]
  BY DEF TypeOK
<1>1. CASE SetHash(w)
  BY <1>1 DEF SetHash, At, HashKnown, envVars, iterVars, resultVars
<1>2. CASE GetLatestCommit(w)
  <2>1. /\ cur'[w] = cur[w] /\ headrev'[w] = clone'[cur[w]]
        /\ cur[w] \in Url /\ Fetch(cur[w])
    BY <1>2, <1>p DEF GetLatestCommit, Request, GotoUnlessStopped, Goto, At, AtProject, TypeOK, iterVars
  <2>2. clone'[cur[w]] \in 1..clone'[cur[w]]
    BY <2>1, FetchTypes DEF Rev
  <2> QED
    BY <2>1, <2>2
<1>3. CASE GetHEADRevision(w)
  BY <1>3 DEF GetHEADRevision, iterVars
<1>4. CASE ~SetHash(w) /\ ~GetLatestCommit(w) /\ ~GetHEADRevision(w)
  <2> USE <1>p DEF At, Goto, GotoUnlessStopped
  <2>1. CASE RunThread(w) \/ Snapshot(w) \/ NextProject(w) \/ Filter(w) \/ Due(w)
    BY <2>1 DEF RunThread, Snapshot, NextProject, Filter, Due
  <2>2. CASE Denied(w) \/ FetchLog(w) \/ GitStore(w) \/ SetChecked(w)
    BY <2>2 DEF Denied, FetchLog, GitStore, SetChecked
  <2>3. CASE StoreNext(w) \/ StoreDone(w) \/ Notify(w) \/ Popup(w)
    BY <2>3 DEF StoreNext, StoreDone, AfterStore, Notify, Popup
  <2>4. CASE LogFailed(w) \/ NoUpdates(w) \/ ErrPopup(w) \/ Finish(w) \/ End(w) \/ ThreadEnds(w)
    BY <2>4 DEF LogFailed, NoUpdates, ErrPopup, Finish, End, ThreadEnds
  <2> QED
    BY <1>4, <2>1, <2>2, <2>3, <2>4 DEF Check
<1> QED
  BY <1>1, <1>2, <1>3, <1>4

\* Every step of a monitor thread, of one of any number of them.  A thread that is told
\* to stop before it writes the hash does not fetch the log.
LEMMA CheckHashInv ==
  ASSUME TypeOK, TypeOK', AtProject, HashUndisturbed, FewCommits, FetchedHashInv,
         NEW w \in Worker, Check(w), pc[w] = "hash" => bRun, NEW u \in GitUrl, u \in present'
  PROVE  HashInv(u)'
<1>u. u \in Url
  BY UrlInfosAssumption DEF UrlInfosAssumption
<1>o. \A v \in Worker \ {w} : SameThread(v)
  BY CheckFrame
<1>p. pc \in [Worker -> PC] /\ logs \in [Worker -> SUBSET Rev]
  BY DEF TypeOK
<1>k. HashKnown(w) /\ (u \in present => HashInv(u))
  BY DEF FetchedHashInv
<1>1. CASE SetHash(w)
  <2>1. /\ pc[w] = "hash" /\ pc'[w] = "getlog"
        /\ headrev'[w] = headrev[w] /\ cur'[w] = cur[w] /\ present' = present
    BY <1>1, <1>p DEF SetHash, At, Goto, GotoUnlessStopped, iterVars, resultVars
  <2>2. CASE u = cur[w]
    <3>1. infos[u] \in Info /\ infos'[u] = [infos[u] EXCEPT !.lastcheckedhash = headrev[w]]
      BY <1>1, <1>u, <2>1, <2>2 DEF SetHash, Update, Shared, TypeOK
    <3>2. infos'[u].lastcheckedhash = headrev[w]
      BY <3>1 DEF Info
    <3>3. Fetches(w, u)'
      BY <2>1, <2>2, <3>2 DEF Fetches
    <3> QED
      BY <3>3 DEF HashInv
  <2>3. CASE u # cur[w]
    <3>1. infos'[u] = infos[u]
      BY <1>1, <1>u, <2>3 DEF SetHash, Update, TypeOK
    <3>2. HashStays(u)
      BY <2>1, <3>1 DEF HashStays
    <3>3. \A v \in Worker : Fetches(v, u) => Fetches(v, u)'
      BY <1>o, <2>1, <2>3, <3>1 DEF Fetches, SameThread
    <3> QED
      BY <1>k, <3>2, <3>3, HashInvStays
  <2> QED
    BY <2>2, <2>3
<1>2. CASE ~SetHash(w)
  <2>1. HashStays(u)
    BY <1>2, CheckHashStays
  <2>2. ASSUME NEW v \in Worker \ {w}, Fetches(v, u),
               infos'[u].lastcheckedhash = infos[u].lastcheckedhash
        PROVE  Fetches(v, u)'
    BY <1>o, <2>2 DEF Fetches, SameThread
  <2>3. CASE ~Fetches(w, u)
    BY <1>k, <2>1, <2>2, <2>3, HashInvStays
  <2>4. CASE Fetches(w, u) /\ FetchLog(w)
    <3>1. /\ pc[w] = "getlog" /\ cur[w] = u /\ head[u] < headrev[w] + GitLimit
          /\ headrev[w] \in 1..clone[u]
      BY <1>k, <2>4 DEF FetchLog, At, Fetches, FewCommits, HashKnown
    <3>2. /\ pc'[w] = "gitstore" /\ logs'[w] = GetGitLog(clone'[u], GitLimit)
          /\ headrev'[w] = headrev[w] /\ cur'[w] = u
      BY <1>p, <2>4, <3>1 DEF FetchLog, HashUndisturbed, Goto, iterVars
    <3>3. headrev[w] \in logs'[w]
      <4>1. /\ head[u] \in Nat /\ clone[u] \in Nat /\ clone'[u] \in Rev /\ clone'[u] \in Nat
        BY <1>u DEF TypeOK, Rev
      <4>2. clone[u] <= clone'[u] /\ clone'[u] <= head[u]
        BY CheckClone DEF FetchedHashInv
      <4>3. headrev[w] \in 1..clone'[u] /\ clone'[u] - headrev[w] < GitLimit
        <5>1. GitLimit \in Nat
          BY UrlInfosAssumption DEF UrlInfosAssumption
        <5> QED
          BY <3>1, <4>1, <4>2, <5>1
      <4> QED
        BY <3>2, <4>1, <4>3, GitLogCovers
    <3>4. infos'[u].lastcheckedhash = infos[u].lastcheckedhash => Fetches(w, u)'
      BY <2>4, <3>2, <3>3 DEF Fetches
    <3> QED
      BY <1>k, <2>1, <2>2, <3>4, HashInvStays
  <2>5. CASE Fetches(w, u) /\ GitStore(w)
    <3>1. /\ cur[w] = u /\ headrev[w] = infos[u].lastcheckedhash /\ headrev[w] \in logs[w]
          /\ u \in present
      BY <2>5 DEF GitStore, At, Fetches
    <3>2. infos[u] \in Info /\ infos'[u] = StoreMissing(infos[u], logs[w])
      BY <1>u, <2>5, <3>1 DEF GitStore, Update, Shared, TypeOK
    <3>3. infos'[u].lastcheckedhash = headrev[w] /\ headrev[w] \in infos'[u].log
      BY <3>1, <3>2 DEF StoreMissing, Info
    <3> QED
      BY <3>3 DEF HashInv, Held
  <2>6. CASE Fetches(w, u) /\ ~FetchLog(w) /\ ~GitStore(w)
    BY <1>2, <2>6 DEF Check, At, Fetches, RunThread, Snapshot, NextProject, Filter, Due, GetHEADRevision, GetLatestCommit, Denied, SetChecked, StoreNext, StoreDone, Notify, Popup, LogFailed, NoUpdates, ErrPopup, Finish, End, ThreadEnds
  <2> QED
    BY <2>3, <2>4, <2>5, <2>6
<1> QED
  BY <1>1, <1>2

\* Every step of a monitor thread keeps the invariant.
LEMMA CheckFetchedHashInv ==
  ASSUME TypeOK, TypeOK', AtProject, HashUndisturbed, FewCommits, FetchedHashInv,
         NEW w \in Worker, Check(w), pc[w] = "hash" => bRun
  PROVE  FetchedHashInv'
<1>1. (\A v \in Worker \ {w} : SameThread(v)) /\ UNCHANGED <<head, uiVars>>
  BY CheckFrame
<1>2. HashKnown(w)'
  BY OwnHashKnown DEF FetchedHashInv
<1>4. \A u \in GitUrl : clone[u] <= clone'[u] /\ clone'[u] <= head[u]
  BY CheckClone DEF FetchedHashInv
<1>5. \A u \in GitUrl : clone[u] \in Nat /\ clone'[u] \in Nat
  BY UrlInfosAssumption DEF UrlInfosAssumption, TypeOK, Rev
<1>3. ASSUME NEW v \in Worker \ {w} PROVE HashKnown(v)'
  BY <1>1, <1>3, <1>4, <1>5 DEF SameThread, HashKnown, FetchedHashInv
<1>6. CloneInv'
  BY <1>1, <1>4 DEF CloneInv
<1> QED
  BY <1>1, <1>2, <1>3, <1>6, CheckHashInv DEF FetchedHashInv, uiVars

\* Every step keeps the invariant.
LEMMA NextFetchedHashInv ==
  ASSUME TypeInv, TypeInv', OwedInv, HashUndisturbed, FewCommits, FetchedHashInv, [Next]_vars
  PROVE  FetchedHashInv'
<1>1. CASE World
  BY <1>1, WorldFetchedHashInv DEF TypeInv
<1>2. CASE UserInterface
  BY <1>2, UserFetchedHashInv DEF TypeInv
<1>3. ASSUME NEW w \in Worker, Check(w) PROVE FetchedHashInv'
  BY <1>3, CheckFetchedHashInv DEF TypeInv, OwedInv
<1>4. CASE UNCHANGED vars
  BY <1>4 DEF vars, envVars, dataVars, uiVars, iterVars, resultVars, FetchedHashInv, HashInv,
              Held, Fetches, HashKnown, CloneInv
<1> QED
  BY <1>1, <1>2, <1>3, <1>4 DEF Next

\* The commit whose hash a Git project counts as checked was fetched, or is about to be,
\* by any number of threads: provided that no request for a log fails (it is then missing for
\* ever: run finding_githash), that fewer commits than a request returns come in between, and
\* that the user neither discards commits nor edits the project.
THEOREM MonitorHashIsFetched ==
  ASSUME HashUndisturbed
  PROVE  Spec /\ []FewCommits => []HashIsFetched
<1>1. Init => FetchedHashInv
  BY UrlInfosAssumption, MonitorAssumption DEF UrlInfosAssumption, Init, FetchedHashInv, HashInv, HashKnown, CloneInv, NewInfo, NoUi,
         MonitorAssumption, Rev
<1>2. TypeInv /\ OwedInv /\ FewCommits /\ FetchedHashInv /\ [Next]_vars /\ TypeInv' => FetchedHashInv'
  BY NextFetchedHashInv
<1>3. FetchedHashInv => HashIsFetched
  BY DEF FetchedHashInv, HashInv, Held, Fetches, HashIsFetched
<1> QED
  BY AlwaysTypeInv, AlwaysOwedInv, <1>1, <1>2, <1>3, PTL DEF Spec
=============================================================================
