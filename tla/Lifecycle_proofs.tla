-------------------------- MODULE Lifecycle_proofs --------------------------
(***************************************************************************)
(* What remains true however the process ends and starts again: the proofs *)
(* of ReturnIsClean, NewCommitsTurnEyesRed, QuietSaveSkipsNoCommit and     *)
(* QuietStartSkipsNoCommit, and for Git projects of QuietSaveHoldsHash and *)
(* QuietStartFetchesHash.                                                  *)
(***************************************************************************)
EXTENDS Lifecycle, Commits_proofs

-----------------------------------------------------------------------------
(* Types.                                                                  *)

DiskType ==
  /\ disk.present \subseteq Url
  /\ disk.infos \in [Url -> Info]
  /\ disk.since \in [Url -> Rev0]

LifecycleTypeInv == TypeInv /\ DiskType

\* What is written has the types of what is in memory.
LEMMA ImageType ==
  ASSUME NEW keys \in SUBSET Url, NEW values \in [Url -> Info], NEW history \in [Url -> Rev0],
         disk' = Image(keys, values, history)
  PROVE  DiskType'
<1>1. \A info \in Info : [info EXCEPT !.startfromrev = 0] \in Info
  BY MaxRevType DEF Info, Rev0
<1> QED
  BY <1>1 DEF Image, DiskType

\* A save erases entries only.
LEMMA TrimAllType ==
  ASSUME NEW values \in [Url -> Info]
  PROVE  TrimAll(values) \in [Url -> Info]
BY TrimmedIsInfo DEF TrimAll

\* The steps at the end of the process keep the types.
LEMMA EndsTypeInv ==
  ASSUME TypeInv, KeepsWork, process' \in Process, infos' \in [Url -> Info],
         bRun' \in BOOLEAN, threadRunning' \in BOOLEAN, handle' \in Worker \cup {NoWorker},
         saveinfo' \in BOOLEAN
  PROVE  TypeInv'
BY DEF TypeInv, TypeOK, Dialogs, AtProject, KeepsWork, envVars, uiVars, iterVars, resultVars,
       flagVars, histVars

\* A save and what follows it keep the types, also those of the file.
LEMMA SavesTypeInv ==
  ASSUME LifecycleTypeInv, NEW p \in Process, SavesAndEndsAs(p),
         bRun' \in BOOLEAN, threadRunning' \in BOOLEAN, handle' \in Worker \cup {NoWorker},
         saveinfo' \in BOOLEAN
  PROVE  LifecycleTypeInv'
<1>1. process' \in Process /\ infos' \in [Url -> Info] /\ KeepsWork
  BY TrimAllType DEF SavesAndEndsAs, EndsAs, Trim, Process, LifecycleTypeInv, TypeInv, TypeOK
<1>2. TypeInv'
  BY <1>1, EndsTypeInv DEF LifecycleTypeInv
<1>3. DiskType'
  <2>1. CASE disk' = disk
    BY <2>1 DEF LifecycleTypeInv, DiskType
  <2>2. CASE disk' = Image(present, infos', since)
    BY <1>1, <2>2, ImageType DEF LifecycleTypeInv, TypeInv, TypeOK
  <2> QED
    BY <2>1, <2>2 DEF SavesAndEndsAs
<1> QED
  BY <1>2, <1>3 DEF LifecycleTypeInv

\* So do the steps of the threads and of the world.
LEMMA WorkTypeInv ==
  ASSUME LifecycleTypeInv, Work
  PROVE  LifecycleTypeInv'
<1>1. ASSUME Next PROVE TypeInv'
  <2>1. TypeInv /\ [Next]_vars
    BY <1>1 DEF LifecycleTypeInv
  <2> QED
    BY <2>1, NextTypeInv
<1>2. ASSUME NEW w \in Worker, Check(w) PROVE TypeInv'
  <2>1. TypeOK' /\ AtProject'
    BY <1>2, CheckTypeOK, CheckAtProject DEF LifecycleTypeInv, TypeInv
  <2>2. Dialogs'
    BY <1>2, CheckFrame DEF LifecycleTypeInv, TypeInv, Dialogs, uiVars
  <2> QED
    BY <2>1, <2>2 DEF TypeInv
<1>3. TypeInv'
  BY <1>1, <1>2 DEF Work, LifecycleTypeInv
<1>4. DiskType'
  <2>1. CASE disk' = disk
    BY <2>1 DEF LifecycleTypeInv, DiskType
  <2>2. CASE disk' = Image(present', infos', since')
    <3>1. PICK k, v, h : k = present' /\ v = infos' /\ h = since'
      OBVIOUS
    <3>2. k \in SUBSET Url /\ v \in [Url -> Info] /\ h \in [Url -> Rev0]
      BY <1>3, <3>1 DEF TypeInv, TypeOK
    <3> QED
      BY <2>2, <3>1, <3>2, ImageType
  <2> QED
    BY <2>1, <2>2 DEF Work
<1> QED
  BY <1>3, <1>4 DEF LifecycleTypeInv

\* The steps at the end of the process, apart from saving.
LEMMA StopTypeInv ==
  ASSUME LifecycleTypeInv, StopThread \/ StopThreadReturns \/ Crash
  PROVE  LifecycleTypeInv'
<1>1. /\ KeepsWork /\ process' \in Process /\ infos' = infos
      /\ bRun' \in BOOLEAN /\ threadRunning' \in BOOLEAN /\ handle' \in Worker \cup {NoWorker}
      /\ saveinfo' \in BOOLEAN /\ disk' = disk
  BY DEF StopThread, StopThreadReturns, StopResult, Crash, EndsAs, Process, LifecycleTypeInv,
         TypeInv, TypeOK
<1>2. TypeInv'
  BY <1>1, EndsTypeInv DEF LifecycleTypeInv, TypeInv, TypeOK
<1> QED
  BY <1>1, <1>2 DEF LifecycleTypeInv, DiskType

\* So does what is loaded.
LEMMA RestartTypeInv ==
  ASSUME LifecycleTypeInv, Restart
  PROVE  LifecycleTypeInv'
<1>1. 0 \in Rev0 /\ NewInfo \in Info
  BY InfoTypes, MaxRevType DEF Rev0
<1>2. TypeOK'
  <2>1. /\ head' \in [Url -> Rev] /\ clone' \in [Url -> Rev] /\ present' \subseteq Url /\ infos' \in [Url -> Info]
        /\ since' \in [Url -> Rev0] /\ owed' \in [Url -> SUBSET Rev] /\ userOps' \in 0..MaxUserOps
    BY DEF Restart, LifecycleTypeInv, DiskType, TypeInv, TypeOK, envVars, NothingOwed
  <2>2. /\ lock' \in {Free, UiThread} \cup Worker
        /\ ui' \in [op : UiStep, url : Url \cup {NoUrl}]
        /\ edit' \in [url : Url \cup {NoUrl}, info : Info]
        /\ confirm' \in Url \cup {NoUrl} /\ urlToWorkOn' \in Url \cup {NoUrl}
    BY <1>1 DEF Restart, NoUi, NoEdit, UiStep
  <2>3. /\ bRun' \in BOOLEAN /\ threadRunning' \in BOOLEAN /\ saveinfo' \in BOOLEAN
        /\ handle' \in Worker \cup {NoWorker} /\ process' \in Process
    BY DEF Restart, Process
  <2>4. /\ pc' \in [Worker -> PC] /\ todo' \in [Worker -> SUBSET Url]
        /\ cur' \in [Worker -> Url \cup {NoUrl}] /\ copy' \in [Worker -> [Url -> Info]]
    BY <1>1 DEF Restart, PC
  <2>5. /\ headrev' \in [Worker -> Rev0] /\ failure' \in [Worker -> {"none", "connect", "auth"}]
        /\ logs' \in [Worker -> SUBSET Rev] /\ newEntries' \in [Worker -> BOOLEAN]
        /\ needsSaving' \in [Worker -> BOOLEAN]
    BY <1>1 DEF Restart
  <2> QED
    BY <2>1, <2>2, <2>3, <2>4, <2>5 DEF TypeOK
<1>3. Dialogs' /\ AtProject'
  BY DEF Restart, NoUi, Dialogs, AtProject
<1>4. DiskType'
  BY DEF Restart, LifecycleTypeInv, DiskType
<1> QED
  BY <1>2, <1>3, <1>4 DEF LifecycleTypeInv, TypeInv

\* The types hold in every state, also of what is read from the file.
LEMMA AlwaysLifecycleTypeInv == LifecycleSpec => []LifecycleTypeInv
<1>1. LifecycleInit => LifecycleTypeInv
  <2> SUFFICES ASSUME LifecycleInit PROVE LifecycleTypeInv
    OBVIOUS
  <2>1. TypeInv
    BY InitTypeInv DEF LifecycleInit
  <2>2. \A info \in Info : [info EXCEPT !.startfromrev = 0] \in Info
    BY MaxRevType DEF Info, Rev0
  <2>3. DiskType
    BY <2>1, <2>2 DEF LifecycleInit, Image, DiskType, TypeInv, TypeOK
  <2> QED
    BY <2>1, <2>3 DEF LifecycleTypeInv
<1>2. LifecycleTypeInv /\ [LifecycleNext]_lifecycleVars => LifecycleTypeInv'
  <2> SUFFICES ASSUME LifecycleTypeInv, [LifecycleNext]_lifecycleVars PROVE LifecycleTypeInv'
    OBVIOUS
  <2>1. CASE Exit \/ LastSaveInfo
    BY <2>1, SavesTypeInv DEF Exit, LastSaveInfo, Process, LifecycleTypeInv, TypeInv, TypeOK
  <2>2. CASE UNCHANGED lifecycleVars
    <3>1. [Next]_vars /\ disk' = disk
      BY <2>2 DEF lifecycleVars
    <3> QED
      BY <3>1, NextTypeInv DEF LifecycleTypeInv, DiskType
  <2> QED
    BY <2>1, <2>2, WorkTypeInv, StopTypeInv, RestartTypeInv DEF LifecycleNext
<1> QED
  BY <1>1, <1>2, PTL DEF LifecycleSpec

-----------------------------------------------------------------------------
(* ReturnIsClean, as long as no two monitor threads are at work at a time: *)
(* of two, StopThread waits only for the one that was created last, and    *)
(* m_ThreadRunning is cleared by whichever ends first.                     *)

\* The thread uses nothing that others see: it is not there, or is about to end.
Gone(w) == pc[w] \in {"idle", "leaving"}

OneAtATime == \A v, w \in Worker : ~Gone(v) /\ ~Gone(w) => v = w

\* The flag is set while the thread is at work, and StopThread knows the thread.
ReturnInv ==
  /\ \A w \in Worker : ~Gone(w) /\ pc[w] # "created" => threadRunning
  /\ process \in {"running", "quitting", "ending", "stopping"} =>
       \A w \in Worker : ~Gone(w) => handle = w
  /\ ReturnIsClean

\* A step of a monitor thread: the flag is only cleared by one that is about to end.
LEMMA CheckReturn ==
  ASSUME TypeOK, NEW w \in Worker, Check(w),
         ~Gone(w) /\ pc[w] # "created" => threadRunning
  PROVE  /\ pc[w] # "idle"
         /\ handle' = handle
         /\ process' \in {process, "crashed"}
         /\ threadRunning' \/ Gone(w)'
<1>p. pc \in [Worker -> PC]
  BY DEF TypeOK
<1> USE <1>p DEF At, Goto, GotoUnlessStopped, threadVars, Gone
<1>1. CASE RunThread(w) \/ End(w) \/ ThreadEnds(w)
  BY <1>1 DEF RunThread, End, ThreadEnds
<1>2. CASE Notify(w)
  BY <1>2 DEF Notify
<1>3. CASE ~RunThread(w) /\ ~End(w) /\ ~ThreadEnds(w) /\ ~Notify(w)
  <2>1. UNCHANGED threadVars /\ pc[w] \notin {"idle", "created", "leaving"}
    BY <1>3 DEF Check, Snapshot, NextProject, Filter, Due, GetHEADRevision, GetLatestCommit, Denied, SetHash, FetchLog, GitStore, SetChecked, StoreNext, StoreDone, Popup, LogFailed, NoUpdates, ErrPopup, Finish
  <2> QED
    BY <2>1
<1> QED
  BY <1>1, <1>2, <1>3

\* StopThread returns without terminating the process only when no thread is there.
LEMMA ReturnsWhenIdle ==
  ASSUME ReturnInv, StopThreadReturns, StopResult # "terminated"
  PROVE  \A w \in Worker : Gone(w)
<1>1. handle = NoWorker \/ ~threadRunning
  BY DEF StopResult
<1>2. NoWorker \notin Worker
  BY MonitorAssumption DEF MonitorAssumption
<1> QED
  BY <1>1, <1>2 DEF ReturnInv, StopThreadReturns, Waited, At, Gone

\* Every step keeps the invariant.
LEMMA NextReturnInv ==
  ASSUME TypeOK, OneAtATime, OneAtATime', ReturnInv, [LifecycleNext]_lifecycleVars
  PROVE  ReturnInv'
<1>0. /\ NoWorker \notin Worker /\ pc \in [Worker -> PC] /\ process \in Process
      /\ \A v, w \in Worker : ~Gone(v) /\ ~Gone(w) => v = w
      /\ \A v, w \in Worker : ~Gone(v)' /\ ~Gone(w)' => v = w
  BY MonitorAssumption DEF MonitorAssumption, TypeOK, OneAtATime
<1> USE DEF Gone
<1>i. \A w \in Worker :
        /\ ~Gone(w) /\ pc[w] # "created" => threadRunning
        /\ process \in {"running", "quitting", "ending", "stopping"} /\ ~Gone(w) => handle = w
        /\ process = "returned" => Gone(w)
  BY DEF ReturnInv, ReturnIsClean
<1> DEFINE New(w) ==
        /\ ~Gone(w)' /\ pc'[w] # "created" => threadRunning'
        /\ process' \in {"running", "quitting", "ending", "stopping"} /\ ~Gone(w)' => handle' = w
        /\ process' = "returned" => Gone(w)'
<1> SUFFICES \A w \in Worker : New(w)
  BY DEF ReturnInv, ReturnIsClean
<1>1. CASE Work
  <2>1. CASE World
    BY <1>i, <2>1 DEF World, Commit, Elapse, threadVars
  <2>2. CASE process = "running" /\ UserInterface
    BY <1>0, <1>i, <2>2, UserFrame DEF At, Goto
  <2>3. ASSUME process # "returned", NEW w \in Worker, Check(w) PROVE \A v \in Worker : New(v)
    <3>0. \A v \in Worker \ {w} : pc'[v] = pc[v]
      BY <2>3, CheckFrame DEF SameThread
    <3>1. CASE ThreadEnds(w)
      BY <1>0, <1>i, <3>0, <3>1, <2>3 DEF ThreadEnds, At, Goto, threadVars
    <3>2. CASE ~ThreadEnds(w)
      <4>1. ~Gone(w)
        BY <2>3, <3>2 DEF Check, At, RunThread, Snapshot, NextProject, Filter, Due, GetHEADRevision, GetLatestCommit, Denied, SetHash, FetchLog, GitStore, SetChecked, StoreNext, StoreDone, Notify, Popup, LogFailed, NoUpdates, ErrPopup, Finish, End, ThreadEnds
      <4>2. \A v \in Worker \ {w} : Gone(v) /\ Gone(v)'
        BY <1>0, <3>0, <4>1
      <4>3. New(w)
        BY <1>i, <2>3, <4>1, CheckReturn
      <4> QED
        BY <4>2, <4>3
    <3> QED
      BY <3>1, <3>2
  <2> QED
    BY <1>1, <2>1, <2>2, <2>3 DEF Work, Next
<1>2. CASE Exit \/ LastSaveInfo
  BY <1>2, <1>i DEF Exit, LastSaveInfo, SavesAndEndsAs, Trim, EndsAs, KeepsWork
<1>3. CASE StopThread
  BY <1>3, <1>i DEF StopThread, EndsAs, KeepsWork
<1>4. CASE StopThreadReturns
  <2>1. pc' = pc /\ threadRunning' = threadRunning
    BY <1>4 DEF StopThreadReturns, EndsAs, KeepsWork
  <2>2. CASE StopResult = "terminated"
    BY <1>4, <1>i, <2>1, <2>2 DEF StopThreadReturns, EndsAs
  <2>3. CASE StopResult # "terminated"
    BY <1>4, <2>1, <2>3, ReturnsWhenIdle
  <2> QED
    BY <2>2, <2>3
<1>5. CASE Crash
  BY <1>5, <1>i DEF Crash, EndsAs, KeepsWork
<1>6. CASE Restart
  BY <1>6 DEF Restart
<1>7. CASE UNCHANGED lifecycleVars
  BY <1>7, <1>i DEF lifecycleVars, vars, threadVars
<1> QED
  BY <1>1, <1>2, <1>3, <1>4, <1>5, <1>6, <1>7 DEF LifecycleNext

\* The process returns from WinMain only when the monitor thread has ended, or is about
\* to and uses nothing any more, whatever the thread was at when it was told to stop, and
\* however often the process was asked to end: if the thread is too late, StopThread
\* terminates the process.  It is assumed that no two threads are at work at a time, which
\* a thread that sets m_ThreadRunning before the next timer makes sure of.
THEOREM LifecycleReturnIsClean == LifecycleSpec /\ []OneAtATime => []ReturnIsClean
<1>1. LifecycleInit => ReturnInv
  BY DEF LifecycleInit, Init, ReturnInv, ReturnIsClean, Gone
<1>2. LifecycleTypeInv /\ OneAtATime /\ OneAtATime' /\ ReturnInv /\ [LifecycleNext]_lifecycleVars
        => ReturnInv'
  BY NextReturnInv DEF LifecycleTypeInv, TypeInv
<1>3. ReturnInv => ReturnIsClean
  BY DEF ReturnInv
<1> QED
  BY AlwaysLifecycleTypeInv, <1>1, <1>2, <1>3, PTL DEF LifecycleSpec

-----------------------------------------------------------------------------
(* NewCommitsTurnEyesRed, for any number of monitor threads.               *)

\* What is owed while the process runs.  StopThread tells the threads to stop, and
\* they may leave a project without its popup: the process does not run any more.
RunningOwes == process = "running" => OwedInv

\* The process that goes on running does what Monitor says, or was just started.
LEMMA NextRunningOwes ==
  ASSUME TypeInv, RunningOwes, [LifecycleNext]_lifecycleVars
  PROVE  RunningOwes'
<1> SUFFICES ASSUME process' = "running" PROVE OwedInv'
  BY DEF RunningOwes
<1>t. TypeOK /\ AtProject
  BY DEF TypeInv
<1>1. CASE Restart
  BY <1>1 DEF Restart, OwedInv, Unannounced, NothingOwed
<1>2. CASE Work
  <2>1. process = "running"
    <3>1. \A w \in Worker : Check(w) => process' \in {process, "crashed"}
      BY <1>t DEF Check, RunThread, Snapshot, NextProject, Filter, Due, GetHEADRevision, GetLatestCommit, Denied, SetHash, FetchLog, GitStore, SetChecked, StoreNext, StoreDone, Notify, Popup, LogFailed, NoUpdates, ErrPopup, Finish, End, ThreadEnds, threadVars
    <3>2. World => process' = process
      BY DEF World, Commit, Elapse, threadVars
    <3> QED
      BY <1>2, <3>1, <3>2 DEF Work, Next
  <2>2. OwedInv
    BY <2>1 DEF RunningOwes
  <2>3. CASE World
    BY <1>t, <2>2, <2>3, WorldOwedInv
  <2>4. CASE UserInterface
    BY <1>t, <2>2, <2>4, UserOwedInv
  <2>5. ASSUME NEW w \in Worker, Check(w) PROVE OwedInv'
    BY <1>t, <2>2, <2>5, CheckOwedInv
  <2> QED
    BY <1>2, <2>3, <2>4, <2>5 DEF Work, Next
<1>3. CASE UNCHANGED lifecycleVars
  BY <1>3 DEF RunningOwes, OwedInv, Unannounced, lifecycleVars, vars, dataVars, iterVars, threadVars, flagVars, histVars
<1>4. ~(Exit \/ LastSaveInfo \/ StopThread \/ StopThreadReturns \/ Crash)
  BY DEF Exit, LastSaveInfo, StopThread, StopThreadReturns, StopResult, Crash, SavesAndEndsAs,
         EndsAs, Trim
<1> QED
  BY <1>1, <1>2, <1>3, <1>4 DEF LifecycleNext

\* In every process that is started, and however the processes before it ended, the icon
\* has turned red for every commit that a check of this process has found and nobody has
\* read when no check runs any more, with any number of monitor threads.
THEOREM LifecycleNewCommitsTurnEyesRed == LifecycleSpec => []NewCommitsTurnEyesRed
<1>1. LifecycleInit => RunningOwes
  BY DEF LifecycleInit, Init, RunningOwes, OwedInv, Unannounced, NothingOwed
<1>2. LifecycleTypeInv /\ RunningOwes /\ [LifecycleNext]_lifecycleVars => RunningOwes'
  BY NextRunningOwes DEF LifecycleTypeInv
<1>3. RunningOwes => NewCommitsTurnEyesRed
  BY DEF RunningOwes, OwedInv, Unannounced, NewCommitsTurnEyesRed
<1> QED
  BY AlwaysLifecycleTypeInv, <1>1, <1>2, <1>3, PTL DEF LifecycleSpec

-----------------------------------------------------------------------------
(* QuietSaveSkipsNoCommit.                                                 *)

\* The thread was told to stop while it was at work: it may leave a project that is
\* marked as checked without its commits, but nothing is saved any more.  While the
\* window procedure waits in StopThread the thread cannot send its last messages, so
\* that it does not end and the process is terminated.
Doomed ==
  \/ process \in {"stopping", "returned", "terminated", "crashed"}
  \/ process = "ending" /\ \E w \in Worker :
       handle = w /\ threadRunning /\ pc[w] \notin {"idle", "created", "end", "leaving"}

DiskHeld(u, r) == r \in disk.infos[u].log \/ IsTrimmed(u, disk.infos[u], r)

DiskCovered(u, n) == disk.since[u] # 0 => \A r \in (disk.since[u] + 1)..n : DiskHeld(u, r)

\* What ProjectInv says, of a project in the file.
DiskProjectInv(u) ==
  /\ disk.since[u] # 0 => u \in disk.present
  /\ disk.infos[u].startfromrev = 0
  /\ disk.infos[u].log \subseteq 1..head[u]
  /\ DiskCovered(u, disk.infos[u].lastcheckedrev)
  /\ GoesOn /\ disk.since[u] # 0 => disk.infos[u].lastcheckedrev # 0
  /\ \A r \in disk.infos[u].log : DiskCovered(u, r)

\* The thread goes on until it is told to stop, and its iterator goes forward.
RunsInv ==
  /\ process \in {"running", "quitting"} =>
       \A w \in Worker : ~Gone(w) /\ pc[w] # "created" => bRun
  /\ PastIterator

QuietInv ==
  /\ RunsInv
  /\ tainted \/ Doomed \/ SkipInv
  /\ disk.checking \/ \A u \in Svn : DiskProjectInv(u)

\* What is written is what is in memory, with its history.
LEMMA ImageHolds ==
  ASSUME NEW keys, NEW values \in [Url -> Info], NEW history, disk' = Image(keys, values, history)
  PROVE  /\ disk'.present = keys /\ disk'.since = history
         /\ disk'.checking = (Checking \/ tainted)
         /\ \A u \in Url : /\ disk'.infos[u].startfromrev = 0
                           /\ disk'.infos[u].lastcheckedrev = values[u].lastcheckedrev
                           /\ disk'.infos[u].log = values[u].log
BY DEF Image, Info

\* While no thread stores commits, what is kept of a project is among its entries.
LEMMA ImageSkipInv ==
  ASSUME TypeOK', Undisturbed, SkipInv', disk' = Image(present', infos', since'),
         \A u, r : ~Pending(u, r)', NEW u \in Svn
  PROVE  DiskProjectInv(u)'
<1>1. /\ disk'.present = present' /\ disk'.since = since'
      /\ disk'.infos[u].startfromrev = 0
      /\ disk'.infos[u].lastcheckedrev = infos'[u].lastcheckedrev
      /\ disk'.infos[u].log = infos'[u].log
  <2>1. PICK k, v, h : k = present' /\ v = infos' /\ h = since'
    OBVIOUS
  <2>2. v \in [Url -> Info]
    BY <2>1 DEF TypeOK
  <2> QED
    BY <2>1, <2>2, ImageHolds DEF Svn
<1>2. ProjectInv(u)'
  BY DEF SkipInv
<1>3. \A r : Kept(u, r)' => DiskHeld(u, r)'
  BY <1>1 DEF Kept, Held, DiskHeld, IsTrimmed, KeysAfter
<1> QED
  BY <1>1, <1>2, <1>3 DEF ProjectInv, Reached, Covered, DiskProjectInv, DiskCovered

\* A file that is not written stays as good as it is.
LEMMA DiskStays ==
  ASSUME TypeOK, TypeOK', NEW u \in Svn, DiskProjectInv(u), disk' = disk, head'[u] >= head[u]
  PROVE  DiskProjectInv(u)'
<1>1. head[u] \in Nat /\ head'[u] \in Nat
  BY DEF TypeOK, Svn, Rev
<1>2. disk'.infos[u].log \subseteq 1..head'[u]
  BY <1>1 DEF DiskProjectInv
<1> QED
  BY <1>2 DEF DiskProjectInv, DiskCovered, DiskHeld, IsTrimmed, KeysAfter

\* What is loaded is as good as what was saved.
LEMMA RestartSkipInv ==
  ASSUME OneThread, Restart, \A u \in Svn : DiskProjectInv(u)
  PROVE  SkipInv'
<1>1. UiInv'
  BY DEF Restart, UiInv, NoUi
<1>2. ASSUME NEW u \in Svn PROVE ProjectInv(u)'
  <2>1. DiskProjectInv(u)
    OBVIOUS
  <2>2. /\ head' = head /\ since' = disk.since /\ present' = disk.present /\ infos' = disk.infos
    BY DEF Restart, envVars
  <2>3. \A r : DiskHeld(u, r) => Kept(u, r)'
    BY <2>2 DEF DiskHeld, Kept, Held
  <2> QED
    BY <2>1, <2>2, <2>3 DEF ProjectInv, Reached, Covered, DiskProjectInv, DiskCovered
<1>3. ASSUME NEW w \in Worker PROVE ThreadInv(w)'
  <2>1. /\ pc'[w] = "idle" /\ todo'[w] = {} /\ copy'[w] = [u \in Url |-> NewInfo]
    BY DEF Restart
  <2> QED
    BY <2>1 DEF ThreadInv, CopyInv, Ahead, QueriedInv, FetchedInv, StoringInv, Svn, NewInfo
<1> QED
  BY <1>1, <1>2, <1>3 DEF SkipInv

\* The end of the process leaves the monitor's work alone, but for what a save trims.
LEMMA KeepsSkipInv ==
  ASSUME TypeOK, TypeOK', AtProject, Undisturbed, SkipInv, KeepsWork,
         infos' = infos \/ infos' = TrimAll(infos)
  PROVE  SkipInv'
<1>1. /\ UNCHANGED <<head, present, since, edit, ui, confirm, pc>>
      /\ UNCHANGED <<iterVars, resultVars>>
  BY DEF KeepsWork, envVars, uiVars, histVars
<1>2. UiInv'
  BY <1>1 DEF SkipInv, UiInv
<1>3. \A u, r : Pending(u, r) => Pending(u, r)'
  BY <1>1 DEF Pending, At, iterVars, resultVars
<1>4. \A u \in Svn : head'[u] >= head[u]
  BY <1>1 DEF TypeOK, Svn, Rev
<1>5. \A u \in Svn : \/ Aside(u)
                     \/ ProjectInv(u)' /\ Passes(u) /\ infos'[u].log \subseteq infos[u].log
  <2>1. CASE infos' = infos
    BY <1>1, <2>1 DEF Aside
  <2>2. CASE infos' = TrimAll(infos)
    BY <1>1, <1>3, <1>4, <2>2, TrimSkips DEF SkipInv
  <2> QED
    BY <2>1, <2>2
<1> QED
  BY <1>1, <1>2, <1>4, <1>5, OutsideSkipInv

\* The iterator of the thread, and the flag that lets it go on.
LEMMA NextRuns ==
  ASSUME TypeOK, OneThread, ReturnInv, RunsInv, [LifecycleNext]_lifecycleVars
  PROVE  RunsInv'
<1> DEFINE Runs == process' \in {"running", "quitting"} =>
                     \A w \in Worker : pc'[w] \notin {"idle", "created", "leaving"} => bRun'
<1> SUFFICES PastIterator' /\ Runs
  BY DEF RunsInv, Gone
<1>q. /\ PastIterator /\ pc \in [Worker -> PC]
      /\ process \in {"running", "quitting"} =>
           \A w \in Worker : pc[w] \notin {"idle", "created", "leaving"} => bRun
  BY DEF RunsInv, TypeOK, Gone
<1>1. CASE World \/ UNCHANGED lifecycleVars
  <2>1. UNCHANGED <<pc, iterVars, bRun, process>>
    BY <1>1 DEF World, Commit, Elapse, lifecycleVars, vars, threadVars
  <2> QED
    BY <1>q, <2>1 DEF PastIterator, iterVars
<1>2. CASE UserInterface
  <2>1. UNCHANGED iterVars /\ bRun' = bRun
    BY <1>2, UserFrame
  <2>2. /\ process' \in {process, "crashed"}
        /\ pc' = pc \/ \E w \in Worker : pc' = [pc EXCEPT ![w] = "created"]
    BY <1>2, UserFrame DEF Goto
  <2>3. PastIterator'
    BY <1>q, <2>1, <2>2 DEF PastIterator, iterVars
  <2>4. Runs
    BY <1>q, <2>1, <2>2
  <2> QED
    BY <2>3, <2>4
<1>3. ASSUME NEW w \in Worker, Check(w) PROVE PastIterator' /\ Runs
  <2>1. PastIterator'
    BY <1>3, <1>q, CheckPastIterator
  <2>2. process' \in {process, "crashed"} /\ pc[w] # "idle"
    BY <1>3, CheckReturn DEF ReturnInv
  <2>3. bRun' = bRun \/ bRun'
    BY <1>3 DEF Check, RunThread, Snapshot, NextProject, Filter, Due, GetHEADRevision, GetLatestCommit, Denied, SetHash, FetchLog, GitStore, SetChecked, StoreNext, StoreDone, Notify, Popup, LogFailed, NoUpdates, ErrPopup, Finish, End, ThreadEnds, threadVars
  <2>4. pc[w] = "created" => bRun'
    BY <1>3 DEF Check, At, RunThread, Snapshot, NextProject, Filter, Due, GetHEADRevision, GetLatestCommit, Denied, SetHash, FetchLog, GitStore, SetChecked, StoreNext, StoreDone, Notify, Popup, LogFailed, NoUpdates, ErrPopup, Finish, End, ThreadEnds
  <2>5. \A v \in Worker \ {w} : pc'[v] = pc[v]
    BY <1>3, CheckFrame DEF SameThread
  <2>6. pc[w] = "leaving" => pc'[w] = "idle"
    BY <1>3, <1>q DEF Check, At, Goto, RunThread, Snapshot, NextProject, Filter, Due, GetHEADRevision, GetLatestCommit, Denied, SetHash, FetchLog, GitStore, SetChecked, StoreNext, StoreDone, Notify, Popup, LogFailed, NoUpdates, ErrPopup, Finish, End, ThreadEnds
  <2>7. Runs
    BY <1>q, <2>2, <2>3, <2>4, <2>5, <2>6
  <2> QED
    BY <2>1, <2>7
<1>4. CASE Exit \/ LastSaveInfo \/ StopThread \/ Crash
  <2>1. /\ UNCHANGED <<pc, iterVars>>
        /\ process' \in {"running", "quitting"} => process \in {"running", "quitting"} /\ bRun' = bRun
    BY <1>4 DEF Exit, LastSaveInfo, StopThread, Crash, SavesAndEndsAs, Trim, EndsAs, KeepsWork
  <2> QED
    BY <1>q, <2>1 DEF PastIterator, iterVars
<1>5. CASE StopThreadReturns
  <2>1. UNCHANGED <<pc, iterVars>> /\ (process' = "quitting" => StopResult # "terminated") /\ process' # "running"
    BY <1>5 DEF StopThreadReturns, StopResult, EndsAs, KeepsWork
  <2> QED
    BY <1>5, <1>q, <2>1, ReturnsWhenIdle DEF PastIterator, iterVars, Gone
<1>6. CASE Restart
  BY <1>6 DEF Restart, PastIterator
<1> QED
  BY <1>1, <1>2, <1>3, <1>4, <1>5, <1>6 DEF LifecycleNext, Work, Next

\* A step of the thread after which something may still be saved: nothing was doomed
\* before it either, and where it writes what a project counts as checked it was not
\* told to stop.  Told to stop for good, it can not end any more.
LEMMA CheckNotDoomed ==
  ASSUME LifecycleTypeInv, ReturnInv, RunsInv, NEW w \in Worker, Check(w), ~Doomed'
  PROVE  ~Doomed /\ (pc[w] \in {"hash", "checked", "store"} => bRun)
<1>1. TypeOK /\ pc \in [Worker -> PC] /\ process \in Process
  BY DEF LifecycleTypeInv, TypeInv, TypeOK
<1>2. /\ pc[w] # "idle" /\ handle' = handle /\ process' \in {process, "crashed"}
      /\ threadRunning' \/ Gone(w)'
      /\ ~Gone(w) /\ pc[w] # "created" => threadRunning
      /\ process \in {"running", "quitting", "ending", "stopping"} /\ ~Gone(w) => handle = w
  BY <1>1, CheckReturn DEF ReturnInv
<1>3. CASE process = "ending" /\ pc[w] \notin {"idle", "created", "end", "leaving"}
  <2>1. pc'[w] \notin {"idle", "created", "end", "leaving"}
    BY <1>1, <1>3 DEF Check, At, Goto, GotoUnlessStopped, AfterStore, UiPumps, RunThread, Snapshot, NextProject, Filter, Due, GetHEADRevision, GetLatestCommit, Denied, SetHash, FetchLog, GitStore, SetChecked, StoreNext, StoreDone, Notify, Popup, LogFailed, NoUpdates, ErrPopup, Finish, End, ThreadEnds
  <2> QED
    BY <1>2, <1>3, <2>1 DEF Doomed, Gone
<1>4. CASE process \in {"stopping", "returned", "terminated", "crashed"}
  BY <1>2, <1>4 DEF Doomed
<1>5. CASE process \in {"running", "quitting"} \/ (process = "ending" /\ pc[w] \in {"created", "end"})
  BY <1>2, <1>5 DEF RunsInv, Doomed, Gone
<1>6. CASE process = "ending" /\ pc[w] = "leaving"
  <2>1. UNCHANGED <<process, handle, threadRunning>> /\ pc' = [pc EXCEPT ![w] = "idle"]
    BY <1>6 DEF Check, At, Goto, threadVars, RunThread, Snapshot, NextProject, Filter, Due, GetHEADRevision, GetLatestCommit, Denied, SetHash, FetchLog, GitStore, SetChecked, StoreNext, StoreDone, Notify, Popup, LogFailed, NoUpdates, ErrPopup, Finish, End, ThreadEnds
  <2> QED
    BY <1>1, <1>6, <2>1 DEF Doomed
<1> QED
  BY <1>1, <1>2, <1>3, <1>4, <1>5, <1>6 DEF Process

\* What the thread at work finds, whoever takes the step: nothing is lost that may be
\* saved.
LEMMA CheckMemory ==
  ASSUME LifecycleTypeInv, LifecycleTypeInv', OneThread, Undisturbed, GoesOn \/ LogsSuffice,
         ReturnInv, QuietInv, NEW w \in Worker, Check(w)
  PROVE  Doomed' \/ tainted \/ SkipInv'
<1> SUFFICES ASSUME ~Doomed', ~tainted PROVE SkipInv'
  OBVIOUS
<1>1. TypeOK /\ TypeOK' /\ AtProject
  BY DEF LifecycleTypeInv, TypeInv
<1>2. ~Doomed /\ (pc[w] \in {"checked", "store"} => bRun)
  BY CheckNotDoomed DEF QuietInv
<1> QED
  BY <1>1, <1>2, CheckSkipInv DEF QuietInv, RunsInv

\* What is in memory is as good as what SkipInv says, or will not be saved.
LEMMA NextMemory ==
  ASSUME LifecycleTypeInv, LifecycleTypeInv', OneThread, Undisturbed, GoesOn \/ LogsSuffice,
         ReturnInv, QuietInv, [LifecycleNext]_lifecycleVars
  PROVE  (tainted \/ Doomed \/ SkipInv)'
<1>1. TypeOK /\ TypeOK' /\ AtProject /\ process \in Process /\ NoWorker \notin Worker
  BY MonitorAssumption DEF MonitorAssumption, LifecycleTypeInv, TypeInv, TypeOK
<1>2. tainted \/ Doomed \/ SkipInv
  BY DEF QuietInv
<1>k. ASSUME KeepsWork, infos' = infos \/ infos' = TrimAll(infos), SkipInv PROVE SkipInv'
  BY <1>1, <1>k, KeepsSkipInv
<1>3. CASE Work
  <2>1. tainted' = tainted
    BY <1>3 DEF Work
  <2>2. CASE World
    <3>1. Doomed => Doomed'
      BY <2>2 DEF World, Commit, Elapse, Doomed, threadVars
    <3> QED
      BY <1>1, <1>2, <2>1, <2>2, <3>1, WorldSkipInv
  <2>3. CASE process = "running" /\ UserInterface
    BY <1>1, <1>2, <2>1, <2>3, UserSkipInv DEF Doomed
  <2>4. ASSUME NEW w \in Worker, Check(w) PROVE (tainted \/ Doomed \/ SkipInv)'
    BY <2>1, <2>4, CheckMemory
  <2> QED
    BY <1>3, <2>2, <2>3, <2>4 DEF Work, Next
<1>4. CASE Exit \/ LastSaveInfo
  <2>1. /\ KeepsWork /\ tainted' = tainted /\ process \in {"running", "quitting"}
        /\ infos' = infos \/ infos' = TrimAll(infos)
    BY <1>4 DEF Exit, LastSaveInfo, SavesAndEndsAs, EndsAs, Trim, KeepsWork
  <2> QED
    BY <1>2, <1>k, <2>1 DEF Doomed
<1>5. CASE StopThread
  <2>1. /\ KeepsWork /\ tainted' = tainted /\ infos' = infos /\ process \in {"running", "quitting"}
    BY <1>5 DEF StopThread, EndsAs, KeepsWork
  <2> QED
    BY <1>2, <1>k, <2>1 DEF Doomed
<1>6. CASE StopThreadReturns
  <2>1. KeepsWork /\ tainted' = tainted /\ infos' = infos
    BY <1>6 DEF StopThreadReturns, EndsAs, KeepsWork
  <2>2. CASE Doomed
    BY <1>1, <1>6, <2>2 DEF StopThreadReturns, StopResult, EndsAs, Doomed
  <2> QED
    BY <1>2, <1>k, <2>1, <2>2
<1>7. CASE Crash
  BY <1>7 DEF Crash, EndsAs, Doomed
<1>8. CASE Restart
  <2>1. tainted' = disk.checking
    BY <1>8 DEF Restart
  <2> QED
    BY <1>8, <2>1, RestartSkipInv DEF QuietInv
<1>9. CASE UNCHANGED lifecycleVars
  <2>1. [Next]_vars /\ UNCHANGED <<process, handle, threadRunning, pc, tainted>>
    BY <1>9 DEF lifecycleVars, vars, threadVars
  <2>2. Doomed => Doomed'
    BY <2>1 DEF Doomed
  <2>3. KeepsWork /\ infos' = infos
    BY <1>9 DEF lifecycleVars, vars, threadVars, KeepsWork, dataVars
  <2> QED
    BY <1>2, <1>k, <2>1, <2>2, <2>3
<1> QED
  BY <1>3, <1>4, <1>5, <1>6, <1>7, <1>8, <1>9 DEF LifecycleNext

\* The commits of the other repositories stay, and so does the file that is not written.
LEMMA HeadGrows ==
  ASSUME TypeOK, [LifecycleNext]_lifecycleVars
  PROVE  \A u \in Svn : head'[u] >= head[u]
<1>1. \A u \in Svn : head[u] \in Nat
  BY DEF TypeOK, Svn, Rev
<1>2. CASE \E v \in Url : Commit(v)
  BY <1>1, <1>2 DEF Commit, TypeOK, Svn
<1>3. CASE head' = head
  BY <1>1, <1>3
<1>4. CASE Work /\ ~\E v \in Url : Commit(v)
  <2>1. \A w \in Worker : Check(w) => head' = head
    BY CheckFrame
  <2>2. UserInterface => head' = head
    BY UserFrame DEF envVars
  <2>3. \A v \in Url : Elapse(v) => head' = head
    BY DEF Elapse, envVars
  <2> QED
    BY <1>3, <1>4, <2>1, <2>2, <2>3 DEF Work, Next, World
<1>5. CASE ~Work
  <2>1. head' = head
    BY <1>5 DEF LifecycleNext, Exit, LastSaveInfo, StopThread, StopThreadReturns, Crash, Restart,
                SavesAndEndsAs, EndsAs, KeepsWork, envVars, lifecycleVars, vars
  <2> QED
    BY <1>3, <2>1
<1> QED
  BY <1>2, <1>4, <1>5

\* No step that saves stores commits.
LEMMA SavesWhileRunning ==
  ASSUME LifecycleTypeInv, Work, Saves
  PROVE  process = "running" /\ UserInterface
<1>1. TypeOK
  BY DEF LifecycleTypeInv, TypeInv
<1>2. \A w \in Worker : Check(w) => ui' = ui
  BY <1>1, CheckFrame DEF uiVars
<1>3. World => ui' = ui
  BY DEF World, Commit, Elapse, uiVars
<1> QED
  BY <1>2, <1>3 DEF Work, Next, Saves

\* A save while no thread is at work, by a process that loaded nothing else.
LEMMA SavedIsCovered ==
  ASSUME TypeOK, TypeOK', Undisturbed, SkipInv', disk' = Image(present', infos', since'),
         ~Checking, pc' = pc \/ \E w \in Worker : pc' = [pc EXCEPT ![w] = "created"]
  PROVE  \A u \in Svn : DiskProjectInv(u)'
<1>1. \A w \in Worker : pc'[w] # "store"
  BY DEF Checking, TypeOK
<1>2. \A u, r : ~Pending(u, r)'
  BY <1>1 DEF Pending, At
<1> QED
  BY <1>2, ImageSkipInv

\* What is saved while no check runs lacks nothing.
LEMMA NextDisk ==
  ASSUME LifecycleTypeInv, LifecycleTypeInv', OneThread, Undisturbed, GoesOn \/ LogsSuffice,
         ReturnInv, QuietInv, [LifecycleNext]_lifecycleVars
  PROVE  (disk.checking \/ \A u \in Svn : DiskProjectInv(u))'
<1>1. TypeOK /\ TypeOK' /\ AtProject
  BY DEF LifecycleTypeInv, TypeInv
<1>2. CASE disk' = disk
  BY <1>1, <1>2, HeadGrows, DiskStays DEF QuietInv
<1>3. CASE Work /\ Saves
  <2>1. process = "running" /\ UserInterface /\ disk' = Image(present', infos', since')
    BY <1>3, SavesWhileRunning DEF Work
  <2>2. disk'.checking = (Checking \/ tainted)
    BY <2>1 DEF Image
  <2>3. pc' = pc \/ \E w \in Worker : pc' = [pc EXCEPT ![w] = "created"]
    BY <2>1, UserFrame DEF Goto
  <2>4. ASSUME ~tainted PROVE SkipInv'
    BY <1>1, <2>1, <2>4, UserSkipInv DEF QuietInv, Doomed
  <2> QED
    BY <1>1, <2>1, <2>2, <2>3, <2>4, SavedIsCovered
<1>4. CASE (Exit \/ LastSaveInfo) /\ disk' # disk
  <2>1. /\ KeepsWork /\ infos' = TrimAll(infos) /\ process \in {"running", "quitting"}
        /\ disk' = Image(present, infos', since)
    BY <1>4 DEF Exit, LastSaveInfo, SavesAndEndsAs, Trim
  <2>2. disk'.checking = (Checking \/ tainted)
    BY <2>1 DEF Image
  <2>3. pc' = pc /\ present' = present /\ since' = since
    BY <2>1 DEF KeepsWork, histVars
  <2>4. ASSUME ~tainted PROVE SkipInv'
    BY <1>1, <2>1, <2>4, KeepsSkipInv DEF QuietInv, Doomed
  <2>5. disk' = Image(present', infos', since')
    BY <2>1, <2>3
  <2> QED
    BY <1>1, <2>2, <2>3, <2>4, <2>5, SavedIsCovered
<1> QED
  BY <1>2, <1>3, <1>4 DEF LifecycleNext, Work, StopThread, StopThreadReturns, Crash, Restart, lifecycleVars

\* Initially the file is as empty of commits as the memory.
LEMMA InitQuietInv == LifecycleInit => QuietInv
<1> SUFFICES ASSUME LifecycleInit PROVE QuietInv
  OBVIOUS
<1>1. SkipInv /\ PastIterator
  BY InitSkipInv DEF LifecycleInit
<1>2. \A w \in Worker : pc[w] = "idle"
  BY DEF LifecycleInit, Init
<1>3. ASSUME NEW u \in Svn PROVE DiskProjectInv(u)
  <2>1. disk.since[u] = 0 /\ disk.infos[u] = [NewInfo EXCEPT !.startfromrev = 0]
    BY DEF LifecycleInit, Init, Image, Svn
  <2> QED
    BY <2>1 DEF DiskProjectInv, DiskCovered, NewInfo
<1> QED
  BY <1>1, <1>2, <1>3 DEF QuietInv, RunsInv, Gone

\* The invariants hold under these assumptions.
LEMMA AlwaysQuietInv ==
  ASSUME OneThread, Undisturbed
  PROVE  LifecycleSpec /\ [](GoesOn \/ LogsSuffice) => []QuietInv
<1>1. LifecycleInit => ReturnInv
  BY DEF LifecycleInit, Init, ReturnInv, ReturnIsClean, Gone
<1>2. OneAtATime /\ OneAtATime'
  BY DEF OneThread, OneAtATime
<1>3. LifecycleTypeInv /\ ReturnInv /\ [LifecycleNext]_lifecycleVars => ReturnInv'
  BY <1>2, NextReturnInv DEF LifecycleTypeInv, TypeInv
<1>4. LifecycleTypeInv /\ LifecycleTypeInv' /\ (GoesOn \/ LogsSuffice) /\ ReturnInv /\ QuietInv
        /\ [LifecycleNext]_lifecycleVars => QuietInv'
  <2> SUFFICES ASSUME LifecycleTypeInv, LifecycleTypeInv', GoesOn \/ LogsSuffice, ReturnInv,
                      QuietInv, [LifecycleNext]_lifecycleVars
               PROVE  QuietInv'
    OBVIOUS
  <2>1. TypeOK
    BY DEF LifecycleTypeInv, TypeInv
  <2> QED
    BY <2>1, NextRuns, NextMemory, NextDisk DEF QuietInv
<1> QED
  BY AlwaysLifecycleTypeInv, InitQuietInv, <1>1, <1>3, <1>4, PTL DEF LifecycleSpec

\* A file that was saved while no check was running, by a process that did not load
\* anything else, lacks no commit the next check does not ask for: whatever was saved
\* before, however often the process was stopped, killed or crashed, and at whatever
\* point of a check.  It is assumed that there is one monitor thread at a time, that
\* the first check of a project is not overtaken by more than NumLogs commits, and that
\* the user does not edit a project, nor fetch or discard commits.
THEOREM LifecycleQuietSaveSkipsNoCommit ==
  ASSUME OneThread, Undisturbed
  PROVE  LifecycleSpec /\ [](GoesOn \/ LogsSuffice) => []QuietSaveSkipsNoCommit
<1>1. LifecycleTypeInv /\ QuietInv => QuietSaveSkipsNoCommit
  BY DEF LifecycleTypeInv, DiskType, QuietInv, DiskProjectInv, DiskCovered, DiskHeld, Svn,
         QuietSaveSkipsNoCommit, DiskSkipsNoCommit
<1> QED
  BY AlwaysLifecycleTypeInv, AlwaysQuietInv, <1>1, PTL

\* Nor does the process that loaded such a file skip a commit while it runs, at any
\* point of any of its checks, although startfromrev was not saved: what is in the
\* file and what is fetched after it leave no gap.
THEOREM LifecycleQuietStartSkipsNoCommit ==
  ASSUME OneThread, Undisturbed
  PROVE  LifecycleSpec /\ [](GoesOn \/ LogsSuffice) => []QuietStartSkipsNoCommit
<1>1. LifecycleTypeInv /\ QuietInv => QuietStartSkipsNoCommit
  <2> SUFFICES ASSUME LifecycleTypeInv, QuietInv, process = "running", ~tainted
               PROVE  NoCommitSkipped
    BY DEF QuietStartSkipsNoCommit
  <2>1. SkipInv
    BY DEF QuietInv, Doomed
  <2> QED
    BY <2>1 DEF SkipInv, ProjectInv, Reached, Covered, Kept, Held, NoCommitSkipped, Svn,
                LifecycleTypeInv, TypeInv, TypeOK
<1> QED
  BY AlwaysLifecycleTypeInv, AlwaysQuietInv, <1>1, PTL

-----------------------------------------------------------------------------
(* The same of the Git projects: QuietSaveHoldsHash, QuietStartFetchesHash.*)

DiskHashInv(u) ==
  u \in disk.present /\ disk.infos[u].lastcheckedhash # 0 =>
    DiskHeld(u, disk.infos[u].lastcheckedhash)

HashQuietInv ==
  /\ RunsInv
  /\ CloneInv
  /\ tainted \/ Doomed \/ FetchedHashInv
  /\ disk.checking \/ \A u \in GitUrl : DiskHashInv(u)

\* While no thread is about to fetch or to store a log, the commit is there.
LEMMA ImageHashInv ==
  ASSUME TypeOK, TypeOK', FetchedHashInv', disk' = Image(present', infos', since'), ~Checking,
         pc' = pc \/ \E w \in Worker : pc' = [pc EXCEPT ![w] = "created"],
         NEW u \in GitUrl
  PROVE  DiskHashInv(u)'
<1>u. u \in Url /\ infos' \in [Url -> Info]
  BY UrlInfosAssumption DEF UrlInfosAssumption, TypeOK
<1>1. /\ disk'.present = present'
      /\ disk'.infos[u] = [infos'[u] EXCEPT !.startfromrev = 0]
  BY <1>u DEF Image
<1>2. /\ disk'.infos[u].lastcheckedhash = infos'[u].lastcheckedhash
      /\ disk'.infos[u].log = infos'[u].log
  BY <1>u, <1>1 DEF Info
<1>3. \A w \in Worker : pc'[w] \notin {"getlog", "gitstore"}
  BY DEF Checking, TypeOK
<1>4. u \in present' /\ infos'[u].lastcheckedhash # 0 => Held(u, infos[u].lastcheckedhash)'
  BY <1>3 DEF FetchedHashInv, HashInv, Fetches
<1> QED
  BY <1>1, <1>2, <1>4 DEF DiskHashInv, DiskHeld, Held, IsTrimmed, KeysAfter

\* What is loaded is as good as what was saved.
LEMMA RestartHashInv ==
  ASSUME Restart, CloneInv, \A u \in GitUrl : DiskHashInv(u)
  PROVE  FetchedHashInv'
<1>1. /\ present' = disk.present /\ infos' = disk.infos /\ UNCHANGED <<head, clone>>
      /\ edit' = NoEdit /\ ui' = NoUi /\ pc' = [w \in Worker |-> "idle"]
  BY DEF Restart, envVars
<1>2. ASSUME NEW u \in present' \cap GitUrl PROVE HashInv(u)'
  BY <1>1 DEF HashInv, Held, DiskHashInv, DiskHeld
<1> QED
  BY <1>1, <1>2 DEF FetchedHashInv, HashKnown, CloneInv, NoUi

\* The end of the process changes nothing but for what a save trims.
LEMMA KeepsHashInv ==
  ASSUME TypeOK, TypeOK', FetchedHashInv, KeepsWork, infos' = infos \/ infos' = TrimAll(infos)
  PROVE  FetchedHashInv'
<1>1. UNCHANGED <<head, clone, present, edit, ui, pc>> /\ UNCHANGED <<iterVars, resultVars>>
  BY DEF KeepsWork, envVars, uiVars
<1>2. ASSUME NEW u \in GitUrl PROVE head'[u] >= head[u] /\ HashStays(u)
  <2>1. u \in Url
    BY UrlInfosAssumption DEF UrlInfosAssumption
  <2>2. infos[u] \in Info /\ head[u] \in Nat
    BY <2>1 DEF TypeOK, Rev
  <2>3. infos'[u] = infos[u] \/ infos'[u] = Trimmed(u, infos[u])
    BY <2>1 DEF TrimAll
  <2>4. infos'[u].lastcheckedhash = infos[u].lastcheckedhash
    BY <2>2, <2>3 DEF Trimmed, Info
  <2> QED
    BY <1>1, <2>2, <2>3, <2>4 DEF HashStays
<1> QED
  BY <1>1, <1>2, OutsideHashInv DEF FetchedHashInv

\* What is in memory is as good as what FetchedHashInv says, or will not be saved.
LEMMA NextHashMemory ==
  ASSUME LifecycleTypeInv, LifecycleTypeInv', HashUndisturbed, FewCommits,
         ReturnInv, HashQuietInv, [LifecycleNext]_lifecycleVars
  PROVE  (tainted \/ Doomed \/ FetchedHashInv)'
<1>1. TypeOK /\ TypeOK' /\ AtProject /\ process \in Process /\ NoWorker \notin Worker
  BY MonitorAssumption DEF MonitorAssumption, LifecycleTypeInv, TypeInv, TypeOK
<1>2. tainted \/ Doomed \/ FetchedHashInv
  BY DEF HashQuietInv
<1>k. ASSUME KeepsWork, infos' = infos \/ infos' = TrimAll(infos), FetchedHashInv
      PROVE  FetchedHashInv'
  BY <1>1, <1>k, KeepsHashInv
<1>3. CASE Work
  <2>1. tainted' = tainted
    BY <1>3 DEF Work
  <2>2. CASE World
    <3>1. Doomed => Doomed'
      BY <2>2 DEF World, Commit, Elapse, Doomed, threadVars
    <3> QED
      BY <1>1, <1>2, <2>1, <2>2, <3>1, WorldFetchedHashInv
  <2>3. CASE process = "running" /\ UserInterface
    BY <1>1, <1>2, <2>1, <2>3, UserFetchedHashInv DEF Doomed
  <2>4. ASSUME NEW w \in Worker, Check(w) PROVE (tainted \/ Doomed \/ FetchedHashInv)'
    <3> SUFFICES ASSUME ~Doomed', ~tainted PROVE FetchedHashInv'
      BY <2>1
    <3>1. ~Doomed /\ (pc[w] = "hash" => bRun)
      BY <2>4, CheckNotDoomed DEF HashQuietInv
    <3> QED
      BY <1>1, <1>2, <2>4, <3>1, CheckFetchedHashInv
  <2> QED
    BY <1>3, <2>2, <2>3, <2>4 DEF Work, Next
<1>4. CASE Exit \/ LastSaveInfo
  <2>1. /\ KeepsWork /\ tainted' = tainted /\ process \in {"running", "quitting"}
        /\ infos' = infos \/ infos' = TrimAll(infos)
    BY <1>4 DEF Exit, LastSaveInfo, SavesAndEndsAs, EndsAs, Trim, KeepsWork
  <2> QED
    BY <1>2, <1>k, <2>1 DEF Doomed
<1>5. CASE StopThread
  <2>1. /\ KeepsWork /\ tainted' = tainted /\ infos' = infos /\ process \in {"running", "quitting"}
    BY <1>5 DEF StopThread, EndsAs, KeepsWork
  <2> QED
    BY <1>2, <1>k, <2>1 DEF Doomed
<1>6. CASE StopThreadReturns
  <2>1. KeepsWork /\ tainted' = tainted /\ infos' = infos
    BY <1>6 DEF StopThreadReturns, EndsAs, KeepsWork
  <2>2. CASE Doomed
    BY <1>1, <1>6, <2>2 DEF StopThreadReturns, StopResult, EndsAs, Doomed
  <2> QED
    BY <1>2, <1>k, <2>1, <2>2
<1>7. CASE Crash
  BY <1>7 DEF Crash, EndsAs, Doomed
<1>8. CASE Restart
  <2>1. tainted' = disk.checking
    BY <1>8 DEF Restart
  <2> QED
    BY <1>8, <2>1, RestartHashInv DEF HashQuietInv
<1>9. CASE UNCHANGED lifecycleVars
  <2>1. UNCHANGED <<process, handle, threadRunning, pc, tainted>>
    BY <1>9 DEF lifecycleVars, vars, threadVars
  <2>2. Doomed => Doomed'
    BY <2>1 DEF Doomed
  <2>3. KeepsWork /\ infos' = infos
    BY <1>9 DEF lifecycleVars, vars, threadVars, KeepsWork, dataVars
  <2> QED
    BY <1>2, <1>k, <2>1, <2>2, <2>3
<1> QED
  BY <1>3, <1>4, <1>5, <1>6, <1>7, <1>8, <1>9 DEF LifecycleNext

\* What is saved while no check runs has the commits whose hashes it has.
LEMMA NextHashDisk ==
  ASSUME LifecycleTypeInv, LifecycleTypeInv', HashUndisturbed, FewCommits,
         ReturnInv, HashQuietInv, [LifecycleNext]_lifecycleVars
  PROVE  (disk.checking \/ \A u \in GitUrl : DiskHashInv(u))'
<1>1. TypeOK /\ TypeOK' /\ AtProject
  BY DEF LifecycleTypeInv, TypeInv
<1>2. CASE disk' = disk
  BY <1>2 DEF HashQuietInv, DiskHashInv, DiskHeld
<1>3. CASE Work /\ Saves
  <2>1. process = "running" /\ UserInterface /\ disk' = Image(present', infos', since')
    BY <1>3, SavesWhileRunning DEF Work
  <2>2. disk'.checking = (Checking \/ tainted)
    BY <2>1 DEF Image
  <2>3. pc' = pc \/ \E w \in Worker : pc' = [pc EXCEPT ![w] = "created"]
    BY <2>1, UserFrame DEF Goto
  <2>4. ASSUME ~tainted PROVE FetchedHashInv'
    BY <1>1, <2>1, <2>4, UserFetchedHashInv DEF HashQuietInv, Doomed
  <2> QED
    BY <1>1, <2>1, <2>2, <2>3, <2>4, ImageHashInv
<1>4. CASE (Exit \/ LastSaveInfo) /\ disk' # disk
  <2>1. /\ KeepsWork /\ infos' = TrimAll(infos) /\ process \in {"running", "quitting"}
        /\ disk' = Image(present, infos', since)
    BY <1>4 DEF Exit, LastSaveInfo, SavesAndEndsAs, Trim
  <2>2. disk'.checking = (Checking \/ tainted)
    BY <2>1 DEF Image
  <2>3. pc' = pc /\ present' = present /\ since' = since
    BY <2>1 DEF KeepsWork, histVars
  <2>4. ASSUME ~tainted PROVE FetchedHashInv'
    BY <1>1, <2>1, <2>4, KeepsHashInv DEF HashQuietInv, Doomed
  <2>5. disk' = Image(present', infos', since')
    BY <2>1, <2>3
  <2> QED
    BY <1>1, <2>2, <2>3, <2>4, <2>5, ImageHashInv
<1> QED
  BY <1>2, <1>3, <1>4 DEF LifecycleNext, Work, StopThread, StopThreadReturns, Crash, Restart, lifecycleVars

\* The clones have no other commits than the repositories.
LEMMA NextCloneInv ==
  ASSUME TypeOK, AtProject, CloneInv, [LifecycleNext]_lifecycleVars
  PROVE  CloneInv'
<1>1. \A u \in GitUrl : u \in Url /\ head[u] \in Nat /\ clone[u] \in Nat
  BY UrlInfosAssumption DEF UrlInfosAssumption, TypeOK, Rev
<1>2. CASE \E v \in Url : Commit(v)
  <2>1. clone' = clone /\ \A u \in GitUrl : head'[u] \in {head[u], head[u] + 1}
    BY <1>1, <1>2 DEF Commit, TypeOK
  <2> QED
    BY <1>1, <2>1 DEF CloneInv
<1>3. ASSUME NEW w \in Worker, Check(w) PROVE CloneInv'
  <2>1. head' = head
    BY <1>3, CheckFrame
  <2> QED
    BY <1>3, <2>1, CheckClone DEF CloneInv
<1>4. CASE UNCHANGED envVars
  BY <1>4 DEF envVars, CloneInv
<1>5. CASE Work /\ (\A v \in Url : ~Commit(v)) /\ (\A w \in Worker : ~Check(w))
  <2>1. UserInterface => UNCHANGED envVars
    BY UserFrame
  <2>2. \A v \in Url : Elapse(v) => UNCHANGED envVars
    BY DEF Elapse
  <2> QED
    BY <1>4, <1>5, <2>1, <2>2 DEF Work, Next, World
<1>6. CASE ~Work
  <2>1. UNCHANGED envVars
    BY <1>6 DEF LifecycleNext, Exit, LastSaveInfo, StopThread, StopThreadReturns, Crash, Restart,
                SavesAndEndsAs, EndsAs, KeepsWork, lifecycleVars, vars
  <2> QED
    BY <1>4, <2>1
<1> QED
  BY <1>2, <1>3, <1>5, <1>6

\* The invariant holds, with one monitor thread.
LEMMA AlwaysHashQuietInv ==
  ASSUME OneThread, HashUndisturbed
  PROVE  LifecycleSpec /\ []FewCommits => []HashQuietInv
<1>1. LifecycleInit => ReturnInv /\ HashQuietInv
  <2> SUFFICES ASSUME LifecycleInit PROVE ReturnInv /\ HashQuietInv
    OBVIOUS
  <2>1. ReturnInv /\ RunsInv
    BY InitQuietInv DEF LifecycleInit, Init, ReturnInv, ReturnIsClean, Gone, QuietInv
  <2>2. FetchedHashInv
    BY UrlInfosAssumption, MonitorAssumption
    DEF UrlInfosAssumption, MonitorAssumption, LifecycleInit, Init, FetchedHashInv, HashInv,
        HashKnown, CloneInv, NewInfo, NoUi, Rev
  <2>3. ASSUME NEW u \in GitUrl PROVE DiskHashInv(u)
    <3>1. disk.infos[u] = [NewInfo EXCEPT !.startfromrev = 0]
      BY UrlInfosAssumption DEF UrlInfosAssumption, LifecycleInit, Init, Image
    <3> QED
      BY <3>1 DEF DiskHashInv, NewInfo
  <2> QED
    BY <2>1, <2>2, <2>3 DEF HashQuietInv, FetchedHashInv
<1>2. OneAtATime /\ OneAtATime'
  BY DEF OneThread, OneAtATime
<1>3. LifecycleTypeInv /\ ReturnInv /\ [LifecycleNext]_lifecycleVars => ReturnInv'
  BY <1>2, NextReturnInv DEF LifecycleTypeInv, TypeInv
<1>4. LifecycleTypeInv /\ LifecycleTypeInv' /\ FewCommits /\ ReturnInv /\ HashQuietInv
        /\ [LifecycleNext]_lifecycleVars => HashQuietInv'
  <2> SUFFICES ASSUME LifecycleTypeInv, LifecycleTypeInv', FewCommits, ReturnInv, HashQuietInv,
                      [LifecycleNext]_lifecycleVars
               PROVE  HashQuietInv'
    OBVIOUS
  <2>1. TypeOK /\ AtProject /\ RunsInv /\ CloneInv
    BY DEF LifecycleTypeInv, TypeInv, HashQuietInv
  <2> QED
    BY <2>1, NextRuns, NextCloneInv, NextHashMemory, NextHashDisk DEF HashQuietInv
<1> QED
  BY AlwaysLifecycleTypeInv, <1>1, <1>3, <1>4, PTL DEF LifecycleSpec

\* A file that was saved while no check was running, by a process that did not load
\* anything else, has the commit for every hash it has, or it made room for others:
\* wherever a thread was stopped between the hash, which it writes first, and the log.
\* It is assumed that there is one monitor thread at a time, that no log request
\* fails, that fewer commits than one request returns are made between the two requests,
\* and that the user neither edits a project nor discards commits.
THEOREM LifecycleQuietSaveHoldsHash ==
  ASSUME OneThread, HashUndisturbed
  PROVE  LifecycleSpec /\ []FewCommits => []QuietSaveHoldsHash
<1>1. HashQuietInv => QuietSaveHoldsHash
  BY DEF HashQuietInv, QuietSaveHoldsHash, DiskHashInv, DiskHeld
<1> QED
  BY AlwaysHashQuietInv, <1>1, PTL

\* Nor does a process that loaded such a file ever have a hash without its commit,
\* except while the thread that wrote the hash is fetching it.
THEOREM LifecycleQuietStartFetchesHash ==
  ASSUME OneThread, HashUndisturbed
  PROVE  LifecycleSpec /\ []FewCommits => []QuietStartFetchesHash
<1>1. HashQuietInv => QuietStartFetchesHash
  BY DEF HashQuietInv, QuietStartFetchesHash, Doomed, FetchedHashInv, HashInv, Held, Fetches,
         HashIsFetched
<1> QED
  BY AlwaysHashQuietInv, <1>1, PTL
=============================================================================
