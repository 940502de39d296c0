----------------------------- MODULE Lifecycle ------------------------------
(***************************************************************************)
(* How CommitMonitor ends and starts again: the projects are loaded from   *)
(* the file "urls", saved to it now and then, and the process ends because *)
(* the user leaves it, because the session ends, or by a crash, with or    *)
(* without a monitor thread at work (CommitMonitor.cpp, HiddenWindow.cpp,  *)
(* UrlInfo.cpp).  The rest is module Monitor.                              *)
(***************************************************************************)
EXTENDS Monitor

CONSTANTS
  Ends,        \* how the process may end: a subset of AllEnds
  MaxRestarts  \* bound: number of times it is started again

AllEnds == {"exit", "endsession", "crash"}

ASSUME LifecycleAssumption ==
  /\ Ends \subseteq AllEnds
  /\ MaxRestarts \in Nat

VARIABLES
  disk,      \* the file urls, and the history variables at that time
  restarts,  \* how many more times the process is started
  tainted    \* history: this process loaded what was saved during a check

lifecycleVars == <<vars, disk, restarts, tainted>>

Checking == \E w \in Worker : pc[w] \notin {"idle", "created", "leaving"}

\* What Save(FILE) writes: startfromrev is not saved.  For the properties it is
\* noted whether a check ran meanwhile.
Image(keys, values, history) ==
  [ present  |-> keys,
    infos    |-> [u \in Url |-> [values[u] EXCEPT !.startfromrev = 0]],
    since    |-> history,
    checking |-> Checking \/ tainted ]

LifecycleInit ==
  /\ Init
  /\ tainted = FALSE
  /\ disk = Image(present, infos, since)
  /\ restarts = MaxRestarts

-----------------------------------------------------------------------------
\* The user-interface thread leaves a step that saves.  An empty list is only
\* saved after the last project was removed.
Saves ==
  /\ ui' # ui
  /\ \/ ui.op \in {"save", "editok"} /\ present' # {}
     \/ ui.op = "forcesave"

\* A step while messages are dispatched, or by the monitor thread after that.
Work ==
  /\ \/ Next
     \/ process \in {"quitting", "ending", "stopping"} /\ \E w \in Worker : Check(w)
  /\ disk' = IF Saves THEN Image(present', infos', since') ELSE disk
  /\ UNCHANGED <<restarts, tainted>>

KeepsWork == UNCHANGED <<envVars, present, lock, uiVars, urlToWorkOn, pc, iterVars,
                         resultVars, flagVars, histVars, restarts, tainted>>

EndsAs(p) == process' = p /\ UNCHANGED infos /\ KeepsWork

SavesAndEndsAs(p) ==
  IF present = {}
  THEN EndsAs(p) /\ UNCHANGED disk
  ELSE Trim(p) /\ disk' = Image(present, infos', since) /\ KeepsWork

\* IDM_EXIT: the projects are saved and the message loop is about to end.
Exit ==
  /\ "exit" \in Ends
  /\ process = "running" /\ UiPumps
  /\ CanLock(UiThread)
  /\ SavesAndEndsAs("quitting")
  /\ UNCHANGED <<bRun, threadRunning, handle, saveinfo>>

\* A message that was posted is dispatched before the message loop ends.
LastSaveInfo ==
  /\ process = "quitting"
  /\ saveinfo
  /\ CanLock(UiThread)
  /\ saveinfo' = FALSE
  /\ SavesAndEndsAs("quitting")
  /\ UNCHANGED <<bRun, threadRunning, handle>>

\* StopThread asks the thread to stop: after the message loop or, without saving,
\* in WM_DESTROY and WM_QUERYENDSESSION.
StopThread ==
  /\ \/ process = "quitting" /\ ~saveinfo /\ EndsAs("stopping")
     \/ "endsession" \in Ends /\ process = "running" /\ UiPumps /\ EndsAs("ending")
  /\ bRun' = FALSE
  /\ UNCHANGED <<threadRunning, handle, saveinfo, disk>>

\* The mutant trusts the timeout: it never terminates the process.
StopResultTrusting == "returned"

\* It waits for the thread for some seconds; m_ThreadRunning then says whether
\* that was enough.  If not, TerminateProcess is called.
StopResult == IF handle # NoWorker /\ threadRunning THEN "terminated" ELSE "returned"

\* The mutant waits until the thread has ended.
WaitedForEnd(w) == At(w, "idle")

\* The seconds are enough for a thread that was created to begin.
Waited(w) == ~At(w, "created")

\* The handle is gone afterwards.
StopThreadReturns ==
  /\ process \in {"ending", "stopping"}
  /\ handle # NoWorker => Waited(handle)
  /\ EndsAs(IF process = "ending" /\ StopResult = "returned" THEN "quitting" ELSE StopResult)
  /\ handle' = NoWorker
  /\ UNCHANGED <<bRun, threadRunning, saveinfo, disk>>

Crash ==
  /\ "crash" \in Ends
  /\ process \in {"running", "quitting", "ending", "stopping"}
  /\ EndsAs("crashed")
  /\ UNCHANGED <<bRun, threadRunning, handle, saveinfo, disk>>

\* CUrlInfos::Load, and everything else as the constructors leave it.
Restart ==
  /\ process \in {"returned", "terminated", "crashed"}
  /\ restarts > 0
  /\ restarts' = restarts - 1
  /\ present' = disk.present
  /\ infos' = disk.infos
  /\ since' = disk.since
  /\ owed' = NothingOwed
  /\ tainted' = disk.checking
  /\ lock' = Free
  /\ ui' = NoUi
  /\ edit' = NoEdit
  /\ confirm' = NoUrl
  /\ urlToWorkOn' = NoUrl
  /\ bRun' = FALSE
  /\ threadRunning' = FALSE
  /\ handle' = NoWorker
  /\ process' = "running"
  /\ pc' = [w \in Worker |-> "idle"]
  /\ todo' = [w \in Worker |-> {}]
  /\ cur' = [w \in Worker |-> NoUrl]
  /\ copy' = [w \in Worker |-> [u \in Url |-> NewInfo]]
  /\ headrev' = [w \in Worker |-> 0]
  /\ failure' = [w \in Worker |-> "none"]
  /\ logs' = [w \in Worker |-> {}]
  /\ newEntries' = [w \in Worker |-> FALSE]
  /\ needsSaving' = [w \in Worker |-> FALSE]
  /\ saveinfo' = FALSE
  /\ UNCHANGED <<envVars, userOps, disk>>

LifecycleNext ==
  \/ Work \/ Exit \/ LastSaveInfo \/ StopThread \/ StopThreadReturns \/ Crash \/ Restart

LifecycleSpec == LifecycleInit /\ [][LifecycleNext]_lifecycleVars

\* The message loop and the window procedure go on, waits end, and a thread that
\* was created begins.
LifecycleFairness ==
  /\ WF_lifecycleVars(LastSaveInfo)
  /\ WF_lifecycleVars(process = "quitting" /\ StopThread)
  /\ WF_lifecycleVars(StopThreadReturns)
  /\ \A w \in Worker : WF_lifecycleVars(RunThread(w) /\ Work)

LifecycleFairSpec == LifecycleSpec /\ LifecycleFairness

-----------------------------------------------------------------------------
(* Properties.                                                             *)

\* The process does not return from its main function, and so tears down what
\* the monitor thread uses, while the thread is there: if it does not stop in
\* time, the process is terminated (StopThread, WinMain).  A thread that has cleared
\* m_ThreadRunning may still be there, because nobody looks at its handle again after
\* the wait, but it uses nothing any more.
ReturnIsClean ==
  process = "returned" => \A w \in Worker : pc[w] \in {"idle", "leaving"}

\* Once the process is about to end it does, although the thread it waits for may be
\* in a request, or in SendMessage to the very thread that waits (StopThread).
EndsAtLast ==
  process \in {"quitting", "ending", "stopping"} ~> process \in {"returned", "terminated", "crashed"}

\* The file skips no commit: what follows the first check of a Subversion
\* project, up to the revision the file says was checked, is in the file, or has
\* made room for later ones.  After a restart the next check asks for later
\* revisions only.
DiskSkipsNoCommit ==
  \A u \in disk.present \ GitUrl : disk.since[u] # 0 =>
    \A r \in (disk.since[u] + 1) .. disk.infos[u].lastcheckedrev :
      r \in disk.infos[u].log \/ IsTrimmed(u, disk.infos[u], r)

\* The same of what is saved while no check runs, be it after a check that was
\* stopped or one during which something else was saved, and after a restart: "no need to save
\* just for this" (SetChecked) holds.
QuietSaveSkipsNoCommit == disk.checking \/ DiskSkipsNoCommit

\* The same for a Git project: if the file has its hash, it has the commit, or the
\* commit has made room for others.  The next check does not ask for it again.
QuietSaveHoldsHash ==
  disk.checking \/ \A u \in disk.present \cap GitUrl :
    LET hash == disk.infos[u].lastcheckedhash IN
      hash # 0 => hash \in disk.infos[u].log \/ IsTrimmed(u, disk.infos[u], hash)

\* A process that began with such a file skips no commit either: what it loaded and
\* what it fetched since leave no gap.
QuietStartSkipsNoCommit == process = "running" /\ ~tainted => NoCommitSkipped

\* And of a Git project that has a hash, it has the commit, or has trimmed it, or a
\* thread is fetching it.
QuietStartFetchesHash == process = "running" /\ ~tainted => HashIsFetched
=============================================================================
