------------------------------ MODULE Monitor -------------------------------
(***************************************************************************)
(* CHiddenWindow: the thread that checks the monitored projects for new    *)
(* commits, and the user-interface thread that starts it and changes the   *)
(* same CUrlInfos while it runs (HiddenWindow.cpp, MainDlg.cpp).           *)
(*                                                                         *)
(* An action is what one thread does between two points where the other    *)
(* can come in: one critical section of the lock of CUrlInfos, one request *)
(* to a server, or one SendMessage, which blocks the sender until the      *)
(* user-interface thread dispatches it.  The user-interface thread blocks  *)
(* in two ways only: waiting for the lock (ui.op # "none") and waiting in  *)
(* StopThread (process # "running").  Two critical sections reach over     *)
(* such a point, and lock says so: the monitor's report of a failed        *)
(* connection, and the question the main dialog asks before it removes a   *)
(* project.                                                                *)
(***************************************************************************)
EXTENDS UrlInfos

CONSTANTS
  Worker,     \* thread slots: monitor threads that may exist at a time
  UiOps,      \* what the user does: a subset of AllUiOps
  Faults,     \* what may fail: a subset of AllFaults
  InitHead,   \* every repository holds commits 1..InitHead initially
  MaxUserOps  \* bound: number of things the user does

AllUiOps  == {"checkall", "checknow", "markread", "select", "unread", "clearerror",
              "toggle", "remove", "add", "edit", "refreshall", "fetchnext", "discard"}
AllFaults == {"connect", "auth", "log", "fetch", "com"}

NoWorker == "none"
Free == "free"
UiThread == "ui"

ASSUME MonitorAssumption ==
  /\ Worker # {}
  /\ {NoWorker, Free, UiThread} \cap Worker = {}
  /\ UiOps \subseteq AllUiOps
  /\ Faults \subseteq AllFaults
  /\ InitHead \in Rev
  /\ MaxUserOps \in Nat

VARIABLES
  head,           \* newest commit of each repository
  clone,          \* newest commit that was fetched into the clone of a Git repository
  present,        \* the keys of infos that are in the map
  infos,          \* the CUrlInfo of each key
  lock,           \* who holds the writer lock across a blocking point
  ui,             \* what the user-interface thread is in the middle of
  edit,           \* the project dialog: the project it edits, and its copy
  confirm,        \* the project the main dialog asks about before removing it
  urlToWorkOn,    \* m_UrlToWorkOn
  bRun,           \* m_bRun
  threadRunning,  \* m_ThreadRunning
  handle,         \* m_hMonitorThread: the thread created last
  process,        \* "running" while messages are dispatched
  pc,             \* where each monitor thread is
  todo,           \* keys its iterator has not reached yet
  cur,            \* key the iterator points at
  copy,           \* urlinfoReadOnly: the snapshot the thread works from
  headrev,        \* headrev, for Git the hash of the latest commit
  failure,        \* Err of the last request: "none", "connect" or "auth"
  logs,           \* m_logs, for Git newCommits: fetched, not yet stored
  newEntries,     \* bNewEntries
  needsSaving,    \* bNeedsSaving
  saveinfo,       \* a COMMITMONITOR_SAVEINFO message is posted
  userOps,        \* how many more things the user does
  since,          \* history: where the first complete check of a project ended
  owed            \* history: new commits since which the icon has not turned red

envVars    == <<head, clone>>
dataVars   == <<present, infos>>
uiVars     == <<ui, edit, confirm, userOps>>
threadVars == <<bRun, threadRunning, handle, process>>
iterVars   == <<todo, cur, copy>>
resultVars == <<headrev, failure, logs>>
flagVars   == <<newEntries, needsSaving>>
histVars   == <<since, owed>>
vars == <<envVars, dataVars, lock, uiVars, urlToWorkOn, threadVars, pc, iterVars,
          resultVars, flagVars, saveinfo, histVars>>

PC == {"idle", "created", "snapshot", "loop", "filter", "due", "query", "denied",
       "hash", "getlog", "gitstore", "checked", "store", "notify", "popup",
       "logfailed", "noupdates", "errpopup", "finish", "end", "leaving"}

\* "quitting": the message loop dispatches what was posted and ends; "ending" and
\* "stopping": in StopThread, of the window procedure and of WinMain.
Process == {"running", "quitting", "ending", "stopping", "returned", "terminated", "crashed"}

NoUi   == [op |-> "none", url |-> NoUrl]
UiStep == {"none", "timer", "getall", "reset", "scan", "save", "forcesave", "editok"} \cup AllUiOps
NoEdit == [url |-> NoUrl, info |-> NewInfo]
NothingOwed == [u \in Url |-> {}]

Init ==
  /\ head = [u \in Url |-> InitHead]
  /\ clone = head
  /\ present = Url
  /\ infos = [u \in Url |-> NewInfo]
  /\ lock = Free
  /\ ui = NoUi
  /\ edit = NoEdit
  /\ confirm = NoUrl
  /\ urlToWorkOn = NoUrl
  /\ bRun = FALSE
  /\ threadRunning = FALSE
  /\ handle = NoWorker
  /\ process = "running"
  /\ pc = [w \in Worker |-> "idle"]
  /\ todo = [w \in Worker |-> {}]
  /\ cur = [w \in Worker |-> NoUrl]
  /\ copy = [w \in Worker |-> [u \in Url |-> NewInfo]]
  /\ headrev = [w \in Worker |-> 0]
  /\ failure = [w \in Worker |-> "none"]
  /\ logs = [w \in Worker |-> {}]
  /\ newEntries = [w \in Worker |-> FALSE]
  /\ needsSaving = [w \in Worker |-> FALSE]
  /\ saveinfo = FALSE
  /\ userOps = MaxUserOps
  /\ since = [u \in Url |-> 0]
  /\ owed = NothingOwed

-----------------------------------------------------------------------------
(* The outside world.                                                      *)

\* Somebody commits to a repository.
Commit(u) ==
  /\ head[u] < MaxRev
  /\ head' = [head EXCEPT ![u] = @ + 1]
  /\ UNCHANGED <<clone, dataVars, lock, uiVars, urlToWorkOn, threadVars, pc, iterVars,
                 resultVars, flagVars, saveinfo, histVars>>

\* Time passes since the last check of a project.
Elapse(u) ==
  /\ u \in present
  /\ infos[u].age < 2
  /\ infos' = [infos EXCEPT ![u].age = @ + 1]
  /\ UNCHANGED <<envVars, present, lock, uiVars, urlToWorkOn, threadVars, pc, iterVars,
                 resultVars, flagVars, saveinfo, histVars>>

-----------------------------------------------------------------------------
(* The monitor thread, CHiddenWindow::RunThread.                           *)

\* The user-interface thread dispatches messages, so that SendMessage returns.
UiPumps == ui.op = "none" /\ process \in {"running", "quitting"}

CanLock(t) == lock = Free \/ lock = t

Goto(w, l) == pc' = [pc EXCEPT ![w] = l]

At(w, l) == pc[w] = l

\* The thread gives up the project it is at when it was told to stop.
GotoUnlessStopped(w, l) == Goto(w, IF bRun THEN l ELSE "loop")

Seen(w) == copy[w][cur[w]]

RunThread(w) ==
  /\ At(w, "created")
  /\ threadRunning' = TRUE
  /\ bRun' = TRUE
  /\ \/ Goto(w, "snapshot")
     \/ "com" \in Faults /\ Goto(w, "idle")  \* CoInitializeEx failed
  /\ UNCHANGED <<envVars, dataVars, lock, uiVars, urlToWorkOn, handle, process, iterVars,
                 resultVars, flagVars, saveinfo, histVars>>

Snapshot(w) ==
  /\ At(w, "snapshot")
  /\ CanLock(w)
  /\ copy' = [copy EXCEPT ![w] = infos]
  /\ todo' = [todo EXCEPT ![w] = present]
  /\ Goto(w, "loop")
  /\ UNCHANGED <<envVars, dataVars, lock, uiVars, urlToWorkOn, threadVars, cur,
                 resultVars, flagVars, saveinfo, histVars>>

\* The variables of the loop's body are gone.
NoResult(w) ==
  /\ headrev' = [headrev EXCEPT ![w] = 0]
  /\ failure' = [failure EXCEPT ![w] = "none"]
  /\ logs' = [logs EXCEPT ![w] = {}]

\* The head of the loop, and the info text the thread sends for each project.
NextProject(w) ==
  /\ At(w, "loop")
  /\ IF todo[w] = {} \/ ~bRun
     THEN Goto(w, "finish") /\ UNCHANGED iterVars
     ELSE /\ UiPumps
          /\ \E u \in todo[w] :
               /\ \A v \in todo[w] : u <= v
               /\ cur' = [cur EXCEPT ![w] = u]
               /\ todo' = [todo EXCEPT ![w] = @ \ {u}]
          /\ Goto(w, "filter")
          /\ UNCHANGED copy
  /\ NoResult(w)
  /\ UNCHANGED <<envVars, dataVars, lock, uiVars, urlToWorkOn, threadVars,
                 flagVars, saveinfo, histVars>>

\* A check of one project was asked for: skip the others.
Filter(w) ==
  /\ At(w, "filter")
  /\ Goto(w, IF urlToWorkOn \in {NoUrl, cur[w]} THEN "due" ELSE "loop")
  /\ UNCHANGED <<envVars, dataVars, lock, uiVars, urlToWorkOn, threadVars, iterVars,
                 resultVars, flagVars, saveinfo, histVars>>

\* The mutant keeps the request for ever.
KeepRequest == UNCHANGED urlToWorkOn

\* The request for one project is served.
TakeRequest == urlToWorkOn' = NoUrl

IsDue(w) == Seen(w).monitored /\ Seen(w).age = 2

LastDenied(w) == Seen(w).notAuthorized /\ Seen(w).error

Due(w) ==
  /\ At(w, "due")
  /\ IF IsDue(w) \/ urlToWorkOn # NoUrl
     THEN /\ TakeRequest
          /\ Goto(w, IF LastDenied(w) THEN "loop" ELSE "query")
     ELSE /\ Goto(w, "loop")
          /\ UNCHANGED urlToWorkOn
  /\ UNCHANGED <<envVars, dataVars, lock, uiVars, threadVars, iterVars,
                 resultVars, flagVars, saveinfo, histVars>>

-----------------------------------------------------------------------------
(* Is there anything new?  For Subversion the HEAD revision is compared    *)
(* with lastcheckedrev, for Git the hash of the latest commit with         *)
(* lastcheckedhash.  A request that fails finds nothing new.               *)

Request(w, rev, err) ==
  /\ headrev' = [headrev EXCEPT ![w] = rev]
  /\ failure' = [failure EXCEPT ![w] = err]

GetHEADRevision(w) ==
  /\ At(w, "query")
  /\ cur[w] \notin GitUrl
  /\ \/ /\ Request(w, head[cur[w]], "none")
        /\ GotoUnlessStopped(w, IF head[cur[w]] > Seen(w).lastcheckedrev
                                THEN "getlog" ELSE "noupdates")
     \/ /\ "connect" \in Faults
        /\ Request(w, 0, "connect")
        /\ GotoUnlessStopped(w, "noupdates")
     \/ /\ "auth" \in Faults
        /\ Request(w, 0, "auth")
        /\ Goto(w, "denied")
  /\ UNCHANGED <<envVars, dataVars, lock, uiVars, urlToWorkOn, threadVars, iterVars,
                 logs, flagVars, saveinfo, histVars>>

\* GetGitLog has "git fetch" bring the commits into the local clone and reads the log
\* of the clone.  That the fetch failed is not noticed.
Fetch(u) ==
  /\ \/ clone' = [clone EXCEPT ![u] = head[u]]
     \/ "fetch" \in Faults /\ UNCHANGED clone
  /\ UNCHANGED head

GetLatestCommit(w) ==
  /\ At(w, "query")
  /\ cur[w] \in GitUrl
  /\ Fetch(cur[w])
  /\ \/ /\ Request(w, clone'[cur[w]], "none")
        /\ IF clone'[cur[w]] # Seen(w).lastcheckedhash
           THEN Goto(w, "hash")
           ELSE GotoUnlessStopped(w, "noupdates")
     \/ /\ "connect" \in Faults
        /\ Request(w, 0, "connect")
        /\ GotoUnlessStopped(w, "noupdates")
  /\ UNCHANGED <<dataVars, lock, uiVars, urlToWorkOn, threadVars, iterVars,
                 logs, flagVars, saveinfo, histVars>>

-----------------------------------------------------------------------------
(* The critical sections.  Each finds the project by its key in the shared *)
(* map, because the user may have removed it meanwhile.                    *)

\* Replace the CUrlInfo the thread is at by info, if it is still there.
Update(w, info) ==
  infos' = IF cur[w] \in present THEN [infos EXCEPT ![cur[w]] = info] ELSE infos

Shared(w) == infos[cur[w]]

Denied(w) ==
  /\ At(w, "denied")
  /\ CanLock(w)
  /\ Update(w, Failed(Shared(w), TRUE))
  /\ Goto(w, "loop")
  /\ UNCHANGED <<envVars, present, lock, uiVars, urlToWorkOn, threadVars, iterVars,
                 resultVars, flagVars, saveinfo, histVars>>

SetHash(w) ==
  /\ At(w, "hash")
  /\ CanLock(w)
  /\ Update(w, [Shared(w) EXCEPT !.lastcheckedhash = headrev[w]])
  /\ GotoUnlessStopped(w, "getlog")
  /\ UNCHANGED <<envVars, present, lock, uiVars, urlToWorkOn, threadVars, iterVars,
                 resultVars, flagVars, saveinfo, histVars>>

\* The log is requested: from the last revision that was checked, or for Git
\* the newest commits.  It is dropped when the thread was told to stop.
FetchLog(w) ==
  /\ At(w, "getlog")
  /\ IF cur[w] \in GitUrl THEN Fetch(cur[w]) ELSE UNCHANGED envVars
  /\ \/ /\ IF cur[w] \in GitUrl
           THEN /\ logs' = [logs EXCEPT ![w] = GetGitLog(clone'[cur[w]], GitLimit)]
                /\ Goto(w, "gitstore")
           ELSE /\ logs' = [logs EXCEPT ![w] = LogRange(Seen(w), headrev[w])]
                /\ GotoUnlessStopped(w, "checked")
        /\ UNCHANGED failure
     \/ /\ "log" \in Faults
        /\ Goto(w, "logfailed")
        /\ failure' = [failure EXCEPT ![w] = "connect"]
        /\ UNCHANGED logs
     \/ /\ {"log", "auth"} \subseteq Faults
        /\ cur[w] \notin GitUrl
        /\ Goto(w, "logfailed")
        /\ failure' = [failure EXCEPT ![w] = "auth"]
        /\ UNCHANGED logs
  /\ UNCHANGED <<dataVars, lock, uiVars, urlToWorkOn, threadVars, iterVars,
                 headrev, flagVars, saveinfo, histVars>>

\* Those of revs that are new to the project, if it is still there, and that its
\* filters let through.
News(w, revs) == IF cur[w] \in present THEN revs \ (Shared(w).log \cup Ignored) ELSE {}

\* The mutant looks at the last commit only.
FoundIsNew(w, revs) ==
  /\ newEntries' = [newEntries EXCEPT ![w] = News(w, revs) # {}]
  /\ owed' = [owed EXCEPT ![cur[w]] = @ \cup News(w, revs)]

\* bNewEntries: there is news among what was stored.
Found(w, revs) ==
  /\ newEntries' = [newEntries EXCEPT ![w] = @ \/ News(w, revs) # {}]
  /\ owed' = [owed EXCEPT ![cur[w]] = @ \cup News(w, revs)]

\* Git: the commits that are not there yet are added.
GitStore(w) ==
  /\ At(w, "gitstore")
  /\ CanLock(w)
  /\ Update(w, StoreMissing(Shared(w), logs[w]))
  /\ Found(w, logs[w])
  /\ logs' = [logs EXCEPT ![w] = {}]
  /\ GotoUnlessStopped(w, "checked")
  /\ UNCHANGED <<envVars, present, lock, uiVars, urlToWorkOn, threadVars, iterVars,
                 headrev, failure, needsSaving, saveinfo, since>>

\* The project is marked as checked, before any commit of a Subversion project
\* is stored.  headrev of RunThread stays 0 for a Git project.
SetChecked(w) ==
  /\ At(w, "checked")
  /\ CanLock(w)
  /\ Update(w, Checked(Shared(w), IF cur[w] \in GitUrl THEN 0 ELSE headrev[w]))
  /\ since' = IF cur[w] \in present /\ since[cur[w]] = 0
              THEN [since EXCEPT ![cur[w]] = headrev[w]] ELSE since
  /\ GotoUnlessStopped(w, "store")
  /\ UNCHANGED <<envVars, present, lock, uiVars, urlToWorkOn, threadVars, iterVars,
                 resultVars, flagVars, saveinfo, owed>>

\* One fetched commit is stored, the oldest first.
StoreNext(w) ==
  /\ At(w, "store")
  /\ CanLock(w)
  /\ \E r \in logs[w] :
       /\ \A s \in logs[w] : r <= s
       /\ Update(w, StoreOne(Shared(w), r))
       /\ Found(w, {r})
       /\ logs' = [logs EXCEPT ![w] = @ \ {r}]
  /\ needsSaving' = [needsSaving EXCEPT ![w] = TRUE]
  /\ UNCHANGED <<envVars, present, lock, uiVars, urlToWorkOn, threadVars, pc, iterVars,
                 headrev, failure, saveinfo, since>>

AfterStore(w) == IF newEntries[w] THEN "notify" ELSE "loop"

\* svnrobots.txt is read if that is due.  It sets the minimum interval of the server,
\* and so whether a project that was not checked just now may be checked again.
Robots(w) ==
  /\ cur[w] \notin GitUrl
  /\ CanLock(w)
  /\ \E age \in IF Shared(w).age = 0 THEN {0} ELSE {1, 2} :
       Update(w, [Shared(w) EXCEPT !.age = age])

\* All are stored.  A thread that was told to stop goes on with them too, unless it has
\* fetched a diff in between, and leaves the project when it has downloaded
\* svnrobots.txt.
StoreDone(w) ==
  /\ At(w, "store")
  /\ logs[w] = {} \/ ~bRun
  /\ \/ Goto(w, AfterStore(w)) /\ UNCHANGED infos
     \/ Goto(w, AfterStore(w)) /\ Robots(w)
     \/ ~bRun /\ cur[w] \notin GitUrl /\ Goto(w, "loop") /\ UNCHANGED infos
  /\ UNCHANGED <<envVars, present, lock, uiVars, urlToWorkOn, threadVars, iterVars,
                 resultVars, flagVars, saveinfo, histVars>>

\* A popup is made if there are unread commits, the new ones or others: the user may
\* have read the new ones meanwhile, and a save may have erased them.  Here the
\* iterator that find() returns is used even if the project is gone.
Notify(w) ==
  /\ At(w, "notify")
  /\ CanLock(w)
  /\ IF cur[w] \notin present
     THEN process' = "crashed" /\ UNCHANGED <<pc, newEntries>>
     ELSE /\ UNCHANGED process
          /\ IF Shared(w).unread # {}
             THEN Goto(w, "popup") /\ UNCHANGED newEntries
             ELSE Goto(w, "loop") /\ newEntries' = [newEntries EXCEPT ![w] = FALSE]
  /\ UNCHANGED <<envVars, dataVars, lock, uiVars, urlToWorkOn, bRun, threadRunning, handle,
                 iterVars, resultVars, needsSaving, saveinfo, histVars>>

\* The handler of COMMITMONITOR_POPUP turns the icon red, whatever the popup says:
\* "has n new commits" or, if the thread saw the project with an error text,
\* "failed to connect!" with that text, although it has connected since.
TurnsRed == owed' = NothingOwed

Popup(w) ==
  /\ At(w, "popup")
  /\ UiPumps
  /\ newEntries' = [newEntries EXCEPT ![w] = FALSE]
  /\ TurnsRed
  /\ Goto(w, "loop")
  /\ UNCHANGED <<envVars, dataVars, lock, uiVars, urlToWorkOn, threadVars, iterVars,
                 resultVars, needsSaving, saveinfo, since>>

\* errNr is only set by a Subversion error.
LogFailed(w) ==
  /\ At(w, "logfailed")
  /\ CanLock(w)
  /\ Update(w, Failed(Shared(w), IF cur[w] \in GitUrl THEN Shared(w).notAuthorized
                                 ELSE failure[w] = "auth"))
  /\ Goto(w, "loop")
  /\ UNCHANGED <<envVars, present, lock, uiVars, urlToWorkOn, threadVars, iterVars,
                 resultVars, flagVars, saveinfo, histVars>>

\* Nothing new, or the connection failed.  The first failure is reported with
\* a popup before the lock is released.
NoUpdates(w) ==
  /\ At(w, "noupdates")
  /\ CanLock(w)
  /\ LET failed == failure[w] # "none"
         info   == Shared(w)
     IN  /\ Update(w, [info EXCEPT !.age = 0,
                                   !.error = failed,
                                   !.notAuthorized = @ /\ (failed => cur[w] \in GitUrl)])
         /\ IF cur[w] \in present /\ failed /\ ~info.error
            THEN lock' = w /\ Goto(w, "errpopup")
            ELSE UNCHANGED lock /\ Goto(w, "loop")
  /\ UNCHANGED <<envVars, present, uiVars, urlToWorkOn, threadVars, iterVars,
                 resultVars, flagVars, saveinfo, histVars>>

ErrPopup(w) ==
  /\ At(w, "errpopup")
  /\ UiPumps
  /\ lock' = Free
  /\ TurnsRed
  /\ Goto(w, "loop")
  /\ UNCHANGED <<envVars, dataVars, uiVars, urlToWorkOn, threadVars, iterVars,
                 resultVars, flagVars, saveinfo, since>>

\* The last info text is sent ...
Finish(w) ==
  /\ At(w, "finish")
  /\ UiPumps
  /\ Goto(w, "end")
  /\ UNCHANGED <<envVars, dataVars, lock, uiVars, urlToWorkOn, threadVars, iterVars,
                 resultVars, flagVars, saveinfo, histVars>>

\* ... and COMMITMONITOR_SAVEINFO and COMMITMONITOR_CHANGEDINFO, which turns the icon
\* red, are posted.  RunThread is not done when it clears m_ThreadRunning, but with
\* everything that others see of it; its variables are forgotten here.
End(w) ==
  /\ At(w, "end")
  /\ saveinfo' = (saveinfo \/ needsSaving[w])
  /\ owed' = IF newEntries[w] THEN NothingOwed ELSE owed
  /\ threadRunning' = FALSE
  /\ Goto(w, "leaving")
  /\ copy' = [copy EXCEPT ![w] = [u \in Url |-> NewInfo]]
  /\ todo' = [todo EXCEPT ![w] = {}]
  /\ cur' = [cur EXCEPT ![w] = NoUrl]
  /\ newEntries' = [newEntries EXCEPT ![w] = FALSE]
  /\ needsSaving' = [needsSaving EXCEPT ![w] = FALSE]
  /\ NoResult(w)
  /\ UNCHANGED <<envVars, dataVars, lock, uiVars, urlToWorkOn, bRun, handle, process,
                 since>>

\* The thread ends, some time after the flag said so.
ThreadEnds(w) ==
  /\ At(w, "leaving")
  /\ Goto(w, "idle")
  /\ UNCHANGED <<envVars, dataVars, lock, uiVars, urlToWorkOn, threadVars, iterVars,
                 resultVars, flagVars, saveinfo, histVars>>

Check(w) ==
  \/ RunThread(w) \/ Snapshot(w) \/ NextProject(w) \/ Filter(w) \/ Due(w)
  \/ GetHEADRevision(w) \/ GetLatestCommit(w) \/ Denied(w) \/ SetHash(w)
  \/ FetchLog(w) \/ GitStore(w) \/ SetChecked(w) \/ StoreNext(w) \/ StoreDone(w)
  \/ Notify(w) \/ Popup(w) \/ LogFailed(w) \/ NoUpdates(w) \/ ErrPopup(w)
  \/ Finish(w) \/ End(w) \/ ThreadEnds(w)

-----------------------------------------------------------------------------
(* The user-interface thread.  What the user asks for, and the timer, are  *)
(* dispatched when it is idle; then it runs its critical sections one after*)
(* the other, and blocks when the lock is not free.  A modal dialog of the *)
(* main dialog disables the main dialog, but neither the timer nor the     *)
(* menu of the tray icon ("checkall", and "markread" for all projects).    *)

UiGoto(op, u) == ui' = [op |-> op, url |-> u]

Doing(op) == ui.op = op /\ CanLock(UiThread)

Tray(op, u) == op \in {"checkall", "markread"} /\ u = NoUrl

Want(op, u) ==
  /\ UiPumps
  /\ op \in UiOps
  /\ userOps > 0
  /\ \/ Tray(op, u)
     \/ /\ op # "checkall"
        /\ u \in IF op = "add" THEN Url ELSE present
        /\ edit = NoEdit
        /\ confirm = NoUrl
  /\ UiGoto(IF op = "checkall" THEN "getall" ELSE op, u)
  /\ userOps' = userOps - 1
  /\ UNCHANGED <<envVars, dataVars, lock, edit, confirm, urlToWorkOn, threadVars, pc,
                 iterVars, resultVars, flagVars, saveinfo, histVars>>

\* WM_TIMER: nothing more happens while a check is running.  Timer messages come
\* after all posted ones.
Timer ==
  /\ UiPumps
  /\ ~saveinfo
  /\ ~threadRunning
  /\ UiGoto("timer", NoUrl)
  /\ UNCHANGED <<envVars, dataVars, lock, edit, confirm, userOps, urlToWorkOn, threadVars,
                 pc, iterVars, resultVars, flagVars, saveinfo, histVars>>

\* COMMITMONITOR_GETALL, for one project or, without one, for all.
GetAll ==
  /\ ui.op = "getall"
  /\ urlToWorkOn' = IF ui.url = NoUrl THEN urlToWorkOn ELSE ui.url
  /\ UiGoto(IF threadRunning THEN "none" ELSE "reset", NoUrl)
  /\ UNCHANGED <<envVars, dataVars, lock, edit, confirm, userOps, threadVars, pc, iterVars,
                 resultVars, flagVars, saveinfo, histVars>>

\* DoTimer(true): what is to be checked is due now.
Reset ==
  /\ Doing("reset")
  /\ infos' = [u \in Url |-> IF u \in present /\ urlToWorkOn \in {NoUrl, u}
                             THEN [infos[u] EXCEPT !.age = 2] ELSE infos[u]]
  /\ UiGoto(IF present = {} THEN "none" ELSE "scan", NoUrl)
  /\ UNCHANGED <<envVars, present, lock, edit, confirm, userOps, urlToWorkOn, threadVars,
                 pc, iterVars, resultVars, flagVars, saveinfo, histVars>>

\* DoTimer: a monitor thread is created if a project is due and none is known
\* to run.  The flag for that is set by the thread itself.
Scan ==
  /\ Doing("scan") \/ Doing("timer")
  /\ UiGoto("none", NoUrl)
  /\ IF (\E u \in present : infos[u].age > 0) /\ ~threadRunning
     THEN \E w \in Worker :
            /\ At(w, "idle")
            /\ Goto(w, "created")
            /\ handle' = w
     ELSE UNCHANGED <<pc, handle>>
  /\ UNCHANGED <<envVars, dataVars, lock, edit, confirm, userOps, urlToWorkOn, bRun,
                 threadRunning, process, iterVars, resultVars, flagVars, saveinfo, histVars>>

\* A message of the monitor thread.
SaveInfo ==
  /\ UiPumps
  /\ saveinfo
  /\ saveinfo' = FALSE
  /\ UiGoto("save", NoUrl)
  /\ UNCHANGED <<envVars, dataVars, lock, edit, confirm, userOps, urlToWorkOn, threadVars,
                 pc, iterVars, resultVars, flagVars, histVars>>

TrimAll(values) == [u \in Url |-> Trimmed(u, values[u])]

\* Save erases the entries beyond maxentries, and holds no more than the reader lock:
\* a thread that copies the projects at that time, as a reader too, may crash.
Trim(next) ==
  /\ infos' = TrimAll(infos)
  /\ process' \in {next} \cup IF infos' # infos /\ \E w \in Worker : At(w, "snapshot")
                              THEN {"crashed"} ELSE {}

\* CUrlInfos::Save
Save ==
  /\ Doing("save") \/ Doing("forcesave")
  /\ Trim(process)
  /\ UiGoto("none", NoUrl)
  /\ UNCHANGED <<envVars, present, lock, edit, confirm, userOps, urlToWorkOn, bRun,
                 threadRunning, handle, pc, iterVars, resultVars, flagVars, saveinfo, histVars>>

-----------------------------------------------------------------------------
(* The operations of the main dialog on a project it shows.                *)

\* One critical section turns a project into info, and the thread goes on.
Change(info, next) ==
  /\ infos' = [infos EXCEPT ![ui.url] = info]
  /\ next
  /\ UNCHANGED <<envVars, present, lock, edit, confirm, userOps, urlToWorkOn, threadVars,
                 pc, iterVars, resultVars, flagVars, saveinfo, since>>

Mine == infos[ui.url]

CheckNow ==
  /\ Doing("checknow")
  /\ Change(Mine, UiGoto("getall", ui.url))
  /\ UNCHANGED owed

\* Also ID_POPUP_MARKALLASREAD of the tray icon, which then saves.
MarkAllAsRead ==
  /\ Doing("markread")
  /\ LET marked == IF ui.url = NoUrl THEN present ELSE {ui.url} IN
       infos' = [u \in Url |-> IF u \in marked THEN [infos[u] EXCEPT !.unread = {}]
                               ELSE infos[u]]
  /\ UiGoto(IF ui.url = NoUrl THEN "save" ELSE "none", NoUrl)
  /\ UNCHANGED <<envVars, present, lock, edit, confirm, userOps, urlToWorkOn, threadVars,
                 pc, iterVars, resultVars, flagVars, saveinfo, histVars>>

\* The user selects a commit, which marks it as read.
Select ==
  /\ Doing("select")
  /\ \E r \in Mine.log :
       Change([Mine EXCEPT !.unread = @ \ {r}], UiGoto("none", NoUrl))
  /\ UNCHANGED owed

MarkAsUnread ==
  /\ Doing("unread")
  /\ \E r \in Mine.log :
       /\ Change([Mine EXCEPT !.unread = @ \cup {r}], UiGoto("none", NoUrl))
       /\ owed' = [owed EXCEPT ![ui.url] = @ \ {r}]

\* The selected commits are removed.  Then the list selects one of those that are
\* left.  (It may show entries that Save has erased; that is left out.)
Discard ==
  /\ Doing("discard")
  /\ \E S \in SUBSET Mine.log \ {{}} :
       Change([Mine EXCEPT !.log = @ \ S, !.unread = @ \ S],
              IF S = Mine.log THEN UiGoto("none", NoUrl) ELSE UiGoto("select", ui.url))
  /\ UNCHANGED owed

\* The commit list is empty: there is nothing to select.
SelectNothing ==
  /\ ui.op \in {"select", "unread", "discard"}
  /\ Mine.log = {}
  /\ Change(Mine, UiGoto("none", NoUrl))
  /\ UNCHANGED owed

\* COMMITMONITOR_LISTCTRLDBLCLICK
ClearError ==
  /\ Doing("clearerror")
  /\ Change([Mine EXCEPT !.error = FALSE], UiGoto("none", NoUrl))
  /\ UNCHANGED owed

\* ID_POPUP_ACTIVE
ToggleActive ==
  /\ Doing("toggle")
  /\ Change([Mine EXCEPT !.monitored = ~@], UiGoto("none", NoUrl))
  /\ UNCHANGED owed

\* Fetch again what follows the lowest revision there is.  The entries of a Git
\* project have revision 0.
RefreshAll ==
  /\ Doing("refreshall")
  /\ LET rev == IF ui.url \in GitUrl THEN 0 ELSE RevToRefreshFrom(Mine) IN
       Change([Mine EXCEPT !.lastcheckedrev = rev, !.age = 2], UiGoto("getall", ui.url))
  /\ UNCHANGED owed

\* Fetch the next NumLogs commits that are older.  The entry that cbegin()
\* refers to in an empty map is undefined.
FetchNext ==
  /\ Doing("fetchnext")
  /\ \E rev \in IF ui.url \in GitUrl THEN {0}
                ELSE IF Mine.log = {} THEN Rev0 ELSE {FirstKey(Mine.log)} :
       Change([Mine EXCEPT !.lastcheckedrev = 0, !.startfromrev = rev],
              UiGoto("getall", ui.url))
  /\ UNCHANGED owed

-----------------------------------------------------------------------------
(* Adding, editing and removing projects.                                  *)

\* The shared map becomes one with these keys and values, the thread goes on.
Replace(keys, values, next) ==
  /\ present' = keys
  /\ infos' = values
  /\ next
  /\ UNCHANGED <<envVars, userOps, urlToWorkOn, threadVars, pc, iterVars, resultVars,
                 flagVars, saveinfo>>

\* A project of that key that is already there is overwritten.
AddProject ==
  /\ Doing("add")
  /\ Replace(present \cup {ui.url}, [infos EXCEPT ![ui.url] = NewInfo], UiGoto("save", NoUrl))
  /\ since' = [since EXCEPT ![ui.url] = 0]
  /\ UNCHANGED <<lock, edit, confirm, owed>>

\* The question is asked, and answered, while the writer lock is held.
AskRemove ==
  /\ Doing("remove")
  /\ lock' = UiThread
  /\ confirm' = ui.url
  /\ Replace(present, infos, UiGoto("none", NoUrl))
  /\ UNCHANGED <<edit, histVars>>

Remove ==
  /\ UiPumps
  /\ confirm # NoUrl
  /\ Replace(present \ {confirm}, [infos EXCEPT ![confirm] = NewInfo],
             UiGoto(IF present = {confirm} THEN "forcesave" ELSE "save", NoUrl))
  /\ lock' = Free
  /\ confirm' = NoUrl
  /\ since' = [since EXCEPT ![confirm] = 0]
  /\ UNCHANGED <<edit, owed>>

\* The mutant forgets the lock on this way out.
KeepProjectLocked ==
  /\ UiPumps
  /\ confirm # NoUrl
  /\ confirm' = NoUrl
  /\ Replace(present, infos, UNCHANGED ui)
  /\ UNCHANGED <<lock, edit, histVars>>

KeepProject ==
  /\ UiPumps
  /\ confirm # NoUrl
  /\ lock' = Free
  /\ confirm' = NoUrl
  /\ Replace(present, infos, UNCHANGED ui)
  /\ UNCHANGED <<edit, histVars>>

\* The project dialog works on a copy, and no lock is held while it is open.
OpenEdit ==
  /\ Doing("edit")
  /\ edit' = [url |-> ui.url, info |-> Mine]
  /\ Replace(present, infos, UiGoto("none", NoUrl))
  /\ UNCHANGED <<lock, confirm, histVars>>

\* OK: the dialog closes with a key, and the thread waits for the lock.
EditOk ==
  /\ UiPumps
  /\ edit # NoEdit
  /\ \E key \in Url : (key \in GitUrl) = (edit.url \in GitUrl) /\ UiGoto("editok", key)
  /\ UNCHANGED <<envVars, dataVars, lock, edit, confirm, userOps, urlToWorkOn, threadVars,
                 pc, iterVars, resultVars, flagVars, saveinfo, histVars>>

\* The copy replaces the project, under another key if its URL was changed,
\* and is saved before the lock is released.
StoreEdit ==
  /\ Doing("editok")
  /\ Replace((present \ {edit.url}) \cup {ui.url},
             TrimAll([infos EXCEPT ![edit.url] = NewInfo,
                                   ![ui.url] = [edit.info EXCEPT !.age = 2,
                                                                 !.error = FALSE,
                                                                 !.notAuthorized = FALSE]]),
             UiGoto("none", NoUrl))
  /\ since' = [since EXCEPT ![edit.url] = 0, ![ui.url] = since[edit.url]]
  /\ owed' = [owed EXCEPT ![ui.url] = {}]
  /\ edit' = NoEdit
  /\ UNCHANGED <<lock, confirm>>

EditCancel ==
  /\ UiPumps
  /\ edit # NoEdit
  /\ edit' = NoEdit
  /\ Replace(present, infos, UNCHANGED ui)
  /\ UNCHANGED <<lock, confirm, histVars>>

-----------------------------------------------------------------------------
\* The steps of a handler the user-interface thread is in the middle of.
Handle ==
  \/ GetAll \/ Reset \/ Scan \/ Save \/ CheckNow \/ MarkAllAsRead \/ Select \/ MarkAsUnread
  \/ Discard \/ SelectNothing \/ ClearError \/ ToggleActive \/ RefreshAll \/ FetchNext \/ AddProject
  \/ AskRemove \/ OpenEdit \/ StoreEdit

\* A modal dialog is answered.
Answer == Remove \/ KeepProject \/ EditOk \/ EditCancel

UserInterface ==
  \/ \E op \in UiOps, u \in Url \cup {NoUrl} : Want(op, u)
  \/ Timer \/ SaveInfo \/ Handle \/ Answer

World == \E u \in Url : Commit(u) \/ Elapse(u)

Next ==
  \/ World
  \/ process = "running" /\ UserInterface
  \/ process = "running" /\ \E w \in Worker : Check(w)

Spec == Init /\ [][Next]_vars

\* Both threads are scheduled, so that each goes on when it can; the timer
\* fires and time passes; and the user answers a question, but need not ask for
\* anything.  No request is promised to succeed: that is what Faults says.
Fairness ==
  /\ \A w \in Worker : WF_vars(process = "running" /\ Check(w))
  /\ WF_vars(process = "running" /\ Handle)
  /\ WF_vars(process = "running" /\ SaveInfo)
  /\ WF_vars(process = "running" /\ Timer)
  /\ WF_vars(process = "running" /\ Answer)
  /\ \A u \in Url : WF_vars(Elapse(u))

FairSpec == Spec /\ Fairness

-----------------------------------------------------------------------------
(* Properties.                                                             *)

TypeOK ==
  /\ head \in [Url -> Rev]
  /\ clone \in [Url -> Rev]
  /\ present \subseteq Url
  /\ infos \in [Url -> Info]
  /\ lock \in {Free, UiThread} \cup Worker
  /\ ui \in [op : UiStep, url : Url \cup {NoUrl}]
  /\ edit \in [url : Url \cup {NoUrl}, info : Info]
  /\ confirm \in Url \cup {NoUrl}
  /\ urlToWorkOn \in Url \cup {NoUrl}
  /\ bRun \in BOOLEAN
  /\ threadRunning \in BOOLEAN
  /\ handle \in Worker \cup {NoWorker}
  /\ process \in Process
  /\ pc \in [Worker -> PC]
  /\ todo \in [Worker -> SUBSET Url]
  /\ cur \in [Worker -> Url \cup {NoUrl}]
  /\ copy \in [Worker -> [Url -> Info]]
  /\ headrev \in [Worker -> Rev0]
  /\ failure \in [Worker -> {"none", "connect", "auth"}]
  /\ logs \in [Worker -> SUBSET Rev]
  /\ newEntries \in [Worker -> BOOLEAN]
  /\ needsSaving \in [Worker -> BOOLEAN]
  /\ saveinfo \in BOOLEAN
  /\ userOps \in 0..MaxUserOps
  /\ since \in [Url -> Rev0]
  /\ owed \in [Url -> SUBSET Rev]

\* A commit that a monitor thread has fetched and is about to store.
Pending(u, r) == \E w \in Worker : At(w, "store") /\ cur[w] = u /\ r \in logs[w]

\* No commit is skipped: every commit after the first check of a Subversion
\* project, up to the revision the project counts as checked (SetChecked), is
\* among its entries or about to be stored, or has made room for maxentries others
\* with later keys.  The next check asks for later revisions only, so that a commit
\* this misses is never shown.
NoCommitSkipped ==
  \A u \in present \ GitUrl : since[u] # 0 =>
    \A r \in (since[u] + 1) .. infos[u].lastcheckedrev :
      r \in infos[u].log \/ Pending(u, r) \/ IsTrimmed(u, infos[u], r)

\* The same for a Git project, whose hash is written before the log is asked
\* for: the commit it stands for is there, or has made room for others, or the
\* thread that wrote the hash is about to fetch or to store the log.
HashIsFetched ==
  \A u \in present \cap GitUrl : infos[u].lastcheckedhash # 0 =>
    LET hash == infos[u].lastcheckedhash IN
      \/ hash \in infos[u].log \/ IsTrimmed(u, infos[u], hash)
      \/ \E w \in Worker : pc[w] \in {"getlog", "gitstore"} /\ cur[w] = u /\ headrev[w] = hash

\* A commit the user has read stays read: when a check fetches it again, when
\* two checks overlap, and after a refresh.  Only the user undoes it, or the
\* project dialog, which brings back the copy it opened with.
ReadStaysRead ==
  [][ \A u \in present : \A r \in infos[u].log \ infos[u].unread :
        r \in infos'[u].unread => ui.op \in {"unread", "editok"} ]_infos

\* When no check runs any more, every commit a check has found and nobody has read has
\* turned the icon red since it was stored (README.md: once there are new commits, "the
\* system tray icon changes the eyes from black to red").  This takes a popup of the
\* project, or bNewEntries at the end of the check.  A commit that a save has erased
\* meanwhile is not unread any more.
NewCommitsTurnEyesRed ==
  process = "running" /\ (\A w \in Worker : pc[w] \in {"idle", "leaving"}) =>
    \A u \in Url : owed[u] \cap infos[u].unread = {}

\* Across a blocking point the writer lock is held by one that will give it back:
\* a monitor thread whose report is being shown, or the user-interface thread, which
\* asks before it removes a project.  Nobody else keeps it, by any way out of a
\* handler (GetWriteData and ReleaseWriteData are called in pairs by hand), and
\* neither ever waits without it.
LockIsOwned ==
  /\ \A w \in Worker : lock = w <=> At(w, "errpopup")
  /\ lock = UiThread <=> confirm # NoUrl

\* The thread that reports a failed connection holds the writer lock until the
\* user-interface thread has taken its popup, so that thread must not wait for
\* the lock meanwhile: neither would ever go on.
NoDeadlock ==
  \A w \in Worker : At(w, "errpopup") => ui.op \in {"none", "getall"}

\* Every commit to a project that stays in the map, for Git every one that was fetched
\* into the clone, is found, whatever the user asks to be checked meanwhile (README.md:
\* it "shows a notification popup" once there are new commits).  A check of a single
\* project, which m_UrlToWorkOn asks for, must not keep the others from being checked
\* for ever.
CommitsAreFound ==
  \A u \in Url, r \in Rev :
    (IF u \in GitUrl THEN clone[u] ELSE head[u]) = r
      ~> r \in infos[u].log \/ u \notin present \/ process = "crashed"
=============================================================================
