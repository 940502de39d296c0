# CommitMonitor in TLA+

CommitMonitor sits in the Windows system tray, asks Subversion and Git repositories
for new commits at intervals, and tells the user about them. These modules model the
part of it that is hard to test: a background thread that checks the projects, a user
interface thread that changes the same projects meanwhile, the lock between them, and
what is left when the process ends at a bad moment.

## 1. Inventory of the system

| Part | Source | State it keeps | Operations |
|---|---|---|---|
| Project data | `src/src/UrlInfo.{h,cpp}` | `infos`: key -> `CUrlInfo` (last checked revision or hash, time, error, entries with read flags), a reader-writer lock `guard` | `GetReadOnlyData`, `GetWriteData` and their releases, `Save`, `Load` |
| Monitor thread | `HiddenWindow.cpp` `RunThread` | a snapshot of all projects, `headrev`, fetched logs, `bNewEntries`, `bNeedsSaving` | one check of all due projects |
| Hidden window | `HiddenWindow.cpp` | `m_ThreadRunning`, `m_bRun`, `m_hMonitorThread`, `m_UrlToWorkOn`, `m_bMainDlgRemovedItems`, popup data, tray icon | timer, `COMMITMONITOR_*` messages, tray menu, `StopThread` |
| Main dialog | `MainDlg.cpp`, `URLDlg.cpp` | selection; the project dialog keeps a copy of one `CUrlInfo` | check now, mark read/unread, remove commits, refresh all, fetch next, add, edit, remove, ... |
| Reader-writer lock | `src/ext/sktoolslib/ReaderWriterLock.{h,cpp}` | two counters of readers, one of writers, two events, recursion counts per thread | acquire, release, upgrade, downgrade |
| Start and end | `CommitMonitor.cpp` | the message loop; a mutex that a process started with `/task` ignores | load, exit, end of session |
| Version control | `SVN.cpp`, `Git.cpp`, `Accurev.cpp` | the logs of the last request | `GetHEADRevision`, `GetLog`, `GetGitLog` |
| Notifications | `HiddenWindow.cpp`, `StatusBarMsgWnd.cpp` | `m_popupData` with its timer, `m_slots`, the icon and the timer of its animation | popup, Snarl, animation, `TaskbarCreated`, options |
| Lists of repositories | `HiddenWindow.cpp` 1333-1505, `MainDlg.cpp` 825-890 | `parentpath` of a project, `m_bMainDlgRemovedItems` | read the page of a list and add what it names; remove a list with what is below it |
| Persistence | `UrlInfo.cpp`, `SerializeUtils.cpp` | files `urls`, `urls_new`, `urls_backup` | write, replace, read, copy, trim |

The two threads interact in four ways: through `infos`, under the lock; through
`SendMessage`, which blocks the monitor thread until the user-interface thread
dispatches the message; through posted messages; and through plain members
(`m_bRun`, `m_ThreadRunning`, `m_UrlToWorkOn`) without any lock.

What makes each part correct:

* *Monitor thread and project data*: every commit after the first check of a project is
  found and stored; what the user has read stays read; the icon tells the user of new
  commits; no request that is served is served for ever.
* *Both threads*: neither waits for the other in a circle.
* *Lock*: readers share, a writer is alone, nobody sleeps while the lock is free,
  and readers do not keep a writer out.
* *End and start*: the process does not tear down what a live thread uses, it does end,
  and the file does not claim that a commit was checked which it does not hold.
* *Persistence*: the file is whole or gone, a whole copy is left, and an empty list
  replaces another only if the user emptied it.
* *Lists of repositories*: a check that adds projects still comes to all others and ends;
  what the user removes goes with all that is below it.
* *Notifications*: what was collected is shown; the icon is there, and is red or animated
  only with a reason; popups do not cover each other.

The hazards, at their lines and with the properties that cover them, are listed in
`PROJECT.json`.

## 2. Modules

| Module | What it is |
|---|---|
| `UrlInfos` | one project as a record; what a log request returns, what a critical section of a check writes |
| `Monitor` (extends `UrlInfos`) | both threads: the check step by step, the user's operations, timer and messages |
| `Lifecycle` (extends `Monitor`) | the file, exit, end of session, crash, restart |
| `Persistence` | `CUrlInfos::Save` and `Load` step by step on three files, two processes, failing calls, a crash at any step |
| `AtomicList` | what keeping a list in a file promises; `Persistence` implements it |
| `Notification` | icon, animation, shell, full-screen windows, popups and their places |
| `ProjectList` (extends `Notification`) | a check with lists of repositories, the main dialog that removes projects, and the messages both send |
| `ReaderWriterLock` | `CReaderWriterLock` by its counters and events |
| `SharedAccess` | what a reader-writer lock promises; `ReaderWriterLock` implements it |
| `MCMonitor`, `MCLifecycle`, `MCReaderWriterLock`, `MCPersistence`, `MCProjectList` | values of the constants for TLC |
| `UrlInfos_proofs`, `Monitor_proofs`, `Commits_proofs`, `Lifecycle_proofs` | theorems about the monitor thread and what it leaves behind, each on the one before |
| `Notification_proofs`, `ProjectList_proofs` | theorems about what the user is shown, and about lists of repositories |
| `ReaderWriterLock_proofs`, `Persistence_proofs` | theorems about the lock and the files |

`Monitor` does not contain the steps of the lock. Its action is what a thread does
between two points where the other can come in: one critical section is one step, and
`lock` is only set where a section reaches over a blocking point. That a critical section
may be taken as one step is what `SharedAccess` says, and `ReaderWriterLock` is proved to
implement it. There is one place where readers do not only read: `CUrlInfo::Save` erases the
entries beyond `maxentries` under the reader lock, while the monitor thread may be copying
the same map as another reader. `Monitor!Trim` takes that as the end of the process.

`Monitor` and `ProjectList` model the same thread for different questions. `Monitor` has the
requests, the critical sections and several threads; lists of repositories, and what the
messages do to the icon, are in `ProjectList`, where a project that is not a list is
visited in a step or two.

### Correspondence of `Monitor` with the code

The steps of a check follow `RunThread` in its order; `pc[w]` is the place:

```
created -> snapshot -> loop -> filter -> due -> query -+-> denied
                        ^                              +-> hash -> getlog -> gitstore -> checked -> store
                        |                              +-> getlog ----------------------> checked -> store
                        |                              +-> noupdates (-> errpopup)          |
                        +---- all of them come back -----  logfailed     notify -> popup <--+
```

| Step | `HiddenWindow.cpp` | |
|---|---|---|
| `RunThread` | 689-700 | sets `m_ThreadRunning` and `m_bRun`; `CoInitializeEx` may fail |
| `Snapshot` | 702-706 | the copy the whole check works from |
| `NextProject`, `Filter`, `Due` | 711-725 | `m_bRun`, `m_UrlToWorkOn`, the intervals, "not authorized" |
| `GetHEADRevision`, `Denied` | 778-797 | Subversion |
| `GetLatestCommit`, `SetHash` | 757-777 | Git; a `git fetch` that fails is not noticed (`Git.cpp:203`), the hash is written before the log is fetched |
| `FetchLog`, `GitStore` | 803-906 | |
| `SetChecked` | 908-921 | `lastcheckedrev = headrev` |
| `StoreNext` | 925-1034 | one commit per critical section |
| `StoreDone`, `Robots` | 1072-1178 | with what `svnrobots.txt` says of the minimum interval |
| `Notify`, `Popup` | 1177-1215 | a popup if anything is unread, whatever its text |
| `LogFailed`, `NoUpdates`, `ErrPopup` | 1217-1231, 1271-1332 | the popup under the writer lock |
| `Finish`, `End` | 1599-1613 | from here on `m_ThreadRunning` is clear, `pc` is "leaving" |
| `ThreadEnds` | 1614-1619 | |

The user-interface thread is single: `ui` says which handler it is in. `Want` is the
user starting an operation, `Timer` and `SaveInfo` are messages, the actions in `Handle`
are the critical sections of the handlers, and `Answer` is the user closing a modal dialog
(while one is open, messages are still dispatched, so a check goes on). The operations of
the main dialog are `CheckNow`, `MarkAllAsRead`, `Select`, `MarkAsUnread`, `Discard`, `ClearError`,
`ToggleActive`, `RefreshAll`, `FetchNext`, `AddProject`, `AskRemove`/`Remove`/`KeepProject`
and `OpenEdit`/`StoreEdit`/`EditCancel`.

Abstractions, all of them in the data:

* Commits are numbers. For Git the number is the position on the branch and stands for
  the hash, so that "a different hash" is "a different number"; the order of the hashes,
  which decides what a save trims, is the constant `Hash`. `clone` is what of a branch is in
  the local clone.
* `lastchecked` is an age in three steps (`Age`), which is all the code compares it for.
* The user lists and the pattern that make a commit ignored are the set `Ignored`.
* What a popup says is left out; that it is sent, and turns the icon red, is not.
* An error text is a Boolean; of `errNr` only "not authorized" is kept. The registry value
  `IndicateConnectErrors` has its default, TRUE.
* `url` and key of a project are the same, which holds for Subversion, and for Git after
  the first start (`CUrlInfos::Load`).
* The information texts that are only sent while the main dialog is open are left out: a
  place where the monitor thread may block, before a step that may be delayed anyway.

`since` and `owed` are history variables: where the first complete check of a project
ended, and the commits of each project that came new to it and since when no message has
turned the icon red. No guard reads them.

`Lifecycle` adds the file (`disk`), `Exit` (tray menu, or Exit of the main dialog),
`StopThread` from `WM_QUERYENDSESSION` and `WM_DESTROY` ("ending") and from `WinMain`
("stopping"), `Crash` and `Restart`. The seconds `StopThread` waits are not counted: it may
return whenever the thread has begun. A save writes the file in one step; that this is
what `CUrlInfos::Save` amounts to, for one process, is the subject of `Persistence`.

`Persistence` has one action per call that reads or changes a file: `PathFileExists`,
`OpenUrls`, `Parse`, `LoadBackup`, `CopyFile` and `CopyFileEnds` in `CUrlInfos::Load`; `Save` (the
test of issue #267), `OpenNew`, `Lock`, `Write`, `Close`, `DeleteUrls`, `MoveNew`, and the failures
beside them, in `CUrlInfos::Save`. A file is the list it is to hold and the part of it that
was written. A handle that is open keeps others from opening, deleting or renaming the
file, as the modes of the calls say; the monitor thread may add a project at any
time but while the list is written. `overlapped`, `exposed`, `existed` and `emptied` are
history variables.

`Notification` has one action per message or timer: `PopupMessage` (`COMMITMONITOR_POPUP`),
`PopupTimer`, `DoAnimate`, `TaskbarCreated`, `SetOptions`, `IconMessage`, and `PopupCloses` and
`TrayMenu` for the windows of `StatusBarMsgWnd.cpp`. `ProjectList` has one action per critical
section or message of the loop over the projects, with the iterator as the key it is at
(`it`), `++` as `After` and `begin()` as `Least`. The loop of the main dialog that removes a list
(`MainDlg.cpp:852`) and begins again after each erase is written by its rounds:
`MapAfterRound` and `IteratorAfterRound`. `RemoveProject` takes what it leaves, the set `Erase`.
That this is what it leaves is proved for every map (`EraseLoopLeaves`, section 4); that the
loop comes to its end is evaluated by TLC, for every map of up to six keys (`EraseLoop` and the
assumption `EraseIsLoop` in `MCProjectList`).

`ReaderWriterLock` has one action per passage through the critical section `m_cs` and one
per return from `WaitForSingleObject`. The map from threads to 32-bit states is two
functions, `reads` and `writes`. Timeouts are INFINITE, as in every call in the program.

## 3. Runs

| Run | Shows | Bounds |
|---|---|---|
| `monitor_ui` | `TypeOK`, `LockIsOwned`, `NewCommitsTurnEyesRed`, `ReadStaysRead` with all operations and all failures | one project, 2 revisions, one entry kept, 2 operations, one thread; 1.4 million states |
| `monitor_overlap` | `NoCommitSkipped` with two threads at once, a refresh, and saves that trim | one project, revisions 9 and 10, 2 entries kept, symmetric threads; 2.1 million states |
| `monitor_live` | `CommitsAreFound` under fairness, `HashIsFetched` | Subversion and Git project, 2 revisions, one "check now", a `git fetch` that may fail; 130,000 states |
| `lifecycle` | `ReturnIsClean`, `QuietSaveSkipsNoCommit`, `QuietStartSkipsNoCommit`, `EndsAtLast` under fairness | one project, 3 revisions, 2 entries kept, every end, one restart; 700,000 states |
| `rwlock` | the six properties of the lock; no deadlock | three threads, two nested acquisitions of each kind |
| `persistence` | `UrlsIsWhole`, `CopyRemains`, `EmptiedByUser`, the refinement of `AtomicList` | two projects, two symmetric processes, every failing call but `fclose`, any number of crashes and starts, until two saves overlap; 1.2 million states |
| `window` | `AllVisited`, `CheckEnds`; `AnimationIsRed`, `TrayIconIsThere`, `EyesSettle`, `PopupsAreShown`, `SlotsAreApart` | a project, a list and what is below it; two sets of options; two things the user does, or one of the shell and two popups; 190,000 states |
| `finding_*` | the five disagreements of section 5 | the smallest instance that shows each |

Why the bounds are enough to be of use: one project suffices for what a check does to a
project, because a check reads and writes only the project it is at and the flags; the
second project is there where the flags matter (`m_UrlToWorkOn`). Two revisions make one
commit that the first check finds and one that a later one does, or one of two checks that
overlap and the other does not. With one entry kept, `monitor_ui` has saves that erase a commit
before or after it was announced. `monitor_overlap` begins at 9, of which the
first check fetches two commits (`NumLogs`), so that the keys "8", "9", "10" come in
an order that is not that of the numbers, for the refresh and for the trimming; with two
entries kept a third is trimmed, and the first to go is "10", the newest. Two user operations allow
one that prepares what the other meets (add and remove, open the dialog and refresh). Two
threads are possible in the code because the flag `m_ThreadRunning` is set by the new thread
itself, and because one thread that ends clears it for both; the theorems are for any
number unless they say otherwise (section 4). Three threads are the least for a waiting writer,
a waiting reader and a holder. `persistence` needs two projects for half a list that is not empty, and two processes
for a reader of the file beside its writer; each is started again without bound. `window`
needs three projects for an iterator that starts again with something before and after it;
the user and the shell are not busy in the same behaviour (`EitherIsBusy`): each meets
every step of a check and every message, but not the other. Where the shell is not the one
that is busy, it is there before the program (`NotificationInit`).

`Deadlock` is only checked in `rwlock`. In the others the system may stop: when the bounds
are reached, when the process has ended, and in the deadlock that is a finding.

`NoCommitSkipped` is about checks, which may overlap, and a refresh. It allows for a
commit that is not there only if `maxentries` entries with later keys are (`IsTrimmed`). It
does not hold with `fetchnext` (a finding), with `edit` (the dialog writes back an old copy),
or with a refresh down to revision 0 when `NumLogs` is smaller than what is to be fetched
again; therefore `monitor_overlap` has `UiOps = {"refreshall"}` and begins at revision 9. Section 4
names the exact conditions.

The properties of `persistence` end where two saves overlap, which only a process started
with `/task` makes possible (`CommitMonitor.cpp:124`): both write `urls_new`, one after the
other, and either may rename what the other has begun. `CopyRemains` also ends where a save
has begun although `urls` was gone (`exposed`), and the run leaves out a write that fails in
`fclose` only, whose result `Save` does not look at.

### Fairness

`Monitor!Fairness` is weak fairness of each monitor thread, of the handlers, the timer, the
posted message, the user's answer to an open dialog, and of time. Windows schedules both
threads and delivers messages and timers. No request is promised to succeed and the user
need not ask for anything; strong fairness is not needed, because a check that waits for
the user-interface thread waits in a state that thread leaves by itself.
`FairLockSpec` assumes that a holder gives the lock up, that a woken writer goes on
(weak), and that an auto-reset event that is set again and again serves each waiter in the
end (strong): Windows queues waiters in order.

`Lifecycle!LifecycleFairness` is weak fairness of what the ending process does itself: the
posted message, `StopThread`, its return, and that a thread that was created begins, for
which the code gives it two or four seconds. Nothing is assumed of a monitor thread
after that: it may be in a request for ever, and `EndsAtLast` holds nevertheless. The property
begins where the process is about to end, so nothing is assumed of the user.
`ProjectList!Fairness` is weak fairness of the check, of the timers of checks and popups,
of a removal that was begun, and of popups that go away. `EyesSettle` and `PopupsAreShown`
state what they need of the user and of full-screen windows as a premise.

## 4. Proofs

`tlapm` checks every theorem from nothing, for every value of the constants.

**Lock** (`ReaderWriterLock_proofs`, from `LockAssumption`: finitely many threads). The
properties are not inductive one by one. `IInv` adds two facts: `Waiting`, a reader in a
wait holds nothing and a writer in a wait has no write count (it may have a read count,
for an upgrade), and `Events`, an event is there while somebody waits for it, and is set
only while a writer waits and nobody is inside. From counters that are
cardinalities follows that a writer enters only an empty lock; from that, mutual
exclusion; and from the events, that no wake-up is lost. Lemmas on
cardinalities of a set with one thread more or less carry the counters.
`LockImplementsSharedAccess` then takes each step to a step of `SharedAccess` or a stutter.

**Monitor** (`Monitor_proofs`, on the lemmas of `UrlInfos_proofs`, from
`UrlInfosAssumption` and `MonitorAssumption`).
`MonitorTypeOK` needs that a dialog is open only on a project (`Dialogs`) and that a thread
inside a check is at a project (`AtProject`); the interesting values are the revision that
`RefreshAll` computes from the entries, and the one that `FetchNext` takes.
`MonitorReadStaysRead` goes over all steps: the only critical sections that touch `unread` of
an entry that is there are the user's, by `StoreKeepsRead` for those of a check.
`MonitorNewCommitsTurnEyesRed` is about the icon and not about the text of the popup, which is
about new commits or about an old error (section 5). It says of commits that are still unread
only, so that one the user has read or a save has erased counts no more. It rests on `OwedInv`:
for each project with such a commit (`Unannounced`) a thread with `bNewEntries` is at it, such a
thread is between storing and showing, and no thread past its start finds `m_bRun` cleared
(`StopThread` belongs to `Lifecycle`). While a commit is unread, `Notify` does not take the way
without a popup.

Saves that trim take nothing from this: what is left of a project is a project
(`TrimmedIsInfo`), and no entry that stays changes its read flag.

`MonitorLockIsOwned` is about the calls of `GetWriteData` and `ReleaseWriteData`, which the code pairs by
hand on every path. `LockInv` adds that the dialog that asks is about a project, so that the
one who asks is the one who gives the lock back. `MonitorNoDeadlock` says that the popup about a failed
connection is all there is to finding 1: if connections do not fail
(`"connect" \notin Faults`), no thread is in that report or on its way to it (`NoReport`), for
any number of threads and whatever the user does.

**Notification** (`Notification_proofs`, from `NotificationAssumption`). `IconInv` joins
the two statements on the icon with its type: every message goes through `ShowTrayIcon`
(`ShowTrayIconInv`), and the animation adds the icon itself. `SlotsInv` adds to
`SlotsAreApart` that each popup has a place in `m_slots`, without which a popup that closes
could not give it back; `RemoveAtElements` is about the sequence of popups without one of
them. The theorems are about `NotificationSpec`, in which any message may come at any time.

**Persistence** (`Persistence_proofs`, without assumptions on the numbers of processes and
projects; all but `PersistenceEmptiedByUser` under the hypothesis `"flush" \notin Faults`,
that what `fclose` writes is not lost). `TypeInv` adds to the types that `urls_new` is there
while it is written. `ReplaceInv` joins `UrlsIsWhole` and `CopyRemains` with what makes them
inductive: one handle at a time is open for writing (`OneWriter`); until two saves overlap
one process saves (`OneSaver`); past `Close`, `urls_new` is whole (`ClosedIsWhole`), which is
what the move puts in the place of `urls`; and who writes `urls_new` while `urls` is gone has
exposed the list (`WritingExposes`). Most steps are `Aside`: they leave the two files alone and
begin no save, so that one lemma does for all of them. `MeantInv` follows an empty list from
the removal of the last project over `bForce` and `urls_new` into `urls` (`EmptyIsMeant`,
`NewIsMeant`) and needs neither hypothesis nor `OneSaver`.
`PersistenceImplementsAtomicList` takes `Lock` to `Take`, `DeleteUrls` to `Lose` or a stutter,
`MoveNew` to `Put`, a save that fails or crashes to `GiveUp`, and the rest to a stutter.

**Commits** (`Commits_proofs`, on `Monitor_proofs`). `MonitorNoCommitSkipped` is about
Subversion projects. `NoCommitSkipped` is far from inductive: that nothing is missing when a
thread sets `lastcheckedrev` depends on what it asked for, with the copy it made when its check
began. `SkipInv` says

* of each project (`ProjectInv`) that it is covered up to `lastcheckedrev` and up to each of
  its entries, because `RefreshAll` goes back to one of them;
* of each thread that its copy of each project still ahead of it could as well be the
  project's own (`CopyInv`), that what it asks for is newer than what it saw (`QueriedInv`),
  that what it has fetched leaves no gap (`FetchedInv`, from `LogRangeCovers` of
  `UrlInfos_proofs`), and that what it stores is covered together with what is stored
  (`StoringInv`);
* and that no dialog is open that would disturb this (`UiInv`).

`PastIterator` adds that a thread does not come to a project twice in a check. A step is then
judged by what it does to a project: it leaves what is kept (`Stays`), or is about a project
that was never checked (`Begins`); `ThreadStays` shows once and for all that the threads which
do not take the step lose nothing by that. Trimming (`TrimSkips`) needs that who had made
room for `maxentries` others has done so afterwards, a fact about the order of the keys.

The hypotheses are those without which the property is false, as TLC shows for each:

* `Undisturbed`: without `edit`, whose copy brings back an older list of entries while a check
  counts newer ones; `fetchnext`, which is finding 3; and `discard`, by which the user takes
  commits away. With several threads nothing is removed and added again meanwhile: a thread
  that began before would take up the new project where the old one was.
* `GoesOn \/ LogsSuffice` in every state. `GoesOn` is one thread without `refreshall`, whatever is
  committed. Otherwise a check that does not go on from an earlier one, because it began before
  the first check was complete or after a refresh down to 0, gets `NumLogs` commits at most: if
  more than that were made since the first check, the others are skipped for good.
  `monitor_overlap` is an instance in which `LogsSuffice` always holds.

`MonitorHashIsFetched` is about Git projects and any number of threads. `FetchedHashInv` says
that while the commit of the hash is missing, the thread that wrote the hash is on its way
with it: it has yet to fetch the log, or the commit is in what it has fetched. Hypotheses:
no request for a log fails (else it is finding 4); fewer than `GitLimit` commits are made
between the request for the hash and that for the log (`FewCommits`), which the log would not
go back to; neither `edit` nor `discard`. A `git fetch` that fails costs nothing of this: the
hash a thread works with is that of a commit in the clone (`HashKnown`), which never goes back and
has no others than the repository (`CloneInv`).

**End and start** (`Lifecycle_proofs`, on `Commits_proofs`). `LifecycleTypeInv` extends the types
to the file, whose content becomes the memory of the next process. `LifecycleReturnIsClean`
follows from `ReturnInv`: while the process runs or ends, `m_hMonitorThread` is the one thread
there is, and `m_ThreadRunning` is set while it is at work; so `StopThread` finds the flag set or
a thread that has at most its end before it (`Gone`). This needs that no two threads are at work
at a time (`OneAtATime`): `StopThread` knows
the last one only, and either of two clears the flag. With two, TLC finds a process that
returns while a thread is at work.

`LifecycleQuietSaveSkipsNoCommit` (for one thread, under the hypotheses of
`MonitorNoCommitSkipped`) is about any number of starts and ends. A thread that finds `m_bRun`
cleared leaves a project that is marked as checked without its commits, so that `SkipInv` does
not hold in a process that is about to end. `QuietInv` says: either it holds, or this process
loaded what was saved during a check, or the process is `Doomed`, which means that it will
not save any more. That rests on the very thing that makes an exit during a check end in
`TerminateProcess`: while the window procedure waits in `StopThread` the thread cannot end, because
its last `SendMessage` goes to the waiting thread. And of the file it says what `ProjectInv` says of
the memory (`DiskProjectInv`), so that `SkipInv` holds again after a restart.
`LifecycleQuietStartSkipsNoCommit` draws the other conclusion from it: `NoCommitSkipped` holds in each
process that began with such a file.

`LifecycleNewCommitsTurnEyesRed` extends `MonitorNewCommitsTurnEyesRed` over starts and ends, without any
hypothesis and for any number of threads. A thread that is told to stop may leave a project
without its popup, so that `OwedInv` is lost, but only in a process that does not run any more
(`RunningOwes`), and the next one owes nothing.

For Git projects, `HashQuietInv` is to `FetchedHashInv` what `QuietInv` is to `SkipInv`:
`LifecycleQuietSaveHoldsHash` says that a file saved while no check runs has the commit of each hash,
or trimmed it, and `LifecycleQuietStartFetchesHash` that `HashIsFetched` holds in a process that began with such
a file. The hypotheses are those of `MonitorHashIsFetched`, and one thread; `CloneInv` holds over every end
and start (`NextCloneInv`), because the clone outlives the process. No run checks these two
properties, because one with both kinds of projects is too large and one more with a Git
project alone would ask the question of `lifecycle` again; TLC confirmed them on
`lifecycle.cfg` with `GitUrl <- OneSvn` in the place of `NoGit` (840,000 states).

**Lists of repositories** (`ProjectList_proofs`, from `ProjectListAssumption`).
`ProjectListAllVisited` rests on `VisitInv`: what the iterator has passed was visited. When the
loop begins again it passes over the first project (`Restart`), and that one has been visited,
because the project whose page was read does not come before it (`RestartIsVisited`).
`ProjectListRemovalLeaves` says exactly what stays below a list that is removed (`Leaves`): if
the list is the first project of all, the second one, if it is below the list; else nothing. It goes
over the cases of `Erase` (`RemovalLeaves`), and nobody else takes a list away (`OnlyRemoval`).
`ProjectListNotifies` takes every step to one of `Notification`, apart from its bounds, so that the
three invariants of `Notification_proofs` hold of the composition.

`EraseLoopLeaves` is about the loop of the main dialog: whatever map it begins with and whatever it is
to erase, if it comes to `end()` after some number of rounds, it leaves `Erase`. `EraseInv` is the
invariant of that loop: nothing is gone but what is to be erased, and, from the first round
on, the first key of the map is the one that stays in its place (`Stays`: the first of all or,
if that was erased, the one after it, which is never looked at), and of the keys before the
iterator only that one may be of those to erase. `RoundEraseInv` shows that a round keeps it, `EraseInvAtEnd` that it
says `Erase` at the end; the rounds are counted by a least one that breaks it, which the
prover can do without induction (`LeastIsFirst`).

**Only model-checked**: the liveness properties (`CommitsAreFound`, `WriterGetsIn`,
`EndsAtLast`, `CheckEnds`, `EyesSettle`, `PopupsAreShown`), which are out of the prover's
reach; and that the loop of the main dialog ends (`EraseIsLoop`). Every invariant and every action property of a passing run is
the subject of a theorem, and the constants of that run satisfy the theorem's hypotheses.

## 5. Disagreements between the code and what it promises

Five of them have a run that TLC refutes, listed under `findings` in `PROJECT.json`; the others
are below.

1. `finding_deadlock`: the first failed connection is reported with `SendMessage` while the
   writer lock is held (`HiddenWindow.cpp:1293`, `1327`), although the section is to
   "only block the object for a short time". If the user-interface thread waits for the
   lock just then, the program hangs.
2. `finding_stall`: `m_UrlToWorkOn` stays set when the project it names is removed before
   it is checked (`HiddenWindow.cpp:716-723`). From then on no other project is checked.
3. `finding_fetchnext`: "fetch next" (`MainDlg.cpp:3428`) makes the next check ask for older
   commits and then count everything up to HEAD as checked.
4. `finding_githash`: the hash of the latest Git commit is stored before the log is
   fetched (`HiddenWindow.cpp:769-774`); if that fails, the commit is not shown.
5. `finding_exit`: Exit saves while a check has advanced `lastcheckedrev` but not stored
   the commits (`HiddenWindow.cpp:450`, `913`). They are never fetched after the restart.

### Other disagreements and observations

What the models show, without a run of its own. Where a document or a comment says otherwise,
it is quoted.

*Announcing.* "Once CommitMonitor has found new commits to one or more of the repositories you
monitor, it shows a notification popup" (`README.md:14`). If a project had an error when the
check began and the check succeeds, its new commits get a popup that says "failed to connect!"
with the old error text (`HiddenWindow.cpp:1182-1186`, which looks at the snapshot's error and
not at the one of this check). A commit that a save has trimmed between storing and `Notify` is
not announced at all. What holds, and is proved, is `NewCommitsTurnEyesRed`: the icon turns red.

*Checks.* Two monitor threads may overlap. For commits that is harmless only within the
hypotheses of `MonitorNoCommitSkipped`: of two first checks of a project with more than `NumLogs`
commits between them, the later one skips some, and so may a project that is removed and
added again meanwhile. When one of the threads ends it clears `m_ThreadRunning` although the other
runs, so that `StopThread` returns, and the process tears down what the other uses. A Git push of
`GitLimit` commits or more that comes between the two requests leaves a hash whose commit was
never fetched. If
`CoInitializeEx` fails, `m_ThreadRunning` stays set and no check starts any more. A project
removed between two critical sections makes `Notify` dereference `end()`
(`HiddenWindow.cpp:1202`), which the model shows as `process = "crashed"`. New Git commits
alone do not set `bNeedsSaving`. A Git check adds again, as unread, what was trimmed or
removed by the user. A `git fetch` that fails is ignored (`Git.cpp:206`): the check succeeds with
the log of the old clone, no error is shown, and new commits wait for a check whose fetch succeeds.

*End.* A thread that is in a check while `StopThread` waits can never end, because its last
`SendMessage` goes to the waiting thread, so that such an exit always ends in
`TerminateProcess`.

*Saving.* `CUrlInfo::Save` trims in string order: when revisions get one digit more, the
newest commits go first. Two processes that save at the same time can leave half a list or
none in `urls`, although "only one instance" is "allowed" (`CommitMonitor.cpp:121`; `/task` is
the exception). After a crash between `DeleteFile` and `MoveFile` nothing is loaded, and the
first save empties `urls_new`, the only whole copy; `Load` looks at `urls_backup` only if
`urls` is there. If reading `urls` fails for a moment, the list of the previous start is
loaded, and the next save makes that permanent. `urls_backup` is torn by a crash in
`CopyFile`.

*Lists of repositories.* If a list is removed, "we also have to remove all sub-projects as
well" (`MainDlg.cpp:849-850`), but if the list is the first project of all and the second one is
below it, that one stays: the loop erases, begins again at `begin()` and increments
(`MainDlg.cpp:872`). `ProjectListRemovalLeaves` proves that this is the only one. A page without an `<index>` element adds projects
without a popup (`HiddenWindow.cpp:1448-1451`). A check that starts again works on the old
snapshot, without the projects it has added. `m_bMainDlgRemovedItems` is set by a message
that is sent after the lock was released (`MainDlg.cpp:879-882`), and cleared when the dialog
opens (`HiddenWindow.cpp:171`) or any check ends (1612). Between the release and the message a
running check may add again what was just removed, and any check after the flag was cleared
adds it as long as the page of the list names it.

*Icon.* It turns black while commits are unread when the dialog is closed, a project is
removed or the options are confirmed. It stays red if the last project is removed during a
check, because `DoTimer` does nothing without projects. `TaskbarCreated` during the animation
may show the black icon.

*Main dialog.* Selecting a commit of a Git project runs `git` under the reader lock
(`MainDlg.cpp:2477`).

## 6. Plan

Done, in this order: `UrlInfos`, `Monitor`, `Lifecycle`, the lock with its abstract
specification, the proofs of the lock, the type and two safety theorems of `Monitor`;
then `Persistence` with `AtomicList`, `Notification`, `ProjectList`, the trimming of entries and
the removal of commits in `Monitor`, the liveness of the end in `Lifecycle`, and the theorems
of `Notification` and `Persistence`.

The theorems on commits, on the end of the process and on lists of repositories came last:
every invariant and action property a passing run checks is now stated by a theorem. After
them the theorems of `Monitor` under the steps of `Lifecycle`, those on the lock held by
`Monitor`, and the loop that removes a list.

Next: `NoCommitSkipped` with `edit`, the text of the popup, and the sub-project that stays, as
disagreements with runs of their own.

In the model, where it adds a question: child processes and their pipes (Git and
AccuRev), with the handles that other children inherit.

### Not modelled, and why

Parsing and formatting (regular expressions, the output of Git and AccuRev, the pages of
servers, serialised bytes of older versions) are data without control. AccuRev goes through
the same steps of a check as Subversion. A child process is one step that returns or
fails. Of `svnrobots.txt` only the minimum interval is modelled, by the project becoming due or
not; that it may forbid diffs is left out with the diffs. Diffs, the custom script and the version
check touch no shared project data; Snarl is another program; options live in the registry, and export and import
read and write a file the user names. Dialogs for display only have no shared state. Of
the lock, finite timeouts and `TryAcquire` are left out, because no call in the program uses
them. Most of the lines under `src/` are vendored libraries (`src/ext`: Subversion, apr,
neon, openssl, sqlite, scintilla, ...), of which only the lock of sktoolslib is part of what
this program decides.
