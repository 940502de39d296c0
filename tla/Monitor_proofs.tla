--------------------------- MODULE Monitor_proofs ---------------------------
(***************************************************************************)
(* What holds of the monitor thread and the user interface for any number  *)
(* of projects, monitor threads and commits, whatever the user does and    *)
(* whatever fails.                                                         *)
(***************************************************************************)
EXTENDS Monitor, UrlInfos_proofs

-----------------------------------------------------------------------------
(* Types.  TypeOK is not inductive: a handler relies on the project it was *)
(* called for, and the monitor thread on the one its iterator points at.   *)

\* The dialog that is open edits a project, and so does what was confirmed in it.
Dialogs ==
  /\ ui.op \in {"add", "edit", "editok"} => ui.url \in Url
  /\ ui.op = "editok" => edit.url \in Url
  /\ edit # NoEdit => edit.url \in Url

\* While the thread is at a project its iterator points at one.
AtProject ==
  \A w \in Worker :
    pc[w] \notin {"idle", "created", "snapshot", "loop", "finish", "end", "leaving"} => cur[w] \in Url

TypeInv == TypeOK /\ Dialogs /\ AtProject

\* What storing commits leaves in bNewEntries and in the history.
LEMMA FoundTypes ==
  ASSUME TypeOK, NEW w \in Worker, NEW revs \in SUBSET Rev, Found(w, revs)
  PROVE  newEntries' \in [Worker -> BOOLEAN] /\ owed' \in [Url -> SUBSET Rev]
<1>1. News(w, revs) \subseteq Rev
  BY DEF News
<1>2. newEntries' \in [Worker -> BOOLEAN]
  BY DEF Found, TypeOK
<1> QED
  BY <1>1, <1>2 DEF Found, TypeOK

\* What "git fetch" leaves in the clone.
LEMMA FetchTypes ==
  ASSUME TypeOK, NEW u \in Url, Fetch(u)
  PROVE  clone' \in [Url -> Rev] /\ head' = head
BY DEF Fetch, TypeOK

\* A step of the monitor thread writes values of the right type.
LEMMA CheckTypeOK ==
  ASSUME TypeOK, AtProject, NEW w \in Worker, Check(w)
  PROVE  TypeOK'
<1> USE DEF TypeOK, PC,
        envVars, dataVars, uiVars, threadVars, iterVars, resultVars, flagVars, histVars,
        Goto, GotoUnlessStopped, Request
<1>1. CASE RunThread(w)
  <2>1. pc' \in [Worker -> PC]
    BY <1>1 DEF RunThread
  <2> QED
    BY <1>1, <2>1 DEF RunThread
<1>2. CASE Snapshot(w)
  BY <1>2 DEF Snapshot
<1>3. CASE NextProject(w)
  <2>1. NoResult(w)
    BY <1>3 DEF NextProject
  <2>2. /\ headrev' \in [Worker -> Rev0]
        /\ failure' \in [Worker -> {"none", "connect", "auth"}]
        /\ logs' \in [Worker -> SUBSET Rev]
    BY <2>1, UrlInfosAssumption DEF NoResult, Rev0, UrlInfosAssumption
  <2>3. CASE todo[w] = {} \/ ~bRun
    <3>1. UNCHANGED iterVars /\ pc' = [pc EXCEPT ![w] = "finish"]
      BY <1>3, <2>3 DEF NextProject
    <3> QED
      BY <1>3, <2>2, <3>1 DEF NextProject
  <2>4. CASE ~(todo[w] = {} \/ ~bRun)
    <3>1. PICK u \in todo[w] : /\ cur' = [cur EXCEPT ![w] = u]
                               /\ todo' = [todo EXCEPT ![w] = todo[w] \ {u}]
      BY <1>3, <2>4 DEF NextProject
    <3>2. copy' = copy /\ pc' = [pc EXCEPT ![w] = "filter"]
      BY <1>3, <2>4 DEF NextProject
    <3> QED
      BY <1>3, <2>2, <3>1, <3>2 DEF NextProject
  <2> QED
    BY <2>3, <2>4
<1>4. CASE Filter(w)
  BY <1>4 DEF Filter
<1>5. CASE Due(w)
  <2>1. urlToWorkOn' \in Url \cup {NoUrl}
    BY <1>5 DEF Due, TakeRequest
  <2>2. pc' \in [Worker -> PC]
    BY <1>5 DEF Due
  <2> QED
    BY <1>5, <2>1, <2>2 DEF Due
<1>6. CASE GetHEADRevision(w)
  <2>1. Rev \subseteq Rev0 /\ 0 \in Rev0
    BY UrlInfosAssumption DEF UrlInfosAssumption, Rev, Rev0
  <2>2. head[cur[w]] \in Rev
    BY <1>6 DEF GetHEADRevision, At, AtProject
  <2>3. \E h \in Rev0, f \in {"none", "connect", "auth"} : Request(w, h, f)
    BY <1>6, <2>1, <2>2 DEF GetHEADRevision
  <2>4. /\ headrev' \in [Worker -> Rev0]
        /\ failure' \in [Worker -> {"none", "connect", "auth"}]
    BY <2>3
  <2>5. \E l \in PC \ {"idle", "created"} : pc' = [pc EXCEPT ![w] = l]
    BY <1>6 DEF GetHEADRevision
  <2>6. pc' \in [Worker -> PC]
    BY <1>6, <2>5 DEF GetHEADRevision
  <2> QED
    BY <1>6, <2>4, <2>6 DEF GetHEADRevision
<1>7. CASE GetLatestCommit(w)
  <2>1. Rev \subseteq Rev0 /\ 0 \in Rev0
    BY UrlInfosAssumption DEF UrlInfosAssumption, Rev, Rev0
  <2>2. clone' \in [Url -> Rev] /\ clone'[cur[w]] \in Rev /\ head' = head
    <3>1. cur[w] \in Url /\ Fetch(cur[w])
      BY <1>7 DEF GetLatestCommit, At, AtProject
    <3> QED
      BY <3>1, FetchTypes
  <2>3. \E h \in Rev0, f \in {"none", "connect", "auth"} : Request(w, h, f)
    BY <1>7, <2>1, <2>2 DEF GetLatestCommit
  <2>4. /\ headrev' \in [Worker -> Rev0]
        /\ failure' \in [Worker -> {"none", "connect", "auth"}]
    BY <2>3
  <2>5. \E l \in PC \ {"idle", "created"} : pc' = [pc EXCEPT ![w] = l]
    BY <1>7 DEF GetLatestCommit
  <2>6. pc' \in [Worker -> PC]
    BY <1>7, <2>5 DEF GetLatestCommit
  <2>7. UNCHANGED <<dataVars, lock, uiVars, urlToWorkOn, threadVars, iterVars,
                    logs, flagVars, saveinfo, histVars>>
    BY <1>7 DEF GetLatestCommit
  <2> HIDE DEF PC
  <2> QED
    BY <2>2, <2>4, <2>6, <2>7
<1>8. CASE Denied(w)
  <2>1. infos' \in [Url -> Info]
    BY <1>8, InfoTypes DEF Denied, Update, Shared
  <2>2. pc' \in [Worker -> PC]
    BY <1>8 DEF Denied
  <2> QED
    BY <1>8, <2>1, <2>2 DEF Denied
<1>9. CASE SetHash(w)
  <2>1. \A h \in Rev0, info \in Info : [info EXCEPT !.lastcheckedhash = h] \in Info
    BY DEF Info
  <2>8. infos' \in [Url -> Info]
    BY <1>9, <2>1 DEF SetHash, Update, Shared
  <2>9. pc' \in [Worker -> PC]
    BY <1>9 DEF SetHash
  <2> QED
    BY <1>9, <2>8, <2>9 DEF SetHash
<1>10. CASE FetchLog(w)
  <2>0. clone' \in [Url -> Rev] /\ head' = head
    <3>1. cur[w] \in Url /\ (Fetch(cur[w]) \/ UNCHANGED <<head, clone>>)
      BY <1>10 DEF FetchLog, At, AtProject
    <3> QED
      BY <3>1, FetchTypes
  <2>1. \A u \in Url : GetGitLog(clone'[u], GitLimit) \subseteq Rev
    BY <2>0, LogTypes, UrlInfosAssumption DEF UrlInfosAssumption, Rev, Rev0
  <2>2. \/ logs' = [logs EXCEPT ![w] = GetGitLog(clone'[cur[w]], GitLimit)] /\ cur[w] \in Url
        \/ logs' = [logs EXCEPT ![w] = LogRange(Seen(w), headrev[w])]
        \/ logs' = logs
    BY <1>10 DEF FetchLog, At, AtProject
  <2>5. logs' \in [Worker -> SUBSET Rev]
    <3>1. PICK S \in SUBSET Rev : logs' = [logs EXCEPT ![w] = S] \/ logs' = logs
      BY <2>1, <2>2, LogTypes
    <3> QED
      BY <3>1
  <2>3. failure' \in [Worker -> {"none", "connect", "auth"}]
    BY <1>10 DEF FetchLog
  <2>4. pc' \in [Worker -> PC]
    BY <1>10 DEF FetchLog
  <2> QED
    BY <1>10, <2>0, <2>3, <2>4, <2>5 DEF FetchLog
<1>11. CASE GitStore(w)
  <2>8. infos' \in [Url -> Info]
    BY <1>11, InfoTypes DEF GitStore, Update, Shared
  <2>9. pc' \in [Worker -> PC] /\ newEntries' \in [Worker -> BOOLEAN]
        /\ logs' \in [Worker -> SUBSET Rev] /\ owed' \in [Url -> SUBSET Rev]
    BY <1>11, FoundTypes DEF GitStore
  <2> QED
    BY <1>11, <2>8, <2>9 DEF GitStore
<1>12. CASE SetChecked(w)
  <2>1. 0 \in Rev0
    BY UrlInfosAssumption DEF UrlInfosAssumption, Rev0
  <2>8. infos' \in [Url -> Info]
    BY <1>12, InfoTypes, <2>1 DEF SetChecked, Update, Shared
  <2>9. pc' \in [Worker -> PC] /\ since' \in [Url -> Rev0]
    BY <1>12 DEF SetChecked
  <2> QED
    BY <1>12, <2>8, <2>9 DEF SetChecked
<1>13. CASE StoreNext(w)
  <2>8. infos' \in [Url -> Info]
    BY <1>13, InfoTypes DEF StoreNext, Update, Shared
  <2>9. pc' \in [Worker -> PC] /\ newEntries' \in [Worker -> BOOLEAN]
        /\ needsSaving' \in [Worker -> BOOLEAN]
        /\ logs' \in [Worker -> SUBSET Rev] /\ owed' \in [Url -> SUBSET Rev]
    BY <1>13, FoundTypes DEF StoreNext
  <2> QED
    BY <1>13, <2>8, <2>9 DEF StoreNext
<1>14. CASE StoreDone(w)
  <2>1. \A info \in Info, age \in {0, 1, 2} : [info EXCEPT !.age = age] \in Info
    <3>1. {0, 1, 2} \subseteq Age
      BY DEF Age
    <3> QED
      BY <3>1 DEF Info
  <2>2. infos' = infos \/ \E age \in {0, 1, 2} : Update(w, [Shared(w) EXCEPT !.age = age])
    BY <1>14 DEF StoreDone, Robots
  <2>3. infos' \in [Url -> Info]
    <3>1. ASSUME NEW age \in {0, 1, 2}, Update(w, [Shared(w) EXCEPT !.age = age])
          PROVE  infos' \in [Url -> Info]
      <4>1. cur[w] \in present => [Shared(w) EXCEPT !.age = age] \in Info
        BY <2>1 DEF Shared
      <4> QED
        BY <3>1, <4>1 DEF Update
    <3> QED
      BY <2>2, <3>1
  <2>4. pc' \in [Worker -> PC]
    BY <1>14 DEF StoreDone, AfterStore
  <2> QED
    BY <1>14, <2>3, <2>4 DEF StoreDone
<1>15. CASE Notify(w)
  <2>1. process' \in Process
    BY <1>15 DEF Notify, Process
  <2>2. newEntries' \in [Worker -> BOOLEAN]
    BY <1>15 DEF Notify
  <2>3. pc' \in [Worker -> PC]
    BY <1>15 DEF Notify
  <2> QED
    BY <1>15, <2>1, <2>2, <2>3 DEF Notify
<1>16. CASE Popup(w)
  BY <1>16 DEF Popup, TurnsRed, NothingOwed
<1>17. CASE LogFailed(w)
  <2>1. PICK auth \in BOOLEAN : Update(w, Failed(Shared(w), auth))
    <3>1. cur[w] \in GitUrl => infos[cur[w]].notAuthorized \in BOOLEAN
      BY UrlInfosAssumption DEF UrlInfosAssumption, Info
    <3> QED
      BY <1>17, <3>1 DEF LogFailed, Shared
  <2>2. infos' \in [Url -> Info]
    BY <2>1, InfoTypes DEF Update, Shared
  <2>3. pc' \in [Worker -> PC]
    BY <1>17 DEF LogFailed
  <2> QED
    BY <1>17, <2>2, <2>3 DEF LogFailed
<1>18. CASE NoUpdates(w)
  <2>1. \A info \in Info, e \in BOOLEAN, n \in BOOLEAN :
          [info EXCEPT !.age = 0, !.error = e, !.notAuthorized = n] \in Info
    <3>1. 0 \in Age
      BY DEF Age
    <3> QED
      BY <3>1 DEF Info
  <2>8. infos' \in [Url -> Info]
    BY <1>18, <2>1 DEF NoUpdates, Update, Shared
  <2>9. \/ lock' = w /\ Goto(w, "errpopup")
        \/ UNCHANGED lock /\ Goto(w, "loop")
    BY <1>18 DEF NoUpdates
  <2>10. pc' \in [Worker -> PC] /\ lock' \in {Free, UiThread} \cup Worker
    BY <2>9
  <2> QED
    BY <1>18, <2>8, <2>10 DEF NoUpdates
<1>19. CASE ErrPopup(w)
  BY <1>19 DEF ErrPopup, TurnsRed, NothingOwed
<1>20. CASE Finish(w)
  BY <1>20 DEF Finish
<1>21. CASE End(w)
  <2>1. NoResult(w)
    BY <1>21 DEF End
  <2>2. /\ headrev' \in [Worker -> Rev0]
        /\ failure' \in [Worker -> {"none", "connect", "auth"}]
        /\ logs' \in [Worker -> SUBSET Rev]
    BY <2>1, UrlInfosAssumption DEF NoResult, Rev0, UrlInfosAssumption
  <2>3. copy' \in [Worker -> [Url -> Info]]
    BY <1>21, InfoTypes DEF End
  <2>4. /\ saveinfo' \in BOOLEAN /\ owed' \in [Url -> SUBSET Rev] /\ threadRunning' \in BOOLEAN
        /\ newEntries' \in [Worker -> BOOLEAN] /\ needsSaving' \in [Worker -> BOOLEAN]
    BY <1>21 DEF End, NothingOwed
  <2>5. /\ pc' \in [Worker -> PC] /\ todo' \in [Worker -> SUBSET Url]
        /\ cur' \in [Worker -> Url \cup {NoUrl}]
    BY <1>21 DEF End
  <2> QED
    BY <1>21, <2>2, <2>3, <2>4, <2>5 DEF End
<1>22. CASE ThreadEnds(w)
  BY <1>22 DEF ThreadEnds
<1> QED
  BY <1>1, <1>2, <1>3, <1>4, <1>5, <1>6, <1>7, <1>8, <1>9, <1>10, <1>11, <1>12, <1>13, <1>14, <1>15, <1>16, <1>17, <1>18, <1>19, <1>20, <1>21, <1>22 DEF Check

\* The iterator points at a project until the loop goes on or ends.
LEMMA CheckAtProject ==
  ASSUME TypeOK, AtProject, NEW w \in Worker, Check(w)
  PROVE  AtProject'
<1> USE DEF TypeOK, PC, AtProject, At, Goto, GotoUnlessStopped, iterVars
<1>1. CASE RunThread(w)
  BY <1>1 DEF RunThread
<1>2. CASE Snapshot(w)
  BY <1>2 DEF Snapshot
<1>3. CASE NextProject(w)
  <2>1. CASE todo[w] = {} \/ ~bRun
    <3>1. UNCHANGED iterVars /\ pc' = [pc EXCEPT ![w] = "finish"]
      BY <1>3, <2>1 DEF NextProject
    <3> QED
      BY <3>1
  <2>2. CASE ~(todo[w] = {} \/ ~bRun)
    <3>1. PICK u \in todo[w] : cur' = [cur EXCEPT ![w] = u]
      BY <1>3, <2>2 DEF NextProject
    <3>2. pc' = [pc EXCEPT ![w] = "filter"]
      BY <1>3, <2>2 DEF NextProject
    <3> QED
      BY <3>1, <3>2
  <2> QED
    BY <2>1, <2>2
<1>4. CASE Filter(w)
  BY <1>4 DEF Filter
<1>5. CASE Due(w)
  BY <1>5 DEF Due
<1>6. CASE GetHEADRevision(w)
  BY <1>6 DEF GetHEADRevision
<1>7. CASE GetLatestCommit(w)
  BY <1>7 DEF GetLatestCommit
<1>8. CASE Denied(w)
  BY <1>8 DEF Denied
<1>9. CASE SetHash(w)
  BY <1>9 DEF SetHash
<1>10. CASE FetchLog(w)
  BY <1>10 DEF FetchLog
<1>11. CASE GitStore(w)
  BY <1>11 DEF GitStore
<1>12. CASE SetChecked(w)
  BY <1>12 DEF SetChecked
<1>13. CASE StoreNext(w)
  BY <1>13 DEF StoreNext
<1>14. CASE StoreDone(w)
  <2>1. \E l \in {"notify", "loop"} : pc' = [pc EXCEPT ![w] = l]
    BY <1>14 DEF StoreDone, AfterStore
  <2>2. cur' = cur /\ pc[w] = "store"
    BY <1>14 DEF StoreDone
  <2> QED
    BY <2>1, <2>2
<1>15. CASE Notify(w)
  BY <1>15 DEF Notify
<1>16. CASE Popup(w)
  BY <1>16 DEF Popup
<1>17. CASE LogFailed(w)
  BY <1>17 DEF LogFailed
<1>18. CASE NoUpdates(w)
  BY <1>18 DEF NoUpdates
<1>19. CASE ErrPopup(w)
  BY <1>19 DEF ErrPopup
<1>20. CASE Finish(w)
  BY <1>20 DEF Finish
<1>21. CASE End(w)
  BY <1>21 DEF End
<1>22. CASE ThreadEnds(w)
  BY <1>22 DEF ThreadEnds
<1> QED
  BY <1>1, <1>2, <1>3, <1>4, <1>5, <1>6, <1>7, <1>8, <1>9, <1>10, <1>11, <1>12, <1>13, <1>14, <1>15, <1>16, <1>17, <1>18, <1>19, <1>20, <1>21, <1>22 DEF Check

\* A handler that turns the project it is called for into another one.
LEMMA ChangeTypeInv ==
  ASSUME TypeOK, Dialogs, NEW info, ui.url \in Url => info \in Info,
         NEW op \in UiStep \ {"add", "edit", "editok"}, NEW u \in Url \cup {NoUrl},
         Change(info, UiGoto(op, u)), owed' \in [Url -> SUBSET Rev]
  PROVE  TypeOK' /\ Dialogs'
<1>1. infos' \in [Url -> Info]
  BY DEF TypeOK, Change
<1>2. ui' \in [op : UiStep, url : Url \cup {NoUrl}] /\ ui'.op \notin {"add", "edit", "editok"}
  BY DEF Change, UiGoto
<1>3. edit' = edit
  BY DEF Change
<1>4. Dialogs'
  BY <1>2, <1>3 DEF Dialogs
<1> QED
  BY <1>1, <1>2, <1>4
  DEF Change, TypeOK, envVars, dataVars, uiVars, threadVars, iterVars, resultVars,
      flagVars, histVars

\* A step of the user-interface thread writes values of the right type.
LEMMA UserTypeInv ==
  ASSUME TypeOK, Dialogs, UserInterface
  PROVE  TypeOK' /\ Dialogs'
<1> USE DEF TypeOK, Dialogs, UiStep, AllUiOps, UiGoto, Doing, Replace, NoEdit,
            envVars, dataVars, uiVars, threadVars, iterVars, resultVars, flagVars, histVars
<1>1. CASE GetAll
  BY <1>1 DEF GetAll
<1>2. CASE Reset
  <2>1. \A info \in Info : [info EXCEPT !.age = 2] \in Info
    <3>1. 2 \in Age
      BY DEF Age
    <3> QED
      BY <3>1 DEF Info
  <2>2. infos' \in [Url -> Info]
    BY <1>2, <2>1 DEF Reset
  <2>3. ui' \in [op : UiStep, url : Url \cup {NoUrl}] /\ ui'.op \in {"none", "scan"}
    BY <1>2 DEF Reset
  <2> QED
    BY <1>2, <2>2, <2>3 DEF Reset
<1>3. CASE Scan
  <2>1. pc' \in [Worker -> PC] /\ handle' \in Worker \cup {NoWorker}
    BY <1>3 DEF Scan, Goto, PC
  <2>2. ui' \in [op : UiStep, url : Url \cup {NoUrl}] /\ ui'.op = "none"
    BY <1>3 DEF Scan
  <2> QED
    BY <1>3, <2>1, <2>2 DEF Scan
<1>4. CASE Save
  <2>1. infos' \in [Url -> Info]
    BY <1>4, TrimmedIsInfo DEF Save, Trim, TrimAll
  <2>2. process' \in Process
    BY <1>4 DEF Save, Trim, Process
  <2> QED
    BY <1>4, <2>1, <2>2 DEF Save
<1>5. CASE CheckNow
  <2>2. ui.url \in Url => Mine \in Info
    BY DEF Info, Mine
  <2> QED
    BY <1>5, <2>2, ChangeTypeInv DEF CheckNow
<1>6. CASE MarkAllAsRead
  <2>1. \A info \in Info : [info EXCEPT !.unread = {}] \in Info
    BY DEF Info
  <2>2. infos' \in [Url -> Info] /\ owed' \in [Url -> SUBSET Rev]
    BY <1>6, <2>1 DEF MarkAllAsRead
  <2>3. ui' \in [op : UiStep, url : Url \cup {NoUrl}] /\ ui'.op \in {"none", "save"}
    BY <1>6 DEF MarkAllAsRead
  <2> QED
    BY <1>6, <2>2, <2>3 DEF MarkAllAsRead
<1>7. CASE Select
  <2>1. PICK r \in Mine.log : Change([Mine EXCEPT !.unread = @ \ {r}], UiGoto("none", NoUrl))
    BY <1>7 DEF Select
  <2>2. ui.url \in Url => [Mine EXCEPT !.unread = @ \ {r}] \in Info
    BY <2>1 DEF Info, Mine
  <2> QED
    BY <1>7, <2>1, <2>2, ChangeTypeInv DEF Select
<1>8. CASE MarkAsUnread
  <2>1. PICK r \in Mine.log : /\ Change([Mine EXCEPT !.unread = @ \cup {r}],
                                         UiGoto("none", NoUrl))
                              /\ owed' = [owed EXCEPT ![ui.url] = @ \ {r}]
    BY <1>8 DEF MarkAsUnread
  <2>3. owed' \in [Url -> SUBSET Rev]
    BY <2>1
  <2>2. ui.url \in Url => [Mine EXCEPT !.unread = @ \cup {r}] \in Info
    <3>1. ui.url \in Url => r \in Rev /\ Mine \in Info
      BY <2>1 DEF Info, Mine
    <3> QED
      BY <3>1 DEF Info
  <2> QED
    BY <2>1, <2>2, <2>3, ChangeTypeInv
<1>8a. CASE Discard
  <2>1. PICK S \in SUBSET Mine.log :
          Change([Mine EXCEPT !.log = @ \ S, !.unread = @ \ S],
                 IF S = Mine.log THEN UiGoto("none", NoUrl) ELSE UiGoto("select", ui.url))
    BY <1>8a DEF Discard
  <2>2. ui.url \in Url => [Mine EXCEPT !.log = @ \ S, !.unread = @ \ S] \in Info
    BY <2>1 DEF Info, Mine
  <2>3. \E op \in {"none", "select"}, u \in Url \cup {NoUrl} :
          Change([Mine EXCEPT !.log = @ \ S, !.unread = @ \ S], UiGoto(op, u))
    BY <2>1
  <2> QED
    BY <1>8a, <2>2, <2>3, ChangeTypeInv DEF Discard
<1>9. CASE SelectNothing
  <2>2. ui.url \in Url => Mine \in Info
    BY DEF Info, Mine
  <2> QED
    BY <1>9, <2>2, ChangeTypeInv DEF SelectNothing
<1>10. CASE ClearError
  <2>2. ui.url \in Url => [Mine EXCEPT !.error = FALSE] \in Info
    BY DEF Info, Mine
  <2> QED
    BY <1>10, <2>2, ChangeTypeInv DEF ClearError
<1>11. CASE ToggleActive
  <2>1. \A info \in Info : [info EXCEPT !.monitored = ~@] \in Info
    BY DEF Info
  <2>2. ui.url \in Url => [Mine EXCEPT !.monitored = ~@] \in Info
    BY <2>1 DEF Mine
  <2> QED
    BY <1>11, <2>2, ChangeTypeInv DEF ToggleActive
<1>12. CASE RefreshAll
  <2> DEFINE rev == IF ui.url \in GitUrl THEN 0 ELSE RevToRefreshFrom(Mine)
  <2>1. ui.url \in Url => Mine \in Info /\ RevToRefreshFrom(Mine) \in Rev0 /\ 2 \in Age
    BY RevToRefreshFromType DEF Mine, Age
  <2>2. 0 \in Rev0
    BY UrlInfosAssumption DEF UrlInfosAssumption, Rev0
  <2>3. Change([Mine EXCEPT !.lastcheckedrev = rev, !.age = 2], UiGoto("getall", ui.url))
    BY <1>12 DEF RefreshAll
  <2>4. ui.url \in Url => rev \in Rev0
    BY <2>1, <2>2
  <2> HIDE DEF rev
  <2>5. ui.url \in Url => [Mine EXCEPT !.lastcheckedrev = rev, !.age = 2] \in Info
    BY <2>1, <2>4 DEF Info
  <2> QED
    BY <1>12, <2>3, <2>5, ChangeTypeInv DEF RefreshAll
<1>13. CASE FetchNext
  <2>1. PICK rev \in IF ui.url \in GitUrl THEN {0}
                   ELSE IF Mine.log = {} THEN Rev0 ELSE {FirstKey(Mine.log)} :
          Change([Mine EXCEPT !.lastcheckedrev = 0, !.startfromrev = rev],
                 UiGoto("getall", ui.url))
    BY <1>13 DEF FetchNext
  <2>2. 0 \in Rev0 /\ Rev \subseteq Rev0
    BY UrlInfosAssumption DEF UrlInfosAssumption, Rev, Rev0
  <2>3. ui.url \in Url => Mine \in Info /\ Mine.log \in SUBSET Rev
    BY DEF Mine, Info
  <2>4. ui.url \in Url => rev \in Rev0
    BY <2>1, <2>2, <2>3, FirstKeyType
  <2>5. ui.url \in Url =>
          [Mine EXCEPT !.lastcheckedrev = 0, !.startfromrev = rev] \in Info
    BY <2>2, <2>3, <2>4 DEF Info
  <2> QED
    BY <1>13, <2>1, <2>5, ChangeTypeInv DEF FetchNext
<1>14. CASE AddProject
  <2>1. infos' \in [Url -> Info] /\ present' \subseteq Url /\ owed' \in [Url -> SUBSET Rev]
    BY <1>14, InfoTypes DEF AddProject
  <2>2. since' \in [Url -> Rev0]
    BY <1>14, UrlInfosAssumption DEF AddProject, UrlInfosAssumption, Rev0
  <2>3. ui' \in [op : UiStep, url : Url \cup {NoUrl}] /\ ui'.op = "save"
    BY <1>14 DEF AddProject
  <2> QED
    BY <1>14, <2>1, <2>2, <2>3 DEF AddProject
<1>15. CASE AskRemove
  BY <1>15 DEF AskRemove
<1>16. CASE OpenEdit
  <2>1. ui.url \in Url
    BY <1>16 DEF OpenEdit
  <2>2. edit' \in [url : Url \cup {NoUrl}, info : Info] /\ edit'.url \in Url
    BY <1>16, <2>1 DEF OpenEdit, Mine
  <2>3. ui' \in [op : UiStep, url : Url \cup {NoUrl}] /\ ui'.op = "none"
    BY <1>16 DEF OpenEdit
  <2> QED
    BY <1>16, <2>2, <2>3 DEF OpenEdit
<1>17. CASE StoreEdit
  <2>1. edit.url \in Url /\ ui.url \in Url
    BY <1>17 DEF StoreEdit
  <2>2. \A info \in Info :
          [info EXCEPT !.age = 2, !.error = FALSE, !.notAuthorized = FALSE] \in Info
    <3>1. 2 \in Age
      BY DEF Age
    <3> QED
      BY <3>1 DEF Info
  <2>7. PICK values \in [Url -> Info] : infos' = TrimAll(values)
    BY <1>17, <2>1, <2>2, InfoTypes DEF StoreEdit
  <2>8. owed' \in [Url -> SUBSET Rev]
    BY <1>17 DEF StoreEdit
  <2>3. infos' \in [Url -> Info] /\ present' \subseteq Url
    <3>1. infos' \in [Url -> Info]
      BY <2>7, TrimmedIsInfo DEF TrimAll
    <3> QED
      BY <1>17, <2>1, <3>1 DEF StoreEdit
  <2>4. since' \in [Url -> Rev0]
    <3>1. 0 \in Rev0
      BY UrlInfosAssumption DEF UrlInfosAssumption, Rev0
    <3>2. since[edit.url] \in Rev0
      BY <2>1
    <3> QED
      BY <1>17, <3>1, <3>2 DEF StoreEdit
  <2>5. edit' = NoEdit /\ edit' \in [url : Url \cup {NoUrl}, info : Info]
    BY <1>17, InfoTypes DEF StoreEdit
  <2>6. ui' \in [op : UiStep, url : Url \cup {NoUrl}] /\ ui'.op = "none"
    BY <1>17 DEF StoreEdit
  <2> QED
    BY <1>17, <2>3, <2>4, <2>5, <2>6, <2>8 DEF StoreEdit
<1>18. CASE Remove
  <2>1. infos' \in [Url -> Info] /\ present' \subseteq Url /\ owed' \in [Url -> SUBSET Rev]
    BY <1>18, InfoTypes DEF Remove
  <2>2. since' \in [Url -> Rev0]
    BY <1>18, UrlInfosAssumption DEF Remove, UrlInfosAssumption, Rev0
  <2>3. ui' \in [op : UiStep, url : Url \cup {NoUrl}] /\ ui'.op \in {"save", "forcesave"}
    BY <1>18 DEF Remove
  <2> QED
    BY <1>18, <2>1, <2>2, <2>3 DEF Remove
<1>19. CASE KeepProject
  BY <1>19 DEF KeepProject
<1>20. CASE EditOk
  BY <1>20 DEF EditOk
<1>21. CASE EditCancel
  <2>1. edit' = NoEdit /\ edit' \in [url : Url \cup {NoUrl}, info : Info]
    BY <1>21, InfoTypes DEF EditCancel
  <2>2. ui' = ui /\ ui.op = "none"
    BY <1>21 DEF EditCancel, UiPumps
  <2> QED
    BY <1>21, <2>1, <2>2 DEF EditCancel
<1>22. CASE Timer
  BY <1>22 DEF Timer
<1>23. CASE SaveInfo
  BY <1>23 DEF SaveInfo
<1>24. ASSUME NEW op \in UiOps, NEW u \in Url \cup {NoUrl}, Want(op, u)
      PROVE  TypeOK' /\ Dialogs'
  BY <1>24, MonitorAssumption DEF Want, Tray, UiPumps, MonitorAssumption
<1> QED
  BY <1>1, <1>2, <1>3, <1>4, <1>5, <1>6, <1>7, <1>8, <1>9, <1>10, <1>11, <1>12, <1>13, <1>14, <1>15, <1>16, <1>17, <1>18, <1>19, <1>20, <1>21, <1>22, <1>23, <1>24, <1>8a
  DEF UserInterface, Handle, Answer

\* The user interface creates monitor threads, and leaves those alone that run.
LEMMA UserAtProject ==
  ASSUME TypeOK, AtProject, UserInterface
  PROVE  AtProject'
<1>1. UNCHANGED iterVars
  BY DEF UserInterface, Handle, Answer, GetAll, Reset, Scan, Save, Trim, CheckNow, MarkAllAsRead, Select, MarkAsUnread, Discard, SelectNothing, ClearError, ToggleActive, RefreshAll, FetchNext, AddProject, AskRemove, OpenEdit, StoreEdit, Remove, KeepProject, EditOk, EditCancel, Timer, SaveInfo, Want, Change, Replace
<1>2. UNCHANGED pc \/ \E w \in Worker : Goto(w, "created")
  BY DEF UserInterface, Handle, Answer, GetAll, Reset, Scan, Save, Trim, CheckNow, MarkAllAsRead, Select, MarkAsUnread, Discard, SelectNothing, ClearError, ToggleActive, RefreshAll, FetchNext, AddProject, AskRemove, OpenEdit, StoreEdit, Remove, KeepProject, EditOk, EditCancel, Timer, SaveInfo, Want, Change, Replace
<1> QED
  BY <1>1, <1>2 DEF TypeOK, AtProject, Goto, iterVars

\* Commits and time stay within their bounds.
LEMMA WorldTypeInv ==
  ASSUME TypeInv, World
  PROVE  TypeInv'
<1> USE DEF TypeInv, TypeOK, Dialogs, AtProject, World,
            dataVars, uiVars, threadVars, iterVars, resultVars, flagVars, histVars
<1>1. ASSUME NEW u \in Url, Commit(u) PROVE TypeInv'
  <2>1. MaxRev \in Nat
    BY UrlInfosAssumption DEF UrlInfosAssumption
  <2> QED
    BY <1>1, <2>1 DEF Commit, Rev
<1>2. ASSUME NEW u \in Url, Elapse(u) PROVE TypeInv'
  <2>1. infos[u] \in Info /\ infos[u].age \in Age /\ infos[u].age < 2
    BY <1>2 DEF Elapse, Info
  <2>2. infos[u].age + 1 \in Age
    BY <2>1 DEF Age
  <2>3. [infos[u] EXCEPT !.age = @ + 1] \in Info
    BY <2>1, <2>2 DEF Info
  <2>4. infos' \in [Url -> Info]
    BY <1>2, <2>3 DEF Elapse
  <2> QED
    BY <1>2, <2>4 DEF Elapse, envVars
<1> QED
  BY <1>1, <1>2

\* The constructors leave values of the right type.
LEMMA InitTypeInv == Init => TypeInv
<1> SUFFICES ASSUME Init PROVE TypeInv
  OBVIOUS
<1>1. 0 \in Rev0
  BY UrlInfosAssumption DEF UrlInfosAssumption, Rev0
<1>2. head \in [Url -> Rev] /\ clone \in [Url -> Rev] /\ userOps \in 0..MaxUserOps
  BY MonitorAssumption DEF Init, MonitorAssumption
<1>3. ui \in [op : UiStep, url : Url \cup {NoUrl}]
  BY DEF Init, NoUi, UiStep
<1>4. edit \in [url : Url \cup {NoUrl}, info : Info]
  BY InfoTypes DEF Init, NoEdit
<1>5. copy \in [Worker -> [Url -> Info]] /\ infos \in [Url -> Info]
  BY InfoTypes DEF Init
<1>6. TypeOK
  BY <1>1, <1>2, <1>3, <1>4, <1>5 DEF Init, TypeOK, Process, PC, NothingOwed
<1>7. Dialogs /\ AtProject
  BY DEF Init, Dialogs, NoUi, AtProject
<1> QED
  BY <1>6, <1>7 DEF TypeInv

\* Every step keeps the types.
LEMMA NextTypeInv ==
  ASSUME TypeInv, [Next]_vars
  PROVE  TypeInv'
<1>1. CASE World
  BY <1>1, WorldTypeInv
<1>2. CASE UserInterface
  BY <1>2, UserTypeInv, UserAtProject DEF TypeInv
<1>3. ASSUME NEW w \in Worker, Check(w) PROVE TypeInv'
  <2>1. UNCHANGED <<ui, edit>>
    BY <1>3 DEF Check, RunThread, Snapshot, NextProject, Filter, Due, GetHEADRevision, GetLatestCommit, Denied, SetHash, FetchLog, GitStore, SetChecked, StoreNext, StoreDone, Notify, Popup, LogFailed, NoUpdates, ErrPopup, Finish, End, ThreadEnds, uiVars
  <2> QED
    BY <1>3, <2>1, CheckTypeOK, CheckAtProject DEF TypeInv, Dialogs
<1>4. CASE UNCHANGED vars
  BY <1>4 DEF vars, envVars, dataVars, uiVars, threadVars, iterVars, resultVars,
              flagVars, histVars, TypeInv, TypeOK, Dialogs, AtProject
<1> QED
  BY <1>1, <1>2, <1>3, <1>4 DEF Next

\* The types, with what they rest on, hold in every state.
LEMMA AlwaysTypeInv == Spec => []TypeInv
BY InitTypeInv, NextTypeInv, PTL DEF Spec

\* Every variable has its type: the revisions that RefreshAll and FetchNext compute
\* from the first log entry are revisions, the entries are commits of the repository.
THEOREM MonitorTypeOK == Spec => []TypeOK
BY AlwaysTypeInv, PTL DEF TypeInv
-----------------------------------------------------------------------------
(* What the user has read.                                                 *)

\* ReadStaysRead, of one step.
ReadKept ==
  \A u \in present : \A r \in infos[u].log \ infos[u].unread :
    r \in infos'[u].unread => ui.op \in {"unread", "editok"}

\* A critical section that writes a project leaves what is unread if it writes the
\* same there.
LEMMA UpdateKeepsUnread ==
  ASSUME TypeOK, NEW w \in Worker, NEW info, Update(w, info),
         cur[w] \in Url => info.unread = Shared(w).unread
  PROVE  \A u \in Url : infos'[u].unread = infos[u].unread
<1> TAKE u \in Url
<1>1. CASE cur[w] = u
  BY <1>1 DEF TypeOK, Update, Shared
<1>2. CASE cur[w] # u
  BY <1>2 DEF TypeOK, Update
<1> QED
  BY <1>1, <1>2

\* A monitor thread changes what is unread only when it stores commits.
LEMMA StepsKeepUnread ==
  ASSUME TypeOK, NEW w \in Worker, Check(w), ~GitStore(w), ~StoreNext(w)
  PROVE  \A u \in Url : infos'[u].unread = infos[u].unread
<1>i. cur[w] \in Url => Shared(w) \in Info
  BY DEF TypeOK, Shared
<1>1. CASE Denied(w)
  <2>1. cur[w] \in Url => Failed(Shared(w), TRUE).unread = Shared(w).unread
    BY <1>i DEF Failed, Info
  <2> QED
    BY <1>1, <2>1, UpdateKeepsUnread DEF Denied
<1>2. CASE SetHash(w)
  <2>1. cur[w] \in Url => [Shared(w) EXCEPT !.lastcheckedhash = headrev[w]].unread = Shared(w).unread
    BY <1>i DEF Info
  <2> QED
    BY <1>2, <2>1, UpdateKeepsUnread DEF SetHash
<1>3. CASE SetChecked(w)
  <2>1. cur[w] \in Url => Checked(Shared(w), IF cur[w] \in GitUrl THEN 0 ELSE headrev[w]).unread = Shared(w).unread
    BY <1>i DEF Checked, Info
  <2> QED
    BY <1>3, <2>1, UpdateKeepsUnread DEF SetChecked
<1>4. CASE StoreDone(w)
  <2>1. infos' = infos \/ \E age \in {0, 1, 2} : Update(w, [Shared(w) EXCEPT !.age = age])
    BY <1>4 DEF StoreDone, Robots
  <2>2. \A age : cur[w] \in Url => [Shared(w) EXCEPT !.age = age].unread = Shared(w).unread
    BY <1>i DEF Info
  <2> QED
    BY <2>1, <2>2, UpdateKeepsUnread
<1>5. CASE LogFailed(w)
  <2>1. cur[w] \in Url => Failed(Shared(w), IF cur[w] \in GitUrl THEN Shared(w).notAuthorized
                                 ELSE failure[w] = "auth").unread = Shared(w).unread
    BY <1>i DEF Failed, Info
  <2> QED
    BY <1>5, <2>1, UpdateKeepsUnread DEF LogFailed
<1>6. CASE NoUpdates(w)
  <2>1. PICK e, n : Update(w, [Shared(w) EXCEPT !.age = 0, !.error = e, !.notAuthorized = n])
    BY <1>6 DEF NoUpdates
  <2>2. cur[w] \in Url =>
          [Shared(w) EXCEPT !.age = 0, !.error = e, !.notAuthorized = n].unread = Shared(w).unread
    BY <1>i DEF Info
  <2> QED
    BY <2>1, <2>2, UpdateKeepsUnread
<1>7. CASE \/ RunThread(w) \/ Snapshot(w) \/ NextProject(w) \/ Filter(w) \/ Due(w)
           \/ GetHEADRevision(w) \/ GetLatestCommit(w) \/ FetchLog(w) \/ Notify(w)
           \/ Popup(w) \/ ErrPopup(w) \/ Finish(w) \/ End(w) \/ ThreadEnds(w)
  <2>1. infos' = infos
    BY <1>7 DEF RunThread, Snapshot, NextProject, Filter, Due, GetHEADRevision, GetLatestCommit, FetchLog, Notify, Popup, ErrPopup, Finish, End, ThreadEnds, dataVars
  <2> QED
    BY <2>1
<1> QED
  BY <1>1, <1>2, <1>3, <1>4, <1>5, <1>6, <1>7 DEF Check

\* A critical section of the monitor thread keeps what is read if the project it
\* writes does.
LEMMA UpdateKeepsRead ==
  ASSUME TypeOK, NEW w \in Worker, NEW info, Update(w, info),
         \A r : cur[w] \in Url /\ r \in Shared(w).log \ Shared(w).unread => r \notin info.unread
  PROVE  ReadKept
<1> SUFFICES ASSUME NEW u \in present, NEW r \in infos[u].log \ infos[u].unread
             PROVE  r \notin infos'[u].unread
  BY DEF ReadKept
<1>1. u \in Url
  BY DEF TypeOK
<1>2. CASE cur[w] = u
  BY <1>1, <1>2 DEF TypeOK, Update, Shared
<1>3. CASE cur[w] # u
  BY <1>1, <1>3 DEF TypeOK, Update
<1> QED
  BY <1>2, <1>3

\* No step of a monitor thread makes a commit unread that the user has read.
LEMMA CheckKeepsRead ==
  ASSUME TypeOK, NEW w \in Worker, Check(w)
  PROVE  ReadKept
<1>i. cur[w] \in Url => Shared(w) \in Info
  BY DEF TypeOK, Shared
<1>1. CASE GitStore(w)
  BY <1>1, <1>i, StoreKeepsRead, UpdateKeepsRead DEF GitStore
<1>2. CASE StoreNext(w)
  <2>1. PICK r \in logs[w] : Update(w, StoreOne(Shared(w), r))
    BY <1>2 DEF StoreNext
  <2> QED
    BY <1>i, <2>1, StoreKeepsRead, UpdateKeepsRead
<1>3. CASE ~GitStore(w) /\ ~StoreNext(w)
  BY <1>3, StepsKeepUnread DEF ReadKept, TypeOK
<1> QED
  BY <1>1, <1>2, <1>3

\* Of the user's operations only two do.
LEMMA UserKeepsRead ==
  ASSUME TypeOK, UserInterface
  PROVE  ReadKept
<1> USE DEF ReadKept, TypeOK
<1>1. CASE Reset
  BY <1>1 DEF Reset, Change, Replace, Mine, NewInfo, Info
<1>2. CASE CheckNow
  BY <1>2 DEF CheckNow, Change, Replace, Mine, NewInfo, Info
<1>3. CASE MarkAllAsRead
  BY <1>3 DEF MarkAllAsRead, Change, Replace, Mine, NewInfo, Info
<1>4. CASE Select
  BY <1>4 DEF Select, Change, Replace, Mine, NewInfo, Info
<1>4a. CASE Discard
  BY <1>4a DEF Discard, Change, Replace, Mine, NewInfo, Info
<1>4b. CASE Save
  <2>1. \A u \in Url : infos'[u].unread \subseteq infos[u].unread
    BY <1>4b, TrimmedIsInfo DEF Save, Trim, TrimAll
  <2> QED
    BY <2>1
<1>5. CASE SelectNothing
  BY <1>5 DEF SelectNothing, Change, Replace, Mine, NewInfo, Info
<1>6. CASE ClearError
  BY <1>6 DEF ClearError, Change, Replace, Mine, NewInfo, Info
<1>7. CASE ToggleActive
  BY <1>7 DEF ToggleActive, Change, Replace, Mine, NewInfo, Info
<1>8. CASE RefreshAll
  BY <1>8 DEF RefreshAll, Change, Replace, Mine, NewInfo, Info
<1>9. CASE FetchNext
  BY <1>9 DEF FetchNext, Change, Replace, Mine, NewInfo, Info
<1>10. CASE AddProject
  BY <1>10 DEF AddProject, Change, Replace, Mine, NewInfo, Info
<1>11. CASE Remove
  BY <1>11 DEF Remove, Change, Replace, Mine, NewInfo, Info
<1>12. CASE MarkAsUnread \/ StoreEdit
  BY <1>12 DEF MarkAsUnread, StoreEdit, Doing
<1>13. CASE GetAll \/ Scan \/ AskRemove \/ OpenEdit \/ KeepProject \/ EditOk \/ EditCancel \/ Timer \/ SaveInfo
  <2>1. infos' = infos
    BY <1>13 DEF GetAll, Scan, AskRemove, OpenEdit, KeepProject, EditOk, EditCancel, Timer, SaveInfo, Replace, dataVars
  <2> QED
    BY <2>1
<1>14. ASSUME NEW op \in UiOps, NEW u \in Url \cup {NoUrl}, Want(op, u) PROVE ReadKept
  BY <1>14 DEF Want, dataVars
<1> QED
  BY <1>1, <1>2, <1>3, <1>4, <1>5, <1>6, <1>7, <1>8, <1>9, <1>10, <1>11, <1>12, <1>13, <1>14, <1>4a, <1>4b DEF UserInterface, Handle, Answer

\* A commit the user has read stays read, however many checks overlap and fetch it
\* again.
THEOREM MonitorReadStaysRead == Spec => ReadStaysRead
<1>1. TypeInv /\ [Next]_vars => [ReadKept]_infos
  <2> SUFFICES ASSUME TypeInv, Next PROVE ReadKept \/ UNCHANGED infos
    BY DEF vars, dataVars
  <2>1. CASE World
    <3>1. ASSUME NEW u \in Url, Commit(u) PROVE UNCHANGED infos
      BY <3>1 DEF Commit, dataVars
    <3>2. ASSUME NEW u \in Url, Elapse(u) PROVE ReadKept
      BY <3>2 DEF Elapse, ReadKept, TypeInv, TypeOK, Info
    <3> QED
      BY <2>1, <3>1, <3>2 DEF World
  <2>2. CASE UserInterface
    BY <2>2, UserKeepsRead DEF TypeInv
  <2>3. ASSUME NEW w \in Worker, Check(w) PROVE ReadKept
    BY <2>3, CheckKeepsRead DEF TypeInv
  <2> QED
    BY <2>1, <2>2, <2>3 DEF Next
<1> QED
  BY AlwaysTypeInv, <1>1, PTL DEF Spec, ReadStaysRead, ReadKept
-----------------------------------------------------------------------------
(* What the user is shown.                                                 *)

\* New commits that are unread, and since which the icon has not turned red.
Unannounced(u) == owed[u] \cap infos[u].unread

\* As long as there are some, a monitor thread is at their project and knows
\* (bNewEntries), because no thread is told to stop while messages are dispatched.
OwedInv ==
  /\ \A w \in Worker : pc[w] \notin {"idle", "created"} => bRun
  /\ \A w \in Worker : newEntries[w] => pc[w] \in {"checked", "store", "notify", "popup"}
  /\ \A u \in Url : Unannounced(u) # {} => \E w \in Worker : newEntries[w] /\ cur[w] = u

\* Storing commits makes the thread remember that there is news.
LEMMA FoundOwedInv ==
  ASSUME TypeOK, OwedInv, NEW w \in Worker, NEW revs, Found(w, revs),
         bRun, NEW l \in {"checked", "store"}, pc' = [pc EXCEPT ![w] = l],
         UNCHANGED <<cur, bRun>>, cur[w] \in Url,
         \A u \in Url : infos'[u].unread \subseteq
           infos[u].unread \cup (IF u = cur[w] THEN News(w, revs) ELSE {})
  PROVE  OwedInv'
<1>0. pc'[w] = l /\ \A v \in Worker \ {w} : pc'[v] = pc[v]
  BY DEF TypeOK
<1>1. CASE News(w, revs) # {}
  <2>1. newEntries' = [newEntries EXCEPT ![w] = TRUE]
    BY <1>1 DEF Found
  <2>2. newEntries'[w] /\ \A v \in Worker \ {w} : newEntries'[v] = newEntries[v]
    BY <2>1 DEF TypeOK
  <2>3. ASSUME NEW u \in Url \ {cur[w]} PROVE Unannounced(u)' \subseteq Unannounced(u)
    BY DEF Found, Unannounced, TypeOK
  <2> QED
    BY <1>0, <2>2, <2>3 DEF OwedInv
<1>2. CASE News(w, revs) = {}
  <2>1. newEntries' = newEntries /\ owed' = owed
    BY <1>2 DEF Found, TypeOK
  <2>2. \A u \in Url : Unannounced(u)' \subseteq Unannounced(u)
    BY <1>2, <2>1 DEF Unannounced
  <2> QED
    BY <1>0, <2>1, <2>2 DEF OwedInv
<1> QED
  BY <1>1, <1>2

\* A thread that knows of no news may go on to another place or another project, one
\* that does stays with its project until it has shown it.
LEMMA MoveOwedInv ==
  ASSUME TypeOK, OwedInv, NEW w \in Worker, NEW l, pc' = [pc EXCEPT ![w] = l],
         \A v \in Worker : newEntries'[v] <=> newEntries[v],
         \A u \in Url : Unannounced(u)' \subseteq Unannounced(u),
         newEntries[w] => l \in {"checked", "store", "notify", "popup"} /\ cur'[w] = cur[w],
         bRun' \/ l = "idle", bRun => bRun',
         \A v \in Worker \ {w} : cur'[v] = cur[v]
  PROVE  OwedInv'
<1>1. pc'[w] = l /\ \A v \in Worker \ {w} : pc'[v] = pc[v]
  BY DEF TypeOK
<1>2. ASSUME NEW v \in Worker, pc'[v] \notin {"idle", "created"} PROVE bRun'
  BY <1>1, <1>2 DEF OwedInv
<1>3. \A v \in Worker : newEntries'[v] => pc'[v] \in {"checked", "store", "notify", "popup"}
  BY <1>1 DEF OwedInv
<1>4. \A v \in Worker : newEntries[v] => newEntries'[v] /\ cur'[v] = cur[v]
  OBVIOUS
<1>5. ASSUME NEW u \in Url, Unannounced(u)' # {}
      PROVE  \E v \in Worker : newEntries'[v] /\ cur'[v] = u
  BY <1>4, <1>5 DEF OwedInv
<1> QED
  BY <1>2, <1>3, <1>5 DEF OwedInv

\* A thread may forget the news of its project when there is none left to announce.
LEMMA ShownOwedInv ==
  ASSUME TypeOK, OwedInv, NEW w \in Worker, pc' = [pc EXCEPT ![w] = "loop"],
         newEntries' = [newEntries EXCEPT ![w] = FALSE], UNCHANGED <<cur, bRun>>, bRun,
         \A u \in Url : Unannounced(u)' \subseteq Unannounced(u),
         cur[w] \in Url => Unannounced(cur[w])' = {}
  PROVE  OwedInv'
<1>1. pc'[w] = "loop" /\ \A v \in Worker \ {w} : pc'[v] = pc[v]
  BY DEF TypeOK
<1>2. ~newEntries'[w] /\ \A v \in Worker \ {w} : newEntries'[v] = newEntries[v]
  BY DEF TypeOK
<1>3. ASSUME NEW u \in Url, Unannounced(u)' # {}
      PROVE  \E v \in Worker : newEntries'[v] /\ cur'[v] = u
  <2>1. PICK v \in Worker : newEntries[v] /\ cur[v] = u
    BY <1>3 DEF OwedInv
  <2>2. v # w
    BY <1>3, <2>1
  <2> QED
    BY <1>2, <2>1, <2>2
<1>4. \A v \in Worker : newEntries'[v] => pc'[v] \in {"checked", "store", "notify", "popup"}
  BY <1>1, <1>2 DEF OwedInv
<1> QED
  BY <1>3, <1>4 DEF OwedInv

\* A monitor thread leaves a project only after it has shown its news.
LEMMA CheckOwedInv ==
  ASSUME TypeOK, AtProject, OwedInv, NEW w \in Worker, Check(w)
  PROVE  OwedInv'
<1> USE DEF At, Goto, GotoUnlessStopped, threadVars, iterVars, flagVars, histVars
<1>a. ~GitStore(w) /\ ~StoreNext(w) /\ (owed' = owed \/ owed' = NothingOwed)
      => \A u \in Url : Unannounced(u)' \subseteq Unannounced(u)
  BY StepsKeepUnread DEF Unannounced, NothingOwed
<1>1. CASE RunThread(w)
  <2>1. ~newEntries[w] /\ bRun' /\ UNCHANGED <<newEntries, owed, cur>>
    BY <1>1 DEF RunThread, OwedInv
  <2>2. ~GitStore(w) /\ ~StoreNext(w)
    BY <1>1 DEF RunThread, GitStore, StoreNext
  <2>3. PICK l : pc' = [pc EXCEPT ![w] = l]
    BY <1>1 DEF RunThread
  <2> QED
    BY <1>a, <2>1, <2>2, <2>3, MoveOwedInv
<1>2. CASE \/ Snapshot(w) \/ NextProject(w) \/ Filter(w) \/ Due(w) \/ GetHEADRevision(w)
           \/ GetLatestCommit(w) \/ Denied(w) \/ SetHash(w) \/ FetchLog(w) \/ LogFailed(w)
           \/ NoUpdates(w) \/ ErrPopup(w) \/ Finish(w) \/ End(w) \/ ThreadEnds(w)
  <2>1. pc[w] \notin {"idle", "created", "gitstore", "checked", "store", "notify", "popup"}
    BY <1>2 DEF Snapshot, NextProject, Filter, Due, GetHEADRevision, GetLatestCommit, Denied, SetHash, FetchLog, LogFailed, NoUpdates, ErrPopup, Finish, End, ThreadEnds
  <2>2. ~newEntries[w] /\ bRun /\ ~GitStore(w) /\ ~StoreNext(w)
    BY <2>1 DEF OwedInv, GitStore, StoreNext
  <2>3. bRun' = bRun /\ \A v \in Worker : newEntries'[v] <=> newEntries[v]
    <3>1. bRun' = bRun /\ (newEntries' = newEntries \/ newEntries' = [newEntries EXCEPT ![w] = FALSE])
      BY <1>2 DEF Snapshot, NextProject, Filter, Due, GetHEADRevision, GetLatestCommit, Denied, SetHash, FetchLog, LogFailed, NoUpdates, ErrPopup, Finish, End, ThreadEnds
    <3> QED
      BY <2>2, <3>1 DEF TypeOK
  <2>4. owed' = owed \/ owed' = NothingOwed
    BY <1>2 DEF Snapshot, NextProject, Filter, Due, GetHEADRevision, GetLatestCommit, Denied, SetHash, FetchLog, LogFailed, NoUpdates, ErrPopup, Finish, End, ThreadEnds, TurnsRed
  <2>5. \A v \in Worker \ {w} : cur'[v] = cur[v]
    BY <1>2 DEF TypeOK, Snapshot, NextProject, Filter, Due, GetHEADRevision, GetLatestCommit, Denied, SetHash, FetchLog, LogFailed, NoUpdates, ErrPopup, Finish, End, ThreadEnds
  <2>6. PICK l : pc' = [pc EXCEPT ![w] = l]
    BY <1>2 DEF Snapshot, NextProject, Filter, Due, GetHEADRevision, GetLatestCommit, Denied, SetHash, FetchLog, LogFailed, NoUpdates, ErrPopup, Finish, End, ThreadEnds
  <2> QED
    BY <1>a, <2>2, <2>3, <2>4, <2>5, <2>6, MoveOwedInv
<1>3. CASE GitStore(w)
  <2>1. pc' = [pc EXCEPT ![w] = "checked"] /\ bRun /\ UNCHANGED <<cur, bRun>> /\ cur[w] \in Url
    BY <1>3 DEF GitStore, OwedInv, AtProject
  <2>2. Found(w, logs[w]) /\ Update(w, StoreMissing(Shared(w), logs[w]))
    BY <1>3 DEF GitStore
  <2>3. ASSUME NEW u \in Url
        PROVE  infos'[u].unread \subseteq
                 infos[u].unread \cup (IF u = cur[w] THEN News(w, logs[w]) ELSE {})
    <3>1. infos[u] \in Info
      BY DEF TypeOK
    <3>2. StoreMissing(infos[u], logs[w]).unread
            = infos[u].unread \cup (logs[w] \ (infos[u].log \cup Ignored))
      BY <3>1 DEF StoreMissing, Info
    <3> QED
      BY <2>1, <2>2, <3>2 DEF Update, News, Shared, TypeOK
  <2> QED
    BY <2>1, <2>2, <2>3, FoundOwedInv
<1>4. CASE StoreNext(w)
  <2>1. PICK r \in logs[w] : Found(w, {r}) /\ Update(w, StoreOne(Shared(w), r))
    BY <1>4 DEF StoreNext
  <2>4. pc[w] = "store" /\ UNCHANGED <<pc, cur, bRun>>
    BY <1>4 DEF StoreNext
  <2>5. pc' = [pc EXCEPT ![w] = "store"]
    BY <2>4 DEF TypeOK
  <2>2. bRun /\ cur[w] \in Url
    BY <2>4 DEF OwedInv, AtProject
  <2>3. ASSUME NEW u \in Url
        PROVE  infos'[u].unread \subseteq
                 infos[u].unread \cup (IF u = cur[w] THEN News(w, {r}) ELSE {})
    <3>1. infos[u] \in Info
      BY DEF TypeOK
    <3>2. StoreOne(infos[u], r).unread
            = infos[u].unread \cup ({r} \ (infos[u].log \cup Ignored))
      BY <3>1 DEF StoreOne, Info
    <3> QED
      BY <2>1, <2>2, <3>2 DEF Update, News, Shared, TypeOK
  <2> QED
    BY <2>1, <2>2, <2>3, <2>4, <2>5, FoundOwedInv
<1>5. CASE SetChecked(w) \/ StoreDone(w)
  <2>1. bRun /\ UNCHANGED <<newEntries, owed, bRun, cur>>
    BY <1>5 DEF SetChecked, StoreDone, OwedInv
  <2>2. PICK l : pc' = [pc EXCEPT ![w] = l] /\ (newEntries[w] => l \in {"store", "notify"})
    BY <1>5, <2>1 DEF SetChecked, StoreDone, AfterStore
  <2>3. ~GitStore(w) /\ ~StoreNext(w)
    BY <1>5, <2>1 DEF SetChecked, StoreDone, GitStore, StoreNext
  <2>4. \A u \in Url : Unannounced(u)' \subseteq Unannounced(u)
    BY <1>a, <2>1, <2>3
  <2> QED
    BY <2>1, <2>2, <2>4, MoveOwedInv
<1>6. CASE Notify(w)
  <2>1. /\ bRun /\ UNCHANGED <<cur, bRun, owed, infos>> /\ pc[w] = "notify"
    BY <1>6 DEF Notify, OwedInv, dataVars
  <2>2. \A u \in Url : Unannounced(u)' = Unannounced(u)
    BY <2>1 DEF Unannounced
  <2>3. CASE UNCHANGED <<pc, newEntries>>
    BY <2>1, <2>2, <2>3 DEF OwedInv
  <2>4. CASE pc' = [pc EXCEPT ![w] = "popup"] /\ UNCHANGED newEntries
    BY <2>1, <2>2, <2>4, MoveOwedInv
  <2>5. CASE /\ newEntries' = [newEntries EXCEPT ![w] = FALSE] /\ Shared(w).unread = {}
             /\ pc' = [pc EXCEPT ![w] = "loop"]
    <3>1. Unannounced(cur[w])' = {}
      BY <2>1, <2>5 DEF Unannounced, Shared
    <3> QED
      BY <2>1, <2>2, <2>5, <3>1, ShownOwedInv
  <2> QED
    BY <1>6, <2>3, <2>4, <2>5 DEF Notify
<1>7. CASE Popup(w)
  <2>1. /\ bRun /\ UNCHANGED <<cur, bRun>> /\ owed' = NothingOwed
        /\ newEntries' = [newEntries EXCEPT ![w] = FALSE]
        /\ pc' = [pc EXCEPT ![w] = "loop"]
    BY <1>7 DEF Popup, OwedInv, TurnsRed
  <2>2. \A u \in Url : Unannounced(u)' = {}
    BY <2>1 DEF Unannounced, NothingOwed
  <2> QED
    BY <2>1, <2>2, ShownOwedInv
<1> QED
  BY <1>1, <1>2, <1>3, <1>4, <1>5, <1>6, <1>7 DEF Check

\* The user's operations make no commit of a check unread that was announced, and stop
\* no thread.
LEMMA UserOwedInv ==
  ASSUME TypeOK, OwedInv, UserInterface
  PROVE  OwedInv'
<1>1. UNCHANGED <<bRun, iterVars, newEntries>>
  BY DEF UserInterface, Handle, Answer, GetAll, Reset, Scan, Save, Trim, CheckNow, MarkAllAsRead, Select, MarkAsUnread, Discard, SelectNothing, ClearError, ToggleActive, RefreshAll, FetchNext, AddProject, AskRemove, OpenEdit, StoreEdit, Remove, KeepProject, EditOk, EditCancel, Timer, SaveInfo, Want, Change, Replace,
         threadVars, flagVars
<1>2. UNCHANGED pc \/ \E w \in Worker : At(w, "idle") /\ Goto(w, "created")
  BY DEF UserInterface, Handle, Answer, GetAll, Reset, Scan, Save, Trim, CheckNow, MarkAllAsRead, Select, MarkAsUnread, Discard, SelectNothing, ClearError, ToggleActive, RefreshAll, FetchNext, AddProject, AskRemove, OpenEdit, StoreEdit, Remove, KeepProject, EditOk, EditCancel, Timer, SaveInfo, Want, Change, Replace
<1>3. \A u \in Url : Unannounced(u)' \subseteq Unannounced(u)
  <2> USE DEF TypeOK, Unannounced, Change, Replace, Mine, Info, histVars
  <2>1. CASE MarkAsUnread
    BY <2>1 DEF MarkAsUnread
  <2>2. CASE StoreEdit
    <3>1. PICK values \in [Url -> Info] :
            /\ infos' = TrimAll(values)
            /\ \A u \in Url \ {ui.url} : values[u].unread \subseteq infos[u].unread
      <4> DEFINE values == [infos EXCEPT ![edit.url] = NewInfo,
                              ![ui.url] = [edit.info EXCEPT !.age = 2,
                                                            !.error = FALSE,
                                                            !.notAuthorized = FALSE]]
      <4>1. NewInfo \in Info /\ NewInfo.unread = {} /\ 2 \in Age
        BY InfoTypes DEF NewInfo, Age
      <4>2. values \in [Url -> Info]
        BY <4>1
      <4>3. \A u \in Url \ {ui.url} : values[u].unread \subseteq infos[u].unread
        BY <4>1
      <4>4. infos' = TrimAll(values)
        BY <2>2 DEF StoreEdit
      <4> QED
        BY <4>2, <4>3, <4>4
    <3>2. \A u \in Url : infos'[u].unread \subseteq values[u].unread
      BY <3>1, TrimmedIsInfo DEF TrimAll
    <3>3. owed' = [owed EXCEPT ![ui.url] = {}]
      BY <2>2 DEF StoreEdit
    <3> QED
      BY <3>1, <3>2, <3>3
  <2>3. CASE Save
    <3>1. \A u \in Url : infos'[u].unread \subseteq infos[u].unread
      BY <2>3, TrimmedIsInfo DEF Save, Trim, TrimAll
    <3> QED
      BY <2>3, <3>1 DEF Save
  <2>4. CASE Reset
    BY <2>4 DEF Reset
  <2>5. CASE MarkAllAsRead
    BY <2>5 DEF MarkAllAsRead
  <2>6. CASE Select
    BY <2>6 DEF Select
  <2>7. CASE Discard
    BY <2>7 DEF Discard
  <2>8. CASE CheckNow
    BY <2>8 DEF CheckNow
  <2>8a. CASE SelectNothing
    BY <2>8a DEF SelectNothing
  <2>8b. CASE ClearError
    BY <2>8b DEF ClearError
  <2>8c. CASE ToggleActive
    BY <2>8c DEF ToggleActive
  <2>9. CASE RefreshAll
    BY <2>9 DEF RefreshAll
  <2>10. CASE FetchNext
    BY <2>10 DEF FetchNext
  <2>11. CASE AddProject \/ Remove
    <3>1. NewInfo.unread = {}
      BY DEF NewInfo
    <3>2. owed' = owed /\ \E key : infos' = [infos EXCEPT ![key] = NewInfo]
      BY <2>11 DEF AddProject, Remove
    <3> QED
      BY <3>1, <3>2
  <2>12. CASE \/ GetAll \/ Scan \/ AskRemove \/ OpenEdit \/ KeepProject \/ EditOk
              \/ EditCancel \/ Timer \/ SaveInfo
              \/ \E op \in UiOps, u \in Url \cup {NoUrl} : Want(op, u)
    <3>1. UNCHANGED <<infos, owed>>
      BY <2>12 DEF GetAll, Scan, AskRemove, OpenEdit, KeepProject, EditOk, EditCancel, Timer, SaveInfo, Want, dataVars
    <3> QED
      BY <3>1
  <2> QED
    BY <2>1, <2>2, <2>3, <2>4, <2>5, <2>6, <2>7, <2>8, <2>8a, <2>8b, <2>8c, <2>9, <2>10, <2>11, <2>12
    DEF UserInterface, Handle, Answer
<1>4. CASE UNCHANGED pc
  BY <1>1, <1>3, <1>4 DEF OwedInv, iterVars
<1>5. CASE \E w \in Worker : At(w, "idle") /\ Goto(w, "created")
  <2>1. PICK w \in Worker : pc[w] = "idle" /\ pc' = [pc EXCEPT ![w] = "created"]
    BY <1>5 DEF At, Goto
  <2>2. ~newEntries[w] /\ pc'[w] = "created"
        /\ \A v \in Worker \ {w} : pc'[v] = pc[v]
    BY <2>1 DEF TypeOK, OwedInv
  <2> QED
    BY <1>1, <1>3, <2>2 DEF OwedInv, iterVars
<1> QED
  BY <1>2, <1>4, <1>5

\* The outside world announces nothing and reads nothing.
LEMMA WorldOwedInv ==
  ASSUME TypeOK, OwedInv, World
  PROVE  OwedInv'
<1>1. UNCHANGED <<pc, iterVars, threadVars, flagVars, histVars>>
  BY DEF World, Commit, Elapse
<1>2. \A u \in Url : infos'[u].unread = infos[u].unread
  <2>1. infos' = infos \/ \E v \in Url : infos' = [infos EXCEPT ![v].age = @ + 1]
    BY DEF World, Commit, Elapse, dataVars
  <2>2. \A v \in Url : [infos[v] EXCEPT !.age = @ + 1].unread = infos[v].unread
    BY DEF TypeOK, Info
  <2> QED
    BY <2>1, <2>2 DEF TypeOK
<1> QED
  BY <1>1, <1>2 DEF OwedInv, Unannounced, iterVars, threadVars, flagVars, histVars

\* What is to be announced, and that the threads that run were not told to stop.
LEMMA AlwaysOwedInv == Spec => []OwedInv
<1>1. Init => OwedInv
  BY DEF Init, OwedInv, Unannounced, NothingOwed
<1>2. TypeInv /\ OwedInv /\ [Next]_vars => OwedInv'
  <2> SUFFICES ASSUME TypeInv, OwedInv, [Next]_vars PROVE OwedInv'
    OBVIOUS
  <2>1. CASE World
    BY <2>1, WorldOwedInv DEF TypeInv
  <2>2. CASE UserInterface
    BY <2>2, UserOwedInv DEF TypeInv
  <2>3. ASSUME NEW w \in Worker, Check(w) PROVE OwedInv'
    BY <2>3, CheckOwedInv DEF TypeInv
  <2>4. CASE UNCHANGED vars
    BY <2>4 DEF OwedInv, Unannounced, vars, dataVars, iterVars, threadVars, flagVars, histVars
  <2> QED
    BY <2>1, <2>2, <2>3, <2>4 DEF Next
<1> QED
  BY AlwaysTypeInv, <1>1, <1>2, PTL DEF Spec

\* When no check runs any more the icon has turned red for every new commit that is
\* unread, also when several monitor threads ran at a time and a save erased entries
\* in between.
THEOREM MonitorNewCommitsTurnEyesRed == Spec => []NewCommitsTurnEyesRed
<1>1. OwedInv => NewCommitsTurnEyesRed
  BY DEF OwedInv, NewCommitsTurnEyesRed, Unannounced
<1> QED
  BY AlwaysOwedInv, <1>1, PTL
-----------------------------------------------------------------------------
(* Who holds the lock while others run.                                    *)

\* The user-interface thread asks about a project.
LockInv ==
  /\ LockIsOwned
  /\ ui.op = "remove" => ui.url \in Url

\* A critical section of the monitor thread ends without the lock, except for the
\* report of a failed connection.
LEMMA CheckLockInv ==
  ASSUME TypeOK, LockInv, NEW w \in Worker, Check(w)
  PROVE  LockInv'
<1> USE DEF TypeOK, LockInv, LockIsOwned, At, Goto, GotoUnlessStopped, uiVars
<1>0. UiThread \notin Worker /\ Free \notin Worker /\ UiThread # Free
  BY MonitorAssumption DEF MonitorAssumption, UiThread, Free
<1>1. CASE NoUpdates(w)
  <2>1. pc[w] = "noupdates" /\ lock # w /\ (lock = Free \/ lock = w)
    BY <1>1 DEF NoUpdates, CanLock
  <2>2. \/ lock' = w /\ pc' = [pc EXCEPT ![w] = "errpopup"]
        \/ lock' = lock /\ pc' = [pc EXCEPT ![w] = "loop"]
    BY <1>1 DEF NoUpdates
  <2>3. UNCHANGED <<ui, confirm>>
    BY <1>1 DEF NoUpdates
  <2> QED
    BY <1>0, <2>1, <2>2, <2>3
<1>2. CASE ErrPopup(w)
  BY <1>0, <1>2 DEF ErrPopup
<1>3. CASE ~NoUpdates(w) /\ ~ErrPopup(w)
  <2>1. UNCHANGED <<lock, ui, confirm>>
    BY <1>3 DEF Check, RunThread, Snapshot, NextProject, Filter, Due, GetHEADRevision,
                GetLatestCommit, Denied, SetHash, FetchLog, GitStore, SetChecked, StoreNext,
                StoreDone, Notify, Popup, LogFailed, Finish, End, ThreadEnds, AfterStore
  <2>2. pc[w] # "errpopup"
    BY <1>3 DEF Check, RunThread, Snapshot, NextProject, Filter, Due, GetHEADRevision,
                GetLatestCommit, Denied, SetHash, FetchLog, GitStore, SetChecked, StoreNext,
                StoreDone, Notify, Popup, LogFailed, Finish, End, ThreadEnds, AfterStore
  <2>3. pc' = pc \/ \E l \in PC \ {"errpopup"} : pc' = [pc EXCEPT ![w] = l]
    BY <1>3 DEF Check, RunThread, Snapshot, NextProject, Filter, Due, GetHEADRevision,
                GetLatestCommit, Denied, SetHash, FetchLog, GitStore, SetChecked, StoreNext,
                StoreDone, Notify, Popup, LogFailed, Finish, End, ThreadEnds, AfterStore, PC
  <2> QED
    BY <2>1, <2>2, <2>3
<1> QED
  BY <1>1, <1>2, <1>3

\* The user-interface thread keeps the lock only while it asks, and starts monitor
\* threads that do not have it.
LEMMA UserLockInv ==
  ASSUME TypeOK, LockInv, UserInterface
  PROVE  LockInv'
<1> USE DEF TypeOK, LockInv, LockIsOwned, At, Goto
<1>0. UiThread \notin Worker /\ Free \notin Worker /\ UiThread # Free /\ NoUrl \notin Url
  BY MonitorAssumption, UrlInfosAssumption
  DEF MonitorAssumption, UrlInfosAssumption, UiThread, Free, NoUrl
<1>1. CASE AskRemove
  BY <1>0, <1>1 DEF AskRemove, Doing, CanLock, Replace, UiGoto
<1>2. CASE Remove
  BY <1>0, <1>2 DEF Remove, Replace, UiGoto
<1>3. CASE KeepProject
  BY <1>0, <1>3 DEF KeepProject, Replace
<1>4. CASE Scan
  <2>1. pc' = pc \/ \E w \in Worker : pc[w] = "idle" /\ pc' = [pc EXCEPT ![w] = "created"]
    BY <1>4 DEF Scan
  <2>2. UNCHANGED <<lock, confirm>> /\ ui'.op = "none"
    BY <1>4 DEF Scan, UiGoto
  <2> QED
    BY <2>1, <2>2
<1>5. ASSUME NEW op \in UiOps, NEW u \in Url \cup {NoUrl}, Want(op, u) PROVE LockInv'
  <2>1. op = "remove" => u \in Url
    BY <1>5 DEF Want, Tray
  <2>2. ui' = [op |-> IF op = "checkall" THEN "getall" ELSE op, url |-> u]
    BY <1>5 DEF Want, UiGoto
  <2>3. UNCHANGED <<lock, confirm, pc>>
    BY <1>5 DEF Want
  <2> QED
    BY <2>1, <2>2, <2>3
<1>6. CASE ~AskRemove /\ ~Remove /\ ~KeepProject /\ ~Scan
           /\ ~(\E op \in UiOps, u \in Url \cup {NoUrl} : Want(op, u))
  <2> HIDE DEF TypeOK, LockInv, LockIsOwned
  <2>1. UNCHANGED <<lock, confirm, pc>>
    BY <1>6 DEF UserInterface, Handle, Answer, GetAll, Reset, Save, CheckNow, MarkAllAsRead,
                Select, MarkAsUnread, Discard, SelectNothing, ClearError, ToggleActive,
                RefreshAll, FetchNext, AddProject, OpenEdit, StoreEdit, EditOk, EditCancel,
                Timer, SaveInfo, Change, Replace
  <2>2. ASSUME GetAll \/ Reset \/ Save \/ MarkAllAsRead \/ AddProject \/ OpenEdit \/ StoreEdit
        PROVE  ui' = ui \/ ui'.op # "remove"
    BY <2>2 DEF GetAll, Reset, Save, MarkAllAsRead, AddProject, OpenEdit, StoreEdit, Replace,
                UiGoto
  <2>3. \A info : Change(info, UiGoto("none", NoUrl)) => ui'.op = "none"
    BY DEF Change, UiGoto
  <2>4. ASSUME CheckNow \/ Select \/ MarkAsUnread \/ Discard \/ SelectNothing
                 \/ ClearError \/ ToggleActive \/ RefreshAll \/ FetchNext
        PROVE  ui'.op # "remove"
    <3>1. CASE CheckNow
      BY <3>1 DEF CheckNow, Change, UiGoto
    <3>2. CASE Select
      BY <2>3, <3>2 DEF Select
    <3>3. CASE MarkAsUnread
      BY <2>3, <3>3 DEF MarkAsUnread
    <3>4. CASE Discard
      BY <3>4 DEF Discard, Change, UiGoto
    <3>5. CASE SelectNothing \/ ClearError \/ ToggleActive
      BY <2>3, <3>5 DEF SelectNothing, ClearError, ToggleActive
    <3>6. CASE RefreshAll
      BY <3>6 DEF RefreshAll, Change, UiGoto
    <3>7. CASE FetchNext
      BY <3>7 DEF FetchNext, Change, UiGoto
    <3> QED
      BY <2>4, <3>1, <3>2, <3>3, <3>4, <3>5, <3>6, <3>7
  <2>5. ASSUME EditOk \/ EditCancel \/ Timer \/ SaveInfo
        PROVE  ui' = ui \/ ui'.op # "remove"
    BY <2>5 DEF EditOk, EditCancel, Timer, SaveInfo, Replace, UiGoto
  <2>6. ui' = ui \/ ui'.op # "remove"
    BY <1>6, <2>2, <2>4, <2>5 DEF UserInterface, Handle, Answer
  <2> QED
    BY <2>1, <2>6 DEF LockInv, LockIsOwned
<1> QED
  BY <1>1, <1>2, <1>3, <1>4, <1>5, <1>6 DEF UserInterface

\* The lock, and what is asked about, in every state.
LEMMA AlwaysLockInv == Spec => []LockInv
<1>1. Init => LockInv
  BY MonitorAssumption
  DEF MonitorAssumption, Init, LockInv, LockIsOwned, At, NoUi, UiThread, Free
<1>2. TypeInv /\ LockInv /\ [Next]_vars => LockInv'
  <2> SUFFICES ASSUME TypeInv, LockInv, [Next]_vars PROVE LockInv'
    OBVIOUS
  <2>1. CASE World
    BY <2>1 DEF World, Commit, Elapse, uiVars, LockInv, LockIsOwned, At
  <2>2. CASE UserInterface
    BY <2>2, UserLockInv DEF TypeInv
  <2>3. ASSUME NEW w \in Worker, Check(w) PROVE LockInv'
    BY <2>3, CheckLockInv DEF TypeInv
  <2>4. CASE UNCHANGED vars
    BY <2>4 DEF vars, uiVars, LockInv, LockIsOwned, At
  <2> QED
    BY <2>1, <2>2, <2>3, <2>4 DEF Next
<1> QED
  BY AlwaysTypeInv, <1>1, <1>2, PTL DEF Spec

\* For any number of monitor threads and projects: the writer lock is held across a
\* blocking point only by the thread whose report is being shown, or by the
\* user-interface thread while it asks about a project, and by those always.
THEOREM MonitorLockIsOwned == Spec => []LockIsOwned
BY AlwaysLockInv, PTL DEF LockInv

\* A failed connection is what the monitor thread reports under the lock.
NoReport ==
  \A w \in Worker : pc[w] # "errpopup" /\ (pc[w] = "noupdates" => failure[w] = "none")

\* Where connections do not fail, nothing is reported.
LEMMA CheckNoReport ==
  ASSUME TypeOK, NoReport, "connect" \notin Faults, NEW w \in Worker, Check(w)
  PROVE  NoReport'
<1> USE DEF TypeOK, NoReport, At, Goto, GotoUnlessStopped
<1>1. CASE GetHEADRevision(w)
  BY <1>1 DEF GetHEADRevision, Request
<1>2. CASE GetLatestCommit(w)
  BY <1>2 DEF GetLatestCommit, Request
<1>3. CASE NextProject(w)
  <2>1. \E l \in {"finish", "filter"} : pc' = [pc EXCEPT ![w] = l]
    BY <1>3 DEF NextProject
  <2>2. failure' = [failure EXCEPT ![w] = "none"]
    BY <1>3 DEF NextProject, NoResult
  <2> QED
    BY <2>1, <2>2
<1>4. CASE FetchLog(w)
  <2>1. \E l \in {"gitstore", "checked", "loop", "logfailed"} : pc' = [pc EXCEPT ![w] = l]
    BY <1>4 DEF FetchLog
  <2>2. \E f \in {"none", "connect", "auth"} : failure' = [failure EXCEPT ![w] = f]
    BY <1>4 DEF FetchLog
  <2> QED
    BY <2>1, <2>2
<1>5. CASE End(w)
  BY <1>5 DEF End, NoResult
<1>6. CASE NoUpdates(w)
  <2>1. failure[w] = "none" /\ pc' = [pc EXCEPT ![w] = "loop"] /\ failure' = failure
    BY <1>6 DEF NoUpdates, resultVars
  <2> QED
    BY <2>1
<1>7. CASE ~GetHEADRevision(w) /\ ~GetLatestCommit(w) /\ ~NextProject(w) /\ ~FetchLog(w)
           /\ ~End(w) /\ ~NoUpdates(w)
  <2>1. failure' = failure
    BY <1>7 DEF Check, RunThread, Snapshot, Filter, Due, Denied, SetHash, GitStore, SetChecked,
                StoreNext, StoreDone, Notify, Popup, LogFailed, ErrPopup, Finish, ThreadEnds, resultVars
  <2>2. pc' = pc \/ \E l \in PC \ {"errpopup", "noupdates"} : pc' = [pc EXCEPT ![w] = l]
    BY <1>7 DEF Check, RunThread, Snapshot, Filter, Due, Denied, SetHash, GitStore, SetChecked,
                StoreNext, StoreDone, Notify, Popup, LogFailed, ErrPopup, Finish, ThreadEnds,
                AfterStore, PC
  <2> QED
    BY <2>1, <2>2
<1> QED
  BY <1>1, <1>2, <1>3, <1>4, <1>5, <1>6, <1>7

\* The report of a failed connection is the only step that can leave both threads
\* waiting for each other: where connections do not fail, NoDeadlock holds, whatever
\* else fails and whatever the user does.
THEOREM MonitorNoDeadlock ==
  ASSUME "connect" \notin Faults
  PROVE  Spec => []NoDeadlock
<1>1. Init => NoReport
  BY DEF Init, NoReport
<1>2. TypeInv /\ NoReport /\ [Next]_vars => NoReport'
  <2> SUFFICES ASSUME TypeInv, NoReport, [Next]_vars PROVE NoReport'
    OBVIOUS
  <2>1. CASE World
    BY <2>1 DEF World, Commit, Elapse, resultVars, NoReport
  <2>2. CASE UserInterface
    <3>1. failure' = failure /\ (pc' = pc \/ \E w \in Worker : Goto(w, "created"))
      BY <2>2 DEF UserInterface, Handle, Answer, GetAll, Reset, Scan, Save, Trim, CheckNow,
                  MarkAllAsRead, Select, MarkAsUnread, Discard, SelectNothing, ClearError,
                  ToggleActive, RefreshAll, FetchNext, AddProject, AskRemove, OpenEdit,
                  StoreEdit, Remove, KeepProject, EditOk, EditCancel, Timer, SaveInfo, Want,
                  Change, Replace, resultVars
    <3> QED
      BY <3>1 DEF TypeInv, TypeOK, NoReport, Goto
  <2>3. ASSUME NEW w \in Worker, Check(w) PROVE NoReport'
    BY <2>3, CheckNoReport DEF TypeInv
  <2>4. CASE UNCHANGED vars
    BY <2>4 DEF vars, resultVars, NoReport
  <2> QED
    BY <2>1, <2>2, <2>3, <2>4 DEF Next
<1>3. NoReport => NoDeadlock
  BY DEF NoReport, NoDeadlock, At
<1> QED
  BY AlwaysTypeInv, <1>1, <1>2, <1>3, PTL DEF Spec
=============================================================================
