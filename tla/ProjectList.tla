---------------------------- MODULE ProjectList -----------------------------
(***************************************************************************)
(* Lists of repositories (SVNParentPath): a project whose URL turns out to *)
(* be the page that lists repositories stays as their parent, and each of  *)
(* them is added as a project by the monitor thread, while the user may    *)
(* remove parent or child in the main dialog (HiddenWindow.cpp RunThread,  *)
(* MainDlg.cpp ID_MAIN_REMOVE).  What either does is shown by Notification.*)
(*                                                                         *)
(* Projects are numbered in the order of their keys, so that a list comes  *)
(* before what is below it.  There is one monitor thread, which is not     *)
(* told to stop; a critical section is one step, but for the one in which  *)
(* a message is sent.  Module Monitor has the rest of a check, and what    *)
(* becomes of a thread that waits for the lock.                            *)
(***************************************************************************)
EXTENDS Notification, FiniteSets

CONSTANTS
  Project,   \* the keys of the projects there may be
  Listed,    \* for each project that is a list: the projects its page names
  XslPage    \* those lists whose page has an <index rev="0" ...> element

Parent == DOMAIN Listed

ASSUME ProjectListAssumption ==
  /\ Project \subseteq Nat \ {0} /\ IsFiniteSet(Project)
  /\ Parent \subseteq Project
  /\ \A u \in Parent : Listed[u] \subseteq {v \in Project \ Parent : v > u}
  /\ XslPage \subseteq Parent

VARIABLES
  present,      \* the keys of infos
  parentpath,   \* the projects that are known to be lists
  errors,       \* the projects with an error text
  unread,       \* the projects with unread commits
  removedItems, \* m_bMainDlgRemovedItems
  dialog,       \* m_bMainDlgShown
  removal,      \* where the removal of projects is, in the main dialog
  pc,           \* where the monitor thread is
  snapshot,     \* the keys of urlinfoReadOnly
  it,           \* the key its iterator points at, or End
  links,        \* what the page lists and was not looked at yet
  hasNew,       \* hasNewEntries
  visited       \* history: the projects this check came to

mapVars    == <<present, parentpath, errors, unread>>
dialogVars == <<dialog, removal>>
checkVars  == <<pc, snapshot, it, links, hasNew, visited>>
vars == <<notificationVars, mapVars, removedItems, dialogVars, checkVars>>

End == 0

Least(S) == IF S = {} THEN End ELSE CHOOSE u \in S : \A v \in S : u <= v

\* Where an iterator of the map with these keys is after ++.
After(S, u) == Least({v \in S : v > u})

ProjectListInit ==
  /\ NotificationInit
  /\ present \in {Parent, Project \ UNION {Listed[u] : u \in Parent}}
  /\ parentpath = {} /\ errors = {} /\ unread = {}
  /\ removedItems = FALSE
  /\ dialog = FALSE /\ removal = "none"
  /\ pc = "idle" /\ snapshot = {} /\ it = End
  /\ links = {} /\ hasNew = FALSE
  /\ visited = {}

\* The user-interface thread dispatches messages.
UiPumps == removal = "none"

\* The monitor thread does not hold the lock while its message waits.
Unlocked == pc # "errpopup"

Goto(from, to) == pc = from /\ pc' = to

-----------------------------------------------------------------------------
(* The monitor thread.                                                     *)

\* The mutant leaves the red icon to the user.
ResetIconNever == UNCHANGED <<hIcon, animate, tray>>

\* DoTimer: nothing is unread, and there is no error but of a list.
ResetIcon ==
  IF unread = {} /\ errors \subseteq parentpath
  THEN ShowTrayIcon(FALSE)
  ELSE UNCHANGED <<hIcon, animate, tray>>

\* A check begins if a project is due.
Timer ==
  /\ UiPumps
  /\ present # {}
  /\ ResetIcon
  /\ pc = "idle" /\ pc' \in {"idle", "snapshot"}
  /\ UNCHANGED <<options, popupVars, shellVars, mapVars, removedItems, dialogVars,
                 snapshot, it, links, hasNew, visited>>

Snapshot ==
  /\ Goto("snapshot", "loop")
  /\ snapshot' = present
  /\ it' = Least(present)
  /\ visited' = {}
  /\ UNCHANGED <<notificationVars, mapVars, removedItems, dialogVars, links, hasNew>>

\* The body of the loop is left, and the iterator incremented.
NextFrom(u) == it' = After(snapshot, u)

\* A project that is not due, or with nothing to tell; its error may be gone.
Visit ==
  /\ UiPumps
  /\ it # End
  /\ Goto("loop", "loop")
  /\ visited' = visited \cup {it}
  /\ errors' \in IF it \in Parent THEN {errors} ELSE {errors, errors \ {it}}
  /\ NextFrom(it)
  /\ UNCHANGED <<notificationVars, present, parentpath, unread, removedItems, dialogVars,
                 snapshot, links, hasNew>>

\* New commits were found and stored.
VisitFinds ==
  /\ UiPumps
  /\ it # End /\ it \in present \ Parent
  /\ Goto("loop", "stored")
  /\ visited' = visited \cup {it}
  /\ unread' = unread \cup {it}
  /\ errors' = errors \ {it}
  /\ UNCHANGED <<notificationVars, present, parentpath, removedItems, dialogVars,
                 snapshot, it, links, hasNew>>

\* Are there still unread commits?  If the project was removed, what is read is
\* undefined.
StillUnread ==
  /\ it \in present => it \in unread
  /\ Goto("stored", "popup")
  /\ UNCHANGED <<notificationVars, mapVars, removedItems, dialogVars, snapshot, it,
                 links, hasNew, visited>>

NothingUnread ==
  /\ it \in present => it \notin unread
  /\ Goto("stored", "loop")
  /\ NextFrom(it)
  /\ UNCHANGED <<notificationVars, mapVars, removedItems, dialogVars, snapshot,
                 links, hasNew, visited>>

\* There is no HEAD revision: an error, reported the first time, and for a project
\* without entries a page may be fetched.
VisitFails ==
  /\ UiPumps
  /\ it # End
  /\ visited' = visited \cup {it}
  /\ errors' = errors \cup ({it} \cap present)
  /\ Goto("loop", IF it \in present \ errors THEN "errpopup" ELSE "page")
  /\ UNCHANGED <<notificationVars, present, parentpath, unread, removedItems, dialogVars,
                 snapshot, it, links, hasNew>>

\* ... while the lock is held.
ErrPopup ==
  /\ UiPumps
  /\ Goto("errpopup", "page")
  /\ PopupMessage
  /\ UNCHANGED <<mapVars, removedItems, dialogVars, snapshot, it, links, hasNew, visited>>

\* The page cannot be fetched, or is one of a repository.
NoPage ==
  /\ Goto("page", "loop")
  /\ NextFrom(it)
  /\ UNCHANGED <<notificationVars, mapVars, removedItems, dialogVars, snapshot,
                 links, hasNew, visited>>

Page ==
  /\ it \in Parent
  /\ Goto("page", "links")
  /\ links' = Listed[it]
  /\ hasNew' = FALSE
  /\ UNCHANGED <<notificationVars, mapVars, removedItems, dialogVars, snapshot, it, visited>>

\* The mutant looks for the project in the snapshot.
IsNewInSnapshot(u) == ~removedItems /\ u \notin snapshot

IsNew(u) == ~removedItems /\ u \notin present

\* One link of the page, in one critical section: the project it names is added,
\* and the project whose page it is becomes a list.
Link ==
  /\ Goto("links", "links")
  /\ \E u \in links :
       /\ links' = links \ {u}
       /\ IF IsNew(u)
          THEN present' = present \cup {u} /\ hasNew' = TRUE
          ELSE UNCHANGED <<present, hasNew>>
  /\ parentpath' = parentpath \cup ({it} \cap present)
  /\ UNCHANGED <<notificationVars, errors, unread, removedItems, dialogVars,
                 snapshot, it, visited>>

\* A page without that element counts as one of a repository here: nothing is
\* said of the projects that were added.
LinksDone ==
  /\ links = {}
  /\ IF hasNew /\ it \in XslPage
     THEN Goto("links", "newprojects") /\ UNCHANGED it
     ELSE Goto("links", "loop") /\ NextFrom(it)
  /\ UNCHANGED <<notificationVars, mapVars, removedItems, dialogVars, snapshot,
                 links, hasNew, visited>>

\* The mutant takes the loop to be over.
RestartAtEnd == it' = End

\* The iterator is set to begin(), and then incremented.
Restart == NextFrom(Least(snapshot))

NewProjectsPopup ==
  /\ UiPumps
  /\ Goto("newprojects", "loop")
  /\ PopupMessage
  /\ Restart
  /\ UNCHANGED <<mapVars, removedItems, dialogVars, snapshot, links, hasNew, visited>>

CommitsPopup ==
  /\ UiPumps
  /\ Goto("popup", "loop")
  /\ PopupMessage
  /\ NextFrom(it)
  /\ UNCHANGED <<mapVars, removedItems, dialogVars, snapshot, links, hasNew, visited>>

Finish ==
  /\ UiPumps
  /\ it = End
  /\ Goto("loop", "end")
  /\ UNCHANGED <<notificationVars, mapVars, removedItems, dialogVars, snapshot, it,
                 links, hasNew, visited>>

\* The flag was for this check.  bNewEntries is FALSE here, and the icon left alone.
EndCheck ==
  /\ Goto("end", "idle")
  /\ removedItems' = FALSE
  /\ snapshot' = {} /\ visited' = {} /\ hasNew' = FALSE
  /\ UNCHANGED <<notificationVars, mapVars, dialogVars, it, links>>

Check ==
  \/ Snapshot \/ Visit \/ VisitFinds \/ StillUnread \/ NothingUnread \/ VisitFails
  \/ ErrPopup \/ NoPage \/ Page \/ Link \/ LinksDone \/ NewProjectsPopup \/ CommitsPopup \/ Finish \/ EndCheck

-----------------------------------------------------------------------------
(* The main dialog.                                                        *)

OpenDialog ==
  /\ UserEvent
  /\ UiPumps
  /\ ~dialog
  /\ dialog' = TRUE
  /\ removedItems' = FALSE
  /\ UNCHANGED <<iconVars, popupVars, taskbar, fullscreen, mapVars, removal, checkVars>>

CloseDialog ==
  /\ UiPumps
  /\ dialog
  /\ dialog' = FALSE
  /\ IconMessage(FALSE)
  /\ UNCHANGED <<mapVars, removedItems, removal, checkVars>>

ReadCommits ==
  /\ UiPumps /\ Unlocked
  /\ dialog
  /\ \E u \in unread : unread' \in {unread, unread \ {u}}
  /\ IconMessage(FALSE)
  /\ UNCHANGED <<present, parentpath, errors, removedItems, dialogVars, checkVars>>

AddProject(u) ==
  /\ UiPumps /\ Unlocked
  /\ dialog
  /\ UserEvent
  /\ u \notin present
  /\ present' = present \cup {u}
  /\ UNCHANGED <<iconVars, popupVars, taskbar, fullscreen, parentpath, errors, unread,
                 removedItems, dialogVars, checkVars>>

\* What is to be erased with a project: if it is a list, all below it.
Below(u) == {u} \cup IF u \in parentpath THEN Listed[u] ELSE {}

\* A round of the loop over the map S that erases the keys in M, with the iterator at
\* u: the map after it, and where the iterator is.  After an erase the iterator is set
\* to begin(), and incremented all the same.
MapAfterRound(S, u, M) == S \ ({u} \cap M)

IteratorAfterRound(S, u, M) ==
  IF u \in M THEN After(S \ {u}, Least(S \ {u})) ELSE After(S, u)

\* What the loop leaves: once the first key is gone, the next one is passed over for good.
\* (MCProjectList compares this with the loop, and EraseLoopLeaves proves it.)
Erase(S, M) ==
  LET first  == Least(S)
      passed == IF first \in M THEN {Least(S \ {first})} ELSE {}
  IN  S \ (M \ passed)

RemoveProject(u) ==
  /\ UiPumps /\ Unlocked
  /\ dialog
  /\ UserEvent
  /\ u \in present
  /\ present' = Erase(present, Below(u))
  /\ parentpath' = parentpath \cap present'
  /\ errors' = errors \cap present'
  /\ unread' = unread \cap present'
  /\ removal' = "erased"
  /\ UNCHANGED <<iconVars, popupVars, taskbar, fullscreen, removedItems, dialog, checkVars>>

\* The lock is free again, and the projects are saved.
SaveRemoved ==
  /\ removal = "erased"
  /\ removal' = "saved"
  /\ UNCHANGED <<notificationVars, mapVars, removedItems, dialog, checkVars>>

\* COMMITMONITOR_CHANGEDINFO and COMMITMONITOR_REMOVEDURL
TellRemoved ==
  /\ removal = "saved"
  /\ removal' = "none"
  /\ IconMessage(FALSE)
  /\ removedItems' = TRUE
  /\ UNCHANGED <<mapVars, dialog, checkVars>>

MainDialog ==
  \/ OpenDialog \/ CloseDialog \/ ReadCommits \/ SaveRemoved \/ TellRemoved
  \/ \E u \in Project : AddProject(u) \/ RemoveProject(u)

\* ID_POPUP_MARKALLASREAD of the tray icon.
MarkAllAsRead ==
  /\ UiPumps /\ Unlocked
  /\ unread' = {}
  /\ IconMessage(FALSE)
  /\ UNCHANGED <<present, parentpath, errors, removedItems, dialogVars, checkVars>>

\* The messages of Notification are dispatched by the same thread.
Dispatch ==
  /\ UiPumps
  /\ DoAnimate \/ TaskbarCreated \/ PopupTimer \/ PopupCloses \/ TrayMenu \/ SetOptions
  /\ UNCHANGED <<mapVars, removedItems, dialogVars, checkVars>>

Outside ==
  /\ Shell
  /\ UNCHANGED <<mapVars, removedItems, dialogVars, checkVars>>

ProjectListNext == Timer \/ Check \/ MainDialog \/ MarkAllAsRead \/ Dispatch \/ Outside

\* The threads are scheduled, timers fire, popups go away, and a removal that was
\* begun goes on.
Fairness ==
  /\ WF_vars(Check)
  /\ WF_vars(Timer)
  /\ WF_vars(SaveRemoved \/ TellRemoved)
  /\ WF_vars(UiPumps /\ PopupTimer /\ UNCHANGED <<mapVars, removedItems, dialogVars, checkVars>>)
  /\ WF_vars(UiPumps /\ PopupCloses /\ UNCHANGED <<mapVars, removedItems, dialogVars, checkVars>>)

ProjectListSpec == ProjectListInit /\ [][ProjectListNext]_vars /\ Fairness

-----------------------------------------------------------------------------
(* Properties.                                                             *)

\* The check comes to every project of its snapshot, although the iterator starts
\* again when projects were added, and then passes over the first.
AllVisited == pc = "end" => snapshot \subseteq visited

\* It ends, although the loop starts again: the projects that were added are not
\* new the next time, and the user does not remove them for ever.
CheckEnds == pc = "snapshot" ~> pc = "idle"

\* A red icon without a reason does not stay: nothing is unread, and there are no
\* errors but of lists.  (It stays if the last project was removed meanwhile.)
EyesSettle ==
  ([](present # {} /\ unread = {} /\ errors \subseteq parentpath)) ~> hIcon # Red
=============================================================================
