---------------------------- MODULE Notification ----------------------------
(***************************************************************************)
(* How CommitMonitor tells the user that something is new: the icon in the *)
(* system tray, which may be animated, and the popups, which are collected *)
(* for five seconds and shown in slots beside each other (HiddenWindow.cpp,*)
(* StatusBarMsgWnd.cpp).  All of it is state of the user-interface thread. *)
(*                                                                         *)
(* The shell keeps the icon; when it is started again the icon is gone and *)
(* a message TaskbarCreated follows.  A window over the whole screen keeps *)
(* popups back.  Timers fire when they are set; how long they take is left *)
(* out, and so are the text of a popup and which picture the animation     *)
(* shows.  Snarl is not installed.                                         *)
(***************************************************************************)
EXTENDS Naturals, Sequences

CONSTANTS
  Options,    \* the values of the registry: records [icon, animate, popups]
  Bounds      \* what may happen in one behaviour: records [user, shell, popups]

ASSUME NotificationAssumption ==
  /\ Bounds \subseteq [user : Nat, shell : Nat, popups : Nat]
  /\ Options # {}
  /\ Options \subseteq [icon : BOOLEAN, animate : BOOLEAN, popups : BOOLEAN]

VARIABLES
  options,     \* ShowTaskbarIcon, Animate and ShowPopups
  hIcon,       \* m_SystemTray.hIcon
  animate,     \* the timer IDT_ANIMATE is set
  taskbar,     \* the shell: "up", "down", or "created" while its message is on the way
  tray,        \* the shell shows our icon
  popupData,   \* m_popupData is not empty
  popupTimer,  \* the timer IDT_POPUP is set
  fullscreen,  \* a window covers the whole screen
  slots,       \* m_slots: which places for popups are taken
  popups,      \* m_thiscounter of each popup window, in the order they were shown
  bound        \* how often the user and the shell still do something of note, and
               \* how many popup windows there are at a time

iconVars  == <<options, hIcon, animate, tray>>
popupVars == <<popupData, popupTimer, slots, popups>>
shellVars == <<taskbar, fullscreen, bound>>
notificationVars == <<iconVars, popupVars, shellVars>>

NoIcon == "none"
Red    == "new"
Icon   == {Red, "normal", NoIcon}

\* A shell that does nothing of note was there before the program.
NotificationInit ==
  /\ options \in Options
  /\ hIcon = IF options.icon THEN "normal" ELSE NoIcon
  /\ animate = FALSE
  /\ bound \in Bounds
  /\ taskbar \in IF bound.shell = 0 THEN {"up"} ELSE {"up", "down"}
  /\ tray = (taskbar = "up" /\ hIcon # NoIcon)
  /\ popupData = FALSE /\ popupTimer = FALSE
  /\ fullscreen = FALSE
  /\ slots = <<>> /\ popups = <<>>

UserEvent  == bound.user > 0 /\ bound' = [bound EXCEPT !.user = @ - 1]
ShellEvent == bound.shell > 0 /\ bound' = [bound EXCEPT !.shell = @ - 1]

-----------------------------------------------------------------------------
(* The icon.                                                               *)

IconFor(newCommits, opts) ==
  IF newCommits THEN Red ELSE IF opts.icon THEN "normal" ELSE NoIcon

\* Shell_NotifyIcon: an icon that cannot be modified, or is not known to be there,
\* is added; that fails as long as there is no taskbar.
Shown(icon) == icon # NoIcon /\ taskbar # "down"

\* The mutant does not stop the animation.
ShowTrayIconAnimated(newCommits) ==
  /\ hIcon' = IconFor(newCommits, options)
  /\ tray' = Shown(hIcon')
  /\ animate' = (animate \/ (newCommits /\ options.animate))

ShowTrayIcon(newCommits) ==
  /\ hIcon' = IconFor(newCommits, options)
  /\ tray' = Shown(hIcon')
  /\ animate' = (newCommits /\ options.animate)

\* The timer IDT_ANIMATE shows one picture after the other.
DoAnimate ==
  /\ animate
  /\ hIcon' = Red
  /\ tray' = Shown(hIcon')
  /\ UNCHANGED <<options, animate, popupVars, shellVars>>

\* The mutant relies on the icon being there.
TaskbarCreatedIgnored ==
  /\ taskbar = "created"
  /\ taskbar' = "up"
  /\ UNCHANGED <<iconVars, popupVars, fullscreen, bound>>

\* The icon is added again: red, if it was the picture the animation begins with.
TaskbarCreated ==
  /\ taskbar = "created"
  /\ taskbar' = "up"
  /\ \E first \in {TRUE, ~animate} : ShowTrayIcon(hIcon = Red /\ first)
  /\ UNCHANGED <<options, popupVars, fullscreen, bound>>

\* The user closes the options with OK.
SetOptions ==
  /\ UserEvent
  /\ options' \in Options
  /\ hIcon' = IconFor(FALSE, options')
  /\ tray' = Shown(hIcon')
  /\ animate' = FALSE
  /\ UNCHANGED <<popupVars, taskbar, fullscreen>>

-----------------------------------------------------------------------------
(* The popups.                                                             *)

\* COMMITMONITOR_POPUP
PopupMessage ==
  /\ IF options.popups
     THEN popupData' = TRUE /\ popupTimer' = TRUE
     ELSE UNCHANGED <<popupData, popupTimer>>
  /\ ShowTrayIcon(TRUE)
  /\ UNCHANGED <<options, slots, popups, shellVars>>

\* The mutant does not mark a slot as taken that was used before.
TakeSlotAgain(slot) ==
  slots' = IF slot > Len(slots) THEN Append(slots, 1) ELSE slots

TakeSlot(slot) ==
  slots' = IF slot > Len(slots) THEN Append(slots, 1) ELSE [slots EXCEPT ![slot] = 1]

\* CStatusBarMsgWnd::Show: the first slot that is empty, or one more.
Show ==
  /\ Len(popups) < bound.popups
  /\ \E slot \in 1 .. Len(slots) + 1 :
       /\ slot <= Len(slots) => slots[slot] = 0
       /\ \A s \in 1 .. slot - 1 : slots[s] = 1
       /\ TakeSlot(slot)
       /\ popups' = Append(popups, slot)

\* The mutant gives the popups up when there is a full-screen window.
KeepBackForGood == popupTimer' = FALSE

\* The timer is set again until there is no full-screen window.
KeepBack == popupTimer' = TRUE

\* One popup for all that was collected.
PopupTimer ==
  /\ popupTimer
  /\ IF fullscreen
     THEN KeepBack /\ UNCHANGED <<popupData, slots, popups>>
     ELSE /\ Show
          /\ popupData' = FALSE
          /\ popupTimer' = FALSE
  /\ UNCHANGED <<iconVars, shellVars>>

RemoveAt(seq, i) == SubSeq(seq, 1, i - 1) \o SubSeq(seq, i + 1, Len(seq))

\* WM_DESTROY of a popup: its time is over, or the user dismissed it.
PopupCloses ==
  /\ \E i \in 1 .. Len(popups) :
       /\ slots' = [slots EXCEPT ![popups[i]] = 0]
       /\ popups' = RemoveAt(popups, i)
  /\ UNCHANGED <<iconVars, popupData, popupTimer, shellVars>>

\* The menu of the tray icon closes them all.
TrayMenu ==
  /\ tray
  /\ popups # <<>>
  /\ popups' = <<>>
  /\ slots' = [s \in 1 .. Len(slots) |-> IF \E i \in 1 .. Len(popups) : popups[i] = s
                                          THEN 0 ELSE slots[s]]
  /\ UNCHANGED <<iconVars, popupData, popupTimer, shellVars>>

-----------------------------------------------------------------------------
\* The shell ends, and starts again.
ShellDies ==
  /\ ShellEvent
  /\ taskbar # "down"
  /\ taskbar' = "down"
  /\ tray' = FALSE
  /\ UNCHANGED <<options, hIcon, animate, popupVars, fullscreen>>

ShellStarts ==
  /\ taskbar = "down"
  /\ taskbar' = "created"
  /\ UNCHANGED <<iconVars, popupVars, fullscreen, bound>>

Fullscreen ==
  /\ fullscreen' = ~fullscreen
  /\ IF fullscreen THEN UNCHANGED bound ELSE ShellEvent
  /\ UNCHANGED <<iconVars, popupVars, taskbar>>

Shell == ShellDies \/ ShellStarts \/ Fullscreen

\* What happens on its own: the rest are messages others send.
NotificationStep ==
  \/ DoAnimate \/ TaskbarCreated \/ PopupTimer \/ PopupCloses \/ TrayMenu \/ SetOptions \/ Shell

\* COMMITMONITOR_CHANGEDINFO and the like.
IconMessage(newCommits) ==
  /\ ShowTrayIcon(newCommits)
  /\ UNCHANGED <<options, popupVars, shellVars>>

NotificationNext ==
  \/ NotificationStep
  \/ PopupMessage
  \/ \E newCommits \in BOOLEAN : IconMessage(newCommits)

NotificationSpec == NotificationInit /\ [][NotificationNext]_notificationVars

-----------------------------------------------------------------------------
(* Properties.                                                             *)

NotificationTypeOK ==
  /\ options \in Options
  /\ hIcon \in Icon
  /\ animate \in BOOLEAN
  /\ taskbar \in {"up", "down", "created"}
  /\ tray \in BOOLEAN
  /\ popupData \in BOOLEAN
  /\ popupTimer \in BOOLEAN
  /\ fullscreen \in BOOLEAN
  /\ slots \in Seq({0, 1})
  /\ popups \in Seq(Nat)
  /\ bound \in [user : Nat, shell : Nat, popups : Nat]

\* The icon is only animated while it is red: a black icon is not turned red
\* again by the timer of an animation that nobody stopped.
AnimationIsRed == animate => hIcon = Red

\* The tray icon, through which the program is reached at all, is not lost: when
\* the shell was started again, and whatever was shown meanwhile, it is there.
TrayIconIsThere == taskbar = "up" /\ hIcon # NoIcon => tray

\* No two popup windows are at the same place, and the places that count as taken
\* are those of the windows.
SlotsAreApart ==
  /\ \A i, j \in 1 .. Len(popups) : i # j => popups[i] # popups[j]
  /\ \A s \in 1 .. Len(slots) : slots[s] = 1 <=> \E i \in 1 .. Len(popups) : popups[i] = s

\* What was collected is shown, if full-screen windows go away in the end.
PopupsAreShown == <>[]~fullscreen => (popupData ~> ~popupData)
=============================================================================
