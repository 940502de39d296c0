-------------------------- MODULE Notification_proofs -----------------------
(***************************************************************************)
(* What the user is shown, for any options, any number of popups, and      *)
(* whatever the shell and full-screen windows do.                          *)
(***************************************************************************)
EXTENDS Notification, SequenceTheorems, TLAPS

\* The icon, apart from the popups.
IconTypeOK ==
  /\ options \in Options
  /\ hIcon \in Icon
  /\ animate \in BOOLEAN
  /\ taskbar \in {"up", "down", "created"}
  /\ tray \in BOOLEAN

IconInv == IconTypeOK /\ AnimationIsRed /\ TrayIconIsThere

\* The icon is shown if there is a taskbar, and animated only if it is red.
LEMMA ShowTrayIconInv ==
  ASSUME IconTypeOK, NEW newCommits \in BOOLEAN, ShowTrayIcon(newCommits),
         options' = options, taskbar' \in {"up", "down", "created"},
         taskbar = "down" => taskbar' # "up"
  PROVE  IconInv'
<1>1. hIcon' \in Icon /\ (newCommits => hIcon' = Red)
  BY DEF ShowTrayIcon, IconFor, Icon, Red, NoIcon
<1>2. options.animate \in BOOLEAN
  BY NotificationAssumption DEF NotificationAssumption, IconTypeOK
<1>3. tray' = (hIcon' # NoIcon /\ taskbar # "down")
  BY DEF ShowTrayIcon, Shown
<1>4. animate' \in BOOLEAN /\ (animate' => newCommits)
  BY <1>2 DEF ShowTrayIcon
<1>5. tray' \in BOOLEAN
  BY <1>3
<1>6. taskbar' = "up" /\ hIcon' # NoIcon => tray'
  BY <1>3
<1> QED
  BY <1>1, <1>4, <1>5, <1>6 DEF IconInv, IconTypeOK, AnimationIsRed, TrayIconIsThere

\* Every step keeps what holds of the icon.
LEMMA IconInvNext ==
  ASSUME IconInv, [NotificationNext]_notificationVars
  PROVE  IconInv'
<1> USE DEF iconVars, popupVars, shellVars
<1>8a. IconTypeOK
  BY DEF IconInv
<1>1. CASE DoAnimate
  <2>1. hIcon' = Red /\ tray' = (taskbar # "down") /\ UNCHANGED <<options, animate, taskbar>>
    BY <1>1 DEF DoAnimate, Shown, Red, NoIcon
  <2>2. tray' \in BOOLEAN /\ (taskbar' = "up" => tray')
    BY <2>1
  <2> QED
    BY <1>8a, <2>1, <2>2 DEF IconInv, IconTypeOK, AnimationIsRed, TrayIconIsThere, Icon
<1>2. CASE TaskbarCreated
  <2>1. PICK first \in {TRUE, ~animate} : ShowTrayIcon(hIcon = Red /\ first)
    BY <1>2 DEF TaskbarCreated
  <2>2. (hIcon = Red /\ first) \in BOOLEAN
    OBVIOUS
  <2>3. options' = options /\ taskbar = "created" /\ taskbar' = "up"
    BY <1>2 DEF TaskbarCreated
  <2> QED
    BY <1>8a, <2>1, <2>2, <2>3, ShowTrayIconInv
<1>3. CASE SetOptions
  <2>1. options' \in Options /\ animate' = FALSE /\ taskbar' = taskbar
    BY <1>3 DEF SetOptions
  <2>2. hIcon' \in Icon /\ tray' = (hIcon' # NoIcon /\ taskbar # "down")
    BY <1>3 DEF SetOptions, IconFor, Icon, NoIcon, Shown
  <2>3. tray' \in BOOLEAN /\ (taskbar' = "up" /\ hIcon' # NoIcon => tray')
    BY <2>1, <2>2
  <2> QED
    BY <1>8a, <2>1, <2>2, <2>3 DEF IconInv, IconTypeOK, AnimationIsRed, TrayIconIsThere
<1>4. CASE ShellDies \/ ShellStarts
  <2>1. /\ UNCHANGED <<options, hIcon, animate>>
        /\ taskbar' \in {"down", "created"}
        /\ tray' \in {FALSE, tray}
    BY <1>4 DEF ShellDies, ShellStarts
  <2>2. tray' \in BOOLEAN
    BY <1>8a, <2>1 DEF IconTypeOK
  <2> QED
    BY <2>1, <2>2 DEF IconInv, IconTypeOK, AnimationIsRed, TrayIconIsThere
<1>5. CASE PopupMessage
  <2>1. ShowTrayIcon(TRUE) /\ UNCHANGED <<options, taskbar>>
    BY <1>5 DEF PopupMessage
  <2> QED
    BY <1>8a, <2>1, ShowTrayIconInv DEF IconTypeOK
<1>6. ASSUME NEW newCommits \in BOOLEAN, IconMessage(newCommits) PROVE IconInv'
  <2>1. ShowTrayIcon(newCommits) /\ UNCHANGED <<options, taskbar>>
    BY <1>6 DEF IconMessage
  <2> QED
    BY <1>8a, <2>1, ShowTrayIconInv DEF IconTypeOK
<1>7. CASE UNCHANGED <<iconVars, taskbar>>
  BY <1>7 DEF IconInv, IconTypeOK, AnimationIsRed, TrayIconIsThere
<1>8. CASE PopupTimer \/ PopupCloses \/ TrayMenu \/ Fullscreen \/ UNCHANGED notificationVars
  <2>1. UNCHANGED <<iconVars, taskbar>>
    BY <1>8 DEF PopupTimer, PopupCloses, TrayMenu, Fullscreen, notificationVars
  <2> QED
    BY <1>7, <2>1
<1> QED
  BY <1>1, <1>2, <1>3, <1>4, <1>5, <1>6, <1>8 DEF NotificationNext, NotificationStep, Shell

\* What the constructor of the window leaves.
LEMMA IconInvInit == NotificationInit => IconInv
<1> SUFFICES ASSUME NotificationInit PROVE IconInv
  OBVIOUS
<1>1. hIcon \in Icon /\ options \in Options /\ animate = FALSE
  BY DEF NotificationInit, Icon, NoIcon
<1>2. taskbar \in {"up", "down"} /\ tray = (taskbar = "up" /\ hIcon # NoIcon)
  BY DEF NotificationInit
<1> QED
  BY <1>1, <1>2 DEF IconInv, IconTypeOK, AnimationIsRed, TrayIconIsThere

\* A black icon is not animated: the timer would turn it red again.
THEOREM NotificationAnimationIsRed == NotificationSpec => []AnimationIsRed
BY IconInvInit, IconInvNext, PTL DEF NotificationSpec, IconInv

\* The icon is in the tray whenever there is a taskbar, however often the shell is
\* started again and whatever is shown meanwhile.
THEOREM NotificationTrayIconIsThere == NotificationSpec => []TrayIconIsThere
BY IconInvInit, IconInvNext, PTL DEF NotificationSpec, IconInv

-----------------------------------------------------------------------------
(* The places of the popups.  That no two are equal and that the taken ones are *)
(* those of the windows is not inductive alone: closing a window must find its  *)
(* place in slots.                                                              *)

SlotsInv ==
  /\ slots \in Seq({0, 1})
  /\ popups \in Seq(Nat)
  /\ \A i \in 1 .. Len(popups) : popups[i] \in 1 .. Len(slots)
  /\ SlotsAreApart

\* What is left of a sequence without one of its elements.
LEMMA RemoveAtElements ==
  ASSUME NEW seq \in Seq(Nat), NEW i \in 1 .. Len(seq)
  PROVE  /\ RemoveAt(seq, i) \in Seq(Nat)
         /\ Len(RemoveAt(seq, i)) = Len(seq) - 1
         /\ \A j \in 1 .. Len(seq) - 1 :
              RemoveAt(seq, i)[j] = seq[IF j < i THEN j ELSE j + 1]
<1> DEFINE front == SubSeq(seq, 1, i - 1)
           back  == SubSeq(seq, i + 1, Len(seq))
<1>1. front \in Seq(Nat) /\ Len(front) = i - 1 /\ \A j \in 1 .. i - 1 : front[j] = seq[j]
  OBVIOUS
<1>2. /\ back \in Seq(Nat)
      /\ Len(back) = Len(seq) - i
      /\ \A j \in 1 .. Len(seq) - i : back[j] = seq[i + j]
  OBVIOUS
<1> HIDE DEF front, back
<1>3. front \o back \in Seq(Nat) /\ Len(front \o back) = Len(seq) - 1
  <2>1. front \o back \in Seq(Nat) /\ Len(front \o back) = Len(front) + Len(back)
    BY <1>1, <1>2, ConcatProperties
  <2> QED
    BY <1>1, <1>2, <2>1
<1>4. ASSUME NEW j \in 1 .. Len(seq) - 1
      PROVE  (front \o back)[j] = seq[IF j < i THEN j ELSE j + 1]
  <2>1. CASE j < i
    BY <1>1, <1>2, <2>1
  <2>2. CASE ~(j < i)
    <3>1. j - (i - 1) \in 1 .. Len(seq) - i /\ i + (j - (i - 1)) = j + 1
      BY <2>2
    <3>2. (front \o back)[j] = back[j - (i - 1)]
      <4>1. j \in 1 .. Len(front) + Len(back) /\ ~(j <= Len(front))
        BY <1>1, <1>2, <2>2
      <4>2. (front \o back)[j] = back[j - Len(front)]
        BY <1>1, <1>2, <4>1, ConcatProperties
      <4> QED
        BY <1>1, <4>2
    <3> QED
      BY <1>2, <2>2, <3>1, <3>2
  <2> QED
    BY <2>1, <2>2
<1> QED
  BY <1>3, <1>4 DEF RemoveAt, front, back

\* A popup is shown in a place that no other has.
LEMMA ShowKeepsSlots ==
  ASSUME SlotsInv, Show
  PROVE  SlotsInv'
<1>1. slots \in Seq({0, 1}) /\ popups \in Seq(Nat)
  BY DEF SlotsInv
<1>2. PICK slot \in 1 .. Len(slots) + 1 :
        /\ slot <= Len(slots) => slots[slot] = 0
        /\ TakeSlot(slot)
        /\ popups' = Append(popups, slot)
  BY DEF Show
<1>3. /\ popups' \in Seq(Nat)
      /\ Len(popups') = Len(popups) + 1
      /\ popups'[Len(popups) + 1] = slot
      /\ \A i \in 1 .. Len(popups) : popups'[i] = popups[i]
  BY <1>1, <1>2
<1>4. \A i \in 1 .. Len(popups) : popups[i] \in 1 .. Len(slots) /\ popups[i] # slot
  BY <1>2 DEF SlotsInv, SlotsAreApart
<1>5. /\ slots' \in Seq({0, 1})
      /\ Len(slots') >= Len(slots)
      /\ slot \in 1 .. Len(slots')
      /\ slots'[slot] = 1
      /\ \A s \in 1 .. Len(slots') : s # slot => s \in 1 .. Len(slots) /\ slots'[s] = slots[s]
  <2>1. CASE slot > Len(slots)
    <3>1. slot = Len(slots) + 1 /\ slots' = Append(slots, 1)
      BY <1>1, <1>2, <2>1 DEF TakeSlot
    <3> QED
      BY <1>1, <3>1
  <2>2. CASE ~(slot > Len(slots))
    <3>1. slot \in 1 .. Len(slots) /\ slots' = [slots EXCEPT ![slot] = 1]
      BY <1>1, <1>2, <2>2 DEF TakeSlot
    <3> QED
      BY <1>1, <3>1
  <2> QED
    BY <2>1, <2>2
<1>6. ASSUME NEW i \in 1 .. Len(popups')
      PROVE  popups'[i] \in 1 .. Len(slots')
  <2>1. CASE i = Len(popups) + 1
    BY <1>3, <1>5, <2>1
  <2>2. CASE i # Len(popups) + 1
    <3>1. i \in 1 .. Len(popups) /\ popups'[i] = popups[i]
      BY <1>1, <1>3, <2>2
    <3>2. popups[i] \in 1 .. Len(slots)
      BY <1>4, <3>1
    <3> QED
      BY <1>1, <1>5, <3>1, <3>2
  <2> QED
    BY <2>1, <2>2
<1>7. ASSUME NEW i \in 1 .. Len(popups'), NEW j \in 1 .. Len(popups'), i # j
      PROVE  popups'[i] # popups'[j]
  <2>1. CASE i = Len(popups) + 1
    <3>1. j \in 1 .. Len(popups)
      BY <1>1, <1>3, <1>7, <2>1
    <3> QED
      BY <1>3, <1>4, <2>1, <3>1
  <2>2. CASE j = Len(popups) + 1
    <3>1. i \in 1 .. Len(popups)
      BY <1>1, <1>3, <1>7, <2>2
    <3> QED
      BY <1>3, <1>4, <2>2, <3>1
  <2>3. CASE i # Len(popups) + 1 /\ j # Len(popups) + 1
    <3>1. i \in 1 .. Len(popups) /\ j \in 1 .. Len(popups)
      BY <1>1, <1>3, <2>3
    <3>2. popups[i] # popups[j]
      BY <1>7, <3>1 DEF SlotsInv, SlotsAreApart
    <3> QED
      BY <1>3, <3>1, <3>2
  <2> QED
    BY <2>1, <2>2, <2>3
<1>8. ASSUME NEW s \in 1 .. Len(slots')
      PROVE  slots'[s] = 1 <=> \E i \in 1 .. Len(popups') : popups'[i] = s
  <2>1. CASE s = slot
    <3>1. Len(popups) + 1 \in 1 .. Len(popups') /\ popups'[Len(popups) + 1] = s
      BY <1>1, <1>3, <2>1
    <3>2. slots'[s] = 1
      BY <1>5, <2>1
    <3> QED
      BY <3>1, <3>2
  <2>2. CASE s # slot
    <3>1. slots[s] = 1 <=> \E i \in 1 .. Len(popups) : popups[i] = s
      BY <1>5, <2>2 DEF SlotsInv, SlotsAreApart
    <3>2. ASSUME NEW i \in 1 .. Len(popups), popups[i] = s
          PROVE  i \in 1 .. Len(popups') /\ popups'[i] = s
      BY <1>1, <1>3, <3>2
    <3>3. ASSUME NEW i \in 1 .. Len(popups'), popups'[i] = s
          PROVE  i \in 1 .. Len(popups) /\ popups[i] = s
      <4>1. i # Len(popups) + 1
        BY <1>3, <2>2, <3>3
      <4>2. i \in 1 .. Len(popups)
        BY <1>1, <1>3, <4>1
      <4> QED
        BY <1>3, <3>3, <4>2
    <3> QED
      BY <1>5, <2>2, <3>1, <3>2, <3>3
  <2> QED
    BY <2>1, <2>2
<1> QED
  BY <1>3, <1>5, <1>6, <1>7, <1>8 DEF SlotsInv, SlotsAreApart

\* A popup that closes gives its place back, and no other loses its own.
LEMMA PopupClosesKeepsSlots ==
  ASSUME SlotsInv, PopupCloses
  PROVE  SlotsInv'
<1>1. slots \in Seq({0, 1}) /\ popups \in Seq(Nat)
  BY DEF SlotsInv
<1>2. PICK i \in 1 .. Len(popups) :
        slots' = [slots EXCEPT ![popups[i]] = 0] /\ popups' = RemoveAt(popups, i)
  BY DEF PopupCloses
<1> DEFINE from(j) == IF j < i THEN j ELSE j + 1
<1>3. /\ popups' \in Seq(Nat)
      /\ Len(popups') = Len(popups) - 1
      /\ \A j \in 1 .. Len(popups') : popups'[j] = popups[from(j)]
  BY <1>1, <1>2, RemoveAtElements
<1>4. popups[i] \in 1 .. Len(slots)
  BY DEF SlotsInv
<1>5. /\ slots' \in Seq({0, 1})
      /\ Len(slots') = Len(slots)
      /\ slots'[popups[i]] = 0
      /\ \A s \in 1 .. Len(slots) : s # popups[i] => slots'[s] = slots[s]
  BY <1>1, <1>2, <1>4
<1>6. \A j \in 1 .. Len(popups') : from(j) \in 1 .. Len(popups) /\ from(j) # i
  BY <1>1, <1>3
<1>7. \A j, k \in 1 .. Len(popups') : j # k => from(j) # from(k)
  BY <1>1, <1>3
<1>8. \A k \in 1 .. Len(popups) : k # i => \E j \in 1 .. Len(popups') : from(j) = k
  <2> SUFFICES ASSUME NEW k \in 1 .. Len(popups), k # i
               PROVE  \E j \in 1 .. Len(popups') : from(j) = k
    OBVIOUS
  <2>1. CASE k < i
    <3>1. k \in 1 .. Len(popups') /\ from(k) = k
      BY <1>1, <1>3, <2>1
    <3> QED
      BY <3>1
  <2>2. CASE k > i
    <3>1. k - 1 \in 1 .. Len(popups') /\ from(k - 1) = k
      BY <1>1, <1>3, <2>2
    <3> QED
      BY <3>1
  <2> QED
    BY <2>1, <2>2
<1> HIDE DEF from
<1>8a. \A j, k \in 1 .. Len(popups) : j # k => popups[j] # popups[k]
  BY DEF SlotsInv, SlotsAreApart
<1>9. \A j \in 1 .. Len(popups') : popups'[j] \in 1 .. Len(slots')
  BY <1>3, <1>5, <1>6 DEF SlotsInv
<1>10. ASSUME NEW j \in 1 .. Len(popups'), NEW k \in 1 .. Len(popups'), j # k
       PROVE  popups'[j] # popups'[k]
  <2>1. /\ from(j) \in 1 .. Len(popups) /\ from(k) \in 1 .. Len(popups)
        /\ from(j) # from(k)
    BY <1>6, <1>7, <1>10
  <2>2. popups'[j] = popups[from(j)] /\ popups'[k] = popups[from(k)]
    BY <1>3
  <2> QED
    BY <1>8a, <2>1, <2>2
<1>11. ASSUME NEW s \in 1 .. Len(slots')
       PROVE  slots'[s] = 1 <=> \E j \in 1 .. Len(popups') : popups'[j] = s
  <2>1. CASE s = popups[i]
    <3>1. \A j \in 1 .. Len(popups') : popups'[j] # s
      BY <1>8a, <1>3, <1>6, <2>1
    <3> QED
      BY <1>5, <2>1, <3>1
  <2>2. CASE s # popups[i]
    <3>1. slots[s] = 1 <=> \E k \in 1 .. Len(popups) : popups[k] = s
      BY <1>5 DEF SlotsInv, SlotsAreApart
    <3>2. (\E k \in 1 .. Len(popups) : popups[k] = s)
            <=> \E j \in 1 .. Len(popups') : popups'[j] = s
      BY <1>3, <1>6, <1>8, <2>2
    <3> QED
      BY <1>5, <2>2, <3>1, <3>2
  <2> QED
    BY <2>1, <2>2
<1> QED
  BY <1>3, <1>5, <1>9, <1>10, <1>11 DEF SlotsInv, SlotsAreApart

\* The menu closes all popups and frees all their places.
LEMMA TrayMenuKeepsSlots ==
  ASSUME SlotsInv, TrayMenu
  PROVE  SlotsInv'
<1>1. slots \in Seq({0, 1}) /\ popups \in Seq(Nat)
  BY DEF SlotsInv
<1>2. popups' \in Seq(Nat) /\ Len(popups') = 0
  BY DEF TrayMenu
<1>3. slots' = [s \in 1 .. Len(slots) |-> IF \E i \in 1 .. Len(popups) : popups[i] = s
                                          THEN 0 ELSE slots[s]]
  BY DEF TrayMenu
<1>4. slots' \in Seq({0, 1}) /\ Len(slots') = Len(slots)
  BY <1>1, <1>3
<1>5. \A s \in 1 .. Len(slots') : slots'[s] # 1
  BY <1>1, <1>3, <1>4 DEF SlotsInv, SlotsAreApart
<1> QED
  BY <1>2, <1>4, <1>5 DEF SlotsInv, SlotsAreApart

\* Every step keeps what holds of the places.
LEMMA SlotsInvNext ==
  ASSUME SlotsInv, [NotificationNext]_notificationVars
  PROVE  SlotsInv'
<1> USE DEF iconVars, popupVars, shellVars
<1>1. CASE UNCHANGED <<slots, popups>>
  BY <1>1 DEF SlotsInv, SlotsAreApart
<1>2. CASE PopupTimer
  BY <1>1, <1>2, ShowKeepsSlots DEF PopupTimer
<1>3. CASE PopupCloses
  BY <1>3, PopupClosesKeepsSlots
<1>4. CASE TrayMenu
  BY <1>4, TrayMenuKeepsSlots
<1>5. CASE DoAnimate \/ TaskbarCreated \/ SetOptions \/ Shell \/ UNCHANGED notificationVars
  <2>1. UNCHANGED <<slots, popups>>
    BY <1>5 DEF DoAnimate, TaskbarCreated, SetOptions, Shell, ShellDies, ShellStarts,
                Fullscreen, notificationVars
  <2> QED
    BY <1>1, <2>1
<1>6. CASE PopupMessage \/ \E newCommits \in BOOLEAN : IconMessage(newCommits)
  <2>1. UNCHANGED <<slots, popups>>
    BY <1>6 DEF PopupMessage, IconMessage
  <2> QED
    BY <1>1, <2>1
<1> QED
  BY <1>2, <1>3, <1>4, <1>5, <1>6 DEF NotificationNext, NotificationStep

\* However many popups there are, and in whatever order they are closed, no two
\* cover each other and no place stays taken for good.
THEOREM NotificationSlotsAreApart == NotificationSpec => []SlotsAreApart
<1>1. NotificationInit => SlotsInv
  BY DEF NotificationInit, SlotsInv, SlotsAreApart
<1> QED
  BY <1>1, SlotsInvNext, PTL DEF NotificationSpec, SlotsInv
=============================================================================
