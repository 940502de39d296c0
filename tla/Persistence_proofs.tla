------------------------- MODULE Persistence_proofs -------------------------
(***************************************************************************)
(* What saving and loading keep, for any number of processes and projects: *)
(* that urls is whole, that a whole copy is left and that AtomicList is    *)
(* implemented, until two saves overlap and unless what fclose writes is   *)
(* lost; and, whatever happens, that an empty list in urls is one the user *)
(* emptied.                                                                *)
(***************************************************************************)
EXTENDS Persistence, TLAPS

Urls == files["urls"]
New  == files["urls_new"]

-----------------------------------------------------------------------------
(* Types.                                                                  *)

\* Who writes urls_new has it open.
NewIsThere == \A p \in Process : WritesNew(p) => New.exists

TypeInv == TypeOK /\ NewIsThere

LEMMA TypeInvInit == PersistenceInit => TypeInv
<1> SUFFICES ASSUME PersistenceInit PROVE TypeInv
  OBVIOUS
<1>1. files \in [File -> Contents \cup {Missing}]
  BY DEF PersistenceInit
<1>2. pc \in [Process -> PC] /\ \A p \in Process : pc[p] = "off"
  BY DEF PersistenceInit, PC
<1>3. infos \in [Process -> Lists]
  BY DEF PersistenceInit, Lists
<1>4. force \in [Process -> BOOLEAN]
  BY DEF PersistenceInit
<1>5. <<overlapped, exposed, existed, emptied>> \in BOOLEAN \X BOOLEAN \X BOOLEAN \X BOOLEAN
  BY DEF PersistenceInit
<1> QED
  BY <1>1, <1>2, <1>3, <1>4, <1>5 DEF TypeInv, TypeOK, NewIsThere, WritesNew

\* A file that exists has contents.
LEMMA FileTypes ==
  ASSUME TypeOK, NEW f \in File
  PROVE  /\ files[f] \in Contents \cup {Missing}
         /\ files[f].exists \in BOOLEAN
         /\ files[f].exists => /\ files[f] \in Contents
                               /\ files[f].list \in Lists
                               /\ files[f].written \in Lists
                               /\ files[f].header \in BOOLEAN
<1>1. files[f] \in Contents \cup {Missing}
  BY DEF TypeOK
<1>2. CASE files[f] \in Contents
  BY <1>2 DEF Contents
<1>3. CASE files[f] = Missing
  BY <1>3 DEF Missing
<1> QED
  BY <1>1, <1>2, <1>3

LEMMA ContentTypes ==
  ASSUME NEW list \in Lists, NEW header \in BOOLEAN, NEW written \in Lists
  PROVE  /\ Content(list, header, written) \in Contents
         /\ Content(list, header, written).exists
         /\ Content(list, header, written).list = list
         /\ Content(list, header, written).header = header
         /\ Content(list, header, written).written = written
BY DEF Content, Contents

\* A content is what its fields say, and stays so when some are written.
LEMMA ContentFields ==
  ASSUME NEW c \in Contents
  PROVE  c = Content(c.list, c.header, c.written)
BY DEF Contents, Content

LEMMA ContentExcept ==
  ASSUME NEW c \in Contents, NEW header \in BOOLEAN, NEW written \in Lists
  PROVE  /\ [c EXCEPT !.header = header] = Content(c.list, header, c.written)
         /\ [c EXCEPT !.written = written] = Content(c.list, c.header, written)
<1> DEFINE h == [c EXCEPT !.header = header]
           w == [c EXCEPT !.written = written]
<1>1. h \in Contents /\ h.list = c.list /\ h.header = header /\ h.written = c.written
  BY DEF Contents
<1>2. w \in Contents /\ w.list = c.list /\ w.header = c.header /\ w.written = written
  BY DEF Contents
<1> HIDE DEF h, w
<1>3. h = Content(c.list, header, c.written) /\ w = Content(c.list, c.header, written)
  BY <1>1, <1>2, ContentFields
<1> QED
  BY <1>3 DEF h, w

LEMMA ReadTypes ==
  ASSUME TypeOK, NEW f \in File, NEW list \in Lists
  PROVE  Read(files[f], list) \in Lists
BY FileTypes DEF Read

\* What Load does.
LEMMA LoadTypes ==
  ASSUME TypeInv, NEW p \in Process, Load(p)
  PROVE  TypeInv'
<1> USE DEF TypeInv, TypeOK, history
<1>1. CASE Start(p)
  BY <1>1 DEF Start, Goto, PC, LoadPC, SavePC, Lists, NewIsThere, WritesNew, New
<1>2. CASE PathFileExists(p)
  BY <1>2 DEF PathFileExists, Goto, PC, LoadPC, SavePC, NewIsThere, WritesNew, New
<1>3. CASE OpenUrls(p)
  BY <1>3 DEF OpenUrls, Goto, PC, LoadPC, SavePC, NewIsThere, WritesNew, New
<1>4. CASE Parse(p)
  <2>1. Read(files["urls"], infos[p]) \in Lists
    BY ReadTypes DEF File
  <2> QED
    BY <1>4, <2>1 DEF Parse, Goto, PC, LoadPC, SavePC, NewIsThere, WritesNew, New
<1>5. CASE LoadBackup(p)
  <2>1. Read(files["urls_backup"], infos[p]) \in Lists
    BY ReadTypes DEF File
  <2>2. infos' \in [Process -> Lists]
    BY <1>5, <2>1 DEF LoadBackup
  <2> QED
    BY <1>5, <2>2 DEF LoadBackup, Goto, PC, LoadPC, SavePC, NewIsThere, WritesNew, New
<1>6. CASE CopyFile(p)
  <2>1. ASSUME files["urls"].exists PROVE Content(files["urls"].list, FALSE, {}) \in Contents
    <3>1. files["urls"].list \in Lists
      BY <2>1, FileTypes DEF File
    <3>2. {} \in Lists
      BY DEF Lists
    <3> QED
      BY <3>1, <3>2, ContentTypes
  <2>2. /\ files' \in [File -> Contents \cup {Missing}]
        /\ files'["urls_new"] = files["urls_new"]
    BY <1>6, <2>1 DEF CopyFile, File
  <2> QED
    BY <1>6, <2>2 DEF CopyFile, Goto, PC, LoadPC, SavePC, NewIsThere, WritesNew, New
<1>7. CASE CopyFileEnds(p)
  <2>1. /\ files' \in [File -> Contents \cup {Missing}]
        /\ files'["urls_new"] = files["urls_new"]
    BY <1>7 DEF CopyFileEnds, File
  <2> QED
    BY <1>7, <2>1 DEF CopyFileEnds, Goto, PC, LoadPC, SavePC, NewIsThere, WritesNew, New
<1> QED
  BY <1>1, <1>2, <1>3, <1>4, <1>5, <1>6, <1>7 DEF Load

\* What changes the list.
LEMMA ChangesTypes ==
  ASSUME TypeInv, NEW p \in Process, Changes(p)
  PROVE  TypeInv'
<1> USE DEF TypeInv, TypeOK, history
<1>1. ASSUME NEW u \in Project, AddProject(p, u) PROVE TypeInv'
  <2>1. infos[p] \cup {u} \in Lists
    BY DEF Lists
  <2> QED
    BY <1>1, <2>1 DEF AddProject, Goto, PC, LoadPC, SavePC, NewIsThere, WritesNew, New
<1>2. ASSUME NEW u \in Project, CheckAdds(p, u) PROVE TypeInv'
  <2>1. infos[p] \cup {u} \in Lists
    BY DEF Lists
  <2> QED
    BY <1>2, <2>1 DEF CheckAdds, NewIsThere, WritesNew, New
<1>3. ASSUME NEW S \in Lists, RemoveProjects(p, S) PROVE TypeInv'
  <2>1. infos[p] \ S \in Lists
    BY DEF Lists
  <2>2. emptied' \in BOOLEAN
    BY <1>3 DEF RemoveProjects
  <2> QED
    BY <1>3, <2>1, <2>2 DEF RemoveProjects, Goto, PC, LoadPC, SavePC, NewIsThere, WritesNew, New
<1>4. CASE SaveRemoved(p)
  <2>1. (infos[p] = {}) \in BOOLEAN
    OBVIOUS
  <2>2. force' \in [Process -> BOOLEAN]
    BY <1>4, <2>1 DEF SaveRemoved
  <2> QED
    BY <1>4, <2>2 DEF SaveRemoved, Goto, PC, LoadPC, SavePC, NewIsThere, WritesNew, New
<1>5. CASE SaveInfo(p)
  BY <1>5 DEF SaveInfo, Goto, PC, LoadPC, SavePC, NewIsThere, WritesNew, New
<1> QED
  BY <1>1, <1>2, <1>3, <1>4, <1>5 DEF Changes

\* What each step of Save does to the files: the rest of the proofs knows them by this.
FilesAre(urls, new) ==
  /\ files' \in [File -> Contents \cup {Missing}]
  /\ Urls' = urls
  /\ New' = new

LEMMA OpenNewFiles ==
  ASSUME TypeInv, NEW p \in Process, OpenNew(p)
  PROVE  FilesAre(Urls, Content({}, FALSE, {}))
<1>1. Content({}, FALSE, {}) \in Contents
  BY ContentTypes DEF Lists
<1> QED
  BY <1>1 DEF OpenNew, FilesAre, TypeInv, TypeOK, Urls, New, File

LEMMA LockFiles ==
  ASSUME TypeInv, NEW p \in Process, Lock(p)
  PROVE  FilesAre(Urls, Content(infos[p], FALSE, {}))
<1>1. infos[p] \in Lists /\ {} \in Lists
  BY DEF TypeInv, TypeOK, Lists
<1>2. Content(infos[p], FALSE, {}) \in Contents
  BY <1>1, ContentTypes
<1> QED
  BY <1>2 DEF Lock, FilesAre, TypeInv, TypeOK, Urls, New, File

LEMMA WriteFiles ==
  ASSUME TypeInv, NEW p \in Process, Write(p)
  PROVE  /\ New \in Contents
         /\ \E header \in BOOLEAN, written \in Lists :
              FilesAre(Urls, Content(New.list, header, written))
<1>1. New \in Contents /\ New.list \in Lists /\ New.written \in Lists /\ New.header \in BOOLEAN
  BY FileTypes DEF Write, Goto, TypeInv, NewIsThere, WritesNew, New, File
<1>2. CASE ~New.header /\ files' = [files EXCEPT !["urls_new"].header = TRUE]
  <2>1. [New EXCEPT !.header = TRUE] = Content(New.list, TRUE, New.written)
    BY <1>1, ContentExcept
  <2>2. files' = [files EXCEPT !["urls_new"] = Content(New.list, TRUE, New.written)]
    BY <1>2, <2>1 DEF New
  <2>3. Content(New.list, TRUE, New.written) \in Contents
    BY <1>1, ContentTypes
  <2>4. FilesAre(Urls, Content(New.list, TRUE, New.written))
    BY <2>2, <2>3 DEF FilesAre, TypeInv, TypeOK, Urls, New, File
  <2> QED
    BY <1>1, <2>4
<1>3. ASSUME NEW u \in New.list \ New.written,
             files' = [files EXCEPT !["urls_new"].written = @ \cup {u}]
      PROVE  \E header \in BOOLEAN, written \in Lists :
               FilesAre(Urls, Content(New.list, header, written))
  <2> DEFINE more == New.written \cup {u}
  <2>1. more \in Lists
    BY <1>1 DEF Lists
  <2>2. [New EXCEPT !.written = more] = Content(New.list, New.header, more)
    BY <1>1, <2>1, ContentExcept
  <2>3. files' = [files EXCEPT !["urls_new"] = Content(New.list, New.header, more)]
    BY <1>3, <2>2 DEF New
  <2>4. Content(New.list, New.header, more) \in Contents
    BY <1>1, <2>1, ContentTypes
  <2> HIDE DEF more
  <2>5. FilesAre(Urls, Content(New.list, New.header, more))
    BY <2>3, <2>4 DEF FilesAre, TypeInv, TypeOK, Urls, New, File
  <2> QED
    BY <1>1, <2>1, <2>5
<1> QED
  BY <1>1, <1>2, <1>3 DEF Write, New

LEMMA CloseFiles ==
  ASSUME TypeInv, NEW p \in Process, Close(p)
  PROVE  /\ New \in Contents
         /\ \E header \in BOOLEAN, written \in Lists :
              FilesAre(Urls, Content(New.list, header, written))
         /\ "flush" \notin Faults => FilesAre(Urls, New)
<1>1. New \in Contents /\ New.list \in Lists /\ New.written \in Lists /\ New.header = TRUE
  BY FileTypes DEF Close, Whole, Goto, TypeInv, NewIsThere, WritesNew, New, File
<1>2. PICK header \in IF "flush" \in Faults THEN BOOLEAN ELSE {TRUE},
           written \in IF "flush" \in Faults THEN Prefixes(New.list) ELSE {New.written} :
        files' = [files EXCEPT !["urls_new"] = Content(New.list, header, written)]
  BY DEF Close, New
<1>3. header \in BOOLEAN /\ written \in Lists
  BY <1>1, <1>2 DEF Prefixes, Lists
<1>6. Content(New.list, header, written) \in Contents
  BY <1>1, <1>3, ContentTypes
<1>7. FilesAre(Urls, Content(New.list, header, written))
  BY <1>2, <1>6 DEF FilesAre, TypeInv, TypeOK, Urls, New, File
<1>8. "flush" \notin Faults => Content(New.list, header, written) = New
  BY <1>1, <1>2, ContentFields
<1> QED
  BY <1>1, <1>3, <1>7, <1>8

LEMMA DeleteUrlsFiles ==
  ASSUME TypeInv, NEW p \in Process, DeleteUrls(p)
  PROVE  FilesAre(Urls, New) \/ FilesAre(Missing, New)
BY DEF DeleteUrls, FilesAre, TypeInv, TypeOK, Urls, New, File

LEMMA MoveNewFiles ==
  ASSUME TypeInv, NEW p \in Process, MoveNew(p)
  PROVE  FilesAre(New, Missing)
BY DEF MoveNew, FilesAre, TypeInv, TypeOK, Urls, New, File

\* What Save does.
LEMMA SaveTypes ==
  ASSUME TypeInv, NEW p \in Process, SaveStep(p)
  PROVE  TypeInv'
<1> USE DEF TypeInv, TypeOK, history
<1>1. CASE Save(p)
  <2>1. overlapped' \in BOOLEAN
    BY <1>1 DEF Save
  <2> QED
    BY <1>1, <2>1 DEF Save, Goto, PC, LoadPC, SavePC, NewIsThere, WritesNew, New
<1>2. CASE OpenNew(p)
  <2>1. files' \in [File -> Contents \cup {Missing}] /\ New'.exists
    BY <1>2, OpenNewFiles DEF FilesAre, Content
  <2>2. exposed' \in BOOLEAN
    BY <1>2 DEF OpenNew
  <2> QED
    BY <1>2, <2>1, <2>2 DEF OpenNew, Goto, PC, SavePC, NewIsThere
<1>3. CASE OpenFails(p)
  BY <1>3 DEF OpenFails, Goto, PC, LoadPC, SavePC, NewIsThere, WritesNew, New
<1>4. CASE Lock(p)
  <2>1. files' \in [File -> Contents \cup {Missing}] /\ New'.exists
    BY <1>4, LockFiles DEF FilesAre, Content
  <2> QED
    BY <1>4, <2>1 DEF Lock, Goto, PC, SavePC, NewIsThere
<1>5. CASE Write(p)
  <2>1. files' \in [File -> Contents \cup {Missing}] /\ New'.exists
    BY <1>5, WriteFiles DEF FilesAre, Content
  <2> QED
    BY <1>5, <2>1 DEF Write, Goto, PC, SavePC, NewIsThere
<1>6. CASE WriteFails(p)
  BY <1>6 DEF WriteFails, Goto, PC, LoadPC, SavePC, NewIsThere, WritesNew, New
<1>7. CASE Close(p)
  <2>1. files' \in [File -> Contents \cup {Missing}] /\ New'.exists
    BY <1>7, CloseFiles DEF FilesAre, Content
  <2> QED
    BY <1>7, <2>1 DEF Close, Goto, PC, SavePC, NewIsThere
<1>8. CASE DeleteUrls(p)
  <2>1. files' \in [File -> Contents \cup {Missing}] /\ New' = New
    BY <1>8, DeleteUrlsFiles DEF FilesAre
  <2> QED
    BY <1>8, <2>1 DEF DeleteUrls, Goto, PC, SavePC, NewIsThere, WritesNew
<1>9. CASE MoveNew(p)
  <2>1. files' \in [File -> Contents \cup {Missing}]
    BY <1>9, MoveNewFiles DEF FilesAre
  <2>2. \A q \in Process : ~WritesNew(q)'
    BY <1>9 DEF MoveNew, CanMove, Goto, WritesNew
  <2> QED
    BY <1>9, <2>1, <2>2 DEF MoveNew, Goto, PC, NewIsThere
<1>10. CASE MoveFails(p)
  BY <1>10 DEF MoveFails, Goto, PC, LoadPC, SavePC, NewIsThere, WritesNew, New
<1> QED
  BY <1>1, <1>2, <1>3, <1>4, <1>5, <1>6, <1>7, <1>8, <1>9, <1>10 DEF SaveStep

LEMMA TypeInvNext ==
  ASSUME TypeInv, [PersistenceNext]_vars
  PROVE  TypeInv'
<1>1. ASSUME NEW p \in Process, Crash(p) PROVE TypeInv'
  BY <1>1 DEF Crash, history, TypeInv, TypeOK, PC, NewIsThere, WritesNew, New
<1>2. CASE UNCHANGED vars
  BY <1>2 DEF vars, TypeInv, TypeOK, NewIsThere, WritesNew, New
<1> QED
  BY <1>1, <1>2, LoadTypes, ChangesTypes, SaveTypes DEF PersistenceNext

-----------------------------------------------------------------------------
(* What replaces urls: one saver at a time writes urls_new, all of it, and *)
(* only then deletes urls.                                                 *)

OneWriter == \A p, q \in Process : WritesNew(p) /\ WritesNew(q) => p = q

OneSaver == ~overlapped => \A p, q \in Process : Saving(p) /\ Saving(q) => p = q

\* Once closed, urls_new is whole, until it is renamed.
ClosedIsWhole ==
  ~overlapped => \A p \in Process : pc[p] \in {"delete", "move"} => Whole(New)

\* Who writes urls_new while urls is gone was noted for it.
WritingExposes ==
  ~overlapped =>
    \A p \in Process : WritesNew(p) /\ existed /\ ~Urls.exists => exposed

ReplaceInv ==
  /\ OneWriter /\ OneSaver /\ ClosedIsWhole /\ WritingExposes
  /\ UrlsIsWhole /\ CopyRemains

Moves(p, from, to) ==
  pc[p] = from /\ pc'[p] = to /\ \A q \in Process \ {p} : pc'[q] = pc[q]

LEMMA GotoMoves ==
  ASSUME TypeOK, NEW p \in Process, NEW from, NEW to, Goto(p, from, to)
  PROVE  Moves(p, from, to)
BY DEF Goto, Moves, TypeOK

\* A step that neither begins nor advances a save, and may end one.
Aside ==
  /\ Urls' = Urls /\ New' = New
  /\ overlapped' = overlapped /\ exposed' = exposed /\ existed' = existed
  /\ \A q \in Process : Saving(q)' => pc'[q] = pc[q]

LEMMA LoadAside ==
  ASSUME TypeInv, NEW p \in Process, Load(p)
  PROVE  Aside
<1> USE DEF TypeInv, TypeOK, history, Aside, Saving, SavePC, Goto, Urls, New, File
<1>1. CASE Start(p)
  BY <1>1 DEF Start
<1>2. CASE PathFileExists(p)
  BY <1>2 DEF PathFileExists
<1>3. CASE OpenUrls(p)
  BY <1>3 DEF OpenUrls
<1>4. CASE Parse(p)
  BY <1>4 DEF Parse
<1>5. CASE LoadBackup(p)
  BY <1>5 DEF LoadBackup
<1>6. CASE CopyFile(p)
  BY <1>6 DEF CopyFile
<1>7. CASE CopyFileEnds(p)
  BY <1>7 DEF CopyFileEnds
<1> QED
  BY <1>1, <1>2, <1>3, <1>4, <1>5, <1>6, <1>7 DEF Load

LEMMA ChangesAside ==
  ASSUME TypeInv, NEW p \in Process, Changes(p)
  PROVE  Aside
<1> USE DEF TypeInv, TypeOK, history, Aside, Saving, SavePC, Goto, Urls, New
<1>1. ASSUME NEW u \in Project, AddProject(p, u) PROVE Aside
  BY <1>1 DEF AddProject
<1>2. ASSUME NEW u \in Project, CheckAdds(p, u) PROVE Aside
  BY <1>2 DEF CheckAdds
<1>3. ASSUME NEW S \in Lists, RemoveProjects(p, S) PROVE Aside
  BY <1>3 DEF RemoveProjects
<1>4. CASE SaveRemoved(p)
  BY <1>4 DEF SaveRemoved
<1>5. CASE SaveInfo(p)
  BY <1>5 DEF SaveInfo
<1> QED
  BY <1>1, <1>2, <1>3, <1>4, <1>5 DEF Changes

LEMMA EndsAside ==
  ASSUME TypeInv, NEW p \in Process,
         OpenFails(p) \/ WriteFails(p) \/ MoveFails(p) \/ Crash(p) \/ UNCHANGED vars
  PROVE  Aside
<1> USE DEF TypeInv, TypeOK, history, Aside, Saving, SavePC, Goto, Urls, New
<1>1. CASE OpenFails(p)
  BY <1>1 DEF OpenFails
<1>2. CASE WriteFails(p)
  BY <1>2 DEF WriteFails
<1>3. CASE MoveFails(p)
  BY <1>3 DEF MoveFails
<1>4. CASE Crash(p)
  BY <1>4 DEF Crash
<1>5. CASE UNCHANGED vars
  BY <1>5 DEF vars
<1> QED
  BY <1>1, <1>2, <1>3, <1>4, <1>5

LEMMA AsideKeeps ==
  ASSUME ReplaceInv, Aside
  PROVE  ReplaceInv'
<1> USE DEF ReplaceInv, Aside
<1>1. OneWriter'
  BY DEF OneWriter, WritesNew, Saving, SavePC
<1>2. OneSaver'
  BY DEF OneSaver, Saving
<1>3. ClosedIsWhole'
  BY DEF ClosedIsWhole, Saving, SavePC, Whole
<1>4. WritingExposes'
  BY DEF WritingExposes, WritesNew, Saving, SavePC
<1>5. UrlsIsWhole'
  BY DEF UrlsIsWhole, Whole, Urls
<1>6. CopyRemains'
  BY DEF CopyRemains, Whole, Urls, New
<1> QED
  BY <1>1, <1>2, <1>3, <1>4, <1>5, <1>6

LEMMA ReplaceInvInit == PersistenceInit => ReplaceInv
BY DEF PersistenceInit, ReplaceInv, OneWriter, OneSaver, ClosedIsWhole, WritingExposes,
       UrlsIsWhole, CopyRemains, WritesNew, Saving, SavePC, Missing, File

LEMMA SaveKeeps ==
  ASSUME TypeInv, ReplaceInv, NEW p \in Process, Save(p)
  PROVE  ReplaceInv'
<1> DEFINE to == IF Skips(p) THEN "idle" ELSE "open"
<1>1. Moves(p, "save", to) /\ Urls' = Urls /\ New' = New /\ UNCHANGED <<exposed, existed>>
  BY GotoMoves DEF Save, TypeInv, Urls, New
<1>2. \A q \in Process : (WritesNew(q)' <=> WritesNew(q)) /\ (overlapped => overlapped')
  BY <1>1 DEF Moves, WritesNew, Save
<1>3. to \in {"idle", "open"}
  OBVIOUS
<1>4. ~overlapped' => ~overlapped
  BY DEF Save
<1>5. OneSaver'
  <2>1. ~overlapped' /\ to = "open" => \A q \in Process : ~Saving(q)
    BY DEF Save
  <2> QED
    BY <1>1, <1>3, <1>4, <2>1 DEF ReplaceInv, OneSaver, Moves, Saving, SavePC
<1>6. ClosedIsWhole'
  BY <1>1, <1>3, <1>4 DEF ReplaceInv, ClosedIsWhole, Moves, Whole
<1> QED
  BY <1>1, <1>2, <1>4, <1>5, <1>6
     DEF ReplaceInv, OneWriter, WritingExposes, UrlsIsWhole, CopyRemains, Whole, Urls, New

\* While p alone saves, the others neither write nor hold urls_new closed.
LEMMA OthersDoNot ==
  ASSUME ReplaceInv, ~overlapped, NEW p \in Process, Saving(p)
  PROVE  \A q \in Process \ {p} : ~Saving(q) /\ ~WritesNew(q) /\ pc[q] \notin {"delete", "move"}
BY DEF ReplaceInv, OneSaver, Saving, SavePC, WritesNew

\* What a step of a save must see to, by where it goes.
LEMMA StepKeeps ==
  ASSUME ReplaceInv, NEW p \in Process, NEW from \in SavePC, NEW to \in SavePC \cup {"idle"},
         Moves(p, from, to), overlapped' = overlapped,
         \A q \in Process : WritesNew(q) /\ q # p => to \notin {"lock", "write"},
         ~overlapped /\ to \in {"delete", "move"} => Whole(New)',
         ~overlapped /\ to \in {"lock", "write"} /\ existed' /\ ~Urls'.exists => exposed',
         ~overlapped /\ Urls'.exists => Whole(Urls)',
         ~overlapped /\ existed' /\ ~Urls'.exists /\ ~exposed' => Whole(New)'
  PROVE  ReplaceInv'
<1>1. OneWriter'
  BY DEF ReplaceInv, OneWriter, WritesNew, Moves
<1>2. OneSaver'
  BY DEF ReplaceInv, OneSaver, Saving, SavePC, Moves
<1>3. ASSUME ~overlapped PROVE \A q \in Process \ {p} : pc'[q] = pc[q] /\ ~Saving(q)
  BY <1>3, OthersDoNot DEF Moves, Saving
<1>4. ClosedIsWhole'
  BY <1>3 DEF ClosedIsWhole, Saving, SavePC, Moves
<1>5. WritingExposes'
  BY <1>3 DEF WritingExposes, WritesNew, Saving, SavePC, Moves
<1>6. UrlsIsWhole' /\ CopyRemains'
  BY DEF UrlsIsWhole, CopyRemains, Urls, New
<1> QED
  BY <1>1, <1>2, <1>4, <1>5, <1>6 DEF ReplaceInv

LEMMA OpenNewKeeps ==
  ASSUME TypeInv, ReplaceInv, NEW p \in Process, OpenNew(p)
  PROVE  ReplaceInv'
<1>1. Moves(p, "open", "lock") /\ Urls' = Urls /\ UNCHANGED <<overlapped, existed>>
  BY GotoMoves, OpenNewFiles DEF OpenNew, TypeInv, FilesAre
<1>2. ~Urls.exists => exposed'
  BY DEF OpenNew, Urls
<1>3. \A q \in Process : ~WritesNew(q)
  BY DEF OpenNew
<1>4. ~overlapped /\ Urls.exists => Whole(Urls)
  BY DEF ReplaceInv, UrlsIsWhole, Urls
<1> QED
  BY <1>1, <1>2, <1>3, <1>4, StepKeeps DEF SavePC, Whole

LEMMA WritingKeeps ==
  ASSUME TypeInv, ReplaceInv, NEW p \in Process, NEW from, WritesNew(p), Moves(p, from, "write"),
         Urls' = Urls, UNCHANGED <<overlapped, exposed, existed>>
  PROVE  ReplaceInv'
<1>1. from \in SavePC
  BY DEF WritesNew, Moves, SavePC
<1>2. \A q \in Process : WritesNew(q) => q = p
  BY DEF ReplaceInv, OneWriter
<1>3. ~overlapped /\ existed /\ ~Urls.exists => exposed
  BY DEF ReplaceInv, WritingExposes
<1>4. ~overlapped /\ Urls.exists => Whole(Urls)
  BY DEF ReplaceInv, UrlsIsWhole, Urls
<1> QED
  BY <1>1, <1>2, <1>3, <1>4, StepKeeps DEF SavePC, Whole

LEMMA CloseKeeps ==
  ASSUME TypeInv, ReplaceInv, "flush" \notin Faults, NEW p \in Process, Close(p)
  PROVE  ReplaceInv'
<1>1. Moves(p, "write", "delete") /\ Urls' = Urls /\ New' = New /\ Whole(New)
  BY GotoMoves, CloseFiles DEF Close, TypeInv, FilesAre, New
<1>2. UNCHANGED <<overlapped, exposed, existed>>
  BY DEF Close, history
<1>3. ~overlapped /\ Urls.exists => Whole(Urls)
  BY DEF ReplaceInv, UrlsIsWhole, Urls
<1> QED
  BY <1>1, <1>2, <1>3, StepKeeps DEF SavePC, Whole

LEMMA DeleteUrlsKeeps ==
  ASSUME TypeInv, ReplaceInv, NEW p \in Process, DeleteUrls(p)
  PROVE  ReplaceInv'
<1>1. Moves(p, "delete", "move") /\ New' = New
  BY GotoMoves, DeleteUrlsFiles DEF DeleteUrls, TypeInv, FilesAre
<1>2. Urls' = Urls \/ ~Urls'.exists
  BY DeleteUrlsFiles DEF FilesAre, Missing
<1>3. UNCHANGED <<overlapped, exposed, existed>>
  BY DEF DeleteUrls, history
<1>4. ~overlapped => Whole(New)
  BY <1>1 DEF ReplaceInv, ClosedIsWhole, Moves
<1>5. ~overlapped /\ Urls.exists => Whole(Urls)
  BY DEF ReplaceInv, UrlsIsWhole, Urls
<1> QED
  BY <1>1, <1>2, <1>3, <1>4, <1>5, StepKeeps DEF SavePC, Whole

LEMMA MoveNewKeeps ==
  ASSUME TypeInv, ReplaceInv, NEW p \in Process, MoveNew(p)
  PROVE  ReplaceInv'
<1>1. Moves(p, "move", "idle") /\ Urls' = New /\ New.exists
  BY GotoMoves, MoveNewFiles DEF MoveNew, CanMove, TypeInv, FilesAre, New
<1>2. overlapped' = overlapped
  BY DEF MoveNew
<1>3. ~overlapped => Whole(New)
  BY <1>1 DEF ReplaceInv, ClosedIsWhole, Moves
<1> QED
  BY <1>1, <1>2, <1>3, StepKeeps DEF SavePC, Whole

LEMMA ReplaceInvNext ==
  ASSUME "flush" \notin Faults, TypeInv, ReplaceInv, [PersistenceNext]_vars
  PROVE  ReplaceInv'
<1>1. ASSUME NEW p \in Process, Lock(p) PROVE ReplaceInv'
  <2>1. Moves(p, "lock", "write") /\ WritesNew(p)
    BY <1>1, GotoMoves DEF Lock, TypeInv, WritesNew, Moves
  <2>2. Urls' = Urls /\ UNCHANGED <<overlapped, exposed, existed>>
    BY <1>1, LockFiles DEF Lock, FilesAre, history
  <2> QED
    BY <2>1, <2>2, WritingKeeps
<1>2. ASSUME NEW p \in Process, Write(p) PROVE ReplaceInv'
  <2>1. Moves(p, "write", "write") /\ WritesNew(p)
    BY <1>2, GotoMoves DEF Write, TypeInv, WritesNew, Moves
  <2>2. Urls' = Urls /\ UNCHANGED <<overlapped, exposed, existed>>
    BY <1>2, WriteFiles DEF Write, FilesAre, history
  <2> QED
    BY <2>1, <2>2, WritingKeeps
<1>3. ASSUME NEW p \in Process, SaveStep(p) PROVE ReplaceInv'
  BY <1>1, <1>2, <1>3, EndsAside, AsideKeeps, SaveKeeps, OpenNewKeeps, CloseKeeps,
     DeleteUrlsKeeps, MoveNewKeeps DEF SaveStep
<1>4. CASE UNCHANGED vars
  BY <1>4 DEF vars, ReplaceInv, OneWriter, OneSaver, ClosedIsWhole, WritingExposes,
             UrlsIsWhole, CopyRemains, WritesNew, Saving, Whole, Urls, New
<1> QED
  BY <1>3, <1>4, LoadAside, ChangesAside, EndsAside, AsideKeeps DEF PersistenceNext

\* Whatever else fails and wherever a process ends, urls is whole (the save through
\* urls_new in CUrlInfos::Save), if what fclose writes is not lost.
THEOREM PersistenceUrlsIsWhole ==
  ASSUME "flush" \notin Faults
  PROVE  PersistenceSpec => []UrlsIsWhole
<1>1. PersistenceInit => TypeInv /\ ReplaceInv
  BY TypeInvInit, ReplaceInvInit
<1>2. TypeInv /\ ReplaceInv /\ [PersistenceNext]_vars => (TypeInv /\ ReplaceInv)'
  BY TypeInvNext, ReplaceInvNext
<1>3. ReplaceInv => UrlsIsWhole
  BY DEF ReplaceInv
<1> QED
  BY <1>1, <1>2, <1>3, PTL DEF PersistenceSpec

\* While urls is gone urls_new is a whole copy (the order of DeleteFile and MoveFile
\* in CUrlInfos::Save), until another save begins to write it.
THEOREM PersistenceCopyRemains ==
  ASSUME "flush" \notin Faults
  PROVE  PersistenceSpec => []CopyRemains
<1>1. PersistenceInit => TypeInv /\ ReplaceInv
  BY TypeInvInit, ReplaceInvInit
<1>2. TypeInv /\ ReplaceInv /\ [PersistenceNext]_vars => (TypeInv /\ ReplaceInv)'
  BY TypeInvNext, ReplaceInvNext
<1>3. ReplaceInv => CopyRemains
  BY DEF ReplaceInv
<1> QED
  BY <1>1, <1>2, <1>3, PTL DEF PersistenceSpec

-----------------------------------------------------------------------------
(* An empty list is one the user emptied: what Save writes when it is      *)
(* forced to, or what became of a list that was loaded.                    *)

\* A save of an empty list is under way only if the user emptied a list.
EmptyIsMeant ==
  \A p \in Process :
    /\ pc[p] \in {"removed", "open", "lock"} /\ infos[p] = {} => emptied
    /\ pc[p] = "save" /\ force[p] => emptied

NewIsMeant ==
  New.exists /\ New.list = {} /\ (Whole(New) \/ \E p \in Process : pc[p] = "write") => emptied

MeantInv == EmptyIsMeant /\ NewIsMeant /\ EmptiedByUser

LEMMA MeantInvInit == PersistenceInit => MeantInv
BY DEF PersistenceInit, MeantInv, EmptyIsMeant, NewIsMeant, EmptiedByUser, Missing, Whole, New, File

LEMMA EmptyIsMeantNext ==
  ASSUME TypeInv, EmptyIsMeant, [PersistenceNext]_vars
  PROVE  EmptyIsMeant'
<1> USE DEF TypeInv, TypeOK, EmptyIsMeant, history
<1>1. ASSUME NEW p \in Process, Load(p) PROVE EmptyIsMeant'
  <2>1. CASE Start(p)
    BY <2>1 DEF Start, Goto
  <2>2. CASE PathFileExists(p)
    BY <2>2 DEF PathFileExists, Goto
  <2>3. CASE OpenUrls(p)
    BY <2>3 DEF OpenUrls, Goto
  <2>4. CASE Parse(p)
    BY <2>4 DEF Parse, Goto
  <2>5. CASE LoadBackup(p)
    BY <2>5 DEF LoadBackup, Goto
  <2>6. CASE CopyFile(p)
    BY <2>6 DEF CopyFile, Goto
  <2>7. CASE CopyFileEnds(p)
    BY <2>7 DEF CopyFileEnds, Goto
  <2> QED
    BY <1>1, <2>1, <2>2, <2>3, <2>4, <2>5, <2>6, <2>7 DEF Load
<1>2. ASSUME NEW p \in Process, Changes(p) PROVE EmptyIsMeant'
  <2>1. ASSUME NEW u \in Project, AddProject(p, u) PROVE EmptyIsMeant'
    BY <2>1 DEF AddProject, Goto
  <2>2. ASSUME NEW u \in Project, CheckAdds(p, u) PROVE EmptyIsMeant'
    BY <2>2 DEF CheckAdds
  <2>3. ASSUME NEW S \in Lists, RemoveProjects(p, S) PROVE EmptyIsMeant'
    BY <2>3 DEF RemoveProjects, Goto
  <2>4. CASE SaveRemoved(p)
    BY <2>4 DEF SaveRemoved, Goto
  <2>5. CASE SaveInfo(p)
    BY <2>5 DEF SaveInfo, Goto
  <2> QED
    BY <1>2, <2>1, <2>2, <2>3, <2>4, <2>5 DEF Changes
<1>3. ASSUME NEW p \in Process, SaveStep(p) PROVE EmptyIsMeant'
  <2>1. CASE Save(p)
    BY <2>1 DEF Save, Skips, Goto
  <2>2. CASE OpenNew(p)
    BY <2>2 DEF OpenNew, Goto
  <2>3. CASE OpenFails(p)
    BY <2>3 DEF OpenFails, Goto
  <2>4. CASE Lock(p)
    BY <2>4 DEF Lock, Goto
  <2>5. CASE Write(p)
    BY <2>5 DEF Write, Goto
  <2>6. CASE WriteFails(p)
    BY <2>6 DEF WriteFails, Goto
  <2>7. CASE Close(p)
    BY <2>7 DEF Close, Goto
  <2>8. CASE DeleteUrls(p)
    BY <2>8 DEF DeleteUrls, Goto
  <2>9. CASE MoveNew(p)
    BY <2>9 DEF MoveNew, Goto
  <2>10. CASE MoveFails(p)
    BY <2>10 DEF MoveFails, Goto
  <2> QED
    BY <1>3, <2>1, <2>2, <2>3, <2>4, <2>5, <2>6, <2>7, <2>8, <2>9, <2>10 DEF SaveStep
<1>4. ASSUME NEW p \in Process, Crash(p) PROVE EmptyIsMeant'
  BY <1>4 DEF Crash
<1>5. CASE UNCHANGED vars
  BY <1>5 DEF vars
<1> QED
  BY <1>1, <1>2, <1>3, <1>4, <1>5 DEF PersistenceNext

\* What is meant stays meant while the files and who writes stay as they are.
LEMMA SameIsMeant ==
  ASSUME NewIsMeant, EmptiedByUser, Urls' = Urls, New' = New, emptied => emptied',
         \A q \in Process : pc'[q] = "write" => pc[q] = "write"
  PROVE  NewIsMeant' /\ EmptiedByUser'
BY DEF NewIsMeant, EmptiedByUser, Whole, Urls

LEMMA NewIsMeantNext ==
  ASSUME TypeInv, MeantInv, [PersistenceNext]_vars
  PROVE  NewIsMeant' /\ EmptiedByUser'
<1> USE DEF MeantInv
<1>1. emptied => emptied'
  <2>1. ASSUME NEW p \in Process, Load(p) \/ SaveStep(p) \/ Crash(p) PROVE emptied' = emptied
    BY <2>1 DEF Load, Start, PathFileExists, OpenUrls, Parse, LoadBackup, CopyFile, CopyFileEnds,
       SaveStep, Save, OpenNew, OpenFails, Lock, Write, WriteFails, Close, DeleteUrls, MoveNew,
       MoveFails, Crash, history
  <2>2. ASSUME NEW p \in Process, Changes(p) PROVE emptied => emptied'
    BY <2>2 DEF Changes, AddProject, CheckAdds, RemoveProjects, SaveRemoved, SaveInfo, history
  <2> QED
    BY <2>1, <2>2 DEF PersistenceNext, vars
<1>2. CASE Aside
  BY <1>1, <1>2, SameIsMeant DEF Aside, Saving, SavePC
<1>3. ASSUME NEW p \in Process, Save(p) PROVE NewIsMeant' /\ EmptiedByUser'
  <2>1. Urls' = Urls /\ New' = New
    BY <1>3 DEF Save, Urls, New
  <2>2. \A q \in Process : pc'[q] = "write" => pc[q] = "write"
    BY <1>3 DEF Save, Goto, TypeInv, TypeOK
  <2> QED
    BY <1>1, <2>1, <2>2, SameIsMeant
<1>4. ASSUME NEW p \in Process, OpenNew(p) PROVE NewIsMeant' /\ EmptiedByUser'
  <2>1. Moves(p, "open", "lock") /\ \A q \in Process : ~WritesNew(q)
    BY <1>4, GotoMoves DEF OpenNew, TypeInv
  <2>2. \A q \in Process : pc'[q] # "write"
    BY <2>1 DEF Moves, WritesNew
  <2>3. Urls' = Urls /\ ~Whole(New')
    BY <1>4, OpenNewFiles DEF FilesAre, Content, Whole
  <2> QED
    BY <1>1, <2>2, <2>3 DEF NewIsMeant, EmptiedByUser, Whole, Urls
<1>5. ASSUME NEW p \in Process, Lock(p) PROVE NewIsMeant' /\ EmptiedByUser'
  <2>1. Urls' = Urls /\ New'.list = infos[p]
    BY <1>5, LockFiles DEF FilesAre, Content
  <2>2. infos[p] = {} => emptied
    BY <1>5 DEF Lock, Goto, EmptyIsMeant
  <2> QED
    BY <1>1, <2>1, <2>2 DEF NewIsMeant, EmptiedByUser, Whole, Urls
<1>6. ASSUME NEW p \in Process, Write(p) \/ Close(p) PROVE NewIsMeant' /\ EmptiedByUser'
  <2>1. Urls' = Urls /\ New.exists /\ New'.list = New.list
    <3>1. New \in Contents
      BY <1>6, WriteFiles, CloseFiles
    <3>2. PICK header, written : FilesAre(Urls, Content(New.list, header, written))
      BY <1>6, WriteFiles, CloseFiles
    <3>3. Content(New.list, header, written).list = New.list
      BY DEF Content
    <3>4. New.exists
      BY <3>1 DEF Contents
    <3> QED
      BY <3>2, <3>3, <3>4 DEF FilesAre
  <2>2. New.list = {} => emptied
    BY <1>6, <2>1 DEF Write, Close, Goto, NewIsMeant
  <2> QED
    BY <1>1, <2>1, <2>2 DEF NewIsMeant, EmptiedByUser, Whole, Urls
<1>7. ASSUME NEW p \in Process, DeleteUrls(p) PROVE NewIsMeant' /\ EmptiedByUser'
  <2>1. New' = New /\ (Urls' = Urls \/ ~Urls'.exists)
    BY <1>7, DeleteUrlsFiles DEF FilesAre, Missing
  <2>2. \A q \in Process : pc'[q] = "write" => pc[q] = "write"
    BY <1>7 DEF DeleteUrls, Goto, TypeInv, TypeOK
  <2> QED
    BY <1>1, <2>1, <2>2 DEF NewIsMeant, EmptiedByUser, Whole, Urls
<1>8. ASSUME NEW p \in Process, MoveNew(p) PROVE NewIsMeant' /\ EmptiedByUser'
  <2>1. Urls' = New /\ ~New'.exists
    BY <1>8, MoveNewFiles DEF FilesAre, Missing
  <2> QED
    BY <1>1, <2>1 DEF NewIsMeant, EmptiedByUser, Whole, Urls
<1>9. ASSUME NEW p \in Process, SaveStep(p) PROVE NewIsMeant' /\ EmptiedByUser'
  BY <1>2, <1>3, <1>4, <1>5, <1>6, <1>7, <1>8, <1>9, EndsAside DEF SaveStep
<1>10. CASE UNCHANGED vars
  BY <1>10 DEF vars, NewIsMeant, EmptiedByUser, Whole, New
<1> QED
  BY <1>2, <1>9, <1>10, LoadAside, ChangesAside, EndsAside DEF PersistenceNext

\* Whatever fails, and however many processes save, an empty list in urls is one the
\* user emptied ("empty project list: don't save it!" in CUrlInfos::Save).
THEOREM PersistenceEmptiedByUser == PersistenceSpec => []EmptiedByUser
<1>1. PersistenceInit => TypeInv /\ MeantInv
  BY TypeInvInit, MeantInvInit
<1>2. TypeInv /\ MeantInv /\ [PersistenceNext]_vars => (TypeInv /\ MeantInv)'
  BY TypeInvNext, EmptyIsMeantNext, NewIsMeantNext DEF MeantInv
<1>3. MeantInv => EmptiedByUser
  BY DEF MeantInv
<1> QED
  BY <1>1, <1>2, <1>3, PTL DEF PersistenceSpec

-----------------------------------------------------------------------------
(* Persistence implements AtomicList.                                      *)

Takes(p) == pc[p] \in {"write", "delete", "move"}

LEMMA NothingTaken == (\A q \in Process : ~Takes(q)) => Taken = <<>>
BY DEF Taken, Takes

LEMMA NewTaken ==
  ASSUME TypeInv, ReplaceInv, ~overlapped, NEW p \in Process, Takes(p)
  PROVE  New.exists /\ Taken = <<New.list>>
<1>1. New.exists
  BY DEF Takes, TypeInv, NewIsThere, WritesNew, ReplaceInv, ClosedIsWhole, Whole
<1> QED
  BY <1>1 DEF Taken, Takes, New

\* The steps of AtomicList, from what happens to urls and to what is taken.
Implements == [A!ListNext]_(A!listVars)

LEMMA AsideImplements ==
  ASSUME ~overlapped, Aside
  PROVE  Implements
<1>1. Stored(Urls)' = Stored(Urls)
  BY DEF Aside, Stored, Whole
<1>2. Taken' = Taken \/ Taken' = <<>>
  <2>1. \A q \in Process : Takes(q)' => Takes(q)
    BY DEF Aside, Takes, Saving, SavePC
  <2> QED
    BY <2>1 DEF Taken, Takes, Aside, New
<1> QED
  BY <1>1, <1>2
     DEF Implements, Aside, Urls, A!ListNext, A!ListStep, A!GiveUp, A!listVars

LEMMA SaveImplements ==
  ASSUME TypeInv, NEW p \in Process, Save(p)
  PROVE  Implements
<1>1. Stored(Urls)' = Stored(Urls) /\ New' = New
  BY DEF Save, Stored, Whole, Urls, New
<1>2. Taken' = Taken
  <2>1. \A q \in Process : Takes(q)' <=> Takes(q)
    BY DEF Save, Goto, Takes, TypeInv, TypeOK
  <2> QED
    BY <1>1, <2>1 DEF Taken, Takes, New
<1>3. overlapped' = overlapped \/ overlapped'
  BY DEF Save, TypeInv, TypeOK
<1> QED
  BY <1>1, <1>2, <1>3 DEF Implements, Urls, A!ListNext, A!listVars

\* The steps of the only saver.
LEMMA SaverImplements ==
  ASSUME "flush" \notin Faults, TypeInv, ReplaceInv, ~overlapped, NEW p \in Process,
         OpenNew(p) \/ Lock(p) \/ Write(p) \/ Close(p) \/ DeleteUrls(p) \/ MoveNew(p)
  PROVE  Implements
<1> USE DEF Implements, A!ListNext, A!ListStep, A!listVars
<1>1. ~overlapped' /\ overlapped' = overlapped
  <2>1. overlapped' = overlapped
    BY DEF OpenNew, Lock, Write, Close, DeleteUrls, MoveNew, history
  <2> QED
    BY <2>1
<1>2. Saving(p)
  BY DEF OpenNew, Lock, Write, Close, DeleteUrls, MoveNew, Goto, Saving, SavePC
<1>3. \A q \in Process \ {p} : ~Takes(q) /\ pc'[q] = pc[q]
  <2>1. \A q \in Process \ {p} : ~Takes(q)
    BY <1>2, OthersDoNot DEF Takes, Saving, SavePC
  <2>2. \A q \in Process \ {p} : pc'[q] = pc[q]
    BY DEF OpenNew, Lock, Write, Close, DeleteUrls, MoveNew, Goto, TypeInv, TypeOK
  <2> QED
    BY <2>1, <2>2
<1>4. CASE OpenNew(p)
  <2>1. Moves(p, "open", "lock") /\ Urls' = Urls
    BY <1>4, GotoMoves, OpenNewFiles DEF OpenNew, TypeInv, FilesAre
  <2>2. Taken = <<>> /\ Taken' = <<>>
    BY <1>3, <2>1 DEF Taken, Takes, Moves
  <2> QED
    BY <1>1, <2>1, <2>2 DEF Stored, Whole, Urls
<1>5. CASE Lock(p)
  <2>1. Moves(p, "lock", "write") /\ Urls' = Urls /\ New' = Content(infos[p], FALSE, {})
    BY <1>5, GotoMoves, LockFiles DEF Lock, TypeInv, FilesAre
  <2>2. Taken = <<>>
    BY <1>3, <2>1 DEF Taken, Takes, Moves
  <2>3. Taken' = <<infos[p]>> /\ infos[p] \in Lists
    BY <2>1 DEF Taken, Moves, New, Content, TypeInv, TypeOK
  <2> QED
    BY <1>1, <2>1, <2>2, <2>3 DEF Stored, Whole, Urls, A!Take
<1>6. CASE Write(p) \/ Close(p)
  <2>1. Takes(p) /\ Takes(p)'
    BY <1>6 DEF Write, Close, Takes, Goto, TypeInv, TypeOK
  <2>2. PICK header, written : FilesAre(Urls, Content(New.list, header, written))
    BY <1>6, WriteFiles, CloseFiles
  <2>3. New'.exists /\ New'.list = New.list /\ Urls' = Urls
    BY <2>2 DEF FilesAre, Content
  <2>4. Taken' = <<New.list>>
    BY <2>1, <2>3 DEF Taken, Takes, New
  <2>5. Taken = <<New.list>>
    BY <2>1, NewTaken
  <2> QED
    BY <1>1, <2>3, <2>4, <2>5 DEF Stored, Whole, Urls
<1>7. CASE DeleteUrls(p)
  <2>1. Takes(p) /\ Takes(p)'
    BY <1>7 DEF DeleteUrls, Takes, Goto, TypeInv, TypeOK
  <2>2. Taken = <<New.list>> /\ New.exists
    BY <2>1, NewTaken
  <2>3. New' = New /\ (Urls' = Urls \/ Urls' = Missing)
    BY <1>7, DeleteUrlsFiles DEF FilesAre
  <2>4. Taken' = Taken
    BY <2>1, <2>2, <2>3 DEF Taken, Takes, New
  <2>5. Stored(Urls)' = Stored(Urls) \/ Stored(Urls)' = <<>>
    BY <2>3 DEF Stored, Whole, Missing
  <2>6. Taken # <<>>
    BY <2>2
  <2> QED
    BY <1>1, <2>4, <2>5, <2>6 DEF Urls, A!Lose
<1>8. CASE MoveNew(p)
  <2>1. Moves(p, "move", "idle") /\ Urls' = New /\ Whole(New)
    BY <1>8, GotoMoves, MoveNewFiles
       DEF MoveNew, TypeInv, FilesAre, ReplaceInv, ClosedIsWhole, Goto
  <2>2. Taken = <<New.list>>
    BY <2>1, NewTaken DEF Takes, Moves
  <2>3. Taken' = <<>>
    BY <1>3, <2>1 DEF Taken, Takes, Moves
  <2>4. Stored(Urls)' = <<New.list>>
    BY <2>1 DEF Stored, Whole
  <2>5. Taken # <<>>
    BY <2>2
  <2> QED
    BY <1>1, <2>2, <2>3, <2>4, <2>5 DEF Urls, A!Put
<1> QED
  BY <1>4, <1>5, <1>6, <1>7, <1>8

LEMMA OverlapLasts == overlapped /\ [PersistenceNext]_vars => overlapped'
<1> SUFFICES ASSUME overlapped, [PersistenceNext]_vars PROVE overlapped'
  OBVIOUS
<1> USE DEF history
<1>1. ASSUME NEW p \in Process, Load(p) \/ Changes(p) \/ Crash(p) PROVE overlapped'
  BY <1>1 DEF Load, Start, PathFileExists, OpenUrls, Parse, LoadBackup, CopyFile, CopyFileEnds,
     Changes, AddProject, CheckAdds, RemoveProjects, SaveRemoved, SaveInfo, Crash
<1>2. ASSUME NEW p \in Process, SaveStep(p) PROVE overlapped'
  BY <1>2 DEF SaveStep, Save, OpenNew, OpenFails, Lock, Write, WriteFails, Close, DeleteUrls,
     MoveNew, MoveFails
<1> QED
  BY <1>1, <1>2 DEF PersistenceNext, vars

\* Saves that do not overlap replace the list in urls as a whole or not at all: every
\* step of Persistence is a step of AtomicList or none (the rename in CUrlInfos::Save).
THEOREM PersistenceImplementsAtomicList ==
  ASSUME "flush" \notin Faults
  PROVE  PersistenceSpec => ImplementsAtomicList
<1>1. PersistenceInit => TypeInv /\ ReplaceInv
  BY TypeInvInit, ReplaceInvInit
<1>2. TypeInv /\ ReplaceInv /\ [PersistenceNext]_vars => (TypeInv /\ ReplaceInv)'
  BY TypeInvNext, ReplaceInvNext
<1>3. PersistenceInit => A!ListInit
  BY DEF PersistenceInit, A!ListInit, Stored, Taken, Missing, File
<1>4. TypeInv /\ ReplaceInv /\ [PersistenceNext]_vars => [A!ListNext]_(A!listVars)
  <2> SUFFICES ASSUME TypeInv, ReplaceInv, [PersistenceNext]_vars PROVE Implements
    BY DEF Implements
  <2>1. CASE overlapped
    BY <2>1, OverlapLasts DEF Implements, A!ListNext
  <2>2. CASE ~overlapped
    <3>1. ASSUME NEW p \in Process, SaveStep(p) PROVE Implements
      BY <2>2, <3>1, SaveImplements, SaverImplements, EndsAside, AsideImplements DEF SaveStep
    <3>2. CASE UNCHANGED vars
      BY <3>2 DEF vars, Implements, A!listVars, Stored, Taken, Whole
    <3> QED
      BY <2>2, <3>1, <3>2, LoadAside, ChangesAside, EndsAside, AsideImplements
         DEF PersistenceNext
  <2> QED
    BY <2>1, <2>2
<1> QED
  BY <1>1, <1>2, <1>3, <1>4, PTL DEF PersistenceSpec, ImplementsAtomicList, A!ListSpec

=============================================================================
