---------------------------- MODULE Persistence -----------------------------
(***************************************************************************)
(* How the list of projects is kept in files (UrlInfo.cpp): CUrlInfos::Save*)
(* writes "urls_new", deletes "urls" and renames the one to the other;     *)
(* CUrlInfos::Load reads "urls" and copies it to "urls_backup", from which *)
(* it loads when "urls" cannot be read.  The process may end between any   *)
(* two of these steps, and most of the calls may fail.  There may be two   *)
(* processes: one started with /task ignores that another runs.            *)
(*                                                                         *)
(* Of a project only the key is of interest here; keys are numbers, in     *)
(* their order.  A file is written and read in that order.                 *)
(***************************************************************************)
EXTENDS Naturals

CONSTANTS
  Project,  \* the keys of the projects
  Process,  \* the processes that may run
  Faults    \* the calls that may fail for no reason of the program's own

AllFaults == {"open", "write", "flush", "delete", "move", "read"}

ASSUME PersistenceAssumption ==
  /\ Project \subseteq Nat
  /\ Faults \subseteq AllFaults

VARIABLES
  files,      \* by name: the three files
  infos,      \* by process: the projects in memory
  pc,         \* by process: where the user-interface thread is
  force,      \* by process: the argument bForce of Save
  overlapped, \* history: a save began while another process was at one
  exposed,    \* history: urls_new was written anew although urls was gone
  existed,    \* history: there was a file urls
  emptied     \* history: the user removed the last project of a list

vars == <<files, infos, pc, force, overlapped, exposed, existed, emptied>>

File == {"urls", "urls_new", "urls_backup"}

Lists == SUBSET Project

(* A file that exists is to hold the projects list; those in written, the  *)
(* first ones in the order of keys, have been written, after the header.   *)
Missing == [exists |-> FALSE]
Content(list, header, written) ==
  [exists |-> TRUE, list |-> list, header |-> header, written |-> written]
Contents == [exists : {TRUE}, list : Lists, header : BOOLEAN, written : Lists]

Whole(file) == file.exists /\ file.header /\ file.written = file.list

Prefixes(list) == {S \in SUBSET list : \A a \in S, b \in list \ S : a < b}

LoadPC == {"load", "open urls", "parse", "copy", "copying", "load backup"}
SavePC == {"open", "lock", "write", "delete", "move"}
PC     == {"off", "idle", "removed", "save"} \cup LoadPC \cup SavePC

Saving(p) == pc[p] \in SavePC

\* Handles that keep others from deleting, renaming or opening a file.
WritesNew(p) == pc[p] \in {"lock", "write"}
ReadsUrls(p) == pc[p] \in {"parse", "copying"}

-----------------------------------------------------------------------------
PersistenceInit ==
  /\ files = [f \in File |-> Missing]
  /\ infos = [p \in Process |-> {}]
  /\ pc = [p \in Process |-> "off"]
  /\ force = [p \in Process |-> FALSE]
  /\ overlapped = FALSE
  /\ exposed = FALSE
  /\ existed = FALSE
  /\ emptied = FALSE

Goto(p, from, to) == pc[p] = from /\ pc' = [pc EXCEPT ![p] = to]

history == <<overlapped, exposed, existed, emptied>>

-----------------------------------------------------------------------------
(* CUrlInfos::Load                                                         *)

Start(p) ==
  /\ Goto(p, "off", "load")
  /\ infos' = [infos EXCEPT ![p] = {}]
  /\ UNCHANGED <<files, force, history>>

\* Without a file urls nothing is loaded, from wherever.
PathFileExists(p) ==
  /\ Goto(p, "load", IF files["urls"].exists THEN "open urls" ELSE "idle")
  /\ UNCHANGED <<files, infos, force, history>>

OpenUrls(p) ==
  /\ \/ files["urls"].exists /\ Goto(p, "open urls", "parse")
     \/ /\ ~files["urls"].exists \/ "read" \in Faults
        /\ Goto(p, "open urls", "load backup")
  /\ UNCHANGED <<files, infos, force, history>>

\* What reading a file leaves in memory: the list is cleared once the version
\* was read, then filled entry by entry until something is missing.
Read(file, list) == IF file.exists /\ file.header THEN file.written ELSE list

Parse(p) ==
  /\ Goto(p, "parse", IF Whole(files["urls"]) THEN "copy" ELSE "load backup")
  /\ infos' = [infos EXCEPT ![p] = Read(files["urls"], @)]
  /\ UNCHANGED <<files, force, history>>

LoadBackup(p) ==
  /\ Goto(p, "load backup", "idle")
  /\ infos' = [infos EXCEPT ![p] =
                 IF \E q \in Process : pc[q] = "copying" THEN @
                 ELSE Read(files["urls_backup"], @)]
  /\ UNCHANGED <<files, force, history>>

CopyFile(p) ==
  /\ \/ /\ files["urls"].exists /\ \A q \in Process : pc[q] # "copying"
        /\ Goto(p, "copy", "copying")
        /\ files' = [files EXCEPT !["urls_backup"] = Content(files["urls"].list, FALSE, {})]
     \/ /\ ~files["urls"].exists \/ \E q \in Process : pc[q] = "copying"
        /\ Goto(p, "copy", "idle")
        /\ UNCHANGED files
  /\ UNCHANGED <<infos, force, history>>

CopyFileEnds(p) ==
  /\ Goto(p, "copying", "idle")
  /\ files' = [files EXCEPT !["urls_backup"] = files["urls"]]
  /\ UNCHANGED <<infos, force, history>>

-----------------------------------------------------------------------------
(* The list changes, and is to be saved.                                   *)

AddProject(p, u) ==
  /\ u \notin infos[p]
  /\ Goto(p, "idle", "save")
  /\ infos' = [infos EXCEPT ![p] = @ \cup {u}]
  /\ force' = [force EXCEPT ![p] = FALSE]
  /\ UNCHANGED <<files, history>>

\* A project, or a list of repositories with what it holds.
RemoveProjects(p, S) ==
  /\ S # {} /\ S \subseteq infos[p]
  /\ Goto(p, "idle", "removed")
  /\ infos' = [infos EXCEPT ![p] = @ \ S]
  /\ emptied' = (emptied \/ S = infos[p])
  /\ UNCHANGED <<files, force, overlapped, exposed, existed>>

\* Save(pWrite->empty()), after the lock was released.
SaveRemoved(p) ==
  /\ Goto(p, "removed", "save")
  /\ force' = [force EXCEPT ![p] = infos[p] = {}]
  /\ UNCHANGED <<files, infos, history>>

\* COMMITMONITOR_SAVEINFO, and before the process ends by Exit.
SaveInfo(p) ==
  /\ Goto(p, "idle", "save")
  /\ force' = [force EXCEPT ![p] = FALSE]
  /\ UNCHANGED <<files, infos, history>>

\* The monitor thread adds a project of a list of repositories, at any time but
\* while the lock is held for saving.
CheckAdds(p, u) ==
  /\ pc[p] \in {"idle", "removed", "save"} \cup (SavePC \ {"write"})
  /\ u \notin infos[p]
  /\ infos' = [infos EXCEPT ![p] = @ \cup {u}]
  /\ UNCHANGED <<files, pc, force, history>>

-----------------------------------------------------------------------------
(* CUrlInfos::Save(bForce)                                                 *)

\* The mutant saves an empty list like any other.
SkipsNothing(p) == FALSE

\* "empty project list: don't save it!"
Skips(p) == infos[p] = {} /\ ~force[p]

Save(p) ==
  /\ Goto(p, "save", IF Skips(p) THEN "idle" ELSE "open")
  /\ overlapped' = (overlapped \/ (~Skips(p) /\ \E q \in Process : Saving(q)))
  /\ UNCHANGED <<files, infos, force, exposed, existed, emptied>>

\* The mutant makes room before the new file is written.
OpenNewDeletingUrls(p) ==
  /\ \A q \in Process : ~WritesNew(q)
  /\ Goto(p, "open", "lock")
  /\ files' = [files EXCEPT !["urls_new"] = Content({}, FALSE, {}), !["urls"] = Missing]
  /\ exposed' = (exposed \/ ~files["urls"].exists)
  /\ UNCHANGED <<infos, force, overlapped, existed, emptied>>

\* The file is opened for writing, which empties it and shuts others out.
OpenNew(p) ==
  /\ \A q \in Process : ~WritesNew(q)
  /\ Goto(p, "open", "lock")
  /\ files' = [files EXCEPT !["urls_new"] = Content({}, FALSE, {})]
  /\ exposed' = (exposed \/ ~files["urls"].exists)
  /\ UNCHANGED <<infos, force, overlapped, existed, emptied>>

OpenFails(p) ==
  /\ "open" \in Faults \/ \E q \in Process : WritesNew(q)
  /\ Goto(p, "open", "idle")
  /\ UNCHANGED <<files, infos, force, history>>

\* The reader lock: from here to the end of the writing the list is the same.
Lock(p) ==
  /\ Goto(p, "lock", "write")
  /\ files' = [files EXCEPT !["urls_new"] = Content(infos[p], FALSE, {})]
  /\ UNCHANGED <<infos, force, history>>

\* The version and the number of projects, then a project at a time.
Write(p) ==
  LET new == files["urls_new"]
  IN  /\ Goto(p, "write", "write")
      /\ \/ ~new.header
            /\ files' = [files EXCEPT !["urls_new"].header = TRUE]
         \/ new.header
            /\ \E u \in new.list \ new.written :
                 /\ \A v \in new.list \ new.written : u <= v
                 /\ files' = [files EXCEPT !["urls_new"].written = @ \cup {u}]
      /\ UNCHANGED <<infos, force, history>>

\* The mutant ignores what Save(FILE) returns.
WriteFailsUnnoticed(p) ==
  /\ "write" \in Faults
  /\ Goto(p, "write", "delete")
  /\ UNCHANGED <<files, infos, force, history>>

WriteFails(p) ==
  /\ "write" \in Faults
  /\ Goto(p, "write", "idle")
  /\ UNCHANGED <<files, infos, force, history>>

\* Everything was written, to the buffer at least: what fclose returns is not
\* looked at, and with it the last bytes may be lost.
Close(p) ==
  /\ Whole(files["urls_new"])
  /\ Goto(p, "write", "delete")
  /\ \E header \in IF "flush" \in Faults THEN BOOLEAN ELSE {TRUE},
        written \in IF "flush" \in Faults THEN Prefixes(files["urls_new"].list)
                                         ELSE {files["urls_new"].written} :
       files' = [files EXCEPT !["urls_new"] = Content(@.list, header, written)]
  /\ UNCHANGED <<infos, force, history>>

DeleteUrls(p) ==
  /\ Goto(p, "delete", "move")
  /\ \/ /\ \A q \in Process : ~ReadsUrls(q)
        /\ files' = [files EXCEPT !["urls"] = Missing]
     \/ /\ "delete" \in Faults \/ \E q \in Process : ReadsUrls(q)
        /\ UNCHANGED files
  /\ UNCHANGED <<infos, force, history>>

\* There must be something to rename, nobody may have it open, and the new name
\* must be free.
CanMove ==
  /\ files["urls_new"].exists
  /\ \A q \in Process : ~WritesNew(q)
  /\ ~files["urls"].exists

MoveNew(p) ==
  /\ CanMove
  /\ Goto(p, "move", "idle")
  /\ files' = [files EXCEPT !["urls"] = files["urls_new"], !["urls_new"] = Missing]
  /\ exposed' = FALSE
  /\ existed' = TRUE
  /\ UNCHANGED <<infos, force, overlapped, emptied>>

MoveFails(p) ==
  /\ "move" \in Faults \/ ~CanMove
  /\ Goto(p, "move", "idle")
  /\ UNCHANGED <<files, infos, force, history>>

\* The process ends, with whatever it is at.
Crash(p) ==
  /\ pc[p] # "off"
  /\ pc' = [pc EXCEPT ![p] = "off"]
  /\ UNCHANGED <<files, infos, force, history>>

-----------------------------------------------------------------------------
Load(p) ==
  \/ Start(p) \/ PathFileExists(p) \/ OpenUrls(p) \/ Parse(p)
  \/ LoadBackup(p) \/ CopyFile(p) \/ CopyFileEnds(p)

Changes(p) ==
  \/ \E u \in Project : AddProject(p, u) \/ CheckAdds(p, u)
  \/ \E S \in Lists : RemoveProjects(p, S)
  \/ SaveRemoved(p) \/ SaveInfo(p)

SaveStep(p) ==
  \/ Save(p) \/ OpenNew(p) \/ OpenFails(p) \/ Lock(p)
  \/ Write(p) \/ WriteFails(p) \/ Close(p)
  \/ DeleteUrls(p) \/ MoveNew(p) \/ MoveFails(p)

PersistenceNext == \E p \in Process : Load(p) \/ Changes(p) \/ SaveStep(p) \/ Crash(p)

PersistenceSpec == PersistenceInit /\ [][PersistenceNext]_vars

-----------------------------------------------------------------------------
(* Properties.                                                             *)

TypeOK ==
  /\ files \in [File -> Contents \cup {Missing}]
  /\ infos \in [Process -> Lists]
  /\ pc \in [Process -> PC]
  /\ force \in [Process -> BOOLEAN]
  /\ <<overlapped, exposed, existed, emptied>> \in BOOLEAN \X BOOLEAN \X BOOLEAN \X BOOLEAN

\* Whenever the process ends, and whatever call fails with a notice, the file
\* urls is whole: writing to urls_new and renaming it keeps half a list out.
\* Two processes that save at the same time break this.
UrlsIsWhole == files["urls"].exists /\ ~overlapped => Whole(files["urls"])

\* While urls is gone, urls_new has all of it: the order of writing, deleting and
\* renaming in Save leaves a copy at any time.  A second save, after one that
\* lost urls and did not get to rename urls_new, empties the last copy: exposed.
CopyRemains ==
  existed /\ ~files["urls"].exists /\ ~exposed /\ ~overlapped => Whole(files["urls_new"])

\* The file holds an empty list only if the user removed the last project, and
\* not because a list was not loaded ("See issue #267 for why").
EmptiedByUser == Whole(files["urls"]) /\ files["urls"].list = {} => emptied

\* Load and Save keep a list the way AtomicList says: urls changes to nothing but
\* the list a save took under the lock.
Stored(file) ==
  IF ~file.exists THEN <<>> ELSE IF Whole(file) THEN <<file.list>> ELSE <<file.list, "damaged">>

Taken ==
  IF files["urls_new"].exists /\ \E p \in Process : pc[p] \in {"write", "delete", "move"}
  THEN <<files["urls_new"].list>>
  ELSE <<>>

A == INSTANCE AtomicList WITH
  List <- {<<list>> : list \in Lists}, None <- <<>>,
  stored <- Stored(files["urls"]), taken <- Taken,
  exclusive <- ~overlapped

ImplementsAtomicList == A!ListSpec
=============================================================================
