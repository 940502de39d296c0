----------------------------- MODULE AtomicList -----------------------------
(***************************************************************************)
(* What keeping a list in a file promises to those who save it one at a    *)
(* time: the file holds a list somebody saved, all of it, or there is no   *)
(* file.  A save takes a list, may lose the file, and then puts what it    *)
(* took.  Module Persistence implements this (CUrlInfos::Save).            *)
(***************************************************************************)
CONSTANTS
  List,   \* the lists
  None    \* no list

VARIABLES
  stored,    \* the list in the file, or None
  taken,     \* the list that is being saved, or None
  exclusive  \* nobody began a save while another was at it

listVars == <<stored, taken, exclusive>>

ListInit ==
  /\ stored = None
  /\ taken = None
  /\ exclusive = TRUE

Take ==
  /\ taken = None
  /\ taken' \in List
  /\ UNCHANGED stored

\* The file goes, to make room for the new one.
Lose ==
  /\ taken # None
  /\ stored' = None
  /\ UNCHANGED taken

Put ==
  /\ taken # None
  /\ stored' = taken
  /\ taken' = None

GiveUp ==
  /\ taken' = None
  /\ UNCHANGED stored

ListStep == exclusive /\ exclusive' /\ (Take \/ Lose \/ Put \/ GiveUp)

\* Nothing is promised once two saves overlapped.
ListNext == ListStep \/ ~exclusive'

ListSpec == ListInit /\ [][ListNext]_listVars
=============================================================================
