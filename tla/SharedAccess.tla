---------------------------- MODULE SharedAccess ----------------------------
(***************************************************************************)
(* What ReaderWriterLock.h promises: "At any given time, it allows either  *)
(* concurrent read access for multiple threads, or write access for a      *)
(* single thread."                                                         *)
(***************************************************************************)
EXTENDS FiniteSets

CONSTANT Thread

VARIABLES readers, writers

access == <<readers, writers>>

AccessInit == readers = {} /\ writers = {}

BeginRead(t) ==
  /\ writers = {}
  /\ readers' = readers \cup {t}
  /\ UNCHANGED writers

EndRead(t) ==
  /\ t \in readers
  /\ readers' = readers \ {t}
  /\ UNCHANGED writers

\* Also of the only reader, which becomes a writer without a gap.
BeginWrite(t) ==
  /\ writers = {}
  /\ readers \subseteq {t}
  /\ readers' = {}
  /\ writers' = {t}

EndWrite(t) ==
  /\ writers = {t}
  /\ writers' = {}
  /\ UNCHANGED readers

\* A writer becomes a reader without a gap.
Downgrade(t) ==
  /\ writers = {t}
  /\ writers' = {}
  /\ readers' = {t}

AccessNext ==
  \E t \in Thread : \/ BeginRead(t) \/ EndRead(t)
                    \/ BeginWrite(t) \/ EndWrite(t) \/ Downgrade(t)

AccessSpec == AccessInit /\ [][AccessNext]_access
=============================================================================
