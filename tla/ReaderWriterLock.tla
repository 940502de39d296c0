-------------------------- MODULE ReaderWriterLock --------------------------
(***************************************************************************)
(* CReaderWriterLock (ReaderWriterLock.cpp): the lock of CUrlInfos.  It is *)
(* built from a critical section, two counters, two events that exist only *)
(* while somebody waits for them, and a map from threads to how often they *)
(* hold the lock.  CommitMonitor passes no timeout, so that waits are      *)
(* INFINITE here.                                                          *)
(*                                                                         *)
(* An action is what a thread does from EnterCS to LeaveCS, or the return  *)
(* from WaitForSingleObject.                                               *)
(***************************************************************************)
EXTENDS Naturals, FiniteSets

CONSTANTS
  Thread,   \* the threads that use the lock
  MaxDepth  \* bound: how often a thread acquires it before it releases it;
            \* the code counts up to 2^16 - 1 of each kind

ASSUME LockAssumption == IsFiniteSet(Thread) /\ MaxDepth \in Nat

VARIABLES
  numOfWriter,         \* m_iNumOfWriter: writers inside and waiting
  numOfReaderEntered,  \* m_iNumOfReaderEntered
  numOfReaderWaiting,  \* m_iNumOfReaderWaiting
  safeToWrite,         \* m_hSafeToWriteEvent, resets when it wakes a thread
  safeToRead,          \* m_hSafeToReadEvent, stays set
  reads,               \* the READER_RECURRENCE count of a thread in m_map
  writes,              \* the WRITER_RECURRENCE count of a thread in m_map
  pc                   \* where a thread is in a call

counters == <<numOfWriter, numOfReaderEntered, numOfReaderWaiting>>
events   == <<safeToWrite, safeToRead>>
m_map    == <<reads, writes>>
lockVars == <<counters, events, m_map, pc>>

\* "none": the handle is NULL.
Event == {"none", "reset", "set"}

PC == {"out", "readwait", "readwoken", "writewait", "writewoken"}

LockInit ==
  /\ numOfWriter = 0
  /\ numOfReaderEntered = 0
  /\ numOfReaderWaiting = 0
  /\ safeToWrite = "none"
  /\ safeToRead = "none"
  /\ reads = [t \in Thread |-> 0]
  /\ writes = [t \in Thread |-> 0]
  /\ pc = [t \in Thread |-> "out"]

-----------------------------------------------------------------------------
At(t, l) == pc[t] = l

Goto(t, l) == pc' = [pc EXCEPT ![t] = l]

Holds(t) == reads[t] + writes[t] > 0

Count(f, t) == f' = [f EXCEPT ![t] = @ + 1]

Created(event) == IF event = "none" THEN "reset" ELSE event

\* SetEvent and ResetEvent where the handle is tested first.
Set(event)   == IF event = "none" THEN "none" ELSE "set"
Reset(event) == IF event = "none" THEN "none" ELSE "reset"

-----------------------------------------------------------------------------
(* AcquireReaderLock: by a thread that holds the lock, by one that finds no*)
(* writer, and by one that has to wait.                                    *)

ReadAgain(t) ==
  /\ At(t, "out")
  /\ Holds(t)
  /\ reads[t] < MaxDepth
  /\ Count(reads, t)
  /\ UNCHANGED <<counters, events, writes, pc>>

ReadNow(t) ==
  /\ At(t, "out")
  /\ ~Holds(t)
  /\ MaxDepth > 0
  /\ numOfWriter = 0
  /\ numOfReaderEntered' = numOfReaderEntered + 1
  /\ Count(reads, t)
  /\ UNCHANGED <<numOfWriter, numOfReaderWaiting, events, writes, pc>>

\* The mutant does not count the waiting reader.
ReadLaterUncounted(t) ==
  /\ At(t, "out")
  /\ ~Holds(t)
  /\ MaxDepth > 0
  /\ numOfWriter # 0
  /\ safeToRead' = Created(safeToRead)
  /\ Goto(t, "readwait")
  /\ UNCHANGED <<counters, safeToWrite, m_map>>

ReadLater(t) ==
  /\ At(t, "out")
  /\ ~Holds(t)
  /\ MaxDepth > 0
  /\ numOfWriter # 0
  /\ numOfReaderWaiting' = numOfReaderWaiting + 1
  /\ safeToRead' = Created(safeToRead)
  /\ Goto(t, "readwait")
  /\ UNCHANGED <<numOfWriter, numOfReaderEntered, safeToWrite, m_map>>

\* _ReaderWait: the wait returns ...
ReadWakes(t) ==
  /\ At(t, "readwait")
  /\ safeToRead = "set"
  /\ Goto(t, "readwoken")
  /\ UNCHANGED <<counters, events, m_map>>

\* ... and is repeated if a writer came first.
ReadEnters(t) ==
  /\ At(t, "readwoken")
  /\ IF numOfWriter # 0
     THEN Goto(t, "readwait") /\ UNCHANGED <<counters, events, m_map>>
     ELSE /\ Goto(t, "out")
          /\ numOfReaderEntered' = numOfReaderEntered + 1
          /\ numOfReaderWaiting' = numOfReaderWaiting - 1
          /\ safeToRead' = IF numOfReaderWaiting = 1 THEN "none" ELSE safeToRead
          /\ Count(reads, t)
          /\ UNCHANGED <<numOfWriter, safeToWrite, writes>>

-----------------------------------------------------------------------------
(* AcquireWriterLock: by a writer; by the only reader, at once even if     *)
(* writers wait; by a thread that finds nobody inside; and by one that has *)
(* to wait, for which a reader gives up its place.                         *)

WriteAgain(t) ==
  /\ At(t, "out")
  /\ writes[t] \in 1..(MaxDepth - 1)
  /\ Count(writes, t)
  /\ UNCHANGED <<counters, events, reads, pc>>

IsReader(t) == reads[t] > 0 /\ writes[t] = 0

UpgradeNow(t) ==
  /\ At(t, "out")
  /\ IsReader(t)
  /\ numOfReaderEntered = 1
  /\ numOfReaderEntered' = 0
  /\ numOfWriter' = numOfWriter + 1
  /\ Count(writes, t)
  /\ UNCHANGED <<numOfReaderWaiting, events, reads, pc>>

WriteNow(t) ==
  /\ At(t, "out")
  /\ ~Holds(t)
  /\ MaxDepth > 0
  /\ numOfWriter = 0 /\ numOfReaderEntered = 0
  /\ numOfWriter' = numOfWriter + 1
  /\ Count(writes, t)
  /\ UNCHANGED <<numOfReaderEntered, numOfReaderWaiting, events, reads, pc>>

\* _WriterWaitAndLeaveCSIfSuccess, up to the wait.
WriterWait(t) ==
  /\ numOfWriter' = numOfWriter + 1
  /\ safeToRead' = IF numOfWriter = 0 THEN Reset(safeToRead) ELSE safeToRead
  /\ safeToWrite' = Created(safeToWrite)
  /\ Goto(t, "writewait")
  /\ UNCHANGED <<numOfReaderWaiting, m_map>>

\* The mutant waits without giving up its place as a reader.
UpgradeInPlace(t) ==
  /\ At(t, "out")
  /\ IsReader(t)
  /\ numOfReaderEntered # 1
  /\ WriterWait(t)
  /\ UNCHANGED numOfReaderEntered

UpgradeLater(t) ==
  /\ At(t, "out")
  /\ IsReader(t)
  /\ numOfReaderEntered # 1
  /\ numOfReaderEntered' = numOfReaderEntered - 1
  /\ WriterWait(t)

WriteLater(t) ==
  /\ At(t, "out")
  /\ ~Holds(t)
  /\ MaxDepth > 0
  /\ ~(numOfWriter = 0 /\ numOfReaderEntered = 0)
  /\ WriterWait(t)
  /\ UNCHANGED numOfReaderEntered

WriteWakes(t) ==
  /\ At(t, "writewait")
  /\ safeToWrite = "set"
  /\ safeToWrite' = "reset"
  /\ Goto(t, "writewoken")
  /\ UNCHANGED <<counters, safeToRead, m_map>>

WriteEnters(t) ==
  /\ At(t, "writewoken")
  /\ Count(writes, t)
  /\ Goto(t, "out")
  /\ UNCHANGED <<counters, events, reads>>

-----------------------------------------------------------------------------
(* ReleaseReaderLock and ReleaseWriterLock, of a lock that is held; and    *)
(* ReleaseAllLocks.                                                        *)

\* The mutant looks at the counter before it is decremented.
ReaderReleaseSilent ==
  /\ numOfReaderEntered' = numOfReaderEntered - 1
  /\ safeToWrite' = IF numOfReaderEntered = 0 THEN Set(safeToWrite) ELSE safeToWrite
  /\ UNCHANGED <<numOfWriter, numOfReaderWaiting, safeToRead>>

ReaderRelease ==
  /\ numOfReaderEntered' = numOfReaderEntered - 1
  /\ safeToWrite' = IF numOfReaderEntered = 1 THEN Set(safeToWrite) ELSE safeToWrite
  /\ UNCHANGED <<numOfWriter, numOfReaderWaiting, safeToRead>>

\* The mutant wakes a waiting writer even though the thread stays a reader.
WriterReleaseWakes(downgrade) ==
  /\ numOfReaderEntered' = numOfReaderEntered + IF downgrade THEN 1 ELSE 0
  /\ numOfWriter' = numOfWriter - 1
  /\ IF numOfWriter = 1
     THEN safeToWrite' = "none" /\ safeToRead' = Set(safeToRead)
     ELSE safeToWrite' = "set" /\ UNCHANGED safeToRead
  /\ UNCHANGED numOfReaderWaiting

\* The last writer lets the readers in; another one wakes the next writer,
\* unless the thread stays a reader.
WriterRelease(downgrade) ==
  /\ numOfReaderEntered' = numOfReaderEntered + IF downgrade THEN 1 ELSE 0
  /\ numOfWriter' = numOfWriter - 1
  /\ IF numOfWriter = 1
     THEN safeToWrite' = "none" /\ safeToRead' = Set(safeToRead)
     ELSE /\ safeToWrite' = IF downgrade THEN safeToWrite ELSE "set"
          /\ UNCHANGED safeToRead
  /\ UNCHANGED numOfReaderWaiting

ReleaseReader(t) ==
  /\ At(t, "out")
  /\ reads[t] > 0
  /\ reads' = [reads EXCEPT ![t] = @ - 1]
  /\ IF reads[t] = 1 /\ writes[t] = 0
     THEN ReaderRelease
     ELSE UNCHANGED <<counters, events>>
  /\ UNCHANGED <<writes, pc>>

ReleaseWriter(t) ==
  /\ At(t, "out")
  /\ writes[t] > 0
  /\ writes' = [writes EXCEPT ![t] = @ - 1]
  /\ IF writes[t] = 1
     THEN WriterRelease(reads[t] > 0)
     ELSE UNCHANGED <<counters, events>>
  /\ UNCHANGED <<reads, pc>>

ReleaseAll(t) ==
  /\ At(t, "out")
  /\ Holds(t)
  /\ reads' = [reads EXCEPT ![t] = 0]
  /\ writes' = [writes EXCEPT ![t] = 0]
  /\ IF writes[t] > 0 THEN WriterRelease(FALSE) ELSE ReaderRelease
  /\ UNCHANGED pc

-----------------------------------------------------------------------------
LockStep(t) ==
  \/ ReadAgain(t) \/ ReadNow(t) \/ ReadLater(t) \/ ReadWakes(t) \/ ReadEnters(t)
  \/ WriteAgain(t) \/ UpgradeNow(t) \/ WriteNow(t) \/ UpgradeLater(t) \/ WriteLater(t)
  \/ WriteWakes(t) \/ WriteEnters(t)
  \/ ReleaseReader(t) \/ ReleaseWriter(t) \/ ReleaseAll(t)

LockNext == \E t \in Thread : LockStep(t)

LockSpec == LockInit /\ [][LockNext]_lockVars

\* A thread goes on when it can, and gives the lock up sooner or later.  An
\* auto-reset event wakes the threads that wait for it in turn, which takes
\* strong fairness; a reader may be overtaken by writers for ever.
FairLockSpec ==
  /\ LockSpec
  /\ \A t \in Thread :
       /\ WF_lockVars(ReleaseAll(t))
       /\ WF_lockVars(WriteEnters(t))
       /\ SF_lockVars(WriteWakes(t))

-----------------------------------------------------------------------------
(* Properties.                                                             *)

\* The threads that have write access, that have read access, and that wait.
Writers == {t \in Thread : writes[t] > 0 \/ pc[t] = "writewoken"}
Readers == {t \in Thread : IsReader(t) /\ pc[t] = "out"}
WaitingWriters == {t \in Thread : pc[t] = "writewait"}
WaitingReaders == {t \in Thread : pc[t] \in {"readwait", "readwoken"}}

TypeOK ==
  /\ numOfWriter \in Nat
  /\ numOfReaderEntered \in Nat
  /\ numOfReaderWaiting \in Nat
  /\ safeToWrite \in Event
  /\ safeToRead \in Event
  /\ reads \in [Thread -> 0..MaxDepth]
  /\ writes \in [Thread -> 0..MaxDepth]
  /\ pc \in [Thread -> PC]

\* A thread writes alone: no other thread reads or writes meanwhile
\* (ReaderWriterLock.h: "either concurrent read access for multiple threads, or
\* write access for a single thread").
MutualExclusion ==
  \A t \in Writers : Writers = {t} /\ Readers = {}

\* The counters, by which a thread decides whether it may enter, are right in
\* spite of upgrades that give up a place and take another one later.
CountersAreRight ==
  /\ numOfReaderEntered = Cardinality(Readers)
  /\ numOfWriter = Cardinality(Writers) + Cardinality(WaitingWriters)
  /\ numOfReaderWaiting = Cardinality(WaitingReaders)

\* No wake-up is lost: when nobody is inside and somebody waits for write
\* access, the event is set; and when there is no writer at all, waiting readers
\* find theirs set, or have been woken by it.
NoLostWakeup ==
  /\ Writers = {} /\ Readers = {} /\ WaitingWriters # {} => safeToWrite = "set"
  /\ Writers = {} /\ WaitingWriters = {} /\ WaitingReaders # {} => safeToRead = "set"

\* The lock does what ReaderWriterLock.h promises of it.
Access == INSTANCE SharedAccess WITH readers <- Readers, writers <- Writers
ImplementsSharedAccess == Access!AccessSpec

\* A thread that waits for write access gets it, whatever readers come ("this
\* helps protect writers against indefinite blockage by readers").
WriterGetsIn ==
  \A t \in Thread : At(t, "writewait") ~> writes[t] > 0
=============================================================================
