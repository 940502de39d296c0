----------------------- MODULE ReaderWriterLock_proofs ----------------------
(***************************************************************************)
(* The reader/writer lock excludes, for any finite set of threads.         *)
(***************************************************************************)
EXTENDS ReaderWriterLock, FiniteSetTheorems, TLAPS

-----------------------------------------------------------------------------
(* Sets of threads and their sizes.                                        *)

\* Adding a thread to a set, or removing one, changes its size by one.
LEMMA Sizes ==
  ASSUME NEW S, IsFiniteSet(S)
  PROVE  /\ Cardinality(S) \in Nat
         /\ Cardinality(S) = 0 <=> S = {}
         /\ \A t : t \notin S => Cardinality(S \cup {t}) = Cardinality(S) + 1
         /\ \A t \in S : Cardinality(S \ {t}) = Cardinality(S) - 1
         /\ \A t \in S : Cardinality(S) = 1 => S = {t}
<1>1. Cardinality(S) \in Nat
  BY FS_CardinalityType
<1>2. Cardinality(S) = 0 <=> S = {}
  BY FS_EmptySet
<1>3. ASSUME NEW t, t \notin S PROVE Cardinality(S \cup {t}) = Cardinality(S) + 1
  BY <1>3, FS_AddElement
<1>4. ASSUME NEW t \in S PROVE Cardinality(S \ {t}) = Cardinality(S) - 1
  BY FS_RemoveElement
<1>5. ASSUME NEW t \in S, Cardinality(S) = 1 PROVE S = {t}
  <2>1. PICK x : S = {x}
    BY <1>5, FS_Singleton
  <2> QED
    BY <2>1
<1> QED
  BY <1>1, <1>2, <1>3, <1>4, <1>5

\* The sets of threads the properties are about are finite.
LEMMA Finite ==
  /\ IsFiniteSet(Readers) /\ IsFiniteSet(Writers)
  /\ IsFiniteSet(WaitingWriters) /\ IsFiniteSet(WaitingReaders)
<1>1. /\ Readers \in SUBSET Thread /\ Writers \in SUBSET Thread
      /\ WaitingWriters \in SUBSET Thread /\ WaitingReaders \in SUBSET Thread
  BY DEF Readers, Writers, WaitingWriters, WaitingReaders
<1> QED
  BY <1>1, FS_Subset, LockAssumption DEF LockAssumption

-----------------------------------------------------------------------------
(* The inductive invariant.                                                *)

\* A thread that waits for read access holds nothing, one that waits for write
\* access nothing for writing.
Waiting ==
  \A t \in Thread :
    /\ pc[t] \in {"readwait", "readwoken"} => reads[t] = 0 /\ writes[t] = 0
    /\ pc[t] \in {"writewait", "writewoken"} => writes[t] = 0
    /\ pc[t] # "out" => MaxDepth > 0

\* The event for writers is there while one waits, and no longer than one waits
\* or writes; it is set only while one waits and nobody is inside.  The event
\* for readers is there while one waits.
Events ==
  /\ WaitingWriters # {} => safeToWrite # "none"
  /\ safeToWrite # "none" => WaitingWriters # {} \/ Writers # {}
  /\ safeToWrite = "set" => Writers = {} /\ Readers = {} /\ WaitingWriters # {}
  /\ WaitingReaders # {} => safeToRead # "none"

IInv ==
  /\ TypeOK
  /\ Waiting
  /\ Events
  /\ MutualExclusion
  /\ CountersAreRight
  /\ NoLostWakeup

\* What the map of threads says, apart from the counters and the events.
ThreadsOK ==
  /\ reads \in [Thread -> 0..MaxDepth]
  /\ writes \in [Thread -> 0..MaxDepth]
  /\ pc \in [Thread -> PC]
  /\ Waiting

\* What a step of the lock is as a step of SharedAccess.
AccessStep == Access!AccessNext \/ UNCHANGED <<Readers, Writers>>

LEMMA InitIInv == LockInit => IInv
<1> SUFFICES ASSUME LockInit PROVE IInv
  OBVIOUS
<1>1. Readers = {} /\ Writers = {} /\ WaitingWriters = {} /\ WaitingReaders = {}
  BY DEF LockInit, Readers, Writers, WaitingWriters, WaitingReaders, IsReader
<1>2. TypeOK /\ Waiting
  BY LockAssumption DEF LockInit, TypeOK, Waiting, Event, PC, LockAssumption
<1> QED
  BY <1>1, <1>2, FS_EmptySet
  DEF LockInit, IInv, Events, MutualExclusion, CountersAreRight, NoLostWakeup

-----------------------------------------------------------------------------
(* An action is described by what it does to the four sets of threads; that *)
(* it preserves the invariant then follows from the sizes of the sets.     *)

\* A thread begins to read, while nobody writes or waits to write; it may have
\* waited until then.
LEMMA ReaderComes ==
  ASSUME IInv, ThreadsOK', NEW t \in Thread, t \notin Readers,
         numOfWriter = 0,
         numOfReaderEntered' = numOfReaderEntered + 1,
         Readers' = Readers \cup {t},
         UNCHANGED <<numOfWriter, safeToWrite, Writers, WaitingWriters>>,
         \/ UNCHANGED <<numOfReaderWaiting, safeToRead, WaitingReaders>>
         \/ /\ t \in WaitingReaders
            /\ WaitingReaders' = WaitingReaders \ {t}
            /\ numOfReaderWaiting' = numOfReaderWaiting - 1
            /\ safeToRead' = IF numOfReaderWaiting = 1 THEN "none" ELSE safeToRead
  PROVE  IInv' /\ AccessStep
<1> USE DEF IInv, ThreadsOK
<1>1. Writers = {} /\ WaitingWriters = {}
  BY Finite, Sizes DEF CountersAreRight
<1>2. Cardinality(Readers') = Cardinality(Readers) + 1
  BY Finite, Sizes
<1>a. AccessStep
  BY <1>1 DEF AccessStep, Access!AccessNext, Access!BeginRead
<1>3. CASE UNCHANGED <<numOfReaderWaiting, safeToRead, WaitingReaders>>
  BY <1>a, <1>1, <1>2, <1>3
  DEF TypeOK, Events, MutualExclusion, CountersAreRight, NoLostWakeup
<1>4. CASE /\ t \in WaitingReaders
           /\ WaitingReaders' = WaitingReaders \ {t}
           /\ numOfReaderWaiting' = numOfReaderWaiting - 1
           /\ safeToRead' = IF numOfReaderWaiting = 1 THEN "none" ELSE safeToRead
  <2>1. /\ Cardinality(WaitingReaders') = Cardinality(WaitingReaders) - 1
        /\ Cardinality(WaitingReaders') \in Nat
        /\ Cardinality(WaitingReaders) = 1 => WaitingReaders' = {}
    <3>1. IsFiniteSet(WaitingReaders) /\ IsFiniteSet(WaitingReaders \ {t})
      BY Finite, FS_RemoveElement
    <3> QED
      BY <1>4, <3>1, Sizes
  <2> QED
    BY <1>a, <1>1, <1>2, <1>4, <2>1
    DEF TypeOK, Event, Events, MutualExclusion, CountersAreRight, NoLostWakeup
<1> QED
  BY <1>3, <1>4

\* A reader leaves.
LEMMA ReaderLeaves ==
  ASSUME IInv, ThreadsOK', NEW t \in Readers,
         ReaderRelease,
         Readers' = Readers \ {t},
         UNCHANGED <<Writers, WaitingWriters, WaitingReaders>>
  PROVE  IInv' /\ AccessStep
<1> USE DEF IInv, ThreadsOK, ReaderRelease
<1>1. Writers = {}
  BY DEF MutualExclusion
<1>2. /\ Cardinality(Readers') = Cardinality(Readers) - 1
      /\ Cardinality(Readers') \in Nat
      /\ Cardinality(Readers) = 1 => Readers' = {}
      /\ Cardinality(Readers') = 0 <=> Readers' = {}
  <2>1. IsFiniteSet(Readers) /\ IsFiniteSet(Readers \ {t})
    BY Finite, FS_RemoveElement
  <2> QED
    BY <2>1, Sizes
<1>3. AccessStep
  BY DEF AccessStep, Access!AccessNext, Access!EndRead, Readers
<1> QED
  BY <1>1, <1>2, <1>3
  DEF TypeOK, Event, Set, Events, MutualExclusion, CountersAreRight, NoLostWakeup

\* A writer leaves, or becomes a reader.
LEMMA WriterLeaves ==
  ASSUME IInv, ThreadsOK', NEW t \in Writers, NEW downgrade \in BOOLEAN,
         WriterRelease(downgrade),
         Writers' = Writers \ {t},
         Readers' = IF downgrade THEN {t} ELSE {},
         UNCHANGED <<WaitingWriters, WaitingReaders>>
  PROVE  IInv' /\ AccessStep
<1> USE DEF IInv, ThreadsOK, WriterRelease
<1>1. Writers = {t} /\ Readers = {} /\ Writers' = {}
  BY DEF MutualExclusion
<1>2. Cardinality({}) = 0 /\ Cardinality({t}) = 1
  BY FS_EmptySet, FS_Singleton
<1>3. numOfWriter = 1 + Cardinality(WaitingWriters) /\ numOfReaderEntered = 0
  BY <1>1, <1>2 DEF CountersAreRight
<1>4. /\ Cardinality(WaitingWriters) \in Nat
      /\ Cardinality(WaitingWriters) = 0 <=> WaitingWriters = {}
  BY Finite, Sizes
<1>5. Events' /\ NoLostWakeup'
  BY <1>1, <1>3, <1>4 DEF TypeOK, Event, Set, Events, NoLostWakeup
<1>6. TypeOK' /\ MutualExclusion'
  BY <1>1, <1>3, <1>4 DEF TypeOK, Event, Set, MutualExclusion
<1>7. numOfReaderEntered' = Cardinality(Readers')
  BY <1>2, <1>3
<1>8. numOfWriter' = Cardinality(Writers') + Cardinality(WaitingWriters')
  <2>1. Cardinality(Writers') = 0 /\ WaitingWriters' = WaitingWriters
    BY <1>1, <1>2
  <2>2. numOfWriter' = numOfWriter - 1
    OBVIOUS
  <2> QED
    BY <2>1, <2>2, <1>3, <1>4
<1>9. CountersAreRight'
  BY <1>7, <1>8 DEF CountersAreRight
<1>10. AccessStep
  <2>1. t \in Thread
    BY DEF Writers
  <2>2. Access!EndWrite(t) \/ Access!Downgrade(t)
    BY <1>1 DEF Access!EndWrite, Access!Downgrade
  <2> QED
    BY <2>1, <2>2 DEF AccessStep, Access!AccessNext
<1> QED
  BY <1>5, <1>6, <1>9, <1>10

\* A thread begins to wait for write access; somebody else is inside or waits.
LEMMA WriterWaits ==
  ASSUME IInv, ThreadsOK', NEW t \in Thread, WriterWait(t),
         t \notin WaitingWriters,
         WaitingWriters' = WaitingWriters \cup {t},
         UNCHANGED <<Writers, WaitingReaders>>,
         \/ /\ UNCHANGED <<numOfReaderEntered, Readers>>
            /\ ~(numOfWriter = 0 /\ numOfReaderEntered = 0)
         \/ /\ t \in Readers
            /\ Readers' = Readers \ {t}
            /\ numOfReaderEntered # 1
            /\ numOfReaderEntered' = numOfReaderEntered - 1
  PROVE  IInv' /\ AccessStep
<1> USE DEF IInv, ThreadsOK, WriterWait
<1>1. /\ Cardinality(WaitingWriters') = Cardinality(WaitingWriters) + 1
      /\ Cardinality(WaitingWriters) \in Nat /\ Cardinality(Writers) \in Nat
      /\ Cardinality(WaitingWriters) = 0 <=> WaitingWriters = {}
      /\ Cardinality(Writers) = 0 <=> Writers = {}
      /\ Cardinality(Readers) \in Nat
      /\ Cardinality(Readers) = 0 <=> Readers = {}
  BY Finite, Sizes
<1>2. /\ Writers # {} \/ Readers' # {} \/ safeToWrite = "set"
      /\ numOfReaderEntered' \in Nat
      /\ numOfReaderEntered' = Cardinality(Readers')
      /\ Readers' \subseteq Readers
  <2>1. CASE /\ UNCHANGED <<numOfReaderEntered, Readers>>
             /\ ~(numOfWriter = 0 /\ numOfReaderEntered = 0)
    BY <1>1, <2>1 DEF CountersAreRight, NoLostWakeup
  <2>2. CASE /\ t \in Readers
             /\ Readers' = Readers \ {t}
             /\ numOfReaderEntered # 1
             /\ numOfReaderEntered' = numOfReaderEntered - 1
    <3>1. /\ Cardinality(Readers') = Cardinality(Readers) - 1
          /\ Cardinality(Readers') \in Nat
          /\ Cardinality(Readers') = 0 <=> Readers' = {}
      <4>1. IsFiniteSet(Readers) /\ IsFiniteSet(Readers \ {t})
        BY Finite, FS_RemoveElement
      <4> QED
        BY <2>2, <4>1, Sizes
    <3> QED
      BY <2>2, <3>1 DEF CountersAreRight
  <2> QED
    BY <2>1, <2>2
<1>3. safeToWrite = "set" => Readers' = {}
  BY <1>2 DEF Events
<1>4. TypeOK' /\ CountersAreRight' /\ MutualExclusion'
  BY <1>1, <1>2
  DEF TypeOK, Event, Created, Reset, CountersAreRight, MutualExclusion
<1>5. WaitingWriters' # {}
  OBVIOUS
<1>6. Events' /\ NoLostWakeup'
  BY <1>2, <1>3, <1>5 DEF TypeOK, Event, Created, Reset, Events, NoLostWakeup
<1>7. AccessStep
  BY DEF AccessStep, Access!AccessNext, Access!EndRead
<1> QED
  BY <1>4, <1>6, <1>7

-----------------------------------------------------------------------------
\* Every step preserves the invariant.
LEMMA NextIInv ==
  ASSUME IInv, LockNext
  PROVE  IInv' /\ AccessStep
<1> PICK t \in Thread : LockStep(t)
  BY DEF LockNext
<1> USE LockAssumption DEF LockAssumption, PC, IInv, At, Goto, Count, Holds
<1> DEFINE Same == UNCHANGED <<Readers, Writers, WaitingWriters, WaitingReaders>>
<1>u. ASSUME Same, ThreadsOK', UNCHANGED <<counters, events>>
      PROVE  IInv' /\ AccessStep
  BY <1>u DEF AccessStep, counters, events, TypeOK, ThreadsOK, Events, MutualExclusion,
              CountersAreRight, NoLostWakeup
<1>1. CASE ReadAgain(t)
  <2>1. ThreadsOK'
    BY <1>1 DEF ReadAgain, TypeOK, ThreadsOK, Waiting
  <2>2. Same
    BY <1>1 DEF ReadAgain, TypeOK, IsReader,
                Readers, Writers, WaitingWriters, WaitingReaders
  <2> QED
    BY <1>1, <1>u, <2>1, <2>2 DEF ReadAgain
<1>2. CASE ReadNow(t)
  <2>1. ThreadsOK'
    BY <1>2 DEF ReadNow, TypeOK, ThreadsOK, Waiting
  <2>2. /\ Readers' = Readers \cup {t} /\ t \notin Readers /\ UNCHANGED Writers
        /\ UNCHANGED WaitingWriters /\ UNCHANGED WaitingReaders
    BY <1>2 DEF ReadNow, TypeOK, IsReader,
                Readers, Writers, WaitingWriters, WaitingReaders
  <2> QED
    BY <1>2, <2>1, <2>2, ReaderComes DEF ReadNow, events
<1>3. CASE ReadLater(t)
  <2>1. ThreadsOK'
    BY <1>3 DEF ReadLater, m_map, TypeOK, ThreadsOK, Waiting
  <2>2. /\ WaitingReaders' = WaitingReaders \cup {t} /\ t \notin WaitingReaders
        /\ UNCHANGED Readers /\ UNCHANGED Writers /\ UNCHANGED WaitingWriters
    BY <1>3 DEF ReadLater, m_map, TypeOK, IsReader,
                Readers, Writers, WaitingWriters, WaitingReaders
  <2>3. Cardinality(WaitingReaders') = Cardinality(WaitingReaders) + 1
    BY <2>2, Finite, Sizes
  <2>4. ~(Writers = {} /\ WaitingWriters = {})
    BY <1>3, FS_EmptySet DEF ReadLater, CountersAreRight
  <2> QED
    BY <1>3, <2>1, <2>2, <2>3, <2>4
    DEF AccessStep, ReadLater, Created, Event, TypeOK, ThreadsOK, Events, MutualExclusion,
        CountersAreRight, NoLostWakeup
<1>4. CASE ReadWakes(t)
  <2>1. ThreadsOK'
    BY <1>4 DEF ReadWakes, m_map, TypeOK, ThreadsOK, Waiting
  <2>2. Same
    BY <1>4 DEF ReadWakes, m_map, TypeOK, IsReader,
                Readers, Writers, WaitingWriters, WaitingReaders
  <2> QED
    BY <1>4, <1>u, <2>1, <2>2 DEF ReadWakes
<1>5. CASE ReadEnters(t) /\ numOfWriter # 0
  <2>1. ThreadsOK'
    BY <1>5 DEF ReadEnters, m_map, TypeOK, ThreadsOK, Waiting
  <2>2. Same
    BY <1>5 DEF ReadEnters, m_map, TypeOK, IsReader,
                Readers, Writers, WaitingWriters, WaitingReaders
  <2> QED
    BY <1>5, <1>u, <2>1, <2>2 DEF ReadEnters
<1>6. CASE ReadEnters(t) /\ numOfWriter = 0
  <2>1. ThreadsOK'
    BY <1>6 DEF ReadEnters, TypeOK, ThreadsOK, Waiting
  <2>2. /\ Readers' = Readers \cup {t} /\ t \notin Readers
        /\ WaitingReaders' = WaitingReaders \ {t} /\ t \in WaitingReaders
        /\ UNCHANGED Writers /\ UNCHANGED WaitingWriters
    BY <1>6 DEF ReadEnters, TypeOK, Waiting, IsReader,
                Readers, Writers, WaitingWriters, WaitingReaders
  <2> QED
    BY <1>6, <2>1, <2>2, ReaderComes DEF ReadEnters
<1>7. CASE WriteAgain(t)
  <2>1. ThreadsOK'
    BY <1>7 DEF WriteAgain, TypeOK, ThreadsOK, Waiting
  <2>2. Same
    BY <1>7 DEF WriteAgain, TypeOK, IsReader,
                Readers, Writers, WaitingWriters, WaitingReaders
  <2> QED
    BY <1>7, <1>u, <2>1, <2>2 DEF WriteAgain
<1>8. CASE UpgradeNow(t)
  <2>1. ThreadsOK'
    BY <1>8 DEF UpgradeNow, IsReader, TypeOK, ThreadsOK, Waiting
  <2>2. /\ t \in Readers /\ Readers' = Readers \ {t} /\ Writers' = Writers \cup {t}
        /\ UNCHANGED WaitingWriters /\ UNCHANGED WaitingReaders
    BY <1>8 DEF UpgradeNow, IsReader, TypeOK,
                Readers, Writers, WaitingWriters, WaitingReaders
  <2>3. Readers = {t} /\ Writers = {} /\ Writers' = {t} /\ Readers' = {}
    BY <1>8, <2>2, Finite, Sizes DEF UpgradeNow, CountersAreRight, MutualExclusion
  <2>4. Cardinality({}) = 0 /\ Cardinality({t}) = 1
    BY FS_EmptySet, FS_Singleton
  <2>5. Cardinality(WaitingWriters) \in Nat
    BY Finite, Sizes
  <2>6. AccessStep
    <3>1. Access!BeginWrite(t)
      BY <2>2, <2>3 DEF Access!BeginWrite
    <3> QED
      BY <3>1 DEF AccessStep, Access!AccessNext
  <2> QED
    BY <1>8, <2>1, <2>2, <2>3, <2>4, <2>5, <2>6
    DEF UpgradeNow, events, TypeOK, ThreadsOK, Events, MutualExclusion,
        CountersAreRight, NoLostWakeup
<1>9. CASE WriteNow(t)
  <2>1. ThreadsOK'
    BY <1>9 DEF WriteNow, TypeOK, ThreadsOK, Waiting
  <2>2. /\ UNCHANGED Readers /\ Writers' = Writers \cup {t}
        /\ UNCHANGED WaitingWriters /\ UNCHANGED WaitingReaders
    BY <1>9 DEF WriteNow, IsReader, TypeOK,
                Readers, Writers, WaitingWriters, WaitingReaders
  <2>3. Readers = {} /\ Writers = {} /\ WaitingWriters = {}
    <3>1. /\ Cardinality(Writers) \in Nat /\ Cardinality(WaitingWriters) \in Nat
          /\ Cardinality(Readers) = 0 => Readers = {}
          /\ Cardinality(Writers) = 0 => Writers = {}
          /\ Cardinality(WaitingWriters) = 0 => WaitingWriters = {}
      BY Finite, Sizes
    <3> QED
      BY <1>9, <3>1 DEF WriteNow, CountersAreRight
  <2>4. Cardinality({}) = 0 /\ Cardinality({t}) = 1
    BY FS_EmptySet, FS_Singleton
  <2>6. AccessStep
    <3>1. Access!BeginWrite(t)
      BY <2>2, <2>3 DEF Access!BeginWrite
    <3> QED
      BY <3>1 DEF AccessStep, Access!AccessNext
  <2> QED
    BY <1>9, <2>1, <2>2, <2>3, <2>4, <2>6
    DEF WriteNow, events, TypeOK, ThreadsOK, Events, MutualExclusion,
        CountersAreRight, NoLostWakeup
<1>10. CASE UpgradeLater(t)
  <2>1. ThreadsOK'
    BY <1>10 DEF UpgradeLater, WriterWait, m_map, IsReader, TypeOK, ThreadsOK, Waiting
  <2>2. /\ t \in Readers /\ Readers' = Readers \ {t}
        /\ t \notin WaitingWriters /\ WaitingWriters' = WaitingWriters \cup {t}
        /\ UNCHANGED Writers /\ UNCHANGED WaitingReaders
    BY <1>10 DEF UpgradeLater, WriterWait, m_map, IsReader, TypeOK,
                 Readers, Writers, WaitingWriters, WaitingReaders
  <2> QED
    BY <1>10, <2>1, <2>2, WriterWaits DEF UpgradeLater
<1>11. CASE WriteLater(t)
  <2>1. ThreadsOK'
    BY <1>11 DEF WriteLater, WriterWait, m_map, TypeOK, ThreadsOK, Waiting
  <2>2. /\ t \notin WaitingWriters /\ WaitingWriters' = WaitingWriters \cup {t}
        /\ UNCHANGED Readers /\ UNCHANGED Writers /\ UNCHANGED WaitingReaders
    BY <1>11 DEF WriteLater, WriterWait, m_map, IsReader, TypeOK,
                 Readers, Writers, WaitingWriters, WaitingReaders
  <2> QED
    BY <1>11, <2>1, <2>2, WriterWaits DEF WriteLater
<1>12. CASE WriteWakes(t)
  <2>1. ThreadsOK'
    BY <1>12 DEF WriteWakes, m_map, TypeOK, ThreadsOK, Waiting
  <2>2. /\ t \in WaitingWriters /\ WaitingWriters' = WaitingWriters \ {t}
        /\ Writers' = Writers \cup {t}
        /\ UNCHANGED Readers /\ UNCHANGED WaitingReaders
    BY <1>12 DEF WriteWakes, m_map, IsReader, TypeOK, Waiting,
                 Readers, Writers, WaitingWriters, WaitingReaders
  <2>3. Writers = {} /\ Readers = {} /\ Writers' = {t}
    BY <1>12, <2>2 DEF WriteWakes, Events
  <2>4. /\ Cardinality(WaitingWriters') = Cardinality(WaitingWriters) - 1
        /\ Cardinality(WaitingWriters) \in Nat
        /\ Cardinality({}) = 0 /\ Cardinality({t}) = 1
    BY <2>2, Finite, Sizes, FS_EmptySet, FS_Singleton
  <2>6. AccessStep
    <3>1. Access!BeginWrite(t)
      BY <2>2, <2>3 DEF Access!BeginWrite
    <3> QED
      BY <3>1 DEF AccessStep, Access!AccessNext
  <2> QED
    BY <1>12, <2>1, <2>2, <2>3, <2>4, <2>6
    DEF WriteWakes, counters, Event, TypeOK, ThreadsOK, Events, MutualExclusion,
        CountersAreRight, NoLostWakeup
<1>13. CASE WriteEnters(t)
  <2>1. ThreadsOK'
    BY <1>13 DEF WriteEnters, TypeOK, ThreadsOK, Waiting
  <2>2. Same
    BY <1>13 DEF WriteEnters, TypeOK, IsReader,
                 Readers, Writers, WaitingWriters, WaitingReaders
  <2> QED
    BY <1>13, <1>u, <2>1, <2>2 DEF WriteEnters
<1>14. CASE ReleaseReader(t) /\ ~(reads[t] = 1 /\ writes[t] = 0)
  <2>1. ThreadsOK'
    BY <1>14 DEF ReleaseReader, TypeOK, ThreadsOK, Waiting
  <2>2. Same
    BY <1>14 DEF ReleaseReader, TypeOK, IsReader,
                 Readers, Writers, WaitingWriters, WaitingReaders
  <2> QED
    BY <1>14, <1>u, <2>1, <2>2 DEF ReleaseReader
<1>15. CASE ReleaseReader(t) /\ reads[t] = 1 /\ writes[t] = 0
  <2>1. ThreadsOK'
    BY <1>15 DEF ReleaseReader, TypeOK, ThreadsOK, Waiting
  <2>2. /\ t \in Readers /\ Readers' = Readers \ {t} /\ UNCHANGED Writers
        /\ UNCHANGED WaitingWriters /\ UNCHANGED WaitingReaders
    BY <1>15 DEF ReleaseReader, TypeOK, IsReader,
                 Readers, Writers, WaitingWriters, WaitingReaders
  <2> QED
    BY <1>15, <2>1, <2>2, ReaderLeaves DEF ReleaseReader
<1>16. CASE ReleaseWriter(t) /\ writes[t] # 1
  <2>1. ThreadsOK'
    BY <1>16 DEF ReleaseWriter, TypeOK, ThreadsOK, Waiting
  <2>2. Same
    BY <1>16 DEF ReleaseWriter, TypeOK, IsReader,
                 Readers, Writers, WaitingWriters, WaitingReaders
  <2> QED
    BY <1>16, <1>u, <2>1, <2>2 DEF ReleaseWriter
<1>17. CASE ReleaseWriter(t) /\ writes[t] = 1
  <2>1. ThreadsOK'
    BY <1>17 DEF ReleaseWriter, TypeOK, ThreadsOK, Waiting
  <2>2. /\ t \in Writers /\ Writers' = Writers \ {t}
        /\ Readers' = IF reads[t] > 0 THEN Readers \cup {t} ELSE Readers
        /\ UNCHANGED WaitingWriters /\ UNCHANGED WaitingReaders
    BY <1>17 DEF ReleaseWriter, TypeOK, IsReader,
                 Readers, Writers, WaitingWriters, WaitingReaders
  <2>3. CASE reads[t] > 0
    <3>1. WriterRelease(TRUE)
      BY <1>17, <2>3 DEF ReleaseWriter, WriterRelease
    <3>2. Readers' = {t}
      BY <2>2, <2>3 DEF MutualExclusion
    <3> QED
      BY <2>1, <2>2, <3>1, <3>2, WriterLeaves
  <2>4. CASE ~(reads[t] > 0)
    <3>1. WriterRelease(FALSE)
      BY <1>17, <2>4 DEF ReleaseWriter, WriterRelease
    <3>2. Readers' = {}
      BY <2>2, <2>4 DEF MutualExclusion
    <3> QED
      BY <2>1, <2>2, <3>1, <3>2, WriterLeaves
  <2> QED
    BY <2>3, <2>4
<1>18. CASE ReleaseAll(t) /\ writes[t] > 0
  <2>1. ThreadsOK'
    BY <1>18 DEF ReleaseAll, TypeOK, ThreadsOK, Waiting
  <2>2. /\ t \in Writers /\ Writers' = Writers \ {t} /\ UNCHANGED Readers
        /\ UNCHANGED WaitingWriters /\ UNCHANGED WaitingReaders
    BY <1>18 DEF ReleaseAll, TypeOK, IsReader,
                 Readers, Writers, WaitingWriters, WaitingReaders
  <2>3. Readers' = {}
    BY <2>2 DEF MutualExclusion
  <2> QED
    BY <1>18, <2>1, <2>2, <2>3, WriterLeaves DEF ReleaseAll
<1>19. CASE ReleaseAll(t) /\ ~(writes[t] > 0)
  <2>1. ThreadsOK'
    BY <1>19 DEF ReleaseAll, TypeOK, ThreadsOK, Waiting
  <2>2. /\ t \in Readers /\ Readers' = Readers \ {t} /\ UNCHANGED Writers
        /\ UNCHANGED WaitingWriters /\ UNCHANGED WaitingReaders
    BY <1>19 DEF ReleaseAll, TypeOK, IsReader,
                 Readers, Writers, WaitingWriters, WaitingReaders
  <2> QED
    BY <1>19, <2>1, <2>2, ReaderLeaves DEF ReleaseAll
<1> QED
  BY <1>1, <1>2, <1>3, <1>4, <1>5, <1>6, <1>7, <1>8, <1>9, <1>10, <1>11, <1>12,
     <1>13, <1>14, <1>15, <1>16, <1>17, <1>18, <1>19 DEF LockStep
-----------------------------------------------------------------------------
\* The invariant holds of every state of the lock.
LEMMA AlwaysIInv == LockSpec => []IInv
<1>1. IInv /\ UNCHANGED lockVars => IInv'
  BY DEF lockVars, counters, events, m_map, IInv, TypeOK, Waiting, Events,
         MutualExclusion, CountersAreRight, NoLostWakeup, IsReader,
         Readers, Writers, WaitingWriters, WaitingReaders
<1> QED
  BY InitIInv, NextIInv, <1>1, PTL DEF LockSpec

\* The counters never drop below zero, the events are in one of their states,
\* and no thread holds the lock more often than it acquired it (_ReaderRelease
\* and _WriterRelease decrement without a check outside of debug builds).
THEOREM LockTypeOK == LockSpec => []TypeOK
BY AlwaysIInv, PTL DEF IInv

\* A thread writes alone, however many threads use the lock and however deep
\* they nest its use (ReaderWriterLock.h:28-29).
THEOREM LockMutualExclusion == LockSpec => []MutualExclusion
BY AlwaysIInv, PTL DEF IInv

\* The counters by which AcquireReaderLock and AcquireWriterLock decide are the
\* numbers of the threads inside and waiting.
THEOREM LockCountersAreRight == LockSpec => []CountersAreRight
BY AlwaysIInv, PTL DEF IInv

\* No release of the lock leaves a thread asleep that could go on.
THEOREM LockNoLostWakeup == LockSpec => []NoLostWakeup
BY AlwaysIInv, PTL DEF IInv

-----------------------------------------------------------------------------
(* The lock implements what ReaderWriterLock.h promises of it.             *)

\* The lock implements SharedAccess: whatever the threads do, the sets of those
\* that read and of those that write change as it allows (ReaderWriterLock.h:28-29).
THEOREM LockImplementsSharedAccess == LockSpec => ImplementsSharedAccess
<1>1. LockInit => Access!AccessInit
  BY DEF LockInit, Access!AccessInit, Readers, Writers, IsReader
<1>2. IInv /\ [LockNext]_lockVars => [Access!AccessNext]_<<Readers, Writers>>
  <2>1. CASE LockNext
    BY <2>1, NextIInv DEF AccessStep
  <2>2. CASE UNCHANGED lockVars
    BY <2>2 DEF lockVars, m_map, Readers, Writers, IsReader
  <2> QED
    BY <2>1, <2>2
<1> QED
  BY AlwaysIInv, <1>1, <1>2, PTL
  DEF LockSpec, ImplementsSharedAccess, Access!AccessSpec, Access!access
=============================================================================
