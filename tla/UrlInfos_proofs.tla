--------------------------- MODULE UrlInfos_proofs --------------------------
(***************************************************************************)
(* Facts about the operators of UrlInfos, for the proofs of the modules    *)
(* built from them.                                                        *)
(***************************************************************************)
EXTENDS UrlInfos, FiniteSetTheorems, WellFoundedInduction, TLAPS

\* A set of natural numbers has a smallest element.
LEMMA Smallest ==
  ASSUME NEW M \in SUBSET Nat, M # {}
  PROVE  \E m \in M : \A n \in M : m <= n
<1> DEFINE Less == {ss \in Nat \X Nat : ss[1] < ss[2]}
<1>1. IsWellFoundedOn(Less, Nat)
  BY NatLessThanWellFounded, Zenon DEF OpToRel
<1> HIDE DEF Less
<1>2. PICK m \in M : \A n \in M : <<n, m>> \notin Less
  BY <1>1, WFMin, Zenon
<1>3. ASSUME NEW n \in M PROVE m <= n
  <2>1. m \in Nat /\ n \in Nat /\ <<n, m>> \notin Less
    BY <1>2
  <2> QED
    BY <2>1 DEF Less
<1> QED
  BY <1>3

\* The first key of a map of log entries is one of its keys: the order of the keys
\* is total, so that there is a least one.
LEMMA FirstKeyType ==
  ASSUME NEW S \in SUBSET Rev, S # {}
  PROVE  FirstKey(S) \in S
<1> DEFINE rank(r) == 100 * LeadingDigits(r) + r
           M == {rank(r) : r \in S}
<1>0. \A r \in S : r \in 1..99
  BY UrlInfosAssumption DEF UrlInfosAssumption, Rev
<1>1. M \subseteq Nat /\ M # {}
  BY <1>0 DEF LeadingDigits
<1>2. PICK m \in M : \A n \in M : m <= n
  <2> HIDE DEF M
  <2> QED
    BY <1>1, Smallest
<1>3. PICK r \in S : m = rank(r)
  BY <1>2
<1>4. \A s \in S : s = r \/ KeyLess(r, s)
  <2> TAKE s \in S
  <2>1. rank(r) <= rank(s)
    BY <1>2, <1>3
  <2> QED
    BY <1>0, <2>1 DEF KeyLess, LeadingDigits
<1> QED
  BY <1>4 DEF FirstKey

\* RefreshAll starts from a revision the repository has, or from 0.
LEMMA RevToRefreshFromType ==
  ASSUME NEW info \in Info
  PROVE  RevToRefreshFrom(info) \in Rev0
<1>1. info.log \in SUBSET Rev /\ MaxRev \in Nat
  BY UrlInfosAssumption DEF Info, UrlInfosAssumption
<1>2. CASE info.log = {}
  BY <1>1, <1>2 DEF RevToRefreshFrom, Rev0
<1>3. CASE info.log # {}
  <2>1. FirstKey(info.log) \in Rev
    BY <1>1, <1>3, FirstKeyType
  <2> QED
    BY <1>1, <1>3, <2>1 DEF RevToRefreshFrom, Rev, Rev0
<1> QED
  BY <1>2, <1>3

\* A log request returns commits of the repository.
LEMMA LogTypes ==
  /\ \A info, h : LogRange(info, h) \subseteq Rev
  /\ \A h \in Rev0 : \A n : GetGitLog(h, n) \subseteq Rev
<1>1. \A S, n : Newest(S, n) \subseteq S /\ Oldest(S, n) \subseteq S
  BY DEF Newest, Oldest
<1>2. \A start, end : GetLog(start, end) \subseteq Rev
  <2> TAKE start, end
  <2> DEFINE range == {r \in Rev : \/ end <= r /\ r <= start
                                   \/ start <= r /\ r <= end}
  <2>1. range \subseteq Rev
    OBVIOUS
  <2>2. Newest(range, NumLogs) \subseteq range /\ Oldest(range, NumLogs) \subseteq range
    BY <1>1
  <2> QED
    BY <2>1, <2>2 DEF GetLog
<1>3. \A h \in Rev0 : 1..h \subseteq Rev
  BY UrlInfosAssumption DEF UrlInfosAssumption, Rev, Rev0
<1> QED
  BY <1>1, <1>2, <1>3 DEF LogRange, GetGitLog

\* The operators on a project yield a project.
LEMMA InfoTypes ==
  /\ NewInfo \in Info
  /\ \A info \in Info :
       /\ \A h \in Rev0 : Checked(info, h) \in Info
       /\ \A auth \in BOOLEAN : Failed(info, auth) \in Info
       /\ \A r \in Rev : StoreOne(info, r) \in Info
       /\ \A revs \in SUBSET Rev : StoreMissing(info, revs) \in Info
<1> USE DEF Info
<1>1. 0 \in Rev0 /\ 0 \in Age /\ 2 \in Age
  BY UrlInfosAssumption DEF UrlInfosAssumption, Rev0, Age
<1>2. NewInfo \in Info
  BY <1>1 DEF NewInfo
<1> SUFFICES ASSUME NEW info \in Info
             PROVE  /\ \A h \in Rev0 : Checked(info, h) \in Info
                    /\ \A auth \in BOOLEAN : Failed(info, auth) \in Info
                    /\ \A r \in Rev : StoreOne(info, r) \in Info
                    /\ \A revs \in SUBSET Rev : StoreMissing(info, revs) \in Info
  BY <1>2
<1>3. \A h \in Rev0 : Checked(info, h) \in Info
  BY <1>1 DEF Checked
<1>4. \A auth \in BOOLEAN : Failed(info, auth) \in Info
  BY <1>1 DEF Failed
<1>5. \A r \in Rev : StoreOne(info, r) \in Info
  BY DEF StoreOne
<1>6. \A revs \in SUBSET Rev : StoreMissing(info, revs) \in Info
  BY DEF StoreMissing
<1> QED
  BY <1>3, <1>4, <1>5, <1>6

\* What Save leaves of a project is a project, and nothing is unread in it that was
\* not unread before.
LEMMA TrimmedIsInfo ==
  ASSUME NEW u, NEW info \in Info
  PROVE  Trimmed(u, info) \in Info /\ Trimmed(u, info).unread \subseteq info.unread
<1> DEFINE kept == {r \in info.log : Cardinality(KeysAfter(u, info, r)) < MaxEntries}
<1>1. kept \subseteq info.log
  OBVIOUS
<1>2. Trimmed(u, info) = [info EXCEPT !.log = kept, !.unread = @ \cap kept]
  BY DEF Trimmed
<1> HIDE DEF kept
<1> QED
  BY <1>1, <1>2 DEF Info

\* A commit that is stored again keeps its read state.
LEMMA StoreKeepsRead ==
  ASSUME NEW info \in Info, NEW r \in info.log \ info.unread
  PROVE  /\ \A s : r \notin StoreOne(info, s).unread
         /\ \A revs : r \notin StoreMissing(info, revs).unread
BY DEF StoreOne, StoreMissing, Info

-----------------------------------------------------------------------------
(* What trimming leaves: the last maxentries keys, so that whoever had made*)
(* room for others has done so afterwards.                                 *)

\* The keys of a project as numbers, in their order.
Rank(u, r) == IF u \in GitUrl THEN Hash[r] ELSE 100 * LeadingDigits(r) + r

\* The ranks of the keys of a project are ordered as its keys are.
LEMMA RankOrders ==
  ASSUME NEW u, NEW r \in Rev, NEW s \in Rev
  PROVE  /\ Rank(u, r) \in Nat
         /\ KeyBefore(u, r, s) <=> Rank(u, r) < Rank(u, s)
<1>1. r \in 1..99 /\ s \in 1..99 /\ Hash[r] \in Nat /\ Hash[s] \in Nat
  BY UrlInfosAssumption DEF UrlInfosAssumption, Rev
<1> QED
  BY <1>1 DEF Rank, KeyBefore, KeyLess, LeadingDigits

\* Entries are commits of the repository, and those are finitely many.
LEMMA EntriesFinite ==
  ASSUME NEW S \in SUBSET Rev
  PROVE  IsFiniteSet(S) /\ Cardinality(S) \in Nat
<1>1. IsFiniteSet(Rev)
  BY FS_Interval, UrlInfosAssumption DEF UrlInfosAssumption, Rev
<1> QED
  BY <1>1, FS_Subset, FS_CardinalityType

\* The keys that come after one can be counted.
LEMMA KeysAfterFinite ==
  ASSUME NEW u, NEW info, info.log \in SUBSET Rev, NEW r
  PROVE  /\ IsFiniteSet(KeysAfter(u, info, r))
         /\ Cardinality(KeysAfter(u, info, r)) \in Nat
<1>1. KeysAfter(u, info, r) \in SUBSET Rev
  BY DEF KeysAfter
<1> QED
  BY <1>1, EntriesFinite

\* Of a set of keys that is not empty one comes last.
LEMMA LastKey ==
  ASSUME NEW u, NEW S \in SUBSET Rev, S # {}
  PROVE  \E m \in S : \A s \in S : ~KeyBefore(u, m, s)
<1> DEFINE After(r) == {s \in S : KeyBefore(u, r, s)}
           M == {Cardinality(After(r)) : r \in S}
<1>1. \A r \in S : After(r) \in SUBSET Rev
  OBVIOUS
<1>2. \A r \in S : IsFiniteSet(After(r)) /\ Cardinality(After(r)) \in Nat
  <2> HIDE DEF After
  <2> QED
    BY <1>1, EntriesFinite
<1>3. PICK n \in M : \A k \in M : n <= k
  <2>1. M \in SUBSET Nat /\ M # {}
    BY <1>2
  <2> HIDE DEF M
  <2> QED
    BY <2>1, Smallest
<1>4. PICK m \in S : n = Cardinality(After(m))
  BY <1>3
<1>5. ASSUME NEW s \in S, KeyBefore(u, m, s) PROVE FALSE
  <2>1. After(s) \in SUBSET After(m)
    BY <1>5, RankOrders
  <2>2. s \in After(m) /\ s \notin After(s)
    BY <1>5, RankOrders
  <2>3. Cardinality(After(m)) <= Cardinality(After(s))
    BY <1>3, <1>4
  <2> HIDE DEF After
  <2>4. Cardinality(After(s)) <= Cardinality(After(m)) /\ (Cardinality(After(s)) = Cardinality(After(m)) => After(m) = After(s))
    BY <1>2, <2>1, FS_Subset
  <2> QED
    BY <1>2, <2>2, <2>3, <2>4
<1> QED
  BY <1>4, <1>5

\* With more entries a key has no fewer others after it.
LEMMA MoreEntriesTrimmed ==
  ASSUME NEW u, NEW info, NEW more, NEW r, more.log \in SUBSET Rev, info.log \subseteq more.log,
         IsTrimmed(u, info, r)
  PROVE  IsTrimmed(u, more, r)
<1> DEFINE K == KeysAfter(u, info, r)
           L == KeysAfter(u, more, r)
<1>1. K \in SUBSET L
  BY DEF KeysAfter
<1>2. IsFiniteSet(L) /\ Cardinality(L) \in Nat /\ IsFiniteSet(K) /\ Cardinality(K) \in Nat
  BY KeysAfterFinite
<1> HIDE DEF K, L
<1>3. Cardinality(K) <= Cardinality(L)
  BY <1>1, <1>2, FS_Subset
<1>4. Cardinality(K) >= MaxEntries /\ MaxEntries \in Nat
  BY UrlInfosAssumption DEF IsTrimmed, K, UrlInfosAssumption
<1>5. Cardinality(L) >= MaxEntries
  BY <1>2, <1>3, <1>4
<1> QED
  BY <1>5 DEF IsTrimmed, L

\* A key that is not kept has maxentries of those that are kept after it: otherwise
\* the last of the others after it would have been kept.
LEMMA TrimmedStays ==
  ASSUME NEW u, NEW info \in Info, NEW r \in Rev, IsTrimmed(u, info, r)
  PROVE  IsTrimmed(u, Trimmed(u, info), r)
<1> DEFINE kept == {s \in info.log : Cardinality(KeysAfter(u, info, s)) < MaxEntries}
           K == KeysAfter(u, info, r)
           L == KeysAfter(u, Trimmed(u, info), r)
<1>1. info.log \in SUBSET Rev /\ Trimmed(u, info).log = kept /\ kept \subseteq info.log
  BY DEF Info, Trimmed
<1>2. L = {s \in K : s \in kept}
  BY <1>1 DEF KeysAfter
<1>3. MaxEntries \in Nat /\ Cardinality(K) >= MaxEntries
  BY UrlInfosAssumption DEF UrlInfosAssumption, IsTrimmed
<1>4. /\ IsFiniteSet(K) /\ Cardinality(K) \in Nat
      /\ IsFiniteSet(L) /\ Cardinality(L) \in Nat
  <2>1. Trimmed(u, info).log \in SUBSET Rev
    BY <1>1
  <2> QED
    BY <1>1, <2>1, KeysAfterFinite
<1>5. ASSUME Cardinality(L) < MaxEntries PROVE FALSE
  <2>1. K \ kept # {}
    <3>1. K = L => FALSE
      BY <1>3, <1>4, <1>5
    <3> QED
      BY <1>2, <3>1
  <2>2. K \in SUBSET Rev
    BY <1>1 DEF KeysAfter
  <2>3. PICK m \in K \ kept : \A s \in K \ kept : ~KeyBefore(u, m, s)
    BY <2>1, <2>2, LastKey
  <2>4. m \in info.log /\ m \in Rev /\ KeyBefore(u, r, m)
    BY <1>1, <2>3 DEF KeysAfter
  <2>5. KeysAfter(u, info, m) \in SUBSET K
    BY <1>1, <2>4, RankOrders DEF KeysAfter
  <2>6. \A s \in KeysAfter(u, info, m) : KeyBefore(u, m, s)
    BY DEF KeysAfter
  <2>7. KeysAfter(u, info, m) \in SUBSET L
    BY <1>2, <2>3, <2>5, <2>6
  <2>8. Cardinality(KeysAfter(u, info, m)) <= Cardinality(L) /\ Cardinality(KeysAfter(u, info, m)) \in Nat
    BY <1>1, <1>4, <2>7, FS_Subset, KeysAfterFinite
  <2>9. m \in kept
    BY <1>3, <1>4, <1>5, <2>4, <2>8
  <2> QED
    BY <2>3, <2>9
<1> QED
  BY <1>3, <1>4, <1>5 DEF IsTrimmed

\* Whatever Save erases counts as trimmed.
LEMMA TrimKeeps ==
  ASSUME NEW u, NEW info \in Info, NEW r \in Rev, r \in info.log \/ IsTrimmed(u, info, r)
  PROVE  r \in Trimmed(u, info).log \/ IsTrimmed(u, Trimmed(u, info), r)
<1>1. CASE IsTrimmed(u, info, r)
  BY <1>1, TrimmedStays
<1>2. CASE r \in info.log /\ ~IsTrimmed(u, info, r)
  <2>1. Cardinality(KeysAfter(u, info, r)) < MaxEntries
    <3>1. Cardinality(KeysAfter(u, info, r)) \in Nat /\ MaxEntries \in Nat
      BY KeysAfterFinite, UrlInfosAssumption DEF UrlInfosAssumption, Info
    <3> QED
      BY <1>2, <3>1 DEF IsTrimmed
  <2> QED
    BY <1>2, <2>1 DEF Trimmed, Info
<1> QED
  BY <1>1, <1>2

-----------------------------------------------------------------------------
(* What a request for the log returns.                                     *)

\* The n newest commits of a log up to h are those less than n before h.
LEMMA NewestCovers ==
  ASSUME NEW h \in Rev, NEW n \in Nat, NEW r \in 1..h, h - r < n
  PROVE  r \in Newest(1..h, n)
<1>1. MaxRev \in Nat /\ h \in Nat /\ r \in Nat /\ r <= h
  BY UrlInfosAssumption DEF UrlInfosAssumption, Rev
<1>2. {s \in 1..h : s > r} = (r + 1)..h
  BY <1>1
<1>3. Cardinality((r + 1)..h) = h - r
  BY <1>1, FS_Interval
<1> QED
  BY <1>2, <1>3 DEF Newest

\* A check that goes on from a revision after 0 fetches everything up to headrev; one
\* that begins at 0 fetches the NumLogs newest.
LEMMA LogRangeCovers ==
  ASSUME NEW info \in Info, info.startfromrev = 0, NEW h \in Rev, NEW r \in Rev,
         info.lastcheckedrev < r, r <= h,
         info.lastcheckedrev # 0 \/ h - r < NumLogs
  PROVE  r \in LogRange(info, h)
<1> DEFINE L == info.lastcheckedrev
<1>1. MaxRev \in Nat /\ h \in 1..MaxRev /\ r \in 1..MaxRev /\ L \in 0..MaxRev /\ NumLogs \in Nat
  BY UrlInfosAssumption DEF UrlInfosAssumption, Rev, Rev0, Info
<1>2. LogRange(info, h) = GetLog(h, L + 1)
  BY DEF LogRange
<1>3. L < r /\ r <= h /\ (L # 0 \/ h - r < NumLogs)
  OBVIOUS
<1> HIDE DEF L
<1>4. CASE L # 0
  <2>1. L + 1 <= r /\ r <= h /\ ~(h <= 1 \/ L + 1 <= 1)
    BY <1>1, <1>3, <1>4
  <2> QED
    BY <1>2, <2>1 DEF GetLog
<1>5. CASE L = 0
  <2> DEFINE range == {q \in Rev : \/ 1 <= q /\ q <= h
                                   \/ h <= q /\ q <= 1}
  <2>1. range = 1..h
    <3>1. ASSUME NEW q \in Rev PROVE ((1 <= q /\ q <= h) \/ (h <= q /\ q <= 1)) <=> q \in 1..h
      BY <1>1 DEF Rev
    <3>2. \A q \in 1..h : q \in Rev
      BY <1>1 DEF Rev
    <3> QED
      BY <3>1, <3>2
  <2>2. 1 <= h /\ L + 1 = 1
    BY <1>1, <1>5
  <2>3. GetLog(h, 1) = Newest(range, NumLogs)
    <3>1. GetLog(h, 1) = IF h <= 1 \/ 1 <= 1
                         THEN IF 1 <= h THEN Newest(range, NumLogs) ELSE Oldest(range, NumLogs)
                         ELSE range
      BY Zenon DEF GetLog
    <3>2. (h <= 1 \/ 1 <= 1) /\ 1 <= h
      BY <2>2
    <3> HIDE DEF range
    <3> QED
      BY <3>1, <3>2
  <2>4. r \in 1..h /\ h - r < NumLogs
    BY <1>1, <1>3, <1>5
  <2> QED
    BY <1>1, <1>2, <2>1, <2>2, <2>3, <2>4, NewestCovers
<1> QED
  BY <1>4, <1>5

\* The log of a Git project goes back GitLimit commits.
LEMMA GitLogCovers ==
  ASSUME NEW h \in Rev, NEW r \in 1..h, h - r < GitLimit
  PROVE  r \in GetGitLog(h, GitLimit)
BY NewestCovers, UrlInfosAssumption DEF GetGitLog, UrlInfosAssumption

\* Nothing above headrev is returned if the thread asks for what follows an earlier
\* revision.
LEMMA LogRangeBelowHead ==
  ASSUME NEW info \in Info, info.startfromrev = 0, NEW h \in Rev, info.lastcheckedrev < h
  PROVE  LogRange(info, h) \subseteq 1..h
<1> DEFINE L == info.lastcheckedrev
<1>1. MaxRev \in Nat /\ h \in 1..MaxRev /\ L \in 0..MaxRev /\ L < h
  BY UrlInfosAssumption DEF UrlInfosAssumption, Rev, Rev0, Info
<1>2. LogRange(info, h) = GetLog(h, L + 1)
  BY DEF LogRange
<1> HIDE DEF L
<1> DEFINE range == {r \in Rev : \/ L + 1 <= r /\ r <= h
                                 \/ h <= r /\ r <= L + 1}
<1>3. range \subseteq 1..h
  BY <1>1 DEF Rev
<1>4. GetLog(h, L + 1) = IF h <= 1 \/ L + 1 <= 1
                         THEN IF L + 1 <= h THEN Newest(range, NumLogs)
                                            ELSE Oldest(range, NumLogs)
                         ELSE range
  BY Zenon DEF GetLog
<1>5. Newest(range, NumLogs) \subseteq range /\ Oldest(range, NumLogs) \subseteq range
  BY DEF Newest, Oldest
<1> HIDE DEF range
<1> QED
  BY <1>2, <1>3, <1>4, <1>5
=============================================================================
