------------------------------ MODULE UrlInfos ------------------------------
(***************************************************************************)
(* The data the monitor and the user interface share: one CUrlInfo for     *)
(* every monitored project (UrlInfo.h), and the operators that compute     *)
(* what a log request to the server returns and what a check leaves in a   *)
(* project.                                                                *)
(*                                                                         *)
(* Projects are numbered in the order of their keys, which is the order in *)
(* which std::map iterates.  Commits are numbered 1, 2, ...: the Subversion*)
(* revision, and for Git the position of the commit on the branch, which   *)
(* stands for its hash.                                                    *)
(***************************************************************************)
EXTENDS Naturals, FiniteSets

CONSTANTS
  Url,        \* the keys of the projects that may be monitored
  GitUrl,     \* those of them that are Git repositories
  MaxRev,     \* bound: no repository grows beyond this revision
  NumLogs,    \* registry value NumLogs: entries fetched by a limited request
  GitLimit,   \* the 100 of GetGitLog(..., newCommits, 100)
  MaxEntries, \* maxentries of a project: what Save leaves of its entries
  Hash,       \* the hashes of Git commits: numbers, in the order of the hashes
  Ignored     \* the commits the include/ignore user lists and the ignore
              \* pattern of a project filter out

ASSUME UrlInfosAssumption ==
  /\ Url \subseteq Nat \ {0}
  /\ GitUrl \subseteq Url
  /\ MaxRev \in 1..99
  /\ NumLogs \in Nat \ {0}
  /\ GitLimit \in Nat \ {0}
  /\ MaxEntries \in Nat
  /\ Hash \in [1..MaxRev -> Nat]
  /\ \A r, s \in 1..MaxRev : Hash[r] = Hash[s] => r = s
  /\ Ignored \subseteq Nat

NoUrl == 0

Rev  == 1..MaxRev
Rev0 == 0..MaxRev

(* How long ago a project was checked, which is all that lastchecked is    *)
(* used for: 0, checked within minutesinterval; 1, longer ago than         *)
(* minutesinterval but within minminutesinterval, the minimum the server   *)
(* imposes; 2, longer ago than both, or never (lastchecked = 0).           *)
Age == 0..2

(* error is whether the error text is non-empty, notAuthorized whether     *)
(* errNr is SVN_ERR_RA_NOT_AUTHORIZED; log the keys of logentries and      *)
(* unread those of them whose read flag is not set.                        *)
Info ==
  [ lastcheckedrev  : Rev0,
    lastcheckedhash : Rev0,
    startfromrev    : Rev0,
    age             : Age,
    error           : BOOLEAN,
    notAuthorized   : BOOLEAN,
    monitored       : BOOLEAN,
    log             : SUBSET Rev,
    unread          : SUBSET Rev ]

(* A project as the constructor CUrlInfo() and the project dialog leave it.*)
NewInfo ==
  [ lastcheckedrev  |-> 0,
    lastcheckedhash |-> 0,
    startfromrev    |-> 0,
    age             |-> 2,
    error           |-> FALSE,
    notAuthorized   |-> FALSE,
    monitored       |-> TRUE,
    log             |-> {},
    unread          |-> {} ]

-----------------------------------------------------------------------------
(* logentries is a std::map from std::wstring: revisions are ordered as    *)
(* decimal strings, "10" before "9".                                       *)
LeadingDigits(r) == IF r < 10 THEN 10 * r ELSE r

KeyLess(r, s) ==
  \/ LeadingDigits(r) < LeadingDigits(s)
  \/ LeadingDigits(r) = LeadingDigits(s) /\ r < s

\* For Git the keys are hashes.
KeyBefore(u, r, s) == IF u \in GitUrl THEN Hash[r] < Hash[s] ELSE KeyLess(r, s)

FirstKey(S) == CHOOSE r \in S : \A s \in S : s = r \/ KeyLess(r, s)

(* The n newest, and the n oldest, of a set of commits.                    *)
Newest(S, n) == {r \in S : Cardinality({s \in S : s > r}) < n}
Oldest(S, n) == {r \in S : Cardinality({s \in S : s < r}) < n}

(* SVN::GetLog: the commits between two revisions, from the first towards  *)
(* the second, limited to NumLogs of them when either is 1 or less.        *)
GetLog(start, end) ==
  LET range == {r \in Rev : \/ end <= r /\ r <= start
                            \/ start <= r /\ r <= end}
  IN  IF start <= 1 \/ end <= 1
      THEN IF end <= start THEN Newest(range, NumLogs) ELSE Oldest(range, NumLogs)
      ELSE range

\* The mutant asks for one commit less.
LogRangeBelow(info, headrev) ==
  GetLog(IF info.startfromrev # 0 THEN info.startfromrev ELSE headrev - 1,
         info.lastcheckedrev + 1)

(* The request a check makes for a Subversion project it saw as info.      *)
LogRange(info, headrev) ==
  GetLog(IF info.startfromrev # 0 THEN info.startfromrev ELSE headrev,
         info.lastcheckedrev + 1)

(* Git::GetGitLog: the newest commits of the remote branch.                *)
GetGitLog(headrev, n) == Newest(1..headrev, n)

\* The mutant forgets that there may be no entry.
RevToRefreshFromUnchecked(info) == FirstKey(IF info.log = {} THEN {0} ELSE info.log) - 1

(* RefreshAll: the revision before the lowest one there is.  The code takes*)
(* the first entry, which is the lowest one only among numbers of the same *)
(* length.                                                                 *)
RevToRefreshFrom(info) == IF info.log = {} THEN 0 ELSE FirstKey(info.log) - 1

-----------------------------------------------------------------------------
(* What the critical sections of a check write into a project.             *)

\* The log was fetched: the project is up to date with headrev.
Checked(info, headrev) ==
  [info EXCEPT !.lastcheckedrev = headrev, !.startfromrev = 0, !.age = 0]

\* The connection failed, auth says whether with 'not authorized'.
Failed(info, auth) ==
  [info EXCEPT !.age = 0, !.error = TRUE, !.notAuthorized = auth]

\* The mutant forgets the read state of a commit that is fetched again.
StoreOneUnread(info, rev) ==
  [info EXCEPT !.log = @ \cup {rev},
               !.unread = IF rev \in Ignored THEN @ ELSE @ \cup {rev},
               !.error = FALSE]

\* A commit that is already there keeps its read state; a new one is unread
\* unless the filters of the project match it.
StoreOne(info, rev) ==
  [info EXCEPT !.log = @ \cup {rev},
               !.unread = IF rev \in info.log \cup Ignored THEN @ ELSE @ \cup {rev},
               !.error = FALSE]

\* The mutant leaves out the commits that the filters match.
StoreMissingFiltered(info, revs) ==
  [info EXCEPT !.log = @ \cup (revs \ Ignored),
               !.unread = @ \cup (revs \ (info.log \cup Ignored))]

\* All commits that are not there yet are added, unread unless filtered out.
StoreMissing(info, revs) ==
  [info EXCEPT !.log = @ \cup revs,
               !.unread = @ \cup (revs \ (info.log \cup Ignored))]

-----------------------------------------------------------------------------
(* What CUrlInfo::Save leaves of a project: the last maxentries entries in *)
(* the order of their keys, which need not be the newest.                  *)

KeysAfter(u, info, r) == {s \in info.log : KeyBefore(u, r, s)}

\* The mutant erases one entry too many.
TrimmedTooFar(u, info) ==
  LET kept == {r \in info.log : Cardinality(KeysAfter(u, info, r)) + 1 < MaxEntries}
  IN  [info EXCEPT !.log = kept, !.unread = @ \cap kept]

Trimmed(u, info) ==
  LET kept == {r \in info.log : Cardinality(KeysAfter(u, info, r)) < MaxEntries}
  IN  [info EXCEPT !.log = kept, !.unread = @ \cap kept]

\* An entry of that key would not have been kept.
IsTrimmed(u, info, r) == Cardinality(KeysAfter(u, info, r)) >= MaxEntries
=============================================================================
