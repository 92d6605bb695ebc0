----------------------------- MODULE AssetCache -----------------------------
(***************************************************************************)
(* internal/serve/cache.go and its two users: handleAssets, which uploads  *)
(* an asset set (handlers.go), and lint, which copies one (lint.go).       *)
(*                                                                         *)
(* An upload stores at most one set, in a directory of its own, so that    *)
(* directory, its cacheEntry and its keyLock are named by the upload.  A   *)
(* step is one critical section of assetCache.mu or one operation on the   *)
(* file system; bytes are what the budget counts, the rest of a set's      *)
(* content is left out.                                                    *)
(***************************************************************************)
EXTENDS Naturals, FiniteSets

CONSTANTS
  Uploads,     \* the PUT requests
  Lints,       \* the lints that may copy a set, each many times
  Keys,        \* cache keys
  Prints,      \* fingerprints
  Sizes,       \* declared sizes of the files in an archive
  MaxBytes,    \* assetCache.max, --cache-max-bytes
  Workers,     \* --workers, the uploads at a time
  None,        \* no upload: nil, or a key that is not in the map
  MaxFiles     \* bound: files in one archive

ASSUME BudgetAssumption  == MaxBytes \in Nat /\ Sizes \subseteq Nat /\ MaxFiles \in Nat
ASSUME WorkersAssumption == Workers \in Nat \ {0}
ASSUME ActorsAssumption  ==
  /\ IsFiniteSet(Uploads) /\ IsFiniteSet(Lints) /\ IsFiniteSet(Keys)
  /\ Uploads \cap Lints = {} /\ None \notin Uploads

VARIABLES
  entries,     \* per key: the upload whose set assetCache.entries holds, or None
  older,       \* the pairs of keys with an entry, the first by lastUsed before the second
  used,        \* assetCache.used
  keyLocks,    \* per key: the keyLock in assetCache.keyLocks, or None
  refs,        \* per keyLock: its refs
  holder,      \* per keyLock: the upload that has locked it, or None
  stage,       \* per upload: where it is
  key, print,  \* per upload: what it is for
  lock,        \* per upload: the keyLock it found or made
  files, claim, reserved,   \* per upload: files so far, the next one, the claims
  place,       \* per directory: staging, stored, or deleted
  disk,        \* per directory: the bytes in it
  size,        \* per directory: the bytes of its complete files; the entry's size
  stale,       \* the directories whose cacheEntry is stale
  readers,     \* per directory: its cacheEntry's readers
  reading,     \* per lint: the directory it copies from, or None
  gone,        \* per upload and lint: the retired directories it has to remove
  outcome      \* per upload: the answer

lockVars   == <<keyLocks, refs, holder, lock>>
uploadVars == <<stage, key, print, files, claim, reserved, outcome>>
dirVars    == <<place, disk, size>>
entryVars  == <<entries, older, stale, readers>>
vars == <<lockVars, uploadVars, dirVars, entryVars, used, reading, gone>>

Actors == Uploads \cup Lints
Dirs   == Uploads \cup {None}
Stages == {"idle", "lockKey", "lock", "holds", "extract", "write", "install", "clean",
           "discard", "unreserve", "unlock", "unref", "done"}
LockedStages == {"holds", "extract", "write", "install", "clean", "discard", "unreserve", "unlock"}
Outcomes == {"none", "busy", "stored", "rejected", "too_large", "cache_full"}

TypeOK ==
  /\ entries \in [Keys -> Dirs] /\ older \subseteq Keys \X Keys /\ used \in Nat
  /\ keyLocks \in [Keys -> Dirs] /\ refs \in [Uploads -> Nat]
  /\ holder \in [Uploads -> Dirs] /\ lock \in [Uploads -> Dirs]
  /\ stage \in [Uploads -> Stages]
  /\ key \in [Uploads -> Keys] /\ print \in [Uploads -> Prints]
  /\ files \in [Uploads -> 0 .. MaxFiles] /\ claim \in [Uploads -> Sizes \cup {0}]
  /\ reserved \in [Uploads -> 0 .. MaxBytes]
  /\ place \in [Uploads -> {"none", "staging", "stored", "deleted"}]
  /\ disk \in [Uploads -> 0 .. MaxBytes] /\ size \in [Uploads -> 0 .. MaxBytes]
  /\ stale \subseteq Uploads /\ readers \in [Uploads -> 0 .. Cardinality(Lints)]
  /\ reading \in [Lints -> Dirs] /\ gone \in [Actors -> SUBSET Uploads]
  /\ outcome \in [Uploads -> Outcomes]

Init ==
  /\ entries = [k \in Keys |-> None] /\ older = {} /\ used = 0
  /\ keyLocks = [k \in Keys |-> None] /\ refs = [u \in Uploads |-> 0]
  /\ holder = [u \in Uploads |-> None] /\ lock = [u \in Uploads |-> None]
  /\ stage = [u \in Uploads |-> "idle"]
  /\ key \in [Uploads -> Keys] /\ print \in [Uploads -> Prints]
  /\ files = [u \in Uploads |-> 0] /\ claim = [u \in Uploads |-> 0]
  /\ reserved = [u \in Uploads |-> 0]
  /\ place = [u \in Uploads |-> "none"] /\ disk = [u \in Uploads |-> 0]
  /\ size = [u \in Uploads |-> 0]
  /\ stale = {} /\ readers = [u \in Uploads |-> 0]
  /\ reading = [l \in Lints |-> None] /\ gone = [a \in Actors |-> {}]
  /\ outcome = [u \in Uploads |-> "none"]

(***************************************************************************)
(* The entries: acquire, release, remove, and the order of lastUsed.       *)
(***************************************************************************)

Present == {k \in Keys : entries[k] # None}

\* Key k is used now; the keys of K have no entry any more.
Touched(k) == {p \in older : k \notin {p[1], p[2]}} \cup {<<j, k>> : j \in Present \ {k}}
Without(K) == {p \in older : p[1] \notin K /\ p[2] \notin K}

\* holds, and the test of acquire.
HoldsPrint(k, f) == entries[k] # None /\ print[entries[k]] = f

\* acquire: the entry of k when it holds fingerprint f.  A miss changes nothing.
Acquire(l, k, f) ==
  LET d == entries[k] IN
  /\ reading[l] = None /\ gone[l] = {}
  /\ HoldsPrint(k, f)
  /\ readers' = [readers EXCEPT ![d] = @ + 1]
  /\ older' = Touched(k)
  /\ reading' = [reading EXCEPT ![l] = d]
  /\ UNCHANGED <<lockVars, uploadVars, dirVars, entries, stale, used, gone>>

\* Mutant: the last reader leaves a stale entry where it is.
ReleaseKeeps(l) ==
  LET d == reading[l] IN
  /\ d # None
  /\ readers' = [readers EXCEPT ![d] = @ - 1]
  /\ reading' = [reading EXCEPT ![l] = None]
  /\ UNCHANGED <<lockVars, uploadVars, dirVars, entries, older, stale, used, gone>>

\* release: the last reader of a stale entry removes it.
Release(l) ==
  LET d == reading[l] IN
  /\ d # None
  /\ readers' = [readers EXCEPT ![d] = @ - 1]
  /\ gone' = [gone EXCEPT ![l] = IF d \in stale /\ readers[d] = 1 THEN {d} ELSE {}]
  /\ reading' = [reading EXCEPT ![l] = None]
  /\ UNCHANGED <<lockVars, uploadVars, dirVars, entries, older, stale, used>>

\* remove, one entry after the other (in any order): the directory first, then
\* its bytes return to the budget.
RemoveDir(a, d) ==
  /\ d \in gone[a] /\ \A e \in gone[a] : place[e] = "stored"
  /\ place' = [place EXCEPT ![d] = "deleted"] /\ disk' = [disk EXCEPT ![d] = 0]
  /\ UNCHANGED <<lockVars, uploadVars, size, entryVars, used, reading, gone>>
Credit(a, d) ==
  /\ d \in gone[a] /\ place[d] = "deleted"
  /\ used' = used - size[d]
  /\ gone' = [gone EXCEPT ![a] = @ \ {d}]
  /\ UNCHANGED <<lockVars, uploadVars, dirVars, entryVars, reading>>

Removal(a) == \E d \in Uploads : RemoveDir(a, d) \/ Credit(a, d)

\* retireLocked, of the entries of all keys of K.
Retire(K) ==
  /\ entries' = [k \in Keys |-> IF k \in K THEN None ELSE entries[k]]
  /\ stale' = stale \cup {entries[k] : k \in K}

(***************************************************************************)
(* An upload: handleAssets, put, extractAssets, reserve, install.          *)
(***************************************************************************)

Go(u, s) == stage' = [stage EXCEPT ![u] = s]
End(u, s, o) == Go(u, s) /\ outcome' = [outcome EXCEPT ![u] = o]

Active == {u \in Uploads : stage[u] \notin {"idle", "done"}}

\* handleAssets, the upload slots: no waiting.
Start(u) ==
  /\ stage[u] = "idle"
  /\ \/ Cardinality(Active) < Workers /\ Go(u, "lockKey") /\ UNCHANGED outcome
     \/ Cardinality(Active) >= Workers /\ End(u, "done", "busy")
  /\ UNCHANGED <<lockVars, key, print, files, claim, reserved, dirVars, entryVars, used,
                 reading, gone>>

\* lockKey, under assetCache.mu: find or make the key's lock.
LockKey(u) ==
  LET k == key[u]
      x == IF keyLocks[k] = None THEN u ELSE keyLocks[k] IN
  /\ stage[u] = "lockKey" /\ Go(u, "lock")
  /\ keyLocks' = [keyLocks EXCEPT ![k] = x]
  /\ refs' = [refs EXCEPT ![x] = @ + 1]
  /\ lock' = [lock EXCEPT ![u] = x]
  /\ UNCHANGED <<holder, key, print, files, claim, reserved, outcome, dirVars, entryVars,
                 used, reading, gone>>

\* lockKey, l.mu.Lock().
Lock(u) ==
  /\ stage[u] = "lock" /\ holder[lock[u]] = None
  /\ holder' = [holder EXCEPT ![lock[u]] = u] /\ Go(u, "holds")
  /\ UNCHANGED <<keyLocks, refs, lock, key, print, files, claim, reserved, outcome, dirVars,
                 entryVars, used, reading, gone>>

\* put: a no-op when the key holds the fingerprint, else a staging directory
\* (MkdirTemp may fail).
Holds(u) ==
  /\ stage[u] = "holds"
  /\ \/ /\ HoldsPrint(key[u], print[u])
        /\ End(u, "unlock", "stored") /\ UNCHANGED place
     \/ /\ ~HoldsPrint(key[u], print[u])
        /\ \/ Go(u, "extract") /\ place' = [place EXCEPT ![u] = "staging"] /\ UNCHANGED outcome
           \/ End(u, "unlock", "rejected") /\ UNCHANGED place
  /\ UNCHANGED <<lockVars, key, print, files, claim, reserved, disk, size, entryVars, used,
                 reading, gone>>

\* The sum of f over S, byte by byte.
Total(f, S) == Cardinality(UNION {{x} \X (1 .. f[x]) : x \in S})

\* Mutant: entries that lints read may go, too.
UnreadOrRead == Present

\* reserve: the keys whose entries may go,
Unread == {k \in Present : readers[entries[k]] = 0}

\* Mutant: the own key's entry goes in its turn.
SoonerInTurn(k, i, j) == <<i, j>> \in older

\* least recently used first, key k's own entry last; and sorted so.
Sooner(k, i, j) == i # k /\ (j = k \/ <<i, j>> \in older)
Candidates(k) ==
  LET n == Cardinality(Unread) IN
  {c \in [1 .. n -> Unread] :
     (\A j \in Unread : \E x \in 1 .. n : c[x] = j) /\ \A x, y \in 1 .. n : x < y => Sooner(k, c[x], c[y])}

\* Without the entries of K there is room for n bytes more.
Room(K, n) == used + n <= MaxBytes + Total(size, {entries[k] : k \in K})

\* The shortest run of candidates that makes room.
Evicts(c, n, i) ==
  LET first(m) == {c[x] : x \in 1 .. m} IN
  Room(first(i), n) /\ \A m \in 0 .. i - 1 : ~Room(first(m), n)

\* extractAssets, the next file of the archive, up to the end of reserve's
\* critical section.
NextFile(u, n) ==
  /\ stage[u] = "extract" /\ files[u] < MaxFiles
  /\ files' = [files EXCEPT ![u] = @ + 1]
  /\ claim' = [claim EXCEPT ![u] = n]
  /\ \/ /\ n > MaxBytes - size[u]
        /\ End(u, "discard", "too_large")
        /\ UNCHANGED <<reserved, entryVars, used, gone>>
     \/ /\ n <= MaxBytes - size[u] /\ ~Room(Unread, n)
        /\ End(u, "discard", "cache_full")
        /\ UNCHANGED <<reserved, entryVars, used, gone>>
     \/ /\ n <= MaxBytes - size[u]
        /\ \E c \in Candidates(key[u]), i \in 0 .. Cardinality(Unread) :
             LET K == {c[x] : x \in 1 .. i} IN
             /\ Evicts(c, n, i)
             /\ Retire(K) /\ older' = Without(K)
             /\ gone' = [gone EXCEPT ![u] = {entries[k] : k \in K}]
        /\ Go(u, "write")
        /\ reserved' = [reserved EXCEPT ![u] = @ + n]
        /\ used' = used + n
        /\ UNCHANGED <<readers, outcome>>
  /\ UNCHANGED <<lockVars, key, print, dirVars, reading>>

\* Mutant: the file is written before what was evicted for it is removed.
WriteFileEarly(u) ==
  /\ stage[u] = "write"
  /\ disk' = [disk EXCEPT ![u] = @ + claim[u]]
  /\ size' = [size EXCEPT ![u] = @ + claim[u]]
  /\ Go(u, "extract")
  /\ UNCHANGED <<lockVars, key, print, files, claim, reserved, outcome, place, entryVars,
                 used, reading, gone>>

\* writeAssetFile, once reserve has removed what it retired: the whole file, or
\* a part of it when the body, the time or the disk ends.
WriteFile(u) ==
  /\ stage[u] = "write" /\ gone[u] = {}
  /\ \/ /\ disk' = [disk EXCEPT ![u] = @ + claim[u]]
        /\ size' = [size EXCEPT ![u] = @ + claim[u]]
        /\ Go(u, "extract") /\ UNCHANGED outcome
     \/ /\ \E m \in 0 .. claim[u] : disk' = [disk EXCEPT ![u] = @ + m]
        /\ End(u, "discard", "rejected") /\ UNCHANGED size
  /\ UNCHANGED <<lockVars, key, print, files, claim, reserved, place, entryVars, used,
                 reading, gone>>

\* The archive ends, or turns out not to be one that is accepted.
EndOfArchive(u) ==
  /\ stage[u] = "extract"
  /\ \/ Go(u, "install") /\ UNCHANGED outcome
     \/ End(u, "discard", "rejected")
  /\ UNCHANGED <<lockVars, key, print, files, claim, reserved, dirVars, entryVars, used,
                 reading, gone>>

\* Mutants: the reservation is returned but the set is not counted; the old entry
\* is removed although a lint reads it.
InstallUncounted(u) ==
  LET k == key[u]
      d == entries[k] IN
  /\ stage[u] = "install" /\ End(u, "clean", "stored")
  /\ place' = [place EXCEPT ![u] = "stored"]
  /\ entries' = [entries EXCEPT ![k] = u]
  /\ stale' = stale \cup ({d} \ {None})
  /\ older' = Touched(k)
  /\ used' = used - reserved[u] /\ reserved' = [reserved EXCEPT ![u] = 0]
  /\ gone' = [gone EXCEPT ![u] = IF d # None /\ readers[d] = 0 THEN {d} ELSE {}]
  /\ UNCHANGED <<lockVars, key, print, files, claim, disk, size, reading, readers>>
InstallOverReader(u) ==
  LET k == key[u]
      d == entries[k] IN
  /\ stage[u] = "install" /\ End(u, "clean", "stored")
  /\ place' = [place EXCEPT ![u] = "stored"]
  /\ entries' = [entries EXCEPT ![k] = u]
  /\ stale' = stale \cup ({d} \ {None})
  /\ older' = Touched(k)
  /\ used' = used + size[u] - reserved[u] /\ reserved' = [reserved EXCEPT ![u] = 0]
  /\ gone' = [gone EXCEPT ![u] = {d} \ {None}]
  /\ UNCHANGED <<lockVars, key, print, files, claim, disk, size, reading, readers>>

\* install: the rename may fail; otherwise the entry is swapped, and the old
\* one is removed unless a lint reads it.  What was reserved becomes the size.
Install(u) ==
  LET k == key[u]
      d == entries[k] IN
  /\ stage[u] = "install"
  /\ \/ /\ End(u, "discard", "rejected")
        /\ UNCHANGED <<place, entryVars, used, reserved, gone>>
     \/ /\ End(u, "clean", "stored")
        /\ place' = [place EXCEPT ![u] = "stored"]
        /\ entries' = [entries EXCEPT ![k] = u]
        /\ stale' = stale \cup ({d} \ {None})
        /\ older' = Touched(k)
        /\ used' = used + size[u] - reserved[u]
        /\ reserved' = [reserved EXCEPT ![u] = 0]
        /\ gone' = [gone EXCEPT ![u] = IF d # None /\ readers[d] = 0 THEN {d} ELSE {}]
        /\ UNCHANGED readers
  /\ UNCHANGED <<lockVars, key, print, files, claim, disk, size, reading>>

\* install returns when it has removed the old entry.
Clean(u) ==
  /\ stage[u] = "clean" /\ gone[u] = {} /\ Go(u, "unlock")
  /\ UNCHANGED <<lockVars, key, print, files, claim, reserved, outcome, dirVars, entryVars,
                 used, reading, gone>>

\* Mutants: the staging directory stays; the reservation is never returned.
DiscardNothing(u) ==
  /\ stage[u] = "discard" /\ Go(u, "unreserve")
  /\ UNCHANGED <<lockVars, key, print, files, claim, reserved, outcome, dirVars, entryVars,
                 used, reading, gone>>
UnreserveNothing(u) ==
  /\ stage[u] = "unreserve" /\ Go(u, "unlock")
  /\ reserved' = [reserved EXCEPT ![u] = 0]
  /\ UNCHANGED <<lockVars, key, print, files, claim, outcome, dirVars, entryVars, used,
                 reading, gone>>

\* put fails: the staging directory first, then unreserve.
Discard(u) ==
  /\ stage[u] = "discard" /\ Go(u, "unreserve")
  /\ place' = [place EXCEPT ![u] = "deleted"] /\ disk' = [disk EXCEPT ![u] = 0]
  /\ UNCHANGED <<lockVars, key, print, files, claim, reserved, outcome, size, entryVars,
                 used, reading, gone>>
Unreserve(u) ==
  /\ stage[u] = "unreserve" /\ Go(u, "unlock")
  /\ used' = used - reserved[u]
  /\ reserved' = [reserved EXCEPT ![u] = 0]
  /\ UNCHANGED <<lockVars, key, print, files, claim, outcome, dirVars, entryVars, reading,
                 gone>>

\* Mutant: only an upload that stored its set unlocks.
UnlockStored(u) ==
  /\ stage[u] = "unlock" /\ Go(u, "unref")
  /\ holder' = IF outcome[u] = "stored" THEN [holder EXCEPT ![lock[u]] = None] ELSE holder
  /\ UNCHANGED <<keyLocks, refs, lock, key, print, files, claim, reserved, outcome, dirVars,
                 entryVars, used, reading, gone>>

\* The deferred unlock of lockKey: the lock, then its place in the map.
Unlock(u) ==
  /\ stage[u] = "unlock" /\ Go(u, "unref")
  /\ holder' = [holder EXCEPT ![lock[u]] = None]
  /\ UNCHANGED <<keyLocks, refs, lock, key, print, files, claim, reserved, outcome, dirVars,
                 entryVars, used, reading, gone>>

\* Mutant: the lock leaves the map although others wait for it.
UnrefAlways(u) ==
  LET x == lock[u] IN
  /\ stage[u] = "unref" /\ Go(u, "done")
  /\ refs' = [refs EXCEPT ![x] = @ - 1]
  /\ keyLocks' = [keyLocks EXCEPT ![key[u]] = None]
  /\ UNCHANGED <<holder, lock, key, print, files, claim, reserved, outcome, dirVars,
                 entryVars, used, reading, gone>>
Unref(u) ==
  LET x == lock[u] IN
  /\ stage[u] = "unref" /\ Go(u, "done")
  /\ refs' = [refs EXCEPT ![x] = @ - 1]
  /\ keyLocks' = [keyLocks EXCEPT ![key[u]] = IF refs[x] = 1 THEN None ELSE @]
  /\ UNCHANGED <<holder, lock, key, print, files, claim, reserved, outcome, dirVars,
                 entryVars, used, reading, gone>>

UploadStep(u) ==
  \/ LockKey(u) \/ Lock(u) \/ Holds(u) \/ \E n \in Sizes : NextFile(u, n)
  \/ WriteFile(u) \/ EndOfArchive(u) \/ Install(u) \/ Clean(u) \/ Discard(u)
  \/ Unreserve(u) \/ Unlock(u) \/ Unref(u)

\* Everyone is done; anything less that stops is a deadlock.
Quiet == Active = {} /\ \A a \in Actors : gone[a] = {} /\ (a \in Lints => reading[a] = None)
Terminated == Quiet /\ (\A u \in Uploads : stage[u] = "done") /\ UNCHANGED vars

Next ==
  \/ Terminated
  \/ \E u \in Uploads : Start(u) \/ UploadStep(u)
  \/ \E l \in Lints : Release(l) \/ \E k \in Keys, f \in Prints : Acquire(l, k, f)
  \/ \E a \in Actors : Removal(a)

\* Every goroutine that can step does: a body ends or its read deadline passes,
\* a lint finishes its copy, and a mutex is not withheld from a waiter for ever
\* (sync.Mutex hands over after a millisecond).
Fairness ==
  /\ \A u \in Uploads : WF_vars(UploadStep(u)) /\ SF_vars(Lock(u))
  /\ \A l \in Lints : WF_vars(Release(l))
  /\ \A a \in Actors : WF_vars(Removal(a))

Spec     == Init /\ [][Next]_vars
FairSpec == Spec /\ Fairness

(***************************************************************************)
(* Properties.                                                             *)
(***************************************************************************)

\* What is written under --cache-dir never exceeds --cache-max-bytes, although
\* uploads, evictions, replaced sets that lints still read and staging
\* directories of failed uploads all overlap (reserve before write), and used is
\* what uploads reserved plus every stored set that is not yet removed and
\* credited: no byte is credited twice or lost.
Counted == {d \in Uploads : place[d] = "stored"} \cup UNION {gone[a] : a \in Actors}
BudgetIsExact ==
  /\ Total(disk, Uploads) <= MaxBytes
  /\ used = Total(reserved, Uploads) + Total(size, Counted)

\* A set that a lint copies stays complete and in its place, also when an
\* upload replaces or evicts it meanwhile; so does what the map hands out.  A
\* retired one is removed once, by one upload or lint, when no one reads it.
ReadSetsStayWhole ==
  /\ \A d \in {reading[l] : l \in Lints} \cup {entries[k] : k \in Keys} :
       d # None => place[d] = "stored" /\ disk[d] = size[d]
  /\ \A a, b \in Actors : gone[a] \cap gone[b] # {} => a = b
  /\ \A a \in Actors : \A d \in gone[a] :
       d \in stale /\ readers[d] = 0 /\ \A k \in Keys : entries[k] # d

\* Between uploads and lints nothing is left behind: every directory is an
\* entry, every lock is gone, and used counts the entries alone.
NothingLeftBehind ==
  Quiet => /\ \A d \in Uploads :
                place[d] \in {"staging", "stored"} => \E k \in Keys : entries[k] = d
           /\ \A k \in Keys : keyLocks[k] = None
           /\ used = Total(size, {entries[k] : k \in Keys} \ {None})

\* Uploads for one key are serialised (contract 9.2), also when the lock of a
\* key leaves the map and comes back while others wait for it.
OneUploadPerKey ==
  \A u, v \in Uploads :
    key[u] = key[v] /\ {stage[u], stage[v]} \subseteq LockedStages => u = v

\* What uploads and lints see: sets, and whose turn it is.
Promised == INSTANCE AssetSets WITH
  stored <- entries, whole <- {d \in Uploads : place[d] = "stored"},
  working <- {u \in Uploads : stage[u] \in LockedStages}, answer <- outcome

\* The cache implements AssetSets: uploads of one key take turns and are answered
\* once, "stored" means that the key has the fingerprint at that moment, a refused
\* upload has replaced nothing, and a set leaves the disk only when no key has it
\* and no lint copies it (the comment of assetCache; contract 9.2).
ImplementsSets == Promised!Spec

\* An upload takes the own key's entry away only when it stored its set, or
\* when evicting everything else unread was not enough; and what it evicts is
\* less recently used than every unread entry it leaves.
EvictsInOrder ==
  [][\A u \in Uploads : stage[u] = "extract" /\ stage'[u] = "write" =>
       \A k \in Keys : entries[k] # None /\ entries'[k] = None =>
         \A j \in Keys \ {k} :
           entries'[j] # None /\ readers[entries[j]] = 0 =>
             /\ k # key[u]
             /\ (j = key[u] \/ <<k, j>> \in older)]_vars

\* Contract 8.5: 507 cache_full means that "no room can be made (the other
\* entries are in use, or ENOSPC)": without the sets no lint reads, what is read
\* and reserved leaves no room for the file.
CacheFullMeansFull ==
  [][\A u \in Uploads : outcome[u] # "cache_full" /\ outcome'[u] = "cache_full" =>
       Total(reserved, Uploads) + claim'[u]
         + Total(size, {d \in Uploads : place[d] = "stored" /\ readers[d] > 0}) > MaxBytes]_vars

\* Every upload ends: no one waits for ever on a key's lock.  A replaced or
\* evicted set is deleted in the end, by whoever read it last (once stale it
\* stays stale, and the uploads are finitely many).
UploadsEnd ==
  <>[](\A u \in Uploads : /\ stage[u] \in {"idle", "done"}
                          /\ u \in stale => place[u] = "deleted")
=============================================================================
