------------------------------ MODULE AssetSets ------------------------------
(***************************************************************************)
(* What the asset cache promises uploads and lints: the comment of         *)
(* assetCache (internal/serve/cache.go) and the answers of put and acquire.*)
(* A set is made whole or not at all and never changes; an upload puts its *)
(* set in the place of its key's, one upload per key at a time; a lint     *)
(* keeps the set it found.  No lock, byte, count or staging directory is   *)
(* seen here.  AssetCache implements this module.                          *)
(***************************************************************************)
CONSTANTS Uploads, Lints, Keys, Prints, None

VARIABLES
  stored,      \* per key: the upload whose set it has, or None
  whole,       \* the sets on disk, named by their uploads
  reading,     \* per lint: the set it copies, or None
  working,     \* the uploads whose turn it is
  answer,      \* per upload
  key, print   \* per upload: what it is for

setVars == <<stored, whole, reading, working, answer, key, print>>

Init ==
  /\ stored = [k \in Keys |-> None] /\ whole = {}
  /\ reading = [l \in Lints |-> None]
  /\ working = {} /\ answer = [u \in Uploads |-> "none"]
  /\ key \in [Uploads -> Keys] /\ print \in [Uploads -> Prints]

Unread(d) == \A l \in Lints : reading[l] # d
Answers(u, o) == answer' = [answer EXCEPT ![u] = o]

\* The turn of one upload of a key comes after the end of another's.
Begin(u) ==
  /\ answer[u] = "none" /\ \A v \in working : key[v] # key[u]
  /\ working' = working \cup {u}
  /\ UNCHANGED <<stored, whole, reading, answer, key, print>>
Finish(u) ==
  /\ u \in working /\ answer[u] # "none" /\ working' = working \ {u}
  /\ UNCHANGED <<stored, whole, reading, answer, key, print>>

Open(u) == u \in working /\ answer[u] = "none"

\* The key has a set with this fingerprint: a no-op.
Keep(u) ==
  /\ Open(u) /\ stored[key[u]] # None /\ print[stored[key[u]]] = print[u]
  /\ Answers(u, "stored")
  /\ UNCHANGED <<stored, whole, reading, working, key, print>>

\* The new set replaces what the key has.
Put(u) ==
  /\ Open(u) /\ u \notin whole
  /\ stored' = [stored EXCEPT ![key[u]] = u] /\ whole' = whole \cup {u}
  /\ Answers(u, "stored")
  /\ UNCHANGED <<reading, working, key, print>>

\* A refused upload has stored nothing.
Refuse(u) ==
  /\ \/ Open(u) /\ \E o \in {"rejected", "too_large", "cache_full"} : Answers(u, o)
     \/ u \notin working /\ answer[u] = "none" /\ Answers(u, "busy")
  /\ UNCHANGED <<stored, whole, reading, working, key, print>>

\* For an upload, keys whose sets no lint copies lose them.
Evict(u, K) ==
  /\ Open(u) /\ \A k \in K : stored[k] # None /\ Unread(stored[k])
  /\ stored' = [k \in Keys |-> IF k \in K THEN None ELSE stored[k]]
  /\ UNCHANGED <<whole, reading, working, answer, key, print>>

\* acquire and release.
Read(l, k) ==
  /\ reading[l] = None /\ stored[k] # None
  /\ reading' = [reading EXCEPT ![l] = stored[k]]
  /\ UNCHANGED <<stored, whole, working, answer, key, print>>
Leave(l) ==
  /\ reading[l] # None /\ reading' = [reading EXCEPT ![l] = None]
  /\ UNCHANGED <<stored, whole, working, answer, key, print>>

\* A set that no key has and no lint copies goes.
Delete(d) ==
  /\ d \in whole /\ Unread(d) /\ \A k \in Keys : stored[k] # d
  /\ whole' = whole \ {d}
  /\ UNCHANGED <<stored, reading, working, answer, key, print>>

Next ==
  \/ \E u \in Uploads :
       Begin(u) \/ Finish(u) \/ Keep(u) \/ Put(u) \/ Refuse(u) \/ \E K \in SUBSET Keys : Evict(u, K)
  \/ \E l \in Lints : Leave(l) \/ \E k \in Keys : Read(l, k)
  \/ \E d \in Uploads : Delete(d)

Spec == Init /\ [][Next]_setVars
=============================================================================
