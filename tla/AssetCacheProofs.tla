-------------------------- MODULE AssetCacheProofs ---------------------------
(***************************************************************************)
(* Proofs about the asset cache, for any number of uploads, lints and keys *)
(* and any budget: the bytes on disk stay within it, a key has one upload, *)
(* a set that is read stays whole, nothing is left behind.                 *)
(***************************************************************************)
EXTENDS AssetCache, FiniteSetTheorems, TLAPS

(***************************************************************************)
(* The inductive invariant.                                                *)
(***************************************************************************)

\* Where an upload counts in its keyLock, and where it has a staging directory.
LockStages    == LockedStages \cup {"lock", "unref"}
StagingStages == {"extract", "write", "install", "discard"}

\* A keyLock is the one of its key while anyone counts in it.
Users(x) == {u \in Uploads : lock[u] = x /\ stage[u] \in LockStages}
LockInv ==
  /\ \A u \in Uploads :
       /\ stage[u] \in LockStages => lock[u] # None /\ keyLocks[key[u]] = lock[u]
       /\ stage[u] \in LockedStages => holder[lock[u]] = u
       /\ holder[u] # None => lock[holder[u]] = u /\ stage[holder[u]] \in LockedStages
       /\ lock[u] # None => key[lock[u]] = key[u] /\ stage[lock[u]] \notin {"idle", "lockKey"}
       /\ stage[u] \in {"idle", "lockKey"} => lock[u] = None
       /\ refs[u] = Cardinality(Users(u))
  /\ \A k \in Keys : keyLocks[k] # None => key[keyLocks[k]] = k /\ Users(keyLocks[k]) # {}

\* A directory is an entry, or stale and waits for its readers or for the one
\* that removes it.
Readers(d) == {l \in Lints : reading[l] = d}
Retired(d) == \E a \in Actors : d \in gone[a]
DirInv ==
  /\ \A d \in Uploads :
       /\ place[d] = "stored" => /\ disk[d] = size[d]
                                 /\ d \in stale <=> entries[key[d]] # d
                                 /\ d \in stale => Readers(d) # {} \/ Retired(d)
       /\ place[d] \in {"none", "deleted"} => disk[d] = 0
       /\ d \in stale => place[d] \in {"stored", "deleted"}
       /\ Readers(d) # {} => place[d] = "stored"
       /\ Retired(d) => d \in stale /\ Readers(d) = {}
       /\ readers[d] = Cardinality(Readers(d))
       /\ \A a, b \in Actors : d \in gone[a] /\ d \in gone[b] => a = b
  /\ \A k \in Keys : entries[k] # None => key[entries[k]] = k /\ place[entries[k]] = "stored"
  /\ \A l \in Lints : reading[l] # None => gone[l] = {}

\* What an upload has reserved and written at its stage.
UploadInv ==
  \A u \in Uploads :
    /\ stage[u] \in StagingStages <=> place[u] = "staging"
    /\ stage[u] \in {"idle", "lockKey", "lock", "holds"} => place[u] = "none" /\ size[u] = 0
    /\ stage[u] \in {"extract", "install"} => disk[u] = size[u] /\ reserved[u] = size[u]
    /\ stage[u] = "write" => disk[u] = size[u] /\ reserved[u] = size[u] + claim[u]
    /\ stage[u] = "discard" => disk[u] <= reserved[u]
    /\ stage[u] \notin StagingStages \cup {"unreserve"} => reserved[u] = 0
    /\ gone[u] # {} => stage[u] \in {"write", "clean"}

\* used is what is reserved and what is stored.  For every set S of uploads that
\* have a claim in hand the budget holds without the sets that S evicted and has
\* not deleted, and without what the others claimed and have not written.
Span(lo, hi, S) == UNION {{x} \X (lo[x] + 1 .. hi[x]) : x \in S}
Writing == {u \in Uploads : stage[u] = "write"}
Going(S) == UNION {gone[u] : u \in S}
UsedInv == used = Total(reserved, Uploads) + Total(size, Counted)
RoomInv ==
  \A S \in SUBSET Writing :
    used <= MaxBytes + Total(size, Going(S)) + Cardinality(Span(size, reserved, Writing \ S))

IInv == TypeOK /\ LockInv /\ DirInv /\ UploadInv /\ UsedInv /\ RoomInv

(***************************************************************************)
(* Sums.                                                                   *)
(***************************************************************************)

\* The bytes of a set that are numbered from lo to hi, and of f from 1 to f.
Zero == [u \in Uploads |-> 0]

LEMMA SpanMembers ==
  ASSUME NEW lo, NEW hi, NEW S
  PROVE  \A q : q \in Span(lo, hi, S) <=> \E x \in S : q \in {x} \X (lo[x] + 1 .. hi[x])
BY DEF Span

LEMMA TotalIsSpan ==
  ASSUME NEW f \in [Uploads -> 0 .. MaxBytes], NEW S \in SUBSET Uploads
  PROVE  Total(f, S) = Cardinality(Span(Zero, f, S))
<1>1. \A x \in S : 0 + 1 = 1 /\ Zero[x] = 0
  BY DEF Zero
<1>2. \A x \in S : Zero[x] + 1 = 1
  BY <1>1
<1>3. UNION {{x} \X (1 .. f[x]) : x \in S} = Span(Zero, f, S)
  BY <1>2 DEF Span
<1> QED
  BY <1>3 DEF Total

LEMMA SpanParts ==
  ASSUME NEW lo, NEW hi, NEW S, NEW T
  PROVE  /\ Span(lo, hi, S \cup T) = Span(lo, hi, S) \cup Span(lo, hi, T)
         /\ S \cap T = {} => Span(lo, hi, S) \cap Span(lo, hi, T) = {}
         /\ S \subseteq T => Span(lo, hi, S) \subseteq Span(lo, hi, T)
         /\ Span(lo, hi, {}) = {}
<1>1. \A q, x : q \in {x} \X (lo[x] + 1 .. hi[x]) => q[1] = x
  OBVIOUS
<1> QED
  BY <1>1, SpanMembers

LEMMA SpanFinite ==
  ASSUME NEW lo \in [Uploads -> 0 .. MaxBytes], NEW hi \in [Uploads -> 0 .. MaxBytes],
         NEW S \in SUBSET Uploads
  PROVE  /\ IsFiniteSet(Span(lo, hi, S)) /\ Cardinality(Span(lo, hi, S)) \in Nat
<1>1. IsFiniteSet(Uploads) /\ MaxBytes \in Nat
  BY ActorsAssumption, BudgetAssumption
<1>2. IsFiniteSet(1 .. MaxBytes)
  BY <1>1, FS_Interval
<1>3. IsFiniteSet(Uploads \X (1 .. MaxBytes))
  BY <1>1, <1>2, FS_Product
<1>4. \A x \in S : \A i \in lo[x] + 1 .. hi[x] : x \in Uploads /\ i \in 1 .. MaxBytes
  BY <1>1
<1>5. Span(lo, hi, S) \subseteq Uploads \X (1 .. MaxBytes)
  BY <1>4, SpanMembers
<1> QED
  BY <1>3, <1>5, FS_Subset, FS_CardinalityType

LEMMA SpanOne ==
  ASSUME NEW lo, NEW hi, NEW x, lo[x] \in Nat, hi[x] \in Nat, lo[x] <= hi[x]
  PROVE  Cardinality(Span(lo, hi, {x})) = hi[x] - lo[x]
<1>1. Span(lo, hi, {x}) = {x} \X (lo[x] + 1 .. hi[x])
  BY SpanMembers
<1>2. /\ IsFiniteSet(lo[x] + 1 .. hi[x])
      /\ Cardinality(lo[x] + 1 .. hi[x]) = hi[x] - lo[x]
  <2>1. lo[x] + 1 \in Int /\ hi[x] \in Int
    OBVIOUS
  <2>2. /\ IsFiniteSet(lo[x] + 1 .. hi[x])
        /\ Cardinality(lo[x] + 1 .. hi[x]) = IF lo[x] + 1 > hi[x] THEN 0 ELSE hi[x] - (lo[x] + 1) + 1
    BY <2>1, FS_Interval
  <2>3. (IF lo[x] + 1 > hi[x] THEN 0 ELSE hi[x] - (lo[x] + 1) + 1) = hi[x] - lo[x]
    OBVIOUS
  <2> QED
    BY <2>2, <2>3
<1>3. IsFiniteSet({x}) /\ Cardinality({x}) = 1
  BY FS_Singleton
<1>4. Cardinality({x} \X (lo[x] + 1 .. hi[x])) = 1 * (hi[x] - lo[x])
  BY <1>2, <1>3, FS_Product
<1>5. 1 * (hi[x] - lo[x]) = hi[x] - lo[x]
  OBVIOUS
<1> QED
  BY <1>1, <1>4, <1>5

LEMMA SpanSum ==
  ASSUME NEW lo \in [Uploads -> 0 .. MaxBytes], NEW hi \in [Uploads -> 0 .. MaxBytes],
         NEW S \in SUBSET Uploads, NEW T \in SUBSET Uploads, S \cap T = {}
  PROVE  Cardinality(Span(lo, hi, S \cup T))
           = Cardinality(Span(lo, hi, S)) + Cardinality(Span(lo, hi, T))
<1>1. /\ IsFiniteSet(Span(lo, hi, S)) /\ IsFiniteSet(Span(lo, hi, T))
      /\ Cardinality(Span(lo, hi, S)) \in Nat /\ Cardinality(Span(lo, hi, T)) \in Nat
  BY SpanFinite
<1>2. /\ Span(lo, hi, S \cup T) = Span(lo, hi, S) \cup Span(lo, hi, T)
      /\ Span(lo, hi, S) \cap Span(lo, hi, T) = {}
  BY SpanParts
<1>3. Cardinality(Span(lo, hi, S) \cap Span(lo, hi, T)) = 0
  BY <1>2, FS_EmptySet
<1>4. Cardinality(Span(lo, hi, S) \cup Span(lo, hi, T))
        = Cardinality(Span(lo, hi, S)) + Cardinality(Span(lo, hi, T)) - 0
  BY <1>1, <1>3, FS_Union
<1>5. Cardinality(Span(lo, hi, S)) + Cardinality(Span(lo, hi, T)) - 0
        = Cardinality(Span(lo, hi, S)) + Cardinality(Span(lo, hi, T))
  BY <1>1
<1> QED
  BY <1>2, <1>4, <1>5

LEMMA SpanSame ==
  ASSUME NEW lo, NEW hi, NEW lo2, NEW hi2, NEW S, \A x \in S : lo2[x] = lo[x] /\ hi2[x] = hi[x]
  PROVE  Span(lo2, hi2, S) = Span(lo, hi, S)
BY DEF Span

\* One more in the set adds its part.
LEMMA SpanAdd ==
  ASSUME NEW lo \in [Uploads -> 0 .. MaxBytes], NEW hi \in [Uploads -> 0 .. MaxBytes],
         NEW S \in SUBSET Uploads, NEW x \in Uploads \ S, lo[x] <= hi[x]
  PROVE  Cardinality(Span(lo, hi, S \cup {x})) = Cardinality(Span(lo, hi, S)) + (hi[x] - lo[x])
<1>1. S \cap {x} = {} /\ {x} \in SUBSET Uploads /\ lo[x] \in Nat /\ hi[x] \in Nat
  BY BudgetAssumption
<1>2. Cardinality(Span(lo, hi, {x})) = hi[x] - lo[x]
  BY <1>1, SpanOne
<1>3. Cardinality(Span(lo, hi, S \cup {x}))
        = Cardinality(Span(lo, hi, S)) + Cardinality(Span(lo, hi, {x}))
  BY <1>1, SpanSum
<1> QED
  BY <1>2, <1>3

LEMMA ZeroType == Zero \in [Uploads -> 0 .. MaxBytes]
BY BudgetAssumption DEF Zero

LEMMA TotalType ==
  ASSUME NEW f \in [Uploads -> 0 .. MaxBytes], NEW S \in SUBSET Uploads
  PROVE  Total(f, S) \in Nat
BY ZeroType, SpanFinite, TotalIsSpan

LEMMA TotalAdd ==
  ASSUME NEW f \in [Uploads -> 0 .. MaxBytes], NEW S \in SUBSET Uploads, NEW x \in Uploads \ S
  PROVE  Total(f, S \cup {x}) = Total(f, S) + f[x]
<1>1. Zero[x] <= f[x] /\ f[x] - Zero[x] = f[x] /\ S \cup {x} \in SUBSET Uploads
  BY BudgetAssumption DEF Zero
<1>2. Cardinality(Span(Zero, f, S \cup {x})) = Cardinality(Span(Zero, f, S)) + f[x]
  BY <1>1, ZeroType, SpanAdd
<1> QED
  BY <1>1, <1>2, TotalIsSpan

LEMMA TotalRemove ==
  ASSUME NEW f \in [Uploads -> 0 .. MaxBytes], NEW S \in SUBSET Uploads, NEW x \in S
  PROVE  Total(f, S) = Total(f, S \ {x}) + f[x]
<1>1. S = (S \ {x}) \cup {x} /\ S \ {x} \in SUBSET Uploads /\ x \in Uploads \ (S \ {x})
  OBVIOUS
<1> QED
  BY <1>1, TotalAdd

LEMMA TotalSame ==
  ASSUME NEW f, NEW g, NEW S, \A x \in S : f[x] = g[x]
  PROVE  Total(f, S) = Total(g, S)
BY DEF Total

LEMMA TotalGrows ==
  ASSUME NEW f \in [Uploads -> 0 .. MaxBytes], NEW S \in SUBSET Uploads, NEW T \in SUBSET Uploads,
         S \subseteq T
  PROVE  Total(f, S) <= Total(f, T)
<1>1. Span(Zero, f, S) \subseteq Span(Zero, f, T)
  BY SpanParts
<1>2. IsFiniteSet(Span(Zero, f, T))
  BY ZeroType, SpanFinite
<1> QED
  BY <1>1, <1>2, FS_Subset, TotalIsSpan

\* A sum changes by what one part of it does.
LEMMA TotalExcept ==
  ASSUME NEW f \in [Uploads -> 0 .. MaxBytes], NEW g \in [Uploads -> 0 .. MaxBytes],
         NEW S \in SUBSET Uploads, NEW x \in S, \A y \in S \ {x} : g[y] = f[y]
  PROVE  Total(g, S) + f[x] = Total(f, S) + g[x]
<1>1. S \ {x} \in SUBSET Uploads
  OBVIOUS
<1>2. Total(g, S \ {x}) = Total(f, S \ {x}) /\ Total(f, S \ {x}) \in Nat
  BY <1>1, TotalSame, TotalType
<1>3. Total(f, S) = Total(f, S \ {x}) + f[x] /\ Total(g, S) = Total(g, S \ {x}) + g[x]
  BY TotalRemove
<1>4. f[x] \in Nat /\ g[x] \in Nat
  BY BudgetAssumption
<1> QED
  BY <1>2, <1>3, <1>4

LEMMA TotalZero ==
  ASSUME NEW f, NEW S, \A x \in S : f[x] = 0
  PROVE  Total(f, S) = 0
<1>1. \A x \in S : 1 .. f[x] = {}
  OBVIOUS
<1>2. UNION {{x} \X (1 .. f[x]) : x \in S} = {}
  BY <1>1
<1> QED
  BY <1>2, FS_EmptySet DEF Total

\* What is written, with what some have still to write, is no more than what is
\* reserved and what is stored.
LEMMA WrittenIsReserved ==
  ASSUME NEW f \in [Uploads -> 0 .. MaxBytes], NEW lo \in [Uploads -> 0 .. MaxBytes],
         NEW r \in [Uploads -> 0 .. MaxBytes], NEW s \in [Uploads -> 0 .. MaxBytes],
         NEW W \in SUBSET Uploads, NEW C \in SUBSET Uploads, W \cap C = {},
         \A x \in W : f[x] = lo[x] /\ f[x] <= r[x],
         \A x \in C : f[x] <= s[x],
         \A x \in Uploads \ C : f[x] <= r[x]
  PROVE  Total(f, Uploads) + Cardinality(Span(lo, r, W)) <= Total(r, Uploads) + Total(s, C)
<1> DEFINE B(g, S) == Span(Zero, g, S)
           R == Uploads \ C
<1>1. /\ IsFiniteSet(B(f, R)) /\ IsFiniteSet(B(f, C)) /\ IsFiniteSet(B(r, Uploads))
      /\ IsFiniteSet(B(s, C)) /\ IsFiniteSet(Span(lo, r, W))
      /\ Cardinality(B(f, R)) \in Nat /\ Cardinality(B(f, C)) \in Nat
      /\ Cardinality(B(r, Uploads)) \in Nat /\ Cardinality(B(s, C)) \in Nat
      /\ Cardinality(Span(lo, r, W)) \in Nat
  BY ZeroType, SpanFinite
<1>2. Cardinality(B(f, Uploads)) = Cardinality(B(f, R)) + Cardinality(B(f, C))
  <2>1. Uploads = R \cup C /\ R \cap C = {} /\ R \in SUBSET Uploads
    OBVIOUS
  <2> QED
    BY <2>1, ZeroType, SpanSum
<1>3. \A x \in Uploads : Zero[x] = 0 /\ f[x] \in Nat /\ r[x] \in Nat /\ s[x] \in Nat /\ lo[x] \in Nat
  BY BudgetAssumption DEF Zero
<1>4. Cardinality(B(f, C)) <= Cardinality(B(s, C))
  <2>1. \A x \in C : Zero[x] + 1 .. f[x] \subseteq Zero[x] + 1 .. s[x]
    BY <1>3
  <2>2. B(f, C) \subseteq B(s, C)
    BY <2>1, SpanMembers
  <2> QED
    BY <1>1, <2>2, FS_Subset
<1>5. Cardinality(B(f, R)) + Cardinality(Span(lo, r, W)) <= Cardinality(B(r, Uploads))
  <2>1. /\ \A x \in R : Zero[x] + 1 .. f[x] \subseteq Zero[x] + 1 .. r[x]
        /\ \A x \in W : /\ lo[x] + 1 .. r[x] \subseteq Zero[x] + 1 .. r[x]
                       /\ (lo[x] + 1 .. r[x]) \cap (Zero[x] + 1 .. f[x]) = {}
    BY <1>3
  <2>2. B(f, R) \subseteq B(r, Uploads) /\ Span(lo, r, W) \subseteq B(r, Uploads)
    BY <2>1, SpanMembers
  <2>3. B(f, R) \cap Span(lo, r, W) = {}
    <3> SUFFICES ASSUME NEW q \in B(f, R), q \in Span(lo, r, W) PROVE FALSE
      OBVIOUS
    <3>1. PICK x \in R : q \in {x} \X (Zero[x] + 1 .. f[x])
      BY SpanMembers
    <3>2. PICK y \in W : q \in {y} \X (lo[y] + 1 .. r[y])
      BY SpanMembers
    <3> QED
      BY <2>1, <3>1, <3>2
  <2>4. Cardinality(B(f, R) \cup Span(lo, r, W))
          = Cardinality(B(f, R)) + Cardinality(Span(lo, r, W)) - 0
    <3>1. Cardinality(B(f, R) \cap Span(lo, r, W)) = 0
      BY <2>3, FS_EmptySet
    <3> QED
      BY <1>1, <3>1, FS_Union
  <2>5. B(f, R) \cup Span(lo, r, W) \in SUBSET B(r, Uploads)
    BY <2>2
  <2>6. Cardinality(B(f, R) \cup Span(lo, r, W)) <= Cardinality(B(r, Uploads))
    BY <1>1, <2>5, FS_Subset
  <2> QED
    BY <1>1, <2>4, <2>6
<1>6. /\ Total(f, Uploads) = Cardinality(B(f, Uploads))
      /\ Total(r, Uploads) = Cardinality(B(r, Uploads)) /\ Total(s, C) = Cardinality(B(s, C))
  BY TotalIsSpan
<1> HIDE DEF B
<1> QED
  BY <1>1, <1>2, <1>4, <1>5, <1>6

(***************************************************************************)
(* The keyLocks.                                                           *)
(***************************************************************************)

\* The steps of an upload that leave the keyLocks alone, and of everyone else.
SetStep(u) ==
  \/ Holds(u) \/ (\E n \in Sizes : NextFile(u, n)) \/ WriteFile(u) \/ EndOfArchive(u) \/ Install(u)
  \/ Clean(u) \/ Discard(u) \/ Unreserve(u)
LockStep(u) == LockKey(u) \/ Lock(u) \/ Unlock(u) \/ Unref(u)
LintStep == \E l \in Lints : Release(l) \/ \E k \in Keys, f \in Prints : Acquire(l, k, f)
RemovalStep == \E a \in Actors : Removal(a)

LEMMA Steps ==
  ASSUME [Next]_vars
  PROVE  \/ UNCHANGED vars \/ LintStep \/ RemovalStep
         \/ \E u \in Uploads : Start(u) \/ SetStep(u) \/ LockStep(u)
BY DEF Next, Terminated, UploadStep, SetStep, LockStep, LintStep, RemovalStep

Moves(u, s) == stage' = [stage EXCEPT ![u] = s]

\* What a step does to the stages, and that nothing changes what an upload is for.
LEMMA SetStepMoves ==
  ASSUME NEW u \in Uploads, SetStep(u)
  PROVE  /\ UNCHANGED <<lockVars, key, print>>
         /\ \E s \in LockedStages \ {"holds"} : Moves(u, s) /\ stage[u] \in LockedStages
BY DEF SetStep, Holds, NextFile, WriteFile, EndOfArchive, Install, Clean, Discard, Unreserve, End, Go,
   Moves, LockedStages

LEMMA OthersMoveNothing ==
  ASSUME LintStep \/ RemovalStep \/ UNCHANGED vars
  PROVE  UNCHANGED <<lockVars, uploadVars>>
BY DEF LintStep, RemovalStep, Release, Acquire, Removal, RemoveDir, Credit, vars, uploadVars

LEMMA StartMoves ==
  ASSUME NEW u \in Uploads, Start(u)
  PROVE  /\ UNCHANGED <<lockVars, key, print>> /\ stage[u] = "idle"
         /\ Moves(u, "lockKey") \/ Moves(u, "done")
BY DEF Start, End, Go, Moves

LEMMA UsersFinite ==
  ASSUME NEW x
  PROVE  IsFiniteSet(Users(x)) /\ Cardinality(Users(x)) \in Nat
BY ActorsAssumption, FS_Subset, FS_CardinalityType DEF Users

\* A step that changes no keyLock and no one's place in one.
LEMMA LocksStay ==
  ASSUME TypeOK, LockInv, NEW u \in Uploads, NEW s \in Stages, UNCHANGED <<lockVars, key>>, Moves(u, s),
         \/ stage[u] \in LockedStages /\ s \in LockedStages
         \/ stage[u] = "idle" /\ s \in {"lockKey", "done"}
  PROVE  LockInv'
<1> USE DEF lockVars, Moves, TypeOK, LockStages, LockedStages
<1>1. \A x : Users(x)' = Users(x)
  BY DEF Users
<1> QED
  BY <1>1 DEF LockInv

\* lockKey: the keyLock of the key, or a new one.
LEMMA LockKeyLocks ==
  ASSUME TypeOK, LockInv, NEW u \in Uploads, LockKey(u)
  PROVE  LockInv' /\ refs' \in [Uploads -> Nat]
<1> DEFINE k == key[u]
           x == IF keyLocks[k] = None THEN u ELSE keyLocks[k]
<1> USE ActorsAssumption DEF TypeOK, LockStages, LockedStages, Dirs
<1>1. /\ stage[u] = "lockKey" /\ stage' = [stage EXCEPT ![u] = "lock"]
      /\ keyLocks' = [keyLocks EXCEPT ![k] = x]
      /\ refs' = [refs EXCEPT ![x] = @ + 1]
      /\ lock' = [lock EXCEPT ![u] = x]
      /\ UNCHANGED <<holder, key>>
  BY DEF LockKey, Go
<1>2. /\ x \in Uploads /\ x # None /\ key[x] = k /\ lock[u] = None
      /\ x = u \/ (x = keyLocks[k] /\ stage[x] \notin {"idle", "lockKey"})
  <2>1. k \in Keys /\ lock[u] = None
    BY <1>1 DEF LockInv
  <2>2. CASE keyLocks[k] = None
    BY <2>1, <2>2
  <2>3. CASE keyLocks[k] # None
    <3>1. key[x] = k /\ Users(x) # {}
      BY <2>1, <2>3 DEF LockInv
    <3>2. PICK v \in Uploads : lock[v] = x
      BY <3>1 DEF Users
    <3>3. x \in Uploads /\ x # None
      BY <2>1, <2>3
    <3> QED
      BY <2>1, <2>3, <3>1, <3>2, <3>3 DEF LockInv
  <2> QED
    BY <2>2, <2>3
<1>3. Users(x)' = Users(x) \cup {u} /\ u \notin Users(x)
  BY <1>1, <1>2 DEF Users
<1>4. \A y \in Uploads \ {x} : Users(y)' = Users(y)
  BY <1>1, <1>2 DEF Users
<1>5. Cardinality(Users(x)') = Cardinality(Users(x)) + 1
  BY <1>3, UsersFinite, FS_AddElement
<1>6. refs' \in [Uploads -> Nat] /\ \A y \in Uploads : refs'[y] = Cardinality(Users(y)')
  BY <1>1, <1>2, <1>4, <1>5 DEF LockInv
<1>7. \A v \in Uploads : v # u /\ stage[v] \in LockStages => keyLocks'[key[v]] = lock[v]
  BY <1>1, <1>2 DEF LockInv
<1> QED
  BY <1>1, <1>2, <1>3, <1>4, <1>6, <1>7 DEF LockInv

\* lockKey, Lock and the first half of unlock.
LEMMA HolderLocks ==
  ASSUME TypeOK, LockInv, NEW u \in Uploads, Lock(u) \/ Unlock(u)
  PROVE  LockInv' /\ refs' = refs
<1> USE ActorsAssumption DEF TypeOK, LockStages, LockedStages, Dirs
<1>1. /\ UNCHANGED <<keyLocks, refs, lock, key>>
      /\ \/ /\ stage[u] = "lock" /\ stage' = [stage EXCEPT ![u] = "holds"]
            /\ holder[lock[u]] = None /\ holder' = [holder EXCEPT ![lock[u]] = u]
         \/ /\ stage[u] = "unlock" /\ stage' = [stage EXCEPT ![u] = "unref"]
            /\ holder[lock[u]] = u /\ holder' = [holder EXCEPT ![lock[u]] = None]
  BY DEF Lock, Unlock, Go, LockInv
<1>2. lock[u] \in Uploads
  BY <1>1 DEF LockInv
<1>3. \A y : Users(y)' = Users(y)
  BY <1>1 DEF Users
<1> QED
  BY <1>1, <1>2, <1>3 DEF LockInv

\* unlock: the last one takes the keyLock out of the map.
LEMMA UnrefLocks ==
  ASSUME TypeOK, LockInv, NEW u \in Uploads, Unref(u)
  PROVE  LockInv' /\ refs' \in [Uploads -> Nat]
<1> DEFINE x == lock[u]
           k == key[u]
<1> USE ActorsAssumption DEF TypeOK, LockStages, LockedStages, Dirs
<1>1. /\ stage[u] = "unref" /\ stage' = [stage EXCEPT ![u] = "done"]
      /\ refs' = [refs EXCEPT ![x] = @ - 1]
      /\ keyLocks' = [keyLocks EXCEPT ![k] = IF refs[x] = 1 THEN None ELSE @]
      /\ UNCHANGED <<holder, lock, key>>
  BY DEF Unref, Go
<1>2. x \in Uploads /\ keyLocks[k] = x /\ key[x] = k /\ k \in Keys
  BY <1>1 DEF LockInv
<1>3. Users(x)' = Users(x) \ {u} /\ u \in Users(x)
  BY <1>1 DEF Users
<1>4. \A y \in Uploads \ {x} : Users(y)' = Users(y)
  BY <1>1 DEF Users
<1>5. /\ Cardinality(Users(x)') = Cardinality(Users(x)) - 1
      /\ Cardinality(Users(x)') \in Nat /\ refs[x] = Cardinality(Users(x))
      /\ Cardinality(Users(x)') = 0 <=> Users(x)' = {}
  <2> DEFINE U == Users(x) \ {u}
  <2>1. /\ IsFiniteSet(Users(x)) /\ Cardinality(Users(x)) \in Nat
        /\ IsFiniteSet(U) /\ Cardinality(U) = Cardinality(Users(x)) - 1
    BY <1>3, UsersFinite, FS_RemoveElement
  <2>2. Cardinality(U) \in Nat /\ (Cardinality(U) = 0 <=> U = {})
    BY <2>1, FS_EmptySet, FS_CardinalityType
  <2>3. refs[x] = Cardinality(Users(x))
    BY <1>2 DEF LockInv
  <2> QED
    BY <1>3, <2>1, <2>2, <2>3
<1>6. refs' \in [Uploads -> Nat] /\ \A y \in Uploads : refs'[y] = Cardinality(Users(y)')
  <2>1. refs[x] \in Nat /\ refs[x] - 1 = Cardinality(Users(x)')
    BY <1>2, <1>5
  <2> QED
    BY <1>1, <1>2, <1>4, <1>5, <2>1 DEF LockInv
<1>7. refs[x] = 1 <=> Users(x)' = {}
  BY <1>2, <1>5
<1>8. \A v \in Uploads : v # u /\ stage[v] \in LockStages => keyLocks'[key[v]] = lock[v]
  <2> SUFFICES ASSUME NEW v \in Uploads, v # u, stage[v] \in LockStages
               PROVE  keyLocks'[key[v]] = lock[v]
    OBVIOUS
  <2>1. keyLocks[key[v]] = lock[v]
    BY DEF LockInv
  <2>2. CASE key[v] = k
    <3>1. v \in Users(x)'
      BY <1>2, <1>3, <2>1, <2>2 DEF Users
    <3> QED
      BY <1>1, <1>2, <1>7, <2>1, <2>2, <3>1
  <2>3. CASE key[v] # k
    BY <1>1, <2>1, <2>3
  <2> QED
    BY <2>2, <2>3
<1>9. \A j \in Keys : keyLocks'[j] # None =>
        /\ key[keyLocks'[j]] = j
        /\ \E v \in Uploads : lock'[v] = keyLocks'[j] /\ stage'[v] \in LockStages
  <2> SUFFICES ASSUME NEW j \in Keys, NEW y, y = keyLocks'[j], y # None
               PROVE  /\ key[y] = j
                      /\ \E v \in Uploads : lock'[v] = y /\ stage'[v] \in LockStages
    OBVIOUS
  <2>1. keyLocks[j] = y /\ (j = k => refs[x] # 1)
    BY <1>1, <1>2
  <2>2. y \in Uploads /\ key[y] = j /\ Users(y) # {}
    <3>1. keyLocks[j] # None => key[keyLocks[j]] = j /\ Users(keyLocks[j]) # {}
      BY DEF LockInv
    <3>2. keyLocks[j] \in Uploads \cup {None}
      OBVIOUS
    <3> QED
      BY <2>1, <3>1, <3>2
  <2>3. CASE j = k
    <3>1. y = x /\ Users(x)' # {}
      BY <1>2, <1>7, <2>1, <2>3
    <3>2. PICK v \in Uploads : v \in Users(x) \ {u}
      BY <1>3, <3>1 DEF Users
    <3> QED
      BY <1>1, <2>2, <3>1, <3>2 DEF Users
  <2>4. CASE j # k
    <3>1. y # x
      BY <1>2, <2>2, <2>4
    <3>2. PICK v \in Uploads : lock[v] = y /\ stage[v] \in LockStages
      BY <2>2 DEF Users
    <3> QED
      BY <1>1, <2>2, <3>1, <3>2
  <2> QED
    BY <2>3, <2>4
<1>10. (\A j \in Keys : keyLocks[j] # None => key[keyLocks[j]] = j /\ Users(keyLocks[j]) # {})'
  BY <1>1, <1>9 DEF Users
<1>11. \A v \in Uploads :
         /\ stage'[v] \in LockStages => lock[v] # None /\ keyLocks'[key[v]] = lock[v]
         /\ stage'[v] \in LockedStages => holder[lock[v]] = v
         /\ holder[v] # None => lock[holder[v]] = v /\ stage'[holder[v]] \in LockedStages
         /\ lock[v] # None => key[lock[v]] = key[v] /\ stage'[lock[v]] \notin {"idle", "lockKey"}
         /\ stage'[v] \in {"idle", "lockKey"} => lock[v] = None
  BY <1>1, <1>2, <1>8 DEF LockInv
<1>12. \A v \in Uploads : (refs[v] = Cardinality(Users(v)))'
  BY <1>6
<1> QED
  BY <1>1, <1>6, <1>10, <1>11, <1>12 DEF LockInv

\* Every step leaves a keyLock to its key and its users.
LEMMA LockStepKeeps ==
  ASSUME TypeOK, LockInv, [Next]_vars
  PROVE  LockInv' /\ refs' \in [Uploads -> Nat]
<1>1. CASE LintStep \/ RemovalStep \/ UNCHANGED vars
  <2>1. UNCHANGED <<lockVars, key, stage>>
    BY <1>1, OthersMoveNothing DEF uploadVars
  <2>2. \A x : Users(x)' = Users(x)
    BY <2>1 DEF Users, lockVars
  <2> QED
    BY <2>1, <2>2 DEF LockInv, TypeOK, lockVars
<1>2. ASSUME NEW u \in Uploads, Start(u) \/ SetStep(u)
      PROVE  LockInv' /\ refs' \in [Uploads -> Nat]
  <2>1. UNCHANGED refs
    BY <1>2, SetStepMoves, StartMoves DEF lockVars
  <2> SUFFICES LockInv'
    BY <2>1 DEF TypeOK
  <2>2. CASE Start(u)
    <3>1. PICK s \in {"lockKey", "done"} : Moves(u, s)
      BY <2>2, StartMoves
    <3>2. s \in Stages /\ UNCHANGED <<lockVars, key>> /\ stage[u] = "idle"
      BY <2>2, StartMoves DEF Stages
    <3> QED
      BY <3>1, <3>2, LocksStay
  <2>3. CASE SetStep(u)
    <3>1. PICK s \in LockedStages \ {"holds"} : Moves(u, s) /\ stage[u] \in LockedStages
      BY <2>3, SetStepMoves
    <3>2. s \in Stages /\ UNCHANGED <<lockVars, key>>
      BY <2>3, SetStepMoves DEF Stages, LockedStages
    <3> QED
      BY <3>1, <3>2, LocksStay
  <2> QED
    BY <1>2, <2>2, <2>3
<1> QED
  BY <1>1, <1>2, LockKeyLocks, HolderLocks, UnrefLocks, Steps DEF LockStep, TypeOK
(***************************************************************************)
(* The directories and who reads them.                                     *)
(***************************************************************************)

LEMMA SomeLints ==
  ASSUME NEW S \in SUBSET Lints
  PROVE  /\ IsFiniteSet(S) /\ Cardinality(S) \in Nat /\ Cardinality(S) \in 0 .. Cardinality(Lints)
         /\ Cardinality(S) = 0 <=> S = {}
<1>1. /\ IsFiniteSet(S) /\ Cardinality(S) \in Nat /\ Cardinality(Lints) \in Nat
      /\ Cardinality(S) <= Cardinality(Lints)
  BY ActorsAssumption, FS_Subset, FS_CardinalityType
<1> QED
  BY <1>1, FS_EmptySet

\* A step of neither lints, removals nor evictions, that may make or delete a
\* staging directory or write in it.
LEMMA StagingKeeps ==
  ASSUME TypeOK, DirInv, NEW u \in Uploads, UNCHANGED <<key, entries, stale, readers, reading, gone>>,
         place[u] \in {"none", "staging"}, place'[u] \in {"staging", "deleted"},
         place'[u] = "deleted" => disk'[u] = 0,
         \A d \in Uploads \ {u} : place'[d] = place[d] /\ disk'[d] = disk[d] /\ size'[d] = size[d]
  PROVE  DirInv'
<1>1. Readers(u) = {} /\ u \notin stale /\ \A k \in Keys : entries[k] # u
  BY ActorsAssumption DEF DirInv, TypeOK, Dirs
<1>2. \A d : Readers(d)' = Readers(d) /\ (Retired(d)' <=> Retired(d))
  BY DEF Readers, Retired
<1> QED
  BY <1>1, <1>2 DEF DirInv, TypeOK, Dirs

LEMMA DirsStay ==
  ASSUME TypeOK, DirInv, UNCHANGED <<key, entries, stale, readers, reading, gone, place, disk, size>>
  PROVE  DirInv'
<1>1. \A d : Readers(d)' = Readers(d) /\ (Retired(d)' <=> Retired(d))
  BY DEF Readers, Retired
<1> QED
  BY <1>1 DEF DirInv, TypeOK, Dirs

LEMMA AcquireKeeps ==
  ASSUME TypeOK, DirInv, NEW l \in Lints, NEW k \in Keys, NEW f \in Prints, Acquire(l, k, f)
  PROVE  DirInv'
<1> USE ActorsAssumption DEF TypeOK, Dirs, Actors
<1>0. PICK e \in Uploads : e = entries[k]
  BY DEF Acquire, HoldsPrint
<1>1. /\ reading[l] = None /\ gone[l] = {}
      /\ readers' = [readers EXCEPT ![e] = @ + 1] /\ reading' = [reading EXCEPT ![l] = e]
      /\ UNCHANGED <<key, place, disk, size, entries, stale, gone>>
  BY <1>0 DEF Acquire, HoldsPrint, uploadVars, dirVars
<1>2. place[e] = "stored" /\ e \notin stale /\ ~Retired(e)
  BY <1>0 DEF DirInv
<1>3. Readers(e)' = Readers(e) \cup {l} /\ l \notin Readers(e)
  BY <1>1, <1>2 DEF Readers
<1>4. \A d \in Uploads \ {e} : Readers(d)' = Readers(d)
  BY <1>1 DEF Readers
<1>5. \A d \in Uploads : Retired(d)' <=> Retired(d)
  BY <1>1 DEF Retired
<1>6. Cardinality(Readers(e)') = Cardinality(Readers(e)) + 1
  <2>1. IsFiniteSet(Readers(e))
    BY SomeLints DEF Readers
  <2>2. Cardinality(Readers(e) \cup {l}) = Cardinality(Readers(e)) + 1
    BY <1>3, <2>1, FS_AddElement
  <2> QED
    BY <1>3, <2>2
<1>7. \A d \in Uploads : readers'[d] = Cardinality(Readers(d)')
  BY <1>1, <1>2, <1>4, <1>6 DEF DirInv
<1>8. \A d \in Uploads :
        /\ place[d] = "stored" /\ d \in stale => Readers(d)' # {} \/ Retired(d)'
        /\ Readers(d)' # {} => place[d] = "stored"
        /\ Retired(d)' => d \in stale /\ Readers(d)' = {}
  <2> SUFFICES ASSUME NEW d \in Uploads
               PROVE  /\ place[d] = "stored" /\ d \in stale => Readers(d)' # {} \/ Retired(d)'
                      /\ Readers(d)' # {} => place[d] = "stored"
                      /\ Retired(d)' => d \in stale /\ Readers(d)' = {}
    OBVIOUS
  <2>1. Retired(d)' <=> Retired(d)
    BY <1>5
  <2>2. CASE d = e
    BY <1>2, <2>1, <2>2
  <2>3. CASE d # e
    <3>1. Readers(d)' = Readers(d)
      BY <1>4, <2>3
    <3>2. /\ place[d] = "stored" /\ d \in stale => Readers(d) # {} \/ Retired(d)
          /\ Readers(d) # {} => place[d] = "stored"
          /\ Retired(d) => d \in stale /\ Readers(d) = {}
      BY DEF DirInv
    <3> QED
      BY <2>1, <3>1, <3>2
  <2> QED
    BY <2>2, <2>3
<1>9. \A m \in Lints : reading'[m] # None => gone[m] = {}
  BY <1>1 DEF DirInv
<1> QED
  BY <1>1, <1>7, <1>8, <1>9 DEF DirInv

LEMMA ReleaseStepKeeps ==
  ASSUME TypeOK, DirInv, NEW l \in Lints, Release(l)
  PROVE  DirInv'
<1> USE ActorsAssumption DEF TypeOK, Dirs, Actors
<1>0. PICK e \in Uploads : e = reading[l]
  BY DEF Release
<1> DEFINE last == e \in stale /\ readers[e] = 1
<1>1. /\ readers' = [readers EXCEPT ![e] = @ - 1] /\ reading' = [reading EXCEPT ![l] = None]
      /\ gone' = [gone EXCEPT ![l] = IF last THEN {e} ELSE {}]
      /\ UNCHANGED <<key, place, disk, size, entries, stale>>
  BY <1>0 DEF Release, uploadVars, dirVars
<1>2. l \in Readers(e) /\ gone[l] = {} /\ place[e] = "stored" /\ ~Retired(e)
  <2>1. l \in Readers(e) /\ gone[l] = {}
    BY <1>0 DEF DirInv, Readers
  <2> QED
    BY <2>1 DEF DirInv
<1>3. Readers(e)' = Readers(e) \ {l}
  BY <1>1, <1>2 DEF Readers
<1>4. \A d \in Uploads \ {e} : Readers(d)' = Readers(d)
  BY <1>0, <1>1 DEF Readers
<1>5. /\ Cardinality(Readers(e)') = Cardinality(Readers(e)) - 1
      /\ Cardinality(Readers(e)) = readers[e] /\ readers[e] \in Nat
      /\ Cardinality(Readers(e)') = 0 <=> Readers(e)' = {}
  <2>1. Readers(e) \in SUBSET Lints /\ Readers(e) \ {l} \in SUBSET Lints
    BY DEF Readers
  <2>2. IsFiniteSet(Readers(e)) /\ Cardinality(Readers(e)) \in Nat
    BY <2>1, SomeLints
  <2>3. Cardinality(Readers(e) \ {l}) = 0 <=> Readers(e) \ {l} = {}
    BY <2>1, SomeLints
  <2>4. Cardinality(Readers(e) \ {l}) = Cardinality(Readers(e)) - 1
    BY <1>2, <2>2, FS_RemoveElement
  <2>5. Cardinality(Readers(e)) = readers[e]
    BY <1>1 DEF DirInv
  <2> QED
    BY <1>3, <2>2, <2>3, <2>4, <2>5
<1>6. \A d \in Uploads : readers'[d] = Cardinality(Readers(d)')
  BY <1>1, <1>4, <1>5 DEF DirInv
<1>7. readers[e] = 1 <=> Readers(e)' = {}
  BY <1>5
<1>8. \A d \in Uploads : Retired(d)' <=> Retired(d) \/ (d = e /\ last)
  BY <1>1, <1>2 DEF Retired
<1>9. \A d \in Uploads, a, b \in Actors : d \in gone'[a] /\ d \in gone'[b] => a = b
  <2> SUFFICES ASSUME NEW d \in Uploads, NEW a \in Actors, NEW b \in Actors,
                      d \in gone'[a], d \in gone'[b]
               PROVE  a = b
    OBVIOUS
  <2>1. \A c \in Actors : c # l => gone'[c] = gone[c] /\ e \notin gone[c]
    BY <1>1, <1>2 DEF Retired
  <2>2. gone'[l] \subseteq {e}
    BY <1>1
  <2>3. d \in gone[a] /\ d \in gone[b] => a = b
    BY DEF DirInv
  <2> QED
    BY <2>1, <2>2, <2>3
<1> HIDE DEF last
<1>10. \A d \in Uploads \ {e} : Readers(d) # {} <=> Readers(d)' # {}
  BY <1>4
<1>11. \A m \in Lints : reading'[m] # None => reading[m] # None /\ gone'[m] = gone[m]
  BY <1>1
<1>12. \A d \in Uploads :
         /\ d \in stale => Readers(d)' # {} \/ Retired(d)' \/ place[d] = "deleted"
         /\ Readers(d)' # {} => Readers(d) # {}
         /\ Retired(d)' => d \in stale /\ Readers(d)' = {}
  <2> SUFFICES ASSUME NEW d \in Uploads
               PROVE  /\ d \in stale => Readers(d)' # {} \/ Retired(d)' \/ place[d] = "deleted"
                      /\ Readers(d)' # {} => Readers(d) # {}
                      /\ Retired(d)' => d \in stale /\ Readers(d)' = {}
    OBVIOUS
  <2>1. CASE d = e
    BY <1>2, <1>3, <1>7, <1>8, <2>1 DEF last
  <2>2. CASE d # e
    <3>1. /\ d \in stale => Readers(d) # {} \/ Retired(d) \/ place[d] = "deleted"
          /\ Retired(d) => d \in stale /\ Readers(d) = {}
      BY DEF DirInv
    <3>2. Retired(d)' <=> Retired(d)
      BY <1>8, <2>2
    <3>3. Readers(d) # {} <=> Readers(d)' # {}
      BY <1>10, <2>2
    <3> QED
      BY <3>1, <3>2, <3>3
  <2> QED
    BY <2>1, <2>2
<1> QED
  BY <1>1, <1>6, <1>9, <1>11, <1>12 DEF DirInv

LEMMA RemovalKeeps ==
  ASSUME TypeOK, DirInv, NEW a \in Actors, Removal(a)
  PROVE  DirInv'
<1> USE ActorsAssumption DEF TypeOK, Dirs, Actors
<1>0. PICK e \in Uploads : RemoveDir(a, e) \/ Credit(a, e)
  BY DEF Removal
<1>1. \A d \in Uploads : Readers(d)' = Readers(d)
  BY <1>0 DEF RemoveDir, Credit, Readers
<1>2. Retired(e)
  BY <1>0 DEF RemoveDir, Credit, Retired
<1>3. CASE RemoveDir(a, e)
  <2>1. /\ place[e] = "stored" /\ place' = [place EXCEPT ![e] = "deleted"]
        /\ disk' = [disk EXCEPT ![e] = 0]
        /\ UNCHANGED <<key, entries, stale, readers, reading, gone, size>>
    BY <1>3 DEF RemoveDir, uploadVars, entryVars
  <2>2. \A d \in Uploads : Retired(d)' <=> Retired(d)
    BY <2>1 DEF Retired
  <2>3. e \in stale /\ Readers(e) = {} /\ \A k \in Keys : entries[k] # e
    <3>1. e \in stale /\ Readers(e) = {} /\ entries[key[e]] # e
      BY <1>2, <2>1 DEF DirInv
    <3> QED
      BY <3>1 DEF DirInv
  <2> QED
    BY <1>1, <2>1, <2>2, <2>3 DEF DirInv
<1>4. CASE Credit(a, e)
  <2>1. /\ place[e] = "deleted" /\ gone' = [gone EXCEPT ![a] = @ \ {e}]
        /\ UNCHANGED <<key, entries, stale, readers, reading, place, disk, size>>
    BY <1>4 DEF Credit, uploadVars, dirVars, entryVars
  <2>2. \A d \in Uploads \ {e} : Retired(d)' <=> Retired(d)
    BY <2>1 DEF Retired
  <2>3. \A c \in Actors : gone'[c] \subseteq gone[c]
    BY <2>1
  <2>4. Retired(e)' => Retired(e)
    BY <2>3 DEF Retired
  <2>5. \A l \in Lints : gone[l] = {} => gone'[l] = {}
    BY <2>3
  <2>6. \A d \in Uploads, b, c \in Actors : d \in gone'[b] /\ d \in gone'[c] => b = c
    BY <2>3 DEF DirInv
  <2> QED
    BY <1>1, <2>1, <2>2, <2>4, <2>5, <2>6 DEF DirInv
<1> QED
  BY <1>0, <1>3, <1>4
\* What an upload that gets room for its next file, of n bytes, does: the
\* entries of keys K go.
EvictStep(u, n, K) ==
  /\ stage[u] = "extract" /\ n <= MaxBytes - size[u]
  /\ K \in SUBSET Unread /\ Room(K, n) /\ Retire(K)
  /\ gone' = [gone EXCEPT ![u] = {entries[k] : k \in K}]
  /\ claim' = [claim EXCEPT ![u] = n]
  /\ reserved' = [reserved EXCEPT ![u] = @ + n] /\ used' = used + n
  /\ Moves(u, "write") /\ UNCHANGED <<lockVars, key, print, dirVars, reading, readers>>

Refused(u, n) ==
  /\ stage[u] = "extract" /\ Moves(u, "discard") /\ claim' = [claim EXCEPT ![u] = n]
  /\ UNCHANGED <<lockVars, key, print, dirVars, entryVars, reserved, used, reading, gone>>

LEMMA NextFileDoes ==
  ASSUME NEW u \in Uploads, NEW n \in Sizes, NextFile(u, n)
  PROVE  Refused(u, n) \/ \E K \in SUBSET Unread : EvictStep(u, n, K)
<1>1. CASE n > MaxBytes - size[u] /\ End(u, "discard", "too_large")
           /\ UNCHANGED <<reserved, entryVars, used, gone>>
  BY <1>1 DEF NextFile, Refused, End, Go, Moves
<1>2. CASE n <= MaxBytes - size[u] /\ End(u, "discard", "cache_full")
           /\ UNCHANGED <<reserved, entryVars, used, gone>>
  BY <1>2 DEF NextFile, Refused, End, Go, Moves
<1>3. CASE /\ n <= MaxBytes - size[u]
           /\ \E c \in Candidates(key[u]), i \in 0 .. Cardinality(Unread) :
                LET K == {c[x] : x \in 1 .. i} IN
                /\ Evicts(c, n, i) /\ Retire(K) /\ older' = Without(K)
                /\ gone' = [gone EXCEPT ![u] = {entries[k] : k \in K}]
           /\ Go(u, "write") /\ reserved' = [reserved EXCEPT ![u] = @ + n] /\ used' = used + n
           /\ UNCHANGED <<readers, outcome>>
  <2>1. PICK c \in Candidates(key[u]), i \in 0 .. Cardinality(Unread) :
          LET K == {c[x] : x \in 1 .. i} IN
          /\ Evicts(c, n, i) /\ Retire(K) /\ older' = Without(K)
          /\ gone' = [gone EXCEPT ![u] = {entries[k] : k \in K}]
    BY <1>3
  <2> DEFINE K == {c[x] : x \in 1 .. i}
  <2>2. Room(K, n)
    BY <2>1 DEF Evicts
  <2>3. Cardinality(Unread) \in Nat
    BY ActorsAssumption, FS_Subset, FS_CardinalityType DEF Unread, Present
  <2>4. K \in SUBSET Unread
    BY <2>1, <2>3 DEF Candidates
  <2>5. EvictStep(u, n, K)
    BY <1>3, <2>1, <2>2, <2>4 DEF NextFile, EvictStep, Go, Moves
  <2> QED
    BY <2>4, <2>5
<1> QED
  BY <1>1, <1>2, <1>3 DEF NextFile

LEMMA EvictKeeps ==
  ASSUME TypeOK, DirInv, UploadInv, NEW u \in Uploads, NEW n \in Sizes, NEW K, EvictStep(u, n, K)
  PROVE  DirInv'
<1> USE ActorsAssumption DEF TypeOK, Dirs, Actors
<1>0. PICK E : E = {entries[k] : k \in K}
  OBVIOUS
<1>1. /\ entries' = [k \in Keys |-> IF k \in K THEN None ELSE entries[k]]
      /\ stale' = stale \cup E /\ gone' = [gone EXCEPT ![u] = E] /\ gone[u] = {}
      /\ UNCHANGED <<key, place, disk, size, readers, reading>>
  BY <1>0 DEF EvictStep, Retire, dirVars, UploadInv
<1>2. \A k \in K : k \in Keys /\ entries[k] \in Uploads /\ readers[entries[k]] = 0
  BY DEF EvictStep, Unread, Present
<1>3. \A d \in E : /\ d \in Uploads /\ place[d] = "stored" /\ d = entries[key[d]] /\ key[d] \in K
                   /\ readers[d] = 0
  <2> SUFFICES ASSUME NEW d \in E
               PROVE  /\ d \in Uploads /\ place[d] = "stored" /\ d = entries[key[d]] /\ key[d] \in K
                      /\ readers[d] = 0
    OBVIOUS
  <2>1. PICK k \in K : d = entries[k]
    BY <1>0
  <2>2. k \in Keys /\ d \in Uploads /\ readers[d] = 0
    BY <1>2, <2>1
  <2>3. entries[k] # None => key[entries[k]] = k /\ place[entries[k]] = "stored"
    BY <2>2 DEF DirInv
  <2> QED
    BY <2>1, <2>2, <2>3
<1>4. \A d \in E : d \notin stale /\ ~Retired(d) /\ Readers(d) = {}
  <2> SUFFICES ASSUME NEW d \in E PROVE d \notin stale /\ ~Retired(d) /\ Readers(d) = {}
    OBVIOUS
  <2>1. d \notin stale
    BY <1>3 DEF DirInv
  <2>2. Cardinality(Readers(d)) = 0 /\ Readers(d) \in SUBSET Lints
    <3>1. readers[d] = Cardinality(Readers(d))
      BY <1>3 DEF DirInv
    <3> QED
      BY <1>3, <3>1 DEF Readers
  <2>3. Readers(d) = {}
    BY <2>2, SomeLints
  <2>4. Retired(d) => d \in stale
    BY <1>3 DEF DirInv
  <2> QED
    BY <2>1, <2>3, <2>4
<1>5. \A d \in Uploads : Readers(d)' = Readers(d)
  BY <1>1 DEF Readers
<1>6. \A d \in Uploads : Retired(d)' <=> Retired(d) \/ d \in E
  BY <1>1 DEF Retired
<1>7. \A d \in Uploads, a, b \in Actors : d \in gone'[a] /\ d \in gone'[b] => a = b
  <2> SUFFICES ASSUME NEW d \in Uploads, NEW a \in Actors, NEW b \in Actors,
                      d \in gone'[a], d \in gone'[b]
               PROVE  a = b
    OBVIOUS
  <2>1. \A c \in Actors : c # u => gone'[c] = gone[c]
    BY <1>1
  <2>2. gone'[u] = E
    BY <1>1
  <2>3. d \in E => ~(d \in gone[a]) /\ ~(d \in gone[b])
    BY <1>4 DEF Retired
  <2>4. d \in gone[a] /\ d \in gone[b] => a = b
    BY DEF DirInv
  <2> QED
    BY <2>1, <2>2, <2>3, <2>4
<1>8. \A d \in Uploads : place[d] = "stored" =>
        /\ d \in stale' <=> entries'[key[d]] # d
        /\ d \in stale' => Readers(d)' # {} \/ Retired(d)'
  <2> SUFFICES ASSUME NEW d \in Uploads, place[d] = "stored"
               PROVE  /\ d \in stale' <=> entries'[key[d]] # d
                      /\ d \in stale' => Readers(d)' # {} \/ Retired(d)'
    OBVIOUS
  <2>1. CASE d \in E
    BY <1>1, <1>3, <1>6, <2>1
  <2>2. CASE d \notin E
    <3>1. d \in stale <=> entries[key[d]] # d
      BY DEF DirInv
    <3>2. d \in stale => Readers(d) # {} \/ Retired(d)
      BY DEF DirInv
    <3>3. entries'[key[d]] # d <=> entries[key[d]] # d
      BY <1>0, <1>1, <2>2
    <3>4. d \in stale' <=> d \in stale
      BY <1>1, <2>2
    <3> QED
      BY <1>5, <1>6, <3>1, <3>2, <3>3, <3>4
  <2> QED
    BY <2>1, <2>2
<1>9. \A d \in Uploads :
        /\ d \in stale' => place[d] \in {"stored", "deleted"}
        /\ Retired(d)' => d \in stale' /\ Readers(d)' = {}
  <2> SUFFICES ASSUME NEW d \in Uploads
               PROVE  /\ d \in stale' => place[d] \in {"stored", "deleted"}
                      /\ Retired(d)' => d \in stale' /\ Readers(d)' = {}
    OBVIOUS
  <2>1. /\ d \in stale => place[d] \in {"stored", "deleted"}
        /\ Retired(d) => d \in stale /\ Readers(d) = {}
    BY DEF DirInv
  <2>2. d \in stale' <=> d \in stale \/ d \in E
    BY <1>1
  <2> QED
    BY <1>3, <1>4, <1>5, <1>6, <2>1, <2>2
<1>10. \A d \in Uploads :
         /\ place[d] = "stored" => disk[d] = size[d]
         /\ place[d] \in {"none", "deleted"} => disk[d] = 0
         /\ Readers(d)' # {} => place[d] = "stored"
         /\ readers[d] = Cardinality(Readers(d)')
  BY <1>5 DEF DirInv
<1>11. /\ \A k \in Keys : entries'[k] # None => key[entries'[k]] = k /\ place[entries'[k]] = "stored"
       /\ \A l \in Lints : reading[l] # None => gone'[l] = {}
  BY <1>1 DEF DirInv
<1> QED
  BY <1>1, <1>7, <1>8, <1>9, <1>10, <1>11 DEF DirInv

\* What an upload that stores its set does.
InstallStep(u) ==
  /\ stage[u] = "install" /\ Moves(u, "clean")
  /\ place' = [place EXCEPT ![u] = "stored"]
  /\ entries' = [entries EXCEPT ![key[u]] = u]
  /\ stale' = stale \cup ({entries[key[u]]} \ {None})
  /\ used' = used + size[u] - reserved[u]
  /\ reserved' = [reserved EXCEPT ![u] = 0]
  /\ gone' = [gone EXCEPT ![u] =
                IF entries[key[u]] # None /\ readers[entries[key[u]]] = 0 THEN {entries[key[u]]} ELSE {}]
  /\ UNCHANGED <<lockVars, key, print, disk, size, reading, readers>>

LEMMA InstallDoes ==
  ASSUME NEW u \in Uploads, Install(u)
  PROVE  \/ InstallStep(u)
         \/ /\ Moves(u, "discard") /\ stage[u] = "install"
            /\ UNCHANGED <<lockVars, key, print, dirVars, entryVars, used, reserved, gone, reading>>
<1>1. CASE End(u, "discard", "rejected") /\ UNCHANGED <<place, entryVars, used, reserved, gone>>
  BY <1>1 DEF Install, End, Go, Moves, dirVars
<1> DEFINE d == entries[key[u]]
<1>2. CASE /\ End(u, "clean", "stored")
           /\ place' = [place EXCEPT ![u] = "stored"]
           /\ entries' = [entries EXCEPT ![key[u]] = u]
           /\ stale' = stale \cup ({d} \ {None})
           /\ used' = used + size[u] - reserved[u]
           /\ reserved' = [reserved EXCEPT ![u] = 0]
           /\ gone' = [gone EXCEPT ![u] = IF d # None /\ readers[d] = 0 THEN {d} ELSE {}]
           /\ UNCHANGED readers
  <2>1. stage[u] = "install" /\ UNCHANGED <<lockVars, key, print, disk, size, reading>>
    BY DEF Install
  <2>2. Moves(u, "clean")
    BY <1>2 DEF End, Go, Moves
  <2> HIDE DEF d
  <2>3. InstallStep(u)
    BY <1>2, <2>1, <2>2, Zenon DEF InstallStep, d
  <2> QED
    BY <2>3
<1> QED
  BY <1>1, <1>2 DEF Install

LEMMA InstallKeeps ==
  ASSUME TypeOK, DirInv, UploadInv, NEW u \in Uploads, InstallStep(u)
  PROVE  DirInv'
<1> USE ActorsAssumption DEF TypeOK, Dirs, Actors
<1>a. PICK e \in Dirs : e = entries[key[u]]
  OBVIOUS
<1>0. PICK G : e = entries[key[u]] /\ G = IF e # None /\ readers[e] = 0 THEN {e} ELSE {}
  BY <1>a
<1>1. /\ place' = [place EXCEPT ![u] = "stored"] /\ entries' = [entries EXCEPT ![key[u]] = u]
      /\ stale' = stale \cup ({e} \ {None}) /\ gone' = [gone EXCEPT ![u] = G]
      /\ UNCHANGED <<key, disk, size, reading, readers>>
      /\ gone[u] = {} /\ place[u] = "staging" /\ disk[u] = size[u]
  BY <1>0 DEF InstallStep, UploadInv, StagingStages
<1>2. u \notin stale /\ Readers(u) = {} /\ ~Retired(u) /\ u # e
  <2>1. u \notin stale /\ Readers(u) = {} /\ ~Retired(u)
    BY <1>1 DEF DirInv
  <2> QED
    BY <1>0, <1>1, <2>1 DEF DirInv
<1>3. e # None => /\ key[e] = key[u] /\ place[e] = "stored" /\ e \notin stale /\ ~Retired(e)
                  /\ (readers[e] = 0 <=> Readers(e) = {})
  <2> SUFFICES ASSUME e # None
               PROVE  /\ key[e] = key[u] /\ place[e] = "stored" /\ e \notin stale /\ ~Retired(e)
                      /\ (readers[e] = 0 <=> Readers(e) = {})
    OBVIOUS
  <2>1. e \in Uploads /\ key[e] = key[u] /\ place[e] = "stored"
    BY <1>0 DEF DirInv
  <2>2. e \notin stale
    BY <1>0, <2>1 DEF DirInv
  <2>3. Retired(e) => e \in stale
    BY <2>1 DEF DirInv
  <2>4. readers[e] = Cardinality(Readers(e)) /\ Readers(e) \in SUBSET Lints
    BY <2>1 DEF DirInv, Readers
  <2>5. readers[e] = 0 <=> Readers(e) = {}
    BY <2>4, SomeLints
  <2> QED
    BY <2>1, <2>2, <2>3, <2>5
<1>4. \A d \in Uploads : Readers(d)' = Readers(d)
  BY <1>1 DEF Readers
<1>5. \A d \in Uploads : Retired(d)' <=> Retired(d) \/ d \in G
  BY <1>1 DEF Retired
<1>6. \A d \in G : d = e /\ e # None /\ Readers(e) = {}
  BY <1>0, <1>3
<1>7. \A d \in Uploads, a, b \in Actors : d \in gone'[a] /\ d \in gone'[b] => a = b
  <2> SUFFICES ASSUME NEW d \in Uploads, NEW a \in Actors, NEW b \in Actors,
                      d \in gone'[a], d \in gone'[b]
               PROVE  a = b
    OBVIOUS
  <2>1. (\A c \in Actors : c # u => gone'[c] = gone[c]) /\ gone'[u] = G
    BY <1>1
  <2>2. d \in G => ~(d \in gone[a]) /\ ~(d \in gone[b])
    BY <1>3, <1>6 DEF Retired
  <2>3. d \in gone[a] /\ d \in gone[b] => a = b
    BY DEF DirInv
  <2> QED
    BY <2>1, <2>2, <2>3
<1>8. \A d \in Uploads : place'[d] = "stored" =>
        /\ disk[d] = size[d]
        /\ d \in stale' <=> entries'[key[d]] # d
        /\ d \in stale' => Readers(d)' # {} \/ Retired(d)'
  <2> SUFFICES ASSUME NEW d \in Uploads, place'[d] = "stored"
               PROVE  /\ disk[d] = size[d]
                      /\ d \in stale' <=> entries'[key[d]] # d
                      /\ d \in stale' => Readers(d)' # {} \/ Retired(d)'
    OBVIOUS
  <2>1. CASE d = u
    BY <1>1, <1>2, <2>1
  <2>2. CASE d = e
    <3>1. disk[d] = size[d] /\ d \in stale' /\ entries'[key[d]] # d
      BY <1>1, <1>2, <1>3, <2>2 DEF DirInv
    <3>2. d \in G \/ Readers(d) # {}
      BY <1>0, <1>3, <2>2
    <3>3. Readers(d)' = Readers(d) /\ (d \in G => Retired(d)')
      BY <1>4, <1>5
    <3> QED
      BY <3>1, <3>2, <3>3
  <2>3. CASE d # u /\ d # e
    <3>1. place[d] = "stored" /\ (d \in stale' <=> d \in stale)
      BY <1>1, <2>3
    <3>2. /\ disk[d] = size[d] /\ (d \in stale <=> entries[key[d]] # d)
          /\ d \in stale => Readers(d) # {} \/ Retired(d)
      BY <3>1 DEF DirInv
    <3>3. entries'[key[d]] # d <=> entries[key[d]] # d
      BY <1>0, <1>1, <2>3
    <3>4. Readers(d)' = Readers(d) /\ (Retired(d) => Retired(d)')
      BY <1>4, <1>5
    <3> QED
      BY <3>1, <3>2, <3>3, <3>4
  <2> QED
    BY <2>1, <2>2, <2>3
<1>9. \A d \in Uploads :
        /\ d \in stale' => place'[d] \in {"stored", "deleted"}
        /\ Retired(d)' => d \in stale' /\ Readers(d)' = {}
  <2> SUFFICES ASSUME NEW d \in Uploads
               PROVE  /\ d \in stale' => place'[d] \in {"stored", "deleted"}
                      /\ Retired(d)' => d \in stale' /\ Readers(d)' = {}
    OBVIOUS
  <2>1. /\ d \in stale => place[d] \in {"stored", "deleted"}
        /\ Retired(d) => d \in stale /\ Readers(d) = {}
    BY DEF DirInv
  <2>2. (d \in stale' <=> d \in stale \/ d = e) /\ (d # u => place'[d] = place[d]) /\ place'[u] = "stored"
    BY <1>1
  <2> QED
    BY <1>3, <1>4, <1>5, <1>6, <2>1, <2>2
<1>10. \A d \in Uploads :
         /\ place'[d] \in {"none", "deleted"} => disk[d] = 0
         /\ Readers(d)' # {} => place'[d] = "stored"
         /\ readers[d] = Cardinality(Readers(d)')
  BY <1>1, <1>4 DEF DirInv
<1>11. /\ \A k \in Keys : entries'[k] # None => key[entries'[k]] = k /\ place'[entries'[k]] = "stored"
       /\ \A l \in Lints : reading[l] # None => gone'[l] = {}
  BY <1>1 DEF DirInv
<1> QED
  BY <1>1, <1>7, <1>8, <1>9, <1>10, <1>11 DEF DirInv

\* Every step leaves the directories where their readers and the map need them.
LEMMA DirStepKeeps ==
  ASSUME TypeOK, DirInv, UploadInv, [Next]_vars
  PROVE  DirInv'
<1>1. CASE UNCHANGED vars
  BY <1>1, DirsStay DEF vars, dirVars, entryVars, uploadVars
<1>2. CASE LintStep
  BY <1>2, AcquireKeeps, ReleaseStepKeeps DEF LintStep
<1>3. CASE RemovalStep
  BY <1>3, RemovalKeeps DEF RemovalStep
<1>4. ASSUME NEW u \in Uploads, Start(u) \/ LockStep(u) \/ EndOfArchive(u) \/ Clean(u) \/ Unreserve(u)
      PROVE  DirInv'
  <2>1. UNCHANGED <<key, entries, stale, readers, reading, gone, place, disk, size>>
    BY <1>4 DEF Start, LockStep, LockKey, Lock, Unlock, Unref, EndOfArchive, Clean, Unreserve,
                dirVars, entryVars
  <2> QED
    BY <2>1, DirsStay
<1>5. ASSUME NEW u \in Uploads, Holds(u) \/ WriteFile(u) \/ Discard(u)
      PROVE  DirInv'
  <2> USE DEF TypeOK, StagingStages
  <2>1. UNCHANGED <<key, entries, stale, readers, reading, gone>>
    BY <1>5 DEF Holds, WriteFile, Discard, entryVars
  <2>2. CASE UNCHANGED place /\ UNCHANGED disk /\ UNCHANGED size
    BY <2>1, <2>2, DirsStay
  <2>3. CASE ~(UNCHANGED place /\ UNCHANGED disk /\ UNCHANGED size)
    <3>1. place[u] \in {"none", "staging"}
      BY <1>5, <2>3 DEF Holds, WriteFile, Discard, UploadInv
    <3>2. place'[u] \in {"staging", "deleted"} /\ (place'[u] = "deleted" => disk'[u] = 0)
      BY <1>5, <2>3 DEF Holds, WriteFile, Discard, UploadInv
    <3>3. \A d \in Uploads \ {u} : place'[d] = place[d] /\ disk'[d] = disk[d] /\ size'[d] = size[d]
      BY <1>5 DEF Holds, WriteFile, Discard
    <3> QED
      BY <2>1, <3>1, <3>2, <3>3, StagingKeeps
  <2> QED
    BY <2>2, <2>3
<1>6. ASSUME NEW u \in Uploads, NEW n \in Sizes, NextFile(u, n)
      PROVE  DirInv'
  <2>1. CASE Refused(u, n)
    <3>1. UNCHANGED <<key, entries, stale, readers, reading, gone, place, disk, size>>
      BY <2>1 DEF Refused, dirVars, entryVars
    <3> QED
      BY <3>1, DirsStay
  <2>2. CASE \E K \in SUBSET Unread : EvictStep(u, n, K)
    BY <2>2, EvictKeeps
  <2> QED
    BY <1>6, <2>1, <2>2, NextFileDoes
<1>7. ASSUME NEW u \in Uploads, Install(u)
      PROVE  DirInv'
  <2>1. CASE InstallStep(u)
    BY <2>1, InstallKeeps
  <2>2. CASE ~InstallStep(u)
    <3>1. UNCHANGED <<key, entries, stale, readers, reading, gone, place, disk, size>>
      BY <1>7, <2>2, InstallDoes DEF dirVars, entryVars
    <3> QED
      BY <3>1, DirsStay
  <2> QED
    BY <2>1, <2>2
<1> QED
  BY <1>1, <1>2, <1>3, <1>4, <1>5, <1>6, <1>7, Steps DEF SetStep
(***************************************************************************)
(* What an upload reserves and writes.                                     *)
(***************************************************************************)

Bytes == [Uploads -> 0 .. MaxBytes]
BytesOK == reserved \in Bytes /\ disk \in Bytes /\ size \in Bytes

\* Lints and removals leave an upload what it reserved and wrote.
LEMMA OthersKeepUploads ==
  ASSUME TypeOK, DirInv, UploadInv, LintStep \/ RemovalStep \/ UNCHANGED vars
  PROVE  UploadInv' /\ BytesOK'
<1> USE ActorsAssumption, BudgetAssumption DEF TypeOK, Actors, StagingStages, Bytes, BytesOK
<1>0. UNCHANGED <<stage, claim, reserved, size>>
  BY OthersMoveNothing DEF uploadVars, LintStep, RemovalStep, Release, Acquire, Removal, RemoveDir,
     Credit, dirVars, vars
<1>1. CASE LintStep \/ UNCHANGED vars
  <2>1. UNCHANGED <<place, disk>> /\ \A u \in Uploads : gone'[u] = gone[u]
    <3>1. CASE UNCHANGED vars
      BY <3>1 DEF vars, dirVars
    <3>2. ASSUME NEW l \in Lints, Release(l) \/ \E k \in Keys, f \in Prints : Acquire(l, k, f)
          PROVE  UNCHANGED <<place, disk>> /\ \A u \in Uploads : gone'[u] = gone[u]
      BY <3>2 DEF Release, Acquire, dirVars
    <3> QED
      BY <1>1, <3>1, <3>2 DEF LintStep
  <2> QED
    BY <1>0, <2>1 DEF UploadInv
<1>2. CASE RemovalStep
  <2>1. PICK a \in Actors, d \in Uploads : RemoveDir(a, d) \/ Credit(a, d)
    BY <1>2 DEF RemovalStep, Removal
  <2>2. \A u \in Uploads : gone'[u] # {} => gone[u] # {}
    BY <2>1 DEF RemoveDir, Credit
  <2>3. CASE RemoveDir(a, d)
    <3>1. /\ place[d] = "stored" /\ place' = [place EXCEPT ![d] = "deleted"]
          /\ disk' = [disk EXCEPT ![d] = 0]
      BY <2>3 DEF RemoveDir
    <3>2. \A u \in Uploads : (place'[u] = "staging" <=> place[u] = "staging")
            /\ (place'[u] = "none" <=> place[u] = "none") /\ (place[u] = "staging" => disk'[u] = disk[u])
      BY <3>1
    <3> QED
      BY <1>0, <2>2, <3>1, <3>2 DEF UploadInv
  <2>4. CASE Credit(a, d)
    <3>1. UNCHANGED <<place, disk>>
      BY <2>4 DEF Credit, dirVars
    <3> QED
      BY <1>0, <2>2, <3>1 DEF UploadInv
  <2> QED
    BY <2>1, <2>3, <2>4
<1> QED
  BY <1>1, <1>2

LEMMA UploadStepKeeps ==
  ASSUME TypeOK, DirInv, UploadInv, [Next]_vars
  PROVE  UploadInv' /\ BytesOK'
<1> USE BudgetAssumption DEF TypeOK, StagingStages, Bytes, BytesOK
<1>1. CASE LintStep \/ RemovalStep \/ UNCHANGED vars
  BY <1>1, OthersKeepUploads
<1>2. ASSUME NEW u \in Uploads, Start(u) \/ LockStep(u)
      PROVE  UploadInv' /\ BytesOK'
  BY <1>2 DEF Start, LockStep, LockKey, Lock, Unlock, Unref, End, Go, dirVars, UploadInv
<1>3. ASSUME NEW u \in Uploads, Holds(u)
      PROVE  UploadInv' /\ BytesOK'
  <2>1. stage[u] = "holds" /\ place[u] = "none" /\ size[u] = 0 /\ disk[u] = 0 /\ reserved[u] = 0
    BY <1>3 DEF Holds, UploadInv, DirInv
  <2> QED
    BY <1>3, <2>1 DEF Holds, End, Go, UploadInv
<1>4. ASSUME NEW u \in Uploads, NEW n \in Sizes, NextFile(u, n)
      PROVE  UploadInv' /\ BytesOK'
  <2>1. CASE Refused(u, n)
    BY <2>1 DEF Refused, Moves, dirVars, UploadInv
  <2>2. ASSUME NEW K \in SUBSET Unread, EvictStep(u, n, K)
        PROVE  UploadInv' /\ BytesOK'
    BY <2>2 DEF EvictStep, Moves, dirVars, UploadInv
  <2> QED
    BY <1>4, <2>1, <2>2, NextFileDoes
<1>5. ASSUME NEW u \in Uploads, WriteFile(u)
      PROVE  UploadInv' /\ BytesOK'
  <2>1. /\ stage[u] = "write" /\ gone[u] = {} /\ place[u] = "staging"
        /\ UNCHANGED <<claim, reserved, place, gone>>
        /\ disk[u] = size[u] /\ reserved[u] = size[u] + claim[u] /\ claim[u] \in Nat
    <3>1. /\ stage[u] = "write" /\ gone[u] = {}
          /\ UNCHANGED <<claim, reserved, place, gone>>
      BY <1>5 DEF WriteFile
    <3>2. claim[u] \in Sizes \cup {0}
      OBVIOUS
    <3>3. /\ stage[u] \in StagingStages => place[u] = "staging"
          /\ stage[u] = "write" => disk[u] = size[u] /\ reserved[u] = size[u] + claim[u]
      BY DEF UploadInv
    <3>4. claim[u] \in Nat
      <4>1. CASE claim[u] = 0
        BY <4>1
      <4>2. CASE claim[u] \in Sizes
        <5>1. Sizes \subseteq Nat
          BY BudgetAssumption
        <5> QED
          BY <4>2, <5>1, Zenon
      <4> QED
        BY <3>2, <4>1, <4>2
    <3> QED
      BY <3>1, <3>3, <3>4
  <2>2. CASE /\ disk' = [disk EXCEPT ![u] = @ + claim[u]]
             /\ size' = [size EXCEPT ![u] = @ + claim[u]]
             /\ Go(u, "extract")
    BY <2>1, <2>2 DEF Go, UploadInv
  <2>3. ASSUME NEW m \in 0 .. claim[u], disk' = [disk EXCEPT ![u] = @ + m], UNCHANGED size,
               stage' = [stage EXCEPT ![u] = "discard"]
        PROVE  UploadInv' /\ BytesOK'
    <3>1. m \in Nat /\ m <= claim[u] /\ disk[u] + m \in 0 .. MaxBytes /\ disk[u] + m <= reserved[u]
      BY <2>1, <2>3
    <3> QED
      BY <2>1, <2>3, <3>1 DEF UploadInv
  <2> QED
    BY <1>5, <2>2, <2>3 DEF WriteFile, End, Go
<1>6. ASSUME NEW u \in Uploads, EndOfArchive(u) \/ Clean(u)
      PROVE  UploadInv' /\ BytesOK'
  BY <1>6 DEF EndOfArchive, Clean, End, Go, dirVars, UploadInv
<1>7. ASSUME NEW u \in Uploads, Install(u)
      PROVE  UploadInv' /\ BytesOK'
  <2>1. CASE InstallStep(u)
    <3>1. claim' = claim
      BY <1>7 DEF Install
    <3> QED
      BY <2>1, <3>1 DEF InstallStep, Moves, UploadInv
  <2>2. CASE ~InstallStep(u)
    <3>1. /\ stage[u] = "install" /\ Moves(u, "discard")
          /\ UNCHANGED <<place, disk, size, reserved, gone>>
      BY <1>7, <2>2, InstallDoes DEF dirVars
    <3>2. claim' = claim
      BY <1>7 DEF Install
    <3> QED
      BY <3>1, <3>2 DEF Moves, UploadInv
  <2> QED
    BY <2>1, <2>2
<1>8. ASSUME NEW u \in Uploads, Discard(u) \/ Unreserve(u)
      PROVE  UploadInv' /\ BytesOK'
  BY <1>8 DEF Discard, Unreserve, Go, dirVars, UploadInv
<1> QED
  BY <1>1, <1>2, <1>3, <1>4, <1>5, <1>6, <1>7, <1>8, Steps DEF SetStep
(***************************************************************************)
(* What is used.                                                           *)
(***************************************************************************)

\* A directory counts while it is stored or someone has to remove it.
Counts(d) == (d \in Uploads /\ place[d] = "stored") \/ Retired(d)

LEMMA CountedCounts == (\A d : d \in Counted <=> Counts(d)) /\ (\A d : d \in Counted <=> Counts(d))'
BY DEF Counted, Counts, Retired

LEMMA UsedStays ==
  ASSUME UsedInv, UNCHANGED <<used, reserved>>, \A d : Counts(d)' <=> Counts(d),
         \A d \in Counted : size'[d] = size[d]
  PROVE  UsedInv'
<1>1. Counted' = Counted
  BY CountedCounts
<1>2. Total(size', Counted) = Total(size, Counted)
  BY TotalSame
<1> QED
  BY <1>1, <1>2 DEF UsedInv

\* A directory that is not stored, nor waits to be removed.
LEMMA StagingCountsNot ==
  ASSUME TypeOK, DirInv, NEW u \in Uploads, place[u] \in {"none", "staging"}
  PROVE  ~Counts(u) /\ ~Retired(u) /\ u \notin Counted
<1>1. ~Retired(u)
  BY DEF DirInv
<1> QED
  BY <1>1, CountedCounts DEF Counts

LEMMA CreditUsed ==
  ASSUME TypeOK, DirInv, UsedInv, NEW a \in Actors, NEW d \in Uploads, Credit(a, d)
  PROVE  UsedInv' /\ used' <= used
<1> USE DEF TypeOK
<1>1. /\ d \in gone[a] /\ place[d] = "deleted" /\ used' = used - size[d]
      /\ gone' = [gone EXCEPT ![a] = @ \ {d}] /\ UNCHANGED <<reserved, size, place>>
  BY DEF Credit, uploadVars, dirVars
<1>2. \A b \in Actors : d \in gone[b] => b = a
  BY <1>1 DEF DirInv
<1>3. ~Retired(d)'
  BY <1>1, <1>2 DEF Retired
<1>4. \A e : e # d => (Retired(e)' <=> Retired(e))
  BY <1>1 DEF Retired
<1>5. Retired(d)
  BY <1>1 DEF Retired
<1>6. \A e : Counts(e)' <=> Counts(e) /\ e # d
  BY <1>1, <1>3, <1>4 DEF Counts
<1>7. Counted' = Counted \ {d} /\ d \in Counted
  BY <1>5, <1>6, CountedCounts DEF Counts
<1>8. Counted \in SUBSET Uploads /\ Counted \ {d} \in SUBSET Uploads /\ size \in [Uploads -> 0 .. MaxBytes]
  BY DEF Counted
<1>9. Total(size, Counted) = Total(size, Counted \ {d}) + size[d]
  BY <1>7, <1>8, TotalRemove
<1>10. /\ Total(size, Counted) \in Nat /\ Total(size, Counted \ {d}) \in Nat
       /\ Total(reserved, Uploads) \in Nat /\ size[d] \in Nat
  BY <1>8, TotalType, BudgetAssumption
<1>11. used = Total(reserved, Uploads) + Total(size, Counted)
  BY DEF UsedInv
<1>12. used' = Total(reserved, Uploads) + Total(size, Counted \ {d}) /\ used' <= used
  BY <1>1, <1>9, <1>10, <1>11
<1> QED
  BY <1>1, <1>7, <1>12 DEF UsedInv

LEMMA EvictUsed ==
  ASSUME TypeOK, DirInv, UploadInv, UsedInv, BytesOK', NEW u \in Uploads, NEW n \in Sizes, NEW K,
         EvictStep(u, n, K)
  PROVE  UsedInv'
<1> USE ActorsAssumption DEF TypeOK, Dirs, Actors
<1>0. PICK E : E = {entries[k] : k \in K}
  OBVIOUS
<1>1. /\ gone' = [gone EXCEPT ![u] = E] /\ gone[u] = {}
      /\ reserved' = [reserved EXCEPT ![u] = @ + n] /\ used' = used + n
      /\ UNCHANGED <<size, place>>
  BY <1>0 DEF EvictStep, dirVars, UploadInv
<1>2. \A d \in E : d \in Uploads /\ place[d] = "stored"
  <2> SUFFICES ASSUME NEW k \in K PROVE entries[k] \in Uploads /\ place[entries[k]] = "stored"
    BY <1>0
  <2>1. k \in Keys /\ entries[k] # None
    BY DEF EvictStep, Unread, Present
  <2> QED
    BY <2>1 DEF DirInv
<1>3. \A d : Retired(d)' <=> Retired(d) \/ d \in E
  BY <1>1 DEF Retired
<1>4. \A d : Counts(d)' <=> Counts(d)
  BY <1>1, <1>2, <1>3 DEF Counts
<1>5. Counted' = Counted
  BY <1>4, CountedCounts
<1>6. /\ reserved \in [Uploads -> 0 .. MaxBytes] /\ reserved' \in [Uploads -> 0 .. MaxBytes]
      /\ size \in [Uploads -> 0 .. MaxBytes]
  BY DEF BytesOK, Bytes
<1>7. reserved'[u] = reserved[u] + n /\ \A v \in Uploads \ {u} : reserved'[v] = reserved[v]
  BY <1>1
<1>8. Uploads \in SUBSET Uploads /\ Counted \in SUBSET Uploads
  BY DEF Counted
<1> HIDE DEF TypeOK, Dirs, Actors
<1>9. Total(reserved', Uploads) + reserved[u] = Total(reserved, Uploads) + reserved'[u]
  BY <1>6, <1>7, <1>8, TotalExcept
<1>10. /\ Total(reserved', Uploads) \in Nat /\ Total(reserved, Uploads) \in Nat
       /\ Total(size, Counted) \in Nat
  BY <1>6, <1>8, TotalType
<1>11. reserved[u] \in Nat /\ n \in Nat
  BY <1>6, BudgetAssumption
<1>12. used = Total(reserved, Uploads) + Total(size, Counted)
  BY DEF UsedInv
<1>13. used' = used + n
  BY <1>1
<1>14. used' = Total(reserved', Uploads) + Total(size, Counted)
  BY <1>7, <1>9, <1>10, <1>11, <1>12, <1>13
<1> QED
  BY <1>1, <1>5, <1>14 DEF UsedInv

\* install and unreserve: nothing stays reserved; what is stored counts.
LEMMA FreedReservation ==
  ASSUME TypeOK, BytesOK', NEW u \in Uploads, reserved' = [reserved EXCEPT ![u] = 0]
  PROVE  /\ Total(reserved, Uploads) = Total(reserved', Uploads) + reserved[u]
         /\ Total(reserved', Uploads) \in Nat /\ Total(reserved, Uploads) \in Nat /\ reserved[u] \in Nat
<1>1. /\ reserved \in [Uploads -> 0 .. MaxBytes] /\ reserved' \in [Uploads -> 0 .. MaxBytes]
      /\ Uploads \in SUBSET Uploads
  BY DEF TypeOK, BytesOK, Bytes
<1>2. reserved'[u] = 0 /\ \A v \in Uploads \ {u} : reserved'[v] = reserved[v]
  BY <1>1
<1>3. Total(reserved', Uploads) + reserved[u] = Total(reserved, Uploads) + reserved'[u]
  BY <1>1, <1>2, TotalExcept
<1>4. Total(reserved', Uploads) \in Nat /\ Total(reserved, Uploads) \in Nat
  BY <1>1, TotalType
<1>5. reserved[u] \in Nat
  BY <1>1, BudgetAssumption
<1> QED
  BY <1>2, <1>3, <1>4, <1>5

LEMMA InstallUsed ==
  ASSUME TypeOK, DirInv, UploadInv, UsedInv, BytesOK', NEW u \in Uploads, InstallStep(u)
  PROVE  UsedInv' /\ used' = used
<1> USE ActorsAssumption DEF TypeOK, Dirs, Actors
<1>a. PICK e \in Dirs : e = entries[key[u]]
  OBVIOUS
<1>0. PICK G : e = entries[key[u]] /\ G = IF e # None /\ readers[e] = 0 THEN {e} ELSE {}
  BY <1>a
<1>1. /\ place' = [place EXCEPT ![u] = "stored"] /\ gone' = [gone EXCEPT ![u] = G]
      /\ reserved' = [reserved EXCEPT ![u] = 0] /\ used' = used + size[u] - reserved[u]
      /\ UNCHANGED size /\ gone[u] = {} /\ place[u] = "staging" /\ reserved[u] = size[u]
  BY <1>0 DEF InstallStep, UploadInv, StagingStages
<1>2. \A d \in G : d \in Uploads /\ place[d] = "stored"
  BY <1>0 DEF DirInv
<1>3. \A d : Retired(d)' <=> Retired(d) \/ d \in G
  BY <1>1 DEF Retired
<1>4. \A d : Counts(d)' <=> Counts(d) \/ d = u
  BY <1>1, <1>2, <1>3 DEF Counts
<1>5. Counted' = Counted \cup {u} /\ u \notin Counted
  BY <1>1, <1>4, CountedCounts, StagingCountsNot
<1>6. size \in [Uploads -> 0 .. MaxBytes] /\ Counted \in SUBSET Uploads
  BY DEF Counted
<1>7. Total(size, Counted \cup {u}) = Total(size, Counted) + size[u]
  BY <1>5, <1>6, TotalAdd
<1>8. /\ Total(reserved, Uploads) = Total(reserved', Uploads) + reserved[u]
      /\ Total(reserved', Uploads) \in Nat /\ reserved[u] \in Nat
  BY <1>1, FreedReservation
<1>9. Total(size, Counted) \in Nat /\ size[u] \in Nat
  BY <1>6, TotalType, BudgetAssumption
<1>10. used = Total(reserved, Uploads) + Total(size, Counted)
  BY DEF UsedInv
<1>11. used' = Total(reserved', Uploads) + Total(size, Counted \cup {u}) /\ used' = used
  BY <1>1, <1>7, <1>8, <1>9, <1>10
<1> QED
  BY <1>1, <1>5, <1>11 DEF UsedInv

LEMMA UnreserveUsed ==
  ASSUME TypeOK, UsedInv, BytesOK', NEW u \in Uploads, Unreserve(u)
  PROVE  UsedInv' /\ used' <= used
<1>1. /\ reserved' = [reserved EXCEPT ![u] = 0] /\ used' = used - reserved[u]
      /\ UNCHANGED <<size, place, gone>>
  BY DEF Unreserve, dirVars
<1>2. Counted' = Counted
  BY <1>1 DEF Counted
<1>3. /\ Total(reserved, Uploads) = Total(reserved', Uploads) + reserved[u]
      /\ Total(reserved', Uploads) \in Nat /\ Total(reserved, Uploads) \in Nat /\ reserved[u] \in Nat
  BY <1>1, FreedReservation
<1>4. Total(size, Counted) \in Nat
  <2>1. Counted \in SUBSET Uploads /\ size \in [Uploads -> 0 .. MaxBytes]
    BY DEF Counted, TypeOK
  <2> QED
    BY <2>1, TotalType
<1>5. used = Total(reserved, Uploads) + Total(size, Counted)
  BY DEF UsedInv
<1>6. used' = Total(reserved', Uploads) + Total(size, Counted) /\ used' <= used
  BY <1>1, <1>3, <1>4, <1>5
<1> QED
  BY <1>1, <1>2, <1>6 DEF UsedInv
LEMMA UsedStepKeeps ==
  ASSUME TypeOK, DirInv, UploadInv, UsedInv, BytesOK', [Next]_vars
  PROVE  UsedInv'
<1>1. CASE UNCHANGED vars \/ \E u \in Uploads : Start(u) \/ LockStep(u) \/ EndOfArchive(u) \/ Clean(u)
  <2>1. UNCHANGED <<used, reserved, place, gone, size>>
    BY <1>1 DEF vars, uploadVars, dirVars, Start, LockStep, LockKey, Lock, Unlock, Unref, EndOfArchive, Clean
  <2>2. \A d : Counts(d)' <=> Counts(d)
    BY <2>1 DEF Counts, Retired
  <2> QED
    BY <2>1, <2>2, UsedStays
<1>2. ASSUME NEW l \in Lints, Release(l) \/ \E k \in Keys, f \in Prints : Acquire(l, k, f)
      PROVE  UsedInv'
  <2> USE DEF TypeOK, Actors, Dirs
  <2>1. UNCHANGED <<used, reserved, place, size>>
    BY <1>2 DEF Release, Acquire, uploadVars, dirVars
  <2>2. CASE UNCHANGED gone
    <3>1. \A d : Counts(d)' <=> Counts(d)
      BY <2>1, <2>2 DEF Counts, Retired
    <3> QED
      BY <2>1, <3>1, UsedStays
  <2>3. CASE Release(l)
    <3>0. PICK e \in Uploads : e = reading[l]
      BY <2>3 DEF Release
    <3>1. PICK G : e = reading[l] /\ (G = {} \/ G = {e}) /\ gone' = [gone EXCEPT ![l] = G]
      BY <2>3, <3>0 DEF Release
    <3>2. gone[l] = {} /\ l \in Readers(e)
      BY <3>1, ActorsAssumption DEF DirInv, Readers
    <3>3. place[e] = "stored"
      BY <3>2 DEF DirInv
    <3>4. \A d : Retired(d)' <=> Retired(d) \/ d \in G
      BY <3>1, <3>2 DEF Retired
    <3>5. \A d : Counts(d)' <=> Counts(d)
      BY <2>1, <3>1, <3>3, <3>4 DEF Counts
    <3> QED
      BY <2>1, <3>5, UsedStays
  <2> QED
    BY <1>2, <2>2, <2>3 DEF Acquire
<1>3. ASSUME NEW a \in Actors, NEW d \in Uploads, RemoveDir(a, d)
      PROVE  UsedInv'
  <2>1. UNCHANGED <<used, reserved, gone, size>> /\ place' = [place EXCEPT ![d] = "deleted"]
    BY <1>3 DEF RemoveDir, uploadVars
  <2>2. Retired(d)
    BY <1>3 DEF RemoveDir, Retired
  <2>3. \A e : Retired(e)' <=> Retired(e)
    BY <2>1 DEF Retired
  <2>4. \A e : Counts(e)' <=> Counts(e)
    BY <2>1, <2>2, <2>3 DEF Counts, TypeOK
  <2> QED
    BY <2>1, <2>4, UsedStays
<1>4. ASSUME NEW u \in Uploads, Holds(u) \/ WriteFile(u) \/ Discard(u)
      PROVE  UsedInv'
  <2> USE DEF TypeOK, StagingStages
  <2>1. UNCHANGED <<used, reserved, gone>>
    BY <1>4 DEF Holds, WriteFile, Discard
  <2>2. place[u] \in {"none", "staging"} /\ place'[u] # "stored"
    BY <1>4 DEF Holds, WriteFile, Discard, UploadInv
  <2>3. \A d \in Uploads \ {u} : place'[d] = place[d] /\ size'[d] = size[d]
    BY <1>4 DEF Holds, WriteFile, Discard
  <2>4. \A d : Retired(d)' <=> Retired(d)
    BY <2>1 DEF Retired
  <2>5. \A d : Counts(d)' <=> Counts(d)
    BY <2>2, <2>3, <2>4 DEF Counts
  <2>6. u \notin Counted /\ Counted \subseteq Uploads
    BY <2>2, StagingCountsNot DEF Counted
  <2>7. \A d \in Counted : size'[d] = size[d]
    BY <2>3, <2>6
  <2> QED
    BY <2>1, <2>5, <2>7, UsedStays
<1>5. ASSUME NEW u \in Uploads, NEW n \in Sizes, NextFile(u, n)
      PROVE  UsedInv'
  <2>1. CASE Refused(u, n)
    <3>1. UNCHANGED <<used, reserved, place, gone, size>>
      BY <2>1 DEF Refused, dirVars
    <3>2. \A d : Counts(d)' <=> Counts(d)
      BY <3>1 DEF Counts, Retired
    <3> QED
      BY <3>1, <3>2, UsedStays
  <2> QED
    BY <1>5, <2>1, EvictUsed, NextFileDoes
<1>6. ASSUME NEW u \in Uploads, Install(u)
      PROVE  UsedInv'
  <2>1. CASE ~InstallStep(u)
    <3>1. UNCHANGED <<used, reserved, place, gone, size>>
      BY <1>6, <2>1, InstallDoes DEF dirVars
    <3>2. \A d : Counts(d)' <=> Counts(d)
      BY <3>1 DEF Counts, Retired
    <3> QED
      BY <3>1, <3>2, UsedStays
  <2> QED
    BY <2>1, InstallUsed
<1> QED
  BY <1>1, <1>2, <1>3, <1>4, <1>5, <1>6, CreditUsed, UnreserveUsed, Steps
  DEF SetStep, LintStep, RemovalStep, Removal
(***************************************************************************)
(* The room that uploads wait for.                                         *)
(***************************************************************************)

LEMMA RoomTypes ==
  ASSUME TypeOK, NEW S \in SUBSET Uploads
  PROVE  /\ Going(S) \in SUBSET Uploads /\ Total(size, Going(S)) \in Nat
         /\ Cardinality(Span(size, reserved, S)) \in Nat
<1>1. size \in [Uploads -> 0 .. MaxBytes] /\ reserved \in [Uploads -> 0 .. MaxBytes]
  BY DEF TypeOK
<1>2. Going(S) \in SUBSET Uploads
  BY DEF Going, TypeOK, Actors
<1> QED
  BY <1>1, <1>2, TotalType, SpanFinite

LEMMA RoomStays ==
  ASSUME TypeOK, RoomInv, Writing' = Writing, used' \in Nat, used' <= used,
         \A u \in Writing : gone'[u] = gone[u] /\ reserved'[u] = reserved[u],
         \A u \in Writing : size'[u] = size[u],
         \A u \in Writing : \A d \in gone[u] : size'[d] = size[d]
  PROVE  RoomInv'
<1> SUFFICES ASSUME NEW S \in SUBSET Writing
             PROVE  used' <= MaxBytes + Total(size', UNION {gone'[u] : u \in S})
                                 + Cardinality(Span(size', reserved', Writing \ S))
  BY DEF RoomInv, Going
<1>1. UNION {gone'[u] : u \in S} = Going(S)
  BY DEF Going
<1>2. \A d \in Going(S) : size'[d] = size[d]
  BY DEF Going
<1>3. Total(size', Going(S)) = Total(size, Going(S))
  BY <1>2, TotalSame
<1>4. Span(size', reserved', Writing \ S) = Span(size, reserved, Writing \ S)
  BY SpanSame
<1>5. used <= MaxBytes + Total(size, Going(S)) + Cardinality(Span(size, reserved, Writing \ S))
  BY DEF RoomInv
<1>6. /\ Total(size, Going(S)) \in Nat /\ Cardinality(Span(size, reserved, Writing \ S)) \in Nat
      /\ used \in Nat /\ MaxBytes \in Nat
  <2>1. S \in SUBSET Uploads /\ Writing \ S \in SUBSET Uploads
    BY DEF Writing
  <2> QED
    BY <2>1, RoomTypes, BudgetAssumption DEF TypeOK
<1>7. used' <= MaxBytes + Total(size, Going(S)) + Cardinality(Span(size, reserved, Writing \ S))
  BY <1>5, <1>6
<1> QED
  BY <1>1, <1>3, <1>4, <1>7

LEMMA CreditRoom ==
  ASSUME TypeOK, DirInv, RoomInv, used' \in Nat, NEW a \in Actors, NEW d \in Uploads, Credit(a, d)
  PROVE  RoomInv'
<1>1. /\ d \in gone[a] /\ used' = used - size[d] /\ gone' = [gone EXCEPT ![a] = @ \ {d}]
      /\ UNCHANGED <<reserved, size, stage>>
  BY DEF Credit, uploadVars, dirVars
<1>2. Writing' = Writing
  BY <1>1 DEF Writing
<1> SUFFICES ASSUME NEW S \in SUBSET Writing
             PROVE  used' <= MaxBytes + Total(size, UNION {gone'[u] : u \in S})
                                 + Cardinality(Span(size, reserved, Writing \ S))
  BY <1>1, <1>2 DEF RoomInv, Going
<1> DEFINE G == UNION {gone'[u] : u \in S}
<1>3. S \in SUBSET Uploads /\ Writing \ S \in SUBSET Uploads
  BY DEF Writing
<1>4. \A u \in S : u \in Actors /\ (d \in gone[u] => u = a)
  BY <1>1, <1>3 DEF DirInv, Actors
<1>5. \A u \in S : gone'[u] = gone[u] \ {d}
  <2> SUFFICES ASSUME NEW u \in S PROVE gone'[u] = gone[u] \ {d}
    OBVIOUS
  <2>1. CASE u = a
    BY <1>1, <1>4, <2>1 DEF TypeOK
  <2>2. CASE u # a
    BY <1>1, <1>4, <2>2 DEF TypeOK
  <2> QED
    BY <2>1, <2>2
<1>6. G = Going(S) \ {d}
  <2>1. \A q : q \in G <=> \E u \in S : q \in gone[u] \ {d}
    BY <1>5
  <2>2. \A q : q \in Going(S) <=> \E u \in S : q \in gone[u]
    BY DEF Going
  <2> HIDE DEF G
  <2> QED
    BY <2>1, <2>2
<1>7. size \in [Uploads -> 0 .. MaxBytes] /\ Going(S) \in SUBSET Uploads /\ G \in SUBSET Uploads
  BY <1>3, <1>6, RoomTypes DEF TypeOK
<1>8. /\ Total(size, Going(S)) \in Nat /\ Total(size, G) \in Nat
      /\ Cardinality(Span(size, reserved, Writing \ S)) \in Nat
  BY <1>3, <1>7, RoomTypes, TotalType
<1>9. size[d] \in Nat /\ used \in Nat /\ MaxBytes \in Nat
  BY <1>7, BudgetAssumption DEF TypeOK
<1>10. Total(size, Going(S)) <= Total(size, G) + size[d]
  <2>1. CASE d \in Going(S)
    BY <1>6, <1>7, <1>8, <1>9, <2>1, TotalRemove
  <2>2. CASE d \notin Going(S)
    <3>1. G = Going(S)
      BY <1>6, <2>2
    <3> HIDE DEF G
    <3> QED
      BY <1>8, <1>9, <3>1
  <2> QED
    BY <2>1, <2>2
<1>11. used <= MaxBytes + Total(size, Going(S)) + Cardinality(Span(size, reserved, Writing \ S))
  BY DEF RoomInv
<1> HIDE DEF G
<1>12. used' <= MaxBytes + Total(size, G) + Cardinality(Span(size, reserved, Writing \ S))
  BY <1>1, <1>8, <1>9, <1>10, <1>11
<1> QED
  BY <1>12 DEF G

LEMMA EvictRoom ==
  ASSUME TypeOK, UploadInv, RoomInv, BytesOK', NEW u \in Uploads, NEW n \in Sizes, NEW K,
         EvictStep(u, n, K)
  PROVE  RoomInv'
<1>0. PICK E : E = {entries[k] : k \in K}
  OBVIOUS
<1>1. /\ gone' = [gone EXCEPT ![u] = E] /\ stage[u] = "extract" /\ stage' = [stage EXCEPT ![u] = "write"]
      /\ reserved' = [reserved EXCEPT ![u] = @ + n] /\ used' = used + n
      /\ UNCHANGED size /\ reserved[u] = size[u]
  BY <1>0 DEF EvictStep, dirVars, UploadInv, Moves
<1>2. Writing' = Writing \cup {u} /\ u \notin Writing /\ Writing \in SUBSET Uploads
  BY <1>1 DEF Writing, TypeOK
<1>3. /\ size \in [Uploads -> 0 .. MaxBytes] /\ reserved \in [Uploads -> 0 .. MaxBytes]
      /\ reserved' \in [Uploads -> 0 .. MaxBytes] /\ gone \in [Actors -> SUBSET Uploads] /\ used \in Nat
  BY DEF TypeOK, BytesOK, Bytes
<1>4. n \in Nat /\ MaxBytes \in Nat /\ size[u] \in Nat
  BY <1>3, BudgetAssumption
<1>5. gone'[u] = E /\ \A v \in Uploads \ {u} : gone'[v] = gone[v]
  BY <1>1, <1>3 DEF Actors
<1>6. E \in SUBSET Uploads
  BY <1>0 DEF EvictStep, Unread, Present, TypeOK, Dirs
<1>7. \A v \in Uploads : gone'[v] \in SUBSET Uploads
  BY <1>3, <1>5, <1>6 DEF Actors
<1>8. reserved'[u] = reserved[u] + n /\ \A v \in Uploads \ {u} : reserved'[v] = reserved[v]
  BY <1>1, <1>3
<1> SUFFICES ASSUME NEW S \in SUBSET (Writing \cup {u})
             PROVE  used + n <= MaxBytes + Total(size, UNION {gone'[v] : v \in S})
                                  + Cardinality(Span(size, reserved', (Writing \cup {u}) \ S))
  BY <1>1, <1>2 DEF RoomInv, Going
<1> DEFINE G == UNION {gone'[v] : v \in S}
           W == (Writing \cup {u}) \ S
<1>9. G \in SUBSET Uploads /\ W \in SUBSET Uploads
  BY <1>2, <1>7
<1>10. Total(size, G) \in Nat /\ Cardinality(Span(size, reserved', W)) \in Nat
  BY <1>3, <1>9, TotalType, SpanFinite
<1>11. CASE u \in S
  <2>1. E \subseteq G
    BY <1>5, <1>11
  <2>2. Total(size, E) <= Total(size, G) /\ Total(size, E) \in Nat
    BY <1>3, <1>6, <1>9, <2>1, TotalGrows, TotalType
  <2>3. used + n <= MaxBytes + Total(size, E)
    BY <1>0 DEF EvictStep, Room
  <2> HIDE DEF G, W
  <2>4. used + n <= MaxBytes + Total(size, G) + Cardinality(Span(size, reserved', W))
    BY <1>3, <1>4, <1>10, <2>2, <2>3
  <2> QED
    BY <2>4 DEF G, W
<1>12. CASE u \notin S
  <2> DEFINE V == Writing \ S
  <2>1. S \in SUBSET Writing /\ W = V \cup {u} /\ u \in Uploads \ V /\ V \in SUBSET Uploads
    BY <1>2, <1>12
  <2>2. G = Going(S)
    BY <1>2, <1>5, <1>12, <2>1 DEF Going
  <2>3. used <= MaxBytes + Total(size, Going(S)) + Cardinality(Span(size, reserved, V))
    BY <2>1 DEF RoomInv
  <2> HIDE DEF G, W, V
  <2>4. Span(size, reserved', V) = Span(size, reserved, V)
    BY <1>8, <2>1, SpanSame
  <2>5. Cardinality(Span(size, reserved', V \cup {u}))
          = Cardinality(Span(size, reserved', V)) + (reserved'[u] - size[u])
    <3>1. size[u] <= reserved'[u]
      BY <1>1, <1>4, <1>8
    <3> QED
      BY <1>3, <2>1, <3>1, SpanAdd
  <2>6. reserved'[u] - size[u] = n
    BY <1>1, <1>4, <1>8
  <2>7. Cardinality(Span(size, reserved, V)) \in Nat
    BY <1>3, <2>1, SpanFinite
  <2>8. used + n <= MaxBytes + Total(size, G) + Cardinality(Span(size, reserved', W))
    BY <1>3, <1>4, <1>10, <2>1, <2>2, <2>3, <2>4, <2>5, <2>6, <2>7
  <2> QED
    BY <2>8 DEF G, W
<1> QED
  BY <1>11, <1>12
LEMMA WriteRoom ==
  ASSUME TypeOK, DirInv, UploadInv, RoomInv, NEW u \in Uploads, WriteFile(u)
  PROVE  RoomInv'
<1>1. /\ stage[u] = "write" /\ gone[u] = {} /\ UNCHANGED <<reserved, used, gone>>
      /\ stage' = [stage EXCEPT ![u] = "extract"] \/ stage' = [stage EXCEPT ![u] = "discard"]
      /\ \A d \in Uploads \ {u} : size'[d] = size[d]
  BY DEF WriteFile, End, Go, TypeOK
<1>2. u \in Writing /\ Writing' = Writing \ {u}
  BY <1>1 DEF Writing, TypeOK
<1>3. ~Retired(u)
  <2>1. place[u] = "staging"
    BY <1>1 DEF UploadInv, StagingStages
  <2> QED
    BY <2>1, StagingCountsNot
<1> SUFFICES ASSUME NEW S \in SUBSET (Writing \ {u})
             PROVE  used <= MaxBytes + Total(size', Going(S))
                              + Cardinality(Span(size', reserved, (Writing \ {u}) \ S))
  BY <1>1, <1>2 DEF RoomInv, Going
<1> DEFINE T == S \cup {u}
<1>4. T \in SUBSET Writing /\ Writing \ T = (Writing \ {u}) \ S
  BY <1>2
<1>5. used <= MaxBytes + Total(size, Going(T)) + Cardinality(Span(size, reserved, Writing \ T))
  BY <1>4 DEF RoomInv
<1>6. Going(T) = Going(S)
  BY <1>1 DEF Going
<1>7. \A d \in Going(S) : size'[d] = size[d]
  <2>1. \A v \in S : v \in Actors /\ gone[v] \in SUBSET Uploads
    BY DEF TypeOK, Actors, Writing
  <2>2. \A d \in Going(S) : d \in Uploads /\ Retired(d)
    BY <2>1 DEF Going, Retired
  <2> QED
    BY <1>1, <1>3, <2>2
<1>8. \A d \in Writing \ T : size'[d] = size[d]
  BY <1>1 DEF Writing
<1>9. /\ Total(size', Going(S)) = Total(size, Going(S))
      /\ Span(size', reserved, Writing \ T) = Span(size, reserved, Writing \ T)
  BY <1>7, <1>8, TotalSame, SpanSame
<1> QED
  BY <1>4, <1>5, <1>6, <1>9

LEMMA RoomStepKeeps ==
  ASSUME TypeOK, DirInv, UploadInv, UsedInv, RoomInv, BytesOK', used' \in Nat, [Next]_vars
  PROVE  RoomInv'
<1>1. CASE UNCHANGED vars
  BY <1>1, RoomStays DEF vars, uploadVars, dirVars, Writing, TypeOK
<1>2. ASSUME NEW l \in Lints, Release(l) \/ \E k \in Keys, f \in Prints : Acquire(l, k, f)
      PROVE  RoomInv'
  <2>1. UNCHANGED <<used, reserved, size, stage>> /\ \A u \in Uploads : gone'[u] = gone[u]
    BY <1>2, ActorsAssumption DEF Release, Acquire, uploadVars, dirVars, TypeOK, Actors
  <2>2. Writing' = Writing /\ Writing \in SUBSET Uploads
    BY <2>1 DEF Writing
  <2> QED
    BY <2>1, <2>2, RoomStays DEF TypeOK
<1>3. ASSUME NEW a \in Actors, NEW d \in Uploads, RemoveDir(a, d)
      PROVE  RoomInv'
  <2>1. UNCHANGED <<used, reserved, size, stage, gone>>
    BY <1>3 DEF RemoveDir, uploadVars
  <2>2. Writing' = Writing
    BY <2>1 DEF Writing
  <2> QED
    BY <2>1, <2>2, RoomStays DEF TypeOK
<1>4. ASSUME NEW u \in Uploads,
             Start(u) \/ LockStep(u) \/ Holds(u) \/ EndOfArchive(u) \/ Clean(u) \/ Discard(u)
      PROVE  RoomInv'
  <2>1. UNCHANGED <<used, reserved, size, gone>>
    BY <1>4 DEF Start, LockStep, LockKey, Lock, Unlock, Unref, Holds, EndOfArchive, Clean, Discard, dirVars
  <2>2. stage[u] # "write" /\ \E s \in Stages \ {"write"} : stage' = [stage EXCEPT ![u] = s]
    BY <1>4 DEF Start, LockStep, LockKey, Lock, Unlock, Unref, Holds, EndOfArchive, Clean, Discard,
                End, Go, Stages
  <2>3. Writing' = Writing
    BY <2>2 DEF Writing, TypeOK
  <2> QED
    BY <2>1, <2>3, RoomStays DEF TypeOK
<1>5. ASSUME NEW u \in Uploads, NEW n \in Sizes, NextFile(u, n)
      PROVE  RoomInv'
  <2>1. CASE Refused(u, n)
    <3>1. UNCHANGED <<used, reserved, size, gone>> /\ stage[u] = "extract"
          /\ stage' = [stage EXCEPT ![u] = "discard"]
      BY <2>1 DEF Refused, dirVars, Moves
    <3>2. Writing' = Writing
      BY <3>1 DEF Writing, TypeOK
    <3> QED
      BY <3>1, <3>2, RoomStays DEF TypeOK
  <2> QED
    BY <1>5, <2>1, EvictRoom, NextFileDoes
<1>6. ASSUME NEW u \in Uploads, Install(u)
      PROVE  RoomInv'
  <2>1. CASE InstallStep(u)
    <3>1. used' = used
      BY <2>1, InstallUsed
    <3>2. /\ stage[u] = "install" /\ stage' = [stage EXCEPT ![u] = "clean"] /\ UNCHANGED size
          /\ \A v \in Uploads \ {u} : reserved'[v] = reserved[v] /\ gone'[v] = gone[v]
      BY <2>1 DEF InstallStep, Moves, TypeOK, Actors
    <3>3. Writing' = Writing /\ Writing \in SUBSET (Uploads \ {u})
      BY <3>2 DEF Writing, TypeOK
    <3> QED
      BY <3>1, <3>2, <3>3, RoomStays DEF TypeOK
  <2>2. CASE ~InstallStep(u)
    <3>1. UNCHANGED <<used, reserved, size, gone>> /\ stage[u] = "install"
          /\ stage' = [stage EXCEPT ![u] = "discard"]
      BY <1>6, <2>2, InstallDoes DEF dirVars, Moves
    <3>2. Writing' = Writing
      BY <3>1 DEF Writing, TypeOK
    <3> QED
      BY <3>1, <3>2, RoomStays DEF TypeOK
  <2> QED
    BY <2>1, <2>2
<1>7. ASSUME NEW u \in Uploads, Unreserve(u)
      PROVE  RoomInv'
  <2>1. used' <= used
    BY <1>7, UnreserveUsed
  <2>2. /\ stage[u] = "unreserve" /\ stage' = [stage EXCEPT ![u] = "unlock"]
        /\ UNCHANGED <<size, gone>> /\ \A v \in Uploads \ {u} : reserved'[v] = reserved[v]
    BY <1>7 DEF Unreserve, Go, dirVars, TypeOK
  <2>3. Writing' = Writing /\ Writing \in SUBSET (Uploads \ {u})
    BY <2>2 DEF Writing, TypeOK
  <2> QED
    BY <2>1, <2>2, <2>3, RoomStays DEF TypeOK
<1> QED
  BY <1>1, <1>2, <1>3, <1>4, <1>5, <1>6, <1>7, CreditRoom, WriteRoom, Steps
  DEF SetStep, LintStep, RemovalStep, Removal
(***************************************************************************)
(* The invariant holds.                                                    *)
(***************************************************************************)

LEMMA ReadersTyped ==
  ASSUME TypeOK, DirInv', [Next]_vars
  PROVE  readers' \in [Uploads -> 0 .. Cardinality(Lints)]
<1>1. readers' = [d \in Uploads |-> readers'[d]]
  <2>1. UNCHANGED readers \/ \E d, n : readers' = [readers EXCEPT ![d] = n]
    <3>1. CASE UNCHANGED vars \/ RemovalStep \/ \E u \in Uploads : Start(u) \/ LockStep(u)
      BY <3>1 DEF vars, entryVars, RemovalStep, Removal, RemoveDir, Credit, Start, LockStep, LockKey,
                  Lock, Unlock, Unref
    <3>2. CASE LintStep
      BY <3>2 DEF LintStep, Release, Acquire
    <3>3. ASSUME NEW u \in Uploads, SetStep(u)
          PROVE  UNCHANGED readers
      BY <3>3 DEF SetStep, Holds, NextFile, WriteFile, EndOfArchive, Install, Clean, Discard, Unreserve,
                  entryVars
    <3> QED
      BY <3>1, <3>2, <3>3, Steps
  <2> QED
    BY <2>1 DEF TypeOK
<1>2. ASSUME NEW d \in Uploads PROVE readers'[d] \in 0 .. Cardinality(Lints)
  <2>1. PICK S \in SUBSET Lints : readers'[d] = Cardinality(S)
    BY DEF DirInv, Readers
  <2> QED
    BY <2>1, SomeLints
<1> QED
  BY <1>1, <1>2

LEMMA EvictedAreUploads ==
  ASSUME TypeOK, NEW u, NEW n, NEW K, EvictStep(u, n, K)
  PROVE  {entries[k] : k \in K} \in SUBSET Uploads
<1>1. \A k \in K : k \in Keys /\ entries[k] # None
  BY DEF EvictStep, Unread, Present
<1>2. \A k \in Keys : entries[k] \in Uploads \cup {None}
  BY DEF TypeOK, Dirs
<1> QED
  BY <1>1, <1>2

LEMMA GoneTyped ==
  ASSUME TypeOK, [Next]_vars
  PROVE  gone' \in [Actors -> SUBSET Uploads]
<1>0. gone \in [Actors -> SUBSET Uploads]
  BY DEF TypeOK
<1>1. ASSUME NEW l \in Lints, Release(l) \/ \E k \in Keys, f \in Prints : Acquire(l, k, f)
      PROVE  gone' \in [Actors -> SUBSET Uploads]
  <2>1. CASE UNCHANGED gone
    BY <1>0, <2>1
  <2>2. CASE Release(l)
    <3>1. PICK G : gone' = [gone EXCEPT ![l] = G] /\ (G = {} \/ (G = {reading[l]} /\ reading[l] # None))
      BY <2>2 DEF Release
    <3>2. reading[l] \in Uploads \cup {None}
      BY DEF TypeOK, Dirs
    <3>3. G \in SUBSET Uploads
      BY <3>1, <3>2
    <3> QED
      BY <1>0, <3>1, <3>3
  <2> QED
    BY <1>1, <2>1, <2>2 DEF Acquire
<1>2. CASE RemovalStep
  BY <1>0, <1>2 DEF RemovalStep, Removal, RemoveDir, Credit
<1>3. ASSUME NEW u \in Uploads, NEW n \in Sizes, NextFile(u, n)
      PROVE  gone' \in [Actors -> SUBSET Uploads]
  <2>1. ASSUME NEW K \in SUBSET Unread, EvictStep(u, n, K)
        PROVE  gone' \in [Actors -> SUBSET Uploads]
    <3>1. PICK E \in SUBSET Uploads : E = {entries[k] : k \in K}
      BY <2>1, EvictedAreUploads
    <3>2. gone' = [gone EXCEPT ![u] = E]
      BY <2>1, <3>1 DEF EvictStep
    <3> QED
      BY <1>0, <3>2
  <2> QED
    BY <1>0, <1>3, <2>1, NextFileDoes DEF Refused
<1>4. ASSUME NEW u \in Uploads, Install(u)
      PROVE  gone' \in [Actors -> SUBSET Uploads]
  <2>1. CASE InstallStep(u)
    <3>0. PICK e \in Dirs : e = entries[key[u]]
      BY DEF TypeOK
    <3>1. PICK G : gone' = [gone EXCEPT ![u] = G] /\ (G = {} \/ (G = {e} /\ e # None))
      BY <2>1, <3>0 DEF InstallStep
    <3>2. G \in SUBSET Uploads
      BY <3>1 DEF Dirs
    <3> QED
      BY <1>0, <3>1, <3>2
  <2> QED
    BY <1>0, <1>4, <2>1, InstallDoes
<1>5. ASSUME \/ UNCHANGED vars
             \/ \E u \in Uploads : \/ Start(u) \/ LockStep(u) \/ Holds(u) \/ WriteFile(u)
                                   \/ EndOfArchive(u) \/ Clean(u) \/ Discard(u) \/ Unreserve(u)
      PROVE  UNCHANGED gone
  BY <1>5 DEF vars, Start, LockStep, LockKey, Lock, Unlock, Unref, Holds, WriteFile, EndOfArchive,
              Clean, Discard, Unreserve
<1> QED
  BY <1>0, <1>1, <1>2, <1>3, <1>4, <1>5, Steps DEF SetStep, LintStep

LEMMA TypeStep ==
  ASSUME TypeOK, LockInv, UploadInv, BytesOK', used' \in Nat, refs' \in [Uploads -> Nat],
         readers' \in [Uploads -> 0 .. Cardinality(Lints)],
         gone' \in [Actors -> SUBSET Uploads], [Next]_vars
  PROVE  TypeOK'
<1> USE DEF TypeOK, BytesOK, Bytes, lockVars, uploadVars, dirVars, entryVars
<1>1. CASE UNCHANGED vars
  BY <1>1 DEF vars
<1>2. ASSUME NEW l \in Lints, NEW k \in Keys, NEW f \in Prints, Acquire(l, k, f)
      PROVE  TypeOK'
  BY <1>2 DEF Acquire, HoldsPrint, Touched, Present
<1>3. ASSUME NEW l \in Lints, Release(l)
      PROVE  TypeOK'
  BY <1>3 DEF Release, Dirs
<1>4. ASSUME NEW a \in Actors, NEW d \in Uploads, RemoveDir(a, d) \/ Credit(a, d)
      PROVE  TypeOK'
  BY <1>4 DEF RemoveDir, Credit
<1>5. ASSUME NEW u \in Uploads, Start(u) \/ LockStep(u)
      PROVE  TypeOK'
  <2>1. CASE Start(u)
    BY <2>1 DEF Start, End, Go, Stages, Outcomes
  <2>2. CASE LockKey(u)
    BY <2>2 DEF LockKey, Go, Stages, Dirs
  <2>3. CASE Lock(u) \/ Unlock(u)
    BY <2>3 DEF Lock, Unlock, Go, Stages, Dirs
  <2>4. CASE Unref(u)
    BY <2>4 DEF Unref, Go, Stages, Dirs
  <2> QED
    BY <1>5, <2>1, <2>2, <2>3, <2>4 DEF LockStep
<1>6. ASSUME NEW u \in Uploads, NEW n \in Sizes, NextFile(u, n)
      PROVE  TypeOK'
  <2>1. /\ stage' \in [Uploads -> Stages] /\ outcome' \in [Uploads -> Outcomes]
        /\ UNCHANGED <<keyLocks, holder, lock, key, print, place, reading>>
    <3>1. /\ UNCHANGED <<keyLocks, holder, lock, key, print, place, reading>>
          /\ \E s \in Stages : Go(u, s)
          /\ UNCHANGED outcome \/ \E o \in Outcomes : outcome' = [outcome EXCEPT ![u] = o]
      BY <1>6 DEF NextFile, End, Stages, Outcomes
    <3> QED
      BY <3>1 DEF Go
  <2>2. files' \in [Uploads -> 0 .. MaxFiles] /\ claim' \in [Uploads -> Sizes \cup {0}]
    BY <1>6, BudgetAssumption DEF NextFile
  <2>3. older' \subseteq Keys \X Keys
    BY <1>6 DEF NextFile, Without
  <2>4. entries' \in [Keys -> Dirs] /\ stale' \subseteq Uploads
    <3>1. CASE Refused(u, n)
      BY <3>1 DEF Refused
    <3>2. ASSUME NEW K \in SUBSET Unread, EvictStep(u, n, K)
          PROVE  entries' \in [Keys -> Dirs] /\ stale' \subseteq Uploads
      BY <3>2, EvictedAreUploads DEF EvictStep, Retire, Dirs
    <3> QED
      BY <1>6, <3>1, <3>2, NextFileDoes
  <2> QED
    BY <2>1, <2>2, <2>3, <2>4
<1>7. ASSUME NEW u \in Uploads, Install(u)
      PROVE  TypeOK'
  <2>1. CASE InstallStep(u)
    <3>1. older' = Touched(key[u]) /\ outcome' = [outcome EXCEPT ![u] = "stored"]
          /\ UNCHANGED <<files, claim>>
      BY <1>7, <2>1 DEF Install, End, Go, InstallStep, Moves
    <3>2. older' \subseteq Keys \X Keys
      BY <3>1 DEF Touched, Present
    <3> QED
      BY <2>1, <3>1, <3>2 DEF InstallStep, Moves, Stages, Outcomes, Dirs
  <2>2. CASE ~InstallStep(u)
    <3>1. Moves(u, "discard") /\ UNCHANGED <<lockVars, key, print, dirVars, entryVars, gone, reading>>
      BY <1>7, <2>2, InstallDoes
    <3>2. outcome' \in [Uploads -> Outcomes] /\ UNCHANGED <<files, claim>>
      BY <1>7 DEF Install, End, Outcomes
    <3> QED
      BY <3>1, <3>2 DEF Moves, Stages
  <2> QED
    BY <2>1, <2>2
<1>8. ASSUME NEW u \in Uploads,
             Holds(u) \/ WriteFile(u) \/ EndOfArchive(u) \/ Clean(u) \/ Discard(u) \/ Unreserve(u)
      PROVE  TypeOK'
  BY <1>8 DEF Holds, WriteFile, EndOfArchive, Clean, Discard, Unreserve, End, Go, Stages, Outcomes
<1> QED
  BY <1>1, <1>2, <1>3, <1>4, <1>5, <1>6, <1>7, <1>8, Steps
  DEF SetStep, LintStep, RemovalStep, Removal

LEMMA InitHolds ==
  ASSUME Init
  PROVE  IInv
<1>1. TypeOK
  <2>1. Cardinality(Lints) \in Nat
    BY ActorsAssumption, FS_CardinalityType
  <2> QED
    BY <2>1, BudgetAssumption DEF Init, TypeOK, Dirs, Stages, Outcomes
<1>2. LockInv
  <2>1. \A x : Users(x) = {}
    BY DEF Init, Users, LockStages, LockedStages
  <2> QED
    BY <2>1, FS_EmptySet DEF Init, LockInv, LockStages, LockedStages
<1>3. \A d \in Uploads : Readers(d) = {} /\ ~Retired(d)
  BY ActorsAssumption DEF Init, Readers, Retired
<1>4. DirInv
  BY <1>3, FS_EmptySet DEF Init, DirInv
<1>5. UploadInv
  BY DEF Init, UploadInv, StagingStages, Actors
<1>6. UsedInv
  <2>1. Counted = {} /\ \A u \in Uploads : reserved[u] = 0
    BY DEF Init, Counted
  <2>2. Total(reserved, Uploads) = 0 /\ Total(size, {}) = 0
    BY <2>1, TotalZero
  <2> QED
    BY <2>1, <2>2 DEF Init, UsedInv
<1>7. RoomInv
  <2> SUFFICES ASSUME NEW S \in SUBSET Writing
               PROVE  used <= MaxBytes + Total(size, Going(S)) + Cardinality(Span(size, reserved, Writing \ S))
    BY DEF RoomInv
  <2>1. S \in SUBSET Uploads /\ Writing \ S \in SUBSET Uploads
    BY DEF Writing
  <2>2. /\ Total(size, Going(S)) \in Nat /\ Cardinality(Span(size, reserved, Writing \ S)) \in Nat
        /\ MaxBytes \in Nat /\ used = 0
    BY <1>1, <2>1, RoomTypes, BudgetAssumption DEF Init
  <2> QED
    BY <2>2
<1> QED
  BY <1>1, <1>2, <1>4, <1>5, <1>6, <1>7 DEF IInv

LEMMA StepHolds ==
  ASSUME IInv, [Next]_vars
  PROVE  IInv'
<1> USE DEF IInv
<1>1. LockInv' /\ refs' \in [Uploads -> Nat]
  BY LockStepKeeps
<1>2. DirInv'
  BY DirStepKeeps
<1>3. UploadInv' /\ BytesOK'
  BY UploadStepKeeps
<1>4. UsedInv'
  BY <1>3, UsedStepKeeps
<1>5. readers' \in [Uploads -> 0 .. Cardinality(Lints)]
  BY <1>2, ReadersTyped
<1>6. used' \in Nat
  <2>1. gone' \in [Actors -> SUBSET Uploads]
    BY GoneTyped
  <2>2. Counted' \in SUBSET Uploads /\ Uploads \in SUBSET Uploads
    BY <2>1 DEF Counted
  <2>3. Total(reserved', Uploads) \in Nat /\ Total(size', Counted') \in Nat
    BY <1>3, <2>2, TotalType DEF BytesOK, Bytes
  <2>4. used' = Total(reserved', Uploads) + Total(size', Counted')
    BY <1>4 DEF UsedInv
  <2> QED
    BY <2>3, <2>4
<1>7. RoomInv'
  BY <1>3, <1>6, RoomStepKeeps
<1>8. TypeOK'
  BY <1>1, <1>3, <1>5, <1>6, GoneTyped, TypeStep
<1> QED
  BY <1>1, <1>2, <1>3, <1>4, <1>7, <1>8
\* The inductive invariant holds in every run of the cache.
THEOREM Invariance == Spec => []IInv
<1>1. Init => IInv
  BY InitHolds
<1>2. IInv /\ [Next]_vars => IInv'
  BY StepHolds
<1> QED
  BY <1>1, <1>2, PTL DEF Spec

(***************************************************************************)
(* The properties.                                                         *)
(***************************************************************************)

\* The state has its type: no counter of bytes or readers falls below zero or
\* rises above its limit.
THEOREM TypeCorrect == Spec => []TypeOK
<1>1. IInv => TypeOK
  BY DEF IInv
<1> QED
  BY <1>1, Invariance, PTL

\* reserve before write: the bytes under --cache-dir stay within
\* --cache-max-bytes, and used is what is reserved and what is stored.
THEOREM DiskStaysInBudget == Spec => []BudgetIsExact
<1>1. IInv => BudgetIsExact
  <2> SUFFICES ASSUME IInv PROVE Total(disk, Uploads) <= MaxBytes
    BY DEF BudgetIsExact, IInv, UsedInv
  <2> DEFINE W == Writing
             C == Counted
  <2>1. /\ disk \in [Uploads -> 0 .. MaxBytes] /\ size \in [Uploads -> 0 .. MaxBytes]
        /\ reserved \in [Uploads -> 0 .. MaxBytes]
        /\ W \in SUBSET Uploads /\ C \in SUBSET Uploads /\ Uploads \in SUBSET Uploads
    BY DEF IInv, TypeOK, Writing, Counted
  <2>2. \A x \in W : x \in Uploads /\ x \notin C /\ disk[x] = size[x] /\ disk[x] <= reserved[x]
    <3> SUFFICES ASSUME NEW x \in W
                 PROVE  x \in Uploads /\ x \notin C /\ disk[x] = size[x] /\ disk[x] <= reserved[x]
      OBVIOUS
    <3>1. x \in Uploads /\ stage[x] = "write"
      BY DEF Writing
    <3>2. place[x] = "staging" /\ disk[x] = size[x] /\ reserved[x] = size[x] + claim[x]
      BY <3>1 DEF IInv, UploadInv, StagingStages
    <3>3. x \notin C
      BY <3>1, <3>2, StagingCountsNot DEF IInv
    <3>4. claim[x] \in Nat /\ size[x] \in Nat
      <4>1. claim[x] \in Sizes \/ claim[x] = 0
        BY <3>1 DEF IInv, TypeOK
      <4>2. Sizes \subseteq Nat
        BY BudgetAssumption
      <4>3. claim[x] \in Nat
        <5>1. CASE claim[x] = 0
          BY <5>1
        <5>2. CASE claim[x] \in Sizes
          BY <4>2, <5>2, Zenon
        <5> QED
          BY <4>1, <5>1, <5>2
      <4> QED
        BY <2>1, <3>1, <4>3, BudgetAssumption
    <3> QED
      BY <3>1, <3>2, <3>3, <3>4
  <2>3. \A x \in Uploads : disk[x] \in Nat /\ size[x] \in Nat /\ reserved[x] \in Nat
    BY <2>1, BudgetAssumption
  <2>4. \A x \in C : disk[x] <= size[x]
    <3> SUFFICES ASSUME NEW x \in C PROVE disk[x] <= size[x]
      OBVIOUS
    <3>1. x \in Uploads /\ (place[x] = "stored" \/ Retired(x))
      BY <2>1, CountedCounts DEF Counts
    <3>2. place[x] \in {"stored", "deleted"}
      BY <3>1 DEF IInv, DirInv
    <3>3. disk[x] = size[x] \/ disk[x] = 0
      BY <3>1, <3>2 DEF IInv, DirInv
    <3> QED
      BY <2>3, <3>1, <3>3
  <2>5. \A x \in Uploads \ C : disk[x] <= reserved[x]
    <3> SUFFICES ASSUME NEW x \in Uploads, x \notin C PROVE disk[x] <= reserved[x]
      OBVIOUS
    <3>1. place[x] # "stored"
      BY CountedCounts DEF Counts
    <3>2. CASE place[x] \in {"none", "deleted"}
      <4>1. disk[x] = 0
        BY <3>2 DEF IInv, DirInv
      <4> QED
        BY <2>3, <4>1
    <3>3. CASE place[x] = "staging"
      <4>1. stage[x] \in StagingStages
        BY <3>3 DEF IInv, UploadInv
      <4>2. \/ stage[x] = "write"
            \/ disk[x] = reserved[x]
            \/ disk[x] <= reserved[x]
        BY <4>1 DEF IInv, UploadInv, StagingStages
      <4> QED
        BY <2>2, <2>3, <4>2 DEF Writing
    <3> QED
      BY <3>1, <3>2, <3>3 DEF IInv, TypeOK
  <2>6. Total(disk, Uploads) + Cardinality(Span(size, reserved, W))
          <= Total(reserved, Uploads) + Total(size, C)
    <3>1. W \cap C = {}
      BY <2>2
    <3> HIDE DEF W, C
    <3> QED
      BY <2>1, <2>2, <2>4, <2>5, <3>1, WrittenIsReserved
  <2>7. used = Total(reserved, Uploads) + Total(size, C)
    BY DEF IInv, UsedInv
  <2>8. used <= MaxBytes + 0 + Cardinality(Span(size, reserved, W))
    <3>1. {} \in SUBSET Writing /\ Writing \ {} = Writing
      OBVIOUS
    <3>2. Total(size, Going({})) = 0
      BY TotalZero DEF Going
    <3>3. used <= MaxBytes + Total(size, Going({})) + Cardinality(Span(size, reserved, Writing \ {}))
      BY <3>1 DEF IInv, RoomInv
    <3> QED
      BY <3>1, <3>2, <3>3
  <2>9. /\ Total(disk, Uploads) \in Nat /\ Cardinality(Span(size, reserved, W)) \in Nat
        /\ used \in Nat /\ MaxBytes \in Nat
    BY <2>1, TotalType, SpanFinite, BudgetAssumption DEF IInv, TypeOK
  <2>10. Total(disk, Uploads) + Cardinality(Span(size, reserved, W)) <= used
    BY <2>6, <2>7
  <2> HIDE DEF W, C
  <2> QED
    BY <2>8, <2>9, <2>10
<1> QED
  BY <1>1, Invariance, PTL

\* lockKey: two uploads for one key are never between lock and unlock at once.
THEOREM OneUploadAtATime == Spec => []OneUploadPerKey
<1>1. IInv => OneUploadPerKey
  <2> SUFFICES ASSUME IInv, NEW u \in Uploads, NEW v \in Uploads, key[u] = key[v],
                      stage[u] \in LockedStages, stage[v] \in LockedStages
               PROVE  u = v
    BY DEF OneUploadPerKey, LockedStages
  <2>1. keyLocks[key[u]] = lock[u] /\ holder[lock[u]] = u
    BY DEF IInv, LockInv, LockStages
  <2>2. keyLocks[key[v]] = lock[v] /\ holder[lock[v]] = v
    BY DEF IInv, LockInv, LockStages
  <2> QED
    BY <2>1, <2>2
<1> QED
  BY <1>1, Invariance, PTL

\* acquire, release, retireLocked, remove: a set that is read, or in the map, is
\* complete on disk; a retired one is removed by one, when no one reads it.
THEOREM ReadSetsAreWhole == Spec => []ReadSetsStayWhole
<1>1. IInv => ReadSetsStayWhole
  <2> SUFFICES ASSUME IInv PROVE ReadSetsStayWhole
    OBVIOUS
  <2> USE ActorsAssumption
  <2>1. ASSUME NEW d \in {reading[l] : l \in Lints} \cup {entries[k] : k \in Keys}, d # None
        PROVE  place[d] = "stored" /\ disk[d] = size[d]
    <3>1. d \in Uploads
      BY <2>1 DEF IInv, TypeOK, Dirs
    <3>2. CASE d \in {reading[l] : l \in Lints}
      <4>1. Readers(d) # {}
        BY <3>2 DEF Readers
      <4> QED
        BY <3>1, <4>1 DEF IInv, DirInv
    <3>3. CASE d \in {entries[k] : k \in Keys}
      <4>1. place[d] = "stored"
        BY <2>1, <3>3 DEF IInv, DirInv
      <4> QED
        BY <3>1, <4>1 DEF IInv, DirInv
    <3> QED
      BY <3>2, <3>3
  <2>2. ASSUME NEW a \in Actors, NEW b \in Actors, gone[a] \cap gone[b] # {}
        PROVE  a = b
    <3>1. PICK d \in Uploads : d \in gone[a] /\ d \in gone[b]
      BY <2>2 DEF IInv, TypeOK
    <3> QED
      BY <3>1 DEF IInv, DirInv
  <2>3. ASSUME NEW a \in Actors, NEW d \in gone[a]
        PROVE  d \in stale /\ readers[d] = 0 /\ \A k \in Keys : entries[k] # d
    <3>1. d \in Uploads /\ Retired(d)
      BY <2>3 DEF IInv, TypeOK, Retired
    <3>2. d \in stale /\ Readers(d) = {}
      BY <3>1 DEF IInv, DirInv
    <3>3. readers[d] = Cardinality(Readers(d))
      BY <3>1 DEF IInv, DirInv
    <3>4. readers[d] = 0
      BY <3>2, <3>3, FS_EmptySet
    <3>5. ASSUME NEW k \in Keys, entries[k] = d PROVE FALSE
      <4>1. d # None /\ key[d] = k /\ place[d] = "stored"
        BY <3>1, <3>5 DEF IInv, DirInv
      <4> QED
        BY <3>1, <3>2, <3>5, <4>1 DEF IInv, DirInv
    <3> QED
      BY <3>2, <3>4, <3>5
  <2> QED
    BY <2>1, <2>2, <2>3 DEF ReadSetsStayWhole
<1> QED
  BY <1>1, Invariance, PTL

\* Between uploads and lints: no directory but the entries', no lock, and used
\* counts the entries alone.
THEOREM NothingStays == Spec => []NothingLeftBehind
<1>1. IInv => NothingLeftBehind
  <2> SUFFICES ASSUME IInv, Quiet
               PROVE  /\ \A d \in Uploads :
                           place[d] \in {"staging", "stored"} => \E k \in Keys : entries[k] = d
                      /\ \A k \in Keys : keyLocks[k] = None
                      /\ used = Total(size, {entries[k] : k \in Keys} \ {None})
    BY DEF NothingLeftBehind
  <2> USE ActorsAssumption
  <2>1. \A u \in Uploads : stage[u] \in {"idle", "done"}
    BY DEF Quiet, Active
  <2>2. \A d \in Uploads : ~Retired(d) /\ Readers(d) = {} /\ place[d] # "staging" /\ reserved[d] = 0
    <3> SUFFICES ASSUME NEW d \in Uploads
                 PROVE  ~Retired(d) /\ Readers(d) = {} /\ place[d] # "staging" /\ reserved[d] = 0
      OBVIOUS
    <3>1. ~Retired(d) /\ Readers(d) = {}
      BY DEF Quiet, Retired, Readers, Actors
    <3>2. place[d] # "staging" /\ reserved[d] = 0
      BY <2>1 DEF IInv, UploadInv, StagingStages
    <3> QED
      BY <3>1, <3>2
  <2>3. \A d \in Uploads : place[d] = "stored" => entries[key[d]] = d /\ key[d] \in Keys
    BY <2>2 DEF IInv, DirInv, TypeOK
  <2>4. ASSUME NEW k \in Keys PROVE keyLocks[k] = None
    <3>1. Users(keyLocks[k]) = {}
      BY <2>1 DEF Users, LockStages, LockedStages
    <3> QED
      BY <3>1 DEF IInv, LockInv
  <2>5. Counted = {entries[k] : k \in Keys} \ {None}
    <3>1. \A d : d \in Counted <=> d \in Uploads /\ place[d] = "stored"
      <4>1. \A d : Retired(d) => d \in Uploads
        BY DEF IInv, TypeOK, Retired
      <4> QED
        BY <2>2, <4>1, CountedCounts DEF Counts
    <3>2. \A k \in Keys : entries[k] # None => entries[k] \in Uploads /\ place[entries[k]] = "stored"
      BY DEF IInv, DirInv, TypeOK, Dirs
    <3> QED
      BY <2>3, <3>1, <3>2
  <2>6. Total(reserved, Uploads) = 0
    BY <2>2, TotalZero
  <2>7. Counted \in SUBSET Uploads /\ size \in [Uploads -> 0 .. MaxBytes]
    BY DEF IInv, TypeOK, Counted
  <2>8. Total(size, Counted) \in Nat
    BY <2>7, TotalType
  <2>9. used = Total(size, Counted)
    BY <2>6, <2>8 DEF IInv, UsedInv
  <2> QED
    BY <2>2, <2>3, <2>4, <2>5, <2>9
<1> QED
  BY <1>1, Invariance, PTL

\* Who goes from extract to write is reserving room for a file.
LEMMA OnlyReserveWrites ==
  ASSUME TypeOK, [Next]_vars, NEW u \in Uploads, stage[u] = "extract", stage'[u] = "write"
  PROVE  \E n \in Sizes : NextFile(u, n)
<1>1. ~(LintStep \/ RemovalStep \/ UNCHANGED vars)
  BY OthersMoveNothing DEF uploadVars
<1>2. ASSUME NEW v \in Uploads, Start(v) \/ LockStep(v) PROVE FALSE
  BY <1>2 DEF Start, LockStep, LockKey, Lock, Unlock, Unref, End, Go, TypeOK
<1>3. ASSUME NEW v \in Uploads, SetStep(v), v # u PROVE FALSE
  BY <1>3, SetStepMoves DEF Moves, TypeOK
<1>4. ~(Holds(u) \/ WriteFile(u) \/ EndOfArchive(u) \/ Install(u) \/ Clean(u) \/ Discard(u) \/ Unreserve(u))
  BY DEF Holds, WriteFile, EndOfArchive, Install, Clean, Discard, Unreserve, End, Go, TypeOK
<1> QED
  BY <1>1, <1>2, <1>3, <1>4, Steps DEF SetStep

\* reserve: what it evicts comes before every unread entry it leaves, and the
\* own key's entry comes last.
THEOREM EvictionOrder == Spec => EvictsInOrder
<1> DEFINE Ordered ==
      \A u \in Uploads : stage[u] = "extract" /\ stage'[u] = "write" =>
        \A k \in Keys : entries[k] # None /\ entries'[k] = None =>
          \A j \in Keys \ {k} :
            entries'[j] # None /\ readers[entries[j]] = 0 =>
              /\ k # key[u]
              /\ (j = key[u] \/ <<k, j>> \in older)
<1>1. IInv /\ [Next]_vars => [Ordered]_vars
  <2> SUFFICES ASSUME IInv, [Next]_vars, NEW u \in Uploads, stage[u] = "extract", stage'[u] = "write",
                      NEW k \in Keys, entries[k] # None, entries'[k] = None,
                      NEW j \in Keys \ {k}, entries'[j] # None, readers[entries[j]] = 0
               PROVE  k # key[u] /\ (j = key[u] \/ <<k, j>> \in older)
    OBVIOUS
  <2>1. PICK n \in Sizes : NextFile(u, n)
    BY OnlyReserveWrites DEF IInv
  <2>2. stage \in [Uploads -> Stages]
    BY DEF IInv, TypeOK
  <2>3. PICK c \in Candidates(key[u]), i \in 0 .. Cardinality(Unread) :
          Retire({c[x] : x \in 1 .. i})
    BY <2>1, <2>2 DEF NextFile, End, Go
  <2>4. k \in {c[x] : x \in 1 .. i} /\ j \notin {c[x] : x \in 1 .. i} /\ entries[j] # None
    BY <2>3 DEF Retire
  <2>5. PICK x \in 1 .. i : k = c[x]
    BY <2>4
  <2>6. j \in Unread /\ Cardinality(Unread) \in Nat
    BY <2>4, ActorsAssumption, FS_Subset, FS_CardinalityType DEF Unread, Present
  <2>7. PICK y \in 1 .. Cardinality(Unread) : c[y] = j
    BY <2>6 DEF Candidates
  <2>8. x \in 1 .. Cardinality(Unread) /\ x < y
    BY <2>4, <2>6, <2>7
  <2>9. Sooner(key[u], c[x], c[y])
    BY <2>7, <2>8 DEF Candidates
  <2> QED
    BY <2>5, <2>7, <2>9 DEF Sooner
<1> QED
  BY <1>1, Invariance, PTL DEF EvictsInOrder, Spec

(***************************************************************************)
(* The refinement of AssetSets.                                            *)
(***************************************************************************)

\* An upload has its answer when it is done or about to clean up, not before.
UnansweredStages == {"idle", "lockKey", "lock", "holds", "extract", "write", "install"}
AnswerInv == \A u \in Uploads : outcome[u] = "none" <=> stage[u] \in UnansweredStages

LEMMA AnswerStepKeeps ==
  ASSUME TypeOK, AnswerInv, [Next]_vars
  PROVE  AnswerInv'
<1> USE DEF TypeOK, AnswerInv, UnansweredStages
<1>1. CASE UNCHANGED vars \/ LintStep \/ RemovalStep
  BY <1>1, OthersMoveNothing DEF uploadVars
<1>2. ASSUME NEW u \in Uploads, LockStep(u) PROVE AnswerInv'
  BY <1>2 DEF LockStep, LockKey, Lock, Unlock, Unref, Go
<1>3. ASSUME NEW u \in Uploads, Start(u) PROVE AnswerInv'
  BY <1>3 DEF Start, End, Go
<1>4. ASSUME NEW u \in Uploads, SetStep(u) PROVE AnswerInv'
  <2>1. CASE \E n \in Sizes : NextFile(u, n)
    <3>1. stage[u] = "extract" /\ (\/ Go(u, "write") /\ UNCHANGED outcome
                                 \/ \E o \in {"too_large", "cache_full"} : End(u, "discard", o))
      BY <2>1 DEF NextFile
    <3> QED
      BY <3>1 DEF End, Go
  <2>2. CASE Holds(u) \/ WriteFile(u) \/ EndOfArchive(u)
    BY <2>2 DEF Holds, WriteFile, EndOfArchive, End, Go
  <2>3. CASE Install(u)
    <3>1. stage[u] = "install" /\ (End(u, "discard", "rejected") \/ End(u, "clean", "stored"))
      BY <2>3 DEF Install
    <3> QED
      BY <3>1 DEF End, Go
  <2>4. CASE Clean(u) \/ Discard(u) \/ Unreserve(u)
    BY <2>4 DEF Clean, Discard, Unreserve, Go
  <2> QED
    BY <1>4, <2>1, <2>2, <2>3, <2>4 DEF SetStep
<1> QED
  BY <1>1, <1>2, <1>3, <1>4, Steps

\* The sets on disk, and the uploads whose turn it is.
Whole   == {d \in Uploads : place[d] = "stored"}
Working == {u \in Uploads : stage[u] \in LockedStages}
Unseen  == <<entries, Whole, reading, Working, outcome, key, print>>

LEMMA UnseenIsStutter ==
  ASSUME UNCHANGED Unseen
  PROVE  UNCHANGED Promised!setVars
BY DEF Unseen, Promised!setVars, Whole, Working

\* The place of one upload moves while it holds its lock, or while it does not.
LEMMA TurnGoesOn ==
  ASSUME TypeOK, NEW u \in Uploads, NEW s \in Stages, Moves(u, s),
         stage[u] \in LockedStages <=> s \in LockedStages
  PROVE  Working' = Working
BY DEF TypeOK, Moves, Working

LEMMA OpenNow ==
  ASSUME IInv, AnswerInv, NEW u \in Uploads, stage[u] \in {"holds", "extract", "write", "install"}
  PROVE  Promised!Open(u) /\ u \in Working
BY DEF AnswerInv, UnansweredStages, Promised!Open, LockedStages, Working

\* Whoever reads a set counts among its readers.
LEMMA UnreadNow ==
  ASSUME IInv, NEW d \in Uploads, Readers(d) = {}
  PROVE  Promised!Unread(d)
BY DEF Readers, Promised!Unread

LEMMA RefinesLint ==
  ASSUME IInv, LintStep
  PROVE  [Promised!Next]_Promised!setVars
<1> USE DEF Promised!setVars
<1>1. UNCHANGED <<lockVars, uploadVars>>
  BY OthersMoveNothing
<1>2. ASSUME NEW l \in Lints, Release(l) PROVE Promised!Leave(l)
  BY <1>1, <1>2 DEF Release, Promised!Leave, dirVars, uploadVars
<1>3. ASSUME NEW l \in Lints, NEW k \in Keys, NEW f \in Prints, Acquire(l, k, f)
      PROVE  Promised!Read(l, k)
  BY <1>1, <1>3 DEF Acquire, HoldsPrint, Promised!Read, dirVars, uploadVars
<1> QED
  BY <1>2, <1>3 DEF LintStep, Promised!Next

LEMMA RefinesRemoval ==
  ASSUME IInv, RemovalStep
  PROVE  [Promised!Next]_Promised!setVars
<1>1. PICK a \in Actors, d \in Uploads : RemoveDir(a, d) \/ Credit(a, d)
  BY DEF RemovalStep, Removal
<1>2. CASE Credit(a, d)
  <2>1. UNCHANGED Unseen
    BY <1>2 DEF Credit, Unseen, Whole, Working, dirVars, uploadVars, entryVars
  <2> QED
    BY <2>1, UnseenIsStutter
<1>3. CASE RemoveDir(a, d)
  <2>1. d \in stale /\ Readers(d) = {} /\ place[d] = "stored"
    BY <1>3 DEF RemoveDir, IInv, DirInv, Retired
  <2>2. \A k \in Keys : entries[k] # d
    BY <2>1, ActorsAssumption DEF IInv, DirInv
  <2>3. Whole' = Whole \ {d} /\ d \in Whole
    BY <1>3, <2>1 DEF RemoveDir, Whole, IInv, TypeOK
  <2>4. UNCHANGED <<entries, reading, Working, outcome, key, print>>
    BY <1>3 DEF RemoveDir, Working, uploadVars, entryVars
  <2>5. Promised!Delete(d)
    BY <2>1, <2>2, <2>3, <2>4, UnreadNow DEF Promised!Delete, Whole, Working
  <2> QED
    BY <2>5 DEF Promised!Next
<1> QED
  BY <1>1, <1>2, <1>3

\* A keyLock has one holder, so that no other upload of the key is at work.
LEMMA RefinesLock ==
  ASSUME IInv, AnswerInv, NEW u \in Uploads, Start(u) \/ LockStep(u)
  PROVE  [Promised!Next]_Promised!setVars
<1> USE DEF IInv, TypeOK
<1>1. UNCHANGED <<entries, Whole, reading, key, print>>
  BY DEF Start, LockStep, LockKey, Lock, Unlock, Unref, entryVars, dirVars, Whole
<1>2. CASE (Start(u) /\ UNCHANGED outcome) \/ LockKey(u) \/ Unref(u)
  <2>1. PICK s \in Stages : Moves(u, s) /\ ~(stage[u] \in LockedStages) /\ ~(s \in LockedStages)
    BY <1>2 DEF Start, LockKey, Unref, Moves, Go, End, Stages, LockedStages
  <2>2. UNCHANGED Unseen
    BY <1>1, <1>2, <2>1, TurnGoesOn DEF LockKey, Unref, Unseen
  <2> QED
    BY <2>2, UnseenIsStutter
<1>3. CASE Start(u) /\ End(u, "done", "busy")
  <2>1. Working' = Working /\ u \notin Working
    BY <1>3 DEF Start, End, Go, Working, LockedStages
  <2>2. outcome[u] = "none"
    BY <1>3 DEF Start, AnswerInv, UnansweredStages
  <2>3. Promised!Refuse(u)
    BY <1>1, <1>3, <2>1, <2>2 DEF End, Promised!Refuse, Promised!Answers, Whole, Working
  <2> QED
    BY <2>3 DEF Promised!Next
<1>4. CASE Lock(u)
  <2>1. stage[u] = "lock" /\ holder[lock[u]] = None /\ stage' = [stage EXCEPT ![u] = "holds"]
    BY <1>4 DEF Lock, Go
  <2>2. outcome[u] = "none" /\ UNCHANGED outcome
    BY <1>4, <2>1 DEF Lock, AnswerInv, UnansweredStages
  <2>3. ASSUME NEW v \in Working, key[v] = key[u] PROVE FALSE
    <3>1. stage[v] \in LockedStages /\ v \in Uploads
      BY DEF Working
    <3>2. keyLocks[key[v]] = lock[v] /\ holder[lock[v]] = v
      BY <3>1 DEF LockInv, LockStages
    <3>3. keyLocks[key[u]] = lock[u]
      BY <2>1 DEF LockInv, LockStages
    <3> QED
      BY <2>1, <2>3, <3>1, <3>2, <3>3, ActorsAssumption
  <2>4. Working' = Working \cup {u}
    BY <2>1 DEF Working, LockedStages
  <2>5. Promised!Begin(u)
    BY <1>1, <2>2, <2>3, <2>4 DEF Promised!Begin, Whole, Working
  <2> QED
    BY <2>5 DEF Promised!Next
<1>5. CASE Unlock(u)
  <2>1. stage[u] = "unlock" /\ stage' = [stage EXCEPT ![u] = "unref"] /\ UNCHANGED outcome
    BY <1>5 DEF Unlock, Go
  <2>2. outcome[u] # "none"
    BY <2>1 DEF AnswerInv, UnansweredStages
  <2>3. u \in Working /\ Working' = Working \ {u}
    BY <2>1 DEF Working, LockedStages
  <2>4. Promised!Finish(u)
    BY <1>1, <2>1, <2>2, <2>3 DEF Promised!Finish, Whole, Working
  <2> QED
    BY <2>4 DEF Promised!Next
<1> QED
  BY <1>2, <1>3, <1>4, <1>5 DEF LockStep, Start

\* A step by which an upload is refused, whatever it does to its staging directory.
LEMMA RefusedStep ==
  ASSUME IInv, AnswerInv, NEW u \in Uploads, stage[u] \in {"holds", "extract", "write", "install"},
         NEW s \in {"discard", "unlock"}, NEW o \in {"rejected", "too_large", "cache_full"},
         End(u, s, o), UNCHANGED <<key, print, entries, reading, place>>
  PROVE  Promised!Next
<1>1. Working' = Working
  BY TurnGoesOn DEF IInv, End, Go, Moves, Stages, LockedStages
<1>2. Promised!Refuse(u)
  BY <1>1, OpenNow DEF End, Promised!Refuse, Promised!Answers, Working
<1> QED
  BY <1>2 DEF Promised!Next

\* A step of an upload at work that no one sees.
LEMMA UnseenStep ==
  ASSUME IInv, NEW u \in Uploads, NEW s \in LockedStages, stage[u] \in LockedStages, Moves(u, s),
         UNCHANGED <<key, print, entries, reading, outcome>>, Whole' = Whole
  PROVE  UNCHANGED Promised!setVars
<1>1. Working' = Working
  BY TurnGoesOn DEF IInv, Stages, LockedStages
<1> QED
  BY <1>1, UnseenIsStutter DEF Unseen

LEMMA RefinesHolds ==
  ASSUME IInv, AnswerInv, NEW u \in Uploads, Holds(u)
  PROVE  [Promised!Next]_Promised!setVars
<1>1. stage[u] = "holds" /\ UNCHANGED <<key, print, entries, reading>>
  BY DEF Holds, entryVars
<1>2. CASE HoldsPrint(key[u], print[u]) /\ End(u, "unlock", "stored") /\ UNCHANGED place
  <2>1. Working' = Working
    BY <1>1, <1>2, TurnGoesOn DEF IInv, End, Go, Moves, Stages, LockedStages
  <2>2. Promised!Keep(u)
    BY <1>1, <1>2, <2>1, OpenNow
    DEF HoldsPrint, End, Promised!Keep, Promised!Answers, Working
  <2> QED
    BY <2>2 DEF Promised!Next
<1>3. CASE Go(u, "extract") /\ place' = [place EXCEPT ![u] = "staging"] /\ UNCHANGED outcome
  <2>1. place[u] = "none"
    BY <1>1 DEF IInv, UploadInv
  <2>2. Whole' = Whole
    BY <1>3, <2>1 DEF Whole, IInv, TypeOK
  <2> QED
    BY <1>1, <1>3, <2>2, UnseenStep DEF Go, Moves, LockedStages
<1>4. CASE End(u, "unlock", "rejected") /\ UNCHANGED place
  BY <1>1, <1>4, RefusedStep
<1> QED
  BY <1>2, <1>3, <1>4 DEF Holds

LEMMA RefinesFile ==
  ASSUME IInv, AnswerInv, NEW u \in Uploads,
         (\E n \in Sizes : NextFile(u, n)) \/ WriteFile(u) \/ EndOfArchive(u)
  PROVE  [Promised!Next]_Promised!setVars
<1>1. stage[u] \in {"extract", "write"} /\ UNCHANGED <<key, print, reading, place>>
  BY DEF NextFile, WriteFile, EndOfArchive, dirVars
<1>2. ASSUME NEW n \in Sizes, NextFile(u, n)
      PROVE  [Promised!Next]_Promised!setVars
  <2>1. CASE UNCHANGED entries /\ \E o \in {"too_large", "cache_full"} : End(u, "discard", o)
    BY <1>1, <2>1, RefusedStep
  <2>2. ASSUME NEW K \in SUBSET Unread, EvictStep(u, n, K), UNCHANGED outcome
        PROVE  Promised!Evict(u, K)
    <3>1. Working' = Working
      BY <2>2, TurnGoesOn DEF EvictStep, IInv, Moves, Stages, LockedStages
    <3>2. ASSUME NEW k \in K PROVE k \in Keys /\ entries[k] # None /\ Promised!Unread(entries[k])
      <4>1. k \in Keys /\ entries[k] # None /\ readers[entries[k]] = 0 /\ entries[k] \in Uploads
        BY <3>2 DEF Unread, Present, IInv, TypeOK, Dirs
      <4>2. Readers(entries[k]) = {}
        <5>1. readers[entries[k]] = Cardinality(Readers(entries[k]))
          BY <4>1 DEF IInv, DirInv
        <5> QED
          BY <4>1, <5>1, SomeLints DEF Readers
      <4> QED
        BY <4>1, <4>2, UnreadNow
    <3>3. stage[u] = "extract" /\ Retire(K) /\ UNCHANGED <<key, print, reading, place>>
      BY <2>2 DEF EvictStep, dirVars
    <3> QED
      BY <2>2, <3>1, <3>2, <3>3, OpenNow DEF Retire, Promised!Evict, Working
  <2>3. ASSUME NextFile(u, n), UNCHANGED outcome PROVE \E K \in SUBSET Unread : EvictStep(u, n, K)
    <3>1. outcome[u] = "none"
      BY <1>1 DEF AnswerInv, UnansweredStages
    <3>2. ~Refused(u, n)
      <4>1. CASE ~Go(u, "write")
        BY <1>1, <2>3, <3>1, <4>1 DEF NextFile, End, IInv, TypeOK
      <4>2. CASE Go(u, "write")
        BY <4>2 DEF Go, Refused, Moves, IInv, TypeOK
      <4> QED
        BY <4>1, <4>2
    <3> QED
      BY <3>2, NextFileDoes, <2>3
  <2>4. \/ UNCHANGED entries /\ \E o \in {"too_large", "cache_full"} : End(u, "discard", o)
        \/ UNCHANGED outcome
    BY <1>2 DEF NextFile, entryVars
  <2>5. CASE UNCHANGED outcome
    <3>1. PICK K \in SUBSET Unread : EvictStep(u, n, K)
      BY <1>2, <2>3, <2>5
    <3>2. Promised!Evict(u, K) /\ K \in SUBSET Keys
      BY <2>2, <2>5, <3>1 DEF Unread, Present
    <3> QED
      BY <3>2 DEF Promised!Next
  <2> QED
    BY <2>1, <2>4, <2>5
<1>3. CASE WriteFile(u)
  <2>1. UNCHANGED entries /\ (\/ Go(u, "extract") /\ UNCHANGED outcome
                             \/ End(u, "discard", "rejected"))
    BY <1>3 DEF WriteFile, entryVars
  <2>2. Whole' = Whole
    BY <1>1 DEF Whole
  <2> QED
    BY <1>1, <2>1, <2>2, UnseenStep, RefusedStep DEF Go, Moves, LockedStages
<1>4. CASE EndOfArchive(u)
  <2>1. UNCHANGED entries /\ (\/ Go(u, "install") /\ UNCHANGED outcome
                             \/ End(u, "discard", "rejected"))
    BY <1>4 DEF EndOfArchive, entryVars
  <2>2. Whole' = Whole
    BY <1>1 DEF Whole
  <2> QED
    BY <1>1, <2>1, <2>2, UnseenStep, RefusedStep DEF Go, Moves, LockedStages
<1> QED
  BY <1>2, <1>3, <1>4

LEMMA RefinesInstall ==
  ASSUME IInv, AnswerInv, NEW u \in Uploads, Install(u)
  PROVE  [Promised!Next]_Promised!setVars
<1>1. stage[u] = "install" /\ UNCHANGED <<key, print, reading>>
  BY DEF Install
<1>2. CASE End(u, "discard", "rejected") /\ UNCHANGED <<entries, place>>
  BY <1>1, <1>2, RefusedStep
<1>3. CASE End(u, "clean", "stored") /\ place' = [place EXCEPT ![u] = "stored"]
           /\ entries' = [entries EXCEPT ![key[u]] = u]
  <2>1. Working' = Working
    BY <1>1, <1>3, TurnGoesOn DEF IInv, End, Go, Moves, Stages, LockedStages
  <2>2. place[u] = "staging"
    BY <1>1 DEF IInv, UploadInv, StagingStages
  <2>3. Whole' = Whole \cup {u} /\ u \notin Whole
    BY <1>3, <2>2 DEF Whole, IInv, TypeOK
  <2>4. Promised!Put(u)
    BY <1>1, <1>3, <2>1, <2>3, OpenNow DEF End, Promised!Put, Promised!Answers, Whole, Working
  <2> QED
    BY <2>4 DEF Promised!Next
<1> QED
  BY <1>2, <1>3 DEF Install, entryVars

LEMMA RefinesCleanup ==
  ASSUME IInv, NEW u \in Uploads, Clean(u) \/ Discard(u) \/ Unreserve(u)
  PROVE  [Promised!Next]_Promised!setVars
<1>1. /\ stage[u] \in LockedStages /\ \E s \in LockedStages : Moves(u, s)
      /\ UNCHANGED <<key, print, entries, reading, outcome>>
  BY DEF Clean, Discard, Unreserve, Go, Moves, LockedStages, entryVars
<1>2. Whole' = Whole
  <2>1. CASE Discard(u)
    <3>1. place[u] = "staging"
      BY <2>1 DEF Discard, IInv, UploadInv, StagingStages
    <3> QED
      BY <2>1, <3>1 DEF Discard, Whole, IInv, TypeOK
  <2>2. CASE Clean(u) \/ Unreserve(u)
    BY <2>2 DEF Clean, Unreserve, Whole, dirVars
  <2> QED
    BY <2>1, <2>2
<1> QED
  BY <1>1, <1>2, UnseenStep

LEMMA RefinesSetsInit == Init => Promised!Init /\ AnswerInv
<1> SUFFICES ASSUME Init PROVE Promised!Init /\ AnswerInv
  OBVIOUS
<1> QED
  BY DEF Init, Promised!Init, AnswerInv, UnansweredStages, LockedStages

\* put, acquire, release and remove: uploads of one key take turns, a set is put
\* in place whole or not at all, and leaves the disk only when no key has it and
\* no lint copies it.
THEOREM CacheImplementsSets == Spec => ImplementsSets
<1>1. IInv /\ AnswerInv /\ [Next]_vars => AnswerInv'
  BY AnswerStepKeeps DEF IInv
<1>2. IInv /\ AnswerInv /\ [Next]_vars => [Promised!Next]_Promised!setVars
  <2> SUFFICES ASSUME IInv, AnswerInv, [Next]_vars
               PROVE  [Promised!Next]_Promised!setVars
    OBVIOUS
  <2>1. CASE UNCHANGED vars
    BY <2>1, UnseenIsStutter
    DEF vars, uploadVars, dirVars, entryVars, Unseen, Whole, Working
  <2>2. ASSUME NEW u \in Uploads, SetStep(u) PROVE [Promised!Next]_Promised!setVars
    BY <2>2, RefinesHolds, RefinesFile, RefinesInstall, RefinesCleanup DEF SetStep
  <2> QED
    BY <2>1, <2>2, RefinesLint, RefinesRemoval, RefinesLock, Steps
<1> QED
  BY RefinesSetsInit, <1>1, <1>2, Invariance, PTL DEF Spec, ImplementsSets, Promised!Spec
==============================================================================
