-------------------------- MODULE GraphPoolProofs --------------------------
(***************************************************************************)
(* Proofs about the graph store pool, for any limit, any namespaces, any   *)
(* finite set of goroutines and any number of reopenings.                  *)
(***************************************************************************)
EXTENDS GraphPool, FiniteSetTheorems, TLAPS

(* Who has the mutex, and what a goroutine holds, follow from where it is.  *)
Control ==
    /\ \A u \in Users : lock = u <=> pc[u] = "evicting"
    /\ \A u \in Users : pc[u] = "using" => held[u] # NoHandle
    /\ \A u \in Users : held[u] # NoHandle => pc[u] # "idle" /\ pc[u] # "resetting"

(* The pool's handles are open, a handle somebody holds or has to close was *)
(* opened, and a detached handle is not in the pool.                        *)
Lifecycle ==
    /\ \A u \in Users : held[u] # NoHandle => handle[held[u]] # "unopened"
    /\ \A h \in stores : handle[h] = "open"
    /\ \A u \in Users : \A h \in toClose[u] : handle[h] # "unopened" /\ h \notin stores

Inv ==
    /\ TypeOK
    /\ Control
    /\ Lifecycle
    /\ PinsExact
    /\ HeldStoreStaysOpen
    /\ OverLimitOnlyWhenPinned
    /\ OverLimitExact

-----------------------------------------------------------------------------
(* The sets of holders are finite, and an entry without pins has none.      *)
LEMMA HoldersFinite ==
    ASSUME NEW h
    PROVE  IsFiniteSet(HoldersOf(h))
  BY GraphPoolAssumption, FS_Subset, Zenon DEF HoldersOf

LEMMA UnpinnedUnheld ==
    ASSUME PinsExact, NEW h \in Handles, pins[h] = 0
    PROVE  \A u \in Users : held[u] # h
<1>1. HoldersOf(h) = {}
  BY HoldersFinite, FS_EmptySet, Zenon DEF PinsExact
<1> QED
  BY <1>1, Zenon DEF HoldersOf

(* A new pool satisfies the invariant.                                      *)
LEMMA InitInv == Init => Inv
<1> SUFFICES ASSUME Init PROVE Inv
  BY Zenon
<1> USE GraphPoolAssumption DEF Init
<1>1. NoHandle \notin Handles
  BY Zenon DEF Handles
<1>2. TypeOK /\ Control /\ Lifecycle
  BY Zenon DEF TypeOK, Control, Lifecycle
<1>3. PinsExact
  <2>1. \A h \in Handles : HoldersOf(h) = {}
    BY <1>1, Zenon DEF HoldersOf
  <2> QED
    BY <2>1, FS_EmptySet, Zenon DEF PinsExact
<1>4. HeldStoreStaysOpen
  BY Zenon DEF HeldStoreStaysOpen, Holders
<1>5. ~(Cardinality(stores) > maxOpen)
  BY FS_EmptySet
<1>6. OverLimitOnlyWhenPinned /\ OverLimitExact
  BY <1>5, Zenon DEF OverLimitOnlyWhenPinned, OverLimitExact
<1> QED
  BY <1>2, <1>3, <1>4, <1>6, Zenon DEF Inv

-----------------------------------------------------------------------------
(* A step that moves no pin and no holder keeps the pin counts exact.       *)
LEMMA SameHolders ==
    ASSUME PinsExact, pins' = pins, held' = held
    PROVE  PinsExact'
  BY Zenon DEF PinsExact, HoldersOf

(* Acquiring a handle adds one holder to one entry.                         *)
LEMMA AcquireCounts ==
    ASSUME TypeOK, PinsExact, NEW u \in Users, NEW h \in Handles, held[u] = NoHandle,
           pins' = [pins EXCEPT ![h] = @ + 1],
           held' = [held EXCEPT ![u] = h]
    PROVE  PinsExact'
<1> SUFFICES ASSUME NEW g \in Handles
             PROVE  pins'[g] = Cardinality(HoldersOf(g)')
  BY Zenon DEF PinsExact
<1>0. NoHandle \notin Handles
  BY GraphPoolAssumption, Zenon DEF Handles
<1>1. CASE g = h
  <2>1. u \notin HoldersOf(h) /\ HoldersOf(h)' = HoldersOf(h) \cup {u}
    BY <1>0 DEF HoldersOf, TypeOK
  <2>2. Cardinality(HoldersOf(h) \cup {u}) = Cardinality(HoldersOf(h)) + 1
    BY <2>1, HoldersFinite, FS_AddElement, Zenon
  <2> QED
    BY <1>1, <2>1, <2>2, Zenon DEF PinsExact, TypeOK
<1>2. CASE g # h
  <2>1. HoldersOf(g)' = HoldersOf(g)
    BY <1>0, <1>2, Zenon DEF HoldersOf, TypeOK
  <2> QED
    BY <1>2, <2>1, Zenon DEF PinsExact, TypeOK
<1> QED
  BY <1>1, <1>2, Zenon

(* Releasing it removes that holder, and the guard of the releaser on a     *)
(* positive count never bites.                                              *)
LEMMA ReleaseCounts ==
    ASSUME TypeOK, PinsExact, NEW u \in Users, held[u] # NoHandle,
           pins' = [pins EXCEPT ![held[u]] = IF @ > 0 THEN @ - 1 ELSE @],
           held' = [held EXCEPT ![u] = NoHandle]
    PROVE  PinsExact'
<1> DEFINE h == held[u]
<1> SUFFICES ASSUME NEW g \in Handles
             PROVE  pins'[g] = Cardinality(HoldersOf(g)')
  BY Zenon DEF PinsExact
<1>0. NoHandle \notin Handles /\ h \in Handles
  BY GraphPoolAssumption, Zenon DEF Handles, TypeOK
<1>1. CASE g = h
  <2>1. u \in HoldersOf(h)
    BY Zenon DEF HoldersOf
  <2>2. {v \in Users : held'[v] = g} = HoldersOf(h) \ {u}
    BY <1>0, <1>1, Zenon DEF HoldersOf, TypeOK
  <2>3. Cardinality(HoldersOf(h) \ {u}) = Cardinality(HoldersOf(h)) - 1
    BY <2>1, HoldersFinite, FS_RemoveElement, Zenon
  <2>4. Cardinality(HoldersOf(h)) # 0
    BY <2>1, HoldersFinite, FS_EmptySet, Zenon
  <2>5. pins[g] = Cardinality(HoldersOf(h)) /\ pins[g] \in Nat
    BY <1>1, Zenon DEF PinsExact, TypeOK
  <2>6. pins'[g] = pins[g] - 1
    BY <1>0, <1>1, <2>4, <2>5 DEF TypeOK
  <2> QED
    BY <2>2, <2>3, <2>5, <2>6, Zenon DEF HoldersOf
<1>2. CASE g # h
  <2>1. HoldersOf(g)' = HoldersOf(g)
    BY <1>0, <1>2, Zenon DEF HoldersOf, TypeOK
  <2> QED
    BY <1>0, <1>2, <2>1, Zenon DEF PinsExact, TypeOK
<1> QED
  BY <1>1, <1>2, Zenon

(* The pool is a finite set, so that its size is a number.                  *)
LEMMA StoresFinite ==
    ASSUME TypeOK
    PROVE  Cardinality(stores) \in Nat
<1>1. IsFiniteSet(1 .. MaxOpens)
  BY GraphPoolAssumption, FS_Interval
<1>2. IsFiniteSet(Handles)
  BY <1>1, GraphPoolAssumption, FS_Product, Zenon DEF Handles
<1> QED
  BY <1>2, FS_Subset, FS_CardinalityType, Zenon DEF TypeOK

(* Detaching every store, in ResetAll and in Close, leaves an empty pool.   *)
LEMMA EmptyPool ==
    ASSUME stores' = {}, overLimit' = FALSE
    PROVE  OverLimitOnlyWhenPinned' /\ OverLimitExact'
  BY GraphPoolAssumption, FS_EmptySet DEF OverLimitOnlyWhenPinned, OverLimitExact

-----------------------------------------------------------------------------
(* Every step of the pool preserves the invariant.                          *)
LEMMA NextInv == Inv /\ [Next]_vars => Inv'
<1> SUFFICES ASSUME Inv, [Next]_vars PROVE Inv'
  BY Zenon
<1>0. NoHandle \notin Handles /\ NoUser \notin Users
  BY GraphPoolAssumption, Zenon DEF Handles
<1> USE DEF Inv
<1>1. ASSUME NEW u \in Users, NEW h \in Handles, AcquireHit(u, h)
      PROVE  Inv'
  <2> USE <1>1 DEF AcquireHit
  <2>1. TypeOK'
    BY DEF TypeOK, PushFront, Without
  <2>2. Control'
    BY <1>0, Zenon DEF TypeOK, Control
  <2>3. Lifecycle'
    BY <1>0, Zenon DEF TypeOK, Lifecycle
  <2>4. PinsExact'
    BY AcquireCounts, Zenon DEF Control
  <2>5. HeldStoreStaysOpen'
    BY Zenon DEF TypeOK, Lifecycle, HeldStoreStaysOpen, Holders
  <2>6. OverLimitOnlyWhenPinned' /\ OverLimitExact'
    BY DEF TypeOK, OverLimitOnlyWhenPinned, OverLimitExact
  <2> QED
    BY <2>1, <2>2, <2>3, <2>4, <2>5, <2>6, Zenon
<1>2. ASSUME NEW u \in Users, NEW h \in Handles, AcquireMiss(u, h)
      PROVE  Inv'
  <2> USE <1>2 DEF AcquireMiss
  <2>1. TypeOK'
    BY Zenon DEF TypeOK, PushFront, Without
  <2>2. Control'
    BY <1>0, Zenon DEF TypeOK, Control
  <2>3. Lifecycle'
    BY <1>0 DEF TypeOK, Lifecycle
  <2>4. pins[h] = 0
    <3>1. HoldersOf(h) = {}
      BY <1>0, Zenon DEF HoldersOf, Lifecycle
    <3> QED
      BY <3>1, FS_EmptySet, Zenon DEF PinsExact
  <2>5. PinsExact'
    <3>1. pins' = [pins EXCEPT ![h] = @ + 1]
      BY <2>4 DEF TypeOK
    <3> QED
      BY <3>1, AcquireCounts, Zenon DEF Control
  <2>6. HeldStoreStaysOpen'
    BY Zenon DEF TypeOK, Lifecycle, HeldStoreStaysOpen, Holders
  <2>7. OverLimitOnlyWhenPinned' /\ OverLimitExact'
    BY <1>0, Zenon DEF OverLimitOnlyWhenPinned, OverLimitExact
  <2> QED
    BY <2>1, <2>2, <2>3, <2>5, <2>6, <2>7, Zenon
<1>3. ASSUME NEW u \in Users, Release(u)
      PROVE  Inv'
  <2> USE <1>3 DEF Release
  <2>0. held[u] \in Handles /\ held[u] # NoHandle
    BY Zenon DEF Control, TypeOK
  <2>1. TypeOK'
    BY <2>0 DEF TypeOK
  <2>2. Control'
    BY <1>0, Zenon DEF TypeOK, Control
  <2>3. Lifecycle'
    BY <1>0, Zenon DEF TypeOK, Lifecycle
  <2>4. PinsExact'
    BY <2>0, ReleaseCounts, Zenon
  <2>5. HeldStoreStaysOpen'
    BY Zenon DEF TypeOK, HeldStoreStaysOpen, Holders
  <2>6. OverLimitOnlyWhenPinned' /\ OverLimitExact'
    BY <1>0, Zenon DEF OverLimitOnlyWhenPinned, OverLimitExact
  <2> QED
    BY <2>1, <2>2, <2>3, <2>4, <2>5, <2>6, Zenon
<1>4. ASSUME NEW u \in Users, NEW h \in Handles, Evict(u, h)
      PROVE  Inv'
  <2> USE <1>4 DEF Evict
  <2>1. TypeOK'
    BY Zenon DEF TypeOK, Without
  <2>2. Control'
    BY Zenon DEF Control
  <2>3. Lifecycle'
    BY Zenon DEF TypeOK, Lifecycle, OldestIdle
  <2>4. PinsExact'
    BY SameHolders, Zenon
  <2>5. HeldStoreStaysOpen'
    <3>1. \A v \in Users : held[v] # h
      BY UnpinnedUnheld, Zenon DEF OldestIdle
    <3> QED
      BY <3>1, Zenon DEF HeldStoreStaysOpen, Holders
  <2>6. OverLimitOnlyWhenPinned' /\ OverLimitExact'
    BY <1>0, Zenon DEF OverLimitOnlyWhenPinned, OverLimitExact
  <2> QED
    BY <2>1, <2>2, <2>3, <2>4, <2>5, <2>6, Zenon
<1>5. ASSUME NEW u \in Users, EvictDone(u)
      PROVE  Inv'
  <2> USE <1>5 DEF EvictDone
  <2>1. Cardinality(stores) \in Nat /\ maxOpen \in Nat
    BY StoresFinite, GraphPoolAssumption, Zenon
  <2>2. TypeOK'
    BY <2>1 DEF TypeOK
  <2>3. Control'
    BY <1>0, Zenon DEF TypeOK, Control
  <2>4. Lifecycle'
    BY Zenon DEF Lifecycle
  <2>5. PinsExact'
    BY SameHolders, Zenon
  <2>6. HeldStoreStaysOpen'
    BY Zenon DEF HeldStoreStaysOpen, Holders
  <2>7. OverLimitOnlyWhenPinned'
    BY <2>1 DEF OverLimitOnlyWhenPinned
  <2>8. OverLimitExact'
    BY Zenon DEF OverLimitExact
  <2> QED
    BY <2>2, <2>3, <2>4, <2>5, <2>6, <2>7, <2>8, Zenon
<1>6. ASSUME NEW u \in Users, NEW h \in Handles, CloseDetached(u, h)
      PROVE  Inv'
  <2> USE <1>6 DEF CloseDetached, poolVars
  <2>1. TypeOK'
    BY Zenon DEF TypeOK
  <2>2. Control'
    BY Zenon DEF Control
  <2>3. Lifecycle'
    BY Zenon DEF TypeOK, Lifecycle
  <2>4. PinsExact'
    BY SameHolders, Zenon
  <2>5. HeldStoreStaysOpen'
    BY Zenon DEF TypeOK, Lifecycle, HeldStoreStaysOpen, Holders
  <2>6. OverLimitOnlyWhenPinned' /\ OverLimitExact'
    BY Zenon DEF OverLimitOnlyWhenPinned, OverLimitExact
  <2> QED
    BY <2>1, <2>2, <2>3, <2>4, <2>5, <2>6, Zenon
<1>7. ASSUME NEW u \in Users, NEW h \in Handles, ResetCloseFails(u, h)
      PROVE  Inv'
  <2> USE <1>7 DEF ResetCloseFails, poolVars
  <2>1. TypeOK'
    BY Zenon DEF TypeOK
  <2>2. Control'
    BY <1>0, Zenon DEF TypeOK, Control
  <2>3. Lifecycle'
    BY Zenon DEF TypeOK, Lifecycle
  <2>4. PinsExact'
    BY SameHolders, Zenon
  <2>5. HeldStoreStaysOpen'
    BY Zenon DEF TypeOK, Lifecycle, HeldStoreStaysOpen, Holders
  <2>6. OverLimitOnlyWhenPinned' /\ OverLimitExact'
    BY Zenon DEF OverLimitOnlyWhenPinned, OverLimitExact
  <2> QED
    BY <2>1, <2>2, <2>3, <2>4, <2>5, <2>6, Zenon
<1>8. ASSUME NEW u \in Users, Returned(u) \/ ResetRemovesDir(u)
      PROVE  Inv'
  <2> USE <1>8 DEF Returned, ResetRemovesDir, poolVars
  <2>1. TypeOK'
    BY Zenon DEF TypeOK
  <2>2. Control'
    BY <1>0 DEF TypeOK, Control
  <2>3. Lifecycle'
    BY Zenon DEF Lifecycle
  <2>4. PinsExact'
    BY SameHolders, Zenon
  <2>5. HeldStoreStaysOpen'
    BY Zenon DEF HeldStoreStaysOpen, Holders
  <2>6. OverLimitOnlyWhenPinned' /\ OverLimitExact'
    BY DEF OverLimitOnlyWhenPinned, OverLimitExact
  <2> QED
    BY <2>1, <2>2, <2>3, <2>4, <2>5, <2>6, Zenon
<1>9. ASSUME NEW u \in Users, ResetAll(u) \/ Close(u)
      PROVE  Inv'
  <2> USE <1>9 DEF ResetAll, Close
  <2>1. TypeOK'
    BY Zenon DEF TypeOK
  <2>2. Control'
    BY <1>0 DEF TypeOK, Control
  <2>3. Lifecycle'
    BY Zenon DEF TypeOK, Lifecycle
  <2>4. PinsExact'
    BY SameHolders, Zenon
  <2>5. HeldStoreStaysOpen'
    <3>1. CASE ResetAll(u)
      <4>1. \A v \in Users : held[v] \notin stores
        BY <3>1, UnpinnedUnheld, Zenon DEF TypeOK
      <4>2. \A v \in Users : held[v] = NoHandle
        BY <3>1, <4>1, Zenon DEF HeldStoreStaysOpen, Holders
      <4> QED
        BY <3>1, <4>2, Zenon DEF HeldStoreStaysOpen, Holders
    <3>2. CASE Close(u)
      BY <3>2, Zenon DEF HeldStoreStaysOpen
    <3> QED
      BY <3>1, <3>2, Zenon
  <2>6. OverLimitOnlyWhenPinned' /\ OverLimitExact'
    BY EmptyPool, Zenon
  <2> QED
    BY <2>1, <2>2, <2>3, <2>4, <2>5, <2>6, Zenon
<1>10. ASSUME UNCHANGED vars
       PROVE  Inv'
  <2> USE <1>10 DEF vars, poolVars
  <2>1. TypeOK' /\ Control' /\ Lifecycle'
    BY Zenon DEF TypeOK, Control, Lifecycle
  <2>2. PinsExact'
    BY SameHolders, Zenon
  <2>3. HeldStoreStaysOpen' /\ OverLimitOnlyWhenPinned' /\ OverLimitExact'
    BY Zenon DEF HeldStoreStaysOpen, Holders, OverLimitOnlyWhenPinned, OverLimitExact
  <2> QED
    BY <2>1, <2>2, <2>3, Zenon
<1> QED
  BY <1>1, <1>2, <1>3, <1>4, <1>5, <1>6, <1>7, <1>8, <1>9, <1>10, Zenon DEF Next

-----------------------------------------------------------------------------
(* The invariant holds in every state of the pool.                          *)
LEMMA SpecInv == Spec => []Inv
  BY InitInv, NextInv, PTL DEF Spec

(* Until the pool is shut down, eviction and ResetAll never close or detach *)
(* a store that an operation holds.                                         *)
THEOREM HeldStoreSafe == Spec => []HeldStoreStaysOpen
  BY SpecInv, PTL DEF Inv

(* The pin count of every entry is the number of operations holding it.     *)
THEOREM PinsCorrect == Spec => []PinsExact
  BY SpecInv, PTL DEF Inv

(* Outside an eviction pass, the pool is above its limit only with every    *)
(* store pinned.                                                            *)
THEOREM OverLimitCorrect == Spec => []OverLimitOnlyWhenPinned
  BY SpecInv, PTL DEF Inv

(* The episode flag tells whether the pool is above its limit.              *)
THEOREM EpisodeFlagCorrect == Spec => []OverLimitExact
  BY SpecInv, PTL DEF Inv

-----------------------------------------------------------------------------
(* A pool whose stores are all pinned has an operation in flight for each.  *)
LEMMA PinnedStoresHeld ==
    ASSUME TypeOK, PinsExact, \A h \in stores : pins[h] > 0
    PROVE  /\ Cardinality(stores) <= Cardinality(Holders)
           /\ Cardinality(Holders) <= Cardinality(Users)
           /\ Cardinality(Holders) \in Nat
           /\ Cardinality(Users) \in Nat
<1> DEFINE S == {u \in Users : held[u] \in stores}
           f == [u \in S |-> held[u]]
<1>1. NoHandle \notin Handles
  BY GraphPoolAssumption, Zenon DEF Handles
<1>2. IsFiniteSet(Users) /\ Holders \subseteq Users /\ S \subseteq Holders
  BY <1>1, GraphPoolAssumption, Zenon DEF Holders, TypeOK
<1>3. IsFiniteSet(Holders) /\ Cardinality(Holders) <= Cardinality(Users)
  BY <1>2, FS_Subset, Zenon
<1>4. IsFiniteSet(S) /\ Cardinality(S) <= Cardinality(Holders)
  BY <1>2, <1>3, FS_Subset, Zenon
<1>5. ASSUME NEW h \in stores
      PROVE  \E u \in S : f[u] = h
  <2>1. h \in Handles /\ Cardinality(HoldersOf(h)) # 0
    BY <1>5 DEF TypeOK, PinsExact
  <2>2. HoldersOf(h) # {}
    BY <2>1, FS_EmptySet, Zenon
  <2> QED
    BY <2>2, Zenon DEF HoldersOf
<1>6. f \in Surjection(S, stores)
  BY <1>5, Zenon DEF Surjection
<1>7. Cardinality(stores) <= Cardinality(S)
  BY <1>4, <1>6, FS_Surjection, Zenon
<1>8. /\ Cardinality(S) \in Nat /\ Cardinality(Holders) \in Nat
      /\ Cardinality(Users) \in Nat /\ Cardinality(stores) \in Nat
  BY <1>2, <1>3, <1>4, StoresFinite, FS_CardinalityType, Zenon
<1> HIDE DEF S
<1> QED
  BY <1>3, <1>4, <1>7, <1>8

(* What the passes have recorded: the peak covers the overshoot the last    *)
(* one left behind, and was itself covered by operations when recorded.     *)
PeakRecorded ==
    /\ lock = NoUser /\ Cardinality(stores) > maxOpen =>
          Cardinality(stores) - maxOpen <= peakOvershoot
    /\ peakOvershoot > 0 => peakOvershoot + maxOpen <= Cardinality(Users)

(* A new pool is below its limit and has recorded nothing.                  *)
LEMMA InitPeak == Init => PeakRecorded
<1> SUFFICES ASSUME Init PROVE PeakRecorded
  BY Zenon
<1>1. ~(Cardinality(stores) > maxOpen)
  BY GraphPoolAssumption, FS_EmptySet DEF Init
<1>2. ~(peakOvershoot > 0)
  BY DEF Init
<1> QED
  BY <1>1, <1>2, Zenon DEF PeakRecorded

(* Only the end of a pass moves the peak; every other step that leaves the  *)
(* mutex free leaves the size of the pool alone or empties it.              *)
LEMMA NextPeak == Inv /\ PeakRecorded /\ [Next]_vars => PeakRecorded'
<1> SUFFICES ASSUME Inv, PeakRecorded, [Next]_vars
             PROVE  PeakRecorded'
  BY Zenon
<1>1. /\ Cardinality(stores) \in Nat
      /\ maxOpen \in Nat \ {0}
      /\ peakOvershoot \in Nat
  BY StoresFinite, GraphPoolAssumption, Zenon DEF Inv, TypeOK
<1>2. ASSUME NEW u \in Users, EvictDone(u)
      PROVE  PeakRecorded'
  <2> USE <1>2 DEF EvictDone
  <2>1. Cardinality(stores') > maxOpen
          => Cardinality(stores') - maxOpen <= peakOvershoot'
    BY <1>1
  <2>2. peakOvershoot' > 0 => peakOvershoot' + maxOpen <= Cardinality(Users)
    <3>1. CASE Cardinality(stores) - maxOpen > peakOvershoot
      <4>1. \A h \in stores : pins[h] > 0
        BY <1>1, <3>1
      <4>2. Cardinality(stores) <= Cardinality(Users) /\ Cardinality(Users) \in Nat
        BY <1>1, <4>1, PinnedStoresHeld DEF Inv
      <4> QED
        BY <1>1, <3>1, <4>2
    <3>2. CASE ~(Cardinality(stores) - maxOpen > peakOvershoot)
      BY <3>2, Zenon DEF PeakRecorded
    <3> QED
      BY <3>1, <3>2, Zenon
  <2> QED
    BY <2>1, <2>2, Zenon DEF PeakRecorded
<1>3. ASSUME UNCHANGED peakOvershoot, lock' # NoUser \/ UNCHANGED <<lock, stores>>
      PROVE  PeakRecorded'
  BY <1>3, Zenon DEF PeakRecorded
<1>4. ASSUME UNCHANGED peakOvershoot, stores' = {}
      PROVE  PeakRecorded'
  <2>1. ~(Cardinality(stores') > maxOpen)
    BY <1>1, <1>4, FS_EmptySet
  <2> QED
    BY <1>4, <2>1, Zenon DEF PeakRecorded
<1>5. \/ \E u \in Users : EvictDone(u)
      \/ /\ UNCHANGED peakOvershoot
         /\ lock' # NoUser \/ stores' = {} \/ UNCHANGED <<lock, stores>>
  <2>1. NoUser \notin Users
    BY GraphPoolAssumption, Zenon
  <2> QED
    BY <2>1 DEF Next, vars, poolVars, AcquireHit, AcquireMiss, Release, Evict, CloseDetached,
       ResetCloseFails, Returned, ResetAll, ResetRemovesDir, Close
<1> QED
  BY <1>2, <1>3, <1>4, <1>5, Zenon

(* The bookkeeping of the pool: pins and episode flag are exact, and the    *)
(* documented bound on the overshoot holds, the operations in flight, also  *)
(* for the peak that recordOvershootLocked reports.                         *)
THEOREM PoolCorrect == Spec => []PoolInv
<1>1. Inv /\ PeakRecorded => PoolInv
  <2> SUFFICES ASSUME Inv, PeakRecorded PROVE PoolInv
    BY Zenon
  <2>1. lock = NoUser /\ Cardinality(stores) > maxOpen
          => Cardinality(stores) <= Cardinality(Holders)
    BY PinnedStoresHeld, Zenon DEF Inv, OverLimitOnlyWhenPinned
  <2> QED
    BY <2>1, Zenon DEF Inv, PoolInv, OvershootBoundedByPins, PeakRecorded
<1> QED
  BY <1>1, SpecInv, InitPeak, NextPeak, PTL DEF Spec

-----------------------------------------------------------------------------
(* A goroutine that is not inside a pass, a close or a reset has no store   *)
(* left to close, so ResetAll and Close overwrite no list.                  *)
NothingLeft == \A u \in Users : pc[u] \in {"idle", "using"} => toClose[u] = {}

LEMMA InitNothingLeft == Init => NothingLeft
  BY Zenon DEF Init, NothingLeft

LEMMA NextNothingLeft == Inv /\ NothingLeft /\ [Next]_vars => NothingLeft'
<1> SUFFICES ASSUME TypeOK, NothingLeft, [Next]_vars PROVE NothingLeft'
  BY Zenon DEF Inv
<1> USE DEF TypeOK, NothingLeft
<1>1. ASSUME NEW u \in Users, NEW h \in Handles,
             \/ AcquireHit(u, h) \/ AcquireMiss(u, h) \/ Evict(u, h)
             \/ CloseDetached(u, h) \/ ResetCloseFails(u, h)
      PROVE  NothingLeft'
  BY <1>1 DEF AcquireHit, AcquireMiss, Evict, CloseDetached, ResetCloseFails
<1>2. ASSUME NEW u \in Users, Release(u) \/ EvictDone(u) \/ Returned(u)
      PROVE  NothingLeft'
  BY <1>2, Zenon DEF Release, EvictDone, Returned
<1>3. ASSUME NEW u \in Users, ResetAll(u) \/ ResetRemovesDir(u)
      PROVE  NothingLeft'
  BY <1>3, Zenon DEF ResetAll, ResetRemovesDir
<1>4. ASSUME NEW u \in Users, Close(u)
      PROVE  NothingLeft'
  BY <1>4, Zenon DEF Close
<1>5. ASSUME UNCHANGED vars
      PROVE  NothingLeft'
  BY <1>5, Zenon DEF vars
<1> QED
  BY <1>1, <1>2, <1>3, <1>4, <1>5, Zenon DEF Next

(* A store that a step detaches goes on the list of the goroutine that took *)
(* the step, and leaves a list only by being closed or by a failed reset.   *)
LEMMA NextAbandons == Inv /\ NothingLeft /\ [Next]_vars => AbandonedByResetOnly
<1> SUFFICES ASSUME Inv, NothingLeft, [Next]_vars,
                    NEW h \in Handles, Abandoned(h)', ~Abandoned(h)
             PROVE  \E u \in Users, g \in Handles \ {h} :
                        h \in toClose[u] /\ ResetCloseFails(u, g)
  BY Zenon DEF AbandonedByResetOnly
<1> USE DEF Inv, TypeOK, Abandoned
<1>1. ASSUME NEW u \in Users, NEW g \in Handles, AcquireHit(u, g) \/ AcquireMiss(u, g)
      PROVE  FALSE
  BY <1>1, Zenon DEF AcquireHit, AcquireMiss
<1>2. ASSUME NEW u \in Users, NEW g \in Handles, Evict(u, g) \/ CloseDetached(u, g)
      PROVE  FALSE
  BY <1>2 DEF Evict, CloseDetached, poolVars
<1>3. ASSUME NEW u \in Users, NEW g \in Handles, ResetCloseFails(u, g)
      PROVE  g # h /\ h \in toClose[u]
  BY <1>3, Zenon DEF ResetCloseFails, poolVars
<1>4. ASSUME NEW u \in Users, ResetAll(u) \/ Close(u)
      PROVE  FALSE
  BY <1>4, Zenon DEF ResetAll, Close, NothingLeft
<1>5. ASSUME NEW u \in Users, Release(u) \/ EvictDone(u)
      PROVE  FALSE
  BY <1>5, Zenon DEF Release, EvictDone, poolVars
<1>6. ASSUME NEW u \in Users, Returned(u) \/ ResetRemovesDir(u)
      PROVE  FALSE
  BY <1>6, Zenon DEF Returned, ResetRemovesDir, poolVars
<1>7. ASSUME UNCHANGED vars
      PROVE  FALSE
  BY <1>7, Zenon DEF vars, poolVars
<1> QED
  BY <1>1, <1>2, <1>3, <1>4, <1>5, <1>6, <1>7, Zenon DEF Next

(* Eviction, shutdown and a reset that works give up no store they detached *)
(* before it is closed; only a ResetAll whose close of another store failed *)
(* does.                                                                    *)
THEOREM DetachCorrect == Spec => [][AbandonedByResetOnly]_vars
  BY SpecInv, InitNothingLeft, NextNothingLeft, NextAbandons, PTL DEF Spec
=============================================================================
