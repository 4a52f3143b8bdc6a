----------------------------- MODULE GraphPool -----------------------------
(***************************************************************************)
(* The bounded pool of per-namespace graph stores                          *)
(* (cmd/haosbot/graph_pool.go).  A store is pinned while an operation uses *)
(* it, the least recently acquired idle stores beyond maxOpen are evicted  *)
(* under p.mu and closed after p.mu is dropped, ResetAll detaches every    *)
(* store under p.mu and then closes them and removes the directory without *)
(* it, and Close is the shutdown path.                                     *)
(*                                                                         *)
(* The eviction loop runs one iteration per step with the mutex held, so   *)
(* that every intermediate state of the loop is a state of the model.  The *)
(* LRU list is the order it represents: <<h, g>> \in newer when h is in    *)
(* front of g.  The diagnostic counters other than peakOvershoot are left  *)
(* out; overLimit, which delimits their episodes, is kept.                 *)
(***************************************************************************)
EXTENDS Integers, FiniteSets

CONSTANTS
    Users,          \* goroutines: searches, projection workers, admin, shutdown
    Keys,           \* namespaces, one database file each
    MaxOpens,       \* bound: how often one namespace is opened
    maxOpen,        \* the pool's limit
    CloseMayFail,   \* whether Store.Close can return an error
    NoUser,
    NoHandle

ASSUME GraphPoolAssumption ==
    /\ IsFiniteSet(Users) /\ IsFiniteSet(Keys)
    /\ MaxOpens \in Nat
    /\ maxOpen \in Nat \ {0}
    /\ CloseMayFail \in BOOLEAN
    /\ NoUser \notin Users
    /\ NoHandle \notin Keys \X (1 .. MaxOpens)

(* Every open of a namespace yields a new *micrographrag.Store.             *)
Handles == Keys \X (1 .. MaxOpens)

VARIABLES
    lock,           \* the holder of p.mu, NoUser when free
    stores,         \* the entries of p.stores, by handle
    newer,          \* p.order
    pins,           \* graphStoreEntry.pins
    handle,         \* unopened, open or closed, for every store handle
    unlinked,       \* handles whose database file was removed while open
    closed,         \* p.closed
    overLimit,      \* p.overLimit
    peakOvershoot,  \* p.peakOvershoot
    pc,             \* where each goroutine is
    held,           \* the handle it acquired and has not released
    toClose         \* the detached handles it has still to close

poolVars == <<stores, newer, pins, closed, overLimit, peakOvershoot>>
vars == <<lock, poolVars, handle, unlinked, pc, held, toClose>>

TypeOK ==
    /\ lock \in Users \cup {NoUser}
    /\ stores \subseteq Handles
    /\ newer \subseteq stores \X stores
    /\ pins \in [Handles -> Nat]
    /\ handle \in [Handles -> {"unopened", "open", "closed"}]
    /\ unlinked \subseteq Handles
    /\ closed \in BOOLEAN
    /\ overLimit \in BOOLEAN
    /\ peakOvershoot \in Nat
    /\ pc \in [Users -> {"idle", "evicting", "closing", "using", "resetting"}]
    /\ held \in [Users -> Handles \cup {NoHandle}]
    /\ toClose \in [Users -> SUBSET Handles]

Init ==
    /\ lock = NoUser
    /\ stores = {}
    /\ newer = {}
    /\ pins = [h \in Handles |-> 0]
    /\ handle = [h \in Handles |-> "unopened"]
    /\ unlinked = {}
    /\ closed = FALSE
    /\ overLimit = FALSE
    /\ peakOvershoot = 0
    /\ pc = [u \in Users |-> "idle"]
    /\ held = [u \in Users |-> NoHandle]
    /\ toClose = [u \in Users |-> {}]

-----------------------------------------------------------------------------
(* Mutant of Without: the order still mentions the entry as an older one.   *)
WithoutAsNewer(order, h) == {p \in order : p[1] # h}

Without(order, h) == {p \in order : p[1] # h /\ p[2] # h}

PushFront(h) == Without(newer, h) \cup ({h} \X (stores \ {h}))

(* Mutant of AcquireHit: hands the store out without pinning it.            *)
AcquireHitUnpinned(u, h) ==
    /\ lock = NoUser /\ ~closed
    /\ pc[u] = "idle"
    /\ h \in stores
    /\ newer' = PushFront(h)
    /\ held' = [held EXCEPT ![u] = h]
    /\ pc' = [pc EXCEPT ![u] = "using"]
    /\ UNCHANGED <<lock, stores, pins, handle, unlinked, closed, overLimit, peakOvershoot, toClose>>

(* Acquire of a namespace that is open: pin it and move it to the front.    *)
AcquireHit(u, h) ==
    /\ lock = NoUser /\ ~closed
    /\ pc[u] = "idle"
    /\ h \in stores
    /\ pins' = [pins EXCEPT ![h] = @ + 1]
    /\ newer' = PushFront(h)
    /\ held' = [held EXCEPT ![u] = h]
    /\ pc' = [pc EXCEPT ![u] = "using"]
    /\ UNCHANGED <<lock, stores, handle, unlinked, closed, overLimit, peakOvershoot, toClose>>

(* Acquire of a namespace that is not open: open its file under the mutex,  *)
(* enter it pinned and at the front, and start an eviction pass.  A failed  *)
(* open changes nothing.                                                    *)
AcquireMiss(u, h) ==
    /\ lock = NoUser /\ ~closed
    /\ pc[u] = "idle"
    /\ handle[h] = "unopened"
    /\ \A g \in Handles : g[1] = h[1] =>
          /\ g \notin stores
          /\ handle[g] = "unopened" => h[2] <= g[2]
    /\ lock' = u
    /\ handle' = [handle EXCEPT ![h] = "open"]
    /\ stores' = stores \cup {h}
    /\ newer' = PushFront(h)
    /\ pins' = [pins EXCEPT ![h] = 1]
    /\ held' = [held EXCEPT ![u] = h]
    /\ pc' = [pc EXCEPT ![u] = "evicting"]
    /\ UNCHANGED <<unlinked, closed, overLimit, peakOvershoot, toClose>>

(* Mutant of Release: drops the pin and skips the eviction pass.            *)
ReleaseNoEvict(u) ==
    /\ lock = NoUser
    /\ pc[u] = "using"
    /\ pins' = [pins EXCEPT ![held[u]] = IF @ > 0 THEN @ - 1 ELSE @]
    /\ held' = [held EXCEPT ![u] = NoHandle]
    /\ pc' = [pc EXCEPT ![u] = "idle"]
    /\ UNCHANGED <<lock, stores, newer, handle, unlinked, closed, overLimit, peakOvershoot, toClose>>

(* The release function, which also runs when the context given to Store    *)
(* is done: drop the pin and start an eviction pass.  A second call is a    *)
(* no-op (sync.Once).                                                       *)
Release(u) ==
    /\ lock = NoUser
    /\ pc[u] = "using"
    /\ lock' = u
    /\ pins' = [pins EXCEPT ![held[u]] = IF @ > 0 THEN @ - 1 ELSE @]
    /\ held' = [held EXCEPT ![u] = NoHandle]
    /\ pc' = [pc EXCEPT ![u] = "evicting"]
    /\ UNCHANGED <<stores, newer, handle, unlinked, closed, overLimit, peakOvershoot, toClose>>

(* Mutant of OldestIdle: the oldest store, pinned or not.                   *)
OldestOfAll(h) == h \in stores /\ \A g \in stores : <<h, g>> \notin newer

OldestIdle(h) ==
    /\ h \in stores /\ pins[h] = 0
    /\ \A g \in stores : pins[g] = 0 => <<h, g>> \notin newer

(* One iteration of evictLocked.                                            *)
Evict(u, h) ==
    /\ lock = u
    /\ pc[u] = "evicting"
    /\ Cardinality(stores) > maxOpen
    /\ OldestIdle(h)
    /\ stores' = stores \ {h}
    /\ newer' = Without(newer, h)
    /\ toClose' = [toClose EXCEPT ![u] = @ \cup {h}]
    /\ UNCHANGED <<lock, pins, handle, unlinked, closed, overLimit, peakOvershoot, pc, held>>

(* Mutant of EvictDone: the flag survives a pass that reached the limit.    *)
EvictDoneKeepsFlag(u) ==
    /\ lock = u
    /\ pc[u] = "evicting"
    /\ \/ Cardinality(stores) <= maxOpen
       \/ \A h \in stores : pins[h] > 0
    /\ overLimit' = (overLimit \/ Cardinality(stores) > maxOpen)
    /\ peakOvershoot' = IF Cardinality(stores) - maxOpen > peakOvershoot
                          THEN Cardinality(stores) - maxOpen
                          ELSE peakOvershoot
    /\ lock' = NoUser
    /\ pc' = [pc EXCEPT ![u] = "closing"]
    /\ UNCHANGED <<stores, newer, pins, handle, unlinked, closed, held, toClose>>

(* The end of the pass: at the limit, or above it with every store pinned,  *)
(* which recordOvershootLocked records.                                     *)
EvictDone(u) ==
    /\ lock = u
    /\ pc[u] = "evicting"
    /\ \/ Cardinality(stores) <= maxOpen
       \/ \A h \in stores : pins[h] > 0
    /\ overLimit' = (Cardinality(stores) > maxOpen)
    /\ peakOvershoot' = IF Cardinality(stores) - maxOpen > peakOvershoot
                          THEN Cardinality(stores) - maxOpen
                          ELSE peakOvershoot
    /\ lock' = NoUser
    /\ pc' = [pc EXCEPT ![u] = "closing"]
    /\ UNCHANGED <<stores, newer, pins, handle, unlinked, closed, held, toClose>>

(* closeStores, and the loops of ResetAll and Close: one detached handle is *)
(* closed without the mutex.                                                *)
CloseDetached(u, h) ==
    /\ pc[u] \in {"closing", "resetting"}
    /\ h \in toClose[u]
    /\ handle' = [handle EXCEPT ![h] = "closed"]
    /\ toClose' = [toClose EXCEPT ![u] = @ \ {h}]
    /\ UNCHANGED <<lock, poolVars, unlinked, pc, held>>

(* ResetAll gives up at the first store that fails to close and drops the   *)
(* rest of its list.                                                        *)
ResetCloseFails(u, h) ==
    /\ CloseMayFail
    /\ pc[u] = "resetting"
    /\ h \in toClose[u]
    /\ handle' = [handle EXCEPT ![h] = "closed"]
    /\ toClose' = [toClose EXCEPT ![u] = {}]
    /\ pc' = [pc EXCEPT ![u] = "idle"]
    /\ UNCHANGED <<lock, poolVars, unlinked, held>>

(* Acquire, the release function or Close returns.                          *)
Returned(u) ==
    /\ pc[u] = "closing"
    /\ toClose[u] = {}
    /\ pc' = [pc EXCEPT ![u] = IF held[u] = NoHandle THEN "idle" ELSE "using"]
    /\ UNCHANGED <<lock, poolVars, handle, unlinked, held, toClose>>

(* ResetAll refuses while a store is pinned; otherwise it detaches them all.*)
ResetAll(u) ==
    /\ lock = NoUser /\ ~closed
    /\ pc[u] = "idle"
    /\ \A h \in stores : pins[h] = 0
    /\ toClose' = [toClose EXCEPT ![u] = stores]
    /\ stores' = {}
    /\ newer' = {}
    /\ overLimit' = FALSE
    /\ pc' = [pc EXCEPT ![u] = "resetting"]
    /\ UNCHANGED <<lock, pins, handle, unlinked, closed, peakOvershoot, held>>

(* Mutant of ResetRemovesDir: forgets the handles it was asked to close.    *)
ResetRemovesDirEarly(u) ==
    /\ pc[u] = "resetting"
    /\ unlinked' = unlinked \cup {h \in Handles : handle[h] = "open"}
    /\ toClose' = [toClose EXCEPT ![u] = {}]
    /\ pc' = [pc EXCEPT ![u] = "idle"]
    /\ UNCHANGED <<lock, poolVars, handle, held>>

(* os.RemoveAll of the directory, without the mutex: whatever is open in it *)
(* by now loses its file.                                                   *)
ResetRemovesDir(u) ==
    /\ pc[u] = "resetting"
    /\ toClose[u] = {}
    /\ unlinked' = unlinked \cup {h \in Handles : handle[h] = "open"}
    /\ pc' = [pc EXCEPT ![u] = "idle"]
    /\ UNCHANGED <<lock, poolVars, handle, held, toClose>>

(* Close detaches every store, pinned or not, and ends the pool.            *)
Close(u) ==
    /\ lock = NoUser /\ ~closed
    /\ pc[u] = "idle"
    /\ closed' = TRUE
    /\ toClose' = [toClose EXCEPT ![u] = stores]
    /\ stores' = {}
    /\ newer' = {}
    /\ overLimit' = FALSE
    /\ pc' = [pc EXCEPT ![u] = "closing"]
    /\ UNCHANGED <<lock, pins, handle, unlinked, peakOvershoot, held>>

-----------------------------------------------------------------------------
Next ==
    \E u \in Users :
        \/ \E h \in Handles :
              \/ AcquireHit(u, h)
              \/ AcquireMiss(u, h)
              \/ Evict(u, h)
              \/ CloseDetached(u, h)
              \/ ResetCloseFails(u, h)
        \/ Release(u)
        \/ EvictDone(u)
        \/ Returned(u)
        \/ ResetAll(u)
        \/ ResetRemovesDir(u)
        \/ Close(u)

Spec == Init /\ [][Next]_vars

(* A goroutine inside Acquire, a release, ResetAll or Close runs on; none   *)
(* has to call the pool, and none has to release.                           *)
GoesOn(u) ==
    \/ \E h \in Handles : Evict(u, h) \/ CloseDetached(u, h) \/ ResetCloseFails(u, h)
    \/ EvictDone(u) \/ Returned(u) \/ ResetRemovesDir(u)

Fairness == \A u \in Users : WF_vars(GoesOn(u))

FairSpec == Spec /\ Fairness

-----------------------------------------------------------------------------
HoldersOf(h) == {u \in Users : held[u] = h}

Holders == {u \in Users : held[u] # NoHandle}

(* graph_pool.go:49-53: until the pool is shut down, a store an operation   *)
(* holds is never closed by an eviction or a reset, and is still the one    *)
(* the pool hands out for its namespace.                                    *)
HeldStoreStaysOpen ==
    ~closed => \A u \in Holders : held[u] \in stores /\ handle[held[u]] = "open"

(* The pin count of an entry is the number of operations that hold it, also *)
(* when the pool was closed in between (releaser, Acquire).                 *)
PinsExact == \A h \in Handles : pins[h] = Cardinality(HoldersOf(h))

(* graph_pool.go:306-310: outside an eviction pass the pool is above its    *)
(* limit only when every store it holds is pinned.                          *)
OverLimitOnlyWhenPinned ==
    lock = NoUser /\ Cardinality(stores) > maxOpen => \A h \in stores : pins[h] > 0

(* graph_pool.go:56-62: the overshoot, and its recorded peak, never exceed  *)
(* the number of operations in flight.                                      *)
OvershootBoundedByPins ==
    /\ lock = NoUser /\ Cardinality(stores) > maxOpen =>
          /\ Cardinality(stores) <= Cardinality(Holders)
          /\ Cardinality(stores) - maxOpen <= peakOvershoot
    /\ peakOvershoot > 0 => peakOvershoot + maxOpen <= Cardinality(Users)

(* graph_pool.go:96-100: the flag that delimits an overshoot episode tells, *)
(* between passes, whether the pool is above its limit, also across a reset *)
(* and a release that arrives after Close.                                  *)
OverLimitExact == lock = NoUser => (overLimit <=> Cardinality(stores) > maxOpen)

(* An open store that is neither in the pool nor on any goroutine's list:   *)
(* nobody will close it.                                                    *)
Abandoned(h) == handle[h] = "open" /\ h \notin stores /\ \A u \in Users : h \notin toClose[u]

(* Only a ResetAll in which the close of another store failed gives up a    *)
(* detached store: eviction, shutdown and a reset that works drop none.     *)
AbandonedByResetOnly ==
    \A h \in Handles :
        Abandoned(h)' /\ ~Abandoned(h)
            => \E u \in Users, g \in Handles \ {h} : h \in toClose[u] /\ ResetCloseFails(u, g)

(* No detached store is left to close: each was closed, or abandoned by a   *)
(* reset that failed half-way.                                              *)
NoneToClose == \A h \in Handles : handle[h] = "open" /\ h \notin stores => Abandoned(h)

(* graph_pool.go:312-317: a store that was detached is closed in the end,   *)
(* whichever of eviction, reset and shutdown detached it, unless a reset    *)
(* failed half-way; a detached handle never returns.                        *)
DetachedIsClosed == []<>NoneToClose

(* memory_admin.go:69-70 says of a prune that "If a search is in flight     *)
(* ResetAll fails": the directory is not removed while a store is held.     *)
ResetSparesSearches == [][\A u \in Users : ResetRemovesDir(u) => Holders = {}]_vars

(* The bookkeeping of the pool: types, exact pins, an overshoot no larger   *)
(* than the operations in flight, and an exact episode flag.                *)
PoolInv == TypeOK /\ PinsExact /\ OvershootBoundedByPins /\ OverLimitExact
=============================================================================
