-------------------------- MODULE ResourceManager --------------------------
(***************************************************************************)
(* ResourceManager and ResourcePool (src/src/ResourceManager.cpp).         *)
(*                                                                         *)
(* The manager holds its lock through a call; each pool has a lock of its  *)
(* own.  Whoever got a pool from getResourcePool calls it directly, also   *)
(* while the manager is between choosing a pool and allocating from it.    *)
(* What a pool does is therefore a step that only Create, Remove and the   *)
(* choice of a pool wait for.                                              *)
(*                                                                         *)
(* Pools are of one type: types only partition them.  Statistics, peak     *)
(* usage and status are reported, never read back, and left out.           *)
(***************************************************************************)
EXTENDS Integers, Sequences, FiniteSetsExt, StdContainers

CONSTANTS
  Pools,        \* names of pools
  Requesters,
  Capacities,   \* capacities a pool is given
  Amounts,      \* amounts asked for
  MaxGrants     \* bound: calls to allocate one pool sees

ASSUME ResourceAssumption ==
  Capacities \subseteq Nat /\ Amounts \subseteq Nat \ {0} /\ MaxGrants \in Nat

Strategies == {"FIRST_FIT", "BEST_FIT", "WORST_FIT", "BALANCED"}
Requests == [requester : Requesters, amount : Amounts, expires : {"never", "later"}]

VARIABLES
  pool,       \* _named_pools: per name, what the ResourcePool holds
  poolOrder,  \* _resource_pools[type], in order of creation
  strategy,   \* _optimization_strategy
  chosen,     \* the pool and request allocateResource is about to allocate, if any
  sweepDue    \* _cleanup_interval_seconds have passed since _last_cleanup_time

resourceVars == <<pool, poolOrder, strategy, chosen, sweepDue>>

ManagerFree == chosen = {}
-----------------------------------------------------------------------------
(* ResourcePool *)

\* cut remembers that setCapacity went below what was allocated
NewPool(c) ==
  [total |-> c, available |-> c, allocated |-> 0, calls |-> 0, held |-> {}, cut |-> FALSE]

AmountOf(S) == MapThenSumSet(LAMBDA a : a.amount, S)

\* Gives the allocations in S back
Release(p, S) ==
  [p EXCEPT !.available = @ + AmountOf(S), !.allocated = @ - AmountOf(S), !.held = @ \ S]

\* The id of an allocation is the pool's name and the number of this call
Allocated(p, q) ==
  IF q.amount > p.available THEN [p EXCEPT !.calls = @ + 1]
  ELSE [p EXCEPT !.calls = @ + 1,
                 !.available = @ - q.amount, !.allocated = @ + q.amount,
                 !.held = @ \cup {[id |-> p.calls + 1, requester |-> q.requester,
                                   amount |-> q.amount, expires |-> q.expires]}]

MutantNoClamp(p, c) ==
  [p EXCEPT !.total = c, !.available = @ + c - p.total, !.cut = @ \/ p.available + c < p.total]
Resized(p, c) ==
  LET left == p.available + (c - p.total)
  IN [p EXCEPT !.total = c, !.available = IF left < 0 THEN 0 ELSE left,
               !.cut = @ \/ left < 0]

MutantHalfSwept(p) ==
  [p EXCEPT !.available = @ + AmountOf({a \in p.held : a.expires = "now"}),
            !.held = {a \in p.held : a.expires # "now"}]
Swept(p) == Release(p, {a \in p.held : a.expires = "now"})

Emptied(p) ==
  [p EXCEPT !.available = p.total, !.allocated = 0, !.held = {}, !.cut = FALSE]

Change(n, p) ==
  /\ pool' = [pool EXCEPT ![n] = p]
  /\ UNCHANGED <<poolOrder, strategy, sweepDue>>

MayAllocate(n) == pool[n].calls < MaxGrants

\* ResourcePool::allocate, from its owner or through allocateFromPool
Allocate(n, q) ==
  /\ MayAllocate(n)
  /\ Change(n, Allocated(pool[n], q))
  /\ UNCHANGED chosen

\* Also deallocateResource: an id names its pool
Deallocate(n, a) ==
  /\ a \in pool[n].held
  /\ Change(n, Release(pool[n], {a}))
  /\ UNCHANGED chosen

\* Also each pool's turn in deallocateResourcesForRequester
DeallocateForRequester(n, r) ==
  /\ Change(n, Release(pool[n], {a \in pool[n].held : a.requester = r}))
  /\ UNCHANGED chosen

SetCapacity(n, c) == Change(n, Resized(pool[n], c)) /\ UNCHANGED chosen
SweepPool(n)      == Change(n, Swept(pool[n])) /\ UNCHANGED chosen
ReleaseAll(n)     == Change(n, Emptied(pool[n])) /\ UNCHANGED chosen
-----------------------------------------------------------------------------
(* ResourceManager *)

CreatePool(n, c) ==
  /\ ManagerFree
  /\ n \notin DOMAIN pool
  /\ pool' = With(pool, n, NewPool(c))
  /\ poolOrder' = Append(poolOrder, n)
  /\ UNCHANGED <<strategy, chosen, sweepDue>>

RemovePool(n) ==
  /\ ManagerFree
  /\ pool' = Without(pool, {n})
  /\ poolOrder' = SelectSeq(poolOrder, LAMBDA m : m # n)
  /\ UNCHANGED <<strategy, chosen, sweepDue>>

SetStrategy(s) ==
  /\ ManagerFree
  /\ strategy' = s
  /\ UNCHANGED <<pool, poolOrder, chosen, sweepDue>>

\* a is used less than b, as parts of their capacities
LessUsed(a, b) ==
  LET part(p) == IF p.total = 0 THEN <<0, 1>> ELSE <<p.allocated, p.total>>
  IN part(a)[1] * part(b)[2] < part(b)[1] * part(a)[2]

Better(p, q) ==
  CASE strategy = "FIRST_FIT" -> FALSE
    [] strategy = "BEST_FIT"  -> p.available < q.available
    [] strategy = "WORST_FIT" -> p.available > q.available
    [] OTHER                  -> LessUsed(p, q)

\* The first of the best; PRIORITY_BASED and ADAPTIVE do as BALANCED does
SelectPool(amount) ==
  LET fits == {k \in DOMAIN poolOrder : pool[poolOrder[k]].available >= amount}
      best == {k \in fits : \A j \in fits : ~Better(pool[poolOrder[j]], pool[poolOrder[k]])}
  IN IF fits = {} THEN {} ELSE {poolOrder[Min(best)]}

\* allocateResource: a sweep that is due comes first
ChoosePool(q) ==
  /\ ManagerFree /\ ~sweepDue
  /\ \A n \in SelectPool(q.amount) : MayAllocate(n)
  /\ chosen' = {[name |-> n, request |-> q] : n \in SelectPool(q.amount)}
  /\ UNCHANGED <<pool, poolOrder, strategy, sweepDue>>

AllocateChosen ==
  \E c \in chosen :
    /\ Change(c.name, Allocated(pool[c.name], c.request))
    /\ chosen' = {}

CleanupExpired ==
  /\ ManagerFree
  /\ pool' = [n \in DOMAIN pool |-> Swept(pool[n])]
  /\ sweepDue' = FALSE
  /\ UNCHANGED <<poolOrder, strategy, chosen>>
-----------------------------------------------------------------------------
\* Time passes: an allocation's or the cleanup interval's
Expire(n, a) ==
  /\ a \in pool[n].held /\ a.expires = "later"
  /\ pool' = [pool EXCEPT ![n].held = (@ \ {a}) \cup {[a EXCEPT !.expires = "now"]}]
  /\ UNCHANGED <<poolOrder, strategy, chosen, sweepDue>>

IntervalEnds ==
  /\ ~sweepDue
  /\ sweepDue' = TRUE
  /\ UNCHANGED <<pool, poolOrder, strategy, chosen>>

ResourceInit ==
  /\ pool = NoKeys /\ poolOrder = <<>> /\ strategy \in Strategies
  /\ chosen = {} /\ sweepDue = FALSE

PoolStep ==
  \E n \in DOMAIN pool :
    \/ \E q \in Requests : Allocate(n, q)
    \/ \E a \in pool[n].held : Deallocate(n, a) \/ Expire(n, a)
    \/ \E r \in Requesters : DeallocateForRequester(n, r)
    \/ \E c \in Capacities : SetCapacity(n, c)
    \/ SweepPool(n)
    \/ ReleaseAll(n)
    \/ RemovePool(n)

ManagerStep ==
  \/ \E n \in Pools, c \in Capacities : CreatePool(n, c)
  \/ \E s \in Strategies : SetStrategy(s)
  \/ \E q \in Requests : ChoosePool(q)
  \/ AllocateChosen
  \/ CleanupExpired
  \/ IntervalEnds

ResourceNext == PoolStep \/ ManagerStep
ResourceSpec == ResourceInit /\ [][ResourceNext]_resourceVars
-----------------------------------------------------------------------------
\* What a pool says it has allocated is what its allocations add up to, and
\* with what it says is available this is its capacity: nothing is lost or
\* given twice, whoever releases, expires, sweeps or resizes in between.  Only
\* a capacity set below what is allocated breaks it, until the pool is emptied,
\* and then there is too much, never too little (available + delta, clamped at 0).
PoolsBalance ==
  \A n \in DOMAIN pool :
    LET p == pool[n]
    IN /\ p.allocated = AmountOf(p.held)
       /\ p.available >= 0
       /\ p.available + p.allocated >= p.total
       /\ ~p.cut => p.available + p.allocated = p.total
=============================================================================
