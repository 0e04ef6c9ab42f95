------------------------------- MODULE LruCache -------------------------------
(***************************************************************************)
(* The LRU cache of core/hotspot/cache: a list of keys, the most recently  *)
(* used first, and a map from keys to pointers.  LruCacheMap takes its     *)
(* lock around every operation, so each is one atomic step, and operators  *)
(* on the value of a cache are all there is to it.                         *)
(***************************************************************************)
EXTENDS Sequences, SequencesExt, Integers

CONSTANTS Keys, Pointers, NoPointer   \* NoPointer is not among Pointers

Caches == [items: [Keys -> Pointers \cup {NoPointer}], evictList: Seq(Keys)]

NewLRU == [items |-> [k \in Keys |-> NoPointer], evictList |-> <<>>]

Holds(cache, key) == cache.items[key] # NoPointer

\* container/list: MoveToFront of the element of a key, PushFront of a new one.
ToFront(list, key) ==
  IF key \in ToSet(list)
  THEN <<key>> \o RemoveAt(list, CHOOSE i \in DOMAIN list : list[i] = key)
  ELSE <<key>> \o list

Touch(cache, key) == [cache EXCEPT !.evictList = ToFront(@, key)]

\* A plausible slip: the key stays in the map.
RemoveFromList(cache) == [cache EXCEPT !.evictList = Front(@)]

RemoveOldest(cache) ==
  [ items     |-> [cache.items EXCEPT ![Last(cache.evictList)] = NoPointer],
    evictList |-> Front(cache.evictList) ]

Push(cache, key, pointer) == Touch([cache EXCEPT !.items[key] = pointer], key)

\* A plausible slip: Add, which puts the new pointer in place of the old one.
AddAlways(cache, size, key, pointer) ==
  LET pushed == Push(cache, key, pointer)
  IN  IF Len(pushed.evictList) > size THEN RemoveOldest(pushed) ELSE pushed

\* The cache after AddIfAbsent; what it returns is cache.items[key] before.
AddIfAbsent(cache, size, key, pointer) ==
  IF Holds(cache, key) THEN Touch(cache, key)
  ELSE LET pushed == Push(cache, key, pointer)
       IN  IF Len(pushed.evictList) > size THEN RemoveOldest(pushed) ELSE pushed

\* The cache after Get; what it returns is cache.items[key] before.
Get(cache, key) == IF Holds(cache, key) THEN Touch(cache, key) ELSE cache

\* The list holds the keys of the map, each of them once.
WellFormed(cache) ==
  /\ IsInjective(cache.evictList)
  /\ ToSet(cache.evictList) = {k \in Keys : Holds(cache, k)}

=============================================================================
