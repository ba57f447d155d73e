------------------------------ MODULE HotCache ------------------------------
(***************************************************************************)
(* The two maps of the hot response cache (tldr-cli, daemon/hot_cache.rs). *)
(*                                                                         *)
(* Every operator is one access of one DashMap, which is what is atomic in *)
(* the code; what lies between two accesses is left to the module that     *)
(* puts them in an order.  A cache is a record of the rendered responses,  *)
(* by key, and of the keys that depend on each input.                      *)
(***************************************************************************)
EXTENDS Naturals, FiniteSets, Functions

EmptyCache(inputs) ==
  [entries |-> [k \in {} |-> {}], dependents |-> [i \in inputs |-> {}]]

Cached(c) == DOMAIN c.entries

\* self.dependents.entry(input).or_default().insert(key)
LinkKey(c, k, input) == [c EXCEPT !.dependents[input] = @ \cup {k}]

\* self.dependents.get_mut(input) and keys.remove(key)
UnlinkKey(c, k, input) == [c EXCEPT !.dependents[input] = @ \ {k}]

\* self.entries.insert
PutEntry(c, k, value) ==
  [c EXCEPT !.entries =
     [x \in DOMAIN @ \cup {k} |-> IF x = k THEN value ELSE @[x]]]

\* self.entries.remove
RemoveEntry(c, k) ==
  [c EXCEPT !.entries = Restrict(@, DOMAIN @ \ {k})]

\* self.dependents.remove
TakeDependents(c, input) == [c EXCEPT !.dependents[input] = {}]
=============================================================================
