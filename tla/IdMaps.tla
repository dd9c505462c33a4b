------------------------------- MODULE IdMaps -------------------------------
(***************************************************************************)
(* IdMap<T>: a hash map from ids, as a function whose domain is the set of *)
(* the keys present; and the entry updates the scheduler makes to its maps *)
(* of instances and of statistics.                                         *)
(***************************************************************************)
EXTENDS Naturals, Sequences

EmptyMap == [k \in {} |-> k]

IsIdMap(m, K, V) ==
  /\ m = [k \in DOMAIN m |-> m[k]]
  /\ DOMAIN m \subseteq K
  /\ \A k \in DOMAIN m : m[k] \in V

Put(m, k, v) == [x \in DOMAIN m \cup {k} |-> IF x = k THEN v ELSE m[x]]

\* entry(k).and_modify(append).or_insert(..): the shape of insert_instance
\* and of insert_stats.
AppendAt(m, k, items) == Put(m, k, IF k \in DOMAIN m THEN m[k] \o items ELSE items)

\* Ids that are not in the map are dropped.
CloneByIds(m, ids) == [k \in DOMAIN m \cap ids |-> m[k]]

Elements(seq) == {seq[i] : i \in DOMAIN seq}
=============================================================================
