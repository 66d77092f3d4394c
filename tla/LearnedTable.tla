---------------------------- MODULE LearnedTable ----------------------------
(***************************************************************************)
(* The std::unordered_map operations the switch uses on its two tables:    *)
(* an empty map and table[key] = entry, which inserts or overwrites.       *)
(***************************************************************************)
NoEntries == [key \in {} |-> 0]

Put(table, key, entry) ==
  [k \in DOMAIN table \cup {key} |-> IF k = key THEN entry ELSE table[k]]

=============================================================================
