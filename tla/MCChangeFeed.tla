----------------------------- MODULE MCChangeFeed -----------------------------
(* One cache with two writers and its consumer.  Keys, contents and writers *)
(* are interchangeable.                                                     *)
EXTENDS ChangeFeed, TLC

Symmetry == Permutations(Keys) \cup Permutations(Values)
                \cup Permutations(RuntimeWriters)
================================================================================
