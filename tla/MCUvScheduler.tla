--------------------------- MODULE MCUvScheduler ---------------------------
(* The model values of UvScheduler are interchangeable within each set. *)
EXTENDS UvScheduler, TLC

Symmetry == Permutations(Posters) \cup Permutations(Ctxs)
              \cup Permutations(Jobs) \cup Permutations(Works)
=============================================================================
