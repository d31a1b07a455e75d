--------------------------- MODULE MCComposition ---------------------------
(* Instances of Composition for TLC. *)
EXTENDS Composition, TLC

(* Identities are interchangeable. *)
Symmetry ==
  Permutations(Shot) \cup Permutations(Content) \cup Permutations(Text)
    \cup Permutations(RevId) \cup Permutations(ParentId) \cup Permutations(Key)
=============================================================================
