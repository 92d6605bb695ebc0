---------------------------- MODULE MCAssetCache ----------------------------
(* Small instances of AssetCache. *)
EXTENDS AssetCache, TLC

CONSTANTS u1, u2, u3, l1, l2, k1, k2, k3, p1, p2

Symmetry ==
  UNION {Permutations(Uploads), Permutations(Lints), Permutations(Keys), Permutations(Prints)}
=============================================================================
