------------------------- MODULE MCCatalogGenerations -------------------------
(* CatalogGenerations on small instances.                                  *)
EXTENDS CatalogGenerations, TLC

Symmetry == Permutations(Gen) \cup Permutations(Doc) \cup Permutations(Refresher)
===============================================================================
