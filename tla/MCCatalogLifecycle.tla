--------------------------- MODULE MCCatalogLifecycle ---------------------------
(* CatalogLifecycle on two catalogs with one body and one file each. *)
EXTENDS CatalogLifecycle, TLC

CONSTANTS k1, k2, b1, b2, f1, f2

MCBodyKey == b1 :> k1 @@ b2 :> k2
MCFileName == k1 :> f1 @@ k2 :> f2
=============================================================================
