--------------------------- MODULE MCCatalogAtomic ---------------------------
(***************************************************************************)
(* An instance of the catalog in which no two calls update or delete the   *)
(* same movie, as OneWriterPerMovie asks for.                              *)
(***************************************************************************)
EXTENDS MCCatalog, CatalogAtomic
=============================================================================
