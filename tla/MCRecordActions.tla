--------------------------- MODULE MCRecordActions ---------------------------
(***************************************************************************)
(* RecordActions for TLC: the offers of the catalogue.                     *)
(***************************************************************************)
EXTENDS RecordActions, RequestCatalog
=============================================================================
