--------------------------- MODULE MCListScreens ---------------------------
(***************************************************************************)
(* ListScreens for TLC: the screens of the catalogue.                      *)
(***************************************************************************)
EXTENDS ListScreens, ListCatalog
=============================================================================
