----------------------------- MODULE MCDetailPage -----------------------------
(* The page of one xapp while its installations load: nothing is clicked.     *)
EXTENDS DetailPage, TLC
=============================================================================
