----------------------------- MODULE MCBitmap -----------------------------
(***************************************************************************)
(* AdfBitmap on a volume of four blocks with a bit, in two pages, the last *)
(* page partly used, with the root in the middle.                          *)
(***************************************************************************)
EXTENDS AdfBitmap
============================================================================
