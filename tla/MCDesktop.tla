----------------------------- MODULE MCDesktop -----------------------------
(* A small instance of Desktop for TLC: constants come from the .cfg. *)
EXTENDS Desktop
=============================================================================
