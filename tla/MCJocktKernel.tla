--------------------------- MODULE MCJocktKernel ---------------------------
(***************************************************************************)
(* jockt with two libraries that may be absent or have one text, three     *)
(* programs of which two have tests, indices up to one past the last, and  *)
(* two runs, so that a run may find what an earlier one left.              *)
(***************************************************************************)
EXTENDS JocktKernel

CONSTANTS a, b, t

MCName == {a, b}
MCText == {t}
=============================================================================
