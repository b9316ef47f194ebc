------------------------------ MODULE MCBoxes ------------------------------
(* Two boxes and two addresses: a number freed by one is the next one's.    *)
(* Calls, failures, crashes and restarts are not bounded; MaxOdd bounds the *)
(* boxes that are in an odd state at once.                                  *)
EXTENDS Boxes
=============================================================================
