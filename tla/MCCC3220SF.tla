------------------------------ MODULE MCCC3220SF ------------------------------
(* Instances of CC3220SF for TLC *)
EXTENDS CC3220SF, TLC
===============================================================================
