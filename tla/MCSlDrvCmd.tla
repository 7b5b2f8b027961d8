----------------------------- MODULE MCSlDrvCmd -----------------------------
(* Instances of SlDrvCmd for TLC *)
EXTENDS SlDrvCmd, TLC

(* Threads that send messages are told apart; the others are alike *)
Symmetry == Permutations(Thread \ Sender)
=============================================================================
