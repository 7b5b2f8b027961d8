---------------------------- MODULE MCSlWifiConn ----------------------------
(* Instances of SlWifiConn for TLC *)
EXTENDS SlWifiConn, TLC
=============================================================================
