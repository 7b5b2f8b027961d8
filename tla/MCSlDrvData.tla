---------------------------- MODULE MCSlDrvData ----------------------------
(* Instances of SlDrvData for TLC *)
EXTENDS SlDrvData, TLC

CONSTANTS t1, t2

Recv    == [op |-> "recv", sock |-> "s1"]
Send    == [op |-> "send", sock |-> "s2"]
Accept  == [op |-> "accept", sock |-> "s2"]
Connect == [op |-> "connect", sock |-> "s2"]
Dns     == [op |-> "dns", sock |-> NoSock]
Select  == [op |-> "select", sock |-> NoSock]

(* Readers of one socket, an accept and a connect on another, a sender,
   lookups and selects *)
DataCalls == t1 :> {Recv, Dns, Select, Accept} @@ t2 :> {Recv, Send, Dns, Select, Connect}

(* One thread reads a socket that another one closes *)
SharedSocket == t1 :> {Recv} @@ t2 :> {[op |-> "close", sock |-> "s1"]}

SendCalls == [t \in Thread |-> {Send}]
=============================================================================
