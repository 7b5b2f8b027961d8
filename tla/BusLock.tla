------------------------------- MODULE BusLock -------------------------------
(***************************************************************************)
(* What the driver promises about the SPI bus to the NWP, guarded by       *)
(* GlobalLockObj: one user at a time, given back by its owner, and nothing *)
(* new on it once the driver has asked for a restart.  The one failure it  *)
(* admits is an owner that abandons the lock, and then a restart is        *)
(* required.                                                               *)
(***************************************************************************)
CONSTANTS
  Proc,   \* threads and the spawn task
  Raw,    \* those that send messages without a response
  None    \* the lock is free

VARIABLES
  owner,    \* who holds the lock, or None
  using,    \* who has a message on the bus
  lost,     \* the owner will never give the lock back
  stopped   \* a restart of the NWP is required

vars == <<owner, using, lost, stopped>>

Init == owner = None /\ using = {} /\ lost = FALSE /\ stopped = FALSE

Acquire(p) ==
  /\ owner = None
  /\ owner' = p
  /\ UNCHANGED <<using, lost, stopped>>

(* A message without a response does not ask whether a restart is required *)
Begin(p) ==
  /\ owner = p /\ ~lost
  /\ stopped => p \in Raw
  /\ using' = {p}
  /\ UNCHANGED <<owner, lost, stopped>>

(* The failure that ends the use may be what requires the restart *)
Release(p) ==
  /\ owner = p /\ ~lost
  /\ owner' = None /\ using' = {}
  /\ stopped' \in {stopped, TRUE}
  /\ UNCHANGED lost

Abandon(p) ==
  /\ owner = p /\ using = {p}
  /\ using' = {} /\ lost' = TRUE /\ stopped' = TRUE
  /\ UNCHANGED owner

Stop ==
  /\ stopped' = TRUE
  /\ UNCHANGED <<owner, using, lost>>

Next ==
  \/ \E p \in Proc : Acquire(p) \/ Begin(p) \/ Release(p) \/ Abandon(p)
  \/ Stop

Spec == Init /\ [][Next]_vars
=============================================================================
