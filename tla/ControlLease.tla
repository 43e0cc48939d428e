---------------------------- MODULE ControlLease ----------------------------
(***************************************************************************)
(* What the agent promises about control of the robot: one client has it   *)
(* at a time; it comes back when its holder gives it, or when its holder   *)
(* has been gone for the grace period; only then may another take it.      *)
(***************************************************************************)
EXTENDS Naturals

CONSTANTS Clients, None, Grace

VARIABLES
  holder,   (* who has control                                              *)
  present,  (* the clients that are connected                               *)
  left      (* what is left of the grace of a holder that is gone           *)

leaseVars == <<holder, present, left>>

Come(c) == c \notin present /\ present' = present \cup {c} /\ UNCHANGED <<holder, left>>

Take(c) == c \in present /\ holder = None /\ holder' = c /\ UNCHANGED <<present, left>>

Give(c) == c \in present /\ holder = c /\ holder' = None /\ UNCHANGED <<present, left>>

Leave(c) ==
  /\ c \in present /\ present' = present \ {c}
  /\ left' = IF holder = c THEN Grace ELSE left
  /\ UNCHANGED holder

Wait == left > 0 /\ left' = left - 1 /\ UNCHANGED <<holder, present>>

Lapse ==
  /\ holder # None /\ holder \notin present /\ left = 0
  /\ holder' = None
  /\ UNCHANGED <<present, left>>

LeaseInit == holder = None /\ present = {} /\ left = 0

LeaseNext ==
  \/ \E c \in Clients : Come(c) \/ Take(c) \/ Give(c) \/ Leave(c)
  \/ Wait \/ Lapse

(* A client that is gone for good does not keep control.                   *)
LeaseSpec ==
  /\ LeaseInit /\ [][LeaseNext]_leaseVars
  /\ WF_leaseVars(Wait) /\ WF_leaseVars(Lapse)
=============================================================================
