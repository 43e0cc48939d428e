------------------------- MODULE CoordinatorClients -------------------------
(***************************************************************************)
(* PairCoordinator under callers that obey nothing: any thread registers,  *)
(* reports a loss or submits at any time, with a current or a stale        *)
(* token, with timeStamps in any order, and with a receive time that it    *)
(* read up to MaxLockWait before it got the lock.  What holds here holds   *)
(* whatever the socket threads do.                                         *)
(***************************************************************************)
EXTENDS PairCoordinator

CONSTANTS
  TimeStamps,      (* the timeStamp fields of snapshots, None when missing *)
  MaxLockWait,     (* bound on the age of a receive time                   *)
  MaxToken,        (* bounds of a run: registrations,                      *)
  MaxOrdinal,      (*                  SSS frames of one session,          *)
  MaxViolations,   (*                  violations counted at once, and     *)
  MaxTime          (*                  clock                               *)

ASSUME TimeStampsAssumption == TimeStamps \subseteq Int \cup {None}
ASSUME BoundsAssumption ==
  MaxLockWait \in Nat /\ MaxToken \in Nat /\ MaxOrdinal \in Nat
  /\ MaxViolations \in Nat /\ MaxTime \in Nat

(* The socket threads never submit without a token (_handle_data and       *)
(* _handle_client test it first); connection_lost accepts None.            *)
Tokens == 1 .. MaxToken
ReceiveTimes == {rt \in (now - MaxLockWait) .. now : rt >= 0}

Register(s) == nextToken <= MaxToken /\ RegisterConnection(s)

Lose(s, token) == ConnectionLost(s, token)

SendFrame(token, frame, rt) ==
  /\ session.nextSssOrdinal <= MaxOrdinal
  /\ SubmitSssFrame(token, frame, rt)

SendSnapshot(token, timeStamp, snapshot, rt) ==
  /\ session.consecutive < MaxViolations
  /\ SubmitSstSnapshot(token, timeStamp, snapshot, rt)

PassTime == now < MaxTime /\ Tick

Next ==
  \/ \E s \in Streams : Register(s)
  \/ \E s \in Streams, token \in Tokens \cup {NoToken} : Lose(s, token)
  \/ \E token \in Tokens, frame \in Items, rt \in ReceiveTimes :
       SendFrame(token, frame, rt)
  \/ \E token \in Tokens, timeStamp \in TimeStamps, snapshot \in Items, rt \in ReceiveTimes :
       SendSnapshot(token, timeStamp, snapshot, rt)
  \/ PassTime

Spec == CoordInit /\ [][Next]_coordVars

=============================================================================
