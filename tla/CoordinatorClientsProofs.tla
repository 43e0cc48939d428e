---------------------- MODULE CoordinatorClientsProofs ----------------------
(***************************************************************************)
(* Theorems about CoordinatorClients, for every value of the constants.    *)
(***************************************************************************)
EXTENDS CoordinatorClients, PairCoordinatorProofs

(* Every step of the callers keeps the inductive invariant of the          *)
(* coordinator and moves the last pair forward only.                       *)
LEMMA NextInv ==
  ASSUME CoordInv, [Next]_coordVars
  PROVE  CoordInv' /\ (LaterPair \/ UNCHANGED coordVars)
<1>1. ASSUME NEW s \in Streams, Register(s)
      PROVE  CoordInv' /\ LaterPair
  BY <1>1, RegisterConnectionInv DEF Register
<1>2. ASSUME NEW s \in Streams, NEW token \in Tokens \cup {NoToken}, Lose(s, token)
      PROVE  CoordInv' /\ LaterPair
  BY <1>2, ConnectionLostInv DEF Lose
<1>3. /\ Tokens \subseteq Nat \ {NoToken}
      /\ ReceiveTimes \subseteq Nat
  BY BoundsAssumption DEF Tokens, ReceiveTimes, NoToken, CoordInv, CoordTypeOK
<1>4. ASSUME NEW token \in Tokens, NEW frame \in Items, NEW rt \in ReceiveTimes,
             SendFrame(token, frame, rt)
      PROVE  CoordInv' /\ LaterPair
  BY <1>3, <1>4, SubmitSssFrameInv DEF SendFrame
<1>5. ASSUME NEW token \in Tokens, NEW timeStamp \in TimeStamps, NEW snapshot \in Items,
             NEW rt \in ReceiveTimes, SendSnapshot(token, timeStamp, snapshot, rt)
      PROVE  CoordInv' /\ LaterPair
  BY <1>3, <1>5, TimeStampsAssumption, SubmitSstSnapshotInv DEF SendSnapshot
<1>6. CASE PassTime
  BY <1>6, TickInv DEF PassTime
<1>7. CASE UNCHANGED coordVars
  BY <1>7 DEF coordVars, CoordInv, CoordTypeOK, SessionInv, Disjoint, PairInv, Full,
              SstOrdinal
<1> QED
  BY <1>1, <1>2, <1>4, <1>5, <1>6, <1>7 DEF Next

(* The inductive invariant holds in every reachable state: every operation *)
(* of the coordinator, called with any token and timeStamp, preserves it.  *)
THEOREM InvariantHolds == Spec => []CoordInv
<1>1. CoordInit => CoordInv
  BY InitInv
<1>2. CoordInv /\ [Next]_coordVars => CoordInv'
  BY NextInv
<1> QED
  BY <1>1, <1>2, PTL DEF Spec

(* The coordinator's state is well typed in every reachable state, for any *)
(* callers.                                                                *)
THEOREM TypesHold == Spec => []CoordTypeOK
<1>1. CoordInv => CoordTypeOK
  BY DEF CoordInv
<1> QED
  BY <1>1, InvariantHolds, PTL

(* No ordinal is left pending on both sides.                               *)
THEOREM NoMatchedPairLeftHolds == Spec => []NoMatchedPairLeft
<1>1. CoordInv => NoMatchedPairLeft
  BY DEF CoordInv, Disjoint, NoMatchedPairLeft
<1> QED
  BY <1>1, InvariantHolds, PTL

(* A stream that has no token in the session has nothing pending.          *)
THEOREM NothingPendingHolds == Spec => []NothingPendingWithoutToken
<1>1. CoordInv => NothingPendingWithoutToken
  BY DEF CoordInv, SessionInv, NothingPendingWithoutToken
<1> QED
  BY <1>1, InvariantHolds, PTL

(* Pairs complete in strictly increasing (session, ordinal) order.         *)
THEOREM PairsAdvanceHolds == Spec => PairsAdvance
<1>1. CoordInv /\ [Next]_coordVars =>
        [lastPaired' # lastPaired => EarlierPair(lastPaired, lastPaired')]_coordVars
  BY NextInv DEF LaterPair, EarlierPair, coordVars
<1> QED
  BY <1>1, InvariantHolds, PTL DEF Spec, PairsAdvance

(* Published stamps never run ahead of the clock and never go back.        *)
THEOREM StampsMonotoneHolds == Spec => StampsMonotone
<1>1. CoordInv /\ [Next]_coordVars =>
        [/\ lastPaired'.stamp >= lastPaired.stamp
         /\ lastPaired'.stamp <= now']_coordVars
  <2>1. CoordInv /\ CoordInv' => /\ lastPaired.stamp \in Int
                                 /\ lastPaired'.stamp \in Int
    BY DEF CoordInv, CoordTypeOK
  <2> QED
    BY <2>1, NextInv DEF LaterPair
<1> QED
  BY <1>1, InvariantHolds, PTL DEF Spec, StampsMonotone

-----------------------------------------------------------------------------
(* The violation counter needs callers whose snapshots carry a timeStamp:  *)
(* one without raises after its violation was counted and before the       *)
(* second-tier check (lib_odas_server_node.py:360).                        *)
AllStamped == None \notin TimeStamps

(* Every call of any client preserves the bounds of the two pending maps   *)
(* and, with stamped snapshots, of the violation counter.                  *)
LEMMA NextBounds ==
  ASSUME CoordInv, BoundsInv(AllStamped, session), [Next]_coordVars
  PROVE  BoundsInv(AllStamped, session')
<1>1. ASSUME NEW s \in Streams, Register(s)
      PROVE  BoundsInv(AllStamped, session')
  BY <1>1, RegisterConnectionBounds DEF Register
<1>2. ASSUME NEW s \in Streams, NEW token \in Tokens \cup {NoToken}, Lose(s, token)
      PROVE  BoundsInv(AllStamped, session')
  BY <1>2, ClearedBounds DEF Lose, ConnectionLost, Invalidate, Ignore
<1>3. /\ Tokens \subseteq Nat \ {NoToken}
      /\ ReceiveTimes \subseteq Nat
      /\ TimeStamps \subseteq Int \cup {None}
  BY BoundsAssumption, TimeStampsAssumption
     DEF Tokens, ReceiveTimes, NoToken, CoordInv, CoordTypeOK
<1>4. ASSUME NEW token \in Tokens, NEW frame \in Items, NEW rt \in ReceiveTimes,
             SendFrame(token, frame, rt)
      PROVE  BoundsInv(AllStamped, session')
  BY <1>3, <1>4, SubmitSssFrameBounds DEF SendFrame
<1>5. ASSUME NEW token \in Tokens, NEW timeStamp \in TimeStamps, NEW snapshot \in Items,
             NEW rt \in ReceiveTimes, SendSnapshot(token, timeStamp, snapshot, rt)
      PROVE  BoundsInv(AllStamped, session')
  BY <1>3, <1>5, SubmitSstSnapshotBounds DEF SendSnapshot, AllStamped
<1>6. CASE PassTime \/ UNCHANGED coordVars
  BY <1>6 DEF PassTime, Tick, coordVars
<1> QED
  BY <1>1, <1>2, <1>4, <1>5, <1>6 DEF Next

(* The bounds hold in every reachable state.                               *)
LEMMA BoundsHold == Spec => []BoundsInv(AllStamped, session)
<1>1. CoordInit => BoundsInv(AllStamped, session)
  BY ClearedBounds DEF CoordInit
<1>2. CoordInv /\ BoundsInv(AllStamped, session) /\ [Next]_coordVars => BoundsInv(AllStamped, session)'
  BY NextBounds DEF BoundsInv
<1> QED
  BY <1>1, <1>2, InvariantHolds, PTL DEF Spec

(* Neither stream ever leaves more than MaxPendingPairs entries unmatched. *)
THEOREM PendingBoundedHolds == Spec => []PendingBounded
<1>1. BoundsInv(AllStamped, session) => PendingBounded
  BY DEF BoundsInv, PendingBounded
<1> QED
  BY <1>1, BoundsHold, PTL

(* If every snapshot carries a timeStamp, the violations of a session stay *)
(* below the limit between two calls.                                      *)
THEOREM ViolationsBelowLimitHolds ==
  ASSUME None \notin TimeStamps
  PROVE  Spec => []ViolationsBelowLimit
<1>1. BoundsInv(AllStamped, session) => ViolationsBelowLimit
  BY DEF BoundsInv, ViolationsBelowLimit, AllStamped
<1> QED
  BY <1>1, BoundsHold, PTL
=============================================================================
