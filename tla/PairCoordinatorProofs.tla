----------------------- MODULE PairCoordinatorProofs -----------------------
(***************************************************************************)
(* Lemmas about the operations of PairCoordinator, for every value of its  *)
(* constants: each keeps the types and the inductive invariant CoordInv.   *)
(***************************************************************************)
EXTENDS PairCoordinator, FiniteSetTheorems, WellFoundedInduction, TLAPS

-----------------------------------------------------------------------------
(* The inductive invariant.                                                *)

Full(ss) == \A s \in Streams : ss.token[s] # NoToken

(* The highest ordinal that the SST stream of session ss has reached.      *)
SstOrdinal(ss) == ss.lastSst - ss.baseline + 1

(* What is pending is pending for a token and has been counted.            *)
SessionInv(ss) ==
  /\ \A s \in Streams : ss.token[s] = NoToken => DOMAIN ss.pending[s] = {}
  /\ ss.baseline # None => ss.baseline <= ss.lastSst
  /\ \A k \in DOMAIN ss.pending["sss"] : k < ss.nextSssOrdinal
  /\ \A k \in DOMAIN ss.pending["sst"] : ss.baseline # None /\ k <= SstOrdinal(ss)
  /\ ss.epoch # None => Full(ss)

Disjoint(ss) == DOMAIN ss.pending["sss"] \cap DOMAIN ss.pending["sst"] = {}

(* Both streams of the running session have passed its last pair.          *)
PairInv(ss) ==
  /\ lastPaired.gen <= generation
  /\ Full(ss) /\ lastPaired.gen = generation =>
       /\ lastPaired.ordinal < ss.nextSssOrdinal
       /\ ss.baseline # None
       /\ lastPaired.ordinal <= SstOrdinal(ss)
  /\ ss.epoch # None =>
       /\ lastPaired.gen = generation
       /\ lastPaired.stamp <= ss.epoch + (lastPaired.ordinal - 1) * HopDuration

CoordInv ==
  /\ CoordTypeOK
  /\ SessionInv(session)
  /\ Disjoint(session)
  /\ PairInv(session)
  /\ lastPaired.stamp <= now

(* What a step may do to the last pair: PairsAdvance and StampsMonotone.   *)
LaterPair ==
  /\ lastPaired' # lastPaired =>
       \/ lastPaired.gen < lastPaired'.gen
       \/ lastPaired.gen = lastPaired'.gen /\ lastPaired.ordinal < lastPaired'.ordinal
  /\ lastPaired.stamp <= lastPaired'.stamp
  /\ lastPaired'.stamp <= now'

-----------------------------------------------------------------------------
(* Pending maps.                                                           *)

(* A map without entries is well typed.                                    *)
LEMMA NothingPendingType == IsPending(NothingPending) /\ DOMAIN NothingPending = {}
  BY FS_EmptySet DEF IsPending, NothingPending

(* A pending map stays a finite map of ordinals when an entry is added.    *)
LEMMA PutType ==
  ASSUME NEW p, IsPending(p), NEW k \in Nat \ {0}, NEW entry \in [item : Items, rt : Nat]
  PROVE  /\ IsPending(Put(p, k, entry))
         /\ DOMAIN Put(p, k, entry) = DOMAIN p \cup {k}
<1>1. IsFiniteSet(DOMAIN p \cup {k})
  BY FS_AddElement DEF IsPending
<1> QED
  BY <1>1 DEF IsPending, Put

(* A pending map stays a finite map of ordinals when entries are removed.  *)
LEMMA WithoutType ==
  ASSUME NEW p, IsPending(p), NEW S
  PROVE  /\ IsPending(Without(p, S))
         /\ DOMAIN Without(p, S) = DOMAIN p \ S
<1>1. IsFiniteSet(DOMAIN p \ S)
  BY FS_Subset DEF IsPending
<1> QED
  BY <1>1 DEF IsPending, Without

(* A nonempty set of naturals has a least element.                         *)
LEMMA LeastElement ==
  ASSUME NEW T \in SUBSET Nat, T # {}
  PROVE  \E x \in T : \A y \in T : x <= y
<1>1. PICK x \in T : \A y \in T : <<y, x>> \notin OpToRel(<, Nat)
  BY WFMin, NatLessThanWellFounded
<1>2. \A y \in T : ~(y < x)
  BY <1>1 DEF OpToRel
<1> QED
  BY <1>2

(* What the bound leaves of a map has at most MaxPendingPairs entries.     *)
LEMMA SurplusBound ==
  ASSUME NEW p, IsPending(p)
  PROVE  Cardinality(DOMAIN p \ Surplus(p)) <= MaxPendingPairs
<1> DEFINE R == DOMAIN p \ Surplus(p)
           Above(k) == {j \in DOMAIN p : j > k}
<1> USE LimitAssumption
<1>1. IsFiniteSet(R) /\ R \subseteq Nat
  BY FS_Subset DEF IsPending
<1>2. CASE R = {}
  BY <1>2, FS_EmptySet
<1>3. CASE R # {}
  <2>1. PICK m \in R : \A y \in R : m <= y
    BY <1>1, <1>3, LeastElement
  <2>2. Cardinality(Above(m)) < MaxPendingPairs
    <3>1. IsFiniteSet(Above(m))
      BY FS_Subset DEF IsPending
    <3>2. Cardinality(Above(m)) \in Nat
      BY <3>1, FS_CardinalityType
    <3> QED
      BY <3>2 DEF Surplus
  <2>3. R \ {m} \subseteq Above(m) /\ IsFiniteSet(Above(m))
    BY <1>1, <2>1, FS_Subset DEF IsPending
  <2>4. /\ Cardinality(R \ {m}) <= Cardinality(Above(m))
        /\ Cardinality(R \ {m}) = Cardinality(R) - 1
        /\ Cardinality(R) \in Nat
        /\ Cardinality(Above(m)) \in Nat
    BY <1>1, <2>1, <2>3, FS_Subset, FS_RemoveElement, FS_CardinalityType
  <2> QED
    BY <2>2, <2>4
<1> QED
  BY <1>2, <1>3

(* The other operand of a map only loses entries.                          *)
LEMMA WithoutCardinality ==
  ASSUME NEW p, IsPending(p), NEW S
  PROVE  /\ Cardinality(DOMAIN Without(p, S)) \in Nat
         /\ Cardinality(DOMAIN Without(p, S)) <= Cardinality(DOMAIN p)
         /\ Cardinality(DOMAIN p) \in Nat
<1>1. DOMAIN Without(p, S) \in SUBSET DOMAIN p
  BY DEF Without
<1> QED
  BY <1>1, FS_Subset, FS_CardinalityType DEF IsPending

IsPendingPair(pending) ==
  /\ pending = [s \in Streams |-> pending[s]]
  /\ \A s \in Streams : IsPending(pending[s])

(* What the purge and the bound leave: submaps of both pending maps, the   *)
(* own one within its limit, and as many violations as entries it removed. *)
LEMMA DrainedType ==
  ASSUME NEW pending, IsPendingPair(pending), NEW s \in Streams, NEW rt \in Nat
  PROVE  LET left == Drained(pending, s, rt)
         IN  /\ IsPendingPair(left)
             /\ \A r \in Streams : /\ DOMAIN left[r] \subseteq DOMAIN pending[r]
                                   /\ \A k \in DOMAIN left[r] : left[r][k] = pending[r][k]
             /\ Cardinality(DOMAIN left[s]) <= MaxPendingPairs
             /\ \A r \in Streams :
                  Cardinality(DOMAIN left[r]) <= Cardinality(DOMAIN pending[r])
             /\ PendingCount(pending) - PendingCount(left) \in Nat
<1> DEFINE fresh == [r \in Streams |-> Without(pending[r], Expired(pending[r], rt))]
           left == Drained(pending, s, rt)
<1>1. left = [fresh EXCEPT ![s] = Without(fresh[s], Surplus(fresh[s]))]
  BY DEF Drained
<1>2. \A r \in Streams :
        /\ fresh[r] = Without(pending[r], Expired(pending[r], rt))
        /\ IsPending(fresh[r])
        /\ Cardinality(DOMAIN fresh[r]) \in Nat
        /\ Cardinality(DOMAIN pending[r]) \in Nat
        /\ Cardinality(DOMAIN fresh[r]) <= Cardinality(DOMAIN pending[r])
  BY WithoutType, WithoutCardinality DEF IsPendingPair
<1>3. left[s] = Without(fresh[s], Surplus(fresh[s]))
  BY <1>1
<1>11. \A r \in Streams \ {s} : left[r] = fresh[r]
  BY <1>1
<1>12. left = [r \in Streams |-> left[r]]
  BY <1>1
<1> HIDE DEF fresh, left
<1>4. /\ IsPending(left[s])
      /\ Cardinality(DOMAIN left[s]) \in Nat
      /\ Cardinality(DOMAIN left[s]) <= Cardinality(DOMAIN fresh[s])
      /\ Cardinality(DOMAIN left[s]) <= MaxPendingPairs
  <2>1. IsPending(fresh[s])
    BY <1>2
  <2>2. /\ IsPending(left[s])
        /\ DOMAIN left[s] = DOMAIN fresh[s] \ Surplus(fresh[s])
    BY <1>3, <2>1, WithoutType
  <2>3. /\ Cardinality(DOMAIN left[s]) \in Nat
        /\ Cardinality(DOMAIN left[s]) <= Cardinality(DOMAIN fresh[s])
    BY <1>3, <2>1, WithoutCardinality
  <2> QED
    BY <2>1, <2>2, <2>3, SurplusBound
<1>6. IsPendingPair(left)
  BY <1>2, <1>4, <1>11, <1>12 DEF IsPendingPair
<1>7. \A r \in Streams :
        /\ Cardinality(DOMAIN left[r]) \in Nat
        /\ Cardinality(DOMAIN pending[r]) \in Nat
        /\ Cardinality(DOMAIN left[r]) <= Cardinality(DOMAIN pending[r])
  <2> SUFFICES ASSUME NEW r \in Streams
               PROVE  /\ Cardinality(DOMAIN left[r]) \in Nat
                      /\ Cardinality(DOMAIN pending[r]) \in Nat
                      /\ Cardinality(DOMAIN left[r]) <= Cardinality(DOMAIN pending[r])
    OBVIOUS
  <2>1. CASE r = s
    BY <1>2, <1>4, <2>1
  <2>2. CASE r # s
    BY <1>2, <1>11, <2>2
  <2> QED
    BY <2>1, <2>2
<1>8. \A r \in Streams : /\ DOMAIN left[r] \subseteq DOMAIN pending[r]
                         /\ \A k \in DOMAIN left[r] : left[r][k] = pending[r][k]
  <2> SUFFICES ASSUME NEW r \in Streams
               PROVE  /\ DOMAIN left[r] \subseteq DOMAIN pending[r]
                      /\ \A k \in DOMAIN left[r] : left[r][k] = pending[r][k]
    OBVIOUS
  <2>1. /\ DOMAIN fresh[r] \subseteq DOMAIN pending[r]
        /\ \A k \in DOMAIN fresh[r] : fresh[r][k] = pending[r][k]
    BY <1>2 DEF Without
  <2>2. CASE r = s
    BY <1>3, <2>1, <2>2 DEF Without
  <2>3. CASE r # s
    BY <1>11, <2>1, <2>3
  <2> QED
    BY <2>2, <2>3
<1>9. PendingCount(pending) - PendingCount(left) \in Nat
  <2>1. "sss" \in Streams /\ "sst" \in Streams
    BY DEF Streams
  <2> QED
    BY <1>7, <2>1 DEF PendingCount
<1> QED
  BY <1>4, <1>6, <1>7, <1>8, <1>9 DEF left

-----------------------------------------------------------------------------
(* Sessions.                                                               *)

(* What a call returns is an event, whatever the other stream got.         *)
LEMMA ReturnType ==
  ASSUME events \in [Streams -> Events], NEW s \in Streams, NEW e \in Events, Return(s, e)
  PROVE  events' \in [Streams -> Events]
  BY DEF Return

(* The events without a pair are events.                                   *)
LEMMA PlainEvents ==
  NoEvent \in Events /\ SessionInvalidated \in Events /\ PairedModeDisabled \in Events
  BY DEF Events

(* The fields of a session that _clear_session_state_locked has reset.     *)
LEMMA ClearedFields ==
  /\ HasSessionFields(ClearedSession)
  /\ ClearedSession.token = NoTokens
  /\ ClearedSession.pending = BothEmpty
  /\ ClearedSession.nextSssOrdinal = 1
  /\ ClearedSession.baseline = None
  /\ ClearedSession.lastSst = None
  /\ ClearedSession.validated = FALSE
  /\ ClearedSession.epoch = None
  /\ ClearedSession.consecutive = 0
<1>1. PICK ss : ss = ClearedSession
  OBVIOUS
<1>2. ss = [token |-> NoTokens, pending |-> BothEmpty, nextSssOrdinal |-> 1,
            baseline |-> None, lastSst |-> None, validated |-> FALSE,
            epoch |-> None, consecutive |-> 0]
  BY <1>1, Zenon DEF ClearedSession
<1> HIDE <1>1
<1>3. /\ HasSessionFields(ss)
      /\ ss.token = NoTokens /\ ss.pending = BothEmpty /\ ss.nextSssOrdinal = 1
      /\ ss.baseline = None /\ ss.lastSst = None /\ ss.validated = FALSE
      /\ ss.epoch = None /\ ss.consecutive = 0
  BY <1>2 DEF HasSessionFields
<1> QED
  BY <1>1, <1>3, Zenon

(* Changing the tokens of a session changes nothing else.                  *)
LEMMA TokenFields ==
  ASSUME NEW ss, HasSessionFields(ss), NEW token, NEW new, new = [ss EXCEPT !.token = token]
  PROVE  /\ HasSessionFields(new)
         /\ new.token = token
         /\ new.pending = ss.pending
         /\ new.nextSssOrdinal = ss.nextSssOrdinal
         /\ new.baseline = ss.baseline
         /\ new.lastSst = ss.lastSst
         /\ new.validated = ss.validated
         /\ new.epoch = ss.epoch
         /\ new.consecutive = ss.consecutive
  BY DEF HasSessionFields

(* A reset session satisfies the session's part of the invariant,          *)
(* whichever tokens it is given.                                           *)
LEMMA ClearedInv ==
  ASSUME NEW ss, HasSessionFields(ss),
         ss.token \in [Streams -> Nat], ss.pending = BothEmpty, ss.nextSssOrdinal = 1,
         ss.baseline = None, ss.lastSst = None, ss.validated = FALSE,
         ss.epoch = None, ss.consecutive = 0
  PROVE  IsSession(ss) /\ SessionInv(ss) /\ Disjoint(ss)
<1>1. /\ ss.pending = [s \in Streams |-> ss.pending[s]]
      /\ \A s \in Streams : ss.pending[s] = NothingPending
  BY DEF BothEmpty
<1>2. "sss" \in Streams /\ "sst" \in Streams
  BY DEF Streams
<1>3. IsSession(ss)
  <2>1. ss.validated \in BOOLEAN
    BY Zenon
  <2>2. \A s \in Streams : IsPending(ss.pending[s])
    BY <1>1, NothingPendingType
  <2> QED
    BY <1>1, <2>1, <2>2 DEF IsSession
<1>4. SessionInv(ss) /\ Disjoint(ss)
  BY <1>1, <1>2, NothingPendingType DEF SessionInv, Disjoint
<1> QED
  BY <1>3, <1>4

(* A step that leaves the last pair alone.                                 *)
LEMMA KeepLastPair ==
  ASSUME CoordTypeOK,
         lastPaired.stamp <= now, now' = now,
         UNCHANGED <<lastPaired, generation, nextToken>>,
         pairedEnabled' \in BOOLEAN,
         events' \in [Streams -> Events],
         IsSession(session'), SessionInv(session'), Disjoint(session'),
         PairInv(session')
  PROVE  CoordInv' /\ LaterPair
<1>1. CoordTypeOK'
  BY DEF CoordTypeOK
<1>2. LaterPair
  BY DEF LaterPair, CoordTypeOK
<1>3. PairInv(session)'
  BY DEF PairInv, Full, SstOrdinal
<1> QED
  BY <1>1, <1>2, <1>3 DEF CoordInv, SessionInv, Disjoint, Full, SstOrdinal

(* Invalidating the session preserves the invariant                        *)
(* (_invalidate_session_locked).                                           *)
LEMMA InvalidateInv ==
  ASSUME CoordTypeOK, NEW s \in Streams, Invalidate(s),
         lastPaired.gen <= generation, lastPaired.stamp <= now, now' = now
  PROVE  CoordInv' /\ LaterPair
<1>1. /\ session' = ClearedSession
      /\ UNCHANGED <<lastPaired, generation, nextToken, pairedEnabled>>
      /\ events' \in [Streams -> Events]
  BY ReturnType, PlainEvents DEF Invalidate, CoordTypeOK
<1>2. /\ IsSession(session') /\ SessionInv(session') /\ Disjoint(session')
      /\ session'.token = NoTokens
      /\ session'.epoch = None
  <2>1. NoTokens \in [Streams -> Nat]
    BY DEF NoTokens, NoToken
  <2> QED
    BY <1>1, <2>1, ClearedFields, ClearedInv
<1>3. PairInv(session')
  BY <1>2 DEF PairInv, Full, NoTokens, Streams
<1>4. pairedEnabled' \in BOOLEAN
  BY <1>1 DEF CoordTypeOK
<1> QED
  BY <1>1, <1>2, <1>3, <1>4, KeepLastPair

-----------------------------------------------------------------------------
(* Pairs.                                                                  *)

(* The sample clock is monotone in the ordinal.                            *)
LEMMA TimesHop ==
  ASSUME NEW i \in Int, NEW j \in Int, i <= j
  PROVE  /\ i * HopDuration \in Int
         /\ j * HopDuration \in Int
         /\ i * HopDuration <= j * HopDuration
<1>1. HopDuration \in Nat
  BY HopDurationAssumption
<1>2. j * HopDuration = i * HopDuration + (j - i) * HopDuration
  BY <1>1
<1>3. (j - i) * HopDuration >= 0
  BY <1>1
<1>4. i * HopDuration \in Int /\ j * HopDuration \in Int /\ (j - i) * HopDuration \in Int
  BY <1>1
<1> QED
  BY <1>2, <1>3, <1>4

(* The stamp of a pair: of the present or earlier, and not before the last *)
(* one, whether the session anchors its epoch or has one.                  *)
LEMMA StampBounds ==
  ASSUME CoordTypeOK, NEW ss, IsSession(ss), PairInv(ss), SessionInv(ss),
         lastPaired.stamp <= now, NEW k \in Nat \ {0},
         Full(ss) /\ lastPaired.gen = generation => lastPaired.ordinal < k
  PROVE  LET epoch == EpochAt(ss, k)
             stamp == StampAt(epoch, k)
         IN  /\ epoch \in Int
             /\ epoch # None
             /\ stamp \in Int
             /\ stamp <= now
             /\ stamp <= epoch + (k - 1) * HopDuration
             /\ lastPaired.stamp <= stamp
<1> DEFINE epoch == EpochAt(ss, k)
           stamp == StampAt(epoch, k)
<1>1. /\ now \in Int /\ lastPaired.stamp \in Int /\ lastPaired.ordinal \in Nat
      /\ ss.epoch \in Int \cup {None}
      /\ (k - 1) * HopDuration \in Int
  BY TimesHop DEF CoordTypeOK, IsSession
<1>2. epoch \in Int
  BY <1>1 DEF EpochAt
<1>3. lastPaired.stamp <= epoch + (k - 1) * HopDuration
  <2>1. CASE ss.epoch = None
    <3>1. epoch = now - (k - 1) * HopDuration
      BY <2>1 DEF EpochAt
    <3> QED
      BY <1>1, <3>1
  <2>2. CASE ss.epoch # None
    <3>1. /\ lastPaired.ordinal < k
          /\ lastPaired.stamp <= ss.epoch + (lastPaired.ordinal - 1) * HopDuration
          /\ epoch = ss.epoch
      BY <2>2 DEF PairInv, SessionInv, EpochAt
    <3>2. /\ (lastPaired.ordinal - 1) * HopDuration <= (k - 1) * HopDuration
          /\ (lastPaired.ordinal - 1) * HopDuration \in Int
      <4>1. lastPaired.ordinal - 1 \in Int /\ k - 1 \in Int /\ lastPaired.ordinal - 1 <= k - 1
        BY <1>1, <3>1
      <4> QED
        BY <4>1, TimesHop
    <3> QED
      BY <1>1, <1>2, <3>1, <3>2
  <2> QED
    BY <2>1, <2>2
<1>4. /\ stamp = IF epoch + (k - 1) * HopDuration > now THEN now
                 ELSE epoch + (k - 1) * HopDuration
      /\ epoch + (k - 1) * HopDuration \in Int
  BY <1>1, <1>2 DEF StampAt
<1> HIDE DEF epoch, stamp
<1>5. stamp \in Int /\ stamp <= now /\ stamp <= epoch + (k - 1) * HopDuration
      /\ lastPaired.stamp <= stamp
  BY <1>1, <1>3, <1>4
<1>6. epoch # None
  BY <1>2, NoneAssumption
<1> QED
  BY <1>2, <1>5, <1>6 DEF epoch, stamp

(* What a submission hands to Settle: the session with ordinal k of the    *)
(* stream that just arrived.                                               *)
Arrived(ss, k) ==
  /\ IsSession(ss)
  /\ SessionInv(ss)
  /\ PairInv(ss)
  /\ DOMAIN ss.pending["sss"] \cap DOMAIN ss.pending["sst"] \subseteq {k}
  /\ Full(ss) /\ lastPaired.gen = generation => lastPaired.ordinal < k

(* Completing the pair of an ordinal that is pending on both sides         *)
(* preserves the invariant, and the pair is later than the last one.       *)
LEMMA CompletePairInv ==
  ASSUME CoordTypeOK, NEW s \in Streams, NEW k \in Nat \ {0}, NEW ss, Arrived(ss, k),
         \A r \in Streams : k \in DOMAIN ss.pending[r],
         lastPaired.stamp <= now, now' = now,
         CompletePair(s, k, ss)
  PROVE  CoordInv' /\ LaterPair
<1> DEFINE epoch == EpochAt(ss, k)
           stamp == StampAt(epoch, k)
           left  == [r \in Streams |-> Without(ss.pending[r], {k})]
           pair  == [type |-> "pair", gen |-> generation, ordinal |-> k, stamp |-> stamp,
                     sss |-> ss.pending["sss"][k].item, sst |-> ss.pending["sst"][k].item]
<1>1. /\ session' = [ss EXCEPT !.pending = left, !.validated = TRUE, !.epoch = epoch,
                              !.consecutive = 0]
      /\ lastPaired' = [gen |-> generation, ordinal |-> k, stamp |-> stamp]
      /\ Return(s, pair)
      /\ UNCHANGED <<generation, nextToken, pairedEnabled>>
  BY DEF CompletePair
<1>2. /\ epoch \in Int
      /\ epoch # None
      /\ stamp \in Int
      /\ stamp <= now
      /\ stamp <= epoch + (k - 1) * HopDuration
      /\ lastPaired.stamp <= stamp
  BY StampBounds DEF Arrived
<1>3. /\ "sss" \in Streams /\ "sst" \in Streams
      /\ \A r \in Streams : r = "sss" \/ r = "sst"
  BY DEF Streams
<1>4. /\ left = [r \in Streams |-> left[r]]
      /\ \A r \in Streams : IsPending(left[r]) /\ DOMAIN left[r] = DOMAIN ss.pending[r] \ {k}
  BY WithoutType DEF Arrived, IsSession
<1>5. pair \in PairEvents
  <2>1. \A r \in Streams : ss.pending[r][k].item \in Items
    BY DEF Arrived, IsSession, IsPending
  <2> QED
    BY <1>2, <1>3, <2>1 DEF PairEvents, CoordTypeOK
<1> HIDE DEF epoch, stamp, left, pair
<1>6. events' \in [Streams -> Events]
  BY <1>1, <1>5, ReturnType DEF Events, CoordTypeOK
<1>7. /\ HasSessionFields(session')
      /\ session'.token = ss.token
      /\ session'.pending = left
      /\ session'.nextSssOrdinal = ss.nextSssOrdinal
      /\ session'.baseline = ss.baseline
      /\ session'.lastSst = ss.lastSst
      /\ session'.validated = TRUE
      /\ session'.epoch = epoch
      /\ session'.consecutive = 0
  BY <1>1 DEF Arrived, IsSession, HasSessionFields
<1>8. /\ lastPaired'.gen = generation
      /\ lastPaired'.ordinal = k
      /\ lastPaired'.stamp = stamp
      /\ lastPaired' \in [gen : Nat, ordinal : Nat, stamp : Int]
  BY <1>1, <1>2 DEF CoordTypeOK
<1>9. Full(ss)
  BY <1>3 DEF Arrived, SessionInv, Full
<1>10. IsSession(session')
  <2>1. session'.validated \in BOOLEAN
    BY <1>7, Zenon
  <2> QED
    BY <1>2, <1>4, <1>7, <2>1 DEF Arrived, IsSession
<1>11. CoordTypeOK'
  BY <1>1, <1>6, <1>8, <1>10 DEF CoordTypeOK
<1>12. SessionInv(session)' /\ Disjoint(session)'
  BY <1>3, <1>4, <1>7, <1>9 DEF Arrived, SessionInv, Disjoint, Full, SstOrdinal
<1>13. PairInv(session)'
  <2>1. /\ k < ss.nextSssOrdinal
        /\ ss.baseline # None
        /\ k <= SstOrdinal(ss)
    BY <1>3 DEF Arrived, SessionInv
  <2> QED
    BY <1>1, <1>2, <1>7, <1>8, <2>1 DEF PairInv, SstOrdinal, CoordTypeOK
<1>14. LaterPair
  BY <1>2, <1>8, <1>9 DEF LaterPair, Arrived, PairInv, CoordTypeOK
<1> QED
  BY <1>2, <1>8, <1>11, <1>12, <1>13, <1>14 DEF CoordInv

(* Purging, bounding and pairing after an arrival preserves the invariant, *)
(* whether it completes a pair, waits or invalidates.                      *)
LEMMA SettleInv ==
  ASSUME CoordTypeOK, NEW s \in Streams, NEW k \in Nat \ {0}, NEW ss, Arrived(ss, k),
         NEW rt \in Nat, lastPaired.stamp <= now, now' = now,
         Settle(s, k, ss, rt)
  PROVE  CoordInv' /\ LaterPair
<1> DEFINE left       == Drained(ss.pending, s, rt)
           violations == ss.consecutive + PendingCount(ss.pending) - PendingCount(left)
           settled    == [ss EXCEPT !.pending = left, !.consecutive = violations]
<1>1. IsPendingPair(ss.pending)
  BY DEF Arrived, IsSession, IsPendingPair
<1>2. /\ IsPendingPair(left)
      /\ \A r \in Streams : DOMAIN left[r] \subseteq DOMAIN ss.pending[r]
      /\ PendingCount(ss.pending) - PendingCount(left) \in Nat
  BY <1>1, DrainedType
<1>3. violations = ss.consecutive + (PendingCount(ss.pending) - PendingCount(left))
  <2>1. /\ PendingCount(ss.pending) \in Int /\ PendingCount(left) \in Int
    BY <1>1, <1>2, FS_CardinalityType DEF PendingCount, IsPendingPair, IsPending, Streams
  <2>2. ss.consecutive \in Int
    BY DEF Arrived, IsSession
  <2> HIDE DEF left
  <2> QED
    BY <2>1, <2>2
<1>4. violations \in Nat
  <2> HIDE DEF left, violations
  <2> QED
    BY <1>2, <1>3 DEF Arrived, IsSession
<1>5. \/ (\A r \in Streams : k \in DOMAIN left[r]) /\ CompletePair(s, k, settled)
      \/ Invalidate(s)
      \/ /\ ~ \A r \in Streams : k \in DOMAIN left[r]
         /\ session' = settled
         /\ Return(s, NoEvent)
         /\ UNCHANGED <<generation, nextToken, pairedEnabled, lastPaired>>
  BY DEF Settle
<1>6. PICK new : new = settled
  OBVIOUS
<1>7. /\ HasSessionFields(new)
      /\ new.token = ss.token
      /\ new.pending = left
      /\ new.nextSssOrdinal = ss.nextSssOrdinal
      /\ new.baseline = ss.baseline
      /\ new.lastSst = ss.lastSst
      /\ new.validated = ss.validated
      /\ new.epoch = ss.epoch
      /\ new.consecutive = violations
  <2> HIDE DEF left, violations
  <2> QED
    BY <1>6 DEF Arrived, IsSession, HasSessionFields
<1> HIDE DEF left, violations, settled
<1>8. "sss" \in Streams /\ "sst" \in Streams
  BY DEF Streams
<1>9. IsSession(new)
  <2>1. new.validated \in BOOLEAN
    BY <1>7, Zenon DEF Arrived, IsSession
  <2> QED
    BY <1>2, <1>4, <1>7, <2>1 DEF Arrived, IsSession, IsPendingPair
<1>10. SessionInv(new)
  BY <1>2, <1>7, <1>8 DEF Arrived, SessionInv, Full, SstOrdinal
<1>11. PairInv(new)
  BY <1>7 DEF Arrived, PairInv, Full, SstOrdinal
<1>12. Arrived(new, k)
  <2>1. DOMAIN new.pending["sss"] \cap DOMAIN new.pending["sst"] \subseteq {k}
    BY <1>2, <1>7, <1>8 DEF Arrived
  <2>2. Full(new) /\ lastPaired.gen = generation => lastPaired.ordinal < k
    BY <1>7 DEF Arrived, Full
  <2> QED
    BY <1>9, <1>10, <1>11, <2>1, <2>2 DEF Arrived
<1>13. CASE (\A r \in Streams : k \in DOMAIN left[r]) /\ CompletePair(s, k, settled)
  BY <1>6, <1>7, <1>12, <1>13, CompletePairInv
<1>14. CASE Invalidate(s)
  BY <1>14, InvalidateInv DEF Arrived, PairInv
<1>15. CASE /\ ~ \A r \in Streams : k \in DOMAIN left[r]
            /\ session' = settled
            /\ Return(s, NoEvent)
            /\ UNCHANGED <<generation, nextToken, pairedEnabled, lastPaired>>
  <2>1. Disjoint(new)
    BY <1>7, <1>12, <1>15 DEF Arrived, Disjoint, Streams
  <2>2. events' \in [Streams -> Events]
    BY <1>15, ReturnType, PlainEvents DEF CoordTypeOK
  <2>3. session' = new /\ pairedEnabled' \in BOOLEAN
    BY <1>6, <1>15 DEF CoordTypeOK
  <2> QED
    BY <1>9, <1>10, <1>11, <1>15, <2>1, <2>2, <2>3, KeepLastPair
<1> QED
  BY <1>5, <1>13, <1>14, <1>15

-----------------------------------------------------------------------------
(* The operations.                                                         *)

(* A new coordinator satisfies the invariant.                              *)
LEMMA InitInv == CoordInit => CoordInv
<1> SUFFICES ASSUME CoordInit PROVE CoordInv
  OBVIOUS
<1>1. /\ IsSession(session) /\ SessionInv(session) /\ Disjoint(session)
      /\ session.token = NoTokens /\ session.epoch = None
  <2>1. NoTokens \in [Streams -> Nat]
    BY DEF NoTokens, NoToken
  <2> QED
    BY <2>1, ClearedFields, ClearedInv DEF CoordInit
<1>2. /\ lastPaired = [gen |-> 0, ordinal |-> 0, stamp |-> 0]
      /\ generation = 0 /\ nextToken = 1 /\ now = 0 /\ pairedEnabled = TRUE
      /\ events = [s \in Streams |-> NoEvent]
  BY DEF CoordInit
<1>3. CoordTypeOK
  <2>1. pairedEnabled \in BOOLEAN
    BY <1>2, Zenon
  <2>2. events \in [Streams -> Events]
    BY <1>2, PlainEvents
  <2> QED
    BY <1>1, <1>2, <2>1, <2>2 DEF CoordTypeOK
<1>4. PairInv(session)
  BY <1>1, <1>2 DEF PairInv, Full, NoTokens, Streams
<1> QED
  BY <1>1, <1>2, <1>3, <1>4 DEF CoordInv

(* A call that changes nothing but its returned list.                      *)
LEMMA IgnoreInv ==
  ASSUME CoordInv, NEW s \in Streams, Ignore(s), now' = now
  PROVE  CoordInv' /\ LaterPair
<1>1. /\ UNCHANGED <<session, generation, nextToken, pairedEnabled, lastPaired>>
      /\ events' \in [Streams -> Events]
  BY ReturnType, PlainEvents DEF Ignore, CoordInv, CoordTypeOK
<1>2. /\ IsSession(session') /\ SessionInv(session') /\ Disjoint(session')
      /\ pairedEnabled' \in BOOLEAN
  BY <1>1 DEF CoordInv, CoordTypeOK
<1>3. PairInv(session')
  BY <1>1 DEF CoordInv
<1> QED
  BY <1>1, <1>2, <1>3, KeepLastPair DEF CoordInv

(* Losing a connection preserves the invariant (connection_lost).          *)
LEMMA ConnectionLostInv ==
  ASSUME CoordInv, NEW s \in Streams, NEW token, ConnectionLost(s, token)
  PROVE  CoordInv' /\ LaterPair
<1>1. CASE Invalidate(s)
  BY <1>1, InvalidateInv DEF CoordInv, PairInv, ConnectionLost
<1>2. CASE Ignore(s)
  BY <1>2, IgnoreInv DEF ConnectionLost
<1> QED
  BY <1>1, <1>2 DEF ConnectionLost

(* Registering a connection, which may start a session, preserves the      *)
(* invariant (register_connection).                                        *)
LEMMA RegisterConnectionInv ==
  ASSUME CoordInv, NEW s \in Streams, RegisterConnection(s)
  PROVE  CoordInv' /\ LaterPair
<1> DEFINE tokens == [session.token EXCEPT ![s] = nextToken]
           both   == \A r \in Streams : tokens[r] # NoToken
<1>1. tokens \in [Streams -> Nat] /\ nextToken \in Nat /\ nextToken # NoToken
  BY DEF CoordInv, CoordTypeOK, IsSession, NoToken
<1>2. /\ nextToken' = nextToken + 1
      /\ session' = [(IF both THEN ClearedSession ELSE session) EXCEPT !.token = tokens]
      /\ generation' = IF both THEN generation + 1 ELSE generation
      /\ UNCHANGED <<pairedEnabled, lastPaired, now>>
      /\ events' \in [Streams -> Events]
  BY ReturnType, PlainEvents DEF RegisterConnection, CoordInv, CoordTypeOK
<1>3. \A r \in Streams : tokens[r] = NoToken =>
        session.token[r] = NoToken /\ DOMAIN session.pending[r] = {}
  BY <1>1 DEF CoordInv, CoordTypeOK, IsSession, SessionInv
<1>4. ~ both => ~ Full(session)
  BY <1>3 DEF Full
<1> HIDE DEF tokens, both
<1>5. CASE both
  <2>1. /\ session' = [ClearedSession EXCEPT !.token = tokens]
        /\ generation' = generation + 1
    BY <1>2, <1>5
  <2>2. /\ IsSession(session') /\ SessionInv(session') /\ Disjoint(session')
        /\ session'.epoch = None
    <3>1. /\ HasSessionFields(session')
          /\ session'.token = tokens
          /\ session'.pending = ClearedSession.pending
          /\ session'.nextSssOrdinal = ClearedSession.nextSssOrdinal
          /\ session'.baseline = ClearedSession.baseline
          /\ session'.lastSst = ClearedSession.lastSst
          /\ session'.validated = ClearedSession.validated
          /\ session'.epoch = ClearedSession.epoch
          /\ session'.consecutive = ClearedSession.consecutive
      <4>1. HasSessionFields(ClearedSession)
        BY ClearedFields
      <4> QED
        BY <2>1, <4>1, TokenFields
    <3> QED
      BY <1>1, <3>1, ClearedFields, ClearedInv
  <2>3. CoordTypeOK'
    BY <1>1, <1>2, <2>1, <2>2 DEF CoordInv, CoordTypeOK
  <2>4. PairInv(session)'
    BY <1>2, <2>1, <2>2 DEF CoordInv, PairInv, CoordTypeOK
  <2>5. LaterPair
    BY <1>2 DEF LaterPair, CoordInv, CoordTypeOK
  <2> QED
    BY <1>2, <2>2, <2>3, <2>4, <2>5 DEF CoordInv
<1>6. CASE ~ both
  <2>1. session' = [session EXCEPT !.token = tokens] /\ generation' = generation
    BY <1>2, <1>6
  <2>2. HasSessionFields(session)
    BY DEF CoordInv, CoordTypeOK, IsSession
  <2>3. /\ HasSessionFields(session')
        /\ session'.token = tokens
        /\ session'.pending = session.pending
        /\ session'.nextSssOrdinal = session.nextSssOrdinal
        /\ session'.baseline = session.baseline
        /\ session'.lastSst = session.lastSst
        /\ session'.validated = session.validated
        /\ session'.epoch = session.epoch
        /\ session'.consecutive = session.consecutive
    BY <2>1, <2>2, TokenFields
  <2>4. IsSession(session')
    <3>1. session'.validated \in BOOLEAN
      BY <2>3, Zenon DEF CoordInv, CoordTypeOK, IsSession
    <3> QED
      BY <1>1, <2>3, <3>1 DEF CoordInv, CoordTypeOK, IsSession
  <2>5. ~ Full(session') /\ session.epoch = None
    BY <1>4, <1>6, <2>3 DEF CoordInv, SessionInv, Full, both
  <2>6. SessionInv(session)' /\ Disjoint(session)'
    BY <1>3, <2>3, <2>5 DEF CoordInv, SessionInv, Disjoint, SstOrdinal
  <2>7. CoordTypeOK'
    BY <1>1, <1>2, <2>1, <2>4 DEF CoordInv, CoordTypeOK
  <2>8. PairInv(session)'
    BY <1>2, <2>1, <2>3, <2>5 DEF CoordInv, PairInv
  <2>9. LaterPair
    BY <1>2 DEF LaterPair, CoordInv, CoordTypeOK
  <2> QED
    BY <1>2, <2>6, <2>7, <2>8, <2>9 DEF CoordInv
<1> QED
  BY <1>5, <1>6

(* A caller that has acted on its event preserves the invariant.           *)
LEMMA EventsHandledInv ==
  ASSUME CoordInv, NEW s \in Streams, EventsHandled(s)
  PROVE  CoordInv' /\ LaterPair
  BY IgnoreInv DEF EventsHandled, Ignore

(* Passing time preserves the invariant.                                   *)
LEMMA TickInv ==
  ASSUME CoordInv, Tick
  PROVE  CoordInv' /\ LaterPair
<1>1. /\ UNCHANGED <<session, generation, nextToken, pairedEnabled, lastPaired, events>>
      /\ now' = now + 1
  BY DEF Tick
<1>2. CoordTypeOK'
  BY <1>1 DEF CoordInv, CoordTypeOK
<1>3. SessionInv(session)' /\ Disjoint(session)' /\ PairInv(session)'
  BY <1>1 DEF CoordInv, SessionInv, Disjoint, PairInv, Full, SstOrdinal
<1> QED
  BY <1>1, <1>2, <1>3 DEF CoordInv, LaterPair, CoordTypeOK

(* An accepted submission settles a session in which its ordinal has       *)
(* arrived, with the other stream's entries as other.                      *)
Settles(s, other, rt) ==
  \E ss : \E k \in Nat \ {0} : /\ Arrived(ss, k)
                               /\ ss.pending[Other(s)] = other
                               /\ Settle(s, k, ss, rt)

(* What an accepted item adds to the session: an entry of its own stream.  *)
Added(s, item, ss, k) ==
  /\ ss.token = session.token /\ ss.validated = session.validated
  /\ \A r \in Streams : \A j \in DOMAIN ss.pending[r] :
       \/ j \in DOMAIN session.pending[r] /\ ss.pending[r][j] = session.pending[r][j]
       \/ r = s /\ j = k /\ ss.pending[r][j].item = item

TakesFrame(frame, ss, k) ==
  /\ k = session.nextSssOrdinal /\ ss.nextSssOrdinal = k + 1
  /\ ss.baseline = session.baseline /\ ss.lastSst = session.lastSst
  /\ Added("sss", frame, ss, k)

TakesSnapshot(timeStamp, snapshot, ss, k) ==
  /\ ss.nextSssOrdinal = session.nextSssOrdinal
  /\ ss.baseline = IF session.baseline = None THEN timeStamp ELSE session.baseline
  /\ ss.lastSst = timeStamp /\ k = SstOrdinal(ss)
  /\ Added("sst", snapshot, ss, k)

SettlesFrame(frame, rt) ==
  \E ss : \E k \in Nat \ {0} : /\ Arrived(ss, k) /\ TakesFrame(frame, ss, k)
                               /\ ss.pending["sst"] = session.pending["sst"]
                               /\ Settle("sss", k, ss, rt)

SettlesSnapshot(timeStamp, snapshot, frames, rt) ==
  \E ss : \E k \in Nat \ {0} : /\ Arrived(ss, k) /\ TakesSnapshot(timeStamp, snapshot, ss, k)
                               /\ ss.pending["sss"] = frames
                               /\ Settle("sst", k, ss, rt)

(* Both are arrivals that settle.                                          *)
LEMMA SettlesEither ==
  /\ \A frame, rt : SettlesFrame(frame, rt) => Settles("sss", session.pending["sst"], rt)
  /\ \A timeStamp, snapshot, frames, rt :
       SettlesSnapshot(timeStamp, snapshot, frames, rt) => Settles("sst", frames, rt)
BY DEF SettlesFrame, SettlesSnapshot, Settles, Other

(* An arrival followed by Settle preserves the invariant.                  *)
LEMMA SettlesInv ==
  ASSUME CoordInv, NEW s \in Streams, NEW other, NEW rt \in Nat, Settles(s, other, rt),
         now' = now
  PROVE  CoordInv' /\ LaterPair
  BY SettleInv DEF Settles, CoordInv

(* The other stream's ordinals are untouched by an arrival: the maps can   *)
(* share the new ordinal only.                                             *)
LEMMA SubmitSssFrameCases ==
  ASSUME CoordInv, NEW token \in Nat \ {NoToken}, NEW frame \in Items, NEW rt \in Nat,
         SubmitSssFrame(token, frame, rt)
  PROVE  \/ Ignore("sss") /\ (~pairedEnabled \/ token # session.token["sss"])
         \/ pairedEnabled /\ token = session.token["sss"] /\ SettlesFrame(frame, rt)
<1> DEFINE k     == session.nextSssOrdinal
           added == Put(session.pending["sss"], k, [item |-> frame, rt |-> rt])
           ss    == [session EXCEPT !.nextSssOrdinal = k + 1, !.pending["sss"] = added]
<1>1. "sss" \in Streams /\ "sst" \in Streams /\ \A r \in Streams : r = "sss" \/ r = "sst"
  BY DEF Streams
<1>2. CASE pairedEnabled /\ token = session.token["sss"] /\ Settle("sss", k, ss, rt)
  <2>1. PICK new : new = ss
    OBVIOUS
  <2>2. /\ HasSessionFields(session)
        /\ session.pending = [r \in Streams |-> session.pending[r]]
        /\ k \in Nat \ {0}
    BY DEF CoordInv, CoordTypeOK, IsSession
  <2>3. /\ IsPending(added)
        /\ DOMAIN added = DOMAIN session.pending["sss"] \cup {k}
        /\ \A j \in DOMAIN added : \/ j = k /\ added[j].item = frame
                                  \/ /\ j \in DOMAIN session.pending["sss"]
                                     /\ added[j] = session.pending["sss"][j]
    <3>1. IsPending(session.pending["sss"])
      BY <1>1 DEF CoordInv, CoordTypeOK, IsSession
    <3>2. [item |-> frame, rt |-> rt] \in [item : Items, rt : Nat]
      OBVIOUS
    <3> HIDE DEF k
    <3> QED
      BY <2>2, <3>1, <3>2, PutType DEF Put
  <2> HIDE DEF added, k
  <2>4. /\ HasSessionFields(new)
        /\ new.token = session.token
        /\ new.pending = [session.pending EXCEPT !["sss"] = added]
        /\ new.nextSssOrdinal = k + 1
        /\ new.baseline = session.baseline
        /\ new.lastSst = session.lastSst
        /\ new.validated = session.validated
        /\ new.epoch = session.epoch
        /\ new.consecutive = session.consecutive
    BY <2>1, <2>2 DEF HasSessionFields
  <2> HIDE DEF ss
  <2>5. /\ new.pending = [r \in Streams |-> new.pending[r]]
        /\ new.pending["sss"] = added
        /\ new.pending["sst"] = session.pending["sst"]
    BY <1>1, <2>2, <2>4
  <2>6. IsSession(new)
    <3>1. new.validated \in BOOLEAN
      BY <2>4, Zenon DEF CoordInv, CoordTypeOK, IsSession
    <3>2. \A r \in Streams : IsPending(new.pending[r])
      BY <1>1, <2>3, <2>5 DEF CoordInv, CoordTypeOK, IsSession
    <3> QED
      BY <2>2, <2>4, <2>5, <3>1, <3>2 DEF CoordInv, CoordTypeOK, IsSession
  <2>7. SessionInv(new)
    <3>1. new.token["sss"] # NoToken
      BY <1>2, <2>4
    <3>2. \A j \in DOMAIN new.pending["sss"] : j < new.nextSssOrdinal
      <4>1. \A j \in DOMAIN session.pending["sss"] : j \in Nat /\ j < k
        BY <1>1 DEF CoordInv, CoordTypeOK, SessionInv, IsSession, IsPending, k
      <4> QED
        BY <2>2, <2>3, <2>4, <2>5, <4>1
    <3> QED
      BY <1>1, <2>4, <2>5, <3>1, <3>2 DEF CoordInv, SessionInv, Full, SstOrdinal
  <2>8. PairInv(new)
    BY <2>2, <2>4 DEF CoordInv, CoordTypeOK, PairInv, Full, SstOrdinal, k
  <2>9. DOMAIN new.pending["sss"] \cap DOMAIN new.pending["sst"] \subseteq {k}
    BY <2>3, <2>5 DEF CoordInv, Disjoint
  <2>10. Full(new) /\ lastPaired.gen = generation => lastPaired.ordinal < k
    BY <2>4 DEF CoordInv, PairInv, Full, k
  <2>11. Arrived(new, k)
    BY <2>6, <2>7, <2>8, <2>9, <2>10 DEF Arrived
  <2>12. Settle("sss", k, new, rt)
    BY <1>2, <2>1, Zenon
  <2>13. TakesFrame(frame, new, k)
    BY <1>1, <2>3, <2>4, <2>5 DEF TakesFrame, Added, k
  <2> QED
    BY <1>2, <2>2, <2>5, <2>11, <2>12, <2>13 DEF SettlesFrame
<1> QED
  BY <1>2 DEF SubmitSssFrame

(* A submitted frame preserves the invariant (submit_sss_frame).           *)
LEMMA SubmitSssFrameInv ==
  ASSUME CoordInv, NEW token \in Nat \ {NoToken}, NEW frame \in Items, NEW rt \in Nat,
         SubmitSssFrame(token, frame, rt)
  PROVE  CoordInv' /\ LaterPair
<1>1. "sss" \in Streams /\ now' = now
  BY DEF Streams, SubmitSssFrame
<1> QED
  BY <1>1, SubmitSssFrameCases, IgnoreInv, SettlesEither, SettlesInv

(* The fallback to unpaired streams preserves the invariant.               *)
LEMMA DisablePairedModeInv ==
  ASSUME CoordInv, NEW s \in Streams, DisablePairedMode(s), now' = now
  PROVE  CoordInv' /\ LaterPair
<1>1. /\ session' = [session EXCEPT !.pending = BothEmpty]
      /\ pairedEnabled' = FALSE
      /\ UNCHANGED <<generation, nextToken, lastPaired>>
      /\ events' \in [Streams -> Events]
  BY ReturnType, PlainEvents DEF DisablePairedMode, CoordInv, CoordTypeOK
<1>2. HasSessionFields(session)
  BY DEF CoordInv, CoordTypeOK, IsSession
<1>3. /\ HasSessionFields(session')
      /\ session'.token = session.token
      /\ session'.pending = BothEmpty
      /\ session'.nextSssOrdinal = session.nextSssOrdinal
      /\ session'.baseline = session.baseline
      /\ session'.lastSst = session.lastSst
      /\ session'.validated = session.validated
      /\ session'.epoch = session.epoch
      /\ session'.consecutive = session.consecutive
  BY <1>1, <1>2 DEF HasSessionFields
<1>4. /\ session'.pending = [r \in Streams |-> session'.pending[r]]
      /\ \A r \in Streams : session'.pending[r] = NothingPending
  BY <1>3 DEF BothEmpty
<1>5. IsSession(session')
  <2>1. session'.validated \in BOOLEAN
    BY <1>3, Zenon DEF CoordInv, CoordTypeOK, IsSession
  <2>2. \A r \in Streams : IsPending(session'.pending[r])
    BY <1>4, NothingPendingType
  <2> QED
    BY <1>3, <1>4, <2>1, <2>2 DEF CoordInv, CoordTypeOK, IsSession
<1>6. SessionInv(session') /\ Disjoint(session')
  BY <1>3, <1>4, NothingPendingType
     DEF CoordInv, SessionInv, Disjoint, Full, SstOrdinal, Streams
<1>7. PairInv(session')
  BY <1>3 DEF CoordInv, PairInv, Full, SstOrdinal
<1>8. pairedEnabled' \in BOOLEAN
  BY <1>1, Zenon
<1> QED
  BY <1>1, <1>5, <1>6, <1>7, <1>8, KeepLastPair DEF CoordInv

(* A violation that only counts.                                           *)
LEMMA CountInv ==
  ASSUME CoordInv, NEW s \in Streams,
         session' = [session EXCEPT !.consecutive = @ + 1],
         Return(s, NoEvent),
         UNCHANGED <<generation, nextToken, pairedEnabled, lastPaired, now>>
  PROVE  CoordInv' /\ LaterPair
<1>1. HasSessionFields(session)
  BY DEF CoordInv, CoordTypeOK, IsSession
<1>2. /\ HasSessionFields(session')
      /\ session'.token = session.token
      /\ session'.pending = session.pending
      /\ session'.nextSssOrdinal = session.nextSssOrdinal
      /\ session'.baseline = session.baseline
      /\ session'.lastSst = session.lastSst
      /\ session'.validated = session.validated
      /\ session'.epoch = session.epoch
      /\ session'.consecutive = session.consecutive + 1
  BY <1>1 DEF HasSessionFields
<1>3. IsSession(session')
  <2>1. session'.validated \in BOOLEAN
    BY <1>2, Zenon DEF CoordInv, CoordTypeOK, IsSession
  <2> QED
    BY <1>2, <2>1 DEF CoordInv, CoordTypeOK, IsSession
<1>4. SessionInv(session') /\ Disjoint(session')
  BY <1>2 DEF CoordInv, SessionInv, Disjoint, Full, SstOrdinal
<1>5. PairInv(session')
  BY <1>2 DEF CoordInv, PairInv, Full, SstOrdinal
<1>6. pairedEnabled' \in BOOLEAN /\ events' \in [Streams -> Events]
  BY ReturnType, PlainEvents DEF CoordInv, CoordTypeOK
<1> QED
  BY <1>3, <1>4, <1>5, <1>6, KeepLastPair DEF CoordInv

(* A violation that drops its input.                                       *)
LEMMA ViolateInv ==
  ASSUME CoordInv, NEW s \in Streams, Violate(s, session), now' = now
  PROVE  CoordInv' /\ LaterPair
<1>1. CASE Invalidate(s)
  BY <1>1, InvalidateInv DEF CoordInv, PairInv
<1>2. CASE /\ session' = [session EXCEPT !.consecutive = @ + 1]
           /\ Return(s, NoEvent)
           /\ UNCHANGED <<generation, nextToken, pairedEnabled, lastPaired>>
  BY <1>2, CountInv
<1> QED
  BY <1>1, <1>2 DEF Violate

(* A snapshot beyond every earlier one, on the session ss that the call    *)
(* has prepared: it cannot be pending already, and it settles.             *)
LEMMA AcceptSnapshotCases ==
  ASSUME CoordInv, NEW timeStamp \in Int, NEW snapshot \in Items, NEW rt \in Nat,
         session.token["sst"] # NoToken,
         session.baseline # None => session.lastSst < timeStamp,
         NEW ss, HasSessionFields(ss),
         ss.token = session.token,
         ss.pending = [r \in Streams |-> ss.pending[r]],
         IsPending(ss.pending["sss"]),
         DOMAIN ss.pending["sss"] \subseteq DOMAIN session.pending["sss"],
         \A j \in DOMAIN ss.pending["sss"] : ss.pending["sss"][j] = session.pending["sss"][j],
         ss.pending["sst"] = session.pending["sst"],
         ss.nextSssOrdinal = session.nextSssOrdinal,
         ss.baseline = IF session.baseline = None THEN timeStamp ELSE session.baseline,
         ss.validated = session.validated,
         ss.epoch = session.epoch,
         ss.consecutive \in Nat,
         AcceptSnapshot(ss, timeStamp, snapshot, rt)
  PROVE  SettlesSnapshot(timeStamp, snapshot, ss.pending["sss"], rt)
<1> DEFINE k       == timeStamp - ss.baseline + 1
           arrived == [ss EXCEPT !.lastSst = timeStamp]
           added   == Put(ss.pending["sst"], k, [item |-> snapshot, rt |-> rt])
           settled == [arrived EXCEPT !.pending["sst"] = added]
<1>1. "sss" \in Streams /\ "sst" \in Streams /\ \A r \in Streams : r = "sss" \/ r = "sst"
  BY DEF Streams
<1>2. /\ session.baseline = None \/ session.baseline \in Int
      /\ session.lastSst = None \/ session.lastSst \in Int
      /\ session.baseline = None <=> session.lastSst = None
      /\ IsPending(session.pending["sst"])
  BY <1>1 DEF CoordInv, CoordTypeOK, IsSession
<1>3. /\ ss.baseline \in Int
      /\ ss.baseline # None
      /\ ss.baseline <= timeStamp
      /\ session.baseline # None => SstOrdinal(session) < timeStamp - ss.baseline + 1
  BY <1>2, NoneAssumption DEF CoordInv, SessionInv, SstOrdinal
<1>4. k \in Nat \ {0}
  BY <1>3
<1>5. \A j \in DOMAIN ss.pending["sst"] : j < k
  <2>1. \A j \in DOMAIN session.pending["sst"] :
          j \in Int /\ session.baseline # None /\ j <= SstOrdinal(session)
    BY <1>2 DEF CoordInv, SessionInv, IsPending
  <2>2. session.baseline # None => SstOrdinal(session) \in Int
    BY <1>2 DEF SstOrdinal
  <2> QED
    BY <1>3, <1>4, <2>1, <2>2
<1>6. Settle("sst", k, settled, rt)
  <2>1. k \notin DOMAIN ss.pending["sst"]
    <3> HIDE DEF k
    <3>1. ~ (k < k)
      BY <1>4
    <3> QED
      BY <1>5, <3>1
  <2> QED
    BY <2>1 DEF AcceptSnapshot
<1>7. /\ IsPending(added) /\ DOMAIN added = DOMAIN ss.pending["sst"] \cup {k}
      /\ \A j \in DOMAIN added : \/ j = k /\ added[j].item = snapshot
                                \/ /\ j \in DOMAIN ss.pending["sst"]
                                   /\ added[j] = ss.pending["sst"][j]
  <2>1. IsPending(ss.pending["sst"])
    BY <1>2
  <2> HIDE DEF k
  <2>2. PICK p, entry : p = ss.pending["sst"] /\ entry = [item |-> snapshot, rt |-> rt]
    OBVIOUS
  <2>3. IsPending(added) /\ DOMAIN added = DOMAIN ss.pending["sst"] \cup {k}
    <3>1. IsPending(p) /\ entry \in [item : Items, rt : Nat]
      BY <2>1, <2>2
    <3>2. IsPending(Put(p, k, entry)) /\ DOMAIN Put(p, k, entry) = DOMAIN p \cup {k}
      BY ONLY <1>4, <3>1, PutType
    <3> QED
      BY <2>2, <3>2, Zenon
  <2>4. \A j \in DOMAIN added : added[j] = IF j = k THEN [item |-> snapshot, rt |-> rt]
                                          ELSE ss.pending["sst"][j]
    BY DEF Put
  <2>5. \A j \in DOMAIN added : j # k => j \in DOMAIN ss.pending["sst"]
    BY <2>3
  <2> QED
    BY <2>3, <2>4, <2>5
<1> HIDE DEF k
<1>8. PICK new : new = settled
  OBVIOUS
<1>9. /\ HasSessionFields(new)
      /\ new.token = ss.token
      /\ new.pending = [ss.pending EXCEPT !["sst"] = added]
      /\ new.nextSssOrdinal = ss.nextSssOrdinal
      /\ new.baseline = ss.baseline
      /\ new.lastSst = timeStamp
      /\ new.validated = ss.validated
      /\ new.epoch = ss.epoch
      /\ new.consecutive = ss.consecutive
  <2> HIDE DEF added
  <2>1. PICK old : old = arrived
    OBVIOUS
  <2>2. /\ HasSessionFields(old)
        /\ old.token = ss.token
        /\ old.pending = ss.pending
        /\ old.nextSssOrdinal = ss.nextSssOrdinal
        /\ old.baseline = ss.baseline
        /\ old.lastSst = timeStamp
        /\ old.validated = ss.validated
        /\ old.epoch = ss.epoch
        /\ old.consecutive = ss.consecutive
    BY <2>1 DEF HasSessionFields
  <2>3. new = [old EXCEPT !.pending["sst"] = added]
    BY <1>8, <2>1
  <2> HIDE DEF arrived
  <2> QED
    BY <2>2, <2>3 DEF HasSessionFields
<1> HIDE DEF added, settled, arrived
<1>10. /\ new.pending = [r \in Streams |-> new.pending[r]]
       /\ new.pending["sss"] = ss.pending["sss"]
       /\ new.pending["sst"] = added
  BY <1>1, <1>9
<1>11. IsSession(new)
  <2>1. new.validated \in BOOLEAN
    BY <1>9, Zenon DEF CoordInv, CoordTypeOK, IsSession
  <2>2. \A r \in Streams : IsPending(new.pending[r])
    BY <1>1, <1>7, <1>10
  <2>3. new.lastSst # None
    BY <1>9, NoneAssumption
  <2> QED
    BY <1>3, <1>9, <1>10, <2>1, <2>2, <2>3 DEF CoordInv, CoordTypeOK, IsSession
<1>12. SstOrdinal(new) = k
  BY <1>9 DEF SstOrdinal, k
<1>13. SessionInv(new)
  <2>1. \A r \in Streams : new.token[r] = NoToken => DOMAIN new.pending[r] = {}
    BY <1>1, <1>9, <1>10 DEF CoordInv, SessionInv
  <2>2. new.baseline <= new.lastSst
    BY <1>3, <1>9
  <2>3. \A j \in DOMAIN new.pending["sss"] : j < new.nextSssOrdinal
    BY <1>9, <1>10 DEF CoordInv, SessionInv
  <2>4. \A j \in DOMAIN new.pending["sst"] : new.baseline # None /\ j <= SstOrdinal(new)
    <3>1. \A j \in DOMAIN ss.pending["sst"] : j \in Int
      BY <1>2 DEF IsPending
    <3>2. \A j \in DOMAIN added : j = k \/ (j \in Int /\ j < k)
      BY <1>5, <1>7, <3>1
    <3> QED
      BY <1>3, <1>4, <1>9, <1>10, <1>12, <3>2
  <2>5. new.epoch # None => Full(new)
    BY <1>9 DEF CoordInv, SessionInv, Full
  <2> QED
    BY <2>1, <2>2, <2>3, <2>4, <2>5 DEF SessionInv
<1>14. Full(new) /\ lastPaired.gen = generation => lastPaired.ordinal < k
  <2>1. SUFFICES ASSUME Full(new), lastPaired.gen = generation
                 PROVE  lastPaired.ordinal < k
    OBVIOUS
  <2>2. session.baseline # None /\ lastPaired.ordinal <= SstOrdinal(session)
    BY <1>9, <2>1 DEF CoordInv, PairInv, Full
  <2>3. SstOrdinal(session) \in Int /\ lastPaired.ordinal \in Int
    BY <1>2, <2>2 DEF SstOrdinal, CoordInv, CoordTypeOK
  <2> QED
    BY <1>3, <1>4, <2>2, <2>3 DEF k
<1>15. PairInv(new)
  <2>1. lastPaired.ordinal \in Int
    BY DEF CoordInv, CoordTypeOK
  <2>2. Full(new) => Full(session)
    BY <1>9 DEF Full
  <2> QED
    BY <1>3, <1>4, <1>9, <1>12, <1>14, <2>1, <2>2 DEF CoordInv, PairInv
<1>16. DOMAIN new.pending["sss"] \cap DOMAIN new.pending["sst"] \subseteq {k}
  BY <1>7, <1>10 DEF CoordInv, Disjoint
<1>17. Arrived(new, k)
  BY <1>11, <1>13, <1>14, <1>15, <1>16 DEF Arrived
<1>18. Settle("sst", k, new, rt)
  BY <1>6, <1>8, Zenon
<1>19. TakesSnapshot(timeStamp, snapshot, new, k)
  <2>1. Added("sst", snapshot, new, k)
    BY <1>1, <1>7, <1>9, <1>10 DEF Added
  <2> QED
    BY <1>9, <1>12, <2>1 DEF TakesSnapshot
<1> QED
  BY <1>4, <1>10, <1>17, <1>18, <1>19 DEF SettlesSnapshot

(* A settled snapshot leaves the frames, or what a gap leaves of them.     *)
FramesLeft(frames) ==
  /\ IsPending(frames)
  /\ DOMAIN frames \subseteq DOMAIN session.pending["sss"]
  /\ \A j \in DOMAIN frames : frames[j] = session.pending["sss"][j]

(* The outcomes of submit_sst_snapshot, as the operators that it ends in.  *)
LEMMA SubmitSstSnapshotCases ==
  ASSUME CoordInv, NEW token \in Nat \ {NoToken}, NEW timeStamp \in Int \cup {None},
         NEW snapshot \in Items, NEW rt \in Nat,
         SubmitSstSnapshot(token, timeStamp, snapshot, rt)
  PROVE  \/ Ignore("sst") /\ (~pairedEnabled \/ token # session.token["sst"])
         \/ /\ pairedEnabled /\ token = session.token["sst"]
            /\ \/ /\ DisablePairedMode("sst")
                  /\ timeStamp = None \/ ~session.validated
               \/ Violate("sst", session) /\ session.baseline # None
               \/ /\ timeStamp = None
                  /\ session' = [session EXCEPT !.consecutive = @ + 1]
                  /\ Return("sst", NoEvent)
                  /\ UNCHANGED <<generation, nextToken, pairedEnabled, lastPaired>>
               \/ \E frames : /\ FramesLeft(frames)
                               /\ SettlesSnapshot(timeStamp, snapshot, frames, rt)
<1>1. "sss" \in Streams /\ "sst" \in Streams
  BY DEF Streams
<1>2. /\ HasSessionFields(session)
      /\ session.pending = [r \in Streams |-> session.pending[r]]
      /\ IsPending(session.pending["sss"])
      /\ session.consecutive \in Nat
      /\ session.baseline \in Int \cup {None}
      /\ session.lastSst \in Int \cup {None}
      /\ session.baseline = None <=> session.lastSst = None
  BY <1>1 DEF CoordInv, CoordTypeOK, IsSession
<1>3. CASE /\ pairedEnabled /\ token = session.token["sst"]
           /\ session.baseline = None
           /\ timeStamp # None
           /\ AcceptSnapshot([session EXCEPT !.baseline = timeStamp],
                             timeStamp, snapshot, rt)
  <2>1. PICK ss : ss = [session EXCEPT !.baseline = timeStamp]
    OBVIOUS
  <2>2. /\ HasSessionFields(ss)
        /\ ss.token = session.token
        /\ ss.pending = session.pending
        /\ ss.nextSssOrdinal = session.nextSssOrdinal
        /\ ss.baseline = timeStamp
        /\ ss.validated = session.validated
        /\ ss.epoch = session.epoch
        /\ ss.consecutive = session.consecutive
    BY <1>2, <2>1 DEF HasSessionFields
  <2>3. AcceptSnapshot(ss, timeStamp, snapshot, rt)
    BY <1>3, <2>1, Zenon
  <2>4. timeStamp \in Int /\ session.token["sst"] # NoToken
    BY <1>3
  <2> QED
    BY <1>2, <1>3, <2>2, <2>3, <2>4, AcceptSnapshotCases DEF FramesLeft
<1>4. CASE /\ pairedEnabled /\ token = session.token["sst"]
           /\ session.baseline # None
           /\ timeStamp = session.lastSst + 1
           /\ AcceptSnapshot(session, timeStamp, snapshot, rt)
  <2>1. timeStamp \in Int /\ session.lastSst < timeStamp /\ session.token["sst"] # NoToken
    BY <1>2, <1>4
  <2> QED
    BY <1>2, <1>4, <2>1, AcceptSnapshotCases DEF FramesLeft
<1>5. CASE /\ pairedEnabled /\ token = session.token["sst"]
           /\ session.baseline # None
           /\ timeStamp # None
           /\ ~ (timeStamp <= session.lastSst)
           /\ AcceptSnapshot(AfterGap(timeStamp), timeStamp, snapshot, rt)
  <2> DEFINE skipped == (session.lastSst - session.baseline + 2)
                          .. (timeStamp - session.baseline)
             left    == Without(session.pending["sss"], skipped)
  <2>1. PICK ss : ss = AfterGap(timeStamp)
    OBVIOUS
  <2>2. ss = [session EXCEPT !.consecutive = @ + 1, !.pending["sss"] = left]
    BY <2>1 DEF AfterGap
  <2>3. /\ IsPending(left) /\ DOMAIN left \subseteq DOMAIN session.pending["sss"]
        /\ \A j \in DOMAIN left : left[j] = session.pending["sss"][j]
    <3> HIDE DEF skipped
    <3>1. IsPending(session.pending["sss"])
      BY <1>2
    <3>2. /\ IsPending(left)
          /\ DOMAIN left = DOMAIN session.pending["sss"] \ skipped
          /\ \A j \in DOMAIN left : left[j] = session.pending["sss"][j]
      BY <3>1, WithoutType DEF Without
    <3> QED
      BY <3>2
  <2> HIDE DEF left, skipped
  <2>4. /\ HasSessionFields(ss)
        /\ ss.token = session.token
        /\ ss.pending = [session.pending EXCEPT !["sss"] = left]
        /\ ss.nextSssOrdinal = session.nextSssOrdinal
        /\ ss.baseline = session.baseline
        /\ ss.validated = session.validated
        /\ ss.epoch = session.epoch
        /\ ss.consecutive = session.consecutive + 1
    BY <1>2, <2>2 DEF HasSessionFields
  <2>5. /\ ss.pending = [r \in Streams |-> ss.pending[r]]
        /\ ss.pending["sss"] = left
        /\ ss.pending["sst"] = session.pending["sst"]
    BY <1>1, <1>2, <2>4
  <2>6. /\ timeStamp \in Int
        /\ session.lastSst < timeStamp
        /\ session.token["sst"] # NoToken
        /\ ss.consecutive \in Nat
    BY <1>2, <1>5, <2>4
  <2>7. AcceptSnapshot(ss, timeStamp, snapshot, rt)
    BY <1>5, <2>1, Zenon
  <2> QED
    BY <1>2, <1>5, <2>3, <2>4, <2>5, <2>6, <2>7, AcceptSnapshotCases DEF FramesLeft
<1> QED
  BY <1>3, <1>4, <1>5
     DEF SubmitSstSnapshot, FirstSnapshot, UnvalidatedSnapshot, ValidatedSnapshot

(* A submitted snapshot preserves the invariant (submit_sst_snapshot).     *)
LEMMA SubmitSstSnapshotInv ==
  ASSUME CoordInv, NEW token \in Nat \ {NoToken}, NEW timeStamp \in Int \cup {None},
         NEW snapshot \in Items, NEW rt \in Nat,
         SubmitSstSnapshot(token, timeStamp, snapshot, rt)
  PROVE  CoordInv' /\ LaterPair
<1>1. "sst" \in Streams /\ now' = now
  BY DEF Streams, SubmitSstSnapshot
<1> QED
  BY <1>1, SubmitSstSnapshotCases, IgnoreInv, DisablePairedModeInv, ViolateInv, CountInv,
     SettlesEither, SettlesInv

-----------------------------------------------------------------------------
(* The bounds: pending entries and consecutive violations.                 *)

(* The counter keeps its bound as long as no timeStamp is missing.         *)
BoundsInv(strict, ss) ==
  /\ \A s \in Streams : Cardinality(DOMAIN ss.pending[s]) <= MaxPendingPairs
  /\ strict => ss.consecutive < MaxConsecutivePairViolations

(* A reset session is within the bounds.                                   *)
LEMMA ClearedBounds ==
  ASSUME NEW strict
  PROVE  BoundsInv(strict, ClearedSession)
<1>1. \A s \in Streams : ClearedSession.pending[s] = NothingPending
  BY ClearedFields DEF BothEmpty
<1>2. \A s \in Streams : Cardinality(DOMAIN ClearedSession.pending[s]) = 0
  BY <1>1, NothingPendingType, FS_EmptySet
<1> QED
  BY <1>2, ClearedFields, LimitAssumption DEF BoundsInv

(* Settle bounds the stream of the arrival itself, and leaves no more of   *)
(* the other stream than there was.                                        *)
LEMMA SettleBounds ==
  ASSUME NEW strict, NEW s \in Streams, NEW k \in Nat \ {0}, NEW ss, IsSession(ss), NEW rt \in Nat,
         \A r \in Streams \ {s} : Cardinality(DOMAIN ss.pending[r]) <= MaxPendingPairs,
         Settle(s, k, ss, rt)
  PROVE  BoundsInv(strict, session')
<1> DEFINE left       == Drained(ss.pending, s, rt)
           violations == ss.consecutive + PendingCount(ss.pending) - PendingCount(left)
           settled    == [ss EXCEPT !.pending = left, !.consecutive = violations]
<1>1. IsPendingPair(ss.pending)
  BY DEF IsSession, IsPendingPair
<1>2. /\ IsPendingPair(left)
      /\ Cardinality(DOMAIN left[s]) <= MaxPendingPairs
      /\ \A r \in Streams : Cardinality(DOMAIN left[r]) <= Cardinality(DOMAIN ss.pending[r])
  BY <1>1, DrainedType
<1>3. \/ CompletePair(s, k, settled)
      \/ Invalidate(s)
      \/ ~ (violations >= MaxConsecutivePairViolations) /\ session' = settled
  BY DEF Settle
<1>4. PICK new : new = settled
  OBVIOUS
<1>5. HasSessionFields(ss)
  BY DEF IsSession
<1>6. violations \in Int
  <2>1. PendingCount(ss.pending) \in Int /\ PendingCount(left) \in Int
    BY <1>1, <1>2, FS_CardinalityType DEF PendingCount, IsPendingPair, IsPending, Streams
  <2> HIDE DEF left
  <2> QED
    BY <2>1 DEF IsSession
<1> HIDE DEF left, violations
<1>7. HasSessionFields(new) /\ new.pending = left /\ new.consecutive = violations
  BY <1>4, <1>5 DEF HasSessionFields
<1> HIDE DEF settled
<1>8. \A r \in Streams : /\ IsPending(new.pending[r])
                         /\ Cardinality(DOMAIN new.pending[r]) \in Nat
                         /\ Cardinality(DOMAIN new.pending[r]) <= MaxPendingPairs
  <2> SUFFICES ASSUME NEW r \in Streams
               PROVE  /\ IsPending(new.pending[r])
                      /\ Cardinality(DOMAIN new.pending[r]) \in Nat
                      /\ Cardinality(DOMAIN new.pending[r]) <= MaxPendingPairs
    OBVIOUS
  <2>1. /\ IsPending(left[r])
        /\ Cardinality(DOMAIN left[r]) \in Nat
        /\ Cardinality(DOMAIN ss.pending[r]) \in Nat
    BY <1>1, <1>2, FS_CardinalityType DEF IsPendingPair, IsPending
  <2>2. Cardinality(DOMAIN left[r]) <= MaxPendingPairs
    <3>1. CASE r = s
      BY <1>2, <3>1
    <3>2. CASE r # s
      BY <1>2, <2>1, <3>2, LimitAssumption
    <3> QED
      BY <3>1, <3>2
  <2> QED
    BY <1>7, <2>1, <2>2
<1>9. CASE CompletePair(s, k, settled)
  <2> DEFINE rest == [r \in Streams |-> Without(new.pending[r], {k})]
  <2>1. session' = [new EXCEPT !.pending = rest, !.validated = TRUE,
                               !.epoch = EpochAt(new, k), !.consecutive = 0]
    BY <1>4, <1>9 DEF CompletePair
  <2>2. \A r \in Streams : /\ rest[r] = Without(new.pending[r], {k})
                           /\ Cardinality(DOMAIN rest[r]) <= MaxPendingPairs
    BY <1>8, WithoutCardinality, LimitAssumption
  <2> HIDE DEF rest
  <2>3. session'.pending = rest /\ session'.consecutive = 0
    BY <1>7, <2>1 DEF HasSessionFields
  <2> QED
    BY <2>2, <2>3, LimitAssumption DEF BoundsInv
<1>10. CASE Invalidate(s)
  BY <1>10, ClearedBounds DEF Invalidate
<1>11. CASE ~ (violations >= MaxConsecutivePairViolations) /\ session' = settled
  BY <1>4, <1>6, <1>7, <1>8, <1>11, LimitAssumption DEF BoundsInv
<1> QED
  BY <1>3, <1>9, <1>10, <1>11

(* Registering a connection keeps a session within its bounds.             *)
LEMMA RegisterConnectionBounds ==
  ASSUME CoordInv, NEW strict, BoundsInv(strict, session), NEW s \in Streams, RegisterConnection(s)
  PROVE  BoundsInv(strict, session')
<1>1. PICK tokens, old : /\ session' = [old EXCEPT !.token = tokens]
                         /\ old = session \/ old = ClearedSession
  BY DEF RegisterConnection
<1>2. HasSessionFields(old) /\ BoundsInv(strict, old)
  BY <1>1, ClearedFields, ClearedBounds DEF CoordInv, CoordTypeOK, IsSession
<1>3. session'.pending = old.pending /\ session'.consecutive = old.consecutive
  BY <1>1, <1>2, TokenFields
<1> QED
  BY <1>2, <1>3 DEF BoundsInv

(* An arrival followed by Settle leaves both maps within their limit, or   *)
(* ends the session.                                                       *)
LEMMA SettlesBounds ==
  ASSUME NEW strict, NEW s \in Streams, NEW other, Cardinality(DOMAIN other) <= MaxPendingPairs,
         NEW rt \in Nat, Settles(s, other, rt)
  PROVE  BoundsInv(strict, session')
<1>1. PICK ss : \E k \in Nat \ {0} : /\ Arrived(ss, k)
                                     /\ ss.pending[Other(s)] = other
                                     /\ Settle(s, k, ss, rt)
  BY DEF Settles
<1>2. PICK k \in Nat \ {0} : /\ Arrived(ss, k)
                            /\ ss.pending[Other(s)] = other
                            /\ Settle(s, k, ss, rt)
  BY <1>1
<1>3. \A r \in Streams \ {s} : r = Other(s)
  BY DEF Streams, Other
<1>4. IsSession(ss)
  BY <1>2 DEF Arrived
<1> QED
  BY <1>2, <1>3, <1>4, SettleBounds

(* A submitted frame keeps a session within its bounds.                    *)
LEMMA SubmitSssFrameBounds ==
  ASSUME CoordInv, NEW strict, BoundsInv(strict, session), NEW token \in Nat \ {NoToken},
         NEW frame \in Items, NEW rt \in Nat, SubmitSssFrame(token, frame, rt)
  PROVE  BoundsInv(strict, session')
<1>1. "sss" \in Streams /\ "sst" \in Streams
  BY DEF Streams
<1>2. CASE Ignore("sss")
  BY <1>2 DEF Ignore
<1>3. CASE Settles("sss", session.pending["sst"], rt)
  BY <1>1, <1>3, SettlesBounds DEF BoundsInv
<1> QED
  BY <1>2, <1>3, SubmitSssFrameCases, SettlesEither

(* Only a snapshot without a timeStamp passes the second tier by.          *)
LEMMA SubmitSstSnapshotBounds ==
  ASSUME CoordInv, NEW strict, BoundsInv(strict, session), NEW token \in Nat \ {NoToken},
         NEW snapshot \in Items,
         NEW timeStamp \in Int \cup {None}, strict => timeStamp # None,
         NEW rt \in Nat, SubmitSstSnapshot(token, timeStamp, snapshot, rt)
  PROVE  BoundsInv(strict, session')
<1>1. "sss" \in Streams /\ "sst" \in Streams
  BY DEF Streams
<1>2. HasSessionFields(session) /\ IsPending(session.pending["sss"])
  BY <1>1 DEF CoordInv, CoordTypeOK, IsSession
<1>3. CASE Ignore("sst")
  BY <1>3 DEF Ignore
<1>4. CASE DisablePairedMode("sst")
  <2>1. session' = [session EXCEPT !.pending = BothEmpty]
    BY <1>4 DEF DisablePairedMode
  <2>2. session'.pending = BothEmpty /\ session'.consecutive = session.consecutive
    BY <1>2, <2>1 DEF HasSessionFields
  <2> QED
    BY <2>2, ClearedBounds, ClearedFields DEF BoundsInv
<1>5. CASE Violate("sst", session)
  <2>1. CASE Invalidate("sst")
    BY <2>1, ClearedBounds DEF Invalidate
  <2>2. CASE /\ ~ (session.consecutive + 1 >= MaxConsecutivePairViolations)
             /\ session' = [session EXCEPT !.consecutive = @ + 1]
    <3>1. /\ session'.pending = session.pending
          /\ session'.consecutive = session.consecutive + 1
      BY <1>2, <2>2 DEF HasSessionFields
    <3>2. session.consecutive \in Int
      BY DEF CoordInv, CoordTypeOK, IsSession
    <3> QED
      BY <2>2, <3>1, <3>2, LimitAssumption DEF BoundsInv
  <2> QED
    BY <1>5, <2>1, <2>2 DEF Violate
<1>6. CASE \E frames : FramesLeft(frames) /\ Settles("sst", frames, rt)
  <2>1. PICK frames : FramesLeft(frames) /\ Settles("sst", frames, rt)
    BY <1>6
  <2>2. /\ Cardinality(DOMAIN frames) \in Nat
        /\ Cardinality(DOMAIN session.pending["sss"]) \in Nat
        /\ Cardinality(DOMAIN frames) <= Cardinality(DOMAIN session.pending["sss"])
    BY <1>2, <2>1, FS_Subset, FS_CardinalityType DEF FramesLeft, IsPending
  <2>3. Cardinality(DOMAIN frames) <= MaxPendingPairs
    BY <1>1, <2>2, LimitAssumption DEF BoundsInv
  <2> QED
    BY <1>1, <2>1, <2>3, SettlesBounds
<1>7. CASE timeStamp = None /\ session' = [session EXCEPT !.consecutive = @ + 1]
  <2>1. session'.pending = session.pending
    BY <1>2, <1>7 DEF HasSessionFields
  <2> QED
    BY <1>7, <2>1 DEF BoundsInv
<1> QED
  BY <1>3, <1>4, <1>5, <1>6, <1>7, SubmitSstSnapshotCases, SettlesEither
=============================================================================
