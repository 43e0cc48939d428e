-------------------------- MODULE DirectionEkfProofs --------------------------
(***************************************************************************)
(* Theorems about DirectionEkf, for every angle, rate and timeout, every   *)
(* length of the evidence and any number of measurements.                  *)
(***************************************************************************)
EXTENDS DirectionEkf, FiniteSetTheorems, WellFoundedInduction, TLAPS

(* Before the first measurement is taken no stamp is known.                *)
UnstartedInv ==
  estimate = None => filtered = 0 /\ seen = None /\ visual = None /\ sighted = None

(* The evidence is part of the first arrivals, in the order of their       *)
(* stamps: that is why removing the old from the front removes all of it.  *)
EvidenceInv ==
  /\ evidence \in Seq(arrivals)
  /\ \A i, j \in DOMAIN evidence : i <= j => evidence[i].time <= evidence[j].time

(* The anchor was heard first or seen.                                     *)
AnchorInv == anchor # None => anchor \in sightings \cup {a.dir : a \in arrivals}

(* The filter keeps the newest stamp of the camera.                        *)
SightInv == visual = sighted

EkfInv == EkfTypeOK /\ UnstartedInv /\ EvidenceInv /\ AnchorInv /\ SightInv

-----------------------------------------------------------------------------
(* What a challenger stands for.                                           *)

Marks == [dir : Bearings, time : Nat]

(* d is the next of C after c.                                             *)
Follows(C, c, d) ==
  c.time < d.time /\ \A e \in C : e.time <= c.time \/ d.time <= e.time

Linked(c, d) ==
  d.time - c.time <= ReacquireTimeout /\ Angle(c.dir, d.dir) <= 2 * Tolerance

(* Claims of different stamps, each near the one before.                   *)
Series(C) ==
  /\ C \in SUBSET Marks /\ IsFiniteSet(C)
  /\ \A c, d \in C : c.time = d.time => c = d
  /\ \A c, d \in C : Follows(C, c, d) => Linked(c, d)

(* The series C has led to the challenger p.  Its direction is a mean, so  *)
(* it lies nearer to the last two claims than they lie to each other.      *)
Backs(C, p) ==
  /\ Series(C) /\ Cardinality(C) = p.count
  /\ \A c \in C : c.time <= p.last
  /\ \E c \in C : c.time = p.first
  /\ \E l \in C : /\ l.time = p.last
                  /\ 2 * Angle(l.dir, p.dir) <= Tolerance
                  /\ \A c \in C : Follows(C, c, l) => Angle(c.dir, p.dir) <= Tolerance

(* The challenger is as new as the gate, so a silence ends it, and the     *)
(* claims it counts are remembered.                                        *)
ChallengerInv ==
  pending # None => pending.last = seen /\ \E C \in SUBSET claims : Backs(C, pending)

-----------------------------------------------------------------------------
(* The first and the last of a set of numbers.                             *)

LessThan == {p \in Nat \X Nat : p[1] < p[2]}

(* A set of naturals has a least element.                                  *)
LEMMA LeastExists ==
  ASSUME NEW S \in SUBSET Nat, S # {}
  PROVE  \E x \in S : \A y \in S : x <= y
<1>1. PICK x \in S : \A y \in S : ~(<<y, x>> \in LessThan)
  <2>1. IsWellFoundedOn(LessThan, Nat)
    BY NatLessThanWellFounded DEF LessThan, OpToRel
  <2> QED
    BY <2>1, WFMin
<1>2. \A y, z \in Nat : y < z => <<y, z>> \in LessThan
  BY DEF LessThan
<1>3. \A y \in S : x \in Nat /\ y \in Nat /\ ~(y < x)
  BY <1>1, <1>2
<1> QED
  BY <1>3

(* A set of places in a sequence has a last one, and Max returns it.       *)
LEMMA LastPlace ==
  ASSUME NEW n \in Nat, NEW S \in SUBSET (1 .. n), S # {}
  PROVE  Max(S) \in S
<1> DEFINE Above == {k \in Nat : \A y \in S : y <= k}
<1>1. n \in Above
  OBVIOUS
<1>2. PICK k \in Above : \A m \in Above : k <= m
  <2> HIDE DEF Above
  <2>1. Above \in SUBSET Nat
    BY DEF Above
  <2> QED
    BY <1>1, <2>1, LeastExists
<1>3. k \in S
  <2> SUFFICES ASSUME k \notin S  PROVE FALSE
    OBVIOUS
  <2>1. \A y \in S : y \in 1 .. n /\ y <= k /\ y # k
    BY <1>2
  <2>2. k # 0
    <3>1. PICK y \in S : TRUE
      OBVIOUS
    <3> QED
      BY <2>1, <3>1
  <2>3. k - 1 \in Nat /\ \A y \in S : y <= k - 1
    BY <2>1, <2>2
  <2> QED
    BY <1>2, <2>3
<1>4. \A y \in S : y <= k
  BY <1>2
<1> QED
  BY <1>3, <1>4 DEF Max

-----------------------------------------------------------------------------
(* The first-arrival gate.                                                 *)

(* Too old evidence is removed, and nothing else.                          *)
LEMMA KeptEvidence ==
  ASSUME EkfTypeOK, EvidenceInv, NEW t \in Nat
  PROVE  /\ Kept(t) \in Seq(arrivals) /\ Len(Kept(t)) <= Len(evidence)
         /\ \A i \in DOMAIN Kept(t) : t - Kept(t)[i].time <= EvidenceTtl
         /\ \A i, j \in DOMAIN Kept(t) : i <= j => Kept(t)[i].time <= Kept(t)[j].time
<1> DEFINE Recent == {i \in 1 .. Len(evidence) : t - evidence[i].time <= EvidenceTtl}
           first == SelectInSeq(evidence, LAMBDA e : t - e.time <= EvidenceTtl)
<1>1. /\ evidence \in Seq(arrivals) /\ Len(evidence) \in Nat
      /\ DOMAIN evidence = 1 .. Len(evidence)
      /\ \A i \in 1 .. Len(evidence) : evidence[i].time \in Nat
  BY DEF EkfTypeOK, EvidenceInv, Claims
<1>2. CASE Recent = {}
  <2>1. first = 0
    BY <1>2 DEF SelectInSeq
  <2>2. Kept(t) = <<>>
    BY <2>1 DEF Kept
  <2> QED
    BY <1>1, <2>2
<1>3. CASE Recent # {}
  <2>1. first = Min(Recent)
    BY <1>3 DEF SelectInSeq
  <2>2. first \in Recent
    <3> HIDE DEF first
    <3>1. Recent \in SUBSET Nat
      OBVIOUS
    <3>2. \E x \in Recent : \A y \in Recent : x <= y
      <4> HIDE DEF Recent
      <4> QED
        BY <1>3, <3>1, LeastExists
    <3> QED
      BY <2>1, <3>2 DEF Min
  <2>3. Kept(t) = SubSeq(evidence, first, Len(evidence))
    <3>1. first # 0
      BY <2>2
    <3> QED
      BY <3>1 DEF Kept
  <2> HIDE DEF first
  <2>4. /\ first \in 1 .. Len(evidence)
        /\ Kept(t) \in Seq(arrivals) /\ Len(Kept(t)) = Len(evidence) - first + 1
        /\ DOMAIN Kept(t) = 1 .. Len(evidence) - first + 1
        /\ \A i \in 1 .. Len(evidence) - first + 1 : Kept(t)[i] = evidence[first + i - 1]
    BY <1>1, <2>2, <2>3
  <2>5. \A i \in 1 .. Len(evidence) - first + 1 :
          /\ first + i - 1 \in 1 .. Len(evidence) /\ first <= first + i - 1
          /\ evidence[first].time <= evidence[first + i - 1].time
    BY <1>1, <2>4 DEF EvidenceInv
  <2>6. t - evidence[first].time <= EvidenceTtl
    BY <2>2
  <2>7. \A i \in DOMAIN Kept(t) : t - Kept(t)[i].time <= EvidenceTtl
    <3> SUFFICES ASSUME NEW i \in DOMAIN Kept(t)  PROVE t - Kept(t)[i].time <= EvidenceTtl
      OBVIOUS
    <3>1. /\ Kept(t)[i].time \in Nat /\ evidence[first].time \in Nat
          /\ evidence[first].time <= Kept(t)[i].time
      BY <1>1, <2>4, <2>5
    <3> QED
      BY <2>6, <3>1, EkfAssumption
  <2>8. \A i, j \in DOMAIN Kept(t) : i <= j => Kept(t)[i].time <= Kept(t)[j].time
    <3> SUFFICES ASSUME NEW i \in DOMAIN Kept(t), NEW j \in DOMAIN Kept(t), i <= j
                 PROVE  Kept(t)[i].time <= Kept(t)[j].time
      OBVIOUS
    <3>1. first + i - 1 <= first + j - 1
      BY <2>4
    <3>2. Kept(t)[i] = evidence[first + i - 1] /\ Kept(t)[j] = evidence[first + j - 1]
      BY <2>4
    <3> QED
      BY <1>1, <2>4, <2>5, <3>1, <3>2 DEF EvidenceInv
  <2> QED
    BY <1>1, <2>4, <2>7, <2>8
<1> QED
  BY <1>2, <1>3

(* A measurement that passes was heard first lately, or is near something  *)
(* heard first or seen.                                                    *)
LEMMA AuthorizedNear ==
  ASSUME EkfTypeOK, EvidenceInv, AnchorInv, NEW z \in Bearings, NEW t \in Nat, Authorized(z, t)
  PROVE  \/ \E a \in arrivals :
              /\ a.time <= t + Lead /\ t - a.time <= EvidenceTtl
              /\ Angle(z, a.dir) <= MatchAngle
         \/ \E d \in sightings \cup {a.dir : a \in arrivals} : Angle(z, d) <= AnchorDeviation
<1>1. CASE NearAnchor(z)
  BY <1>1 DEF NearAnchor, AnchorInv
<1>2. CASE Matching(z, t) # {}
  <2>1. PICK i \in DOMAIN Kept(t) :
          Kept(t)[i].time <= t + Lead /\ Angle(z, Kept(t)[i].dir) <= MatchAngle
    BY <1>2 DEF Matching
  <2>2. Kept(t)[i] \in arrivals /\ t - Kept(t)[i].time <= EvidenceTtl
    BY <2>1, KeptEvidence
  <2> QED
    BY <2>1, <2>2
<1> QED
  BY <1>1, <1>2 DEF Authorized

(* The new anchor was heard first.                                         *)
LEMMA AuthorizeKeeps ==
  ASSUME EkfTypeOK, EvidenceInv, AnchorInv, NEW z \in Bearings, NEW t \in Nat,
         FirstArrivalGate(z, t), UNCHANGED <<arrivals, sightings>>
  PROVE  /\ EvidenceInv' /\ AnchorInv'
         /\ Len(evidence') <= MaxEvidence /\ anchor' \in Bearings \cup {None}
<1>1. Len(evidence) \in Nat /\ Len(evidence) <= MaxEvidence
  BY DEF EvidenceInv, EkfTypeOK
<1>2. CASE UNCHANGED <<evidence, anchor>>
  BY <1>1, <1>2 DEF EkfTypeOK, EvidenceInv, AnchorInv
<1>3. CASE Authorize(z, t)
  <2>1. evidence' = Kept(t)
    BY <1>3 DEF Authorize
  <2>2. EvidenceInv' /\ Len(evidence') <= MaxEvidence
    <3>1. /\ Kept(t) \in Seq(arrivals) /\ Len(Kept(t)) <= Len(evidence)
          /\ \A i, j \in DOMAIN Kept(t) : i <= j => Kept(t)[i].time <= Kept(t)[j].time
      BY KeptEvidence
    <3>2. Len(Kept(t)) \in Nat
      BY <3>1
    <3> QED
      BY <1>1, <2>1, <3>1, <3>2, EkfAssumption DEF EvidenceInv
  <2>3. CASE Matching(z, t) = {}
    BY <1>3, <2>2, <2>3 DEF Authorize, AnchorInv, EkfTypeOK
  <2>4. CASE Matching(z, t) # {}
    <3>1. DOMAIN Kept(t) = 1 .. Len(Kept(t)) /\ Len(Kept(t)) \in Nat
      BY KeptEvidence
    <3>2. Max(Matching(z, t)) \in DOMAIN Kept(t)
      BY <2>4, <3>1, LastPlace DEF Matching
    <3>3. Kept(t)[Max(Matching(z, t))] \in arrivals
      BY <3>2, KeptEvidence
    <3>4. anchor' = Kept(t)[Max(Matching(z, t))].dir
      BY <1>3, <2>4 DEF Authorize, AnchorOf
    <3> QED
      BY <2>2, <3>3, <3>4 DEF AnchorInv, EkfTypeOK, Claims
  <2> QED
    BY <2>3, <2>4
<1> QED
  BY <1>2, <1>3 DEF FirstArrivalGate

-----------------------------------------------------------------------------
(* The types and the stamps, one action at a time.                         *)

(* Facts about stamps that every action needs.                             *)
LEMMA StampIsNat ==
  ASSUME EkfTypeOK, NEW t \in Stamps
  PROVE  t \in Nat /\ t \in 0 .. now /\ now \in Nat
BY DEF Stamps, EkfTypeOK

(* The gate's stamps and the estimate, apart from what the first-arrival   *)
(* gate and the camera own.                                                *)
TrackTypes ==
  /\ estimate \in Bearings \cup {None} /\ filtered \in 0 .. now
  /\ seen \in 0 .. filtered \cup {None}
  /\ accepted \in 0 .. filtered \cup {None}
  /\ accepted # None => seen # None /\ accepted <= seen
  /\ pending # None =>
       /\ seen # None /\ pending.dir \in Bearings /\ pending.count \in Nat \ {0}
       /\ pending.last \in 0 .. seen /\ pending.first \in 0 .. pending.last
  /\ taken \in Claims \cup {None} /\ claims \subseteq Claims

(* A prediction keeps the estimate on the arc and the stamps in order.     *)
LEMMA PredictKeeps ==
  ASSUME EkfTypeOK, estimate # None, NEW t \in Stamps, Predict(t)
  PROVE  /\ Predictions(t) \subseteq Bearings
         /\ filtered' \in 0 .. now /\ filtered <= filtered' /\ t <= filtered'
BY StampIsNat DEF Predict, Predictions, EkfTypeOK

(* An accepted measurement is the newest acceptance and no newer than what *)
(* was seen.                                                               *)
LEMMA MarkAcceptedKeeps ==
  ASSUME EkfTypeOK, NEW z \in Bearings, NEW t \in Stamps, MarkAccepted(z, t),
         estimate' \in Bearings, filtered' \in 0 .. now, t <= filtered',
         seen = None \/ seen <= filtered', now' = now
  PROVE  TrackTypes'
<1>1. t \in Nat /\ t \in 0 .. now /\ now \in Nat /\ filtered \in Nat
  BY StampIsNat DEF EkfTypeOK
<1>2. seen' \in Nat /\ t <= seen' /\ seen' <= filtered' /\ seen' # None
  <2>1. seen' = SeenNow(t)
    BY DEF MarkAccepted
  <2>2. seen = None \/ seen \in Nat
    BY <1>1 DEF EkfTypeOK
  <2>3. SeenNow(t) \in Nat /\ t <= SeenNow(t) /\ SeenNow(t) <= filtered'
    BY <1>1, <2>2 DEF SeenNow
  <2> QED
    BY <2>1, <2>3, EkfAssumption
<1>3. Bearing(z, t) \in Claims'
  BY <1>1 DEF Bearing, Claims
<1>4. accepted' = t /\ pending' = None /\ taken' \in Claims' /\ claims' = {}
  BY <1>3 DEF MarkAccepted
<1> QED
  BY <1>1, <1>2, <1>4, EkfAssumption DEF TrackTypes

(* A refused measurement is the newest seen; what is pending is no newer.  *)
LEMMA RefuseKeeps ==
  ASSUME EkfTypeOK, NEW z \in Bearings, NEW t \in Stamps, Refuse(z, t), ~Late(t),
         estimate' \in Bearings, filtered' \in 0 .. now, filtered <= filtered', t <= filtered',
         now' = now,
         pending' # None =>
           /\ pending'.dir \in Bearings /\ pending'.count \in Nat \ {0}
           /\ pending'.last \in 0 .. t /\ pending'.first \in 0 .. pending'.last
  PROVE  TrackTypes'
<1>1. t \in Nat /\ t \in 0 .. now /\ now \in Nat /\ filtered \in Nat
  BY StampIsNat DEF EkfTypeOK
<1>2. seen' = t /\ seen' # None /\ accepted' = accepted /\ taken' = None
  BY <1>1, EkfAssumption DEF Refuse, NothingTaken
<1>3. accepted' # None => accepted' \in 0 .. filtered' /\ accepted' <= seen'
  <2> SUFFICES ASSUME accepted # None  PROVE accepted \in 0 .. filtered' /\ accepted <= t
    BY <1>2
  <2>1. accepted \in 0 .. filtered /\ seen \in Nat /\ accepted <= seen /\ ~(t < seen)
    BY <1>1 DEF EkfTypeOK, Late
  <2> QED
    BY <1>1, <2>1
<1>4. Bearing(z, t) \in Claims' /\ Claims' = Claims
  BY <1>1 DEF Bearing, Claims
<1>5. claims' \subseteq Claims'
  BY <1>4 DEF Refuse, EkfTypeOK
<1> QED
  BY <1>1, <1>2, <1>3, <1>5 DEF TrackTypes

(* The challenger a suspicious measurement leaves.                         *)
LEMMA ChallengerTypes ==
  ASSUME EkfTypeOK, NEW z \in Bearings, NEW t \in Stamps, ~Late(t), NEW p \in Challengers(z, t)
  PROVE  /\ p.dir \in Bearings /\ p.count \in Nat \ {0}
         /\ p.last \in 0 .. t /\ p.first \in 0 .. p.last
<1>1. t \in Nat
  BY StampIsNat
<1>2. CASE p = Challenger(z, 1, t, t)
  BY <1>1, <1>2 DEF Challenger
<1>3. CASE /\ pending # None /\ Confirms(t)
           /\ \E d \in Bearings : p = Challenger(d, pending.count + 1, pending.first, t)
  <2>1. PICK d \in Bearings : p = Challenger(d, pending.count + 1, pending.first, t)
    BY <1>3
  <2>2. /\ p.dir = d /\ p.count = pending.count + 1 /\ p.first = pending.first /\ p.last = t
    BY <2>1 DEF Challenger
  <2>3. /\ pending.count \in Nat \ {0}
        /\ pending.last \in Nat /\ pending.first \in 0 .. pending.last /\ pending.last < t
    BY <1>3 DEF EkfTypeOK, Confirms
  <2> QED
    BY <1>1, <2>2, <2>3
<1>4. CASE pending # None /\ p = pending
  BY <1>1, <1>4 DEF EkfTypeOK, Late
<1> QED
  BY <1>2, <1>3, <1>4 DEF Challengers, Between

(* What an acoustic measurement leaves.                                    *)
LEMMA AcousticKeeps ==
  ASSUME EkfInv, NEW z \in Bearings, NEW t \in Stamps, Acoustic(z, t),
         TrackTypes', filtered <= filtered', UnstartedInv'
  PROVE  EkfInv'
<1>1. /\ mode' = mode /\ now' = now /\ arrivals' = arrivals /\ anchor' \in Bearings \cup {None}
      /\ visual' = visual /\ sightings' = sightings /\ sighted' = sighted
      /\ Len(evidence') <= MaxEvidence /\ EvidenceInv' /\ AnchorInv'
  <2>1. UNCHANGED <<mode, sight, arrivals, now>> /\ FirstArrivalGate(z, t)
    BY DEF Acoustic
  <2> QED
    BY <2>1, AuthorizeKeeps, StampIsNat DEF EkfInv, sight
<1>2. Claims' = Claims /\ arrivals \subseteq Claims /\ sightings \subseteq Bearings
  BY <1>1 DEF Claims, EkfInv, EkfTypeOK
<1>3. \A i \in DOMAIN evidence' : evidence'[i] \in Claims'
  BY <1>1, <1>2 DEF EvidenceInv
<1>4. /\ visual \in 0 .. filtered \cup {None} /\ sighted \in 0 .. filtered \cup {None}
      /\ mode \in Modes /\ now \in 0 .. MaxTime /\ filtered \in 0 .. now
  BY DEF EkfInv, EkfTypeOK
<1>5. filtered' \in 0 .. now
  BY <1>1 DEF TrackTypes
<1>6. visual' \in 0 .. filtered' \cup {None} /\ sighted' \in 0 .. filtered' \cup {None}
  BY <1>1, <1>4, <1>5, EkfAssumption
<1>7. EkfTypeOK'
  BY <1>1, <1>2, <1>3, <1>4, <1>6 DEF EkfTypeOK, TrackTypes
<1> QED
  BY <1>1, <1>7 DEF EkfInv, SightInv

(* A refused first arrival, or a late measurement, changes no stamp.       *)
LEMMA RejectionsKeep ==
  ASSUME EkfInv, NEW z \in Bearings, NEW t \in Stamps, RejectFirstArrival(z, t) \/ RejectLate(z, t)
  PROVE  EkfInv'
<1>1. /\ Acoustic(z, t) /\ NothingTaken /\ UNCHANGED continuity /\ now' = now
      /\ visual' = visual /\ sighted' = sighted
  BY DEF RejectFirstArrival, RejectLate, Acoustic, continuity, sight
<1>2. /\ estimate' = None => estimate = None /\ filtered' = filtered
      /\ estimate' \in Bearings \cup {None} /\ filtered' \in 0 .. now /\ filtered <= filtered'
  <2>1. CASE RejectFirstArrival(z, t)
    BY <2>1 DEF RejectFirstArrival, filter, EkfInv, EkfTypeOK
  <2>2. CASE RejectLate(z, t)
    BY <2>2, PredictKeeps, EkfAssumption DEF RejectLate, EkfInv, EkfTypeOK
  <2> QED
    BY <2>1, <2>2
<1>3. UNCHANGED <<seen, accepted, pending, claims>> /\ taken' = None
  BY <1>1 DEF continuity, NothingTaken
<1>4. TrackTypes'
  <2>1. TrackTypes /\ filtered \in Nat
    BY DEF EkfInv, EkfTypeOK, TrackTypes
  <2>2. 0 .. filtered \subseteq 0 .. filtered' /\ Claims' = Claims
    BY <1>1, <1>2, <2>1 DEF Claims
  <2> QED
    BY <1>1, <1>2, <1>3, <2>1, <2>2 DEF TrackTypes
<1>5. UnstartedInv'
  BY <1>1, <1>2, <1>3 DEF EkfInv, UnstartedInv
<1> QED
  BY <1>1, <1>2, <1>4, <1>5, AcousticKeeps

(* The filter takes its first measurement.                                 *)
LEMMA AcousticInitKeeps ==
  ASSUME EkfInv, NEW z \in Bearings, NEW t \in Stamps, AcousticInit(z, t)
  PROVE  EkfInv'
<1>1. /\ Acoustic(z, t) /\ MarkAccepted(z, t) /\ estimate = None /\ estimate' = z /\ filtered' = t
      /\ now' = now
  BY DEF AcousticInit, Acoustic
<1>2. seen = None /\ visual = None /\ sighted = None /\ filtered = 0
  BY <1>1 DEF EkfInv, UnstartedInv
<1>3. t \in Nat /\ t \in 0 .. now
  BY StampIsNat DEF EkfInv
<1>4. TrackTypes'
  BY <1>1, <1>2, <1>3, MarkAcceptedKeeps DEF EkfInv
<1>5. UnstartedInv'
  BY <1>1, EkfAssumption DEF UnstartedInv
<1> QED
  BY <1>1, <1>2, <1>3, <1>4, <1>5, AcousticKeeps

(* An update leaves the estimate on the arc, between two places of it.     *)
LEMMA CorrectedOnArc ==
  ASSUME NEW z \in Bearings, NEW predictions
  PROVE  Corrected(z, predictions) \subseteq Bearings
BY DEF Corrected, Between

(* The filter follows a measurement within the envelope, or refuses it.    *)
LEMMA FollowKeeps ==
  ASSUME EkfInv, NEW z \in Bearings, NEW t \in Stamps, Follow(z, t)
  PROVE  EkfInv'
<1>1. Acoustic(z, t) /\ Predict(t) /\ ~Late(t) /\ estimate # None /\ now' = now /\ EkfTypeOK
  BY DEF Follow, Acoustic, EkfInv
<1>2. /\ Predictions(t) \subseteq Bearings
      /\ filtered' \in 0 .. now /\ filtered <= filtered' /\ t <= filtered'
  BY <1>1, PredictKeeps
<1>3. TrackTypes' /\ estimate' \in Bearings
  <2>1. CASE estimate' \in Corrected(z, Plausible(z, t, TRUE)) /\ MarkAccepted(z, t)
    <3>1. estimate' \in Bearings
      BY <2>1, CorrectedOnArc
    <3>2. seen = None \/ seen <= filtered'
      BY <1>1, <1>2 DEF EkfTypeOK
    <3> QED
      BY <1>1, <1>2, <2>1, <3>1, <3>2, MarkAcceptedKeeps
  <2>2. CASE estimate' \in Plausible(z, t, FALSE) /\ pending' = None /\ Refuse(z, t)
    <3>1. estimate' \in Bearings
      BY <1>2, <2>2 DEF Plausible
    <3> QED
      BY <1>1, <1>2, <2>2, <3>1, RefuseKeeps
  <2> QED
    BY <2>1, <2>2 DEF Follow
<1>4. UnstartedInv'
  BY <1>3, EkfAssumption DEF UnstartedInv
<1> QED
  BY <1>1, <1>2, <1>3, <1>4, AcousticKeeps

(* The challenger is confirmed and takes over, or grows.                   *)
LEMMA ChallengeKeeps ==
  ASSUME EkfInv, NEW z \in Bearings, NEW t \in Stamps, Challenge(z, t)
  PROVE  EkfInv'
<1>1. Acoustic(z, t) /\ Predict(t) /\ ~Late(t) /\ estimate # None /\ now' = now /\ EkfTypeOK
  BY DEF Challenge, Acoustic, EkfInv
<1>2. /\ Predictions(t) \subseteq Bearings
      /\ filtered' \in 0 .. now /\ filtered <= filtered' /\ t <= filtered'
  BY <1>1, PredictKeeps
<1>3. TrackTypes' /\ estimate' \in Bearings
  <2>1. CASE estimate' = z /\ MarkAccepted(z, t)
    <3>1. seen = None \/ seen <= filtered'
      BY <1>1, <1>2 DEF EkfTypeOK
    <3> QED
      BY <1>1, <1>2, <2>1, <3>1, MarkAcceptedKeeps
  <2>2. CASE \E x \in Predictions(t), p \in Challengers(z, t) :
               estimate' = x /\ pending' = p /\ Refuse(z, t)
    <3>1. PICK p \in Challengers(z, t) : pending' = p
      BY <2>2
    <3>2. /\ p.dir \in Bearings /\ p.count \in Nat \ {0}
          /\ p.last \in 0 .. t /\ p.first \in 0 .. p.last
      BY <1>1, ChallengerTypes
    <3>3. estimate' \in Bearings /\ Refuse(z, t)
      BY <1>2, <2>2
    <3> QED
      BY <1>1, <1>2, <3>1, <3>2, <3>3, RefuseKeeps
  <2> QED
    BY <2>1, <2>2 DEF Challenge
<1>4. UnstartedInv'
  BY <1>3, EkfAssumption DEF UnstartedInv
<1> QED
  BY <1>1, <1>2, <1>3, <1>4, AcousticKeeps

(* A first arrival is the newest evidence.                                 *)
LEMMA FirstArrivalKeeps ==
  ASSUME EkfInv, NEW d \in Bearings, NEW t \in Stamps, FirstArrival(d, t)
  PROVE  EkfInv'
<1> DEFINE mark == Bearing(d, t)
           longer == Append(evidence, mark)
<1>1. /\ t \in Nat /\ mark \in Claims /\ mark.time = t
      /\ \A a \in arrivals : a.time <= t
      /\ arrivals' = arrivals \cup {mark}
      /\ evidence' = IF Len(longer) > MaxEvidence THEN Tail(longer) ELSE longer
      /\ UNCHANGED <<mode, filter, continuity, sight, anchor, now>> /\ taken' = None
  BY StampIsNat DEF FirstArrival, EkfInv, Bearing, Claims, NothingTaken
<1>2. /\ evidence \in Seq(arrivals') /\ mark \in arrivals' /\ Len(evidence) \in Nat
      /\ Len(evidence) <= MaxEvidence /\ DOMAIN evidence = 1 .. Len(evidence)
  BY <1>1 DEF EkfInv, EvidenceInv, EkfTypeOK
<1> HIDE DEF mark
<1>3. /\ longer \in Seq(arrivals') /\ Len(longer) = Len(evidence) + 1
      /\ \A i \in 1 .. Len(evidence) : longer[i] = evidence[i]
      /\ longer[Len(evidence) + 1] = mark
  BY <1>2
<1>4. \A i, j \in 1 .. Len(evidence) + 1 : i <= j => longer[i].time <= longer[j].time
  <2> SUFFICES ASSUME NEW i \in 1 .. Len(evidence) + 1, NEW j \in 1 .. Len(evidence) + 1, i <= j
               PROVE  longer[i].time <= longer[j].time
    OBVIOUS
  <2>1. CASE j \in 1 .. Len(evidence)
    <3>1. i \in 1 .. Len(evidence)
      BY <1>2, <2>1
    <3>2. evidence[i].time <= evidence[j].time
      BY <1>2, <2>1, <3>1 DEF EkfInv, EvidenceInv
    <3> QED
      BY <1>3, <2>1, <3>1, <3>2
  <2>2. CASE i \in 1 .. Len(evidence) /\ j = Len(evidence) + 1
    <3>1. evidence[i] \in arrivals
      BY <2>2 DEF EkfInv, EvidenceInv
    <3> QED
      BY <1>1, <1>3, <2>2, <3>1
  <2>3. CASE i = Len(evidence) + 1 /\ j = Len(evidence) + 1
    BY <1>1, <1>3, <2>3
  <2> QED
    BY <1>2, <2>1, <2>2, <2>3
<1> HIDE DEF longer
<1>5. evidence' \in Seq(arrivals') /\ Len(evidence') <= MaxEvidence
  <2>1. CASE Len(longer) > MaxEvidence
    <3>1. evidence' = Tail(longer) /\ longer # <<>>
      BY <1>1, <1>2, <1>3, <2>1
    <3>2. Tail(longer) \in Seq(arrivals') /\ Len(Tail(longer)) = Len(longer) - 1
      BY <1>3, <3>1
    <3> QED
      BY <1>2, <1>3, <3>1, <3>2, EkfAssumption
  <2>2. CASE ~(Len(longer) > MaxEvidence)
    BY <1>1, <1>2, <1>3, <2>2, EkfAssumption
  <2> QED
    BY <2>1, <2>2
<1>6. \A i, j \in DOMAIN evidence' : i <= j => evidence'[i].time <= evidence'[j].time
  <2>1. CASE evidence' = Tail(longer)
    <3>1. \A i \in DOMAIN Tail(longer) :
            i + 1 \in 1 .. Len(evidence) + 1 /\ Tail(longer)[i] = longer[i + 1]
      BY <1>2, <1>3
    <3> SUFFICES ASSUME NEW i \in DOMAIN Tail(longer), NEW j \in DOMAIN Tail(longer), i <= j
                 PROVE  Tail(longer)[i].time <= Tail(longer)[j].time
      BY <2>1
    <3>2. i + 1 <= j + 1
      BY <1>2, <1>3
    <3> QED
      BY <1>4, <3>1, <3>2
  <2>2. CASE evidence' = longer
    BY <1>3, <1>4, <2>2
  <2> QED
    BY <1>1, <2>1, <2>2
<1>7. EvidenceInv' /\ AnchorInv'
  BY <1>1, <1>5, <1>6 DEF EvidenceInv, AnchorInv, EkfInv, sight
<1>8. EkfTypeOK'
  <2>1. Claims' = Claims /\ arrivals' \subseteq Claims
    BY <1>1 DEF Claims, EkfInv, EkfTypeOK
  <2>2. \A i \in DOMAIN evidence' : evidence'[i] \in Claims'
    BY <1>5, <2>1
  <2> QED
    BY <1>1, <1>5, <2>1, <2>2 DEF EkfInv, EkfTypeOK, filter, continuity, sight
<1> QED
  BY <1>1, <1>7, <1>8 DEF EkfInv, UnstartedInv, SightInv, filter, continuity, sight

(* The camera's measurements: what is seen becomes the anchor.             *)
LEMMA SightKeeps ==
  ASSUME EkfInv, NEW z \in Bearings, NEW t \in Stamps, Sight(z, t),
         estimate' \in Bearings, filtered' \in 0 .. now, filtered <= filtered', t <= filtered',
         taken' = None, UNCHANGED <<mode, continuity, evidence, arrivals, now>>
  PROVE  EkfInv'
<1>1. t \in Nat /\ filtered \in Nat /\ filtered' \in Nat
  BY StampIsNat DEF EkfInv, EkfTypeOK
<1>2. /\ visual' = IF visual = None \/ t > visual THEN t ELSE visual
      /\ sighted' = IF sighted = None \/ t > sighted THEN t ELSE sighted
      /\ anchor' = z /\ sightings' = sightings \cup {z}
  BY DEF Sight, Newest
<1>3. visual \in 0 .. filtered \cup {None} /\ visual = sighted
  BY DEF EkfInv, EkfTypeOK, SightInv
<1>4. visual' \in 0 .. filtered' /\ sighted' = visual'
  BY <1>1, <1>2, <1>3, EkfAssumption
<1>5. /\ seen' = seen /\ accepted' = accepted /\ pending' = pending /\ claims' = claims
      /\ mode' = mode /\ now' = now /\ evidence' = evidence /\ arrivals' = arrivals
      /\ Claims' = Claims
  BY DEF continuity, Claims
<1>6. seen \in 0 .. filtered' \cup {None} /\ accepted \in 0 .. filtered' \cup {None}
  BY <1>1 DEF EkfInv, EkfTypeOK
<1>7. EkfTypeOK'
  BY <1>2, <1>4, <1>5, <1>6 DEF EkfInv, EkfTypeOK
<1>8. EvidenceInv' /\ AnchorInv'
  BY <1>2, <1>5 DEF EkfInv, EvidenceInv, AnchorInv
<1> QED
  BY <1>4, <1>7, <1>8, EkfAssumption DEF EkfInv, UnstartedInv, SightInv

(* The camera's first measurement, or a later one, taken or refused.       *)
LEMMA VisualKeeps ==
  ASSUME EkfInv, NEW z \in Bearings, NEW t \in Stamps, VisualInit(z, t) \/ VisualUpdate(z, t)
  PROVE  EkfInv'
<1>1. /\ taken' = None /\ UNCHANGED <<mode, continuity, evidence, arrivals, now>>
      /\ t \in Nat /\ t \in 0 .. now
  BY StampIsNat DEF VisualInit, VisualUpdate, NothingTaken, EkfInv
<1>2. CASE VisualInit(z, t)
  <2>1. filtered = 0 /\ estimate' = z /\ filtered' = t /\ Sight(z, t)
    BY <1>2 DEF VisualInit, EkfInv, UnstartedInv
  <2> QED
    BY <1>1, <2>1, SightKeeps
<1>3. CASE VisualUpdate(z, t)
  <2>1. /\ Predictions(t) \subseteq Bearings
        /\ filtered' \in 0 .. now /\ filtered <= filtered' /\ t <= filtered'
    BY <1>3, PredictKeeps DEF VisualUpdate, EkfInv
  <2>2. CASE estimate' \in Corrected(z, Predictions(t)) /\ Sight(z, t)
    <3>1. estimate' \in Bearings
      BY <2>2, CorrectedOnArc
    <3> QED
      BY <1>1, <2>1, <2>2, <3>1, SightKeeps
  <2>3. CASE estimate' \in Predictions(t) /\ UNCHANGED <<sight, anchor>>
    <3>1. estimate' \in Bearings
      BY <2>1, <2>3
    <3>2. /\ seen' = seen /\ accepted' = accepted /\ pending' = pending /\ claims' = claims
          /\ mode' = mode /\ now' = now /\ evidence' = evidence /\ arrivals' = arrivals
          /\ visual' = visual /\ sightings' = sightings /\ sighted' = sighted
          /\ anchor' = anchor /\ Claims' = Claims
      BY <1>1, <2>3 DEF continuity, sight, Claims
    <3>3. 0 .. filtered \subseteq 0 .. filtered'
      BY <2>1 DEF EkfInv, EkfTypeOK
    <3>4. EkfTypeOK'
      BY <1>1, <2>1, <3>1, <3>2, <3>3 DEF EkfInv, EkfTypeOK
    <3>5. EvidenceInv' /\ AnchorInv' /\ SightInv'
      BY <3>2 DEF EkfInv, EvidenceInv, AnchorInv, SightInv
    <3> QED
      BY <3>1, <3>4, <3>5, EkfAssumption DEF EkfInv, UnstartedInv
  <2> QED
    BY <1>3, <2>2, <2>3 DEF VisualUpdate
<1> QED
  BY <1>2, <1>3

(* Nothing but the clock moves.                                            *)
LEMMA PassTimeKeeps ==
  ASSUME EkfInv, PassTime
  PROVE  EkfInv'
<1>1. /\ now' = now + 1 /\ now' \in 0 .. MaxTime /\ now \in Nat /\ taken' = None
      /\ UNCHANGED <<mode, estimate, filtered, seen, accepted, pending, claims, visual, sightings,
                     sighted, evidence, anchor, arrivals>>
  BY EkfAssumption DEF PassTime, EkfInv, EkfTypeOK, filter, continuity, sight, NothingTaken
<1>2. Claims \subseteq Claims'
  BY <1>1 DEF Claims
<1>3. filtered \in 0 .. now'
  BY <1>1 DEF EkfInv, EkfTypeOK
<1>4. EkfTypeOK'
  BY <1>1, <1>2, <1>3 DEF EkfInv, EkfTypeOK
<1> QED
  BY <1>1, <1>4 DEF EkfInv, UnstartedInv, EvidenceInv, AnchorInv, SightInv

(* EkfInv is inductive.                                                    *)
LEMMA InitEkfInv ==
  ASSUME EkfInit
  PROVE  EkfInv
BY EkfAssumption DEF EkfInit, EkfInv, EkfTypeOK, UnstartedInv, EvidenceInv, AnchorInv, SightInv,
                     Claims

LEMMA NextEkfInv ==
  ASSUME EkfInv, [EkfNext]_ekfVars
  PROVE  EkfInv'
<1>1. CASE UNCHANGED ekfVars
  BY <1>1 DEF ekfVars, filter, continuity, sight, EkfInv, EkfTypeOK, UnstartedInv, EvidenceInv,
              AnchorInv, SightInv, Claims
<1>2. CASE PassTime
  BY <1>2, PassTimeKeeps
<1>3. ASSUME NEW z \in Bearings, NEW t \in Stamps,
             \/ FirstArrival(z, t)
             \/ RejectFirstArrival(z, t) \/ AcousticInit(z, t) \/ RejectLate(z, t)
             \/ Follow(z, t) \/ Challenge(z, t)
             \/ VisualInit(z, t) \/ VisualUpdate(z, t)
      PROVE  EkfInv'
  BY <1>3, FirstArrivalKeeps, RejectionsKeep, AcousticInitKeeps, FollowKeeps, ChallengeKeeps,
     VisualKeeps
<1> QED
  BY <1>1, <1>2, <1>3 DEF EkfNext

(* The invariant of the filter and its gates.                              *)
THEOREM EkfInvariant == EkfSpec => []EkfInv
<1>1. EkfInit => EkfInv
  BY InitEkfInv
<1>2. EkfInv /\ [EkfNext]_ekfVars => EkfInv'
  BY NextEkfInv
<1> QED
  BY <1>1, <1>2, PTL DEF EkfSpec

(* The estimate and all stamps are well typed, and the gate's four stamps  *)
(* keep their order, on whatever path each is set                          *)
(* (bearing_continuity_gate.hpp:72-129, 139-153).                          *)
THEOREM EkfTypesHold == EkfSpec => []EkfTypeOK
<1>1. EkfInv => EkfTypeOK
  BY DEF EkfInv
<1> QED
  BY <1>1, EkfInvariant, PTL

-----------------------------------------------------------------------------
(* What the filter takes.                                                  *)

(* Each way to take an acoustic measurement passes the first-arrival gate. *)
LEMMA TakenPasses ==
  ASSUME EkfInv, EkfNext, AcousticTaken
  PROVE  \E z \in Bearings, t \in Stamps :
           /\ taken' = Bearing(z, t) /\ PassesFirstArrival(z, t)
           /\ \/ estimate = None
              \/ Follow(z, t) /\ estimate' \in Corrected(z, Plausible(z, t, TRUE))
              \/ Challenge(z, t) /\ MarkAccepted(z, t)
<1>1. PICK z \in Bearings, t \in Stamps :
        AcousticInit(z, t) \/ Follow(z, t) \/ Challenge(z, t)
  BY DEF EkfNext, PassTime, FirstArrival, RejectFirstArrival, RejectLate, VisualInit, VisualUpdate,
         NothingTaken, AcousticTaken
<1>2. CASE AcousticInit(z, t)
  BY <1>2 DEF AcousticInit, MarkAccepted
<1>3. CASE Follow(z, t)
  BY <1>3 DEF Follow, MarkAccepted, Refuse, NothingTaken, AcousticTaken
<1>4. CASE Challenge(z, t)
  BY <1>4 DEF Challenge, MarkAccepted, Refuse, NothingTaken, AcousticTaken
<1> QED
  BY <1>1, <1>2, <1>3, <1>4

(* With the first-arrival gate enforced, sound that the filter takes came  *)
(* from near a direction heard first or seen, however many measurements    *)
(* passed near the anchor before (direct_path_gate.hpp:99-112).            *)
THEOREM TakenNearFirstArrivalHolds == EkfSpec => TakenNearFirstArrival
<1> DEFINE Near ==
      mode = "enforce" /\ AcousticTaken
      => \/ \E a \in arrivals :
              /\ a.time <= taken'.time + Lead /\ taken'.time - a.time <= EvidenceTtl
              /\ Angle(taken'.dir, a.dir) <= MatchAngle
         \/ \E d \in sightings \cup {a.dir : a \in arrivals} :
              Angle(taken'.dir, d) <= AnchorDeviation
<1>1. EkfInv /\ EkfNext => Near
  <2> SUFFICES ASSUME EkfInv, EkfNext, mode = "enforce", AcousticTaken
               PROVE  \/ \E a \in arrivals :
                           /\ a.time <= taken'.time + Lead /\ taken'.time - a.time <= EvidenceTtl
                           /\ Angle(taken'.dir, a.dir) <= MatchAngle
                      \/ \E d \in sightings \cup {a.dir : a \in arrivals} :
                           Angle(taken'.dir, d) <= AnchorDeviation
    OBVIOUS
  <2>1. PICK z \in Bearings, t \in Stamps : taken' = Bearing(z, t) /\ PassesFirstArrival(z, t)
    BY TakenPasses
  <2>2. Authorized(z, t) /\ taken'.dir = z /\ taken'.time = t
    BY <2>1 DEF PassesFirstArrival, Bearing
  <2>3. t \in Nat /\ EkfTypeOK /\ EvidenceInv /\ AnchorInv
    BY StampIsNat DEF EkfInv
  <2> QED
    BY <2>2, <2>3, AuthorizedNear
<1>2. EkfInv /\ [EkfNext]_ekfVars => [Near]_ekfVars
  BY <1>1
<1> QED
  BY <1>2, EkfInvariant, PTL DEF EkfSpec, TakenNearFirstArrival

(* Angles on the arc add up.                                               *)
LEMMA AngleSum ==
  ASSUME NEW a \in Nat, NEW b \in Nat, NEW c \in Nat
  PROVE  /\ Angle(a, b) \in Nat /\ Angle(a, b) = Angle(b, a)
         /\ Angle(a, c) <= Angle(a, b) + Angle(b, c)
         /\ (a <= b /\ b <= c) \/ (c <= b /\ b <= a) => Angle(a, b) <= Angle(a, c)
BY DEF Angle

(* Only a confirmed challenger moves the track further than the hard cap   *)
(* and one prediction, and only without a fresh sighting.                  *)
LEMMA JumpIsChallenge ==
  ASSUME EkfInv, EkfNext, AcousticJump
  PROVE  \E z \in Bearings, t \in Stamps :
           /\ taken' = Bearing(z, t) /\ ~Late(t)
           /\ \E p \in Challengers(z, t) : Confirmed(p) /\ ~VisualIsFresh(t)
<1>1. PICK z \in Bearings, t \in Stamps :
        /\ taken' = Bearing(z, t)
        /\ \/ Follow(z, t) /\ estimate' \in Corrected(z, Plausible(z, t, TRUE))
           \/ Challenge(z, t) /\ MarkAccepted(z, t)
  BY TakenPasses DEF AcousticJump
<1>2. ~(Follow(z, t) /\ estimate' \in Corrected(z, Plausible(z, t, TRUE)))
  <2> SUFFICES ASSUME estimate' \in Corrected(z, Plausible(z, t, TRUE))  PROVE FALSE
    OBVIOUS
  <2>1. PICK x \in Predictions(t) : ~Suspicious(z, t, x, TRUE) /\ estimate' \in Between(x, z)
    BY DEF Corrected, Plausible
  <2>2. x \in Nat /\ z \in Nat /\ estimate \in Nat /\ estimate' \in Nat
    BY <2>1, EkfAssumption DEF Predictions, Between, AcousticJump, EkfInv, EkfTypeOK
  <2>3. Angle(z, x) <= MaxAngle /\ Angle(x, estimate) <= Drift
    BY <2>1, <2>2, EkfAssumption DEF Suspicious, Predictions, Angle
  <2>4. (x <= estimate' /\ estimate' <= z) \/ (z <= estimate' /\ estimate' <= x)
    BY <2>1 DEF Between
  <2>5. Angle(x, estimate') <= MaxAngle
    <3>1. Angle(x, estimate') <= Angle(x, z) /\ Angle(x, z) = Angle(z, x)
      BY <2>2, <2>4, AngleSum
    <3>2. Angle(x, estimate') \in Nat /\ Angle(x, z) \in Nat
      BY <2>2, AngleSum
    <3> QED
      BY <2>3, <3>1, <3>2, EkfAssumption
  <2>6. Angle(estimate, estimate') <= MaxAngle + Drift /\ Angle(estimate, estimate') \in Nat
    <3>1. Angle(estimate, estimate') <= Angle(estimate, x) + Angle(x, estimate')
      BY <2>2, AngleSum
    <3>2. Angle(estimate, x) <= Drift
      BY <2>2, <2>3, AngleSum
    <3>3. /\ Angle(estimate, estimate') \in Nat /\ Angle(estimate, x) \in Nat
          /\ Angle(x, estimate') \in Nat
      BY <2>2, AngleSum
    <3> QED
      BY <2>5, <3>1, <3>2, <3>3, EkfAssumption
  <2>7. Angle(estimate, estimate') > MaxAngle + Drift
    BY DEF AcousticJump
  <2> QED
    BY <2>6, <2>7, EkfAssumption
<1>3. ~Late(t) /\ \E p \in Challengers(z, t) : Confirmed(p) /\ ~VisualIsFresh(t)
  BY <1>1, <1>2 DEF Challenge, Refuse, NothingTaken, AcousticJump, AcousticTaken
<1> QED
  BY <1>1, <1>3

(* A track the camera updated lately is not deposed by sound, in whatever  *)
(* order the camera's updates arrived (ekf_node.cpp:217-218, 260).         *)
THEOREM SightHoldsTrackHolds == EkfSpec => SightHoldsTrack
<1> DEFINE Holds == AcousticJump => sighted = None \/ Angle(taken'.time, sighted) > ReacquireTimeout
<1>1. EkfInv /\ EkfNext => Holds
  <2> SUFFICES ASSUME EkfInv, EkfNext, AcousticJump, sighted # None
               PROVE  Angle(taken'.time, sighted) > ReacquireTimeout
    OBVIOUS
  <2>1. PICK z \in Bearings, t \in Stamps : taken' = Bearing(z, t) /\ ~VisualIsFresh(t)
    BY JumpIsChallenge
  <2>2. t \in Nat /\ sighted \in Nat /\ visual = sighted /\ taken'.time = t
    BY <2>1, StampIsNat DEF EkfInv, EkfTypeOK, SightInv, Bearing
  <2> QED
    BY <2>1, <2>2, EkfAssumption DEF VisualIsFresh, Angle
<1>2. EkfInv /\ [EkfNext]_ekfVars => [Holds]_ekfVars
  BY <1>1
<1> QED
  BY <1>2, EkfInvariant, PTL DEF EkfSpec, SightHoldsTrack

-----------------------------------------------------------------------------
(* Persistence: the claims behind a confirmed challenger.                  *)

(* The mean of two directions within Tolerance lies within half of it from *)
(* each, since Tolerance is even.                                          *)
LEMMA MeanIsNear ==
  ASSUME NEW a \in Nat, NEW b \in Nat, NEW d \in Nat,
         Angle(a, b) <= Tolerance, Angle(2 * d, a + b) <= 1
  PROVE  2 * Angle(a, d) <= Tolerance /\ 2 * Angle(b, d) <= Tolerance
<1>1. PICK k \in Nat : Tolerance = 2 * k
  BY EkfAssumption
<1>2. a - b <= 2 * k /\ b - a <= 2 * k
  BY <1>1 DEF Angle
<1>3. 2 * d - (a + b) <= 1 /\ (a + b) - 2 * d <= 1
  BY DEF Angle
<1>4. a - d <= k /\ d - a <= k /\ b - d <= k /\ d - b <= k
  BY <1>2, <1>3
<1>5. Angle(a, d) \in Nat /\ Angle(a, d) <= k /\ Angle(b, d) \in Nat /\ Angle(b, d) <= k
  BY <1>4 DEF Angle
<1> QED
  BY <1>1, <1>5

(* One claim is a series.                                                  *)
LEMMA SeriesStarts ==
  ASSUME NEW e \in Marks
  PROVE  Series({e}) /\ Cardinality({e}) = 1 /\ \A c \in {e} : ~Follows({e}, c, e)
<1>1. e.time \in Nat /\ ~(e.time < e.time)
  BY DEF Marks
<1>2. IsFiniteSet({e}) /\ Cardinality({e}) = 1
  BY FS_Singleton
<1>3. \A c, d \in {e} : c = e /\ d = e /\ ~Follows({e}, c, d)
  BY <1>1 DEF Follows
<1> QED
  BY <1>2, <1>3 DEF Series

(* A claim later than all of a series, near its last, makes it longer.     *)
LEMMA SeriesExtends ==
  ASSUME NEW C, Series(C), NEW l \in C, \A c \in C : c.time <= l.time,
         NEW e \in Marks, l.time < e.time, Linked(l, e)
  PROVE  /\ Series(C \cup {e}) /\ Cardinality(C \cup {e}) = Cardinality(C) + 1
         /\ \A c \in C \cup {e} : Follows(C \cup {e}, c, e) => c = l
<1>1. /\ \A c \in C : c.time \in Nat /\ c.time < e.time /\ c # e
      /\ e.time \in Nat /\ C \in SUBSET Marks
  BY DEF Series, Marks
<1>2. IsFiniteSet(C \cup {e}) /\ Cardinality(C \cup {e}) = Cardinality(C) + 1
  BY <1>1, FS_AddElement DEF Series
<1>3. \A c \in C \cup {e} : Follows(C \cup {e}, c, e) => c = l
  <2> SUFFICES ASSUME NEW c \in C \cup {e}, Follows(C \cup {e}, c, e)  PROVE c = l
    OBVIOUS
  <2>1. c \in C /\ (l.time <= c.time \/ e.time <= l.time)
    BY <1>1 DEF Follows
  <2>2. c.time = l.time
    BY <1>1, <2>1
  <2> QED
    BY <2>1, <2>2 DEF Series
<1>4. \A c, d \in C \cup {e} : c.time = d.time => c = d
  BY <1>1 DEF Series
<1>5. \A c, d \in C \cup {e} : Follows(C \cup {e}, c, d) => Linked(c, d)
  <2> SUFFICES ASSUME NEW c \in C \cup {e}, NEW d \in C \cup {e}, Follows(C \cup {e}, c, d)
               PROVE  Linked(c, d)
    OBVIOUS
  <2>1. CASE d = e
    BY <1>3, <2>1
  <2>2. CASE d \in C
    <3>1. c \in C
      BY <1>1, <2>2 DEF Follows
    <3>2. Follows(C, c, d)
      BY DEF Follows
    <3> QED
      BY <2>2, <3>1, <3>2 DEF Series
  <2> QED
    BY <2>1, <2>2
<1> QED
  BY <1>1, <1>2, <1>3, <1>4, <1>5 DEF Series

(* Another claim of the same stamp may stand for the last of a series.     *)
LEMMA SeriesReplaces ==
  ASSUME NEW C, Series(C), NEW l \in C, \A c \in C : c.time <= l.time,
         NEW e \in Marks, e.time = l.time, \A c \in C : Follows(C, c, l) => Linked(c, e),
         NEW D, D = (C \ {l}) \cup {e}
  PROVE  Series(D) /\ Cardinality(D) = Cardinality(C)
<1>1. /\ \A c \in C : c.time \in Nat /\ c.time <= e.time
      /\ \A c \in C \ {l} : c.time < e.time /\ c # e
      /\ e.time \in Nat /\ C \in SUBSET Marks /\ IsFiniteSet(C)
      /\ \A c, d \in C : c.time = d.time => c = d
  BY DEF Series, Marks
<1>2. IsFiniteSet(D) /\ Cardinality(D) = Cardinality(C)
  <2>1. IsFiniteSet(C \ {l}) /\ Cardinality(C \ {l}) = Cardinality(C) - 1 /\ Cardinality(C) \in Nat
    BY <1>1, FS_RemoveElement, FS_CardinalityType
  <2>2. e \notin C \ {l}
    BY <1>1
  <2>3. IsFiniteSet(D) /\ Cardinality(D) = Cardinality(C \ {l}) + 1
    BY <2>1, <2>2, FS_AddElement
  <2> QED
    BY <2>1, <2>3
<1>3. \A c, d \in D : c.time = d.time => c = d
  BY <1>1
<1>4. \A c, d \in D : Follows(D, c, d) => Linked(c, d)
  <2> SUFFICES ASSUME NEW c \in D, NEW d \in D, Follows(D, c, d)
               PROVE  Linked(c, d)
    OBVIOUS
  <2>1. c \in C \ {l} /\ c.time < d.time /\ \A s \in D : s.time <= c.time \/ d.time <= s.time
    BY <1>1 DEF Follows
  <2>2. CASE d = e
    <3>1. Follows(C, c, l)
      BY <2>1, <2>2 DEF Follows
    <3> QED
      BY <2>1, <2>2, <3>1
  <2>3. CASE d \in C \ {l}
    <3>1. l.time <= c.time \/ d.time <= l.time
      BY <2>3
    <3>2. Follows(C, c, d)
      BY <2>1, <3>1 DEF Follows
    <3> QED
      BY <2>1, <2>3, <3>2 DEF Series
  <2> QED
    BY <2>2, <2>3
<1> QED
  BY <1>1, <1>2, <1>3, <1>4 DEF Series

(* A series that is long enough, and lasts long enough, is persistent.     *)
LEMMA SeriesPersists ==
  ASSUME NEW C, Series(C), Cardinality(C) >= Confirmations,
         \E c, d \in C : d.time - c.time >= ConfirmationTime
  PROVE  Persistent(C)
<1> DEFINE stamps == {c.time : c \in C}
           Nexts(c) == {d \in C : c.time < d.time /\ \A s \in stamps : s <= c.time \/ d.time <= s}
           f == [c \in C |-> c.time]
<1>1. Cardinality(stamps) = Cardinality(C)
  <2>1. IsFiniteSet(C) /\ \A c, d \in C : c.time = d.time => c = d
    BY DEF Series
  <2>2. f \in Surjection(C, stamps) /\ f \in Injection(C, stamps)
    <3>1. f \in [C -> stamps] /\ \A c \in C : f[c] = c.time
      OBVIOUS
    <3>2. \A s \in stamps : \E c \in C : f[c] = s
      BY <3>1
    <3>3. \A c, d \in C : f[c] = f[d] => c = d
      BY <2>1, <3>1
    <3> HIDE DEF f, stamps
    <3> QED
      BY <3>1, <3>2, <3>3 DEF Surjection, Injection, IsInjective
  <2> HIDE DEF f, stamps
  <2> QED
    BY <2>1, <2>2, FS_Surjection
<1>2. \A c \in C : \A d \in Nexts(c) : /\ d.time - c.time <= ReacquireTimeout
                                      /\ Angle(c.dir, d.dir) <= 2 * Tolerance
  <2> SUFFICES ASSUME NEW c \in C, NEW d \in Nexts(c)  PROVE Linked(c, d)
    BY DEF Linked
  <2>1. Follows(C, c, d)
    BY DEF Follows
  <2> QED
    BY <2>1 DEF Series
<1> QED
  BY <1>1, <1>2 DEF Persistent

(* The three ways a challenger comes about: from nothing, by confirmation, *)
(* or unchanged by another measurement of its last stamp.                  *)
LEMMA ChallengerCases ==
  ASSUME EkfInv, ChallengerInv, NEW z \in Bearings, NEW t \in Stamps, ~Late(t),
         NEW p \in Challengers(z, t)
  PROVE  \/ p = Challenger(z, 1, t, t)
         \/ /\ pending # None /\ pending.last < t /\ t - pending.last <= ReacquireTimeout
            /\ Angle(z, pending.dir) <= Tolerance
            /\ \E d \in Bearings : /\ p = Challenger(d, pending.count + 1, pending.first, t)
                                   /\ Angle(2 * d, z + pending.dir) <= 1
         \/ /\ pending # None /\ pending.last = t /\ p = pending
            /\ Angle(z, pending.dir) <= Tolerance
<1> SUFFICES ASSUME p # Challenger(z, 1, t, t)
             PROVE  /\ pending # None /\ Angle(z, pending.dir) <= Tolerance
                    /\ \/ /\ pending.last < t /\ t - pending.last <= ReacquireTimeout
                          /\ \E d \in Bearings :
                               /\ p = Challenger(d, pending.count + 1, pending.first, t)
                               /\ Angle(2 * d, z + pending.dir) <= 1
                       \/ pending.last = t /\ p = pending
  OBVIOUS
<1>1. /\ pending # None /\ ~SourceGap(t) /\ ~(Angle(z, pending.dir) > Tolerance)
      /\ \/ /\ Confirms(t)
            /\ \E d \in Bearings :
                 /\ p = Challenger(d, pending.count + 1, pending.first, t)
                 /\ Angle(2 * d, z + pending.dir) <= 1
         \/ ~Confirms(t) /\ p = pending
  BY DEF Challengers, Between
<1>2. /\ pending.dir \in Nat /\ z \in Nat /\ t \in Nat /\ seen \in Nat
      /\ pending.last = seen /\ seen # None
  <2>1. t \in Nat
    BY StampIsNat DEF EkfInv
  <2>2. pending.dir \in Nat /\ z \in Nat /\ seen # None
    BY <1>1, EkfAssumption DEF EkfInv, EkfTypeOK
  <2>3. seen \in Nat
    BY <2>2 DEF EkfInv, EkfTypeOK
  <2>4. pending.last = seen
    BY <1>1 DEF ChallengerInv
  <2> QED
    BY <2>1, <2>2, <2>3, <2>4
<1>3. Angle(z, pending.dir) <= Tolerance
  <2>1. Angle(z, pending.dir) \in Nat
    BY <1>2, AngleSum
  <2> QED
    BY <1>1, <2>1, EkfAssumption
<1>4. t - pending.last <= ReacquireTimeout /\ ~(t < pending.last)
  BY <1>1, <1>2, EkfAssumption DEF SourceGap, Late
<1> QED
  BY <1>1, <1>2, <1>3, <1>4 DEF Confirms

(* How the last claim behind the challenger and the one before it lie to a *)
(* measurement near its direction.                                         *)
LEMMA BackedLinks ==
  ASSUME EkfInv, pending # None, NEW C \in SUBSET Marks, NEW z \in Bearings,
         Angle(z, pending.dir) <= Tolerance,
         NEW c \in C, Angle(c.dir, pending.dir) <= Tolerance
  PROVE  Angle(c.dir, z) <= 2 * Tolerance
<1>1. c.dir \in Nat /\ z \in Nat /\ pending.dir \in Nat
  BY EkfAssumption DEF Marks, EkfInv, EkfTypeOK
<1>2. Angle(c.dir, z) <= Angle(c.dir, pending.dir) + Angle(pending.dir, z)
  BY <1>1, AngleSum
<1>3. Angle(pending.dir, z) = Angle(z, pending.dir)
  BY <1>1, AngleSum
<1>4. Angle(c.dir, z) \in Nat /\ Angle(c.dir, pending.dir) \in Nat /\ Angle(z, pending.dir) \in Nat
  BY <1>1, AngleSum
<1> QED
  BY <1>2, <1>3, <1>4, EkfAssumption

(* A confirming measurement extends the series behind the challenger, and  *)
(* the new mean lies near it and near the claim before.                    *)
LEMMA ConfirmationExtends ==
  ASSUME EkfInv, NEW C, Backs(C, pending), pending # None,
         NEW z \in Bearings, NEW t \in Nat,
         pending.last < t, t - pending.last <= ReacquireTimeout,
         Angle(z, pending.dir) <= Tolerance,
         NEW d \in Bearings, Angle(2 * d, z + pending.dir) <= 1,
         NEW p, p = Challenger(d, pending.count + 1, pending.first, t)
  PROVE  Backs(C \cup {Bearing(z, t)}, p)
<1> DEFINE e == Bearing(z, t)
<1>1. /\ Series(C) /\ Cardinality(C) = pending.count /\ C \in SUBSET Marks
      /\ \A c \in C : c.time <= pending.last
      /\ pending.last \in Nat
  BY DEF Backs, Series, EkfInv, EkfTypeOK
<1>2. PICK l \in C : l.time = pending.last /\ 2 * Angle(l.dir, pending.dir) <= Tolerance
  BY DEF Backs
<1>3. e \in Marks /\ e.dir = z /\ e.time = t
  BY DEF Bearing, Marks
<1>4. z \in Nat /\ d \in Nat /\ pending.dir \in Nat /\ l.dir \in Nat
  BY <1>1, EkfAssumption DEF Marks, EkfInv, EkfTypeOK
<1>5. Angle(l.dir, pending.dir) \in Nat /\ Angle(l.dir, pending.dir) <= Tolerance
  <2>1. Angle(l.dir, pending.dir) \in Nat
    BY <1>4, AngleSum
  <2> QED
    BY <1>2, <2>1, EkfAssumption
<1>6. Linked(l, e)
  BY <1>1, <1>2, <1>3, <1>5, BackedLinks DEF Linked
<1>7. p.dir = d /\ p.count = pending.count + 1 /\ p.first = pending.first /\ p.last = t
  BY DEF Challenger
<1>8. 2 * Angle(z, d) <= Tolerance /\ Angle(l.dir, d) <= Tolerance
  <2>1. 2 * Angle(z, d) <= Tolerance /\ 2 * Angle(pending.dir, d) <= Tolerance
    BY <1>4, MeanIsNear
  <2>2. Angle(l.dir, d) <= Angle(l.dir, pending.dir) + Angle(pending.dir, d)
    BY <1>4, AngleSum
  <2>3. Angle(l.dir, d) \in Nat /\ Angle(pending.dir, d) \in Nat
    BY <1>4, AngleSum
  <2> QED
    BY <1>2, <1>5, <2>1, <2>2, <2>3, EkfAssumption
<1> HIDE DEF e
<1>9. /\ Series(C \cup {e}) /\ Cardinality(C \cup {e}) = p.count
      /\ \A c \in C \cup {e} : Follows(C \cup {e}, c, e) => c = l
  <2>1. /\ \A c \in C : c.time <= l.time
        /\ l.time < e.time
    BY <1>1, <1>2, <1>3
  <2>2. /\ Series(C \cup {e}) /\ Cardinality(C \cup {e}) = Cardinality(C) + 1
        /\ \A c \in C \cup {e} : Follows(C \cup {e}, c, e) => c = l
    BY ONLY <1>1, <1>3, <1>6, <2>1, SeriesExtends
  <2> QED
    BY <1>1, <1>7, <2>2
<1>10. \A c \in C \cup {e} : c.time <= p.last
  BY <1>1, <1>3, <1>7 DEF Marks
<1>11. \E c \in C \cup {e} : c.time = p.first
  BY <1>7 DEF Backs
<1>12. Backs(C \cup {e}, p)
  BY <1>3, <1>7, <1>8, <1>9, <1>10, <1>11 DEF Backs
<1> QED
  BY <1>12 DEF e

(* Every challenger a suspicious measurement leaves is backed by claims,   *)
(* its own among them.                                                     *)
LEMMA ChallengerBacked ==
  ASSUME EkfInv, ChallengerInv, NEW z \in Bearings, NEW t \in Stamps, ~Late(t),
         NEW p \in Challengers(z, t)
  PROVE  p.last = t /\ \E C \in SUBSET (claims \cup {Bearing(z, t)}) : Backs(C, p)
<1>1. t \in Nat /\ Bearing(z, t) \in Marks /\ Bearing(z, t).dir = z /\ Bearing(z, t).time = t
  BY StampIsNat DEF EkfInv, Bearing, Marks
<1>2. CASE p = Challenger(z, 1, t, t)
  <2>1. p.dir = z /\ p.count = 1 /\ p.first = t /\ p.last = t
    BY <1>2 DEF Challenger
  <2>2. 2 * Angle(z, z) <= Tolerance
    BY EkfAssumption DEF Angle
  <2>3. /\ Series({Bearing(z, t)}) /\ Cardinality({Bearing(z, t)}) = 1
        /\ \A c \in {Bearing(z, t)} : ~Follows({Bearing(z, t)}, c, Bearing(z, t))
    BY <1>1, SeriesStarts
  <2>4. Backs({Bearing(z, t)}, p)
    BY <1>1, <2>1, <2>2, <2>3 DEF Backs
  <2> QED
    BY <2>1, <2>4
<1>3. CASE /\ pending # None /\ pending.last < t /\ t - pending.last <= ReacquireTimeout
           /\ Angle(z, pending.dir) <= Tolerance
           /\ \E d \in Bearings : /\ p = Challenger(d, pending.count + 1, pending.first, t)
                                  /\ Angle(2 * d, z + pending.dir) <= 1
  <2>1. PICK C \in SUBSET claims : Backs(C, pending)
    BY <1>3 DEF ChallengerInv
  <2>2. PICK d \in Bearings : /\ p = Challenger(d, pending.count + 1, pending.first, t)
                              /\ Angle(2 * d, z + pending.dir) <= 1
    BY <1>3
  <2>3. Backs(C \cup {Bearing(z, t)}, p)
    BY <1>1, <1>3, <2>1, <2>2, ConfirmationExtends
  <2>4. p.last = t
    BY <2>2 DEF Challenger
  <2> QED
    BY <2>1, <2>3, <2>4
<1>4. CASE pending # None /\ pending.last = t /\ p = pending
  BY <1>4 DEF ChallengerInv
<1> QED
  BY <1>2, <1>3, <1>4, ChallengerCases

(* Every step leaves a pending challenger backed.                          *)
LEMMA NextChallengerInv ==
  ASSUME EkfInv, ChallengerInv, [EkfNext]_ekfVars
  PROVE  ChallengerInv'
<1>1. CASE UNCHANGED continuity
  BY <1>1 DEF continuity, ChallengerInv
<1>2. CASE pending' = None
  BY <1>2 DEF ChallengerInv
<1>3. ASSUME NEW z \in Bearings, NEW t \in Stamps, ~Late(t), NEW p \in Challengers(z, t),
             pending' = p, Refuse(z, t)
      PROVE  ChallengerInv'
  <2>1. seen' = t /\ claims' = claims \cup {Bearing(z, t)}
    BY <1>3 DEF Refuse
  <2>2. p.last = t /\ \E C \in SUBSET (claims \cup {Bearing(z, t)}) : Backs(C, p)
    BY <1>3, ChallengerBacked
  <2> QED
    BY <1>3, <2>1, <2>2 DEF ChallengerInv
<1>4. CASE UNCHANGED ekfVars \/ PassTime
  BY <1>1, <1>4 DEF ekfVars, PassTime
<1>5. ASSUME NEW z \in Bearings, NEW t \in Stamps,
             \/ FirstArrival(z, t)
             \/ RejectFirstArrival(z, t) \/ AcousticInit(z, t) \/ RejectLate(z, t)
             \/ VisualInit(z, t) \/ VisualUpdate(z, t)
      PROVE  ChallengerInv'
  BY <1>1, <1>2, <1>5 DEF FirstArrival, RejectFirstArrival, AcousticInit, RejectLate, VisualInit,
                          VisualUpdate, MarkAccepted
<1>6. ASSUME NEW z \in Bearings, NEW t \in Stamps, Follow(z, t)
      PROVE  ChallengerInv'
  BY <1>2, <1>6 DEF Follow, MarkAccepted
<1>7. ASSUME NEW z \in Bearings, NEW t \in Stamps, Challenge(z, t)
      PROVE  ChallengerInv'
  <2>1. ~Late(t) /\ \/ MarkAccepted(z, t)
                    \/ \E p \in Challengers(z, t) : pending' = p /\ Refuse(z, t)
    BY <1>7 DEF Challenge
  <2> QED
    BY <1>2, <1>3, <2>1 DEF MarkAccepted
<1> QED
  BY <1>4, <1>5, <1>6, <1>7 DEF EkfNext

(* The claims behind a confirmed challenger, together with the measurement *)
(* that confirms it, are persistent.                                       *)
LEMMA ConfirmedIsPersistent ==
  ASSUME EkfInv, ChallengerInv, NEW z \in Bearings, NEW t \in Stamps, ~Late(t),
         NEW p \in Challengers(z, t), Confirmed(p)
  PROVE  \E C \in SUBSET claims : Persistent(C \cup {Bearing(z, t)})
<1> DEFINE e == Bearing(z, t)
<1>1. /\ t \in Nat /\ e \in Marks /\ e.dir = z /\ e.time = t
      /\ p.count >= Confirmations /\ p.last - p.first >= ConfirmationTime
  BY StampIsNat DEF EkfInv, Bearing, Marks, Confirmed
<1> HIDE DEF e
<1>2. CASE p = Challenger(z, 1, t, t)
  <2>1. p.count = 1 /\ p.first = t /\ p.last = t
    BY <1>2 DEF Challenger
  <2>2. Series({e}) /\ Cardinality({e}) = 1
    BY <1>1, SeriesStarts
  <2>3. Persistent({e})
    BY <1>1, <2>1, <2>2, SeriesPersists
  <2>4. {e} = {} \cup {e} /\ {} \in SUBSET claims
    OBVIOUS
  <2> QED
    BY <2>3, <2>4 DEF e
<1>3. CASE /\ pending # None /\ pending.last < t /\ t - pending.last <= ReacquireTimeout
           /\ Angle(z, pending.dir) <= Tolerance
           /\ \E d \in Bearings : /\ p = Challenger(d, pending.count + 1, pending.first, t)
                                  /\ Angle(2 * d, z + pending.dir) <= 1
  <2>1. PICK C \in SUBSET claims : Backs(C, pending)
    BY <1>3 DEF ChallengerInv
  <2>2. PICK d \in Bearings : /\ p = Challenger(d, pending.count + 1, pending.first, t)
                              /\ Angle(2 * d, z + pending.dir) <= 1
    BY <1>3
  <2>3. Backs(C \cup {e}, p)
    BY <1>1, <1>3, <2>1, <2>2, ConfirmationExtends DEF e
  <2>4. p.last = t
    BY <2>2 DEF Challenger
  <2>5. PICK c \in C \cup {e} : c.time = p.first
    BY <2>3 DEF Backs
  <2>6. Persistent(C \cup {e})
    <3>1. e.time - c.time >= ConfirmationTime
      BY <1>1, <2>4, <2>5
    <3> QED
      BY <1>1, <2>3, <2>5, <3>1, SeriesPersists DEF Backs
  <2> QED
    BY <2>1, <2>6 DEF e
<1>4. CASE /\ pending # None /\ pending.last = t /\ p = pending
           /\ Angle(z, pending.dir) <= Tolerance
  <2>1. PICK C \in SUBSET claims : Backs(C, pending)
    BY <1>4 DEF ChallengerInv
  <2>2. PICK l \in C : /\ l.time = pending.last
                       /\ \A c \in C : Follows(C, c, l) => Angle(c.dir, pending.dir) <= Tolerance
    BY <2>1 DEF Backs
  <2>3. /\ Series(C) /\ C \in SUBSET Marks /\ Cardinality(C) = pending.count
        /\ \A c \in C : c.time <= l.time
    BY <2>1, <2>2 DEF Backs, Series
  <2>4. \A c \in C : Follows(C, c, l) => Linked(c, e)
    <3> SUFFICES ASSUME NEW c \in C, Follows(C, c, l)  PROVE Linked(c, e)
      OBVIOUS
    <3>1. Linked(c, l)
      BY <2>3 DEF Series
    <3>2. Angle(c.dir, z) <= 2 * Tolerance
      BY <1>4, <2>2, <2>3, BackedLinks
    <3> QED
      BY <1>1, <1>4, <2>2, <3>1, <3>2 DEF Linked
  <2>5. PICK D : D = (C \ {l}) \cup {e}
    OBVIOUS
  <2>6. Series(D) /\ Cardinality(D) = Cardinality(C)
    BY <1>1, <1>4, <2>2, <2>3, <2>4, <2>5, SeriesReplaces
  <2>7. \E c, d \in D : d.time - c.time >= ConfirmationTime
    <3>1. PICK c \in C : c.time = pending.first
      BY <2>1 DEF Backs
    <3>2. PICK f \in D : f.time = pending.first
      BY <1>1, <1>4, <2>2, <2>5, <3>1
    <3>3. e \in D /\ e.time - f.time >= ConfirmationTime
      BY <1>1, <1>4, <2>5, <3>2
    <3> QED
      BY <3>2, <3>3
  <2>8. Persistent(D)
    BY <1>1, <1>4, <2>3, <2>6, <2>7, SeriesPersists
  <2>9. C \ {l} \in SUBSET claims
    BY <2>1
  <2> QED
    BY <2>5, <2>8, <2>9 DEF e
<1> QED
  BY <1>2, <1>3, <1>4, ChallengerCases

(* Sound moves the track further than the hard cap allows only to the last *)
(* of a persistent series of claims: not to one measurement delivered      *)
(* twice, a late one, or one on each side of a silence                     *)
(* (bearing_continuity_gate.hpp:69-90, ekf_node.cpp:232-247).              *)
THEOREM JumpNeedsPersistenceHolds == EkfSpec => JumpNeedsPersistence
<1> DEFINE Justified == AcousticJump => \E C \in SUBSET claims : Persistent(C \cup {taken'})
<1>1. EkfInit => ChallengerInv
  BY DEF EkfInit, ChallengerInv
<1>2. EkfInv /\ ChallengerInv /\ [EkfNext]_ekfVars => ChallengerInv'
  BY NextChallengerInv
<1>3. EkfInv /\ ChallengerInv /\ EkfNext => Justified
  BY JumpIsChallenge, ConfirmedIsPersistent
<1>4. EkfInv /\ ChallengerInv /\ [EkfNext]_ekfVars => [Justified]_ekfVars
  BY <1>3
<1> QED
  BY <1>1, <1>2, <1>4, EkfInvariant, PTL DEF EkfSpec, JumpNeedsPersistence

=============================================================================
