---------------------------- MODULE DirectionEkf ----------------------------
(***************************************************************************)
(* The direction filter (ekf_node.cpp) with the two gates an acoustic      *)
(* bearing passes before it may move the estimate: the first-arrival gate  *)
(* (direct_path_gate.hpp) and the bearing continuity gate                  *)
(* (bearing_continuity_gate.hpp).  One thread runs the three callbacks.    *)
(*                                                                         *)
(* Bearings lie on an arc and are counted in steps of it.  The arithmetic  *)
(* of the filter is abstracted: a prediction to a later stamp moves the    *)
(* estimate by at most Drift, an update leaves it between prediction and   *)
(* measurement, and a measurement is statistically consistent              *)
(* (nis <= innovation_gate) or not, whatever its angle.  Each callback     *)
(* runs up to Lag after the stamp of its message; stamps of one classifier *)
(* or camera may arrive out of order, those of the first-arrival node do   *)
(* not.  The average over the last outputs (publish) feeds nothing back    *)
(* and is left out.                                                        *)
(***************************************************************************)
EXTENDS Integers, FiniteSets, SequencesExt

CONSTANTS
  None,
  Bearings,             (* 0 .. n: positions on the arc                     *)
  BaseAngle, MaxAngle,  (* base_angle_deg, max_angle_deg                    *)
  MaxRate,              (* max_rate_deg_s                                   *)
  Tolerance,            (* challenger_tolerance_deg: an even number of steps*)
  Confirmations, ConfirmationTime, ReacquireTimeout,
  MatchAngle, AnchorDeviation, EvidenceTtl,
  Lead,                 (* 0.1 s: how much later than a measurement the     *)
                        (* evidence for it may be                           *)
  MaxEvidence,          (* 32: the length of the deque of evidence          *)
  Drift,                (* the most one prediction moves the estimate       *)
  Lag,                  (* the most a callback is late                      *)
  MaxTime, MaxHistory   (* bounds of a run: the clock, and what the         *)
                        (* histories hold together, in each mode            *)

Modes == {"off", "shadow", "enforce"}

(* The steps of the arc are fine enough for half of Tolerance: on a coarser*)
(* arc the mean of two bearings may round to a place too far from both.    *)
ASSUME EkfAssumption ==
  /\ Bearings \subseteq Nat /\ None \notin Nat
  /\ BaseAngle \in Nat /\ MaxAngle \in Nat /\ BaseAngle <= MaxAngle
  /\ MaxRate \in Nat /\ Drift \in Nat /\ Tolerance \in Nat /\ Tolerance % 2 = 0
  /\ Confirmations \in Nat \ {0} /\ ConfirmationTime \in Nat /\ ReacquireTimeout \in Nat
  /\ MatchAngle \in Nat /\ AnchorDeviation \in Nat
  /\ EvidenceTtl \in Nat /\ Lead \in Nat
  /\ MaxEvidence \in Nat \ {0} /\ Lag \in Nat /\ MaxTime \in Nat
  /\ MaxHistory \in [Modes -> Nat]

VARIABLES
  mode,       (* first_arrival_mode; never changes                          *)
  estimate,   (* x_, None while not ready_                                  *)
  filtered,   (* last_t_                                                    *)
  seen,       (* last_seen_time_, None without have_last_seen_              *)
  accepted,   (* last_accepted_time_                                        *)
  pending,    (* the challenger: its direction, count, first and last time  *)
  visual,     (* last_visual_update_t_                                      *)
  evidence,   (* evidence_, oldest first                                    *)
  anchor,     (* anchor_                                                    *)
  now,
  (* Histories, for the properties.                                         *)
  taken,      (* the acoustic measurement the filter took in the last step  *)
  claims,     (* those the continuity gate refused since it took one        *)
  arrivals,   (* all first arrivals                                         *)
  sightings,  (* the directions of the visual measurements taken            *)
  sighted     (* the newest of their stamps                                 *)

filter == <<estimate, filtered>>
continuity == <<seen, accepted, pending, claims>>
sight == <<visual, sightings, sighted>>
ekfVars == <<mode, filter, continuity, taken, sight, evidence, anchor, arrivals, now>>

Angle(a, b) == IF a < b THEN b - a ELSE a - b
Between(a, b) == {c \in Bearings : (a <= c /\ c <= b) \/ (b <= c /\ c <= a)}
Stamps == {t \in 0 .. now : now - t <= Lag}
Bearing(d, t) == [dir |-> d, time |-> t]
NothingTaken == taken' = None

(* The estimate predicted for stamp t; the filter never goes back.         *)
Predictions(t) == IF t > filtered THEN {x \in Bearings : Angle(x, estimate) <= Drift}
                  ELSE {estimate}
Predict(t) == filtered' = IF t > filtered THEN t ELSE filtered

-----------------------------------------------------------------------------
(* DirectPathGate: evidence and anchor.                                    *)

(* Evidence leaves from the front, while it is too old.                    *)
Kept(t) == LET first == SelectInSeq(evidence, LAMBDA e : t - e.time <= EvidenceTtl)
           IN  IF first = 0 THEN <<>> ELSE SubSeq(evidence, first, Len(evidence))

(* The places in Kept(t) of the evidence that z matches: it may be newer   *)
(* than the measurement, by Lead at the most.                              *)
Matching(z, t) ==
  {i \in DOMAIN Kept(t) :
     Kept(t)[i].time <= t + Lead /\ Angle(z, Kept(t)[i].dir) <= MatchAngle}

NearAnchor(z) == anchor # None /\ Angle(z, anchor) <= AnchorDeviation

(* Mutant: the anchor follows the measurement.                             *)
DirOfMeasurement(e, z) == z

(* The direction mark_anchor takes from the evidence e that z matched.     *)
AnchorOf(e, z) == e.dir

(* The newest match becomes the anchor; without one the anchor stays.      *)
Authorize(z, t) ==
  /\ evidence' = Kept(t)
  /\ anchor' = IF Matching(z, t) = {} THEN anchor
               ELSE AnchorOf(Kept(t)[Max(Matching(z, t))], z)

Authorized(z, t) == Matching(z, t) # {} \/ NearAnchor(z)

(* /first_arrival/candidates.                                              *)
FirstArrival(d, t) ==
  /\ mode # "off"
  /\ \A a \in arrivals : a.time <= t
  /\ LET e == Append(evidence, Bearing(d, t))
     IN  evidence' = IF Len(e) > MaxEvidence THEN Tail(e) ELSE e
  /\ arrivals' = arrivals \cup {Bearing(d, t)}
  /\ NothingTaken
  /\ UNCHANGED <<mode, filter, continuity, sight, anchor, now>>

-----------------------------------------------------------------------------
(* BearingContinuityGate: the challenger of the track.                     *)

(* Mutant: a stamp that is not marked as seen.                             *)
SeenAsBefore(t) == seen
SeenNow(t) == IF seen = None \/ t > seen THEN t ELSE seen

MarkAccepted(z, t) ==
  /\ accepted' = t
  /\ seen' = SeenNow(t)
  /\ pending' = None
  /\ taken' = Bearing(z, t) /\ claims' = {}

Late(t) == seen # None /\ t < seen
SourceGap(t) == seen # None /\ t - seen > ReacquireTimeout

Allowed(t) ==
  LET elapsed == IF accepted = None \/ t < accepted THEN 0 ELSE t - accepted
      envelope == BaseAngle + MaxRate * elapsed
  IN  IF envelope > MaxAngle THEN MaxAngle ELSE envelope

Suspicious(z, t, x, consistent) ==
  \/ Angle(z, x) > MaxAngle
  \/ Angle(z, x) > Allowed(t) /\ ~consistent

Challenger(d, n, first, last) == [dir |-> d, count |-> n, first |-> first, last |-> last]

(* A later stamp confirms the challenger; the same one does not.  Mutant:  *)
(* the same stamp counts.                                                  *)
ConfirmsAgain(t) == t >= pending.last
Confirms(t) == t > pending.last

(* The challengers that z may leave: a mean of two directions falls on     *)
(* either neighbour of the exact one.                                      *)
Challengers(z, t) ==
  IF pending = None \/ SourceGap(t) \/ Angle(z, pending.dir) > Tolerance
  THEN {Challenger(z, 1, t, t)}
  ELSE IF Confirms(t)
  THEN {Challenger(d, pending.count + 1, pending.first, t) :
          d \in {c \in Between(z, pending.dir) :
                   Angle(2 * c, z + pending.dir) <= 1}}
  ELSE {pending}

Confirmed(p) == p.count >= Confirmations /\ p.last - p.first >= ConfirmationTime

VisualIsFresh(t) == visual # None /\ Angle(t, visual) <= ReacquireTimeout

-----------------------------------------------------------------------------
(* update(), for an acoustic measurement z of stamp t.                     *)

FirstArrivalGate(z, t) ==
  IF mode = "off" THEN UNCHANGED <<evidence, anchor>> ELSE Authorize(z, t)

PassesFirstArrival(z, t) == mode = "enforce" => Authorized(z, t)

Refuse(z, t) ==
  /\ seen' = t
  /\ claims' = claims \cup {Bearing(z, t)}
  /\ NothingTaken
  /\ UNCHANGED accepted

Acoustic(z, t) ==
  /\ FirstArrivalGate(z, t)
  /\ UNCHANGED <<mode, sight, arrivals, now>>

RejectFirstArrival(z, t) ==
  /\ Acoustic(z, t) /\ ~PassesFirstArrival(z, t)
  /\ NothingTaken
  /\ UNCHANGED <<filter, continuity>>

AcousticInit(z, t) ==
  /\ Acoustic(z, t) /\ PassesFirstArrival(z, t)
  /\ estimate = None
  /\ estimate' = z /\ filtered' = t
  /\ MarkAccepted(z, t)

(* A measurement older than the newest the gate has seen.                  *)
RejectLate(z, t) ==
  /\ Acoustic(z, t) /\ PassesFirstArrival(z, t)
  /\ estimate # None /\ Late(t)
  /\ estimate' \in Predictions(t) /\ Predict(t)
  /\ NothingTaken
  /\ UNCHANGED continuity

(* The predictions that z does not look suspicious from.                   *)
Plausible(z, t, consistent) ==
  {x \in Predictions(t) : ~Suspicious(z, t, x, consistent)}

(* Where an update by z may leave the estimate.                            *)
Corrected(z, predictions) == UNION {Between(x, z) : x \in predictions}

(* The measurement is within the envelope: it ends the challenger, and the *)
(* filter takes it unless it is inconsistent.                              *)
Follow(z, t) ==
  /\ Acoustic(z, t) /\ PassesFirstArrival(z, t)
  /\ estimate # None /\ ~Late(t)
  /\ Predict(t)
  /\ \/ estimate' \in Corrected(z, Plausible(z, t, TRUE)) /\ MarkAccepted(z, t)
     \/ estimate' \in Plausible(z, t, FALSE) /\ pending' = None /\ Refuse(z, t)

(* The measurement is outside: the challenger takes over once confirmed,   *)
(* unless the camera has seen the track lately.  What looks suspicious     *)
(* although it is consistent does so all the more when it is not.          *)
Challenge(z, t) ==
  /\ Acoustic(z, t) /\ PassesFirstArrival(z, t)
  /\ estimate # None /\ ~Late(t)
  /\ Predict(t)
  /\ \E x \in Predictions(t) \ Plausible(z, t, FALSE), p \in Challengers(z, t) :
       IF Confirmed(p) /\ ~VisualIsFresh(t)
       THEN estimate' = z /\ MarkAccepted(z, t)
       ELSE estimate' = x /\ pending' = p /\ Refuse(z, t)

-----------------------------------------------------------------------------
(* update(), for a visual measurement: it passes neither gate, and becomes *)
(* the anchor in every mode.                                               *)

(* Mutant: the stamp of a late update replaces a newer one.                *)
NewestArrived(t) == t
Newest(t) == IF visual = None \/ t > visual THEN t ELSE visual

Sight(z, t) ==
  /\ visual' = Newest(t)
  /\ anchor' = z
  /\ sightings' = sightings \cup {z}
  /\ sighted' = IF sighted = None \/ t > sighted THEN t ELSE sighted

VisualInit(z, t) ==
  /\ estimate = None
  /\ estimate' = z /\ filtered' = t
  /\ Sight(z, t)
  /\ NothingTaken
  /\ UNCHANGED <<mode, continuity, evidence, arrivals, now>>

VisualUpdate(z, t) ==
  /\ estimate # None
  /\ Predict(t)
  /\ \/ estimate' \in Corrected(z, Predictions(t)) /\ Sight(z, t)
     \/ estimate' \in Predictions(t) /\ UNCHANGED <<sight, anchor>>    (* rejected_nis *)
  /\ NothingTaken
  /\ UNCHANGED <<mode, continuity, evidence, arrivals, now>>

PassTime ==
  /\ now < MaxTime /\ now' = now + 1
  /\ NothingTaken
  /\ UNCHANGED <<mode, filter, continuity, sight, evidence, anchor, arrivals>>

EkfInit ==
  /\ mode \in Modes
  /\ estimate = None /\ filtered = 0
  /\ seen = None /\ accepted = None /\ pending = None
  /\ taken = None /\ claims = {}
  /\ visual = None /\ sightings = {} /\ sighted = None
  /\ evidence = <<>> /\ anchor = None /\ arrivals = {}
  /\ now = 0

Remembered == Cardinality(claims) + Cardinality(arrivals) + Cardinality(sightings)

EkfNext ==
  \/ \E z \in Bearings, t \in Stamps :
       /\ \/ FirstArrival(z, t)
          \/ RejectFirstArrival(z, t) \/ AcousticInit(z, t) \/ RejectLate(z, t)
          \/ Follow(z, t) \/ Challenge(z, t)
          \/ VisualInit(z, t) \/ VisualUpdate(z, t)
       /\ Remembered' <= MaxHistory[mode]
  \/ PassTime

EkfSpec == EkfInit /\ [][EkfNext]_ekfVars
-----------------------------------------------------------------------------
Claims == [dir : Bearings, time : 0 .. now]

(* The types, and the order of the gate's four stamps: the challenger's    *)
(* lie before the newest seen, and so does that of the last acceptance,    *)
(* though acceptances and rejections set them on different paths.          *)
EkfTypeOK ==
  /\ mode \in Modes /\ now \in 0 .. MaxTime
  /\ estimate \in Bearings \cup {None} /\ filtered \in 0 .. now
  /\ seen \in 0 .. filtered \cup {None}
  /\ accepted \in 0 .. filtered \cup {None}
  /\ accepted # None => seen # None /\ accepted <= seen
  /\ pending # None =>
       /\ seen # None /\ pending.dir \in Bearings /\ pending.count \in Nat \ {0}
       /\ pending.last \in 0 .. seen /\ pending.first \in 0 .. pending.last
  /\ visual \in 0 .. filtered \cup {None}
  /\ anchor \in Bearings \cup {None}
  /\ Len(evidence) <= MaxEvidence /\ \A i \in DOMAIN evidence : evidence[i] \in Claims
  /\ taken \in Claims \cup {None} /\ claims \subseteq Claims /\ arrivals \subseteq Claims
  /\ sightings \subseteq Bearings /\ sighted \in 0 .. filtered \cup {None}

(* Claims that may depose the track: as many stamps as are asked for, over *)
(* the time asked for, with no silence in between, each near the one before*)
Persistent(C) ==
  LET stamps == {c.time : c \in C}
      Next(c) == {d \in C : c.time < d.time /\ \A s \in stamps : s <= c.time \/ d.time <= s}
  IN  /\ Cardinality(stamps) = Cardinality(C) /\ Cardinality(C) >= Confirmations
      /\ \E c, d \in C : d.time - c.time >= ConfirmationTime
      /\ \A c \in C : \A d \in Next(c) : /\ d.time - c.time <= ReacquireTimeout
                                       /\ Angle(c.dir, d.dir) <= 2 * Tolerance

AcousticTaken == taken' # None
AcousticJump == /\ AcousticTaken /\ estimate # None
                /\ Angle(estimate, estimate') > MaxAngle + Drift

(* Sound moves the track further than the hard cap allows only to the last *)
(* of a persistent series of claims, none of them from before a silence or *)
(* from before the track was last accepted.  One measurement delivered     *)
(* twice, a late one, or one on each side of a gap are not persistence     *)
(* (bearing_continuity_gate.hpp:69-90, ekf_node.cpp:232-247).              *)
JumpNeedsPersistence ==
  [][AcousticJump => \E C \in SUBSET claims : Persistent(C \cup {taken'})]_ekfVars

(* With the first-arrival gate enforced, sound that the filter takes came  *)
(* from near a direction heard first or seen: within MatchAngle of a first *)
(* arrival at most EvidenceTtl older and Lead newer than it, or within     *)
(* AnchorDeviation of some arrival or sighting, however long ago.  However many measurements each pass by staying    *)
(* near the anchor, together they cannot walk away from it                 *)
(* (direct_path_gate.hpp:99-112).                                          *)
TakenNearFirstArrival ==
  [][mode = "enforce" /\ AcousticTaken
     => \/ \E a \in arrivals :
             /\ a.time <= taken'.time + Lead /\ taken'.time - a.time <= EvidenceTtl
             /\ Angle(taken'.dir, a.dir) <= MatchAngle
        \/ \E d \in sightings \cup {a.dir : a \in arrivals} :
             Angle(taken'.dir, d) <= AnchorDeviation]_ekfVars

(* A track the camera updated lately is not deposed by sound, though the   *)
(* camera's updates arrive out of order and later ones with older stamps   *)
(* (ekf_node.cpp:217-218, 260).                                            *)
SightHoldsTrack ==
  [][AcousticJump => sighted = None \/ Angle(taken'.time, sighted) > ReacquireTimeout]_ekfVars
=============================================================================
