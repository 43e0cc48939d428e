--------------------------- MODULE ArmTrackerProofs ---------------------------
(***************************************************************************)
(* Theorems about ArmTracker, for every policy, every target timeout and   *)
(* any number of armings, refusals and requests given up.                  *)
(***************************************************************************)
EXTENDS ArmTracker, TLAPS

Controllers == {"trajectory", "tracking"}

(* What the callback that waits has asked the manager for.                 *)
Wanted == IF pc = "arming" THEN "tracking" ELSE "trajectory"

(* The queue of the manager: while a callback waits, the last request is   *)
(* its own; once that is answered nothing is left.                         *)
QueueInv ==
  /\ Idle => reply = "none" /\ Len(orders) <= timeouts
  /\ ~Idle /\ reply = "none" => orders # <<>> /\ orders[Len(orders)] = Wanted
  /\ reply # "none" => orders = <<>>
  /\ reply = "ok" => active = Wanted

(* The control state and the callback that waits, or an answer in hand.    *)
ControlInv ==
  /\ pc = "arming" => control = "trajectory"
  /\ pc = "restoring" => control = "stopping"
  /\ control = "tracking" => active = "tracking" /\ orders = <<>>

(* As long as no request was given up, the manager is where the last       *)
(* answer left it.                                                         *)
AgreeInv ==
  timeouts = 0 =>
    /\ Idle => (active = "tracking" <=> control # "trajectory")
    /\ ~Idle /\ reply # "ok" => active # Wanted

HomeInv ==
  /\ homeReached => ~homeRequested
  /\ control # "trajectory" \/ pc = "arming" => homeReached

(* The arms rest wherever the trajectory controller has them, may get them *)
(* by a request of any age, or is believed to have them.                   *)
RestInv ==
  active = "trajectory" \/ "trajectory" \in Range(orders) \/ control = "trajectory" => moving = {}

TrackerInv ==
  /\ TrackerTypeOK
  /\ QueueInv /\ ControlInv /\ AgreeInv
  /\ HomeInv /\ RestInv /\ SecondArmFollows

-----------------------------------------------------------------------------
(* What a queue holds after a request is appended or served.               *)

LEMMA AppendedOrder ==
  ASSUME NEW q \in Seq(Controllers), NEW c \in Controllers
  PROVE  /\ Append(q, c) \in Seq(Controllers)
         /\ Len(Append(q, c)) = Len(q) + 1
         /\ Append(q, c) # <<>>
         /\ Append(q, c)[Len(q) + 1] = c
         /\ Range(Append(q, c)) = Range(q) \cup {c}
<1>1. /\ Append(q, c) \in Seq(Controllers)
      /\ Len(Append(q, c)) = Len(q) + 1
      /\ Append(q, c)[Len(q) + 1] = c
      /\ \A i \in 1 .. Len(q) : Append(q, c)[i] = q[i]
      /\ Len(q) \in Nat
  OBVIOUS
<1>2. Range(Append(q, c)) = Range(q) \cup {c}
  <2>1. DOMAIN Append(q, c) = (DOMAIN q) \cup {Len(q) + 1}
    BY <1>1
  <2>2. DOMAIN q = 1 .. Len(q)
    OBVIOUS
  <2> QED
    BY <1>1, <2>1, <2>2 DEF Range
<1>3. Append(q, c) # <<>>
  BY <1>1
<1> QED
  BY <1>1, <1>2, <1>3

(* What the controller manager leaves of its queue when it serves the      *)
(* oldest request: the newest request stays the newest.                    *)
LEMMA ServedOrder ==
  ASSUME NEW q \in Seq(Controllers), q # <<>>
  PROVE  /\ Head(q) \in Controllers /\ Head(q) \in Range(q)
         /\ Tail(q) \in Seq(Controllers)
         /\ Len(Tail(q)) = Len(q) - 1
         /\ Len(q) \in Nat \ {0}
         /\ Range(Tail(q)) \subseteq Range(q)
         /\ Len(q) = 1 => Tail(q) = <<>> /\ Head(q) = q[Len(q)]
         /\ Len(q) # 1 => Tail(q) # <<>> /\ Tail(q)[Len(Tail(q))] = q[Len(q)]
<1>1. /\ Head(q) = q[1] /\ 1 \in DOMAIN q
      /\ Tail(q) \in Seq(Controllers)
      /\ Len(Tail(q)) = Len(q) - 1
      /\ Len(q) \in Nat \ {0}
      /\ \A i \in 1 .. Len(q) - 1 : Tail(q)[i] = q[i + 1]
      /\ DOMAIN q = 1 .. Len(q) /\ DOMAIN Tail(q) = 1 .. Len(q) - 1
      /\ \A i \in DOMAIN q : q[i] \in Controllers
  OBVIOUS
<1>2. Range(Tail(q)) \subseteq Range(q)
  BY <1>1 DEF Range
<1>3. Head(q) \in Controllers /\ Head(q) \in Range(q)
  BY <1>1 DEF Range
<1>4. Len(q) = 1 => Tail(q) = <<>>
  BY <1>1
<1>5. Len(q) # 1 => Tail(q) # <<>> /\ Tail(q)[Len(Tail(q))] = q[Len(q)]
  <2> SUFFICES ASSUME Len(q) # 1
               PROVE  Tail(q) # <<>> /\ Tail(q)[Len(Tail(q))] = q[Len(q)]
    OBVIOUS
  <2>1. Len(q) - 1 \in 1 .. Len(q) - 1
    BY <1>1
  <2>2. Tail(q)[Len(q) - 1] = q[(Len(q) - 1) + 1]
    BY <1>1, <2>1
  <2>3. Tail(q) # <<>>
    <3>1. Len(Tail(q)) # 0
      BY <1>1, <2>1
    <3>2. Len(<<>>) = 0
      OBVIOUS
    <3> QED
      BY <3>1, <3>2
  <2> QED
    BY <1>1, <2>2, <2>3
<1> QED
  BY <1>1, <1>2, <1>3, <1>4, <1>5

-----------------------------------------------------------------------------
(* The node starts in the invariant: at rest, disarmed, under the          *)
(* trajectory controller.                                                  *)
LEMMA TrackerInitInv == TrackerInit => TrackerInv
<1> SUFFICES ASSUME TrackerInit PROVE TrackerInv
  OBVIOUS
<1>1. TrackerTypeOK
  <2>1. orders \in Seq({"trajectory", "tracking"}) /\ Len(orders) = 0
    BY DEF TrackerInit
  <2>2. mode \in [Arms -> {"position", "velocity"}]
    BY DEF TrackerInit, AllIn
  <2>3. age \in 0 .. TargetTimeout + 1 /\ Len(orders) <= timeouts + 1
    BY <2>1, TrackerAssumption DEF TrackerInit
  <2> QED
    BY <2>1, <2>2, <2>3 DEF TrackerInit, TrackerTypeOK, Places
<1>2. Range(orders) = {}
  BY DEF TrackerInit, Range
<1>3. SecondArmFollows
  BY DEF TrackerInit, SecondArmFollows
<1> QED
  BY <1>1, <1>2, <1>3 DEF TrackerInit, TrackerInv, QueueInv, ControlInv, AgreeInv, HomeInv, RestInv, Idle

(* Callbacks that touch neither control nor servo state.                   *)
LEMMA InputsInv ==
  ASSUME TrackerInv,
         \/ \E place \in Places : JointCallback(place)
         \/ \E transformed \in BOOLEAN : DirectionCallback(transformed)
         \/ \E valid \in BOOLEAN : ValidCallback(valid)
         \/ PassTime
  PROVE  TrackerInv'
<1> USE DEF TrackerInv, nodeVars, targetVars, leadVars, servoVars, managerVars
<1>1. TrackerTypeOK'
  <2>1. age' \in 0 .. TargetTimeout + 1
    BY TrackerAssumption DEF TrackerTypeOK, JointCallback, DirectionCallback, ValidCallback, PassTime
  <2>2. /\ current' \in Places /\ haveJoints' \in BOOLEAN /\ haveDirection' \in BOOLEAN
        /\ homeRequested' \in BOOLEAN /\ homeReached' \in BOOLEAN /\ veto' \in BOOLEAN
    BY DEF TrackerTypeOK, JointCallback, DirectionCallback, ValidCallback, PassTime
  <2> QED
    BY <2>1, <2>2 DEF TrackerTypeOK, JointCallback, DirectionCallback, ValidCallback, PassTime
<1>2. QueueInv' /\ ControlInv' /\ AgreeInv'
  BY DEF QueueInv, ControlInv, AgreeInv, Idle, Wanted, JointCallback, DirectionCallback, ValidCallback, PassTime
<1>3. HomeInv'
  BY DEF HomeInv, TrackerTypeOK, JointCallback, DirectionCallback, ValidCallback, PassTime
<1>4. RestInv' /\ SecondArmFollows'
  BY DEF RestInv, SecondArmFollows, JointCallback, DirectionCallback, ValidCallback, PassTime
<1> QED
  BY <1>1, <1>2, <1>3, <1>4

(* Homing asks for nothing of the manager and moves no servo state.        *)
LEMMA RequestHomeInv ==
  ASSUME TrackerInv, NEW subscribed \in BOOLEAN, RequestHome(subscribed)
  PROVE  TrackerInv'
<1> USE DEF TrackerInv, RequestHome, HomeAllowed, ResetLead, servoVars, managerVars
<1>1. TrackerTypeOK'
  BY DEF TrackerTypeOK
<1>2. QueueInv' /\ ControlInv' /\ AgreeInv'
  BY DEF QueueInv, ControlInv, AgreeInv, Idle, Wanted
<1>3. HomeInv'
  BY DEF HomeInv, Idle
<1>4. RestInv'
  BY DEF RestInv
<1>5. SecondArmFollows'
  BY DEF RestInv, SecondArmFollows
<1> QED
  BY <1>1, <1>2, <1>3, <1>4, <1>5

(* A request that is sent waits at the end of the queue.                   *)
LEMMA OrderInv ==
  ASSUME TrackerTypeOK, QueueInv, Idle,
         NEW c \in Controllers, NEW where \in {"arming", "restoring"},
         c = IF where = "arming" THEN "tracking" ELSE "trajectory",
         NEW available \in BOOLEAN, Order(c, where, available),
         timeouts' = timeouts
  PROVE  /\ pc' \in {"idle", where} /\ reply' = "none"
         /\ active' = active /\ refusals' = refusals
         /\ orders' \in Seq(Controllers) /\ Len(orders') <= timeouts' + 1
         /\ Range(orders') \subseteq Range(orders) \cup {c}
         /\ pc' = "idle" => orders' = orders
         /\ QueueInv'
<1> orders \in Seq(Controllers) /\ Len(orders) \in Nat /\ timeouts \in Nat
  BY DEF TrackerTypeOK, Controllers
<1>1. CASE available
  <2>1. /\ orders' = Append(orders, c) /\ pc' = where
        /\ active' = active /\ refusals' = refusals /\ reply' = "none"
    BY <1>1 DEF Order, QueueInv
  <2>2. /\ orders' \in Seq(Controllers) /\ orders' # <<>>
        /\ Len(orders') = Len(orders) + 1 /\ orders'[Len(orders')] = c
        /\ Range(orders') = Range(orders) \cup {c}
    BY <2>1, AppendedOrder
  <2>3. Wanted' = c /\ ~Idle'
    BY <2>1 DEF Wanted, Idle
  <2> QED
    BY <2>1, <2>2, <2>3 DEF QueueInv, TrackerTypeOK
<1>2. CASE ~available
  <2>1. UNCHANGED <<active, orders, reply, refusals, pc>>
    BY <1>2 DEF Order, managerVars
  <2> QED
    BY <2>1 DEF QueueInv, Idle, Wanted, TrackerTypeOK
<1> QED
  BY <1>1, <1>2

(* Arming asks for the tracking controller, from rest and from home.       *)
LEMMA StartTrackingInv ==
  ASSUME TrackerInv, NEW available \in BOOLEAN, StartTracking(available)
  PROVE  TrackerInv'
<1> USE DEF TrackerInv
<1>1. Order("tracking", "arming", available) /\ timeouts' = timeouts
  BY DEF StartTracking
<1>2. /\ pc' \in {"idle", "arming"} /\ reply' = "none"
      /\ active' = active /\ refusals' = refusals
      /\ orders' \in Seq(Controllers) /\ Len(orders') <= timeouts' + 1
      /\ Range(orders') \subseteq Range(orders) \cup {"tracking"}
      /\ QueueInv'
  BY <1>1, OrderInv DEF Controllers, StartTracking
<1>3. TrackerTypeOK'
  <2>1. /\ mode' \in [Arms -> {"position", "velocity"}]
        /\ armings' \in Nat
    BY DEF StartTracking, AllIn, TrackerTypeOK
  <2>3. /\ moving' = {} /\ locked' = FALSE /\ following' = FALSE /\ started' = FALSE
        /\ haveDirection' = FALSE
    BY DEF StartTracking, ResetLead
  <2>2. UNCHANGED <<control, haveJoints, current, homeRequested, homeReached, veto, age, timeouts>>
    BY DEF StartTracking, nodeVars
  <2> QED
    BY <1>2, <2>1, <2>2, <2>3 DEF TrackerTypeOK, Controllers
<1>4. ControlInv'
  BY <1>2 DEF ControlInv, StartTracking, nodeVars
<1>5. AgreeInv'
  BY <1>2 DEF AgreeInv, StartTracking, nodeVars, Idle, Wanted, TrackerTypeOK
<1>6. HomeInv'
  BY <1>2 DEF HomeInv, StartTracking, nodeVars
<1>7. RestInv'
  BY <1>2 DEF RestInv, StartTracking
<1>8. SecondArmFollows'
  BY DEF SecondArmFollows, StartTracking, ResetLead
<1> QED
  BY <1>2, <1>3, <1>4, <1>5, <1>6, <1>7, <1>8

(* Stopping takes both arms to velocity control and keeps the manager's    *)
(* queue as it is (arm_tracker.cpp, stop_tracking).                        *)
LEMMA StopTrackingInv ==
  ASSUME TrackerInv, StopTracking
  PROVE  TrackerInv'
<1> USE DEF TrackerInv, StopTracking, StopResetsLead, ResetLead, managerVars
<1>1. TrackerTypeOK'
  <2>1. mode' \in [Arms -> {"position", "velocity"}]
    BY DEF AllIn
  <2> QED
    BY <2>1 DEF TrackerTypeOK
<1>2. QueueInv' /\ ControlInv' /\ AgreeInv'
  BY DEF QueueInv, ControlInv, AgreeInv, Idle, Wanted
<1>3. HomeInv' /\ RestInv'
  BY DEF HomeInv, RestInv
<1>4. SecondArmFollows'
  BY DEF SecondArmFollows, AllIn, TrackerTypeOK
<1> QED
  BY <1>1, <1>2, <1>3, <1>4

(* The answer decides who has the arms: the queue is empty by then.        *)
LEMMA FinishInv ==
  ASSUME TrackerInv, FinishArming \/ FinishRestoring
  PROVE  TrackerInv'
<1> USE DEF TrackerInv, FinishArming, FinishRestoring, ArmedIfSwitched, Restored, ResetLead,
            leadVars, servoVars
<1>1. TrackerTypeOK'
  <2>1. /\ control' \in {"trajectory", "tracking", "stopping"}
        /\ locked' \in BOOLEAN /\ following' \in BOOLEAN /\ started' \in BOOLEAN
    BY DEF TrackerTypeOK
  <2>2. UNCHANGED <<haveJoints, current, homeRequested, homeReached, veto, targetVars, servoVars,
                    active, orders, refusals, timeouts, armings>>
    BY DEF targetVars
  <2> QED
    BY <2>1, <2>2 DEF TrackerTypeOK, targetVars
<1>2. orders = <<>> /\ Len(orders) = 0 /\ Range(orders) = {}
  BY DEF QueueInv, Range
<1>3. QueueInv' /\ ControlInv'
  BY <1>2 DEF QueueInv, ControlInv, Idle, Wanted, TrackerTypeOK
<1>4. AgreeInv'
  BY <1>2 DEF AgreeInv, QueueInv, ControlInv, Idle, Wanted, TrackerTypeOK
<1>5. HomeInv'
  BY DEF HomeInv, ControlInv, TrackerTypeOK
<1>6. RestInv'
  BY <1>2 DEF RestInv, QueueInv, ControlInv, Wanted, TrackerTypeOK
<1>7. SecondArmFollows'
  <2>1. CASE FinishArming
    BY <2>1 DEF SecondArmFollows, ControlInv
  <2>2. CASE FinishRestoring /\ reply = "ok"
    BY <1>2, <2>2 DEF SecondArmFollows, RestInv, ControlInv, QueueInv, Wanted
  <2>3. CASE FinishRestoring /\ reply # "ok"
    BY <2>3 DEF SecondArmFollows
  <2> QED
    BY <2>1, <2>2, <2>3
<1> QED
  BY <1>1, <1>3, <1>4, <1>5, <1>6, <1>7

(* A request given up stays in the queue.                                  *)
LEMMA GiveUpInv ==
  ASSUME TrackerInv, GiveUpWaiting
  PROVE  TrackerInv'
<1> USE DEF TrackerInv, GiveUpWaiting, nodeVars, targetVars, leadVars, servoVars, managerVars
<1>1. TrackerTypeOK'
  BY DEF TrackerTypeOK
<1>2. QueueInv' /\ ControlInv'
  BY DEF QueueInv, ControlInv, Idle, Wanted, TrackerTypeOK
<1>3. AgreeInv'
  BY DEF AgreeInv, TrackerTypeOK
<1>4. HomeInv' /\ RestInv' /\ SecondArmFollows'
  BY DEF HomeInv, RestInv, SecondArmFollows
<1> QED
  BY <1>1, <1>2, <1>3, <1>4

-----------------------------------------------------------------------------
(* The servo loop.                                                         *)

(* Only an arm that is moving or steered still moves after an update.      *)
LEMMA SettlesAtZeroVelocity ==
  ASSUME NEW newMode \in [Arms -> {"position", "velocity"}],
         NEW result \in Answers(newMode),
         NEW a \in Arms, newMode[a] = "velocity", a \notin moving
  PROVE  a \notin (moving \ Advanced(result)) \cup {b \in Advanced(result) : result[b] = "working"}
BY DEF Answers

(* A cycle of the servo timer preserves the invariant, whatever Ruckig     *)
(* answers and wherever the arms are (arm_tracker.cpp, update).            *)
LEMMA UpdateInv ==
  ASSUME TrackerInv, NEW lagging \in BOOLEAN, NEW pointed \in BOOLEAN, NEW available \in BOOLEAN,
         Update(lagging, pointed, available)
  PROVE  TrackerInv'
<1> DEFINE tracks  == ControlAfter(lagging) = "tracking" /\ TargetAvailable
           lead    == Policy = "first_arm_lead" /\ (locked \/ pointed)
           second  == Dual /\ tracks /\ (Policy = "simultaneous" \/ lead)
           newMode == [a \in Arms |-> IF (IF a = "left" THEN tracks ELSE second)
                                      THEN "position" ELSE "velocity"]
<1>0. PICK result \in Answers(newMode) :
        /\ moving' = (moving \ Advanced(result)) \cup {a \in Advanced(result) : result[a] = "working"}
        /\ started' = (second /\ (started \/ (Advanced(result) = Arms /\ "right" \in moving')))
        /\ IF Advanced(result) = Arms /\ control' = "stopping" /\ AtRest(result)
           THEN Order("trajectory", "restoring", available)
           ELSE UNCHANGED <<managerVars, pc>>
  BY DEF Update
<1>1. /\ Idle /\ haveJoints /\ control # "trajectory"
      /\ control' = ControlAfter(lagging)
      /\ mode' = newMode /\ locked' = (tracks /\ lead) /\ following' = second
      /\ UNCHANGED <<haveJoints, current, homeRequested, homeReached, veto, targetVars, timeouts, armings>>
  BY DEF Update
<1>2. /\ control' \in {"tracking", "stopping"}
      /\ control' = "tracking" => control = "tracking"
      /\ tracks \in BOOLEAN /\ lead \in BOOLEAN /\ second \in BOOLEAN
      /\ tracks => control' = "tracking"
      /\ second => tracks
  BY <1>1 DEF ControlAfter, TrackerInv, TrackerTypeOK
<1>3. /\ newMode \in [Arms -> {"position", "velocity"}]
      /\ ~tracks => \A a \in Arms : newMode[a] = "velocity"
      /\ "right" \in Arms /\ newMode["right"] = "position" => second
  BY <1>2
<1>4. result \in [Arms -> {"working", "finished", "rejected"}] /\ Advanced(result) \subseteq Arms
  BY DEF Answers, Advanced
<1>5. moving' \subseteq Arms
  BY <1>0, <1>4 DEF TrackerInv, TrackerTypeOK
<1> HIDE DEF newMode, tracks, lead, second
<1>6. ~tracks /\ moving = {} => moving' = {}
  BY <1>0, <1>3, <1>4, <1>5, SettlesAtZeroVelocity
<1>7. AtRest(result) /\ Advanced(result) = Arms => moving' = {}
  BY <1>0, <1>4 DEF AtRest, TrackerInv, TrackerTypeOK
<1>8. \/ /\ UNCHANGED <<active, orders, reply, refusals, pc>>
         /\ QueueInv'
      \/ /\ control' = "stopping" /\ moving' = {}
         /\ pc' \in {"idle", "restoring"} /\ reply' = "none"
         /\ active' = active /\ refusals' = refusals
         /\ orders' \in Seq(Controllers) /\ Len(orders') <= timeouts' + 1
         /\ Range(orders') \subseteq Range(orders) \cup {"trajectory"}
         /\ pc' = "idle" => orders' = orders
         /\ QueueInv'
  <2>1. CASE Advanced(result) = Arms /\ control' = "stopping" /\ AtRest(result)
    BY <1>0, <1>1, <1>7, <2>1, OrderInv DEF TrackerInv, Controllers
  <2>2. CASE ~(Advanced(result) = Arms /\ control' = "stopping" /\ AtRest(result))
    BY <1>0, <1>1, <2>2 DEF managerVars, TrackerInv, QueueInv, Idle, Wanted
  <2> QED
    BY <2>1, <2>2
<1>9. TrackerTypeOK'
  <2>1. /\ mode' \in [Arms -> {"position", "velocity"}]
        /\ locked' \in BOOLEAN /\ following' \in BOOLEAN /\ started' \in BOOLEAN
    BY <1>0, <1>1, <1>2, <1>3
  <2>2. /\ pc' \in {"idle", "restoring"} /\ reply' \in {"none", "ok", "refused"}
        /\ active' = active /\ refusals' = refusals
        /\ orders' \in Seq(Controllers) /\ Len(orders') <= timeouts' + 1
    BY <1>1, <1>8 DEF TrackerInv, TrackerTypeOK, Controllers, Idle
  <2> QED
    BY <1>1, <1>2, <1>5, <2>1, <2>2 DEF TrackerInv, TrackerTypeOK, Controllers, targetVars
<1>10. ControlInv'
  BY <1>1, <1>2, <1>8 DEF TrackerInv, ControlInv, Idle
<1>11. AgreeInv'
  BY <1>1, <1>2, <1>8 DEF TrackerInv, AgreeInv, Idle, Wanted
<1>12. HomeInv'
  BY <1>1, <1>2, <1>8 DEF TrackerInv, HomeInv, Idle
<1>13. RestInv'
  <2>1. tracks => active' # "trajectory" /\ Range(orders') = {}
    BY <1>2, <1>8 DEF TrackerInv, ControlInv, Range
  <2> QED
    BY <1>2, <1>6, <1>8, <2>1 DEF TrackerInv, RestInv
<1>14. SecondArmFollows'
  BY <1>0, <1>1, <1>2, <1>3, <1>5 DEF SecondArmFollows, lead, second
<1> QED
  BY <1>8, <1>9, <1>10, <1>11, <1>12, <1>13, <1>14 DEF TrackerInv

-----------------------------------------------------------------------------
(* The manager serves the head of the queue; an answer that is awaited is  *)
(* the answer to the last request.                                         *)
LEMMA ManagerInv ==
  ASSUME TrackerInv, Manager
  PROVE  TrackerInv'
<1>1. /\ orders # <<>> /\ orders' = Tail(orders)
      /\ active' \in {active, Head(orders)}
      /\ reply' \in {reply, "ok", "refused"}
      /\ refusals' \in {refusals, refusals + 1}
      /\ UNCHANGED <<nodeVars, pc, targetVars, leadVars, servoVars, timeouts, armings>>
  BY DEF Manager, PerformSwitch, RejectSwitch, RefuseSwitch, Answer
<1>2. /\ Head(orders) \in Controllers /\ Head(orders) \in Range(orders)
      /\ orders \in Seq(Controllers) /\ orders' \in Seq(Controllers)
      /\ Len(orders') = Len(orders) - 1
      /\ Len(orders) \in Nat \ {0}
      /\ Range(orders') \subseteq Range(orders)
      /\ Len(orders) = 1 => orders' = <<>> /\ Head(orders) = orders[Len(orders)]
      /\ Len(orders) # 1 => orders' # <<>> /\ orders'[Len(orders')] = orders[Len(orders)]
  BY <1>1, ServedOrder DEF TrackerInv, TrackerTypeOK, Controllers
<1>3. reply = "none"
  BY <1>1 DEF TrackerInv, QueueInv
<1>4. ASSUME Len(orders) = 1, ~Idle
      PROVE  QueueInv' /\ AgreeInv'
  <2>1. /\ reply' # "none" /\ orders' = <<>> /\ Len(orders') = 0 /\ ~Idle'
        /\ reply' = "ok" => Head(orders) # active /\ active' = Head(orders)
        /\ reply' # "ok" => active' = active
    BY <1>1, <1>2, <1>4 DEF Manager, PerformSwitch, RejectSwitch, RefuseSwitch, Answer, Awaited, Idle
  <2>2. Head(orders) = Wanted /\ Wanted' = Wanted
    BY <1>1, <1>2, <1>3, <1>4 DEF TrackerInv, QueueInv, Wanted
  <2>3. QueueInv'
    BY <2>1, <2>2 DEF QueueInv
  <2>4. AgreeInv'
    BY <1>1, <1>3, <1>4, <2>1, <2>2 DEF TrackerInv, AgreeInv
  <2> QED
    BY <2>3, <2>4
<1>5. ASSUME Len(orders) # 1 \/ Idle
      PROVE  QueueInv' /\ AgreeInv'
  <2>1. reply' = "none"
    BY <1>3, <1>5 DEF Manager, PerformSwitch, RejectSwitch, RefuseSwitch, Answer, Awaited
  <2>2. Wanted' = Wanted /\ (Idle' <=> Idle)
    BY <1>1 DEF Wanted, Idle
  <2>3. QueueInv'
    BY <1>1, <1>2, <1>3, <1>5, <2>1, <2>2 DEF TrackerInv, TrackerTypeOK, QueueInv
  <2>4. timeouts # 0
    BY <1>2, <1>3, <1>5 DEF TrackerInv, TrackerTypeOK, QueueInv
  <2> QED
    BY <1>1, <2>3, <2>4 DEF AgreeInv
<1>6. QueueInv' /\ AgreeInv'
  BY <1>4, <1>5
<1>7. TrackerTypeOK'
  <2>1. /\ active' \in Controllers /\ reply' \in {"none", "ok", "refused"} /\ refusals' \in Nat
        /\ orders' \in Seq(Controllers) /\ Len(orders') <= timeouts' + 1
    BY <1>1, <1>2 DEF TrackerInv, TrackerTypeOK, Controllers
  <2>2. UNCHANGED <<control, haveJoints, current, homeRequested, homeReached, veto, haveDirection,
                    age, locked, following, started, mode, moving, pc, timeouts, armings>>
    BY <1>1 DEF nodeVars, targetVars, leadVars, servoVars
  <2> QED
    BY <2>1, <2>2 DEF TrackerInv, TrackerTypeOK, Controllers
<1>8. ControlInv' /\ HomeInv'
  BY <1>1 DEF TrackerInv, ControlInv, HomeInv, nodeVars
<1>9. RestInv'
  BY <1>1, <1>2 DEF TrackerInv, RestInv, nodeVars, servoVars
<1>10. SecondArmFollows'
  BY <1>1 DEF TrackerInv, SecondArmFollows, nodeVars, leadVars, servoVars
<1> QED
  BY <1>6, <1>7, <1>8, <1>9, <1>10 DEF TrackerInv

-----------------------------------------------------------------------------
(* Every callback and every step of the controller manager preserves the   *)
(* invariant.                                                              *)
LEMMA TrackerNextInv ==
  ASSUME TrackerInv, [TrackerNext]_trackerVars
  PROVE  TrackerInv'
<1>1. CASE \/ \E place \in Places : JointCallback(place)
           \/ \E transformed \in BOOLEAN : DirectionCallback(transformed)
           \/ \E valid \in BOOLEAN : ValidCallback(valid)
           \/ PassTime
  BY <1>1, InputsInv
<1>2. CASE \E subscribed \in BOOLEAN : RequestHome(subscribed)
  BY <1>2, RequestHomeInv
<1>3. CASE \E available \in BOOLEAN : StartTracking(available)
  BY <1>3, StartTrackingInv
<1>4. CASE StopTracking
  BY <1>4, StopTrackingInv
<1>5. CASE FinishArming \/ FinishRestoring
  BY <1>5, FinishInv
<1>6. CASE GiveUpWaiting
  BY <1>6, GiveUpInv
<1>7. CASE Updates
  BY <1>7, UpdateInv DEF Updates
<1>8. CASE Manager
  BY <1>8, ManagerInv
<1>9. CASE UNCHANGED trackerVars
  BY <1>9 DEF trackerVars, nodeVars, targetVars, leadVars, servoVars, managerVars, TrackerInv,
              TrackerTypeOK, QueueInv, ControlInv, AgreeInv, HomeInv, RestInv, SecondArmFollows,
              Idle, Wanted
<1> QED
  BY <1>1, <1>2, <1>3, <1>4, <1>5, <1>6, <1>7, <1>8, <1>9 DEF TrackerNext

(* The inductive invariant holds in every reachable state, whatever the    *)
(* callbacks, the manager and the requests given up do.                    *)
THEOREM TrackerInvHolds == TrackerSpec => []TrackerInv
<1>1. TrackerInv /\ [TrackerNext]_trackerVars => TrackerInv'
  BY TrackerNextInv
<1> QED
  BY <1>1, TrackerInitInv, PTL DEF TrackerSpec

(* The tracker's state is well typed, and at most one request more is      *)
(* queued at the manager than were given up.                               *)
THEOREM TrackerTypesHold == TrackerSpec => []TrackerTypeOK
<1>1. TrackerInv => TrackerTypeOK
  BY DEF TrackerInv
<1> QED
  BY <1>1, TrackerInvHolds, PTL

(* The tracker and the controller manager agree on who drives the arms, as *)
(* long as no request was given up.                                        *)
THEOREM ControllersFollowStateHolds == TrackerSpec => []ControllersFollowState
<1>1. TrackerInv => ControllersFollowState
  BY DEF TrackerInv, AgreeInv, ControllersFollowState
<1> QED
  BY <1>1, TrackerInvHolds, PTL

(* While tracking is armed, being armed or stopping, home was reached and  *)
(* no newer homing is under way.                                           *)
THEOREM ArmedFromHomeHolds == TrackerSpec => []ArmedFromHome
<1>1. TrackerInv => ArmedFromHome
  BY DEF TrackerInv, HomeInv, ArmedFromHome
<1> QED
  BY <1>1, TrackerInvHolds, PTL

(* The trajectory controller gets the arms, on time or late, only at rest. *)
THEOREM RestAtHandoverHolds == TrackerSpec => []RestAtHandover
<1>1. TrackerInv => RestAtHandover
  BY DEF TrackerInv, RestInv, RestAtHandover
<1> QED
  BY <1>1, TrackerInvHolds, PTL

(* The second arm is steered only while the first has its lock, and        *)
(* neither lock nor start outlives the tracking they belong to.            *)
THEOREM SecondArmFollowsHolds == TrackerSpec => []SecondArmFollows
<1>1. TrackerInv => SecondArmFollows
  BY DEF TrackerInv
<1> QED
  BY <1>1, TrackerInvHolds, PTL
=============================================================================
