----------------------------- MODULE ArmTracker -----------------------------
(***************************************************************************)
(* The node arm_tracker (arm_tracker.cpp): homing, arming and stopping of  *)
(* tracking, and the servo loop that streams Ruckig's output to one or two *)
(* arms.  All callbacks are in one mutually exclusive group, so each is    *)
(* one action, except where set_tracking and update wait for the answer of *)
(* the controller manager: no callback runs meanwhile.                     *)
(*                                                                         *)
(* Angles are abstracted to what the code decides from them: where the     *)
(* arms were last seen, whether an arm lags, whether arm 1 points at the   *)
(* target, what Ruckig answers.                                            *)
(***************************************************************************)
EXTENDS Integers, Sequences, SequencesExt

CONSTANTS
  Policy,         (* "single" arm, or dual_tracking_policy_ of two           *)
  TargetTimeout,  (* target_timeout_, in clock units                         *)
  MaxArmings,     (* bounds of a run: accepted arming requests,              *)
  MaxRefusals,    (*   switches the manager refuses for reasons of its own,  *)
  MaxTimeouts     (*   and requests that tracker gives up waiting for        *)

ASSUME TrackerAssumption ==
  /\ Policy \in {"single", "simultaneous", "first_arm_lead"}
  /\ TargetTimeout \in Nat
  /\ MaxArmings \in Nat /\ MaxRefusals \in Nat /\ MaxTimeouts \in Nat

VARIABLES
  control,        (* control_state_                                          *)
  pc,             (* what the callback that holds the group waits for        *)
  haveJoints,     (* have_joints_                                            *)
  current,        (* current_, current_right_: where the arms were last seen *)
  homeRequested,  (* home_requested_                                         *)
  homeReached,    (* home_reached_                                           *)
  veto,           (* external_veto_                                          *)
  haveDirection,  (* have_direction_                                         *)
  age,            (* time since last_target_                                 *)
  mode,           (* mode[a]: control_interface of arm a's servo input       *)
  moving,         (* arms whose servo state has a velocity                   *)
  locked,         (* arm1_locked_                                            *)
  following,      (* arm2_following_                                         *)
  started,        (* arm2_started_emitted_                                   *)
  active,         (* the controller that owns the position interfaces        *)
  orders,         (* requests at the manager; the last one may be awaited    *)
  reply,          (* the answer to the awaited request                       *)
  refusals,       (* switches refused so far                                 *)
  timeouts,       (* requests given up so far                                *)
  armings         (* arming requests accepted so far                         *)

nodeVars == <<control, haveJoints, current, homeRequested, homeReached, veto>>
targetVars == <<haveDirection, age>>
leadVars == <<locked, following, started>>
servoVars == <<mode, moving>>
managerVars == <<active, orders, reply, refusals>>
trackerVars ==
  <<nodeVars, pc, targetVars, leadVars, servoVars, managerVars, timeouts, armings>>

Dual == Policy # "single"
Arms == IF Dual THEN {"left", "right"} ELSE {"left"}
Places == {"home", "in_range", "out_of_range"}

(* Mutant: a reentrant callback group.                                     *)
IdleReentrant == TRUE

(* The default callback group is free.                                     *)
Idle == pc = "idle"
ResetLead == locked' = FALSE /\ following' = FALSE /\ started' = FALSE
AllIn(m) == [a \in Arms |-> m]

-----------------------------------------------------------------------------
(* Subscriptions.                                                          *)

JointCallback(place) ==
  /\ Idle
  /\ haveJoints' = TRUE
  /\ current' = place
  /\ IF homeRequested /\ place = "home"
     THEN homeRequested' = FALSE /\ homeReached' = TRUE
     ELSE UNCHANGED <<homeRequested, homeReached>>
  /\ UNCHANGED <<control, veto, pc, targetVars, leadVars, servoVars, managerVars, timeouts,
                 armings>>

(* accept_local_direction; without a transform the message is dropped.     *)
DirectionCallback(transformed) ==
  /\ Idle
  /\ IF transformed
     THEN /\ haveDirection' = TRUE
          /\ age' = 0
     ELSE UNCHANGED targetVars
  /\ UNCHANGED <<nodeVars, pc, leadVars, servoVars, managerVars, timeouts, armings>>

ValidCallback(valid) ==
  /\ Idle
  /\ veto' = ~valid
  /\ UNCHANGED <<control, haveJoints, current, homeRequested, homeReached, pc, targetVars,
                 leadVars, servoVars, managerVars, timeouts, armings>>

-----------------------------------------------------------------------------
(* Services.  A call that is refused or has nothing to do changes nothing. *)

(* Mutant: homing is accepted in every control state.                      *)
HomeAllowedAlways == TRUE
HomeAllowed == control = "trajectory"

(* request_home; without a subscriber of the trajectory it fails, and home *)
(* is lost all the same.                                                   *)
RequestHome(subscribed) ==
  /\ Idle
  /\ haveJoints /\ HomeAllowed
  /\ haveDirection' = FALSE
  /\ homeRequested' = subscribed
  /\ homeReached' = FALSE
  /\ ResetLead
  /\ UNCHANGED <<control, haveJoints, current, veto, pc, age, servoVars, managerVars,
                 timeouts, armings>>

(* The request of switch_controllers, unless the service is unavailable.   *)
Order(controller, where, available) ==
  IF available
  THEN orders' = Append(orders, controller) /\ pc' = where /\ UNCHANGED <<active, refusals, reply>>
  ELSE UNCHANGED <<managerVars, pc>>

(* set_tracking(true) up to the switch.  initialize_servo comes first.     *)
StartTracking(available) ==
  /\ Idle
  /\ armings < MaxArmings
  /\ control = "trajectory" /\ haveJoints /\ homeReached /\ current # "out_of_range"
  /\ haveDirection' = FALSE
  /\ ResetLead
  /\ mode' = AllIn("position") /\ moving' = {}
  /\ Order("tracking", "arming", available)
  /\ armings' = armings + 1
  /\ UNCHANGED <<nodeVars, age, timeouts>>

(* Mutant: the locked arm stays locked.                                    *)
StopKeepsLock == UNCHANGED leadVars
StopResetsLead == ResetLead

(* set_tracking(false).                                                    *)
StopTracking ==
  /\ Idle
  /\ control = "tracking"
  /\ control' = "stopping"
  /\ haveDirection' = FALSE
  /\ StopResetsLead
  /\ mode' = AllIn("velocity")
  /\ UNCHANGED <<haveJoints, current, homeRequested, homeReached, veto, pc, age,
                 moving, managerVars, timeouts, armings>>

(* Mutant: the answer of the manager is not looked at.                     *)
ArmedAnyway == "tracking"
ArmedIfSwitched == IF reply = "ok" THEN "tracking" ELSE control

(* set_tracking(true) after the switch.                                    *)
FinishArming ==
  /\ pc = "arming" /\ reply # "none"
  /\ pc' = "idle" /\ reply' = "none"
  /\ control' = ArmedIfSwitched
  /\ UNCHANGED <<haveJoints, current, homeRequested, homeReached, veto, targetVars, leadVars,
                 servoVars, active, orders, refusals, timeouts, armings>>

(* Mutant: the state stays behind.                                         *)
RestoredNot == control
Restored == "trajectory"

(* finish_tracking_controller_switch after the switch; if it failed the    *)
(* next update tries again.                                                *)
FinishRestoring ==
  /\ pc = "restoring" /\ reply # "none"
  /\ pc' = "idle" /\ reply' = "none"
  /\ IF reply = "ok" THEN control' = Restored /\ ResetLead
                     ELSE UNCHANGED <<control, leadVars>>
  /\ UNCHANGED <<haveJoints, current, homeRequested, homeReached, veto, targetVars,
                 servoVars, active, orders, refusals, timeouts, armings>>

(* "controller switch timed out": the request stays with the manager.      *)
GiveUpWaiting ==
  /\ ~Idle /\ reply = "none"
  /\ timeouts < MaxTimeouts
  /\ timeouts' = timeouts + 1
  /\ pc' = "idle"
  /\ UNCHANGED <<nodeVars, targetVars, leadVars, servoVars, managerVars, armings>>

-----------------------------------------------------------------------------
(* The servo loop.                                                         *)

(* Mutant: the veto is ignored.                                            *)
TargetAvailableVetoed ==
  control = "tracking" /\ haveDirection /\ age <= TargetTimeout

TargetAvailable ==
  control = "tracking" /\ ~veto /\ haveDirection /\ age <= TargetTimeout

ControlAfter(lagging) == IF control = "tracking" /\ lagging THEN "stopping" ELSE control

(* Ruckig's answers: an arm at rest with velocity control is done.         *)
Answers(newMode) ==
  {r \in [Arms -> {"working", "finished", "rejected"}] :
     \A a \in Arms : newMode[a] = "velocity" /\ a \notin moving => r[a] # "working"}

(* The arms whose servo state advances: each arm, in order, until one is   *)
(* rejected.                                                               *)
Advanced(result) ==
  IF result["left"] = "rejected" THEN {}
  ELSE {a \in Arms : result[a] # "rejected"}

(* Mutant: only the first arm has to be at rest.                           *)
AtRestFirstArm(result) == result["left"] = "finished"

AtRest(result) == \A a \in Arms : result[a] = "finished"

(* One call of update.  should_track steers both arms; a rejected arm ends *)
(* the call before anything is published.                                  *)
Update(lagging, pointed, available) ==
  LET tracks  == ControlAfter(lagging) = "tracking" /\ TargetAvailable
      lead    == Policy = "first_arm_lead" /\ (locked \/ pointed)
      second  == Dual /\ tracks /\ (Policy = "simultaneous" \/ lead)
      newMode == [a \in Arms |-> IF (IF a = "left" THEN tracks ELSE second)
                                 THEN "position" ELSE "velocity"]
  IN  /\ Idle
      /\ haveJoints /\ control # "trajectory"
      /\ control' = ControlAfter(lagging)
      /\ mode' = newMode
      /\ locked' = (tracks /\ lead)
      /\ following' = second
      /\ \E result \in Answers(newMode) :
           LET advanced  == Advanced(result)
               published == advanced = Arms
           IN  /\ moving' = (moving \ advanced) \cup {a \in advanced : result[a] = "working"}
               /\ started' = (second /\ (started \/ (published /\ "right" \in moving')))
               /\ IF published /\ control' = "stopping" /\ AtRest(result)
                  THEN Order("trajectory", "restoring", available)
                  ELSE UNCHANGED <<managerVars, pc>>
      /\ UNCHANGED <<haveJoints, current, homeRequested, homeReached, veto, targetVars,
                     timeouts, armings>>

-----------------------------------------------------------------------------
(* The environment: the controller manager serves requests in order, with  *)
(* STRICT switching, and the EKF publishes.                                *)

Awaited == Len(orders) = 1 /\ ~Idle
Answer(a) == reply' = IF Awaited THEN a ELSE reply

PerformSwitch ==
  /\ orders # <<>> /\ Head(orders) # active
  /\ active' = Head(orders)
  /\ Answer("ok")
  /\ orders' = Tail(orders)
  /\ UNCHANGED <<nodeVars, pc, targetVars, leadVars, servoVars, refusals, timeouts, armings>>

(* STRICT: nothing is switched when a controller is already where it       *)
(* should be.                                                              *)
RejectSwitch ==
  /\ orders # <<>> /\ Head(orders) = active
  /\ Answer("refused")
  /\ orders' = Tail(orders)
  /\ UNCHANGED <<nodeVars, pc, targetVars, leadVars, servoVars, active, refusals, timeouts,
                 armings>>

RefuseSwitch ==
  /\ orders # <<>> /\ Head(orders) # active
  /\ refusals < MaxRefusals
  /\ refusals' = refusals + 1
  /\ Answer("refused")
  /\ orders' = Tail(orders)
  /\ UNCHANGED <<nodeVars, pc, targetVars, leadVars, servoVars, active, timeouts, armings>>

PassTime ==
  /\ haveDirection /\ age <= TargetTimeout
  /\ age' = age + 1
  /\ UNCHANGED <<nodeVars, pc, haveDirection, leadVars, servoVars, managerVars,
                 timeouts, armings>>

-----------------------------------------------------------------------------
TrackerInit ==
  /\ control = "trajectory" /\ pc = "idle"
  /\ haveJoints = FALSE /\ current = "in_range"
  /\ homeRequested = FALSE /\ homeReached = FALSE /\ veto = FALSE
  /\ haveDirection = FALSE /\ age = 0
  /\ mode = AllIn("position") /\ moving = {}
  /\ locked = FALSE /\ following = FALSE /\ started = FALSE
  /\ active = "trajectory" /\ orders = <<>> /\ reply = "none" /\ refusals = 0
  /\ timeouts = 0 /\ armings = 0

Manager == PerformSwitch \/ RejectSwitch \/ RefuseSwitch

Updates == \E lagging, pointed, available \in BOOLEAN : Update(lagging, pointed, available)

TrackerNext ==
  \/ \E place \in Places : JointCallback(place)
  \/ \E transformed \in BOOLEAN : DirectionCallback(transformed)
  \/ \E valid \in BOOLEAN : ValidCallback(valid)
  \/ \E subscribed \in BOOLEAN : RequestHome(subscribed)
  \/ \E available \in BOOLEAN : StartTracking(available)
  \/ StopTracking
  \/ FinishArming \/ FinishRestoring \/ GiveUpWaiting
  \/ Updates
  \/ Manager
  \/ PassTime

TrackerSpec == TrackerInit /\ [][TrackerNext]_trackerVars

(* The tracker's callbacks that are due run, the manager answers, and      *)
(* Ruckig, asked again and again for velocity zero, gets there.            *)
SettlingUpdate ==
  /\ \E pointed \in BOOLEAN : Update(FALSE, pointed, TRUE)
  /\ mode' = AllIn("velocity") /\ moving' = {}

Fairness ==
  /\ WF_trackerVars(FinishArming) /\ WF_trackerVars(FinishRestoring)
  /\ WF_trackerVars(PerformSwitch) /\ WF_trackerVars(RejectSwitch)
  /\ SF_trackerVars(SettlingUpdate)

FairTrackerSpec == TrackerSpec /\ Fairness

-----------------------------------------------------------------------------
(* The types of the tracker's state; a callback that waits for the manager *)
(* keeps every other one out, so at most one request is awaited.           *)
TrackerTypeOK ==
  /\ control \in {"trajectory", "tracking", "stopping"}
  /\ pc \in {"idle", "arming", "restoring"}
  /\ haveJoints \in BOOLEAN /\ current \in Places
  /\ homeRequested \in BOOLEAN /\ homeReached \in BOOLEAN /\ veto \in BOOLEAN
  /\ haveDirection \in BOOLEAN /\ age \in 0 .. TargetTimeout + 1
  /\ mode \in [Arms -> {"position", "velocity"}]
  /\ moving \subseteq Arms
  /\ locked \in BOOLEAN /\ following \in BOOLEAN /\ started \in BOOLEAN
  /\ active \in {"trajectory", "tracking"}
  /\ orders \in Seq({"trajectory", "tracking"}) /\ Len(orders) <= timeouts + 1
  /\ reply \in {"none", "ok", "refused"}
  /\ refusals \in Nat /\ timeouts \in Nat /\ armings \in Nat

(* The tracker and the controller manager agree on who drives the arms, as *)
(* long as no request was given up: set_tracking, update and               *)
(* finish_tracking_controller_switch change control_state_ only with the   *)
(* answer of the manager in hand.                                          *)
ControllersFollowState ==
  timeouts = 0 /\ Idle => (active = "tracking" <=> control # "trajectory")

(* "It will not publish a tracking trajectory until home has completed and *)
(* tracking is explicitly armed": while tracking is armed, being armed or  *)
(* stopping, home was reached and no newer homing is under way.            *)
ArmedFromHome ==
  control # "trajectory" \/ pc = "arming" => homeReached /\ ~homeRequested

(* The trajectory controller gets the arms, on time or late, only while no *)
(* arm's servo state has a velocity: update switches back when Ruckig has  *)
(* finished for both arms, and nothing moves them until the answer.        *)
RestAtHandover == active = "trajectory" \/ "trajectory" \in Range(orders) => moving = {}

(* "once locked, Arm 2 slews to co-track": arm 2 is steered only while     *)
(* arm 1 has the lock, and lock and start do not outlive the tracking they *)
(* belong to.                                                              *)
SecondArmFollows ==
  /\ "right" \in moving /\ mode["right"] = "position" => following
  /\ following /\ Policy = "first_arm_lead" => locked
  /\ started => following
  /\ locked \/ following => control = "tracking"

(* "When tracking is disabled, Ruckig decelerates to rest and the node     *)
(* switches back": from every stop, also one after a lag, in any state of  *)
(* the two servos, and through refusals, as long as no request is given    *)
(* up.                                                                     *)
StopCompletes ==
  timeouts = 0 /\ control = "stopping" ~> timeouts > 0 \/ control = "trajectory"

(* A target that stays invalid brings every arm to rest, whatever the      *)
(* tracker was doing when the veto came.                                   *)
VetoRests == <>[]veto => <>[](moving = {})

(* "trajectory controller will reactivate automatically".                  *)
StopReturnsToTrajectory == control = "stopping" ~> control = "trajectory"

=============================================================================
