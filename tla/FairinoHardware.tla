--------------------------- MODULE FairinoHardware ---------------------------
(***************************************************************************)
(* The ros2_control hardware component of the FAIRINO arms                 *)
(* (fairino_hardware_interface.cpp): the control loop, which calls read,   *)
(* lets the controllers write their commands and calls write, and the      *)
(* recovery service, which runs in a thread of its own.  The two share     *)
(* _robot_sdk_mutex and _recovery_in_progress; the command buffer is       *)
(* shared with the controllers and guarded by nothing.                     *)
(*                                                                         *)
(* A position stands for the six joints of an arm.  Every call of the SDK  *)
(* may fail.  The framework activates, runs and deactivates the component  *)
(* from one thread at a time, and calls a failed component no more.        *)
(***************************************************************************)
EXTENDS Integers

CONSTANTS
  Arms,             (* {"left"} or {"left", "right"}                        *)
  Positions,        (* finite joint positions                               *)
  NotFinite,        (* a command that is not finite                         *)
  NoPosition,       (* no position                                          *)
  ServoInterval,    (* SERVO_COMMAND_INTERVAL in clock units                *)
  MaxActivations,   (* bounds of a run: activations,                        *)
  MaxRecoveries,    (*   recovery requests,                                 *)
  MaxTime           (*   and clock                                          *)

ASSUME HardwareAssumption ==
  /\ "left" \in Arms /\ Arms \subseteq {"left", "right"}
  /\ NotFinite \notin Positions /\ NoPosition \notin Positions \cup {NotFinite}
  /\ ServoInterval \in Nat \ {0}
  /\ MaxActivations \in Nat /\ MaxRecoveries \in Nat /\ MaxTime \in Nat

VARIABLES
  lifecycle,    (* of the component                                         *)
  loop,         (* where the control loop is                                *)
  rec,          (* where the recovery thread is                             *)
  service,      (* the executor of the recovery thread                      *)
  mutex,        (* holder of _robot_sdk_mutex                               *)
  recovering,   (* _recovery_in_progress                                    *)
  goal,         (* goal[a]: what the controllers write for arm a            *)
  command,      (* _jnt_position_command                                    *)
  last,         (* _last_position_command                                   *)
  hasLast,      (* _has_last_position_command                               *)
  lastServo,    (* _last_servoj_left, _last_servoj_right                    *)
  failed,       (* arms whose ServoJ failed in this call of write           *)
  actual,       (* where the arms are                                       *)
  accepted,     (* the last ServoJ each arm accepted since the activation   *)
  sends,        (* ServoJ calls to each arm since the activation            *)
  enabled,      (* arms whose last RobotEnable call enabled them            *)
  success,      (* success of the recovery under way, then of the last one  *)
  activated,    (* time of the activation                                   *)
  activations, recoveries, now

loopVars == <<goal, command, last, hasLast, lastServo, failed>>
robotVars == <<actual, accepted, sends, enabled>>
recoveryVars == <<rec, recovering, success, recoveries>>
lifeVars == <<lifecycle, service, activated, activations>>
hardwareVars == <<lifeVars, loop, mutex, loopVars, robotVars, recoveryVars, now>>

Everywhere(x) == [a \in Arms |-> x]

-----------------------------------------------------------------------------
(* Activation and deactivation.                                            *)

(* Nothing was commanded in this activation yet.  Mutant: the last command *)
(* survives a deactivation.                                                *)
KeepLast == UNCHANGED <<last, hasLast>>
ForgetLast == last' = Everywhere(NoPosition) /\ hasLast' = FALSE

(* on_activate: a failed connection or reading is an error (nothing reads  *)
(* the buffers then), a robot that cannot be enabled (warned) is not.      *)
OnActivate(ok, warned) ==
  /\ lifecycle = "inactive"
  /\ activations < MaxActivations
  /\ activations' = activations + 1
  /\ IF ok
     THEN /\ lifecycle' = "active"
          /\ service' = "starting"
          /\ command' = actual
          /\ ForgetLast
          /\ lastServo' = Everywhere(now - ServoInterval)
          /\ goal' = Everywhere(NoPosition)
          /\ accepted' = Everywhere(NoPosition)
          /\ sends' = Everywhere(0)
          /\ enabled' = Arms \ warned
          /\ activated' = now
     ELSE /\ lifecycle' = "error"
          /\ UNCHANGED <<service, activated, goal, command, last, hasLast, lastServo, accepted,
                         sends, enabled>>
  /\ UNCHANGED <<failed, actual, loop, mutex, recoveryVars, now>>

(* The recovery thread enters spin().                                      *)
BeginSpin ==
  /\ service = "starting" /\ service' = "spinning"
  /\ UNCHANGED <<lifecycle, activated, activations, loop, mutex, loopVars, robotVars,
                 recoveryVars, now>>

(* stop_recovery_service: cancel() stops an executor that spins, and is    *)
(* lost on one that does not spin yet; then join().                        *)
CancelRecovery ==
  /\ lifecycle = "active" /\ loop = "read"
  /\ lifecycle' = "deactivating"
  /\ service' = IF service = "spinning" THEN "cancelled" ELSE service
  /\ UNCHANGED <<activated, activations, loop, mutex, loopVars, robotVars, recoveryVars, now>>

(* Mutant: the thread is joined with the mutex held.                       *)
OnDeactivateLocksFirst ==
  /\ lifecycle = "deactivating"
  /\ IF mutex # "deactivate"
     THEN /\ mutex = "free" /\ mutex' = "deactivate"
          /\ UNCHANGED <<lifecycle, service>>
     ELSE /\ service = "cancelled" /\ rec = "idle"
          /\ mutex' = "free" /\ service' = "none" /\ lifecycle' = "inactive"
  /\ UNCHANGED <<activated, activations, loop, loopVars, robotVars, recoveryVars, now>>

(* on_deactivate once the recovery thread is joined: stop and disconnect.  *)
OnDeactivate ==
  /\ lifecycle = "deactivating"
  /\ service = "cancelled" /\ rec = "idle"
  /\ mutex = "free"
  /\ lifecycle' = "inactive"
  /\ service' = "none"
  /\ UNCHANGED <<activated, activations, loop, mutex, loopVars, robotVars, recoveryVars, now>>

-----------------------------------------------------------------------------
(* The control loop.                                                       *)

Goto(where) == loop' = where

ReadCheck ==
  /\ lifecycle = "active" /\ loop = "read"
  /\ Goto(IF recovering THEN "update" ELSE "read_lock")
  /\ UNCHANGED <<lifeVars, mutex, loopVars, robotVars, recoveryVars, now>>

(* The joint states themselves are not modelled.                           *)
Read(ok) ==
  /\ loop = "read_lock" /\ mutex = "free"
  /\ Goto("update")
  /\ lifecycle' = IF ok THEN lifecycle ELSE "error"
  /\ UNCHANGED <<service, activated, activations, mutex, loopVars, robotVars, recoveryVars, now>>

(* The controllers write what they were told last, in every cycle.         *)
UpdateControllers ==
  /\ lifecycle = "active" /\ loop = "update"
  /\ Goto("write")
  /\ command' = [a \in Arms |-> IF goal[a] = NoPosition THEN command[a] ELSE goal[a]]
  /\ UNCHANGED <<lifeVars, mutex, goal, last, hasLast, lastServo, failed, robotVars,
                 recoveryVars, now>>

WriteCheck ==
  /\ loop = "write"
  /\ Goto(IF recovering THEN "read" ELSE "write_lock")
  /\ UNCHANGED <<lifeVars, mutex, loopVars, robotVars, recoveryVars, now>>

CommandChanged == ~hasLast \/ \E a \in Arms : command[a] # last[a]

(* Mutant: no rate limit.                                                  *)
AlwaysDue == TRUE

Due == \A a \in Arms : now - lastServo[a] >= ServoInterval

(* Mutant: the robots are used without the mutex.                          *)
WriteUnlocked == TRUE
WriteLocks == mutex = "free"

(* write under the mutex, up to the first ServoJ.                          *)
WriteDecide ==
  /\ loop = "write_lock" /\ WriteLocks
  /\ IF NotFinite \in {command[a] : a \in Arms}
     THEN Goto("read") /\ lifecycle' = "error" /\ UNCHANGED <<mutex, lastServo>>
     ELSE IF CommandChanged /\ Due
     THEN /\ Goto("servo_left") /\ mutex' = "loop"
          /\ lastServo' = Everywhere(now)
          /\ UNCHANGED lifecycle
     ELSE Goto("read") /\ UNCHANGED <<lifecycle, mutex, lastServo>>
  /\ UNCHANGED <<service, activated, activations, goal, command, last, hasLast, failed,
                 robotVars, recoveryVars, now>>

ServoJ(a, ok) ==
  /\ sends' = [sends EXCEPT ![a] = @ + 1]
  /\ accepted' = [accepted EXCEPT ![a] = IF ok THEN command[a] ELSE @]
  /\ actual' = [actual EXCEPT ![a] = IF ok THEN command[a] ELSE @]
  /\ failed' = IF ok THEN failed ELSE failed \cup {a}
  /\ UNCHANGED enabled

(* Mutant: after a failure of the left arm the right one gets nothing.     *)
AfterLeftReturn(ok) == IF "right" \in Arms /\ ok THEN "servo_right" ELSE "write_end"
AfterLeft(ok) == IF "right" \in Arms THEN "servo_right" ELSE "write_end"

ServoLeft(ok) ==
  /\ loop = "servo_left"
  /\ ServoJ("left", ok)
  /\ Goto(AfterLeft(ok))
  /\ UNCHANGED <<lifeVars, mutex, goal, command, last, hasLast, lastServo,
                 recoveryVars, now>>

ServoRight(ok) ==
  /\ loop = "servo_right"
  /\ ServoJ("right", ok)
  /\ Goto("write_end")
  /\ UNCHANGED <<lifeVars, mutex, goal, command, last, hasLast, lastServo,
                 recoveryVars, now>>

(* Mutant: the mutex is not released when write fails.                     *)
UnlockUnlessFailed == mutex' = IF failed = {} THEN "free" ELSE mutex
Unlock == mutex' = "free"

WriteEnd ==
  /\ loop = "write_end"
  /\ Goto("read") /\ Unlock
  /\ IF failed # {}
     THEN lifecycle' = "error" /\ UNCHANGED <<last, hasLast>>
     ELSE last' = command /\ hasLast' = TRUE /\ UNCHANGED lifecycle
  /\ failed' = {}
  /\ UNCHANGED <<service, activated, activations, goal, command, lastServo, robotVars,
                 recoveryVars, now>>

-----------------------------------------------------------------------------
(* The recovery thread.                                                    *)

Stage(from, to) == rec = from /\ rec' = to

(* recover_robot_state up to the lock.                                     *)
BeginRecovery ==
  /\ service = "spinning"
  /\ recoveries < MaxRecoveries
  /\ Stage("idle", "lock")
  /\ recovering' = TRUE
  /\ recoveries' = recoveries + 1
  /\ success' = FALSE
  /\ UNCHANGED <<lifeVars, loop, mutex, loopVars, robotVars, now>>

StopArms ==
  /\ mutex = "free" /\ mutex' = "recovery"
  /\ Stage("lock", "disable")
  /\ success' = TRUE
  /\ UNCHANGED <<recovering, recoveries, lifeVars, loop, loopVars, robotVars, now>>

(* Mutant: a failure of one arm is not an error.                           *)
CallBothAny(to, failing) ==
  /\ success' = (success /\ failing # Arms)
  /\ rec' = to

(* call_both_required: both arms are called, each failure counts.          *)
CallBoth(to, failing) ==
  /\ success' = (success /\ failing = {})
  /\ rec' = to

DisableArms(failing) ==
  /\ rec = "disable" /\ CallBoth("reset", failing)
  /\ enabled' = enabled \cap failing
  /\ UNCHANGED <<recovering, recoveries, lifeVars, loop, mutex, loopVars,
                 actual, accepted, sends, now>>

(* ResetAllError until it succeeds on both arms, at most                   *)
(* RECOVERY_RESET_ATTEMPTS times.                                          *)
ResetErrors(ok) ==
  /\ Stage("reset", "enable")
  /\ success' = (success /\ ok)
  /\ UNCHANGED <<recovering, recoveries, lifeVars, loop, mutex, loopVars, robotVars, now>>

EnableArms(failing) ==
  /\ rec = "enable" /\ CallBoth("sync_left", failing)
  /\ enabled' = enabled \cup (Arms \ failing)
  /\ UNCHANGED <<recovering, recoveries, lifeVars, loop, mutex, loopVars,
                 actual, accepted, sends, now>>

SyncArm(a, ok, to) ==
  /\ IF ok
     THEN /\ rec' = to
          /\ command' = [command EXCEPT ![a] = actual[a]]
          /\ UNCHANGED success
     ELSE /\ rec' = "release" /\ success' = FALSE
          /\ UNCHANGED command
  /\ UNCHANGED <<recovering, recoveries, lifeVars, loop, mutex, goal, last, hasLast, lastServo,
                 failed, robotVars, now>>

(* sync_joint_positions_from_hardware(true).                               *)
SyncLeft(ok) ==
  rec = "sync_left" /\ SyncArm("left", ok, IF "right" \in Arms THEN "sync_right" ELSE "release")
SyncRight(ok) == rec = "sync_right" /\ SyncArm("right", ok, "release")

(* The lock guard is destroyed before the pause guard.                     *)
ReleaseMutex ==
  /\ Stage("release", "resume")
  /\ mutex' = "free"
  /\ UNCHANGED <<recovering, success, recoveries, lifeVars, loop, loopVars, robotVars, now>>

ResumeServo ==
  /\ Stage("resume", "idle")
  /\ recovering' = FALSE
  /\ UNCHANGED <<success, recoveries, lifeVars, loop, mutex, loopVars, robotVars, now>>

-----------------------------------------------------------------------------
(* The environment: controllers get new commands, arms are moved by hand   *)
(* or by the JOG services, time passes.                                    *)
NewGoal(a, p) ==
  /\ goal' = [goal EXCEPT ![a] = p]
  /\ UNCHANGED <<lifeVars, loop, mutex, command, last, hasLast, lastServo, failed, robotVars,
                 recoveryVars, now>>

ArmMoves(a, p) ==
  /\ actual' = [actual EXCEPT ![a] = p]
  /\ UNCHANGED <<lifeVars, loop, mutex, loopVars, accepted, sends, enabled, recoveryVars, now>>

PassTime ==
  /\ now < MaxTime
  /\ now' = now + 1
  /\ UNCHANGED <<lifeVars, loop, mutex, loopVars, robotVars, recoveryVars>>

HardwareInit ==
  /\ lifecycle = "inactive" /\ service = "none" /\ activated = 0 /\ activations = 0
  /\ loop = "read" /\ mutex = "free"
  /\ goal = Everywhere(NoPosition)
  /\ command \in [Arms -> Positions] /\ actual = command
  /\ last = Everywhere(NoPosition) /\ hasLast = FALSE
  /\ lastServo = Everywhere(-ServoInterval)
  /\ failed = {}
  /\ accepted = Everywhere(NoPosition) /\ sends = Everywhere(0) /\ enabled = {}
  /\ rec = "idle" /\ recovering = FALSE /\ success = FALSE
  /\ recoveries = 0
  /\ now = 0

Lifecycle ==
  \/ \E ok \in BOOLEAN, warned \in SUBSET Arms : OnActivate(ok, warned)
  \/ BeginSpin \/ CancelRecovery \/ OnDeactivate

ControlLoop ==
  \/ ReadCheck \/ UpdateControllers \/ WriteCheck \/ WriteDecide \/ WriteEnd
  \/ \E ok \in BOOLEAN : Read(ok) \/ ServoLeft(ok) \/ ServoRight(ok)

RecoveryThread ==
  \/ StopArms \/ ReleaseMutex \/ ResumeServo
  \/ \E failing \in SUBSET Arms : DisableArms(failing) \/ EnableArms(failing)
  \/ \E ok \in BOOLEAN : ResetErrors(ok) \/ SyncLeft(ok) \/ SyncRight(ok)

Environment ==
  \/ \E a \in Arms, p \in Positions \cup {NotFinite} : NewGoal(a, p)
  \/ \E a \in Arms, p \in Positions : ArmMoves(a, p)
  \/ PassTime

HardwareNext == Lifecycle \/ ControlLoop \/ BeginRecovery \/ RecoveryThread \/ Environment

HardwareSpec == HardwareInit /\ [][HardwareNext]_hardwareVars

(* Threads run, and a deactivation that has begun goes on.                 *)
FairHardwareSpec ==
  /\ HardwareSpec
  /\ WF_hardwareVars(ControlLoop)
  /\ WF_hardwareVars(RecoveryThread)
  /\ WF_hardwareVars(OnDeactivate)

-----------------------------------------------------------------------------
Commands == Positions \cup {NotFinite, NoPosition}

(* The types of the component's state; the mutex is held exactly by the    *)
(* thread that is between its lock and its release.                        *)
HardwareTypeOK ==
  /\ lifecycle \in {"inactive", "active", "deactivating", "error"}
  /\ service \in {"none", "starting", "spinning", "cancelled"}
  /\ loop \in {"read", "read_lock", "update", "write", "write_lock", "servo_left",
               "servo_right", "write_end"}
  /\ rec \in {"idle", "lock", "disable", "reset", "enable", "sync_left", "sync_right",
              "release", "resume"}
  /\ mutex = "loop" <=> loop \in {"servo_left", "servo_right", "write_end"}
  /\ mutex = "recovery" <=> rec \notin {"idle", "lock", "resume"}
  /\ recovering <=> rec # "idle"
  /\ goal \in [Arms -> Commands] /\ command \in [Arms -> Commands]
  /\ last \in [Arms -> Commands] /\ hasLast \in BOOLEAN
  /\ lastServo \in [Arms -> Int] /\ failed \subseteq Arms
  /\ actual \in [Arms -> Commands] /\ accepted \in [Arms -> Commands]
  /\ sends \in [Arms -> Nat] /\ enabled \subseteq Arms
  /\ success \in BOOLEAN
  /\ activated \in Nat /\ activations \in Nat /\ recoveries \in Nat /\ now \in Nat

(* "ServoJ writes are paused": between StopMotion and the sync of a        *)
(* recovery no arm gets a ServoJ, also not from a call of write that had   *)
(* looked at _recovery_in_progress before the recovery began.              *)
NoServoDuringRecovery ==
  [][sends' # sends => rec \notin {"disable", "reset", "enable", "sync_left", "sync_right"}]_hardwareVars

(* "Command both arms before reporting a failure, so one arm's error never *)
(* leaves the other arm without its command for this cycle."               *)
BothArmsCommanded ==
  loop \notin {"servo_left", "servo_right"} => \A a, b \in Arms : sends[a] = sends[b]

(* The rate limiter keeps the servo buffer of an arm from filling: no more *)
(* ServoJ calls than intervals since the activation, whatever blocks the   *)
(* loop in between.                                                        *)
ServoRate ==
  \A a \in Arms : sends[a] > 0 => (sends[a] - 1) * ServoInterval <= now - activated

(* write drops a command that equals the last one: both arms have accepted *)
(* that one in this activation, though one of the calls, or a whole        *)
(* activation, may have failed since.  It says nothing of where the arms   *)
(* are: a recovery does not clear _has_last_position_command, so a goal    *)
(* equal to the last one is dropped although an arm was moved meanwhile.   *)
SuppressedCommandWasAccepted ==
  lifecycle = "active" /\ loop \notin {"servo_right", "write_end"} /\ hasLast => accepted = last

(* A recovery that reports success has left every arm enabled, whatever    *)
(* failed on one arm alone (call_both_required).                           *)
RecoveredArmsEnabled == rec = "resume" /\ success => enabled = Arms

(* A recovery ends, although the control loop takes the mutex in every     *)
(* cycle and a deactivation may wait for it.                               *)
RecoveryEnds == recovering ~> ~recovering

(* A deactivation ends once its cancel() has reached the executor: join()  *)
(* waits for a recovery under way, which needs the mutex.                  *)
DeactivationEnds == lifecycle = "deactivating" /\ service = "cancelled" ~> lifecycle = "inactive"

=============================================================================
