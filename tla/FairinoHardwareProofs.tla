------------------------ MODULE FairinoHardwareProofs ------------------------
(***************************************************************************)
(* Theorems about FairinoHardware, for one arm or two, any positions, any  *)
(* servo interval and any number of activations and recoveries.            *)
(***************************************************************************)
EXTENDS FairinoHardware, TLAPS

(* The type invariant in two parts: where the threads are and who holds    *)
(* the mutex, and the data.                                                *)
ControlTypes ==
  /\ lifecycle \in {"inactive", "active", "deactivating", "error"}
  /\ service \in {"none", "starting", "spinning", "cancelled"}
  /\ loop \in {"read", "read_lock", "update", "write", "write_lock", "servo_left",
               "servo_right", "write_end"}
  /\ rec \in {"idle", "lock", "disable", "reset", "enable", "sync_left", "sync_right",
              "release", "resume"}
  /\ mutex = "loop" <=> loop \in {"servo_left", "servo_right", "write_end"}
  /\ mutex = "recovery" <=> rec \notin {"idle", "lock", "resume"}
  /\ recovering <=> rec # "idle"

DataTypes ==
  /\ goal \in [Arms -> Commands] /\ command \in [Arms -> Commands]
  /\ last \in [Arms -> Commands] /\ hasLast \in BOOLEAN
  /\ lastServo \in [Arms -> Int] /\ failed \subseteq Arms
  /\ actual \in [Arms -> Commands] /\ accepted \in [Arms -> Commands]
  /\ sends \in [Arms -> Nat] /\ enabled \subseteq Arms
  /\ success \in BOOLEAN
  /\ activated \in Nat /\ activations \in Nat /\ recoveries \in Nat /\ now \in Nat

(* Where the recovery thread and the control loop may be in each phase of  *)
(* the component's life.                                                   *)
LifeInv ==
  /\ mutex \in {"free", "loop", "recovery"}
  /\ lifecycle \in {"inactive", "deactivating"} => loop = "read"
  /\ lifecycle = "inactive" => service = "none"
  /\ service \in {"none", "starting"} => rec = "idle"
  /\ loop = "servo_right" => "right" \in Arms

(* From the call that enables the arms on, a recovery that is a success so *)
(* far has enabled all of them.                                            *)
EnabledInv ==
  rec \in {"sync_left", "sync_right", "release", "resume"} /\ success => enabled = Arms

(* The left arm is one ServoJ ahead between the two calls.                 *)
SendsInv ==
  IF loop = "servo_right" THEN sends["left"] = sends["right"] + 1
  ELSE \A a, b \in Arms : sends[a] = sends[b]

(* The calls that the limiter has allowed arm a so far, this one included. *)
Admitted(a) ==
  IF loop = "servo_left" \/ (loop = "servo_right" /\ a = "right") THEN sends[a] + 1 ELSE sends[a]

RateInv ==
  \A a \in Arms :
    /\ Admitted(a) * ServoInterval <= lastServo[a] + ServoInterval - activated
    /\ lastServo[a] <= now

(* An arm that was called in this write and did not fail has the command.  *)
CalledInv ==
  /\ loop \notin {"servo_right", "write_end"} => failed = {}
  /\ loop = "servo_right" /\ "left" \notin failed => accepted["left"] = command["left"]
  /\ loop = "write_end" => \A a \in Arms \ failed : accepted[a] = command[a]

SuppressInv ==
  lifecycle # "error" /\ loop \notin {"servo_right", "write_end"} /\ hasLast => accepted = last

HardwareInv ==
  /\ ControlTypes /\ DataTypes
  /\ LifeInv /\ EnabledInv /\ SendsInv /\ RateInv /\ CalledInv /\ SuppressInv

-----------------------------------------------------------------------------
(* The two halves of the type invariant, which the steps disturb           *)
(* separately.                                                             *)
LEMMA TypesTogether == HardwareTypeOK <=> ControlTypes /\ DataTypes
BY DEF HardwareTypeOK, ControlTypes, DataTypes

(* The component starts inactive, with no command remembered and no        *)
(* recovery (fairino_hardware_interface.cpp, on_init).                     *)
LEMMA HardwareInitInv == HardwareInit => HardwareInv
<1> SUFFICES ASSUME HardwareInit PROVE HardwareInv
  OBVIOUS
<1> USE HardwareAssumption DEF HardwareInit, Everywhere
<1>1. ControlTypes
  BY DEF ControlTypes
<1>2. DataTypes
  <2>1. lastServo \in [Arms -> Int] /\ sends \in [Arms -> Nat]
    OBVIOUS
  <2>2. command \in [Arms -> Commands] /\ actual \in [Arms -> Commands]
    BY DEF Commands
  <2>3. /\ goal \in [Arms -> Commands] /\ last \in [Arms -> Commands]
        /\ accepted \in [Arms -> Commands]
    BY DEF Commands
  <2> QED
    BY <2>1, <2>2, <2>3 DEF DataTypes
<1>3. LifeInv /\ EnabledInv /\ SendsInv /\ CalledInv /\ SuppressInv
  BY DEF LifeInv, EnabledInv, SendsInv, CalledInv, SuppressInv
<1>4. RateInv
  <2> SUFFICES ASSUME NEW a \in Arms
               PROVE  /\ sends[a] * ServoInterval <= lastServo[a] + ServoInterval - activated
                      /\ lastServo[a] <= now
    BY DEF RateInv, Admitted
  <2>1. sends[a] = 0 /\ lastServo[a] = -ServoInterval /\ activated = 0 /\ now = 0
    OBVIOUS
  <2> QED
    BY <2>1
<1> QED
  BY <1>1, <1>2, <1>3, <1>4 DEF HardwareInv

-----------------------------------------------------------------------------
(* One lemma for each part of the invariant, with a step for the lifecycle *)
(* calls, the steps of the control loop, the recovery and the environment. *)

(* Whoever takes the mutex finds it free, and a component is deactivated   *)
(* only when neither thread is at work.                                    *)
LEMMA ControlStep ==
  ASSUME ControlTypes, LifeInv, [HardwareNext]_hardwareVars
  PROVE  ControlTypes' /\ LifeInv'
<1> USE HardwareAssumption DEF ControlTypes, LifeInv,
            lifeVars, loopVars, robotVars, recoveryVars
<1>1. CASE Lifecycle
  BY <1>1 DEF Lifecycle, OnActivate, ForgetLast, BeginSpin, CancelRecovery, OnDeactivate,
              Everywhere
<1>2. CASE ReadCheck \/ UpdateControllers \/ WriteCheck \/ (\E ok \in BOOLEAN : Read(ok))
  BY <1>2 DEF ReadCheck, Read, UpdateControllers, WriteCheck, Goto
<1>3. CASE WriteDecide
  BY <1>3 DEF WriteDecide, WriteLocks, Goto
<1>4. CASE \E ok \in BOOLEAN : ServoLeft(ok)
  BY <1>4 DEF ServoLeft, ServoJ, AfterLeft, Goto
<1>5. CASE \E ok \in BOOLEAN : ServoRight(ok)
  BY <1>5 DEF ServoRight, ServoJ, Goto
<1>6. CASE WriteEnd
  BY <1>6 DEF WriteEnd, Unlock, Goto
<1>7. CASE BeginRecovery \/ RecoveryThread
  BY <1>7 DEF BeginRecovery, RecoveryThread, StopArms, DisableArms, ResetErrors, EnableArms, CallBoth, Stage, SyncLeft,
              SyncRight, SyncArm, ReleaseMutex, ResumeServo
<1>8. CASE Environment \/ UNCHANGED hardwareVars
  BY <1>8 DEF Environment, NewGoal, ArmMoves, PassTime, hardwareVars
<1> QED
  BY <1>1, <1>2, <1>3, <1>4, <1>5, <1>6, <1>7, <1>8 DEF HardwareNext, ControlLoop

(* Commands, goals, stamps and counters of the arms stay well typed in     *)
(* every step of the control loop, the recovery and the lifecycle.         *)
LEMMA DataStep ==
  ASSUME DataTypes, LifeInv, [HardwareNext]_hardwareVars
  PROVE  DataTypes'
<1> USE HardwareAssumption DEF DataTypes, LifeInv,
            lifeVars, loopVars, robotVars, recoveryVars
<1>1. CASE Lifecycle
  <2>1. ASSUME NEW ok \in BOOLEAN, NEW warned \in SUBSET Arms, OnActivate(ok, warned), ok
        PROVE  DataTypes'
    <3>1. /\ last' \in [Arms -> Commands] /\ goal' \in [Arms -> Commands]
          /\ accepted' \in [Arms -> Commands] /\ hasLast' \in BOOLEAN
      BY <2>1 DEF OnActivate, ForgetLast, Everywhere, Commands
    <3>2. /\ lastServo' \in [Arms -> Int] /\ sends' \in [Arms -> Nat]
      BY <2>1 DEF OnActivate, Everywhere
    <3> QED
      BY <2>1, <3>1, <3>2 DEF OnActivate
  <2>2. ASSUME NEW ok \in BOOLEAN, NEW warned \in SUBSET Arms, OnActivate(ok, warned), ~ok
        PROVE  DataTypes'
    <3>1. UNCHANGED <<goal, command, last, hasLast, lastServo, failed, actual, accepted, sends,
                      enabled, success, activated, recoveries, now>>
      BY <2>2 DEF OnActivate
    <3>2. activations' = activations + 1
      BY <2>2 DEF OnActivate
    <3> QED
      BY <3>1, <3>2
  <2>3. CASE BeginSpin \/ CancelRecovery \/ OnDeactivate
    BY <2>3 DEF BeginSpin, CancelRecovery, OnDeactivate
  <2> QED
    BY <1>1, <2>1, <2>2, <2>3 DEF Lifecycle
<1>2. CASE ReadCheck \/ UpdateControllers \/ WriteCheck \/ (\E ok \in BOOLEAN : Read(ok))
  BY <1>2 DEF ReadCheck, Read, UpdateControllers, WriteCheck, Goto
<1>3. CASE WriteDecide
  <2>1. lastServo' \in [Arms -> Int]
    BY <1>3 DEF WriteDecide, Everywhere
  <2> QED
    BY <1>3, <2>1 DEF WriteDecide
<1>4. CASE \E ok \in BOOLEAN : ServoLeft(ok)
  <2> PICK ok \in BOOLEAN : ServoLeft(ok)
    BY <1>4
  <2>1. sends' \in [Arms -> Nat] /\ failed' \subseteq Arms
    BY HardwareAssumption DEF ServoLeft, ServoJ
  <2>2. accepted' \in [Arms -> Commands] /\ actual' \in [Arms -> Commands]
    BY DEF ServoLeft, ServoJ
  <2> QED
    BY <2>1, <2>2 DEF ServoLeft, ServoJ
<1>5. CASE \E ok \in BOOLEAN : ServoRight(ok)
  <2> PICK ok \in BOOLEAN : ServoRight(ok)
    BY <1>5
  <2>1. sends' \in [Arms -> Nat] /\ failed' \subseteq Arms
    BY HardwareAssumption DEF ServoRight, ServoJ
  <2>2. accepted' \in [Arms -> Commands] /\ actual' \in [Arms -> Commands]
    BY DEF ServoRight, ServoJ
  <2> QED
    BY <2>1, <2>2 DEF ServoRight, ServoJ
<1>6. CASE WriteEnd
  BY <1>6 DEF WriteEnd, Unlock, Goto
<1>7. CASE BeginRecovery \/ RecoveryThread
  <2>1. CASE BeginRecovery \/ StopArms
    <3>1. CASE BeginRecovery
      <4>1. recoveries' \in Nat /\ success' \in BOOLEAN
        <5>1. recoveries' = recoveries + 1 /\ success' = FALSE
          BY <3>1 DEF BeginRecovery
        <5>2. recoveries' \in Nat
          BY <5>1
        <5> QED
          BY <5>1, <5>2
      <4>2. UNCHANGED <<goal, command, last, hasLast, lastServo, failed, actual, accepted, sends,
                        enabled, activated, activations, now>>
        BY <3>1 DEF BeginRecovery
      <4> QED
        BY <4>1, <4>2
    <3>2. CASE StopArms
      <4>1. recoveries' = recoveries /\ success' = TRUE
        BY <3>2 DEF StopArms
      <4> QED
        BY <3>2, <4>1 DEF StopArms
    <3> QED
      BY <2>1, <3>1, <3>2
  <2>2. CASE \E failing \in SUBSET Arms : DisableArms(failing)
    BY <2>2 DEF DisableArms, CallBoth
  <2>3. CASE \E ok \in BOOLEAN : ResetErrors(ok)
    BY <2>3 DEF ResetErrors, Stage
  <2>4. CASE \E failing \in SUBSET Arms : EnableArms(failing)
    BY <2>4 DEF EnableArms, CallBoth
  <2>5. CASE \E ok \in BOOLEAN : SyncLeft(ok) \/ SyncRight(ok)
    BY <2>5 DEF SyncLeft, SyncRight, SyncArm
  <2>6. CASE ReleaseMutex \/ ResumeServo
    BY <2>6 DEF ReleaseMutex, ResumeServo, Stage
  <2> QED
    BY <1>7, <2>1, <2>2, <2>3, <2>4, <2>5, <2>6 DEF RecoveryThread
<1>8. CASE Environment \/ UNCHANGED hardwareVars
  <2>1. CASE \E a \in Arms, p \in Positions \cup {NotFinite} : NewGoal(a, p)
    BY <2>1 DEF NewGoal, Commands
  <2>2. CASE \E a \in Arms, p \in Positions : ArmMoves(a, p)
    BY <2>2 DEF ArmMoves, Commands
  <2>3. CASE PassTime
    <3>1. now' \in Nat
      BY <2>3 DEF PassTime
    <3> QED
      BY <2>3, <3>1 DEF PassTime
  <2>4. CASE UNCHANGED hardwareVars
    BY <2>4 DEF hardwareVars
  <2> QED
    BY <1>8, <2>1, <2>2, <2>3, <2>4 DEF Environment
<1> QED
  BY <1>1, <1>2, <1>3, <1>4, <1>5, <1>6, <1>7, <1>8 DEF HardwareNext, ControlLoop

(* EnabledInv is preserved: whoever disables an arm is the recovery, and   *)
(* it enables the arm again before it clears the flag.                     *)
LEMMA EnabledStep ==
  ASSUME ControlTypes, DataTypes, LifeInv, EnabledInv, [HardwareNext]_hardwareVars
  PROVE  EnabledInv'
<1> USE HardwareAssumption DEF ControlTypes, DataTypes, LifeInv, EnabledInv,
            lifeVars, loopVars, robotVars, recoveryVars
<1>1. CASE Lifecycle
  BY <1>1 DEF Lifecycle, OnActivate, ForgetLast, BeginSpin, CancelRecovery, OnDeactivate,
              Everywhere
<1>2. CASE ReadCheck \/ UpdateControllers \/ WriteCheck \/ (\E ok \in BOOLEAN : Read(ok))
  BY <1>2 DEF ReadCheck, Read, UpdateControllers, WriteCheck, Goto
<1>3. CASE WriteDecide
  BY <1>3 DEF WriteDecide, WriteLocks, Goto
<1>4. CASE \E ok \in BOOLEAN : ServoLeft(ok)
  BY <1>4 DEF ServoLeft, ServoJ, AfterLeft, Goto
<1>5. CASE \E ok \in BOOLEAN : ServoRight(ok)
  BY <1>5 DEF ServoRight, ServoJ, Goto
<1>6. CASE WriteEnd
  BY <1>6 DEF WriteEnd, Unlock, Goto
<1>7. CASE BeginRecovery \/ RecoveryThread
  <2>1. CASE BeginRecovery \/ StopArms
    BY <2>1 DEF BeginRecovery, StopArms, Stage
  <2>2. CASE \E failing \in SUBSET Arms : DisableArms(failing)
    BY <2>2 DEF DisableArms, CallBoth
  <2>3. CASE \E ok \in BOOLEAN : ResetErrors(ok)
    BY <2>3 DEF ResetErrors, Stage
  <2>4. CASE \E failing \in SUBSET Arms : EnableArms(failing)
    BY <2>4 DEF EnableArms, CallBoth
  <2>5. CASE \E ok \in BOOLEAN : SyncLeft(ok) \/ SyncRight(ok)
    BY <2>5 DEF SyncLeft, SyncRight, SyncArm
  <2>6. CASE ReleaseMutex \/ ResumeServo
    BY <2>6 DEF ReleaseMutex, ResumeServo, Stage
  <2> QED
    BY <1>7, <2>1, <2>2, <2>3, <2>4, <2>5, <2>6 DEF RecoveryThread
<1>8. CASE Environment \/ UNCHANGED hardwareVars
  BY <1>8 DEF Environment, NewGoal, ArmMoves, PassTime, hardwareVars
<1> QED
  BY <1>1, <1>2, <1>3, <1>4, <1>5, <1>6, <1>7, <1>8 DEF HardwareNext, ControlLoop

(* SendsInv is preserved: within one write() the arms are commanded in     *)
(* turn, so that the counts differ by the arms still to come.              *)
LEMMA SendsStep ==
  ASSUME ControlTypes, DataTypes, LifeInv, SendsInv, [HardwareNext]_hardwareVars
  PROVE  SendsInv'
<1> USE HardwareAssumption DEF ControlTypes, DataTypes, LifeInv, SendsInv,
            lifeVars, loopVars, robotVars, recoveryVars
<1>1. CASE Lifecycle
  BY <1>1 DEF Lifecycle, OnActivate, ForgetLast, BeginSpin, CancelRecovery, OnDeactivate,
              Everywhere
<1>2. CASE ReadCheck \/ UpdateControllers \/ WriteCheck \/ (\E ok \in BOOLEAN : Read(ok))
  BY <1>2 DEF ReadCheck, Read, UpdateControllers, WriteCheck, Goto
<1>3. CASE WriteDecide
  BY <1>3 DEF WriteDecide, WriteLocks, Goto
<1>4. CASE \E ok \in BOOLEAN : ServoLeft(ok)
  BY <1>4 DEF ServoLeft, ServoJ, AfterLeft, Goto
<1>5. CASE \E ok \in BOOLEAN : ServoRight(ok)
  BY <1>5 DEF ServoRight, ServoJ, Goto
<1>6. CASE WriteEnd
  BY <1>6 DEF WriteEnd, Unlock, Goto
<1>7. CASE BeginRecovery \/ RecoveryThread
  BY <1>7 DEF BeginRecovery, RecoveryThread, StopArms, DisableArms, ResetErrors, EnableArms, CallBoth, Stage, SyncLeft,
              SyncRight, SyncArm, ReleaseMutex, ResumeServo
<1>8. CASE Environment \/ UNCHANGED hardwareVars
  BY <1>8 DEF Environment, NewGoal, ArmMoves, PassTime, hardwareVars
<1> QED
  BY <1>1, <1>2, <1>3, <1>4, <1>5, <1>6, <1>7, <1>8 DEF HardwareNext, ControlLoop

(* The command buffer is changed by a recovery only under the mutex, and by *)
(* the controllers only between two calls of write.                        *)
LEMMA CalledStep ==
  ASSUME ControlTypes, DataTypes, LifeInv, CalledInv, [HardwareNext]_hardwareVars
  PROVE  CalledInv'
<1> USE HardwareAssumption DEF ControlTypes, DataTypes, LifeInv, CalledInv,
            lifeVars, loopVars, robotVars, recoveryVars
<1>1. CASE Lifecycle
  BY <1>1 DEF Lifecycle, OnActivate, ForgetLast, BeginSpin, CancelRecovery, OnDeactivate,
              Everywhere
<1>2. CASE ReadCheck \/ UpdateControllers \/ WriteCheck \/ (\E ok \in BOOLEAN : Read(ok))
  BY <1>2 DEF ReadCheck, Read, UpdateControllers, WriteCheck, Goto
<1>3. CASE WriteDecide
  BY <1>3 DEF WriteDecide, WriteLocks, Goto
<1>4. CASE \E ok \in BOOLEAN : ServoLeft(ok)
  BY <1>4 DEF ServoLeft, ServoJ, AfterLeft, Goto
<1>5. CASE \E ok \in BOOLEAN : ServoRight(ok)
  BY <1>5 DEF ServoRight, ServoJ, Goto
<1>6. CASE WriteEnd
  BY <1>6 DEF WriteEnd, Unlock, Goto
<1>7. CASE BeginRecovery \/ RecoveryThread
  BY <1>7 DEF BeginRecovery, RecoveryThread, StopArms, DisableArms, ResetErrors, EnableArms, CallBoth, Stage, SyncLeft,
              SyncRight, SyncArm, ReleaseMutex, ResumeServo
<1>8. CASE Environment \/ UNCHANGED hardwareVars
  BY <1>8 DEF Environment, NewGoal, ArmMoves, PassTime, hardwareVars
<1> QED
  BY <1>1, <1>2, <1>3, <1>4, <1>5, <1>6, <1>7, <1>8 DEF HardwareNext, ControlLoop

(* SuppressInv is preserved: the remembered command is one that every arm  *)
(* has accepted, or is forgotten.                                          *)
LEMMA SuppressStep ==
  ASSUME ControlTypes, DataTypes, LifeInv, CalledInv, SuppressInv, [HardwareNext]_hardwareVars
  PROVE  SuppressInv'
<1> USE HardwareAssumption DEF ControlTypes, DataTypes, LifeInv, CalledInv, SuppressInv,
            lifeVars, loopVars, robotVars, recoveryVars
<1>1. CASE Lifecycle
  BY <1>1 DEF Lifecycle, OnActivate, ForgetLast, BeginSpin, CancelRecovery, OnDeactivate,
              Everywhere
<1>2. CASE ReadCheck \/ UpdateControllers \/ WriteCheck \/ (\E ok \in BOOLEAN : Read(ok))
  BY <1>2 DEF ReadCheck, Read, UpdateControllers, WriteCheck, Goto
<1>3. CASE WriteDecide
  BY <1>3 DEF WriteDecide, WriteLocks, Goto
<1>4. CASE \E ok \in BOOLEAN : ServoLeft(ok)
  BY <1>4 DEF ServoLeft, ServoJ, AfterLeft, Goto
<1>5. CASE \E ok \in BOOLEAN : ServoRight(ok)
  BY <1>5 DEF ServoRight, ServoJ, Goto
<1>6. CASE WriteEnd
  <2>1. CASE failed = {}
    <3>1. accepted = command
      <4>1. \A a \in Arms : accepted[a] = command[a]
        BY <1>6, <2>1 DEF WriteEnd
      <4>2. /\ accepted = [a \in Arms |-> accepted[a]]
            /\ command = [a \in Arms |-> command[a]]
        OBVIOUS
      <4>3. [a \in Arms |-> accepted[a]] = [a \in Arms |-> command[a]]
        BY <4>1
      <4> QED
        BY <4>2, <4>3
    <3> QED
      BY <1>6, <2>1, <3>1 DEF WriteEnd, Goto
  <2>2. CASE failed # {}
    BY <1>6, <2>2 DEF WriteEnd
  <2> QED
    BY <2>1, <2>2
<1>7. CASE BeginRecovery \/ RecoveryThread
  BY <1>7 DEF BeginRecovery, RecoveryThread, StopArms, DisableArms, ResetErrors, EnableArms, CallBoth, Stage, SyncLeft,
              SyncRight, SyncArm, ReleaseMutex, ResumeServo
<1>8. CASE Environment \/ UNCHANGED hardwareVars
  BY <1>8 DEF Environment, NewGoal, ArmMoves, PassTime, hardwareVars
<1> QED
  BY <1>1, <1>2, <1>3, <1>4, <1>5, <1>6, <1>7, <1>8 DEF HardwareNext, ControlLoop

(* RateInv is preserved: an arm that is called again has let ServoInterval *)
(* pass since its last call, or was activated in between.                  *)
LEMMA RateStep ==
  ASSUME ControlTypes, DataTypes, LifeInv, RateInv, [HardwareNext]_hardwareVars
  PROVE  RateInv'
<1> USE HardwareAssumption DEF ControlTypes, DataTypes, LifeInv,
            lifeVars, loopVars, robotVars, recoveryVars
<1>1. CASE Lifecycle
  BY <1>1 DEF RateInv, Admitted, Lifecycle, OnActivate, ForgetLast, BeginSpin, CancelRecovery, OnDeactivate,
              Everywhere
<1>2. CASE ReadCheck \/ UpdateControllers \/ WriteCheck \/ (\E ok \in BOOLEAN : Read(ok))
  BY <1>2 DEF RateInv, Admitted, ReadCheck, Read, UpdateControllers, WriteCheck, Goto
<1>3. CASE WriteDecide
  <2> SUFFICES ASSUME NEW a \in Arms
               PROVE  /\ Admitted(a)' * ServoInterval <= lastServo'[a] + ServoInterval - activated'
                      /\ lastServo'[a] <= now'
    BY DEF RateInv
  <2>1. /\ Admitted(a) = sends[a]
        /\ sends[a] * ServoInterval <= lastServo[a] + ServoInterval - activated
        /\ lastServo[a] <= now
    BY <1>3 DEF RateInv, Admitted, WriteDecide
  <2>2. sends' = sends /\ activated' = activated /\ now' = now
    BY <1>3 DEF WriteDecide
  <2>3. CASE loop' = "servo_left"
    <3>1. now - lastServo[a] >= ServoInterval /\ lastServo'[a] = now
      BY <1>3, <2>3 DEF WriteDecide, Goto, Due, Everywhere
    <3>2. Admitted(a)' = sends[a] + 1
      BY <2>2, <2>3 DEF Admitted
    <3>3. (sends[a] + 1) * ServoInterval = sends[a] * ServoInterval + ServoInterval
      OBVIOUS
    <3>4. sends[a] * ServoInterval \in Int
      OBVIOUS
    <3> QED
      BY <2>1, <2>2, <3>1, <3>2, <3>3, <3>4
  <2>4. CASE loop' # "servo_left"
    <3>1. lastServo' = lastServo /\ loop' = "read"
      BY <1>3, <2>4 DEF WriteDecide, Goto
    <3>2. Admitted(a)' = sends[a]
      BY <2>2, <3>1 DEF Admitted
    <3> QED
      BY <2>1, <2>2, <3>1, <3>2
  <2> QED
    BY <2>3, <2>4
<1>4. CASE \E ok \in BOOLEAN : ServoLeft(ok)
  BY <1>4 DEF RateInv, Admitted, ServoLeft, ServoJ, AfterLeft, Goto
<1>5. CASE \E ok \in BOOLEAN : ServoRight(ok)
  BY <1>5 DEF RateInv, Admitted, ServoRight, ServoJ, Goto
<1>6. CASE WriteEnd
  BY <1>6 DEF RateInv, Admitted, WriteEnd, Unlock, Goto
<1>7. CASE BeginRecovery \/ RecoveryThread
  BY <1>7 DEF RateInv, Admitted, BeginRecovery, RecoveryThread, StopArms, DisableArms, ResetErrors, EnableArms, CallBoth, Stage, SyncLeft,
              SyncRight, SyncArm, ReleaseMutex, ResumeServo
<1>8. CASE Environment \/ UNCHANGED hardwareVars
  BY <1>8 DEF RateInv, Admitted, Environment, NewGoal, ArmMoves, PassTime, hardwareVars
<1> QED
  BY <1>1, <1>2, <1>3, <1>4, <1>5, <1>6, <1>7, <1>8 DEF HardwareNext, ControlLoop

-----------------------------------------------------------------------------
(* The inductive invariant holds in every reachable state, whichever calls *)
(* fail and however the two threads interleave.                            *)
THEOREM HardwareInvHolds == HardwareSpec => []HardwareInv
<1>1. HardwareInv /\ [HardwareNext]_hardwareVars => HardwareInv'
  <2> SUFFICES ASSUME HardwareInv, [HardwareNext]_hardwareVars PROVE HardwareInv'
    OBVIOUS
  <2> USE DEF HardwareInv
  <2>1. ControlTypes' /\ LifeInv'
    BY ControlStep
  <2>2. DataTypes'
    BY DataStep
  <2>3. EnabledInv' /\ SendsInv'
    BY EnabledStep, SendsStep
  <2>4. CalledInv' /\ SuppressInv'
    BY CalledStep, SuppressStep
  <2>5. RateInv'
    BY RateStep
  <2> QED
    BY <2>1, <2>2, <2>3, <2>4, <2>5
<1> QED
  BY <1>1, HardwareInitInv, PTL DEF HardwareSpec

(* The state is well typed, and the mutex is held exactly by the thread    *)
(* that is between its lock and its release.                               *)
THEOREM HardwareTypesHold == HardwareSpec => []HardwareTypeOK
<1>1. HardwareInv => HardwareTypeOK
  BY TypesTogether DEF HardwareInv
<1> QED
  BY <1>1, HardwareInvHolds, PTL

(* Between StopMotion and the sync of a recovery no arm gets a ServoJ:     *)
(* the call of ServoJ and the recovery's calls need the same mutex.        *)
THEOREM NoServoDuringRecoveryHolds == HardwareSpec => NoServoDuringRecovery
<1>1. HardwareInv /\ [HardwareNext]_hardwareVars =>
        [sends' # sends => rec \notin {"disable", "reset", "enable", "sync_left", "sync_right"}]_hardwareVars
  <2> SUFFICES ASSUME HardwareInv, HardwareNext, sends' # sends
               PROVE  rec \notin {"disable", "reset", "enable", "sync_left", "sync_right"}
    OBVIOUS
  <2> USE DEF HardwareInv, ControlTypes, LifeInv
  <2>1. CASE \E ok \in BOOLEAN, warned \in SUBSET Arms : OnActivate(ok, warned)
    BY <2>1 DEF OnActivate
  <2>2. CASE \E ok \in BOOLEAN : ServoLeft(ok) \/ ServoRight(ok)
    BY <2>2 DEF ServoLeft, ServoRight
  <2>3. CASE BeginSpin \/ CancelRecovery \/ OnDeactivate
    BY <2>3 DEF BeginSpin, CancelRecovery, OnDeactivate, robotVars
  <2>4. CASE ReadCheck \/ UpdateControllers \/ WriteCheck \/ WriteDecide \/ WriteEnd
             \/ (\E ok \in BOOLEAN : Read(ok))
    BY <2>4 DEF ReadCheck, Read, UpdateControllers, WriteCheck, WriteDecide, WriteEnd, robotVars
  <2>5. CASE BeginRecovery \/ RecoveryThread
    BY <2>5 DEF BeginRecovery, RecoveryThread, StopArms, DisableArms, ResetErrors, EnableArms,
                SyncLeft, SyncRight, SyncArm, ReleaseMutex, ResumeServo, robotVars
  <2>6. CASE Environment
    BY <2>6 DEF Environment, NewGoal, ArmMoves, PassTime, robotVars
  <2> QED
    BY <2>1, <2>2, <2>3, <2>4, <2>5, <2>6 DEF HardwareNext, Lifecycle, ControlLoop
<1> QED
  BY <1>1, HardwareInvHolds, PTL DEF HardwareSpec, NoServoDuringRecovery

(* Both arms have been sent the same number of commands, except between    *)
(* the two calls of one write, whichever of them fail.                     *)
THEOREM BothArmsCommandedHolds == HardwareSpec => []BothArmsCommanded
<1>1. HardwareInv => BothArmsCommanded
  BY DEF HardwareInv, SendsInv, BothArmsCommanded
<1> QED
  BY <1>1, HardwareInvHolds, PTL

(* A recovery that reports success has left every arm enabled.             *)
THEOREM RecoveredArmsEnabledHolds == HardwareSpec => []RecoveredArmsEnabled
<1>1. HardwareInv => RecoveredArmsEnabled
  BY DEF HardwareInv, EnabledInv, RecoveredArmsEnabled
<1> QED
  BY <1>1, HardwareInvHolds, PTL

(* No arm gets more ServoJ calls than intervals since the activation.      *)
THEOREM ServoRateHolds == HardwareSpec => []ServoRate
<1>1. HardwareInv => ServoRate
  <2> SUFFICES ASSUME HardwareInv, NEW a \in Arms, sends[a] > 0
               PROVE  (sends[a] - 1) * ServoInterval <= now - activated
    BY DEF ServoRate
  <2>1. /\ sends[a] \in Nat /\ ServoInterval \in Nat /\ lastServo[a] \in Int
        /\ now \in Nat /\ activated \in Nat
    BY HardwareAssumption DEF HardwareInv, DataTypes
  <2>2. /\ Admitted(a) * ServoInterval <= lastServo[a] + ServoInterval - activated
        /\ lastServo[a] <= now
        /\ Admitted(a) \in {sends[a], sends[a] + 1}
    BY DEF HardwareInv, RateInv, Admitted
  <2>3. /\ (sends[a] + 1) * ServoInterval = sends[a] * ServoInterval + ServoInterval
        /\ (sends[a] - 1) * ServoInterval = sends[a] * ServoInterval - ServoInterval
        /\ sends[a] * ServoInterval \in Int
    BY <2>1
  <2>4. sends[a] * ServoInterval <= lastServo[a] + ServoInterval - activated
    BY <2>1, <2>2, <2>3
  <2> QED
    BY <2>1, <2>2, <2>3, <2>4
<1> QED
  BY <1>1, HardwareInvHolds, PTL

(* The command that write compares with was accepted by every arm in this  *)
(* activation, so dropping an equal one drops nothing that was needed.     *)
THEOREM SuppressedCommandWasAcceptedHolds == HardwareSpec => []SuppressedCommandWasAccepted
<1>1. HardwareInv => SuppressedCommandWasAccepted
  BY DEF HardwareInv, SuppressInv, SuppressedCommandWasAccepted
<1> QED
  BY <1>1, HardwareInvHolds, PTL
=============================================================================
