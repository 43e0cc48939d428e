---------------------------- MODULE AgentRuntime ----------------------------
(***************************************************************************)
(* The runtime of the agent (remote_agent/dracoviloc_agent/runtime.py),    *)
(* which runs each control command as a job in a thread of its own.  The   *)
(* server (AgentServer) starts a job for a command of the session that has *)
(* control; several may be under way at a time.                            *)
(*                                                                         *)
(* Jobs interleave with each other and with the status thread at every     *)
(* command they run.  The systemd unit of the host stack, the YOLO         *)
(* container and the arm tracker are external; a command may fail, and one *)
(* that exceeds its timeout raises and ends the job, except where the code *)
(* catches it.                                                             *)
(***************************************************************************)

CONSTANTS
  Jobs          (* identities of jobs, each used once                       *)

VARIABLES
  job,          (* job[j]: what it does, where it is, its answer            *)
  host,         (* the unit dracoviloc-host: off, active, deactivating      *)
  container,    (* the container isaac_yolo runs                            *)
  spawned,      (* the controllers and the tracker of the host are up       *)
  arms,         (* rest, tracking, stopping                                 *)
  cache,        (* status["controllers"]: the active controller             *)
  service,      (* status["tracking_service"]                               *)
  joints        (* status: fresh joint states of all joints                 *)

hostVars == <<host, container, spawned, arms>>
statusVars == <<cache, service, joints>>
agentVars == <<job, hostVars, statusVars>>

Kinds == {"start", "home", "track", "untrack", "stop_all", "force_stop_all"}
Cleaning == {"stop_host", "kill_host", "stop_yolo", "kill_yolo"}
Stages == {"new", "check", "yolo_run", "yolo_wait", "launch", "ready_wait", "call", "decide",
           "motion", "restore_wait", "done"} \cup Cleaning

(* Commands of the clean-up that may fail unnoticed: exit codes are not    *)
(* looked at, and every code of a query but zero is a no.                  *)
Failures == {"stop_host", "is_active", "kill_host", "stop_yolo"}

(* restored: restored_by_service.  Histories: alone, no other start was in *)
(* flight while the job ran; failed, the commands of the clean-up under    *)
(* way that failed and so left the unit active, or the container running.  *)
NewJob == [kind |-> "start", at |-> "new", yolo |-> FALSE, restored |-> FALSE,
           alone |-> TRUE, failed |-> {}, ok |-> FALSE]

Running(j) == job[j].at \notin {"new", "done"}
Starting(j) == Running(j) /\ job[j].kind = "start"

-----------------------------------------------------------------------------
(* _handle starts a job for a control command.                             *)
Submit(j, kind, yolo) ==
  /\ job[j].at = "new" /\ (yolo => kind = "start")
  /\ job' = [i \in Jobs |->
       IF i = j
       THEN [NewJob EXCEPT
               !.kind = kind, !.yolo = yolo,
               !.at = CASE kind \in {"start", "stop_all"} -> "check"
                        [] kind = "force_stop_all" -> "kill_host"
                        [] OTHER -> "call",
               !.alone = \A k \in Jobs : ~Starting(k)]
       ELSE [job[i] EXCEPT !.alone = @ /\ kind # "start"]]
  /\ UNCHANGED <<hostVars, statusVars>>

-----------------------------------------------------------------------------
(* Steps of a job.                                                         *)

To(j, stage) == job' = [job EXCEPT ![j].at = stage]

(* A job that has answered keeps its answer only.                          *)
Answer(j, success) ==
  job' = [job EXCEPT ![j] = [NewJob EXCEPT !.at = "done", !.ok = success]]

(* A command that nobody catches exceeds its timeout.                      *)
Raise(j) ==
  /\ Running(j)
  /\ job[j].at \notin {"call", "decide", "motion", "restore_wait", "stop_host", "stop_yolo"}
  /\ Answer(j, FALSE)
  /\ UNCHANGED <<hostVars, statusVars>>

(* run_active: when systemctl itself fails, the answer is no.              *)
RunActive == host = "active"
IsActive == {FALSE, RunActive}

StartCheck(j) ==
  /\ job[j].at = "check" /\ job[j].kind = "start"
  /\ \E active \in IsActive :
       IF active
       THEN Answer(j, FALSE) /\ UNCHANGED joints
       ELSE To(j, IF job[j].yolo THEN "yolo_run" ELSE "launch") /\ joints' = FALSE
  /\ UNCHANGED <<hostVars, cache, service>>

(* docker run: the name isaac_yolo exists once.                            *)
RunYolo(j, ok) ==
  /\ job[j].at = "yolo_run"
  /\ IF ok /\ ~container
     THEN To(j, "yolo_wait") /\ container' = TRUE
     ELSE Answer(j, FALSE) /\ UNCHANGED container
  /\ UNCHANGED <<host, spawned, arms, statusVars>>

(* It is waited for until its images are fresh, docker inspect does not    *)
(* say that it runs, or 45 seconds have passed: then it is killed, if      *)
(* docker can.                                                             *)
AwaitYolo(j, fresh) ==
  /\ job[j].at = "yolo_wait"
  /\ IF container /\ fresh
     THEN To(j, "launch") /\ UNCHANGED container
     ELSE Answer(j, FALSE) /\ container' \in {FALSE, container}
  /\ UNCHANGED <<host, spawned, arms, statusVars>>

(* systemd-run: the unit exists once.                                      *)
Launch(j, ok) ==
  /\ job[j].at = "launch"
  /\ IF ok /\ host = "off"
     THEN To(j, "ready_wait") /\ host' = "active" /\ UNCHANGED container
     ELSE Answer(j, FALSE) /\ container' \in {FALSE, container} /\ UNCHANGED host
  /\ UNCHANGED <<spawned, arms, statusVars>>

(* Both launches may have had their effect when they exceed their timeout. *)
LaunchedLate(j) ==
  /\ Answer(j, FALSE)
  /\ \/ job[j].at = "yolo_run" /\ container' = TRUE /\ UNCHANGED host
     \/ job[j].at = "launch" /\ host = "off" /\ host' = "active" /\ UNCHANGED container
  /\ UNCHANGED <<spawned, arms, statusVars>>

(* With tracking enabled in the profile and without a classifier.          *)
Ready == cache = "trajectory" /\ service /\ joints

AwaitReady(j) ==
  /\ job[j].at = "ready_wait" /\ RunActive /\ Ready
  /\ Answer(j, TRUE)
  /\ UNCHANGED <<hostVars, statusVars>>

(* run_active says that the host has exited, or 45 seconds have passed.    *)
NotReady(j) ==
  /\ job[j].at = "ready_wait"
  /\ To(j, "stop_host")
  /\ UNCHANGED <<hostVars, statusVars>>

(* /demo/home and /demo/tracking, which the tracker may refuse.            *)
Tracking(enabled) ==
  arms' = IF enabled THEN "tracking" ELSE IF arms = "rest" THEN "rest" ELSE "stopping"

(* The services answer once the tracker is up.  Mutant: they always do.    *)
ReachedAlways == TRUE
Reached == RunActive /\ spawned

(* An answer may be lost: the client gives up after 20 seconds.            *)
Call(j, outcome) ==
  /\ job[j].at = "call"
  /\ IF outcome # "refused" /\ Reached
     THEN /\ Answer(j, outcome = "answered")
          /\ IF job[j].kind = "home" THEN UNCHANGED arms ELSE Tracking(job[j].kind = "track")
     ELSE Answer(j, FALSE) /\ UNCHANGED arms
  /\ UNCHANGED <<host, container, spawned, statusVars>>

(* stop_all up to the motion stop; the flag is read twice.                 *)
StopCheck(j) ==
  /\ job[j].at = "check" /\ job[j].kind = "stop_all"
  /\ \E active \in IsActive : IF active /\ ~service THEN Answer(j, FALSE) ELSE To(j, "decide")
  /\ UNCHANGED <<hostVars, statusVars>>

StopDecide(j) ==
  /\ job[j].at = "decide"
  /\ To(j, IF service THEN "motion" ELSE "stop_host")
  /\ UNCHANGED <<hostVars, statusVars>>

(* set_tracking(False), first and again while the restoration is awaited.  *)
StopMotion(j, outcome) ==
  /\ job[j].at \in {"motion", "restore_wait"}
  /\ IF outcome # "refused" /\ Reached THEN Tracking(FALSE) ELSE UNCHANGED arms
  /\ IF outcome = "answered" /\ Reached
     THEN job' = [job EXCEPT ![j].at = "restore_wait", ![j].restored = arms = "rest"]
     ELSE IF job[j].at = "motion"
     THEN Answer(j, FALSE)
     ELSE job' = [job EXCEPT ![j].restored = FALSE]
  /\ UNCHANGED <<host, container, spawned, statusVars>>

(* The wait for it ends after 15 seconds.  Mutant: it does not.            *)
DeadlineNever == FALSE
Deadline == TRUE

AwaitRestored(j) ==
  /\ job[j].at = "restore_wait"
  /\ \/ (cache = "trajectory" \/ job[j].restored) /\ To(j, "stop_host")
     \/ Deadline /\ Answer(j, FALSE)
  /\ UNCHANGED <<hostVars, statusVars>>

(* The next command of a clean-up, the last one having failed or not.      *)
GoOn(j, stage, failures) ==
  job' = [job EXCEPT ![j].at = stage, ![j].failed = @ \cup failures]

HostDown(state) == host' = state /\ spawned' = FALSE /\ arms' = "rest"

(* systemctl stop, with a timeout of 15 seconds that is caught: the unit   *)
(* is then still deactivating.                                             *)
StopHost(j, outcome) ==
  /\ job[j].at = "stop_host"
  /\ GoOn(j, "kill_host", IF outcome = "failed" /\ RunActive THEN {"stop_host"} ELSE {})
  /\ IF host = "off" \/ outcome = "failed"
     THEN UNCHANGED <<host, spawned, arms>>
     ELSE HostDown(IF outcome = "stopped" THEN "off" ELSE "deactivating")
  /\ UNCHANGED <<container, statusVars>>

(* SIGKILL if run_active still says so; its exit code is ignored, and      *)
(* systemd may need a moment to see that the processes are gone.           *)
(* Mutant: the unit is not killed.                                         *)
ToKillNever(active) == FALSE
ToKill(active) == active

KillHost(j, active, ok) ==
  /\ job[j].at = "kill_host"
  /\ active \in IsActive
  /\ GoOn(j, IF job[j].kind = "force_stop_all" THEN "kill_yolo" ELSE "stop_yolo",
          IF RunActive /\ ~active THEN {"is_active"}
          ELSE IF RunActive /\ ~ok THEN {"kill_host"} ELSE {})
  /\ IF ToKill(active) /\ ok
     THEN HostDown("off") \/ HostDown("deactivating")
     ELSE UNCHANGED <<host, spawned, arms>>
  /\ UNCHANGED <<container, statusVars>>

(* docker stop, with a timeout of 10 seconds that is caught.               *)
StopYolo(j, ok) ==
  /\ job[j].at = "stop_yolo"
  /\ GoOn(j, "kill_yolo", IF container /\ ~ok THEN {"stop_yolo"} ELSE {})
  /\ container' = (container /\ ~ok)
  /\ UNCHANGED <<host, spawned, arms, statusVars>>

(* docker kill if docker inspect says that it still runs.                  *)
KillYolo(j, seen, ok) ==
  /\ job[j].at = "kill_yolo"
  /\ seen \in {FALSE, container}
  /\ container' = (container /\ ~(seen /\ ok))
  /\ Answer(j, job[j].kind # "start")
  /\ UNCHANGED <<host, spawned, arms, statusVars>>

-----------------------------------------------------------------------------
(* The status thread and the environment.                                  *)

QueryControllers ==
  /\ RunActive /\ spawned
  /\ cache' = IF arms = "rest" THEN "trajectory" ELSE "tracking"
  /\ UNCHANGED <<job, hostVars, service, joints>>

(* The graph cache may or may not show the tracker.                        *)
PollGraph ==
  /\ service' \in {FALSE, RunActive /\ spawned}
  /\ UNCHANGED <<job, hostVars, cache, joints>>

(* Joint states are published before the controllers are all up.           *)
ReceiveJoints ==
  /\ RunActive
  /\ joints' = TRUE
  /\ UNCHANGED <<job, hostVars, cache, service>>

JointsStale ==
  /\ joints /\ joints' = FALSE
  /\ UNCHANGED <<job, hostVars, cache, service>>

Spawn ==
  /\ RunActive /\ ~spawned /\ spawned' = TRUE
  /\ UNCHANGED <<job, host, container, arms, statusVars>>

HostEnds ==
  /\ host # "off" /\ host' = "off" /\ spawned' = FALSE /\ arms' = "rest"
  /\ UNCHANGED <<job, container, statusVars>>

YoloExits ==
  /\ container /\ container' = FALSE
  /\ UNCHANGED <<job, host, spawned, arms, statusVars>>

ArmsRest ==
  /\ arms = "stopping" /\ arms' = "rest"
  /\ UNCHANGED <<job, host, container, spawned, statusVars>>

(* The unit and the container outlive the agent: it may be started while a *)
(* run is under way, of which it knows nothing yet.                        *)
AgentInit ==
  /\ job = [j \in Jobs |-> NewJob]
  /\ host \in {"off", "active"} /\ container \in BOOLEAN
  /\ spawned \in {FALSE, RunActive}
  /\ arms \in IF spawned THEN {"rest", "tracking", "stopping"} ELSE {"rest"}
  /\ cache = "none" /\ service = FALSE /\ joints = FALSE

JobStep(j) ==
  \/ Raise(j) \/ StartCheck(j) \/ LaunchedLate(j) \/ AwaitReady(j) \/ NotReady(j)
  \/ StopCheck(j) \/ StopDecide(j) \/ AwaitRestored(j)
  \/ \E ok \in BOOLEAN : RunYolo(j, ok) \/ AwaitYolo(j, ok) \/ Launch(j, ok) \/ StopYolo(j, ok)
  \/ \E yes, ok \in BOOLEAN : KillHost(j, yes, ok) \/ KillYolo(j, yes, ok)
  \/ \E outcome \in {"answered", "lost", "refused"} : Call(j, outcome) \/ StopMotion(j, outcome)
  \/ \E outcome \in {"stopped", "timeout", "failed"} : StopHost(j, outcome)

StatusThread == QueryControllers \/ PollGraph \/ ReceiveJoints \/ JointsStale

Machine == Spawn \/ HostEnds \/ YoloExits \/ ArmsRest

AgentNext ==
  \/ \E j \in Jobs, kind \in Kinds, yolo \in BOOLEAN : Submit(j, kind, yolo)
  \/ \E j \in Jobs : JobStep(j)
  \/ StatusThread \/ Machine

AgentSpec == AgentInit /\ [][AgentNext]_agentVars

(* Jobs go on: every command has a timeout and every loop a deadline.      *)
FairAgentSpec ==
  /\ AgentSpec
  /\ \A j \in Jobs : WF_agentVars(JobStep(j)) /\ WF_agentVars(AwaitRestored(j))

-----------------------------------------------------------------------------
(* The types of the agent's state; the arms move only under a host whose   *)
(* controllers are up.                                                     *)
AgentTypeOK ==
  /\ job \in [Jobs -> [kind : Kinds, at : Stages, yolo : BOOLEAN, restored : BOOLEAN,
                       alone : BOOLEAN, failed : SUBSET Failures, ok : BOOLEAN]]
  /\ host \in {"off", "active", "deactivating"} /\ container \in BOOLEAN
  /\ spawned \in BOOLEAN /\ (spawned => RunActive)
  /\ arms \in {"rest", "tracking", "stopping"} /\ (arms # "rest" => spawned)
  /\ cache \in {"none", "trajectory", "tracking"}
  /\ service \in BOOLEAN /\ joints \in BOOLEAN

(* Every job answers, whatever the tracker, systemd and docker do: nobody  *)
(* waits for ever on a stop that hangs.  (Each identity runs once.)        *)
JobsEnd == \A j \in Jobs : []<>~Running(j)

(* What must have failed for the unit to survive the clean-up of job x: a  *)
(* forced one does not try to stop it first.                               *)
Forced(x) == x.kind = "force_stop_all"
UnitMayStay(x) ==
  /\ Forced(x) \/ "stop_host" \in x.failed
  /\ "is_active" \in x.failed \/ "kill_host" \in x.failed

(* No single failure defeats _stop_managed_processes, if no start ran      *)
(* meanwhile: when the clean-up of a job ends, the unit is active only if  *)
(* stopping it failed and killing it (or the query before) failed as well; *)
(* and the container outlives a "Remote run stopped" only if, besides the  *)
(* last query or kill, docker stop failed.  The code does not look at      *)
(* these failures, and answers the same.                                   *)
NothingLeftActive ==
  [][\A j \in Jobs :
       job[j].at = "kill_yolo" /\ job'[j].at = "done" /\ job[j].alone =>
         /\ host' = "active" => UnitMayStay(job[j])
         /\ job'[j].ok /\ container' => Forced(job[j]) \/ "stop_yolo" \in job[j].failed
    ]_agentVars

=============================================================================
