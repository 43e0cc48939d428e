# A verification project for DracoViLoc

DracoViLoc finds a drone with a microphone array and a camera and follows it
with one or two FAIRINO arms, on ROS 2. This directory holds TLA+ models of the
parts of its own code that keep state and run concurrently, the TLC
configurations that check them, and theorems about all of them, which TLAPS
proves. `PROJECT.json` lists the components, the runs, the mutants that show what each property is sensitive to, the source lines
every definition stands for, the hazards and the theorems.

Paths below are relative to `src/` of the repository; `src/` in a ROS path is
the workspace directory of that name.

## 1. The system

```
 UMA16 microphones -> ODAS core --TCP--> ODAS bridge --/sss,/sst--> classifiers --+
                      (child process)                                            |
 camera -> YOLO container -> /yolo/direction ------------------------------+     |
                                                                           v     v
                                              gates + EKF <---------- directions
                                                   | /ekf/direction, /target_valid
                                                   v
 operator --/demo/home,/demo/tracking--> arm_tracker --servo stream--> ros2_control
                                             |  switch_controller          |
                                             +---------------------------> v
 GUI <--SSH tunnel--> remote agent --systemd, docker--> (all of it)   fairino_hardware
                                                                          | SDK
                                                                        arms
```

| Component | Code | State | Operations and callers |
|---|---|---|---|
| Pair coordinator | `src/odas_ros/odas_ros/lib_odas_server_node.py:175-505` | tokens of the two connections, two pending maps, ordinals, SST baseline, epoch, violation counter, paired mode | `register_connection`, `connection_lost`, `submit_sss_frame`, `submit_sst_snapshot`; called by two socket threads under one lock |
| Socket threads and supervision of the core | same file, 506-1393 | per stream: accept loop, current socket, token, publication under way; node: core process, restarts, shutdown flags | accept, barrier, receive, submit, publish, shut down own and peer's socket; the main loop restarts the core and closes the servers |
| Stream framing | same file, 105-160, 680-740 | accumulator of PCM bytes, buffer of JSON text | `append`, `_split_json` on every chunk |
| Classifiers | `dracoviloc_mobilenetv2`, `_ast`, `_gre` | windows of audio per ODAS slot | topic callbacks |
| Gates and EKF | `dracoviloc_ekf/src/ekf_node.cpp`, `include/.../{direct_path,bearing_continuity}_gate.hpp` | filter state, stamps of the last bearing seen and accepted, the challenger, first-arrival evidence and anchor, stamp of the last visual update | callbacks of acoustic, visual and first-arrival directions |
| Arm tracker | `dracoviloc_tracking/src/arm_tracker.cpp` | control state, home, target, veto, lead of arm 1, Ruckig states | joint, direction and veto callbacks, `/demo/home`, `/demo/tracking`, servo timer; asks the controller manager to switch |
| Hardware interface | `fairino_hardware/src/fairino_hardware_interface.cpp` | command buffer, last command, rate limiter, recovery flag, SDK mutex | read and write from the control loop, recovery service from a thread of its own, activation and deactivation |
| Remote agent: server | `remote_agent/dracoviloc_agent/server.py` | sessions and the lease of control | connections and requests of GUIs; tells every session who has control |
| Remote agent: runtime | `remote_agent/dracoviloc_agent/runtime.py` | status cache, jobs | commands of the controlling GUI in threads, a status thread; drives systemd, docker and ROS services |
| GUI client of the agent | `gui/dracoviloc_gui/{remote_client,controller}.py` | connection, generation, receiver, belief about control, what is shown | buttons of the user, the client's event loop, SSH |
| GUI and its process supervision | rest of `gui/dracoviloc_gui` | process table, run directory | Qt slots, threads, signals |
| Recorders, monitors, manual control, simulation, launch files, scripts | see `PROJECT.json` | files, counters | observers and operator tools |
| Vendored code | `fairino-cpp-sdk`, ODAS, the command server of the arms | | external |

What makes it hard, and what each part has to get right:

* **Coordinator.** Two threads deliver frames and snapshots independently; the
  association is by counting, so one message dropped too few or too many shifts
  every later pair.  Pairs must advance, an ordinal must never stay pending on
  both sides, data of an ended session must not meet data of the next, maps and
  the violation counter must stay bounded, stamps must not go back.
* **Bridge.** Pairs are published outside the lock by whichever thread completed
  them, in two steps; a thread may act on a session that the other has ended;
  the core dies at any moment and comes back with new connections; shutdown has
  to reach a thread that is in accept, at the barrier, in recv or publishing.
* **Framing.** TCP cuts anywhere; buffers may outlive their connection.
* **Arm tracker.** Requests to the controller manager are refused, late or given
  up; two arms stop at different times; tracking must never start except from a
  completed homing and never hand a moving arm over.
* **Hardware.** The recovery competes with the control loop for the mutex; calls
  fail on one of two arms; a dropped duplicate command must really have arrived.
* **EKF gates.** Bearings of several classifiers arrive late, repeated and out of
  order; each gate keeps stamps that different paths set.  A track must not jump
  on anything but persistent evidence, nor walk away from the first arrivals.
* **Agent runtime.** Jobs interleave, commands exceed their timeout and still take
  effect, decisions are taken on a status that is up to a second old.
* **Agent server and GUI client.** Connections break with requests under way; a
  client that vanishes while it holds the lease must not keep it, nor lose it
  early; attempts of the user and of the reconnection loop overlap with a
  disconnect; what a GUI believes comes from four kinds of message in any order.

The full list, with lines, is under `hazards` in `PROJECT.json`.

## 2. The modules

| Module | Models | Extends |
|---|---|---|
| `PairCoordinator` | class `PairCoordinator`: state, Init and one action per method | |
| `CoordinatorClients` | the coordinator under callers that obey nothing | `PairCoordinator` |
| `PairCoordinatorProofs`, `CoordinatorClientsProofs` | lemmas per operation; the theorems | |
| `PairedTopics` | abstract: what subscribers of `/sss` and `/sst` may rely on | |
| `OdasBridge` | socket threads, core and main loop around the coordinator; implements `PairedTopics` | `PairCoordinator` |
| `SocketFraming` | cutting of both byte streams into messages | |
| `ArmTracker` | the node `arm_tracker` with the controller manager | |
| `FairinoHardware` | control loop, recovery thread and lifecycle of the component | |
| `DirectionEkf` | the filter node with the first-arrival and the bearing continuity gate | |
| `ControlLease` | abstract: who may have control of the robot, and when it lapses | |
| `AgentServer` | sessions and lease of the agent's server; implements `ControlLease` | |
| `RemoteControl` | GUI clients and the server they connect to | `AgentServer` |
| `AgentRuntime` | the jobs of the agent with systemd, docker and the tracker | |
| `OdasBridgeProofs` | theorems about the bridge; the refinement of `PairedTopics` | `OdasBridge`, `PairCoordinatorProofs` |
| `SocketFramingProofs`, `ArmTrackerProofs`, `FairinoHardwareProofs`, `DirectionEkfProofs` | theorems about the module of that name | it |
| `RemoteAgentProofs` | theorems about the clients, the server and the agent's jobs; the refinement of `ControlLease` | `RemoteControl`, `AgentRuntime` |
| `MC...` | values for the constants of the runs | |

### PairCoordinator and CoordinatorClients

Every method of the class holds the lock for its whole body, so a method is one
action.  `session` gathers the fields that `_clear_session_state_locked` resets;
`generation`, `nextToken`, `pairedEnabled` and `lastPaired` survive it.
`lastPaired` also carries the session and the stamp of the last pair: that is
what the properties compare.  `events[s]` is the list that the last call of
stream `s` returned, reduced to the one event its caller acts on.  Frames and
snapshots are opaque; a pending entry is `[item, rt]`.  The steps inside a
submission are operators in the order of the code: `AcceptSnapshot` (gap,
duplicate and decrease), `Drained` (purge, then bound), `CompletePair`, then the
second tier in `Settle`.  The receive time is read before the lock, so a caller
may pass an older one (`MaxLockWait`).  Two details of the code are kept although
no legal input needs them: the duplicate test in `AcceptSnapshot`, and a snapshot
without a timeStamp after validation (`ValidatedSnapshot`), which counts a
violation and then fails in the arithmetic.

### OdasBridge and PairedTopics

A thread's place in `_run`, `_handle_client` and its callees is `pc[s]`; each
step reads or writes shared state at most once outside the coordinator.
`conn`, `connToken`, `shut` and `stopped` are the fields of the server objects;
`backlog` is the kernel's queue of connections.  The core is external: it
connects each port once, streams the hops of each stream at its own pace and
exits when a send fails.  A connection is named by the launch that opened it, a
message by launch and hop.  `topic[s]` is the last message published.

If ODAS takes its audio from the bridge (`rawSocket`, fixed at the start: what
`audio_bringup.launch.py` writes for the first-arrival modes), `/raw` passes two
queues.  `rawQueued` is the bounded `_raw_queue`, at which the main thread waits
without a timeout in the callback (`main` = "deliver") and at the close of the raw
server; `stamps` are the stamps stored for the SSS thread, which waits for one
without a timeout when it publishes alone (`SendAlone`, `NeedsStamp`).  The raw
server's thread is `TakeRaw`: it takes an entry when the core lets it, so possibly
never.  The callback stores a stamp only while nothing is paired, and no callback
runs once the node is closing.

`PairedTopics` says what `plans/reportv2.md`, section 7, promises to
subscribers: a frame, then its snapshot, nothing in between; pairs advance; after
the fallback no pair comes again.  `ImplementsPairedTopics` checks that the
bridge implements it, with `topic` as the refinement mapping.

### SocketFraming

A message is a record: the white space the core writes before it, and its text.
`Wire(c)` is everything the core writes on connection `c`, each character marked
with the connection and the message it belongs to, so that a message handed on
late, twice or across connections is told from the right one.  `Ends` and `Start`
say where messages lie on the wire.  `PcmExtract` and `JsonExtract` are `append`
and `_split_json`: the latter scans the whole buffer character by character, and
of JSON only braces and white space matter to it.  What a text must satisfy is
`IsDepth`: its first brace closes with its last character; ODAS writes no brace
inside a string.  `clean` is a history variable: no connection so far ended inside
an object.  A PCM server makes a new extractor per connection, the JSON buffer
outlives the connection (`Reconnect`).

### ArmTracker

All callbacks share one mutually exclusive group, so each is one action guarded
by `Idle`; waiting for the controller manager inside `set_tracking` and
`update` is `pc` = "arming" or "restoring", during which only the manager moves.
`orders` is the manager's queue: a request that the tracker gave up
(`GiveUpWaiting`, 6 s in the code) stays in it.  Angles are abstracted to the
decisions taken from them: `current` (home, in range, out of range), whether an
arm lags, whether arm 1 points at the target.  `Answers` gives what Ruckig may
return; `Advanced` keeps the order in which `update` passes outputs on.

### FairinoHardware

The control loop's place is `loop`, the recovery thread's `rec`; they meet at
`mutex` and `recovering`.  Checking `_recovery_in_progress` and taking the mutex
are separate steps, as in the code.  Every SDK call takes its result as a
parameter.  The framework's own rule, one lifecycle call at a time and never
beside the control loop, is a guard of `OnActivate` and `CancelRecovery`.  A
`cancel()` that comes before the executor spins is lost (`CancelRecovery`).

### DirectionEkf

One thread runs the callbacks, so each is one action per outcome; the gates are
operators called in the order of `update()`. Bearings are steps of an arc, and
the arithmetic of the filter is abstracted to what it may do: a prediction moves
the estimate by at most `Drift`, an update leaves it between prediction and
measurement, and whether a measurement is statistically consistent is free.
Callbacks run up to `Lag` after the stamp of their message, which is how stamps
come late, repeated and out of order; evidence may be newer than the measurement it
matches by `Lead`, 0.1 s in the code (`Matching`). `Tolerance` is an even number of steps
(`EkfAssumption`): the code's mean of two directions is exact, and on a coarser
arc its rounding adds up to a step that no measurement made. `taken`, `claims`,
`arrivals`, `sightings` and `sighted` are histories that only the properties
read.

### AgentServer, ControlLease and RemoteControl

`ControlLease` is what `gui/README.md:152,161` promises: one holder at a time,
control returned by its holder or `Grace` after the holder left, and a holder
that is gone does not keep it for ever.  `AgentServer` has one action per request
and one per end of `_accept`; `ImplementsLease` is the refinement, with an open
session for a present client and the sleep of `_accept` for the grace left.
Messages to a session are read in order and arbitrarily late; a broken connection
may lose any tail of what was under way in both directions.  `Greet` writes the
hello and enters the session in one step, although `_accept` awaits two writes
first: a control event in between is not sent to the new session, whose picture of
*another* holder is then out of date.  It cannot make a session believe in control
of its own, which comes only from a request that is served after the greeting.

`RemoteControl` puts GUI clients in front of it.  A client is an event loop with
one task that connects (`dial`), one receiver that turns into the reconnection
loop, and a disconnect that awaits the answer to its release.  Generations are
only ever compared with the current one, so a task is in `fresh` or not.  A
callback that is due runs before the network answers (`Quiet`).  `shown` is what
`controller.py` displays, which follows the client's messages but not always its
state.  The SSH session and the tunnel are awaits that succeed or fail.

### AgentRuntime

A job's stages are `job[j].at`, one per external command.  A command fails, raises
on its timeout (`Raise`), or has its effect after it raised (`LaunchedLate`).  The
clean-up looks at no exit code and takes every failure of a query for a no, so each
of its commands may fail and the job goes on (`StopHost`, `KillHost`, `StopYolo`,
`KillYolo`, `IsActive`); `failed` is a history of those that did and so left
something running.
`cache`, `service` and `joints` are the parts of `status` that jobs decide on; the
status thread writes them from what is true at that moment.  The unit and the
container outlive the agent, so it may start on a machine where a run is under
way (`AgentInit`).  That the server passes on only commands of the session in
control is left to `AgentServer`; here any command may come at any time.

## 3. What is checked

| Run | Properties | Bounds | States |
|---|---|---|---|
| `coordinator_clients` | `PairsAdvance`, `NoMatchedPairLeft`, `PendingBounded`, `ViolationsBelowLimit`, `NothingPendingWithoutToken`, `StampsMonotone` | 4 registrations, 3 frames per session, timeStamps 1..4, 2 clock ticks, limits 2 | 182 000 |
| `bridge_streams` | `BridgeTypeOK`, `PairsOfOneHop`, `ImplementsPairedTopics`, `ShutdownCompletes` | one core, three hops of which the second is malformed, one tick; with and without raw frames, of which one is queued and one stamp stored | 287 000 |
| `bridge_restarts` | `PairsOfOneHop`, `ImplementsPairedTopics` | one crash, one restart, two hops each; no raw frames | 1 440 000 |
| `bridge_one_crash` | `OneCrashDoesNotEndBridge` (violated) | one crash, two restarts, one hop | |
| `socket_framing` | `WholeMessages` | two connections, three messages of three shapes, every chunking, every place to end | 6 366 |
| `tracker` | `TrackerTypeOK`, `ControllersFollowState`, `ArmedFromHome`, `RestAtHandover`, `SecondArmFollows`, `StopCompletes`, `VetoRests` | two arms, arm 1 leading; 2 armings, 1 refusal, 2 given-up requests | 7 100 |
| `tracker_late_switch` | `StopReturnsToTrajectory` (violated) | one arm, one given-up request | |
| `hardware_control` | `HardwareTypeOK`, `BothArmsCommanded`, `RecoveredArmsEnabled`, `NoServoDuringRecovery` | two arms, two positions, one recovery | 440 000 |
| `hardware_activations` | `ServoRate`, `SuppressedCommandWasAccepted`, `RecoveryEnds`, `DeactivationEnds` | one arm, two activations, one recovery, two ticks | 276 000 |
| `direction_ekf` | `EkfTypeOK`, `JumpNeedsPersistence`, `TakenNearFirstArrival`, `SightHoldsTrack` | four bearings, time 0..3, callbacks up to two units late, evidence up to one unit newer, three confirmations, tolerance 2; histories of 3, 1 and 2 entries in the modes off, shadow and enforce | 288 000 |
| `remote_control` | `RemoteTypeOK`, `BelievedControlIsHeld`, `NothingOpenAfterDisconnect`, `ImplementsLease`, `ShownConnectionIsReal` | one GUI, three connections of which the first may be another client's, grace 1, one retry | 271 000 |
| `agent_runtime` | `AgentTypeOK`, `NothingLeftActive`, `JobsEnd` | two jobs of any kind, any command of which may fail | 498 000 |

Every property is stated in words above its definition.  What the runs show:

* **Pairing is sound whatever the callers do.** `coordinator_clients` gives the
  coordinator stale tokens, decreasing, repeated and skipped timeStamps, losses
  at any moment and old receive times.
* **The bridge keeps that soundness on the topics.** Two threads that publish
  outside the lock never tear or overtake a pair: the thread that completes a
  pair has just submitted the newest message of its own stream, so the other one
  can complete no later pair, nor start a session, before it goes on.
  `PairsOfOneHop` needs a malformed snapshot in the middle (hop 2 of 3): that is
  the case in which counting could shift.
* **Shutdown ends both threads and the core from every point but two**
  (`ShutdownCompletes`): it does not come about while the main thread waits for
  room in `_raw_queue`, and the SSS thread is left behind where it waits for a
  stamp.  Both exceptions are needed, and TLC finds no third.
* **Framing** is exact for PCM on every connection, for JSON as long as no
  connection has ended inside an object (`WholeMessages`).
* **The tracker** keeps `control_state_` and the manager's active controller
  together as long as no request was given up; when one was, the safety
  properties other than that still hold, and only the return to the trajectory
  controller is lost (`tracker_late_switch`).
* **The hardware component** sends nothing between the stop and the sync of a
  recovery, commands both arms in every cycle, drops only commands equal to the
  last one that both arms accepted, and never waits for ever.
* **The EKF's track** jumps beyond the hard cap only to the last of a series of
  claims that is long, spread and uninterrupted enough, whatever the order of
  the stamps; a track the camera holds is not deposed; and with the first-arrival
  gate enforced, measurements that each pass near the anchor cannot walk away
  from what was heard first or seen.  The run has `AnchorDeviation` below
  `MatchAngle`: otherwise, as with the shipped values, being near any first arrival
  at all would satisfy the property, and the two bounds on the time of the evidence
  would go untested.
* **The agent's lease** changes hands as the GUI's README says and always lapses
  (`ImplementsLease`).  A GUI that believes it has control over a working
  connection has it, and after a disconnect no attempt under way leaves a
  connection behind.
* **The agent's jobs** always answer, and no single failure of a command defeats a
  stop beside which no start ran (`NothingLeftActive`): an active unit survives one
  only if both `systemctl stop` and the kill (or the query before it) failed, a
  container an answered one only if `docker stop` failed and the last query or kill
  as well.  A forced stop does not try the gentle command first and has one chance.

**Why the bounds are enough.**  The limits of the coordinator are 2 so that the
maps overflow, entries expire and a session is invalidated by its second
violation within a run; 4 registrations give two sessions in a row and one stale
token of each; three frames against timeStamps 1..4 make a gap, a duplicate and
a decrease.  For the bridge one crash suffices to have threads of an old session
meet connections of the next; a second restart is only needed by the violation.
A raw queue of one entry, the launch default, and one stamp make both full and empty
queues frequent.
In the tracker two armings and two given-up requests let a late switch of one
arming meet the next one.  In the hardware two activations are needed for a
command remembered from the first one, and `ServoInterval` 2 with two ticks for
a call that comes too early.  Two agent jobs interleave at each command.  Three
confirmations and four time units let the EKF's gate see a series with a repeated
stamp, one with a late stamp and one on both sides of a gap (`ReacquireTimeout`
is 1); four bearings are the fewest on which a jump exceeds `MaxAngle + Drift`,
and two arrivals or sightings let the anchor move twice.  (Any two of four bearings
lie within twice the tolerance: that a jump's claims lie near each other is left
to the theorem.)  For the lease three
connections make one of another client, the GUI's own, and its reconnection while
the session of the second sleeps in `_accept`; one retry is enough for the
reconnection loop to meet an attempt of the user and to be exhausted.  A second
GUI adds nothing the other client does not do: the server tells clients apart
only by their session.  Whatever section 4 proves, it proves without any of these
bounds.

**Deadlock** is checked for the coordinator and the tracker.  The other runs may
really stop: a bridge that has shut down, a stream that is over, a component in
error, an agent whose jobs are done, clients whose connections are used up and a
filter whose clock has run out have nothing left to do.  That nothing hangs before
that is what the liveness properties say.

**Fairness**, and why the code justifies it:

* `FairBridgeSpec`: each socket thread is a Python thread whose blocking calls
  return when their condition holds (`accept`, `recv` have data or the socket is
  shut down; the barrier polls), and the main thread finishes its callback and the
  shutdown sequence of `run()`.  Two calls have no timeout and nobody who must end
  them, and the model lets both wait for ever: `put` on `_raw_queue` (lines 666 and
  670) and `get` of a stamp (line 1014).  Nothing is assumed of the core, so neither
  of the raw server's thread, which waits for it in `accept` and `sendall`, nor of
  the publisher of `/raw`.
* `FairTrackerSpec`: weak fairness on the callbacks that finish a switch and on
  the manager that serves its queue; strong fairness on an update in which Ruckig
  reports both arms at rest, since a jerk-limited deceleration with velocity
  control ends after finitely many steps, if it is not disturbed by other
  answers for ever.
* `FairHardwareSpec`: the control loop is periodic, the recovery thread runs, and
  a deactivation under way goes on.  No fairness on the mutex is assumed beyond
  that; `RecoveryEnds` holds because the control loop frees it in every cycle and
  skips its own lock while `_recovery_in_progress` is set.
* `RemoteSpec`: the client's event loop and the server's go on, since every await
  of an attempt and of a release has a timeout, and time passes.  Users need not
  press anything and connections need not break.  `ControlLease` asks for
  fairness of the grace and of the lapse; the refinement shows the server's give it.
* `FairAgentSpec`: a job takes its next step, since every command has a timeout,
  and every wait has a deadline.

Every property of a passing run has a mutant in `PROJECT.json`: the operator named
there (marked "Mutant" in the module) changes one definition the way a mistake in
the code would, and the property then fails under the same configuration.

## 4. What is proved

Every invariant and every action property of the passing runs is a theorem, and
so is the safety part of both refinements.  The theorems hold
for all values of the constants that satisfy the modules' `ASSUME`s; what
these ask is listed below.  Each `...Inv` named here is inductive: it holds
initially (one lemma), every action preserves it (one lemma per action or group
of actions), and the properties follow.

### The coordinator: `CoordinatorClientsProofs`

| Theorem | Statement |
|---|---|
| `TypesHold` | `Spec => []CoordTypeOK` |
| `PairsAdvanceHolds` | `Spec => PairsAdvance` |
| `NoMatchedPairLeftHolds` | `Spec => []NoMatchedPairLeft` |
| `NothingPendingHolds` | `Spec => []NothingPendingWithoutToken` |
| `StampsMonotoneHolds` | `Spec => StampsMonotone` |
| `PendingBoundedHolds` | `Spec => []PendingBounded` |
| `ViolationsBelowLimitHolds` | `Spec => []ViolationsBelowLimit`, if every snapshot carries a timeStamp |

Assumptions: `None` is not an integer; the hop duration and the two limits are
positive, the timeout is a natural number; timeStamps are integers or `None`.

The argument is the inductive invariant `CoordInv` in `PairCoordinatorProofs`.
None of the properties is inductive alone.  That pairs advance needs that the
running session has passed its last pair *on both streams* (`PairInv`): the next
SSS ordinal and the ordinal of the last timeStamp are both beyond it.  That in
turn needs that pending ordinals lie below these counters (`SessionInv`), which
needs that the baseline precedes the last timeStamp.  `NoMatchedPairLeft` is
`Disjoint`, preserved because an arriving ordinal is new on its own side and
`Settle` looks for it on the other.  Monotone stamps need that an epoch, once
anchored, puts the stamp of the last pair no later than its place on the sample
clock, that it belongs to the current generation, and that the last stamp is not
ahead of the clock.  The bounds are a second invariant, `BoundsInv`, on top of
it; `SurplusBound` is the one fact about cardinalities, by well-founded descent
on the least element.

Each operation has a lemma that it preserves `CoordInv` and moves the last pair
forward only (`RegisterConnectionInv`, `ConnectionLostInv`, `SubmitSssFrameInv`,
`SubmitSstSnapshotInv`, `TickInv`, `EventsHandledInv`); `NextInv` puts them
together.  They do not mention the callers, so they also serve `OdasBridge`.

### The bridge: `OdasBridgeProofs`

| Theorem | Statement |
|---|---|
| `BridgeInvariant` | `BridgeSpec => []BridgeInv` |
| `BridgeTypesHold` | `BridgeSpec => []BridgeTypeOK` |
| `BridgeImplementsPairedTopics` | `BridgeSpec => ImplementsPairedTopics` |
| `PairsOfOneHopHolds` | `BridgeSpec => []PairsOfOneHop`, if the first snapshot of a connection is well formed |
| `SessionsOfBridge` | `BridgeSpec => []` of `NoMatchedPairLeft`, `NothingPendingWithoutToken`, `PendingBounded` and `ViolationsBelowLimit` |
| `PairsOfBridgeAdvance` | `BridgeSpec => PairsAdvance /\ StampsMonotone` |

Assumptions: those of the coordinator, whose items are the messages of the core
(`ItemsAssumption`); any number of launches, crashes and hops, and any malformed
hops.  The premise of `PairsOfOneHopHolds` is one the code needs: ordinals count
from the first snapshot that parses, so a session whose first one does not is
shifted by one from then on.

A pair is completed under the lock and published outside it in two steps, so the
heart of `BridgeInv` is `PublishInv`: while a thread has a pair to publish, that
pair is the last one, the session (if there still is one) has reached exactly its
ordinal on this thread's stream, no session has started since, and the other
thread has no pair in hand.  `CompletesAlone` uses it: to complete a pair the
other thread would need a newer ordinal of this stream.  That no session starts
meanwhile needs to know whose token the session holds (`TokenInv`) and where a
thread is while it has a connection (`ThreadInv`).  `TopicInv` relates the topics
to the last pair at each of the two steps; `OrderInv` says that connections are
served in the order of the launches, which makes what is published alone advance.
Every step then maps to a step of `PairedTopics` or leaves the topics alone
(`PublicationStep`).  `HopInv`, on top of it, says that ordinals are hops.

The last two theorems carry the coordinator's promises over to its real callers:
every step of the bridge is an operation of the coordinator or leaves it alone
(`CoordStep`, `BridgeBounds`).  `ViolationsBelowLimit` then needs no premise,
since the core stamps every snapshot with its hop.

### The framing: `SocketFramingProofs`

| Theorem | Statement |
|---|---|
| `WholeMessagesHolds` | `FramingSpec => []WholeMessages` |
| `TailBelowFrameHolds` | `FramingSpec => []TailBelowFrame`: the assertion in `PcmFrameExtractor.append` |

Assumptions: a positive frame size; any number of messages and connections; JSON
texts of more than one character for which a depth exists (`IsDepth`), with any
amount of white space before them.

The invariant `Framed` says that for some `k` the first `k` messages are complete
and delivered, and that the buffer is the rest of what was received, after the
white space that an earlier connection may have left (`Held`).  The two lemmas that
matter say what the parsers make of such a buffer, however long it is:
`PcmExtracts`, by the arithmetic of `\div`, and `JsonExtracts`.  The latter follows
the scan: `ScanAt` says what its state is at each place of the wire (the objects
found so far, the start of the one under way, and that the depth is that of the
text), `ScanOutside`, `ScanInside` and `ScanLast` are the three kinds of character,
`ScanAll` puts them together.  A connection that ends between two objects leaves
only white space (`OnlyBlanks`), so the next one starts within the invariant.

Two things had to be found for this.  `Ends` and `Scanned` are recursive functions
and the library's theorems about recursion and induction take operators as
parameters, so the module proves its own with sets and functions in their place:
`InductionUpTo` by the least counterexample, from the well-foundedness of `<`, and
`RecursionExists` from it, which lets `EndsEquations` and `ScannedEquations` unfold
the definitions.  And a JSON connection after the first starts within the invariant
only if what the earlier one left is white space: that is harmless, an unfinished
object is not, which is what `clean` records.

### The arm tracker: `ArmTrackerProofs`

| Theorem | Statement |
|---|---|
| `TrackerTypesHold` | `TrackerSpec => []TrackerTypeOK` |
| `ControllersFollowStateHolds` | `TrackerSpec => []ControllersFollowState` |
| `ArmedFromHomeHolds` | `TrackerSpec => []ArmedFromHome` |
| `RestAtHandoverHolds` | `TrackerSpec => []RestAtHandover` |
| `SecondArmFollowsHolds` | `TrackerSpec => []SecondArmFollows` |

Assumptions: one of the three policies; bounds and the target timeout are natural
numbers.  `TrackerInv` has to say what the manager's queue may hold while the
callback waits (`QueueInv`), how the active controller and the control state agree
at each point of a switch (`ControlInv`, `AgreeInv`), and that the arms rest not
only while the trajectory controller has them, but already while *any* request for
it is in the queue, given up or not (`RestInv`).  Without that last clause
`RestAtHandover` is not inductive.

### The hardware component: `FairinoHardwareProofs`

| Theorem | Statement |
|---|---|
| `HardwareTypesHold` | `HardwareSpec => []HardwareTypeOK` |
| `NoServoDuringRecoveryHolds` | `HardwareSpec => NoServoDuringRecovery` |
| `BothArmsCommandedHolds` | `HardwareSpec => []BothArmsCommanded` |
| `RecoveredArmsEnabledHolds` | `HardwareSpec => []RecoveredArmsEnabled` |
| `ServoRateHolds` | `HardwareSpec => []ServoRate` |
| `SuppressedCommandWasAcceptedHolds` | `HardwareSpec => []SuppressedCommandWasAccepted` |

Assumptions: the left arm, with or without the right one; a command that is not
finite is none of the positions; the servo interval is positive.  `HardwareInv`
ties the holder of the mutex to the places of the two threads and these to the
phase of the component's life (`LifeInv`); `SendsInv` and `CalledInv` describe the
moment between the two calls of a write, `RateInv` counts the calls the limiter
admitted against its clock, and `SuppressInv` says when the last command is the one
both arms accepted.

### The direction filter: `DirectionEkfProofs`

| Theorem | Statement |
|---|---|
| `EkfTypesHold` | `EkfSpec => []EkfTypeOK` |
| `TakenNearFirstArrivalHolds` | `EkfSpec => TakenNearFirstArrival` |
| `SightHoldsTrackHolds` | `EkfSpec => SightHoldsTrack` |
| `JumpNeedsPersistenceHolds` | `EkfSpec => JumpNeedsPersistence` |

Assumptions: bearings, angles, rates and times are natural numbers; the base angle
is at most the hard cap; the number of confirmations and the length of the deque
are positive; the tolerance is an even number of steps.  `EkfInv` adds to the
types that the evidence is a part of the first arrivals *in the order of their
stamps* (removing the old from the front removes all of it only then), that the
anchor was heard first or seen, and that the filter keeps the newest stamp of the
camera.  `ChallengerInv` says what a challenger stands for: a set of refused
claims, as many as it counts, with different stamps, each linked to the one before,
and its direction within half the tolerance of the last of them.  That half comes
from the mean, and it is why the tolerance has to be even: the first attempt,
without the assumption, failed at `MeanIsNear`, and TLC with tolerance 1 and a
longer history then found the jump that rounding allows.

### The agent: `RemoteAgentProofs`

| Theorem | Statement |
|---|---|
| `RemoteTypesHold` | `RemoteSpec => []RemoteTypeOK` |
| `BelievedControlIsHeldHolds` | `RemoteSpec => []BelievedControlIsHeld` |
| `NothingOpenAfterDisconnectHolds` | `RemoteSpec => []NothingOpenAfterDisconnect` |
| `ServerImplementsLease` | `RemoteSpec` implies initial states and steps of `ControlLease` |
| `AgentTypesHold` | `AgentSpec => []AgentTypeOK` |
| `NothingLeftActiveHolds` | `AgentSpec => NothingLeftActive` |

Assumptions: any number of GUIs, sessions, other clients and unread messages; at
least one retry and a positive grace; any set of jobs.  `BelievedControlIsHeld`
compares a client with a server that are connected by two queues, so `BeliefInv`
speaks of everything under way: as long as the user has not asked to leave, no
release is under way and every message that would tell the client that it has
control, read or not, is true.  That holds because a GUI knows one connection only
(`ConnectionInv`), reads nothing before its hello (`HelloInv`) and has one task
that reads (`TaskInv`).  The runtime's `AgentInv` says that a job which is still
marked alone runs beside no start (`AloneInv`), and what must have failed, at each
stage of its clean-up, for the unit to be still active and the container to be still
running (`StoppedInv`).

### Model-checked only

Liveness, and the fairness that `ControlLease` asks for: `ShutdownCompletes`,
`StopCompletes`, `VetoRests`, `RecoveryEnds`, `DeactivationEnds`,
`ShownConnectionIsReal`, `JobsEnd`.  TLAPS treats neither fairness nor ENABLED
here.

## 5. Where code and words disagree

Two runs expect a violation; `findings` quotes the words.

1. `bridge_one_crash`.  After a single crash the peer's `close_current_client`
   can hit a connection of the restarted core (the socket it serves *by then*);
   the core exits on the send error, each such exit costs a restart, and the
   bridge gives up, although only "a crash loop ends the bridge".
2. `tracker_late_switch`.  A switch performed after the tracker gave up waiting
   makes every retry a STRICT request for what is already done: `Stopping` never
   ends, homing and arming stay refused.

Seen while modelling and present in the models or the code, but not stated as a
property of a run (the most important are hazards with a note):

* A thread at the barrier can miss a session that begins and ends between two
  polls, and then waits with a cleared token while the restarted core's
  connection stays in the backlog (`lib_odas_server_node.py:803`, against the
  message at 1185).
* A thread at the barrier keeps the token of a core that died, so a session may
  consist of a dead and a live connection (line 273; `plans/reportv2.md:368`).
* The JSON buffer keeps an unfinished message across connections (line 692;
  `plans/reportv2.md:621`), the reason for the history variable `clean` in
  `WholeMessages`.
* A snapshot without a timeStamp after validation raises before the second tier
  (line 360; `plans/reportv2.md:418`), the reason for the premise of
  `ViolationsBelowLimitHolds`.
* With the raw audio through the bridge, a shutdown after the fallback leaves the
  SSS thread in `get` for a stamp nobody stores any more, and `join(3.0)` gives up
  (`lib_odas_server_node.py:1014,572`).
* The callback of `/raw` waits in `put` on a full `_raw_queue` when the core is gone
  or stalls (line 666), in the thread that would have restarted the core and, at
  line 670, closed the servers; the comment of `uma16_feeder_node.py:38-43` calls the
  order of start-up forgiving, since "the frames simply queue", and says that a
  single late frame blocks the thread.
* A position goal equal to the last accepted command is dropped although a recovery
  has moved the arm since: `_has_last_position_command` is cleared by an activation
  only (`fairino_hardware_interface.cpp:186,375-386`).
* Directions that queue up while arming waits for the switch count as fresh
  afterwards (`arm_tracker.cpp:552`; `dracoviloc_tracking/README.md:17`).
* When Ruckig rejects arm 2, arm 1's state has advanced by a step that is never
  published (`arm_tracker.cpp:859`; `dracoviloc_tracking/README.md:4`).
* The command buffer that a recovery synchronises is overwritten by the
  controllers before the first ServoJ (`fairino_hardware_interface.cpp:547`; log
  at 690).
* A stop whose `systemctl stop` exceeds 15 s leaves the unit deactivating and
  answers "Remote run stopped" (`runtime.py:548,556`); so does a stop all of whose
  commands fail, over a live unit or container, since no exit code is looked at
  (`runtime.py:550-568`); and a stop beside a start under way before the start
  launches the host (`runtime.py:546`).
* A start that fails because `systemd-run` or `docker run` exceeded its timeout may
  leave a run active (`runtime.py:444,474`), and one that fails beside another run
  stops the container of that run (`runtime.py:478`).
* A start may report success on controllers cached from an earlier run
  (`runtime.py:489`), and a stop takes controllers cached before tracking was
  armed for the confirmation that the trajectory controller is back, and stops the
  host with the arms moving (`runtime.py:533`; `gui/README.md:171`).
* A GUI that disconnects while it has control ends up showing "connected
  (read-only)": the control event of its own release is read after the display was
  set to disconnected (`remote_client.py:189`, `controller.py:474`).
* The callback of an `acquire_control` that was answered just before the connection
  was lost shows control after the loss, until the reconnection changes it
  (`remote_client.py:254`).
* A connection attempt of the user that fails is never retried; only a connection
  that had been made is (`remote_client.py:161` says "reconnecting").
* A measurement that the continuity gate refuses has already moved the anchor of
  the first-arrival gate (`ekf_node.cpp:180`), so the measurements of the track
  itself may then be outside it.
* A control event is sent to the sessions in turn, each awaited: a session that
  does not read delays the answers to the others (`server.py:80`).

## 6. What is not modelled

* The connections of the raw server, the SSL server and the diagnostics of the
  bridge; audio queues without a bound (`audio_queue_size` of 0); the sliding of the
  restart window (all launches of a run lie within one window); a malformed first
  snapshot of a session, whose effect is in the hazard list.
* Numbers: inverse kinematics, filtering, trajectory generation, Kalman updates and
  the average over the filter's last outputs, correlation, neural networks.  Only
  the decisions taken from them appear.
* Of the remote client: the relay of logs, camera images and status, deployment and
  downloads, and the 90 s after which a request is given up.
* Content of messages, logging, CSV files, plots and GUI presentation.
* Preflight checks, recordings and the preview of the agent, which change no
  state that the other operations read.
* Vendored code; it is part of the environment where it matters.  Most of the
  repository's lines are the ODAS library and the FAIRINO SDK, with its headers in
  several copies and its command server.
* Process supervision of the GUI, recorders, classifiers, manual control and the
  observers: see the notes in `PROJECT.json`.

## 7. Plan

Done: the coordinator, the bridge around it, framing, the arm tracker, the
hardware component, the agent's runtime, its server with the lease and the GUI's
client, the direction filter with its gates, and the theorems of section 4.  What
is left, in the order of importance:

1. **Process supervision** of the GUI (escalating signals, a stop before the fork)
   and the recorders' files, as models.
2. **The connections of the raw server and the SSL server** of the bridge, which
   share its supervision but not the coordinator.

Run the checks from this directory: `tlc -config Tracker.cfg ArmTracker.tla`, and
so on for the pairs in `PROJECT.json`; `tlapm CoordinatorClientsProofs.tla` and so on for the modules
of section 4.
