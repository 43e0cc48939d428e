----------------------------- MODULE OdasBridge -----------------------------
(***************************************************************************)
(* The ODAS bridge node (lib_odas_server_node.py): the SSS and SST socket  *)
(* threads, which share one PairCoordinator, the node's main loop, which   *)
(* restarts the ODAS core and shuts the bridge down, and the core itself,  *)
(* a child process that connects to both ports and streams one audio frame *)
(* and one snapshot per hop.                                               *)
(*                                                                         *)
(* A connection is named by the launch of the core that opened it: a core  *)
(* connects each stream at most once and never reconnects (it exits when a *)
(* send fails).  A message is named by its launch and its hop; the hop is  *)
(* the timeStamp of its snapshot.  All launches lie within one             *)
(* CORE_RESTART_WINDOW_S.                                                  *)
(***************************************************************************)
EXTENDS PairCoordinator, Sequences

CONSTANTS
  CoreRestartLimit,   (* restarts before the bridge gives up               *)
  MalformedHops,      (* hops whose snapshot convert_sst_snapshot rejects  *)
  RawQueueSize,       (* audio_queue_size                                  *)
  RawSockets,         (* bounds of a run: values of rawSocket,             *)
  MaxHops,            (*                  hops one core streams,           *)
  MaxCrashes,         (*                  spontaneous exits of the core,   *)
  MaxStamps,          (*                  stamps of raw frames in store,   *)
  MaxTime             (*                  and clock                        *)

ASSUME BridgeAssumption ==
  /\ CoreRestartLimit \in Nat
  /\ MalformedHops \subseteq Nat
  /\ RawQueueSize \in Nat \ {0} /\ RawSockets \subseteq BOOLEAN
  /\ MaxHops \in Nat /\ MaxCrashes \in Nat /\ MaxStamps \in Nat /\ MaxTime \in Nat

VARIABLES
  pc,              (* where the thread of each stream is                    *)
  conn,            (* _current_client_socket, 0 when None                   *)
  connToken,       (* _connection_token                                     *)
  read,            (* hops read from the connection being served            *)
  backlog,         (* connections the kernel holds for accept()             *)
  sent,            (* sent[s][r]: hops the core of launch r wrote to s      *)
  shut,            (* connections the bridge has shut down or closed        *)
  stopped,         (* _is_stopped of each server                            *)
  launch,          (* launches of the core so far                           *)
  coreAlive,       (* the process of the current launch runs                *)
  opened,          (* opened[s]: launches that connected to port s          *)
  crashes,         (* spontaneous exits so far                              *)
  failed,          (* _core_failure_reported, and so _shutdown_requested    *)
  rosOk,           (* rclpy.ok()                                            *)
  rawSocket,       (* _verify_raw_configuration(): ODAS takes /raw of us    *)
  main,            (* where the main thread is: see below                   *)
  rawQueued,       (* entries of _raw_queue                                 *)
  stamps,          (* entries of _audio_frame_timestamp_queue               *)
  topic            (* topic[s]: the last message published on /s            *)

threadVars == <<pc, conn, connToken, read, shut, backlog>>
coreVars == <<launch, coreAlive, opened, sent, crashes>>
flagVars == <<stopped, failed, rosOk>>
rawVars == <<rawSocket, main, rawQueued>>
nodeVars == <<flagVars, rawVars, stamps>>
bridgeVars == <<coordVars, threadVars, coreVars, nodeVars, topic>>

Launches == 1 .. CoreRestartLimit + 1
Message(r, h) == [launch |-> r, hop |-> h]
Messages == [launch : Launches, hop : 1 .. MaxHops]

(* The frames and snapshots of the coordinator are these messages.         *)
ASSUME ItemsAssumption == Items = Messages

NothingPublished == [paired |-> TRUE, gen |-> 0, ordinal |-> 0, item |-> None]
Alone(item) == [paired |-> FALSE, gen |-> 0, ordinal |-> 0, item |-> item]
PairHalf(e, s) ==
  [paired |-> TRUE, gen |-> e.gen, ordinal |-> e.ordinal, item |-> e[s]]

Step(s, from, to) == pc[s] = from /\ pc' = [pc EXCEPT ![s] = to]

-----------------------------------------------------------------------------
(* SocketServer._run and the two _handle_client methods.                   *)

(* accept() returns the oldest waiting connection.                         *)
Accept(s) ==
  /\ ~stopped[s]
  /\ backlog[s] # <<>>
  /\ Step(s, "accept", "register")
  /\ conn' = [conn EXCEPT ![s] = Head(backlog[s])]
  /\ backlog' = [backlog EXCEPT ![s] = Tail(@)]
  /\ UNCHANGED <<connToken, read, shut, coordVars, coreVars, nodeVars, topic>>

LeaveLoop(s) ==
  /\ stopped[s]
  /\ Step(s, "accept", "done")
  /\ UNCHANGED <<conn, connToken, read, shut, backlog, coordVars, coreVars, nodeVars, topic>>

Register(s) ==
  /\ Step(s, "register", "barrier")
  /\ RegisterConnection(s)
  /\ connToken' = [connToken EXCEPT ![s] = nextToken]
  /\ UNCHANGED <<conn, read, shut, backlog, coreVars, nodeVars, topic>>

(* _wait_for_session_barrier polls; it reads nothing from its socket.      *)
(* Mutants: no barrier at all; one that ignores the shutdown.              *)
BarrierNone(s) == TRUE
BarrierUntilSession(s) == SessionActive
BarrierOpen(s) == SessionActive \/ stopped[s]

PassBarrier(s) ==
  /\ BarrierOpen(s)
  /\ Step(s, "barrier", "recv")
  /\ UNCHANGED <<conn, connToken, read, shut, backlog, coordVars, coreVars, nodeVars, topic>>

RemoteClosed(r) == ~(coreAlive /\ launch = r)
Unread(s) == conn[s] # 0 /\ read[s] < sent[s][conn[s]]
EndOfStream(s) ==
  conn[s] # 0 /\ ~Unread(s) /\ (conn[s] \in shut[s] \/ RemoteClosed(conn[s]))

(* One message of the stream is complete.  A snapshot with a wrong number  *)
(* of slots is dropped; is_paired_enabled is read before the lock of the   *)
(* submission is taken.                                                    *)
Receive(s) ==
  /\ Unread(s)
  /\ ~stopped[s]
  /\ pc[s] = "recv"
  /\ read' = [read EXCEPT ![s] = @ + 1]
  /\ pc' = [pc EXCEPT ![s] =
       IF s = "sst" /\ read[s] + 1 \in MalformedHops THEN "recv"
       ELSE IF pairedEnabled THEN "submit" ELSE "send"]
  /\ UNCHANGED <<conn, connToken, shut, backlog, coordVars, coreVars, nodeVars, topic>>

Submit(s) ==
  LET message == Message(conn[s], read[s])
  IN  /\ pc[s] = "submit"
      /\ IF s = "sss"
         THEN SubmitSssFrame(connToken[s], message, now)
         ELSE SubmitSstSnapshot(connToken[s], read[s], message, now)
      /\ pc' = [pc EXCEPT ![s] =
           CASE events'[s].type = "pair" -> "publish_sss"
             [] events'[s].type = "session_invalidated" -> "close_own"
             [] OTHER -> "recv"]
      /\ UNCHANGED <<conn, connToken, read, shut, backlog, coreVars, nodeVars, topic>>

(* _send_sss and _send_sst: independent publication.  The frame takes the  *)
(* stamp of a raw frame and waits for one without a timeout, unless ODAS   *)
(* reads the sound card and there is no queue of stamps.                   *)
NeedsStamp(s) == s = "sss" /\ rawSocket

SendAlone(s) ==
  /\ Step(s, "send", "recv")
  /\ IF NeedsStamp(s) THEN stamps > 0 /\ stamps' = stamps - 1 ELSE UNCHANGED stamps
  /\ topic' = IF rosOk THEN [topic EXCEPT ![s] = Alone(Message(conn[s], read[s]))] ELSE topic
  /\ UNCHANGED <<conn, connToken, read, shut, backlog, coordVars, coreVars, flagVars, rawVars>>

(* publish_pair: the frame, then the snapshot, outside the lock.  The      *)
(* handler looks at rclpy.ok() before the pair, each publisher again.      *)
(* Mutant: the snapshot is forgotten.                                      *)
AfterFrameNothing == "recv"
AfterFrame == "publish_sst"

PublishSss(s) ==
  /\ Step(s, "publish_sss", AfterFrame)
  /\ topic' = IF rosOk THEN [topic EXCEPT !["sss"] = PairHalf(events[s], "sss")] ELSE topic
  /\ UNCHANGED <<conn, connToken, read, shut, backlog, coordVars, coreVars, nodeVars>>

PublishSst(s) ==
  /\ Step(s, "publish_sst", "recv")
  /\ topic' = IF rosOk THEN [topic EXCEPT !["sst"] = PairHalf(events[s], "sst")] ELSE topic
  /\ EventsHandled(s)
  /\ UNCHANGED <<conn, connToken, read, shut, backlog, coreVars, nodeVars>>

(* close_current_client on the thread's own server, then on its peer; the  *)
(* peer's socket is whichever one it serves at that moment.                *)
ShutDown(s) == shut' = [shut EXCEPT ![s] = IF conn[s] = 0 THEN @ ELSE @ \cup {conn[s]}]

CloseOwn(s) ==
  /\ Step(s, "close_own", "close_peer")
  /\ ShutDown(s)
  /\ UNCHANGED <<conn, connToken, read, backlog, coordVars, coreVars, nodeVars, topic>>

ClosePeer(s) ==
  /\ Step(s, "close_peer", IF conn[s] = 0 THEN "accept" ELSE "recv")
  /\ ShutDown(Other(s))
  /\ EventsHandled(s)
  /\ UNCHANGED <<conn, connToken, read, backlog, coreVars, nodeVars, topic>>

(* The handler ends: recv() returned nothing or the server was stopped.    *)
(* Its finally clauses report the loss (unless stopped) and close the      *)
(* socket.                                                                 *)
EndConnection(s) ==
  /\ pc[s] = "recv"
  /\ EndOfStream(s) \/ stopped[s]
  /\ IF stopped[s]
     THEN UNCHANGED coordVars
     ELSE ConnectionLost(s, connToken[s])
  /\ pc' = [pc EXCEPT ![s] =
       IF ~stopped[s] /\ events'[s].type = "session_invalidated" THEN "close_own" ELSE "accept"]
  /\ conn' = [conn EXCEPT ![s] = 0]
  /\ connToken' = [connToken EXCEPT ![s] = NoToken]
  /\ read' = [read EXCEPT ![s] = 0]
  /\ ShutDown(s)
  /\ UNCHANGED <<backlog, coreVars, nodeVars, topic>>

Thread(s) ==
  \/ Accept(s) \/ LeaveLoop(s) \/ Register(s) \/ PassBarrier(s)
  \/ Receive(s) \/ Submit(s) \/ SendAlone(s) \/ PublishSss(s) \/ PublishSst(s)
  \/ CloseOwn(s) \/ ClosePeer(s) \/ EndConnection(s)

-----------------------------------------------------------------------------
(* The ODAS core, external to the node.                                    *)

ConnectCore(s) ==
  /\ coreAlive /\ ~stopped[s]
  /\ launch \notin opened[s]
  /\ opened' = [opened EXCEPT ![s] = @ \cup {launch}]
  /\ backlog' = [backlog EXCEPT ![s] = Append(@, launch)]
  /\ UNCHANGED <<launch, coreAlive, sent, crashes, pc, conn, connToken, read, shut,
                 coordVars, nodeVars, topic>>

(* Both sinks write every hop, each in its own thread of the core.         *)
StreamHop(s) ==
  /\ coreAlive
  /\ launch \in opened[s] \ shut[s]
  /\ sent[s][launch] < MaxHops
  /\ sent' = [sent EXCEPT ![s][launch] = @ + 1]
  /\ UNCHANGED <<launch, coreAlive, opened, crashes, threadVars, coordVars, nodeVars, topic>>

(* A send on a socket the bridge has shut down ends the core.              *)
ExitOnSendError ==
  /\ coreAlive
  /\ \E s \in Streams : launch \in shut[s]
  /\ coreAlive' = FALSE
  /\ UNCHANGED <<launch, opened, sent, crashes, threadVars, coordVars, nodeVars, topic>>

Crash ==
  /\ coreAlive
  /\ crashes < MaxCrashes
  /\ coreAlive' = FALSE
  /\ crashes' = crashes + 1
  /\ UNCHANGED <<launch, opened, sent, threadVars, coordVars, nodeVars, topic>>

-----------------------------------------------------------------------------
(* The main loop of run(), its callbacks _check_core_process and           *)
(* _raw_audio_cb, and the closing of the servers.  It is in "spin",        *)
(* between callbacks, in "deliver", at the put of a raw frame, or in       *)
(* "close", past the raw server.                                           *)

Closing == failed \/ ~rosOk

(* Mutant: one restart more than the limit allows.                         *)
OneMoreRestart == launch <= CoreRestartLimit + 1
MayRestart == launch <= CoreRestartLimit

RestartCore ==
  /\ main = "spin" /\ ~coreAlive /\ ~Closing /\ MayRestart
  /\ launch' = launch + 1
  /\ coreAlive' = TRUE
  /\ UNCHANGED <<opened, sent, crashes, threadVars, coordVars, nodeVars, topic>>

GiveUp ==
  /\ main = "spin" /\ ~coreAlive /\ ~Closing
  /\ ~MayRestart
  /\ failed' = TRUE
  /\ UNCHANGED <<stopped, rosOk, rawVars, stamps, threadVars, coordVars, coreVars, topic>>

(* The node receives SIGINT.  A wait of the main thread may end with       *)
(* KeyboardInterrupt, if Python's own handler runs too.                    *)
Interrupt ==
  /\ rosOk /\ rosOk' = FALSE
  /\ main' \in (IF main = "deliver" THEN {"deliver", "spin"} ELSE {main})
  /\ UNCHANGED <<stopped, failed, rawSocket, rawQueued, stamps, threadVars, coordVars,
                 coreVars, topic>>

(* _raw_audio_cb stores the stamp while nothing is paired, then waits for  *)
(* room in the bounded _raw_queue, again without a timeout.                *)
ReceiveRaw ==
  /\ rawSocket /\ main = "spin" /\ ~Closing
  /\ main' = "deliver"
  /\ IF pairedEnabled THEN UNCHANGED stamps ELSE stamps < MaxStamps /\ stamps' = stamps + 1
  /\ UNCHANGED <<flagVars, rawSocket, rawQueued, threadVars, coordVars, coreVars, topic>>

Enqueue(from, to) ==
  /\ main = from /\ main' = to
  /\ rawQueued < RawQueueSize
  /\ rawQueued' = rawQueued + 1
  /\ UNCHANGED <<flagVars, rawSocket, stamps, threadVars, coordVars, coreVars, topic>>

DeliverRaw == Enqueue("deliver", "spin")

(* RawSocketServer.close: its None waits for room too.                     *)
CloseRaw == rawSocket /\ Closing /\ Enqueue("spin", "close")

SkipRaw ==
  /\ ~rawSocket /\ Closing
  /\ main = "spin" /\ main' = "close"
  /\ UNCHANGED <<flagVars, rawSocket, rawQueued, stamps, threadVars, coordVars, coreVars, topic>>

(* The raw thread takes an entry whenever the core lets it: it may wait    *)
(* for a connection, or in sendall, at any time and for ever.              *)
TakeRaw ==
  /\ rawQueued > 0
  /\ rawQueued' = rawQueued - 1
  /\ UNCHANGED <<flagVars, rawSocket, main, stamps, threadVars, coordVars, coreVars, topic>>

(* close() of the servers in the order of run(): SST, then SSS.  The join  *)
(* gives up after 3 s.                                                     *)
CloseServer(s) ==
  /\ main = "close"
  /\ ~stopped[s]
  /\ s = "sss" => stopped["sst"]
  /\ stopped' = [stopped EXCEPT ![s] = TRUE]
  /\ ShutDown(s)
  /\ UNCHANGED <<pc, conn, connToken, read, backlog, failed, rosOk, rawVars, stamps,
                 coordVars, coreVars, topic>>

(* _stop_core_process, after every server is closed.                       *)
StopCore ==
  /\ \A s \in Streams : stopped[s]
  /\ coreAlive /\ coreAlive' = FALSE
  /\ UNCHANGED <<launch, opened, sent, crashes, threadVars, coordVars, nodeVars, topic>>

PassTime ==
  /\ now < MaxTime
  /\ Tick
  /\ UNCHANGED <<threadVars, coreVars, nodeVars, topic>>

-----------------------------------------------------------------------------
BridgeInit ==
  /\ CoordInit
  /\ pc = [s \in Streams |-> "accept"]
  /\ conn = [s \in Streams |-> 0]
  /\ connToken = [s \in Streams |-> NoToken]
  /\ read = [s \in Streams |-> 0]
  /\ backlog = [s \in Streams |-> <<>>]
  /\ sent = [s \in Streams |-> [r \in Launches |-> 0]]
  /\ shut = [s \in Streams |-> {}]
  /\ stopped = [s \in Streams |-> FALSE]
  /\ launch = 1
  /\ coreAlive = TRUE
  /\ opened = [s \in Streams |-> {}]
  /\ crashes = 0
  /\ failed = FALSE
  /\ rosOk = TRUE
  /\ rawSocket \in RawSockets
  /\ main = "spin"
  /\ rawQueued = 0
  /\ stamps = 0
  /\ topic = [s \in Streams |-> NothingPublished]

Core == (\E s \in Streams : ConnectCore(s) \/ StreamHop(s)) \/ ExitOnSendError \/ Crash
Shutdown == CloseRaw \/ SkipRaw \/ (\E s \in Streams : CloseServer(s)) \/ StopCore
MainThread == DeliverRaw \/ Shutdown
Node == RestartCore \/ GiveUp \/ Interrupt \/ ReceiveRaw \/ TakeRaw \/ MainThread

BridgeNext == (\E s \in Streams : Thread(s)) \/ Core \/ Node \/ PassTime

BridgeSpec == BridgeInit /\ [][BridgeNext]_bridgeVars

(* Threads are scheduled, and the main thread finishes a callback and goes *)
(* on with the shutdown, unless the step it is at waits.  Nothing is asked *)
(* of the core, which may stall, so neither of the raw thread that feeds   *)
(* it, nor of the timer, nor of the publisher of /raw.                     *)
Fairness == (\A s \in Streams : WF_bridgeVars(Thread(s))) /\ WF_bridgeVars(MainThread)

FairBridgeSpec == BridgeSpec /\ Fairness

-----------------------------------------------------------------------------
ThreadStates ==
  {"accept", "register", "barrier", "recv", "submit", "send", "publish_sss",
   "publish_sst", "close_own", "close_peer", "done"}

TopicMessages ==
  [paired : BOOLEAN, gen : Nat, ordinal : Nat, item : Messages \cup {None}]

(* The types of the bridge's state.                                        *)
BridgeTypeOK ==
  /\ CoordTypeOK
  /\ pc \in [Streams -> ThreadStates]
  /\ conn \in [Streams -> Launches \cup {0}]
  /\ connToken \in [Streams -> Nat]
  /\ read \in [Streams -> 0 .. MaxHops]
  /\ backlog \in [Streams -> Seq(Launches)]
  /\ sent \in [Streams -> [Launches -> 0 .. MaxHops]]
  /\ shut \in [Streams -> SUBSET Launches]
  /\ stopped \in [Streams -> BOOLEAN]
  /\ launch \in Launches
  /\ coreAlive \in BOOLEAN
  /\ opened \in [Streams -> SUBSET Launches]
  /\ crashes \in Nat
  /\ failed \in BOOLEAN
  /\ rosOk \in BOOLEAN
  /\ rawSocket \in BOOLEAN
  /\ main \in {"spin", "deliver", "close"}
  /\ rawQueued \in 0 .. RawQueueSize
  /\ stamps \in Nat
  /\ topic \in [Streams -> TopicMessages]

(* The two topics behave as PairedTopics promises, although two threads    *)
(* publish outside the coordinator's lock, each pair in two steps          *)
(* (_handle_coordinator_events, publish_pair, _send_sss, _send_sst):       *)
(* refinement with the topics as the abstract state.                       *)
Abstract == INSTANCE PairedTopics WITH topic <- topic
ImplementsPairedTopics == Abstract!TopicsSpec

PairUnderWay(s) == pc[s] \in {"publish_sss", "publish_sst"}

(* Frame and snapshot of a pair that stem from one core belong to the same *)
(* hop of it, whatever was dropped, delayed or skipped on the way: the     *)
(* association by SSS ordinal and SST baseline never shifts.               *)
PairsOfOneHop ==
  \A s \in Streams : PairUnderWay(s) =>
    LET e == events[s]
    IN  e.sss.launch = e.sst.launch => e.sss.hop = e.sst.hop

(* After a failed core or an interrupt the whole node stops: both socket   *)
(* threads leave their loops, also from the barrier, and the core ends.    *)
(* Two waits without a timeout can prevent it, and nothing else: a main    *)
(* thread at a full _raw_queue for ever has closed neither server (the     *)
(* premise), and the SSS thread, a daemon, may stay in _get_timestamp (the *)
(* exception in Stopped): join(3.0) then gives up.  Both need a            *)
(* configuration in which ODAS takes /raw from the bridge.                 *)
WaitsForStamp(s) == NeedsStamp(s) /\ pc[s] = "send" /\ stamps = 0
MainWaitsForRoom == rawSocket /\ main # "close" /\ rawQueued = RawQueueSize

Stopped ==
  /\ ~coreAlive
  /\ \A s \in Streams : stopped[s] /\ (pc[s] = "done" \/ WaitsForStamp(s))

ShutdownCompletes == []<>~MainWaitsForRoom => (Closing ~> Stopped)

(* "only a crash loop ends the bridge": one spontaneous exit of the core   *)
(* does not use up the restarts.                                           *)
OneCrashDoesNotEndBridge == crashes <= 1 => ~failed
=============================================================================
