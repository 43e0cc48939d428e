---------------------------- MODULE RemoteControl ----------------------------
(***************************************************************************)
(* GUIs (gui/dracoviloc_gui/remote_client.py, with the state of the        *)
(* connection that controller.py shows) and the agent's server they        *)
(* connect to through SSH tunnels.                                         *)
(*                                                                         *)
(* Each client is one event loop, with a task per press of Connect or      *)
(* Disconnect, a receiver that becomes the reconnection loop when the      *)
(* connection is lost, and a lock that lets one task connect at a time.    *)
(* The generation a task was started with is only ever compared with the   *)
(* current one: here a task is fresh or not.  Callbacks of the loop run    *)
(* before the network answers.                                             *)
(***************************************************************************)
EXTENDS AgentServer

CONSTANTS
  Retries     (* 6: the attempts of a reconnection                          *)

ASSUME ClientAssumption == Retries \in Nat \ {0}

VARIABLES
  conn,       (* _writer: the session of the connection, None               *)
  sid,        (* session_id                                                 *)
  belief,     (* controller_id                                              *)
  shown,      (* _remote_state: disconnected, connecting, connected, error, *)
              (* and whether it has control                                 *)
  closing,    (* _closing                                                   *)
  want,       (* a task of the current generation waits for the lock        *)
  dial,       (* where the task is that has the lock: none, ssh, tunnel,    *)
              (* hello                                                      *)
  receiver,   (* none, reading, retrying                                    *)
  retries,    (* the attempts its loop has left                             *)
  fresh,      (* which of dial and receiver are of the current generation   *)
  leaving,    (* _disconnect awaits the answer to release_control           *)
  acquiring   (* none, sent, granted: the callback is yet to run            *)

taskVars == <<closing, want, dial, receiver, retries, fresh>>
guiVars == <<conn, sid, belief, leaving, acquiring>>
remoteVars == <<serverVars, guiVars, shown, taskVars>>

Set(f, x, v) == [f EXCEPT ![x] = v]
Show(g, state, control) == shown' = Set(shown, g, [state |-> state, control |-> control])
ShowOnly(g, state) == Show(g, state, shown[g].control)

(* A request on the connection of g.                                       *)
Send(g, type) ==
  /\ inbox' = Set(inbox, conn[g], IF conn[g] \in up THEN Append(inbox[conn[g]], type)
                                  ELSE inbox[conn[g]])
  /\ UNCHANGED <<session, grace, controller, up, outbox, owner>>

(* _disconnect without a release: pending requests fail, and the           *)
(* connection is closed, with what it has not carried yet.                 *)
Close(g) ==
  /\ conn' = Set(conn, g, None)
  /\ sid' = Set(sid, g, None) /\ belief' = Set(belief, g, None)
  /\ leaving' = Set(leaving, g, FALSE)
  /\ acquiring' = Set(acquiring, g, IF acquiring[g] = "sent" THEN "none" ELSE acquiring[g])
  /\ up' = up \ {conn[g]}
  /\ outbox' = [s \in Sessions |-> IF s = conn[g] THEN <<>> ELSE outbox[s]]
  /\ IF conn[g] = None THEN UNCHANGED inbox
     ELSE \E n \in 0 .. Len(inbox[conn[g]]) : inbox' = Set(inbox, conn[g], SubSeq(inbox[conn[g]], 1, n))
  /\ UNCHANGED <<session, grace, controller, owner>>

(* It cancels the receiver, also one that is connecting again.             *)
CancelReceiver(g) ==
  /\ receiver' = Set(receiver, g, "none") /\ retries' = Set(retries, g, 0)
  /\ dial' = Set(dial, g, IF receiver[g] = "retrying" THEN "none" ELSE dial[g])

(* No callback of acquire_control is due: the network may answer.          *)
Quiet(g) == acquiring[g] # "granted"

-----------------------------------------------------------------------------
(* The user.                                                               *)

(* disconnectRemote and _begin_disconnect, up to the answer it awaits.     *)
(* Pressed once: a bound of a run.                                         *)
UserDisconnect(g) ==
  /\ shown[g].state = "connected" /\ ~leaving[g]
  /\ Show(g, "disconnected", FALSE)
  /\ closing' = Set(closing, g, TRUE)
  /\ want' = Set(want, g, FALSE)
  /\ fresh' = Set(fresh, g, {})
  /\ IF conn[g] = None
     THEN Close(g) /\ CancelReceiver(g)
     ELSE /\ Send(g, "release")
          /\ leaving' = Set(leaving, g, TRUE)
          /\ UNCHANGED <<conn, sid, belief, acquiring, dial, receiver, retries>>

(* Take control; without a connection the request fails at once.           *)
UserAcquire(g) ==
  /\ shown[g].state = "connected" /\ ~shown[g].control
  /\ acquiring[g] = "none" /\ conn[g] # None
  /\ Send(g, "acquire")
  /\ acquiring' = Set(acquiring, g, "sent")
  /\ UNCHANGED <<conn, sid, belief, leaving, shown, taskVars>>

-----------------------------------------------------------------------------
(* _connect_locked.                                                        *)

Connecting(g) ==
  /\ dial[g] = "none"
  /\ Close(g)
  /\ ShowOnly(g, "connecting")
  /\ dial' = Set(dial, g, "ssh")

(* The task of a press of Connect, with the lock; the receiver of before   *)
(* is cancelled.                                                           *)
Start(g) ==
  /\ Connecting(g)
  /\ want' = Set(want, g, FALSE)
  /\ receiver' = Set(receiver, g, "none") /\ retries' = Set(retries, g, 0)
  /\ fresh' = Set(fresh, g, {"dial"})

(* _begin_connect: all tasks are now of an older generation; one of them   *)
(* may have the lock.                                                      *)
UserConnect(g) ==
  /\ shown[g].state # "connected" /\ ~want[g]
  /\ closing' = Set(closing, g, FALSE)
  /\ IF dial[g] = "none"
     THEN Start(g)
     ELSE /\ want' = Set(want, g, TRUE)
          /\ fresh' = Set(fresh, g, {})
          /\ UNCHANGED <<serverVars, guiVars, shown, dial, receiver, retries>>

Dial(g) == want[g] /\ Start(g) /\ UNCHANGED closing

(* The check of the generation after an await.  Mutant: none.              *)
CurrentAlways(g) == TRUE
Current(g) == "dial" \in fresh[g]

EndDial(g) ==
  /\ dial' = Set(dial, g, "none") /\ fresh' = Set(fresh, g, fresh[g] \ {"dial"})
  /\ UNCHANGED <<closing, want, receiver, retries>>

SshUp(g) ==
  /\ dial[g] = "ssh" /\ Quiet(g)
  /\ IF Current(g)
     THEN /\ dial' = Set(dial, g, "tunnel")
          /\ UNCHANGED <<serverVars, guiVars, shown, closing, want, receiver, retries, fresh>>
     ELSE Close(g) /\ EndDial(g) /\ UNCHANGED shown

(* The agent runs, the port is forwarded, and the hello is sent.           *)
OpenTunnel(g) ==
  /\ dial[g] = "tunnel" /\ Quiet(g)
  /\ \E s \in Sessions : Connect(s, g) /\ conn' = Set(conn, g, s)
  /\ dial' = Set(dial, g, "hello")
  /\ UNCHANGED <<sid, belief, leaving, acquiring, shown,
                 closing, want, receiver, retries, fresh>>

HelloArrives(g) ==
  /\ dial[g] = "hello" /\ Quiet(g)
  /\ conn[g] # None /\ outbox[conn[g]] # <<>>
  /\ IF Current(g)
     THEN /\ outbox' = Set(outbox, conn[g], Tail(outbox[conn[g]]))
          /\ sid' = Set(sid, g, conn[g])
          /\ belief' = Set(belief, g, Head(outbox[conn[g]]).controller)
          /\ Show(g, "connected", belief'[g] = conn[g])
          /\ dial' = Set(dial, g, "none")
          /\ receiver' = Set(receiver, g, "reading") /\ retries' = Set(retries, g, 0)
          /\ fresh' = Set(fresh, g, {"receiver"})
          /\ UNCHANGED <<session, grace, controller, up, inbox, owner, conn, leaving, acquiring,
                         closing, want>>
     ELSE Close(g) /\ EndDial(g) /\ UNCHANGED shown

(* Any await fails, by a timeout, an error or the end of the connection.   *)
DialFails(g) ==
  /\ dial[g] # "none" /\ Quiet(g)
  /\ Close(g) /\ EndDial(g)
  /\ IF Current(g) THEN ShowOnly(g, "error") ELSE UNCHANGED shown

-----------------------------------------------------------------------------
(* _receive and _connection_lost.                                          *)

(* A response resolves the request that awaits it.  Mutant: its callback   *)
(* does not look at what the answer is.                                    *)
ResolvedAnyhow(g, type) ==
  IF acquiring[g] = "sent" /\ type \in {"granted", "refused"} THEN "granted" ELSE acquiring[g]
Resolved(g, type) ==
  CASE acquiring[g] = "sent" /\ type = "granted" -> "granted"
    [] acquiring[g] = "sent" /\ type = "refused" -> "none"
    [] OTHER -> acquiring[g]

Read(g) ==
  /\ receiver[g] = "reading" /\ conn[g] # None /\ outbox[conn[g]] # <<>>
  /\ LET m == Head(outbox[conn[g]]) IN
     IF m.type = "released" /\ leaving[g]
     THEN Close(g) /\ CancelReceiver(g) /\ UNCHANGED shown
     ELSE /\ outbox' = Set(outbox, conn[g], Tail(outbox[conn[g]]))
          /\ IF m.type = "control"
             THEN belief' = Set(belief, g, m.controller) /\ Show(g, "connected", m.controller = sid[g])
             ELSE UNCHANGED <<belief, shown>>
          /\ acquiring' = Set(acquiring, g, Resolved(g, m.type))
          /\ UNCHANGED <<session, grace, controller, up, inbox, owner, conn, sid, leaving,
                         dial, receiver, retries>>
  /\ UNCHANGED <<closing, want, fresh>>

(* The callback of acquire_control.                                        *)
Complete(g) ==
  /\ acquiring[g] = "granted"
  /\ acquiring' = Set(acquiring, g, "none")
  /\ belief' = Set(belief, g, sid[g])
  /\ Show(g, "connected", TRUE)
  /\ UNCHANGED <<serverVars, conn, sid, leaving, taskVars>>

(* Mutant: a lost connection is not made again.                            *)
GivesUp == "none"
GoesOn == "retrying"

(* The end of the connection, once all that arrived is read.               *)
Lost(g) ==
  /\ receiver[g] = "reading" /\ conn[g] # None
  /\ conn[g] \notin up /\ outbox[conn[g]] = <<>>
  /\ IF "receiver" \in fresh[g]
     THEN /\ Close(g) /\ ShowOnly(g, "disconnected")
          /\ receiver' = Set(receiver, g, GoesOn) /\ retries' = Set(retries, g, Retries)
     ELSE /\ receiver' = Set(receiver, g, "none")
          /\ UNCHANGED <<serverVars, guiVars, shown, retries>>
  /\ UNCHANGED <<closing, want, dial, fresh>>

Retry(g) ==
  /\ receiver[g] = "retrying" /\ dial[g] = "none" /\ Quiet(g)
  /\ IF "receiver" \in fresh[g] /\ retries[g] > 0
     THEN /\ Connecting(g)
          /\ retries' = Set(retries, g, retries[g] - 1)
          /\ fresh' = Set(fresh, g, {"dial", "receiver"})
          /\ UNCHANGED <<closing, want, receiver>>
     ELSE /\ receiver' = Set(receiver, g, "none") /\ retries' = Set(retries, g, 0)
          /\ UNCHANGED <<serverVars, guiVars, shown, closing, want, dial, fresh>>

(* release_control is not answered within 3 seconds.                       *)
ReleaseTimesOut(g) ==
  /\ leaving[g] /\ Quiet(g)
  /\ Close(g) /\ CancelReceiver(g)
  /\ UNCHANGED <<shown, closing, want, fresh>>

RemoteInit ==
  /\ ServerInit
  /\ conn = [g \in Guis |-> None] /\ sid = [g \in Guis |-> None] /\ belief = [g \in Guis |-> None]
  /\ shown = [g \in Guis |-> [state |-> "disconnected", control |-> FALSE]]
  /\ closing = [g \in Guis |-> FALSE] /\ want = [g \in Guis |-> FALSE]
  /\ dial = [g \in Guis |-> "none"] /\ receiver = [g \in Guis |-> "none"]
  /\ retries = [g \in Guis |-> 0] /\ fresh = [g \in Guis |-> {}]
  /\ leaving = [g \in Guis |-> FALSE] /\ acquiring = [g \in Guis |-> "none"]

User(g) == UserConnect(g) \/ UserDisconnect(g) \/ UserAcquire(g)

ClientStep(g) ==
  \/ Dial(g) \/ SshUp(g) \/ OpenTunnel(g) \/ HelloArrives(g) \/ DialFails(g)
  \/ Read(g) \/ Complete(g) \/ Lost(g) \/ Retry(g) \/ ReleaseTimesOut(g)

Agent ==
  /\ (\E s \in Sessions : ServerStep(s) \/ Environment(s)) \/ PassTime
  /\ UNCHANGED <<guiVars, shown, taskVars>>

RemoteNext == (\E g \in Guis : User(g) \/ ClientStep(g)) \/ Agent

(* Time passes and both event loops go on: every await of a connection     *)
(* attempt and of a release has a timeout.  Nobody has to press a button.  *)
RemoteSpec ==
  /\ RemoteInit /\ [][RemoteNext]_remoteVars
  /\ \A g \in Guis : WF_remoteVars(ClientStep(g))
  /\ \A s \in Sessions : WF_remoteVars(ServerStep(s) /\ UNCHANGED <<guiVars, shown, taskVars>>)
  /\ WF_remoteVars(PassTime /\ UNCHANGED <<guiVars, shown, taskVars>>)

-----------------------------------------------------------------------------
(* The types, and how the parts of a client hang together: it has a        *)
(* connection only while it dials or reads, or until it is left, and every *)
(* connection that is up is the one its GUI holds.                         *)
RemoteTypeOK ==
  /\ ServerTypeOK
  /\ conn \in [Guis -> Sessions \cup {None}] /\ sid \in [Guis -> Sessions \cup {None}]
  /\ belief \in [Guis -> Sessions \cup {None}]
  /\ shown \in [Guis -> [state : {"disconnected", "connecting", "connected", "error"}, control : BOOLEAN]]
  /\ closing \in [Guis -> BOOLEAN] /\ want \in [Guis -> BOOLEAN] /\ leaving \in [Guis -> BOOLEAN]
  /\ dial \in [Guis -> {"none", "ssh", "tunnel", "hello"}]
  /\ receiver \in [Guis -> {"none", "reading", "retrying"}] /\ retries \in [Guis -> 0 .. Retries]
  /\ fresh \in [Guis -> SUBSET {"dial", "receiver"}]
  /\ acquiring \in [Guis -> {"none", "sent", "granted"}]
  /\ \A s \in up : owner[s] # None => conn[owner[s]] = s
  /\ \A g \in Guis : conn[g] # None => dial[g] = "hello" \/ receiver[g] = "reading" \/ leaving[g]

(* A GUI that believes it has control, over a connection that works and    *)
(* that its user has not asked to close, has it: requests, events,         *)
(* responses and the callback that runs after them are never combined into *)
(* a belief the server does not share (remote_client.py:188, 253).         *)
BelievedControlIsHeld ==
  \A g \in Guis :
    sid[g] # None /\ belief[g] = sid[g] /\ sid[g] \in up /\ ~leaving[g] => controller = sid[g]

(* When the user has disconnected and the tasks are done, no connection is *)
(* left open: neither one that an attempt of before was still making, nor  *)
(* one of the reconnection loop (the checks of remote_client.py:110-149).  *)
NothingOpenAfterDisconnect ==
  \A g \in Guis :
    closing[g] /\ dial[g] = "none" /\ ~leaving[g] =>
      conn[g] = None /\ \A s \in up : owner[s] # g

(* A GUI that has lost its connection does not show one for ever, though   *)
(* the callback of acquire_control may show it after the loss.             *)
ShownConnectionIsReal ==
  \A g \in Guis :
    shown[g].state = "connected" /\ conn[g] = None /\ ~closing[g]
    ~> shown[g].state # "connected" \/ conn[g] # None \/ closing[g]
=============================================================================
