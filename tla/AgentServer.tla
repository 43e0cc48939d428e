----------------------------- MODULE AgentServer -----------------------------
(***************************************************************************)
(* The agent's server (remote_agent/dracoviloc_agent/server.py): sessions  *)
(* that come and go, and the lease of control one of them may hold.        *)
(*                                                                         *)
(* One event loop runs a task for each connection (_accept) and for each   *)
(* request (_handle).  What it writes to a session is read in order and    *)
(* arbitrarily late, so that a write which waits for a slow session is     *)
(* not told from one that is read late.  That is an abstraction where      *)
(* _accept awaits between the hello and the entry into the list of         *)
(* sessions: a control event in between is not sent to the new session.    *)
(* The control commands are in AgentRuntime; status, logs and camera       *)
(* images say nothing of the lease.                                        *)
(***************************************************************************)
EXTENDS Integers, Sequences

CONSTANTS
  None,         (* no session, no GUI                                       *)
  Guis,         (* the GUIs whose client is modelled                        *)
  MaxSessions,  (* bounds of a run: the connections made,                   *)
  MaxOthers,    (* those of other clients, which come first,                *)
  MaxUnread,    (* and what a GUI has to read when another client asks      *)
  GracePeriod   (* how long the lease of a closed session lasts             *)

ASSUME ServerAssumption ==
  None \notin Nat \cup Guis /\ MaxSessions \in Nat /\ MaxOthers \in Nat /\ MaxUnread \in Nat /\ GracePeriod \in Nat \ {0}

Sessions == 1 .. MaxSessions

VARIABLES
  session,      (* new, dialled, open, closed (_accept sleeps), gone        *)
  grace,        (* what is left of the sleep of a closed session            *)
  controller,   (* controller_id                                            *)
  owner,        (* the GUI that made a session; None for any other client   *)
  up,           (* the sessions whose connection works                      *)
  inbox,        (* requests to the server, per session                      *)
  outbox        (* messages to the client, per session                      *)

serverVars == <<session, grace, controller, owner, up, inbox, outbox>>

Message(type, c) == [type |-> type, controller |-> c]
Requests == {"acquire", "release"}
Messages == [type : {"hello", "control", "granted", "refused", "released"},
             controller : Sessions \cup {None}]

(* What is written to a connection that is down is lost, and what other    *)
(* clients read is not followed.                                           *)
Heard(s) == s \in up /\ owner[s] # None

Write(s, messages) ==
  outbox' = IF Heard(s) THEN [outbox EXCEPT ![s] = @ \o messages] ELSE outbox

(* _control_event to all sessions, then the response to s.                 *)
Announce(s, c, response) ==
  outbox' = [t \in Sessions |->
    outbox[t] \o (IF session[t] = "open" /\ Heard(t) THEN <<Message("control", c)>> ELSE <<>>)
              \o (IF t = s /\ Heard(t) THEN response ELSE <<>>)]

(* The end of the hello: from now on s is told of every change.            *)
Greet(s) ==
  /\ session[s] = "dialled" /\ s \in up
  /\ session' = [session EXCEPT ![s] = "open"]
  /\ Write(s, <<Message("hello", controller)>>)
  /\ UNCHANGED <<grace, controller, owner, up, inbox>>

Request(s, type) ==
  /\ session[s] = "open" /\ inbox[s] # <<>> /\ Head(inbox[s]) = type
  /\ inbox' = [inbox EXCEPT ![s] = Tail(@)]
  /\ UNCHANGED <<session, grace, owner, up>>

(* Mutant: a second session may take control.                              *)
FreeForAll(s) == TRUE
FreeFor(s) == controller \in {None, s}

Acquire(s) ==
  /\ Request(s, "acquire")
  /\ IF FreeFor(s)
     THEN controller' = s /\ Announce(s, s, <<Message("granted", s)>>)
     ELSE Write(s, <<Message("refused", s)>>) /\ UNCHANGED controller

Release(s) ==
  /\ Request(s, "release")
  /\ IF controller = s
     THEN controller' = None /\ Announce(s, None, <<Message("released", s)>>)
     ELSE Write(s, <<Message("released", s)>>) /\ UNCHANGED controller

(* Mutant: the end of _accept does not look at the lease.                  *)
AfterwardsGone(s) == "gone"
Afterwards(s) == IF controller = s THEN "closed" ELSE "gone"

(* The end of _accept, once the requests that came before the end of the   *)
(* connection have started; a controller is given GracePeriod.             *)
Disconnect(s) ==
  /\ s \notin up
  /\ session[s] = "dialled" \/ (session[s] = "open" /\ inbox[s] = <<>>)
  /\ session' = [session EXCEPT ![s] = Afterwards(s)]
  /\ grace' = [grace EXCEPT ![s] = IF controller = s THEN GracePeriod ELSE 0]
  /\ UNCHANGED <<controller, owner, up, inbox, outbox>>

(* Mutant: the lease of a closed session stays.                            *)
ClearedNever(s) == controller
Cleared(s) == IF controller = s THEN None ELSE controller

Expire(s) ==
  /\ session[s] = "closed" /\ grace[s] = 0
  /\ session' = [session EXCEPT ![s] = "gone"]
  /\ controller' = Cleared(s)
  /\ IF controller = s THEN Announce(s, None, <<>>) ELSE UNCHANGED outbox
  /\ UNCHANGED <<grace, owner, up, inbox>>

PassTime ==
  /\ \E s \in Sessions : session[s] = "closed" /\ grace[s] > 0
  /\ grace' = [s \in Sessions |-> IF grace[s] > 0 THEN grace[s] - 1 ELSE 0]
  /\ UNCHANGED <<session, controller, owner, up, inbox, outbox>>

(* The connection breaks; what was under way may be lost.                  *)
Break(s) ==
  /\ s \in up /\ up' = up \ {s}
  /\ \E m \in 0 .. Len(inbox[s]), n \in 0 .. Len(outbox[s]) :
       /\ inbox' = [inbox EXCEPT ![s] = SubSeq(@, 1, m)]
       /\ outbox' = [outbox EXCEPT ![s] = SubSeq(@, 1, n)]
  /\ UNCHANGED <<session, grace, controller, owner>>

(* A client makes the next connection and sends its hello.                 *)
Connect(s, g) ==
  /\ session[s] = "new" /\ \A t \in 1 .. s - 1 : session[t] # "new"
  /\ session' = [session EXCEPT ![s] = "dialled"]
  /\ owner' = [owner EXCEPT ![s] = g]
  /\ up' = up \cup {s}
  /\ UNCHANGED <<grace, controller, inbox, outbox>>

(* Any other client, which may send what it likes.                         *)
OtherRequest(s, type) ==
  /\ s \in up /\ owner[s] = None /\ inbox[s] = <<>>
  /\ \A t \in Sessions : Len(outbox[t]) <= MaxUnread
  /\ inbox' = [inbox EXCEPT ![s] = <<type>>]
  /\ UNCHANGED <<session, grace, controller, owner, up, outbox>>

Environment(s) ==
  \/ Break(s)
  \/ s <= MaxOthers /\ Connect(s, None)
  \/ \E type \in Requests : OtherRequest(s, type)

ServerInit ==
  /\ session = [s \in Sessions |-> "new"] /\ grace = [s \in Sessions |-> 0]
  /\ controller = None
  /\ owner = [s \in Sessions |-> None] /\ up = {}
  /\ inbox = [s \in Sessions |-> <<>>] /\ outbox = [s \in Sessions |-> <<>>]

ServerStep(s) == Greet(s) \/ Acquire(s) \/ Release(s) \/ Disconnect(s) \/ Expire(s)

-----------------------------------------------------------------------------
(* The lease is held by an open session or by one that _accept has yet to  *)
(* clear, and the sessions are in their types.                             *)
ServerTypeOK ==
  /\ session \in [Sessions -> {"new", "dialled", "open", "closed", "gone"}]
  /\ grace \in [Sessions -> 0 .. GracePeriod]
  /\ controller \in Sessions \cup {None}
  /\ controller # None => session[controller] \in {"open", "closed"}
  /\ owner \in [Sessions -> Guis \cup {None}]
  /\ up \subseteq {s \in Sessions : session[s] \in {"dialled", "open"}}
  /\ inbox \in [Sessions -> Seq(Requests)] /\ outbox \in [Sessions -> Seq(Messages)]

Unattended == controller # None /\ session[controller] # "open"

(* "Only one GUI can own control", and "another client cannot take control *)
(* until the disconnected lease expires" (gui/README.md:152, 161): through *)
(* every order of requests, broken connections and expiries, the server is *)
(* the lease of ControlLease, and the lease of a session that is closed    *)
(* does expire (server.py:120-124).                                        *)
Lease == INSTANCE ControlLease WITH
  Clients <- Sessions, Grace <- GracePeriod,
  holder <- controller,
  present <- {s \in Sessions : session[s] = "open"},
  left <- IF Unattended THEN grace[controller] ELSE 0

ImplementsLease == Lease!LeaseSpec
=============================================================================
