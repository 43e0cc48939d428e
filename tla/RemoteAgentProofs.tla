-------------------------- MODULE RemoteAgentProofs --------------------------
(***************************************************************************)
(* Theorems about the remote agent: RemoteControl, the GUIs and the        *)
(* agent's server, for any number of GUIs, sessions, retries and any grace *)
(* period; and AgentRuntime, its jobs and the host, for any number of jobs. *)
(* The two share no state.                                                 *)
(***************************************************************************)
EXTENDS RemoteControl, AgentRuntime, TLAPS

(* A connection is one its GUI made, and the only one the GUI knows; while *)
(* one is made there is none.                                              *)
ConnectionInv ==
  \A g \in Guis :
    /\ conn[g] # None => owner[conn[g]] = g /\ session[conn[g]] # "new"
    /\ sid[g] \in {None, conn[g]}
    /\ dial[g] \in {"ssh", "tunnel"} => conn[g] = None

(* A receiver reads only when nothing is dialled, and one of an older      *)
(* generation only until its connection is left; after a disconnection all *)
(* tasks are of an older generation.                                       *)
TaskInv ==
  \A g \in Guis :
    /\ receiver[g] = "reading" => dial[g] = "none" /\ ("receiver" \in fresh[g] \/ leaving[g])
    /\ closing[g] => ~want[g] /\ fresh[g] = {}

(* Nothing is written to a session before its hello, and nothing is asked  *)
(* over a connection that was not made.                                    *)
SessionInv ==
  \A s \in Sessions :
    /\ session[s] \in {"new", "dialled"} => outbox[s] = <<>>
    /\ session[s] = "new" => inbox[s] = <<>>

(* What a GUI that has sent its hello reads first is the hello.            *)
HelloInv ==
  \A g \in Guis :
    dial[g] = "hello" /\ conn[g] # None =>
      /\ outbox[conn[g]] # <<>> => Head(outbox[conn[g]]).type = "hello"
      /\ session[conn[g]] = "open" /\ conn[g] \in up => outbox[conn[g]] # <<>>

(* What tells the client of s that it has control.                         *)
Claims(m, s) == m.type = "granted" \/ (m.type \in {"hello", "control"} /\ m.controller = s)

(* The user of s has not asked to leave.                                   *)
Attended(s) == s \in up /\ owner[s] # None /\ ~leaving[owner[s]]

(* While a GUI stays, nothing gives its control away, and whatever tells   *)
(* it that it has control, read or unread, is true.                        *)
BeliefInv ==
  \A s \in Sessions :
    Attended(s) =>
      /\ \A i \in 1 .. Len(inbox[s]) : inbox[s][i] # "release"
      /\ \A i \in 1 .. Len(outbox[s]) : Claims(outbox[s][i], s) => controller = s
      /\ sid[owner[s]] = s /\ (belief[owner[s]] = s \/ acquiring[owner[s]] = "granted")
           => controller = s

RemoteInv ==
  RemoteTypeOK /\ ConnectionInv /\ TaskInv /\ SessionInv /\ HelloInv /\ BeliefInv

(* RemoteInv in two parts: the connections with what they carry and what   *)
(* the GUIs know of them, and the tasks of the GUIs.                       *)
GuiTypes ==
  /\ conn \in [Guis -> Sessions \cup {None}] /\ sid \in [Guis -> Sessions \cup {None}]
  /\ belief \in [Guis -> Sessions \cup {None}]
  /\ leaving \in [Guis -> BOOLEAN] /\ acquiring \in [Guis -> {"none", "sent", "granted"}]

HeldInv == \A s \in up : owner[s] # None => conn[owner[s]] = s

NetInv ==
  ServerTypeOK /\ GuiTypes /\ HeldInv /\ ConnectionInv /\ SessionInv /\ HelloInv /\ BeliefInv

ShownType == [state : {"disconnected", "connecting", "connected", "error"}, control : BOOLEAN]

TaskTypes ==
  /\ shown \in [Guis -> ShownType]
  /\ closing \in [Guis -> BOOLEAN] /\ want \in [Guis -> BOOLEAN]
  /\ dial \in [Guis -> {"none", "ssh", "tunnel", "hello"}]
  /\ receiver \in [Guis -> {"none", "reading", "retrying"}] /\ retries \in [Guis -> 0 .. Retries]
  /\ fresh \in [Guis -> SUBSET {"dial", "receiver"}]

UseInv ==
  \A g \in Guis : conn[g] # None => dial[g] = "hello" \/ receiver[g] = "reading" \/ leaving[g]

TasksInv == TaskTypes /\ UseInv /\ TaskInv

(* The invariant, regrouped by what disturbs it: connections and messages, *)
(* or the tasks of the clients.                                            *)
LEMMA RemoteInvParts ==
  (RemoteInv <=> NetInv /\ TasksInv) /\ (RemoteInv' <=> NetInv' /\ TasksInv')
BY DEF RemoteInv, RemoteTypeOK, NetInv, TasksInv, GuiTypes, HeldInv, TaskTypes, ShownType, UseInv
-----------------------------------------------------------------------------
(* What is left of a sequence when the rest of it is lost.                 *)
LEMMA PrefixOf ==
  ASSUME NEW S, NEW q \in Seq(S), NEW n \in 0 .. Len(q)
  PROVE  /\ SubSeq(q, 1, n) \in Seq(S) /\ Len(SubSeq(q, 1, n)) = n
         /\ \A i \in 1 .. n : SubSeq(q, 1, n)[i] = q[i]
         /\ SubSeq(q, 1, n) # <<>> => q # <<>> /\ Head(SubSeq(q, 1, n)) = Head(q)
OBVIOUS

(* What is left of a sequence when its head is read.                       *)
LEMMA RestOf ==
  ASSUME NEW S, NEW q \in Seq(S), q # <<>>
  PROVE  /\ Head(q) \in S /\ Head(q) = q[1] /\ Tail(q) \in Seq(S) /\ Len(Tail(q)) = Len(q) - 1
         /\ \A i \in 1 .. Len(Tail(q)) : Tail(q)[i] = q[i + 1]
OBVIOUS

(* What a sequence holds when another one follows it.                      *)
LEMMA FollowedBy ==
  ASSUME NEW S, NEW q \in Seq(S), NEW w \in Seq(S)
  PROVE  /\ q \o w \in Seq(S) /\ Len(q \o w) = Len(q) + Len(w)
         /\ \A i \in 1 .. Len(q \o w) : (q \o w)[i] = IF i <= Len(q) THEN q[i] ELSE w[i - Len(q)]
         /\ q # <<>> => q \o w # <<>> /\ Head(q \o w) = Head(q)
         /\ w = <<>> => q \o w = q
OBVIOUS
-----------------------------------------------------------------------------
(* What the server writes to a session: nothing that is not true.          *)
Grown(t) ==
  /\ Len(outbox'[t]) >= Len(outbox[t])
  /\ \A i \in 1 .. Len(outbox[t]) : outbox'[t][i] = outbox[t][i]
  /\ \A i \in Len(outbox[t]) + 1 .. Len(outbox'[t]) : Claims(outbox'[t][i], t) => controller' = t
  /\ outbox'[t] # outbox[t] =>
       /\ Heard(t)
       /\ \/ session[t] = "open"
          \/ session[t] = "dialled" /\ session'[t] = "open" /\ outbox'[t][1].type = "hello"

(* An outbox that nobody writes to has grown by nothing.                   *)
LEMMA UnchangedGrown ==
  ASSUME ServerTypeOK, NEW t \in Sessions, outbox'[t] = outbox[t]
  PROVE  Grown(t)
BY DEF Grown, ServerTypeOK

(* None is neither a session nor a client.                                 *)
LEMMA NoneIsNone == None \notin Sessions /\ None \notin Guis
BY ServerAssumption DEF Sessions

(* A message has the type and the controller it was made with.             *)
LEMMA MessageTyped ==
  ASSUME NEW c \in Sessions \cup {None},
         NEW type \in {"hello", "control", "granted", "refused", "released"}
  PROVE  /\ Message(type, c) \in Messages
         /\ Message(type, c).type = type /\ Message(type, c).controller = c
BY DEF Message, Messages

(* One message, to s.                                                      *)
LEMMA WriteGrows ==
  ASSUME ServerTypeOK, NEW s \in Sessions, NEW m \in Messages, Write(s, <<m>>),
         Claims(m, s) => controller' = s,
         \/ session[s] = "open"
         \/ session[s] = "dialled" /\ session'[s] = "open" /\ outbox[s] = <<>> /\ m.type = "hello"
  PROVE  /\ outbox' \in [Sessions -> Seq(Messages)] /\ \A t \in Sessions : Grown(t)
         /\ Heard(s) => outbox'[s] # <<>>
<1>1. \A t \in Sessions \ {s} : outbox'[t] = outbox[t]
  BY DEF Write, ServerTypeOK
<1>2. CASE ~Heard(s)
  BY <1>2, UnchangedGrown DEF Write, ServerTypeOK
<1>3. CASE Heard(s)
  <2>1. <<m>> \in Seq(Messages) /\ outbox[s] \in Seq(Messages) /\ Len(<<m>>) = 1 /\ <<m>>[1] = m
    BY DEF ServerTypeOK
  <2>2. outbox' = [outbox EXCEPT ![s] = outbox[s] \o <<m>>]
    BY <1>3 DEF Write
  <2>3. outbox'[s] = outbox[s] \o <<m>>
    BY <2>2 DEF ServerTypeOK
  <2>4. /\ outbox'[s] \in Seq(Messages) /\ Len(outbox'[s]) = Len(outbox[s]) + 1
        /\ \A i \in 1 .. Len(outbox[s]) : outbox'[s][i] = outbox[s][i]
        /\ outbox'[s][Len(outbox[s]) + 1] = m
    BY <2>1, <2>3
  <2>5. Grown(s)
    BY <1>3, <2>1, <2>4 DEF Grown
  <2>6. outbox' \in [Sessions -> Seq(Messages)]
    BY <2>2, <2>3, <2>4 DEF ServerTypeOK
  <2>7. outbox'[s] # <<>>
    BY <2>1, <2>4
  <2> QED
    BY <1>1, <2>5, <2>6, <2>7, UnchangedGrown
<1> QED
  BY <1>2, <1>3

(* The control event to all sessions, and a response to s.                 *)
LEMMA AnnounceGrows ==
  ASSUME ServerTypeOK, NEW s \in Sessions, NEW c \in Sessions \cup {None}, controller' = c,
         NEW response \in Seq(Messages), Announce(s, c, response),
         \/ response = <<>>
         \/ /\ session[s] = "open" /\ Len(response) = 1
            /\ Claims(response[1], s) => c = s
  PROVE  outbox' \in [Sessions -> Seq(Messages)] /\ \A t \in Sessions : Grown(t)
<1> SUFFICES ASSUME NEW t \in Sessions
             PROVE  outbox'[t] \in Seq(Messages) /\ Grown(t)
  BY DEF Announce
<1> DEFINE event == IF session[t] = "open" /\ Heard(t) THEN <<Message("control", c)>> ELSE <<>>
           answer == IF t = s /\ Heard(t) THEN response ELSE <<>>
<1>1. outbox[t] \in Seq(Messages) /\ event \in Seq(Messages) /\ answer \in Seq(Messages)
  BY MessageTyped DEF ServerTypeOK
<1>2. outbox'[t] = (outbox[t] \o event) \o answer
  BY DEF Announce
<1>3. \/ event = <<>>
      \/ Heard(t) /\ session[t] = "open" /\ Len(event) = 1 /\ event[1] = Message("control", c)
  OBVIOUS
<1>4. \/ answer = <<>>
      \/ Heard(t) /\ session[t] = "open" /\ Len(answer) = 1 /\ (Claims(answer[1], t) => c = t)
  OBVIOUS
<1>5. Claims(Message("control", c), t) => c = t
  BY MessageTyped DEF Claims
<1> HIDE DEF event, answer
<1>6. \A i \in 1 .. Len(event) : Claims(event[i], t) => controller' = t
  BY <1>3, <1>5
<1>7. \A i \in 1 .. Len(answer) : Claims(answer[i], t) => controller' = t
  BY <1>4
<1> DEFINE told == outbox[t] \o event
           m == Len(outbox[t])
           n == Len(told)
<1>8. /\ told \in Seq(Messages) /\ n = m + Len(event) /\ m \in Nat
      /\ \A i \in 1 .. n : told[i] = IF i <= m THEN outbox[t][i] ELSE event[i - m]
      /\ event = <<>> => told = outbox[t]
  BY <1>1, FollowedBy
<1>9. outbox'[t] = told \o answer
  BY <1>2
<1> HIDE DEF told, m
<1>10. /\ told \o answer \in Seq(Messages) /\ Len(told \o answer) = n + Len(answer) /\ n \in Nat
       /\ \A i \in 1 .. Len(told \o answer) : (told \o answer)[i] = IF i <= n THEN told[i] ELSE answer[i - n]
       /\ answer = <<>> => told \o answer = told
  <2>1. told \in Seq(Messages) /\ answer \in Seq(Messages)
    BY <1>1, <1>8
  <2> QED
    BY ONLY <2>1, FollowedBy
<1>11. Len(event) \in Nat /\ Len(answer) \in Nat
  BY <1>1
<1> HIDE DEF n
<1>12. outbox'[t] # outbox[t] => Heard(t) /\ session[t] = "open"
  BY <1>3, <1>4, <1>8, <1>10, <1>9
<1>13. Len(outbox'[t]) >= m
  BY <1>8, <1>10, <1>9, <1>11
<1>14. \A i \in 1 .. m : outbox'[t][i] = outbox[t][i]
  <2> SUFFICES ASSUME NEW i \in 1 .. m PROVE (told \o answer)[i] = outbox[t][i]
    BY <1>9
  <2>1. i \in 1 .. n /\ i \in 1 .. Len(told \o answer)
    BY <1>8, <1>10, <1>11
  <2> QED
    BY <1>8, <1>10, <2>1
<1>15. \A i \in m + 1 .. Len(outbox'[t]) : Claims(outbox'[t][i], t) => controller' = t
  <2> SUFFICES ASSUME NEW i \in m + 1 .. Len(told \o answer), Claims((told \o answer)[i], t)
               PROVE  controller' = t
    BY <1>9
  <2>1. i \in 1 .. Len(told \o answer)
    BY <1>8
  <2>2. CASE i <= n
    <3>1. i - m \in 1 .. Len(event)
      BY <1>8, <1>11, <2>2
    <3>2. (told \o answer)[i] = event[i - m]
      BY <1>8, <1>10, <2>1, <2>2
    <3> QED
      BY <1>6, <3>1, <3>2
  <2>3. CASE i > n
    <3>1. i - n \in 1 .. Len(answer)
      BY <1>8, <1>10, <1>11, <2>3
    <3>2. (told \o answer)[i] = answer[i - n]
      BY <1>8, <1>10, <2>1, <2>3
    <3> QED
      BY <1>7, <3>1, <3>2
  <2> QED
    BY <1>8, <2>2, <2>3
<1> QED
  BY <1>10, <1>9, <1>12, <1>13, <1>14, <1>15 DEF Grown, m
-----------------------------------------------------------------------------
(* What a step of the server or of its environment does to the sessions.   *)
SessionsGoOn ==
  \A t \in Sessions :
    /\ session[t] # "new" => session'[t] # "new" /\ owner'[t] = owner[t]
    /\ t \in up' => t \in up \/ owner'[t] = None
    /\ Attended(t) /\ controller = t => controller' = t

InboxOK ==
  \A t \in Sessions : Attended(t) => \A i \in 1 .. Len(inbox'[t]) : inbox'[t][i] # "release"

Shortened(t) ==
  outbox'[t] # <<>> => outbox[t] # <<>> /\ Head(outbox'[t]) = Head(outbox[t])

OutboxOK ==
  \A t \in Sessions :
    /\ Grown(t) \/ (t \notin up' /\ Shortened(t))
    /\ Heard(t) /\ t \in up' /\ session[t] # "open" /\ session'[t] = "open" => outbox'[t] # <<>>

ServerStepOK == ServerTypeOK' /\ SessionInv' /\ SessionsGoOn /\ InboxOK /\ OutboxOK

(* Greeting a new session with hello is a proper step of the server        *)
(* (server.py, _accept).                                                   *)
LEMMA GreetOK ==
  ASSUME NetInv, NEW s \in Sessions, Greet(s)
  PROVE  ServerStepOK
<1> USE DEF NetInv, Greet, Heard
<1>1. controller \in Sessions \cup {None}
  BY DEF ServerTypeOK
<1>2. PICK m \in Messages : m = Message("hello", controller)
  BY <1>1, MessageTyped
<1>3. m.type = "hello" /\ m.controller = controller
  BY <1>1, <1>2, MessageTyped
<1>4. Claims(m, s) => controller' = s
  BY <1>3 DEF Claims
<1>5. outbox[s] = <<>> /\ session'[s] = "open"
  BY DEF SessionInv, ServerTypeOK
<1>6. Write(s, <<m>>)
  BY <1>2
<1>7. /\ outbox' \in [Sessions -> Seq(Messages)] /\ \A t \in Sessions : Grown(t)
      /\ Heard(s) => outbox'[s] # <<>>
  BY <1>3, <1>4, <1>5, <1>6, WriteGrows
<1>8. ServerTypeOK'
  BY <1>7 DEF ServerTypeOK
<1>9. SessionInv'
  BY <1>7 DEF SessionInv, ServerTypeOK, Grown
<1>10. SessionsGoOn /\ InboxOK
  BY DEF SessionsGoOn, InboxOK, BeliefInv, ServerTypeOK
<1>11. OutboxOK
  BY <1>7 DEF OutboxOK, ServerTypeOK
<1> QED
  BY <1>8, <1>9, <1>10, <1>11 DEF ServerStepOK

(* A request that is taken from the inbox.                                 *)
LEMMA RequestTakes ==
  ASSUME NetInv, NEW s \in Sessions, NEW type \in Requests, Request(s, type)
  PROVE  /\ inbox' \in [Sessions -> Seq(Requests)] /\ InboxOK
         /\ session[s] = "open" /\ inbox[s] # <<>> /\ inbox[s][1] = type
         /\ \A t \in Sessions \ {s} : inbox'[t] = inbox[t]
<1> USE DEF NetInv, Request
<1>1. inbox[s] \in Seq(Requests) /\ inbox[s] # <<>>
  BY DEF ServerTypeOK
<1>2. /\ inbox[s][1] = type /\ Tail(inbox[s]) \in Seq(Requests)
      /\ Len(Tail(inbox[s])) = Len(inbox[s]) - 1
      /\ \A i \in 1 .. Len(Tail(inbox[s])) : Tail(inbox[s])[i] = inbox[s][i + 1]
  BY <1>1, RestOf
<1>3. inbox' \in [Sessions -> Seq(Requests)]
  BY <1>2 DEF ServerTypeOK
<1>4. ASSUME NEW t \in Sessions, Attended(t), NEW i \in 1 .. Len(inbox'[t])
      PROVE  inbox'[t][i] # "release"
  <2>1. CASE t # s
    BY <1>4, <2>1 DEF BeliefInv, ServerTypeOK
  <2>2. CASE t = s
    <3>1. inbox'[t] = Tail(inbox[s])
      BY <2>2 DEF ServerTypeOK
    <3>2. i \in 1 .. Len(Tail(inbox[s]))
      BY <1>4, <3>1
    <3>3. Len(inbox[s]) \in Nat
      BY <1>1
    <3>4. i + 1 \in 1 .. Len(inbox[s])
      BY <1>2, <3>2, <3>3
    <3>5. inbox'[t][i] = inbox[s][i + 1]
      BY <1>2, <3>1, <3>2
    <3> QED
      BY <1>4, <2>2, <3>4, <3>5 DEF BeliefInv
  <2> QED
    BY <2>1, <2>2
<1>5. \A t \in Sessions \ {s} : inbox'[t] = inbox[t]
  BY DEF ServerTypeOK
<1> QED
  BY <1>1, <1>2, <1>3, <1>4, <1>5 DEF InboxOK

(* Answering acquire_control is a proper step of the server (server.py,    *)
(* _handle).                                                               *)
LEMMA AcquireOK ==
  ASSUME NetInv, NEW s \in Sessions, Acquire(s)
  PROVE  ServerStepOK
<1> USE DEF NetInv
<1>1. Request(s, "acquire") /\ "acquire" \in Requests
  BY DEF Acquire, Requests
<1>2. /\ inbox' \in [Sessions -> Seq(Requests)] /\ InboxOK
      /\ session[s] = "open" /\ \A t \in Sessions \ {s} : inbox'[t] = inbox[t]
  BY <1>1, RequestTakes
<1>3. UNCHANGED <<session, grace, owner, up>>
  BY <1>1 DEF Request
<1>4. /\ controller' \in {s, controller} /\ (controller \notin {None, s} => controller' = controller)
      /\ outbox' \in [Sessions -> Seq(Messages)] /\ \A t \in Sessions : Grown(t)
  <2>1. CASE FreeFor(s)
    <3>1. controller' = s /\ Announce(s, s, <<Message("granted", s)>>)
      BY <2>1 DEF Acquire
    <3> DEFINE response == <<Message("granted", s)>>
    <3>2. Message("granted", s) \in Messages
      BY MessageTyped
    <3>3. response \in Seq(Messages) /\ Len(response) = 1
      BY <3>2
    <3> HIDE DEF response
    <3>4. outbox' \in [Sessions -> Seq(Messages)] /\ \A t \in Sessions : Grown(t)
      BY <1>2, <3>1, <3>3, AnnounceGrows DEF response
    <3> QED
      BY <2>1, <3>1, <3>4 DEF FreeFor
  <2>2. CASE ~FreeFor(s)
    <3>1. controller' = controller /\ Write(s, <<Message("refused", s)>>)
      BY <2>2 DEF Acquire
    <3>2. Message("refused", s) \in Messages /\ ~Claims(Message("refused", s), s)
      BY MessageTyped DEF Claims
    <3>3. outbox' \in [Sessions -> Seq(Messages)] /\ \A t \in Sessions : Grown(t)
      BY <1>2, <3>1, <3>2, WriteGrows
    <3> QED
      BY <3>1, <3>3
  <2> QED
    BY <2>1, <2>2
<1>5. ServerTypeOK'
  BY <1>2, <1>3, <1>4 DEF ServerTypeOK
<1>6. SessionInv'
  BY <1>2, <1>3, <1>4 DEF SessionInv, Grown
<1>7. SessionsGoOn
  BY <1>3, <1>4, NoneIsNone DEF SessionsGoOn
<1>8. OutboxOK
  BY <1>3, <1>4 DEF OutboxOK
<1> QED
  BY <1>2, <1>5, <1>6, <1>7, <1>8 DEF ServerStepOK

(* Answering release_control is a proper step of the server (server.py,    *)
(* _handle).                                                               *)
LEMMA ReleaseOK ==
  ASSUME NetInv, NEW s \in Sessions, Release(s)
  PROVE  ServerStepOK
<1> USE DEF NetInv
<1>1. Request(s, "release") /\ "release" \in Requests
  BY DEF Release, Requests
<1>2. /\ inbox' \in [Sessions -> Seq(Requests)] /\ InboxOK
      /\ session[s] = "open" /\ inbox[s] # <<>> /\ inbox[s][1] = "release"
      /\ \A t \in Sessions \ {s} : inbox'[t] = inbox[t]
  BY <1>1, RequestTakes
<1>3. UNCHANGED <<session, grace, owner, up>>
  BY <1>1 DEF Request
<1>4. ~Attended(s)
  <2>1. 1 \in 1 .. Len(inbox[s])
    BY <1>2 DEF ServerTypeOK
  <2> QED
    BY <1>2, <2>1 DEF BeliefInv
<1> DEFINE response == <<Message("released", s)>>
<1>5. /\ Message("released", s) \in Messages /\ ~Claims(Message("released", s), s)
      /\ None \in Sessions \cup {None}
  BY MessageTyped DEF Claims
<1>6. response \in Seq(Messages) /\ Len(response) = 1 /\ ~Claims(response[1], s)
  BY <1>5
<1> HIDE DEF response
<1>7. /\ controller' \in {None, controller} /\ (controller # s => controller' = controller)
      /\ outbox' \in [Sessions -> Seq(Messages)] /\ \A t \in Sessions : Grown(t)
  <2>1. CASE controller = s
    <3>1. controller' = None /\ Announce(s, None, response)
      BY <2>1 DEF Release, response
    <3>2. outbox' \in [Sessions -> Seq(Messages)] /\ \A t \in Sessions : Grown(t)
      BY <1>2, <1>5, <1>6, <3>1, AnnounceGrows
    <3> QED
      BY <2>1, <3>1, <3>2
  <2>2. CASE controller # s
    <3>1. controller' = controller /\ Write(s, <<Message("released", s)>>)
      BY <2>2 DEF Release
    <3>2. outbox' \in [Sessions -> Seq(Messages)] /\ \A t \in Sessions : Grown(t)
      BY <1>2, <1>5, <3>1, WriteGrows
    <3> QED
      BY <3>1, <3>2
  <2> QED
    BY <2>1, <2>2
<1>8. ServerTypeOK'
  BY <1>2, <1>3, <1>7 DEF ServerTypeOK
<1>9. SessionInv'
  BY <1>2, <1>3, <1>7 DEF SessionInv, Grown
<1>10. SessionsGoOn
  BY <1>3, <1>4, <1>7 DEF SessionsGoOn
<1>11. OutboxOK
  BY <1>3, <1>7 DEF OutboxOK
<1> QED
  BY <1>2, <1>8, <1>9, <1>10, <1>11 DEF ServerStepOK

(* The end of a connection that no longer works, and of the sleep for the  *)
(* lease it had.                                                           *)
LEMMA DisconnectOK ==
  ASSUME NetInv, NEW s \in Sessions, Disconnect(s)
  PROVE  ServerStepOK
<1> USE DEF NetInv, Disconnect, Afterwards
<1>1. \A t \in Sessions : Grown(t)
  BY UnchangedGrown
<1>2. ServerTypeOK'
  <2>1. grace' \in [Sessions -> 0 .. GracePeriod]
    BY ServerAssumption DEF ServerTypeOK
  <2>2. session' \in [Sessions -> {"new", "dialled", "open", "closed", "gone"}]
    BY DEF ServerTypeOK
  <2>3. up' \subseteq {t \in Sessions : session'[t] \in {"dialled", "open"}}
    BY DEF ServerTypeOK
  <2>4. controller' # None => session'[controller'] \in {"open", "closed"}
    BY DEF ServerTypeOK
  <2> QED
    BY <2>1, <2>2, <2>3, <2>4 DEF ServerTypeOK
<1>3. SessionInv'
  BY DEF SessionInv, ServerTypeOK
<1>4. SessionsGoOn /\ InboxOK
  BY DEF SessionsGoOn, InboxOK, BeliefInv, ServerTypeOK
<1>5. OutboxOK
  BY <1>1 DEF OutboxOK, ServerTypeOK, Heard
<1> QED
  BY <1>2, <1>3, <1>4, <1>5 DEF ServerStepOK

(* The end of a session's grace, which may return control, is a proper     *)
(* step of the server (server.py, _accept).                                *)
LEMMA ExpireOK ==
  ASSUME NetInv, NEW s \in Sessions, Expire(s)
  PROVE  ServerStepOK
<1> USE DEF NetInv, Expire, Cleared
<1>1. <<>> \in Seq(Messages) /\ None \in Sessions \cup {None}
  OBVIOUS
<1>2. outbox' \in [Sessions -> Seq(Messages)] /\ \A t \in Sessions : Grown(t)
  <2>1. CASE controller = s
    BY <1>1, <2>1, AnnounceGrows
  <2>2. CASE controller # s
    BY <2>2, UnchangedGrown DEF ServerTypeOK
  <2> QED
    BY <2>1, <2>2
<1>3. ServerTypeOK'
  BY <1>2 DEF ServerTypeOK
<1>4. SessionInv'
  BY <1>2 DEF SessionInv, ServerTypeOK, Grown
<1>5. ~Attended(s)
  BY DEF Attended, ServerTypeOK
<1>6. SessionsGoOn /\ InboxOK
  BY <1>5 DEF SessionsGoOn, InboxOK, BeliefInv, ServerTypeOK
<1>7. OutboxOK
  BY <1>2 DEF OutboxOK, ServerTypeOK, Heard
<1> QED
  BY <1>3, <1>4, <1>6, <1>7 DEF ServerStepOK

(* Passing time, which counts down the grace of closed sessions, is a      *)
(* proper step of the server.                                              *)
LEMMA PassTimeOK ==
  ASSUME NetInv, PassTime
  PROVE  ServerStepOK
<1> USE DEF NetInv, PassTime
<1>1. ServerTypeOK'
  <2>1. grace' \in [Sessions -> 0 .. GracePeriod]
    BY ServerAssumption DEF ServerTypeOK
  <2> QED
    BY <2>1 DEF ServerTypeOK
<1>2. SessionInv' /\ SessionsGoOn /\ InboxOK
  BY DEF SessionInv, SessionsGoOn, InboxOK, BeliefInv
<1>3. OutboxOK
  BY UnchangedGrown DEF OutboxOK
<1> QED
  BY <1>1, <1>2, <1>3 DEF ServerStepOK

(* A connection that breaks loses the end of what was under way.           *)
LEMMA BreakOK ==
  ASSUME NetInv, NEW s \in Sessions, Break(s)
  PROVE  ServerStepOK
<1> USE DEF NetInv, Break
<1>1. PICK m \in 0 .. Len(inbox[s]), n \in 0 .. Len(outbox[s]) :
        /\ inbox' = [inbox EXCEPT ![s] = SubSeq(inbox[s], 1, m)]
        /\ outbox' = [outbox EXCEPT ![s] = SubSeq(outbox[s], 1, n)]
  OBVIOUS
<1>2. inbox[s] \in Seq(Requests) /\ outbox[s] \in Seq(Messages)
  BY DEF ServerTypeOK
<1>3. SubSeq(inbox[s], 1, m) \in Seq(Requests)
  BY <1>2, PrefixOf
<1>4. /\ SubSeq(outbox[s], 1, n) \in Seq(Messages)
      /\ SubSeq(outbox[s], 1, n) # <<>> =>
           outbox[s] # <<>> /\ Head(SubSeq(outbox[s], 1, n)) = Head(outbox[s])
  BY <1>2, PrefixOf
<1>5. inbox' \in [Sessions -> Seq(Requests)] /\ \A t \in Sessions \ {s} : inbox'[t] = inbox[t]
  BY <1>1, <1>3 DEF ServerTypeOK
<1>6. /\ outbox' \in [Sessions -> Seq(Messages)] /\ \A t \in Sessions \ {s} : outbox'[t] = outbox[t]
      /\ Shortened(s)
  BY <1>1, <1>4 DEF ServerTypeOK, Shortened
<1>7. ServerTypeOK'
  BY <1>5, <1>6 DEF ServerTypeOK
<1>8. s \in up /\ s \notin up' /\ UNCHANGED <<session, controller, owner>>
  OBVIOUS
<1>9. SessionInv'
  <2>1. session[s] # "new"
    BY <1>8 DEF ServerTypeOK
  <2> QED
    BY <1>5, <1>6, <1>8, <2>1 DEF SessionInv, Shortened
<1>10. SessionsGoOn
  BY DEF SessionsGoOn
<1>11. OutboxOK
  BY <1>6, <1>8, UnchangedGrown DEF OutboxOK
<1>12. ASSUME NEW t \in Sessions, Attended(t), NEW i \in 1 .. Len(inbox'[t])
       PROVE  inbox'[t][i] # "release"
  <2>1. CASE t # s
    BY <1>5, <1>12, <2>1 DEF BeliefInv
  <2>2. CASE t = s
    <3>1. inbox'[t] = SubSeq(inbox[s], 1, m)
      BY <1>1, <2>2 DEF ServerTypeOK
    <3>2. Len(inbox[s]) \in Nat
      BY <1>2
    <3>3. Len(SubSeq(inbox[s], 1, m)) = m /\ \A k \in 1 .. m : SubSeq(inbox[s], 1, m)[k] = inbox[s][k]
      BY <1>2, PrefixOf
    <3>4. i \in 1 .. m /\ i \in 1 .. Len(inbox[s])
      BY <1>12, <3>1, <3>2, <3>3
    <3>5. inbox'[t][i] = inbox[s][i]
      BY <3>1, <3>3, <3>4
    <3> QED
      BY <1>12, <2>2, <3>4, <3>5 DEF BeliefInv
  <2> QED
    BY <2>1, <2>2
<1> QED
  BY <1>7, <1>9, <1>10, <1>11, <1>12 DEF ServerStepOK, InboxOK

(* A connection that is dialled keeps the server's part of the invariant.  *)
LEMMA ConnectTypes ==
  ASSUME NetInv, NEW s \in Sessions, NEW g \in Guis \cup {None}, Connect(s, g)
  PROVE  ServerTypeOK' /\ SessionInv'
BY DEF NetInv, Connect, ServerTypeOK, SessionInv

(* The connections and requests of other clients.                          *)
LEMMA OthersOK ==
  ASSUME NetInv, NEW s \in Sessions, NEW type \in Requests, Connect(s, None) \/ OtherRequest(s, type)
  PROVE  ServerStepOK
<1> USE DEF NetInv
<1>1. CASE Connect(s, None)
  <2>1. ServerTypeOK' /\ SessionInv'
    BY <1>1, ConnectTypes
  <2>2. SessionsGoOn /\ InboxOK
    BY <1>1 DEF Connect, SessionsGoOn, InboxOK, BeliefInv, ServerTypeOK
  <2>3. OutboxOK
    BY <1>1, UnchangedGrown DEF Connect, OutboxOK, ServerTypeOK
  <2> QED
    BY <2>1, <2>2, <2>3 DEF ServerStepOK
<1>2. CASE OtherRequest(s, type)
  <2>1. <<type>> \in Seq(Requests)
    OBVIOUS
  <2>2. ServerTypeOK'
    BY <1>2, <2>1 DEF OtherRequest, ServerTypeOK
  <2>3. SessionInv'
    BY <1>2 DEF OtherRequest, SessionInv, ServerTypeOK
  <2>4. SessionsGoOn /\ InboxOK
    BY <1>2 DEF OtherRequest, SessionsGoOn, InboxOK, BeliefInv, ServerTypeOK, Attended
  <2>5. OutboxOK
    BY <1>2, UnchangedGrown DEF OtherRequest, OutboxOK
  <2> QED
    BY <2>2, <2>3, <2>4, <2>5 DEF ServerStepOK
<1> QED
  BY <1>1, <1>2

(* Every step of the server and of its environment is proper.              *)
LEMMA ServerOK ==
  ASSUME NetInv, (\E s \in Sessions : ServerStep(s) \/ Environment(s)) \/ PassTime
  PROVE  ServerStepOK
<1>1. "acquire" \in Requests
  BY DEF Requests
<1> QED
  BY <1>1, GreetOK, AcquireOK, ReleaseOK, DisconnectOK, ExpireOK, PassTimeOK, BreakOK, OthersOK
     DEF ServerStep, Environment

(* As long as the GUIs do nothing, such a step preserves what is said of   *)
(* the connections.                                                        *)
LEMMA ServerNet ==
  ASSUME NetInv, ServerStepOK, UNCHANGED <<guiVars, dial>>
  PROVE  NetInv'
<1> USE DEF NetInv, ServerStepOK, guiVars
<1>1. GuiTypes'
  BY DEF GuiTypes
<1>2. ASSUME NEW s \in up', owner'[s] # None
      PROVE  s \in Sessions /\ s \in up /\ owner[s] # None /\ owner'[s] = owner[s]
  <2>1. s \in Sessions /\ s \in up
    BY <1>2 DEF ServerTypeOK, SessionsGoOn
  <2>2. session[s] # "new"
    BY <2>1 DEF ServerTypeOK
  <2> QED
    BY <1>2, <2>1, <2>2 DEF SessionsGoOn
<1>3. HeldInv'
  BY <1>2 DEF HeldInv
<1>4. ConnectionInv'
  BY NoneIsNone DEF ConnectionInv, GuiTypes, SessionsGoOn
<1>5. HelloInv'
  <2> SUFFICES ASSUME NEW g \in Guis, dial[g] = "hello", conn[g] # None
               PROVE  /\ outbox'[conn[g]] # <<>> => Head(outbox'[conn[g]]).type = "hello"
                      /\ session'[conn[g]] = "open" /\ conn[g] \in up' => outbox'[conn[g]] # <<>>
    BY DEF HelloInv
  <2> DEFINE s == conn[g]
  <2>1. s \in Sessions /\ owner[s] = g /\ owner'[s] = g /\ session[s] # "new" /\ g # None
    BY NoneIsNone DEF ConnectionInv, GuiTypes, SessionsGoOn
  <2>2. outbox[s] # <<>> => Head(outbox[s]).type = "hello"
    BY DEF HelloInv
  <2>3. session[s] = "open" /\ s \in up => outbox[s] # <<>>
    BY DEF HelloInv
  <2>4. outbox[s] \in Seq(Messages) /\ outbox'[s] \in Seq(Messages)
    BY <2>1 DEF ServerTypeOK
  <2>5. s \in up' => s \in up
    BY <2>1, NoneIsNone DEF SessionsGoOn
  <2> HIDE DEF s
  <2>6. CASE Grown(s)
    <3>1. outbox[s] # <<>> => outbox'[s] # <<>> /\ Head(outbox'[s]) = Head(outbox[s])
      BY <2>4, <2>6 DEF Grown
    <3>2. outbox[s] = <<>> /\ outbox'[s] # <<>> => Head(outbox'[s]).type = "hello"
      <4>1. SUFFICES ASSUME outbox[s] = <<>>, outbox'[s] # <<>>
                     PROVE  Head(outbox'[s]).type = "hello"
        OBVIOUS
      <4>2. outbox'[s][1].type = "hello"
        BY <2>3, <2>6, <4>1 DEF Grown, Heard
      <4> QED
        BY <2>4, <4>1, <4>2
    <3>3. session'[s] = "open" /\ s \in up' => outbox'[s] # <<>>
      BY <2>1, <2>3, <2>5, <3>1 DEF OutboxOK, Heard
    <3> QED
      BY <2>2, <3>1, <3>2, <3>3 DEF s
  <2>7. CASE s \notin up' /\ Shortened(s)
    BY <2>2, <2>7 DEF Shortened, s
  <2> QED
    BY <2>1, <2>6, <2>7 DEF OutboxOK
<1>6. BeliefInv'
  <2> SUFFICES ASSUME NEW s \in Sessions, Attended(s)'
               PROVE  /\ \A i \in 1 .. Len(inbox'[s]) : inbox'[s][i] # "release"
                      /\ \A i \in 1 .. Len(outbox'[s]) : Claims(outbox'[s][i], s) => controller' = s
                      /\ sid[owner'[s]] = s /\ (belief[owner'[s]] = s \/ acquiring[owner'[s]] = "granted")
                           => controller' = s
    BY DEF BeliefInv
  <2>1. s \in up' /\ owner'[s] = owner[s] /\ Attended(s)
    BY <1>2 DEF Attended
  <2>2. controller = s => controller' = s
    BY <2>1 DEF SessionsGoOn
  <2>3. \A i \in 1 .. Len(inbox'[s]) : inbox'[s][i] # "release"
    BY <2>1 DEF InboxOK
  <2>4. sid[owner'[s]] = s /\ (belief[owner'[s]] = s \/ acquiring[owner'[s]] = "granted") => controller' = s
    BY <2>1, <2>2 DEF BeliefInv
  <2>5. ASSUME NEW i \in 1 .. Len(outbox'[s]), Claims(outbox'[s][i], s)
        PROVE  controller' = s
    <3>1. Grown(s)
      BY <2>1 DEF OutboxOK
    <3>2. Len(outbox[s]) \in Nat /\ Len(outbox'[s]) \in Nat
      BY DEF ServerTypeOK
    <3>3. CASE i <= Len(outbox[s])
      BY <2>1, <2>2, <2>5, <3>1, <3>2, <3>3 DEF Grown, BeliefInv
    <3>4. CASE i > Len(outbox[s])
      BY <2>5, <3>1, <3>2, <3>4 DEF Grown
    <3> QED
      BY <3>2, <3>3, <3>4
  <2> QED
    BY <2>3, <2>4, <2>5
<1> QED
  BY <1>1, <1>3, <1>4, <1>5, <1>6
-----------------------------------------------------------------------------
(* What the steps of a GUI do to its connection.                           *)

(* Nothing, but for where its dialling is.                                 *)
LEMMA StillNet ==
  ASSUME NetInv, UNCHANGED <<serverVars, guiVars>>,
         \A g \in Guis : /\ dial'[g] \in {"ssh", "tunnel"} => conn[g] = None
                         /\ dial'[g] = "hello" => dial[g] = "hello"
  PROVE  NetInv'
<1> USE DEF NetInv, serverVars, guiVars
<1>1. ServerTypeOK' /\ GuiTypes' /\ HeldInv' /\ SessionInv'
  BY DEF ServerTypeOK, GuiTypes, HeldInv, SessionInv
<1>2. ConnectionInv' /\ HelloInv'
  BY DEF ConnectionInv, HelloInv
<1>3. BeliefInv'
  BY DEF BeliefInv, Attended
<1> QED
  BY <1>1, <1>2, <1>3

(* It closes its connection.                                               *)
LEMMA CloseNet ==
  ASSUME NetInv, NEW g \in Guis, Close(g), \A h \in Guis \ {g} : dial'[h] = dial[h]
  PROVE  /\ NetInv' /\ conn'[g] = None
         /\ \A h \in Guis \ {g} : conn'[h] = conn[h] /\ leaving'[h] = leaving[h]
<1> USE DEF NetInv
<1>1. /\ GuiTypes' /\ conn'[g] = None /\ sid'[g] = None
      /\ \A h \in Guis \ {g} : /\ conn'[h] = conn[h] /\ leaving'[h] = leaving[h]
                               /\ sid'[h] = sid[h] /\ belief'[h] = belief[h]
                               /\ acquiring'[h] = acquiring[h]
  BY DEF Close, Set, GuiTypes
<1>2. UNCHANGED <<session, grace, controller, owner>> /\ up' = up \ {conn[g]}
  BY DEF Close
<1>3. /\ outbox' \in [Sessions -> Seq(Messages)]
      /\ \A s \in Sessions : outbox'[s] = IF s = conn[g] THEN <<>> ELSE outbox[s]
  BY DEF Close, ServerTypeOK
<1>4. /\ inbox' \in [Sessions -> Seq(Requests)]
      /\ \A s \in Sessions : s # conn[g] => inbox'[s] = inbox[s]
  <2>1. CASE conn[g] = None
    BY <2>1 DEF Close, ServerTypeOK
  <2>2. CASE conn[g] # None
    <3>1. conn[g] \in Sessions /\ inbox[conn[g]] \in Seq(Requests)
      BY <2>2 DEF GuiTypes, ServerTypeOK
    <3>2. PICK n \in 0 .. Len(inbox[conn[g]]) :
            inbox' = [inbox EXCEPT ![conn[g]] = SubSeq(inbox[conn[g]], 1, n)]
      BY <2>2 DEF Close, Set
    <3>3. SubSeq(inbox[conn[g]], 1, n) \in Seq(Requests)
      BY <3>1, PrefixOf
    <3> QED
      BY <3>1, <3>2, <3>3 DEF ServerTypeOK
  <2> QED
    BY <2>1, <2>2
<1>5. ServerTypeOK'
  BY <1>2, <1>3, <1>4 DEF ServerTypeOK
<1>6. \A h \in Guis \ {g} : conn[h] # None => conn[h] # conn[g]
  BY DEF ConnectionInv
<1>7. \A s \in up' : owner'[s] # None => s # conn[g] /\ owner[s] \in Guis \ {g}
  BY <1>2 DEF HeldInv, ServerTypeOK
<1>8. HeldInv'
  BY <1>1, <1>2, <1>7 DEF HeldInv
<1>9. ConnectionInv'
  BY <1>1, <1>2 DEF ConnectionInv
<1>10. SessionInv'
  <2>1. conn[g] # None => session[conn[g]] # "new"
    BY DEF ConnectionInv
  <2> QED
    BY <1>2, <1>3, <1>4, <2>1, NoneIsNone DEF SessionInv
<1>11. HelloInv'
  BY <1>1, <1>2, <1>3, <1>6 DEF HelloInv, GuiTypes
<1>12. BeliefInv'
  <2> SUFFICES ASSUME NEW s \in Sessions, Attended(s)'
               PROVE  /\ \A i \in 1 .. Len(inbox'[s]) : inbox'[s][i] # "release"
                      /\ \A i \in 1 .. Len(outbox'[s]) : Claims(outbox'[s][i], s) => controller' = s
                      /\ sid'[owner'[s]] = s /\ (belief'[owner'[s]] = s \/ acquiring'[owner'[s]] = "granted")
                           => controller' = s
    BY DEF BeliefInv
  <2>1. s # conn[g] /\ owner[s] \in Guis \ {g} /\ Attended(s)
    BY <1>1, <1>2, <1>7 DEF Attended
  <2>2. inbox'[s] = inbox[s] /\ outbox'[s] = outbox[s]
    BY <1>3, <1>4, <2>1
  <2> QED
    BY <1>1, <1>2, <2>1, <2>2 DEF BeliefInv
<1> QED
  BY <1>1, <1>5, <1>8, <1>9, <1>10, <1>11, <1>12

(* It asks for control, or gives it back before it leaves.                 *)
LEMMA SendNet ==
  ASSUME NetInv, NEW g \in Guis, NEW type \in Requests, conn[g] # None, Send(g, type),
         \/ /\ type = "acquire" /\ acquiring' = Set(acquiring, g, "sent")
            /\ UNCHANGED leaving
         \/ /\ type = "release" /\ leaving' = Set(leaving, g, TRUE)
            /\ UNCHANGED acquiring,
         UNCHANGED <<conn, sid, belief, dial>>
  PROVE  NetInv'
<1> USE DEF NetInv
<1> DEFINE c == conn[g]
<1>1. c \in Sessions /\ owner[c] = g /\ session[c] # "new" /\ inbox[c] \in Seq(Requests)
  BY DEF GuiTypes, ConnectionInv, ServerTypeOK
<1>2. /\ GuiTypes'
      /\ \A h \in Guis : /\ leaving'[h] \in {leaving[h], TRUE}
                         /\ acquiring'[h] = "granted" => acquiring[h] = "granted"
      /\ type = "release" => leaving'[g]
  BY DEF GuiTypes, Set
<1>3. UNCHANGED <<session, grace, controller, up, outbox, owner>>
  BY DEF Send
<1>4. inbox' = [inbox EXCEPT ![c] = IF c \in up THEN Append(inbox[c], type) ELSE inbox[c]]
  BY DEF Send, Set
<1> HIDE DEF c
<1>5. /\ Append(inbox[c], type) \in Seq(Requests)
      /\ \A i \in 1 .. Len(Append(inbox[c], type)) :
           Append(inbox[c], type)[i] = type \/ (i \in 1 .. Len(inbox[c]) /\ Append(inbox[c], type)[i] = inbox[c][i])
  BY <1>1
<1>6. inbox' \in [Sessions -> Seq(Requests)] /\ \A s \in Sessions \ {c} : inbox'[s] = inbox[s]
  BY <1>1, <1>4, <1>5 DEF ServerTypeOK
<1>7. ServerTypeOK' /\ SessionInv'
  BY <1>1, <1>3, <1>6 DEF ServerTypeOK, SessionInv
<1>8. HeldInv' /\ ConnectionInv' /\ HelloInv'
  BY <1>3 DEF HeldInv, ConnectionInv, HelloInv
<1>9. BeliefInv'
  <2> SUFFICES ASSUME NEW s \in Sessions, Attended(s)'
               PROVE  /\ \A i \in 1 .. Len(inbox'[s]) : inbox'[s][i] # "release"
                      /\ \A i \in 1 .. Len(outbox'[s]) : Claims(outbox'[s][i], s) => controller' = s
                      /\ sid'[owner'[s]] = s /\ (belief'[owner'[s]] = s \/ acquiring'[owner'[s]] = "granted")
                           => controller' = s
    BY DEF BeliefInv
  <2>1. owner[s] \in Guis /\ Attended(s) /\ ~leaving'[owner[s]]
    BY <1>2, <1>3 DEF Attended, ServerTypeOK
  <2>2. ASSUME NEW i \in 1 .. Len(inbox'[s])
        PROVE  inbox'[s][i] # "release"
    <3>1. CASE s # c
      BY <1>6, <2>1, <3>1 DEF BeliefInv
    <3>2. CASE s = c
      <4>1. type # "release"
        BY <1>1, <1>2, <2>1, <3>2
      <4>2. inbox'[s] = IF c \in up THEN Append(inbox[c], type) ELSE inbox[c]
        BY <1>1, <1>4, <3>2 DEF ServerTypeOK
      <4>3. \A k \in 1 .. Len(inbox[c]) : inbox[c][k] # "release"
        BY <2>1, <3>2 DEF BeliefInv
      <4> QED
        BY <1>5, <2>2, <4>1, <4>2, <4>3
    <3> QED
      BY <3>1, <3>2
  <2>3. \A i \in 1 .. Len(outbox'[s]) : Claims(outbox'[s][i], s) => controller' = s
    BY <1>3, <2>1 DEF BeliefInv
  <2>4. sid'[owner'[s]] = s /\ (belief'[owner'[s]] = s \/ acquiring'[owner'[s]] = "granted") => controller' = s
    BY <1>2, <1>3, <2>1 DEF BeliefInv
  <2> QED
    BY <2>2, <2>3, <2>4
<1> QED
  BY <1>2, <1>7, <1>8, <1>9

(* It makes a connection.                                                  *)
LEMMA OpenNet ==
  ASSUME NetInv, TaskTypes, NEW g \in Guis, OpenTunnel(g)
  PROVE  NetInv'
<1> USE DEF NetInv
<1>1. PICK s \in Sessions : Connect(s, g) /\ conn' = Set(conn, g, s)
  BY DEF OpenTunnel
<1>2. /\ session[s] = "new" /\ session' = [session EXCEPT ![s] = "dialled"]
      /\ owner' = [owner EXCEPT ![s] = g] /\ up' = up \cup {s}
      /\ UNCHANGED <<grace, controller, inbox, outbox>>
  BY <1>1 DEF Connect
<1>3. dial[g] = "tunnel" /\ dial' = Set(dial, g, "hello") /\ UNCHANGED <<sid, belief, leaving, acquiring>>
  BY DEF OpenTunnel
<1>4. conn[g] = None /\ sid[g] = None /\ g # None /\ s # None
  BY <1>3, NoneIsNone DEF ConnectionInv, GuiTypes
<1>5. GuiTypes' /\ conn'[g] = s /\ \A h \in Guis \ {g} : conn'[h] = conn[h]
  BY <1>1, <1>3 DEF GuiTypes, Set
<1>6. \A h \in Guis : conn[h] # s
  BY <1>2, <1>4 DEF ConnectionInv
<1>7. inbox[s] = <<>> /\ outbox[s] = <<>> /\ s \notin up
  BY <1>2 DEF SessionInv, ServerTypeOK
<1>8. owner'[s] = g /\ session'[s] = "dialled"
      /\ \A t \in Sessions \ {s} : owner'[t] = owner[t] /\ session'[t] = session[t]
  BY <1>2 DEF ServerTypeOK
<1>9. ServerTypeOK' /\ SessionInv'
  BY <1>1, ConnectTypes
<1>10. HeldInv'
  <2> SUFFICES ASSUME NEW t \in up', owner'[t] # None PROVE conn'[owner'[t]] = t
    BY DEF HeldInv
  <2>1. CASE t = s
    BY <1>5, <1>8, <2>1
  <2>2. CASE t # s
    <3>1. t \in up /\ t \in Sessions /\ owner'[t] = owner[t] /\ t # None
      BY <1>2, <1>8, <2>2, NoneIsNone DEF ServerTypeOK
    <3>2. conn[owner[t]] = t /\ owner[t] \in Guis
      BY <3>1 DEF HeldInv, ServerTypeOK
    <3> QED
      BY <1>4, <1>5, <3>1, <3>2
  <2> QED
    BY <2>1, <2>2
<1>11. \A h \in Guis \ {g} : dial'[h] = dial[h]
  BY <1>3 DEF Set
<1>12. ConnectionInv'
  <2> SUFFICES ASSUME NEW h \in Guis
               PROVE  /\ conn'[h] # None => owner'[conn'[h]] = h /\ session'[conn'[h]] # "new"
                      /\ sid'[h] \in {None, conn'[h]}
                      /\ dial'[h] \in {"ssh", "tunnel"} => conn'[h] = None
    BY DEF ConnectionInv
  <2>1. CASE h = g
    <3>1. dial'[g] = "hello"
      BY <1>3 DEF Set, TaskTypes
    <3> QED
      BY <1>3, <1>4, <1>5, <1>8, <2>1, <3>1
  <2>2. CASE h # g
    <3>1. conn'[h] = conn[h] /\ conn[h] \in Sessions \cup {None} /\ conn[h] # s /\ dial'[h] = dial[h]
      BY <1>5, <1>6, <1>11, <2>2 DEF GuiTypes
    <3> QED
      BY <1>3, <1>8, <3>1 DEF ConnectionInv
  <2> QED
    BY <2>1, <2>2
<1>13. HelloInv'
  <2> SUFFICES ASSUME NEW h \in Guis, dial'[h] = "hello", conn'[h] # None
               PROVE  /\ outbox'[conn'[h]] # <<>> => Head(outbox'[conn'[h]]).type = "hello"
                      /\ session'[conn'[h]] = "open" /\ conn'[h] \in up' => outbox'[conn'[h]] # <<>>
    BY DEF HelloInv
  <2>1. CASE h = g
    BY <1>2, <1>5, <1>7, <1>8, <2>1
  <2>2. CASE h # g
    <3>1. conn'[h] = conn[h] /\ conn[h] \in Sessions /\ conn[h] # s /\ dial[h] = "hello"
      BY <1>5, <1>6, <1>11, <2>2 DEF GuiTypes
    <3> QED
      BY <1>2, <1>8, <3>1, NoneIsNone DEF HelloInv
  <2> QED
    BY <2>1, <2>2
<1>14. BeliefInv'
  <2> SUFFICES ASSUME NEW t \in Sessions, Attended(t)'
               PROVE  /\ \A i \in 1 .. Len(inbox'[t]) : inbox'[t][i] # "release"
                      /\ \A i \in 1 .. Len(outbox'[t]) : Claims(outbox'[t][i], t) => controller' = t
                      /\ sid'[owner'[t]] = t /\ (belief'[owner'[t]] = t \/ acquiring'[owner'[t]] = "granted")
                           => controller' = t
    BY DEF BeliefInv
  <2>1. CASE t = s
    BY <1>2, <1>3, <1>4, <1>7, <1>8, <2>1
  <2>2. CASE t # s
    <3>1. Attended(t) /\ owner'[t] = owner[t]
      BY <1>2, <1>3, <1>8, <2>2 DEF Attended
    <3> QED
      BY <1>2, <1>3, <3>1 DEF BeliefInv
  <2> QED
    BY <2>1, <2>2
<1> QED
  BY <1>5, <1>9, <1>10, <1>12, <1>13, <1>14

(* It reads the next message; what it then believes is from this message   *)
(* or from before.                                                         *)
LEMMA TakeNet ==
  ASSUME NetInv, NEW g \in Guis, NEW m, conn[g] # None,
         outbox[conn[g]] # <<>>, m = Head(outbox[conn[g]]),
         outbox' = Set(outbox, conn[g], Tail(outbox[conn[g]])),
         UNCHANGED <<session, grace, controller, up, inbox, owner, conn, leaving>>,
         dial'[g] = "none", \A h \in Guis \ {g} : dial'[h] = dial[h],
         GuiTypes', sid'[g] \in {None, conn[g]},
         \A h \in Guis \ {g} : sid'[h] = sid[h] /\ belief'[h] = belief[h] /\ acquiring'[h] = acquiring[h],
         sid'[g] = conn[g] /\ (belief'[g] = conn[g] \/ acquiring'[g] = "granted") =>
           \/ Claims(m, conn[g])
           \/ sid[g] = conn[g] /\ (belief[g] = conn[g] \/ acquiring[g] = "granted")
  PROVE  NetInv'
<1> USE DEF NetInv
<1> DEFINE c == conn[g]
<1>1. c \in Sessions /\ owner[c] = g /\ session[c] # "new" /\ outbox[c] \in Seq(Messages)
  BY DEF GuiTypes, ConnectionInv, ServerTypeOK
<1>2. outbox' = [outbox EXCEPT ![c] = Tail(outbox[c])] /\ m = Head(outbox[c]) /\ outbox[c] # <<>>
  BY DEF Set
<1> HIDE DEF c
<1>3. /\ m = outbox[c][1] /\ Tail(outbox[c]) \in Seq(Messages)
      /\ Len(Tail(outbox[c])) = Len(outbox[c]) - 1
      /\ \A i \in 1 .. Len(Tail(outbox[c])) : Tail(outbox[c])[i] = outbox[c][i + 1]
  BY <1>1, <1>2, RestOf
<1>4. /\ outbox' \in [Sessions -> Seq(Messages)] /\ outbox'[c] = Tail(outbox[c])
      /\ \A s \in Sessions \ {c} : outbox'[s] = outbox[s]
  BY <1>1, <1>2, <1>3 DEF ServerTypeOK
<1>5. ServerTypeOK' /\ HeldInv' /\ ConnectionInv'
  BY <1>4 DEF ServerTypeOK, HeldInv, ConnectionInv
<1>6. SessionInv'
  BY <1>1, <1>2, <1>4 DEF SessionInv
<1>7. HelloInv'
  <2> SUFFICES ASSUME NEW h \in Guis, dial'[h] = "hello", conn[h] # None
               PROVE  /\ outbox'[conn[h]] # <<>> => Head(outbox'[conn[h]]).type = "hello"
                      /\ session[conn[h]] = "open" /\ conn[h] \in up => outbox'[conn[h]] # <<>>
    BY DEF HelloInv
  <2>1. h # g /\ dial[h] = "hello" /\ conn[h] \in Sessions /\ owner[conn[h]] = h
    BY DEF GuiTypes, ConnectionInv
  <2>2. conn[h] # c
    BY <1>1, <2>1
  <2> QED
    BY <1>4, <2>1, <2>2 DEF HelloInv
<1>8. BeliefInv'
  <2> SUFFICES ASSUME NEW s \in Sessions, Attended(s)
               PROVE  /\ \A i \in 1 .. Len(inbox[s]) : inbox[s][i] # "release"
                      /\ \A i \in 1 .. Len(outbox'[s]) : Claims(outbox'[s][i], s) => controller = s
                      /\ sid'[owner[s]] = s /\ (belief'[owner[s]] = s \/ acquiring'[owner[s]] = "granted")
                           => controller = s
    BY DEF BeliefInv, Attended
  <2>1. /\ \A i \in 1 .. Len(inbox[s]) : inbox[s][i] # "release"
        /\ \A i \in 1 .. Len(outbox[s]) : Claims(outbox[s][i], s) => controller = s
        /\ sid[owner[s]] = s /\ (belief[owner[s]] = s \/ acquiring[owner[s]] = "granted")
             => controller = s
    BY DEF BeliefInv
  <2>2. CASE s # c
    <3>1. owner[s] \in Guis \ {g}
      BY <1>1, <2>2 DEF Attended, HeldInv, ServerTypeOK, c
    <3> QED
      BY <1>4, <2>1, <2>2, <3>1
  <2>3. CASE s = c
    <3>1. ASSUME NEW i \in 1 .. Len(outbox'[s]), Claims(outbox'[s][i], s)
          PROVE  controller = s
      <4>1. i \in 1 .. Len(Tail(outbox[c])) /\ outbox'[s][i] = outbox[c][i + 1]
        BY <1>3, <1>4, <2>3, <3>1
      <4>2. Len(outbox[c]) \in Nat
        BY <1>1
      <4>3. i + 1 \in 1 .. Len(outbox[c])
        BY <1>3, <4>1, <4>2
      <4> QED
        BY <2>1, <2>3, <3>1, <4>1, <4>3
    <3>2. Claims(m, s) => controller = s
      <4>1. 1 \in 1 .. Len(outbox[c])
        BY <1>1, <1>2
      <4> QED
        BY <1>3, <2>1, <2>3, <4>1
    <3> QED
      BY <1>1, <2>1, <2>3, <3>1, <3>2 DEF c
  <2> QED
    BY <2>2, <2>3
<1> QED
  BY <1>5, <1>6, <1>7, <1>8

(* The callback of acquire_control.                                        *)
LEMMA CompleteNet ==
  ASSUME NetInv, NEW g \in Guis, Complete(g)
  PROVE  NetInv'
<1> USE DEF NetInv, Complete, serverVars, taskVars
<1>1. ServerTypeOK' /\ HeldInv' /\ ConnectionInv' /\ SessionInv' /\ HelloInv'
  BY DEF ServerTypeOK, HeldInv, ConnectionInv, SessionInv, HelloInv
<1>2. GuiTypes'
  BY DEF GuiTypes, Set
<1>3. BeliefInv'
  <2>1. \A h \in Guis : /\ acquiring'[h] = "granted" => acquiring[h] = "granted"
                        /\ belief'[h] = belief[h] \/ (belief'[h] = sid[h] /\ acquiring[h] = "granted")
    BY DEF GuiTypes, Set
  <2>2. \A s \in Sessions : Attended(s)' => Attended(s) /\ owner[s] \in Guis
    BY DEF Attended, ServerTypeOK
  <2> QED
    BY <2>1, <2>2 DEF BeliefInv
<1> QED
  BY <1>1, <1>2, <1>3
-----------------------------------------------------------------------------
(* The steps of a GUI preserve the invariant.                              *)

LEMMA ShowTypes ==
  ASSUME TaskTypes, NEW g \in Guis, NEW state \in {"disconnected", "connecting", "connected", "error"},
         ShowOnly(g, state) \/ \E control \in BOOLEAN : Show(g, state, control)
  PROVE  shown' \in [Guis -> ShownType]
<1>1. shown[g] \in ShownType
  BY DEF TaskTypes
<1>2. shown[g].control \in BOOLEAN
  BY <1>1 DEF ShownType
<1>3. PICK control \in BOOLEAN : shown' = [shown EXCEPT ![g] = [state |-> state, control |-> control]]
  BY <1>2 DEF ShowOnly, Show, Set
<1>4. [state |-> state, control |-> control] \in ShownType
  BY DEF ShownType
<1> QED
  BY <1>3, <1>4 DEF TaskTypes

(* The user's disconnect preserves the invariant (remote_client.py,        *)
(* disconnect).                                                            *)
LEMMA UserDisconnectInv ==
  ASSUME RemoteInv, NEW g \in Guis, UserDisconnect(g)
  PROVE  RemoteInv'
<1> USE DEF UserDisconnect, Set
<1>1. NetInv /\ TasksInv
  BY RemoteInvParts
<1>2. CASE conn[g] = None
  <2>1. Close(g) /\ CancelReceiver(g)
    BY <1>2
  <2>2. \A h \in Guis \ {g} : dial'[h] = dial[h]
    BY <2>1 DEF CancelReceiver
  <2>3. /\ NetInv' /\ conn'[g] = None
        /\ \A h \in Guis \ {g} : conn'[h] = conn[h] /\ leaving'[h] = leaving[h]
    BY <1>1, <2>1, <2>2, CloseNet
  <2>4. TaskTypes'
    <3>1. shown' \in [Guis -> ShownType]
      BY <1>1, ShowTypes DEF TasksInv
    <3>2. retries' \in [Guis -> 0 .. Retries]
      BY <1>1, <2>1, ClientAssumption DEF TasksInv, TaskTypes, CancelReceiver
    <3>3. fresh' \in [Guis -> SUBSET {"dial", "receiver"}]
      BY <1>1 DEF TasksInv, TaskTypes
    <3> QED
      BY <1>1, <2>1, <3>1, <3>2, <3>3 DEF TasksInv, TaskTypes, CancelReceiver
  <2>5. UseInv' /\ TaskInv'
    BY <1>1, <2>1, <2>3 DEF TasksInv, TaskTypes, UseInv, TaskInv, CancelReceiver
  <2> QED
    BY <2>3, <2>4, <2>5, RemoteInvParts DEF TasksInv
<1>3. CASE conn[g] # None
  <2>1. /\ Send(g, "release") /\ leaving' = Set(leaving, g, TRUE)
        /\ UNCHANGED <<conn, sid, belief, acquiring, dial, receiver, retries>>
    BY <1>3
  <2>2. "release" \in Requests
    BY DEF Requests
  <2>3. NetInv'
    BY <1>1, <1>3, <2>1, <2>2, SendNet
  <2>4. TaskTypes'
    BY <1>1, <2>1, ShowTypes DEF TasksInv, TaskTypes
  <2>5. UseInv' /\ TaskInv'
    BY <1>1, <2>1 DEF NetInv, GuiTypes, TasksInv, TaskTypes, UseInv, TaskInv
  <2> QED
    BY <2>3, <2>4, <2>5, RemoteInvParts DEF TasksInv
<1> QED
  BY <1>2, <1>3

(* The user's request for control preserves the invariant                  *)
(* (remote_client.py, acquire_control).                                    *)
LEMMA UserAcquireInv ==
  ASSUME RemoteInv, NEW g \in Guis, UserAcquire(g)
  PROVE  RemoteInv'
<1> USE DEF UserAcquire
<1>1. NetInv /\ TasksInv
  BY RemoteInvParts
<1>2. "acquire" \in Requests
  BY DEF Requests
<1>3. NetInv'
  BY <1>1, <1>2, SendNet DEF taskVars
<1>4. TasksInv'
  BY <1>1 DEF TasksInv, TaskTypes, UseInv, TaskInv, taskVars
<1> QED
  BY <1>3, <1>4, RemoteInvParts

(* A task that begins to connect.                                          *)
LEMMA StartInv ==
  ASSUME RemoteInv, NEW g \in Guis, Start(g),
         closing' = Set(closing, g, FALSE) \/ (UNCHANGED closing /\ want[g])
  PROVE  RemoteInv'
<1> USE DEF Start, Connecting, Set
<1>1. NetInv /\ TasksInv
  BY RemoteInvParts
<1>2. \A h \in Guis \ {g} : dial'[h] = dial[h]
  OBVIOUS
<1>3. /\ NetInv' /\ conn'[g] = None
      /\ \A h \in Guis \ {g} : conn'[h] = conn[h] /\ leaving'[h] = leaving[h]
  BY <1>1, <1>2, CloseNet
<1>4. TaskTypes'
  <2>1. shown' \in [Guis -> ShownType]
    BY <1>1, ShowTypes DEF TasksInv
  <2>2. retries' \in [Guis -> 0 .. Retries]
    BY <1>1, ClientAssumption DEF TasksInv, TaskTypes
  <2>3. fresh' \in [Guis -> SUBSET {"dial", "receiver"}]
    BY <1>1 DEF TasksInv, TaskTypes
  <2> QED
    BY <1>1, <2>1, <2>2, <2>3 DEF TasksInv, TaskTypes
<1>5. UseInv'
  BY <1>1, <1>3 DEF TasksInv, TaskTypes, UseInv
<1>6. ~closing'[g]
  BY <1>1 DEF TasksInv, TaskTypes, TaskInv
<1>7. TaskInv'
  BY <1>1, <1>3, <1>6 DEF TasksInv, TaskTypes, TaskInv
<1> QED
  BY <1>3, <1>4, <1>5, <1>7, RemoteInvParts DEF TasksInv

(* Starting an attempt, by the user or by the reconnection loop, preserves *)
(* the invariant (remote_client.py, _connect).                             *)
LEMMA UserConnectInv ==
  ASSUME RemoteInv, NEW g \in Guis, UserConnect(g) \/ Dial(g)
  PROVE  RemoteInv'
<1> USE DEF UserConnect, Dial
<1>1. CASE Start(g)
  BY <1>1, StartInv
<1>2. CASE ~Start(g)
  <2>1. NetInv /\ TasksInv
    BY RemoteInvParts
  <2>2. /\ dial[g] # "none" /\ closing' = Set(closing, g, FALSE) /\ want' = Set(want, g, TRUE)
        /\ fresh' = Set(fresh, g, {})
        /\ UNCHANGED <<serverVars, guiVars, shown, dial, receiver, retries>>
    BY <1>2
  <2>3. NetInv'
    BY <2>1, <2>2, StillNet DEF NetInv, ConnectionInv
  <2>4. TaskTypes'
    BY <2>1, <2>2 DEF TasksInv, TaskTypes, Set
  <2>5. UseInv' /\ TaskInv'
    BY <2>1, <2>2 DEF TasksInv, TaskTypes, UseInv, TaskInv, Set, guiVars
  <2> QED
    BY <2>3, <2>4, <2>5, RemoteInvParts DEF TasksInv
<1> QED
  BY <1>1, <1>2

(* An attempt that ends without a connection.                              *)
LEMMA EndDialInv ==
  ASSUME RemoteInv, NEW g \in Guis, dial[g] # "none", Close(g), EndDial(g),
         UNCHANGED shown \/ ShowOnly(g, "error")
  PROVE  RemoteInv'
<1> USE DEF EndDial, Set
<1>1. NetInv /\ TasksInv
  BY RemoteInvParts
<1>2. \A h \in Guis \ {g} : dial'[h] = dial[h]
  OBVIOUS
<1>3. /\ NetInv' /\ conn'[g] = None
      /\ \A h \in Guis \ {g} : conn'[h] = conn[h] /\ leaving'[h] = leaving[h]
  BY <1>1, <1>2, CloseNet
<1>4. TaskTypes'
  <2>1. shown' \in [Guis -> ShownType]
    BY <1>1, ShowTypes DEF TasksInv, TaskTypes
  <2>2. fresh' \in [Guis -> SUBSET {"dial", "receiver"}]
    BY <1>1 DEF TasksInv, TaskTypes
  <2> QED
    BY <1>1, <2>1, <2>2 DEF TasksInv, TaskTypes
<1>5. receiver[g] # "reading"
  BY <1>1 DEF TasksInv, TaskInv
<1>6. UseInv' /\ TaskInv'
  BY <1>1, <1>3, <1>5 DEF TasksInv, TaskTypes, UseInv, TaskInv
<1> QED
  BY <1>3, <1>4, <1>6, RemoteInvParts DEF TasksInv

(* The end of the SSH command's await preserves the invariant, also when   *)
(* the attempt is no longer current.                                       *)
LEMMA SshUpInv ==
  ASSUME RemoteInv, NEW g \in Guis, SshUp(g)
  PROVE  RemoteInv'
<1>1. NetInv /\ TasksInv
  BY RemoteInvParts
<1>2. CASE Current(g)
  <2>1. /\ dial[g] = "ssh" /\ dial' = Set(dial, g, "tunnel")
        /\ UNCHANGED <<serverVars, guiVars, shown, closing, want, receiver, retries, fresh>>
    BY <1>2 DEF SshUp
  <2>2. \A h \in Guis : /\ dial'[h] \in {"ssh", "tunnel"} => conn[h] = None
                        /\ dial'[h] = "hello" => dial[h] = "hello"
    BY <1>1, <2>1 DEF NetInv, ConnectionInv, TasksInv, TaskTypes, Set
  <2>3. NetInv'
    BY <1>1, <2>1, <2>2, StillNet
  <2>4. TaskTypes'
    BY <1>1, <2>1 DEF TasksInv, TaskTypes, Set
  <2>5. UseInv' /\ TaskInv'
    BY <1>1, <2>1 DEF TasksInv, TaskTypes, UseInv, TaskInv, Set, guiVars
  <2> QED
    BY <2>3, <2>4, <2>5, RemoteInvParts DEF TasksInv
<1>3. CASE ~Current(g)
  BY <1>3, EndDialInv DEF SshUp
<1> QED
  BY <1>2, <1>3

(* Opening the stream through the tunnel preserves the invariant.          *)
LEMMA OpenTunnelInv ==
  ASSUME RemoteInv, NEW g \in Guis, OpenTunnel(g)
  PROVE  RemoteInv'
<1>1. NetInv /\ TasksInv
  BY RemoteInvParts
<1>2. /\ dial[g] = "tunnel" /\ dial' = Set(dial, g, "hello") /\ \E s \in Sessions : conn' = Set(conn, g, s)
      /\ UNCHANGED <<leaving, shown, closing, want, receiver, retries, fresh>>
  BY DEF OpenTunnel
<1>3. NetInv'
  BY <1>1, OpenNet DEF TasksInv
<1>4. TaskTypes'
  BY <1>1, <1>2 DEF TasksInv, TaskTypes, Set
<1>5. UseInv' /\ TaskInv'
  BY <1>1, <1>2 DEF NetInv, GuiTypes, TasksInv, TaskTypes, UseInv, TaskInv, Set
<1> QED
  BY <1>3, <1>4, <1>5, RemoteInvParts DEF TasksInv

(* Reading the server's hello preserves the invariant: it is where a       *)
(* client first learns who has control.                                    *)
LEMMA HelloArrivesInv ==
  ASSUME RemoteInv, NEW g \in Guis, HelloArrives(g)
  PROVE  RemoteInv'
<1>1. NetInv /\ TasksInv
  BY RemoteInvParts
<1>2. dial[g] = "hello" /\ acquiring[g] # "granted" /\ conn[g] # None /\ outbox[conn[g]] # <<>>
  BY DEF HelloArrives, Quiet
<1>3. CASE Current(g)
  <2> DEFINE m == Head(outbox[conn[g]])
  <2>1. /\ outbox' = Set(outbox, conn[g], Tail(outbox[conn[g]]))
        /\ sid' = Set(sid, g, conn[g]) /\ belief' = Set(belief, g, m.controller)
        /\ Show(g, "connected", belief'[g] = conn[g])
        /\ dial' = Set(dial, g, "none") /\ receiver' = Set(receiver, g, "reading")
        /\ retries' = Set(retries, g, 0) /\ fresh' = Set(fresh, g, {"receiver"})
        /\ UNCHANGED <<session, grace, controller, up, inbox, owner, conn, leaving, acquiring, closing, want>>
    BY <1>3 DEF HelloArrives
  <2>2. "dial" \in fresh[g]
    BY <1>3 DEF Current
  <2>3. conn[g] \in Sessions /\ m \in Messages /\ m.type = "hello"
    <3>1. conn[g] \in Sessions
      BY <1>1, <1>2 DEF NetInv, GuiTypes
    <3>2. outbox[conn[g]] \in Seq(Messages)
      BY <1>1, <3>1 DEF NetInv, ServerTypeOK
    <3>3. m \in Messages
      BY <1>2, <3>2, RestOf
    <3> QED
      BY <1>1, <1>2, <3>1, <3>3 DEF NetInv, HelloInv
  <2> HIDE DEF m
  <2>4. m.controller \in Sessions \cup {None}
    BY <2>3 DEF Messages
  <2>5. GuiTypes' /\ sid'[g] = conn[g] /\ belief'[g] = m.controller /\ dial'[g] = "none"
    BY <1>1, <2>1, <2>3, <2>4 DEF NetInv, GuiTypes, TasksInv, TaskTypes, Set
  <2>6. \A h \in Guis \ {g} :
          dial'[h] = dial[h] /\ sid'[h] = sid[h] /\ belief'[h] = belief[h] /\ acquiring'[h] = acquiring[h]
    BY <2>1 DEF Set
  <2>7. belief'[g] = conn[g] => Claims(m, conn[g])
    BY <2>3, <2>5 DEF Claims
  <2>8. NetInv'
    BY <1>1, <1>2, <2>1, <2>5, <2>6, <2>7, TakeNet DEF m
  <2>9. TaskTypes'
    <3>1. (belief'[g] = conn[g]) \in BOOLEAN
      OBVIOUS
    <3>2. shown' \in [Guis -> ShownType]
      BY <1>1, <2>1, <3>1, ShowTypes DEF TasksInv
    <3>3. retries' \in [Guis -> 0 .. Retries]
      BY <1>1, <2>1, ClientAssumption DEF TasksInv, TaskTypes, Set
    <3>4. fresh' \in [Guis -> SUBSET {"dial", "receiver"}]
      BY <1>1, <2>1 DEF TasksInv, TaskTypes, Set
    <3> QED
      BY <1>1, <2>1, <3>2, <3>3, <3>4 DEF TasksInv, TaskTypes, Set
  <2>10. UseInv' /\ TaskInv'
    BY <1>1, <2>1, <2>2 DEF TasksInv, TaskTypes, UseInv, TaskInv, Set
  <2> QED
    BY <2>8, <2>9, <2>10, RemoteInvParts DEF TasksInv
<1>4. CASE ~Current(g)
  BY <1>2, <1>4, EndDialInv DEF HelloArrives
<1> QED
  BY <1>3, <1>4

(* A failed attempt preserves the invariant.                               *)
LEMMA DialFailsInv ==
  ASSUME RemoteInv, NEW g \in Guis, DialFails(g)
  PROVE  RemoteInv'
BY EndDialInv DEF DialFails

(* The connection is left, and the receiver with it.                       *)
LEMMA LeftInv ==
  ASSUME RemoteInv, NEW g \in Guis, Close(g), CancelReceiver(g), UNCHANGED <<shown, closing, want, fresh>>
  PROVE  RemoteInv'
<1> USE DEF CancelReceiver, Set
<1>1. NetInv /\ TasksInv
  BY RemoteInvParts
<1>2. \A h \in Guis \ {g} : dial'[h] = dial[h]
  OBVIOUS
<1>3. /\ NetInv' /\ conn'[g] = None
      /\ \A h \in Guis \ {g} : conn'[h] = conn[h] /\ leaving'[h] = leaving[h]
  BY <1>1, <1>2, CloseNet
<1>4. TaskTypes'
  <2>1. retries' \in [Guis -> 0 .. Retries]
    BY <1>1, ClientAssumption DEF TasksInv, TaskTypes
  <2> QED
    BY <1>1, <2>1 DEF TasksInv, TaskTypes
<1>5. UseInv' /\ TaskInv'
  BY <1>1, <1>3 DEF TasksInv, TaskTypes, UseInv, TaskInv
<1> QED
  BY <1>3, <1>4, <1>5, RemoteInvParts DEF TasksInv

(* Reading one message preserves the invariant: the belief it leaves       *)
(* agrees with what is still under way (remote_client.py, _receive).       *)
LEMMA ReadInv ==
  ASSUME RemoteInv, NEW g \in Guis, Read(g)
  PROVE  RemoteInv'
<1>1. NetInv /\ TasksInv
  BY RemoteInvParts
<1>2. receiver[g] = "reading" /\ conn[g] # None /\ outbox[conn[g]] # <<>> /\ UNCHANGED <<closing, want, fresh>>
  BY DEF Read
<1> DEFINE m == Head(outbox[conn[g]])
<1>3. CASE m.type = "released" /\ leaving[g]
  BY <1>2, <1>3, LeftInv DEF Read
<1>4. CASE ~(m.type = "released" /\ leaving[g])
  <2>1. /\ outbox' = Set(outbox, conn[g], Tail(outbox[conn[g]]))
        /\ IF m.type = "control"
           THEN belief' = Set(belief, g, m.controller) /\ Show(g, "connected", m.controller = sid[g])
           ELSE UNCHANGED <<belief, shown>>
        /\ acquiring' = Set(acquiring, g, Resolved(g, m.type))
        /\ UNCHANGED <<session, grace, controller, up, inbox, owner, conn, sid, leaving,
                       dial, receiver, retries>>
    BY <1>4 DEF Read
  <2>2. conn[g] \in Sessions /\ m \in Messages
    <3>1. conn[g] \in Sessions
      BY <1>1, <1>2 DEF NetInv, GuiTypes
    <3>2. outbox[conn[g]] \in Seq(Messages)
      BY <1>1, <3>1 DEF NetInv, ServerTypeOK
    <3> QED
      BY <1>2, <3>1, <3>2, RestOf
  <2> HIDE DEF m
  <2>3. m.controller \in Sessions \cup {None}
    BY <2>2 DEF Messages
  <2>4. acquiring[g] \in {"none", "sent", "granted"}
    BY <1>1 DEF NetInv, GuiTypes
  <2>5. /\ Resolved(g, m.type) \in {"none", "sent", "granted"}
        /\ Resolved(g, m.type) = "granted" => acquiring[g] = "granted" \/ m.type = "granted"
    BY <2>4 DEF Resolved
  <2>6. GuiTypes' /\ acquiring'[g] = Resolved(g, m.type)
        /\ belief'[g] = IF m.type = "control" THEN m.controller ELSE belief[g]
    BY <1>1, <2>1, <2>3, <2>5 DEF NetInv, GuiTypes, Set
  <2>7. \A h \in Guis \ {g} :
          dial'[h] = dial[h] /\ sid'[h] = sid[h] /\ belief'[h] = belief[h] /\ acquiring'[h] = acquiring[h]
    <3>1. belief' = Set(belief, g, m.controller) \/ belief' = belief
      BY <2>1
    <3>2. \A h \in Guis \ {g} : belief'[h] = belief[h]
      BY <1>1, <3>1 DEF NetInv, GuiTypes, Set
    <3>3. \A h \in Guis \ {g} : acquiring'[h] = acquiring[h]
      BY <2>1 DEF Set
    <3> QED
      BY <2>1, <3>2, <3>3
  <2>8. dial'[g] = "none" /\ sid'[g] = sid[g] /\ sid'[g] \in {None, conn[g]}
    BY <1>1, <1>2, <2>1 DEF NetInv, ConnectionInv, TasksInv, TaskInv
  <2>9. sid'[g] = conn[g] /\ (belief'[g] = conn[g] \/ acquiring'[g] = "granted") =>
          \/ Claims(m, conn[g])
          \/ sid[g] = conn[g] /\ (belief[g] = conn[g] \/ acquiring[g] = "granted")
    BY <2>5, <2>6, <2>8 DEF Claims
  <2>10. NetInv'
    BY <1>1, <1>2, <2>1, <2>6, <2>7, <2>8, <2>9, TakeNet DEF m
  <2>11. TaskTypes'
    <3>1. (m.controller = sid[g]) \in BOOLEAN
      OBVIOUS
    <3>2. shown' \in [Guis -> ShownType]
      BY <1>1, <2>1, <3>1, ShowTypes DEF TasksInv, TaskTypes
    <3> QED
      BY <1>1, <1>2, <2>1, <3>2 DEF TasksInv, TaskTypes
  <2>12. UseInv' /\ TaskInv'
    BY <1>1, <1>2, <2>1 DEF TasksInv, UseInv, TaskInv
  <2> QED
    BY <2>10, <2>11, <2>12, RemoteInvParts DEF TasksInv
<1> QED
  BY <1>3, <1>4

(* The callback of an answered acquire_control preserves the invariant.    *)
LEMMA CompleteInv ==
  ASSUME RemoteInv, NEW g \in Guis, Complete(g)
  PROVE  RemoteInv'
<1>1. NetInv /\ TasksInv
  BY RemoteInvParts
<1>2. NetInv'
  BY <1>1, CompleteNet
<1>3. TaskTypes'
  <2>1. TRUE \in BOOLEAN
    OBVIOUS
  <2>2. shown' \in [Guis -> ShownType]
    BY <1>1, <2>1, ShowTypes DEF Complete, TasksInv
  <2> QED
    BY <1>1, <2>2 DEF Complete, taskVars, TasksInv, TaskTypes
<1>4. UseInv' /\ TaskInv'
  BY <1>1 DEF Complete, taskVars, TasksInv, UseInv, TaskInv
<1> QED
  BY <1>2, <1>3, <1>4, RemoteInvParts DEF TasksInv

(* Noticing that the connection is lost preserves the invariant.           *)
LEMMA LostInv ==
  ASSUME RemoteInv, NEW g \in Guis, Lost(g)
  PROVE  RemoteInv'
<1> USE DEF Lost
<1>1. NetInv /\ TasksInv
  BY RemoteInvParts
<1>2. CASE "receiver" \in fresh[g]
  <2>1. /\ Close(g) /\ ShowOnly(g, "disconnected") /\ UNCHANGED <<closing, want, dial, fresh>>
        /\ receiver' = Set(receiver, g, "retrying") /\ retries' = Set(retries, g, Retries)
    BY <1>2 DEF GoesOn
  <2>2. /\ NetInv' /\ conn'[g] = None
        /\ \A h \in Guis \ {g} : conn'[h] = conn[h] /\ leaving'[h] = leaving[h]
    BY <1>1, <2>1, CloseNet
  <2>3. TaskTypes'
    <3>1. shown' \in [Guis -> ShownType]
      BY <1>1, <2>1, ShowTypes DEF TasksInv
    <3>2. retries' \in [Guis -> 0 .. Retries]
      BY <1>1, <2>1, ClientAssumption DEF TasksInv, TaskTypes, Set
    <3> QED
      BY <1>1, <2>1, <3>1, <3>2 DEF TasksInv, TaskTypes, Set
  <2>4. receiver'[g] = "retrying" /\ \A h \in Guis \ {g} : receiver'[h] = receiver[h]
    BY <1>1, <2>1 DEF TasksInv, TaskTypes, Set
  <2>5. UseInv'
    BY <1>1, <2>1, <2>2, <2>4 DEF TasksInv, UseInv
  <2>6. TaskInv'
    BY <1>1, <2>1, <2>2, <2>4 DEF TasksInv, TaskInv
  <2> QED
    BY <2>2, <2>3, <2>5, <2>6, RemoteInvParts DEF TasksInv
<1>3. CASE "receiver" \notin fresh[g]
  <2>1. /\ receiver' = Set(receiver, g, "none")
        /\ UNCHANGED <<serverVars, guiVars, shown, retries, closing, want, dial, fresh>>
    BY <1>3
  <2>2. leaving[g]
    BY <1>1, <1>3 DEF TasksInv, TaskInv
  <2>3. NetInv'
    BY <1>1, <2>1, StillNet DEF NetInv, ConnectionInv
  <2>4. TaskTypes'
    BY <1>1, <2>1 DEF TasksInv, TaskTypes, Set
  <2>5. UseInv' /\ TaskInv'
    BY <1>1, <2>1, <2>2 DEF TasksInv, TaskTypes, UseInv, TaskInv, Set, guiVars
  <2> QED
    BY <2>3, <2>4, <2>5, RemoteInvParts DEF TasksInv
<1> QED
  BY <1>2, <1>3

(* A round of the reconnection loop preserves the invariant.               *)
LEMMA RetryInv ==
  ASSUME RemoteInv, NEW g \in Guis, Retry(g)
  PROVE  RemoteInv'
<1> USE DEF Retry
<1>1. NetInv /\ TasksInv
  BY RemoteInvParts
<1>2. CASE "receiver" \in fresh[g] /\ retries[g] > 0
  <2>1. /\ Close(g) /\ ShowOnly(g, "connecting") /\ dial' = Set(dial, g, "ssh")
        /\ retries' = Set(retries, g, retries[g] - 1) /\ fresh' = Set(fresh, g, {"dial", "receiver"})
        /\ UNCHANGED <<closing, want, receiver>>
    BY <1>2 DEF Connecting
  <2>2. receiver[g] = "retrying" /\ ~closing[g]
    BY <1>1, <1>2 DEF TasksInv, TaskInv
  <2>3. \A h \in Guis \ {g} : dial'[h] = dial[h]
    BY <2>1 DEF Set
  <2>4. /\ NetInv' /\ conn'[g] = None
        /\ \A h \in Guis \ {g} : conn'[h] = conn[h] /\ leaving'[h] = leaving[h]
    BY <1>1, <2>1, <2>3, CloseNet
  <2>5. TaskTypes'
    <3>1. shown' \in [Guis -> ShownType]
      BY <1>1, <2>1, ShowTypes DEF TasksInv
    <3>2. retries' \in [Guis -> 0 .. Retries]
      BY <1>1, <1>2, <2>1, ClientAssumption DEF TasksInv, TaskTypes, Set
    <3>3. fresh' \in [Guis -> SUBSET {"dial", "receiver"}]
      BY <1>1, <2>1 DEF TasksInv, TaskTypes, Set
    <3> QED
      BY <1>1, <2>1, <3>1, <3>2, <3>3 DEF TasksInv, TaskTypes, Set
  <2>6. UseInv' /\ TaskInv'
    BY <1>1, <2>1, <2>2, <2>4 DEF TasksInv, TaskTypes, UseInv, TaskInv, Set
  <2> QED
    BY <2>4, <2>5, <2>6, RemoteInvParts DEF TasksInv
<1>3. CASE ~("receiver" \in fresh[g] /\ retries[g] > 0)
  <2>1. /\ receiver[g] = "retrying"
        /\ receiver' = Set(receiver, g, "none") /\ retries' = Set(retries, g, 0)
        /\ UNCHANGED <<serverVars, guiVars, shown, closing, want, dial, fresh>>
    BY <1>3
  <2>2. NetInv'
    BY <1>1, <2>1, StillNet DEF NetInv, ConnectionInv
  <2>3. TaskTypes'
    <3>1. retries' \in [Guis -> 0 .. Retries]
      BY <1>1, <2>1, ClientAssumption DEF TasksInv, TaskTypes, Set
    <3> QED
      BY <1>1, <2>1, <3>1 DEF TasksInv, TaskTypes, Set
  <2>4. UseInv' /\ TaskInv'
    BY <1>1, <2>1 DEF TasksInv, TaskTypes, UseInv, TaskInv, Set, guiVars
  <2> QED
    BY <2>2, <2>3, <2>4, RemoteInvParts DEF TasksInv
<1> QED
  BY <1>2, <1>3

(* Every step of a client and its user preserves the invariant.            *)
LEMMA GuiStepInv ==
  ASSUME RemoteInv, NEW g \in Guis, User(g) \/ ClientStep(g)
  PROVE  RemoteInv'
BY UserConnectInv, UserDisconnectInv, UserAcquireInv, SshUpInv, OpenTunnelInv, HelloArrivesInv,
   DialFailsInv, ReadInv, CompleteInv, LostInv, RetryInv, LeftInv
   DEF User, ClientStep, ReleaseTimesOut

(* Every step of the agent's server preserves the invariant.               *)
LEMMA AgentStepInv ==
  ASSUME RemoteInv, Agent
  PROVE  RemoteInv'
<1>1. NetInv /\ TasksInv
  BY RemoteInvParts
<1>2. NetInv'
  BY <1>1, ServerOK, ServerNet DEF Agent, taskVars
<1>3. TasksInv'
  BY <1>1 DEF Agent, taskVars, guiVars, TasksInv, TaskTypes, UseInv, TaskInv
<1> QED
  BY <1>2, <1>3, RemoteInvParts

(* The system starts in the invariant.                                     *)
LEMMA RemoteInitInv == RemoteInit => RemoteInv
<1> SUFFICES ASSUME RemoteInit PROVE RemoteInv
  OBVIOUS
<1> USE DEF RemoteInit, ServerInit
<1>1. ServerTypeOK
  BY ServerAssumption DEF ServerTypeOK
<1>2. GuiTypes /\ HeldInv /\ ConnectionInv /\ SessionInv /\ HelloInv /\ UseInv /\ TaskInv
  BY DEF GuiTypes, HeldInv, ConnectionInv, SessionInv, HelloInv, UseInv, TaskInv
<1>3. BeliefInv
  BY DEF BeliefInv, Attended
<1>4. TaskTypes
  <2>1. [state |-> "disconnected", control |-> FALSE] \in ShownType
    BY DEF ShownType
  <2> QED
    BY <2>1, ClientAssumption DEF TaskTypes
<1> QED
  BY <1>1, <1>2, <1>3, <1>4, RemoteInvParts DEF NetInv, TasksInv

(* Every step preserves the invariant.                                     *)
LEMMA RemoteNextInv == RemoteInv /\ [RemoteNext]_remoteVars => RemoteInv'
<1>1. ASSUME RemoteInv, UNCHANGED remoteVars PROVE RemoteInv'
  <2>1. NetInv /\ TasksInv
    BY <1>1, RemoteInvParts
  <2>2. NetInv'
    BY <1>1, <2>1, StillNet DEF remoteVars, taskVars, NetInv, ConnectionInv
  <2>3. TasksInv'
    BY <1>1, <2>1 DEF remoteVars, taskVars, guiVars, TasksInv, TaskTypes, UseInv, TaskInv
  <2> QED
    BY <2>2, <2>3, RemoteInvParts
<1> QED
  BY <1>1, GuiStepInv, AgentStepInv DEF RemoteNext
-----------------------------------------------------------------------------
(* The inductive invariant holds in every reachable state.                 *)
THEOREM RemoteInvHolds == RemoteSpec => []RemoteInv
BY RemoteInitInv, RemoteNextInv, PTL DEF RemoteSpec

(* The state of the server and of every GUI stays in its types; a          *)
(* connection that is up is the one its GUI holds, and a GUI holds one     *)
(* only while it dials, reads or leaves (remote_client.py, server.py).     *)
THEOREM RemoteTypesHold == RemoteSpec => []RemoteTypeOK
<1>1. RemoteInv => RemoteTypeOK
  BY DEF RemoteInv
<1> QED
  BY <1>1, RemoteInvHolds, PTL

(* A GUI that believes it has control, over a connection that works and    *)
(* that its user has not asked to close, has it, for any number of GUIs    *)
(* and connections (remote_client.py:188, 253; server.py:136-151).         *)
THEOREM BelievedControlIsHeldHolds == RemoteSpec => []BelievedControlIsHeld
<1>1. RemoteInv => BelievedControlIsHeld
  <2> SUFFICES ASSUME RemoteInv, NEW g \in Guis, sid[g] # None, belief[g] = sid[g], sid[g] \in up, ~leaving[g]
               PROVE  controller = sid[g]
    BY DEF BelievedControlIsHeld
  <2>1. NetInv
    BY RemoteInvParts
  <2>2. sid[g] = conn[g] /\ conn[g] \in Sessions /\ owner[conn[g]] = g /\ g # None
    BY <2>1, NoneIsNone DEF NetInv, ConnectionInv, GuiTypes
  <2>3. Attended(sid[g])
    BY <2>2 DEF Attended
  <2> QED
    BY <2>1, <2>2, <2>3 DEF NetInv, BeliefInv
<1> QED
  BY <1>1, RemoteInvHolds, PTL

(* When the user has disconnected and the tasks are done, no connection is *)
(* left open, however many attempts were under way and however many times  *)
(* the connection was lost (remote_client.py:110-149).                     *)
THEOREM NothingOpenAfterDisconnectHolds == RemoteSpec => []NothingOpenAfterDisconnect
<1>1. RemoteInv => NothingOpenAfterDisconnect
  <2> SUFFICES ASSUME RemoteInv, NEW g \in Guis, closing[g], dial[g] = "none", ~leaving[g]
               PROVE  conn[g] = None /\ \A s \in up : owner[s] # g
    BY DEF NothingOpenAfterDisconnect
  <2>1. NetInv /\ TasksInv
    BY RemoteInvParts
  <2>2. receiver[g] # "reading"
    BY <2>1 DEF TasksInv, TaskInv
  <2>3. conn[g] = None
    BY <2>1, <2>2 DEF TasksInv, UseInv
  <2>4. ASSUME NEW s \in up, owner[s] = g PROVE FALSE
    <3>1. s \in Sessions /\ conn[g] = s
      BY <2>1, <2>4, NoneIsNone DEF NetInv, ServerTypeOK, HeldInv
    <3> QED
      BY <2>3, <3>1, NoneIsNone
  <2> QED
    BY <2>3, <2>4
<1> QED
  BY <1>1, RemoteInvHolds, PTL
-----------------------------------------------------------------------------
(* The server implements the lease.                                        *)

present == {s \in Sessions : session[s] = "open"}
left == IF Unattended THEN grace[controller] ELSE 0

Waits == left > 0 /\ left' = left - 1 /\ UNCHANGED <<controller, present>>

Lapses ==
  /\ controller # None /\ controller \notin present /\ left = 0 /\ controller' = None
  /\ UNCHANGED <<present, left>>

(* What a step means for session s, where it is not a stutter.             *)
LeaseStep(s) ==
  \/ s \notin present /\ present' = present \cup {s} /\ UNCHANGED <<controller, left>>
  \/ s \in present /\ controller = None /\ controller' = s /\ UNCHANGED <<present, left>>
  \/ s \in present /\ controller = s /\ controller' = None /\ UNCHANGED <<present, left>>
  \/ /\ s \in present /\ present' = present \ {s}
     /\ left' = IF controller = s THEN GracePeriod ELSE left
     /\ UNCHANGED controller

LeaseOrStutter ==
  \/ \E s \in Sessions : LeaseStep(s)
  \/ Waits \/ Lapses
  \/ UNCHANGED <<controller, present, left>>

(* The lease's next-state relation, under the refinement mapping.          *)
LEMMA LeaseOrStutterIsLease == LeaseOrStutter <=> [Lease!LeaseNext]_(Lease!leaseVars)
BY DEF LeaseOrStutter, LeaseStep, Waits, Lapses, present, left,
       Lease!LeaseNext, Lease!leaseVars, Lease!Come, Lease!Take, Lease!Give, Lease!Leave, Lease!Wait, Lease!Lapse

(* A step that opens or closes no session and leaves the lease alone.      *)
LEMMA QuietLease ==
  ASSUME ServerTypeOK, UNCHANGED <<controller, grace>>, session' \in [Sessions -> {"new", "dialled", "open", "closed", "gone"}],
         \A s \in Sessions : session'[s] # session[s] =>
           session[s] # "open" /\ session'[s] # "open" /\ controller # s
  PROVE  UNCHANGED <<controller, present, left>>
<1>1. present' = present
  BY DEF present
<1>2. left' = left
  BY DEF left, Unattended, ServerTypeOK
<1> QED
  BY <1>1, <1>2

(* Every step of the server is a step of the lease, or leaves it alone.    *)
LEMMA ServerLease ==
  ASSUME ServerTypeOK, (\E s \in Sessions : ServerStep(s) \/ Environment(s)) \/ PassTime
  PROVE  LeaseOrStutter
<1>1. ASSUME NEW s \in Sessions, Greet(s) PROVE LeaseOrStutter
  <2>1. controller # s /\ session[s] = "dialled" /\ session' = [session EXCEPT ![s] = "open"]
        /\ UNCHANGED <<controller, grace>>
    BY <1>1, NoneIsNone DEF Greet, ServerTypeOK
  <2>2. s \notin present /\ present' = present \cup {s}
    BY <2>1 DEF present, ServerTypeOK
  <2>3. left' = left
    BY <2>1 DEF left, Unattended, ServerTypeOK
  <2> QED
    BY <2>1, <2>2, <2>3 DEF LeaseOrStutter, LeaseStep
<1>2. ASSUME NEW s \in Sessions, Acquire(s) PROVE LeaseOrStutter
  <2>1. s \in present /\ UNCHANGED <<session, grace>> /\ controller' \in {s, controller}
        /\ (controller' # controller => controller = None)
    BY <1>2 DEF Acquire, Request, FreeFor, present
  <2>2. UNCHANGED present
    BY <2>1 DEF present
  <2>3. left' = left
    BY <2>1 DEF left, Unattended, present
  <2> QED
    BY <2>1, <2>2, <2>3 DEF LeaseOrStutter, LeaseStep
<1>3. ASSUME NEW s \in Sessions, Release(s) PROVE LeaseOrStutter
  <2>1. s \in present /\ UNCHANGED <<session, grace>> /\ controller' \in {None, controller}
        /\ (controller' # controller => controller = s)
    BY <1>3 DEF Release, Request, present
  <2>2. UNCHANGED present
    BY <2>1 DEF present
  <2>3. left' = left
    BY <2>1 DEF left, Unattended, present
  <2> QED
    BY <2>1, <2>2, <2>3 DEF LeaseOrStutter, LeaseStep
<1>4. ASSUME NEW s \in Sessions, Disconnect(s) PROVE LeaseOrStutter
  <2>1. /\ session[s] \in {"dialled", "open"} /\ UNCHANGED controller
        /\ session' = [session EXCEPT ![s] = IF controller = s THEN "closed" ELSE "gone"]
        /\ grace' = [grace EXCEPT ![s] = IF controller = s THEN GracePeriod ELSE 0]
    BY <1>4 DEF Disconnect, Afterwards
  <2>2. present' = present \ {s}
    BY <2>1 DEF present, ServerTypeOK
  <2>3. CASE controller = s
    <3>1. session[s] = "open" /\ s \in present
      BY <2>1, <2>3, NoneIsNone DEF ServerTypeOK, present
    <3>2. left' = GracePeriod
      BY <2>1, <2>3, NoneIsNone DEF left, Unattended, ServerTypeOK
    <3> QED
      BY <2>1, <2>2, <2>3, <3>1, <3>2 DEF LeaseOrStutter, LeaseStep
  <2>4. CASE controller # s
    <3>1. left' = left
      BY <2>1, <2>4 DEF left, Unattended, ServerTypeOK
    <3> QED
      BY <2>1, <2>2, <2>4, <3>1 DEF LeaseOrStutter, LeaseStep
  <2> QED
    BY <2>3, <2>4
<1>5. ASSUME NEW s \in Sessions, Expire(s) PROVE LeaseOrStutter
  <2>1. /\ session[s] = "closed" /\ grace[s] = 0 /\ session' = [session EXCEPT ![s] = "gone"]
        /\ controller' = (IF controller = s THEN None ELSE controller) /\ UNCHANGED grace
    BY <1>5 DEF Expire, Cleared
  <2>2. present' = present /\ s \notin present
    BY <2>1 DEF present, ServerTypeOK
  <2>3. CASE controller = s
    <3>1. left = 0 /\ left' = 0
      BY <2>1, <2>3, NoneIsNone DEF left, Unattended
    <3> QED
      BY <2>1, <2>2, <2>3, <3>1, NoneIsNone DEF LeaseOrStutter, Lapses
  <2>4. CASE controller # s
    <3>1. left' = left
      BY <2>1, <2>4 DEF left, Unattended, ServerTypeOK
    <3> QED
      BY <2>1, <2>2, <2>4, <3>1 DEF LeaseOrStutter
  <2> QED
    BY <2>3, <2>4
<1>6. CASE PassTime
  <2>1. /\ UNCHANGED <<session, controller>>
        /\ grace' = [s \in Sessions |-> IF grace[s] > 0 THEN grace[s] - 1 ELSE 0]
    BY <1>6 DEF PassTime
  <2>2. UNCHANGED present
    BY <2>1 DEF present
  <2>3. CASE left > 0
    <3>1. Unattended /\ controller \in Sessions /\ left = grace[controller]
      BY <2>3 DEF left, Unattended, ServerTypeOK
    <3>2. left' = left - 1
      BY <2>1, <2>3, <3>1 DEF left, Unattended
    <3> QED
      BY <2>1, <2>2, <2>3, <3>2 DEF LeaseOrStutter, Waits
  <2>4. CASE ~(left > 0)
    <3>1. left' = left
      BY <2>1, <2>4 DEF left, Unattended, ServerTypeOK
    <3> QED
      BY <2>1, <2>2, <3>1 DEF LeaseOrStutter
  <2> QED
    BY <2>3, <2>4
<1>7. ASSUME NEW s \in Sessions, Environment(s) PROVE LeaseOrStutter
  <2>1. /\ UNCHANGED <<controller, grace>>
        /\ session' = session \/ (session[s] = "new" /\ session' = [session EXCEPT ![s] = "dialled"])
    BY <1>7 DEF Environment, Break, Connect, OtherRequest
  <2>2. UNCHANGED <<controller, present, left>>
    BY <2>1, QuietLease, NoneIsNone DEF ServerTypeOK
  <2> QED
    BY <2>2 DEF LeaseOrStutter
<1> QED
  BY <1>1, <1>2, <1>3, <1>4, <1>5, <1>6, <1>7 DEF ServerStep

(* The GUIs only ever make connections.                                    *)
LEMMA GuiLease ==
  ASSUME ServerTypeOK, NEW g \in Guis, User(g) \/ ClientStep(g)
  PROVE  LeaseOrStutter
<1>1. UNCHANGED <<controller, grace>>
  BY DEF User, ClientStep, UserConnect, UserDisconnect, UserAcquire, Dial, SshUp, OpenTunnel, HelloArrives,
         DialFails, Read, Complete, Lost, Retry, ReleaseTimesOut, Start, Connecting, Close, Send, Connect,
         serverVars
<1>2. session' = session \/ \E s \in Sessions : session[s] = "new" /\ session' = [session EXCEPT ![s] = "dialled"]
  BY DEF User, ClientStep, UserConnect, UserDisconnect, UserAcquire, Dial, SshUp, OpenTunnel, HelloArrives,
         DialFails, Read, Complete, Lost, Retry, ReleaseTimesOut, Start, Connecting, Close, Send, Connect,
         serverVars
<1>3. UNCHANGED <<controller, present, left>>
  BY <1>1, <1>2, QuietLease, NoneIsNone DEF ServerTypeOK
<1> QED
  BY <1>3 DEF LeaseOrStutter

(* "Only one GUI can own control", and "another client cannot take control *)
(* until the disconnected lease expires" (gui/README.md:152, 161): every   *)
(* step of the server and of any number of GUIs is a step of the lease or  *)
(* none, for every grace period (server.py:104-128, 136-151).              *)
THEOREM ServerImplementsLease ==
  RemoteSpec => Lease!LeaseInit /\ [][Lease!LeaseNext]_(Lease!leaseVars)
<1>1. RemoteInit => Lease!LeaseInit
  BY DEF RemoteInit, ServerInit, Lease!LeaseInit, Unattended
<1>2. RemoteInv /\ [RemoteNext]_remoteVars => [Lease!LeaseNext]_(Lease!leaseVars)
  <2> SUFFICES ASSUME RemoteInv, [RemoteNext]_remoteVars PROVE LeaseOrStutter
    BY LeaseOrStutterIsLease
  <2>1. ServerTypeOK
    BY DEF RemoteInv, RemoteTypeOK
  <2>2. CASE UNCHANGED remoteVars
    BY <2>2 DEF remoteVars, serverVars, LeaseOrStutter, present, left, Unattended
  <2>3. CASE \E g \in Guis : User(g) \/ ClientStep(g)
    BY <2>1, <2>3, GuiLease
  <2>4. CASE Agent
    BY <2>1, <2>4, ServerLease DEF Agent
  <2> QED
    BY <2>2, <2>3, <2>4 DEF RemoteNext
<1> QED
  BY <1>1, <1>2, RemoteInvHolds, PTL DEF RemoteSpec

-----------------------------------------------------------------------------
(* The jobs of the agent and the host they run on: AgentRuntime.           *)

(* Only a start launches anything.                                         *)
KindInv ==
  \A j \in Jobs :
    job[j].at \in {"yolo_run", "yolo_wait", "launch", "ready_wait"} => job[j].kind = "start"

(* A job that is still alone runs beside no start.                         *)
AloneInv ==
  \A j, k \in Jobs : Running(j) /\ job[j].alone /\ k # j => ~Starting(k)

(* What a job that is alone leaves behind at each command of its clean-up, *)
(* it leaves because of the failures recorded so far.                      *)
UnitStopped(x) == Forced(x) \/ "stop_host" \in x.failed
LeavesUnit(x) ==
  /\ x.at = "kill_host" => UnitStopped(x)
  /\ x.at \in {"stop_yolo", "kill_yolo"} => UnitMayStay(x)
LeavesContainer(x) == x.at = "kill_yolo" => Forced(x) \/ "stop_yolo" \in x.failed

StoppedInv ==
  \A j \in Jobs : job[j].alone =>
    (host = "active" => LeavesUnit(job[j])) /\ (container => LeavesContainer(job[j]))

AgentInv == AgentTypeOK /\ KindInv /\ AloneInv /\ StoppedInv

JobType == [kind : Kinds, at : Stages, yolo : BOOLEAN, restored : BOOLEAN,
            alone : BOOLEAN, failed : SUBSET Failures, ok : BOOLEAN]
-----------------------------------------------------------------------------
(* An agent that starts, whether or not a run of an earlier agent is under *)
(* way, satisfies the invariant.                                           *)
LEMMA AgentInitInv == AgentInit => AgentInv
<1> SUFFICES ASSUME AgentInit PROVE AgentInv
  OBVIOUS
<1>1. NewJob \in JobType /\ NewJob.at = "new"
  BY DEF NewJob, JobType, Kinds, Stages
<1>2. job \in [Jobs -> JobType] /\ \A j \in Jobs : job[j].at = "new"
  BY <1>1 DEF AgentInit
<1>3. AgentTypeOK
  BY <1>2 DEF AgentInit, AgentTypeOK, JobType, RunActive
<1> QED
  BY <1>2, <1>3 DEF AgentInv, KindInv, AloneInv, StoppedInv, LeavesUnit, LeavesContainer, Running

(* What the submission of a job writes.                                    *)
LEMMA SubmittedJob ==
  ASSUME job \in [Jobs -> JobType], NEW j \in Jobs, NEW kind \in Kinds, NEW yolo \in BOOLEAN,
         Submit(j, kind, yolo)
  PROVE  /\ job' \in [Jobs -> JobType]
         /\ job[j].at = "new"
         /\ job'[j].kind = kind /\ job'[j].at \in {"check", "kill_host", "call"}
         /\ job'[j].at = "kill_host" => kind = "force_stop_all"
         /\ job'[j].alone => \A k \in Jobs : ~Starting(k)
         /\ \A i \in Jobs \ {j} :
              /\ job'[i].kind = job[i].kind /\ job'[i].at = job[i].at
              /\ job'[i].failed = job[i].failed
              /\ job'[i].alone => job[i].alone /\ kind # "start"
<1> DEFINE stage == CASE kind \in {"start", "stop_all"} -> "check"
                      [] kind = "force_stop_all" -> "kill_host"
                      [] OTHER -> "call"
           none == \A k \in Jobs : ~Starting(k)
           new == [NewJob EXCEPT !.kind = kind, !.yolo = yolo, !.at = stage, !.alone = none]
<1>1. NewJob \in JobType
  BY DEF NewJob, JobType, Kinds, Stages
<1>2. job' = [i \in Jobs |-> IF i = j THEN new ELSE [job[i] EXCEPT !.alone = @ /\ kind # "start"]]
  BY DEF Submit
<1>3. /\ stage \in {"check", "kill_host", "call"} /\ none \in BOOLEAN
      /\ stage = "kill_host" => kind = "force_stop_all"
  OBVIOUS
<1> HIDE DEF stage, none
<1>4. new \in JobType /\ new.kind = kind /\ new.at = stage /\ new.alone = none
  <2>1. PICK old \in JobType : old = NewJob
    BY <1>1
  <2>2. stage \in Stages
    BY <1>3 DEF Stages, Cleaning
  <2> QED
    BY <1>3, <2>1, <2>2 DEF JobType
<1>5. ASSUME NEW i \in Jobs \ {j}
      PROVE  /\ job'[i] \in JobType
             /\ job'[i].kind = job[i].kind /\ job'[i].at = job[i].at
             /\ job'[i].failed = job[i].failed
             /\ job'[i].alone => job[i].alone /\ kind # "start"
  <2>1. job'[i] = [job[i] EXCEPT !.alone = @ /\ kind # "start"] /\ job[i] \in JobType
    BY <1>2
  <2> QED
    BY <2>1 DEF JobType
<1> HIDE DEF new
<1>6. job' \in [Jobs -> JobType]
  BY <1>2, <1>4, <1>5
<1>7. job'[j].kind = kind /\ job'[j].at = stage /\ job'[j].alone = none
  BY <1>2, <1>4
<1>8. job[j].at = "new"
  BY DEF Submit
<1> QED
  BY <1>3, <1>5, <1>6, <1>7, <1>8 DEF none

(* A new command starts a job in its first stage; it is alone only if no   *)
(* start is under way (server.py, _handle).                                *)
LEMMA SubmitInv ==
  ASSUME AgentInv, NEW j \in Jobs, NEW kind \in Kinds, NEW yolo \in BOOLEAN, Submit(j, kind, yolo)
  PROVE  AgentInv'
<1> USE DEF AgentInv, AgentTypeOK, JobType
<1>1. UNCHANGED <<hostVars, statusVars>>
  BY DEF Submit
<1>2. /\ job' \in [Jobs -> JobType]
      /\ job[j].at = "new"
      /\ job'[j].kind = kind /\ job'[j].at \in {"check", "kill_host", "call"}
      /\ job'[j].at = "kill_host" => kind = "force_stop_all"
      /\ job'[j].alone => \A k \in Jobs : ~Starting(k)
      /\ \A i \in Jobs \ {j} :
           /\ job'[i].kind = job[i].kind /\ job'[i].at = job[i].at
           /\ job'[i].failed = job[i].failed
           /\ job'[i].alone => job[i].alone /\ kind # "start"
  BY SubmittedJob
<1>3. AgentTypeOK'
  BY <1>1, <1>2 DEF hostVars, statusVars, RunActive
<1>4. KindInv'
  BY <1>2 DEF KindInv
<1>5. AloneInv'
  BY <1>2 DEF AloneInv, Running, Starting
<1>6. StoppedInv'
  BY <1>1, <1>2
     DEF StoppedInv, LeavesUnit, LeavesContainer, UnitStopped, UnitMayStay, Forced, hostVars
<1> QED
  BY <1>3, <1>4, <1>5, <1>6
-----------------------------------------------------------------------------
(* What every step of a job keeps, and what it may do: only a start makes  *)
(* the unit active or the container run, and what the job itself leaves    *)
(* behind it has failed to end.                                            *)
Kept(j) ==
  /\ job' \in [Jobs -> JobType]
  /\ Running(j)
  /\ \A i \in Jobs \ {j} : job'[i] = job[i]
  /\ job'[j].at # "done" => job'[j].kind = job[j].kind /\ job'[j].alone = job[j].alone

LaunchesOK(j) ==
  job'[j].at \in {"yolo_run", "yolo_wait", "launch", "ready_wait"} => job[j].kind = "start"

OnlyStarts(j) ==
  /\ host' = "active" => host = "active" \/ Starting(j)
  /\ container' => container \/ Starting(j)

Leaves(j) ==
  job[j].alone =>
    (host' = "active" => LeavesUnit(job'[j])) /\ (container' => LeavesContainer(job'[j]))

HostOK(j) == OnlyStarts(j) /\ Leaves(j)

JobStepOK(j) == Kept(j) /\ LaunchesOK(j) /\ HostOK(j) /\ AgentTypeOK'

(* A job that goes to a stage changes nothing else of itself.              *)
LEMMA ToKeeps ==
  ASSUME AgentTypeOK, NEW j \in Jobs, Running(j), NEW stage \in Stages, To(j, stage)
  PROVE  Kept(j) /\ job'[j].at = stage
BY DEF AgentTypeOK, To, Kept, JobType

(* An answer ends a job.                                                   *)
LEMMA AnswerKeeps ==
  ASSUME AgentTypeOK, NEW j \in Jobs, Running(j), NEW success \in BOOLEAN, Answer(j, success)
  PROVE  Kept(j) /\ job'[j].at = "done" /\ job'[j].ok = success
<1>1. PICK new \in JobType : new = NewJob
  BY DEF NewJob, JobType, Kinds, Stages
<1>2. "done" \in Stages
  BY DEF Stages
<1>3. [[new EXCEPT !.at = "done"] EXCEPT !.ok = success] \in JobType
  BY <1>1, <1>2 DEF JobType
<1> QED
  BY <1>1, <1>3 DEF AgentTypeOK, Answer, Kept, JobType

(* The next command of a clean-up.                                         *)
LEMMA GoOnKeeps ==
  ASSUME AgentTypeOK, NEW j \in Jobs, Running(j), NEW stage \in Stages,
         NEW failures \in SUBSET Failures, GoOn(j, stage, failures)
  PROVE  Kept(j) /\ job'[j].at = stage /\ job'[j].failed = job[j].failed \cup failures
<1>1. PICK old \in JobType : old = job[j]
  BY DEF AgentTypeOK, JobType
<1>2. [[old EXCEPT !.at = stage] EXCEPT !.failed = old.failed \cup failures] \in JobType
  BY <1>1 DEF JobType
<1> QED
  BY <1>1, <1>2 DEF AgentTypeOK, GoOn, Kept, JobType

(* The commands of a start.                                                *)
LEMMA StartSteps ==
  ASSUME AgentInv, NEW j \in Jobs, NEW ok \in BOOLEAN,
         \/ StartCheck(j) \/ LaunchedLate(j) \/ AwaitReady(j) \/ NotReady(j)
         \/ RunYolo(j, ok) \/ AwaitYolo(j, ok) \/ Launch(j, ok)
  PROVE  JobStepOK(j)
<1> USE DEF AgentInv, hostVars, statusVars
<1>1. Running(j) /\ Starting(j)
  BY DEF StartCheck, LaunchedLate, AwaitReady, NotReady, RunYolo, AwaitYolo, Launch,
         Running, Starting, KindInv
<1>2. /\ {"yolo_run", "launch", "yolo_wait", "ready_wait", "stop_host"} \subseteq Stages
      /\ TRUE \in BOOLEAN /\ FALSE \in BOOLEAN
  BY DEF Stages, Cleaning
<1>3. \/ \E stage \in Stages : stage \notin {"kill_host", "stop_yolo", "kill_yolo"} /\ To(j, stage)
      \/ \E success \in BOOLEAN : Answer(j, success)
  BY <1>2 DEF StartCheck, LaunchedLate, AwaitReady, NotReady, RunYolo, AwaitYolo, Launch
<1>4. Kept(j) /\ job'[j].at \notin {"kill_host", "stop_yolo", "kill_yolo"}
  BY <1>1, <1>3, ToKeeps, AnswerKeeps
<1>5. LaunchesOK(j) /\ HostOK(j)
  BY <1>1, <1>4 DEF LaunchesOK, HostOK, OnlyStarts, Leaves, LeavesUnit, LeavesContainer, Starting
<1>6. container' \in BOOLEAN /\ joints' \in BOOLEAN /\ host' \in {host, "active"}
      /\ (host' # host => host = "off")
      /\ UNCHANGED <<spawned, arms, cache, service>>
  BY DEF StartCheck, LaunchedLate, AwaitReady, NotReady, RunYolo, AwaitYolo, Launch, AgentTypeOK
<1>7. AgentTypeOK'
  BY <1>4, <1>6 DEF AgentTypeOK, Kept, JobType, RunActive
<1> QED
  BY <1>4, <1>5, <1>7 DEF JobStepOK

(* The commands of a stop before it touches the unit, the services, and a  *)
(* command that raises.                                                    *)
LEMMA AskingSteps ==
  ASSUME AgentInv, NEW j \in Jobs, NEW outcome,
         \/ Raise(j) \/ StopCheck(j) \/ StopDecide(j) \/ AwaitRestored(j)
         \/ Call(j, outcome) \/ StopMotion(j, outcome)
  PROVE  JobStepOK(j)
<1> USE DEF AgentInv, hostVars, statusVars
<1> DEFINE Calm == {"decide", "motion", "stop_host", "restore_wait", "done"}
<1>1. Running(j)
  BY DEF Raise, StopCheck, StopDecide, AwaitRestored, Call, StopMotion, Running
<1>2. Calm \subseteq Stages
  BY DEF Stages, Cleaning
<1>3. \/ \E stage \in Calm : To(j, stage)
      \/ \E success \in BOOLEAN : Answer(j, success)
      \/ \E answer \in BOOLEAN : job' = [job EXCEPT ![j].at = "restore_wait", ![j].restored = answer]
      \/ job[j].at = "restore_wait" /\ \E answer \in BOOLEAN : job' = [job EXCEPT ![j].restored = answer]
  BY DEF Raise, StopCheck, StopDecide, AwaitRestored, Call, StopMotion
<1>4. Kept(j) /\ job'[j].at \in Calm
  <2>1. PICK old \in JobType : old = job[j]
    BY DEF AgentTypeOK, JobType
  <2>2. CASE \E stage \in Calm : To(j, stage)
    BY <1>1, <1>2, <2>2, ToKeeps
  <2>3. CASE \E success \in BOOLEAN : Answer(j, success)
    BY <1>1, <2>3, AnswerKeeps
  <2>4. CASE \E answer \in BOOLEAN : job' = [job EXCEPT ![j].at = "restore_wait", ![j].restored = answer]
    <3>1. PICK answer \in BOOLEAN : job' = [job EXCEPT ![j].at = "restore_wait", ![j].restored = answer]
      BY <2>4
    <3>2. [[old EXCEPT !.at = "restore_wait"] EXCEPT !.restored = answer] \in JobType
      BY <1>2, <2>1 DEF JobType
    <3> QED
      BY <1>1, <2>1, <3>1, <3>2 DEF AgentTypeOK, Kept, JobType
  <2>5. CASE job[j].at = "restore_wait" /\ \E answer \in BOOLEAN : job' = [job EXCEPT ![j].restored = answer]
    BY <1>1, <1>2, <2>1, <2>5 DEF AgentTypeOK, Kept, JobType
  <2> QED
    BY <1>3, <2>2, <2>3, <2>4, <2>5
<1>5. UNCHANGED <<host, container, spawned, statusVars>>
  BY DEF Raise, StopCheck, StopDecide, AwaitRestored, Call, StopMotion
<1>6. arms' = arms \/ (spawned /\ arms' \in {"rest", "tracking", "stopping"})
  BY DEF Raise, StopCheck, StopDecide, AwaitRestored, Call, StopMotion, Tracking, Reached
<1>7. LaunchesOK(j) /\ HostOK(j)
  BY <1>4, <1>5 DEF LaunchesOK, HostOK, OnlyStarts, Leaves, LeavesUnit, LeavesContainer
<1>8. AgentTypeOK'
  BY <1>4, <1>5, <1>6 DEF AgentTypeOK, Kept, JobType, RunActive
<1> QED
  BY <1>4, <1>7, <1>8 DEF JobStepOK

(* What the two commands on the unit may do to it.                         *)
HostMoves ==
  \/ UNCHANGED <<host, spawned, arms>>
  \/ host' \in {"off", "deactivating"} /\ spawned' = FALSE /\ arms' = "rest"

(* They keep the types.                                                    *)
LEMMA HostMovesTypes ==
  ASSUME AgentTypeOK, HostMoves, UNCHANGED <<container, statusVars>>, job' \in [Jobs -> JobType]
  PROVE  AgentTypeOK'
<1> USE DEF HostMoves, AgentTypeOK, statusVars
<1>1. host' \in {"off", "active", "deactivating"}
  OBVIOUS
<1>2. spawned' \in BOOLEAN /\ (spawned' => RunActive')
  <2>1. CASE UNCHANGED <<host, spawned>>
    BY <2>1 DEF RunActive
  <2>2. CASE spawned' = FALSE
    BY ONLY <2>2, Zenon
  <2> QED
    BY <2>1, <2>2
<1>3. arms' \in {"rest", "tracking", "stopping"} /\ (arms' # "rest" => spawned')
  OBVIOUS
<1>4. container' \in BOOLEAN /\ cache' \in {"none", "trajectory", "tracking"}
      /\ service' \in BOOLEAN /\ joints' \in BOOLEAN
  OBVIOUS
<1> QED
  BY ONLY <1>1, <1>2, <1>3, <1>4, job' \in [Jobs -> JobType] DEF AgentTypeOK, JobType

(* systemctl stop: if the unit is still active, stopping it failed.        *)
LEMMA StopHostStep ==
  ASSUME AgentInv, NEW j \in Jobs, NEW outcome, StopHost(j, outcome)
  PROVE  JobStepOK(j)
<1> DEFINE failures == IF outcome = "failed" /\ RunActive THEN {"stop_host"} ELSE {}
<1>1. Running(j) /\ AgentTypeOK
  BY DEF StopHost, Running, AgentInv
<1>2. "kill_host" \in Stages /\ failures \in SUBSET Failures
  BY DEF Stages, Cleaning, Failures
<1>3. GoOn(j, "kill_host", failures)
  BY DEF StopHost
<1>4. Kept(j) /\ job'[j].at = "kill_host" /\ job'[j].failed = job[j].failed \cup failures
  BY <1>1, <1>2, <1>3, GoOnKeeps
<1>5. HostMoves /\ UNCHANGED <<container, statusVars>>
  BY DEF StopHost, HostDown, HostMoves
<1>6. host' = "active" => host = "active" /\ "stop_host" \in job'[j].failed
  BY <1>4, Zenon DEF StopHost, HostDown, RunActive
<1>7. LaunchesOK(j) /\ HostOK(j)
  BY <1>4, <1>5, <1>6
     DEF LaunchesOK, HostOK, OnlyStarts, Leaves, LeavesUnit, LeavesContainer, UnitStopped
<1>8. AgentTypeOK'
  BY <1>1, <1>4, <1>5, HostMovesTypes DEF Kept
<1> QED
  BY <1>4, <1>7, <1>8 DEF JobStepOK

(* SIGKILL: if the unit is still active, stopping and killing it failed,   *)
(* or the query before.                                                    *)
LEMMA KillHostStep ==
  ASSUME AgentInv, NEW j \in Jobs, NEW active, NEW ok \in BOOLEAN, KillHost(j, active, ok)
  PROVE  JobStepOK(j)
<1> DEFINE stage == IF job[j].kind = "force_stop_all" THEN "kill_yolo" ELSE "stop_yolo"
           failures == IF RunActive /\ ~active THEN {"is_active"}
                       ELSE IF RunActive /\ ~ok THEN {"kill_host"} ELSE {}
<1>1. Running(j) /\ AgentTypeOK
  BY DEF KillHost, Running, AgentInv
<1>2. stage \in Stages /\ failures \in SUBSET Failures
  BY DEF Stages, Cleaning, Failures
<1>3. GoOn(j, stage, failures)
  BY DEF KillHost
<1>4. Kept(j) /\ job'[j].at = stage /\ job'[j].failed = job[j].failed \cup failures
  BY <1>1, <1>2, <1>3, GoOnKeeps
<1>5. HostMoves /\ UNCHANGED <<container, statusVars>>
  BY DEF KillHost, HostDown, HostMoves
<1>6. job[j].at = "kill_host" /\ job'[j].at # "done" /\ job'[j].at # "kill_host"
  BY <1>4 DEF KillHost
<1>7. host' = "active" => host = "active" /\ failures # {}
  BY DEF KillHost, HostDown, ToKill, RunActive, IsActive
<1>8. job[j].alone /\ host' = "active" => LeavesUnit(job'[j])
  <2> SUFFICES ASSUME job[j].alone, host' = "active" PROVE UnitMayStay(job'[j])
    BY <1>6 DEF LeavesUnit
  <2>1. UnitStopped(job[j])
    BY <1>6, <1>7 DEF AgentInv, StoppedInv, LeavesUnit
  <2>2. UnitStopped(job'[j])
    BY <1>4, <1>6, <2>1 DEF UnitStopped, Forced, Kept
  <2>3. "is_active" \in job'[j].failed \/ "kill_host" \in job'[j].failed
    BY <1>4, <1>7
  <2> QED
    BY <2>2, <2>3 DEF UnitStopped, UnitMayStay
<1>9. LeavesContainer(job'[j])
  BY <1>4, <1>6 DEF LeavesContainer, Forced, Kept
<1>10. LaunchesOK(j) /\ HostOK(j)
  BY <1>4, <1>5, <1>7, <1>8, <1>9 DEF LaunchesOK, HostOK, OnlyStarts, Leaves
<1>11. AgentTypeOK'
  BY <1>1, <1>4, <1>5, HostMovesTypes DEF Kept
<1> QED
  BY <1>4, <1>10, <1>11 DEF JobStepOK

(* docker stop: if the container still runs, it failed.                    *)
LEMMA StopYoloStep ==
  ASSUME AgentInv, NEW j \in Jobs, NEW ok \in BOOLEAN, StopYolo(j, ok)
  PROVE  JobStepOK(j)
<1> DEFINE failures == IF container /\ ~ok THEN {"stop_yolo"} ELSE {}
<1>1. Running(j) /\ AgentTypeOK
  BY DEF StopYolo, Running, AgentInv
<1>2. "kill_yolo" \in Stages /\ failures \in SUBSET Failures
  BY DEF Stages, Cleaning, Failures
<1>3. GoOn(j, "kill_yolo", failures)
  BY DEF StopYolo
<1>4. Kept(j) /\ job'[j].at = "kill_yolo" /\ job'[j].failed = job[j].failed \cup failures
  BY <1>1, <1>2, <1>3, GoOnKeeps
<1>5. /\ job[j].at = "stop_yolo" /\ UNCHANGED <<host, spawned, arms, statusVars>>
      /\ container' \in BOOLEAN /\ (container' => container /\ ~ok)
  BY DEF StopYolo
<1>6. job[j].alone /\ host' = "active" => LeavesUnit(job'[j])
  <2> SUFFICES ASSUME job[j].alone, host' = "active" PROVE UnitMayStay(job'[j])
    BY <1>4 DEF LeavesUnit
  <2>1. UnitMayStay(job[j])
    BY <1>5 DEF AgentInv, StoppedInv, LeavesUnit
  <2> QED
    BY <1>4, <2>1 DEF UnitMayStay, Forced, Kept
<1>7. container' => LeavesContainer(job'[j])
  BY <1>4, <1>5 DEF LeavesContainer
<1>8. LaunchesOK(j) /\ HostOK(j)
  BY <1>4, <1>5, <1>6, <1>7 DEF LaunchesOK, HostOK, OnlyStarts, Leaves
<1>9. AgentTypeOK'
  BY <1>1, <1>4, <1>5 DEF AgentTypeOK, Kept, JobType, RunActive, statusVars
<1> QED
  BY <1>4, <1>8, <1>9 DEF JobStepOK

(* docker kill, the last command.                                          *)
LEMMA KillYoloStep ==
  ASSUME AgentInv, NEW j \in Jobs, NEW seen, NEW ok \in BOOLEAN, KillYolo(j, seen, ok)
  PROVE  JobStepOK(j)
<1>1. Running(j) /\ AgentTypeOK
  BY DEF KillYolo, Running, AgentInv
<1>2. (job[j].kind # "start") \in BOOLEAN
  OBVIOUS
<1>3. Kept(j) /\ job'[j].at = "done"
  BY <1>1, <1>2, AnswerKeeps DEF KillYolo
<1>4. /\ UNCHANGED <<host, spawned, arms, statusVars>>
      /\ container' \in BOOLEAN /\ (container' => container)
  BY DEF KillYolo
<1>5. LaunchesOK(j) /\ HostOK(j)
  BY <1>3, <1>4 DEF LaunchesOK, HostOK, OnlyStarts, Leaves, LeavesUnit, LeavesContainer
<1>6. AgentTypeOK'
  BY <1>1, <1>3, <1>4 DEF AgentTypeOK, Kept, JobType, RunActive, statusVars
<1> QED
  BY <1>3, <1>5, <1>6 DEF JobStepOK

(* Steps of a job preserve the invariant.                                  *)
LEMMA JobStepInv ==
  ASSUME AgentInv, NEW j \in Jobs, JobStep(j)
  PROVE  AgentInv'
<1>1. JobStepOK(j)
  BY StartSteps, AskingSteps, StopHostStep, KillHostStep, StopYoloStep, KillYoloStep DEF JobStep
<1> USE <1>1 DEF AgentInv, JobStepOK, Kept
<1>2. KindInv'
  BY DEF KindInv, LaunchesOK
<1>3. AloneInv'
  <2>1. \A k \in Jobs : Starting(k)' => Starting(k)
    BY DEF Starting, Running
  <2>2. \A k \in Jobs : Running(k)' => Running(k) /\ job'[k].alone = job[k].alone
    BY DEF Running
  <2> QED
    BY <2>1, <2>2 DEF AloneInv
<1>4. StoppedInv'
  <2> SUFFICES ASSUME NEW k \in Jobs, job'[k].alone
               PROVE  /\ host' = "active" => LeavesUnit(job'[k])
                      /\ container' => LeavesContainer(job'[k])
    BY DEF StoppedInv
  <2>1. CASE job'[k].at \in {"new", "done"}
    BY <2>1 DEF LeavesUnit, LeavesContainer
  <2>2. CASE k = j /\ job'[k].at # "done"
    BY <2>2 DEF HostOK, Leaves
  <2>3. CASE k # j /\ job'[k].at \notin {"new", "done"}
    <3>1. job'[k] = job[k] /\ Running(k)
      BY <2>3 DEF Running
    <3>2. ~Starting(j)
      BY <2>3, <3>1 DEF AloneInv
    <3>3. (host' = "active" => host = "active") /\ (container' => container)
      BY <3>2 DEF HostOK, OnlyStarts
    <3> QED
      BY <3>1, <3>3 DEF StoppedInv
  <2> QED
    BY <2>1, <2>2, <2>3
<1> QED
  BY <1>2, <1>3, <1>4

(* So do the status thread and the machine, which make no unit active.     *)
LEMMA EnvironmentInv ==
  ASSUME AgentInv, StatusThread \/ Machine
  PROVE  AgentInv'
<1> USE DEF AgentInv, hostVars, statusVars, StatusThread, Machine, QueryControllers, PollGraph,
            ReceiveJoints, JointsStale, Spawn, HostEnds, YoloExits, ArmsRest
<1>1. UNCHANGED job /\ host' \in {host, "off"} /\ (container' => container)
  <2>1. UNCHANGED job
    OBVIOUS
  <2>2. host' \in {host, "off"}
    OBVIOUS
  <2>3. UNCHANGED container \/ container' = FALSE
    OBVIOUS
  <2>4. container' => container
    BY <2>3, Zenon
  <2> QED
    BY <2>1, <2>2, <2>4
<1>2. AgentTypeOK'
  <2>1. host' \in {"off", "active", "deactivating"}
    BY <1>1 DEF AgentTypeOK
  <2>2. cache' \in {"none", "trajectory", "tracking"}
    BY DEF AgentTypeOK
  <2>3. arms' \in {"rest", "tracking", "stopping"}
    BY DEF AgentTypeOK
  <2>4. service' \in BOOLEAN
    BY DEF AgentTypeOK, RunActive
  <2>5. joints' \in BOOLEAN
    BY DEF AgentTypeOK
  <2>6. container' \in BOOLEAN
    BY DEF AgentTypeOK
  <2>7. spawned' \in BOOLEAN
    BY DEF AgentTypeOK
  <2>8. spawned' => host' = "active"
    BY DEF AgentTypeOK, RunActive
  <2>9. arms' # "rest" => spawned'
    BY DEF AgentTypeOK
  <2> QED
    BY ONLY AgentInv, <1>1, <2>1, <2>2, <2>3, <2>4, <2>5, <2>6, <2>7, <2>8, <2>9 DEF AgentTypeOK, RunActive
<1>3. KindInv' /\ AloneInv' /\ StoppedInv'
  BY <1>1 DEF KindInv, AloneInv, StoppedInv, Running, Starting
<1> QED
  BY <1>2, <1>3

(* Every step of a job, of the host and of the status thread preserves the *)
(* invariant.                                                              *)
LEMMA AgentNextInv == AgentInv /\ [AgentNext]_agentVars => AgentInv'
<1>1. ASSUME AgentInv, UNCHANGED agentVars PROVE AgentInv'
  BY <1>1 DEF AgentInv, agentVars, hostVars, statusVars, AgentTypeOK, KindInv, AloneInv, StoppedInv,
              Running, Starting, RunActive
<1> QED
  BY <1>1, SubmitInv, JobStepInv, EnvironmentInv DEF AgentNext
-----------------------------------------------------------------------------
(* The inductive invariant holds in every reachable state.                 *)
THEOREM AgentInvHolds == AgentSpec => []AgentInv
BY AgentInitInv, AgentNextInv, PTL DEF AgentSpec

(* Every variable of the agent stays in its type, and the arms move only   *)
(* under a host whose controllers are up (runtime.py).                     *)
THEOREM AgentTypesHold == AgentSpec => []AgentTypeOK
BY AgentInvHolds, PTL DEF AgentInv

(* The last command of the clean-up ends a job by an answer or raises.     *)
LEMMA LastCommand ==
  ASSUME AgentInv, [AgentNext]_agentVars, NEW j \in Jobs,
         job[j].at = "kill_yolo", job'[j].at = "done"
  PROVE  UNCHANGED host /\ (container' => container)
<1>1. Running(j) /\ job'[j] # job[j]
  BY DEF Running
<1>2. ~UNCHANGED job
  BY <1>1
<1>3. ~(StatusThread \/ Machine)
  BY <1>2 DEF StatusThread, Machine, QueryControllers, PollGraph, ReceiveJoints, JointsStale,
              Spawn, HostEnds, YoloExits, ArmsRest
<1>4. ASSUME NEW i \in Jobs, NEW kind \in Kinds, NEW yolo \in BOOLEAN, Submit(i, kind, yolo)
      PROVE  FALSE
  BY <1>1, <1>4, SubmittedJob DEF AgentInv, AgentTypeOK, JobType, Running
<1>5. PICK i \in Jobs : JobStep(i)
  BY <1>2, <1>3, <1>4 DEF AgentNext, agentVars
<1>6. JobStepOK(i)
  BY <1>5, StartSteps, AskingSteps, StopHostStep, KillHostStep, StopYoloStep, KillYoloStep
     DEF JobStep
<1>7. i = j
  BY <1>1, <1>6 DEF JobStepOK, Kept
<1>8. (\E seen, ok \in BOOLEAN : KillYolo(j, seen, ok)) \/ Raise(j)
  BY <1>5, <1>7 DEF JobStep, StartCheck, LaunchedLate, AwaitReady, NotReady, StopCheck, StopDecide,
                    AwaitRestored, KillHost, RunYolo, AwaitYolo, Launch, StopYolo, Call, StopMotion,
                    StopHost
<1>9. CASE \E seen, ok \in BOOLEAN : KillYolo(j, seen, ok)
  BY <1>9 DEF KillYolo
<1>10. CASE Raise(j)
  BY <1>10 DEF Raise, hostVars
<1> QED
  BY <1>8, <1>9, <1>10

(* No single failure of its commands defeats _stop_managed_processes, for  *)
(* any number of jobs under way, if no start ran meanwhile: the unit       *)
(* outlives it only if stopping it failed and then the query or the kill,  *)
(* the container only if docker stop failed too (runtime.py:550-572).      *)
THEOREM NothingLeftActiveHolds == AgentSpec => NothingLeftActive
<1>1. AgentInv /\ [AgentNext]_agentVars =>
        [\A j \in Jobs :
           job[j].at = "kill_yolo" /\ job'[j].at = "done" /\ job[j].alone =>
             /\ host' = "active" => UnitMayStay(job[j])
             /\ job'[j].ok /\ container' => Forced(job[j]) \/ "stop_yolo" \in job[j].failed
        ]_agentVars
  <2> SUFFICES ASSUME AgentInv, [AgentNext]_agentVars, NEW j \in Jobs,
                      job[j].at = "kill_yolo", job'[j].at = "done", job[j].alone
               PROVE  /\ host' = "active" => UnitMayStay(job[j])
                      /\ container' => Forced(job[j]) \/ "stop_yolo" \in job[j].failed
    OBVIOUS
  <2>1. UNCHANGED host /\ (container' => container)
    BY LastCommand
  <2> QED
    BY <2>1 DEF AgentInv, StoppedInv, LeavesUnit, LeavesContainer
<1> QED
  BY <1>1, AgentInvHolds, PTL DEF AgentSpec, NothingLeftActive

=============================================================================
