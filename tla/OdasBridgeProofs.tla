-------------------------- MODULE OdasBridgeProofs --------------------------
(***************************************************************************)
(* The bridge keeps its types, pairs only messages of one hop as long as   *)
(* the first snapshot of a connection is well formed, and publishes as     *)
(* PairedTopics promises, for every value of the constants.                *)
(*                                                                         *)
(* The pairs of one thread are published in two steps outside the lock.    *)
(* The argument that the other thread cannot complete a pair meanwhile is  *)
(* PublishInv: it would need an ordinal that the publishing stream has     *)
(* reached, and the pair under way is the last of those.                   *)
(***************************************************************************)
EXTENDS OdasBridge, PairCoordinatorProofs

-----------------------------------------------------------------------------
(* The inductive invariant.                                                *)

(* A thread that serves a connection has its token, and has read nothing   *)
(* of it before the barrier.                                               *)
Serving == {"barrier", "recv", "submit", "send", "publish_sss", "publish_sst"}

ThreadOf(s) ==
  /\ pc[s] \in {"accept", "done"} => conn[s] = 0
  /\ pc[s] \in Serving \cup {"register"} => conn[s] # 0
  /\ connToken[s] # NoToken <=> conn[s] # 0 /\ pc[s] # "register"
  /\ conn[s] = 0 \/ pc[s] \in {"register", "barrier"} => read[s] = 0
  /\ pc[s] \in {"submit", "send"} => read[s] # 0

ThreadInv == \A s \in Streams : ThreadOf(s)

(* A token of the session is that of the connection being served, or was   *)
(* left behind by a server that was stopped.  As long as the other stream  *)
(* has none, nothing has been read.                                        *)
TokenOf(s) ==
  session.token[s] # NoToken =>
    /\ pc[s] \notin {"register", "close_own", "close_peer"}
    /\ session.token[s] = connToken[s] \/ (stopped[s] /\ pc[s] \in {"accept", "done"})
    /\ ~Full(session) =>
         /\ read[s] = 0
         /\ pc[s] = "barrier" \/ (stopped[s] /\ pc[s] \in {"recv", "accept", "done"})

Unstarted == ~Full(session) => session.nextSssOrdinal = 1 /\ session.baseline = None

TokenInv == Unstarted /\ \A s \in Streams : TokenOf(s)

(* The last ordinal of stream s in session ss.                             *)
Reached(ss, s) == IF s = "sss" THEN ss.nextSssOrdinal - 1 ELSE SstOrdinal(ss)

(* A pair that is not yet published is the last one.  Its thread has       *)
(* submitted nothing since, so its stream has reached no later ordinal,    *)
(* and no session has started.                                             *)
PublishOf(s) ==
  PairUnderWay(s) =>
    /\ events[s] \in PairEvents
    /\ events[s].gen = lastPaired.gen /\ events[s].ordinal = lastPaired.ordinal
    /\ lastPaired.gen = generation
    /\ pairedEnabled
    /\ ~PairUnderWay(Other(s))
    /\ session.token[s] # NoToken =>
         session.validated /\ Reached(session, s) = lastPaired.ordinal

PublishInv == \A s \in Streams : PublishOf(s)

(* Where the topics are against the last pair.                             *)
AloneInv ==
  \A s \in Streams : ~topic[s].paired \/ pc[s] = "send" => ~pairedEnabled

LastPublished ==
  rosOk /\ Abstract!Paired =>
    /\ topic["sss"].gen <= lastPaired.gen
    /\ topic["sss"].gen = lastPaired.gen => topic["sss"].ordinal <= lastPaired.ordinal
    /\ (\A s \in Streams : pc[s] # "publish_sst") =>
         Abstract!SamePair(topic["sss"], topic["sst"])

NextPublished ==
  rosOk => \A s \in Streams :
    /\ pc[s] = "publish_sss" => Abstract!EarlierPair(topic["sss"], lastPaired)
    /\ pc[s] = "publish_sst" => /\ Abstract!SamePair(topic["sss"], lastPaired)
                                /\ Abstract!EarlierPair(topic["sst"], lastPaired)

TopicInv == AloneInv /\ LastPublished /\ NextPublished

(* Connections are served in the order of their launches, and what was     *)
(* published alone is older than what is still to be read.                 *)
OlderThanBacklog(r, s) == \A i \in DOMAIN backlog[s] : r < backlog[s][i]

Increasing(q) == \A i, j \in DOMAIN q : i < j => q[i] < q[j]

PublishedBefore(m, s) ==
  /\ m \in Messages /\ m.launch \in opened[s]
  /\ OlderThanBacklog(m.launch, s)
  /\ conn[s] # 0 => \/ m.launch < conn[s]
                    \/ /\ m.launch = conn[s]
                       /\ m.hop <= read[s]
                       /\ pc[s] = "send" => m.hop < read[s]

OrderOf(s) ==
  /\ opened[s] \subseteq 1 .. launch
  /\ conn[s] # 0 => conn[s] \in opened[s]
  /\ \A i \in DOMAIN backlog[s] : backlog[s][i] \in opened[s]
  /\ OlderThanBacklog(conn[s], s)
  /\ Increasing(backlog[s])
  /\ ~topic[s].paired => PublishedBefore(topic[s].item, s)

OrderInv == \A s \in Streams : OrderOf(s)

BridgeInv ==
  /\ BridgeTypeOK /\ CoordInv /\ ThreadInv /\ TokenInv
  /\ PublishInv /\ TopicInv /\ OrderInv

-----------------------------------------------------------------------------
(* What a submission does to the session.                                  *)

(* The session keeps all but its counters, and loses pending entries only. *)
Keeps(ss) ==
  /\ session'.token = ss.token
  /\ session'.nextSssOrdinal = ss.nextSssOrdinal
  /\ session'.baseline = ss.baseline /\ session'.lastSst = ss.lastSst
  /\ \A r \in Streams : \A j \in DOMAIN session'.pending[r] :
       j \in DOMAIN ss.pending[r] /\ session'.pending[r][j] = ss.pending[r][j]

Waits(s, ss) ==
  /\ Keeps(ss) /\ session'.validated = ss.validated
  /\ Return(s, NoEvent)
  /\ UNCHANGED <<generation, nextToken, pairedEnabled, lastPaired>>

Completes(s, k, ss) ==
  /\ Keeps(ss) /\ session'.validated = TRUE
  /\ \A r \in Streams : k \in DOMAIN ss.pending[r]
  /\ lastPaired'.gen = generation /\ lastPaired'.ordinal = k
  /\ events'[s].type = "pair"
  /\ events'[s].gen = generation /\ events'[s].ordinal = k
  /\ events'[s].sss = ss.pending["sss"][k].item
  /\ events'[s].sst = ss.pending["sst"][k].item
  /\ \A r \in Streams \ {s} : events'[r] = events[r]
  /\ UNCHANGED <<generation, nextToken, pairedEnabled>>

(* What the purge and the bound leave was pending before.                  *)
LEMMA DrainedSubmap ==
  ASSUME NEW pending, NEW s \in Streams, NEW rt
  PROVE  \A r \in Streams : \A j \in DOMAIN Drained(pending, s, rt)[r] :
           j \in DOMAIN pending[r] /\ Drained(pending, s, rt)[r][j] = pending[r][j]
<1> DEFINE fresh == [r \in Streams |-> Without(pending[r], Expired(pending[r], rt))]
<1>1. \A r \in Streams : \A j \in DOMAIN fresh[r] :
        j \in DOMAIN pending[r] /\ fresh[r][j] = pending[r][j]
  BY DEF Without
<1>2. DOMAIN fresh = Streams
  OBVIOUS
<1>3. Drained(pending, s, rt) = [fresh EXCEPT ![s] = Without(fresh[s], Surplus(fresh[s]))]
  BY DEF Drained
<1> HIDE DEF fresh
<1>4. \A j \in DOMAIN Without(fresh[s], Surplus(fresh[s])) :
        j \in DOMAIN fresh[s] /\ Without(fresh[s], Surplus(fresh[s]))[j] = fresh[s][j]
  BY DEF Without
<1> QED
  BY <1>1, <1>2, <1>3, <1>4

(* The three ends of an arrival.                                           *)
LEMMA SettleOutcome ==
  ASSUME NEW s \in Streams, NEW k \in Nat \ {0}, NEW ss, IsSession(ss), NEW rt \in Nat,
         events \in [Streams -> Events], Settle(s, k, ss, rt)
  PROVE  Invalidate(s) \/ Waits(s, ss) \/ Completes(s, k, ss)
<1> DEFINE left       == Drained(ss.pending, s, rt)
           violations == ss.consecutive + PendingCount(ss.pending) - PendingCount(left)
           settled    == [ss EXCEPT !.pending = left, !.consecutive = violations]
<1>1. \A r \in Streams : \A j \in DOMAIN left[r] :
        j \in DOMAIN ss.pending[r] /\ left[r][j] = ss.pending[r][j]
  BY DrainedSubmap
<1>2. \/ (\A r \in Streams : k \in DOMAIN left[r]) /\ CompletePair(s, k, settled)
      \/ Invalidate(s)
      \/ /\ session' = settled
         /\ Return(s, NoEvent)
         /\ UNCHANGED <<generation, nextToken, pairedEnabled, lastPaired>>
  BY DEF Settle
<1>3. PICK new : new = settled
  OBVIOUS
<1>4. /\ HasSessionFields(new)
      /\ new.token = ss.token
      /\ new.pending = left
      /\ new.nextSssOrdinal = ss.nextSssOrdinal
      /\ new.baseline = ss.baseline
      /\ new.lastSst = ss.lastSst
      /\ new.validated = ss.validated
  <2> HIDE DEF left, violations
  <2> QED
    BY <1>3 DEF IsSession, HasSessionFields
<1> HIDE DEF left, violations, settled
<1>5. CASE (\A r \in Streams : k \in DOMAIN left[r]) /\ CompletePair(s, k, settled)
  <2> DEFINE epoch == EpochAt(new, k)
             stamp == StampAt(epoch, k)
             rest  == [r \in Streams |-> Without(new.pending[r], {k})]
             pair  == [type |-> "pair", gen |-> generation, ordinal |-> k, stamp |-> stamp,
                       sss |-> new.pending["sss"][k].item, sst |-> new.pending["sst"][k].item]
  <2>1. /\ session' = [new EXCEPT !.pending = rest, !.validated = TRUE, !.epoch = epoch,
                                  !.consecutive = 0]
        /\ lastPaired' = [gen |-> generation, ordinal |-> k, stamp |-> stamp]
        /\ events' = [events EXCEPT ![s] = pair]
        /\ UNCHANGED <<generation, nextToken, pairedEnabled>>
    BY <1>3, <1>5 DEF CompletePair, Return
  <2>2. /\ rest = [r \in Streams |-> rest[r]]
        /\ \A r \in Streams : /\ DOMAIN rest[r] \subseteq DOMAIN new.pending[r]
                              /\ \A j \in DOMAIN rest[r] : rest[r][j] = new.pending[r][j]
    BY DEF Without
  <2>3. /\ pair.type = "pair" /\ pair.gen = generation /\ pair.ordinal = k
        /\ pair.sss = new.pending["sss"][k].item
        /\ pair.sst = new.pending["sst"][k].item
    OBVIOUS
  <2> HIDE DEF epoch, stamp, rest, pair
  <2>4. /\ session'.token = new.token
        /\ session'.pending = rest
        /\ session'.nextSssOrdinal = new.nextSssOrdinal
        /\ session'.baseline = new.baseline
        /\ session'.lastSst = new.lastSst
        /\ session'.validated = TRUE
    BY <1>4, <2>1 DEF HasSessionFields
  <2>5. /\ events'[s] = pair
        /\ \A r \in Streams \ {s} : events'[r] = events[r]
        /\ lastPaired'.gen = generation /\ lastPaired'.ordinal = k
    BY <2>1
  <2>6. Keeps(ss)
    BY <1>1, <1>4, <2>2, <2>4 DEF Keeps
  <2>7. /\ left["sss"][k] = ss.pending["sss"][k]
        /\ left["sst"][k] = ss.pending["sst"][k]
        /\ \A r \in Streams : k \in DOMAIN ss.pending[r]
    BY <1>1, <1>5 DEF Streams
  <2> QED
    BY <1>4, <2>1, <2>3, <2>4, <2>5, <2>6, <2>7 DEF Completes
<1>6. CASE /\ session' = settled
           /\ Return(s, NoEvent)
           /\ UNCHANGED <<generation, nextToken, pairedEnabled, lastPaired>>
  BY <1>1, <1>3, <1>4, <1>6 DEF Waits, Keeps
<1> QED
  BY <1>2, <1>5, <1>6

(* The thread submits a message of its connection with its token.          *)
Submitted(s) == Message(conn[s], read[s])

Takes(s, ss, k) ==
  IF s = "sss" THEN TakesFrame(Submitted("sss"), ss, k)
  ELSE TakesSnapshot(read["sst"], Submitted("sst"), ss, k)

(* The submission was refused, or counts as a violation and nothing else.  *)
Refused(s) ==
  /\ Keeps(session) /\ session'.validated = session.validated
  /\ ~pairedEnabled \/ connToken[s] # session.token[s] \/ (s = "sst" /\ session.baseline # None)
  /\ Return(s, NoEvent)
  /\ UNCHANGED <<generation, nextToken, pairedEnabled, lastPaired>>

Accepted(s, ss, k) ==
  /\ pairedEnabled /\ connToken[s] = session.token[s]
  /\ k \in Nat \ {0} /\ Arrived(ss, k) /\ Takes(s, ss, k)

(* What a thread that submits has: a token, and a message it has read.     *)
LEMMA SubmitTypes ==
  ASSUME BridgeTypeOK, ThreadInv, NEW s \in Streams, pc[s] = "submit"
  PROVE  /\ connToken[s] \in Nat \ {NoToken}
         /\ Submitted(s) \in Messages
         /\ Submitted(s).hop = read[s]
         /\ read[s] \in 1 .. MaxHops
         /\ read[s] # None
<1>1. conn[s] # 0 /\ connToken[s] # NoToken /\ read[s] # 0
  BY DEF ThreadInv, ThreadOf, Serving
<1>2. conn[s] \in Launches /\ connToken[s] \in Nat /\ read[s] \in 1 .. MaxHops
  BY <1>1, BridgeAssumption DEF BridgeTypeOK
<1>3. read[s] # None
  BY <1>2, NoneAssumption
<1> QED
  BY <1>1, <1>2, <1>3 DEF Submitted, Message, Messages

(* Every end of a submission: refused, invalidated, fallen back to single  *)
(* streams, or accepted, and then waiting or completed.                    *)
LEMMA SubmitOutcome ==
  ASSUME BridgeTypeOK, CoordInv, ThreadInv, NEW s \in Streams, Submit(s)
  PROVE  \/ Refused(s)
         \/ Invalidate(s)
         \/ /\ DisablePairedMode(s) /\ pairedEnabled /\ ~session.validated
            /\ connToken[s] = session.token[s]
         \/ \E ss : \E k : Accepted(s, ss, k) /\ (Waits(s, ss) \/ Completes(s, k, ss))
<1>1. /\ pc[s] = "submit"
      /\ s = "sss" => SubmitSssFrame(connToken[s], Submitted(s), now)
      /\ s = "sst" => SubmitSstSnapshot(connToken[s], read[s], Submitted(s), now)
  BY DEF Submit, Submitted
<1>2. /\ connToken[s] \in Nat \ {NoToken} /\ Submitted(s) \in Items
      /\ read[s] \in Int /\ read[s] # None
  BY <1>1, SubmitTypes, ItemsAssumption
<1>3. now \in Nat /\ events \in [Streams -> Events] /\ IsSession(session)
  BY DEF CoordInv, CoordTypeOK
<1>4. ASSUME Ignore(s), ~pairedEnabled \/ connToken[s] # session.token[s]
      PROVE  Refused(s)
  BY <1>4 DEF Ignore, Refused, Keeps
<1>5. ASSUME NEW ss, NEW k \in Nat \ {0}, Arrived(ss, k), Takes(s, ss, k), Settle(s, k, ss, now),
             pairedEnabled, connToken[s] = session.token[s]
      PROVE  \/ Invalidate(s)
             \/ Accepted(s, ss, k) /\ (Waits(s, ss) \/ Completes(s, k, ss))
  <2>1. IsSession(ss)
    BY <1>5 DEF Arrived
  <2>2. Invalidate(s) \/ Waits(s, ss) \/ Completes(s, k, ss)
    BY <1>3, <1>5, <2>1, SettleOutcome
  <2> QED
    BY <1>5, <2>2 DEF Accepted
<1>6. CASE s = "sss"
  <2>1. \/ Ignore(s) /\ (~pairedEnabled \/ connToken[s] # session.token[s])
        \/ /\ pairedEnabled /\ connToken[s] = session.token[s]
           /\ SettlesFrame(Submitted(s), now)
    BY <1>1, <1>2, <1>3, <1>6, SubmitSssFrameCases
  <2>2. SettlesFrame(Submitted(s), now) =>
          \E ss : \E k \in Nat \ {0} : /\ Arrived(ss, k) /\ Takes(s, ss, k)
                                       /\ Settle(s, k, ss, now)
    BY <1>6 DEF SettlesFrame, Takes
  <2> QED
    BY <1>4, <1>5, <2>1, <2>2
<1>7. CASE s = "sst"
  <2>1. \/ Ignore(s) /\ (~pairedEnabled \/ connToken[s] # session.token[s])
        \/ /\ pairedEnabled /\ connToken[s] = session.token[s]
           /\ \/ DisablePairedMode(s) /\ ~session.validated
              \/ Violate(s, session) /\ session.baseline # None
              \/ \E frames : SettlesSnapshot(read[s], Submitted(s), frames, now)
    BY <1>1, <1>2, <1>3, <1>7, SubmitSstSnapshotCases
  <2>2. (\E frames : SettlesSnapshot(read[s], Submitted(s), frames, now)) =>
          \E ss : \E k \in Nat \ {0} : /\ Arrived(ss, k) /\ Takes(s, ss, k)
                                       /\ Settle(s, k, ss, now)
    BY <1>7 DEF SettlesSnapshot, Takes
  <2>3. ASSUME Violate(s, session), session.baseline # None
        PROVE  Invalidate(s) \/ Refused(s)
    <3>1. CASE session' = [session EXCEPT !.consecutive = @ + 1] /\ ~Invalidate(s)
      <4>1. HasSessionFields(session)
        BY <1>3 DEF IsSession
      <4>2. /\ session'.token = session.token
            /\ session'.pending = session.pending
            /\ session'.nextSssOrdinal = session.nextSssOrdinal
            /\ session'.baseline = session.baseline
            /\ session'.lastSst = session.lastSst
            /\ session'.validated = session.validated
        BY <3>1, <4>1 DEF HasSessionFields
      <4>3. Return(s, NoEvent) /\ UNCHANGED <<generation, nextToken, pairedEnabled, lastPaired>>
        BY <2>3, <3>1 DEF Violate
      <4> QED
        BY <1>7, <2>3, <4>2, <4>3 DEF Refused, Keeps
    <3> QED
      BY <2>3, <3>1 DEF Violate
  <2> QED
    BY <1>4, <1>5, <2>1, <2>2, <2>3
<1> QED
  BY <1>6, <1>7 DEF Streams

-----------------------------------------------------------------------------
(* The coordinator's invariant.                                            *)

(* Every step of the bridge is an operation of the coordinator or leaves   *)
(* it alone, so it keeps CoordInv, and the last pair only advances.        *)
LEMMA CoordStep ==
  ASSUME BridgeTypeOK, CoordInv, ThreadInv, [BridgeNext]_bridgeVars
  PROVE  CoordInv' /\ LaterPair
<1>1. ASSUME UNCHANGED coordVars PROVE CoordInv' /\ LaterPair
  <2>1. UNCHANGED <<session, generation, nextToken, pairedEnabled, lastPaired, events, now>>
    BY <1>1 DEF coordVars
  <2>2. lastPaired.stamp <= now /\ now \in Nat /\ lastPaired.stamp \in Int
    BY DEF CoordInv, CoordTypeOK
  <2>3. CoordTypeOK' /\ SessionInv(session)' /\ Disjoint(session)' /\ PairInv(session)'
    BY <2>1 DEF CoordInv, CoordTypeOK, SessionInv, Disjoint, PairInv, Full, SstOrdinal
  <2> QED
    BY <2>1, <2>2, <2>3 DEF CoordInv, LaterPair
<1>2. ASSUME NEW s \in Streams, Thread(s) PROVE CoordInv' /\ LaterPair
  <2>1. CASE Register(s)
    BY <2>1, RegisterConnectionInv DEF Register
  <2>2. CASE Submit(s)
    <3>1. /\ connToken[s] \in Nat \ {NoToken} /\ Submitted(s) \in Items
          /\ read[s] \in Int
      BY <2>2, SubmitTypes, ItemsAssumption DEF Submit
    <3>2. now \in Nat
      BY DEF CoordInv, CoordTypeOK
    <3>3. CASE s = "sss"
      BY <2>2, <3>1, <3>2, <3>3, SubmitSssFrameInv DEF Submit, Submitted
    <3>4. CASE s = "sst"
      BY <2>2, <3>1, <3>2, <3>4, SubmitSstSnapshotInv DEF Submit, Submitted
    <3> QED
      BY <3>3, <3>4 DEF Streams
  <2>3. CASE PublishSst(s) \/ ClosePeer(s)
    BY <2>3, EventsHandledInv DEF PublishSst, ClosePeer
  <2>4. CASE EndConnection(s)
    <3>1. UNCHANGED coordVars \/ ConnectionLost(s, connToken[s])
      BY <2>4 DEF EndConnection
    <3> QED
      BY <1>1, <3>1, ConnectionLostInv
  <2>5. CASE \/ Accept(s) \/ LeaveLoop(s) \/ PassBarrier(s) \/ Receive(s) \/ SendAlone(s)
             \/ PublishSss(s) \/ CloseOwn(s)
    <3>1. UNCHANGED coordVars
      BY <2>5 DEF Accept, LeaveLoop, PassBarrier, Receive, SendAlone, PublishSss, CloseOwn
    <3> QED
      BY <1>1, <3>1
  <2> QED
    BY <1>2, <2>1, <2>2, <2>3, <2>4, <2>5 DEF Thread
<1>3. CASE Core \/ Node \/ UNCHANGED bridgeVars
  <2>1. UNCHANGED coordVars
    BY <1>3 DEF Core, ConnectCore, StreamHop, ExitOnSendError, Crash, Node, RestartCore, GiveUp,
                Interrupt, ReceiveRaw, TakeRaw, MainThread,
                DeliverRaw, CloseRaw, SkipRaw, Enqueue, Shutdown, CloseServer, StopCore, bridgeVars
  <2> QED
    BY <1>1, <2>1
<1>4. CASE PassTime
  BY <1>4, TickInv DEF PassTime
<1> QED
  BY <1>2, <1>3, <1>4 DEF BridgeNext

-----------------------------------------------------------------------------
(* Types.                                                                  *)

(* Every step keeps the types of the bridge's own state.                   *)
LEMMA BridgeTypesStep ==
  ASSUME BridgeTypeOK, CoordInv, ThreadInv, PublishInv, [BridgeNext]_bridgeVars
  PROVE  BridgeTypeOK'
<1>1. CoordTypeOK'
  BY CoordStep DEF CoordInv
<1>2. "sss" \in Streams /\ "sst" \in Streams /\ \A s \in Streams : Other(s) \in Streams
  BY DEF Streams, Other
<1>3. CoreRestartLimit \in Nat /\ MaxHops \in Nat
  BY BridgeAssumption
<1>4. ASSUME NEW s \in Streams, Thread(s) PROVE BridgeTypeOK'
  <2>1. CASE Accept(s)
    <3>1. Head(backlog[s]) \in Launches /\ Tail(backlog[s]) \in Seq(Launches)
      BY <2>1 DEF Accept, BridgeTypeOK
    <3> QED
      BY <1>1, <2>1, <3>1
         DEF Accept, Step, BridgeTypeOK, ThreadStates, coreVars, nodeVars, flagVars, rawVars
  <2>2. CASE LeaveLoop(s) \/ PassBarrier(s)
    BY <1>1, <2>2 DEF LeaveLoop, PassBarrier, Step, BridgeTypeOK, ThreadStates, coreVars,
                      nodeVars, flagVars, rawVars
  <2>3. CASE Register(s)
    <3>1. nextToken \in Nat
      BY DEF BridgeTypeOK, CoordTypeOK
    <3> QED
      BY <1>1, <2>3, <3>1 DEF Register, Step, BridgeTypeOK, ThreadStates, coreVars, nodeVars,
                              flagVars, rawVars
  <2>4. CASE Receive(s)
    <3>1. read[s] + 1 \in 0 .. MaxHops
      BY <1>3, <2>4 DEF Receive, Unread, BridgeTypeOK
    <3>2. pc' \in [Streams -> ThreadStates]
      BY <2>4 DEF Receive, BridgeTypeOK, ThreadStates
    <3> QED
      BY <1>1, <2>4, <3>1, <3>2 DEF Receive, BridgeTypeOK, coreVars, nodeVars, flagVars, rawVars
  <2>5. CASE Submit(s)
    <3>1. pc' \in [Streams -> ThreadStates]
      BY <2>5 DEF Submit, BridgeTypeOK, ThreadStates
    <3> QED
      BY <1>1, <2>5, <3>1 DEF Submit, BridgeTypeOK, coreVars, nodeVars, flagVars, rawVars
  <2>6. CASE SendAlone(s)
    <3>1. Submitted(s) \in Messages
      <4>1. conn[s] \in Launches /\ read[s] \in 1 .. MaxHops
        BY <1>3, <2>6 DEF SendAlone, Step, ThreadInv, ThreadOf, Serving, BridgeTypeOK
      <4> QED
        BY <4>1 DEF Submitted, Message, Messages
    <3>2. Alone(Submitted(s)) \in TopicMessages
      BY <3>1 DEF Alone, TopicMessages
    <3>3. stamps' \in Nat
      BY <2>6 DEF SendAlone, BridgeTypeOK
    <3> QED
      BY <1>1, <2>6, <3>2, <3>3
         DEF SendAlone, Step, Submitted, BridgeTypeOK, ThreadStates, coreVars, nodeVars,
         flagVars, rawVars
  <2>7. CASE PublishSss(s) \/ PublishSst(s)
    <3>1. /\ PairHalf(events[s], "sss") \in TopicMessages
          /\ PairHalf(events[s], "sst") \in TopicMessages
      <4>1. events[s] \in PairEvents
        BY <2>7 DEF PublishSss, PublishSst, Step, AfterFrame, PublishInv, PublishOf, PairUnderWay
      <4> QED
        BY <4>1, ItemsAssumption DEF PairEvents, PairHalf, TopicMessages
    <3>2. topic' \in [Streams -> TopicMessages]
      BY <1>2, <2>7, <3>1 DEF PublishSss, PublishSst, BridgeTypeOK
    <3>3. pc' \in [Streams -> ThreadStates]
      BY <2>7 DEF PublishSss, PublishSst, AfterFrame, Step, BridgeTypeOK, ThreadStates
    <3> QED
      BY <1>1, <2>7, <3>2, <3>3 DEF PublishSss, PublishSst, BridgeTypeOK, coreVars, nodeVars,
                                    flagVars, rawVars
  <2>8. CASE CloseOwn(s) \/ ClosePeer(s)
    <3>1. PICK r \in Streams : ShutDown(r)
      BY <1>2, <2>8 DEF CloseOwn, ClosePeer
    <3>2. shut' \in [Streams -> SUBSET Launches]
      BY <3>1 DEF ShutDown, BridgeTypeOK
    <3> QED
      BY <1>1, <2>8, <3>2
         DEF CloseOwn, ClosePeer, Step, BridgeTypeOK, ThreadStates, coreVars, nodeVars,
         flagVars, rawVars
  <2>9. CASE EndConnection(s)
    <3>1. shut' \in [Streams -> SUBSET Launches]
      BY <2>9 DEF EndConnection, ShutDown, BridgeTypeOK
    <3>2. pc' \in [Streams -> ThreadStates]
      BY <2>9 DEF EndConnection, BridgeTypeOK, ThreadStates
    <3> QED
      BY <1>1, <1>3, <2>9, <3>1, <3>2
         DEF EndConnection, NoToken, BridgeTypeOK, coreVars, nodeVars, flagVars, rawVars
  <2> QED
    BY <1>4, <2>1, <2>2, <2>3, <2>4, <2>5, <2>6, <2>7, <2>8, <2>9 DEF Thread
<1>5. ASSUME NEW s \in Streams, ConnectCore(s) \/ StreamHop(s) PROVE BridgeTypeOK'
  <2>1. CASE ConnectCore(s)
    <3>1. Append(backlog[s], launch) \in Seq(Launches)
      BY DEF BridgeTypeOK
    <3> QED
      BY <1>1, <2>1, <3>1 DEF ConnectCore, BridgeTypeOK, nodeVars, flagVars, rawVars
  <2>2. CASE StreamHop(s)
    <3>1. sent' \in [Streams -> [Launches -> 0 .. MaxHops]]
      <4>1. sent[s] \in [Launches -> 0 .. MaxHops] /\ sent[s][launch] + 1 \in 0 .. MaxHops
        BY <1>3, <2>2 DEF StreamHop, BridgeTypeOK
      <4>2. [sent[s] EXCEPT ![launch] = @ + 1] \in [Launches -> 0 .. MaxHops]
        BY <4>1
      <4>3. sent' = [sent EXCEPT ![s] = [sent[s] EXCEPT ![launch] = @ + 1]]
        BY <2>2 DEF StreamHop, BridgeTypeOK
      <4> QED
        BY <4>2, <4>3 DEF BridgeTypeOK
    <3> QED
      BY <1>1, <2>2, <3>1 DEF StreamHop, BridgeTypeOK, threadVars, nodeVars, flagVars, rawVars
  <2> QED
    BY <1>5, <2>1, <2>2
<1>6. CASE ExitOnSendError \/ Crash \/ StopCore
  <2>1. coreAlive' \in BOOLEAN /\ crashes' \in Nat
    <3>1. coreAlive' \in BOOLEAN
      BY <1>6, Zenon DEF ExitOnSendError, Crash, StopCore
    <3> QED
      BY <1>6, <3>1 DEF ExitOnSendError, Crash, StopCore, BridgeTypeOK
  <2> QED
    BY <1>1, <1>6, <2>1
       DEF ExitOnSendError, Crash, StopCore, BridgeTypeOK, threadVars, nodeVars, flagVars, rawVars
<1>7. CASE RestartCore
  <2>1. coreAlive' \in BOOLEAN
    BY <1>7, Zenon DEF RestartCore
  <2>2. launch' \in Launches
    BY <1>3, <1>7 DEF RestartCore, MayRestart, BridgeTypeOK, Launches
  <2> QED
    BY <1>1, <1>7, <2>1, <2>2 DEF RestartCore, BridgeTypeOK, threadVars, nodeVars, flagVars, rawVars
<1>8. CASE GiveUp \/ Interrupt
  <2>1. failed' \in BOOLEAN /\ rosOk' \in BOOLEAN
    BY <1>8, Zenon DEF GiveUp, Interrupt, BridgeTypeOK
  <2> QED
    BY <1>1, <1>8, <2>1 DEF GiveUp, Interrupt, BridgeTypeOK, rawVars, threadVars, coreVars
<1>9. ASSUME NEW s \in Streams, CloseServer(s) PROVE BridgeTypeOK'
  <2>1. shut' \in [Streams -> SUBSET Launches]
    BY <1>9 DEF CloseServer, ShutDown, BridgeTypeOK
  <2>2. stopped' \in [Streams -> BOOLEAN]
    BY <1>9 DEF CloseServer, BridgeTypeOK
  <2> QED
    BY <1>1, <1>9, <2>1, <2>2 DEF CloseServer, BridgeTypeOK, rawVars, coreVars
<1>10. CASE PassTime \/ UNCHANGED bridgeVars
  BY <1>1, <1>10 DEF PassTime, bridgeVars, BridgeTypeOK, threadVars, coreVars, nodeVars,
                     flagVars, rawVars
<1>11. CASE ReceiveRaw \/ TakeRaw \/ DeliverRaw \/ CloseRaw \/ SkipRaw
  <2>1. main' \in {"spin", "deliver", "close"}
    BY <1>11, Zenon
       DEF ReceiveRaw, TakeRaw, DeliverRaw, CloseRaw, SkipRaw, Enqueue, BridgeTypeOK
  <2>2. rawQueued' \in 0 .. RawQueueSize /\ stamps' \in Nat
    BY <1>11, BridgeAssumption
       DEF ReceiveRaw, TakeRaw, DeliverRaw, CloseRaw, SkipRaw, Enqueue, BridgeTypeOK
  <2>3. /\ UNCHANGED <<flagVars, rawSocket>>
        /\ UNCHANGED <<threadVars, coordVars, coreVars, topic>>
    BY <1>11, Zenon DEF ReceiveRaw, TakeRaw, DeliverRaw, CloseRaw, SkipRaw, Enqueue
  <2> QED
    BY <1>1, <2>1, <2>2, <2>3 DEF BridgeTypeOK, flagVars, threadVars, coreVars
<1> QED
  BY <1>4, <1>5, <1>6, <1>7, <1>8, <1>9, <1>10, <1>11
     DEF BridgeNext, Core, Node, MainThread, Shutdown

-----------------------------------------------------------------------------
(* The threads and their tokens.                                           *)

(* A step of one thread leaves the other thread where it is.               *)
LEMMA OtherThread ==
  ASSUME BridgeTypeOK, NEW s \in Streams, NEW r \in Streams, r # s, Thread(s)
  PROVE  /\ pc'[r] = pc[r] /\ conn'[r] = conn[r] /\ connToken'[r] = connToken[r]
         /\ read'[r] = read[r] /\ backlog'[r] = backlog[r]
<1> USE DEF BridgeTypeOK
<1>1. CASE Accept(s) \/ LeaveLoop(s) \/ Register(s) \/ PassBarrier(s)
  BY <1>1 DEF Accept, LeaveLoop, Register, PassBarrier, Step
<1>2. CASE Receive(s) \/ Submit(s) \/ EndConnection(s)
  BY <1>2 DEF Receive, Submit, EndConnection
<1>3. CASE SendAlone(s) \/ PublishSss(s) \/ PublishSst(s) \/ CloseOwn(s) \/ ClosePeer(s)
  BY <1>3 DEF SendAlone, PublishSss, PublishSst, CloseOwn, ClosePeer, Step
<1> QED
  BY <1>1, <1>2, <1>3 DEF Thread

(* Only the threads change what ThreadInv is about.                        *)
LEMMA OutsideThreads ==
  ASSUME Core \/ Node \/ PassTime \/ UNCHANGED bridgeVars
  PROVE  /\ UNCHANGED <<pc, conn, connToken, read, topic>>
         /\ UNCHANGED <<session, generation, nextToken, pairedEnabled, lastPaired, events>>
<1>1. UNCHANGED <<pc, conn, connToken, read, topic>>
  BY DEF Core, ConnectCore, StreamHop, ExitOnSendError, Crash, Node, RestartCore, GiveUp,
         Interrupt, ReceiveRaw, TakeRaw, MainThread,
                DeliverRaw, CloseRaw, SkipRaw, Enqueue, Shutdown, CloseServer, StopCore,
                PassTime, bridgeVars, threadVars
<1>2. UNCHANGED <<session, generation, nextToken, pairedEnabled, lastPaired, events>>
  BY DEF Core, ConnectCore, StreamHop, ExitOnSendError, Crash, Node, RestartCore, GiveUp,
         Interrupt, ReceiveRaw, TakeRaw, MainThread,
                DeliverRaw, CloseRaw, SkipRaw, Enqueue, Shutdown, CloseServer, StopCore,
                PassTime, Tick, bridgeVars, coordVars
<1> QED
  BY <1>1, <1>2

(* Every step keeps the threads' relation of token, socket and state.      *)
LEMMA ThreadStep ==
  ASSUME BridgeTypeOK, ThreadInv, [BridgeNext]_bridgeVars
  PROVE  ThreadInv'
<1>1. ASSUME NEW s \in Streams, Thread(s) PROVE ThreadOf(s)'
  <2> USE DEF ThreadInv, ThreadOf, Serving, BridgeTypeOK
  <2>1. CASE Accept(s)
    <3>1. Head(backlog[s]) \in Launches /\ 0 \notin Launches
      <4>1. 0 \notin Launches
        BY DEF Launches
      <4> QED
        BY <2>1, <4>1 DEF Accept
    <3> QED
      BY <2>1, <3>1 DEF Accept, Step
  <2>2. CASE LeaveLoop(s) \/ PassBarrier(s)
    BY <2>2 DEF LeaveLoop, PassBarrier, Step
  <2>3. CASE Register(s)
    BY <2>3 DEF Register, Step, CoordTypeOK, NoToken
  <2>4. CASE Receive(s)
    <3>1. read[s] + 1 # 0
      BY <2>4, BridgeAssumption
    <3>2. pc'[s] \in {"recv", "submit", "send"} /\ read'[s] = read[s] + 1
      BY <2>4 DEF Receive
    <3> QED
      BY <2>4, <3>1, <3>2 DEF Receive
  <2>5. CASE Submit(s)
    <3>1. pc'[s] \in {"recv", "publish_sss", "close_own"}
      BY <2>5 DEF Submit
    <3> QED
      BY <2>5, <3>1 DEF Submit
  <2>6. CASE SendAlone(s)
    BY <2>6 DEF SendAlone, Step
  <2>7. CASE PublishSss(s) \/ PublishSst(s)
    BY <2>7 DEF PublishSss, PublishSst, AfterFrame, Step
  <2>8. CASE CloseOwn(s) \/ ClosePeer(s)
    BY <2>8 DEF CloseOwn, ClosePeer, Step
  <2>9. CASE EndConnection(s)
    <3>1. pc'[s] \in {"accept", "close_own"}
      BY <2>9 DEF EndConnection
    <3> QED
      BY <2>9, <3>1 DEF EndConnection, NoToken
  <2> QED
    BY <1>1, <2>1, <2>2, <2>3, <2>4, <2>5, <2>6, <2>7, <2>8, <2>9 DEF Thread
<1>2. ASSUME NEW s \in Streams, Thread(s), NEW r \in Streams, r # s PROVE ThreadOf(r)'
  BY <1>2, OtherThread DEF ThreadInv, ThreadOf
<1>3. CASE Core \/ Node \/ PassTime \/ UNCHANGED bridgeVars
  BY <1>3, OutsideThreads DEF ThreadInv, ThreadOf
<1> QED
  BY <1>1, <1>2, <1>3 DEF BridgeNext, ThreadInv

(* A thread with a token submits to a session that both streams have       *)
(* joined.                                                                 *)
LEMMA SubmitsInFullSession ==
  ASSUME ThreadInv, TokenInv, NEW s \in Streams, pc[s] = "submit",
         session.token[s] # NoToken
  PROVE  Full(session)
  BY DEF TokenInv, TokenOf

(* An invalidated session is empty.                                        *)
LEMMA Invalidated ==
  ASSUME NEW s \in Streams, Invalidate(s)
  PROVE  /\ \A r \in Streams : session'.token[r] = NoToken
         /\ \A r \in Streams : DOMAIN session'.pending[r] = {}
         /\ session'.nextSssOrdinal = 1 /\ session'.baseline = None
  BY ClearedFields, NothingPendingType DEF Invalidate, NoTokens, BothEmpty

(* What a submission does to its thread and to the session.                *)
LEMMA SubmitSummary ==
  ASSUME BridgeTypeOK, CoordInv, ThreadInv, TokenInv, NEW s \in Streams, Submit(s)
  PROVE  \/ Invalidate(s) /\ pc'[s] = "close_own"
         \/ /\ session'.token = session.token
            /\ pc'[s] = "recv" \/ pc'[s] = "publish_sss"
            /\ \/ Full(session)
               \/ /\ session'.nextSssOrdinal = session.nextSssOrdinal
                  /\ session'.baseline = session.baseline
<1>1. /\ pc[s] = "submit"
      /\ events'[s].type = "pair" => pc'[s] = "publish_sss"
      /\ events'[s].type = "session_invalidated" => pc'[s] = "close_own"
      /\ events'[s].type \notin {"pair", "session_invalidated"} => pc'[s] = "recv"
  BY DEF Submit, BridgeTypeOK
<1>2. \A e : Return(s, e) => events'[s] = e
  BY DEF Return, BridgeTypeOK, CoordTypeOK
<1>3. CASE Refused(s)
  BY <1>1, <1>2, <1>3 DEF Refused, Keeps, NoEvent
<1>4. CASE Invalidate(s)
  BY <1>1, <1>2, <1>4 DEF Invalidate, SessionInvalidated
<1>5. CASE DisablePairedMode(s)
  <2>1. HasSessionFields(session)
    BY DEF CoordInv, CoordTypeOK, IsSession
  <2>2. /\ session'.token = session.token
        /\ session'.nextSssOrdinal = session.nextSssOrdinal
        /\ session'.baseline = session.baseline
    BY <1>5, <2>1 DEF DisablePairedMode, HasSessionFields
  <2> QED
    BY <1>1, <1>2, <1>5, <2>2 DEF DisablePairedMode, PairedModeDisabled
<1>6. ASSUME NEW ss, NEW k, Accepted(s, ss, k), Waits(s, ss) \/ Completes(s, k, ss)
      PROVE  /\ session'.token = session.token /\ Full(session)
             /\ pc'[s] = "recv" \/ pc'[s] = "publish_sss"
  <2>1. ss.token = session.token
    BY <1>6 DEF Accepted, Takes, TakesFrame, TakesSnapshot, Added
  <2>2. Full(session)
    <3>1. session.token[s] # NoToken
      BY <1>1, <1>6, SubmitTypes DEF Accepted
    <3> QED
      BY <1>1, <3>1, SubmitsInFullSession
  <2>3. events'[s].type = "none" \/ events'[s].type = "pair"
    BY <1>2, <1>6 DEF Waits, Completes, NoEvent
  <2> QED
    BY <1>1, <1>6, <2>1, <2>2, <2>3 DEF Waits, Completes, Keeps
<1> QED
  BY <1>3, <1>4, <1>5, <1>6, SubmitOutcome

(* A connection registers while its stream has no token.                   *)
LEMMA Registers ==
  ASSUME BridgeTypeOK, TokenInv, NEW s \in Streams, Register(s)
  PROVE  /\ session.token[s] = NoToken /\ ~Full(session)
         /\ session'.token = [session.token EXCEPT ![s] = nextToken]
         /\ session'.token[s] = nextToken /\ connToken'[s] = nextToken
         /\ nextToken # NoToken
         /\ \A r \in Streams \ {s} : session'.token[r] = session.token[r]
         /\ session'.nextSssOrdinal = 1 /\ session'.baseline = None
         /\ ~Full(session') => generation' = generation
<1>1. session.token[s] = NoToken
  BY DEF Register, Step, TokenInv, TokenOf
<1>2. ~Full(session)
  BY <1>1 DEF Full
<1>3. PICK old : /\ old = session \/ old = ClearedSession
                 /\ session' = [old EXCEPT !.token = [session.token EXCEPT ![s] = nextToken]]
  BY DEF Register, RegisterConnection
<1>4. HasSessionFields(old) /\ old.nextSssOrdinal = 1 /\ old.baseline = None
  BY <1>2, <1>3, ClearedFields DEF BridgeTypeOK, CoordTypeOK, IsSession, TokenInv, Unstarted
<1>5. /\ session'.token = [session.token EXCEPT ![s] = nextToken]
      /\ session'.nextSssOrdinal = 1 /\ session'.baseline = None
  BY <1>3, <1>4, TokenFields
<1>6. /\ session'.token[s] = nextToken
      /\ \A r \in Streams \ {s} : session'.token[r] = session.token[r]
  BY <1>5 DEF BridgeTypeOK, CoordTypeOK, IsSession
<1>7. connToken'[s] = nextToken /\ nextToken # NoToken
  BY DEF Register, BridgeTypeOK, CoordTypeOK, NoToken
<1>8. ~Full(session') => generation' = generation
  BY <1>5 DEF Register, RegisterConnection, Full
<1> QED
  BY <1>1, <1>2, <1>5, <1>6, <1>7, <1>8

(* Every step keeps the tokens of the session with their threads.          *)
LEMMA TokenStep ==
  ASSUME BridgeTypeOK, CoordInv, ThreadInv, TokenInv, [BridgeNext]_bridgeVars
  PROVE  TokenInv'
<1>1. ASSUME NEW s \in Streams, Register(s) PROVE TokenInv'
  <2>1. TokenOf(s)'
    BY <1>1, Registers DEF Register, Step, BridgeTypeOK, TokenOf, ThreadInv, ThreadOf
  <2>2. ASSUME NEW r \in Streams, r # s PROVE TokenOf(r)'
    <3>1. stopped' = stopped
      BY <1>1 DEF Register, nodeVars, flagVars, rawVars
    <3>2. Thread(s)
      BY <1>1 DEF Thread
    <3>3. pc'[r] = pc[r] /\ connToken'[r] = connToken[r] /\ read'[r] = read[r]
      BY <2>2, <3>2, OtherThread
    <3>4. session'.token[r] = session.token[r] /\ ~Full(session)
      BY <1>1, <2>2, Registers
    <3> QED
      BY <3>1, <3>3, <3>4 DEF TokenInv, TokenOf
  <2>3. Unstarted'
    BY <1>1, Registers DEF Unstarted
  <2> QED
    BY <2>1, <2>2, <2>3 DEF TokenInv
<1>2. ASSUME NEW s \in Streams, Submit(s) PROVE TokenInv'
  <2>1. stopped' = stopped /\ connToken' = connToken /\ read' = read
    BY <1>2 DEF Submit, nodeVars, flagVars, rawVars
  <2>2. Thread(s)
    BY <1>2 DEF Thread
  <2>3. CASE Invalidate(s)
    BY <2>3, Invalidated DEF TokenInv, TokenOf, Unstarted
  <2>4. CASE /\ session'.token = session.token
             /\ pc'[s] = "recv" \/ pc'[s] = "publish_sss"
             /\ \/ Full(session)
                \/ /\ session'.nextSssOrdinal = session.nextSssOrdinal
                   /\ session'.baseline = session.baseline
    <3>1. Full(session') <=> Full(session)
      BY <2>4 DEF Full
    <3>2. TokenOf(s)'
      <4>1. session.token[s] # NoToken => session.token[s] = connToken[s] /\ Full(session)
        BY <1>2 DEF Submit, TokenInv, TokenOf
      <4> QED
        BY <2>1, <2>4, <3>1, <4>1 DEF TokenOf
    <3>3. ASSUME NEW r \in Streams, r # s PROVE TokenOf(r)'
      BY <2>1, <2>2, <2>4, <3>1, <3>3, OtherThread DEF TokenInv, TokenOf
    <3>4. Unstarted'
      BY <2>4, <3>1 DEF TokenInv, Unstarted
    <3> QED
      BY <3>2, <3>3, <3>4 DEF TokenInv
  <2> QED
    BY <1>2, <2>3, <2>4, SubmitSummary
<1>3. ASSUME NEW s \in Streams, EndConnection(s) PROVE TokenInv'
  <2>1. /\ stopped' = stopped /\ connToken'[s] = NoToken /\ read'[s] = 0
        /\ pc[s] = "recv" /\ Thread(s)
    BY <1>3 DEF EndConnection, nodeVars, flagVars, rawVars, BridgeTypeOK, Thread
  <2>2. CASE Invalidate(s)
    BY <2>2, Invalidated DEF TokenInv, TokenOf, Unstarted
  <2>3. CASE session' = session /\ (stopped[s] \/ session.token[s] # connToken[s])
    <3>1. session.token[s] # NoToken => stopped[s]
      BY <2>1, <2>3 DEF TokenInv, TokenOf
    <3>2. stopped[s] => pc'[s] = "accept"
      BY <1>3 DEF EndConnection, BridgeTypeOK
    <3>3. TokenOf(s)'
      BY <2>1, <2>3, <3>1, <3>2 DEF TokenOf
    <3>4. ASSUME NEW r \in Streams, r # s PROVE TokenOf(r)'
      BY <2>1, <2>3, <3>4, OtherThread DEF TokenInv, TokenOf
    <3> QED
      BY <2>3, <3>3, <3>4 DEF TokenInv, Unstarted
  <2>4. Invalidate(s) \/ (session' = session /\ (stopped[s] \/ session.token[s] # connToken[s]))
    <3>1. connToken[s] # NoToken
      BY <2>1 DEF ThreadInv, ThreadOf, Serving
    <3> QED
      BY <1>3, <3>1 DEF EndConnection, ConnectionLost, Ignore, coordVars
  <2> QED
    BY <2>2, <2>3, <2>4
<1>4. ASSUME NEW s \in Streams,
             \/ Accept(s) \/ LeaveLoop(s) \/ PassBarrier(s) \/ Receive(s) \/ SendAlone(s)
             \/ PublishSss(s) \/ PublishSst(s) \/ CloseOwn(s) \/ ClosePeer(s)
      PROVE  TokenInv'
  <2>1. /\ session' = session /\ stopped' = stopped /\ connToken' = connToken
        /\ Thread(s)
    BY <1>4 DEF Accept, LeaveLoop, PassBarrier, Receive, SendAlone, PublishSss, PublishSst,
                CloseOwn, ClosePeer, EventsHandled, coordVars, nodeVars, flagVars, rawVars, Thread
  <2>2. ASSUME session.token[s] # NoToken
        PROVE  /\ ~Accept(s) /\ ~CloseOwn(s) /\ ~ClosePeer(s)
               /\ TokenOf(s)'
    <3>1. pc[s] # "accept" \/ stopped[s]
      BY <2>2 DEF TokenInv, TokenOf, ThreadInv, ThreadOf
    <3>2. ~Accept(s) /\ ~CloseOwn(s) /\ ~ClosePeer(s)
      BY <2>2, <3>1 DEF Accept, CloseOwn, ClosePeer, Step, TokenInv, TokenOf
    <3>3. CASE LeaveLoop(s)
      BY <2>1, <2>2, <3>2, <3>3 DEF LeaveLoop, Step, TokenInv, TokenOf, BridgeTypeOK
    <3>4. CASE PassBarrier(s)
      BY <2>1, <2>2, <3>2, <3>4
         DEF PassBarrier, BarrierOpen, SessionActive, Full, Step, TokenInv, TokenOf, BridgeTypeOK
    <3>5. CASE Receive(s)
      <4>1. Full(session) /\ session.token[s] = connToken[s]
        BY <2>2, <3>5 DEF Receive, TokenInv, TokenOf
      <4>2. pc'[s] \in {"recv", "submit", "send"}
        BY <3>5 DEF Receive, BridgeTypeOK
      <4> QED
        BY <2>1, <3>2, <4>1, <4>2 DEF TokenOf
    <3>6. CASE SendAlone(s) \/ PublishSss(s) \/ PublishSst(s)
      <4>1. pc[s] \in {"send", "publish_sss", "publish_sst"} /\ pc'[s] \in {"recv", "publish_sst"}
        BY <3>6 DEF SendAlone, PublishSss, PublishSst, AfterFrame, Step, BridgeTypeOK
      <4>2. Full(session) /\ session.token[s] = connToken[s]
        BY <2>2, <4>1 DEF TokenInv, TokenOf
      <4> QED
        BY <2>1, <3>2, <4>1, <4>2 DEF TokenOf
    <3> QED
      BY <1>4, <3>2, <3>3, <3>4, <3>5, <3>6
  <2>3. TokenOf(s)'
    BY <2>1, <2>2 DEF TokenOf
  <2>4. ASSUME NEW r \in Streams, r # s PROVE TokenOf(r)'
    BY <2>1, <2>4, OtherThread DEF TokenInv, TokenOf
  <2> QED
    BY <2>1, <2>3, <2>4 DEF TokenInv, Unstarted
<1>5. CASE Core \/ Node \/ PassTime \/ UNCHANGED bridgeVars
  <2>1. \A s \in Streams : stopped[s] => stopped'[s]
    BY <1>5 DEF Core, ConnectCore, StreamHop, ExitOnSendError, Crash, Node, RestartCore, GiveUp,
         Interrupt, ReceiveRaw, TakeRaw, MainThread,
                DeliverRaw, CloseRaw, SkipRaw, Enqueue, Shutdown, CloseServer, StopCore,
                PassTime, bridgeVars, nodeVars, flagVars, rawVars, BridgeTypeOK
  <2> QED
    BY <1>5, <2>1, OutsideThreads DEF TokenInv, TokenOf, Unstarted
<1> QED
  BY <1>1, <1>2, <1>3, <1>4, <1>5 DEF BridgeNext, Thread

-----------------------------------------------------------------------------
(* Pairs under way.                                                        *)

(* While one stream publishes a pair, a submission of the other completes  *)
(* none: the ordinal would have to be pending on the publishing stream, so *)
(* reached by it, and later than the pair under way, which is the last     *)
(* ordinal that stream has reached.                                        *)
LEMMA CompletesAlone ==
  ASSUME BridgeTypeOK, CoordInv, ThreadInv, TokenInv, PublishInv,
         NEW s \in Streams, pc[s] = "submit",
         NEW ss, NEW k, Accepted(s, ss, k), Completes(s, k, ss)
  PROVE  ~PairUnderWay(Other(s))
<1> SUFFICES ASSUME PairUnderWay(Other(s)) PROVE FALSE
  OBVIOUS
<1>1. Other(s) \in Streams /\ Other(s) # s /\ (Other(s) = "sss" \/ Other(s) = "sst")
  BY DEF Streams, Other
<1>2. Full(session)
  <2>1. session.token[s] # NoToken
    BY SubmitTypes DEF Accepted
  <2> QED
    BY <2>1, SubmitsInFullSession
<1>3. /\ lastPaired.gen = generation
      /\ Reached(session, Other(s)) = lastPaired.ordinal
  BY <1>1, <1>2 DEF PublishInv, PublishOf, Full
<1>4. lastPaired.ordinal < k /\ k \in Int
  <2>1. ss.token = session.token
    BY DEF Accepted, Takes, TakesFrame, TakesSnapshot, Added
  <2> QED
    BY <1>2, <1>3, <2>1 DEF Accepted, Arrived, Full
<1>5. k \in DOMAIN session.pending[Other(s)]
  <2>1. \E item : Added(s, item, ss, k)
    BY DEF Accepted, Takes, TakesFrame, TakesSnapshot, Streams
  <2>2. k \in DOMAIN ss.pending[Other(s)]
    BY <1>1 DEF Completes
  <2> QED
    BY <1>1, <2>1, <2>2 DEF Added
<1>6. k <= Reached(session, Other(s))
  <2>1. CASE Other(s) = "sss"
    <3>1. k < session.nextSssOrdinal /\ session.nextSssOrdinal \in Int
      BY <1>5, <2>1 DEF CoordInv, CoordTypeOK, IsSession, SessionInv
    <3> QED
      BY <1>4, <2>1, <3>1 DEF Reached
  <2>2. CASE Other(s) = "sst"
    BY <1>5, <2>2 DEF CoordInv, SessionInv, Reached
  <2> QED
    BY <1>1, <2>1, <2>2
<1>7. lastPaired.ordinal \in Int
  BY DEF CoordInv, CoordTypeOK
<1> QED
  BY <1>3, <1>4, <1>6, <1>7

(* A step that leaves what the thread of stream r publishes as it was.     *)
Undisturbed(r) ==
  /\ lastPaired' = lastPaired /\ generation' = generation /\ events'[r] = events[r]
  /\ PairUnderWay(r) =>
       /\ pairedEnabled' = pairedEnabled
       /\ session'.token[r] # NoToken =>
            /\ session.token[r] # NoToken
            /\ session'.validated = session.validated
            /\ Reached(session', r) = Reached(session, r)

(* A submission leaves the other stream's publication alone or completes a *)
(* pair while there is none.                                               *)
LEMMA SubmitPublishes ==
  ASSUME BridgeTypeOK, CoordInv, ThreadInv, TokenInv, PublishInv,
         NEW s \in Streams, Submit(s)
  PROVE  \/ Undisturbed(Other(s)) /\ pc'[s] # "publish_sss"
         \/ /\ pc'[s] = "publish_sss" /\ pairedEnabled /\ ~PairUnderWay(Other(s))
            /\ PublishOf(s)'
            /\ lastPaired' # lastPaired /\ pairedEnabled' = pairedEnabled
<1>1. Other(s) \in Streams /\ Other(s) # s /\ (Other(s) = "sss" \/ Other(s) = "sst")
  BY DEF Streams, Other
<1>2. /\ pc[s] = "submit"
      /\ events'[s].type = "pair" => pc'[s] = "publish_sss"
      /\ events'[s].type # "pair" => pc'[s] # "publish_sss"
  BY DEF Submit, BridgeTypeOK
<1>3. \A e : Return(s, e) => events'[s] = e /\ events'[Other(s)] = events[Other(s)]
  BY <1>1 DEF Return, BridgeTypeOK, CoordTypeOK
<1>4. NoEvent.type # "pair" /\ SessionInvalidated.type # "pair" /\ PairedModeDisabled.type # "pair"
  BY DEF NoEvent, SessionInvalidated, PairedModeDisabled
<1>5. PairUnderWay(Other(s)) => (session.token[Other(s)] # NoToken => session.validated)
  BY <1>1 DEF PublishInv, PublishOf
<1>6. CASE Refused(s)
  <2>1. Reached(session', Other(s)) = Reached(session, Other(s))
    BY <1>6 DEF Refused, Keeps, Reached, SstOrdinal
  <2> QED
    BY <1>2, <1>3, <1>4, <1>6, <2>1 DEF Refused, Keeps, Undisturbed
<1>7. CASE Invalidate(s)
  <2>1. session'.token[Other(s)] = NoToken
    BY <1>1, <1>7, Invalidated
  <2> QED
    BY <1>2, <1>3, <1>4, <1>7, <2>1 DEF Invalidate, Undisturbed
<1>8. CASE DisablePairedMode(s) /\ ~session.validated /\ connToken[s] = session.token[s]
  <2>1. session.token[s] # NoToken
    BY <1>2, <1>8, SubmitTypes
  <2>2. Full(session)
    BY <1>2, <2>1, SubmitsInFullSession
  <2>3. ~PairUnderWay(Other(s))
    BY <1>1, <1>5, <1>8, <2>2 DEF Full
  <2> QED
    BY <1>2, <1>3, <1>4, <1>8, <2>3 DEF DisablePairedMode, Undisturbed
<1>9. ASSUME NEW ss, NEW k, Accepted(s, ss, k), Waits(s, ss)
      PROVE  Undisturbed(Other(s)) /\ pc'[s] # "publish_sss"
  <2>1. ss.token = session.token /\ ss.validated = session.validated
    BY <1>9 DEF Accepted, Takes, TakesFrame, TakesSnapshot, Added
  <2>2. session.token[s] # NoToken
    BY <1>2, <1>9, SubmitTypes DEF Accepted
  <2>3. Full(session)
    BY <1>2, <2>2, SubmitsInFullSession
  <2>4. PairUnderWay(Other(s)) => Reached(session', Other(s)) = Reached(session, Other(s))
    <3>1. CASE s = "sss"
      BY <1>9, <3>1 DEF Accepted, Takes, TakesFrame, Waits, Keeps, Reached, SstOrdinal, Other
    <3>2. CASE s = "sst"
      BY <1>9, <3>2 DEF Accepted, Takes, TakesSnapshot, Waits, Keeps, Reached, Other
    <3> QED
      BY <3>1, <3>2 DEF Streams
  <2> QED
    BY <1>2, <1>3, <1>4, <1>9, <2>1, <2>4 DEF Waits, Keeps, Undisturbed
<1>10. ASSUME NEW ss, NEW k, Accepted(s, ss, k), Completes(s, k, ss)
       PROVE  /\ pc'[s] = "publish_sss" /\ pairedEnabled /\ ~PairUnderWay(Other(s))
              /\ PublishOf(s)'
              /\ lastPaired' # lastPaired /\ pairedEnabled' = pairedEnabled
  <2>1. pc'[s] = "publish_sss" /\ pairedEnabled /\ pairedEnabled' = pairedEnabled
    BY <1>2, <1>10 DEF Accepted, Completes
  <2>2. ~PairUnderWay(Other(s))
    BY <1>2, <1>10, CompletesAlone
  <2>3. pc'[Other(s)] = pc[Other(s)]
    BY <1>1, OtherThread DEF Thread
  <2>4. events'[s] \in PairEvents
    <3>1. events'[s] \in Events
      BY CoordStep DEF BridgeNext, Thread, CoordInv, CoordTypeOK
    <3>2. events'[s].type = "pair"
      BY <1>10 DEF Completes
    <3> QED
      BY <1>4, <3>1, <3>2 DEF Events
  <2>5. session'.validated /\ Reached(session', s) = k
    <3>1. session'.validated
      BY <1>10 DEF Completes
    <3>2. CASE s = "sss"
      BY <1>10, <3>1, <3>2 DEF Accepted, Takes, TakesFrame, Completes, Keeps, Reached
    <3>3. CASE s = "sst"
      BY <1>10, <3>1, <3>3 DEF Accepted, Takes, TakesSnapshot, Completes, Keeps, Reached, SstOrdinal
    <3> QED
      BY <3>2, <3>3 DEF Streams
  <2>6. lastPaired' # lastPaired
    <3>1. ss.token = session.token
      BY <1>10 DEF Accepted, Takes, TakesFrame, TakesSnapshot, Added
    <3>2. session.token[s] # NoToken
      BY <1>2, <1>10, SubmitTypes DEF Accepted
    <3>3. Full(ss)
      BY <1>2, <3>1, <3>2, SubmitsInFullSession DEF Full
    <3>4. lastPaired.gen = generation => lastPaired.ordinal < k
      BY <1>10, <3>3 DEF Accepted, Arrived
    <3>5. ~(k < k)
      BY <1>10 DEF Accepted
    <3> QED
      BY <1>10, <3>4, <3>5 DEF Completes
  <2>7. PublishOf(s)'
    BY <1>10, <2>1, <2>2, <2>3, <2>4, <2>5 DEF Completes, PublishOf, PairUnderWay
  <2> QED
    BY <2>1, <2>2, <2>6, <2>7
<1> QED
  BY <1>6, <1>7, <1>8, <1>9, <1>10, SubmitOutcome

(* Every step keeps what is said of the pairs under way.                   *)
LEMMA PublishStep ==
  ASSUME BridgeTypeOK, CoordInv, ThreadInv, TokenInv, PublishInv, [BridgeNext]_bridgeVars
  PROVE  PublishInv'
<1>1. ASSUME NEW s \in Streams
      PROVE  Other(s) \in Streams /\ Other(s) # s /\ Other(Other(s)) = s
  BY <1>1 DEF Streams, Other
<1>2. ASSUME NEW s \in Streams, Thread(s), Undisturbed(Other(s)), ~PairUnderWay(s)'
      PROVE  PublishInv'
  <2>1. pc'[Other(s)] = pc[Other(s)]
    BY <1>1, <1>2, OtherThread
  <2>2. PublishOf(Other(s))'
    BY <1>1, <1>2, <2>1 DEF PublishInv, PublishOf, PairUnderWay, Undisturbed
  <2>3. PublishOf(s)'
    BY <1>2 DEF PublishOf
  <2> QED
    BY <1>1, <2>2, <2>3 DEF PublishInv, Streams
<1>3. ASSUME NEW s \in Streams, Submit(s) PROVE PublishInv'
  <2>1. pc'[s] # "publish_sst" /\ Thread(s)
    BY <1>3 DEF Submit, BridgeTypeOK, Thread
  <2>2. CASE Undisturbed(Other(s)) /\ pc'[s] # "publish_sss"
    BY <1>2, <2>1, <2>2 DEF PairUnderWay
  <2>3. CASE ~PairUnderWay(Other(s)) /\ PublishOf(s)'
    <3>1. pc'[Other(s)] = pc[Other(s)]
      BY <1>1, <2>1, OtherThread
    <3>2. PublishOf(Other(s))'
      BY <2>3, <3>1 DEF PublishOf, PairUnderWay
    <3> QED
      BY <1>1, <2>3, <3>2 DEF PublishInv, Streams
  <2> QED
    BY <1>3, <2>2, <2>3, SubmitPublishes
<1>4. ASSUME NEW s \in Streams, Register(s) PROVE PublishInv'
  <2>1. /\ pairedEnabled' = pairedEnabled /\ lastPaired' = lastPaired
        /\ events'[Other(s)] = events[Other(s)]
        /\ pc'[s] = "barrier" /\ Thread(s)
    BY <1>1, <1>4 DEF Register, RegisterConnection, Step, Return, BridgeTypeOK, CoordTypeOK, Thread
  <2>2. CASE session.token[Other(s)] = NoToken
    <3>1. session'.token[Other(s)] = NoToken /\ generation' = generation
      BY <1>1, <1>4, <2>2, Registers DEF Full
    <3> QED
      BY <1>2, <2>1, <3>1 DEF Undisturbed, PairUnderWay
  <2>3. CASE session.token[Other(s)] # NoToken
    <3>1. ~PairUnderWay(Other(s))
      <4>1. ~Full(session)
        BY <1>4, Registers
      <4> QED
        BY <1>1, <2>3, <4>1 DEF TokenInv, TokenOf, PairUnderWay
    <3>2. pc'[Other(s)] = pc[Other(s)]
      BY <1>1, <2>1, OtherThread
    <3>3. PublishOf(s)' /\ PublishOf(Other(s))'
      BY <2>1, <3>1, <3>2 DEF PublishOf, PairUnderWay
    <3> QED
      BY <1>1, <3>3 DEF PublishInv, Streams
  <2> QED
    BY <2>2, <2>3
<1>5. ASSUME NEW s \in Streams, EndConnection(s) PROVE PublishInv'
  <2>1. pc'[s] \in {"accept", "close_own"} /\ Thread(s)
    BY <1>5 DEF EndConnection, BridgeTypeOK, Thread
  <2>2. \/ UNCHANGED <<session, generation, pairedEnabled, lastPaired, events>>
        \/ Invalidate(s) \/ Ignore(s)
    BY <1>5 DEF EndConnection, ConnectionLost, coordVars
  <2>3. Undisturbed(Other(s))
    <3>1. Invalidate(s) => session'.token[Other(s)] = NoToken
      BY <1>1, Invalidated
    <3>2. events'[Other(s)] = events[Other(s)]
      BY <1>1, <2>2 DEF Invalidate, Ignore, Return, BridgeTypeOK, CoordTypeOK
    <3> QED
      BY <2>2, <3>1, <3>2 DEF Invalidate, Ignore, Undisturbed
  <2> QED
    BY <1>2, <2>1, <2>3 DEF PairUnderWay
<1>6. ASSUME NEW s \in Streams, PublishSss(s) PROVE PublishInv'
  <2>1. /\ UNCHANGED <<session, generation, pairedEnabled, lastPaired, events>>
        /\ PairUnderWay(s) /\ Thread(s)
    BY <1>6 DEF PublishSss, AfterFrame, Step, PairUnderWay, coordVars, Thread
  <2>2. ~PairUnderWay(Other(s))
    BY <2>1 DEF PublishInv, PublishOf
  <2>3. pc'[Other(s)] = pc[Other(s)]
    BY <1>1, <2>1, OtherThread
  <2>4. PublishOf(s)' /\ PublishOf(Other(s))'
    BY <2>1, <2>2, <2>3 DEF PublishInv, PublishOf, PairUnderWay
  <2> QED
    BY <1>1, <2>4 DEF PublishInv, Streams
<1>7. ASSUME NEW s \in Streams, PublishSst(s) \/ ClosePeer(s) PROVE PublishInv'
  <2>1. /\ UNCHANGED <<session, generation, pairedEnabled, lastPaired>>
        /\ events'[Other(s)] = events[Other(s)]
        /\ pc'[s] \in {"accept", "recv"} /\ Thread(s)
    BY <1>1, <1>7
       DEF PublishSst, ClosePeer, EventsHandled, Return, Step, BridgeTypeOK, CoordTypeOK, Thread
  <2> QED
    BY <1>2, <2>1 DEF Undisturbed, PairUnderWay
<1>8. ASSUME NEW s \in Streams,
             \/ Accept(s) \/ LeaveLoop(s) \/ PassBarrier(s) \/ Receive(s) \/ SendAlone(s)
             \/ CloseOwn(s)
      PROVE  PublishInv'
  <2>1. UNCHANGED <<session, generation, pairedEnabled, lastPaired, events>> /\ Thread(s)
    BY <1>8 DEF Accept, LeaveLoop, PassBarrier, Receive, SendAlone, CloseOwn, coordVars, Thread
  <2>2. pc'[s] \notin {"publish_sss", "publish_sst"}
    BY <1>8 DEF Accept, LeaveLoop, PassBarrier, Receive, SendAlone, CloseOwn, Step, BridgeTypeOK
  <2> QED
    BY <1>2, <2>1, <2>2 DEF Undisturbed, PairUnderWay
<1>9. CASE Core \/ Node \/ PassTime \/ UNCHANGED bridgeVars
  BY <1>9, OutsideThreads DEF PublishInv, PublishOf, PairUnderWay
<1> QED
  BY <1>3, <1>4, <1>5, <1>6, <1>7, <1>8, <1>9 DEF BridgeNext, Thread

-----------------------------------------------------------------------------
(* The topics.                                                             *)

(* Nothing enables paired mode again.                                      *)
LEMMA PairedModeIsPermanent ==
  ASSUME BridgeTypeOK, CoordInv, ThreadInv, [BridgeNext]_bridgeVars, pairedEnabled'
  PROVE  pairedEnabled
<1>1. ASSUME NEW s \in Streams, Thread(s) PROVE pairedEnabled
  <2>1. CASE Submit(s)
    BY <2>1, SubmitOutcome DEF Refused, Invalidate, DisablePairedMode, Waits, Completes
  <2>2. CASE EndConnection(s)
    BY <2>2 DEF EndConnection, ConnectionLost, Invalidate, Ignore, coordVars
  <2>3. CASE Register(s)
    BY <2>3 DEF Register, RegisterConnection
  <2>4. CASE \/ Accept(s) \/ LeaveLoop(s) \/ PassBarrier(s) \/ Receive(s) \/ SendAlone(s)
             \/ PublishSss(s) \/ PublishSst(s) \/ CloseOwn(s) \/ ClosePeer(s)
    BY <2>4 DEF Accept, LeaveLoop, PassBarrier, Receive, SendAlone, PublishSss, PublishSst,
                CloseOwn, ClosePeer, EventsHandled, coordVars
  <2> QED
    BY <1>1, <2>1, <2>2, <2>3, <2>4 DEF Thread
<1> QED
  BY <1>1, OutsideThreads DEF BridgeNext

(* A step that publishes nothing and completes no pair.                    *)
Silent ==
  /\ topic' = topic /\ lastPaired' = lastPaired
  /\ rosOk' => rosOk
  /\ \A r \in Streams :
       /\ pc'[r] \in {"publish_sss", "publish_sst"} => pc'[r] = pc[r]
       /\ pc[r] = "publish_sst" => pc'[r] = "publish_sst"
       /\ pc'[r] = "send" => pc[r] = "send" \/ ~pairedEnabled'

(* A silent step keeps what is said of the topics.                         *)
LEMMA SilentStep ==
  ASSUME BridgeTypeOK, CoordInv, ThreadInv, TopicInv, [BridgeNext]_bridgeVars, Silent
  PROVE  TopicInv'
<1>1. pairedEnabled' => pairedEnabled
  BY PairedModeIsPermanent
<1>2. AloneInv'
  BY <1>1 DEF Silent, TopicInv, AloneInv
<1>3. Abstract!Paired' => Abstract!Paired
  BY DEF Silent, Abstract!Paired, Abstract!Topics
<1>4. LastPublished'
  BY <1>3 DEF Silent, TopicInv, LastPublished, Streams
<1>5. NextPublished'
  BY DEF Silent, TopicInv, NextPublished
<1> QED
  BY <1>2, <1>4, <1>5 DEF TopicInv

(* Before a thread publishes a pair, both topics carry one pair, an        *)
(* earlier one; between its two messages the frame is out and the snapshot *)
(* is not.                                                                 *)
LEMMA BeforePublication ==
  ASSUME BridgeTypeOK, PublishInv, TopicInv, rosOk, NEW s \in Streams, PairUnderWay(s)
  PROVE  /\ Abstract!Paired
         /\ events[s].gen = lastPaired.gen /\ events[s].ordinal = lastPaired.ordinal
         /\ ~PairUnderWay(Other(s))
         /\ pc[s] = "publish_sss" =>
              /\ Abstract!SamePair(topic["sss"], topic["sst"])
              /\ Abstract!EarlierPair(topic["sss"], lastPaired)
              /\ Abstract!EarlierPair(topic["sst"], lastPaired)
         /\ pc[s] = "publish_sst" =>
              /\ Abstract!SamePair(topic["sss"], lastPaired)
              /\ Abstract!EarlierPair(topic["sst"], lastPaired)
              /\ ~Abstract!SamePair(topic["sss"], topic["sst"])
<1>1. /\ events[s].gen = lastPaired.gen /\ events[s].ordinal = lastPaired.ordinal
      /\ ~PairUnderWay(Other(s)) /\ pairedEnabled
  BY DEF PublishInv, PublishOf
<1>2. Abstract!Paired
  BY <1>1 DEF TopicInv, AloneInv, Abstract!Paired, Abstract!Topics, Streams
<1>3. \A r \in Streams : r = s \/ r = Other(s)
  BY DEF Streams, Other
<1>4. /\ topic["sss"].gen \in Nat /\ topic["sss"].ordinal \in Nat
      /\ topic["sst"].gen \in Nat /\ topic["sst"].ordinal \in Nat
      /\ lastPaired.gen \in Nat /\ lastPaired.ordinal \in Nat
  BY DEF BridgeTypeOK, CoordTypeOK, TopicMessages, Streams
<1>5. CASE pc[s] = "publish_sss"
  <2>1. \A r \in Streams : pc[r] # "publish_sst"
    BY <1>1, <1>3, <1>5 DEF PairUnderWay
  <2>2. /\ Abstract!SamePair(topic["sss"], topic["sst"])
        /\ Abstract!EarlierPair(topic["sss"], lastPaired)
    BY <1>2, <1>5, <2>1 DEF TopicInv, LastPublished, NextPublished
  <2> QED
    BY <1>1, <1>2, <1>5, <2>2 DEF Abstract!SamePair, Abstract!EarlierPair
<1>6. CASE pc[s] = "publish_sst"
  <2>1. /\ Abstract!SamePair(topic["sss"], lastPaired)
        /\ Abstract!EarlierPair(topic["sst"], lastPaired)
    BY <1>6 DEF TopicInv, NextPublished
  <2> QED
    BY <1>1, <1>2, <1>4, <1>6, <2>1 DEF Abstract!SamePair, Abstract!EarlierPair
<1> QED
  BY <1>5, <1>6 DEF PairUnderWay

(* What PublishSss and PublishSst put on a topic.                          *)
LEMMA HalfFields ==
  ASSUME NEW e, NEW s
  PROVE  /\ PairHalf(e, s).paired /\ PairHalf(e, s).gen = e.gen
         /\ PairHalf(e, s).ordinal = e.ordinal
  BY DEF PairHalf

(* Every step keeps the relation of the topics to the last pair.           *)
LEMMA TopicStep ==
  ASSUME BridgeTypeOK, CoordInv, ThreadInv, TokenInv, PublishInv, TopicInv,
         [BridgeNext]_bridgeVars
  PROVE  TopicInv'
<1>1. ASSUME NEW s \in Streams
      PROVE  Other(s) \in Streams /\ Other(s) # s /\ \A r \in Streams : r = s \/ r = Other(s)
  BY <1>1 DEF Streams, Other
<1>2. /\ topic["sss"].gen \in Nat /\ topic["sss"].ordinal \in Nat
      /\ topic["sst"].gen \in Nat /\ topic["sst"].ordinal \in Nat
      /\ lastPaired.gen \in Nat /\ lastPaired.ordinal \in Nat
      /\ "sss" \in Streams /\ "sst" \in Streams
      /\ topic \in [Streams -> TopicMessages]
  BY DEF BridgeTypeOK, CoordTypeOK, TopicMessages, Streams
<1>3. ASSUME NEW s \in Streams, Thread(s),
             topic' = topic, lastPaired' = lastPaired, rosOk' = rosOk,
             pc'[s] \notin {"publish_sss", "publish_sst"}, pc[s] # "publish_sst",
             pc'[s] = "send" => ~pairedEnabled'
      PROVE  TopicInv'
  <2>1. pc'[Other(s)] = pc[Other(s)]
    BY <1>1, <1>3, OtherThread
  <2>2. Silent
    BY <1>1, <1>3, <2>1 DEF Silent
  <2> QED
    BY <2>2, SilentStep
<1>4. ASSUME NEW s \in Streams, Submit(s) PROVE TopicInv'
  <2>1. /\ topic' = topic /\ rosOk' = rosOk /\ pc[s] = "submit" /\ Thread(s)
        /\ pc'[s] \in {"recv", "publish_sss", "close_own"}
    BY <1>4 DEF Submit, nodeVars, flagVars, rawVars, BridgeTypeOK, Thread
  <2>2. CASE Undisturbed(Other(s)) /\ pc'[s] # "publish_sss"
    BY <1>3, <2>1, <2>2 DEF Undisturbed
  <2>3. CASE /\ pc'[s] = "publish_sss" /\ pairedEnabled /\ ~PairUnderWay(Other(s))
             /\ lastPaired' # lastPaired
    <3>1. pc'[Other(s)] = pc[Other(s)]
      BY <1>1, <2>1, OtherThread
    <3>2. \A r \in Streams : pc[r] # "publish_sst" /\ pc[r] # "send"
      BY <1>1, <2>1, <2>3 DEF TopicInv, AloneInv, PairUnderWay
    <3>3. Abstract!Paired
      BY <2>3 DEF TopicInv, AloneInv, Abstract!Paired, Abstract!Topics, Streams
    <3>4. /\ LaterPair
          /\ lastPaired'.gen \in Nat /\ lastPaired'.ordinal \in Nat
      BY <2>1, CoordStep DEF BridgeNext, CoordInv, CoordTypeOK
    <3>5. rosOk => /\ Abstract!SamePair(topic["sss"], topic["sst"])
                   /\ Abstract!EarlierPair(topic["sss"], lastPaired')
      <4>1. rosOk => /\ topic["sss"].gen <= lastPaired.gen
                     /\ topic["sss"].gen = lastPaired.gen =>
                          topic["sss"].ordinal <= lastPaired.ordinal
                     /\ Abstract!SamePair(topic["sss"], topic["sst"])
        BY <3>2, <3>3 DEF TopicInv, LastPublished
      <4> QED
        BY <1>2, <2>3, <3>4, <4>1 DEF LaterPair, Abstract!EarlierPair
    <3>6. AloneInv'
      BY <1>1, <2>1, <2>3, <3>1, <3>2, <3>3, SubmitPublishes
         DEF AloneInv, Abstract!Paired, Abstract!Topics, Streams
    <3>7. LastPublished'
      <4>1. rosOk => /\ topic["sss"].gen <= lastPaired'.gen
                     /\ topic["sss"].gen = lastPaired'.gen =>
                          topic["sss"].ordinal <= lastPaired'.ordinal
        BY <1>2, <3>4, <3>5 DEF Abstract!EarlierPair
      <4> QED
        BY <2>1, <3>5, <4>1 DEF LastPublished
    <3>8. NextPublished'
      <4>1. \A r \in Streams : pc'[r] # "publish_sst" /\ (pc'[r] = "publish_sss" => r = s)
        BY <1>1, <2>1, <2>3, <3>1 DEF PairUnderWay
      <4> QED
        BY <2>1, <3>5, <4>1 DEF NextPublished
    <3> QED
      BY <3>6, <3>7, <3>8 DEF TopicInv
  <2> QED
    BY <1>4, <2>2, <2>3, SubmitPublishes
<1>5. ASSUME NEW s \in Streams, SendAlone(s) PROVE TopicInv'
  <2>1. /\ rosOk' = rosOk /\ pc[s] = "send" /\ pc'[s] = "recv" /\ Thread(s)
        /\ pairedEnabled' = pairedEnabled /\ lastPaired' = lastPaired
        /\ ~rosOk => topic' = topic
        /\ rosOk => topic' = [topic EXCEPT ![s] = Alone(Submitted(s))]
    BY <1>5 DEF SendAlone, Submitted, Step, coordVars, nodeVars, flagVars, rawVars,
                BridgeTypeOK, Thread
  <2>2. CASE ~rosOk
    BY <1>3, <2>1, <2>2
  <2>3. CASE rosOk
    <3>1. ~pairedEnabled
      BY <2>1 DEF TopicInv, AloneInv
    <3>2. ~topic'[s].paired
      BY <1>2, <2>1, <2>3 DEF Alone
    <3>3. ~Abstract!Paired'
      BY <3>2 DEF Abstract!Paired, Abstract!Topics, Streams
    <3>4. \A r \in Streams : ~PairUnderWay(r)'
      <4>1. ~PairUnderWay(Other(s))
        BY <1>1, <3>1 DEF PublishInv, PublishOf
      <4> QED
        BY <1>1, <2>1, <4>1, OtherThread DEF PairUnderWay
    <3> QED
      BY <2>1, <3>1, <3>3, <3>4
         DEF TopicInv, AloneInv, LastPublished, NextPublished, PairUnderWay
  <2> QED
    BY <2>2, <2>3
<1>6. ASSUME NEW s \in Streams, PublishSss(s) \/ PublishSst(s) PROVE TopicInv'
  <2> DEFINE r == IF pc[s] = "publish_sss" THEN "sss" ELSE "sst"
  <2>1. /\ rosOk' = rosOk /\ PairUnderWay(s) /\ Thread(s)
        /\ pairedEnabled' = pairedEnabled /\ lastPaired' = lastPaired
        /\ pc'[s] = IF pc[s] = "publish_sss" THEN "publish_sst" ELSE "recv"
        /\ ~rosOk => topic' = topic
        /\ rosOk => topic' = [topic EXCEPT ![r] = PairHalf(events[s], r)]
    BY <1>6 DEF PublishSss, PublishSst, AfterFrame, Step, EventsHandled, PairUnderWay,
                coordVars, nodeVars, flagVars, rawVars, BridgeTypeOK, Thread
  <2>2. ~PairUnderWay(Other(s)) /\ pairedEnabled
    BY <2>1 DEF PublishInv, PublishOf
  <2>3. pc'[Other(s)] = pc[Other(s)]
    BY <1>1, <2>1, OtherThread
  <2>4. AloneInv'
    <3>1. \A q \in Streams : topic[q].paired => topic'[q].paired
      BY <1>2, <2>1, HalfFields
    <3> QED
      BY <1>1, <2>1, <2>2, <2>3, <3>1 DEF TopicInv, AloneInv
  <2>5. CASE ~rosOk
    BY <2>1, <2>4, <2>5 DEF TopicInv, LastPublished, NextPublished
  <2>6. CASE rosOk
    <3>1. /\ events[s].gen = lastPaired.gen /\ events[s].ordinal = lastPaired.ordinal
      BY <2>1, <2>6, BeforePublication
    <3>2. CASE pc[s] = "publish_sss"
      <4>1. /\ topic'["sss"].gen = lastPaired.gen
            /\ topic'["sss"].ordinal = lastPaired.ordinal
            /\ topic'["sst"] = topic["sst"]
        BY <1>2, <2>1, <2>6, <3>1, <3>2, HalfFields
      <4>2. Abstract!EarlierPair(topic["sst"], lastPaired)
        BY <2>1, <2>6, <3>2, BeforePublication
      <4>3. LastPublished'
        BY <1>2, <2>1, <3>2, <4>1 DEF LastPublished
      <4>4. NextPublished'
        BY <1>1, <2>1, <2>2, <2>3, <3>2, <4>1, <4>2
           DEF NextPublished, PairUnderWay, Abstract!SamePair
      <4> QED
        BY <2>4, <4>3, <4>4 DEF TopicInv
    <3>3. CASE pc[s] = "publish_sst"
      <4>1. /\ topic'["sst"].gen = lastPaired.gen
            /\ topic'["sst"].ordinal = lastPaired.ordinal
            /\ topic'["sss"] = topic["sss"]
        BY <1>2, <2>1, <2>6, <3>1, <3>3, HalfFields
      <4>2. Abstract!SamePair(topic["sss"], lastPaired)
        BY <2>1, <2>6, <3>3, BeforePublication
      <4>3. LastPublished'
        BY <1>2, <2>1, <4>1, <4>2 DEF LastPublished, Abstract!SamePair
      <4>4. NextPublished'
        BY <1>1, <2>1, <2>2, <2>3, <3>3 DEF NextPublished, PairUnderWay
      <4> QED
        BY <2>4, <4>3, <4>4 DEF TopicInv
    <3> QED
      BY <2>1, <3>2, <3>3 DEF PairUnderWay
  <2> QED
    BY <2>5, <2>6
<1>7. ASSUME NEW s \in Streams,
             \/ Accept(s) \/ LeaveLoop(s) \/ Register(s) \/ PassBarrier(s) \/ Receive(s)
             \/ CloseOwn(s) \/ ClosePeer(s) \/ EndConnection(s)
      PROVE  TopicInv'
  <2>1. topic' = topic /\ rosOk' = rosOk /\ Thread(s)
    BY <1>7 DEF Accept, LeaveLoop, Register, PassBarrier, Receive, CloseOwn, ClosePeer,
                EndConnection, nodeVars, flagVars, rawVars, Thread
  <2>2. lastPaired' = lastPaired
    BY <1>7 DEF Accept, LeaveLoop, Register, RegisterConnection, PassBarrier, Receive, CloseOwn,
                ClosePeer, EventsHandled, EndConnection, ConnectionLost, Invalidate, Ignore,
                coordVars
  <2>3. /\ pc'[s] \notin {"publish_sss", "publish_sst"} /\ pc[s] # "publish_sst"
        /\ pc'[s] = "send" => ~pairedEnabled'
    <3>1. CASE Receive(s)
      BY <3>1 DEF Receive, coordVars, BridgeTypeOK
    <3>2. CASE Accept(s) \/ LeaveLoop(s) \/ Register(s) \/ PassBarrier(s)
      BY <3>2 DEF Accept, LeaveLoop, Register, PassBarrier, Step, BridgeTypeOK
    <3>3. CASE CloseOwn(s) \/ ClosePeer(s) \/ EndConnection(s)
      BY <3>3 DEF CloseOwn, ClosePeer, EndConnection, Step, BridgeTypeOK
    <3> QED
      BY <1>7, <3>1, <3>2, <3>3
  <2> QED
    BY <1>3, <2>1, <2>2, <2>3
<1>8. CASE Core \/ Node \/ PassTime \/ UNCHANGED bridgeVars
  <2>1. rosOk' => rosOk
    BY <1>8 DEF Core, ConnectCore, StreamHop, ExitOnSendError, Crash, Node, RestartCore, GiveUp,
         Interrupt, ReceiveRaw, TakeRaw, MainThread,
                DeliverRaw, CloseRaw, SkipRaw, Enqueue, Shutdown, CloseServer, StopCore,
                PassTime, bridgeVars, nodeVars, flagVars, rawVars
  <2> QED
    BY <1>8, <2>1, OutsideThreads, SilentStep DEF Silent
<1> QED
  BY <1>4, <1>5, <1>6, <1>7, <1>8 DEF BridgeNext, Thread

-----------------------------------------------------------------------------
(* The order of the connections.                                           *)

(* Taking the oldest entry of an increasing queue.                         *)
LEMMA QueueHead ==
  ASSUME NEW q \in Seq(Launches), q # <<>>, Increasing(q)
  PROVE  /\ Head(q) = q[1] /\ 1 \in DOMAIN q
         /\ Increasing(Tail(q))
         /\ \A i \in DOMAIN Tail(q) : i + 1 \in DOMAIN q /\ Tail(q)[i] = q[i + 1] /\ q[1] < q[i + 1]
<1>1. /\ Head(q) = q[1] /\ 1 \in DOMAIN q /\ DOMAIN q = 1 .. Len(q) /\ Len(q) \in Nat
  OBVIOUS
<1>2. \A i \in DOMAIN Tail(q) : i \in Nat \ {0} /\ i + 1 \in DOMAIN q /\ Tail(q)[i] = q[i + 1]
  OBVIOUS
<1>3. \A i \in DOMAIN Tail(q) : q[1] < q[i + 1]
  BY <1>1, <1>2 DEF Increasing
<1>4. Increasing(Tail(q))
  BY <1>2 DEF Increasing
<1> QED
  BY <1>1, <1>2, <1>3, <1>4

(* Adding to it an entry larger than all it holds.                         *)
LEMMA QueueAppend ==
  ASSUME NEW q \in Seq(Launches), Increasing(q), NEW r \in Launches,
         \A i \in DOMAIN q : q[i] < r
  PROVE  /\ Increasing(Append(q, r))
         /\ \A i \in DOMAIN Append(q, r) :
              Append(q, r)[i] = r \/ (i \in DOMAIN q /\ Append(q, r)[i] = q[i])
<1>1. /\ DOMAIN q = 1 .. Len(q) /\ Len(q) \in Nat
      /\ DOMAIN Append(q, r) = 1 .. Len(q) + 1
      /\ Append(q, r)[Len(q) + 1] = r
      /\ \A i \in DOMAIN q : Append(q, r)[i] = q[i]
  OBVIOUS
<1>2. \A i \in DOMAIN Append(q, r) : i = Len(q) + 1 \/ i \in DOMAIN q
  BY <1>1
<1>3. Increasing(Append(q, r))
  <2> SUFFICES ASSUME NEW i \in DOMAIN Append(q, r), NEW j \in DOMAIN Append(q, r), i < j
               PROVE  Append(q, r)[i] < Append(q, r)[j]
    BY DEF Increasing
  <2>1. i \in DOMAIN q
    BY <1>1
  <2> QED
    BY <1>1, <1>2, <2>1 DEF Increasing
<1> QED
  BY <1>1, <1>2, <1>3

(* Every step keeps the order of the connections and of what was published *)
(* alone.                                                                  *)
LEMMA OrderStep ==
  ASSUME BridgeTypeOK, CoordInv, ThreadInv, OrderInv, [BridgeNext]_bridgeVars
  PROVE  OrderInv'
<1> USE DEF OrderOf, PublishedBefore, OlderThanBacklog
<1>1. 0 \notin Launches /\ Launches \subseteq Nat
  BY BridgeAssumption DEF Launches
<1>2. ASSUME NEW s \in Streams,
             OrderOf(s), UNCHANGED <<opened, launch, topic>>,
             backlog'[s] = backlog[s], conn'[s] = conn[s],
             read'[s] = read[s], pc'[s] = "send" => pc[s] = "send"
      PROVE  OrderOf(s)'
  BY <1>2
<1>3. ASSUME NEW s \in Streams, NEW r \in Streams, r # s, Thread(s) PROVE OrderOf(r)'
  <2>1. /\ pc'[r] = pc[r] /\ conn'[r] = conn[r]
        /\ read'[r] = read[r] /\ backlog'[r] = backlog[r]
    BY <1>3, OtherThread
  <2>2. UNCHANGED <<opened, launch>>
    BY <1>3 DEF Thread, Accept, LeaveLoop, Register, PassBarrier, Receive, Submit, SendAlone,
                PublishSss, PublishSst, CloseOwn, ClosePeer, EndConnection, coreVars
  <2>3. topic'[r] = topic[r] \/ topic'[r].paired
    <3>1. CASE SendAlone(s)
      BY <1>3, <3>1 DEF SendAlone, BridgeTypeOK
    <3>2. CASE PublishSss(s) \/ PublishSst(s)
      BY <3>2, HalfFields DEF PublishSss, PublishSst, BridgeTypeOK
    <3>3. CASE ~SendAlone(s) /\ ~PublishSss(s) /\ ~PublishSst(s)
      BY <1>3, <3>3 DEF Thread, Accept, LeaveLoop, Register, PassBarrier, Receive, Submit,
                        CloseOwn, ClosePeer, EndConnection
    <3> QED
      BY <3>1, <3>2, <3>3
  <2> QED
    BY <2>1, <2>2, <2>3 DEF OrderInv
<1>4. ASSUME NEW s \in Streams, Thread(s) PROVE OrderOf(s)'
  <2>1. OrderOf(s)
    BY DEF OrderInv
  <2>2. CASE Accept(s)
    <3>1. /\ conn'[s] = Head(backlog[s]) /\ backlog'[s] = Tail(backlog[s])
          /\ backlog[s] # <<>> /\ backlog[s] \in Seq(Launches)
          /\ UNCHANGED <<opened, launch, topic>>
      BY <2>2 DEF Accept, coreVars, BridgeTypeOK
    <3>2. /\ Head(backlog[s]) = backlog[s][1] /\ 1 \in DOMAIN backlog[s]
          /\ Increasing(Tail(backlog[s]))
          /\ \A i \in DOMAIN Tail(backlog[s]) : /\ i + 1 \in DOMAIN backlog[s]
                                                /\ Tail(backlog[s])[i] = backlog[s][i + 1]
                                                /\ backlog[s][1] < backlog[s][i + 1]
      BY <2>1, <3>1, QueueHead
    <3> QED
      BY <2>1, <3>1, <3>2
  <2>3. CASE Receive(s)
    <3>1. /\ read'[s] = read[s] + 1 /\ read[s] \in Int
          /\ UNCHANGED <<opened, launch, topic, conn, backlog>>
      BY <2>3 DEF Receive, coreVars, BridgeTypeOK
    <3>2. topic[s].item.hop <= read[s] => topic[s].item.hop < read[s] + 1
                                          \/ topic[s].item.hop \notin Int
      BY <3>1
    <3>3. ~topic[s].paired => topic[s].item.hop \in Int
      BY <2>1 DEF Messages
    <3> QED
      BY <2>1, <3>1, <3>2, <3>3
  <2>4. CASE SendAlone(s)
    <3>1. /\ UNCHANGED <<opened, launch, conn, read, backlog>>
          /\ pc'[s] = "recv" /\ conn[s] # 0
          /\ ~rosOk => topic' = topic
          /\ rosOk => topic'[s].item = Submitted(s)
      BY <2>4 DEF SendAlone, Step, Submitted, Alone, coreVars, BridgeTypeOK, ThreadInv, ThreadOf,
                  Serving
    <3>2. /\ Submitted(s) \in Messages
          /\ Submitted(s).launch = conn[s] /\ Submitted(s).hop = read[s]
      <4>1. conn[s] \in Launches /\ read[s] \in 1 .. MaxHops
        BY <2>4, BridgeAssumption
           DEF SendAlone, Step, ThreadInv, ThreadOf, Serving, BridgeTypeOK
      <4> QED
        BY <4>1 DEF Submitted, Message, Messages
    <3>3. CASE rosOk
      <4>1. read[s] <= read[s]
        BY DEF BridgeTypeOK
      <4> QED
        BY <2>1, <3>1, <3>2, <3>3, <4>1
    <3>4. CASE ~rosOk
      BY <1>2, <2>1, <3>1, <3>4
    <3> QED
      BY <3>3, <3>4
  <2>5. CASE PublishSss(s) \/ PublishSst(s)
    <3>1. /\ UNCHANGED <<opened, launch, conn, read, backlog>>
          /\ pc'[s] # "send"
          /\ topic'[s] = topic[s] \/ topic'[s].paired
      BY <2>5, HalfFields
         DEF PublishSss, PublishSst, AfterFrame, Step, coreVars, BridgeTypeOK
    <3> QED
      BY <2>1, <3>1
  <2>6. CASE EndConnection(s)
    <3>1. /\ UNCHANGED <<opened, launch, topic, backlog>> /\ conn'[s] = 0
      BY <2>6 DEF EndConnection, coreVars, BridgeTypeOK
    <3>2. \A i \in DOMAIN backlog[s] : 0 < backlog[s][i]
      <4>1. \A i \in DOMAIN backlog[s] : backlog[s][i] \in Launches
        BY DEF BridgeTypeOK
      <4> QED
        BY <4>1 DEF Launches
    <3> QED
      BY <2>1, <3>1, <3>2
  <2>7. CASE \/ LeaveLoop(s) \/ Register(s) \/ PassBarrier(s) \/ Submit(s) \/ CloseOwn(s)
             \/ ClosePeer(s)
    <3>1. UNCHANGED <<opened, launch, topic, conn, read, backlog>>
      BY <2>7 DEF LeaveLoop, Register, PassBarrier, Submit, CloseOwn, ClosePeer, coreVars
    <3>2. pc'[s] # "send"
      BY <2>7 DEF LeaveLoop, Register, PassBarrier, Submit, CloseOwn, ClosePeer, Step, BridgeTypeOK
    <3> QED
      BY <1>2, <2>1, <3>1, <3>2
  <2> QED
    BY <1>4, <2>2, <2>3, <2>4, <2>5, <2>6, <2>7 DEF Thread
<1>5. ASSUME NEW s \in Streams, ConnectCore(s) PROVE OrderInv'
  <2>1. /\ UNCHANGED <<launch, topic, conn, read, pc>>
        /\ launch \in Launches /\ launch \notin opened[s]
        /\ opened'[s] = opened[s] \cup {launch}
        /\ backlog'[s] = Append(backlog[s], launch) /\ backlog[s] \in Seq(Launches)
        /\ \A r \in Streams \ {s} : opened'[r] = opened[r] /\ backlog'[r] = backlog[r]
    BY <1>5 DEF ConnectCore, BridgeTypeOK
  <2>2. \A r \in opened[s] : r < launch
    BY <1>1, <2>1 DEF OrderInv
  <2>3. \A i \in DOMAIN backlog[s] : backlog[s][i] < launch
    BY <2>2 DEF OrderInv
  <2>4. /\ Increasing(backlog'[s])
        /\ \A i \in DOMAIN backlog'[s] :
             \/ backlog'[s][i] = launch
             \/ i \in DOMAIN backlog[s] /\ backlog'[s][i] = backlog[s][i]
    <3>1. Increasing(backlog[s])
      BY DEF OrderInv
    <3> QED
      BY <2>1, <2>3, <3>1, QueueAppend
  <2>5. conn[s] < launch /\ launch \in 1 .. launch
    BY <1>1, <2>1, <2>2 DEF OrderInv, Launches
  <2>6. OrderOf(s)'
    <3>1. OrderOf(s)
      BY DEF OrderInv
    <3> HIDE DEF OrderOf
    <3>2. /\ opened[s] \subseteq 1 .. launch
          /\ conn[s] # 0 => conn[s] \in opened[s]
          /\ \A i \in DOMAIN backlog[s] : backlog[s][i] \in opened[s]
          /\ \A i \in DOMAIN backlog[s] : conn[s] < backlog[s][i]
          /\ ~topic[s].paired => PublishedBefore(topic[s].item, s)
      BY <3>1 DEF OrderOf
    <3>3. \A i \in DOMAIN backlog'[s] : backlog'[s][i] \in opened'[s] /\ conn[s] < backlog'[s][i]
      BY <2>1, <2>4, <2>5, <3>2
    <3>4. ~topic[s].paired =>
            \A i \in DOMAIN backlog'[s] : topic[s].item.launch < backlog'[s][i]
      BY <2>2, <2>4, <3>2
    <3> QED
      BY <2>1, <2>4, <2>5, <3>2, <3>3, <3>4 DEF OrderOf
  <2>7. ASSUME NEW r \in Streams \ {s} PROVE OrderOf(r)'
    BY <2>1, <2>7 DEF OrderInv
  <2> QED
    BY <2>6, <2>7 DEF OrderInv
<1>6. CASE RestartCore
  <2>1. /\ launch' = launch + 1 /\ launch \in Int
        /\ UNCHANGED <<opened, topic, conn, read, pc, backlog>>
    BY <1>1, <1>6 DEF RestartCore, threadVars, BridgeTypeOK, Launches
  <2>2. 1 .. launch \subseteq 1 .. launch'
    BY <2>1
  <2> QED
    BY <2>1, <2>2 DEF OrderInv
<1>7. CASE UNCHANGED <<opened, launch, topic, conn, read, pc, backlog>>
  BY <1>2, <1>7 DEF OrderInv
<1>8. \/ \E s \in Streams : Thread(s) \/ ConnectCore(s)
      \/ RestartCore
      \/ UNCHANGED <<opened, launch, topic, conn, read, pc, backlog>>
  BY DEF BridgeNext, Core, StreamHop, ExitOnSendError, Crash, Node, GiveUp,
         Interrupt, ReceiveRaw, TakeRaw, MainThread,
                DeliverRaw, CloseRaw, SkipRaw, Enqueue, Shutdown, CloseServer, StopCore,
                PassTime, bridgeVars, threadVars, coreVars
<1> QED
  BY <1>3, <1>4, <1>5, <1>6, <1>7, <1>8 DEF OrderInv

-----------------------------------------------------------------------------
(* The theorems.                                                           *)

(* The bridge starts within its invariant.                                 *)
LEMMA BridgeInitInv == BridgeInit => BridgeInv
<1> SUFFICES ASSUME BridgeInit PROVE BridgeInv
  OBVIOUS
<1>1. CoordInv
  BY InitInv DEF BridgeInit
<1>2. BridgeTypeOK
  <2>1. NothingPublished \in TopicMessages
    BY DEF NothingPublished, TopicMessages
  <2>2. 1 \in Launches /\ 0 \in 0 .. MaxHops
    BY BridgeAssumption DEF Launches
  <2>3. stopped \in [Streams -> BOOLEAN]
    BY DEF BridgeInit
  <2>4. coreAlive \in BOOLEAN /\ failed \in BOOLEAN /\ rosOk \in BOOLEAN
    BY Zenon DEF BridgeInit
  <2>5. rawSocket \in BOOLEAN /\ rawQueued \in 0 .. RawQueueSize /\ stamps \in Nat
    BY BridgeAssumption DEF BridgeInit
  <2> QED
    BY <1>1, <2>1, <2>2, <2>3, <2>4, <2>5
       DEF BridgeInit, BridgeTypeOK, ThreadStates, NoToken, CoordInv
<1>3. \A s \in Streams : /\ pc[s] = "accept" /\ conn[s] = 0 /\ connToken[s] = NoToken
                         /\ read[s] = 0 /\ backlog[s] = <<>> /\ opened[s] = {}
                         /\ topic[s] = NothingPublished
  BY DEF BridgeInit
<1>4. /\ \A s \in Streams : session.token[s] = NoToken
      /\ session.nextSssOrdinal = 1 /\ session.baseline = None
      /\ lastPaired = [gen |-> 0, ordinal |-> 0, stamp |-> 0]
  BY ClearedFields DEF BridgeInit, CoordInit, NoTokens
<1>5. ThreadInv /\ TokenInv
  BY <1>3, <1>4 DEF ThreadInv, ThreadOf, Serving, TokenInv, TokenOf, Unstarted
<1>6. PublishInv
  BY <1>3 DEF PublishInv, PublishOf, PairUnderWay
<1>7. TopicInv
  BY <1>3, <1>4
     DEF TopicInv, AloneInv, LastPublished, NextPublished, NothingPublished,
         Abstract!SamePair, Streams
<1>8. OrderInv
  BY <1>3 DEF OrderInv, OrderOf, OlderThanBacklog, Increasing, NothingPublished
<1> QED
  BY <1>1, <1>2, <1>5, <1>6, <1>7, <1>8 DEF BridgeInv

(* Every step of the bridge keeps it there.                                *)
LEMMA BridgeInvStep ==
  ASSUME BridgeInv, [BridgeNext]_bridgeVars
  PROVE  BridgeInv'
<1> USE DEF BridgeInv
<1>1. BridgeTypeOK'
  BY BridgeTypesStep
<1>2. CoordInv'
  BY CoordStep
<1>3. ThreadInv' /\ TokenInv'
  BY ThreadStep, TokenStep
<1>4. PublishInv'
  BY PublishStep
<1>5. TopicInv'
  BY TopicStep
<1>6. OrderInv'
  BY OrderStep
<1> QED
  BY <1>1, <1>2, <1>3, <1>4, <1>5, <1>6

(* The inductive invariant of the bridge: what the two socket threads, the *)
(* coordinator's session, the pair under way, the topics and the           *)
(* connections of successive cores have to do with each other.             *)
THEOREM BridgeInvariant == BridgeSpec => []BridgeInv
<1>1. BridgeInit => BridgeInv
  BY BridgeInitInv
<1>2. BridgeInv /\ [BridgeNext]_bridgeVars => BridgeInv'
  BY BridgeInvStep
<1> QED
  BY <1>1, <1>2, PTL DEF BridgeSpec

(* The threads submit hop numbers as timeStamps, so no call raises before  *)
(* the second-tier check, and the bounds of the coordinator hold.          *)
LEMMA BridgeBounds ==
  ASSUME BridgeTypeOK, CoordInv, ThreadInv, BoundsInv(TRUE, session), [BridgeNext]_bridgeVars
  PROVE  BoundsInv(TRUE, session')
<1>1. ASSUME UNCHANGED session PROVE BoundsInv(TRUE, session')
  BY <1>1
<1>2. ASSUME NEW s \in Streams, Thread(s) PROVE BoundsInv(TRUE, session')
  <2>1. CASE Register(s)
    BY <2>1, RegisterConnectionBounds DEF Register
  <2>2. CASE Submit(s)
    <3>1. /\ connToken[s] \in Nat \ {NoToken} /\ Submitted(s) \in Items
          /\ read[s] \in Int \cup {None} /\ read[s] # None
      BY <2>2, SubmitTypes, ItemsAssumption DEF Submit
    <3>2. now \in Nat
      BY DEF CoordInv, CoordTypeOK
    <3>3. CASE s = "sss"
      BY <2>2, <3>1, <3>2, <3>3, SubmitSssFrameBounds DEF Submit, Submitted
    <3>4. CASE s = "sst"
      BY <2>2, <3>1, <3>2, <3>4, SubmitSstSnapshotBounds DEF Submit, Submitted
    <3> QED
      BY <3>3, <3>4 DEF Streams
  <2>3. CASE EndConnection(s)
    <3>1. session' = session \/ session' = ClearedSession
      BY <2>3 DEF EndConnection, ConnectionLost, Invalidate, Ignore, coordVars
    <3> QED
      BY <3>1, ClearedBounds
  <2>4. CASE \/ Accept(s) \/ LeaveLoop(s) \/ PassBarrier(s) \/ Receive(s) \/ SendAlone(s)
             \/ PublishSss(s) \/ PublishSst(s) \/ CloseOwn(s) \/ ClosePeer(s)
    <3>1. UNCHANGED session
      BY <2>4 DEF Accept, LeaveLoop, PassBarrier, Receive, SendAlone, PublishSss, PublishSst,
                  CloseOwn, ClosePeer, EventsHandled, coordVars
    <3> QED
      BY <1>1, <3>1
  <2> QED
    BY <1>2, <2>1, <2>2, <2>3, <2>4 DEF Thread
<1>3. CASE Core \/ Node \/ UNCHANGED bridgeVars
  <2>1. UNCHANGED session
    BY <1>3 DEF Core, ConnectCore, StreamHop, ExitOnSendError, Crash, Node, RestartCore, GiveUp,
                Interrupt, ReceiveRaw, TakeRaw, MainThread,
                DeliverRaw, CloseRaw, SkipRaw, Enqueue, Shutdown, CloseServer, StopCore,
                bridgeVars, coordVars
  <2> QED
    BY <1>1, <2>1
<1>4. CASE PassTime
  BY <1>1, <1>4 DEF PassTime, Tick
<1> QED
  BY <1>2, <1>3, <1>4 DEF BridgeNext

(* What the coordinator promises to any callers it keeps for the bridge's  *)
(* threads: between two steps no matched pair is left, nothing is pending  *)
(* for a stream without a token, no stream runs ahead beyond the bound,    *)
(* and no session survives its third violation (_check_tier_two_locked).   *)
THEOREM SessionsOfBridge ==
  BridgeSpec => [](/\ NoMatchedPairLeft /\ NothingPendingWithoutToken
                   /\ PendingBounded /\ ViolationsBelowLimit)
<1>1. BridgeInit => BoundsInv(TRUE, session)
  BY ClearedBounds DEF BridgeInit, CoordInit
<1>2. BridgeInv /\ BoundsInv(TRUE, session) /\ [BridgeNext]_bridgeVars => BoundsInv(TRUE, session)'
  BY BridgeBounds DEF BridgeInv, BoundsInv
<1>3. BridgeInv /\ BoundsInv(TRUE, session) =>
        /\ NoMatchedPairLeft /\ NothingPendingWithoutToken
        /\ PendingBounded /\ ViolationsBelowLimit
  BY DEF BridgeInv, CoordInv, SessionInv, Disjoint, BoundsInv, NoMatchedPairLeft,
         NothingPendingWithoutToken, PendingBounded, ViolationsBelowLimit
<1> QED
  BY <1>1, <1>2, <1>3, BridgeInvariant, PTL DEF BridgeSpec

(* The pairs that the two threads complete, across all sessions, crashes   *)
(* and restarts of the core, advance in (session, ordinal) and in stamps   *)
(* (_try_pair_locked).                                                     *)
THEOREM PairsOfBridgeAdvance == BridgeSpec => PairsAdvance /\ StampsMonotone
<1>1. BridgeInv /\ [BridgeNext]_bridgeVars =>
        /\ [lastPaired' # lastPaired => EarlierPair(lastPaired, lastPaired')]_coordVars
        /\ [/\ lastPaired'.stamp >= lastPaired.stamp
            /\ lastPaired'.stamp <= now']_coordVars
  <2> SUFFICES ASSUME BridgeInv, [BridgeNext]_bridgeVars
               PROVE  /\ lastPaired' # lastPaired => EarlierPair(lastPaired, lastPaired')
                      /\ lastPaired'.stamp >= lastPaired.stamp
                      /\ lastPaired'.stamp <= now'
    OBVIOUS
  <2>1. LaterPair /\ CoordInv'
    BY CoordStep DEF BridgeInv
  <2>2. lastPaired.stamp \in Int /\ lastPaired'.stamp \in Int
    BY <2>1 DEF BridgeInv, CoordInv, CoordTypeOK
  <2> QED
    BY <2>1, <2>2 DEF LaterPair, EarlierPair
<1> QED
  BY <1>1, BridgeInvariant, PTL DEF BridgeSpec, PairsAdvance, StampsMonotone

(* The bridge keeps its types: in particular no thread reads more than the *)
(* core has sent, and a pair that is published is one that the coordinator *)
(* has returned (_handle_coordinator_events, publish_pair).                *)
THEOREM BridgeTypesHold == BridgeSpec => []BridgeTypeOK
<1>1. BridgeInv => BridgeTypeOK
  BY DEF BridgeInv
<1> QED
  BY <1>1, BridgeInvariant, PTL

(* Every publication is a step of PairedTopics, and every other step       *)
(* leaves the topics alone.                                                *)
LEMMA PublicationStep ==
  ASSUME BridgeInv, [BridgeNext]_bridgeVars
  PROVE  [Abstract!TopicsNext]_topic
<1> USE DEF BridgeInv
<1>1. /\ "sss" \in Streams /\ "sst" \in Streams /\ Abstract!Topics = Streams
      /\ topic \in [Streams -> TopicMessages]
  BY DEF Streams, Abstract!Topics, BridgeTypeOK
<1>2. ASSUME NEW s \in Streams, PublishSss(s), rosOk
      PROVE  Abstract!PublishFrame
  <2>1. /\ pc[s] = "publish_sss" /\ PairUnderWay(s)
        /\ topic' = [topic EXCEPT !["sss"] = PairHalf(events[s], "sss")]
    BY <1>2 DEF PublishSss, Step, PairUnderWay
  <2>2. topic'["sss"] = PairHalf(events[s], "sss")
    BY <1>1, <2>1
  <2>3. topic' = [topic EXCEPT !["sss"] = topic'["sss"]]
    BY <2>1, <2>2, Zenon
  <2>4. /\ topic'["sss"].paired
        /\ topic'["sss"].gen = lastPaired.gen /\ topic'["sss"].ordinal = lastPaired.ordinal
    <3>1. /\ events[s].gen = lastPaired.gen /\ events[s].ordinal = lastPaired.ordinal
      BY <1>2, <2>1, BeforePublication
    <3> QED
      BY <2>1, <2>2, <3>1, HalfFields
  <2>5. /\ Abstract!Paired
        /\ Abstract!SamePair(topic["sss"], topic["sst"])
        /\ Abstract!EarlierPair(topic["sss"], lastPaired)
    BY <1>2, <2>1, BeforePublication
  <2> QED
    BY <2>3, <2>4, <2>5 DEF Abstract!PublishFrame, Abstract!HalfPublished, Abstract!EarlierPair
<1>3. ASSUME NEW s \in Streams, PublishSst(s), rosOk
      PROVE  Abstract!PublishSnapshot
  <2>1. /\ pc[s] = "publish_sst" /\ PairUnderWay(s)
        /\ topic' = [topic EXCEPT !["sst"] = PairHalf(events[s], "sst")]
    BY <1>3 DEF PublishSst, Step, PairUnderWay
  <2>2. topic'["sst"] = PairHalf(events[s], "sst")
    BY <1>1, <2>1
  <2>3. topic' = [topic EXCEPT !["sst"] = topic'["sst"]]
    BY <2>1, <2>2, Zenon
  <2>4. /\ topic'["sst"].paired
        /\ topic'["sst"].gen = lastPaired.gen /\ topic'["sst"].ordinal = lastPaired.ordinal
    <3>1. /\ events[s].gen = lastPaired.gen /\ events[s].ordinal = lastPaired.ordinal
      BY <1>3, <2>1, BeforePublication
    <3> QED
      BY <2>1, <2>2, <3>1, HalfFields
  <2>5. /\ Abstract!Paired
        /\ Abstract!SamePair(topic["sss"], lastPaired)
        /\ ~Abstract!SamePair(topic["sss"], topic["sst"])
    BY <1>3, <2>1, BeforePublication
  <2> QED
    BY <2>3, <2>4, <2>5 DEF Abstract!PublishSnapshot, Abstract!HalfPublished, Abstract!SamePair
<1>4. ASSUME NEW s \in Streams, SendAlone(s), rosOk
      PROVE  Abstract!PublishAlone(s)
  <2>1. /\ pc[s] = "send" /\ conn[s] # 0
        /\ topic' = [topic EXCEPT ![s] = Alone(Submitted(s))]
    BY <1>4 DEF SendAlone, Step, Submitted, ThreadInv, ThreadOf, Serving
  <2>2. topic'[s] = Alone(Submitted(s))
    BY <1>1, <2>1
  <2>3. topic' = [topic EXCEPT ![s] = topic'[s]]
    BY <2>1, <2>2, Zenon
  <2>4. /\ ~topic'[s].paired
        /\ topic'[s].item.launch = conn[s] /\ topic'[s].item.hop = read[s]
    BY <2>1, <2>2 DEF Alone, Submitted, Message
  <2>5. ~Abstract!HalfPublished
    <3>1. ~pairedEnabled
      BY <2>1 DEF TopicInv, AloneInv
    <3>2. \A r \in Streams : pc[r] # "publish_sst"
      BY <3>1 DEF PublishInv, PublishOf, PairUnderWay
    <3> QED
      BY <1>4, <3>2 DEF TopicInv, LastPublished, Abstract!HalfPublished
  <2>6. ~topic[s].paired => Abstract!EarlierItem(topic[s].item, topic'[s].item)
    BY <2>1, <2>4 DEF OrderInv, OrderOf, PublishedBefore, Abstract!EarlierItem
  <2> QED
    BY <2>3, <2>4, <2>5, <2>6 DEF Abstract!PublishAlone
<1>5. \/ \E s \in Streams : rosOk /\ (PublishSss(s) \/ PublishSst(s) \/ SendAlone(s))
      \/ topic' = topic
  <2>1. ASSUME NEW s \in Streams, Thread(s)
        PROVE  (rosOk /\ (PublishSss(s) \/ PublishSst(s) \/ SendAlone(s))) \/ topic' = topic
    BY <2>1 DEF Thread, Accept, LeaveLoop, Register, PassBarrier, Receive, Submit, SendAlone,
                PublishSss, PublishSst, CloseOwn, ClosePeer, EndConnection
  <2> QED
    BY <2>1, OutsideThreads DEF BridgeNext
<1> QED
  BY <1>1, <1>2, <1>3, <1>4, <1>5 DEF Abstract!TopicsNext

(* The two topics behave as PairedTopics promises, for any number of cores *)
(* and hops: each pair appears as its frame and then its snapshot with     *)
(* nothing between them, pairs advance, and after the fallback to single   *)
(* streams each topic keeps the order of its core (publish_pair,           *)
(* _send_sss, _send_sst, _handle_coordinator_events).                      *)
THEOREM BridgeImplementsPairedTopics == BridgeSpec => ImplementsPairedTopics
<1>1. BridgeInit => Abstract!TopicsInit
  <2> SUFFICES ASSUME BridgeInit PROVE Abstract!TopicsInit
    OBVIOUS
  <2>1. topic["sss"] = NothingPublished /\ topic["sst"] = NothingPublished
    BY DEF BridgeInit, Streams
  <2> QED
    BY <2>1 DEF NothingPublished, Abstract!TopicsInit, Abstract!HalfPublished, Abstract!Paired,
                Abstract!Topics, Abstract!SamePair
<1>2. BridgeInv /\ [BridgeNext]_bridgeVars => [Abstract!TopicsNext]_topic
  BY PublicationStep
<1> QED
  BY <1>1, <1>2, BridgeInvariant, PTL DEF BridgeSpec, ImplementsPairedTopics, Abstract!TopicsSpec

-----------------------------------------------------------------------------
(* Pairs of one hop.                                                       *)

(* Ordinals are hops: of the pending items, of the pair under way, and of  *)
(* the next frame and the first snapshot of a connection that the session  *)
(* still counts.                                                           *)
Counted(s) == session.token[s] # NoToken /\ session.token[s] = connToken[s]

PendingOfHop ==
  \A s \in Streams : \A k \in DOMAIN session.pending[s] : session.pending[s][k].item.hop = k

PairsOfHop == \A s \in Streams : PairUnderWay(s) => events[s].sss.hop = events[s].sst.hop

FramesCounted ==
  pairedEnabled /\ Counted("sss") =>
    session.nextSssOrdinal = IF pc["sss"] = "submit" THEN read["sss"] ELSE read["sss"] + 1

SnapshotsCounted ==
  pairedEnabled =>
    /\ session.baseline # None => session.baseline = 1
    /\ Counted("sst") /\ session.baseline = None =>
         read["sst"] = IF pc["sst"] = "submit" THEN 1 ELSE 0

HopInv == PendingOfHop /\ PairsOfHop /\ FramesCounted /\ SnapshotsCounted

(* The ordinal of an accepted message is its hop.                          *)
LEMMA AcceptedHop ==
  ASSUME BridgeInv, HopInv, NEW s \in Streams, pc[s] = "submit",
         NEW ss, NEW k, Accepted(s, ss, k)
  PROVE  /\ k = read[s]
         /\ \A r \in Streams : \A j \in DOMAIN ss.pending[r] : ss.pending[r][j].item.hop = j
         /\ s = "sss" => /\ ss.nextSssOrdinal = read["sss"] + 1
                         /\ ss.baseline = session.baseline
         /\ s = "sst" => /\ ss.nextSssOrdinal = session.nextSssOrdinal
                         /\ ss.baseline = 1
<1> USE DEF BridgeInv
<1>1. /\ Counted(s) /\ pairedEnabled
      /\ Submitted(s).hop = read[s] /\ read[s] \in Int /\ read[s] # None
  BY SubmitTypes DEF Accepted, Counted
<1>2. CASE s = "sss"
  <2>1. /\ k = session.nextSssOrdinal /\ ss.nextSssOrdinal = k + 1
        /\ ss.baseline = session.baseline
        /\ Added(s, Submitted(s), ss, k)
    BY <1>2 DEF Accepted, Takes, TakesFrame
  <2>2. k = read[s]
    BY <1>1, <1>2, <2>1 DEF HopInv, FramesCounted
  <2> QED
    BY <1>1, <1>2, <2>1, <2>2 DEF HopInv, PendingOfHop, Added
<1>3. CASE s = "sst"
  <2>1. /\ ss.nextSssOrdinal = session.nextSssOrdinal
        /\ ss.baseline = IF session.baseline = None THEN read[s] ELSE session.baseline
        /\ k = read[s] - ss.baseline + 1
        /\ Added(s, Submitted(s), ss, k)
    BY <1>3 DEF Accepted, Takes, TakesSnapshot, SstOrdinal
  <2>2. ss.baseline = 1
    BY <1>1, <1>3, <2>1 DEF HopInv, SnapshotsCounted
  <2>3. k = read[s]
    BY <1>1, <2>1, <2>2
  <2> QED
    BY <1>1, <1>3, <2>1, <2>2, <2>3 DEF HopInv, PendingOfHop, Added
<1> QED
  BY <1>2, <1>3 DEF Streams

(* A submission keeps ordinals and hops together.                          *)
LEMMA SubmitHops ==
  ASSUME BridgeInv, HopInv, NEW s \in Streams, Submit(s)
  PROVE  HopInv'
<1> USE DEF BridgeInv
<1>1. /\ pc[s] = "submit" /\ connToken' = connToken /\ read' = read /\ Thread(s)
      /\ pc'[s] # "submit"
      /\ pc'[s] \in {"publish_sss", "publish_sst"} => events'[s].type = "pair"
  BY DEF Submit, BridgeTypeOK, Thread
<1>2. Other(s) \in Streams /\ Other(s) # s /\ \A r \in Streams : r = s \/ r = Other(s)
  BY DEF Streams, Other
<1>3. "sss" \in Streams /\ "sst" \in Streams
  BY DEF Streams
<1>4. \A r \in Streams : r # s => pc'[r] = pc[r]
  BY <1>1, OtherThread
<1>5. \A e : Return(s, e) => events'[s] = e /\ events'[Other(s)] = events[Other(s)]
  BY <1>2 DEF Return, BridgeTypeOK, CoordTypeOK
<1>6. ASSUME events'[Other(s)] = events[Other(s)],
             events'[s].type = "pair" => events'[s].sss.hop = events'[s].sst.hop
      PROVE  PairsOfHop'
  <2>1. PairUnderWay(Other(s))' => events'[Other(s)].sss.hop = events'[Other(s)].sst.hop
    BY <1>2, <1>4, <1>6 DEF HopInv, PairsOfHop, PairUnderWay
  <2>2. PairUnderWay(s)' => events'[s].sss.hop = events'[s].sst.hop
    BY <1>1, <1>6 DEF PairUnderWay
  <2> QED
    BY <1>2, <2>1, <2>2 DEF PairsOfHop
<1>7. NoEvent.type # "pair" /\ SessionInvalidated.type # "pair" /\ PairedModeDisabled.type # "pair"
  BY DEF NoEvent, SessionInvalidated, PairedModeDisabled
<1>8. CASE Refused(s)
  <2>1. PairsOfHop'
    BY <1>5, <1>6, <1>7, <1>8 DEF Refused
  <2>2. PendingOfHop'
    BY <1>8 DEF Refused, Keeps, HopInv, PendingOfHop
  <2>3. FramesCounted'
    BY <1>1, <1>3, <1>4, <1>8 DEF Refused, Keeps, HopInv, FramesCounted, Counted
  <2>4. SnapshotsCounted'
    BY <1>1, <1>3, <1>4, <1>8 DEF Refused, Keeps, HopInv, SnapshotsCounted, Counted
  <2> QED
    BY <2>1, <2>2, <2>3, <2>4 DEF HopInv
<1>9. CASE Invalidate(s)
  <2>1. PairsOfHop'
    BY <1>5, <1>6, <1>7, <1>9 DEF Invalidate
  <2> QED
    BY <1>3, <1>9, <2>1, Invalidated
       DEF HopInv, PendingOfHop, FramesCounted, SnapshotsCounted, Counted
<1>10. CASE DisablePairedMode(s)
  <2>1. PairsOfHop'
    BY <1>5, <1>6, <1>7, <1>10 DEF DisablePairedMode
  <2>2. session'.pending = BothEmpty
    BY <1>10 DEF DisablePairedMode, BridgeTypeOK, CoordTypeOK, IsSession, HasSessionFields
  <2>3. PendingOfHop'
    BY <2>2, NothingPendingType DEF PendingOfHop, BothEmpty
  <2> QED
    BY <1>10, <2>1, <2>3 DEF DisablePairedMode, HopInv, FramesCounted, SnapshotsCounted
<1>11. ASSUME NEW ss, NEW k, Accepted(s, ss, k), Waits(s, ss) \/ Completes(s, k, ss)
       PROVE  HopInv'
  <2>1. /\ \A r \in Streams : \A j \in DOMAIN ss.pending[r] : ss.pending[r][j].item.hop = j
        /\ s = "sss" => /\ ss.nextSssOrdinal = read["sss"] + 1
                        /\ ss.baseline = session.baseline
        /\ s = "sst" => /\ ss.nextSssOrdinal = session.nextSssOrdinal
                        /\ ss.baseline = 1
    BY <1>1, <1>11, AcceptedHop
  <2>2. /\ Keeps(ss) /\ ss.token = session.token /\ pairedEnabled
    BY <1>11 DEF Waits, Completes, Accepted, Takes, TakesFrame, TakesSnapshot, Added
  <2>3. PendingOfHop'
    BY <2>1, <2>2 DEF Keeps, PendingOfHop
  <2>4. PairsOfHop'
    <3>1. CASE Waits(s, ss)
      BY <1>5, <1>6, <1>7, <3>1 DEF Waits
    <3>2. CASE Completes(s, k, ss)
      <4>1. events'[s].sss.hop = k /\ events'[s].sst.hop = k
        BY <1>3, <2>1, <3>2 DEF Completes
      <4>2. events'[Other(s)] = events[Other(s)]
        BY <1>2, <3>2 DEF Completes
      <4> QED
        BY <1>6, <4>1, <4>2
    <3> QED
      BY <1>11, <3>1, <3>2
  <2>5. FramesCounted'
    <3>1. CASE s = "sss"
      BY <1>1, <2>1, <2>2, <3>1 DEF Keeps, FramesCounted
    <3>2. CASE s = "sst"
      BY <1>1, <1>3, <1>4, <2>1, <2>2, <3>2 DEF Keeps, HopInv, FramesCounted, Counted
    <3> QED
      BY <3>1, <3>2 DEF Streams
  <2>6. SnapshotsCounted'
    <3>1. CASE s = "sss"
      BY <1>1, <1>3, <1>4, <2>1, <2>2, <3>1 DEF Keeps, HopInv, SnapshotsCounted, Counted
    <3>2. CASE s = "sst"
      BY <2>1, <2>2, <3>2, NoneAssumption DEF Keeps, SnapshotsCounted
    <3> QED
      BY <3>1, <3>2 DEF Streams
  <2> QED
    BY <2>3, <2>4, <2>5, <2>6 DEF HopInv
<1> QED
  BY <1>8, <1>9, <1>10, <1>11, SubmitOutcome

(* Every step does, if the first snapshot of a connection is well formed.  *)
LEMMA HopStep ==
  ASSUME 1 \notin MalformedHops, BridgeInv, HopInv, [BridgeNext]_bridgeVars
  PROVE  HopInv'
<1> USE DEF BridgeInv
<1>1. "sss" \in Streams /\ "sst" \in Streams
  BY DEF Streams
<1>2. ASSUME NEW s \in Streams
      PROVE  Other(s) \in Streams /\ Other(s) # s /\ \A r \in Streams : r = s \/ r = Other(s)
  BY <1>2 DEF Streams, Other
<1>3. ASSUME NEW s \in Streams, Register(s) PROVE HopInv'
  <2>1. /\ pairedEnabled' = pairedEnabled /\ read' = read /\ Thread(s)
        /\ pc[s] = "register" /\ pc'[s] = "barrier"
        /\ events'[Other(s)] = events[Other(s)]
    BY <1>2, <1>3
       DEF Register, RegisterConnection, Step, Return, BridgeTypeOK, CoordTypeOK, Thread
  <2>2. /\ ~Full(session) /\ session'.nextSssOrdinal = 1 /\ session'.baseline = None
        /\ \A r \in Streams \ {s} : session'.token[r] = session.token[r]
    BY <1>3, Registers
  <2>3. pc'[Other(s)] = pc[Other(s)] /\ connToken'[Other(s)] = connToken[Other(s)]
    BY <1>2, <2>1, OtherThread
  <2>4. \A r \in Streams : Counted(r)' => read[r] = 0 /\ pc'[r] # "submit"
    <3>1. read[s] = 0 /\ pc'[s] # "submit"
      BY <2>1 DEF ThreadInv, ThreadOf
    <3>2. Counted(Other(s))' => read[Other(s)] = 0 /\ pc'[Other(s)] # "submit"
      BY <1>2, <2>2, <2>3 DEF Counted, TokenInv, TokenOf
    <3> QED
      BY <1>2, <3>1, <3>2
  <2>5. PendingOfHop'
    <3>1. PICK old, tokens : /\ old = session \/ old = ClearedSession
                             /\ session' = [old EXCEPT !.token = tokens]
      BY <1>3 DEF Register, RegisterConnection
    <3>2. HasSessionFields(old)
      BY <3>1, ClearedFields DEF BridgeTypeOK, CoordTypeOK, IsSession
    <3>3. session'.pending = old.pending
      BY <3>1, <3>2, TokenFields
    <3> QED
      BY <3>1, <3>3, ClearedFields, NothingPendingType DEF HopInv, PendingOfHop, BothEmpty
  <2>6. PairsOfHop'
    BY <1>2, <2>1, <2>3 DEF HopInv, PairsOfHop, PairUnderWay
  <2>7. FramesCounted' /\ SnapshotsCounted'
    BY <1>1, <2>1, <2>2, <2>4 DEF FramesCounted, SnapshotsCounted
  <2> QED
    BY <2>5, <2>6, <2>7 DEF HopInv
<1>4. ASSUME NEW s \in Streams, Receive(s) PROVE HopInv'
  <2>1. /\ UNCHANGED <<session, pairedEnabled, events, connToken>>
        /\ pc[s] = "recv" /\ read'[s] = read[s] + 1 /\ read[s] \in Int
        /\ pc'[s] = IF s = "sst" /\ read[s] + 1 \in MalformedHops THEN "recv"
                    ELSE IF pairedEnabled THEN "submit" ELSE "send"
        /\ Thread(s)
    BY <1>4 DEF Receive, coordVars, BridgeTypeOK, Thread
  <2>2. pc'[Other(s)] = pc[Other(s)] /\ read'[Other(s)] = read[Other(s)]
    BY <1>2, <2>1, OtherThread
  <2>3. PendingOfHop' /\ PairsOfHop'
    BY <1>2, <2>1, <2>2 DEF HopInv, PendingOfHop, PairsOfHop, PairUnderWay
  <2>4. FramesCounted'
    BY <1>1, <1>2, <2>1, <2>2 DEF HopInv, FramesCounted, Counted
  <2>5. SnapshotsCounted'
    BY <1>1, <1>2, <2>1, <2>2 DEF HopInv, SnapshotsCounted, Counted
  <2> QED
    BY <2>3, <2>4, <2>5 DEF HopInv
<1>5. ASSUME NEW s \in Streams, EndConnection(s) PROVE HopInv'
  <2>1. /\ connToken'[s] = NoToken /\ pc'[s] \in {"accept", "close_own"} /\ Thread(s)
    BY <1>5 DEF EndConnection, BridgeTypeOK, Thread
  <2>2. /\ pc'[Other(s)] = pc[Other(s)] /\ read'[Other(s)] = read[Other(s)]
        /\ connToken'[Other(s)] = connToken[Other(s)]
    BY <1>2, <2>1, OtherThread
  <2>3. /\ pairedEnabled' = pairedEnabled
        /\ events'[Other(s)] = events[Other(s)]
        /\ session' = session \/ Invalidate(s)
    BY <1>2, <1>5 DEF EndConnection, ConnectionLost, Invalidate, Ignore, Return, coordVars,
                      BridgeTypeOK, CoordTypeOK
  <2>4. PendingOfHop'
    BY <2>3, Invalidated DEF HopInv, PendingOfHop
  <2>5. PairsOfHop'
    BY <1>2, <2>1, <2>2, <2>3 DEF HopInv, PairsOfHop, PairUnderWay
  <2>6. ~Counted(s)'
    BY <2>1 DEF Counted
  <2>7. CASE session' = session
    BY <1>1, <1>2, <2>2, <2>3, <2>4, <2>5, <2>6, <2>7
       DEF HopInv, FramesCounted, SnapshotsCounted, Counted
  <2>8. CASE Invalidate(s)
    BY <1>1, <2>4, <2>5, <2>8, Invalidated DEF HopInv, FramesCounted, SnapshotsCounted, Counted
  <2> QED
    BY <2>3, <2>7, <2>8
<1>6. ASSUME NEW s \in Streams,
             \/ Accept(s) \/ LeaveLoop(s) \/ PassBarrier(s) \/ SendAlone(s)
             \/ PublishSss(s) \/ PublishSst(s) \/ CloseOwn(s) \/ ClosePeer(s)
      PROVE  HopInv'
  <2>1. /\ UNCHANGED <<session, pairedEnabled, connToken, read>> /\ Thread(s)
        /\ events' = events \/ Return(s, NoEvent)
    BY <1>6 DEF Accept, LeaveLoop, PassBarrier, SendAlone, PublishSss, PublishSst, CloseOwn,
                ClosePeer, EventsHandled, coordVars, Thread
  <2>2. /\ pc[s] # "submit" /\ pc'[s] # "submit"
        /\ PairUnderWay(s)' => PairUnderWay(s) /\ events' = events
    <3>1. CASE Accept(s) \/ LeaveLoop(s) \/ PassBarrier(s) \/ SendAlone(s) \/ CloseOwn(s)
      BY <3>1 DEF Accept, LeaveLoop, PassBarrier, SendAlone, CloseOwn, Step, PairUnderWay,
                  BridgeTypeOK
    <3>2. CASE PublishSss(s) \/ PublishSst(s) \/ ClosePeer(s)
      BY <3>2 DEF PublishSss, PublishSst, ClosePeer, AfterFrame, Step, PairUnderWay, coordVars,
                  BridgeTypeOK
    <3> QED
      BY <1>6, <3>1, <3>2
  <2>3. pc'[Other(s)] = pc[Other(s)]
    BY <1>2, <2>1, OtherThread
  <2>4. events'[Other(s)] = events[Other(s)]
    BY <1>2, <2>1 DEF Return, BridgeTypeOK, CoordTypeOK
  <2>5. PairsOfHop'
    BY <1>2, <2>2, <2>3, <2>4 DEF HopInv, PairsOfHop, PairUnderWay
  <2>6. PendingOfHop'
    BY <2>1 DEF HopInv, PendingOfHop
  <2>7. FramesCounted' /\ SnapshotsCounted'
    BY <1>1, <1>2, <2>1, <2>2, <2>3 DEF HopInv, FramesCounted, SnapshotsCounted, Counted
  <2> QED
    BY <2>5, <2>6, <2>7 DEF HopInv
<1>7. CASE Core \/ Node \/ PassTime \/ UNCHANGED bridgeVars
  BY <1>7, OutsideThreads
     DEF HopInv, PendingOfHop, PairsOfHop, PairUnderWay, FramesCounted, SnapshotsCounted, Counted
<1> QED
  BY <1>3, <1>4, <1>5, <1>6, <1>7, SubmitHops DEF BridgeNext, Thread

(* The frame and the snapshot of a pair that one core produced belong to   *)
(* the same hop, for any number of cores, hops and limits, as long as the  *)
(* first snapshot of a connection is well formed: a malformed first one    *)
(* shifts the baseline and with it every ordinal (_handle_data,            *)
(* submit_sss_frame, submit_sst_snapshot, _try_pair_locked).               *)
THEOREM PairsOfOneHopHolds ==
  ASSUME 1 \notin MalformedHops
  PROVE  BridgeSpec => []PairsOfOneHop
<1>1. BridgeInit => HopInv
  <2> SUFFICES ASSUME BridgeInit PROVE HopInv
    OBVIOUS
  <2>1. /\ \A s \in Streams : session.token[s] = NoToken /\ DOMAIN session.pending[s] = {}
        /\ session.baseline = None
    BY ClearedFields, NothingPendingType DEF BridgeInit, CoordInit, NoTokens, BothEmpty
  <2>2. \A s \in Streams : ~PairUnderWay(s)
    BY DEF BridgeInit, PairUnderWay
  <2> QED
    BY <2>1, <2>2
       DEF HopInv, PendingOfHop, PairsOfHop, FramesCounted, SnapshotsCounted, Counted, Streams
<1>2. BridgeInv /\ HopInv /\ [BridgeNext]_bridgeVars => HopInv'
  BY HopStep
<1>3. HopInv => PairsOfOneHop
  BY DEF HopInv, PairsOfHop, PairsOfOneHop
<1> QED
  BY <1>1, <1>2, <1>3, BridgeInvariant, PTL DEF BridgeSpec
=============================================================================
