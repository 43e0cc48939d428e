-------------------------- MODULE PairCoordinator --------------------------
(***************************************************************************)
(* The monitor of the ODAS bridge that pairs separated audio frames (SSS)  *)
(* with tracking snapshots (SST) by ordinal: class PairCoordinator of      *)
(* lib_odas_server_node.py.  Every method takes the one lock for its whole *)
(* body, so each method is one action here.  The module holds the state    *)
(* and the operations; CoordinatorClients runs them with arbitrary callers *)
(* and OdasBridge with the two socket threads of the bridge.               *)
(*                                                                         *)
(* Audio and directions are opaque items.  The receive clock and the stamp *)
(* clock are one counter: both advance together and nothing compares them. *)
(***************************************************************************)
EXTENDS Integers, FiniteSets

CONSTANTS
  Items,                          (* frames and snapshots, opaque            *)
  None,                           (* Python's None                           *)
  HopDuration,                    (* clock units between two ODAS hops       *)
  SessionInvalidateTimeout,       (* age at which an unmatched entry expires *)
  MaxConsecutivePairViolations,   (* violations that end the session         *)
  MaxPendingPairs                 (* entries one stream may leave unmatched  *)

ASSUME NoneAssumption == None \notin Int
ASSUME HopDurationAssumption == HopDuration \in Nat \ {0}
ASSUME LimitAssumption ==
  /\ SessionInvalidateTimeout \in Nat
  /\ MaxConsecutivePairViolations \in Nat \ {0}
  /\ MaxPendingPairs \in Nat \ {0}

VARIABLES
  session,        (* what _clear_session_state_locked resets                 *)
  generation,     (* _generation: sessions started so far                    *)
  nextToken,      (* _next_token                                             *)
  pairedEnabled,  (* _paired_enabled                                         *)
  lastPaired,     (* _last_paired_ordinal, with its session and its stamp    *)
  events,         (* events[s]: what the last call for stream s returned     *)
  now             (* the clock                                               *)

coordVars ==
  <<session, generation, nextToken, pairedEnabled, lastPaired, events, now>>

Streams == {"sss", "sst"}
Other(s) == IF s = "sss" THEN "sst" ELSE "sss"
NoToken == 0

-----------------------------------------------------------------------------
(* Pending maps: functions from ordinals to [item, rt].                    *)

NothingPending == [k \in {} |-> None]

Put(p, k, entry) == [j \in DOMAIN p \cup {k} |-> IF j = k THEN entry ELSE p[j]]

Without(p, S) == [k \in DOMAIN p \ S |-> p[k]]

(* Entries whose receive time lies before the cutoff of a call made at rt. *)
Expired(p, rt) == {k \in DOMAIN p : p[k].rt < rt - SessionInvalidateTimeout}

(* Mutant: the bound leaves one entry too many.                            *)
SurplusOffByOne(p) ==
  {k \in DOMAIN p : Cardinality({j \in DOMAIN p : j > k}) > MaxPendingPairs}

(* The oldest ordinals, which the bound drains until MaxPendingPairs stay. *)
Surplus(p) ==
  {k \in DOMAIN p : Cardinality({j \in DOMAIN p : j > k}) >= MaxPendingPairs}

PendingCount(pending) ==
  Cardinality(DOMAIN pending["sss"]) + Cardinality(DOMAIN pending["sst"])

(* Both maps without their expired entries, that of stream s bounded too.  *)
Drained(pending, s, rt) ==
  LET fresh == [r \in Streams |-> Without(pending[r], Expired(pending[r], rt))]
  IN  [fresh EXCEPT ![s] = Without(fresh[s], Surplus(fresh[s]))]

-----------------------------------------------------------------------------
NoTokens == [s \in Streams |-> NoToken]
BothEmpty == [s \in Streams |-> NothingPending]

ClearedSession ==
  [ token          |-> NoTokens,
    pending        |-> BothEmpty,
    nextSssOrdinal |-> 1,
    baseline       |-> None,
    lastSst        |-> None,
    validated      |-> FALSE,
    epoch          |-> None,
    consecutive    |-> 0 ]

SessionActive == \A s \in Streams : session.token[s] # NoToken

NoEvent == [type |-> "none"]
SessionInvalidated == [type |-> "session_invalidated"]
PairedModeDisabled == [type |-> "paired_mode_disabled"]

PairEvents ==
  [type : {"pair"}, gen : Nat, ordinal : Nat, stamp : Int, sss : Items, sst : Items]
Events == {NoEvent, SessionInvalidated, PairedModeDisabled} \cup PairEvents

(* Violations and session starts are only logged by the callers: an event  *)
(* list that holds nothing else is NoEvent.                                *)
Return(s, e) == events' = [events EXCEPT ![s] = e]

Ignore(s) ==
  /\ Return(s, NoEvent)
  /\ UNCHANGED <<session, generation, nextToken, pairedEnabled, lastPaired>>

(* Mutant: the pending maps survive the invalidation.                      *)
InvalidateKeepsPending(s) ==
  /\ session' = [ClearedSession EXCEPT !.pending = session.pending]
  /\ Return(s, SessionInvalidated)
  /\ UNCHANGED <<generation, nextToken, pairedEnabled, lastPaired>>

Invalidate(s) ==
  /\ session' = ClearedSession
  /\ Return(s, SessionInvalidated)
  /\ UNCHANGED <<generation, nextToken, pairedEnabled, lastPaired>>

(* Permanent: nothing sets the flag again.                                 *)
DisablePairedMode(s) ==
  /\ pairedEnabled' = FALSE
  /\ session' = [session EXCEPT !.pending = BothEmpty]
  /\ Return(s, PairedModeDisabled)
  /\ UNCHANGED <<generation, nextToken, lastPaired>>

(* A violation that drops the input: the counter, then the second tier.    *)
Violate(s, ss) ==
  IF ss.consecutive + 1 >= MaxConsecutivePairViolations
  THEN Invalidate(s)
  ELSE /\ session' = [ss EXCEPT !.consecutive = @ + 1]
       /\ Return(s, NoEvent)
       /\ UNCHANGED <<generation, nextToken, pairedEnabled, lastPaired>>

-----------------------------------------------------------------------------
(* Mutant: a new session keeps the generation of the previous one.         *)
RegisterSameGeneration(s) ==
  LET tokens == [session.token EXCEPT ![s] = nextToken]
      both   == \A r \in Streams : tokens[r] # NoToken
  IN  /\ nextToken' = nextToken + 1
      /\ session' = [(IF both THEN ClearedSession ELSE session) EXCEPT !.token = tokens]
      /\ generation' = IF both THEN 1 ELSE generation
      /\ Return(s, NoEvent)
      /\ UNCHANGED <<pairedEnabled, lastPaired, now>>

(* register_connection: a fresh token; a session starts when both are set. *)
RegisterConnection(s) ==
  LET tokens == [session.token EXCEPT ![s] = nextToken]
      both   == \A r \in Streams : tokens[r] # NoToken
  IN  /\ nextToken' = nextToken + 1
      /\ session' = [(IF both THEN ClearedSession ELSE session) EXCEPT !.token = tokens]
      /\ generation' = IF both THEN generation + 1 ELSE generation
      /\ Return(s, NoEvent)
      /\ UNCHANGED <<pairedEnabled, lastPaired, now>>

(* connection_lost: only the tokens of the current session count.          *)
ConnectionLost(s, token) ==
  /\ IF token # NoToken /\ \E r \in Streams : session.token[r] = token
     THEN Invalidate(s)
     ELSE Ignore(s)
  /\ UNCHANGED now

-----------------------------------------------------------------------------
(* The sample clock of a session, never ahead of the stamp clock.          *)
EpochAt(ss, k) == IF ss.epoch = None THEN now - (k - 1) * HopDuration ELSE ss.epoch

(* Mutant: the extrapolated sample clock is not clamped.                   *)
StampUnclamped(epoch, k) == epoch + (k - 1) * HopDuration

StampAt(epoch, k) ==
  LET stamp == epoch + (k - 1) * HopDuration
  IN  IF stamp > now THEN now ELSE stamp

(* _try_pair on an ordinal that both maps hold.                            *)
CompletePair(s, k, ss) ==
  LET epoch == EpochAt(ss, k)
      stamp == StampAt(epoch, k)
  IN  /\ session' = [ss EXCEPT
            !.pending = [r \in Streams |-> Without(ss.pending[r], {k})],
            !.validated = TRUE,
            !.epoch = epoch,
            !.consecutive = 0]
      /\ lastPaired' = [gen |-> generation, ordinal |-> k, stamp |-> stamp]
      /\ Return(s, [type |-> "pair", gen |-> generation, ordinal |-> k, stamp |-> stamp,
                    sss |-> ss.pending["sss"][k].item,
                    sst |-> ss.pending["sst"][k].item])
      /\ UNCHANGED <<generation, nextToken, pairedEnabled>>

(* Mutant: only an arriving frame looks for its counterpart.               *)
SettleFramesOnly(s, k, ss, rt) ==
  LET left       == Drained(ss.pending, s, rt)
      violations == ss.consecutive + PendingCount(ss.pending) - PendingCount(left)
      settled    == [ss EXCEPT !.pending = left, !.consecutive = violations]
  IN  IF s = "sss" /\ \A r \in Streams : k \in DOMAIN left[r] THEN CompletePair(s, k, settled)
      ELSE IF violations >= MaxConsecutivePairViolations THEN Invalidate(s)
      ELSE /\ session' = settled
           /\ Return(s, NoEvent)
           /\ UNCHANGED <<generation, nextToken, pairedEnabled, lastPaired>>

(* Mutant: the second tier needs one violation more.                       *)
SettleLateSecondTier(s, k, ss, rt) ==
  LET left       == Drained(ss.pending, s, rt)
      violations == ss.consecutive + PendingCount(ss.pending) - PendingCount(left)
      settled    == [ss EXCEPT !.pending = left, !.consecutive = violations]
  IN  IF \A r \in Streams : k \in DOMAIN left[r] THEN CompletePair(s, k, settled)
      ELSE IF violations > MaxConsecutivePairViolations THEN Invalidate(s)
      ELSE /\ session' = settled
           /\ Return(s, NoEvent)
           /\ UNCHANGED <<generation, nextToken, pairedEnabled, lastPaired>>

(* The common end of both submissions: purge, bound, pair, second tier.    *)
(* Every entry the first two drop is one violation.                        *)
Settle(s, k, ss, rt) ==
  LET left       == Drained(ss.pending, s, rt)
      violations == ss.consecutive + PendingCount(ss.pending) - PendingCount(left)
      settled    == [ss EXCEPT !.pending = left, !.consecutive = violations]
  IN  IF \A r \in Streams : k \in DOMAIN left[r] THEN CompletePair(s, k, settled)
      ELSE IF violations >= MaxConsecutivePairViolations THEN Invalidate(s)
      ELSE /\ session' = settled
           /\ Return(s, NoEvent)
           /\ UNCHANGED <<generation, nextToken, pairedEnabled, lastPaired>>

(* submit_sss_frame.  rt is the time the caller read before the lock.      *)
SubmitSssFrame(token, frame, rt) ==
  LET k == session.nextSssOrdinal
  IN  /\ IF ~pairedEnabled \/ token # session.token["sss"]
         THEN Ignore("sss")
         ELSE Settle("sss", k,
                [session EXCEPT !.nextSssOrdinal = k + 1,
                                !.pending["sss"] = Put(@, k, [item |-> frame, rt |-> rt])],
                rt)
      /\ UNCHANGED now

(* Mutant: snapshots are numbered in arrival order.                        *)
AcceptInArrivalOrder(ss, timeStamp, snapshot, rt) ==
  LET k == IF ss.lastSst = None THEN 1 ELSE ss.lastSst - ss.baseline + 2
      arrived == [ss EXCEPT !.lastSst = ss.baseline + k - 1]
  IN  Settle("sst", k,
        [arrived EXCEPT !.pending["sst"] = Put(@, k, [item |-> snapshot, rt |-> rt])], rt)

(* The accepting part of submit_sst_snapshot, on the session ss that it    *)
(* has already updated.  Its duplicate test never succeeds: timeStamps     *)
(* that reach it increase within a session.                                *)
AcceptSnapshot(ss, timeStamp, snapshot, rt) ==
  LET k       == timeStamp - ss.baseline + 1
      arrived == [ss EXCEPT !.lastSst = timeStamp]
  IN  IF k \in DOMAIN ss.pending["sst"] THEN Violate("sst", arrived)
      ELSE Settle("sst", k,
             [arrived EXCEPT !.pending["sst"] = Put(@, k, [item |-> snapshot, rt |-> rt])],
             rt)

FirstSnapshot(timeStamp, snapshot, rt) ==
  IF timeStamp = None
  THEN DisablePairedMode("sst")
  ELSE AcceptSnapshot([session EXCEPT !.baseline = timeStamp], timeStamp, snapshot, rt)

UnvalidatedSnapshot(timeStamp, snapshot, rt) ==
  IF timeStamp = None \/ timeStamp # session.lastSst + 1
  THEN DisablePairedMode("sst")
  ELSE AcceptSnapshot(session, timeStamp, snapshot, rt)

(* A gap leaves the skipped ordinals without a counterpart: their frames   *)
(* are dropped, and the new snapshot is accepted after one violation.      *)
AfterGap(timeStamp) ==
  LET skipped == (session.lastSst - session.baseline + 2) .. (timeStamp - session.baseline)
  IN  [session EXCEPT !.consecutive = @ + 1,
                      !.pending["sss"] = Without(@, skipped)]

(* A snapshot without a timeStamp counts a violation and then fails in the *)
(* arithmetic, before the second tier is looked at.                        *)
ValidatedSnapshot(timeStamp, snapshot, rt) ==
  IF timeStamp = None
  THEN /\ session' = [session EXCEPT !.consecutive = @ + 1]
       /\ Return("sst", NoEvent)
       /\ UNCHANGED <<generation, nextToken, pairedEnabled, lastPaired>>
  ELSE IF timeStamp = session.lastSst + 1 THEN AcceptSnapshot(session, timeStamp, snapshot, rt)
  ELSE IF timeStamp <= session.lastSst THEN Violate("sst", session)
  ELSE AcceptSnapshot(AfterGap(timeStamp), timeStamp, snapshot, rt)

(* submit_sst_snapshot.                                                    *)
SubmitSstSnapshot(token, timeStamp, snapshot, rt) ==
  /\ IF ~pairedEnabled \/ token # session.token["sst"] THEN Ignore("sst")
     ELSE IF session.baseline = None THEN FirstSnapshot(timeStamp, snapshot, rt)
     ELSE IF ~session.validated THEN UnvalidatedSnapshot(timeStamp, snapshot, rt)
     ELSE ValidatedSnapshot(timeStamp, snapshot, rt)
  /\ UNCHANGED now

(* The caller has acted on the list that its last call returned.           *)
EventsHandled(s) ==
  /\ Return(s, NoEvent)
  /\ UNCHANGED <<session, generation, nextToken, pairedEnabled, lastPaired, now>>

-----------------------------------------------------------------------------
Tick ==
  /\ now' = now + 1
  /\ UNCHANGED <<session, generation, nextToken, pairedEnabled, lastPaired, events>>

CoordInit ==
  /\ session = ClearedSession
  /\ generation = 0
  /\ nextToken = 1
  /\ pairedEnabled = TRUE
  /\ lastPaired = [gen |-> 0, ordinal |-> 0, stamp |-> 0]
  /\ events = [s \in Streams |-> NoEvent]
  /\ now = 0

-----------------------------------------------------------------------------
IsPending(p) ==
  /\ p = [k \in DOMAIN p |-> p[k]]
  /\ IsFiniteSet(DOMAIN p)
  /\ DOMAIN p \subseteq Nat \ {0}
  /\ \A k \in DOMAIN p : p[k] \in [item : Items, rt : Nat]

HasSessionFields(ss) ==
  ss = [token |-> ss.token, pending |-> ss.pending, nextSssOrdinal |-> ss.nextSssOrdinal,
        baseline |-> ss.baseline, lastSst |-> ss.lastSst, validated |-> ss.validated,
        epoch |-> ss.epoch, consecutive |-> ss.consecutive]

IsSession(ss) ==
  /\ HasSessionFields(ss)
  /\ ss.token \in [Streams -> Nat]
  /\ ss.pending = [s \in Streams |-> ss.pending[s]]
  /\ \A s \in Streams : IsPending(ss.pending[s])
  /\ ss.nextSssOrdinal \in Nat \ {0}
  /\ ss.baseline \in Int \cup {None}
  /\ ss.lastSst \in Int \cup {None}
  /\ ss.baseline = None <=> ss.lastSst = None
  /\ ss.validated \in BOOLEAN
  /\ ss.epoch \in Int \cup {None}
  /\ ss.consecutive \in Nat

(* The types of the coordinator's state (PairCoordinator.__init__).        *)
CoordTypeOK ==
  /\ IsSession(session)
  /\ generation \in Nat
  /\ nextToken \in Nat \ {0}
  /\ pairedEnabled \in BOOLEAN
  /\ lastPaired \in [gen : Nat, ordinal : Nat, stamp : Int]
  /\ events \in [Streams -> Events]
  /\ now \in Nat

-----------------------------------------------------------------------------
(* What the coordinator promises to any callers.                           *)

(* Lexicographic order on (session, ordinal).                              *)
EarlierPair(p, q) == p.gen < q.gen \/ (p.gen = q.gen /\ p.ordinal < q.ordinal)

(* Pairs complete in strictly increasing (session, ordinal) order, however *)
(* the two streams interleave, stall, skip or reconnect: submit_sss_frame, *)
(* submit_sst_snapshot, _try_pair_locked.  A consumer can so detect gaps,  *)
(* and no ordinal is paired twice.                                         *)
PairsAdvance == [][lastPaired' # lastPaired => EarlierPair(lastPaired, lastPaired')]_coordVars

(* No ordinal stays pending on both sides: _try_pair_locked looks only at  *)
(* the ordinal that just arrived, and still no matched pair is left behind *)
(* by a purge, an overflow or a gap.                                       *)
NoMatchedPairLeft ==
  DOMAIN session.pending["sss"] \cap DOMAIN session.pending["sst"] = {}

(* A stream that runs ahead alone never leaves more than MaxPendingPairs   *)
(* entries (_enforce_bound_locked).                                        *)
PendingBounded ==
  \A s \in Streams : Cardinality(DOMAIN session.pending[s]) <= MaxPendingPairs

(* Three consecutive violations invalidate the session: between two calls  *)
(* the counter is below the limit (_check_tier_two_locked).                *)
ViolationsBelowLimit == session.consecutive < MaxConsecutivePairViolations

(* The stamps put on /sss and /sst never run ahead of the clock and never  *)
(* go back, also from one session to the next, although each session       *)
(* anchors its own epoch and stamps are clamped (_try_pair_locked).        *)
StampsMonotone ==
  [][/\ lastPaired'.stamp >= lastPaired.stamp
     /\ lastPaired'.stamp <= now']_coordVars

(* A stream that has no token in the session has nothing pending: what a   *)
(* previous session left can never meet the data of the next one.          *)
NothingPendingWithoutToken ==
  \A s \in Streams : session.token[s] = NoToken => DOMAIN session.pending[s] = {}

=============================================================================
