---------------------------- MODULE PairedTopics ----------------------------
(***************************************************************************)
(* What the subscribers of /sss and /sst may rely on: the abstract         *)
(* specification of paired publication.  A pair appears as a frame on /sss *)
(* and then its snapshot on /sst, with no other publication in between;    *)
(* pairs advance in (session, ordinal); once a message is published        *)
(* without a partner, that topic never carries a pair again and no new     *)
(* pair begins.  Unpaired messages of one topic keep the order in which    *)
(* the core produced them.  See section 7 of plans/reportv2.md.            *)
(***************************************************************************)
EXTENDS Integers

VARIABLE topic   (* the last message of each topic                          *)

Topics == {"sss", "sst"}

EarlierPair(p, q) == p.gen < q.gen \/ (p.gen = q.gen /\ p.ordinal < q.ordinal)

EarlierItem(m, n) == m.launch < n.launch \/ (m.launch = n.launch /\ m.hop < n.hop)

SamePair(p, q) == p.gen = q.gen /\ p.ordinal = q.ordinal

Paired == \A s \in Topics : topic[s].paired

(* A frame is out and its snapshot is not.                                 *)
HalfPublished == Paired /\ ~SamePair(topic["sss"], topic["sst"])

PublishFrame ==
  /\ Paired /\ ~HalfPublished
  /\ topic'["sss"].paired
  /\ EarlierPair(topic["sss"], topic'["sss"])
  /\ topic' = [topic EXCEPT !["sss"] = topic'["sss"]]

PublishSnapshot ==
  /\ HalfPublished
  /\ topic'["sst"].paired
  /\ SamePair(topic["sss"], topic'["sst"])
  /\ topic' = [topic EXCEPT !["sst"] = topic'["sst"]]

PublishAlone(s) ==
  /\ ~HalfPublished
  /\ ~topic'[s].paired
  /\ ~topic[s].paired => EarlierItem(topic[s].item, topic'[s].item)
  /\ topic' = [topic EXCEPT ![s] = topic'[s]]

TopicsInit == Paired /\ ~HalfPublished
TopicsNext == PublishFrame \/ PublishSnapshot \/ \E s \in Topics : PublishAlone(s)
TopicsSpec == TopicsInit /\ [][TopicsNext]_topic
=============================================================================
