------------------------- MODULE SocketFramingProofs -------------------------
(***************************************************************************)
(* Theorems about SocketFraming, for every size of a frame, every number   *)
(* of messages and connections, and every text of the messages.            *)
(***************************************************************************)
EXTENDS SocketFraming, SequenceTheorems, WellFoundedInduction, TLAPS

Character == [conn : Nat, msg : Nat, char : Chars]

MessageType ==
  [space : Nat, text : Seq(Chars)]

(* What the proofs use of the messages of a connection.                    *)
TextsOK ==
  /\ texts \in [1 .. MessageCount -> MessageType]
  /\ \A m \in 1 .. MessageCount : Len(texts[m].text) > 0

(* The constants that are numbers.                                         *)
LEMMA Bounds ==
  MessageCount \in Nat /\ FrameSize \in Nat /\ FrameSize > 0 /\ MaxConnections \in Nat
  BY FramingAssumption

-----------------------------------------------------------------------------
(* Recursion.  A property of the naturals that fails has a least           *)
(* counterexample, which stands for induction wherever it is needed.       *)
LEMMA LeastNatural ==
  ASSUME NEW T \in SUBSET Nat, T # {}
  PROVE  \E x \in T : \A y \in T : x <= y
<1>1. PICK x \in T : \A y \in T : <<y, x>> \notin OpToRel(<, Nat)
  BY WFMin, NatLessThanWellFounded
<1>2. \A y \in T : ~(y < x)
  BY <1>1 DEF OpToRel
<1> QED
  BY <1>2

(* Induction up to n, with a set in the place of the predicate.            *)
LEMMA InductionUpTo ==
  ASSUME NEW n \in Nat, NEW S, 0 \in S, \A i \in 1 .. n : i - 1 \in S => i \in S
  PROVE  \A i \in 0 .. n : i \in S
<1> DEFINE T == {i \in 0 .. n : i \notin S}
<1> SUFFICES ASSUME T # {} PROVE FALSE
  OBVIOUS
<1>1. T \in SUBSET Nat
  OBVIOUS
<1>2. PICK i \in T : \A y \in T : i <= y
  BY <1>1, LeastNatural
<1>3. i \in 1 .. n /\ i - 1 \in 0 .. n /\ i - 1 \notin T
  BY <1>2
<1> QED
  BY <1>2, <1>3

(* g starts with a and continues as F says.                                *)
Follows(g, n, a, F) ==
  /\ g = [i \in 0 .. n |-> g[i]]
  /\ g[0] = a
  /\ \A i \in 1 .. n : g[i] = F[<<i, g[i - 1]>>]

(* A function on 0 .. n can be defined by what it is at 0 and at each step. *)
LEMMA RecursionExists ==
  ASSUME NEW n \in Nat, NEW a, NEW F
  PROVE  \E g : Follows(g, n, a, F)
<1> DEFINE Step(g, k) == [i \in 0 .. k |-> IF i = 0 THEN a ELSE F[<<i, g[i - 1]>>]]
           T == {k \in Nat : ~\E g : g = Step(g, k)}
<1>1. SUFFICES ASSUME T # {} PROVE FALSE
  <2>1. ASSUME T = {}
        PROVE  \E g : Follows(g, n, a, F)
    <3>1. PICK g : g = Step(g, n)
      BY <2>1
    <3>2. \A i \in 0 .. n : g[i] = IF i = 0 THEN a ELSE F[<<i, g[i - 1]>>]
      BY <3>1
    <3>3. g = [i \in 0 .. n |-> g[i]]
      BY <3>1
    <3>5. g[0] = a
      <4>1. 0 \in 0 .. n
        OBVIOUS
      <4> QED
        BY <3>2, <4>1
    <3>6. \A i \in 1 .. n : g[i] = F[<<i, g[i - 1]>>]
      <4>1. \A i \in 1 .. n : i \in 0 .. n /\ i # 0
        OBVIOUS
      <4> QED
        BY <3>2, <4>1
    <3>4. Follows(g, n, a, F)
      BY <3>3, <3>5, <3>6 DEF Follows
    <3> QED
      BY <3>4
  <2> QED
    BY <2>1
<1>2. PICK k \in T : \A y \in T : k <= y
  BY <1>1, LeastNatural
<1>3. CASE k = 0
  <2>1. [i \in {0} |-> a] = Step([i \in {0} |-> a], 0)
    OBVIOUS
  <2> QED
    BY <1>2, <1>3, <2>1
<1>4. CASE k # 0
  <2>1. k - 1 \in Nat /\ k - 1 \notin T
    BY <1>2, <1>4
  <2>2. PICK g : g = Step(g, k - 1)
    BY <2>1
  <2> DEFINE h == [i \in 0 .. k |-> IF i = k THEN F[<<k, g[k - 1]>>] ELSE g[i]]
  <2>3. \A i \in 0 .. k : h[i] = IF i = 0 THEN a ELSE F[<<i, h[i - 1]>>]
    <3> SUFFICES ASSUME NEW i \in 0 .. k
                 PROVE  h[i] = IF i = 0 THEN a ELSE F[<<i, h[i - 1]>>]
      OBVIOUS
    <3>1. CASE i = 0
      BY <2>2, <3>1, <1>4
    <3>2. CASE i # 0
      <4>1. i - 1 \in 0 .. k - 1 /\ i - 1 # k /\ h[i - 1] = g[i - 1]
        BY <3>2
      <4>2. CASE i = k
        BY <3>2, <4>1, <4>2
      <4>3. CASE i # k
        <5>1. i \in 0 .. k - 1
          BY <4>3
        <5>2. g[i] = F[<<i, g[i - 1]>>]
          BY <2>2, <5>1, <3>2
        <5> QED
          BY <3>2, <4>1, <4>3, <5>2
      <4> QED
        BY <4>2, <4>3
    <3> QED
      BY <3>1, <3>2
  <2>4. h = Step(h, k)
    BY <2>3
  <2> QED
    BY <1>2, <2>4
<1> QED
  BY <1>3, <1>4

-----------------------------------------------------------------------------
(* The wire.                                                               *)

(* Where messages end: the equations of Ends.                              *)
LEMMA EndsEquations ==
  ASSUME TextsOK
  PROVE  /\ Ends \in [0 .. MessageCount -> Nat]
         /\ Ends[0] = 0
         /\ \A m \in 1 .. MessageCount :
              /\ Start(m) \in Nat
              /\ Ends[m] = Start(m) + Len(texts[m].text)
              /\ Ends[m - 1] <= Start(m) /\ Start(m) < Ends[m]
<1> DEFINE Step(g) == [m \in 0 .. MessageCount |->
                         IF m = 0 THEN 0 ELSE g[m - 1] + texts[m].space + Len(texts[m].text)]
<1> USE Bounds
<1>1. \A m \in 1 .. MessageCount : /\ texts[m].space \in Nat
                                   /\ Len(texts[m].text) \in Nat /\ Len(texts[m].text) > 0
  BY DEF TextsOK, MessageType
<1> DEFINE F == [p \in Nat \X Nat |-> p[2] + texts[p[1]].space + Len(texts[p[1]].text)]
<1>2. \A m \in 1 .. MessageCount, n \in Nat : F[<<m, n>>] = n + texts[m].space + Len(texts[m].text)
  OBVIOUS
<1> HIDE DEF F
<1>8. PICK g : Follows(g, MessageCount, 0, F)
  BY RecursionExists
<1>6. /\ g = [m \in 0 .. MessageCount |-> g[m]]
      /\ g[0] = 0
      /\ \A m \in 1 .. MessageCount : g[m] = F[<<m, g[m - 1]>>]
  BY <1>8 DEF Follows
<1>3. \A m \in 0 .. MessageCount : g[m] \in Nat
  <2> DEFINE S == {m \in Nat : g[m] \in Nat}
  <2>1. ASSUME NEW m \in 1 .. MessageCount, m - 1 \in S
        PROVE  m \in S
    <3>1. g[m] = g[m - 1] + texts[m].space + Len(texts[m].text)
      BY <1>2, <1>6, <2>1
    <3> QED
      BY <1>1, <2>1, <3>1
  <2>2. 0 \in S
    BY <1>6
  <2> HIDE DEF S
  <2>3. \A m \in 0 .. MessageCount : m \in S
    BY <2>1, <2>2, InductionUpTo
  <2> QED
    BY <2>3 DEF S
<1>4. g = Step(g)
  <2>1. \A m \in 0 .. MessageCount :
          g[m] = IF m = 0 THEN 0 ELSE g[m - 1] + texts[m].space + Len(texts[m].text)
    <3> SUFFICES ASSUME NEW m \in 0 .. MessageCount
                 PROVE  g[m] = IF m = 0 THEN 0
                               ELSE g[m - 1] + texts[m].space + Len(texts[m].text)
      OBVIOUS
    <3>1. CASE m = 0
      BY <1>6, <3>1
    <3>2. CASE m # 0
      <4>1. m \in 1 .. MessageCount /\ m - 1 \in 0 .. MessageCount
        BY <3>2
      <4> QED
        BY <1>2, <1>3, <1>6, <3>2, <4>1
    <3> QED
      BY <3>1, <3>2
  <2>2. g = [m \in 0 .. MessageCount |-> g[m]]
    BY <1>6
  <2> QED
    BY <2>1, <2>2
<1>5. Ends = Step(Ends)
  BY <1>4 DEF Ends
<1>7. /\ Ends = [m \in 0 .. MessageCount |-> Ends[m]]
      /\ Ends[0] = 0
      /\ \A m \in 1 .. MessageCount :
           Ends[m] = Ends[m - 1] + texts[m].space + Len(texts[m].text)
  BY <1>5
<1>9. \A m \in 0 .. MessageCount : Ends[m] \in Nat
  <2> DEFINE S == {m \in Nat : Ends[m] \in Nat}
  <2>1. ASSUME NEW m \in 1 .. MessageCount, m - 1 \in S
        PROVE  m \in S
    <3>1. Ends[m] = Ends[m - 1] + texts[m].space + Len(texts[m].text)
      BY <1>7
    <3> QED
      BY <1>1, <2>1, <3>1
  <2>2. 0 \in S
    BY <1>7
  <2> HIDE DEF S
  <2>3. \A m \in 0 .. MessageCount : m \in S
    BY <2>1, <2>2, InductionUpTo
  <2> QED
    BY <2>3 DEF S
<1>10. Ends \in [0 .. MessageCount -> Nat]
  BY <1>7, <1>9
<1>11. ASSUME NEW m \in 1 .. MessageCount
       PROVE  /\ Start(m) \in Nat
              /\ Ends[m] = Start(m) + Len(texts[m].text)
              /\ Ends[m - 1] <= Start(m) /\ Start(m) < Ends[m]
  <2>1. Ends[m - 1] \in Nat /\ Ends[m] = Ends[m - 1] + texts[m].space + Len(texts[m].text)
    <3>1. m - 1 \in 0 .. MessageCount
      OBVIOUS
    <3> QED
      BY <1>7, <1>9, <3>1
  <2> QED
    BY <1>1, <2>1 DEF Start
<1> QED
  BY <1>7, <1>10, <1>11

(* Later messages end later.                                               *)
LEMMA EndsGrow ==
  ASSUME TextsOK, NEW k \in 0 .. MessageCount, NEW m \in 0 .. MessageCount, k < m
  PROVE  Ends[k] < Ends[m] /\ Ends[k] <= Start(m)
<1> USE Bounds
<1> DEFINE S == {j \in Nat : k < j => Ends[k] < Ends[j]}
<1>1. Ends[k] \in Nat /\ Ends[m] \in Nat
  BY EndsEquations
<1>2. \A j \in 0 .. MessageCount : j \in S
  <2>1. ASSUME NEW j \in 1 .. MessageCount, j - 1 \in S
        PROVE  j \in S
    <3>1. j - 1 \in 0 .. MessageCount
      OBVIOUS
    <3>2. Ends[j - 1] \in Nat /\ Ends[j] \in Nat /\ Ends[j - 1] < Ends[j]
      BY <3>1, EndsEquations
    <3>3. k < j => k = j - 1 \/ k < j - 1
      OBVIOUS
    <3> QED
      BY <1>1, <2>1, <3>2, <3>3
  <2>2. 0 \in S
    OBVIOUS
  <2> HIDE DEF S
  <2> QED
    BY <2>1, <2>2, InductionUpTo
<1>3. Ends[k] < Ends[m]
  BY <1>2
<1>4. m \in 1 .. MessageCount /\ m - 1 \in 0 .. MessageCount
  OBVIOUS
<1>5. Ends[m - 1] \in Nat /\ Start(m) \in Nat /\ Ends[m - 1] <= Start(m)
  BY <1>4, EndsEquations
<1>6. Ends[k] <= Ends[m - 1]
  <2>1. CASE k = m - 1
    BY <1>1, <2>1
  <2>2. CASE k # m - 1
    <3>1. m - 1 \in S /\ k < m - 1
      BY <1>2, <1>4, <2>2
    <3> QED
      BY <1>1, <1>4, <1>5, <3>1
  <2> QED
    BY <2>1, <2>2
<1> QED
  BY <1>1, <1>3, <1>5, <1>6

(* k messages are complete after n characters.                             *)
Completed(k, n) == Ends[k] <= n /\ (k < MessageCount => n < Ends[k + 1])

(* There is one such number for what was received.                         *)
LEMMA CompletedExists ==
  ASSUME TextsOK, NEW n \in 0 .. Ends[MessageCount], Ends[MessageCount] \in Nat
  PROVE  \E k \in 0 .. MessageCount : Completed(k, n)
<1> USE Bounds
<1> DEFINE T == {m \in 0 .. MessageCount : n < Ends[m]}
<1>1. T \in SUBSET Nat
  OBVIOUS
<1>2. CASE T = {}
  <2>1. MessageCount \in 0 .. MessageCount /\ MessageCount \notin T
    BY <1>2
  <2>2. Completed(MessageCount, n)
    BY <2>1 DEF Completed
  <2> QED
    BY <2>1, <2>2
<1>3. CASE T # {}
  <2>1. PICK m \in T : \A y \in T : m <= y
    BY <1>1, <1>3, LeastNatural
  <2>2. m # 0
    BY <2>1, EndsEquations
  <2>3. m - 1 \in 0 .. MessageCount /\ m - 1 \notin T /\ (m - 1) + 1 = m
    BY <2>1, <2>2
  <2>4. Ends[m - 1] \in Nat
    BY <2>3, EndsEquations
  <2>5. Completed(m - 1, n)
    BY <2>1, <2>3, <2>4 DEF Completed
  <2> QED
    BY <2>3, <2>5
<1> QED
  BY <1>2, <1>3

(* ... and it tells which messages have ended.                             *)
LEMMA CompletedUnique ==
  ASSUME TextsOK, NEW k \in 0 .. MessageCount, NEW m \in 0 .. MessageCount, NEW n \in Nat,
         Completed(k, n)
  PROVE  (Ends[m] <= n) <=> (m <= k)
<1> USE Bounds
<1>1. Ends[k] \in Nat /\ Ends[m] \in Nat
  BY EndsEquations
<1>2. CASE m = k
  BY <1>2 DEF Completed
<1>3. CASE m < k
  <2>1. Ends[m] < Ends[k]
    BY <1>3, EndsGrow
  <2> QED
    BY <1>1, <1>3, <2>1 DEF Completed
<1>4. CASE k < m
  <2>1. k + 1 \in 0 .. MessageCount /\ n < Ends[k + 1] /\ Ends[k + 1] \in Nat
    BY <1>4, EndsEquations DEF Completed
  <2>2. k + 1 = m \/ Ends[k + 1] < Ends[m]
    BY <1>4, <2>1, EndsGrow
  <2> QED
    BY <1>1, <1>4, <2>1, <2>2
<1> QED
  BY <1>2, <1>3, <1>4

(* Every character of the wire, by the message it lies in.                 *)
LEMMA WireCharacter ==
  ASSUME TextsOK, NEW c \in Nat, NEW m \in 1 .. MessageCount,
         NEW p \in Nat, Ends[m - 1] < p, p <= Ends[m]
  PROVE  /\ p \in 1 .. Ends[MessageCount]
         /\ Wire(c)[p] = IF p > Start(m) THEN Message(c, m)[p - Start(m)]
                         ELSE [conn |-> c, msg |-> m, char |-> "blank"]
<1> USE Bounds
<1>1. m - 1 \in 0 .. MessageCount /\ m \in 0 .. MessageCount /\ MessageCount \in 0 .. MessageCount
  OBVIOUS
<1>2. Ends[m - 1] \in Nat /\ Ends[m] \in Nat /\ Ends[MessageCount] \in Nat
  BY <1>1, EndsEquations
<1>3. m = MessageCount \/ Ends[m] < Ends[MessageCount]
  BY <1>1, EndsGrow
<1>4. p \in 1 .. Ends[MessageCount]
  BY <1>2, <1>3
<1>5. MessageAt(p) = m
  <2>1. ASSUME NEW j \in 1 .. MessageCount, Ends[j - 1] < p, p <= Ends[j]
        PROVE  j = m
    <3>1. /\ j - 1 \in 0 .. MessageCount /\ j \in 0 .. MessageCount
          /\ Ends[j - 1] \in Nat /\ Ends[j] \in Nat
      BY EndsEquations
    <3>2. CASE j < m
      <4>1. j = m - 1 \/ Ends[j] < Ends[m - 1]
        BY <1>1, <3>1, <3>2, EndsGrow
      <4> QED
        BY <1>2, <2>1, <3>1, <4>1
    <3>3. CASE m < j
      <4>1. m = j - 1 \/ Ends[m] < Ends[j - 1]
        BY <1>1, <3>1, <3>3, EndsGrow
      <4> QED
        BY <1>2, <2>1, <3>1, <4>1
    <3> QED
      BY <3>2, <3>3
  <2> QED
    BY <2>1 DEF MessageAt
<1> QED
  BY <1>4, <1>5 DEF Wire

(* Character i of message m.                                               *)
LEMMA MessageCharacter ==
  ASSUME TextsOK, NEW c \in Nat, NEW m \in 1 .. MessageCount, NEW i \in 1 .. Len(texts[m].text)
  PROVE  /\ Message(c, m)[i] = [conn |-> c, msg |-> m, char |-> texts[m].text[i]]
         /\ texts[m].text[i] \in Chars
         /\ Message(c, m)[i] \in Character
<1> USE Bounds
<1>1. texts[m].text \in Seq(Chars)
  BY DEF TextsOK, MessageType
<1>2. texts[m].text[i] \in Chars
  BY <1>1, ElementOfSeq
<1> QED
  BY <1>2 DEF Message, Character

(* The wire of a connection is a sequence of characters.                   *)
LEMMA WireType ==
  ASSUME TextsOK, NEW c \in Nat
  PROVE  /\ Ends[MessageCount] \in Nat
         /\ Wire(c) \in Seq(Character)
         /\ Len(Wire(c)) = Ends[MessageCount]
<1> USE Bounds
<1>1. MessageCount \in 0 .. MessageCount
  OBVIOUS
<1>2. Ends[MessageCount] \in Nat
  BY <1>1, EndsEquations
<1>3. ASSUME NEW p \in 1 .. Ends[MessageCount]
      PROVE  Wire(c)[p] \in Character
  <2>1. p - 1 \in 0 .. Ends[MessageCount]
    BY <1>2
  <2>2. PICK k \in 0 .. MessageCount : Completed(k, p - 1)
    BY <1>2, <2>1, CompletedExists
  <2>3. k # MessageCount
    BY <1>2, <2>2 DEF Completed
  <2> DEFINE m == k + 1
  <2>4. m \in 1 .. MessageCount /\ m - 1 = k /\ m = k + 1
    BY <2>3
  <2> HIDE DEF m
  <2>5. Ends[k] \in Nat /\ Ends[m] \in Nat /\ Start(m) \in Nat
        /\ Ends[m] = Start(m) + Len(texts[m].text)
    BY <2>4, EndsEquations
  <2>6. Ends[m - 1] < p /\ p <= Ends[m]
    BY <1>2, <2>2, <2>3, <2>4, <2>5 DEF Completed
  <2>7. Wire(c)[p] = IF p > Start(m) THEN Message(c, m)[p - Start(m)]
                     ELSE [conn |-> c, msg |-> m, char |-> "blank"]
    <3>1. p \in Nat
      BY <1>2
    <3> QED
      BY <2>4, <2>6, <3>1, WireCharacter
  <2>8. CASE p > Start(m)
    <3>1. p - Start(m) \in 1 .. Len(texts[m].text)
      BY <2>4, <2>5, <2>6, <2>8
    <3> QED
      BY <2>4, <2>7, <2>8, <3>1, MessageCharacter
  <2>9. CASE ~(p > Start(m))
    <3>1. "blank" \in Chars
      BY Zenon DEF Chars
    <3>3. m \in Nat
      BY <2>4
    <3>2. Wire(c)[p] = [conn |-> c, msg |-> m, char |-> "blank"]
      BY <2>7, <2>9
    <3> QED
      BY <3>1, <3>2, <3>3 DEF Character
  <2> QED
    BY <2>8, <2>9
<1>4. Wire(c) = [p \in 1 .. Ends[MessageCount] |-> Wire(c)[p]]
  BY DEF Wire
<1>5. Wire(c) \in [1 .. Ends[MessageCount] -> Character]
  BY <1>3, <1>4
<1>6. Wire(c) \in Seq(Character)
  BY <1>2, <1>5
<1>7. DOMAIN Wire(c) = 1 .. Len(Wire(c)) /\ Len(Wire(c)) \in Nat
  BY <1>6, LenProperties
<1>8. Len(Wire(c)) = Ends[MessageCount]
  BY <1>2, <1>5, <1>7
<1> QED
  BY <1>2, <1>6, <1>8

-----------------------------------------------------------------------------
(* What a buffer holds.                                                    *)

(* b is j blanks and then what came of connection c since message k, of    *)
(* the n characters received.                                              *)
Held(b, j, c, k, n) ==
  /\ Len(b) = j + (n - Ends[k])
  /\ \A i \in 1 .. j : b[i].char = "blank"
  /\ \A i \in 1 .. n - Ends[k] : b[j + i] = Wire(c)[Ends[k] + i]

(* The first and the last place of message m in such a buffer.             *)
First(j, k, m) == j + (Start(m) - Ends[k]) + 1
Last(j, k, m) == j + (Ends[m] - Ends[k])

(* A message that is complete lies between its first and last place.       *)
LEMMA HeldMessage ==
  ASSUME TextsOK, NEW b \in Seq(Character), NEW j \in Nat, NEW c \in Nat, NEW n \in Nat,
         NEW k \in 0 .. MessageCount, NEW m \in 1 .. MessageCount, k < m, Ends[m] <= n,
         Held(b, j, c, k, n)
  PROVE  /\ SubSeq(b, First(j, k, m), Last(j, k, m)) = Message(c, m)
         /\ Message(c, m) \in Seq(Character)
<1> USE Bounds
<1>1. PICK e \in Nat, s \in Nat, f \in Nat, g \in Nat, len \in Nat :
        /\ Ends[k] = e /\ Start(m) = s /\ Ends[m] = f /\ Ends[m - 1] = g
        /\ Len(texts[m].text) = len
        /\ f = s + len /\ g <= s /\ e <= s /\ len > 0
  <2>1. m - 1 \in 0 .. MessageCount
    OBVIOUS
  <2>2. texts[m].text \in Seq(Chars)
    BY DEF TextsOK, MessageType
  <2>3. Len(texts[m].text) \in Nat /\ Len(texts[m].text) > 0
    BY <2>2, LenProperties DEF TextsOK
  <2>4. Ends[k] <= Start(m)
    BY EndsGrow
  <2>5. /\ Ends[k] \in Nat /\ Start(m) \in Nat /\ Ends[m] \in Nat /\ Ends[m - 1] \in Nat
        /\ Ends[m] = Start(m) + Len(texts[m].text) /\ Ends[m - 1] <= Start(m)
    BY <2>1, EndsEquations
  <2> QED
    BY <2>3, <2>4, <2>5
<1> DEFINE from == j + (s - e) + 1
           to   == j + (f - e)
           sub  == SubSeq(b, from, to)
<1>2. Len(b) = j + (n - e) /\ Len(b) \in Nat /\ f <= n
  BY <1>1, LenProperties DEF Held
<1>3. /\ from \in Nat /\ to \in Nat /\ 1 <= from /\ to <= Len(b) /\ to - from + 1 = len
      /\ from <= to
  BY <1>1, <1>2
<1>4. \A i \in from .. to : b[i] \in Character
  BY <1>3, ElementOfSeq
<1> HIDE DEF from, to
<1>5. /\ sub \in Seq(Character) /\ Len(sub) = len
      /\ \A i \in 1 .. len : sub[i] = b[from + i - 1]
  <2>1. from \in Int /\ to \in Int
    BY <1>3
  <2>2. /\ sub \in Seq(Character)
        /\ Len(sub) = IF from <= to THEN to - from + 1 ELSE 0
        /\ \A i \in 1 .. to - from + 1 : sub[i] = b[from + i - 1]
    BY <1>4, <2>1, SubSeqProperties
  <2> QED
    BY <1>3, <2>2
<1> HIDE DEF sub
<1>6. ASSUME NEW i \in 1 .. len
      PROVE  sub[i] = Message(c, m)[i] /\ Message(c, m)[i] \in Character
  <2>1. /\ s + i \in Nat /\ g < s + i /\ s + i <= f /\ s + i > s /\ (s + i) - s = i
    BY <1>1
  <2>2. Wire(c)[s + i] = Message(c, m)[i]
    BY <1>1, <2>1, WireCharacter
  <2>3. /\ (s - e) + i \in 1 .. n - e
        /\ from + i - 1 = j + ((s - e) + i)
        /\ e + ((s - e) + i) = s + i
    BY <1>1, <1>2 DEF from
  <2>4. b[from + i - 1] = Wire(c)[s + i]
    BY <1>1, <2>3 DEF Held
  <2>5. Message(c, m)[i] \in Character
    BY <1>1, MessageCharacter
  <2> QED
    BY <1>5, <2>2, <2>4, <2>5
<1>7. Message(c, m) \in Seq(Character) /\ Len(Message(c, m)) = len
  <2>1. Message(c, m) = [i \in 1 .. len |-> Message(c, m)[i]]
    BY <1>1 DEF Message
  <2>2. Message(c, m) \in [1 .. len -> Character]
    BY <1>6, <2>1
  <2>3. Message(c, m) \in Seq(Character)
    BY <2>2
  <2>4. DOMAIN Message(c, m) = 1 .. Len(Message(c, m)) /\ Len(Message(c, m)) \in Nat
    BY <2>3, LenProperties
  <2> QED
    BY <2>2, <2>3, <2>4
<1>8. sub = Message(c, m)
  BY <1>5, <1>6, <1>7, SeqEqual
<1> QED
  BY <1>1, <1>7, <1>8 DEF sub, from, to, First, Last

(* What follows a complete message, or all of the buffer.                  *)
LEMMA HeldRest ==
  ASSUME TextsOK, NEW b \in Seq(Character), NEW j \in Nat, NEW c \in Nat, NEW n \in Nat,
         NEW k \in 0 .. MessageCount, NEW m \in k .. MessageCount, Ends[m] <= n,
         Held(b, j, c, k, n)
  PROVE  LET rest == SubSeq(b, Last(j, k, m) + 1, Len(b))
         IN  rest \in Seq(Character) /\ Held(rest, 0, c, m, n)
<1> USE Bounds
<1>1. PICK e \in Nat, f \in Nat : Ends[k] = e /\ Ends[m] = f /\ e <= f /\ f <= n
  <2>1. m \in 0 .. MessageCount
    OBVIOUS
  <2>2. k = m \/ Ends[k] < Ends[m]
    BY <2>1, EndsGrow
  <2>3. Ends[k] \in Nat /\ Ends[m] \in Nat
    BY <2>1, EndsEquations
  <2> QED
    BY <2>2, <2>3
<1> DEFINE from == j + (f - e) + 1
           to   == Len(b)
           rest == SubSeq(b, from, to)
<1>2. to = j + (n - e) /\ to \in Nat
  BY <1>1, LenProperties DEF Held
<1>3. from \in Nat /\ 1 <= from /\ to - from + 1 = n - f
  BY <1>1, <1>2
<1>4. \A i \in from .. to : b[i] \in Character
  BY <1>2, <1>3, ElementOfSeq
<1>5. \A i \in 1 .. n - f : b[from + i - 1] = Wire(c)[f + i]
  <2> SUFFICES ASSUME NEW i \in 1 .. n - f PROVE b[from + i - 1] = Wire(c)[f + i]
    OBVIOUS
  <2>1. /\ (f - e) + i \in 1 .. n - e
        /\ from + i - 1 = j + ((f - e) + i)
        /\ e + ((f - e) + i) = f + i
    BY <1>1
  <2> QED
    BY <1>1, <2>1 DEF Held
<1> HIDE DEF from, to
<1>6. /\ rest \in Seq(Character)
      /\ Len(rest) = IF from <= to THEN to - from + 1 ELSE 0
      /\ \A i \in 1 .. to - from + 1 : rest[i] = b[from + i - 1]
  <2>1. from \in Int /\ to \in Int
    BY <1>2, <1>3
  <2> QED
    BY <1>4, <2>1, SubSeqProperties
<1> HIDE DEF rest
<1>7. Len(rest) = 0 + (n - f)
  BY <1>1, <1>2, <1>3, <1>6
<1>8. \A i \in 1 .. n - f : rest[0 + i] = Wire(c)[f + i]
  <2>1. \A i \in 1 .. n - f : 0 + i = i /\ rest[i] = b[from + i - 1]
    BY <1>3, <1>6
  <2> QED
    BY <1>5, <2>1
<1>9. Held(rest, 0, c, m, n)
  BY <1>1, <1>7, <1>8 DEF Held
<1> QED
  BY <1>1, <1>6, <1>9 DEF rest, from, to, Last

-----------------------------------------------------------------------------
(* PCM frames.                                                             *)

(* Multiplication distributes, on its own so that the solver sees it.      *)
LEMMA Distribute ==
  ASSUME NEW x \in Int, NEW y \in Int, NEW z \in Int
  PROVE  (x + y) * z = x * z + y * z /\ (x - y) * z = x * z - y * z
  OBVIOUS

(* The quotient is the number of whole divisors.                           *)
LEMMA Quotient ==
  ASSUME NEW x \in Nat, NEW q \in Nat, NEW z \in Nat, z > 0, q * z <= x, x < q * z + z
  PROVE  x \div z = q
  OBVIOUS

(* Frames of equal size end at multiples of it.                            *)
LEMMA PcmEnds ==
  ASSUME TextsOK, \A m \in 1 .. MessageCount : texts[m] = PcmFrame
  PROVE  /\ \A m \in 0 .. MessageCount : Ends[m] = m * FrameSize
         /\ \A m \in 1 .. MessageCount : Start(m) = (m - 1) * FrameSize
<1> USE Bounds
<1>1. ASSUME NEW m \in 1 .. MessageCount
      PROVE  Start(m) = Ends[m - 1] /\ Ends[m] = Ends[m - 1] + FrameSize /\ Ends[m - 1] \in Nat
  <2>1. texts[m].space = 0 /\ texts[m].text = [i \in 1 .. FrameSize |-> "other"]
    BY DEF PcmFrame
  <2>2. Len(texts[m].text) = FrameSize
    BY <2>1
  <2>3. m - 1 \in 0 .. MessageCount
    OBVIOUS
  <2>4. Ends[m - 1] \in Nat /\ Ends[m] = Start(m) + Len(texts[m].text)
    BY <2>3, EndsEquations
  <2>5. Start(m) = Ends[m - 1]
    BY <2>1, <2>4 DEF Start
  <2> QED
    BY <2>2, <2>4, <2>5
<1>2. \A m \in 0 .. MessageCount : Ends[m] = m * FrameSize
  <2> DEFINE S == {m \in Nat : Ends[m] = m * FrameSize}
  <2>1. ASSUME NEW m \in 1 .. MessageCount, m - 1 \in S
        PROVE  m \in S
    <3>1. Ends[m - 1] = (m - 1) * FrameSize /\ Ends[m] = Ends[m - 1] + FrameSize
      BY <1>1, <2>1
    <3>2. (m - 1) * FrameSize = m * FrameSize - 1 * FrameSize
      BY Distribute
    <3>3. m * FrameSize \in Nat /\ 1 * FrameSize = FrameSize
      OBVIOUS
    <3> QED
      BY <3>1, <3>2, <3>3
  <2>2. 0 \in S
    BY EndsEquations
  <2> HIDE DEF S
  <2>3. \A m \in 0 .. MessageCount : m \in S
    BY <2>1, <2>2, InductionUpTo
  <2> QED
    BY <2>3 DEF S
<1>3. ASSUME NEW m \in 1 .. MessageCount
      PROVE  Start(m) = (m - 1) * FrameSize
  <2>1. m - 1 \in 0 .. MessageCount
    OBVIOUS
  <2> QED
    BY <1>1, <1>2, <2>1
<1> QED
  BY <1>2, <1>3

(* Every complete frame, and the tail (PcmFrameExtractor.append).          *)
LEMMA PcmExtracts ==
  ASSUME TextsOK, \A m \in 1 .. MessageCount : texts[m] = PcmFrame,
         NEW b \in Seq(Character), NEW c \in Nat, NEW n \in 0 .. Ends[MessageCount],
         NEW k \in 0 .. MessageCount, NEW q \in k .. MessageCount, Completed(q, n),
         Held(b, 0, c, k, n)
  PROVE  /\ PcmExtract(b).messages = [i \in 1 .. q - k |-> Message(c, k + i)]
         /\ PcmExtract(b).rest \in Seq(Character)
         /\ Held(PcmExtract(b).rest, 0, c, q, n)
<1> USE Bounds
<1> DEFINE F == FrameSize
<1>1. /\ q \in 0 .. MessageCount /\ MessageCount \in 0 .. MessageCount /\ n \in Nat
      /\ Ends[k] = k * F /\ Ends[q] = q * F /\ Ends[MessageCount] = MessageCount * F
      /\ k * F \in Nat /\ q * F \in Nat /\ MessageCount * F \in Nat
  <2>1. q \in 0 .. MessageCount /\ MessageCount \in 0 .. MessageCount
    OBVIOUS
  <2>2. \A m \in 0 .. MessageCount : m * F \in Nat
    OBVIOUS
  <2> QED
    BY <2>1, <2>2, PcmEnds
<1>2. q * F <= n /\ n < q * F + F
  <2>1. q * F <= n
    BY <1>1 DEF Completed
  <2>2. CASE q = MessageCount
    BY <1>1, <2>1, <2>2
  <2>3. CASE q # MessageCount
    <3>1. q + 1 \in 0 .. MessageCount /\ n < Ends[q + 1]
      BY <2>3 DEF Completed
    <3>2. Ends[q + 1] = (q + 1) * F /\ (q + 1) * F = q * F + 1 * F /\ 1 * F = F
      BY <3>1, PcmEnds, Distribute
    <3> QED
      BY <2>1, <3>1, <3>2
  <2> QED
    BY <2>2, <2>3
<1>3. Len(b) = n - k * F /\ Len(b) \in Nat
  BY <1>1, LenProperties DEF Held
<1>4. (q - k) * F = q * F - k * F /\ q - k \in Nat /\ (q - k) * F \in Nat
  BY Distribute
<1>5. Len(b) \div F = q - k
  <2>1. (q - k) * F <= Len(b) /\ Len(b) < (q - k) * F + F
    BY <1>1, <1>2, <1>3, <1>4
  <2> QED
    BY <1>3, <1>4, <2>1, Quotient
<1>6. ASSUME NEW i \in 1 .. q - k
      PROVE  SubSeq(b, (i - 1) * F + 1, i * F) = Message(c, k + i)
  <2> DEFINE m == k + i
  <2>1. m \in 1 .. MessageCount /\ m \in 0 .. MessageCount /\ k < m /\ m <= q /\ m = k + i
    OBVIOUS
  <2> HIDE DEF m
  <2>2. Ends[m] = m * F /\ Start(m) = (m - 1) * F
    BY <2>1, PcmEnds
  <2>3. /\ m * F = k * F + i * F /\ (m - 1) * F = m * F - 1 * F /\ (i - 1) * F = i * F - 1 * F
        /\ i * F \in Int /\ m * F \in Int
    BY <2>1, Distribute
  <2>4. Ends[m] <= n
    BY <1>1, <2>1, CompletedUnique
  <2>5. First(0, k, m) = (i - 1) * F + 1 /\ Last(0, k, m) = i * F
    BY <1>1, <2>2, <2>3 DEF First, Last
  <2>6. SubSeq(b, First(0, k, m), Last(0, k, m)) = Message(c, m)
    <3>1. 0 \in Nat /\ n \in Nat
      BY <1>1
    <3>2. m \in 1 .. MessageCount /\ k < m
      BY <2>1
    <3> QED
      BY <2>4, <3>1, <3>2, HeldMessage
  <2> QED
    BY <2>5, <2>6 DEF m
<1>7. PcmExtract(b).messages = [i \in 1 .. q - k |-> Message(c, k + i)]
  BY <1>5, <1>6 DEF PcmExtract
<1>8. PcmExtract(b).rest = SubSeq(b, Last(0, k, q) + 1, Len(b))
  <2>1. (q - k) * F = Last(0, k, q)
    BY <1>1, <1>4 DEF Last
  <2> QED
    BY <1>5, <2>1 DEF PcmExtract
<1>9. Ends[q] <= n
  BY <1>1, <1>2
<1>10. /\ SubSeq(b, Last(0, k, q) + 1, Len(b)) \in Seq(Character)
       /\ Held(SubSeq(b, Last(0, k, q) + 1, Len(b)), 0, c, q, n)
  <2>1. 0 \in Nat /\ n \in Nat
    BY <1>1
  <2> QED
    BY <1>9, <2>1, HeldRest
<1> QED
  BY <1>7, <1>8, <1>10

-----------------------------------------------------------------------------
(* JSON objects.                                                           *)

ScanState == [depth : Nat, start : Nat, stop : Nat, found : Seq(Nat \X Nat)]

(* What one character does to the state of a scan.                         *)
LEMMA ScanStep ==
  ASSUME NEW s \in ScanState, NEW ch \in Character, NEW i \in Nat
  PROVE  LET t == Scan(s, ch, i)
         IN  /\ t \in ScanState
             /\ ch.char = "open" =>
                  /\ t.depth = s.depth + 1 /\ t.start = (IF s.depth = 0 THEN i ELSE s.start)
                  /\ t.stop = s.stop /\ t.found = s.found
             /\ ch.char = "close" /\ s.depth > 1 =>
                  /\ t.depth = s.depth - 1 /\ t.start = s.start
                  /\ t.stop = s.stop /\ t.found = s.found
             /\ ch.char = "close" /\ s.depth = 1 =>
                  /\ t.depth = 0 /\ t.stop = i /\ t.found = Append(s.found, <<s.start, i>>)
             /\ ch.char \notin {"open", "close"} => t = s
<1> DEFINE t == Scan(s, ch, i)
<1>1. /\ s.depth \in Nat /\ s.start \in Nat /\ s.stop \in Nat /\ s.found \in Seq(Nat \X Nat)
      /\ s = [depth |-> s.depth, start |-> s.start, stop |-> s.stop, found |-> s.found]
  BY DEF ScanState
<1>2. CASE ch.char = "open"
  <2>1. t = [s EXCEPT !.depth = @ + 1, !.start = IF s.depth = 0 THEN i ELSE @]
    BY <1>2 DEF Scan
  <2>2. t = [depth |-> s.depth + 1, start |-> IF s.depth = 0 THEN i ELSE s.start,
             stop |-> s.stop, found |-> s.found]
    BY <1>1, <2>1
  <2> QED
    BY <1>1, <1>2, <2>2 DEF ScanState
<1>3. CASE ch.char = "close" /\ s.depth = 1
  <2>1. t = [s EXCEPT !.depth = 0, !.stop = i, !.found = Append(@, <<s.start, i>>)]
    BY <1>3 DEF Scan
  <2>2. t = [depth |-> 0, start |-> s.start, stop |-> i, found |-> Append(s.found, <<s.start, i>>)]
    BY <1>1, <2>1
  <2>3. Append(s.found, <<s.start, i>>) \in Seq(Nat \X Nat)
    BY <1>1, AppendProperties
  <2>4. t \in ScanState
    BY <1>1, <2>2, <2>3 DEF ScanState
  <2> QED
    BY <1>3, <2>2, <2>4
<1>4. CASE ch.char = "close" /\ s.depth > 1
  <2>1. t = [s EXCEPT !.depth = @ - 1]
    BY <1>1, <1>4 DEF Scan
  <2>2. t = [depth |-> s.depth - 1, start |-> s.start, stop |-> s.stop, found |-> s.found]
    BY <1>1, <2>1
  <2>3. s.depth - 1 \in Nat
    BY <1>1, <1>4
  <2> QED
    BY <1>1, <1>4, <2>2, <2>3 DEF ScanState
<1>5. CASE ch.char \notin {"open", "close"}
  <2>1. t = s
    BY <1>5 DEF Scan
  <2> QED
    BY <1>5, <2>1
<1>6. CASE ch.char = "close" /\ s.depth = 0
  <2>1. t = s
    BY <1>6 DEF Scan
  <2> QED
    BY <1>6, <2>1
<1> QED
  BY <1>1, <1>2, <1>3, <1>4, <1>5, <1>6

(* The state of the scan after each character of a buffer.                 *)
LEMMA ScannedEquations ==
  ASSUME NEW data \in Seq(Character)
  PROVE  /\ Scanned(data)[0] = [depth |-> 0, start |-> 0, stop |-> 0, found |-> <<>>]
         /\ \A i \in 1 .. Len(data) : Scanned(data)[i] = Scan(Scanned(data)[i - 1], data[i], i)
         /\ \A i \in 0 .. Len(data) : Scanned(data)[i] \in ScanState
<1> DEFINE first == [depth |-> 0, start |-> 0, stop |-> 0, found |-> <<>>]
           F == [p \in Nat \X ScanState |-> Scan(p[2], data[p[1]], p[1])]
           n == Len(data)
<1>1. n \in Nat /\ \A i \in 1 .. n : data[i] \in Character
  BY LenProperties, ElementOfSeq
<1>2. \A i \in Nat, s \in ScanState : F[<<i, s>>] = Scan(s, data[i], i)
  OBVIOUS
<1>3. first \in ScanState
  BY EmptySeq DEF ScanState
<1> HIDE DEF F, n, first
<1>4. PICK g : Follows(g, n, first, F)
  BY <1>1, RecursionExists
<1>5. /\ g = [i \in 0 .. n |-> g[i]]
      /\ g[0] = first
      /\ \A i \in 1 .. n : g[i] = F[<<i, g[i - 1]>>]
  BY <1>4 DEF Follows
<1>6. ASSUME NEW i \in 1 .. n, g[i - 1] \in ScanState
      PROVE  g[i] = Scan(g[i - 1], data[i], i) /\ g[i] \in ScanState
  <2>1. i \in Nat
    BY <1>1
  <2>2. g[i] = Scan(g[i - 1], data[i], i)
    BY <1>2, <1>5, <1>6, <2>1
  <2> QED
    BY <1>1, <1>6, <2>1, <2>2, ScanStep
<1>7. \A i \in 0 .. n : g[i] \in ScanState
  <2> DEFINE S == {i \in Nat : g[i] \in ScanState}
  <2>1. ASSUME NEW i \in 1 .. n, i - 1 \in S
        PROVE  i \in S
    BY <1>1, <1>6, <2>1
  <2>2. 0 \in S
    BY <1>3, <1>5
  <2> HIDE DEF S
  <2>3. \A i \in 0 .. n : i \in S
    BY <1>1, <2>1, <2>2, InductionUpTo
  <2> QED
    BY <2>3 DEF S
<1>8. \A i \in 1 .. n : g[i] = Scan(g[i - 1], data[i], i)
  <2>1. \A i \in 1 .. n : i - 1 \in 0 .. n
    BY <1>1
  <2> QED
    BY <1>6, <1>7, <2>1
<1>9. g = [i \in 0 .. Len(data) |->
             IF i = 0 THEN [depth |-> 0, start |-> 0, stop |-> 0, found |-> <<>>]
             ELSE Scan(g[i - 1], data[i], i)]
  <2>1. \A i \in 0 .. n : g[i] = IF i = 0 THEN first ELSE Scan(g[i - 1], data[i], i)
    <3>1. \A i \in 0 .. n : i = 0 \/ i \in 1 .. n
      BY <1>1
    <3> QED
      BY <1>5, <1>8, <3>1
  <2> QED
    BY <1>5, <2>1 DEF n, first
<1>10. Scanned(data) = [i \in 0 .. Len(data) |->
             IF i = 0 THEN [depth |-> 0, start |-> 0, stop |-> 0, found |-> <<>>]
             ELSE Scan(Scanned(data)[i - 1], data[i], i)]
  BY <1>9 DEF Scanned
<1> DEFINE sc == Scanned(data)
<1> HIDE DEF sc
<1>11. /\ sc = [i \in 0 .. n |-> sc[i]]
       /\ sc[0] = first
       /\ \A i \in 1 .. n : sc[i] = Scan(sc[i - 1], data[i], i)
  <2>1. sc = [i \in 0 .. n |-> IF i = 0 THEN first ELSE Scan(sc[i - 1], data[i], i)]
    BY <1>10 DEF sc, n, first
  <2>2. \A i \in 1 .. n : i \in 0 .. n /\ i # 0
    BY <1>1
  <2>3. 0 \in 0 .. n
    BY <1>1
  <2> QED
    BY <2>1, <2>2, <2>3
<1>12. ASSUME NEW i \in 1 .. n, sc[i - 1] \in ScanState
       PROVE  sc[i] \in ScanState
  <2>1. i \in Nat
    BY <1>1
  <2> QED
    BY <1>1, <1>11, <1>12, <2>1, ScanStep
<1>13. \A i \in 0 .. n : sc[i] \in ScanState
  <2> DEFINE S == {i \in Nat : sc[i] \in ScanState}
  <2>1. ASSUME NEW i \in 1 .. n, i - 1 \in S
        PROVE  i \in S
    BY <1>1, <1>12, <2>1
  <2>2. 0 \in S
    BY <1>3, <1>11
  <2> HIDE DEF S
  <2>3. \A i \in 0 .. n : i \in S
    BY <1>1, <2>1, <2>2, InductionUpTo
  <2> QED
    BY <2>3 DEF S
<1> QED
  BY <1>11, <1>13 DEF sc, n, first

(* What the splitter uses of the texts: an object opens with its first     *)
(* character and closes with its last.                                     *)
JsonOK ==
  /\ TextsOK
  /\ \A m \in 1 .. MessageCount :
       /\ Len(texts[m].text) > 1
       /\ \E d \in [0 .. Len(texts[m].text) -> 0 .. Len(texts[m].text)] :
            IsDepth(d, texts[m].text)

Depth(m) == CHOOSE d \in [0 .. Len(texts[m].text) -> 0 .. Len(texts[m].text)] :
              IsDepth(d, texts[m].text)

(* The state of the scan of such a buffer at place p of the wire: q        *)
(* messages are complete, and the depth is that of the object under way.   *)
ScanAt(s, j, k, q, p) ==
  /\ q = k \/ Ends[q] <= p
  /\ q < MessageCount => p < Ends[q + 1]
  /\ s.depth = IF q < MessageCount /\ p > Start(q + 1) THEN Depth(q + 1)[p - Start(q + 1)] ELSE 0
  /\ s.depth > 0 => s.start = First(j, k, q + 1)
  /\ s.stop = IF q = k THEN 0 ELSE Last(j, k, q)
  /\ Len(s.found) = q - k
  /\ \A h \in 1 .. q - k : s.found[h] = <<First(j, k, k + h), Last(j, k, k + h)>>

(* The depth is 0 before and after an object and positive inside it.       *)
LEMMA DepthFacts ==
  ASSUME JsonOK, NEW m \in 1 .. MessageCount
  PROVE  LET text == texts[m].text  d == Depth(m)
         IN  /\ Len(text) \in Nat /\ Len(text) > 1
             /\ \A x \in 0 .. Len(text) : d[x] \in Nat
             /\ d[0] = 0 /\ d[Len(text)] = 0
             /\ \A x \in 1 .. Len(text) - 1 : d[x] > 0
             /\ \A x \in 1 .. Len(text) :
                  /\ text[x] = "open" => d[x] = d[x - 1] + 1
                  /\ text[x] = "close" => d[x] = d[x - 1] - 1
                  /\ text[x] \notin {"open", "close"} => d[x] = d[x - 1]
<1> DEFINE text == texts[m].text
           d == Depth(m)
<1> USE Bounds
<1>1. text \in Seq(Chars) /\ Len(text) > 1
  BY DEF JsonOK, TextsOK, MessageType
<1>2. Len(text) \in Nat
  BY <1>1, LenProperties
<1>3. d \in [0 .. Len(text) -> 0 .. Len(text)] /\ IsDepth(d, text)
  BY DEF JsonOK, Depth
<1> HIDE DEF text, d
<1>4. \A x \in 1 .. Len(text) :
        /\ text[x] = "open" => d[x] = d[x - 1] + 1
        /\ text[x] = "close" => d[x] = d[x - 1] - 1
        /\ text[x] \notin {"open", "close"} => d[x] = d[x - 1]
  BY <1>3 DEF IsDepth
<1>5. d[0] = 0 /\ d[Len(text)] = 0 /\ \A x \in 1 .. Len(text) - 1 : d[x] > 0
  BY <1>3 DEF IsDepth
<1>6. \A x \in 0 .. Len(text) : d[x] \in Nat
  BY <1>2, <1>3
<1> QED
  BY <1>1, <1>2, <1>4, <1>5, <1>6 DEF text, d

(* White space outside an object.                                          *)
LEMMA ScanOutside ==
  ASSUME JsonOK, NEW s \in ScanState, NEW ch \in Character, ch.char = "blank", NEW i \in Nat,
         NEW j \in Nat, NEW k \in 0 .. MessageCount, NEW q \in k .. MessageCount, NEW p \in Int,
         q < MessageCount => p <= Start(q + 1), ScanAt(s, j, k, q, p - 1)
  PROVE  ScanAt(Scan(s, ch, i), j, k, q, p)
<1> USE Bounds
<1>1. Scan(s, ch, i) = s
  BY ScanStep
<1>2. q \in 0 .. MessageCount /\ Ends[q] \in Nat
  BY EndsEquations DEF JsonOK
<1>3. q < MessageCount =>
        /\ Start(q + 1) \in Nat /\ Ends[q + 1] \in Nat /\ Start(q + 1) < Ends[q + 1]
  BY <1>2, EndsEquations DEF JsonOK
<1>4. q = k \/ Ends[q] <= p
  BY <1>2 DEF ScanAt
<1>5. q < MessageCount => p < Ends[q + 1] /\ ~(p > Start(q + 1)) /\ ~(p - 1 > Start(q + 1))
  BY <1>3
<1> QED
  BY <1>1, <1>4, <1>5 DEF ScanAt

(* The place of a character in the object it belongs to.                   *)
LEMMA PlaceInObject ==
  ASSUME JsonOK, NEW m \in 1 .. MessageCount, NEW p \in Nat, Start(m) < p, p <= Ends[m]
  PROVE  LET d == Depth(m)  x == p - Start(m)  text == texts[m].text
         IN  /\ x \in 1 .. Len(text)
             /\ d[x] \in Nat /\ d[x - 1] \in Nat
             /\ d[x - 1] = 0 <=> x = 1
             /\ d[x] = 0 <=> p = Ends[m]
             /\ text[x] = "open" => d[x] = d[x - 1] + 1
             /\ text[x] = "close" => d[x] = d[x - 1] - 1
             /\ text[x] \notin {"open", "close"} => d[x] = d[x - 1]
<1> USE Bounds
<1> DEFINE d == Depth(m)
           text == texts[m].text
<1>1. PICK b \in Nat, e \in Nat, len \in Nat :
        /\ Start(m) = b /\ Ends[m] = e /\ Len(text) = len /\ e = b + len /\ len > 1
  <2>1. Len(text) \in Nat /\ Len(text) > 1
    BY DepthFacts
  <2>2. m \in 0 .. MessageCount
    OBVIOUS
  <2>3. Start(m) \in Nat /\ Ends[m] \in Nat /\ Ends[m] = Start(m) + Len(text)
    BY <2>2, EndsEquations DEF JsonOK
  <2> QED
    BY <2>1, <2>3
<1>2. /\ \A y \in 0 .. len : d[y] \in Nat
      /\ d[0] = 0 /\ d[len] = 0
      /\ \A y \in 1 .. len - 1 : d[y] > 0
      /\ \A y \in 1 .. len :
           /\ text[y] = "open" => d[y] = d[y - 1] + 1
           /\ text[y] = "close" => d[y] = d[y - 1] - 1
           /\ text[y] \notin {"open", "close"} => d[y] = d[y - 1]
  BY <1>1, DepthFacts
<1> HIDE DEF d, text
<1> DEFINE x == p - b
<1>3. /\ x \in 1 .. len /\ x \in 0 .. len /\ x - 1 \in 0 .. len
      /\ x - 1 = 0 <=> x = 1
      /\ x - 1 # 0 => x - 1 \in 1 .. len - 1
      /\ x = len <=> p = e
      /\ x # len => x \in 1 .. len - 1
  BY <1>1
<1> HIDE DEF x
<1>4. d[x] \in Nat /\ d[x - 1] \in Nat /\ (d[x - 1] = 0 <=> x = 1) /\ (d[x] = 0 <=> p = e)
  BY <1>2, <1>3
<1>5. /\ text[x] = "open" => d[x] = d[x - 1] + 1
      /\ text[x] = "close" => d[x] = d[x - 1] - 1
      /\ text[x] \notin {"open", "close"} => d[x] = d[x - 1]
  BY <1>2, <1>3
<1> QED
  BY <1>1, <1>3, <1>4, <1>5 DEF x, d, text

(* What the state of the scan is before a character of an object.          *)
LEMMA ScanBefore ==
  ASSUME JsonOK, NEW s \in ScanState,
         NEW j \in Nat, NEW k \in 0 .. MessageCount, NEW q \in k .. MessageCount,
         NEW m \in 1 .. MessageCount, q = m - 1,
         NEW p \in Nat, Start(m) < p, p <= Ends[m], ScanAt(s, j, k, q, p - 1)
  PROVE  /\ s.depth = Depth(m)[p - Start(m) - 1]
         /\ s.depth = 0 => j + (p - Ends[k]) = First(j, k, m)
         /\ s.depth > 0 => s.start = First(j, k, m)
<1> USE Bounds
<1>1. q < MessageCount /\ q + 1 = m /\ m \in 0 .. MessageCount
  OBVIOUS
<1>2. PICK b \in Nat, e \in Nat : Start(m) = b /\ Ends[k] = e
  BY <1>1, EndsEquations DEF JsonOK
<1>3. s.depth = IF p - 1 > b THEN Depth(m)[(p - 1) - b] ELSE 0
  BY <1>1, <1>2 DEF ScanAt
<1>4. s.depth > 0 => s.start = First(j, k, m)
  BY <1>1 DEF ScanAt
<1>5. s.depth = Depth(m)[(p - b) - 1]
  <2>1. CASE p - 1 > b
    <3>1. (p - 1) - b = (p - b) - 1
      BY <1>2
    <3> QED
      BY <1>3, <2>1, <3>1
  <2>2. CASE ~(p - 1 > b)
    <3>1. (p - b) - 1 = 0
      BY <1>2, <2>2
    <3>2. Depth(m)[0] = 0
      BY DepthFacts
    <3> QED
      BY <1>3, <2>2, <3>1, <3>2
  <2> QED
    BY <2>1, <2>2
<1>6. s.depth = 0 => p - b = 1
  <2>1. (Depth(m)[(p - b) - 1] = 0) <=> (p - b = 1)
    BY <1>2, PlaceInObject
  <2> QED
    BY <1>5, <2>1
<1>7. s.depth = 0 => j + (p - e) = j + (b - e) + 1
  BY <1>2, <1>6
<1> QED
  BY <1>2, <1>4, <1>5, <1>7 DEF First

(* ch, at place i of the buffer, is the character of message m at place p  *)
(* of the wire.                                                            *)
AtPlace(ch, i, j, k, m, p) ==
  /\ ch.char = texts[m].text[p - Start(m)]
  /\ i = j + (p - Ends[k])

(* A character of an object that is not its last.                          *)
LEMMA ScanInside ==
  ASSUME JsonOK, NEW s \in ScanState, NEW ch \in Character, NEW i \in Nat,
         NEW j \in Nat, NEW k \in 0 .. MessageCount, NEW q \in k .. MessageCount,
         NEW m \in 1 .. MessageCount, q = m - 1,
         NEW p \in Nat, Start(m) < p, p < Ends[m],
         AtPlace(ch, i, j, k, m, p),
         ScanAt(s, j, k, q, p - 1)
  PROVE  ScanAt(Scan(s, ch, i), j, k, q, p)
<1> USE Bounds
<1> DEFINE t == Scan(s, ch, i)
           d == Depth(m)
           x == p - Start(m)
<1>1. q < MessageCount /\ q + 1 = m /\ m \in 0 .. MessageCount /\ q \in 0 .. MessageCount
  OBVIOUS
<1>2. Start(m) \in Nat /\ Ends[m] \in Nat /\ Ends[q] \in Nat /\ Ends[q] <= Start(m)
  BY <1>1, EndsEquations DEF JsonOK
<1>3. p <= Ends[m] /\ p # Ends[m]
  BY <1>2
<1>4. /\ s.depth = d[x - 1]
      /\ s.depth = 0 => i = First(j, k, m)
      /\ s.depth > 0 => s.start = First(j, k, m)
  BY <1>3, ScanBefore DEF AtPlace
<1> DEFINE y == texts[m].text[x]
<1>10. /\ d[x] \in Nat /\ d[x - 1] \in Nat /\ (d[x] = 0 <=> p = Ends[m])
       /\ y = "open" => d[x] = d[x - 1] + 1
       /\ y = "close" => d[x] = d[x - 1] - 1
       /\ y \notin {"open", "close"} => d[x] = d[x - 1]
  BY <1>3, PlaceInObject
<1>11. ch.char = y
  BY DEF AtPlace
<1> HIDE DEF d, x, y
<1>5. /\ d[x] \in Nat /\ d[x - 1] \in Nat /\ d[x] # 0
      /\ ch.char = "open" => d[x] = d[x - 1] + 1
      /\ ch.char = "close" => d[x] = d[x - 1] - 1
      /\ ch.char \notin {"open", "close"} => d[x] = d[x - 1]
  BY <1>3, <1>10, <1>11
<1>6. /\ ch.char = "open" =>
           /\ t.depth = s.depth + 1 /\ t.start = (IF s.depth = 0 THEN i ELSE s.start)
           /\ t.stop = s.stop /\ t.found = s.found
      /\ ch.char = "close" /\ s.depth > 1 =>
           /\ t.depth = s.depth - 1 /\ t.start = s.start
           /\ t.stop = s.stop /\ t.found = s.found
      /\ ch.char \notin {"open", "close"} => t = s
  BY ScanStep
<1> HIDE DEF d, t, x
<1>7. t.depth = d[x] /\ t.start = First(j, k, m) /\ t.stop = s.stop /\ t.found = s.found
  <2>1. CASE ch.char = "open"
    BY <1>4, <1>5, <1>6, <2>1
  <2>2. CASE ch.char = "close"
    <3>1. s.depth > 1
      BY <1>4, <1>5, <2>2
    <3> QED
      BY <1>4, <1>5, <1>6, <2>2, <3>1
  <2>3. CASE ch.char \notin {"open", "close"}
    <3>1. t = s /\ s.depth > 0
      BY <1>4, <1>5, <1>6, <2>3
    <3> QED
      BY <1>4, <1>5, <2>3, <3>1
  <2> QED
    BY <2>1, <2>2, <2>3
<1>8. q = k \/ Ends[q] <= p
  BY <1>2
<1>9. t.depth = IF q < MessageCount /\ p > Start(q + 1) THEN Depth(q + 1)[p - Start(q + 1)] ELSE 0
  BY <1>1, <1>2, <1>7 DEF d, x
<1> QED
  BY <1>1, <1>7, <1>8, <1>9 DEF ScanAt, t

(* The last character of an object.                                        *)
LEMMA ScanLast ==
  ASSUME JsonOK, NEW s \in ScanState, NEW ch \in Character, NEW i \in Nat,
         NEW j \in Nat, NEW k \in 0 .. MessageCount, NEW q \in k .. MessageCount,
         NEW m \in 1 .. MessageCount, q = m - 1,
         NEW p \in Nat, Start(m) < p, p = Ends[m],
         AtPlace(ch, i, j, k, m, p),
         ScanAt(s, j, k, q, p - 1)
  PROVE  ScanAt(Scan(s, ch, i), j, k, m, p)
<1> USE Bounds
<1> DEFINE t == Scan(s, ch, i)
           d == Depth(m)
           x == p - Start(m)
<1>1. q < MessageCount /\ q + 1 = m /\ m \in 0 .. MessageCount /\ q \in 0 .. MessageCount
  OBVIOUS
<1>3. p <= Ends[m]
  OBVIOUS
<1>4. /\ s.depth = d[x - 1]
      /\ s.depth > 0 => s.start = First(j, k, m)
  BY <1>3, ScanBefore DEF AtPlace
<1> DEFINE y == texts[m].text[x]
<1>15. /\ d[x] \in Nat /\ d[x - 1] \in Nat /\ (d[x] = 0 <=> p = Ends[m])
       /\ d[x - 1] = 0 <=> x = 1
       /\ y = "open" => d[x] = d[x - 1] + 1
       /\ y = "close" => d[x] = d[x - 1] - 1
       /\ y \notin {"open", "close"} => d[x] = d[x - 1]
  BY <1>3, PlaceInObject
<1>16. ch.char = y
  BY DEF AtPlace
<1>6. ch.char = "close" /\ s.depth = 1 =>
           /\ t.depth = 0 /\ t.stop = i /\ t.found = Append(s.found, <<s.start, i>>)
  BY ScanStep
<1>7. x > 1
  <2>1. Len(texts[m].text) \in Nat /\ Len(texts[m].text) > 1
    BY DepthFacts
  <2>2. Ends[m] = Start(m) + Len(texts[m].text) /\ Start(m) \in Nat
    BY <1>1, EndsEquations DEF JsonOK
  <2> QED
    BY <2>1, <2>2
<1> HIDE DEF d, t, x, y
<1>5. /\ d[x] = 0 /\ d[x - 1] \in Nat /\ d[x - 1] # 0
      /\ ch.char = "open" => d[x] = d[x - 1] + 1
      /\ ch.char = "close" => d[x] = d[x - 1] - 1
      /\ ch.char \notin {"open", "close"} => d[x] = d[x - 1]
  BY <1>7, <1>15, <1>16
<1>8. ch.char = "close" /\ s.depth = 1
  <2>1. ch.char = "close"
    BY <1>5
  <2> QED
    BY <1>4, <1>5, <2>1
<1>9. i = Last(j, k, m)
  BY DEF Last, AtPlace
<1>10. /\ t.depth = 0 /\ t.stop = Last(j, k, m)
       /\ t.found = Append(s.found, <<First(j, k, m), Last(j, k, m)>>)
  BY <1>4, <1>6, <1>8, <1>9
<1>11. /\ Len(s.found) = q - k /\ q - k \in Nat
       /\ \A h \in 1 .. q - k : s.found[h] = <<First(j, k, k + h), Last(j, k, k + h)>>
  BY DEF ScanAt
<1>12. /\ Len(t.found) = m - k
       /\ \A h \in 1 .. m - k : t.found[h] = <<First(j, k, k + h), Last(j, k, k + h)>>
  <2>1. s.found \in Seq(Nat \X Nat)
    BY DEF ScanState
  <2>2. /\ Len(t.found) = Len(s.found) + 1
        /\ \A h \in 1 .. Len(s.found) : t.found[h] = s.found[h]
        /\ t.found[Len(s.found) + 1] = <<First(j, k, m), Last(j, k, m)>>
    BY <1>10, <2>1, AppendProperties
  <2>3. (q - k) + 1 = m - k /\ k + (m - k) = m
    BY <1>1
  <2>4. \A h \in 1 .. m - k : h \in 1 .. q - k \/ h = m - k
    BY <1>1
  <2> QED
    BY <1>11, <2>2, <2>3, <2>4
<1>13. m < MessageCount => p < Ends[m + 1] /\ ~(p > Start(m + 1))
  <2> SUFFICES ASSUME m < MessageCount PROVE p < Ends[m + 1] /\ ~(p > Start(m + 1))
    OBVIOUS
  <2> DEFINE r == m + 1
  <2>1. r \in 1 .. MessageCount /\ r \in 0 .. MessageCount /\ r - 1 = m
    OBVIOUS
  <2> HIDE DEF r
  <2>2. /\ Start(r) \in Nat /\ Ends[r] \in Nat /\ Ends[m] \in Nat
        /\ Ends[m] <= Start(r) /\ Start(r) < Ends[r]
    BY <1>1, <2>1, EndsEquations DEF JsonOK
  <2>3. p < Ends[r] /\ ~(p > Start(r))
    BY <2>2
  <2> QED
    BY <2>3 DEF r
<1>14. m # k
  OBVIOUS
<1>17. Ends[m] <= p
  BY <1>1, EndsEquations DEF JsonOK
<1>18. t.depth = IF m < MessageCount /\ p > Start(m + 1) THEN Depth(m + 1)[p - Start(m + 1)] ELSE 0
  BY <1>10, <1>13
<1>19. ~(t.depth > 0)
  BY <1>10
<1>20. t.stop = IF m = k THEN 0 ELSE Last(j, k, m)
  BY <1>10, <1>14
<1>21. m < MessageCount => p < Ends[m + 1]
  BY <1>13
<1>22. ScanAt(t, j, k, m, p)
  BY <1>12, <1>17, <1>18, <1>19, <1>20, <1>21 DEF ScanAt
<1> QED
  BY <1>22 DEF t

(* The place on the wire of character i of such a buffer, after the blanks. *)
PlaceOf(i, j, k) == Ends[k] + (i - j)

(* One more character of such a buffer.                                    *)
LEMMA ScanOne ==
  ASSUME JsonOK, NEW s \in ScanState, NEW b \in Seq(Character), NEW j \in Nat, NEW c \in Nat,
         NEW n \in 0 .. Ends[MessageCount], NEW k \in 0 .. MessageCount, Ends[k] <= n,
         Held(b, j, c, k, n), NEW q \in k .. MessageCount,
         NEW i \in 1 .. Len(b), ScanAt(s, j, k, q, PlaceOf(i, j, k) - 1)
  PROVE  \E r \in k .. MessageCount : ScanAt(Scan(s, b[i], i), j, k, r, PlaceOf(i, j, k))
<1> USE Bounds
<1> DEFINE p == PlaceOf(i, j, k)
           t == Scan(s, b[i], i)
<1>1. q \in 0 .. MessageCount /\ MessageCount \in 0 .. MessageCount
  OBVIOUS
<1>2. /\ Ends[k] \in Nat /\ Ends[q] \in Nat /\ Ends[MessageCount] \in Nat
      /\ Len(b) \in Nat /\ i \in Nat /\ b[i] \in Character
  BY <1>1, EndsEquations, LenProperties, ElementOfSeq DEF JsonOK
<1>3. Len(b) = j + (n - Ends[k])
  BY DEF Held
<1>4. p \in Int /\ p <= n /\ n <= Ends[MessageCount] /\ n \in Nat
  BY <1>2, <1>3 DEF PlaceOf
<1>5. Ends[k] <= Ends[q]
  <2>1. k = q \/ Ends[k] < Ends[q]
    BY <1>1, EndsGrow DEF JsonOK
  <2> QED
    BY <1>2, <2>1
<1>6. ScanAt(s, j, k, q, p - 1)
  OBVIOUS
<1>7. i = j + (p - Ends[k])
  BY <1>2 DEF PlaceOf
<1>8. i <= j <=> p <= Ends[k]
  BY <1>2 DEF PlaceOf
<1> HIDE DEF p, t
<1>9. CASE i <= j
  <2>1. b[i].char = "blank"
    <3>1. i \in 1 .. j
      BY <1>2, <1>9
    <3> QED
      BY <3>1 DEF Held
  <2>2. q < MessageCount => p <= Start(q + 1)
    <3> SUFFICES ASSUME q < MessageCount PROVE p <= Start(q + 1)
      OBVIOUS
    <3> DEFINE m == q + 1
    <3>1. m \in 1 .. MessageCount /\ m - 1 = q
      BY <1>1
    <3> HIDE DEF m
    <3>2. Start(m) \in Nat /\ Ends[q] <= Start(m)
      BY <3>1, EndsEquations DEF JsonOK
    <3>3. p <= Start(m)
      BY <1>2, <1>4, <1>5, <1>8, <1>9, <3>2
    <3> QED
      BY <3>3 DEF m
  <2>3. ScanAt(t, j, k, q, p)
    BY <1>2, <1>4, <1>6, <2>1, <2>2, ScanOutside DEF t
  <2> QED
    BY <2>3 DEF p, t
<1>10. CASE ~(i <= j)
  <2>1. p \in Nat /\ Ends[k] <= p - 1
    BY <1>2, <1>4, <1>8, <1>10
  <2>2. Ends[q] <= p - 1
    BY <1>6, <2>1 DEF ScanAt
  <2>3. q < MessageCount
    BY <1>1, <1>2, <1>4, <2>1, <2>2
  <2> DEFINE m == q + 1
  <2>4. m \in 1 .. MessageCount /\ m \in 0 .. MessageCount /\ m - 1 = q /\ m = q + 1
        /\ m \in k .. MessageCount
    BY <1>1, <2>3
  <2> HIDE DEF m
  <2>5. Start(m) \in Nat /\ Ends[m] \in Nat
    BY <2>4, EndsEquations DEF JsonOK
  <2>6. p - 1 < Ends[m]
    BY <1>6, <2>3, <2>4 DEF ScanAt
  <2>7. Ends[m - 1] < p /\ p <= Ends[m]
    BY <1>2, <2>1, <2>2, <2>4, <2>5, <2>6
  <2>8. Wire(c)[p] = IF p > Start(m) THEN Message(c, m)[p - Start(m)]
                     ELSE [conn |-> c, msg |-> m, char |-> "blank"]
    BY <2>1, <2>4, <2>7, WireCharacter DEF JsonOK
  <2>9. b[i] = Wire(c)[p]
    <3>1. p - Ends[k] \in 1 .. n - Ends[k] /\ Ends[k] + (p - Ends[k]) = p
      <4>1. PICK e \in Nat : Ends[k] = e
        BY <1>2
      <4>2. p - e \in 1 .. n - e /\ e + (p - e) = p
        BY <1>4, <2>1, <4>1
      <4> QED
        BY <4>1, <4>2
    <3>2. b[j + (p - Ends[k])] = Wire(c)[Ends[k] + (p - Ends[k])]
      BY <3>1 DEF Held
    <3> QED
      BY <1>7, <3>1, <3>2
  <2>10. CASE p > Start(m)
    <3>1. p - Start(m) \in 1 .. Len(texts[m].text)
      BY <2>1, <2>4, <2>7, <2>10, PlaceInObject
    <3> DEFINE x == p - Start(m)
    <3> HIDE DEF x
    <3>7. Message(c, m)[x] = [conn |-> c, msg |-> m, char |-> texts[m].text[x]]
      BY <2>4, <3>1, MessageCharacter DEF JsonOK, x
    <3>8. b[i] = Message(c, m)[x]
      BY <2>8, <2>9, <2>10 DEF x
    <3>2. b[i].char = texts[m].text[p - Start(m)]
      BY <3>7, <3>8 DEF x
    <3>3. AtPlace(b[i], i, j, k, m, p)
      BY <1>7, <3>2 DEF AtPlace
    <3>4. Start(m) < p /\ q = m - 1
      BY <2>1, <2>4, <2>5, <2>10
    <3>5. CASE p = Ends[m]
      <4>1. ScanAt(t, j, k, m, p)
        BY <1>2, <1>6, <2>1, <2>4, <3>3, <3>4, <3>5, ScanLast DEF t
      <4> QED
        BY <2>4, <4>1 DEF p, t
    <3>6. CASE p # Ends[m]
      <4>1. p < Ends[m]
        BY <2>1, <2>5, <2>7, <3>6
      <4>2. ScanAt(t, j, k, q, p)
        BY <1>2, <1>6, <2>1, <2>4, <3>3, <3>4, <4>1, ScanInside DEF t
      <4> QED
        BY <4>2 DEF p, t
    <3> QED
      BY <3>5, <3>6
  <2>11. CASE ~(p > Start(m))
    <3>1. b[i].char = "blank"
      BY <2>8, <2>9, <2>11
    <3>2. q < MessageCount => p <= Start(q + 1)
      BY <2>1, <2>4, <2>5, <2>11
    <3>3. ScanAt(t, j, k, q, p)
      BY <1>2, <1>4, <1>6, <3>1, <3>2, ScanOutside DEF t
    <3> QED
      BY <3>3 DEF p, t
  <2> QED
    BY <2>10, <2>11
<1> QED
  BY <1>9, <1>10

(* The state of the scan at the end of such a buffer.                      *)
LEMMA ScanAll ==
  ASSUME JsonOK, NEW b \in Seq(Character), NEW j \in Nat, NEW c \in Nat,
         NEW n \in 0 .. Ends[MessageCount], NEW k \in 0 .. MessageCount, Ends[k] <= n,
         Held(b, j, c, k, n)
  PROVE  \E q \in k .. MessageCount : Completed(q, n) /\ ScanAt(Scanned(b)[Len(b)], j, k, q, n)
<1> USE Bounds
<1> DEFINE len == Len(b)
           Good(i) == \E q \in k .. MessageCount : ScanAt(Scanned(b)[i], j, k, q, PlaceOf(i, j, k))
           S == {i \in Nat : Good(i)}
<1>1. Ends[k] \in Nat /\ len \in Nat /\ len = j + (n - Ends[k]) /\ n \in Nat
  <2>1. MessageCount \in 0 .. MessageCount
    OBVIOUS
  <2>2. Ends[k] \in Nat /\ Ends[MessageCount] \in Nat
    BY <2>1, EndsEquations DEF JsonOK
  <2> QED
    BY <2>2, LenProperties DEF Held
<1>2. Good(0)
  <2> DEFINE p == PlaceOf(0, j, k)
  <2>1. p \in Int /\ p <= Ends[k]
    BY <1>1 DEF PlaceOf
  <2>2. k < MessageCount => p < Ends[k + 1] /\ ~(p > Start(k + 1))
    <3> SUFFICES ASSUME k < MessageCount PROVE p < Ends[k + 1] /\ ~(p > Start(k + 1))
      OBVIOUS
    <3> DEFINE m == k + 1
    <3>1. m \in 1 .. MessageCount /\ m - 1 = k /\ m \in 0 .. MessageCount
      OBVIOUS
    <3> HIDE DEF m, p
    <3>2. Start(m) \in Nat /\ Ends[m] \in Nat /\ Ends[k] <= Start(m) /\ Start(m) < Ends[m]
      BY <3>1, EndsEquations DEF JsonOK
    <3>3. p < Ends[m] /\ ~(p > Start(m))
      BY <1>1, <2>1, <3>2
    <3> QED
      BY <3>3 DEF m
  <2> HIDE DEF p
  <2> DEFINE s == Scanned(b)[0]
  <2>3. s.depth = 0 /\ s.stop = 0 /\ s.found = <<>>
    BY ScannedEquations
  <2> HIDE DEF s
  <2>4. Len(s.found) = k - k /\ \A h \in 1 .. k - k : s.found[h] = <<First(j, k, k + h), Last(j, k, k + h)>>
    BY <2>3
  <2>5. s.depth = IF k < MessageCount /\ p > Start(k + 1) THEN Depth(k + 1)[p - Start(k + 1)] ELSE 0
    BY <2>2, <2>3
  <2>6. ~(s.depth > 0) /\ s.stop = 0
    BY <2>3
  <2>7. ScanAt(s, j, k, k, p)
    BY <2>2, <2>4, <2>5, <2>6 DEF ScanAt
  <2> QED
    BY <2>7 DEF s, p
<1>3. ASSUME NEW i \in 1 .. len, Good(i - 1)
      PROVE  Good(i)
  <2> DEFINE s == Scanned(b)[i - 1]
  <2>1. s \in ScanState /\ Scanned(b)[i] = Scan(s, b[i], i)
    <3>1. i - 1 \in 0 .. Len(b)
      BY <1>1
    <3> QED
      BY <3>1, ScannedEquations
  <2>2. PlaceOf(i - 1, j, k) = PlaceOf(i, j, k) - 1
    BY <1>1 DEF PlaceOf
  <2>3. PICK q \in k .. MessageCount : ScanAt(s, j, k, q, PlaceOf(i, j, k) - 1)
    BY <1>3, <2>2
  <2> HIDE DEF s
  <2>4. \E r \in k .. MessageCount : ScanAt(Scan(s, b[i], i), j, k, r, PlaceOf(i, j, k))
    BY <2>1, <2>3, ScanOne
  <2> QED
    BY <2>1, <2>4
<1> HIDE DEF Good
<1>4. \A i \in 0 .. len : i \in S
  <2>1. 0 \in S
    BY <1>2
  <2>2. \A i \in 1 .. len : i - 1 \in S => i \in S
    BY <1>1, <1>3
  <2> HIDE DEF S
  <2> QED
    BY <1>1, <2>1, <2>2, InductionUpTo
<1>5. Good(len)
  BY <1>1, <1>4
<1>6. PlaceOf(len, j, k) = n
  BY <1>1 DEF PlaceOf
<1>7. PICK q \in k .. MessageCount : ScanAt(Scanned(b)[Len(b)], j, k, q, n)
  BY <1>5, <1>6 DEF Good
<1>8. Completed(q, n)
  BY <1>7 DEF ScanAt, Completed
<1> QED
  BY <1>7, <1>8

(* The messages of connection c after k up to q.                           *)
MessagesUpTo(c, k, q) == [h \in 1 .. q - k |-> Message(c, k + h)]

(* Every complete object, and what follows the last one (_split_json).     *)
LEMMA JsonExtracts ==
  ASSUME JsonOK, NEW b \in Seq(Character), NEW j \in Nat, NEW c \in Nat,
         NEW n \in 0 .. Ends[MessageCount], NEW k \in 0 .. MessageCount, Ends[k] <= n,
         Held(b, j, c, k, n)
  PROVE  \E q \in k .. MessageCount, j2 \in Nat :
           /\ Completed(q, n)
           /\ JsonExtract(b).messages = MessagesUpTo(c, k, q)
           /\ JsonExtract(b).rest \in Seq(Character)
           /\ Held(JsonExtract(b).rest, j2, c, q, n)
<1> USE Bounds
<1> DEFINE end == Scanned(b)[Len(b)]
           messages == [h \in 1 .. Len(end.found) |-> SubSeq(b, end.found[h][1], end.found[h][2])]
           rest == SubSeq(b, end.stop + 1, Len(b))
<1>1. PICK q \in k .. MessageCount : Completed(q, n) /\ ScanAt(end, j, k, q, n)
  BY ScanAll
<1>2. JsonExtract(b).messages = messages /\ JsonExtract(b).rest = rest
  BY DEF JsonExtract
<1> HIDE DEF end
<1>3. /\ end.stop = IF q = k THEN 0 ELSE Last(j, k, q)
      /\ Len(end.found) = q - k
      /\ \A h \in 1 .. q - k : end.found[h] = <<First(j, k, k + h), Last(j, k, k + h)>>
  BY <1>1 DEF ScanAt
<1>4. n \in Nat
  <2>1. MessageCount \in 0 .. MessageCount
    OBVIOUS
  <2> QED
    BY <2>1, EndsEquations DEF JsonOK
<1>5. ASSUME NEW h \in 1 .. q - k
      PROVE  SubSeq(b, end.found[h][1], end.found[h][2]) = Message(c, k + h)
  <2> DEFINE m == k + h
  <2>1. m \in 1 .. MessageCount /\ m \in 0 .. MessageCount /\ q \in 0 .. MessageCount /\ k < m /\ m <= q
    OBVIOUS
  <2>2. end.found[h][1] = First(j, k, m) /\ end.found[h][2] = Last(j, k, m)
    BY <1>3
  <2> HIDE DEF m
  <2>3. Ends[m] <= n
    BY <1>1, <1>4, <2>1, CompletedUnique DEF JsonOK
  <2>4. SubSeq(b, First(j, k, m), Last(j, k, m)) = Message(c, m)
    BY <1>4, <2>1, <2>3, HeldMessage DEF JsonOK
  <2> QED
    BY <2>2, <2>4 DEF m
<1>6. messages = MessagesUpTo(c, k, q)
  BY <1>3, <1>5 DEF MessagesUpTo
<1> HIDE DEF messages
<1>7. CASE q = k
  <2>1. Len(b) \in Nat
    BY LenProperties
  <2>2. rest = b
    BY <1>3, <1>7, <2>1, SubSeqFull
  <2>3. Held(rest, j, c, q, n)
    BY <1>7, <2>2
  <2> QED
    BY <1>1, <1>2, <1>6, <2>2, <2>3
<1>8. CASE q # k
  <2>1. rest = SubSeq(b, Last(j, k, q) + 1, Len(b))
    BY <1>3, <1>8
  <2>2. Ends[q] <= n
    BY <1>1 DEF Completed
  <2> HIDE DEF rest
  <2>3. rest \in Seq(Character) /\ Held(rest, 0, c, q, n)
    BY <1>4, <2>1, <2>2, HeldRest DEF JsonOK
  <2>4. 0 \in Nat
    OBVIOUS
  <2> QED
    BY <1>1, <1>2, <1>6, <2>3, <2>4 DEF rest
<1> QED
  BY <1>7, <1>8

-----------------------------------------------------------------------------
(* The inductive invariant: the k messages that are complete have been     *)
(* delivered, and the buffer is the rest of what was received, after the   *)
(* white space an earlier connection may have left.                        *)
Framed ==
  \E k \in 0 .. MessageCount, j \in Nat :
    /\ Completed(k, received)
    /\ delivered = [m \in 1 .. k |-> Message(connection, m)]
    /\ buffer \in Seq(Character)
    /\ Held(buffer, j, connection, k, received)
    /\ kind = "pcm" => j = 0

FramingInv ==
  /\ kind \in {"pcm", "json"}
  /\ texts \in [1 .. MessageCount -> IF kind = "pcm" THEN {PcmFrame} ELSE JsonTexts]
  /\ connection \in Nat
  /\ received \in 0 .. Ends[MessageCount]
  /\ clean \in BOOLEAN
  /\ kind = "pcm" \/ clean => Framed

(* The messages of either server are as the lemmas above need them.        *)
LEMMA TextsAreOK ==
  ASSUME kind \in {"pcm", "json"},
         texts \in [1 .. MessageCount -> IF kind = "pcm" THEN {PcmFrame} ELSE JsonTexts]
  PROVE  /\ TextsOK
         /\ kind = "pcm" => \A m \in 1 .. MessageCount : texts[m] = PcmFrame
         /\ kind = "json" => JsonOK
<1> USE Bounds
<1>1. CASE kind = "pcm"
  <2>1. PcmFrame \in MessageType /\ Len(PcmFrame.text) = FrameSize
    <3>1. "other" \in Chars
      BY Zenon DEF Chars
    <3>2. [i \in 1 .. FrameSize |-> "other"] \in Seq(Chars)
      BY <3>1
    <3>3. Len([i \in 1 .. FrameSize |-> "other"]) = FrameSize
      OBVIOUS
    <3> QED
      BY <3>2, <3>3 DEF PcmFrame, MessageType
  <2>2. \A m \in 1 .. MessageCount : texts[m] = PcmFrame
    BY <1>1
  <2>3. texts \in [1 .. MessageCount -> MessageType]
    BY <1>1, <2>1
  <2>4. TextsOK
    BY <2>1, <2>2, <2>3 DEF TextsOK
  <2> QED
    BY <1>1, <2>2, <2>4
<1>2. CASE kind = "json"
  <2>1. \A t \in JsonTexts :
          /\ t \in MessageType /\ Len(t.text) > 1
          /\ \E d \in [0 .. Len(t.text) -> 0 .. Len(t.text)] : IsDepth(d, t.text)
    BY FramingAssumption DEF MessageType
  <2>2. texts \in [1 .. MessageCount -> JsonTexts]
    BY <1>2
  <2>3. texts \in [1 .. MessageCount -> MessageType]
    BY <2>1, <2>2
  <2>4. \A m \in 1 .. MessageCount :
          /\ Len(texts[m].text) > 1
          /\ \E d \in [0 .. Len(texts[m].text) -> 0 .. Len(texts[m].text)] :
               IsDepth(d, texts[m].text)
    BY <2>1, <2>2
  <2>5. \A m \in 1 .. MessageCount : Len(texts[m].text) > 0
    <3> SUFFICES ASSUME NEW m \in 1 .. MessageCount PROVE Len(texts[m].text) > 0
      OBVIOUS
    <3>1. texts[m].text \in Seq(Chars)
      BY <2>3 DEF MessageType
    <3>2. Len(texts[m].text) \in Nat /\ Len(texts[m].text) > 1
      BY <2>4, <3>1, LenProperties
    <3> QED
      BY <3>2
  <2>6. TextsOK
    BY <2>3, <2>5 DEF TextsOK
  <2>7. JsonOK
    BY <2>4, <2>6 DEF JsonOK
  <2> QED
    BY <1>2, <2>6, <2>7
<1> QED
  BY <1>1, <1>2

(* A connection begins with nothing received and at most white space left. *)
LEMMA FreshBuffer ==
  ASSUME TextsOK, NEW b \in Seq(Character), NEW c \in Nat,
         \A i \in 1 .. Len(b) : b[i].char = "blank"
  PROVE  Completed(0, 0) /\ Held(b, Len(b), c, 0, 0)
<1> USE Bounds
<1>1. Ends[0] = 0 /\ Len(b) \in Nat
  BY EndsEquations, LenProperties
<1>2. 0 < MessageCount => 0 < Ends[0 + 1]
  <2> SUFFICES ASSUME 0 < MessageCount PROVE 0 < Ends[1]
    OBVIOUS
  <2>1. 1 \in 0 .. MessageCount /\ 0 \in 0 .. MessageCount
    OBVIOUS
  <2>2. Ends[0] < Ends[1]
    BY <2>1, EndsGrow
  <2> QED
    BY <1>1, <2>2
<1> QED
  BY <1>1, <1>2 DEF Completed, Held

(* A server starts within the invariant, on its first connection.          *)
LEMMA FramingInit_Inv == FramingInit => FramingInv
<1> USE Bounds
<1> SUFFICES ASSUME FramingInit PROVE FramingInv
  OBVIOUS
<1>1. TextsOK
  BY TextsAreOK DEF FramingInit
<1>2. buffer = <<>> /\ buffer \in Seq(Character) /\ Len(buffer) = 0 /\ received = 0 /\ connection = 1
  BY EmptySeq DEF FramingInit
<1>3. Completed(0, 0) /\ Held(buffer, 0, connection, 0, 0)
  <2>1. \A i \in 1 .. Len(buffer) : buffer[i].char = "blank"
    BY <1>2
  <2>2. connection \in Nat
    BY <1>2
  <2> QED
    BY <1>1, <1>2, <2>1, <2>2, FreshBuffer
<1>4. delivered = [m \in 1 .. 0 |-> Message(connection, m)]
  BY DEF FramingInit
<1>5. 0 \in 0 .. MessageCount /\ 0 \in Nat
  OBVIOUS
<1>6. Framed
  <2>1. /\ Completed(0, received)
        /\ delivered = [m \in 1 .. 0 |-> Message(connection, m)]
        /\ buffer \in Seq(Character)
        /\ Held(buffer, 0, connection, 0, received)
        /\ kind = "pcm" => 0 = 0
    BY <1>2, <1>3, <1>4
  <2> QED
    BY <1>5, <2>1 DEF Framed
<1>7. 0 \in 0 .. Ends[MessageCount]
  <2>1. MessageCount \in 0 .. MessageCount
    OBVIOUS
  <2> QED
    BY <1>1, <2>1, EndsEquations
<1> QED
  BY <1>2, <1>6, <1>7 DEF FramingInit, FramingInv

(* What a chunk adds to the buffer.                                        *)
LEMMA HeldChunk ==
  ASSUME TextsOK, NEW b \in Seq(Character), NEW j \in Nat, NEW c \in Nat, NEW k \in 0 .. MessageCount,
         NEW r \in Nat, Ends[k] <= r, NEW n \in Nat, r + n <= Ends[MessageCount],
         Held(b, j, c, k, r)
  PROVE  LET data == b \o SubSeq(Wire(c), r + 1, r + n)
         IN  data \in Seq(Character) /\ Held(data, j, c, k, r + n)
<1> USE Bounds
<1> DEFINE from == r + 1
           to == r + n
           chunk == SubSeq(Wire(c), from, to)
           data == b \o chunk
<1>1. PICK e \in Nat, last \in Nat : Ends[k] = e /\ Ends[MessageCount] = last /\ e <= r
  <2>1. MessageCount \in 0 .. MessageCount
    OBVIOUS
  <2> QED
    BY <2>1, EndsEquations
<1>2. Len(b) = j + (r - e) /\ Len(b) \in Nat
  BY <1>1, LenProperties DEF Held
<1>3. /\ from \in Nat /\ to \in Nat /\ 1 <= from /\ to <= Len(Wire(c))
      /\ Wire(c) \in Seq(Character) /\ to - from + 1 = n /\ Len(Wire(c)) = last
      /\ (from <= to <=> n > 0)
  BY <1>1, WireType
<1>4. \A i \in from .. to : Wire(c)[i] \in Character
  BY <1>1, <1>3, ElementOfSeq
<1> HIDE DEF from, to
<1>5. chunk \in Seq(Character) /\ Len(chunk) = n /\ \A i \in 1 .. n : chunk[i] = Wire(c)[from + i - 1]
  <2>1. from \in Int /\ to \in Int
    BY <1>3
  <2>2. /\ chunk \in Seq(Character)
        /\ Len(chunk) = IF from <= to THEN to - from + 1 ELSE 0
        /\ \A i \in 1 .. to - from + 1 : chunk[i] = Wire(c)[from + i - 1]
    BY <1>4, <2>1, SubSeqProperties
  <2> QED
    BY <1>3, <2>2
<1> HIDE DEF chunk
<1>6. /\ data \in Seq(Character) /\ Len(data) = Len(b) + n
      /\ \A i \in 1 .. Len(b) + n :
           data[i] = IF i <= Len(b) THEN b[i] ELSE chunk[i - Len(b)]
  BY <1>5, ConcatProperties
<1> HIDE DEF data
<1>7. Len(data) = j + ((r + n) - e)
  BY <1>1, <1>2, <1>6
<1>8. ASSUME NEW i \in 1 .. j
      PROVE  data[i].char = "blank"
  <2>1. i \in 1 .. Len(b) + n /\ i <= Len(b)
    BY <1>1, <1>2
  <2> QED
    BY <1>6, <2>1 DEF Held
<1>9. ASSUME NEW i \in 1 .. (r + n) - e
      PROVE  data[j + i] = Wire(c)[e + i]
  <2>1. j + i \in 1 .. Len(b) + n /\ i \in Nat
    BY <1>1, <1>2
  <2>2. CASE i <= r - e
    <3>1. j + i <= Len(b) /\ i \in 1 .. r - e
      BY <1>1, <1>2, <2>2
    <3>2. data[j + i] = b[j + i]
      BY <1>6, <2>1, <3>1
    <3>3. b[j + i] = Wire(c)[e + i]
      BY <1>1, <3>1 DEF Held
    <3> QED
      BY <3>2, <3>3
  <2>3. CASE ~(i <= r - e)
    <3> DEFINE x == (j + i) - Len(b)
    <3>1. /\ ~(j + i <= Len(b)) /\ x \in 1 .. n
          /\ from + x - 1 = e + i
      BY <1>1, <1>2, <2>1, <2>3 DEF from
    <3>2. data[j + i] = chunk[x]
      BY <1>6, <2>1, <3>1
    <3> HIDE DEF x
    <3>3. chunk[x] = Wire(c)[e + i]
      BY <1>5, <3>1
    <3> QED
      BY <3>2, <3>3
  <2> QED
    BY <2>2, <2>3
<1>10. Held(data, j, c, k, r + n)
  BY <1>1, <1>7, <1>8, <1>9 DEF Held
<1> QED
  BY <1>6, <1>10 DEF data, chunk, from, to

(* A connection that ends outside an object leaves white space at most.    *)
LEMMA OnlyBlanks ==
  ASSUME TextsOK, NEW b \in Seq(Character), NEW j \in Nat, NEW c \in Nat, NEW k \in 0 .. MessageCount,
         NEW n \in 0 .. Ends[MessageCount], Completed(k, n), Held(b, j, c, k, n),
         BetweenMessages(n)
  PROVE  \A i \in 1 .. Len(b) : b[i].char = "blank"
<1> USE Bounds
<1>1. k \in 0 .. MessageCount /\ MessageCount \in 0 .. MessageCount
  OBVIOUS
<1>2. PICK e \in Nat : Ends[k] = e
  BY EndsEquations
<1>3. PICK last \in Nat : Ends[MessageCount] = last
  BY <1>1, EndsEquations
<1>4. n \in Nat /\ n <= last
  BY <1>3
<1>5. PICK m \in 0 .. MessageCount : Ends[m] <= n /\ (m < MessageCount => n <= Start(m + 1))
  BY DEF BetweenMessages
<1>6. k < MessageCount => n <= Start(k + 1)
  <2>1. Ends[m] \in Nat
    BY EndsEquations
  <2>2. Completed(m, n)
    <3>1. m < MessageCount => n < Ends[m + 1]
      <4> SUFFICES ASSUME m < MessageCount PROVE n < Ends[m + 1]
        OBVIOUS
      <4> DEFINE r == m + 1
      <4>1. r \in 1 .. MessageCount /\ r \in 0 .. MessageCount
        OBVIOUS
      <4>3. n <= Start(r)
        BY <1>5
      <4> HIDE DEF r
      <4>2. Start(r) \in Nat /\ Ends[r] \in Nat /\ Start(r) < Ends[r]
        BY <4>1, EndsEquations
      <4>4. n < Ends[r]
        BY <1>4, <4>2, <4>3
      <4> QED
        BY <4>4 DEF r
    <3> QED
      BY <1>5, <3>1 DEF Completed
  <2>3. m <= k
    BY <1>4, <1>5, CompletedUnique
  <2>4. k <= m
    <3>1. Ends[k] <= n
      BY DEF Completed
    <3> QED
      BY <1>4, <2>2, <3>1, CompletedUnique
  <2>5. m = k
    BY <2>3, <2>4
  <2> QED
    BY <1>5, <2>5
<1>7. Len(b) = j + (n - e) /\ Len(b) \in Nat
  BY <1>2, LenProperties DEF Held
<1>8. SUFFICES ASSUME NEW i \in 1 .. Len(b) PROVE b[i].char = "blank"
  OBVIOUS
<1>9. CASE i <= j
  <2>1. i \in 1 .. j
    BY <1>9
  <2> QED
    BY <2>1 DEF Held
<1>10. CASE ~(i <= j)
  <2> DEFINE x == i - j
             p == e + x
             m1 == k + 1
  <2>1. x \in 1 .. n - e /\ j + x = i /\ p \in Nat /\ e < p /\ p <= n
    BY <1>4, <1>7, <1>10
  <2>2. k < MessageCount
    <3>1. k = MessageCount => e = last
      BY <1>2, <1>3
    <3> QED
      BY <1>1, <1>4, <2>1, <3>1
  <2>3. m1 \in 1 .. MessageCount /\ m1 - 1 = k /\ m1 \in 0 .. MessageCount /\ m1 = k + 1
    BY <2>2
  <2> HIDE DEF x, p, m1
  <2>4. Start(m1) \in Nat /\ Ends[m1] \in Nat /\ Start(m1) < Ends[m1]
    BY <2>3, EndsEquations
  <2>5. n <= Start(m1)
    BY <1>6, <2>2, <2>3
  <2>6. Ends[m1 - 1] < p /\ p <= Ends[m1] /\ ~(p > Start(m1))
    BY <1>2, <1>4, <2>1, <2>3, <2>4, <2>5
  <2>7. Wire(c)[p] = [conn |-> c, msg |-> m1, char |-> "blank"]
    BY <2>1, <2>3, <2>6, WireCharacter
  <2>8. b[j + x] = Wire(c)[e + x]
    BY <1>2, <2>1 DEF Held
  <2>9. b[i] = Wire(c)[p]
    BY <2>1, <2>8 DEF p
  <2> QED
    BY <2>7, <2>9
<1> QED
  BY <1>9, <1>10

(* What a call of recv() does to what is delivered and kept.               *)
LEMMA ReceiveFramed ==
  ASSUME FramingInv, kind = "pcm" \/ clean, NEW n \in 1 .. Ends[MessageCount], Receive(n)
  PROVE  \E q \in 0 .. MessageCount, j2 \in Nat :
           /\ Completed(q, received + n)
           /\ delivered' = [m \in 1 .. q |-> Message(connection, m)]
           /\ buffer' \in Seq(Character)
           /\ Held(buffer', j2, connection, q, received + n)
           /\ kind = "pcm" => j2 = 0
<1> USE Bounds
<1>1. /\ TextsOK
      /\ kind = "pcm" => \A m \in 1 .. MessageCount : texts[m] = PcmFrame
      /\ kind = "json" => JsonOK
  BY TextsAreOK DEF FramingInv
<1>2. kind \in {"pcm", "json"} /\ connection \in Nat
  BY DEF FramingInv
<1>3. Framed
  BY DEF FramingInv
<1>4. PICK k \in 0 .. MessageCount, j \in Nat :
        /\ Completed(k, received)
        /\ delivered = [m \in 1 .. k |-> Message(connection, m)]
        /\ buffer \in Seq(Character)
        /\ Held(buffer, j, connection, k, received)
        /\ kind = "pcm" => j = 0
  BY <1>3 DEF Framed
<1> DEFINE r == received + n
           data == buffer \o SubSeq(Wire(connection), received + 1, received + n)
<1>5. /\ received \in Nat /\ n \in Nat /\ r \in 0 .. Ends[MessageCount]
      /\ r <= Ends[MessageCount] /\ Ends[k] <= received /\ Ends[k] <= r
  <2>1. MessageCount \in 0 .. MessageCount
    OBVIOUS
  <2>2. PICK last \in Nat : Ends[MessageCount] = last
    BY <1>1, <2>1, EndsEquations
  <2>3. PICK e \in Nat : Ends[k] = e
    BY <1>1, EndsEquations
  <2>4. received \in 0 .. last /\ e <= received /\ n \in 1 .. last /\ received + n <= last
    BY <1>4, <2>2, <2>3 DEF FramingInv, Receive, Completed
  <2>5. received \in Nat /\ n \in Nat /\ r \in 0 .. last /\ r <= last /\ e <= r
    BY <2>4
  <2> QED
    BY <2>2, <2>3, <2>4, <2>5
<1>6. data \in Seq(Character) /\ Held(data, j, connection, k, r)
  BY <1>1, <1>2, <1>4, <1>5, HeldChunk
<1>7. buffer' = Extract(data).rest /\ delivered' = delivered \o Extract(data).messages
  BY DEF Receive
<1> HIDE DEF data, r
<1>8. \E q \in k .. MessageCount, j2 \in Nat :
        /\ Completed(q, r)
        /\ Extract(data).messages = MessagesUpTo(connection, k, q)
        /\ Extract(data).rest \in Seq(Character)
        /\ Held(Extract(data).rest, j2, connection, q, r)
        /\ kind = "pcm" => j2 = 0
  <2>1. CASE kind = "pcm"
    <3>1. PICK q \in 0 .. MessageCount : Completed(q, r)
      <4>1. Ends[MessageCount] \in Nat
        BY <1>1, WireType, <1>2
      <4> QED
        BY <1>1, <1>5, <4>1, CompletedExists
    <3>2. q \in k .. MessageCount
      <4>1. r \in Nat
        BY <1>5 DEF r
      <4>2. k <= q
        BY <1>1, <1>5, <3>1, <4>1, CompletedUnique
      <4> QED
        BY <4>2
    <3>3. Held(data, 0, connection, k, r)
      BY <1>4, <1>6, <2>1
    <3>4. Extract(data) = PcmExtract(data)
      BY <2>1 DEF Extract
    <3>5. /\ Extract(data).messages = MessagesUpTo(connection, k, q)
          /\ Extract(data).rest \in Seq(Character)
          /\ Held(Extract(data).rest, 0, connection, q, r)
      BY <1>1, <1>2, <1>5, <1>6, <2>1, <3>1, <3>2, <3>3, <3>4, PcmExtracts DEF MessagesUpTo
    <3>6. 0 \in Nat
      OBVIOUS
    <3> QED
      BY <3>1, <3>2, <3>5, <3>6
  <2>2. CASE kind = "json"
    <3>1. Extract(data) = JsonExtract(data)
      BY <2>2 DEF Extract
    <3>2. \E q \in k .. MessageCount, j2 \in Nat :
            /\ Completed(q, r)
            /\ JsonExtract(data).messages = MessagesUpTo(connection, k, q)
            /\ JsonExtract(data).rest \in Seq(Character)
            /\ Held(JsonExtract(data).rest, j2, connection, q, r)
      <4>1. JsonOK
        BY <1>1, <2>2
      <4> QED
        BY <1>2, <1>5, <1>6, <4>1, JsonExtracts
    <3>3. kind # "pcm"
      BY <2>2
    <3> QED
      BY <3>1, <3>2, <3>3
  <2> QED
    BY <1>2, <2>1, <2>2
<1>9. PICK q \in k .. MessageCount, j2 \in Nat :
        /\ Completed(q, r)
        /\ Extract(data).messages = MessagesUpTo(connection, k, q)
        /\ Extract(data).rest \in Seq(Character)
        /\ Held(Extract(data).rest, j2, connection, q, r)
        /\ kind = "pcm" => j2 = 0
  BY <1>8
<1>10. delivered' = [m \in 1 .. q |-> Message(connection, m)]
  <2> DEFINE a == [m \in 1 .. k |-> Message(connection, m)]
             b == [h \in 1 .. q - k |-> Message(connection, k + h)]
             ab == [m \in 1 .. q |-> Message(connection, m)]
  <2>1. k \in Nat /\ q \in Nat /\ q - k \in Nat /\ k + (q - k) = q
    OBVIOUS
  <2>2. \A m \in 1 .. MessageCount : Message(connection, m) \in Seq(Character)
    <3> SUFFICES ASSUME NEW m \in 1 .. MessageCount PROVE Message(connection, m) \in Seq(Character)
      OBVIOUS
    <3> DEFINE len == Len(texts[m].text)
    <3>1. len \in Nat
      <4>1. texts[m].text \in Seq(Chars)
        BY <1>1 DEF TextsOK, MessageType
      <4> QED
        BY <4>1, LenProperties
    <3>2. \A i \in 1 .. len : Message(connection, m)[i] \in Character
      BY <1>1, <1>2, MessageCharacter
    <3>3. Message(connection, m) = [i \in 1 .. len |-> Message(connection, m)[i]]
      BY DEF Message
    <3> HIDE DEF len
    <3>4. Message(connection, m) \in [1 .. len -> Character]
      BY <3>2, <3>3
    <3> QED
      BY <3>1, <3>4
  <2>3. /\ a \in Seq(Seq(Character)) /\ Len(a) = k
        /\ b \in Seq(Seq(Character)) /\ Len(b) = q - k
        /\ ab \in Seq(Seq(Character)) /\ Len(ab) = q
    <3>1. /\ \A m \in 1 .. k : Message(connection, m) \in Seq(Character)
          /\ \A h \in 1 .. q - k : Message(connection, k + h) \in Seq(Character)
          /\ \A m \in 1 .. q : Message(connection, m) \in Seq(Character)
      BY <2>2
    <3>2. /\ a \in [1 .. k -> Seq(Character)]
          /\ b \in [1 .. q - k -> Seq(Character)]
          /\ ab \in [1 .. q -> Seq(Character)]
      BY <3>1
    <3> QED
      BY <2>1, <3>2
  <2>4. /\ \A i \in 1 .. k : a[i] = Message(connection, i)
        /\ \A i \in 1 .. q - k : b[i] = Message(connection, k + i)
        /\ \A i \in 1 .. q : ab[i] = Message(connection, i)
    OBVIOUS
  <2>5. delivered' = a \o b
    BY <1>4, <1>7, <1>9 DEF MessagesUpTo
  <2> HIDE DEF a, b, ab
  <2>6. /\ a \o b \in Seq(Seq(Character)) /\ Len(a \o b) = q
        /\ \A i \in 1 .. q : (a \o b)[i] = IF i <= k THEN a[i] ELSE b[i - k]
    <3>1. /\ a \o b \in Seq(Seq(Character)) /\ Len(a \o b) = Len(a) + Len(b)
          /\ \A i \in 1 .. Len(a) + Len(b) : (a \o b)[i] = IF i <= Len(a) THEN a[i] ELSE b[i - Len(a)]
      BY <2>3, ConcatProperties
    <3> QED
      BY <2>1, <2>3, <3>1
  <2>7. ASSUME NEW i \in 1 .. q
        PROVE  (a \o b)[i] = ab[i]
    <3>1. CASE i <= k
      <4>1. i \in 1 .. k
        BY <3>1
      <4> QED
        BY <2>4, <2>6, <3>1, <4>1
    <3>2. CASE ~(i <= k)
      <4>1. i - k \in 1 .. q - k /\ k + (i - k) = i
        BY <3>2
      <4> QED
        BY <2>4, <2>6, <3>2, <4>1
    <3> QED
      BY <3>1, <3>2
  <2>8. a \o b = ab
    BY <2>3, <2>6, <2>7, SeqEqual
  <2> QED
    BY <2>5, <2>8 DEF ab
<1>11. q \in 0 .. MessageCount
  OBVIOUS
<1> QED
  BY <1>7, <1>9, <1>10, <1>11 DEF r

(* Every chunk and every new connection keep the invariant.                *)
LEMMA FramingNext_Inv == FramingInv /\ [FramingNext]_framingVars => FramingInv'
<1> USE Bounds
<1> SUFFICES ASSUME FramingInv, [FramingNext]_framingVars PROVE FramingInv'
  OBVIOUS
<1>1. /\ TextsOK
      /\ kind = "pcm" => \A m \in 1 .. MessageCount : texts[m] = PcmFrame
      /\ kind = "json" => JsonOK
  BY TextsAreOK DEF FramingInv
<1>2. /\ kind \in {"pcm", "json"} /\ connection \in Nat /\ clean \in BOOLEAN
      /\ received \in 0 .. Ends[MessageCount]
      /\ texts \in [1 .. MessageCount -> IF kind = "pcm" THEN {PcmFrame} ELSE JsonTexts]
      /\ kind = "pcm" \/ clean => Framed
  BY DEF FramingInv
<1>3. MessageCount \in 0 .. MessageCount /\ 0 \in 0 .. MessageCount /\ 0 \in Nat
  OBVIOUS
<1>4. PICK last \in Nat : Ends[MessageCount] = last
  BY <1>1, <1>3, EndsEquations
<1>5. ASSUME texts' = texts
      PROVE  /\ Ends' = Ends
             /\ \A k, n : Completed(k, n)' <=> Completed(k, n)
             /\ \A c, m : Message(c, m)' = Message(c, m)
             /\ \A b, j, c, k, n : Held(b, j, c, k, n)' <=> Held(b, j, c, k, n)
  <2>1. Ends' = Ends
    BY <1>5 DEF Ends
  <2>2. \A c : Wire(c)' = Wire(c)
    BY <1>5 DEF Wire, MessageAt, Message, Start, Ends
  <2>3. \A c, m : Message(c, m)' = Message(c, m)
    BY <1>5 DEF Message
  <2>4. \A k, n : Completed(k, n)' <=> Completed(k, n)
    BY <2>1 DEF Completed
  <2>5. \A b, j, c, k, n : Held(b, j, c, k, n)' <=> Held(b, j, c, k, n)
    BY <2>1, <2>2 DEF Held
  <2> QED
    BY <2>1, <2>3, <2>4, <2>5
<1>6. ASSUME NEW n \in 1 .. Ends[MessageCount], Receive(n)
      PROVE  FramingInv'
  <2>1. /\ kind' = kind /\ texts' = texts /\ connection' = connection /\ clean' = clean
        /\ received' = received + n /\ received + n <= last
    BY <1>4, <1>6 DEF Receive
  <2>2. received' \in 0 .. Ends[MessageCount]'
    <3>1. Ends' = Ends
      BY <1>5, <2>1
    <3>2. received' \in 0 .. last
      BY <1>2, <1>4, <2>1
    <3> QED
      BY <1>4, <3>1, <3>2
  <2>3. ASSUME kind = "pcm" \/ clean
        PROVE  Framed'
    <3>1. PICK q \in 0 .. MessageCount, j2 \in Nat :
            /\ Completed(q, received + n)
            /\ delivered' = [m \in 1 .. q |-> Message(connection, m)]
            /\ buffer' \in Seq(Character)
            /\ Held(buffer', j2, connection, q, received + n)
            /\ kind = "pcm" => j2 = 0
      BY <1>6, <2>3, ReceiveFramed
    <3> QED
      BY <1>5, <2>1, <3>1 DEF Framed
  <2> QED
    BY <1>2, <2>1, <2>2, <2>3 DEF FramingInv
<1>7. CASE Reconnect
  <2>1. /\ kind' = kind /\ texts' = texts /\ connection' = connection + 1
        /\ received' = 0 /\ delivered' = <<>>
        /\ clean' = (clean /\ BetweenMessages(received))
        /\ buffer' = IF kind = "pcm" THEN <<>> ELSE buffer
    BY <1>7 DEF Reconnect
  <2>2. received' \in 0 .. Ends[MessageCount]'
    <3>1. Ends' = Ends
      BY <1>5, <2>1
    <3>2. received' \in 0 .. last
      BY <2>1
    <3> QED
      BY <1>4, <3>1, <3>2
  <2>3. connection' \in Nat /\ clean' \in BOOLEAN
    BY <1>2, <2>1
  <2>4. ASSUME kind = "pcm" \/ clean'
        PROVE  Framed'
    <3>1. /\ buffer' \in Seq(Character)
          /\ \A i \in 1 .. Len(buffer') : buffer'[i].char = "blank"
          /\ kind = "pcm" => Len(buffer') = 0
      <4>1. CASE kind = "pcm"
        BY <2>1, <4>1, EmptySeq
      <4>2. CASE kind # "pcm"
        <5>1. clean /\ BetweenMessages(received) /\ buffer' = buffer
          BY <2>1, <2>4, <4>2
        <5>2. PICK k \in 0 .. MessageCount, j \in Nat :
                /\ Completed(k, received)
                /\ buffer \in Seq(Character)
                /\ Held(buffer, j, connection, k, received)
          BY <1>2, <5>1 DEF Framed
        <5>3. \A i \in 1 .. Len(buffer) : buffer[i].char = "blank"
          BY <1>1, <1>2, <5>1, <5>2, OnlyBlanks
        <5> QED
          BY <4>2, <5>1, <5>2, <5>3
      <4> QED
        BY <4>1, <4>2
    <3>2. Completed(0, 0) /\ Held(buffer', Len(buffer'), connection', 0, 0)
      BY <1>1, <2>3, <3>1, FreshBuffer
    <3>3. delivered' = [m \in 1 .. 0 |-> Message(connection', m)]
      BY <2>1
    <3>4. Len(buffer') \in Nat
      BY <3>1, LenProperties
    <3>5. PICK j \in Nat :
            /\ Completed(0, 0) /\ Held(buffer', j, connection', 0, 0)
            /\ kind = "pcm" => j = 0
      BY <3>1, <3>2, <3>4
    <3> QED
      BY <1>3, <1>5, <2>1, <3>1, <3>3, <3>5 DEF Framed
  <2> QED
    BY <1>2, <2>1, <2>2, <2>3, <2>4 DEF FramingInv
<1>8. CASE UNCHANGED framingVars
  <2>1. /\ kind' = kind /\ texts' = texts /\ connection' = connection /\ clean' = clean
        /\ received' = received /\ buffer' = buffer /\ delivered' = delivered
    BY <1>8 DEF framingVars
  <2>2. received' \in 0 .. Ends[MessageCount]'
    BY <1>2, <1>5, <2>1
  <2>3. Framed => Framed'
    BY <1>5, <2>1 DEF Framed
  <2> QED
    BY <1>2, <2>1, <2>2, <2>3 DEF FramingInv
<1> QED
  BY <1>6, <1>7, <1>8 DEF FramingNext

(* The complete messages are the k that were delivered.                    *)
LEMMA FramingInv_Whole == FramingInv => WholeMessages
<1> USE Bounds
<1> SUFFICES ASSUME FramingInv, kind = "pcm" \/ clean
             PROVE  /\ DOMAIN delivered = {m \in 1 .. MessageCount : Ends[m] <= received}
                    /\ \A m \in DOMAIN delivered : delivered[m] = Message(connection, m)
  BY DEF WholeMessages
<1>1. TextsOK
  BY TextsAreOK DEF FramingInv
<1>2. received \in Nat
  <2>1. MessageCount \in 0 .. MessageCount
    OBVIOUS
  <2>2. Ends[MessageCount] \in Nat
    BY <1>1, <2>1, EndsEquations
  <2> QED
    BY <2>2 DEF FramingInv
<1>3. PICK k \in 0 .. MessageCount :
        Completed(k, received) /\ delivered = [m \in 1 .. k |-> Message(connection, m)]
  BY DEF FramingInv, Framed
<1>4. \A m \in 1 .. MessageCount : (Ends[m] <= received) <=> (m \in 1 .. k)
  <2> SUFFICES ASSUME NEW m \in 1 .. MessageCount PROVE (Ends[m] <= received) <=> (m \in 1 .. k)
    OBVIOUS
  <2>1. m \in 0 .. MessageCount
    OBVIOUS
  <2>2. (Ends[m] <= received) <=> (m <= k)
    BY <1>1, <1>2, <1>3, <2>1, CompletedUnique
  <2> QED
    BY <2>2
<1>5. DOMAIN delivered = 1 .. k /\ 1 .. k \subseteq 1 .. MessageCount
  BY <1>3
<1> QED
  BY <1>3, <1>4, <1>5

(* Whatever the texts, the chunks and the places where connections end,    *)
(* every handler gets exactly the messages of its connection that are      *)
(* complete, unchanged and in order.                                       *)
THEOREM WholeMessagesHolds == FramingSpec => []WholeMessages
<1>1. FramingInit => FramingInv
  BY FramingInit_Inv
<1>2. FramingInv /\ [FramingNext]_framingVars => FramingInv'
  BY FramingNext_Inv
<1>3. FramingInv => WholeMessages
  BY FramingInv_Whole
<1> QED
  BY <1>1, <1>2, <1>3, PTL DEF FramingSpec

(* After every drain the extractor holds strictly less than one frame (the *)
(* assertion of PcmFrameExtractor.append).                                 *)
TailBelowFrame == kind = "pcm" => Len(buffer) < FrameSize

(* Whatever the chunks and the places where connections end, what the      *)
(* extractor keeps is less than a frame.                                   *)
THEOREM TailBelowFrameHolds == FramingSpec => []TailBelowFrame
<1>1. FramingInit => FramingInv
  BY FramingInit_Inv
<1>2. FramingInv /\ [FramingNext]_framingVars => FramingInv'
  BY FramingNext_Inv
<1>3. FramingInv => TailBelowFrame
  <2> USE Bounds
  <2> SUFFICES ASSUME FramingInv, kind = "pcm" PROVE Len(buffer) < FrameSize
    BY DEF TailBelowFrame
  <2>1. TextsOK /\ \A m \in 1 .. MessageCount : texts[m] = PcmFrame
    BY TextsAreOK DEF FramingInv
  <2>2. PICK k \in 0 .. MessageCount :
          /\ Completed(k, received) /\ buffer \in Seq(Character)
          /\ Held(buffer, 0, connection, k, received)
    BY DEF FramingInv, Framed
  <2>3. PICK last \in Nat : Ends[MessageCount] = last
    <3>1. MessageCount \in 0 .. MessageCount
      OBVIOUS
    <3> QED
      BY <2>1, <3>1, EndsEquations
  <2>4. PICK e \in Nat : Ends[k] = e
    BY <2>1, EndsEquations
  <2>5. received \in 0 .. last /\ e <= received /\ Len(buffer) = 0 + (received - e)
    BY <2>2, <2>3, <2>4 DEF FramingInv, Completed, Held
  <2>6. CASE k = MessageCount
    BY <2>3, <2>4, <2>5, <2>6
  <2>7. CASE k # MessageCount
    <3> DEFINE m == k + 1
    <3>1. m \in 0 .. MessageCount /\ m = k + 1
      BY <2>7
    <3>2. received < Ends[m]
      BY <2>2, <2>7 DEF Completed
    <3> HIDE DEF m
    <3>3. Ends[m] = m * FrameSize /\ Ends[k] = k * FrameSize
      BY <2>1, <3>1, PcmEnds
    <3>4. m * FrameSize = k * FrameSize + 1 * FrameSize /\ 1 * FrameSize = FrameSize
      BY <3>1, Distribute
    <3>5. k * FrameSize = e /\ m * FrameSize = e + FrameSize /\ received < e + FrameSize
      BY <2>4, <3>2, <3>3, <3>4
    <3> QED
      BY <2>5, <3>5
  <2> QED
    BY <2>6, <2>7
<1> QED
  BY <1>1, <1>2, <1>3, PTL DEF FramingSpec

=============================================================================
