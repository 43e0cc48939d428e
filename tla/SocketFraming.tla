---------------------------- MODULE SocketFraming ----------------------------
(***************************************************************************)
(* How the bridge cuts the TCP byte streams of the ODAS core back into     *)
(* messages: PcmFrameExtractor for /sss and JsonSocketServer._split_json   *)
(* for /sst and /ssl.  TCP delivers a connection's characters in order, in *)
(* chunks of any size; a connection can end after any character, and the   *)
(* same server thread then serves the next one.                            *)
(*                                                                         *)
(* A character carries the connection and the message it belongs to.  Of   *)
(* JSON only the braces matter to the splitter ("open", "close"), and that *)
(* white space separates two objects; ODAS writes no brace in a string.    *)
(***************************************************************************)
EXTENDS Integers, Sequences

CONSTANTS
  FrameSize,        (* characters of a PCM frame                            *)
  JsonTexts,        (* JSON messages: the white space before, the object    *)
  MessageCount,     (* messages the core sends on each connection           *)
  MaxConnections    (* bound of a run: connections served in turn           *)

Chars == {"open", "close", "other", "blank"}

(* Depth d[i] after i characters: an object opens with its first character *)
(* and closes with its last.                                               *)
IsDepth(d, text) ==
  /\ d[0] = 0 /\ d[Len(text)] = 0
  /\ \A i \in 1 .. Len(text) - 1 : d[i] > 0
  /\ \A i \in 1 .. Len(text) :
       d[i] = CASE text[i] = "open" -> d[i - 1] + 1
                [] text[i] = "close" -> d[i - 1] - 1
                [] OTHER -> d[i - 1]

ASSUME FramingAssumption ==
  /\ FrameSize \in Nat \ {0} /\ MessageCount \in Nat /\ MaxConnections \in Nat \ {0}
  /\ \A t \in JsonTexts :
       /\ t \in [space : Nat, text : Seq(Chars)] /\ Len(t.text) > 1
       /\ \E d \in [0 .. Len(t.text) -> 0 .. Len(t.text)] : IsDepth(d, t.text)

VARIABLES
  kind,        (* which of the two servers this is                          *)
  texts,       (* the messages of a connection                              *)
  connection,  (* number of the connection being served                     *)
  received,    (* characters received on it so far                          *)
  buffer,      (* _accumulator, or _json_buffer                             *)
  delivered,   (* messages handed to the handler from this connection       *)
  clean        (* history: no connection so far ended inside an object      *)

framingVars == <<kind, texts, connection, received, buffer, delivered, clean>>

PcmFrame == [space |-> 0, text |-> [i \in 1 .. FrameSize |-> "other"]]

(* Message m occupies the characters after Start(m) up to Ends[m].         *)
Ends == LET ends[m \in 0 .. MessageCount] ==
              IF m = 0 THEN 0 ELSE ends[m - 1] + texts[m].space + Len(texts[m].text)
        IN  ends
Start(m) == Ends[m - 1] + texts[m].space

Message(c, m) == [i \in 1 .. Len(texts[m].text) |->
                    [conn |-> c, msg |-> m, char |-> texts[m].text[i]]]

MessageAt(p) == CHOOSE m \in 1 .. MessageCount : Ends[m - 1] < p /\ p <= Ends[m]
Wire(c) ==
  [p \in 1 .. Ends[MessageCount] |->
     LET m == MessageAt(p)
     IN  IF p > Start(m) THEN Message(c, m)[p - Start(m)]
         ELSE [conn |-> c, msg |-> m, char |-> "blank"]]

(* After n characters of a connection no object is under way.              *)
BetweenMessages(n) ==
  \E m \in 0 .. MessageCount :
    Ends[m] <= n /\ (m < MessageCount => n <= Start(m + 1))

-----------------------------------------------------------------------------
(* Mutant: the incomplete frame at the end of a chunk is lost.             *)
PcmExtractDropsTail(data) ==
  LET n == Len(data) \div FrameSize
  IN  [ messages |-> [i \in 1 .. n |-> SubSeq(data, (i - 1) * FrameSize + 1, i * FrameSize)],
        rest     |-> <<>> ]

(* PcmFrameExtractor.append: every complete frame, and the tail.           *)
PcmExtract(data) ==
  LET n == Len(data) \div FrameSize
  IN  [ messages |-> [i \in 1 .. n |-> SubSeq(data, (i - 1) * FrameSize + 1, i * FrameSize)],
        rest     |-> SubSeq(data, n * FrameSize + 1, Len(data)) ]

(* _split_json scans the whole buffer again and keeps what follows the     *)
(* last complete structure.                                                *)
Scan(s, c, i) ==
  CASE c.char = "open" -> [s EXCEPT !.depth = @ + 1,
                                 !.start = IF s.depth = 0 THEN i ELSE @]
    [] c.char = "close" /\ s.depth = 1 -> [s EXCEPT !.depth = 0, !.stop = i,
                                                !.found = Append(@, <<s.start, i>>)]
    [] c.char = "close" /\ s.depth > 1 -> [s EXCEPT !.depth = @ - 1]
    [] OTHER -> s

Scanned(data) ==
  LET scan[i \in 0 .. Len(data)] ==
        IF i = 0 THEN [depth |-> 0, start |-> 0, stop |-> 0, found |-> <<>>]
        ELSE Scan(scan[i - 1], data[i], i)
  IN  scan

JsonExtract(data) ==
  LET end == Scanned(data)[Len(data)]
  IN  [ messages |-> [j \in 1 .. Len(end.found) |->
                        SubSeq(data, end.found[j][1], end.found[j][2])],
        rest     |-> SubSeq(data, end.stop + 1, Len(data)) ]

Extract(data) == IF kind = "pcm" THEN PcmExtract(data) ELSE JsonExtract(data)

-----------------------------------------------------------------------------
FramingInit ==
  /\ kind \in {"pcm", "json"}
  /\ texts \in [1 .. MessageCount -> IF kind = "pcm" THEN {PcmFrame} ELSE JsonTexts]
  /\ connection = 1
  /\ received = 0
  /\ buffer = <<>>
  /\ delivered = <<>>
  /\ clean = TRUE

(* recv() returns a chunk of n characters.                                 *)
Receive(n) ==
  LET chunk == SubSeq(Wire(connection), received + 1, received + n)
      out   == Extract(buffer \o chunk)
  IN  /\ received + n <= Ends[MessageCount]
      /\ received' = received + n
      /\ buffer' = out.rest
      /\ delivered' = delivered \o out.messages
      /\ UNCHANGED <<kind, texts, connection, clean>>

(* The connection ends and the next one is served: _handle_client makes a  *)
(* new PCM extractor, the JSON buffer belongs to the server object.        *)
Reconnect ==
  /\ connection < MaxConnections
  /\ connection' = connection + 1
  /\ received' = 0
  /\ buffer' = IF kind = "pcm" THEN <<>> ELSE buffer
  /\ delivered' = <<>>
  /\ clean' = (clean /\ BetweenMessages(received))
  /\ UNCHANGED <<kind, texts>>

FramingNext == (\E n \in 1 .. Ends[MessageCount] : Receive(n)) \/ Reconnect

FramingSpec == FramingInit /\ [][FramingNext]_framingVars

-----------------------------------------------------------------------------
(* Whatever the chunks, the handler of a server got exactly the messages   *)
(* of the current connection that are complete, unchanged and in order:    *)
(* PCM frames on every connection; JSON objects as long as no connection   *)
(* ended inside an object, because the buffer of the JSON server outlives  *)
(* its connections (_json_buffer, append, _split_json).                    *)
WholeMessages ==
  kind = "pcm" \/ clean =>
  /\ DOMAIN delivered = {m \in 1 .. MessageCount : Ends[m] <= received}
  /\ \A m \in DOMAIN delivered : delivered[m] = Message(connection, m)

=============================================================================
