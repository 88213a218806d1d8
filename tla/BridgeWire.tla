----------------------------- MODULE BridgeWire -----------------------------
(***************************************************************************)
(* What carries the trusted-device conversation                            *)
(* (src/icloudlite/hsa2_bridge.py): the websocket client written by hand,  *)
(* with the messages of BridgeCodec.  Apple's messages, with pings between *)
(* and within them, are cut into frames and arrive as a stream of bytes    *)
(* that recv hands over in arbitrary pieces, the first of which may hold   *)
(* the end of the HTTP answer and the beginning of a frame.                *)
(*                                                                         *)
(* Only the two lengths at which a frame header grows (126 and 65536) are  *)
(* parameters, so that short messages reach them.                          *)
(***************************************************************************)
EXTENDS BridgeCodec, SequencesExt

CONSTANTS Short,      \* 126: the length from which a header has a longer one
          Medium,     \* 65536: the length from which that takes eight bytes
          MaskKey,    \* four bytes, drawn for every frame the client sends
          HttpAnswer, \* Apple's answer to the upgrade
          Plans,      \* sequences of messages, of which Apple sends one
          Cuts,       \* how many bytes Apple may put in a frame before the last
          Keys,       \* under which it may mask them; the empty one is no mask
          Pings,      \* what it may ping with
          Strays,     \* opcodes of the other frames it may send, all empty
          MaxFrames   \* bound on the frames Apple sends

ASSUME HeaderLengths == Short \in 1..126 /\ Medium \in (Short + 1)..65536

\* Numbers of four bytes: as large as a field or a length may be here.
Word == {n \in Nat : n \div 65536 < 65536}

\* A mask is a key of four bytes, or none.
ASSUME MaskKeys ==
    /\ MaskKey \in Bytes /\ Len(MaskKey) = 4
    /\ \A key \in Keys : key \in Bytes /\ Len(key) \in {0, 4}

\* Other frames are neither part of a message nor pings.
ASSUME OtherFrames ==
    /\ MaxFrames \in Nat /\ Cuts \subseteq Nat /\ Strays \subseteq 3..15 \ {9}
    /\ \A payload \in Pings : payload \in Bytes /\ Len(payload) \in Word

-----------------------------------------------------------------------------
(* Frames *)

Opcode == [continuation |-> 0, text |-> 1, binary |-> 2, close |-> 8, ping |-> 9, pong |-> 10]

Xor(a, b) ==
    LET bit(w) == w * (((a \div w) + (b \div w)) % 2)
    IN bit(1) + bit(2) + bit(4) + bit(8) + bit(16) + bit(32) + bit(64) + bit(128)

\* An empty key is no mask.
Masked(key, payload) ==
    [i \in DOMAIN payload |-> IF key = <<>> THEN payload[i]
                              ELSE Xor(payload[i], key[((i - 1) % 4) + 1])]

\* A length in two bytes and in eight, the highest first.
Pack2(n) == <<n \div 256, n % 256>>
Pack8(n) == <<0, 0, 0, 0, n \div 16777216, (n \div 65536) % 256, (n \div 256) % 256, n % 256>>
Unpack2(b) == 256 * b[1] + b[2]
Unpack8(b) ==
    256 * (256 * (256 * (256 * (256 * (256 * (256 * b[1] + b[2]) + b[3]) + b[4]) + b[5])
                             + b[6]) + b[7]) + b[8]

\* One frame; an empty key leaves it unmasked, as a server does.
Frame(fin, opcode, payload, key) ==
    LET length == Len(payload)
        maskBit == IF key = <<>> THEN 0 ELSE 128
        size == IF length < Short THEN <<maskBit + length>>
                ELSE IF length < Medium THEN <<maskBit + Short>> \o Pack2(length)
                ELSE <<maskBit + Short + 1>> \o Pack8(length)
    IN <<(IF fin THEN 128 ELSE 0) + opcode>> \o size \o key \o Masked(key, payload)

\* The frame at the start of a buffer, or NeedMore while the reads of
\* read_message are not all satisfied.
NeedMore == [size |-> 0]
FrameAt(buffer) ==
    LET code == buffer[2] % 128
        extra == IF code = Short THEN 2 ELSE IF code = Short + 1 THEN 8 ELSE 0
        keySize == IF buffer[2] >= 128 THEN 4 ELSE 0
        start == 2 + extra + keySize
        digits == SubSeq(buffer, 3, 2 + extra)
        length == IF extra = 0 THEN code
                  ELSE IF extra = 2 THEN Unpack2(digits) ELSE Unpack8(digits)
        key == SubSeq(buffer, 3 + extra, start)
        body == SubSeq(buffer, start + 1, start + length)
    IN IF Len(buffer) < 2 THEN NeedMore
       ELSE IF Len(buffer) < start THEN NeedMore
       ELSE IF Len(buffer) < start + length THEN NeedMore
       ELSE [fin |-> buffer[1] >= 128, opcode |-> buffer[1] % 16,
             payload |-> Masked(key, body), size |-> start + length]

-----------------------------------------------------------------------------
(* Apple's side: the messages, and the frames they are sent in. *)

PartNumber == [connection |-> 1, push |-> 2, subscription |-> 3, ack |-> 7]

TopicList(topics) ==
    FlattenSeq([i \in DOMAIN topics |-> EncodeBytes(1, EncodeBytes(1, topics[i]))])

PartBody(p) ==
    CASE p.kind = "connection" ->
           EncodeBytes(1, p.token) \o EncodeUint(2, p.status)
             \o (IF p.time < 0 THEN <<>> ELSE EncodeUint(3, p.time))
      [] p.kind = "push" ->
           EncodeBytes(1, p.topic) \o EncodeUint(2, p.id) \o EncodeBytes(4, p.payload)
      [] p.kind = "subscription" ->
           EncodeBytes(1, TopicList(p.topics)) \o EncodeUint(2, p.id)
             \o EncodeUint(3, p.status) \o EncodeUint(4, p.retry)
      [] p.kind = "ack" ->
           EncodeBytes(1, p.topic) \o EncodeUint(2, p.id) \o EncodeUint(3, p.status)

MessageBytes(m) ==
    FlattenSeq([i \in DOMAIN m |-> EncodeBytes(PartNumber[m[i].kind], PartBody(m[i]))])

\* A message is a sequence of parts of different kinds.
Part == [kind : {"connection"}, token : Bytes, status : Word, time : Word \cup {-1}]
          \cup [kind : {"push"}, topic : Bytes, id : Word, payload : Bytes]
          \cup [kind : {"subscription"}, topics : Seq(Bytes), id : Word, status : Word, retry : Word]
          \cup [kind : {"ack"}, topic : Bytes, id : Word, status : Word]

IsMessage(m) == /\ m \in Seq(Part)
                /\ \A i, j \in DOMAIN m : m[i].kind = m[j].kind => i = j

\* No byte string in a message, nor its acknowledgement, is of 2^32 bytes.
SizesFit(m) ==
    /\ Len(MessageBytes(m)) \in Word
    /\ \A i \in DOMAIN m :
         /\ Len(PartBody(m[i])) \in Word
         /\ m[i].kind = "connection" => Len(m[i].token) \in Word
         /\ m[i].kind \in {"push", "ack"} => Len(m[i].topic) \in Word
         /\ m[i].kind = "push" => /\ Len(m[i].payload) \in Word
                                  /\ Len(EncodeAck(m[i].topic, m[i].id)) \in Word
         /\ m[i].kind = "subscription" =>
              /\ Len(TopicList(m[i].topics)) \in Word
              /\ \A k \in DOMAIN m[i].topics :
                   /\ Len(m[i].topics[k]) \in Word
                   /\ Len(EncodeBytes(1, m[i].topics[k])) \in Word

ASSUME PlannedMessages ==
    \A p \in Plans : /\ p \in Seq(Seq(Part))
                     /\ \A k \in DOMAIN p : IsMessage(p[k]) /\ SizesFit(p[k])

\* What the client reads in a part: topics as a set, without empty ones.
Understood(p) ==
    IF p.kind = "subscription"
    THEN [p EXCEPT !.topics = {@[i] : i \in DOMAIN @} \ {<<>>}] ELSE p
PartsOf(m) == {Understood(m[i]) : i \in DOMAIN m}

\* An HTTP answer ends with its first empty line.
Marker == <<13, 10, 13, 10>>
MarkersIn(data) == {i \in 4..Len(data) : SubSeq(data, i - 3, i) = Marker}

ASSUME UpgradeAnswer == HttpAnswer \in Bytes /\ MarkersIn(HttpAnswer) = {Len(HttpAnswer)}

-----------------------------------------------------------------------------
(* What the waits of hsa2_bridge.py do with the parts of a message. *)

\* A connection response with which the wait for the push token ends well; a
\* token that is not base64 is left out.
Accepted(parts) ==
    \E p \in parts : p.kind = "connection" /\ p.status = 0 /\ p.token # <<>>
\* A message that ends the wait with an error.
Refused(caller, parts) ==
    \/ /\ caller = "token"
       /\ \E p \in parts : p.kind = "connection"
       /\ ~Accepted(parts)
    \/ /\ caller = "push"
       /\ \E p \in parts : p.kind = "subscription" /\ p.status # 0

\* The push that is acknowledged, as a sequence of at most one.
Pushed(parts) ==
    LET pushes == {p \in parts : p.kind = "push"}
    IN IF pushes = {} THEN <<>> ELSE <<CHOOSE p \in pushes : TRUE>>

-----------------------------------------------------------------------------
VARIABLES
    (* Apple *)
    plan,     \* the messages it sends
    log,      \* what it has sent: the HTTP answer, then a frame each
    stream,   \* all bytes it has sent
    (* the connection *)
    got,      \* how many of them recv has returned
    (* the client *)
    buffer,   \* _buffer
    stage,    \* "http", "reading" or "failed"
    wait,     \* who calls read_message: the wait for the token, or for a push
    pieces,   \* the fragments of the message being read, joined
    received, \* messages read_message has returned
    sent,     \* frames the client has sent
    taken     \* history: how many frames it has taken

apple == <<plan, log, stream>>
vars == <<plan, log, stream, got, buffer, stage, wait, pieces, received, sent, taken>>

NoPieces == [opcode |-> -1, data |-> <<>>]

\* An entry of the log: the bytes sent and where they end in the stream; the
\* whole messages said by then, the bytes spoken of the next one and whether
\* it has begun; the answers due by then.
HttpEntry == [bytes |-> HttpAnswer, end |-> Len(HttpAnswer),
              said |-> 0, spoken |-> 0, begun |-> FALSE, due |-> <<>>]

TypeOK ==
    /\ plan \in Plans
    /\ stream \in Bytes
    /\ got \in 0..Len(stream)
    /\ buffer \in Bytes
    /\ stage \in {"http", "reading", "failed"}
    /\ wait \in {"token", "push"}
    /\ pieces.opcode \in -1..15
    /\ pieces.data \in Bytes
    /\ Len(received) <= Len(plan)
    /\ \A i \in DOMAIN sent : sent[i] \in Bytes
    /\ taken \in 0..(Len(log) - 1)

Init ==
    /\ plan \in Plans
    /\ log = <<HttpEntry>>
    /\ stream = HttpAnswer
    /\ got = 0
    /\ buffer = <<>>
    /\ stage = "http"
    /\ wait = "token"
    /\ pieces = NoPieces
    /\ received = <<>>
    /\ sent = <<>>
    /\ taken = 0

-----------------------------------------------------------------------------
(* Apple sends a frame: the next bytes of a message, a ping, or another one *)
(* without content.                                                         *)

Now == Last(log)
Saying == MessageBytes(plan[Now.said + 1])

AppleSends(entry, bytes) ==
    /\ Len(log) <= MaxFrames
    /\ log' = Append(log, [entry EXCEPT !.bytes = bytes, !.end = @ + Len(bytes)])
    /\ stream' = stream \o bytes
    /\ UNCHANGED <<plan, got, buffer, stage, wait, pieces, received, sent, taken>>

SpokenAs == IF Now.begun THEN Opcode.continuation ELSE Opcode.binary

ApplePiece(n, key) ==
    /\ Now.said < Len(plan)
    /\ Now.spoken + n <= Len(Saying)
    /\ AppleSends([Now EXCEPT !.spoken = @ + n, !.begun = TRUE],
                  Frame(FALSE, SpokenAs, SubSeq(Saying, Now.spoken + 1, Now.spoken + n), key))

\* An acknowledgement is due for a push that comes in a message after the one
\* with which the connection was accepted.
AcksDue(messages, k) ==
    LET pushes == Pushed(PartsOf(messages[k]))
    IN IF \E j \in 1..(k - 1) : Accepted(PartsOf(messages[j]))
       THEN [i \in DOMAIN pushes |-> [kind |-> "ack", topic |-> pushes[i].topic,
                                      id |-> pushes[i].id]]
       ELSE <<>>

AppleEnds(key) ==
    /\ Now.said < Len(plan)
    /\ AppleSends([Now EXCEPT !.said = @ + 1, !.spoken = 0, !.begun = FALSE,
                              !.due = @ \o AcksDue(plan, Now.said + 1)],
                  Frame(TRUE, SpokenAs, After(Saying, Now.spoken), key))

ApplePings(payload, key) ==
    AppleSends([Now EXCEPT !.due = Append(@, [kind |-> "pong", payload |-> payload])],
               Frame(TRUE, Opcode.ping, payload, key))

AppleStrays(opcode) == AppleSends(Now, Frame(TRUE, opcode, <<>>, <<>>))

Apple ==
    \/ \E key \in Keys : (\E n \in Cuts : ApplePiece(n, key)) \/ AppleEnds(key)
    \/ \E key \in Keys, payload \in Pings : ApplePings(payload, key)
    \/ \E opcode \in Strays : AppleStrays(opcode)

-----------------------------------------------------------------------------
(* The client *)

EndOfHttp == MarkersIn(buffer)

\* recv is called only while the buffer does not hold what is being read.
Wanting == \/ stage = "http" /\ EndOfHttp = {}
           \/ stage = "reading" /\ FrameAt(buffer) = NeedMore

Recv(n) ==
    /\ Wanting
    /\ buffer' = buffer \o SubSeq(stream, got + 1, got + n)
    /\ got' = got + n
    /\ UNCHANGED <<apple, stage, wait, pieces, received, sent, taken>>

\* The connection breaks: recv returns nothing, or raises.
Eof ==
    /\ Wanting
    /\ stage' = "failed"
    /\ UNCHANGED <<apple, got, buffer, wait, pieces, received, sent, taken>>

\* _read_http_response leaves in the buffer what follows the empty line.
TakeHttpAnswer ==
    /\ stage = "http"
    /\ EndOfHttp # {}
    /\ buffer' = After(buffer, CHOOSE i \in EndOfHttp : \A j \in EndOfHttp : i <= j)
    /\ stage' = "reading"
    /\ UNCHANGED <<apple, got, wait, pieces, received, sent, taken>>

\* The complete frame at the head of the buffer, if it is one of these.
HeadFrame(opcodes) ==
    {f \in {FrameAt(buffer)} : stage = "reading" /\ f # NeedMore
                                 /\ f.opcode \in opcodes}
Consume(f) ==
    /\ buffer' = After(buffer, f.size)
    /\ taken' = taken + 1
    /\ UNCHANGED <<apple, got>>

Answer(opcode, payload) == Frame(TRUE, opcode, payload, MaskKey)

\* Mutants: a ping drops the fragments read so far; the pong is empty.
TakePingDropping ==
    /\ \E f \in HeadFrame({Opcode.ping}) :
         /\ Consume(f)
         /\ sent' = Append(sent, Answer(Opcode.pong, f.payload))
    /\ pieces' = NoPieces
    /\ UNCHANGED <<stage, wait, received>>
TakePingEmptily ==
    /\ \E f \in HeadFrame({Opcode.ping}) :
         /\ Consume(f)
         /\ sent' = Append(sent, Answer(Opcode.pong, <<>>))
    /\ UNCHANGED <<stage, wait, pieces, received>>

\* A ping is answered at once, wherever it stands, with its own payload; a
\* pong is dropped.
TakePing ==
    /\ \E f \in HeadFrame({Opcode.ping}) :
         /\ Consume(f)
         /\ sent' = Append(sent, Answer(Opcode.pong, f.payload))
    /\ UNCHANGED <<stage, wait, pieces, received>>

TakePong ==
    /\ \E f \in HeadFrame({Opcode.pong}) : Consume(f)
    /\ UNCHANGED <<stage, wait, pieces, received, sent>>

\* A close frame ends the call with an error.
TakeClose ==
    /\ \E f \in HeadFrame({Opcode.close}) : Consume(f)
    /\ stage' = "failed"
    /\ UNCHANGED <<wait, pieces, received, sent>>

\* Any other frame is one more piece; the opcode of a message is that of its
\* first frame.
DataFrame == HeadFrame(0..15 \ {Opcode.close, Opcode.ping, Opcode.pong})
Joined(f) == [opcode |-> IF f.opcode = Opcode.continuation THEN pieces.opcode ELSE f.opcode,
              data |-> pieces.data \o f.payload]

TakePiece ==
    /\ \E f \in DataFrame : ~f.fin /\ Consume(f) /\ pieces' = Joined(f)
    /\ UNCHANGED <<stage, wait, received, sent>>

TakeUnsupported ==
    /\ \E f \in DataFrame :
         /\ f.fin
         /\ Joined(f).opcode \notin {Opcode.text, Opcode.binary}
         /\ Consume(f)
    /\ stage' = "failed"
    /\ UNCHANGED <<wait, pieces, received, sent>>

\* The answers of the client go to `sent`; the filter message that start posts
\* once it has the token (hsa2_bridge.py:1104) answers nothing and is left out.
\* read_message returns, and the wait that called it looks at the message: it
\* fails, or goes on; the wait for the token ends when there is one, and from
\* then on every push is acknowledged.
TakeMessage ==
    \E f \in DataFrame : \E parts \in {DecodeServerMessage(Joined(f).data)} :
      LET acks == IF wait = "push" THEN Pushed(parts) ELSE <<>>
      IN /\ f.fin
         /\ Joined(f).opcode \in {Opcode.text, Opcode.binary}
         /\ Consume(f)
         /\ received' = Append(received, Joined(f).data)
         /\ pieces' = NoPieces
         /\ \/ /\ Refused(wait, parts)
               /\ stage' = "failed"
               /\ UNCHANGED <<wait, sent>>
            \/ /\ ~Refused(wait, parts)
               /\ wait' = IF Accepted(parts) THEN "push" ELSE wait
               /\ sent' = sent \o [i \in DOMAIN acks |->
                    Answer(Opcode.binary, EncodeAck(acks[i].topic, acks[i].id))]
               /\ UNCHANGED stage

Client == TakeHttpAnswer \/ TakePing \/ TakePong \/ TakeClose
            \/ TakePiece \/ TakeUnsupported \/ TakeMessage

Finished == /\ stage = "failed" \/ (Wanting /\ got = Len(stream))
            /\ UNCHANGED vars

Next == Apple \/ (\E n \in 1..(Len(stream) - got) : Recv(n)) \/ Eof \/ Client \/ Finished

Spec == Init /\ [][Next]_vars
-----------------------------------------------------------------------------
(* Properties *)

\* However recv cuts the stream, wherever a message is split and a ping put
\* between its pieces, and wherever the connection breaks, the messages read
\* are the messages sent, whole and in their order.
ReceivedIsSent ==
    \A i \in DOMAIN received : DecodeServerMessage(received[i]) = PartsOf(plan[i])

\* When all that was sent has arrived and the client wants more, nothing is
\* left in the buffer, and the pieces are what Apple has said of the next
\* message.  Once all frames are taken no message is missing, whatever the
\* last frame was and even if the client gave up on it.
NothingLeftOver ==
    /\ stage # "http" /\ got = Len(stream) /\ buffer = <<>>
       => Len(received) = Now.said
    /\ Wanting /\ got = Len(stream)
       => /\ buffer = <<>>
          /\ pieces = IF Now.begun
                      THEN [opcode |-> Opcode.binary, data |-> SubSeq(Saying, 1, Now.spoken)]
                      ELSE NoPieces

\* What is read is what was sent, neither less nor more.
StreamIsKept == TypeOK /\ ReceivedIsSent /\ NothingLeftOver

\* A message, or a part of one, that was cut short, wherever, does not pass for
\* another one: it is refused or lacks whole fields at its end.
TruncationShows ==
    stage = "http" /\ buffer = <<>> =>
        \A i \in DOMAIN plan :
            LET whole == MessageBytes(plan[i])
                parts == {PartBody(plan[i][k]) : k \in DOMAIN plan[i]}
            IN \A data \in {whole} \cup parts : \A n \in 1..(Len(data) - 1) :
                 LET fields == DecodeFields[SubSeq(data, 1, n)]
                 IN fields = <<Malformed>>
                      \/ IsStrictPrefix(fields, DecodeFields[data])

\* What Apple reads in the frames of the client: a pong for every ping, and an
\* acknowledgement for every push that is due one, with its topic and number;
\* each is sent once, with the step that takes the frame it answers, and in
\* their order.  Only a client that has given up may owe one.
AppleReads(bytes) ==
    LET f == FrameAt(bytes)
        ack == DecodeFields[First(DecodeFields[f.payload], 2, <<>>)]
    IN IF f.opcode = Opcode.pong THEN [kind |-> "pong", payload |-> f.payload]
       ELSE [kind |-> "ack", topic |-> First(ack, 1, <<>>), id |-> First(ack, 2, 0)]

AnswersMatch ==
    LET answers == [i \in DOMAIN sent |-> AppleReads(sent[i])]
    IN /\ IsPrefix(answers, log[taken + 1].due)
       /\ stage # "failed" => answers = log[taken + 1].due
       /\ Wanting /\ got = Len(stream) => answers = Now.due
=============================================================================
