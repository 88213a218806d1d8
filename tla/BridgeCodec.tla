----------------------------- MODULE BridgeCodec -----------------------------
(***************************************************************************)
(* The protobuf subset of the trusted-device bridge, written by hand       *)
(* (src/icloudlite/hsa2_bridge.py): varints, fields, and the messages made *)
(* of them.  Bytes are numbers, encoded and decoded as the code does; what *)
(* the code reads at an offset is read here at the start of what is left.  *)
(***************************************************************************)
EXTENDS Integers, Sequences

Byte == 0..255
Bytes == Seq(Byte)

After(data, n) == SubSeq(data, n + 1, Len(data))

\* In place of a result: an exception.
Malformed == <<-1, -1>>

EncodeVarint[v \in Nat] ==
    IF v < 128 THEN <<v>> ELSE <<128 + (v % 128)>> \o EncodeVarint[v \div 128]

\* The value of the groups of seven bits up to the last one, the lowest first.
Groups(data, last) ==
    LET value[i \in 1..(last + 1)] ==
            IF i > last THEN 0 ELSE (data[i] % 128) + 128 * value[i + 1]
    IN value[1]

\* Mutant: a varint may end with the data.
ReadVarintToTheEnd(data) ==
    LET ends == {i \in 1..Len(data) : i <= 10 /\ (data[i] < 128 \/ i = Len(data))}
        last == CHOOSE i \in ends : \A j \in ends : i <= j
    IN IF ends = {} THEN Malformed ELSE <<Groups(data, last), last>>

\* The value at the start of the data, and its size.  A varint ends at its
\* first byte below 128, which must be one of ten.
ReadVarint(data) ==
    LET ends == {i \in 1..Len(data) : i <= 10 /\ data[i] < 128}
        last == CHOOSE i \in ends : \A j \in ends : i <= j
    IN IF ends = {} THEN Malformed ELSE <<Groups(data, last), last>>

EncodeField(number, wireType, value) ==
    EncodeVarint[number * 8 + wireType] \o value
EncodeBytes(number, value) ==
    EncodeField(number, 2, EncodeVarint[Len(value)] \o value)
EncodeUint(number, value) == EncodeField(number, 0, EncodeVarint[value])

\* The field of this key and this item, at the start of the data: its number,
\* its value and its size.
FieldOf(data, key, item) ==
    LET number == key[1] \div 8
        wireType == key[1] % 8
        start == key[2] + item[2]
        end == start + item[1]
    IN IF key = Malformed \/ wireType \notin {0, 2} THEN Malformed
       ELSE IF item = Malformed THEN Malformed
       ELSE IF wireType = 0 THEN <<number, item[1], start>>
       ELSE IF end > Len(data) THEN Malformed
       ELSE <<number, SubSeq(data, start + 1, end), end>>

ReadField(data) ==
    LET key == ReadVarint(data)
    IN FieldOf(data, key, ReadVarint(After(data, key[2])))

\* The fields of a message in order, as <<number, value>> pairs, or the one
\* pair Malformed.
DecodeFields[data \in Bytes] ==
    LET field == ReadField(data)
        rest == DecodeFields[After(data, field[3])]
    IN IF data = <<>> THEN <<>>
       ELSE IF field = Malformed THEN <<Malformed>>
       ELSE IF rest = <<Malformed>> THEN rest
       ELSE <<<<field[1], field[2]>>>> \o rest

\* fields.get(number, [default])[0]
First(fields, number, default) ==
    LET own == {i \in DOMAIN fields : fields[i][1] = number}
    IN IF own = {} THEN default
       ELSE fields[CHOOSE i \in own : \A j \in own : i <= j][2]

DecodeConnection(data) ==
    LET f == DecodeFields[data]
    IN [kind |-> "connection", token |-> First(f, 1, <<>>),
        status |-> First(f, 2, 0), time |-> First(f, 3, -1)]

DecodePush(data) ==
    LET f == DecodeFields[data]
    IN [kind |-> "push", topic |-> First(f, 1, <<>>), id |-> First(f, 2, 0),
        payload |-> First(f, 4, <<>>)]

\* The topics are two messages deep; empty ones are dropped.
DecodeSubscription(data) ==
    LET f == DecodeFields[data]
        responses == DecodeFields[First(f, 1, <<>>)]
        topics == {First(DecodeFields[responses[i][2]], 1, <<>>) :
                      i \in {j \in DOMAIN responses : responses[j][1] = 1}}
    IN [kind |-> "subscription", id |-> First(f, 2, 0),
        status |-> First(f, 3, 0), retry |-> First(f, 4, 0),
        topics |-> topics \ {<<>>}]

DecodeAck(data) ==
    LET f == DecodeFields[data]
    IN [kind |-> "ack", topic |-> First(f, 1, <<>>), id |-> First(f, 2, 0),
        status |-> First(f, 3, 0)]

\* _ServerMessage: the first part of every kind that is there.
DecodeServerMessage(data) ==
    LET f == DecodeFields[data]
        numbers == {f[i][1] : i \in DOMAIN f}
        part(number) == First(f, number, <<>>)
    IN (IF 1 \in numbers THEN {DecodeConnection(part(1))} ELSE {})
         \cup (IF 2 \in numbers THEN {DecodePush(part(2))} ELSE {})
         \cup (IF 3 \in numbers THEN {DecodeSubscription(part(3))} ELSE {})
         \cup (IF 7 \in numbers THEN {DecodeAck(part(7))} ELSE {})

\* What the client sends.
EncodeAck(topic, id) == EncodeBytes(2, EncodeBytes(1, topic) \o EncodeUint(2, id))

=============================================================================
