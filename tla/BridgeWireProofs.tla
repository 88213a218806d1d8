-------------------------- MODULE BridgeWireProofs --------------------------
(***************************************************************************)
(* What holds of BridgeCodec and BridgeWire for every message, every       *)
(* sequence of messages, every way Apple cuts them into frames and every   *)
(* way recv cuts the stream: what is encoded is read back, what is cut     *)
(* short shows it, and the client reads what was sent and answers what is  *)
(* due.                                                                    *)
(*                                                                         *)
(* The functions defined by recursion (EncodeVarint, Groups, DecodeFields, *)
(* FlattenSeq) are met by the theorems of InductionTheorems, over the size *)
(* of an argument.                                                         *)
(***************************************************************************)
EXTENDS BridgeWire, InductionTheorems, SequenceTheorems, TLAPS

-----------------------------------------------------------------------------
(* Varints *)

\* A byte is a number from 0 to 255.
LEMMA ByteIs == \A b : b \in Byte <=> b \in Int /\ 0 <= b /\ b <= 255
BY DEF Byte

\* The length and the bytes of a text.
LEMMA ByteAt ==
  \A data \in Bytes : /\ data \in Seq(Byte) /\ Len(data) \in Nat
                      /\ \A i \in 1..Len(data) :
                           data[i] \in Int /\ 0 <= data[i] /\ data[i] <= 255
<1> TAKE data \in Bytes
<1>1. data \in Seq(Byte)  BY DEF Bytes
<1>2. \A i \in 1..Len(data) : data[i] \in Byte  BY <1>1, ElementOfSeq
<1> QED BY <1>1, <1>2, LenProperties, ByteIs

\* _encode_varint: the recursive definition has the values it describes, and
\* they are bytes.
LEMMA EncodeVarintIs ==
  /\ EncodeVarint \in [Nat -> Bytes]
  /\ \A v \in Nat : EncodeVarint[v] =
       IF v < 128 THEN <<v>> ELSE <<128 + (v % 128)>> \o EncodeVarint[v \div 128]
<1> DEFINE T == [f \in [Nat -> Bytes] |-> [v \in Nat |->
       IF v < 128 THEN <<v>> ELSE <<128 + (v % 128)>> \o f[v \div 128]]]
           size == [v \in Nat |-> v]
<1>1. T \in [[Nat -> Bytes] -> [Nat -> Bytes]]
  <2>1. ASSUME NEW f \in [Nat -> Bytes], NEW v \in Nat PROVE T[f][v] \in Bytes
    <3>1. CASE v < 128
      <4>1. v \in Byte  BY <3>1, ByteIs
      <4> QED BY <3>1, <4>1 DEF Bytes
    <3>2. CASE v >= 128
      <4>1. 128 + (v % 128) \in Byte  BY ByteIs
      <4>2. f[v \div 128] \in Bytes  OBVIOUS
      <4> QED BY <3>2, <4>1, <4>2 DEF Bytes
    <3> QED BY <3>1, <3>2
  <2> QED BY <2>1
<1>2. ASSUME NEW f \in [Nat -> Bytes], NEW g \in [Nat -> Bytes], NEW v \in Nat,
             \A r \in Nat : size[r] < size[v] => f[r] = g[r]
      PROVE  T[f][v] = T[g][v]
  <2>1. CASE v < 128  BY <2>1
  <2>2. CASE v >= 128
    <3>1. v \div 128 \in Nat /\ v \div 128 < v  BY <2>2
    <3>2. f[v \div 128] = g[v \div 128]  BY <1>2, <3>1
    <3> QED BY <2>2, <3>2
  <2> QED BY <2>1, <2>2
<1>3. Bytes # {} /\ size \in [Nat -> Nat]  BY EmptySeq DEF Bytes
<1>4. Recursive(Nat, Bytes, size, T)
  <2> HIDE DEF T, size
  <2> QED BY <1>1, <1>2, <1>3 DEF Recursive
<1>5. PICK f \in [Nat -> Bytes] : f = T[f]
  <2> HIDE DEF T, size
  <2> QED BY <1>4, Recursion DEF Solvable
<1>6. \E g : g = [v \in Nat |->
       IF v < 128 THEN <<v>> ELSE <<128 + (v % 128)>> \o g[v \div 128]]
  BY <1>5
<1>7. EncodeVarint = [v \in Nat |->
       IF v < 128 THEN <<v>> ELSE <<128 + (v % 128)>> \o EncodeVarint[v \div 128]]
  BY <1>6 DEF EncodeVarint
<1>9. \A v \in Nat : EncodeVarint[v] =
       IF v < 128 THEN <<v>> ELSE <<128 + (v % 128)>> \o EncodeVarint[v \div 128]
  BY <1>7
<1>8. EncodeVarint \in [Nat -> Bytes]
  <2> DEFINE P == {v \in Nat : EncodeVarint[v] \in Bytes}
  <2>1. ASSUME NEW v \in Nat, \A r \in Nat : size[r] < size[v] => r \in P
        PROVE  v \in P
    <3>1. CASE v < 128
      <4>1. v \in Byte  BY <3>1, ByteIs
      <4> QED BY <1>7, <3>1, <4>1 DEF Bytes
    <3>2. CASE v >= 128
      <4>1. 128 + (v % 128) \in Byte  BY ByteIs
      <4>2. v \div 128 \in Nat /\ v \div 128 < v  BY <3>2
      <4>3. EncodeVarint[v \div 128] \in Bytes  BY <2>1, <4>2
      <4>4. EncodeVarint[v] = <<128 + (v % 128)>> \o EncodeVarint[v \div 128]
        <5>1. EncodeVarint[v] =
                IF v < 128 THEN <<v>> ELSE <<128 + (v % 128)>> \o EncodeVarint[v \div 128]
          BY <1>9, Zenon
        <5>2. ~(v < 128)  BY <3>2
        <5> QED BY <5>1, <5>2, Zenon
      <4>5. <<128 + (v % 128)>> \o EncodeVarint[v \div 128] \in Bytes
        BY <4>1, <4>3 DEF Bytes
      <4> QED BY <4>4, <4>5
    <3> QED BY <3>1, <3>2
  <2>2. Nat \subseteq P
    <3> HIDE DEF P, size
    <3> QED BY <1>3, <2>1, Induction DEF Inductive
  <2> QED BY <1>7, <2>2
<1> QED BY <1>8, <1>9

\* The values from each group on.
GroupsOf(data, last, f) ==
  /\ f[last + 1] = 0
  /\ \A i \in 1..last : f[i] = (data[i] % 128) + 128 * f[i + 1]

\* The groups of a varint determine its value.
LEMMA GroupsUnique ==
  ASSUME NEW data, NEW last \in Nat, NEW f, NEW g,
         GroupsOf(data, last, f), GroupsOf(data, last, g)
  PROVE  \A i \in 1..(last + 1) : f[i] = g[i]
<1> DEFINE P == {n \in Nat : n <= last => f[last + 1 - n] = g[last + 1 - n]}
<1>1. 0 \in P  BY DEF GroupsOf
<1>2. ASSUME NEW n \in Nat, n \in P PROVE n + 1 \in P
  <2>1. SUFFICES ASSUME n + 1 <= last PROVE f[last + 1 - (n + 1)] = g[last + 1 - (n + 1)]
    OBVIOUS
  <2> DEFINE i == last - n
  <2>2. i \in 1..last /\ last + 1 - (n + 1) = i /\ last + 1 - n = i + 1  BY <2>1
  <2>3. f[i + 1] = g[i + 1]  BY <1>2, <2>1, <2>2
  <2>4. f[i] = (data[i] % 128) + 128 * f[i + 1] /\ g[i] = (data[i] % 128) + 128 * g[i + 1]
    BY <2>2 DEF GroupsOf
  <2> QED BY <2>2, <2>3, <2>4
<1>3. Nat \subseteq P
  <2> HIDE DEF P
  <2> QED BY <1>1, <1>2, NatInd
<1>4. ASSUME NEW i \in 1..(last + 1) PROVE f[i] = g[i]
  <2>1. last + 1 - i \in P /\ last + 1 - i <= last  BY <1>3
  <2>2. last + 1 - (last + 1 - i) = i  OBVIOUS
  <2> QED BY <2>1, <2>2
<1> QED BY <1>4

\* The value of the groups of a varint up to the last one is a number.
LEMMA GroupsAre ==
  ASSUME NEW data \in Bytes, NEW last \in Nat, 1 <= last, last <= Len(data)
  PROVE  \E f \in [1..(last + 1) -> Nat] :
            GroupsOf(data, last, f) /\ Groups(data, last) = f[1]
<1> DEFINE S == 1..(last + 1)
           T == [f \in [S -> Nat] |-> [i \in S |->
                   IF i > last THEN 0 ELSE (data[i] % 128) + 128 * f[i + 1]]]
           size == [i \in S |-> last + 1 - i]
<1>0. \A i \in 1..last : data[i] % 128 \in Nat
  <2> TAKE i \in 1..last
  <2>1. i \in 1..Len(data)  BY ByteAt
  <2>2. data[i] \in Int /\ 0 <= data[i]  BY <2>1, ByteAt
  <2> QED BY <2>2
<1>1. T \in [[S -> Nat] -> [S -> Nat]]
  <2>1. ASSUME NEW f \in [S -> Nat], NEW i \in S PROVE T[f][i] \in Nat
    <3>1. CASE i > last  BY <3>1
    <3>2. CASE i <= last
      <4>1. i + 1 \in S /\ i \in 1..last  BY <3>2
      <4>2. f[i + 1] \in Nat /\ data[i] % 128 \in Nat  BY <1>0, <4>1
      <4>3. T[f][i] = (data[i] % 128) + 128 * f[i + 1]  BY <3>2
      <4>4. (data[i] % 128) + 128 * f[i + 1] \in Nat  BY <4>2
      <4> QED BY <4>3, <4>4
    <3> QED BY <3>1, <3>2
  <2> QED BY <2>1
<1>2. ASSUME NEW f \in [S -> Nat], NEW g \in [S -> Nat], NEW i \in S,
             \A r \in S : size[r] < size[i] => f[r] = g[r]
      PROVE  T[f][i] = T[g][i]
  <2>1. CASE i > last  BY <2>1
  <2>2. CASE i <= last
    <3>1. i + 1 \in S /\ size[i + 1] < size[i]  BY <2>2
    <3>2. f[i + 1] = g[i + 1]  BY <1>2, <3>1
    <3>3. /\ T[f][i] = (data[i] % 128) + 128 * f[i + 1]
          /\ T[g][i] = (data[i] % 128) + 128 * g[i + 1]
      BY <2>2
    <3> QED BY <3>2, <3>3
  <2> QED BY <2>1, <2>2
<1>3. Recursive(S, Nat, size, T)
  <2>1. Nat # {} /\ size \in [S -> Nat]  OBVIOUS
  <2> HIDE DEF S, T, size
  <2> QED BY <1>1, <1>2, <2>1 DEF Recursive
<1>4. PICK f \in [S -> Nat] : f = T[f]
  <2> HIDE DEF S, T, size
  <2> QED BY <1>3, Recursion DEF Solvable
<1> DEFINE value == CHOOSE g : g = [i \in S |->
                   IF i > last THEN 0 ELSE (data[i] % 128) + 128 * g[i + 1]]
<1>5. value = [i \in S |-> IF i > last THEN 0 ELSE (data[i] % 128) + 128 * value[i + 1]]
  BY <1>4
<1>6. Groups(data, last) = value[1]  BY DEF Groups
<1> HIDE DEF value
<1>a. last + 1 \in S /\ last + 1 > last /\ \A i \in 1..last : i \in S /\ ~(i > last)
  OBVIOUS
<1>7. GroupsOf(data, last, value)
  <2>1. value[last + 1] = 0  BY <1>5, <1>a
  <2>2. ASSUME NEW i \in 1..last PROVE value[i] = (data[i] % 128) + 128 * value[i + 1]
    BY <1>5, <1>a
  <2> QED BY <2>1, <2>2 DEF GroupsOf
<1>8. GroupsOf(data, last, f)
  <2>0. f = [i \in S |-> IF i > last THEN 0 ELSE (data[i] % 128) + 128 * f[i + 1]]
    BY <1>4
  <2>1. f[last + 1] = 0  BY <2>0, <1>a
  <2>2. ASSUME NEW i \in 1..last PROVE f[i] = (data[i] % 128) + 128 * f[i + 1]
    BY <2>0, <1>a
  <2> QED BY <2>1, <2>2 DEF GroupsOf
<1>9. value[1] = f[1]
  <2>1. 1 \in 1..(last + 1)  OBVIOUS
  <2>2. \A i \in 1..(last + 1) : value[i] = f[i]  BY <1>7, <1>8, GroupsUnique
  <2> QED BY <2>1, <2>2
<1> QED BY <1>4, <1>6, <1>8, <1>9

\* A varint stands at the start of the data, and last is its last byte.
EndsAt(data, last) ==
  /\ last \in 1..Len(data) /\ last <= 10 /\ data[last] < 128
  /\ \A i \in 1..(last - 1) : data[i] >= 128

\* _read_varint: it returns the value of the groups up to the first byte below
\* 128, if that is one of the first ten, and raises otherwise.
LEMMA ReadVarintIs ==
  ASSUME NEW data \in Bytes
  PROVE  /\ \A last : EndsAt(data, last) =>
               /\ ReadVarint(data) = <<Groups(data, last), last>>
               /\ ReadVarint(data) # Malformed
               /\ Groups(data, last) \in Nat
         /\ ReadVarint(data) = Malformed \/ \E last : EndsAt(data, last)
<1>0. Len(data) \in Nat /\ \A i \in 1..Len(data) : data[i] \in Int  BY ByteAt
<1> DEFINE ends == {i \in 1..Len(data) : i <= 10 /\ data[i] < 128}
           first == CHOOSE i \in ends : \A j \in ends : i <= j
<1>1. ReadVarint(data) = IF ends = {} THEN Malformed ELSE <<Groups(data, first), first>>
  BY DEF ReadVarint
<1>b. first = CHOOSE i \in ends : \A j \in ends : i <= j  OBVIOUS
<1> HIDE DEF first
<1>2. ASSUME NEW last, EndsAt(data, last)
      PROVE  /\ ReadVarint(data) = <<Groups(data, last), last>>
             /\ ReadVarint(data) # Malformed
             /\ Groups(data, last) \in Nat
  <2>1. last \in ends  BY <1>2 DEF EndsAt
  <2>2. ASSUME NEW j \in ends PROVE last <= j
    <3>1. SUFFICES ASSUME j < last PROVE FALSE  BY <2>1
    <3>2. j \in 1..(last - 1)  BY <3>1, <2>1, <1>0
    <3>3. j \in 1..Len(data) /\ data[j] < 128  OBVIOUS
    <3>4. data[j] >= 128  BY <1>2, <3>2 DEF EndsAt
    <3>5. data[j] \in Int  BY <1>0, <3>3
    <3> HIDE DEF ends
    <3> QED BY <3>3, <3>4, <3>5
  <2>3. first = last
    <3>0. \A j \in ends : j \in Int  BY <1>0
    <3> HIDE DEF ends
    <3>1. first \in ends /\ \A j \in ends : first <= j  BY <1>b, <2>1, <2>2
    <3>2. first <= last /\ last <= first  BY <2>1, <2>2, <3>1
    <3> QED BY <2>1, <3>0, <3>1, <3>2
  <2>4. Groups(data, last) \in Nat
    <3>1. last \in Nat /\ 1 <= last /\ last <= Len(data)  BY <1>0, <1>2 DEF EndsAt
    <3>2. PICK f \in [1..(last + 1) -> Nat] : Groups(data, last) = f[1]  BY <3>1, GroupsAre
    <3> QED BY <3>1, <3>2
  <2>5. ReadVarint(data) = <<Groups(data, last), last>>  BY <1>1, <2>1, <2>3
  <2>6. last # -1  BY <2>1, <1>0
  <2> QED BY <2>4, <2>5, <2>6 DEF Malformed
<1>3. CASE ends = {}  BY <1>1, <1>2, <1>3
<1>4. CASE ends # {}
  <2>1. PICK i \in ends : \A j \in ends : i <= j
    <3>1. ends \in SUBSET Nat  BY <1>0
    <3> HIDE DEF ends
    <3> QED BY <1>4, <3>1, LeastExists
  <2>2. \A k \in 1..(i - 1) : data[k] >= 128
    <3> TAKE k \in 1..(i - 1)
    <3>1. k \in 1..Len(data) /\ k <= 10 /\ ~(i <= k)  BY <1>0, <2>1
    <3>2. data[k] \in Int /\ k \notin ends  BY <1>0, <2>1, <3>1
    <3>3. ~(data[k] < 128)  BY <3>1, <3>2
    <3> HIDE DEF ends
    <3> QED BY <3>2, <3>3
  <2>3. EndsAt(data, i)  BY <2>1, <2>2 DEF EndsAt
  <2> QED BY <1>2, <2>3
<1> QED BY <1>3, <1>4

-----------------------------------------------------------------------------
(* Texts *)

\* A text is a sequence of bytes.
LEMMA ByteSeq == \A a : a \in Bytes <=> a \in Seq(Byte)
BY DEF Bytes

\* Two texts joined.
LEMMA Joining ==
  \A a, b \in Bytes :
     /\ a \o b \in Bytes /\ Len(a \o b) = Len(a) + Len(b)
     /\ \A i \in 1..Len(a) : (a \o b)[i] = a[i]
     /\ \A i \in 1..Len(b) : (a \o b)[Len(a) + i] = b[i]
<1> SUFFICES ASSUME NEW a \in Bytes, NEW b \in Bytes
             PROVE  /\ a \o b \in Bytes /\ Len(a \o b) = Len(a) + Len(b)
                    /\ \A i \in 1..Len(a) : (a \o b)[i] = a[i]
                    /\ \A i \in 1..Len(b) : (a \o b)[Len(a) + i] = b[i]
  OBVIOUS
<1>1. a \in Seq(Byte) /\ b \in Seq(Byte) /\ Len(a) \in Nat /\ Len(b) \in Nat
  BY ByteAt
<1>2. /\ a \o b \in Seq(Byte)
      /\ Len(a \o b) = Len(a) + Len(b)
      /\ \A i \in 1 .. Len(a) + Len(b) : (a \o b)[i] = IF i <= Len(a) THEN a[i] ELSE b[i - Len(a)]
  BY <1>1, ConcatProperties
<1>3. ASSUME NEW i \in 1..Len(a) PROVE (a \o b)[i] = a[i]
  <2>1. i \in 1..(Len(a) + Len(b)) /\ i <= Len(a)  BY <1>1
  <2> QED BY <1>2, <2>1, Zenon
<1>4. ASSUME NEW i \in 1..Len(b) PROVE (a \o b)[Len(a) + i] = b[i]
  <2>1. Len(a) + i \in 1..(Len(a) + Len(b)) /\ ~(Len(a) + i <= Len(a)) /\ (Len(a) + i) - Len(a) = i
    BY <1>1
  <2> QED BY <1>2, <2>1, Zenon
<1> QED BY <1>2, <1>3, <1>4, ByteSeq

\* A piece cut out of a text.
LEMMA Cutting ==
  \A a \in Bytes : \A m, n \in Nat : 1 <= m /\ m <= n + 1 /\ n <= Len(a) =>
     /\ SubSeq(a, m, n) \in Bytes /\ Len(SubSeq(a, m, n)) = n + 1 - m
     /\ \A i \in 1..(n + 1 - m) : SubSeq(a, m, n)[i] = a[m + i - 1]
<1> SUFFICES ASSUME NEW a \in Bytes, NEW m \in Nat, NEW n \in Nat,
                    1 <= m, m <= n + 1, n <= Len(a)
             PROVE  /\ SubSeq(a, m, n) \in Bytes /\ Len(SubSeq(a, m, n)) = n + 1 - m
                    /\ \A i \in 1..(n + 1 - m) : SubSeq(a, m, n)[i] = a[m + i - 1]
  OBVIOUS
<1>1. a \in Seq(Byte) /\ Len(a) \in Nat  BY ByteAt
<1>2. \A i \in m..n : a[i] \in Byte
  <2> TAKE i \in m..n
  <2>1. i \in 1..Len(a)  BY <1>1
  <2> QED BY <1>1, <2>1, ElementOfSeq
<1>3. m \in Int /\ n \in Int  OBVIOUS
<1>4. /\ SubSeq(a,m,n) \in Seq(Byte)
      /\ Len(SubSeq(a,m,n)) = IF m<=n THEN n-m+1 ELSE 0
      /\ \A i \in 1 .. n-m+1 : SubSeq(a,m,n)[i] = a[m+i-1]
  BY <1>2, <1>3, SubSeqProperties
<1>5. n - m + 1 = n + 1 - m /\ Len(SubSeq(a, m, n)) = n + 1 - m  BY <1>4
<1>6. 1..(n - m + 1) = 1..(n + 1 - m)  BY <1>5
<1> QED BY <1>4, <1>5, <1>6, ByteSeq

\* Texts of the same length with the same bytes are the same.
LEMMA SameBytes ==
  \A a, b \in Bytes : Len(a) = Len(b) /\ (\A i \in 1..Len(a) : a[i] = b[i]) => a = b
<1> TAKE a \in Bytes, b \in Bytes
<1> HAVE Len(a) = Len(b) /\ (\A i \in 1..Len(a) : a[i] = b[i])
<1> QED BY ByteAt, SeqEqual

\* What is left of a text after its first bytes.
LEMMA Taking ==
  \A a \in Bytes : \A n \in Nat : n <= Len(a) =>
     /\ After(a, n) \in Bytes /\ Len(After(a, n)) = Len(a) - n
     /\ \A i \in 1..(Len(a) - n) : After(a, n)[i] = a[n + i]
<1> TAKE a \in Bytes
<1> TAKE n \in Nat
<1> HAVE n <= Len(a)
<1>1. Len(a) \in Nat  BY ByteAt
<1>2. n + 1 \in Nat /\ 1 <= n + 1 /\ n + 1 <= Len(a) + 1 /\ Len(a) <= Len(a)  BY <1>1
<1>3. /\ SubSeq(a, n + 1, Len(a)) \in Bytes
      /\ Len(SubSeq(a, n + 1, Len(a))) = Len(a) + 1 - (n + 1)
      /\ \A i \in 1..(Len(a) + 1 - (n + 1)) : SubSeq(a, n + 1, Len(a))[i] = a[n + 1 + i - 1]
  BY <1>1, <1>2, Cutting
<1>4. Len(a) + 1 - (n + 1) = Len(a) - n  BY <1>1
<1>5. ASSUME NEW i \in 1..(Len(a) - n) PROVE SubSeq(a, n + 1, Len(a))[i] = a[n + i]
  <2>1. n + 1 + i - 1 = n + i  OBVIOUS
  <2> QED BY <1>3, <1>4, <2>1
<1> QED BY <1>3, <1>4, <1>5 DEF After

\* What follows the first bytes of a text, when more is added to it.
LEMMA AfterJoin ==
  \A a, b \in Bytes : \A n \in Nat : n <= Len(a) => After(a \o b, n) = After(a, n) \o b
<1> SUFFICES ASSUME NEW a \in Bytes, NEW b \in Bytes, NEW n \in Nat, n <= Len(a)
             PROVE  After(a \o b, n) = After(a, n) \o b
  OBVIOUS
<1>1. Len(a) \in Nat /\ Len(b) \in Nat  BY ByteAt
<1>2. /\ a \o b \in Bytes /\ Len(a \o b) = Len(a) + Len(b)
      /\ \A i \in 1..Len(a) : (a \o b)[i] = a[i]
      /\ \A i \in 1..Len(b) : (a \o b)[Len(a) + i] = b[i]
  BY Joining
<1>3. /\ After(a, n) \in Bytes /\ Len(After(a, n)) = Len(a) - n
      /\ \A i \in 1..(Len(a) - n) : After(a, n)[i] = a[n + i]
  BY Taking
<1>4. n <= Len(a \o b)  BY <1>1, <1>2
<1>5. /\ After(a \o b, n) \in Bytes /\ Len(After(a \o b, n)) = Len(a \o b) - n
      /\ \A i \in 1..(Len(a \o b) - n) : After(a \o b, n)[i] = (a \o b)[n + i]
  BY <1>2, <1>4, Taking
<1>6. /\ After(a, n) \o b \in Bytes /\ Len(After(a, n) \o b) = Len(After(a, n)) + Len(b)
      /\ \A i \in 1..Len(After(a, n)) : (After(a, n) \o b)[i] = After(a, n)[i]
      /\ \A i \in 1..Len(b) : (After(a, n) \o b)[Len(After(a, n)) + i] = b[i]
  BY <1>3, Joining
<1>7. Len(After(a \o b, n)) = Len(After(a, n) \o b) /\ Len(After(a \o b, n)) = Len(a) + Len(b) - n
  BY <1>1, <1>2, <1>3, <1>5, <1>6
<1>8. ASSUME NEW i \in 1..(Len(a) + Len(b) - n)
      PROVE  After(a \o b, n)[i] = (After(a, n) \o b)[i]
  <2>1. i \in 1..(Len(a \o b) - n)  BY <1>2
  <2>2. After(a \o b, n)[i] = (a \o b)[n + i]  BY <1>5, <2>1
  <2>3. CASE i <= Len(a) - n
    <3>1. i \in 1..(Len(a) - n) /\ n + i \in 1..Len(a) /\ i \in 1..Len(After(a, n))
      BY <1>1, <1>3, <2>3
    <3> QED BY <1>2, <1>3, <1>6, <2>2, <3>1
  <2>4. CASE i > Len(a) - n
    <3> DEFINE k == i - (Len(a) - n)
    <3>1. k \in 1..Len(b) /\ n + i = Len(a) + k /\ i = Len(After(a, n)) + k
      BY <1>1, <1>3, <2>4
    <3> HIDE DEF k
    <3>2. (a \o b)[Len(a) + k] = b[k]  BY <1>2, <3>1
    <3>3. (After(a, n) \o b)[Len(After(a, n)) + k] = b[k]  BY <1>6, <3>1
    <3> QED BY <2>2, <3>1, <3>2, <3>3
  <2>5. i <= Len(a) - n \/ i > Len(a) - n  BY <1>1
  <2> QED BY <2>3, <2>4, <2>5
<1> QED BY <1>5, <1>6, <1>7, <1>8, SameBytes

\* A text is its first bytes and what follows them.
LEMMA CutAndJoin ==
  \A a \in Bytes : \A n \in Nat : n <= Len(a) => a = SubSeq(a, 1, n) \o After(a, n)
<1> SUFFICES ASSUME NEW a \in Bytes, NEW n \in Nat, n <= Len(a)
             PROVE  a = SubSeq(a, 1, n) \o After(a, n)
  OBVIOUS
<1>1. a \in Seq(Byte) /\ Len(a) \in Nat  BY ByteAt
<1> DEFINE p == SubSeq(a, 1, n)  q == After(a, n)
<1>2. /\ p \in Bytes /\ Len(p) = n /\ \A i \in 1..n : p[i] = a[i]
  <2>1. /\ p \in Bytes /\ Len(p) = n + 1 - 1
        /\ \A i \in 1..(n + 1 - 1) : p[i] = a[1 + i - 1]
    <3>1. 1 \in Nat /\ 1 <= 1 /\ 1 <= n + 1  OBVIOUS
    <3> QED BY <3>1, Cutting
  <2>2. n + 1 - 1 = n /\ \A i \in 1..n : 1 + i - 1 = i  OBVIOUS
  <2> HIDE DEF p
  <2> QED BY <2>1, <2>2
<1>3. q \in Bytes /\ Len(q) = Len(a) - n /\ \A i \in 1..(Len(a) - n) : q[i] = a[n + i]
  BY Taking
<1> HIDE DEF p, q
<1>4. /\ p \o q \in Bytes /\ Len(p \o q) = Len(p) + Len(q)
      /\ \A i \in 1..Len(p) : (p \o q)[i] = p[i]
      /\ \A i \in 1..Len(q) : (p \o q)[Len(p) + i] = q[i]
  BY <1>2, <1>3, Joining
<1>5. Len(p \o q) = Len(a)  BY <1>1, <1>2, <1>3, <1>4
<1>6. ASSUME NEW i \in 1..Len(a) PROVE a[i] = (p \o q)[i]
  <2>1. CASE i <= n
    <3>1. i \in 1..n  BY <2>1
    <3> QED BY <1>2, <1>4, <3>1
  <2>2. CASE i > n
    <3> DEFINE k == i - n
    <3>1. k \in 1..(Len(a) - n) /\ n + k = i  BY <1>1, <2>2
    <3> HIDE DEF k
    <3> QED BY <1>2, <1>3, <1>4, <3>1
  <2>3. i <= n \/ i > n  OBVIOUS
  <2> QED BY <2>1, <2>2, <2>3
<1>7. a = p \o q  BY <1>4, <1>5, <1>6, SameBytes
<1> QED BY <1>7 DEF p, q

\* Nothing is left after a whole text, all of it after none.
LEMMA AfterAll == \A a \in Bytes : After(a, Len(a)) = <<>> /\ After(a, 0) = a
<1> TAKE a \in Bytes
<1>1. a \in Seq(Byte) /\ Len(a) \in Nat  BY ByteAt
<1>2. SubSeq(a, Len(a) + 1, Len(a)) = <<>>
  <2>1. Len(a) + 1 \in Int /\ Len(a) \in Int /\ Len(a) < Len(a) + 1  BY <1>1
  <2> QED BY <2>1, SubSeqEmpty
<1>3. SubSeq(a, 1, Len(a)) = a  BY <1>1, SubSeqFull
<1>4. 0 + 1 = 1  OBVIOUS
<1> QED BY <1>2, <1>3, <1>4 DEF After

\* The empty text is the one without bytes.
LEMMA NoBytes == <<>> \in Bytes /\ Len(<<>>) = 0 /\ \A a \in Bytes : Len(a) = 0 <=> a = <<>>
<1>1. <<>> \in Seq(Byte) /\ Len(<<>>) = 0  BY EmptySeq
<1>2. ASSUME NEW a \in Bytes PROVE Len(a) = 0 <=> a = <<>>
  <2>1. a \in Seq(Byte)  BY ByteAt
  <2>2. a # <<>> => Len(a) \in Nat \ {0}  BY <2>1, EmptySeq
  <2> QED BY <1>1, <2>2
<1> QED BY <1>1, <1>2, ByteSeq

\* Cutting a piece out of a text that is then continued.
LEMMA CutOfJoin ==
  \A a, b \in Bytes : \A m, n \in Nat : 1 <= m /\ m <= n + 1 /\ n <= Len(a) =>
     SubSeq(a \o b, m, n) = SubSeq(a, m, n)
<1> SUFFICES ASSUME NEW a \in Bytes, NEW b \in Bytes, NEW m \in Nat, NEW n \in Nat,
                    1 <= m, m <= n + 1, n <= Len(a)
             PROVE  SubSeq(a \o b, m, n) = SubSeq(a, m, n)
  OBVIOUS
<1>1. Len(a) \in Nat /\ Len(b) \in Nat  BY ByteAt
<1>2. a \o b \in Bytes /\ Len(a \o b) = Len(a) + Len(b) /\ \A i \in 1..Len(a) : (a \o b)[i] = a[i]
  BY Joining
<1>3. n <= Len(a \o b)  BY <1>1, <1>2
<1>4. /\ SubSeq(a, m, n) \in Bytes /\ Len(SubSeq(a, m, n)) = n + 1 - m
      /\ \A i \in 1..(n + 1 - m) : SubSeq(a, m, n)[i] = a[m + i - 1]
  BY Cutting
<1>5. /\ SubSeq(a \o b, m, n) \in Bytes /\ Len(SubSeq(a \o b, m, n)) = n + 1 - m
      /\ \A i \in 1..(n + 1 - m) : SubSeq(a \o b, m, n)[i] = (a \o b)[m + i - 1]
  BY <1>2, <1>3, Cutting
<1>6. ASSUME NEW i \in 1..(n + 1 - m) PROVE SubSeq(a \o b, m, n)[i] = SubSeq(a, m, n)[i]
  <2>1. m + i - 1 \in 1..Len(a)  BY <1>1
  <2> QED BY <1>2, <1>4, <1>5, <2>1
<1> QED BY <1>4, <1>5, <1>6, SameBytes

\* Joining texts is associative.
LEMMA JoinThree == \A a, b, c \in Bytes : (a \o b) \o c = a \o (b \o c)
<1> TAKE a, b, c \in Bytes
<1>1. a \in Seq(Byte) /\ b \in Seq(Byte) /\ c \in Seq(Byte)  BY ByteAt
<1> QED BY <1>1, ConcatAssociative

\* Joining the empty text changes nothing.
LEMMA JoinNone == \A a \in Bytes : <<>> \o a = a /\ a \o <<>> = a
<1> TAKE a \in Bytes
<1>1. a \in Seq(Byte)  BY ByteAt
<1> QED BY <1>1, ConcatEmptySeq

\* What follows the first of two texts, and the first of them.
LEMMA CutAtJoin ==
  \A a, b \in Bytes : After(a \o b, Len(a)) = b /\ SubSeq(a \o b, 1, Len(a)) = a
<1> TAKE a, b \in Bytes
<1>1. Len(a) \in Nat /\ Len(a) <= Len(a) /\ 1 \in Nat /\ 1 <= 1 /\ 1 <= Len(a) + 1  BY ByteAt
<1>2. After(a \o b, Len(a)) = After(a, Len(a)) \o b  BY <1>1, AfterJoin
<1>3. SubSeq(a \o b, 1, Len(a)) = SubSeq(a, 1, Len(a))  BY <1>1, CutOfJoin
<1>4. a \in Seq(Byte)  BY ByteAt
<1>5. SubSeq(a, 1, Len(a)) = a  BY <1>4, SubSeqFull
<1> QED BY <1>2, <1>3, <1>5, AfterAll, JoinNone

\* What follows n bytes of what follows m bytes.
LEMMA AfterAfter ==
  \A a \in Bytes : \A m, n \in Nat : m + n <= Len(a) => After(After(a, m), n) = After(a, m + n)
<1> SUFFICES ASSUME NEW a \in Bytes, NEW m \in Nat, NEW n \in Nat, m + n <= Len(a)
             PROVE  After(After(a, m), n) = After(a, m + n)
  OBVIOUS
<1>1. Len(a) \in Nat /\ m <= Len(a) /\ m + n \in Nat  BY ByteAt
<1>2. /\ After(a, m) \in Bytes /\ Len(After(a, m)) = Len(a) - m
      /\ \A i \in 1..(Len(a) - m) : After(a, m)[i] = a[m + i]
  BY <1>1, Taking
<1>3. n <= Len(After(a, m)) /\ Len(After(a, m)) - n = Len(a) - (m + n)  BY <1>1, <1>2
<1>4. /\ After(After(a, m), n) \in Bytes /\ Len(After(After(a, m), n)) = Len(After(a, m)) - n
      /\ \A i \in 1..(Len(After(a, m)) - n) : After(After(a, m), n)[i] = After(a, m)[n + i]
  BY <1>2, <1>3, Taking
<1>5. /\ After(a, m + n) \in Bytes /\ Len(After(a, m + n)) = Len(a) - (m + n)
      /\ \A i \in 1..(Len(a) - (m + n)) : After(a, m + n)[i] = a[(m + n) + i]
  BY <1>1, Taking
<1>6. ASSUME NEW i \in 1..(Len(a) - (m + n)) PROVE After(After(a, m), n)[i] = After(a, m + n)[i]
  <2>1. n + i \in 1..(Len(a) - m) /\ m + (n + i) = (m + n) + i  BY <1>1
  <2>2. After(After(a, m), n)[i] = After(a, m)[n + i]  BY <1>3, <1>4
  <2>3. After(a, m)[n + i] = a[m + (n + i)]  BY <1>2, <2>1
  <2> QED BY <1>5, <2>1, <2>2, <2>3
<1> QED BY <1>3, <1>4, <1>5, <1>6, SameBytes

\* A byte, and a text of that byte alone.
LEMMA OneByte == \A b \in Byte : <<b>> \in Bytes /\ Len(<<b>>) = 1 /\ <<b>>[1] = b
BY DEF Bytes

\* A varint at the start of a text is read there whatever follows it.
LEMMA EndsStay ==
  ASSUME NEW a \in Bytes, NEW b \in Bytes, NEW last, EndsAt(a, last)
  PROVE  EndsAt(a \o b, last) /\ Groups(a \o b, last) = Groups(a, last)
<1>1. Len(a) \in Nat /\ Len(b) \in Nat  BY ByteAt
<1>2. a \o b \in Bytes /\ Len(a \o b) = Len(a) + Len(b) /\ \A i \in 1..Len(a) : (a \o b)[i] = a[i]
  BY Joining
<1>3. last \in 1..Len(a) /\ last \in 1..Len(a \o b) /\ \A i \in 1..last : i \in 1..Len(a)
  BY <1>1, <1>2 DEF EndsAt
<1>4. EndsAt(a \o b, last)
  <2>1. last <= 10 /\ a[last] < 128 /\ \A i \in 1..(last - 1) : a[i] >= 128  BY DEF EndsAt
  <2>2. (a \o b)[last] = a[last]  BY <1>2, <1>3
  <2>3. ASSUME NEW i \in 1..(last - 1) PROVE (a \o b)[i] >= 128
    <3>1. i \in 1..Len(a)  BY <1>3
    <3> QED BY <1>2, <2>1, <3>1
  <2> QED BY <1>3, <2>1, <2>2, <2>3 DEF EndsAt
<1>5. last \in Nat /\ 1 <= last /\ last <= Len(a) /\ last <= Len(a \o b)  BY <1>1, <1>3, <1>2
<1>6. PICK f \in [1..(last + 1) -> Nat] : GroupsOf(a, last, f) /\ Groups(a, last) = f[1]
  BY <1>5, GroupsAre
<1>7. PICK g \in [1..(last + 1) -> Nat] : GroupsOf(a \o b, last, g) /\ Groups(a \o b, last) = g[1]
  BY <1>2, <1>5, GroupsAre
<1>8. GroupsOf(a, last, g)
  <2>1. ASSUME NEW i \in 1..last PROVE g[i] = (a[i] % 128) + 128 * g[i + 1]
    <3>1. (a \o b)[i] = a[i]  BY <1>2, <1>3
    <3>2. g[i] = ((a \o b)[i] % 128) + 128 * g[i + 1]  BY <1>7 DEF GroupsOf
    <3> QED BY <3>1, <3>2
  <2> QED BY <1>7, <2>1 DEF GroupsOf
<1>9. \A i \in 1..(last + 1) : f[i] = g[i]  BY <1>5, <1>6, <1>8, GroupsUnique
<1>10. 1 \in 1..(last + 1)  BY <1>5
<1> QED BY <1>4, <1>6, <1>7, <1>9, <1>10

-----------------------------------------------------------------------------
(* What is encoded as a varint is read back *)

\* _read_varint reads the same at the start of a longer text.
LEMMA VarintExtends ==
  \A a, b \in Bytes : ReadVarint(a) # Malformed => ReadVarint(a \o b) = ReadVarint(a)
<1> SUFFICES ASSUME NEW a \in Bytes, NEW b \in Bytes, ReadVarint(a) # Malformed
             PROVE  ReadVarint(a \o b) = ReadVarint(a)
  OBVIOUS
<1>1. PICK last : EndsAt(a, last)  BY ReadVarintIs
<1>2. EndsAt(a \o b, last) /\ Groups(a \o b, last) = Groups(a, last)  BY <1>1, EndsStay
<1>3. a \o b \in Bytes  BY Joining
<1>4. ReadVarint(a) = <<Groups(a, last), last>>  BY <1>1, ReadVarintIs
<1>5. ReadVarint(a \o b) = <<Groups(a \o b, last), last>>  BY <1>2, <1>3, ReadVarintIs
<1> QED BY <1>2, <1>4, <1>5

\* What a varint that can be read is.
LEMMA VarintResult ==
  \A a \in Bytes : ReadVarint(a) # Malformed =>
     /\ ReadVarint(a) = <<ReadVarint(a)[1], ReadVarint(a)[2]>>
     /\ ReadVarint(a)[1] \in Nat
     /\ ReadVarint(a)[2] \in Nat /\ 1 <= ReadVarint(a)[2] /\ ReadVarint(a)[2] <= Len(a)
<1> SUFFICES ASSUME NEW a \in Bytes, ReadVarint(a) # Malformed
             PROVE  /\ ReadVarint(a) = <<ReadVarint(a)[1], ReadVarint(a)[2]>>
                    /\ ReadVarint(a)[1] \in Nat
                    /\ ReadVarint(a)[2] \in Nat /\ 1 <= ReadVarint(a)[2] /\ ReadVarint(a)[2] <= Len(a)
  OBVIOUS
<1>1. PICK last : EndsAt(a, last)  BY ReadVarintIs
<1>2. ReadVarint(a) = <<Groups(a, last), last>> /\ Groups(a, last) \in Nat  BY <1>1, ReadVarintIs
<1>3. last \in Nat /\ 1 <= last /\ last <= Len(a)  BY <1>1, ByteAt DEF EndsAt
<1> QED BY <1>2, <1>3

\* One more group of seven bits before a varint.
LEMMA VarintGrows ==
  ASSUME NEW a \in Bytes, NEW last, EndsAt(a, last), last < 10, NEW c \in 0..127
  PROVE  /\ EndsAt(<<128 + c>> \o a, last + 1)
         /\ Groups(<<128 + c>> \o a, last + 1) = c + 128 * Groups(a, last)
<1> DEFINE h == <<128 + c>>
           d == h \o a
<1>1. 128 + c \in Byte  BY ByteIs
<1>2. h \in Bytes /\ Len(h) = 1 /\ h[1] = 128 + c  BY <1>1, OneByte
<1>3. Len(a) \in Nat  BY ByteAt
<1> HIDE DEF h
<1>4. /\ d \in Bytes /\ Len(d) = 1 + Len(a) /\ \A i \in 1..1 : d[i] = h[i]
      /\ \A i \in 1..Len(a) : d[1 + i] = a[i]
  <2>1. /\ h \o a \in Bytes /\ Len(h \o a) = Len(h) + Len(a)
        /\ \A i \in 1..Len(h) : (h \o a)[i] = h[i]
        /\ \A i \in 1..Len(a) : (h \o a)[Len(h) + i] = a[i]
    BY <1>2, Joining
  <2> QED BY <1>2, <2>1
<1>5. d[1] = 128 + c
  <2>1. 1 \in 1..1  OBVIOUS
  <2> QED BY <1>2, <1>4, <2>1
<1> HIDE DEF d
<1>6. last \in Nat /\ 1 <= last /\ last <= Len(a) /\ last <= 10 /\ a[last] < 128
      /\ (\A i \in 1..(last - 1) : a[i] >= 128) /\ last \in 1..Len(a)
  BY <1>3 DEF EndsAt
<1>7. EndsAt(d, last + 1)
  <2>1. last + 1 \in 1..Len(d) /\ last + 1 <= 10 /\ d[1 + last] < 128 /\ last + 1 = 1 + last
    BY <1>3, <1>4, <1>6
  <2>2. ASSUME NEW i \in 1..last PROVE d[i] >= 128
    <3>1. CASE i = 1  BY <1>5, <3>1
    <3>2. CASE i # 1
      <4>1. PICK k \in 1..(last - 1) : i = 1 + k
        <5>1. i - 1 \in 1..(last - 1) /\ i = 1 + (i - 1)  BY <3>2, <1>6
        <5> QED BY <5>1
      <4>2. k \in 1..Len(a)  BY <1>3, <1>6
      <4> QED BY <1>4, <1>6, <4>1, <4>2
    <3> QED BY <3>1, <3>2
  <2>3. 1..((last + 1) - 1) = 1..last  BY <1>6
  <2> QED BY <2>1, <2>2, <2>3 DEF EndsAt
<1>8. PICK f \in [1..(last + 1) -> Nat] : GroupsOf(a, last, f) /\ Groups(a, last) = f[1]
  BY <1>6, GroupsAre
<1>9. last + 1 \in Nat /\ 1 <= last + 1 /\ last + 1 <= Len(d) /\ last + 1 + 1 = last + 2
  BY <1>3, <1>4, <1>6
<1>10. PICK g \in [1..(last + 1 + 1) -> Nat] :
         GroupsOf(d, last + 1, g) /\ Groups(d, last + 1) = g[1]
  BY <1>4, <1>9, GroupsAre
<1>11. g[last + 1 + 1] = 0 /\ \A i \in 1..(last + 1) : g[i] = (d[i] % 128) + 128 * g[i + 1]
  BY <1>10 DEF GroupsOf
<1> DEFINE e == [i \in 1..(last + 1) |-> g[i + 1]]
<1>12. GroupsOf(a, last, e)
  <2>1. last + 1 \in 1..(last + 1)  BY <1>6
  <2>2. e[last + 1] = 0  BY <1>11, <2>1
  <2>3. ASSUME NEW i \in 1..last PROVE e[i] = (a[i] % 128) + 128 * e[i + 1]
    <3>1. i \in 1..(last + 1) /\ i + 1 \in 1..(last + 1) /\ i \in 1..Len(a) /\ i + 1 = 1 + i
      BY <1>3, <1>6
    <3>2. e[i] = g[i + 1] /\ e[i + 1] = g[i + 1 + 1]  BY <3>1
    <3>3. g[i + 1] = (d[i + 1] % 128) + 128 * g[i + 1 + 1]  BY <1>11, <3>1
    <3>4. d[i + 1] = a[i]  BY <1>4, <3>1
    <3> HIDE DEF e
    <3> QED BY <3>2, <3>3, <3>4
  <2> HIDE DEF e
  <2> QED BY <2>2, <2>3 DEF GroupsOf
<1>13. f[1] = e[1]
  <2>1. 1 \in 1..(last + 1)  BY <1>6
  <2> HIDE DEF e
  <2>2. \A i \in 1..(last + 1) : f[i] = e[i]  BY <1>6, <1>8, <1>12, GroupsUnique
  <2> QED BY <2>1, <2>2
<1>14. e[1] = g[1 + 1] /\ g[1] = (d[1] % 128) + 128 * g[1 + 1]
  <2>1. 1 \in 1..(last + 1)  BY <1>6
  <2> QED BY <1>11, <2>1
<1>15. d[1] % 128 = c  BY <1>5
<1>16. Groups(d, last + 1) = c + 128 * Groups(a, last)  BY <1>8, <1>10, <1>13, <1>14, <1>15
<1> QED BY <1>7, <1>16 DEF d, h

\* The numbers a varint of at most n bytes holds.
LEMMA VarintIs ==
  \A v \in Nat : Len(EncodeVarint[v]) <= 10 =>
     EndsAt(EncodeVarint[v], Len(EncodeVarint[v])) /\ Groups(EncodeVarint[v], Len(EncodeVarint[v])) = v
<1> DEFINE P == {v \in Nat : Len(EncodeVarint[v]) <= 10 =>
                    /\ EndsAt(EncodeVarint[v], Len(EncodeVarint[v]))
                    /\ Groups(EncodeVarint[v], Len(EncodeVarint[v])) = v}
           size == [v \in Nat |-> v]
<1>1. ASSUME NEW v \in Nat, \A r \in Nat : r < v => r \in P
      PROVE  v \in P
  <2>1. CASE v < 128
    <3>1. v \in Byte  BY <2>1, ByteIs
    <3>2. EncodeVarint[v] = <<v>>
      <4>1. EncodeVarint[v] =
              IF v < 128 THEN <<v>> ELSE <<128 + (v % 128)>> \o EncodeVarint[v \div 128]
        BY EncodeVarintIs, Zenon
      <4> QED BY <2>1, <4>1, Zenon
    <3> DEFINE d == <<v>>
    <3>3. d \in Bytes /\ Len(d) = 1 /\ d[1] = v  BY <3>1, OneByte
    <3> HIDE DEF d
    <3>4. EndsAt(d, 1)  BY <2>1, <3>3 DEF EndsAt
    <3>5. Groups(d, 1) = v
      <4>1. PICK f \in [1..(1 + 1) -> Nat] : GroupsOf(d, 1, f) /\ Groups(d, 1) = f[1]
        <5>1. 1 \in Nat /\ 1 <= 1 /\ 1 <= Len(d)  BY <3>3
        <5> QED BY <3>3, <5>1, GroupsAre
      <4>2. f[1 + 1] = 0 /\ f[1] = (d[1] % 128) + 128 * f[1 + 1]
        <5>1. 1 \in 1..1  OBVIOUS
        <5> QED BY <4>1, <5>1 DEF GroupsOf
      <4>3. f[1] = v % 128  BY <3>3, <4>2
      <4> QED BY <2>1, <4>1, <4>3
    <3> QED BY <3>2, <3>3, <3>4, <3>5 DEF d
  <2>2. CASE v >= 128
    <3> DEFINE q == v \div 128
               e == EncodeVarint[q]
    <3>1. q \in Nat /\ q < v /\ v % 128 \in 0..127 /\ v = (v % 128) + 128 * q  BY <2>2
    <3>2. EncodeVarint[v] = <<128 + (v % 128)>> \o e
      <4>1. EncodeVarint[v] =
              IF v < 128 THEN <<v>> ELSE <<128 + (v % 128)>> \o EncodeVarint[v \div 128]
        BY EncodeVarintIs, Zenon
      <4>2. ~(v < 128)  BY <2>2
      <4> QED BY <4>1, <4>2, Zenon
    <3>3. e \in Bytes /\ Len(e) \in Nat  BY <3>1, EncodeVarintIs, ByteAt
    <3>4. Len(EncodeVarint[v]) = 1 + Len(e)
      <4>1. 128 + (v % 128) \in Byte  BY <3>1, ByteIs
      <4>2. <<128 + (v % 128)>> \in Bytes /\ Len(<<128 + (v % 128)>>) = 1  BY <4>1, OneByte
      <4> QED BY <3>2, <3>3, <4>2, Joining
    <3>5. SUFFICES ASSUME Len(EncodeVarint[v]) <= 10
                   PROVE  /\ EndsAt(EncodeVarint[v], Len(EncodeVarint[v]))
                          /\ Groups(EncodeVarint[v], Len(EncodeVarint[v])) = v
      OBVIOUS
    <3>6. Len(e) < 10 /\ Len(e) <= 10 /\ 1 + Len(e) = Len(e) + 1  BY <3>3, <3>4, <3>5
    <3>7. EndsAt(e, Len(e)) /\ Groups(e, Len(e)) = q  BY <1>1, <3>1, <3>6
    <3> HIDE DEF q, e
    <3>8. /\ EndsAt(<<128 + (v % 128)>> \o e, Len(e) + 1)
          /\ Groups(<<128 + (v % 128)>> \o e, Len(e) + 1) = (v % 128) + 128 * Groups(e, Len(e))
      BY <3>1, <3>3, <3>6, <3>7, VarintGrows
    <3> QED BY <3>1, <3>2, <3>4, <3>6, <3>7, <3>8
  <2>3. v < 128 \/ v >= 128  OBVIOUS
  <2> QED BY <2>1, <2>2, <2>3
<1>2. Inductive(P, Nat, size)
  <2> SUFFICES ASSUME NEW s \in Nat, \A r \in Nat : size[r] < size[s] => r \in P PROVE s \in P
    BY DEF Inductive
  <2>1. \A r \in Nat : r < s => r \in P  OBVIOUS
  <2> HIDE DEF P
  <2> QED BY <1>1, <2>1
<1>3. Nat \subseteq P
  <2>1. size \in [Nat -> Nat]  OBVIOUS
  <2> HIDE DEF P, size
  <2> QED BY <1>2, <2>1, Induction
<1> QED BY <1>3

\* A varint of at most ten bytes is read back as the number it was made of.
THEOREM VarintRoundTrip ==
  \A v \in Nat : Len(EncodeVarint[v]) <= 10 =>
     ReadVarint(EncodeVarint[v]) = <<v, Len(EncodeVarint[v])>>
<1> SUFFICES ASSUME NEW v \in Nat, Len(EncodeVarint[v]) <= 10
             PROVE  ReadVarint(EncodeVarint[v]) = <<v, Len(EncodeVarint[v])>>
  OBVIOUS
<1>1. EncodeVarint[v] \in Bytes  BY EncodeVarintIs
<1>2. EndsAt(EncodeVarint[v], Len(EncodeVarint[v])) /\ Groups(EncodeVarint[v], Len(EncodeVarint[v])) = v
  BY VarintIs
<1> QED BY <1>1, <1>2, ReadVarintIs

\* How many bytes _encode_varint makes: one for each group of seven bits.
LEMMA VarintGrowth ==
  \A v \in Nat : /\ Len(EncodeVarint[v]) \in Nat
                 /\ v < 128 => EncodeVarint[v] = <<v>> /\ Len(EncodeVarint[v]) = 1
                 /\ v >= 128 => Len(EncodeVarint[v]) = 1 + Len(EncodeVarint[v \div 128])
<1> TAKE v \in Nat
<1>1. EncodeVarint[v] =
        IF v < 128 THEN <<v>> ELSE <<128 + (v % 128)>> \o EncodeVarint[v \div 128]
  BY EncodeVarintIs, Zenon
<1>2. Len(EncodeVarint[v]) \in Nat  BY EncodeVarintIs, ByteAt
<1>3. ASSUME v < 128 PROVE EncodeVarint[v] = <<v>> /\ Len(EncodeVarint[v]) = 1
  <2>1. EncodeVarint[v] = <<v>>  BY <1>1, <1>3, Zenon
  <2>2. v \in Byte  BY <1>3, ByteIs
  <2> QED BY <2>1, <2>2, OneByte
<1>4. ASSUME v >= 128 PROVE Len(EncodeVarint[v]) = 1 + Len(EncodeVarint[v \div 128])
  <2>1. ~(v < 128) /\ 128 + (v % 128) \in Byte /\ v \div 128 \in Nat  BY <1>4, ByteIs
  <2>2. EncodeVarint[v] = <<128 + (v % 128)>> \o EncodeVarint[v \div 128]  BY <1>1, <2>1, Zenon
  <2>3. EncodeVarint[v \div 128] \in Bytes  BY <2>1, EncodeVarintIs
  <2>4. <<128 + (v % 128)>> \in Bytes /\ Len(<<128 + (v % 128)>>) = 1  BY <2>1, OneByte
  <2> QED BY <2>2, <2>3, <2>4, Joining
<1> QED BY <1>2, <1>3, <1>4

\* Seven more bits are one more byte.
LEMMA VarintBound ==
  \A v, n \in Nat : 1 <= n /\ Len(EncodeVarint[v \div 128]) <= n => Len(EncodeVarint[v]) <= n + 1
<1> TAKE v, n \in Nat
<1> HAVE 1 <= n /\ Len(EncodeVarint[v \div 128]) <= n
<1>0. v \div 128 \in Nat  OBVIOUS
<1>1. Len(EncodeVarint[v \div 128]) \in Nat /\ Len(EncodeVarint[v]) \in Nat
  BY <1>0, VarintGrowth
<1>2. v < 128 => Len(EncodeVarint[v]) = 1  BY VarintGrowth
<1>3. v >= 128 => Len(EncodeVarint[v]) = 1 + Len(EncodeVarint[v \div 128])  BY VarintGrowth
<1>4. v < 128 \/ v >= 128  OBVIOUS
<1> DEFINE x == Len(EncodeVarint[v])  y == Len(EncodeVarint[v \div 128])
<1>5. x \in Nat /\ y \in Nat /\ (x = 1 \/ x = 1 + y) /\ y <= n  BY <1>1, <1>2, <1>3, <1>4, Zenon
<1> HIDE DEF x, y
<1>6. x <= n + 1  BY <1>5
<1> QED BY <1>6 DEF x

\* The numbers of messages take at most ten bytes.
LEMMA VarintSize ==
  \A v \in Word : Len(EncodeVarint[v]) <= 10
<1> TAKE v \in Word
<1>1. v \in Nat /\ v \div 65536 < 65536  BY DEF Word
<1> DEFINE a == v \div 128  b == a \div 128  c == b \div 128  d == c \div 128
<1>2. a \in Nat /\ b \in Nat /\ c \in Nat /\ d \in Nat  BY <1>1
<1>3. d < 128  BY <1>1
<1>4. Len(EncodeVarint[d]) <= 1
  <2>1. Len(EncodeVarint[d]) = 1  BY <1>2, <1>3, VarintGrowth
  <2> QED BY <2>1
<1>n. 1 <= 1 /\ 1 <= 2 /\ 1 <= 3 /\ 1 <= 4 /\ 1 + 1 = 2 /\ 2 + 1 = 3 /\ 3 + 1 = 4 /\ 4 + 1 = 5
  OBVIOUS
<1> HIDE DEF d
<1>5. Len(EncodeVarint[c]) <= 2
  <2> HIDE DEF c
  <2> QED BY <1>2, <1>4, <1>n, VarintBound DEF d
<1> HIDE DEF c
<1>6. Len(EncodeVarint[b]) <= 3
  <2> HIDE DEF b
  <2> QED BY <1>2, <1>5, <1>n, VarintBound DEF c
<1> HIDE DEF b
<1>7. Len(EncodeVarint[a]) <= 4
  <2> HIDE DEF a
  <2> QED BY <1>2, <1>6, <1>n, VarintBound DEF b
<1>8. Len(EncodeVarint[v]) <= 5  BY <1>1, <1>7, <1>n, VarintBound
<1>9. Len(EncodeVarint[v]) \in Nat  BY <1>1, VarintGrowth
<1> QED BY <1>8, <1>9

\* The numbers of messages are read back from their varints.
LEMMA WordRoundTrip ==
  \A v \in Word : /\ EncodeVarint[v] \in Bytes /\ Len(EncodeVarint[v]) \in Nat
                  /\ Len(EncodeVarint[v]) >= 1
                  /\ ReadVarint(EncodeVarint[v]) = <<v, Len(EncodeVarint[v])>>
<1> TAKE v \in Word
<1>1. v \in Nat  BY DEF Word
<1>2. EncodeVarint[v] \in Bytes /\ Len(EncodeVarint[v]) \in Nat  BY <1>1, EncodeVarintIs, ByteAt
<1>3. ReadVarint(EncodeVarint[v]) = <<v, Len(EncodeVarint[v])>>
  BY <1>1, VarintRoundTrip, VarintSize
<1>4. v < 128 \/ v >= 128  BY <1>1
<1>5. v \div 128 \in Nat  BY <1>1
<1>6. Len(EncodeVarint[v]) >= 1  BY <1>1, <1>4, <1>5, VarintGrowth
<1> QED BY <1>2, <1>3, <1>6

-----------------------------------------------------------------------------
(* What is encoded as a field is read back *)

\* The value of a field.
Value == Int \cup Bytes

\* What a field that can be read is: a number, a value and a size.
LEMMA FieldResult ==
  \A a \in Bytes : ReadField(a) # Malformed =>
     \E n \in Nat : \E v \in Value : \E s \in Nat :
        ReadField(a) = <<n, v, s>> /\ 1 <= s /\ s <= Len(a)
<1> SUFFICES ASSUME NEW a \in Bytes, ReadField(a) # Malformed
             PROVE  \E n \in Nat : \E v \in Value : \E s \in Nat :
                       ReadField(a) = <<n, v, s>> /\ 1 <= s /\ s <= Len(a)
  OBVIOUS
<1> DEFINE key == ReadVarint(a)
           left == After(a, key[2])
           item == ReadVarint(left)
           number == key[1] \div 8
           wireType == key[1] % 8
           start == key[2] + item[2]
           end == start + item[1]
<1>1. ReadField(a) =
        IF key = Malformed \/ wireType \notin {0, 2} THEN Malformed
        ELSE IF item = Malformed THEN Malformed
        ELSE IF wireType = 0 THEN <<number, item[1], start>>
        ELSE IF end > Len(a) THEN Malformed
        ELSE <<number, SubSeq(a, start + 1, end), end>>
  BY DEF ReadField, FieldOf
<1>2. key # Malformed /\ item # Malformed  BY <1>1
<1>3. key[1] \in Nat /\ key[2] \in Nat /\ 1 <= key[2] /\ key[2] <= Len(a) /\ Len(a) \in Nat
  BY <1>2, VarintResult, ByteAt
<1>4. left \in Bytes /\ Len(left) = Len(a) - key[2]  BY <1>3, Taking
<1> HIDE DEF key, left
<1>5. item[1] \in Nat /\ item[2] \in Nat /\ item[2] <= Len(left)  BY <1>2, <1>4, VarintResult
<1> HIDE DEF item
<1>6. number \in Nat /\ start \in Nat /\ 1 <= start /\ start <= Len(a)  BY <1>3, <1>4, <1>5
<1>7. CASE wireType = 0
  <2>1. ReadField(a) = <<number, item[1], start>>  BY <1>1, <1>2, <1>7
  <2>2. item[1] \in Value  BY <1>5 DEF Value
  <2> HIDE DEF number, start
  <2> QED BY <1>6, <2>1, <2>2
<1>8. CASE wireType # 0
  <2>1. end <= Len(a) /\ ReadField(a) = <<number, SubSeq(a, start + 1, end), end>>
    <3>0. end \in Nat  BY <1>5, <1>6
    <3>1. ~(end > Len(a))  BY <1>1, <1>2, <1>8
    <3>2. end <= Len(a)  BY <1>3, <3>0, <3>1
    <3>3. wireType \in {0, 2}  BY <1>1, <1>2
    <3> HIDE DEF number, wireType, start, end
    <3> QED BY <1>1, <1>2, <1>8, <3>1, <3>2, <3>3
  <2>2. end \in Nat /\ 1 <= end /\ start + 1 \in Nat /\ 1 <= start + 1 /\ start + 1 <= end + 1
    BY <1>5, <1>6
  <2> HIDE DEF number, start, end
  <2>3. SubSeq(a, start + 1, end) \in Bytes  BY <2>1, <2>2, Cutting
  <2>4. SubSeq(a, start + 1, end) \in Value  BY <2>3 DEF Value
  <2> QED BY <1>6, <2>1, <2>2, <2>4
<1> QED BY <1>7, <1>8

\* A field at the start of a text is read there whatever follows it.
LEMMA FieldExtends ==
  \A a, b \in Bytes : ReadField(a) # Malformed => ReadField(a \o b) = ReadField(a)
<1> SUFFICES ASSUME NEW a \in Bytes, NEW b \in Bytes, ReadField(a) # Malformed
             PROVE  ReadField(a \o b) = ReadField(a)
  OBVIOUS
<1> DEFINE key == ReadVarint(a)
           left == After(a, key[2])
           item == ReadVarint(left)
           number == key[1] \div 8
           wireType == key[1] % 8
           start == key[2] + item[2]
           end == start + item[1]
           d == a \o b
<1>1. ReadField(a) =
        IF key = Malformed \/ wireType \notin {0, 2} THEN Malformed
        ELSE IF item = Malformed THEN Malformed
        ELSE IF wireType = 0 THEN <<number, item[1], start>>
        ELSE IF end > Len(a) THEN Malformed
        ELSE <<number, SubSeq(a, start + 1, end), end>>
  BY DEF ReadField, FieldOf
<1>2. key # Malformed /\ item # Malformed /\ wireType \in {0, 2}  BY <1>1
<1>3. key[1] \in Nat /\ key[2] \in Nat /\ 1 <= key[2] /\ key[2] <= Len(a) /\ Len(a) \in Nat
  BY <1>2, VarintResult, ByteAt
<1>4. left \in Bytes /\ Len(left) = Len(a) - key[2]  BY <1>3, Taking
<1>5. ReadVarint(d) = key  BY <1>2, VarintExtends
<1>6. After(d, key[2]) = left \o b  BY <1>3, AfterJoin
<1>7. ReadVarint(left \o b) = item
  <2> HIDE DEF left
  <2> QED BY <1>2, <1>4, VarintExtends
<1>8. item[1] \in Nat /\ item[2] \in Nat /\ item[2] <= Len(left)
  <2> HIDE DEF left
  <2> QED BY <1>2, <1>4, VarintResult
<1>9. ReadField(d) =
        IF key = Malformed \/ wireType \notin {0, 2} THEN Malformed
        ELSE IF item = Malformed THEN Malformed
        ELSE IF wireType = 0 THEN <<number, item[1], start>>
        ELSE IF end > Len(d) THEN Malformed
        ELSE <<number, SubSeq(d, start + 1, end), end>>
  <2> DEFINE k == ReadVarint(d)  i == ReadVarint(After(d, k[2]))
  <2>1. ReadField(d) =
        IF k = Malformed \/ k[1] % 8 \notin {0, 2} THEN Malformed
        ELSE IF i = Malformed THEN Malformed
        ELSE IF k[1] % 8 = 0 THEN <<k[1] \div 8, i[1], k[2] + i[2]>>
        ELSE IF k[2] + i[2] + i[1] > Len(d) THEN Malformed
        ELSE <<k[1] \div 8, SubSeq(d, k[2] + i[2] + 1, k[2] + i[2] + i[1]), k[2] + i[2] + i[1]>>
    BY DEF ReadField, FieldOf
  <2>2. k = key /\ i = item  BY <1>5, <1>6, <1>7
  <2> HIDE DEF k, i, key, item
  <2> QED BY <2>1, <2>2
<1> HIDE DEF key, left, item
<1>10. Len(d) = Len(a) + Len(b) /\ Len(b) \in Nat  BY Joining, ByteAt
<1>11. CASE wireType = 0
  <2> HIDE DEF d, number, start, end, wireType
  <2>1. ReadField(d) = ReadField(a)  BY <1>1, <1>2, <1>9, <1>11
  <2> QED BY <2>1 DEF d
<1>12. CASE wireType # 0
  <2>0. end \in Nat /\ start + 1 \in Nat /\ 1 <= start + 1 /\ start + 1 <= end + 1
    BY <1>3, <1>8
  <2> HIDE DEF wireType, number, start, end, d
  <2>1. ~(end > Len(a))  BY <1>1, <1>2, <1>12
  <2>2. end <= Len(a) /\ ~(end > Len(d))  BY <1>3, <1>10, <2>0, <2>1
  <2>3. SubSeq(d, start + 1, end) = SubSeq(a, start + 1, end)
    BY <2>0, <2>2, CutOfJoin DEF d
  <2>4. ReadField(a) = <<number, SubSeq(a, start + 1, end), end>>
    BY <1>1, <1>2, <1>12, <2>1
  <2>5. ReadField(d) = <<number, SubSeq(d, start + 1, end), end>>
    BY <1>9, <1>2, <1>12, <2>2
  <2> QED BY <2>3, <2>4, <2>5 DEF d
<1> QED BY <1>11, <1>12

Pairs == Nat \X Value
Fields == Seq(Pairs) \cup {<<Malformed>>}

\* The mark of a malformed message is not a sequence of fields.
LEMMA NotFields == <<Malformed>> \notin Seq(Pairs)
<1> SUFFICES ASSUME <<Malformed>> \in Seq(Pairs) PROVE FALSE  OBVIOUS
<1>1. Malformed \in Pairs
  <2> DEFINE s == <<Malformed>>
  <2>1. s \in Seq(Pairs) /\ Len(s) = 1 /\ s[1] = Malformed  OBVIOUS
  <2>2. 1 \in 1..Len(s)  BY <2>1
  <2> HIDE DEF s
  <2> QED BY <2>1, <2>2, ElementOfSeq
<1> QED BY <1>1 DEF Pairs, Malformed

\* What is left after a field that can be read.
LEMMA FieldLeft ==
  \A a \in Bytes : ReadField(a) # Malformed =>
     /\ <<ReadField(a)[1], ReadField(a)[2]>> \in Pairs
     /\ ReadField(a)[3] \in Nat /\ ReadField(a)[3] <= Len(a)
     /\ After(a, ReadField(a)[3]) \in Bytes
     /\ Len(After(a, ReadField(a)[3])) \in Nat
     /\ Len(After(a, ReadField(a)[3])) < Len(a)
<1> SUFFICES ASSUME NEW a \in Bytes, ReadField(a) # Malformed
             PROVE  /\ <<ReadField(a)[1], ReadField(a)[2]>> \in Pairs
                    /\ ReadField(a)[3] \in Nat /\ ReadField(a)[3] <= Len(a)
                    /\ After(a, ReadField(a)[3]) \in Bytes
                    /\ Len(After(a, ReadField(a)[3])) \in Nat
                    /\ Len(After(a, ReadField(a)[3])) < Len(a)
  OBVIOUS
<1>1. PICK n \in Nat, v \in Value, s \in Nat :
         ReadField(a) = <<n, v, s>> /\ 1 <= s /\ s <= Len(a)
  BY FieldResult
<1>2. ReadField(a)[1] = n /\ ReadField(a)[2] = v /\ ReadField(a)[3] = s  BY <1>1
<1>3. <<n, v>> \in Pairs  BY DEF Pairs
<1>4. After(a, s) \in Bytes /\ Len(After(a, s)) = Len(a) - s /\ Len(a) \in Nat
  BY <1>1, Taking, ByteAt
<1>5. Len(After(a, s)) \in Nat /\ Len(After(a, s)) < Len(a)  BY <1>1, <1>4
<1> QED BY <1>1, <1>2, <1>3, <1>4, <1>5

\* One field before the others.
LEMMA OneField == \A p \in Pairs : \A s \in Fields :
   s # <<Malformed>> => /\ s \in Seq(Pairs) /\ <<p>> \in Seq(Pairs)
                        /\ <<p>> \o s \in Seq(Pairs) /\ <<p>> \o s \in Fields
                        /\ <<p>> \o s # <<Malformed>>
<1> TAKE p \in Pairs
<1> TAKE s \in Fields
<1> HAVE s # <<Malformed>>
<1>1. s \in Seq(Pairs)  BY DEF Fields
<1>2. <<p>> \in Seq(Pairs)  OBVIOUS
<1>3. <<p>> \o s \in Seq(Pairs)  BY <1>1, <1>2, ConcatProperties
<1> QED BY <1>1, <1>2, <1>3, NotFields DEF Fields

\* _decode_fields: the recursive definition has the values it describes, and
\* they are fields or the mark of an exception.
LEMMA DecodeFieldsIs ==
  /\ DecodeFields \in [Bytes -> Fields]
  /\ \A data \in Bytes : DecodeFields[data] =
       LET field == ReadField(data)
           rest == DecodeFields[After(data, field[3])]
       IN IF data = <<>> THEN <<>>
          ELSE IF field = Malformed THEN <<Malformed>>
          ELSE IF rest = <<Malformed>> THEN rest
          ELSE <<<<field[1], field[2]>>>> \o rest
<1> DEFINE Body(f, data) ==
              IF data = <<>> THEN <<>>
              ELSE IF ReadField(data) = Malformed THEN <<Malformed>>
              ELSE IF f[After(data, ReadField(data)[3])] = <<Malformed>>
                   THEN f[After(data, ReadField(data)[3])]
              ELSE <<<<ReadField(data)[1], ReadField(data)[2]>>>> \o f[After(data, ReadField(data)[3])]
           T == [f \in [Bytes -> Fields] |-> [data \in Bytes |-> Body(f, data)]]
           size == [data \in Bytes |-> Len(data)]
<1>e. <<>> \in Fields /\ <<Malformed>> \in Fields /\ <<>> # <<Malformed>>
  BY EmptySeq, NotFields DEF Fields
<1>s. size \in [Bytes -> Nat]  BY ByteAt
<1>1. ASSUME NEW f, NEW data \in Bytes,
             \A r \in Bytes : Len(r) < Len(data) => f[r] \in Fields
      PROVE  Body(f, data) \in Fields
  <2>1. CASE data = <<>>  BY <1>e, <2>1
  <2>2. CASE data # <<>> /\ ReadField(data) = Malformed  BY <1>e, <2>2
  <2>3. CASE data # <<>> /\ ReadField(data) # Malformed
    <3> DEFINE p == <<ReadField(data)[1], ReadField(data)[2]>>
               x == After(data, ReadField(data)[3])
    <3>1. p \in Pairs /\ x \in Bytes /\ Len(x) < Len(data)  BY <2>3, FieldLeft
    <3>2. f[x] \in Fields  BY <1>1, <3>1
    <3>3. Body(f, data) = IF f[x] = <<Malformed>> THEN f[x] ELSE <<p>> \o f[x]  BY <2>3
    <3> HIDE DEF Body, p, x
    <3> QED BY <3>1, <3>2, <3>3, OneField
  <2> QED BY <2>1, <2>2, <2>3
<1>2. T \in [[Bytes -> Fields] -> [Bytes -> Fields]]
  <2>1. ASSUME NEW f \in [Bytes -> Fields], NEW data \in Bytes PROVE Body(f, data) \in Fields
    <3>1. \A r \in Bytes : Len(r) < Len(data) => f[r] \in Fields  OBVIOUS
    <3> HIDE DEF Body
    <3> QED BY <1>1, <3>1
  <2> HIDE DEF Body
  <2> QED BY <2>1
<1>3. ASSUME NEW f \in [Bytes -> Fields], NEW g \in [Bytes -> Fields], NEW data \in Bytes,
             \A r \in Bytes : size[r] < size[data] => f[r] = g[r]
      PROVE  T[f][data] = T[g][data]
  <2>1. T[f][data] = Body(f, data) /\ T[g][data] = Body(g, data)
    <3> HIDE DEF Body
    <3> QED OBVIOUS
  <2>2. CASE data = <<>> \/ ReadField(data) = Malformed
    <3>1. Body(f, data) = Body(g, data)  BY <2>2
    <3> HIDE DEF Body, T
    <3> QED BY <2>1, <3>1
  <2>3. CASE data # <<>> /\ ReadField(data) # Malformed
    <3> DEFINE x == After(data, ReadField(data)[3])
    <3>1. x \in Bytes /\ Len(x) < Len(data)  BY <2>3, FieldLeft
    <3>2. size[x] < size[data]
      <4> HIDE DEF x
      <4> QED BY <3>1
    <3>3. f[x] = g[x]  BY <1>3, <3>1, <3>2
    <3>4. Body(f, data) = Body(g, data)
      <4> HIDE DEF T, size
      <4> QED BY <3>3
    <3> HIDE DEF Body, T
    <3> QED BY <2>1, <3>4
  <2> QED BY <2>2, <2>3
<1>4. Recursive(Bytes, Fields, size, T)
  <2>1. Fields # {}  BY <1>e
  <2> HIDE DEF T, size
  <2> QED BY <1>2, <1>3, <1>s, <2>1 DEF Recursive
<1>5. PICK f \in [Bytes -> Fields] : f = T[f]
  <2> HIDE DEF T, size
  <2> QED BY <1>4, Recursion DEF Solvable
<1>6. f = [data \in Bytes |-> Body(f, data)]
  <2> HIDE DEF Body
  <2> QED BY <1>5
<1>7. DecodeFields = CHOOSE g : g = [data \in Bytes |-> Body(g, data)]
  BY DEF DecodeFields
<1>8. DecodeFields = [data \in Bytes |-> Body(DecodeFields, data)]
  <2> HIDE DEF Body
  <2> QED BY <1>6, <1>7
<1>9. \A data \in Bytes : DecodeFields[data] = Body(DecodeFields, data)
  <2> HIDE DEF Body
  <2> QED BY <1>8
<1>10. DecodeFields \in [Bytes -> Fields]
  <2> DEFINE P == {data \in Bytes : DecodeFields[data] \in Fields}
  <2>1. Inductive(P, Bytes, size)
    <3> SUFFICES ASSUME NEW data \in Bytes, \A r \in Bytes : size[r] < size[data] => r \in P
                 PROVE  data \in P
      BY DEF Inductive
    <3>1. \A r \in Bytes : Len(r) < Len(data) => DecodeFields[r] \in Fields  OBVIOUS
    <3> HIDE DEF Body
    <3>2. Body(DecodeFields, data) \in Fields  BY <1>1, <3>1
    <3> QED BY <1>9, <3>2
  <2>2. Bytes \subseteq P
    <3> HIDE DEF P, size
    <3> QED BY <1>s, <2>1, Induction
  <2> HIDE DEF Body
  <2> QED BY <1>8, <2>2
<1>11. \A data \in Bytes : DecodeFields[data] =
       LET field == ReadField(data)
           rest == DecodeFields[After(data, field[3])]
       IN IF data = <<>> THEN <<>>
          ELSE IF field = Malformed THEN <<Malformed>>
          ELSE IF rest = <<Malformed>> THEN rest
          ELSE <<<<field[1], field[2]>>>> \o rest
  BY <1>9
<1> QED BY <1>10, <1>11

Good(data) == data \in Bytes /\ DecodeFields[data] # <<Malformed>>

\* The fields of a text, in the cases of its definition.
LEMMA FieldsOf ==
  /\ Good(<<>>) /\ DecodeFields[<<>>] = <<>>
  /\ \A data \in Bytes : data # <<>> =>
       LET field == ReadField(data)
           left == After(data, field[3])
       IN /\ Good(data) <=> field # Malformed /\ Good(left)
          /\ Good(data) => DecodeFields[data] = <<<<field[1], field[2]>>>> \o DecodeFields[left]
  /\ \A data : Good(data) => DecodeFields[data] \in Seq(Pairs)
<1>1. <<>> \in Bytes /\ <<>> # <<Malformed>>  BY NoBytes, NotFields, EmptySeq
<1>2. DecodeFields[<<>>] = <<>>  BY <1>1, DecodeFieldsIs
<1>3. \A data : Good(data) => DecodeFields[data] \in Seq(Pairs)
  BY DecodeFieldsIs DEF Good, Fields
<1>4. ASSUME NEW data \in Bytes, data # <<>>
      PROVE  LET field == ReadField(data)
                 left == After(data, field[3])
             IN /\ Good(data) <=> field # Malformed /\ Good(left)
                /\ Good(data) => DecodeFields[data] = <<<<field[1], field[2]>>>> \o DecodeFields[left]
  <2> DEFINE p == <<ReadField(data)[1], ReadField(data)[2]>>
             x == After(data, ReadField(data)[3])
  <2>1. DecodeFields[data] =
          IF ReadField(data) = Malformed THEN <<Malformed>>
          ELSE IF DecodeFields[x] = <<Malformed>> THEN DecodeFields[x]
          ELSE <<p>> \o DecodeFields[x]
    BY <1>4, DecodeFieldsIs
  <2>2. CASE ReadField(data) = Malformed  BY <2>1, <2>2 DEF Good
  <2>3. CASE ReadField(data) # Malformed
    <3>1. p \in Pairs /\ x \in Bytes  BY <2>3, FieldLeft
    <3>2. DecodeFields[x] \in Fields  BY <3>1, DecodeFieldsIs
    <3> HIDE DEF p, x
    <3>3. CASE DecodeFields[x] = <<Malformed>>  BY <2>1, <2>3, <3>1, <3>3 DEF Good, p, x
    <3>4. CASE DecodeFields[x] # <<Malformed>>
      <4>1. DecodeFields[data] = <<p>> \o DecodeFields[x]  BY <2>1, <2>3, <3>4
      <4>2. <<p>> \o DecodeFields[x] # <<Malformed>>  BY <3>1, <3>2, <3>4, OneField
      <4>3. Good(data) /\ Good(x)  BY <1>4, <3>1, <3>4, <4>1, <4>2 DEF Good
      <4> QED BY <2>3, <4>1, <4>3 DEF p, x
    <3> QED BY <3>3, <3>4
  <2> QED BY <2>2, <2>3
<1> QED BY <1>1, <1>2, <1>3, <1>4 DEF Good

\* Joining fields is associative.
LEMMA FieldsThree == \A a, b, c \in Seq(Pairs) : a \o (b \o c) = (a \o b) \o c
BY ConcatAssociative

\* The fields of two texts one after the other.
LEMMA FieldsJoin ==
  \A a, b \in Bytes : Good(a) =>
     /\ Good(a \o b) <=> Good(b)
     /\ Good(b) => DecodeFields[a \o b] = DecodeFields[a] \o DecodeFields[b]
<1> SUFFICES ASSUME NEW b \in Bytes
             PROVE  \A a \in Bytes : Good(a) =>
                       /\ Good(a \o b) <=> Good(b)
                       /\ Good(b) => DecodeFields[a \o b] = DecodeFields[a] \o DecodeFields[b]
  OBVIOUS
<1> DEFINE Holds(a) == Good(a) =>
                         /\ Good(a \o b) <=> Good(b)
                         /\ Good(b) => DecodeFields[a \o b] = DecodeFields[a] \o DecodeFields[b]
           P == {a \in Bytes : Holds(a)}
           size == [a \in Bytes |-> Len(a)]
<1>1. ASSUME NEW a \in Bytes, \A r \in Bytes : Len(r) < Len(a) => Holds(r)
      PROVE  Holds(a)
  <2>1. CASE a = <<>>
    <3>1. a \o b = b  BY <2>1, JoinNone
    <3>2. Good(b) => DecodeFields[a] \o DecodeFields[b] = DecodeFields[b]
      BY <2>1, FieldsOf, ConcatEmptySeq
    <3> QED BY <3>1, <3>2
  <2>2. CASE a # <<>>
    <3>1. SUFFICES ASSUME Good(a)
                   PROVE  /\ Good(a \o b) <=> Good(b)
                          /\ Good(b) => DecodeFields[a \o b] = DecodeFields[a] \o DecodeFields[b]
      OBVIOUS
    <3> DEFINE d == a \o b
               p == <<ReadField(a)[1], ReadField(a)[2]>>
               x == After(a, ReadField(a)[3])
    <3>2. ReadField(a) # Malformed /\ Good(x) /\ DecodeFields[a] = <<p>> \o DecodeFields[x]
      BY <2>2, <3>1, FieldsOf
    <3>3. /\ p \in Pairs /\ x \in Bytes /\ Len(x) < Len(a)
          /\ ReadField(a)[3] \in Nat /\ ReadField(a)[3] <= Len(a)
      BY <3>2, FieldLeft
    <3>4. ReadField(d) = ReadField(a)  BY <3>2, FieldExtends
    <3>5. After(d, ReadField(a)[3]) = x \o b  BY <3>3, AfterJoin
    <3>6. d \in Bytes /\ d # <<>>
      <4>1. d \in Bytes /\ Len(d) = Len(a) + Len(b)  BY Joining
      <4>2. Len(a) \in Nat /\ Len(b) \in Nat /\ Len(a) # 0  BY <2>2, NoBytes, ByteAt
      <4>3. Len(d) # 0
        <5> HIDE DEF d
        <5> QED BY <4>1, <4>2
      <4> QED BY <4>1, <4>3, NoBytes
    <3>7. /\ Good(d) <=> Good(x \o b)
          /\ Good(d) => DecodeFields[d] = <<p>> \o DecodeFields[x \o b]
      <4>1. /\ Good(d) <=> ReadField(d) # Malformed /\ Good(After(d, ReadField(d)[3]))
            /\ Good(d) => DecodeFields[d] =
                 <<<<ReadField(d)[1], ReadField(d)[2]>>>> \o DecodeFields[After(d, ReadField(d)[3])]
        BY <3>6, FieldsOf, Zenon
      <4> HIDE DEF d, x
      <4> QED BY <3>2, <3>4, <3>5, <4>1
    <3>8. Holds(x)  BY <1>1, <3>3
    <3> HIDE DEF d, p, x
    <3>9. /\ Good(x \o b) <=> Good(b)
          /\ Good(b) => DecodeFields[x \o b] = DecodeFields[x] \o DecodeFields[b]
      BY <3>2, <3>8
    <3>10. ASSUME Good(b)
           PROVE  <<p>> \o (DecodeFields[x] \o DecodeFields[b]) = (<<p>> \o DecodeFields[x]) \o DecodeFields[b]
      <4>1. DecodeFields[x] \in Seq(Pairs) /\ DecodeFields[b] \in Seq(Pairs)
        BY <3>2, <3>10, FieldsOf
      <4>2. <<p>> \in Seq(Pairs)  BY <3>3
      <4> QED BY <4>1, <4>2, FieldsThree
    <3> QED BY <3>2, <3>7, <3>9, <3>10 DEF d
  <2> QED BY <2>1, <2>2
<1>2. Inductive(P, Bytes, size)
  <2> SUFFICES ASSUME NEW a \in Bytes, \A r \in Bytes : size[r] < size[a] => r \in P
               PROVE  a \in P
    BY DEF Inductive
  <2>1. \A r \in Bytes : Len(r) < Len(a) => Holds(r)  OBVIOUS
  <2> HIDE DEF Holds
  <2> QED BY <1>1, <2>1
<1>3. Bytes \subseteq P
  <2>1. size \in [Bytes -> Nat]  BY ByteAt
  <2> HIDE DEF P, size
  <2> QED BY <1>2, <2>1, Induction
<1> QED BY <1>3

\* A tag of one byte.
Tag(number) == number \in Nat /\ 1 <= number /\ number < 16

\* The key of a field, _encode_varint((number << 3) | type), holds both.
LEMMA TagIs ==
  \A number, w \in Nat : Tag(number) /\ w < 8 =>
     /\ EncodeVarint[number * 8 + w] \in Bytes
     /\ ReadVarint(EncodeVarint[number * 8 + w]) = <<number * 8 + w, 1>>
     /\ Len(EncodeVarint[number * 8 + w]) = 1
     /\ (number * 8 + w) \div 8 = number /\ (number * 8 + w) % 8 = w
<1> TAKE number, w \in Nat
<1> HAVE Tag(number) /\ w < 8
<1> DEFINE v == number * 8 + w
<1>1. v \in Nat /\ v < 128 /\ v \div 8 = number /\ v % 8 = w  BY DEF Tag
<1> HIDE DEF v
<1>2. Len(EncodeVarint[v]) = 1  BY <1>1, VarintGrowth
<1>3. Len(EncodeVarint[v]) <= 10  BY <1>2
<1>4. ReadVarint(EncodeVarint[v]) = <<v, Len(EncodeVarint[v])>>  BY <1>1, <1>3, VarintRoundTrip
<1>5. EncodeVarint[v] \in Bytes  BY <1>1, EncodeVarintIs
<1> QED BY <1>1, <1>2, <1>4, <1>5 DEF v

\* What _encode_uint32_field makes is read back as that one field.
LEMMA UintField ==
  \A number \in Nat : \A v \in Word : Tag(number) =>
     /\ EncodeUint(number, v) \in Bytes /\ EncodeUint(number, v) # <<>>
     /\ Good(EncodeUint(number, v)) /\ DecodeFields[EncodeUint(number, v)] = <<<<number, v>>>>
<1> SUFFICES ASSUME NEW number \in Nat, NEW v \in Word, Tag(number)
             PROVE  /\ EncodeUint(number, v) \in Bytes /\ EncodeUint(number, v) # <<>>
                    /\ Good(EncodeUint(number, v))
                    /\ DecodeFields[EncodeUint(number, v)] = <<<<number, v>>>>
  OBVIOUS
<1> DEFINE t == EncodeVarint[number * 8 + 0]
           e == EncodeVarint[v]
           d == t \o e
<1>1. /\ t \in Bytes /\ ReadVarint(t) = <<number * 8 + 0, 1>> /\ Len(t) = 1
      /\ (number * 8 + 0) \div 8 = number /\ (number * 8 + 0) % 8 = 0
  <2>1. 0 \in Nat /\ 0 < 8  OBVIOUS
  <2> QED BY <2>1, TagIs
<1>2. e \in Bytes /\ Len(e) \in Nat /\ Len(e) >= 1 /\ ReadVarint(e) = <<v, Len(e)>>
  BY WordRoundTrip
<1>3. EncodeUint(number, v) = d  BY DEF EncodeUint, EncodeField
<1>4. v \in Nat  BY DEF Word
<1> HIDE DEF t, e
<1>5. d \in Bytes /\ Len(d) = 1 + Len(e) /\ After(d, 1) = e
  <2>1. d \in Bytes /\ Len(d) = Len(t) + Len(e)  BY <1>1, <1>2, Joining
  <2>2. After(t \o e, Len(t)) = e  BY <1>1, <1>2, CutAtJoin
  <2> QED BY <1>1, <2>1, <2>2
<1>6. ReadVarint(d) = <<number * 8 + 0, 1>>
  <2>1. 1 # -1  OBVIOUS
  <2>2. ReadVarint(t) # Malformed  BY <1>1, <2>1 DEF Malformed
  <2> QED BY <1>1, <1>2, <2>2, VarintExtends
<1>7. ReadField(d) = <<number, v, Len(d)>>
  <2> DEFINE k == ReadVarint(d)  i == ReadVarint(After(d, k[2]))
  <2>1. ReadField(d) =
        IF k = Malformed \/ k[1] % 8 \notin {0, 2} THEN Malformed
        ELSE IF i = Malformed THEN Malformed
        ELSE IF k[1] % 8 = 0 THEN <<k[1] \div 8, i[1], k[2] + i[2]>>
        ELSE IF k[2] + i[2] + i[1] > Len(d) THEN Malformed
        ELSE <<k[1] \div 8, SubSeq(d, k[2] + i[2] + 1, k[2] + i[2] + i[1]), k[2] + i[2] + i[1]>>
    BY DEF ReadField, FieldOf
  <2> HIDE DEF d
  <2>2. k[1] = number * 8 + 0 /\ k[2] = 1 /\ i = <<v, Len(e)>> /\ k = <<k[1], 1>>
    BY <1>2, <1>5, <1>6
  <2> HIDE DEF k
  <2>3. i[1] = v /\ i[2] = Len(e)  BY <2>2
  <2> HIDE DEF i
  <2>4. k # Malformed /\ i # Malformed  BY <1>4, <2>2 DEF Malformed
  <2>5. k[1] % 8 = 0 /\ k[1] \div 8 = number  BY <1>1, <2>2
  <2>6. ReadField(d) = <<k[1] \div 8, i[1], k[2] + i[2]>>  BY <2>1, <2>4, <2>5
  <2> QED BY <1>5, <2>2, <2>3, <2>5, <2>6
<1> HIDE DEF d
<1>8. d # <<>>
  <2>1. Len(d) # 0  BY <1>2, <1>5
  <2> QED BY <1>5, <2>1, NoBytes
<1>9. ReadField(d) # Malformed /\ ReadField(d)[1] = number /\ ReadField(d)[2] = v
      /\ ReadField(d)[3] = Len(d)
  BY <1>4, <1>7 DEF Malformed
<1>10. After(d, ReadField(d)[3]) = <<>>  BY <1>5, <1>9, AfterAll
<1>11. /\ Good(d) <=> ReadField(d) # Malformed /\ Good(After(d, ReadField(d)[3]))
       /\ Good(d) => DecodeFields[d] =
                 <<<<ReadField(d)[1], ReadField(d)[2]>>>> \o DecodeFields[After(d, ReadField(d)[3])]
  BY <1>5, <1>8, FieldsOf, Zenon
<1>12. Good(d) /\ DecodeFields[d] = <<<<number, v>>>> \o <<>>  BY <1>9, <1>10, <1>11, FieldsOf
<1>13. <<<<number, v>>>> \o <<>> = <<<<number, v>>>>
  <2>1. <<<<number, v>>>> \in Seq(Nat \X Nat)  BY <1>4
  <2> QED BY <2>1, ConcatEmptySeq
<1> QED BY <1>3, <1>5, <1>8, <1>12, <1>13

\* What _encode_bytes_field makes is read back as that one field.
LEMMA BytesField ==
  \A number \in Nat : \A v \in Bytes : Tag(number) /\ Len(v) \in Word =>
     /\ EncodeBytes(number, v) \in Bytes /\ EncodeBytes(number, v) # <<>>
     /\ Good(EncodeBytes(number, v)) /\ DecodeFields[EncodeBytes(number, v)] = <<<<number, v>>>>
<1> SUFFICES ASSUME NEW number \in Nat, NEW v \in Bytes, Tag(number), Len(v) \in Word
             PROVE  /\ EncodeBytes(number, v) \in Bytes /\ EncodeBytes(number, v) # <<>>
                    /\ Good(EncodeBytes(number, v))
                    /\ DecodeFields[EncodeBytes(number, v)] = <<<<number, v>>>>
  OBVIOUS
<1> DEFINE t == EncodeVarint[number * 8 + 2]
           e == EncodeVarint[Len(v)]
           r == e \o v
           d == t \o r
<1>1. /\ t \in Bytes /\ ReadVarint(t) = <<number * 8 + 2, 1>> /\ Len(t) = 1
      /\ (number * 8 + 2) \div 8 = number /\ (number * 8 + 2) % 8 = 2
  <2>1. 2 \in Nat /\ 2 < 8  OBVIOUS
  <2> QED BY <2>1, TagIs
<1>2. e \in Bytes /\ Len(e) \in Nat /\ Len(e) >= 1 /\ ReadVarint(e) = <<Len(v), Len(e)>>
  BY WordRoundTrip
<1>3. EncodeBytes(number, v) = d  BY DEF EncodeBytes, EncodeField
<1>4. Len(v) \in Nat  BY ByteAt
<1> HIDE DEF t, e
<1>5. /\ r \in Bytes /\ Len(r) = Len(e) + Len(v) /\ After(r, Len(e)) = v
  BY <1>2, Joining, CutAtJoin
<1>6. ReadVarint(r) = <<Len(v), Len(e)>>
  <2>1. Len(v) # -1  BY <1>4
  <2>2. ReadVarint(e) # Malformed  BY <1>2, <2>1 DEF Malformed
  <2> QED BY <1>2, <2>2, VarintExtends
<1> HIDE DEF r
<1>7. d \in Bytes /\ Len(d) = 1 + Len(r) /\ After(d, 1) = r
  <2>1. d \in Bytes /\ Len(d) = Len(t) + Len(r)  BY <1>1, <1>5, Joining
  <2>2. After(t \o r, Len(t)) = r  BY <1>1, <1>5, CutAtJoin
  <2> QED BY <1>1, <2>1, <2>2
<1>8. ReadVarint(d) = <<number * 8 + 2, 1>>
  <2>1. 1 # -1  OBVIOUS
  <2>2. ReadVarint(t) # Malformed  BY <1>1, <2>1 DEF Malformed
  <2> QED BY <1>1, <1>5, <2>2, VarintExtends
<1> HIDE DEF d
<1>9. SubSeq(d, 1 + Len(e) + 1, Len(d)) = v
  <2>1. After(After(d, 1), Len(e)) = After(d, 1 + Len(e))
    <3>1. 1 \in Nat /\ 1 + Len(e) <= Len(d)  BY <1>2, <1>4, <1>5, <1>7
    <3> QED BY <1>2, <1>7, <3>1, AfterAfter
  <2> QED BY <1>5, <1>7, <2>1 DEF After
<1>10. ReadField(d) = <<number, v, Len(d)>>
  <2> DEFINE k == ReadVarint(d)  i == ReadVarint(After(d, k[2]))
  <2>1. ReadField(d) =
        IF k = Malformed \/ k[1] % 8 \notin {0, 2} THEN Malformed
        ELSE IF i = Malformed THEN Malformed
        ELSE IF k[1] % 8 = 0 THEN <<k[1] \div 8, i[1], k[2] + i[2]>>
        ELSE IF k[2] + i[2] + i[1] > Len(d) THEN Malformed
        ELSE <<k[1] \div 8, SubSeq(d, k[2] + i[2] + 1, k[2] + i[2] + i[1]), k[2] + i[2] + i[1]>>
    BY DEF ReadField, FieldOf
  <2>2. k[1] = number * 8 + 2 /\ k[2] = 1 /\ i = <<Len(v), Len(e)>> /\ k = <<k[1], 1>>
    BY <1>6, <1>7, <1>8
  <2> HIDE DEF k
  <2>3. i[1] = Len(v) /\ i[2] = Len(e)  BY <2>2
  <2> HIDE DEF i
  <2>4. k # Malformed /\ i # Malformed  BY <1>4, <2>2 DEF Malformed
  <2>5. k[1] % 8 = 2 /\ k[1] \div 8 = number  BY <1>1, <2>2
  <2>6. k[2] + i[2] + i[1] = Len(d) /\ ~(k[2] + i[2] + i[1] > Len(d))
        /\ k[2] + i[2] + 1 = 1 + Len(e) + 1
    BY <1>2, <1>4, <1>5, <1>7, <2>2, <2>3
  <2>7. ReadField(d) = <<k[1] \div 8, SubSeq(d, k[2] + i[2] + 1, k[2] + i[2] + i[1]), k[2] + i[2] + i[1]>>
    BY <2>1, <2>4, <2>5, <2>6
  <2> QED BY <1>9, <2>5, <2>6, <2>7
<1>11. d # <<>>
  <2>1. Len(d) # 0  BY <1>2, <1>4, <1>5, <1>7
  <2> QED BY <1>7, <2>1, NoBytes
<1>12. ReadField(d) # Malformed /\ ReadField(d)[1] = number /\ ReadField(d)[2] = v
      /\ ReadField(d)[3] = Len(d)
  <2>1. number # -1  OBVIOUS
  <2> QED BY <1>10, <2>1 DEF Malformed
<1>13. After(d, ReadField(d)[3]) = <<>>  BY <1>7, <1>12, AfterAll
<1>14. /\ Good(d) <=> ReadField(d) # Malformed /\ Good(After(d, ReadField(d)[3]))
       /\ Good(d) => DecodeFields[d] =
                 <<<<ReadField(d)[1], ReadField(d)[2]>>>> \o DecodeFields[After(d, ReadField(d)[3])]
  BY <1>7, <1>11, FieldsOf, Zenon
<1>15. Good(d) /\ DecodeFields[d] = <<<<number, v>>>> \o <<>>  BY <1>12, <1>13, <1>14, FieldsOf
<1>16. <<<<number, v>>>> \o <<>> = <<<<number, v>>>>
  <2>1. <<<<number, v>>>> \in Seq(Nat \X Bytes)  OBVIOUS
  <2> QED BY <2>1, ConcatEmptySeq
<1> QED BY <1>3, <1>7, <1>11, <1>15, <1>16

-----------------------------------------------------------------------------
(* Messages *)

\* The texts that FlattenSeq joins one by one.
Joins(s, h) ==
  /\ h \in [1..Len(s) -> Bytes] /\ h[1] = s[1]
  /\ \A i \in 1..Len(s) : i > 1 => h[i] = h[i - 1] \o s[i]

\* Joining no texts.
LEMMA FlattenNone == FlattenSeq(<<>>) = <<>>
BY DEF FlattenSeq

\* Joining texts is adding them one after the other.
LEMMA FlattenSome ==
  \A s \in Seq(Bytes) : s # <<>> =>
     \E h : Joins(s, h) /\ FlattenSeq(s) = h[Len(s)]
<1> SUFFICES ASSUME NEW s \in Seq(Bytes), s # <<>>
             PROVE  \E h : Joins(s, h) /\ FlattenSeq(s) = h[Len(s)]
  OBVIOUS
<1>1. Len(s) \in Nat /\ Len(s) >= 1
  <2>1. Len(s) \in Nat \ {0}  BY EmptySeq
  <2> QED BY <2>1
<1>2. \A i \in 1..Len(s) : s[i] \in Bytes  BY ElementOfSeq
<1> DEFINE S == 1..Len(s)
           T == [f \in [S -> Bytes] |-> [i \in S |-> IF i = 1 THEN s[i] ELSE f[i - 1] \o s[i]]]
           size == [i \in S |-> i]
<1>3. T \in [[S -> Bytes] -> [S -> Bytes]]
  <2>1. ASSUME NEW f \in [S -> Bytes], NEW i \in S
        PROVE  (IF i = 1 THEN s[i] ELSE f[i - 1] \o s[i]) \in Bytes
    <3>1. CASE i = 1  BY <1>2, <3>1
    <3>2. CASE i # 1
      <4>1. i - 1 \in S  BY <1>1, <3>2
      <4>2. f[i - 1] \in Bytes /\ s[i] \in Bytes  BY <1>2, <4>1
      <4>3. f[i - 1] \o s[i] \in Bytes  BY <4>2, Joining
      <4> QED BY <3>2, <4>3
    <3> QED BY <3>1, <3>2
  <2> HIDE DEF S
  <2> QED BY <2>1
<1>4. ASSUME NEW f \in [S -> Bytes], NEW g \in [S -> Bytes], NEW i \in S,
             \A r \in S : size[r] < size[i] => f[r] = g[r]
      PROVE  T[f][i] = T[g][i]
  <2>1. CASE i = 1  BY <2>1
  <2>2. CASE i # 1
    <3>1. i - 1 \in S /\ size[i - 1] < size[i]  BY <1>1, <2>2
    <3>2. f[i - 1] = g[i - 1]  BY <1>4, <3>1
    <3>3. T[f][i] = f[i - 1] \o s[i] /\ T[g][i] = g[i - 1] \o s[i]  BY <2>2
    <3> QED BY <3>2, <3>3
  <2> QED BY <2>1, <2>2
<1>5. Recursive(S, Bytes, size, T)
  <2>1. Bytes # {} /\ size \in [S -> Nat]  BY NoBytes
  <2> HIDE DEF S, T, size
  <2> QED BY <1>3, <1>4, <2>1 DEF Recursive
<1>6. PICK f \in [S -> Bytes] : f = T[f]
  <2> HIDE DEF S, T, size
  <2> QED BY <1>5, Recursion DEF Solvable
<1> DEFINE flatten == CHOOSE g : g = [i \in S |-> IF i = 1 THEN s[i] ELSE g[i - 1] \o s[i]]
<1>7. flatten = [i \in S |-> IF i = 1 THEN s[i] ELSE flatten[i - 1] \o s[i]]  BY <1>6
<1>8. FlattenSeq(s) = flatten[Len(s)]
  <2>1. Len(s) # 0  BY <1>1
  <2> QED BY <2>1 DEF FlattenSeq
<1> HIDE DEF flatten
<1>9. \A i \in S : flatten[i] = IF i = 1 THEN s[i] ELSE flatten[i - 1] \o s[i]
  BY <1>7
<1>a. \A i \in S : i # 1 => flatten[i] = flatten[i - 1] \o s[i]  BY <1>9, Zenon
<1>10. \A i \in S : flatten[i] \in Bytes
  <2> DEFINE P == {n \in Nat : n + 1 \in S => flatten[n + 1] \in Bytes}
  <2>1. 0 \in P
    <3>1. 0 + 1 \in S => flatten[0 + 1] = s[0 + 1]  BY <1>9
    <3> QED BY <1>2, <3>1
  <2>2. ASSUME NEW n \in Nat, n \in P PROVE n + 1 \in P
    <3>1. SUFFICES ASSUME n + 1 + 1 \in S PROVE flatten[n + 1 + 1] \in Bytes
      OBVIOUS
    <3>2. n + 1 \in S /\ n + 1 + 1 # 1 /\ n + 1 + 1 - 1 = n + 1  BY <1>1, <3>1
    <3>3. flatten[n + 1] \in Bytes /\ s[n + 1 + 1] \in Bytes  BY <1>2, <2>2, <3>1, <3>2
    <3>4. flatten[n + 1 + 1] = flatten[n + 1] \o s[n + 1 + 1]
      <4>1. PICK k \in S : k = n + 1 + 1 /\ k # 1  BY <3>1, <3>2
      <4>2. flatten[k] = flatten[k - 1] \o s[k]  BY <1>a, <4>1, Zenon
      <4>3. n + 1 + 1 = k /\ k - 1 = n + 1  BY <4>1
      <4> QED BY <4>2, <4>3, Zenon
    <3> QED BY <3>3, <3>4, Joining
  <2>3. Nat \subseteq P
    <3> HIDE DEF P
    <3> QED BY <2>1, <2>2, NatInd
  <2> TAKE i \in S
  <2>4. i - 1 \in P /\ i - 1 + 1 = i  BY <2>3
  <2> QED BY <2>4
<1>11. Joins(s, flatten)
  <2>1. flatten \in [S -> Bytes]  BY <1>7, <1>10
  <2>2. flatten[1] = s[1]  BY <1>1, <1>9
  <2>3. \A i \in S : i > 1 => flatten[i] = flatten[i - 1] \o s[i]
    <3>1. \A i \in S : i > 1 => i # 1  OBVIOUS
    <3> QED BY <1>a, <3>1, Zenon
  <2> QED BY <2>1, <2>2, <2>3 DEF Joins
<1> QED BY <1>8, <1>11

\* Joining texts of one field each.
LEMMA FlattenFields ==
  ASSUME NEW s \in Seq(Bytes), NEW p \in Seq(Pairs), Len(p) = Len(s),
         \A i \in 1..Len(s) : Good(s[i]) /\ DecodeFields[s[i]] = <<p[i]>>
  PROVE  Good(FlattenSeq(s)) /\ DecodeFields[FlattenSeq(s)] = p
<1>1. CASE s = <<>>
  <2>1. Len(p) = 0  BY <1>1, EmptySeq
  <2>2. p = <<>>  BY <2>1, EmptySeq
  <2> QED BY <1>1, <2>2, FlattenNone, FieldsOf
<1>2. CASE s # <<>>
  <2>1. Len(s) \in Nat /\ Len(s) >= 1
    <3>1. Len(s) \in Nat \ {0}  BY <1>2, EmptySeq
    <3> QED BY <3>1
  <2>2. PICK h : Joins(s, h) /\ FlattenSeq(s) = h[Len(s)]  BY <1>2, FlattenSome
  <2> DEFINE P == {n \in Nat : n + 1 <= Len(s) =>
                      Good(h[n + 1]) /\ DecodeFields[h[n + 1]] = SubSeq(p, 1, n + 1)}
  <2>p. \A i \in 1..Len(s) : p[i] \in Pairs  BY ElementOfSeq
  <2>3. 0 \in P
    <3>1. 1 \in 1..Len(s) /\ 0 + 1 = 1  BY <2>1
    <3>2. h[1] = s[1]  BY <2>2 DEF Joins
    <3>3. Good(h[1]) /\ DecodeFields[h[1]] = <<p[1]>>  BY <3>1, <3>2
    <3>4. SubSeq(p, 1, 1) = <<p[1]>>
      <4>1. \A i \in 1..1 : p[i] \in Pairs  BY <2>p, <3>1
      <4>2. /\ SubSeq(p, 1, 1) \in Seq(Pairs) /\ Len(SubSeq(p, 1, 1)) = 1
            /\ \A i \in 1..(1 - 1 + 1) : SubSeq(p, 1, 1)[i] = p[1 + i - 1]
        BY <4>1, SubSeqProperties
      <4>3. 1 \in 1..(1 - 1 + 1) /\ 1 + 1 - 1 = 1  OBVIOUS
      <4>4. SubSeq(p, 1, 1)[1] = p[1]  BY <4>2, <4>3
      <4> DEFINE q == SubSeq(p, 1, 1)
      <4>5. q \in Seq(Pairs) /\ Len(q) = 1 /\ q[1] = p[1]  BY <4>2, <4>4
      <4> HIDE DEF q
      <4>6. q = <<p[1]>>
        <5>1. <<p[1]>> \in Seq(Pairs) /\ Len(<<p[1]>>) = 1 /\ <<p[1]>>[1] = p[1]  BY <2>p, <3>1
        <5>2. \A i \in 1..Len(q) : q[i] = <<p[1]>>[i]  BY <4>5, <5>1
        <5> QED BY <4>5, <5>1, <5>2, SeqEqual
      <4> QED BY <4>6 DEF q
    <3> QED BY <3>1, <3>3, <3>4
  <2>4. ASSUME NEW n \in Nat, n \in P PROVE n + 1 \in P
    <3>1. SUFFICES ASSUME n + 1 + 1 <= Len(s)
                   PROVE  /\ Good(h[n + 1 + 1])
                          /\ DecodeFields[h[n + 1 + 1]] = SubSeq(p, 1, n + 1 + 1)
      OBVIOUS
    <3> DEFINE k == n + 1 + 1
    <3>2. k \in 1..Len(s) /\ k > 1 /\ k - 1 = n + 1 /\ n + 1 <= Len(s)  BY <2>1, <3>1
    <3>3. h[k] = h[n + 1] \o s[k]
      <4>1. h[k] = h[k - 1] \o s[k]  BY <2>2, <3>2 DEF Joins
      <4> QED BY <3>2, <4>1
    <3>4. Good(h[n + 1]) /\ DecodeFields[h[n + 1]] = SubSeq(p, 1, n + 1)  BY <2>4, <3>2
    <3>5. Good(s[k]) /\ DecodeFields[s[k]] = <<p[k]>>  BY <3>2
    <3>6. h[n + 1] \in Bytes /\ s[k] \in Bytes  BY <3>4, <3>5 DEF Good
    <3>7. Good(h[n + 1] \o s[k])
          /\ DecodeFields[h[n + 1] \o s[k]] = SubSeq(p, 1, n + 1) \o <<p[k]>>
      BY <3>4, <3>5, <3>6, FieldsJoin
    <3>8. SubSeq(p, 1, n + 1) \o <<p[k]>> = SubSeq(p, 1, k)
      <4>1. \A i \in 1..k : p[i] \in Pairs
        <5> TAKE i \in 1..k
        <5>1. i \in 1..Len(s)  BY <2>1, <3>2
        <5> QED BY <2>p, <5>1
      <4>2. k \in Int /\ k >= 1 /\ 1 <= k  BY <3>2
      <4>3. SubSeq(p, 1, k) = Append(SubSeq(p, 1, k - 1), p[k])
        <5> HIDE DEF k
        <5> QED BY <4>1, <4>2, SubSeqRecursiveSecond
      <4>4. SubSeq(p, 1, n + 1) \in Seq(Pairs)  BY <3>4, FieldsOf
      <4>5. p[k] \in Pairs  BY <2>p, <3>2
      <4>6. Append(SubSeq(p, 1, n + 1), p[k]) = SubSeq(p, 1, n + 1) \o <<p[k]>>
        BY <4>4, <4>5, AppendIsConcat
      <4> QED BY <3>2, <4>3, <4>6
    <3> QED BY <3>3, <3>7, <3>8
  <2>5. Nat \subseteq P
    <3> HIDE DEF P
    <3> QED BY <2>3, <2>4, NatInd
  <2>6. Len(s) - 1 \in P /\ Len(s) - 1 + 1 = Len(s)
    <3> HIDE DEF P
    <3> QED BY <2>1, <2>5
  <2>7. Good(h[Len(s)]) /\ DecodeFields[h[Len(s)]] = SubSeq(p, 1, Len(s))  BY <2>1, <2>6
  <2>8. SubSeq(p, 1, Len(s)) = p  BY SubSeqFull
  <2> QED BY <2>2, <2>7, <2>8
<1> QED BY <1>1, <1>2

-----------------------------------------------------------------------------
(* What First finds. *)

\* fields.get(number, [default])[0]: the first field with the number.
LEMMA FirstIs ==
  ASSUME NEW f \in Seq(Pairs), NEW number, NEW default
  PROVE  /\ \A i \in 1..Len(f) :
              f[i][1] = number /\ (\A j \in 1..Len(f) : j < i => f[j][1] # number)
                => First(f, number, default) = f[i][2]
         /\ (\A i \in 1..Len(f) : f[i][1] # number) => First(f, number, default) = default
<1> DEFINE own == {i \in DOMAIN f : f[i][1] = number}
           k == CHOOSE i \in own : \A j \in own : i <= j
<1>1. First(f, number, default) = IF own = {} THEN default ELSE f[k][2]
  BY DEF First
<1>2. DOMAIN f = 1..Len(f) /\ Len(f) \in Nat  BY LenProperties
<1>k. k = CHOOSE i \in own : \A j \in own : i <= j  OBVIOUS
<1> HIDE DEF k
<1>3. ASSUME NEW i \in 1..Len(f), f[i][1] = number,
             \A j \in 1..Len(f) : j < i => f[j][1] # number
      PROVE  First(f, number, default) = f[i][2]
  <2>1. i \in own  BY <1>2, <1>3
  <2>2. \A j \in own : j \in Int /\ i <= j  BY <1>2, <1>3
  <2>3. k = i
    <3> HIDE DEF own
    <3>1. k \in own /\ \A j \in own : k <= j  BY <1>k, <2>1, <2>2
    <3> QED BY <2>1, <2>2, <3>1
  <2> QED BY <1>1, <2>1, <2>3
<1>4. (\A i \in 1..Len(f) : f[i][1] # number) => First(f, number, default) = default
  BY <1>1, <1>2
<1> QED BY <1>3, <1>4

\* Texts that decode, joined, decode to the fields of both.
LEMMA JoinFields ==
  \A a, b \in Bytes : Good(a) /\ Good(b) =>
     Good(a \o b) /\ DecodeFields[a \o b] = DecodeFields[a] \o DecodeFields[b]
BY FieldsJoin

\* A pair after one pair.
LEMMA TwoPairs == \A x, y \in Pairs : <<x>> \o <<y>> = <<x, y>>
<1> TAKE x, y \in Pairs
<1> DEFINE s == <<x>>  t == <<y>>  u == <<x, y>>
<1>1. s \in Seq(Pairs) /\ Len(s) = 1 /\ s[1] = x  OBVIOUS
<1>2. t \in Seq(Pairs) /\ Len(t) = 1 /\ t[1] = y  OBVIOUS
<1>3. u \in Seq(Pairs) /\ Len(u) = 2 /\ u[1] = x /\ u[2] = y  OBVIOUS
<1> HIDE DEF s, t, u
<1>4. /\ s \o t \in Seq(Pairs) /\ Len(s \o t) = Len(s) + Len(t)
      /\ \A i \in 1..(Len(s) + Len(t)) : (s \o t)[i] = IF i <= Len(s) THEN s[i] ELSE t[i - Len(s)]
  BY <1>1, <1>2, ConcatProperties
<1>5. Len(s) + Len(t) = 2  BY <1>1, <1>2
<1>6. \A i \in 1..2 : i = 1 \/ i = 2  OBVIOUS
<1>7. 1 \in 1..2 /\ 2 \in 1..2 /\ 2 - 1 = 1 /\ 1 <= 1 /\ ~(2 <= 1)  OBVIOUS
<1>8. (s \o t)[1] = s[1] /\ (s \o t)[2] = t[1]  BY <1>1, <1>4, <1>5, <1>7
<1>9. \A i \in 1..2 : (s \o t)[i] = u[i]  BY <1>1, <1>2, <1>3, <1>6, <1>8
<1>10. s \o t = u  BY <1>3, <1>4, <1>5, <1>9, SeqEqual
<1> QED BY <1>10 DEF s, t, u

\* A pair after two pairs.
LEMMA ThreePairs == \A x, y, z \in Pairs : <<x, y>> \o <<z>> = <<x, y, z>>
<1> TAKE x, y, z \in Pairs
<1> DEFINE s == <<x, y>>  t == <<z>>  u == <<x, y, z>>
<1>1. s \in Seq(Pairs) /\ Len(s) = 2 /\ s[1] = x /\ s[2] = y  OBVIOUS
<1>2. t \in Seq(Pairs) /\ Len(t) = 1 /\ t[1] = z  OBVIOUS
<1>3. u \in Seq(Pairs) /\ Len(u) = 3 /\ u[1] = x /\ u[2] = y /\ u[3] = z  OBVIOUS
<1> HIDE DEF s, t, u
<1>4. /\ s \o t \in Seq(Pairs) /\ Len(s \o t) = Len(s) + Len(t)
      /\ \A i \in 1..(Len(s) + Len(t)) : (s \o t)[i] = IF i <= Len(s) THEN s[i] ELSE t[i - Len(s)]
  BY <1>1, <1>2, ConcatProperties
<1>5. Len(s) + Len(t) = 3  BY <1>1, <1>2
<1>6. \A i \in 1..3 : i = 1 \/ i = 2 \/ i = 3  OBVIOUS
<1>7. 1 \in 1..3 /\ 2 \in 1..3 /\ 3 \in 1..3 /\ 3 - 2 = 1 /\ 1 <= 2 /\ 2 <= 2 /\ ~(3 <= 2)  OBVIOUS
<1>8. (s \o t)[1] = s[1] /\ (s \o t)[2] = s[2] /\ (s \o t)[3] = t[1]
  BY <1>1, <1>4, <1>5, <1>7
<1>9. \A i \in 1..3 : (s \o t)[i] = u[i]  BY <1>1, <1>2, <1>3, <1>6, <1>8
<1>10. s \o t = u  BY <1>3, <1>4, <1>5, <1>9, SeqEqual
<1> QED BY <1>10 DEF s, t, u

\* A pair after three pairs.
LEMMA FourPairs == \A x, y, z, w \in Pairs : <<x, y, z>> \o <<w>> = <<x, y, z, w>>
<1> TAKE x, y, z, w \in Pairs
<1> DEFINE s == <<x, y, z>>  t == <<w>>  u == <<x, y, z, w>>
<1>1. s \in Seq(Pairs) /\ Len(s) = 3 /\ s[1] = x /\ s[2] = y /\ s[3] = z  OBVIOUS
<1>2. t \in Seq(Pairs) /\ Len(t) = 1 /\ t[1] = w  OBVIOUS
<1>3. u \in Seq(Pairs) /\ Len(u) = 4 /\ u[1] = x /\ u[2] = y /\ u[3] = z /\ u[4] = w  OBVIOUS
<1> HIDE DEF s, t, u
<1>4. /\ s \o t \in Seq(Pairs) /\ Len(s \o t) = Len(s) + Len(t)
      /\ \A i \in 1..(Len(s) + Len(t)) : (s \o t)[i] = IF i <= Len(s) THEN s[i] ELSE t[i - Len(s)]
  BY <1>1, <1>2, ConcatProperties
<1>5. Len(s) + Len(t) = 4  BY <1>1, <1>2
<1>6. \A i \in 1..4 : i = 1 \/ i = 2 \/ i = 3 \/ i = 4  OBVIOUS
<1>7. /\ 1 \in 1..4 /\ 2 \in 1..4 /\ 3 \in 1..4 /\ 4 \in 1..4 /\ 4 - 3 = 1
      /\ 1 <= 3 /\ 2 <= 3 /\ 3 <= 3 /\ ~(4 <= 3)
  OBVIOUS
<1>8. (s \o t)[1] = s[1] /\ (s \o t)[2] = s[2] /\ (s \o t)[3] = s[3] /\ (s \o t)[4] = t[1]
  BY <1>1, <1>4, <1>5, <1>7
<1>9. \A i \in 1..4 : (s \o t)[i] = u[i]  BY <1>1, <1>2, <1>3, <1>6, <1>8
<1>10. s \o t = u  BY <1>3, <1>4, <1>5, <1>9, SeqEqual
<1> QED BY <1>10 DEF s, t, u

\* The text of one more field.
LEMMA Second ==
  \A a, b \in Bytes : \A x, w \in Pairs :
     Good(a) /\ Good(b) /\ DecodeFields[a] = <<x>> /\ DecodeFields[b] = <<w>> =>
        a \o b \in Bytes /\ Good(a \o b) /\ DecodeFields[a \o b] = <<x, w>>
<1> TAKE a, b \in Bytes
<1> TAKE x, w \in Pairs
<1> HAVE Good(a) /\ Good(b) /\ DecodeFields[a] = <<x>> /\ DecodeFields[b] = <<w>>
<1>1. a \o b \in Bytes  BY Joining
<1>2. Good(a \o b) /\ DecodeFields[a \o b] = DecodeFields[a] \o DecodeFields[b]  BY JoinFields
<1>3. <<x>> \o <<w>> = <<x, w>>  BY TwoPairs
<1> QED BY <1>1, <1>2, <1>3, Zenon

\* The text of a third field.
LEMMA Third ==
  \A a, b \in Bytes : \A x, y, w \in Pairs :
     Good(a) /\ Good(b) /\ DecodeFields[a] = <<x, y>> /\ DecodeFields[b] = <<w>> =>
        a \o b \in Bytes /\ Good(a \o b) /\ DecodeFields[a \o b] = <<x, y, w>>
<1> TAKE a, b \in Bytes
<1> TAKE x, y, w \in Pairs
<1> HAVE Good(a) /\ Good(b) /\ DecodeFields[a] = <<x, y>> /\ DecodeFields[b] = <<w>>
<1>1. a \o b \in Bytes  BY Joining
<1>2. Good(a \o b) /\ DecodeFields[a \o b] = DecodeFields[a] \o DecodeFields[b]  BY JoinFields
<1>3. <<x, y>> \o <<w>> = <<x, y, w>>  BY ThreePairs
<1> QED BY <1>1, <1>2, <1>3, Zenon

\* The text of a fourth field.
LEMMA Fourth ==
  \A a, b \in Bytes : \A x, y, z, w \in Pairs :
     Good(a) /\ Good(b) /\ DecodeFields[a] = <<x, y, z>> /\ DecodeFields[b] = <<w>> =>
        a \o b \in Bytes /\ Good(a \o b) /\ DecodeFields[a \o b] = <<x, y, z, w>>
<1> TAKE a, b \in Bytes
<1> TAKE x, y, z, w \in Pairs
<1> HAVE Good(a) /\ Good(b) /\ DecodeFields[a] = <<x, y, z>> /\ DecodeFields[b] = <<w>>
<1>1. a \o b \in Bytes  BY Joining
<1>2. Good(a \o b) /\ DecodeFields[a \o b] = DecodeFields[a] \o DecodeFields[b]  BY JoinFields
<1>3. <<x, y, z>> \o <<w>> = <<x, y, z, w>>  BY FourPairs
<1> QED BY <1>1, <1>2, <1>3, Zenon

\* A number and a value make a pair.
LEMMA PairIs == \A n \in Nat : \A v \in Value : <<n, v>> \in Pairs
BY DEF Pairs

\* The field numbers the messages use fit in a key of one byte.
LEMMA TagsAre == /\ Tag(1) /\ Tag(2) /\ Tag(3) /\ Tag(4) /\ Tag(7)
                 /\ 1 \in Nat /\ 2 \in Nat /\ 3 \in Nat /\ 4 \in Nat /\ 7 \in Nat
BY DEF Tag

\* The fields of two, three and four pairs.
LEMMA FirstOfTwo ==
  \A v, w \in Value : \A d :
     LET f == <<<<1, v>>, <<2, w>>>>
     IN f \in Seq(Pairs) /\ First(f, 1, d) = v /\ First(f, 2, d) = w /\ First(f, 3, d) = d
<1> TAKE v, w \in Value
<1> TAKE d
<1> DEFINE f == <<<<1, v>>, <<2, w>>>>
<1>1. f \in Seq(Pairs) /\ Len(f) = 2 /\ f[1] = <<1, v>> /\ f[2] = <<2, w>>  BY PairIs
<1>2. f[1][1] = 1 /\ f[1][2] = v /\ f[2][1] = 2 /\ f[2][2] = w  BY <1>1
<1>3. \A i \in 1..Len(f) : i = 1 \/ i = 2  BY <1>1
<1>4. 1 \in 1..Len(f) /\ 2 \in 1..Len(f)  BY <1>1
<1> HIDE DEF f
<1>5. First(f, 1, d) = v
  <2>1. \A j \in 1..Len(f) : j < 1 => f[j][1] # 1  BY <1>3
  <2> QED BY <1>1, <1>2, <1>4, <2>1, FirstIs
<1>6. First(f, 2, d) = w
  <2>1. \A j \in 1..Len(f) : j < 2 => f[j][1] # 2  BY <1>2, <1>3
  <2> QED BY <1>1, <1>2, <1>4, <2>1, FirstIs
<1>7. First(f, 3, d) = d
  <2>1. \A j \in 1..Len(f) : f[j][1] # 3  BY <1>2, <1>3
  <2> QED BY <1>1, <2>1, FirstIs
<1> QED BY <1>1, <1>5, <1>6, <1>7 DEF f

\* The fields of three pairs.
LEMMA FirstOfThree ==
  \A n \in Nat : \A u, v, w \in Value : \A d : 2 < n =>
     LET f == <<<<1, u>>, <<2, v>>, <<n, w>>>>
     IN f \in Seq(Pairs) /\ First(f, 1, d) = u /\ First(f, 2, d) = v /\ First(f, n, d) = w
<1> SUFFICES ASSUME NEW n \in Nat, NEW u \in Value, NEW v \in Value, NEW w \in Value, NEW d, 2 < n
             PROVE  LET f == <<<<1, u>>, <<2, v>>, <<n, w>>>>
                    IN /\ f \in Seq(Pairs)
                       /\ First(f, 1, d) = u /\ First(f, 2, d) = v /\ First(f, n, d) = w
  OBVIOUS
<1> DEFINE f == <<<<1, u>>, <<2, v>>, <<n, w>>>>
<1>1. f \in Seq(Pairs) /\ Len(f) = 3 /\ f[1] = <<1, u>> /\ f[2] = <<2, v>> /\ f[3] = <<n, w>>  BY PairIs
<1>2. f[1][1] = 1 /\ f[1][2] = u /\ f[2][1] = 2 /\ f[2][2] = v /\ f[3][1] = n /\ f[3][2] = w
  BY <1>1
<1>3. \A i \in 1..Len(f) : i = 1 \/ i = 2 \/ i = 3  BY <1>1
<1>4. 1 \in 1..Len(f) /\ 2 \in 1..Len(f) /\ 3 \in 1..Len(f)  BY <1>1
<1> HIDE DEF f
<1>5. First(f, 1, d) = u
  <2>1. \A j \in 1..Len(f) : j < 1 => f[j][1] # 1  BY <1>3
  <2> QED BY <1>1, <1>2, <1>4, <2>1, FirstIs
<1>6. First(f, 2, d) = v
  <2>1. \A j \in 1..Len(f) : j < 2 => f[j][1] # 2  BY <1>2, <1>3
  <2> QED BY <1>1, <1>2, <1>4, <2>1, FirstIs
<1>7. First(f, n, d) = w
  <2>1. \A j \in 1..Len(f) : j < 3 => f[j][1] # n  BY <1>2, <1>3
  <2> QED BY <1>1, <1>2, <1>4, <2>1, FirstIs
<1> QED BY <1>1, <1>5, <1>6, <1>7 DEF f

\* The fields of four pairs.
LEMMA FirstOfFour ==
  \A u, v, w, x \in Value : \A d :
     LET f == <<<<1, u>>, <<2, v>>, <<3, w>>, <<4, x>>>>
     IN /\ f \in Seq(Pairs) /\ First(f, 1, d) = u /\ First(f, 2, d) = v
        /\ First(f, 3, d) = w /\ First(f, 4, d) = x
<1> TAKE u, v, w, x \in Value
<1> TAKE d
<1> DEFINE f == <<<<1, u>>, <<2, v>>, <<3, w>>, <<4, x>>>>
<1>1. /\ f \in Seq(Pairs) /\ Len(f) = 4 /\ f[1] = <<1, u>> /\ f[2] = <<2, v>>
      /\ f[3] = <<3, w>> /\ f[4] = <<4, x>>
  BY PairIs
<1>2. /\ f[1][1] = 1 /\ f[1][2] = u /\ f[2][1] = 2 /\ f[2][2] = v
      /\ f[3][1] = 3 /\ f[3][2] = w /\ f[4][1] = 4 /\ f[4][2] = x
  BY <1>1
<1>3. \A i \in 1..Len(f) : i = 1 \/ i = 2 \/ i = 3 \/ i = 4  BY <1>1
<1>4. 1 \in 1..Len(f) /\ 2 \in 1..Len(f) /\ 3 \in 1..Len(f) /\ 4 \in 1..Len(f)  BY <1>1
<1> HIDE DEF f
<1>5. First(f, 1, d) = u
  <2>1. \A j \in 1..Len(f) : j < 1 => f[j][1] # 1  BY <1>3
  <2> QED BY <1>1, <1>2, <1>4, <2>1, FirstIs
<1>6. First(f, 2, d) = v
  <2>1. \A j \in 1..Len(f) : j < 2 => f[j][1] # 2  BY <1>2, <1>3
  <2> QED BY <1>1, <1>2, <1>4, <2>1, FirstIs
<1>7. First(f, 3, d) = w
  <2>1. \A j \in 1..Len(f) : j < 3 => f[j][1] # 3  BY <1>2, <1>3
  <2> QED BY <1>1, <1>2, <1>4, <2>1, FirstIs
<1>8. First(f, 4, d) = x
  <2>1. \A j \in 1..Len(f) : j < 4 => f[j][1] # 4  BY <1>2, <1>3
  <2> QED BY <1>1, <1>2, <1>4, <2>1, FirstIs
<1> QED BY <1>1, <1>5, <1>6, <1>7, <1>8 DEF f

\* The field of one pair.
LEMMA FirstOfOne ==
  \A v \in Value : \A d : <<<<1, v>>>> \in Seq(Pairs) /\ First(<<<<1, v>>>>, 1, d) = v
<1> TAKE v \in Value
<1> TAKE d
<1> DEFINE f == <<<<1, v>>>>
<1>1. f \in Seq(Pairs) /\ Len(f) = 1 /\ f[1] = <<1, v>>  BY PairIs
<1>2. f[1][1] = 1 /\ f[1][2] = v /\ 1 \in 1..Len(f)  BY <1>1
<1>3. \A j \in 1..Len(f) : j < 1 => f[j][1] # 1  BY <1>1
<1> HIDE DEF f
<1>4. First(f, 1, d) = v  BY <1>1, <1>2, <1>3, FirstIs
<1> QED BY <1>1, <1>4 DEF f

\* Numbers and texts are values of fields.
LEMMA Values == Word \subseteq Nat /\ Word \subseteq Value /\ Bytes \subseteq Value
BY DEF Word, Value

-----------------------------------------------------------------------------
(* The parts of a message are read as they were meant. *)

\* _decode_connection_response reads the connection response that was encoded.
LEMMA ConnectionRead ==
  ASSUME NEW token \in Bytes, Len(token) \in Word, NEW status \in Word,
         NEW time \in Word \cup {-1},
         NEW p, p = [kind |-> "connection", token |-> token, status |-> status, time |-> time]
  PROVE  Good(PartBody(p)) /\ DecodeConnection(PartBody(p)) = p
<1> DEFINE a == EncodeBytes(1, token)
           b == EncodeUint(2, status)
           c == IF time < 0 THEN <<>> ELSE EncodeUint(3, time)
<1>1. PartBody(p) = a \o b \o c
  <2>1. p.kind = "connection" /\ p.token = token /\ p.status = status /\ p.time = time  OBVIOUS
  <2> QED BY <2>1 DEF PartBody
<1>2. a \in Bytes /\ Good(a) /\ DecodeFields[a] = <<<<1, token>>>>  BY BytesField, TagsAre
<1>3. b \in Bytes /\ Good(b) /\ DecodeFields[b] = <<<<2, status>>>>  BY UintField, TagsAre
<1>4. token \in Value /\ status \in Value  BY Values
<1>v. <<1, token>> \in Pairs /\ <<2, status>> \in Pairs  BY <1>4, PairIs
<1> HIDE DEF a, b
<1>5. /\ a \o b \in Bytes /\ Good(a \o b)
      /\ DecodeFields[a \o b] = <<<<1, token>>, <<2, status>>>>
  BY <1>2, <1>3, <1>v, Second
<1>6. CASE time < 0
  <2>1. c = <<>> /\ time = -1
    <3>1. time \in Nat \/ time = -1  BY Values
    <3> QED BY <1>6, <3>1
  <2>2. PartBody(p) = a \o b  BY <1>1, <1>5, <2>1, JoinNone
  <2>3. DecodeConnection(PartBody(p)) =
          [kind |-> "connection", token |-> token, status |-> status, time |-> -1]
    <3> DEFINE f == DecodeFields[PartBody(p)]
    <3>1. f = <<<<1, token>>, <<2, status>>>>  BY <1>5, <2>2
    <3>2. First(f, 1, <<>>) = token /\ First(f, 2, 0) = status /\ First(f, 3, -1) = -1
      BY <1>4, <3>1, FirstOfTwo
    <3>3. DecodeConnection(PartBody(p)) =
            [kind |-> "connection", token |-> First(f, 1, <<>>), status |-> First(f, 2, 0),
             time |-> First(f, 3, -1)]
      BY DEF DecodeConnection
    <3> HIDE DEF f
    <3> QED BY <3>2, <3>3
  <2> QED BY <1>5, <2>1, <2>2, <2>3
<1>7. CASE ~(time < 0)
  <2>1. c = EncodeUint(3, time) /\ time \in Word  BY <1>7
  <2>2. c \in Bytes /\ Good(c) /\ DecodeFields[c] = <<<<3, time>>>>  BY <2>1, UintField, TagsAre
  <2>3. time \in Value /\ 3 \in Nat /\ 2 < 3  BY <2>1, Values
  <2>4. <<3, time>> \in Pairs  BY <2>3, PairIs
  <2> HIDE DEF c
  <2>5. /\ Good(PartBody(p))
        /\ DecodeFields[PartBody(p)] = <<<<1, token>>, <<2, status>>, <<3, time>>>>
    <3> DEFINE ab == a \o b
    <3>1. ab \in Bytes /\ Good(ab) /\ DecodeFields[ab] = <<<<1, token>>, <<2, status>>>>  BY <1>5
    <3>2. PartBody(p) = ab \o c  BY <1>1
    <3> HIDE DEF ab
    <3>3. Good(ab \o c) /\ DecodeFields[ab \o c] = <<<<1, token>>, <<2, status>>, <<3, time>>>>
      <4>1. PICK x \in Pairs, y \in Pairs, w \in Pairs :
               x = <<1, token>> /\ y = <<2, status>> /\ w = <<3, time>>
        BY <1>v, <2>4
      <4>2. DecodeFields[ab] = <<x, y>> /\ DecodeFields[c] = <<w>>  BY <2>2, <3>1, <4>1, Zenon
      <4>3. Good(ab \o c) /\ DecodeFields[ab \o c] = <<x, y, w>>  BY <2>2, <3>1, <4>2, Third
      <4> QED BY <4>1, <4>3, Zenon
    <3> QED BY <3>2, <3>3, Zenon
  <2>6. DecodeConnection(PartBody(p)) =
          [kind |-> "connection", token |-> token, status |-> status, time |-> time]
    BY <1>4, <2>3, <2>5, FirstOfThree DEF DecodeConnection
  <2> QED BY <2>5, <2>6
<1> QED BY <1>6, <1>7

\* _decode_push_message reads the push that was encoded.
LEMMA PushRead ==
  ASSUME NEW topic \in Bytes, Len(topic) \in Word, NEW id \in Word,
         NEW payload \in Bytes, Len(payload) \in Word,
         NEW p, p = [kind |-> "push", topic |-> topic, id |-> id, payload |-> payload]
  PROVE  Good(PartBody(p)) /\ DecodePush(PartBody(p)) = p
<1> DEFINE a == EncodeBytes(1, topic)
           b == EncodeUint(2, id)
           c == EncodeBytes(4, payload)
<1>1. PartBody(p) = a \o b \o c
  <2>1. p.kind = "push" /\ p.topic = topic /\ p.id = id /\ p.payload = payload  OBVIOUS
  <2> QED BY <2>1 DEF PartBody
<1>2. a \in Bytes /\ Good(a) /\ DecodeFields[a] = <<<<1, topic>>>>  BY BytesField, TagsAre
<1>3. b \in Bytes /\ Good(b) /\ DecodeFields[b] = <<<<2, id>>>>  BY UintField, TagsAre
<1>4. c \in Bytes /\ Good(c) /\ DecodeFields[c] = <<<<4, payload>>>>  BY BytesField, TagsAre
<1>5. topic \in Value /\ id \in Value /\ payload \in Value /\ 4 \in Nat /\ 2 < 4  BY Values
<1>6. <<1, topic>> \in Pairs /\ <<2, id>> \in Pairs /\ <<4, payload>> \in Pairs  BY <1>5, PairIs
<1> HIDE DEF a, b, c
<1>7. /\ a \o b \in Bytes /\ Good(a \o b)
      /\ DecodeFields[a \o b] = <<<<1, topic>>, <<2, id>>>>
  BY <1>2, <1>3, <1>6, Second
<1>8. /\ Good(PartBody(p))
      /\ DecodeFields[PartBody(p)] = <<<<1, topic>>, <<2, id>>, <<4, payload>>>>
  <2> DEFINE ab == a \o b
  <2>1. ab \in Bytes /\ Good(ab) /\ DecodeFields[ab] = <<<<1, topic>>, <<2, id>>>>  BY <1>7
  <2>2. PartBody(p) = ab \o c  BY <1>1
  <2> HIDE DEF ab
  <2>3. Good(ab \o c) /\ DecodeFields[ab \o c] = <<<<1, topic>>, <<2, id>>, <<4, payload>>>>
    BY <1>4, <1>6, <2>1, Third
  <2> QED BY <2>2, <2>3, Zenon
<1>9. DecodePush(PartBody(p)) = [kind |-> "push", topic |-> topic, id |-> id, payload |-> payload]
  <2> DEFINE f == <<<<1, topic>>, <<2, id>>, <<4, payload>>>>
  <2>1. First(f, 1, <<>>) = topic  BY <1>5, FirstOfThree
  <2>2. First(f, 2, 0) = id  BY <1>5, FirstOfThree
  <2>3. First(f, 4, <<>>) = payload  BY <1>5, FirstOfThree
  <2>4. DecodeFields[PartBody(p)] = f  BY <1>8
  <2> HIDE DEF f
  <2> QED BY <2>1, <2>2, <2>3, <2>4, Zenon DEF DecodePush
<1> QED BY <1>8, <1>9

\* _decode_acknowledgement_message reads the acknowledgement that was encoded.
LEMMA AckRead ==
  ASSUME NEW topic \in Bytes, Len(topic) \in Word, NEW id \in Word, NEW status \in Word,
         NEW p, p = [kind |-> "ack", topic |-> topic, id |-> id, status |-> status]
  PROVE  Good(PartBody(p)) /\ DecodeAck(PartBody(p)) = p
<1> DEFINE a == EncodeBytes(1, topic)
           b == EncodeUint(2, id)
           c == EncodeUint(3, status)
<1>1. PartBody(p) = a \o b \o c
  <2>1. p.kind = "ack" /\ p.topic = topic /\ p.id = id /\ p.status = status  OBVIOUS
  <2> QED BY <2>1 DEF PartBody
<1>2. a \in Bytes /\ Good(a) /\ DecodeFields[a] = <<<<1, topic>>>>  BY BytesField, TagsAre
<1>3. b \in Bytes /\ Good(b) /\ DecodeFields[b] = <<<<2, id>>>>  BY UintField, TagsAre
<1>4. c \in Bytes /\ Good(c) /\ DecodeFields[c] = <<<<3, status>>>>  BY UintField, TagsAre
<1>5. topic \in Value /\ id \in Value /\ status \in Value /\ 3 \in Nat /\ 2 < 3  BY Values
<1>6. <<1, topic>> \in Pairs /\ <<2, id>> \in Pairs /\ <<3, status>> \in Pairs  BY <1>5, PairIs
<1> HIDE DEF a, b, c
<1>7. /\ a \o b \in Bytes /\ Good(a \o b)
      /\ DecodeFields[a \o b] = <<<<1, topic>>, <<2, id>>>>
  BY <1>2, <1>3, <1>6, Second
<1>8. /\ Good(PartBody(p))
      /\ DecodeFields[PartBody(p)] = <<<<1, topic>>, <<2, id>>, <<3, status>>>>
  <2> DEFINE ab == a \o b
  <2>1. ab \in Bytes /\ Good(ab) /\ DecodeFields[ab] = <<<<1, topic>>, <<2, id>>>>  BY <1>7
  <2>2. PartBody(p) = ab \o c  BY <1>1
  <2> HIDE DEF ab
  <2>3. Good(ab \o c) /\ DecodeFields[ab \o c] = <<<<1, topic>>, <<2, id>>, <<3, status>>>>
    BY <1>4, <1>6, <2>1, Third
  <2> QED BY <2>2, <2>3, Zenon
<1>9. DecodeAck(PartBody(p)) = [kind |-> "ack", topic |-> topic, id |-> id, status |-> status]
  <2> DEFINE f == <<<<1, topic>>, <<2, id>>, <<3, status>>>>
  <2>1. First(f, 1, <<>>) = topic  BY <1>5, FirstOfThree
  <2>2. First(f, 2, 0) = id  BY <1>5, FirstOfThree
  <2>3. First(f, 3, 0) = status  BY <1>5, FirstOfThree
  <2>4. DecodeFields[PartBody(p)] = f  BY <1>8
  <2> HIDE DEF f
  <2> QED BY <2>1, <2>2, <2>3, <2>4, Zenon DEF DecodeAck
<1> QED BY <1>8, <1>9

\* The topics of a subscription, two messages deep, are read back one by one.
LEMMA TopicsRead ==
  ASSUME NEW topics \in Seq(Bytes),
         \A k \in 1..Len(topics) : /\ Len(topics[k]) \in Word
                                   /\ Len(EncodeBytes(1, topics[k])) \in Word
  PROVE  /\ Good(TopicList(topics))
         /\ DecodeFields[TopicList(topics)] = [k \in 1..Len(topics) |-> <<1, EncodeBytes(1, topics[k])>>]
         /\ \A k \in 1..Len(topics) :
              First(DecodeFields[EncodeBytes(1, topics[k])], 1, <<>>) = topics[k]
<1> DEFINE inner(k) == EncodeBytes(1, topics[k])
           outer(k) == EncodeBytes(1, inner(k))
           s == [k \in 1..Len(topics) |-> outer(k)]
           p == [k \in 1..Len(topics) |-> <<1, inner(k)>>]
<1>1. Len(topics) \in Nat /\ DOMAIN topics = 1..Len(topics)  BY LenProperties
<1>2. ASSUME NEW k \in 1..Len(topics)
      PROVE  /\ inner(k) \in Bytes /\ Good(inner(k)) /\ DecodeFields[inner(k)] = <<<<1, topics[k]>>>>
             /\ Len(inner(k)) \in Word
             /\ First(DecodeFields[inner(k)], 1, <<>>) = topics[k]
  <2>1. topics[k] \in Bytes  BY ElementOfSeq
  <2>2. Len(topics[k]) \in Word /\ Len(inner(k)) \in Word  OBVIOUS
  <2>3. inner(k) \in Bytes /\ Good(inner(k)) /\ DecodeFields[inner(k)] = <<<<1, topics[k]>>>>
    BY <2>1, <2>2, BytesField, TagsAre
  <2>4. topics[k] \in Value  BY <2>1, Values
  <2> HIDE DEF inner
  <2> QED BY <2>2, <2>3, <2>4, FirstOfOne
<1>3. ASSUME NEW k \in 1..Len(topics)
      PROVE  /\ outer(k) \in Bytes /\ Good(outer(k)) /\ DecodeFields[outer(k)] = <<<<1, inner(k)>>>>
             /\ <<1, inner(k)>> \in Pairs
  <2>1. inner(k) \in Bytes /\ Len(inner(k)) \in Word  BY <1>2
  <2> HIDE DEF inner
  <2>2. inner(k) \in Value  BY <2>1, Values
  <2> QED BY <2>1, <2>2, BytesField, TagsAre, PairIs
<1>4. TopicList(topics) = FlattenSeq(s)  BY <1>1 DEF TopicList
<1> HIDE DEF inner, outer
<1>5. s \in Seq(Bytes) /\ Len(s) = Len(topics)
  <2>1. \A k \in 1..Len(topics) : outer(k) \in Bytes  BY <1>3
  <2> QED BY <1>1, <2>1
<1>6. p \in Seq(Pairs) /\ Len(p) = Len(topics)  BY <1>1, <1>3
<1>7. \A k \in 1..Len(s) : Good(s[k]) /\ DecodeFields[s[k]] = <<p[k]>>  BY <1>3, <1>5
<1>8. Good(FlattenSeq(s)) /\ DecodeFields[FlattenSeq(s)] = p
  <2> HIDE DEF s, p
  <2> QED BY <1>5, <1>6, <1>7, FlattenFields
<1>9. p = [k \in 1..Len(topics) |-> <<1, EncodeBytes(1, topics[k])>>]  BY DEF inner
<1>10. \A k \in 1..Len(topics) :
              First(DecodeFields[EncodeBytes(1, topics[k])], 1, <<>>) = topics[k]
  BY <1>2 DEF inner
<1> QED BY <1>4, <1>8, <1>9, <1>10

\* _decode_channel_subscription_response reads the response that was encoded.
LEMMA SubscriptionRead ==
  ASSUME NEW topics \in Seq(Bytes), NEW id \in Word, NEW status \in Word, NEW retry \in Word,
         Len(TopicList(topics)) \in Word,
         \A k \in 1..Len(topics) : /\ Len(topics[k]) \in Word
                                   /\ Len(EncodeBytes(1, topics[k])) \in Word,
         NEW p, p = [kind |-> "subscription", topics |-> topics, id |-> id,
                     status |-> status, retry |-> retry]
  PROVE  Good(PartBody(p)) /\ DecodeSubscription(PartBody(p)) = Understood(p)
<1> DEFINE list == TopicList(topics)
           a == EncodeBytes(1, list)
           b == EncodeUint(2, id)
           c == EncodeUint(3, status)
           d == EncodeUint(4, retry)
           read == [k \in 1..Len(topics) |-> <<1, EncodeBytes(1, topics[k])>>]
<1>0. /\ list \in Bytes /\ DecodeFields[list] = read
      /\ \A k \in 1..Len(topics) :
              First(DecodeFields[EncodeBytes(1, topics[k])], 1, <<>>) = topics[k]
  BY TopicsRead DEF Good
<1>1. PartBody(p) = ((a \o b) \o c) \o d
  <2>1. /\ p.kind = "subscription" /\ p.topics = topics /\ p.id = id /\ p.status = status
        /\ p.retry = retry
    OBVIOUS
  <2> QED BY <2>1 DEF PartBody
<1>z. Len(list) \in Word  OBVIOUS
<1> HIDE DEF list
<1>2. a \in Bytes /\ Good(a) /\ DecodeFields[a] = <<<<1, list>>>>
  BY <1>0, <1>z, BytesField, TagsAre
<1>3. b \in Bytes /\ Good(b) /\ DecodeFields[b] = <<<<2, id>>>>  BY UintField, TagsAre
<1>4. c \in Bytes /\ Good(c) /\ DecodeFields[c] = <<<<3, status>>>>  BY UintField, TagsAre
<1>5. d \in Bytes /\ Good(d) /\ DecodeFields[d] = <<<<4, retry>>>>  BY UintField, TagsAre
<1>6. list \in Value /\ id \in Value /\ status \in Value /\ retry \in Value  BY <1>0, Values
<1> HIDE DEF a, b, c, d, read
<1>7. PICK w \in Pairs, x \in Pairs, y \in Pairs, z \in Pairs :
        w = <<1, list>> /\ x = <<2, id>> /\ y = <<3, status>> /\ z = <<4, retry>>
  BY <1>6, PairIs, TagsAre
<1>e. /\ DecodeFields[a] = <<w>> /\ DecodeFields[b] = <<x>>
      /\ DecodeFields[c] = <<y>> /\ DecodeFields[d] = <<z>>
  BY <1>2, <1>3, <1>4, <1>5, <1>7, Zenon
<1>f. a \in Bytes /\ b \in Bytes /\ Good(a) /\ Good(b)  BY <1>2, <1>3
<1>8. PICK ab \in Bytes : ab = a \o b /\ Good(ab) /\ DecodeFields[ab] = <<w, x>>
  <2>1. a \o b \in Bytes /\ Good(a \o b) /\ DecodeFields[a \o b] = <<w, x>>
    BY <1>e, <1>f, Second
  <2> QED BY <2>1
<1>9. PICK abc \in Bytes : abc = ab \o c /\ Good(abc) /\ DecodeFields[abc] = <<w, x, y>>
  <2>1. ab \o c \in Bytes /\ Good(ab \o c) /\ DecodeFields[ab \o c] = <<w, x, y>>
    BY <1>4, <1>e, <1>8, Third
  <2> QED BY <2>1
<1>10. Good(abc \o d) /\ DecodeFields[abc \o d] = <<w, x, y, z>>  BY <1>5, <1>e, <1>9, Fourth
<1>11. PartBody(p) = abc \o d  BY <1>1, <1>8, <1>9
<1> DEFINE f == DecodeFields[PartBody(p)]
<1>12. f = <<<<1, list>>, <<2, id>>, <<3, status>>, <<4, retry>>>>  BY <1>7, <1>10, <1>11
<1>13. First(f, 1, <<>>) = list  BY <1>6, <1>12, FirstOfFour
<1>14. First(f, 2, 0) = id /\ First(f, 3, 0) = status /\ First(f, 4, 0) = retry
  BY <1>6, <1>12, FirstOfFour
<1> HIDE DEF f
<1> DEFINE found == {First(DecodeFields[read[i][2]], 1, <<>>) : i \in {j \in DOMAIN read : read[j][1] = 1}}
<1>15. DecodeSubscription(PartBody(p)) =
         [kind |-> "subscription", id |-> id, status |-> status, retry |-> retry,
          topics |-> found \ {<<>>}]
  <2>1. DecodeSubscription(PartBody(p)) =
         [kind |-> "subscription", id |-> First(f, 2, 0), status |-> First(f, 3, 0),
          retry |-> First(f, 4, 0),
          topics |-> {First(DecodeFields[DecodeFields[First(f, 1, <<>>)][i][2]], 1, <<>>) :
              i \in {j \in DOMAIN DecodeFields[First(f, 1, <<>>)] :
                       DecodeFields[First(f, 1, <<>>)][j][1] = 1}} \ {<<>>}]
    BY DEF DecodeSubscription, f
  <2>2. DecodeFields[First(f, 1, <<>>)] = read  BY <1>0, <1>13
  <2> QED BY <1>14, <2>1, <2>2
<1>16. found = {topics[i] : i \in 1..Len(topics)}
  <2>1. DOMAIN read = 1..Len(topics)  BY DEF read
  <2>2. \A i \in 1..Len(topics) : read[i][1] = 1 /\ read[i][2] = EncodeBytes(1, topics[i])
    BY DEF read
  <2>3. {j \in DOMAIN read : read[j][1] = 1} = 1..Len(topics)  BY <2>1, <2>2
  <2>4. \A i \in 1..Len(topics) : First(DecodeFields[read[i][2]], 1, <<>>) = topics[i]
    BY <1>0, <2>2
  <2> QED BY <2>3, <2>4
<1>17. Understood(p) = [kind |-> "subscription", id |-> id, status |-> status, retry |-> retry,
          topics |-> {topics[i] : i \in 1..Len(topics)} \ {<<>>}]
  <2>1. DOMAIN topics = 1..Len(topics)  BY LenProperties
  <2>2. p.kind = "subscription"  OBVIOUS
  <2>3. Understood(p) = [p EXCEPT !.topics = {topics[i] : i \in 1..Len(topics)} \ {<<>>}]
    BY <2>1, <2>2 DEF Understood
  <2> QED BY <2>3
<1> QED BY <1>10, <1>11, <1>15, <1>16, <1>17

\* The kinds of parts and their field numbers.
LEMMA Kinds ==
  /\ PartNumber["connection"] = 1 /\ PartNumber["push"] = 2
  /\ PartNumber["subscription"] = 3 /\ PartNumber["ack"] = 7
  /\ \A p \in Part : p.kind \in {"connection", "push", "subscription", "ack"}
BY DEF PartNumber, Part

\* Every part of a message is read as it was meant.
LEMMA PartRead ==
  ASSUME NEW m, IsMessage(m), SizesFit(m), NEW i \in 1..Len(m)
  PROVE  /\ m[i] \in Part /\ Good(PartBody(m[i]))
         /\ m[i].kind = "connection" => DecodeConnection(PartBody(m[i])) = Understood(m[i])
         /\ m[i].kind = "push" => DecodePush(PartBody(m[i])) = Understood(m[i])
         /\ m[i].kind = "subscription" => DecodeSubscription(PartBody(m[i])) = Understood(m[i])
         /\ m[i].kind = "ack" => DecodeAck(PartBody(m[i])) = Understood(m[i])
<1> DEFINE p == m[i]
<1>1. m \in Seq(Part) /\ DOMAIN m = 1..Len(m)  BY LenProperties DEF IsMessage
<1>2. p \in Part  BY <1>1, ElementOfSeq
<1>3. /\ p.kind = "connection" => Len(p.token) \in Word
      /\ p.kind \in {"push", "ack"} => Len(p.topic) \in Word
      /\ p.kind = "push" => Len(p.payload) \in Word
      /\ p.kind = "subscription" =>
           /\ Len(TopicList(p.topics)) \in Word
           /\ \A k \in DOMAIN p.topics :
                Len(p.topics[k]) \in Word /\ Len(EncodeBytes(1, p.topics[k])) \in Word
  BY <1>1 DEF SizesFit
<1> HIDE DEF p
<1>4. p.kind # "subscription" => Understood(p) = p  BY DEF Understood
<1>5. CASE p.kind = "connection"
  <2>1. p \in [kind : {"connection"}, token : Bytes, status : Word, time : Word \cup {-1}]
    BY <1>2, <1>5 DEF Part
  <2>2. p = [kind |-> "connection", token |-> p.token, status |-> p.status, time |-> p.time]
    BY <2>1
  <2>3. p.token \in Bytes /\ p.status \in Word /\ p.time \in Word \cup {-1}  BY <2>1
  <2>4. Good(PartBody(p)) /\ DecodeConnection(PartBody(p)) = p
    BY <1>3, <1>5, <2>2, <2>3, ConnectionRead
  <2> QED BY <1>2, <1>4, <1>5, <2>4 DEF p
<1>6. CASE p.kind = "push"
  <2>1. p \in [kind : {"push"}, topic : Bytes, id : Word, payload : Bytes]
    BY <1>2, <1>6 DEF Part
  <2>2. p = [kind |-> "push", topic |-> p.topic, id |-> p.id, payload |-> p.payload]
    BY <2>1
  <2>3. p.topic \in Bytes /\ p.id \in Word /\ p.payload \in Bytes  BY <2>1
  <2>4. Good(PartBody(p)) /\ DecodePush(PartBody(p)) = p
    BY <1>3, <1>6, <2>2, <2>3, PushRead
  <2> QED BY <1>2, <1>4, <1>6, <2>4 DEF p
<1>7. CASE p.kind = "ack"
  <2>1. p \in [kind : {"ack"}, topic : Bytes, id : Word, status : Word]
    BY <1>2, <1>7 DEF Part
  <2>2. p = [kind |-> "ack", topic |-> p.topic, id |-> p.id, status |-> p.status]
    BY <2>1
  <2>3. p.topic \in Bytes /\ p.id \in Word /\ p.status \in Word  BY <2>1
  <2>4. Good(PartBody(p)) /\ DecodeAck(PartBody(p)) = p
    BY <1>3, <1>7, <2>2, <2>3, AckRead
  <2> QED BY <1>2, <1>4, <1>7, <2>4 DEF p
<1>8. CASE p.kind = "subscription"
  <2>1. p \in [kind : {"subscription"}, topics : Seq(Bytes), id : Word, status : Word, retry : Word]
    BY <1>2, <1>8 DEF Part
  <2>2. p = [kind |-> "subscription", topics |-> p.topics, id |-> p.id,
             status |-> p.status, retry |-> p.retry]
    BY <2>1
  <2>3. p.topics \in Seq(Bytes) /\ p.id \in Word /\ p.status \in Word /\ p.retry \in Word
    BY <2>1
  <2>4. \A k \in 1..Len(p.topics) :
          Len(p.topics[k]) \in Word /\ Len(EncodeBytes(1, p.topics[k])) \in Word
    <3>1. DOMAIN p.topics = 1..Len(p.topics)  BY <2>3, LenProperties
    <3> QED BY <1>3, <1>8, <3>1
  <2>5. Good(PartBody(p)) /\ DecodeSubscription(PartBody(p)) = Understood(p)
    BY <1>3, <1>8, <2>2, <2>3, <2>4, SubscriptionRead
  <2> QED BY <1>2, <1>8, <2>5 DEF p
<1> QED BY <1>2, <1>5, <1>6, <1>7, <1>8, Kinds DEF p

\* A message is read as it was meant.
THEOREM MessageRead ==
  ASSUME NEW m, IsMessage(m), SizesFit(m)
  PROVE  Good(MessageBytes(m)) /\ DecodeServerMessage(MessageBytes(m)) = PartsOf(m)
<1> DEFINE number(i) == PartNumber[m[i].kind]
           body(i) == PartBody(m[i])
           s == [i \in 1..Len(m) |-> EncodeBytes(number(i), body(i))]
           p == [i \in 1..Len(m) |-> <<number(i), body(i)>>]
           data == MessageBytes(m)
<1>1. m \in Seq(Part) /\ DOMAIN m = 1..Len(m) /\ Len(m) \in Nat  BY LenProperties DEF IsMessage
<1>2. ASSUME NEW i \in 1..Len(m)
      PROVE  /\ m[i].kind \in {"connection", "push", "subscription", "ack"}
             /\ number(i) \in Nat /\ Tag(number(i))
             /\ body(i) \in Bytes /\ body(i) \in Value /\ Len(body(i)) \in Word
             /\ <<number(i), body(i)>> \in Pairs
  <2>1. m[i] \in Part /\ Good(body(i))  BY PartRead
  <2>2. m[i].kind \in {"connection", "push", "subscription", "ack"}  BY <2>1, Kinds
  <2>3. number(i) \in Nat /\ Tag(number(i))  BY <2>2, Kinds, TagsAre
  <2>4. Len(body(i)) \in Word  BY <1>1 DEF SizesFit
  <2> HIDE DEF number, body
  <2>5. body(i) \in Bytes /\ body(i) \in Value  BY <2>1, Values DEF Good
  <2>6. <<number(i), body(i)>> \in Pairs  BY <2>3, <2>5, PairIs
  <2> QED BY <2>2, <2>3, <2>4, <2>5, <2>6
<1>3. \A i \in 1..Len(m) : /\ EncodeBytes(number(i), body(i)) \in Bytes
                           /\ Good(EncodeBytes(number(i), body(i)))
                           /\ DecodeFields[EncodeBytes(number(i), body(i))] = <<<<number(i), body(i)>>>>
  <2> HIDE DEF number, body
  <2> QED BY <1>2, BytesField
<1>4. data = FlattenSeq(s)  BY <1>1 DEF MessageBytes
<1>5. ASSUME NEW i \in 1..Len(m), NEW j \in 1..Len(m), number(i) = number(j) PROVE i = j
  <2>1. m[i].kind = m[j].kind
    <3>1. /\ m[i].kind \in {"connection", "push", "subscription", "ack"}
          /\ m[j].kind \in {"connection", "push", "subscription", "ack"}
      BY <1>2
    <3> QED BY <1>5, <3>1, Kinds
  <2> QED BY <1>1, <2>1 DEF IsMessage
<1>6. \A i \in 1..Len(m) :
        /\ number(i) = 1 <=> m[i].kind = "connection"
        /\ number(i) = 2 <=> m[i].kind = "push"
        /\ number(i) = 3 <=> m[i].kind = "subscription"
        /\ number(i) = 7 <=> m[i].kind = "ack"
        /\ number(i) = 1 \/ number(i) = 2 \/ number(i) = 3 \/ number(i) = 7
  <2> TAKE i \in 1..Len(m)
  <2>1. PICK k : k = m[i].kind  OBVIOUS
  <2>2. number(i) = PartNumber[k]  BY <2>1
  <2>3. k = "connection" \/ k = "push" \/ k = "subscription" \/ k = "ack"  BY <1>2, <2>1
  <2> HIDE DEF number
  <2>4. /\ number(i) = 1 <=> k = "connection"
        /\ number(i) = 2 <=> k = "push"
        /\ number(i) = 3 <=> k = "subscription"
        /\ number(i) = 7 <=> k = "ack"
        /\ number(i) = 1 \/ number(i) = 2 \/ number(i) = 3 \/ number(i) = 7
    BY <2>2, <2>3, Kinds
  <2> QED BY <2>1, <2>4
<1>7. \A i \in 1..Len(m) :
        /\ number(i) = 1 => DecodeConnection(body(i)) = Understood(m[i])
        /\ number(i) = 2 => DecodePush(body(i)) = Understood(m[i])
        /\ number(i) = 3 => DecodeSubscription(body(i)) = Understood(m[i])
        /\ number(i) = 7 => DecodeAck(body(i)) = Understood(m[i])
  BY <1>6, PartRead
<1> HIDE DEF number, body
<1>8. s \in Seq(Bytes) /\ Len(s) = Len(m)
  <2>1. \A i \in 1..Len(m) : EncodeBytes(number(i), body(i)) \in Bytes  BY <1>3
  <2> QED BY <1>1, <2>1
<1>9. p \in Seq(Pairs) /\ Len(p) = Len(m)
  <2>1. \A i \in 1..Len(m) : <<number(i), body(i)>> \in Pairs  BY <1>2
  <2> QED BY <1>1, <2>1
<1>10. \A i \in 1..Len(m) : p[i][1] = number(i) /\ p[i][2] = body(i)  OBVIOUS
<1>11. \A i \in 1..Len(s) : Good(s[i]) /\ DecodeFields[s[i]] = <<p[i]>>  BY <1>3, <1>8
<1>12. Good(data) /\ DecodeFields[data] = p
  <2> HIDE DEF s, p, data
  <2> QED BY <1>4, <1>8, <1>9, <1>11, FlattenFields
<1> HIDE DEF p, s, data
<1>13. DOMAIN p = 1..Len(m)  BY <1>9, LenProperties
<1>14. \A i \in 1..Len(m) : First(p, number(i), <<>>) = body(i)
  <2> TAKE i \in 1..Len(m)
  <2>1. \A j \in 1..Len(p) : j < i => p[j][1] # number(i)
    <3> SUFFICES ASSUME NEW j \in 1..Len(p), j < i, p[j][1] = number(i) PROVE FALSE
      OBVIOUS
    <3>1. number(j) = number(i)  BY <1>9, <1>10
    <3>2. j = i  BY <1>5, <1>9, <3>1
    <3> QED BY <1>1, <3>2
  <2> QED BY <1>9, <1>10, <2>1, FirstIs
<1> DEFINE numbers == {p[i][1] : i \in DOMAIN p}
           part(n) == First(p, n, <<>>)
           parts == (IF 1 \in numbers THEN {DecodeConnection(part(1))} ELSE {})
                      \cup (IF 2 \in numbers THEN {DecodePush(part(2))} ELSE {})
                      \cup (IF 3 \in numbers THEN {DecodeSubscription(part(3))} ELSE {})
                      \cup (IF 7 \in numbers THEN {DecodeAck(part(7))} ELSE {})
<1>15. DecodeServerMessage(data) = parts  BY <1>12 DEF DecodeServerMessage
<1>16. numbers = {number(i) : i \in 1..Len(m)}  BY <1>10, <1>13
<1>17. \A i \in 1..Len(m) :
        /\ number(i) = 1 => DecodeConnection(part(1)) = Understood(m[i])
        /\ number(i) = 2 => DecodePush(part(2)) = Understood(m[i])
        /\ number(i) = 3 => DecodeSubscription(part(3)) = Understood(m[i])
        /\ number(i) = 7 => DecodeAck(part(7)) = Understood(m[i])
  BY <1>7, <1>14
<1> HIDE DEF numbers, part
<1>18. PartsOf(m) = {Understood(m[i]) : i \in 1..Len(m)}  BY <1>1 DEF PartsOf
<1>19. \A x \in parts : x \in PartsOf(m)
  <2>1. ASSUME NEW x, 1 \in numbers, x = DecodeConnection(part(1)) PROVE x \in PartsOf(m)
    BY <1>16, <1>17, <1>18, <2>1
  <2>2. ASSUME NEW x, 2 \in numbers, x = DecodePush(part(2)) PROVE x \in PartsOf(m)
    BY <1>16, <1>17, <1>18, <2>2
  <2>3. ASSUME NEW x, 3 \in numbers, x = DecodeSubscription(part(3)) PROVE x \in PartsOf(m)
    BY <1>16, <1>17, <1>18, <2>3
  <2>4. ASSUME NEW x, 7 \in numbers, x = DecodeAck(part(7)) PROVE x \in PartsOf(m)
    BY <1>16, <1>17, <1>18, <2>4
  <2> QED BY <2>1, <2>2, <2>3, <2>4
<1>20. \A i \in 1..Len(m) : Understood(m[i]) \in parts
  <2> TAKE i \in 1..Len(m)
  <2>1. number(i) \in numbers  BY <1>16
  <2>2. CASE number(i) = 1  BY <1>17, <2>1, <2>2
  <2>3. CASE number(i) = 2  BY <1>17, <2>1, <2>3
  <2>4. CASE number(i) = 3  BY <1>17, <2>1, <2>4
  <2>5. CASE number(i) = 7  BY <1>17, <2>1, <2>5
  <2> QED BY <1>6, <2>2, <2>3, <2>4, <2>5
<1>21. parts = PartsOf(m)
  <2> HIDE DEF parts
  <2> QED BY <1>18, <1>19, <1>20
<1> QED BY <1>12, <1>15, <1>21 DEF data

\* What is left of a text that is read well when its end is missing.
THEOREM Truncated ==
  ASSUME NEW data, Good(data), NEW n \in 1..(Len(data) - 1)
  PROVE  LET fields == DecodeFields[SubSeq(data, 1, n)]
         IN fields = <<Malformed>> \/ IsStrictPrefix(fields, DecodeFields[data])
<1>1. data \in Bytes /\ Len(data) \in Nat  BY ByteAt DEF Good
<1> DEFINE a == SubSeq(data, 1, n)  b == After(data, n)
<1>2. n \in Nat /\ 1 <= n /\ n <= Len(data) /\ n < Len(data)  BY <1>1
<1>3. a \in Bytes
  <2>1. 1 \in Nat /\ 1 <= 1 /\ 1 <= n + 1  BY <1>2
  <2> QED BY <1>1, <1>2, <2>1, Cutting
<1>4. b \in Bytes /\ b # <<>>
  <2>1. b \in Bytes /\ Len(b) = Len(data) - n  BY <1>1, <1>2, Taking
  <2>2. Len(b) # 0  BY <1>1, <1>2, <2>1
  <2> QED BY <2>1, <2>2, NoBytes
<1>5. data = a \o b  BY <1>1, <1>2, CutAndJoin
<1> HIDE DEF a, b
<1>6. SUFFICES ASSUME DecodeFields[a] # <<Malformed>>
               PROVE  IsStrictPrefix(DecodeFields[a], DecodeFields[data])
  BY DEF a
<1>7. Good(a)  BY <1>3, <1>6 DEF Good
<1>8. Good(b) /\ DecodeFields[data] = DecodeFields[a] \o DecodeFields[b]
  BY <1>3, <1>4, <1>5, <1>7, FieldsJoin
<1> DEFINE x == DecodeFields[a]  y == DecodeFields[b]
<1>9. x \in Seq(Pairs) /\ y \in Seq(Pairs)  BY <1>7, <1>8, FieldsOf
<1>10. y # <<>>
  <2>1. ReadField(b) # Malformed /\ Good(After(b, ReadField(b)[3]))
        /\ y = <<<<ReadField(b)[1], ReadField(b)[2]>>>> \o DecodeFields[After(b, ReadField(b)[3])]
    BY <1>4, <1>8, FieldsOf
  <2>2. <<ReadField(b)[1], ReadField(b)[2]>> \in Pairs  BY <1>4, <2>1, FieldLeft
  <2>3. DecodeFields[After(b, ReadField(b)[3])] \in Seq(Pairs)  BY <2>1, FieldsOf
  <2> HIDE DEF y
  <2>4. PICK p \in Pairs, z \in Seq(Pairs) : y = <<p>> \o z  BY <2>1, <2>2, <2>3
  <2>5. Len(y) = 1 + Len(z) /\ Len(z) \in Nat
    <3>1. <<p>> \in Seq(Pairs) /\ Len(<<p>>) = 1  OBVIOUS
    <3> QED BY <2>4, <3>1, ConcatProperties, LenProperties
  <2>6. Len(y) # 0  BY <2>5
  <2> QED BY <2>6
<1> HIDE DEF x, y
<1>11. Len(x) \in Nat /\ Len(y) \in Nat \ {0}  BY <1>9, <1>10, EmptySeq, LenProperties
<1>12. Len(x \o y) = Len(x) + Len(y)  BY <1>9, ConcatProperties
<1>13. SubSeq(x \o y, 1, Len(x)) = SubSeq(x, 1, Len(x))
  <2>1. CASE Len(x) = 0
    <3>1. x \o y \in Seq(Pairs)  BY <1>9, ConcatProperties
    <3>2. SubSeq(x \o y, 1, 0) = <<>> /\ SubSeq(x, 1, 0) = <<>>
      <4>1. 1 \in Int /\ 0 \in Int /\ 0 < 1  OBVIOUS
      <4> QED BY <4>1, SubSeqEmpty
    <3> QED BY <2>1, <3>2
  <2>2. CASE Len(x) # 0
    <3>1. 1 \in 1..Len(x) /\ Len(x) \in 1..Len(x)  BY <1>11, <2>2
    <3> QED BY <1>9, <3>1, SubSeqOfConcat1
  <2> QED BY <2>1, <2>2
<1>14. Len(x) <= Len(x \o y) /\ x # x \o y  BY <1>11, <1>12
<1>15. IsStrictPrefix(x, x \o y)  BY <1>13, <1>14 DEF IsStrictPrefix, IsPrefix
<1> QED BY <1>8, <1>15 DEF x, y

-----------------------------------------------------------------------------
(* Masks *)

\* The bit of weight w.
Bit(a, w) == (a \div w) % 2

\* A byte is the sum of its bits.
LEMMA BitsOf ==
  \A a \in Byte :
    a = Bit(a, 1) + 2 * Bit(a, 2) + 4 * Bit(a, 4) + 8 * Bit(a, 8) + 16 * Bit(a, 16)
          + 32 * Bit(a, 32) + 64 * Bit(a, 64) + 128 * Bit(a, 128)
<1> TAKE a \in Byte
<1>1. a \in Int /\ 0 <= a /\ a <= 255  BY ByteIs
<1> QED BY <1>1 DEF Bit

\* A bit is 0 or 1.
LEMMA BitIs == \A a \in Byte : \A w \in {1, 2, 4, 8, 16, 32, 64, 128} :
   Bit(a, w) \in Int /\ (Bit(a, w) = 0 \/ Bit(a, w) = 1)
<1> TAKE a \in Byte
<1> TAKE w \in {1, 2, 4, 8, 16, 32, 64, 128}
<1>1. a \in Int /\ 0 <= a /\ a <= 255  BY ByteIs
<1> QED BY <1>1 DEF Bit

IsBit(c) == c = 0 \/ c = 1

\* A bit is a number.
LEMMA BitRange == \A c : IsBit(c) => c \in Int /\ 0 <= c /\ c <= 1
BY DEF IsBit

\* Eight bits make a byte that has them.
LEMMA BitsBack ==
  ASSUME NEW c0, NEW c1, NEW c2, NEW c3, NEW c4, NEW c5, NEW c6, NEW c7,
         IsBit(c0), IsBit(c1), IsBit(c2), IsBit(c3), IsBit(c4), IsBit(c5), IsBit(c6), IsBit(c7),
         NEW x, x = c0 + 2 * c1 + 4 * c2 + 8 * c3 + 16 * c4 + 32 * c5 + 64 * c6 + 128 * c7
  PROVE  /\ x \in Byte
         /\ Bit(x, 1) = c0 /\ Bit(x, 2) = c1 /\ Bit(x, 4) = c2 /\ Bit(x, 8) = c3
         /\ Bit(x, 16) = c4 /\ Bit(x, 32) = c5 /\ Bit(x, 64) = c6 /\ Bit(x, 128) = c7
<1>0. /\ c0 \in Int /\ 0 <= c0 /\ c0 <= 1 /\ c1 \in Int /\ 0 <= c1 /\ c1 <= 1
      /\ c2 \in Int /\ 0 <= c2 /\ c2 <= 1 /\ c3 \in Int /\ 0 <= c3 /\ c3 <= 1
      /\ c4 \in Int /\ 0 <= c4 /\ c4 <= 1 /\ c5 \in Int /\ 0 <= c5 /\ c5 <= 1
      /\ c6 \in Int /\ 0 <= c6 /\ c6 <= 1 /\ c7 \in Int /\ 0 <= c7 /\ c7 <= 1
  BY BitRange, Zenon
<1>1. x \in Int /\ 0 <= x /\ x <= 255  BY <1>0
<1>2. x \in Byte  BY <1>1, ByteIs
<1>3. x \div 1 = x /\ Bit(x, 1) = c0  BY <1>0 DEF Bit
<1>4. x \div 2 = c1 + 2 * c2 + 4 * c3 + 8 * c4 + 16 * c5 + 32 * c6 + 64 * c7  BY <1>0
<1>5. Bit(x, 2) = c1  BY <1>0, <1>4 DEF Bit
<1>6. x \div 4 = c2 + 2 * c3 + 4 * c4 + 8 * c5 + 16 * c6 + 32 * c7  BY <1>0
<1>7. Bit(x, 4) = c2  BY <1>0, <1>6 DEF Bit
<1>8. x \div 8 = c3 + 2 * c4 + 4 * c5 + 8 * c6 + 16 * c7  BY <1>0
<1>9. Bit(x, 8) = c3  BY <1>0, <1>8 DEF Bit
<1>10. x \div 16 = c4 + 2 * c5 + 4 * c6 + 8 * c7  BY <1>0
<1>11. Bit(x, 16) = c4  BY <1>0, <1>10 DEF Bit
<1>12. x \div 32 = c5 + 2 * c6 + 4 * c7  BY <1>0
<1>13. Bit(x, 32) = c5  BY <1>0, <1>12 DEF Bit
<1>14. x \div 64 = c6 + 2 * c7  BY <1>0
<1>15. Bit(x, 64) = c6  BY <1>0, <1>14 DEF Bit
<1>16. x \div 128 = c7  BY <1>0
<1>17. Bit(x, 128) = c7  BY <1>0, <1>16 DEF Bit
<1> QED BY <1>2, <1>3, <1>5, <1>7, <1>9, <1>11, <1>13, <1>15, <1>17

Flip(c, d) == (c + d) % 2

\* Flipping a bit twice with the same bit gives it back.
LEMMA FlipTwice == \A c, d : IsBit(c) /\ IsBit(d) => IsBit(Flip(c, d)) /\ Flip(Flip(c, d), d) = c
BY DEF IsBit, Flip

\* Xor flips bit by bit.
LEMMA XorBits ==
  \A a, b \in Byte : Xor(a, b) =
     Flip(Bit(a, 1), Bit(b, 1)) + 2 * Flip(Bit(a, 2), Bit(b, 2)) + 4 * Flip(Bit(a, 4), Bit(b, 4))
       + 8 * Flip(Bit(a, 8), Bit(b, 8)) + 16 * Flip(Bit(a, 16), Bit(b, 16))
       + 32 * Flip(Bit(a, 32), Bit(b, 32)) + 64 * Flip(Bit(a, 64), Bit(b, 64))
       + 128 * Flip(Bit(a, 128), Bit(b, 128))
<1> TAKE a, b \in Byte
<1>1. a \in Int /\ 0 <= a /\ a <= 255 /\ b \in Int /\ 0 <= b /\ b <= 255  BY ByteIs
<1>f. \A x, y \in Int : (x + y) % 2 = ((x % 2) + (y % 2)) % 2  OBVIOUS
<1>2. \A w \in {1, 2, 4, 8, 16, 32, 64, 128} :
        ((a \div w) + (b \div w)) % 2 = Flip(Bit(a, w), Bit(b, w))
  <2> TAKE w \in {1, 2, 4, 8, 16, 32, 64, 128}
  <2>1. a \div w \in Int /\ b \div w \in Int  BY <1>1
  <2>2. ((a \div w) + (b \div w)) % 2 = (((a \div w) % 2) + ((b \div w) % 2)) % 2
    BY <1>f, <2>1
  <2> QED BY <2>2 DEF Flip, Bit
<1>3. /\ ((a \div 1) + (b \div 1)) % 2 = Flip(Bit(a, 1), Bit(b, 1))
      /\ ((a \div 2) + (b \div 2)) % 2 = Flip(Bit(a, 2), Bit(b, 2))
      /\ ((a \div 4) + (b \div 4)) % 2 = Flip(Bit(a, 4), Bit(b, 4))
      /\ ((a \div 8) + (b \div 8)) % 2 = Flip(Bit(a, 8), Bit(b, 8))
      /\ ((a \div 16) + (b \div 16)) % 2 = Flip(Bit(a, 16), Bit(b, 16))
      /\ ((a \div 32) + (b \div 32)) % 2 = Flip(Bit(a, 32), Bit(b, 32))
      /\ ((a \div 64) + (b \div 64)) % 2 = Flip(Bit(a, 64), Bit(b, 64))
      /\ ((a \div 128) + (b \div 128)) % 2 = Flip(Bit(a, 128), Bit(b, 128))
  BY <1>2
<1>4. \A w \in {1, 2, 4, 8, 16, 32, 64, 128} : Flip(Bit(a, w), Bit(b, w)) \in Int
  BY <1>1, BitIs DEF Flip
<1>5. Xor(a, b) = 1 * (((a \div 1) + (b \div 1)) % 2) + 2 * (((a \div 2) + (b \div 2)) % 2)
        + 4 * (((a \div 4) + (b \div 4)) % 2) + 8 * (((a \div 8) + (b \div 8)) % 2)
        + 16 * (((a \div 16) + (b \div 16)) % 2) + 32 * (((a \div 32) + (b \div 32)) % 2)
        + 64 * (((a \div 64) + (b \div 64)) % 2) + 128 * (((a \div 128) + (b \div 128)) % 2)
  BY Zenon DEF Xor
<1> QED BY <1>3, <1>4, <1>5

\* Masking a byte twice with the same byte of the key gives it back.
LEMMA XorTwice == \A a, b \in Byte : Xor(a, b) \in Byte /\ Xor(Xor(a, b), b) = a
<1> TAKE a, b \in Byte
<1> DEFINE c(w) == Flip(Bit(a, w), Bit(b, w))
           x == Xor(a, b)
<1>1. x = c(1) + 2 * c(2) + 4 * c(4) + 8 * c(8) + 16 * c(16) + 32 * c(32) + 64 * c(64) + 128 * c(128)
  BY XorBits
<1>2. \A w \in {1, 2, 4, 8, 16, 32, 64, 128} :
        /\ IsBit(Bit(a, w)) /\ IsBit(Bit(b, w)) /\ IsBit(c(w)) /\ Flip(c(w), Bit(b, w)) = Bit(a, w)
  <2> TAKE w \in {1, 2, 4, 8, 16, 32, 64, 128}
  <2>1. IsBit(Bit(a, w)) /\ IsBit(Bit(b, w))  BY BitIs DEF IsBit
  <2> QED BY <2>1, FlipTwice
<1>n. /\ 1 \in {1, 2, 4, 8, 16, 32, 64, 128} /\ 2 \in {1, 2, 4, 8, 16, 32, 64, 128}
      /\ 4 \in {1, 2, 4, 8, 16, 32, 64, 128} /\ 8 \in {1, 2, 4, 8, 16, 32, 64, 128}
      /\ 16 \in {1, 2, 4, 8, 16, 32, 64, 128} /\ 32 \in {1, 2, 4, 8, 16, 32, 64, 128}
      /\ 64 \in {1, 2, 4, 8, 16, 32, 64, 128} /\ 128 \in {1, 2, 4, 8, 16, 32, 64, 128}
  OBVIOUS
<1>3. /\ IsBit(c(1)) /\ IsBit(c(2)) /\ IsBit(c(4)) /\ IsBit(c(8))
      /\ IsBit(c(16)) /\ IsBit(c(32)) /\ IsBit(c(64)) /\ IsBit(c(128))
  BY <1>2, <1>n, Zenon
<1> HIDE DEF c, x
<1>4. /\ x \in Byte
      /\ Bit(x, 1) = c(1) /\ Bit(x, 2) = c(2) /\ Bit(x, 4) = c(4) /\ Bit(x, 8) = c(8)
      /\ Bit(x, 16) = c(16) /\ Bit(x, 32) = c(32) /\ Bit(x, 64) = c(64) /\ Bit(x, 128) = c(128)
  BY <1>1, <1>3, BitsBack
<1>5. Xor(x, b) =
     Flip(Bit(x, 1), Bit(b, 1)) + 2 * Flip(Bit(x, 2), Bit(b, 2)) + 4 * Flip(Bit(x, 4), Bit(b, 4))
       + 8 * Flip(Bit(x, 8), Bit(b, 8)) + 16 * Flip(Bit(x, 16), Bit(b, 16))
       + 32 * Flip(Bit(x, 32), Bit(b, 32)) + 64 * Flip(Bit(x, 64), Bit(b, 64))
       + 128 * Flip(Bit(x, 128), Bit(b, 128))
  BY <1>4, XorBits
<1>6. /\ Flip(Bit(x, 1), Bit(b, 1)) = Bit(a, 1) /\ Flip(Bit(x, 2), Bit(b, 2)) = Bit(a, 2)
      /\ Flip(Bit(x, 4), Bit(b, 4)) = Bit(a, 4) /\ Flip(Bit(x, 8), Bit(b, 8)) = Bit(a, 8)
      /\ Flip(Bit(x, 16), Bit(b, 16)) = Bit(a, 16) /\ Flip(Bit(x, 32), Bit(b, 32)) = Bit(a, 32)
      /\ Flip(Bit(x, 64), Bit(b, 64)) = Bit(a, 64) /\ Flip(Bit(x, 128), Bit(b, 128)) = Bit(a, 128)
  BY <1>2, <1>4, <1>n, Zenon
<1>7. Xor(x, b) = a
  <2>1. Xor(x, b) = Bit(a, 1) + 2 * Bit(a, 2) + 4 * Bit(a, 4) + 8 * Bit(a, 8) + 16 * Bit(a, 16)
          + 32 * Bit(a, 32) + 64 * Bit(a, 64) + 128 * Bit(a, 128)
    BY <1>5, <1>6, Zenon
  <2> QED BY <2>1, BitsOf
<1> QED BY <1>4, <1>7 DEF x

\* A key of four bytes, or none.
IsKey(key) == key \in Bytes /\ Len(key) \in {0, 4}

\* Unmasking with the same key gives the payload back (_send_frame and
\* read_message).
LEMMA MaskedIs ==
  ASSUME NEW key, IsKey(key), NEW payload \in Bytes
  PROVE  /\ Masked(key, payload) \in Bytes /\ Len(Masked(key, payload)) = Len(payload)
         /\ Masked(key, Masked(key, payload)) = payload
<1>1. payload \in Seq(Byte) /\ Len(payload) \in Nat /\ DOMAIN payload = 1..Len(payload)
  BY ByteAt, LenProperties
<1>2. \A i \in 1..Len(payload) : payload[i] \in Byte  BY <1>1, ElementOfSeq
<1> DEFINE k(i) == key[((i - 1) % 4) + 1]
           mask(i, b) == IF key = <<>> THEN b ELSE Xor(b, k(i))
           out == [i \in 1..Len(payload) |-> mask(i, payload[i])]
<1>3. ASSUME NEW i \in 1..Len(payload), NEW b \in Byte
      PROVE  mask(i, b) \in Byte /\ mask(i, mask(i, b)) = b
  <2>1. CASE key = <<>>  BY <2>1
  <2>2. CASE key # <<>>
    <3>1. key \in Bytes /\ Len(key) = 4 /\ key \in Seq(Byte)  BY <2>2, NoBytes, ByteAt DEF IsKey
    <3>2. ((i - 1) % 4) + 1 \in 1..4  BY <1>1
    <3>3. k(i) \in Byte  BY <3>1, <3>2, ElementOfSeq
    <3> HIDE DEF k
    <3> QED BY <2>2, <3>3, XorTwice
  <2> QED BY <2>1, <2>2
<1>4. Masked(key, payload) = out  BY <1>1 DEF Masked
<1> HIDE DEF mask
<1>5. \A i \in 1..Len(payload) : mask(i, payload[i]) \in Byte  BY <1>2, <1>3
<1>6. out \in Seq(Byte) /\ Len(out) = Len(payload) /\ DOMAIN out = 1..Len(payload)
  BY <1>1, <1>5
<1>7. \A i \in 1..Len(payload) : out[i] = mask(i, payload[i])  OBVIOUS
<1> HIDE DEF out
<1>8. Masked(key, out) = [i \in 1..Len(payload) |-> mask(i, out[i])]  BY <1>6 DEF Masked, mask
<1>9. \A i \in 1..Len(payload) : mask(i, out[i]) = payload[i]
  <2> TAKE i \in 1..Len(payload)
  <2>1. out[i] = mask(i, payload[i]) /\ payload[i] \in Byte  BY <1>2, <1>7
  <2>2. mask(i, mask(i, payload[i])) = payload[i]  BY <1>3, <2>1
  <2> QED BY <2>1, <2>2, Zenon
<1>10. payload = [i \in 1..Len(payload) |-> payload[i]]  BY <1>1
<1>11. Masked(key, out) = payload  BY <1>8, <1>9, <1>10
<1> QED BY <1>4, <1>6, <1>11, ByteSeq

\* One of two texts begins with the other one.
Agree(x, f) == \A i \in 1..Len(f) : i <= Len(x) => x[i] = f[i]

\* A header whose second byte is c, with these digits and this key, announces
\* so many bytes.
Header(c, digits, key, length) ==
  /\ Len(digits) = IF c % 128 = Short THEN 2 ELSE IF c % 128 = Short + 1 THEN 8 ELSE 0
  /\ Len(key) = IF c >= 128 THEN 4 ELSE 0
  /\ length = IF Len(digits) = 0 THEN c % 128
              ELSE IF Len(digits) = 2 THEN Unpack2(digits) ELSE Unpack8(digits)

Shape(h, c, digits, key, body) == ((<<h>> \o (<<c>> \o digits)) \o key) \o body

Laid(f, h, c, digits, key, body) ==
  /\ f \in Bytes /\ Len(f) = 2 + Len(digits) + Len(key) + Len(body)
  /\ f[1] = h /\ f[2] = c
  /\ \A i \in 1..Len(digits) : f[2 + i] = digits[i]
  /\ \A i \in 1..Len(key) : f[2 + Len(digits) + i] = key[i]
  /\ \A i \in 1..Len(body) : f[2 + Len(digits) + Len(key) + i] = body[i]

-----------------------------------------------------------------------------
(* Frames *)

\* Where the parts of a frame are.
LEMMA ShapeIs ==
  ASSUME NEW h \in Byte, NEW c \in Byte, NEW digits \in Bytes, NEW key \in Bytes, NEW body \in Bytes,
         NEW f, f = Shape(h, c, digits, key, body)
  PROVE  Laid(f, h, c, digits, key, body)
<1> DEFINE hh == <<h>>  cc == <<c>>  s == cc \o digits  t == hh \o s  u == t \o key
<1>1. hh \in Bytes /\ Len(hh) = 1 /\ hh[1] = h /\ cc \in Bytes /\ Len(cc) = 1 /\ cc[1] = c
  BY OneByte
<1>2. Len(digits) \in Nat /\ Len(key) \in Nat /\ Len(body) \in Nat  BY ByteAt
<1>3. f = u \o body  BY DEF Shape
<1> HIDE DEF hh, cc
<1>4. /\ s \in Bytes /\ Len(s) = Len(cc) + Len(digits)
      /\ \A i \in 1..Len(cc) : s[i] = cc[i] /\ \A j \in 1..Len(digits) : s[Len(cc) + j] = digits[j]
  BY <1>1, Joining
<1>d. \A j \in 1..Len(digits) : s[1 + j] = digits[j]  BY <1>1, <1>4
<1>c. s[1] = c
  <2>1. 1 \in 1..Len(cc)  BY <1>1
  <2> QED BY <1>1, <1>4, <2>1
<1> HIDE DEF s
<1>5. /\ t \in Bytes /\ Len(t) = Len(hh) + Len(s)
      /\ \A i \in 1..Len(hh) : t[i] = hh[i]
      /\ \A i \in 1..Len(s) : t[Len(hh) + i] = s[i]
  BY <1>1, <1>4, Joining
<1>6. Len(t) = 2 + Len(digits) /\ t[1] = h /\ t[2] = c
      /\ \A i \in 1..Len(digits) : t[2 + i] = digits[i]
  <2>1. 1 \in 1..Len(hh) /\ 1 \in 1..Len(s) /\ Len(s) = 1 + Len(digits)  BY <1>1, <1>2, <1>4
  <2>2. Len(t) = 2 + Len(digits)  BY <1>1, <1>2, <1>5, <2>1
  <2>3. t[1] = h  BY <1>1, <1>5, <2>1
  <2>4. t[1 + 1] = c  BY <1>1, <1>5, <1>c, <2>1
  <2>5. ASSUME NEW i \in 1..Len(digits) PROVE t[2 + i] = digits[i]
    <3>1. 1 + i \in 1..Len(s) /\ 2 + i = 1 + (1 + i)  BY <1>2, <2>1
    <3>2. t[1 + (1 + i)] = s[1 + i]  BY <1>1, <1>5, <3>1
    <3> QED BY <1>d, <3>1, <3>2
  <2>6. 1 + 1 = 2  OBVIOUS
  <2> QED BY <2>2, <2>3, <2>4, <2>5, <2>6
<1> HIDE DEF t
<1>7. /\ u \in Bytes /\ Len(u) = Len(t) + Len(key)
      /\ \A i \in 1..Len(t) : u[i] = t[i]
      /\ \A i \in 1..Len(key) : u[Len(t) + i] = key[i]
  BY <1>5, Joining
<1> HIDE DEF u
<1>8. /\ f \in Bytes /\ Len(f) = Len(u) + Len(body)
      /\ \A i \in 1..Len(u) : f[i] = u[i]
      /\ \A i \in 1..Len(body) : f[Len(u) + i] = body[i]
  BY <1>3, <1>7, Joining
<1>9. Len(u) = 2 + Len(digits) + Len(key)  BY <1>6, <1>7
<1>10. \A i \in 1..Len(t) : f[i] = t[i]
  <2> TAKE i \in 1..Len(t)
  <2>1. i \in 1..Len(u)  BY <1>2, <1>6, <1>9
  <2> QED BY <1>7, <1>8, <2>1
<1>11. 1 \in 1..Len(t) /\ 2 \in 1..Len(t) /\ \A i \in 1..Len(digits) : 2 + i \in 1..Len(t)
  BY <1>2, <1>6
<1>12. f[1] = h /\ f[2] = c  BY <1>6, <1>10, <1>11
<1>13. \A i \in 1..Len(digits) : f[2 + i] = digits[i]  BY <1>6, <1>10, <1>11
<1>14. ASSUME NEW i \in 1..Len(key) PROVE f[2 + Len(digits) + i] = key[i]
  <2>1. Len(t) + i \in 1..Len(u)  BY <1>2, <1>6, <1>9
  <2>2. f[Len(t) + i] = u[Len(t) + i] /\ u[Len(t) + i] = key[i]  BY <1>7, <1>8, <2>1
  <2>3. Len(t) + i = 2 + Len(digits) + i  BY <1>6
  <2> QED BY <2>2, <2>3
<1>15. \A i \in 1..Len(body) : f[2 + Len(digits) + Len(key) + i] = body[i]  BY <1>8, <1>9
<1>16. Len(f) = 2 + Len(digits) + Len(key) + Len(body)  BY <1>8, <1>9
<1> QED BY <1>8, <1>12, <1>13, <1>14, <1>15, <1>16 DEF Laid

\* A buffer that begins with a frame, or with a part of it.
LEMMA FrameRead ==
  ASSUME NEW h \in Byte, NEW c \in Byte, NEW digits \in Bytes, NEW key \in Bytes, NEW body \in Bytes,
         Header(c, digits, key, Len(body)),
         NEW f, Laid(f, h, c, digits, key, body),
         NEW x \in Bytes, Agree(x, f)
  PROVE  FrameAt(x) = IF Len(x) < Len(f) THEN NeedMore
                      ELSE [fin |-> h >= 128, opcode |-> h % 16,
                            payload |-> Masked(key, body), size |-> Len(f)]
<1> DEFINE d == Len(digits)  k == Len(key)  n == Len(body)
<1>1. /\ f \in Bytes /\ Len(f) = 2 + d + k + n
      /\ f[1] = h /\ f[2] = c
      /\ \A i \in 1..d : f[2 + i] = digits[i]
      /\ \A i \in 1..k : f[2 + d + i] = key[i]
      /\ \A i \in 1..n : f[2 + d + k + i] = body[i]
  BY DEF Laid
<1>2. d \in Nat /\ k \in Nat /\ n \in Nat /\ Len(x) \in Nat  BY ByteAt
<1> DEFINE code == x[2] % 128
           extra == IF code = Short THEN 2 ELSE IF code = Short + 1 THEN 8 ELSE 0
           keySize == IF x[2] >= 128 THEN 4 ELSE 0
           start == 2 + extra + keySize
           xdigits == SubSeq(x, 3, 2 + extra)
           length == IF extra = 0 THEN code
                     ELSE IF extra = 2 THEN Unpack2(xdigits) ELSE Unpack8(xdigits)
           xkey == SubSeq(x, 3 + extra, start)
           xbody == SubSeq(x, start + 1, start + length)
<1>3. FrameAt(x) = IF Len(x) < 2 THEN NeedMore
       ELSE IF Len(x) < start THEN NeedMore
       ELSE IF Len(x) < start + length THEN NeedMore
       ELSE [fin |-> x[1] >= 128, opcode |-> x[1] % 16,
             payload |-> Masked(xkey, xbody), size |-> start + length]
  BY DEF FrameAt
<1>h. Header(c, digits, key, n)  OBVIOUS
<1> HIDE DEF d, k, n
<1>4. \A i \in Nat : 1 <= i /\ i <= Len(f) /\ i <= Len(x) => x[i] = f[i]
  <2> TAKE i \in Nat
  <2> HAVE 1 <= i /\ i <= Len(f) /\ i <= Len(x)
  <2>1. i \in 1..Len(f)  BY <1>1, <1>2
  <2> QED BY <2>1 DEF Agree
<1>5. CASE Len(x) < 2
  <2>1. Len(x) < Len(f)  BY <1>1, <1>2, <1>5
  <2> HIDE DEF start, length, xkey, xbody
  <2> QED BY <1>3, <1>5, <2>1
<1>6. CASE ~(Len(x) < 2)
  <2>1. x[1] = h /\ x[2] = c
    <3>1. 1 <= 1 /\ 1 <= Len(f) /\ 1 <= Len(x) /\ 1 <= 2 /\ 2 <= Len(f) /\ 2 <= Len(x) /\ 1 \in Nat /\ 2 \in Nat
      BY <1>1, <1>2, <1>6
    <3> QED BY <1>1, <1>4, <3>1
  <2>2. extra = d /\ keySize = k /\ start = 2 + d + k /\ code = c % 128
    BY <1>h, <2>1 DEF Header, d, k
  <2> HIDE DEF extra, keySize, code
  <2>3. CASE Len(x) < start
    <3>1. Len(x) < Len(f)  BY <1>1, <1>2, <2>2, <2>3
    <3> HIDE DEF start, length, xkey, xbody
    <3> QED BY <1>3, <1>6, <2>3, <3>1
  <2>4. CASE ~(Len(x) < start)
    <3>0. 2 + d + k <= Len(x)  BY <1>2, <2>2, <2>4
    <3>1. xdigits = digits
      <4>1. /\ xdigits \in Bytes /\ Len(xdigits) = d
            /\ \A i \in 1..d : xdigits[i] = x[2 + i]
        <5>1. 3 \in Nat /\ 2 + d \in Nat /\ 1 <= 3 /\ 3 <= 2 + d + 1 /\ 2 + d <= Len(x)
              /\ 2 + d + 1 - 3 = d
          BY <1>2, <3>0
        <5>2. /\ SubSeq(x, 3, 2 + d) \in Bytes /\ Len(SubSeq(x, 3, 2 + d)) = 2 + d + 1 - 3
              /\ \A i \in 1..(2 + d + 1 - 3) : SubSeq(x, 3, 2 + d)[i] = x[3 + i - 1]
          BY <5>1, Cutting
        <5>3. \A i \in 1..d : 3 + i - 1 = 2 + i  BY <1>2
        <5>4. xdigits = SubSeq(x, 3, 2 + d)  BY <2>2
        <5> HIDE DEF xdigits
        <5> QED BY <5>1, <5>2, <5>3, <5>4
      <4>2. \A i \in 1..d : x[2 + i] = digits[i]
        <5> TAKE i \in 1..d
        <5>1. 2 + i \in Nat /\ 1 <= 2 + i /\ 2 + i <= Len(f) /\ 2 + i <= Len(x)
          BY <1>1, <1>2, <3>0
        <5> QED BY <1>1, <1>4, <5>1
      <4> HIDE DEF xdigits
      <4> QED BY <4>1, <4>2, SameBytes DEF d
    <3>2. length = n  BY <1>h, <2>2, <3>1 DEF Header, d
    <3> HIDE DEF xdigits, length
    <3>3. xkey = key
      <4>1. /\ xkey \in Bytes /\ Len(xkey) = k
            /\ \A i \in 1..k : xkey[i] = x[2 + d + i]
        <5>1. 3 + d \in Nat /\ 2 + d + k \in Nat /\ 1 <= 3 + d /\ 3 + d <= 2 + d + k + 1 /\ 2 + d + k <= Len(x)
              /\ 2 + d + k + 1 - (3 + d) = k
          BY <1>2, <3>0
        <5>2. /\ SubSeq(x, 3 + d, 2 + d + k) \in Bytes /\ Len(SubSeq(x, 3 + d, 2 + d + k)) = 2 + d + k + 1 - (3 + d)
              /\ \A i \in 1..(2 + d + k + 1 - (3 + d)) : SubSeq(x, 3 + d, 2 + d + k)[i] = x[3 + d + i - 1]
          BY <5>1, Cutting
        <5>3. \A i \in 1..k : 3 + d + i - 1 = 2 + d + i  BY <1>2
        <5>4. xkey = SubSeq(x, 3 + d, 2 + d + k)  BY <2>2
        <5> HIDE DEF xkey
        <5> QED BY <5>1, <5>2, <5>3, <5>4
      <4>2. \A i \in 1..k : x[2 + d + i] = key[i]
        <5> TAKE i \in 1..k
        <5>1. 2 + d + i \in Nat /\ 1 <= 2 + d + i /\ 2 + d + i <= Len(f) /\ 2 + d + i <= Len(x)
          BY <1>1, <1>2, <3>0
        <5> QED BY <1>1, <1>4, <5>1
      <4> HIDE DEF xkey
      <4> QED BY <4>1, <4>2, SameBytes DEF k
    <3> HIDE DEF xkey
    <3>4. CASE Len(x) < start + length
      <4>1. Len(x) < Len(f)  BY <1>1, <1>2, <2>2, <3>2, <3>4
      <4> HIDE DEF start, xbody
      <4> QED BY <1>3, <1>6, <2>4, <3>4, <4>1
    <3>5. CASE ~(Len(x) < start + length)
      <4>0. ~(Len(x) < Len(f)) /\ 2 + d + k + n <= Len(x) /\ start + length = Len(f)
        BY <1>1, <1>2, <2>2, <3>2, <3>5
      <4>1. /\ xbody \in Bytes /\ Len(xbody) = n
            /\ \A i \in 1..n : xbody[i] = x[2 + d + k + i]
        <5>1. /\ 2 + d + k + 1 \in Nat /\ 2 + d + k + n \in Nat /\ 1 <= 2 + d + k + 1
              /\ 2 + d + k + 1 <= 2 + d + k + n + 1 /\ 2 + d + k + n <= Len(x)
              /\ 2 + d + k + n + 1 - (2 + d + k + 1) = n
          BY <1>2, <4>0
        <5>2. /\ SubSeq(x, 2 + d + k + 1, 2 + d + k + n) \in Bytes
              /\ Len(SubSeq(x, 2 + d + k + 1, 2 + d + k + n)) = 2 + d + k + n + 1 - (2 + d + k + 1)
              /\ \A i \in 1..(2 + d + k + n + 1 - (2 + d + k + 1)) :
                    SubSeq(x, 2 + d + k + 1, 2 + d + k + n)[i] = x[2 + d + k + 1 + i - 1]
          BY <5>1, Cutting
        <5>3. \A i \in 1..n : 2 + d + k + 1 + i - 1 = 2 + d + k + i  BY <1>2
        <5>4. xbody = SubSeq(x, 2 + d + k + 1, 2 + d + k + n)  BY <2>2, <3>2
        <5> HIDE DEF xbody
        <5> QED BY <5>1, <5>2, <5>3, <5>4
      <4>2. \A i \in 1..n : x[2 + d + k + i] = body[i]
        <5> TAKE i \in 1..n
        <5>1. 2 + d + k + i \in Nat /\ 1 <= 2 + d + k + i /\ 2 + d + k + i <= Len(f) /\ 2 + d + k + i <= Len(x)
          BY <1>1, <1>2, <4>0
        <5> QED BY <1>1, <1>4, <5>1
      <4> HIDE DEF xbody
      <4>3. xbody = body  BY <4>1, <4>2, SameBytes DEF n
      <4> HIDE DEF start
      <4> QED BY <1>3, <1>6, <2>1, <2>4, <3>3, <3>5, <4>0, <4>3
    <3> QED BY <3>4, <3>5
  <2> QED BY <2>3, <2>4
<1> QED BY <1>5, <1>6

\* struct.pack and unpack of a length in two bytes.
LEMMA Pack2Is ==
  \A n \in Nat : n < 65536 =>
    Pack2(n) \in Bytes /\ Len(Pack2(n)) = 2 /\ Unpack2(Pack2(n)) = n
<1> TAKE n \in Nat
<1> HAVE n < 65536
<1> DEFINE a == n \div 256  b == n % 256
<1>1. a \in Byte /\ b \in Byte /\ n = 256 * a + b  BY ByteIs
<1>2. Pack2(n) = <<a, b>>  BY DEF Pack2
<1> HIDE DEF a, b
<1>3. <<a, b>> \in Bytes /\ Len(<<a, b>>) = 2 /\ <<a, b>>[1] = a /\ <<a, b>>[2] = b
  BY <1>1 DEF Bytes
<1> QED BY <1>1, <1>2, <1>3 DEF Unpack2

\* struct.pack and unpack of a length in eight bytes.
LEMMA Pack8Is ==
  \A n \in Word : Pack8(n) \in Bytes /\ Len(Pack8(n)) = 8 /\ Unpack8(Pack8(n)) = n
<1> TAKE n \in Word
<1> DEFINE a == n \div 16777216  b == (n \div 65536) % 256  c == (n \div 256) % 256  d == n % 256
           p == <<0, 0, 0, 0, a, b, c, d>>
<1>0. n \in Nat /\ n \div 65536 < 65536  BY DEF Word
<1>1. a \in Int /\ 0 <= a /\ a <= 255
  <2>1. n \div 16777216 = (n \div 65536) \div 256  BY <1>0
  <2> QED BY <1>0, <2>1
<1>2. b \in Int /\ 0 <= b /\ b <= 255 /\ c \in Int /\ 0 <= c /\ c <= 255
      /\ d \in Int /\ 0 <= d /\ d <= 255
  BY <1>0
<1>3. n = 256 * (256 * (256 * a + b) + c) + d
  <2>1. n = 256 * (n \div 256) + d  BY <1>0
  <2>2. n \div 256 = 256 * (n \div 65536) + c  BY <1>0
  <2>3. n \div 65536 = 256 * a + b  BY <1>0
  <2>4. n \div 256 \in Int /\ n \div 65536 \in Int  BY <1>0
  <2> HIDE DEF a, b, c, d
  <2> QED BY <1>1, <1>2, <2>1, <2>2, <2>3, <2>4
<1>4. Pack8(n) = p  BY DEF Pack8
<1> HIDE DEF a, b, c, d
<1>5. a \in Byte /\ b \in Byte /\ c \in Byte /\ d \in Byte /\ 0 \in Byte  BY <1>1, <1>2, ByteIs
<1>6. p \in Bytes /\ Len(p) = 8  BY <1>5 DEF Bytes
<1>7. /\ p[1] = 0 /\ p[2] = 0 /\ p[3] = 0 /\ p[4] = 0
      /\ p[5] = a /\ p[6] = b /\ p[7] = c /\ p[8] = d
  OBVIOUS
<1> HIDE DEF p
<1>8. Unpack8(p) = n  BY <1>1, <1>2, <1>3, <1>7 DEF Unpack8
<1> QED BY <1>4, <1>6, <1>8

\* A frame is read from every buffer that begins with it, and from none that
\* holds only a part of it.
THEOREM FrameIs ==
  ASSUME NEW fin \in BOOLEAN, NEW opcode \in Nat, opcode < 16,
         NEW payload \in Bytes, Len(payload) \in Word, NEW key, IsKey(key)
  PROVE  LET f == Frame(fin, opcode, payload, key)
         IN /\ f \in Bytes /\ Len(f) >= 2
            /\ \A x \in Bytes : Agree(x, f) =>
                 FrameAt(x) = IF Len(x) < Len(f) THEN NeedMore
                              ELSE [fin |-> fin, opcode |-> opcode, payload |-> payload, size |-> Len(f)]
<1> DEFINE h == (IF fin THEN 128 ELSE 0) + opcode
           m == IF key = <<>> THEN 0 ELSE 128
           n == Len(payload)
           body == Masked(key, payload)
           f == Frame(fin, opcode, payload, key)
<1>1. h \in Byte /\ (h >= 128 <=> fin) /\ h % 16 = opcode
  <2>1. CASE fin
    <3>1. h = 128 + opcode  BY <2>1
    <3> QED BY <2>1, <3>1, ByteIs
  <2>2. CASE ~fin
    <3>1. h = opcode  BY <2>2
    <3> QED BY <2>2, <3>1, ByteIs
  <2> QED BY <2>1, <2>2
<1>2. /\ body \in Bytes /\ Len(body) = n /\ Masked(key, body) = payload
  BY MaskedIs
<1>3. n \in Nat /\ n \in Word  BY ByteAt
<1>4. key \in Bytes /\ Len(key) = (IF m >= 128 THEN 4 ELSE 0) /\ (m = 0 \/ m = 128)
  <2>1. CASE key = <<>>  BY <2>1, NoBytes
  <2>2. CASE key # <<>>  BY <2>2, NoBytes DEF IsKey
  <2> QED BY <2>1, <2>2
<1>s. Short \in Nat /\ 1 <= Short /\ Short <= 126 /\ Medium \in Nat /\ Medium <= 65536 /\ Short < Medium
  BY HeaderLengths
<1> DEFINE first == IF n < Short THEN m + n ELSE IF n < Medium THEN m + Short ELSE m + Short + 1
           digits == IF n < Short THEN <<>> ELSE IF n < Medium THEN Pack2(n) ELSE Pack8(n)
<1>5. f = ((<<h>> \o (<<first>> \o digits)) \o key) \o body
  <2> DEFINE size == IF n < Short THEN <<m + n>>
                ELSE IF n < Medium THEN <<m + Short>> \o Pack2(n)
                ELSE <<m + Short + 1>> \o Pack8(n)
  <2>1. f = ((<<h>> \o size) \o key) \o body  BY Zenon DEF Frame
  <2>2. size = <<first>> \o digits
    <3> HIDE DEF m, n
    <3>1. CASE n < Short
      <4>1. m + n \in Byte  BY <1>3, <1>4, <1>s, <3>1, ByteIs
      <4>2. <<m + n>> \in Bytes  BY <4>1, OneByte
      <4>3. <<m + n>> \o <<>> = <<m + n>>  BY <4>2, JoinNone
      <4> QED BY <3>1, <4>3
    <3>2. CASE ~(n < Short) /\ n < Medium  BY <3>2
    <3>3. CASE ~(n < Short) /\ ~(n < Medium)  BY <3>3
    <3> QED BY <3>1, <3>2, <3>3
  <2> QED BY <2>1, <2>2
<1> HIDE DEF m, n, h, body, f
<1>6. first \in Byte /\ digits \in Bytes /\ Header(first, digits, key, n)
  <2>1. CASE n < Short
    <3>1. first = m + n /\ digits = <<>>  BY <2>1
    <3>2. /\ first \in Byte /\ first % 128 = n /\ (first >= 128 <=> m >= 128)
          /\ n # Short /\ n # Short + 1
      BY <1>3, <1>4, <1>s, <2>1, <3>1, ByteIs
    <3>3. Len(digits) = 0 /\ digits \in Bytes  BY <3>1, NoBytes
    <3> HIDE DEF first, digits
    <3> QED BY <1>4, <3>2, <3>3 DEF Header
  <2>2. CASE ~(n < Short) /\ n < Medium
    <3>1. first = m + Short /\ digits = Pack2(n)  BY <2>2
    <3>2. /\ first \in Byte /\ first % 128 = Short /\ (first >= 128 <=> m >= 128)
      BY <1>4, <1>s, <3>1, ByteIs
    <3>3. n < 65536  BY <1>3, <1>s, <2>2
    <3>4. Len(digits) = 2 /\ digits \in Bytes /\ Unpack2(digits) = n  BY <1>3, <3>1, <3>3, Pack2Is
    <3> HIDE DEF first, digits
    <3> QED BY <1>4, <3>2, <3>4 DEF Header
  <2>3. CASE ~(n < Short) /\ ~(n < Medium)
    <3>1. first = m + Short + 1 /\ digits = Pack8(n)  BY <2>3
    <3>2. /\ first \in Byte /\ first % 128 = Short + 1 /\ (first >= 128 <=> m >= 128)
          /\ Short + 1 # Short
      BY <1>4, <1>s, <3>1, ByteIs
    <3>4. Len(digits) = 8 /\ digits \in Bytes /\ Unpack8(digits) = n  BY <1>3, <3>1, Pack8Is
    <3> HIDE DEF first, digits
    <3> QED BY <1>4, <3>2, <3>4 DEF Header
  <2> QED BY <2>1, <2>2, <2>3
<1> HIDE DEF first, digits
<1>7. f = Shape(h, first, digits, key, body)  BY <1>5 DEF Shape
<1>8. Laid(f, h, first, digits, key, body)  BY <1>1, <1>2, <1>4, <1>6, <1>7, ShapeIs
<1>9. f \in Bytes /\ Len(f) >= 2
  <2>1. f \in Bytes /\ Len(f) = 2 + Len(digits) + Len(key) + Len(body)  BY <1>8 DEF Laid
  <2>2. Len(digits) \in Nat /\ Len(key) \in Nat /\ Len(body) \in Nat  BY <1>2, <1>4, <1>6, ByteAt
  <2> QED BY <2>1, <2>2
<1>10. ASSUME NEW x \in Bytes, Agree(x, f)
       PROVE  FrameAt(x) = IF Len(x) < Len(f) THEN NeedMore
                      ELSE [fin |-> fin, opcode |-> opcode, payload |-> payload, size |-> Len(f)]
  <2>0. Header(first, digits, key, Len(body))  BY <1>2, <1>6
  <2>1. FrameAt(x) = IF Len(x) < Len(f) THEN NeedMore
                     ELSE [fin |-> h >= 128, opcode |-> h % 16,
                           payload |-> Masked(key, body), size |-> Len(f)]
    BY <1>1, <1>2, <1>4, <1>6, <1>8, <1>10, <2>0, FrameRead
  <2>2. (h >= 128) = fin  BY <1>1
  <2> QED BY <1>1, <1>2, <2>1, <2>2
<1> QED BY <1>9, <1>10 DEF f

-----------------------------------------------------------------------------
(* What the client sends is what Apple reads *)

\* Smaller numbers of messages are numbers of messages.
LEMMA WordDown == \A n \in Word : n \in Nat /\ \A k \in Nat : k <= n => k \in Word
<1> TAKE n \in Word
<1>1. n \in Nat /\ n \div 65536 < 65536  BY DEF Word
<1>2. ASSUME NEW k \in Nat, k <= n PROVE k \div 65536 < 65536
  <2>1. k \div 65536 <= n \div 65536  BY <1>1, <1>2
  <2>2. k \div 65536 \in Int /\ n \div 65536 \in Int  BY <1>1
  <2> QED BY <1>1, <2>1, <2>2
<1> QED BY <1>1, <1>2 DEF Word

\* The value of the only field.
LEMMA OnlyOne ==
  \A n \in Nat : \A v \in Value : \A d : First(<<<<n, v>>>>, n, d) = v
<1> TAKE n \in Nat
<1> TAKE v \in Value
<1> TAKE d
<1> DEFINE f == <<<<n, v>>>>
<1>1. f \in Seq(Pairs) /\ Len(f) = 1 /\ f[1] = <<n, v>>  BY PairIs
<1>2. f[1][1] = n /\ f[1][2] = v /\ 1 \in 1..Len(f)  BY <1>1
<1>3. \A j \in 1..Len(f) : j < 1 => f[j][1] # n  BY <1>1
<1> HIDE DEF f
<1>4. First(f, n, d) = v  BY <1>1, <1>2, <1>3, FirstIs
<1> QED BY <1>4 DEF f

\* The acknowledgement of a push is read as it was meant.
LEMMA AckBack ==
  ASSUME NEW topic \in Bytes, Len(topic) \in Word, NEW id \in Word,
         Len(EncodeAck(topic, id)) \in Word
  PROVE  LET ack == DecodeFields[First(DecodeFields[EncodeAck(topic, id)], 2, <<>>)]
         IN /\ EncodeAck(topic, id) \in Bytes
            /\ First(ack, 1, <<>>) = topic /\ First(ack, 2, 0) = id
<1> DEFINE a == EncodeBytes(1, topic)
           b == EncodeUint(2, id)
           i == a \o b
           t == EncodeVarint[2 * 8 + 2]
           l == EncodeVarint[Len(i)]
<1>1. a \in Bytes /\ Good(a) /\ DecodeFields[a] = <<<<1, topic>>>>  BY BytesField, TagsAre
<1>2. b \in Bytes /\ Good(b) /\ DecodeFields[b] = <<<<2, id>>>>  BY UintField, TagsAre
<1>3. topic \in Value /\ id \in Value  BY Values
<1>4. <<1, topic>> \in Pairs /\ <<2, id>> \in Pairs  BY <1>3, PairIs
<1>5. EncodeAck(topic, id) = EncodeBytes(2, i) /\ EncodeAck(topic, id) = t \o (l \o i)
  BY DEF EncodeAck, EncodeBytes, EncodeField
<1> HIDE DEF a, b
<1>6. i \in Bytes /\ Len(i) \in Nat /\ DecodeFields[i] = <<<<1, topic>>, <<2, id>>>>
  <2>1. i \in Bytes /\ Good(i) /\ DecodeFields[i] = <<<<1, topic>>, <<2, id>>>>
    BY <1>1, <1>2, <1>4, Second
  <2>2. Len(i) \in Nat
    <3> HIDE DEF i
    <3> QED BY <2>1, ByteAt
  <2> QED BY <2>1, <2>2
<1> HIDE DEF i
<1>7. Len(i) \in Word
  <2>1. 2 * 8 + 2 \in Nat  OBVIOUS
  <2>2. t \in Bytes /\ l \in Bytes  BY <1>6, <2>1, EncodeVarintIs
  <2> HIDE DEF t, l
  <2>3. l \o i \in Bytes /\ Len(l \o i) = Len(l) + Len(i)  BY <1>6, <2>2, Joining
  <2>4. Len(t \o (l \o i)) = Len(t) + Len(l \o i)  BY <2>2, <2>3, Joining
  <2>5. Len(t) \in Nat /\ Len(l) \in Nat  BY <2>2, ByteAt
  <2>6. Len(t \o (l \o i)) \in Word  BY <1>5
  <2>7. Len(i) <= Len(t \o (l \o i))  BY <1>6, <2>3, <2>4, <2>5
  <2> QED BY <1>6, <2>6, <2>7, WordDown
<1>8. EncodeBytes(2, i) \in Bytes /\ DecodeFields[EncodeBytes(2, i)] = <<<<2, i>>>>
  BY <1>6, <1>7, BytesField, TagsAre
<1>9. i \in Value /\ 2 \in Nat  BY <1>6, Values
<1>10. First(<<<<2, i>>>>, 2, <<>>) = i  BY <1>9, OnlyOne
<1>11. First(DecodeFields[EncodeAck(topic, id)], 2, <<>>) = i  BY <1>5, <1>8, <1>10, Zenon
<1>12. /\ First(<<<<1, topic>>, <<2, id>>>>, 1, <<>>) = topic
       /\ First(<<<<1, topic>>, <<2, id>>>>, 2, 0) = id
  BY <1>3, FirstOfTwo
<1> QED BY <1>5, <1>6, <1>8, <1>11, <1>12, Zenon

\* A frame the client sends is a frame Apple reads.
LEMMA AnswerIs ==
  ASSUME NEW opcode \in Nat, opcode < 16, NEW payload \in Bytes, Len(payload) \in Word
  PROVE  /\ Answer(opcode, payload) \in Bytes
         /\ FrameAt(Answer(opcode, payload)).opcode = opcode
         /\ FrameAt(Answer(opcode, payload)).payload = payload
<1> DEFINE f == Frame(TRUE, opcode, payload, MaskKey)
<1>1. IsKey(MaskKey)  BY MaskKeys DEF IsKey
<1>2. f \in Bytes /\ \A x \in Bytes : Agree(x, f) =>
        FrameAt(x) = IF Len(x) < Len(f) THEN NeedMore
                     ELSE [fin |-> TRUE, opcode |-> opcode, payload |-> payload, size |-> Len(f)]
  <2>1. TRUE \in BOOLEAN  OBVIOUS
  <2> QED BY <1>1, <2>1, FrameIs, Zenon
<1>3. Answer(opcode, payload) = f  BY DEF Answer
<1> HIDE DEF f
<1>4. Agree(f, f) /\ ~(Len(f) < Len(f))  BY <1>2, ByteAt DEF Agree
<1>5. FrameAt(f) = [fin |-> TRUE, opcode |-> opcode, payload |-> payload, size |-> Len(f)]
  BY <1>2, <1>4
<1> QED BY <1>2, <1>3, <1>5

\* Apple reads in a pong the payload it carries.
LEMMA PongIs ==
  \A payload \in Bytes : Len(payload) \in Word =>
    /\ Answer(Opcode.pong, payload) \in Bytes
    /\ AppleReads(Answer(Opcode.pong, payload)) = [kind |-> "pong", payload |-> payload]
<1> TAKE payload \in Bytes
<1> HAVE Len(payload) \in Word
<1>1. Opcode.pong = 10 /\ 10 \in Nat /\ 10 < 16  BY DEF Opcode
<1>2. /\ Answer(10, payload) \in Bytes
      /\ FrameAt(Answer(10, payload)).opcode = 10
      /\ FrameAt(Answer(10, payload)).payload = payload
  BY <1>1, AnswerIs
<1>3. AppleReads(Answer(10, payload)) = [kind |-> "pong", payload |-> payload]
  BY <1>1, <1>2 DEF AppleReads
<1> QED BY <1>1, <1>2, <1>3

\* Apple reads in an acknowledgement the topic and the number it carries.
LEMMA AckIs ==
  ASSUME NEW topic \in Bytes, Len(topic) \in Word, NEW id \in Word,
         Len(EncodeAck(topic, id)) \in Word
  PROVE  /\ Answer(Opcode.binary, EncodeAck(topic, id)) \in Bytes
         /\ AppleReads(Answer(Opcode.binary, EncodeAck(topic, id)))
              = [kind |-> "ack", topic |-> topic, id |-> id]
<1> DEFINE data == EncodeAck(topic, id)
           ack == DecodeFields[First(DecodeFields[data], 2, <<>>)]
<1>1. Opcode.pong = 10 /\ Opcode.binary = 2 /\ 2 \in Nat /\ 2 < 16 /\ 2 # 10  BY DEF Opcode
<1>2. data \in Bytes /\ First(ack, 1, <<>>) = topic /\ First(ack, 2, 0) = id  BY AckBack
<1>3. Len(data) \in Word  OBVIOUS
<1> HIDE DEF data
<1>4. /\ Answer(2, data) \in Bytes
      /\ FrameAt(Answer(2, data)).opcode = 2
      /\ FrameAt(Answer(2, data)).payload = data
  BY <1>1, <1>2, <1>3, AnswerIs
<1>5. AppleReads(Answer(2, data)) = [kind |-> "ack", topic |-> First(ack, 1, <<>>), id |-> First(ack, 2, 0)]
  BY <1>1, <1>4 DEF AppleReads
<1> QED BY <1>1, <1>2, <1>4, <1>5 DEF data

\* The push of a message, if there is one, can be acknowledged.
LEMMA PushedIs ==
  ASSUME NEW m, IsMessage(m), SizesFit(m)
  PROVE  \/ Pushed(PartsOf(m)) = <<>>
         \/ \E x : /\ Pushed(PartsOf(m)) = <<x>>
                   /\ x.topic \in Bytes /\ Len(x.topic) \in Word /\ x.id \in Word
                   /\ Len(EncodeAck(x.topic, x.id)) \in Word
<1> DEFINE parts == PartsOf(m)
           pushes == {p \in parts : p.kind = "push"}
           x == CHOOSE y \in pushes : TRUE
<1>1. Pushed(parts) = IF pushes = {} THEN <<>> ELSE <<x>>  BY DEF Pushed
<1>2. ASSUME pushes # {}
      PROVE  /\ x.topic \in Bytes /\ Len(x.topic) \in Word /\ x.id \in Word
             /\ Len(EncodeAck(x.topic, x.id)) \in Word
  <2>1. x \in pushes  BY <1>2
  <2> HIDE DEF x
  <2>2. PICK i \in DOMAIN m : x = Understood(m[i])  BY <2>1 DEF PartsOf
  <2>3. m \in Seq(Part) /\ DOMAIN m = 1..Len(m)  BY LenProperties DEF IsMessage
  <2>4. m[i] \in Part  BY <2>2, <2>3, ElementOfSeq
  <2>5. m[i].kind \in {"connection", "push", "subscription", "ack"}  BY <2>4, Kinds
  <2>6. CASE m[i].kind = "subscription"
    <3>1. x.kind = m[i].kind
      <4>1. x = [m[i] EXCEPT !.topics = {m[i].topics[k] : k \in DOMAIN m[i].topics} \ {<<>>}]
        BY <2>2, <2>6 DEF Understood
      <4> QED BY <2>4, <2>6, <4>1 DEF Part
    <3> QED BY <2>1, <2>6, <3>1
  <2>7. CASE m[i].kind # "subscription"
    <3>1. x = m[i]  BY <2>2, <2>7 DEF Understood
    <3>2. x.kind = "push"  BY <2>1
    <3>3. x \in [kind : {"push"}, topic : Bytes, id : Word, payload : Bytes]
      BY <2>4, <3>1, <3>2 DEF Part
    <3>4. x.topic \in Bytes /\ x.id \in Word  BY <3>3
    <3>5. Len(x.topic) \in Word /\ Len(EncodeAck(x.topic, x.id)) \in Word
      BY <2>2, <3>1, <3>2 DEF SizesFit
    <3> QED BY <3>4, <3>5
  <2> QED BY <2>6, <2>7
<1> QED BY <1>1, <1>2

-----------------------------------------------------------------------------
(* The invariant *)

\* What Apple answers for, and an entry of its log.
Due == [kind : {"pong"}, payload : Bytes] \cup [kind : {"ack"}, topic : Bytes, id : Word]
Entry == [bytes : Bytes, end : Nat, said : Nat, spoken : Nat, begun : BOOLEAN, due : Seq(Due)]

\* The message being said after an entry.
Text(p, e) == MessageBytes(p[e.said + 1])

\* What is said, spoken and begun fits the messages.
EntryOK(p, e) ==
  /\ e \in Entry
  /\ e.said <= Len(p)
  /\ e.begun => e.said < Len(p)
  /\ ~e.begun => e.spoken = 0
  /\ e.said < Len(p) => e.spoken <= Len(Text(p, e))

\* The entry of a frame that Apple may send after the entry a.
With(e, bytes) == [e EXCEPT !.bytes = bytes, !.end = @ + Len(bytes)]
\* The opcode of the next piece.
Spoken(e) == IF e.begun THEN 0 ELSE 2

\* The frames that Apple may send after the entry a.
Follows(p, a, b) ==
  \/ \E key \in Keys, n \in Cuts :
       /\ a.said < Len(p) /\ a.spoken + n <= Len(Text(p, a))
       /\ b = With([a EXCEPT !.spoken = @ + n, !.begun = TRUE],
                   Frame(FALSE, Spoken(a), SubSeq(Text(p, a), a.spoken + 1, a.spoken + n), key))
  \/ \E key \in Keys :
       /\ a.said < Len(p)
       /\ b = With([a EXCEPT !.said = @ + 1, !.spoken = 0, !.begun = FALSE,
                             !.due = @ \o AcksDue(p, a.said + 1)],
                   Frame(TRUE, Spoken(a), After(Text(p, a), a.spoken), key))
  \/ \E key \in Keys, payload \in Pings :
       b = With([a EXCEPT !.due = Append(@, [kind |-> "pong", payload |-> payload])],
                Frame(TRUE, 9, payload, key))
  \/ \E opcode \in Strays : b = With(a, Frame(TRUE, opcode, <<>>, <<>>))

\* The bytes of an entry are where they should be.
Held(s, e) ==
  /\ Len(e.bytes) <= e.end
  /\ \A j \in 1..Len(e.bytes) : s[e.end - Len(e.bytes) + j] = e.bytes[j]

\* The log holds the frames of the stream, one after the other.
LogOK(p, l, s) ==
  /\ p \in Plans /\ s \in Bytes /\ l \in Seq(Entry) /\ Len(l) >= 1 /\ l[1] = HttpEntry
  /\ \A i \in 1..Len(l) : /\ EntryOK(p, l[i]) /\ Held(s, l[i])
                          /\ l[i].end <= Len(s)
                          /\ i < Len(l) => l[i].end < Len(s)
                          /\ i = Len(l) => l[i].end = Len(s)
  /\ \A i \in 1..(Len(l) - 1) : Follows(p, l[i], l[i + 1])

\* The buffer holds what has come after the first n bytes.
Holds(b, s, g, n) ==
  /\ n <= g /\ b \in Bytes /\ Len(b) = g - n
  /\ \A i \in 1..Len(b) : b[i] = s[n + i]

\* The buffer holds what has come since the end of the last frame taken, or,
\* before the HTTP answer is read, all that has come.
BufferOK(l, s, g, b, st, k) ==
  /\ g \in Nat /\ g <= Len(s)
  /\ st \in {"http", "reading", "failed"}
  /\ k \in Nat /\ k + 1 <= Len(l)
  /\ \/ st # "reading" /\ k = 0 /\ Holds(b, s, g, 0)
     \/ st # "http" /\ Holds(b, s, g, l[k + 1].end)

\* The pieces after the frame of an entry: what was spoken of the message.
PiecesAt(p, e) ==
  IF e.begun THEN [opcode |-> 2, data |-> SubSeq(Text(p, e), 1, e.spoken)] ELSE NoPieces

\* The messages read by then are those said by then, and they tell who waits.
ReadOK(p, e, w, r) ==
  /\ r \in Seq(Bytes) /\ Len(r) = e.said
  /\ \A i \in 1..Len(r) : r[i] = MessageBytes(p[i])
  /\ w = IF \E j \in 1..Len(r) : Accepted(PartsOf(p[j])) THEN "push" ELSE "token"

\* The answers sent by then are those due by then, unless the client gave up.
SentOK(e, st, s) ==
  /\ s \in Seq(Bytes) /\ Len(s) <= Len(e.due)
  /\ \A i \in 1..Len(s) : AppleReads(s[i]) = e.due[i]
  /\ st # "failed" => Len(s) = Len(e.due)

\* The inductive invariant: with the last frame taken, everything the client
\* holds is what Apple's log says it should.
Inv ==
  /\ LogOK(plan, log, stream)
  /\ BufferOK(log, stream, got, buffer, stage, taken)
  /\ pieces = PiecesAt(plan, log[taken + 1])
  /\ ReadOK(plan, log[taken + 1], wait, received)
  /\ SentOK(log[taken + 1], stage, sent)

-----------------------------------------------------------------------------
(* What a frame says *)

\* How the entry b of a frame differs from the entry a before it.
SameMessage(a, b) == b.said = a.said /\ b.spoken = a.spoken /\ b.begun = a.begun

\* A piece of a message, its end, a ping, and a frame that says nothing.
SaysPiece(p, a, b, fin, opcode, payload) ==
  /\ fin = FALSE /\ opcode = Spoken(a) /\ a.said < Len(p)
  /\ b.said = a.said /\ b.begun = TRUE /\ b.due = a.due
  /\ a.spoken <= b.spoken /\ b.spoken <= Len(Text(p, a))
  /\ payload = SubSeq(Text(p, a), a.spoken + 1, b.spoken)
SaysEnd(p, a, b, fin, opcode, payload) ==
  /\ fin = TRUE /\ opcode = Spoken(a) /\ a.said < Len(p)
  /\ b.said = a.said + 1 /\ b.spoken = 0 /\ b.begun = FALSE
  /\ b.due = a.due \o AcksDue(p, a.said + 1)
  /\ payload = After(Text(p, a), a.spoken)
SaysPing(p, a, b, fin, opcode, payload) ==
  /\ fin = TRUE /\ opcode = 9 /\ SameMessage(a, b)
  /\ b.due = Append(a.due, [kind |-> "pong", payload |-> payload])
SaysNothing(p, a, b, fin, opcode, payload) ==
  /\ fin = TRUE /\ opcode >= 3 /\ opcode # 9 /\ SameMessage(a, b) /\ b.due = a.due

\* The entry b is that of such a frame.
Says(p, a, b, fin, opcode, payload) ==
  /\ fin \in BOOLEAN /\ opcode \in Nat /\ opcode < 16
  /\ payload \in Bytes /\ Len(payload) \in Word
  /\ \E key : IsKey(key) /\ b.bytes = Frame(fin, opcode, payload, key)
  /\ b.end = a.end + Len(b.bytes)
  /\ \/ SaysPiece(p, a, b, fin, opcode, payload)
     \/ SaysEnd(p, a, b, fin, opcode, payload)
     \/ SaysPing(p, a, b, fin, opcode, payload)
     \/ SaysNothing(p, a, b, fin, opcode, payload)

\* The fields of an entry.
LEMMA EntryIs ==
  \A e \in Entry : /\ e.bytes \in Bytes /\ e.end \in Nat /\ e.said \in Nat /\ e.spoken \in Nat
                   /\ e.begun \in BOOLEAN /\ e.due \in Seq(Due)
                   /\ Spoken(e) \in Nat /\ Spoken(e) < 3
BY DEF Entry, Spoken

\* The entry of the next frame.
LEMMA WithIs ==
  \A e \in Entry : \A bytes \in Bytes :
     /\ With(e, bytes) \in Entry
     /\ With(e, bytes).bytes = bytes /\ With(e, bytes).end = e.end + Len(bytes)
     /\ With(e, bytes).said = e.said /\ With(e, bytes).spoken = e.spoken
     /\ With(e, bytes).begun = e.begun /\ With(e, bytes).due = e.due
<1> TAKE e \in Entry
<1> TAKE bytes \in Bytes
<1> DEFINE n == e.end + Len(bytes)
<1>1. n \in Nat  BY EntryIs, ByteAt
<1>2. With(e, bytes) = [e EXCEPT !.bytes = bytes, !.end = n]  BY DEF With
<1> HIDE DEF n
<1>3. [e EXCEPT !.bytes = bytes, !.end = n] \in Entry  BY <1>1 DEF Entry
<1>4. LET f == [e EXCEPT !.bytes = bytes, !.end = n]
      IN f.bytes = bytes /\ f.end = n /\ f.said = e.said /\ f.spoken = e.spoken
         /\ f.begun = e.begun /\ f.due = e.due
  BY DEF Entry
<1> QED BY <1>2, <1>3, <1>4 DEF n

\* A message that is planned.
LEMMA PlanIs ==
  ASSUME NEW p \in Plans, NEW i \in 1..Len(p)
  PROVE  /\ IsMessage(p[i]) /\ SizesFit(p[i])
         /\ MessageBytes(p[i]) \in Bytes /\ Len(MessageBytes(p[i])) \in Word
         /\ DecodeServerMessage(MessageBytes(p[i])) = PartsOf(p[i])
<1>1. p \in Seq(Seq(Part)) /\ \A k \in DOMAIN p : IsMessage(p[k]) /\ SizesFit(p[k])
  BY PlannedMessages
<1>2. DOMAIN p = 1..Len(p)  BY <1>1, LenProperties
<1>3. IsMessage(p[i]) /\ SizesFit(p[i])  BY <1>1, <1>2
<1>4. Good(MessageBytes(p[i])) /\ DecodeServerMessage(MessageBytes(p[i])) = PartsOf(p[i])
  BY <1>3, MessageRead
<1> QED BY <1>3, <1>4 DEF Good, SizesFit

\* Apple sends finitely many messages.
LEMMA PlanLength == \A p \in Plans : Len(p) \in Nat
<1> TAKE p \in Plans
<1>1. p \in Seq(Seq(Part))  BY PlannedMessages
<1> QED BY <1>1, LenProperties

\* The acknowledgements of one message.
Acks(q) == [i \in DOMAIN q |-> [kind |-> "ack", topic |-> q[i].topic, id |-> q[i].id]]

\* The acknowledgements of no push and of one.
LEMMA AcksAre ==
  /\ Acks(<<>>) = <<>>
  /\ \A x : Acks(<<x>>) = <<[kind |-> "ack", topic |-> x.topic, id |-> x.id]>>
<1>1. DOMAIN <<>> = 1..0  OBVIOUS
<1>2. Acks(<<>>) = <<>>  BY DEF Acks
<1>3. ASSUME NEW x PROVE Acks(<<x>>) = <<[kind |-> "ack", topic |-> x.topic, id |-> x.id]>>
  <2>1. DOMAIN <<x>> = {1} /\ <<x>>[1] = x  OBVIOUS
  <2>2. Acks(<<x>>) = [i \in {1} |-> [kind |-> "ack", topic |-> x.topic, id |-> x.id]]
    BY <2>1 DEF Acks
  <2> DEFINE r == [kind |-> "ack", topic |-> x.topic, id |-> x.id]
  <2> HIDE DEF r
  <2>3. [i \in {1} |-> r] = <<r>>  OBVIOUS
  <2> QED BY <2>2, <2>3 DEF r
<1> QED BY <1>2, <1>3

\* What is due for a message is the acknowledgement of its push, if the token
\* has come.
LEMMA AcksDueIs ==
  ASSUME NEW p \in Plans, NEW k \in 1..Len(p)
  PROVE  /\ AcksDue(p, k) \in Seq(Due)
         /\ AcksDue(p, k) = IF \E j \in 1..(k - 1) : Accepted(PartsOf(p[j]))
                            THEN Acks(Pushed(PartsOf(p[k]))) ELSE <<>>
<1> DEFINE q == Pushed(PartsOf(p[k]))
<1>1. AcksDue(p, k) = IF \E j \in 1..(k - 1) : Accepted(PartsOf(p[j])) THEN Acks(q) ELSE <<>>
  BY DEF AcksDue, Acks
<1>2. Acks(q) \in Seq(Due)
  <2>1. IsMessage(p[k]) /\ SizesFit(p[k])  BY PlanIs
  <2>2. CASE q = <<>>  BY <2>2, AcksAre, EmptySeq
  <2>3. CASE \E x : q = <<x>> /\ x.topic \in Bytes /\ x.id \in Word
    <3>1. PICK x : q = <<x>> /\ x.topic \in Bytes /\ x.id \in Word  BY <2>3
    <3>2. [kind |-> "ack", topic |-> x.topic, id |-> x.id] \in Due  BY <3>1 DEF Due
    <3>3. Acks(<<x>>) \in Seq(Due)
      <4> DEFINE r == [kind |-> "ack", topic |-> x.topic, id |-> x.id]
      <4>1. Acks(<<x>>) = <<r>>  BY AcksAre
      <4> HIDE DEF r
      <4>2. r \in Due  BY <3>2 DEF r
      <4>3. <<r>> \in Seq(Due)  BY <4>2
      <4> QED BY <4>1, <4>3, Zenon
    <3> QED BY <3>1, <3>3
  <2> QED BY <2>1, <2>2, <2>3, PushedIs
<1>3. <<>> \in Seq(Due)  BY EmptySeq
<1> QED BY <1>1, <1>2, <1>3

-----------------------------------------------------------------------------
(* The log and the buffer *)

\* Apple masks with four bytes or not at all.
LEMMA KeysAre == \A key \in Keys : IsKey(key)
BY MaskKeys DEF IsKey

\* A frame is a text.
LEMMA FrameBytes ==
  ASSUME NEW fin \in BOOLEAN, NEW opcode \in Nat, opcode < 16,
         NEW payload \in Bytes, Len(payload) \in Word, NEW key, IsKey(key)
  PROVE  Frame(fin, opcode, payload, key) \in Bytes
BY FrameIs

\* Every frame that may follow says one of these four things.
LEMMA FollowsIs ==
  ASSUME NEW p \in Plans, NEW a, EntryOK(p, a), NEW b, Follows(p, a, b)
  PROVE  EntryOK(p, b) /\ \E fin, opcode, payload : Says(p, a, b, fin, opcode, payload)
<1>a. /\ a \in Entry /\ a.said \in Nat /\ a.spoken \in Nat /\ a.begun \in BOOLEAN
      /\ a.due \in Seq(Due) /\ Spoken(a) \in Nat /\ Spoken(a) < 16 /\ a.end \in Nat
  <2>1. a \in Entry  BY DEF EntryOK
  <2> QED BY <2>1, EntryIs
<1>p. Len(p) \in Nat  BY PlanLength
<1>t. ASSUME a.said < Len(p)
      PROVE  /\ a.said + 1 \in 1..Len(p)
             /\ Text(p, a) \in Bytes /\ Len(Text(p, a)) \in Word /\ Len(Text(p, a)) \in Nat
             /\ a.spoken <= Len(Text(p, a))
  <2>1. a.said + 1 \in 1..Len(p)  BY <1>a, <1>p, <1>t
  <2>2. Text(p, a) \in Bytes /\ Len(Text(p, a)) \in Word  BY <2>1, PlanIs DEF Text
  <2>3. a.spoken <= Len(Text(p, a))  BY <1>t DEF EntryOK
  <2> QED BY <2>1, <2>2, <2>3, WordDown
<1>1. ASSUME NEW key \in Keys, NEW n \in Cuts,
             a.said < Len(p), a.spoken + n <= Len(Text(p, a)),
             b = With([a EXCEPT !.spoken = @ + n, !.begun = TRUE],
                      Frame(FALSE, Spoken(a), SubSeq(Text(p, a), a.spoken + 1, a.spoken + n), key))
      PROVE  EntryOK(p, b) /\ \E fin, opcode, payload : Says(p, a, b, fin, opcode, payload)
  <2> DEFINE payload == SubSeq(Text(p, a), a.spoken + 1, a.spoken + n)
             f == Frame(FALSE, Spoken(a), payload, key)
             a1 == [a EXCEPT !.spoken = @ + n, !.begun = TRUE]
  <2>1. n \in Nat  BY OtherFrames
  <2>0. a.said < Len(p) /\ a.spoken + n <= Len(Text(p, a))  BY <1>1
  <2>2. /\ a1 \in Entry /\ a1.spoken = a.spoken + n /\ a1.begun = TRUE /\ a1.said = a.said
        /\ a1.due = a.due /\ a1.end = a.end
    <3> DEFINE m == a.spoken + n
    <3>1. m \in Nat  BY <1>a, <2>1
    <3>2. a1 = [a EXCEPT !.spoken = m, !.begun = TRUE]  OBVIOUS
    <3> HIDE DEF m, a1
    <3>3. a1 \in Entry /\ a1.spoken = m /\ a1.begun = TRUE /\ a1.said = a.said
          /\ a1.due = a.due /\ a1.end = a.end
      BY <1>a, <3>1, <3>2 DEF Entry
    <3> QED BY <3>3 DEF m
  <2>3. payload \in Bytes /\ Len(payload) \in Word
    <3>1. /\ a.spoken + 1 \in Nat /\ a.spoken + n \in Nat /\ 1 <= a.spoken + 1
          /\ a.spoken + 1 <= a.spoken + n + 1
      BY <1>a, <2>1
    <3>2. payload \in Bytes /\ Len(payload) = a.spoken + n + 1 - (a.spoken + 1)
      BY <1>1, <1>t, <3>1, Cutting
    <3>3. Len(payload) \in Nat /\ Len(payload) <= Len(Text(p, a))
      BY <1>1, <1>a, <1>t, <2>1, <3>2
    <3> QED BY <1>1, <1>t, <3>2, <3>3, WordDown
  <2>4. IsKey(key)  BY KeysAre
  <2> HIDE DEF payload, a1
  <2>5. FALSE \in BOOLEAN  OBVIOUS
  <2>6. f \in Bytes  BY <1>a, <2>3, <2>4, <2>5, FrameBytes
  <2> HIDE DEF f
  <2>7. b = With(a1, f)  BY <1>1 DEF a1, f, payload
  <2>8. /\ b \in Entry /\ b.bytes = f /\ b.end = a.end + Len(f) /\ b.said = a.said
        /\ b.spoken = a.spoken + n /\ b.begun = TRUE /\ b.due = a.due
    BY <2>2, <2>6, <2>7, WithIs
  <2>9. Text(p, b) = Text(p, a)  BY <2>8 DEF Text
  <2>10. EntryOK(p, b)  BY <1>1, <2>8, <2>9 DEF EntryOK
  <2>11. SaysPiece(p, a, b, FALSE, Spoken(a), payload)
    <3>1. a.spoken <= b.spoken /\ b.spoken <= Len(Text(p, a))
      <4>1. a.spoken <= a.spoken + n  BY <1>a, <2>1
      <4> QED BY <2>0, <2>8, <4>1
    <3>2. payload = SubSeq(Text(p, a), a.spoken + 1, b.spoken)  BY <2>8 DEF payload
    <3> QED BY <1>1, <2>8, <3>1, <3>2 DEF SaysPiece
  <2>12. b.bytes = Frame(FALSE, Spoken(a), payload, key)  BY <2>8 DEF f
  <2>13. Says(p, a, b, FALSE, Spoken(a), payload)
    BY <1>a, <2>3, <2>4, <2>5, <2>8, <2>11, <2>12 DEF Says
  <2> QED BY <2>10, <2>13
<1>2. ASSUME NEW key \in Keys, a.said < Len(p),
             b = With([a EXCEPT !.said = @ + 1, !.spoken = 0, !.begun = FALSE,
                                !.due = @ \o AcksDue(p, a.said + 1)],
                      Frame(TRUE, Spoken(a), After(Text(p, a), a.spoken), key))
      PROVE  EntryOK(p, b) /\ \E fin, opcode, payload : Says(p, a, b, fin, opcode, payload)
  <2> DEFINE payload == After(Text(p, a), a.spoken)
             f == Frame(TRUE, Spoken(a), payload, key)
             due == a.due \o AcksDue(p, a.said + 1)
             a1 == [a EXCEPT !.said = @ + 1, !.spoken = 0, !.begun = FALSE, !.due = due]
  <2>1. due \in Seq(Due)
    <3>1. AcksDue(p, a.said + 1) \in Seq(Due)  BY <1>2, <1>t, AcksDueIs
    <3> QED BY <1>a, <3>1, ConcatProperties
  <2>7. b = With(a1, f)  BY <1>2
  <2> HIDE DEF due
  <2>2. /\ a1 \in Entry /\ a1.spoken = 0 /\ a1.begun = FALSE /\ a1.said = a.said + 1
        /\ a1.due = due /\ a1.end = a.end
    <3> DEFINE m == a.said + 1
    <3>1. m \in Nat /\ 0 \in Nat  BY <1>a
    <3>2. a1 = [a EXCEPT !.said = m, !.spoken = 0, !.begun = FALSE, !.due = due]  OBVIOUS
    <3> HIDE DEF m, a1
    <3>3. a1 \in Entry /\ a1.spoken = 0 /\ a1.begun = FALSE /\ a1.said = m
          /\ a1.due = due /\ a1.end = a.end
      BY <1>a, <2>1, <3>1, <3>2 DEF Entry
    <3> QED BY <3>3 DEF m
  <2>3. payload \in Bytes /\ Len(payload) \in Word
    <3>1. payload \in Bytes /\ Len(payload) = Len(Text(p, a)) - a.spoken
      BY <1>2, <1>a, <1>t, Taking
    <3>2. Len(payload) \in Nat /\ Len(payload) <= Len(Text(p, a))  BY <1>2, <1>a, <1>t, <3>1
    <3> QED BY <1>2, <1>t, <3>1, <3>2, WordDown
  <2>4. IsKey(key)  BY KeysAre
  <2> HIDE DEF payload, a1
  <2>5. TRUE \in BOOLEAN  OBVIOUS
  <2>6. f \in Bytes  BY <1>a, <2>3, <2>4, <2>5, FrameBytes
  <2> HIDE DEF f
  <2>8. /\ b \in Entry /\ b.bytes = f /\ b.end = a.end + Len(f) /\ b.said = a.said + 1
        /\ b.spoken = 0 /\ b.begun = FALSE /\ b.due = due
    BY <2>2, <2>6, <2>7, WithIs
  <2>9. ASSUME b.said < Len(p) PROVE 0 <= Len(Text(p, b))
    <3>1. b.said + 1 \in 1..Len(p)  BY <1>a, <1>p, <2>8, <2>9
    <3>2. Text(p, b) \in Bytes  BY <3>1, PlanIs DEF Text
    <3> QED BY <3>2, ByteAt
  <2>10. EntryOK(p, b)
    <3>1. b.said <= Len(p)
      <4>1. a.said < Len(p)  BY <1>2
      <4>2. a.said + 1 <= Len(p)  BY <1>a, <1>p, <4>1
      <4> QED BY <2>8, <4>2
    <3> QED BY <2>8, <2>9, <3>1 DEF EntryOK
  <2>11. SaysEnd(p, a, b, TRUE, Spoken(a), payload)
    BY <1>2, <2>8 DEF SaysEnd, payload, due
  <2>12. b.bytes = Frame(TRUE, Spoken(a), payload, key)  BY <2>8 DEF f
  <2>13. Says(p, a, b, TRUE, Spoken(a), payload)
    BY <1>a, <2>3, <2>4, <2>5, <2>8, <2>11, <2>12 DEF Says
  <2> QED BY <2>10, <2>13
<1>3. ASSUME NEW key \in Keys, NEW payload \in Pings,
             b = With([a EXCEPT !.due = Append(@, [kind |-> "pong", payload |-> payload])],
                      Frame(TRUE, 9, payload, key))
      PROVE  EntryOK(p, b) /\ \E fin, opcode, said : Says(p, a, b, fin, opcode, said)
  <2> DEFINE f == Frame(TRUE, 9, payload, key)
             due == Append(a.due, [kind |-> "pong", payload |-> payload])
             a1 == [a EXCEPT !.due = due]
  <2>0. payload \in Bytes /\ Len(payload) \in Word  BY OtherFrames
  <2>1. due \in Seq(Due)
    <3>1. [kind |-> "pong", payload |-> payload] \in Due  BY <2>0 DEF Due
    <3> QED BY <1>a, <3>1, AppendProperties
  <2>7. b = With(a1, f)  BY <1>3
  <2> HIDE DEF due
  <2>2. /\ a1 \in Entry /\ a1.spoken = a.spoken /\ a1.begun = a.begun /\ a1.said = a.said
        /\ a1.due = due /\ a1.end = a.end
    BY <1>a, <2>1 DEF Entry
  <2>4. IsKey(key)  BY KeysAre
  <2> HIDE DEF a1
  <2>5. TRUE \in BOOLEAN /\ 9 \in Nat /\ 9 < 16  OBVIOUS
  <2>6. f \in Bytes  BY <2>0, <2>4, <2>5, FrameBytes
  <2> HIDE DEF f
  <2>8. /\ b \in Entry /\ b.bytes = f /\ b.end = a.end + Len(f) /\ b.said = a.said
        /\ b.spoken = a.spoken /\ b.begun = a.begun /\ b.due = due
    BY <2>2, <2>6, <2>7, WithIs
  <2>9. Text(p, b) = Text(p, a)  BY <2>8 DEF Text
  <2>10. EntryOK(p, b)  BY <2>8, <2>9 DEF EntryOK
  <2>11. SaysPing(p, a, b, TRUE, 9, payload)  BY <2>8 DEF SaysPing, SameMessage, due
  <2>12. b.bytes = Frame(TRUE, 9, payload, key)  BY <2>8 DEF f
  <2>13. Says(p, a, b, TRUE, 9, payload)
    BY <2>0, <2>4, <2>5, <2>8, <2>11, <2>12 DEF Says
  <2> QED BY <2>10, <2>13
<1>4. ASSUME NEW opcode \in Strays, b = With(a, Frame(TRUE, opcode, <<>>, <<>>))
      PROVE  EntryOK(p, b) /\ \E fin, code, said : Says(p, a, b, fin, code, said)
  <2> DEFINE f == Frame(TRUE, opcode, <<>>, <<>>)
  <2>0. opcode \in Nat /\ opcode < 16 /\ opcode >= 3 /\ opcode # 9  BY OtherFrames
  <2>3. <<>> \in Bytes /\ Len(<<>>) = 0  BY NoBytes
  <2>1. Len(<<>>) \in Word  BY <2>3 DEF Word
  <2>4. IsKey(<<>>)  BY <2>3 DEF IsKey
  <2>5. TRUE \in BOOLEAN  OBVIOUS
  <2>6. f \in Bytes  BY <2>0, <2>1, <2>3, <2>4, <2>5, FrameBytes
  <2> HIDE DEF f
  <2>7. b = With(a, f)  BY <1>4 DEF f
  <2>8. /\ b \in Entry /\ b.bytes = f /\ b.end = a.end + Len(f) /\ b.said = a.said
        /\ b.spoken = a.spoken /\ b.begun = a.begun /\ b.due = a.due
    BY <1>a, <2>6, <2>7, WithIs
  <2>9. Text(p, b) = Text(p, a)  BY <2>8 DEF Text
  <2>10. EntryOK(p, b)  BY <2>8, <2>9 DEF EntryOK
  <2>11. SaysNothing(p, a, b, TRUE, opcode, <<>>)  BY <2>0, <2>8 DEF SaysNothing, SameMessage
  <2>12. b.bytes = Frame(TRUE, opcode, <<>>, <<>>)  BY <2>8 DEF f
  <2>13. Says(p, a, b, TRUE, opcode, <<>>)
    BY <2>0, <2>1, <2>3, <2>4, <2>5, <2>8, <2>11, <2>12 DEF Says
  <2> QED BY <2>10, <2>13
<1> QED BY <1>1, <1>2, <1>3, <1>4 DEF Follows

-----------------------------------------------------------------------------
(* The log, the stream and the buffer *)

\* The frame of an entry is read from every buffer that begins with it.
LEMMA SaysFrame ==
  ASSUME NEW p, NEW a, NEW b, NEW fin, NEW opcode, NEW payload, Says(p, a, b, fin, opcode, payload)
  PROVE  /\ b.bytes \in Bytes /\ Len(b.bytes) \in Nat /\ Len(b.bytes) >= 2
         /\ \A x \in Bytes : Agree(x, b.bytes) =>
              FrameAt(x) = IF Len(x) < Len(b.bytes) THEN NeedMore
                           ELSE [fin |-> fin, opcode |-> opcode, payload |-> payload,
                                 size |-> Len(b.bytes)]
<1>1. /\ fin \in BOOLEAN /\ opcode \in Nat /\ opcode < 16
      /\ payload \in Bytes /\ Len(payload) \in Word
  BY DEF Says
<1>2. PICK key : IsKey(key) /\ b.bytes = Frame(fin, opcode, payload, key)  BY DEF Says
<1> DEFINE f == Frame(fin, opcode, payload, key)
<1>3. /\ f \in Bytes /\ Len(f) >= 2
      /\ \A x \in Bytes : Agree(x, f) =>
           FrameAt(x) = IF Len(x) < Len(f) THEN NeedMore
                        ELSE [fin |-> fin, opcode |-> opcode, payload |-> payload, size |-> Len(f)]
  <2>1. IsKey(key)  BY <1>2
  <2> QED BY <1>1, <2>1, FrameIs
<1>4. b.bytes = f  BY <1>2
<1> HIDE DEF f
<1>5. Len(f) \in Nat  BY <1>3, ByteAt
<1> QED BY <1>3, <1>4, <1>5

\* What the log says of an entry.
EntryAt(p, l, s, i) ==
  /\ EntryOK(p, l[i]) /\ Held(s, l[i])
  /\ l[i].end <= Len(s)
  /\ i < Len(l) => l[i].end < Len(s)
  /\ i = Len(l) => l[i].end = Len(s)

\* What the invariant says of the log.
LEMMA LogIs ==
  ASSUME NEW p, NEW l, NEW s, LogOK(p, l, s)
  PROVE  /\ p \in Plans /\ s \in Bytes /\ Len(s) \in Nat
         /\ l \in Seq(Entry) /\ Len(l) \in Nat /\ Len(l) >= 1 /\ l[1] = HttpEntry
         /\ \A i \in 1..Len(l) : EntryAt(p, l, s, i) /\ l[i] \in Entry
         /\ \A i \in 1..(Len(l) - 1) : Follows(p, l[i], l[i + 1])
<1>1. /\ p \in Plans /\ s \in Bytes /\ l \in Seq(Entry) /\ Len(l) >= 1 /\ l[1] = HttpEntry
      /\ \A i \in 1..Len(l) : EntryAt(p, l, s, i)
      /\ \A i \in 1..(Len(l) - 1) : Follows(p, l[i], l[i + 1])
  BY DEF LogOK, EntryAt
<1>2. Len(s) \in Nat /\ Len(l) \in Nat  BY <1>1, ByteAt, LenProperties
<1>3. \A i \in 1..Len(l) : l[i] \in Entry  BY <1>1 DEF EntryAt, EntryOK
<1> QED BY <1>1, <1>2, <1>3

\* Apple sends a frame.
LEMMA LogGrows ==
  ASSUME NEW p, NEW l, NEW s, LogOK(p, l, s), NEW b, Follows(p, l[Len(l)], b)
  PROVE  LogOK(p, Append(l, b), s \o b.bytes)
<1>1. /\ p \in Plans /\ s \in Bytes /\ Len(s) \in Nat
      /\ l \in Seq(Entry) /\ Len(l) \in Nat /\ Len(l) >= 1 /\ l[1] = HttpEntry
      /\ \A i \in 1..Len(l) : EntryAt(p, l, s, i) /\ l[i] \in Entry
      /\ \A i \in 1..(Len(l) - 1) : Follows(p, l[i], l[i + 1])
  BY LogIs
<1> DEFINE a == l[Len(l)]  m == Append(l, b)  t == s \o b.bytes
<1>2. Len(l) \in 1..Len(l)  BY <1>1
<1>3. EntryOK(p, a) /\ a.end = Len(s) /\ a \in Entry  BY <1>1, <1>2 DEF EntryAt
<1>4. EntryOK(p, b)  BY <1>1, <1>3, FollowsIs
<1>5. PICK fin, opcode, payload : Says(p, a, b, fin, opcode, payload)
  BY <1>1, <1>3, FollowsIs
<1>6. b.bytes \in Bytes /\ Len(b.bytes) \in Nat /\ Len(b.bytes) >= 2  BY <1>5, SaysFrame
<1>7. b.end = Len(s) + Len(b.bytes)  BY <1>3, <1>5 DEF Says
<1>8. b \in Entry  BY <1>4 DEF EntryOK
<1>9. /\ m \in Seq(Entry) /\ Len(m) = Len(l) + 1 /\ m[Len(l) + 1] = b
      /\ \A i \in 1..Len(l) : m[i] = l[i]
  BY <1>1, <1>8, AppendProperties
<1>10. /\ t \in Bytes /\ Len(t) = Len(s) + Len(b.bytes)
       /\ \A i \in 1..Len(s) : t[i] = s[i]
       /\ \A i \in 1..Len(b.bytes) : t[Len(s) + i] = b.bytes[i]
  BY <1>1, <1>6, Joining
<1> HIDE DEF m, t
<1>11. ASSUME NEW i \in 1..Len(m)
       PROVE  /\ EntryOK(p, m[i]) /\ Held(t, m[i])
              /\ m[i].end <= Len(t)
              /\ i < Len(m) => m[i].end < Len(t)
              /\ i = Len(m) => m[i].end = Len(t)
  <2>1. CASE i <= Len(l)
    <3>1. i \in 1..Len(l)  BY <1>1, <1>9, <2>1
    <3>2. m[i] = l[i]  BY <1>9, <3>1
    <3>3. EntryOK(p, l[i]) /\ Held(s, l[i]) /\ l[i].end <= Len(s) /\ l[i] \in Entry
      BY <1>1, <3>1 DEF EntryAt
    <3> DEFINE e == l[i]
    <3>4. e.bytes \in Bytes /\ e.end \in Nat  BY <3>3, EntryIs
    <3>5. Held(t, e)
      <4>1. Len(e.bytes) \in Nat  BY <3>4, ByteAt
      <4>2. Len(e.bytes) <= e.end /\ \A j \in 1..Len(e.bytes) : s[e.end - Len(e.bytes) + j] = e.bytes[j]
        BY <3>3 DEF Held
      <4>3. e.end <= Len(s)  BY <3>3
      <4> HIDE DEF e
      <4>4. \A j \in 1..Len(e.bytes) : t[e.end - Len(e.bytes) + j] = e.bytes[j]
        <5> TAKE j \in 1..Len(e.bytes)
        <5>1. e.end - Len(e.bytes) + j \in 1..Len(s)  BY <1>1, <3>4, <4>1, <4>2, <4>3
        <5> QED BY <1>10, <4>2, <5>1
      <4> QED BY <4>2, <4>4 DEF Held
    <3>6. e.end < Len(t) /\ i < Len(m)
      <4>1. e.end <= Len(s)  BY <3>3
      <4> HIDE DEF e
      <4> QED BY <1>1, <1>6, <1>9, <1>10, <2>1, <3>1, <3>4, <4>1
    <3>7. m[i] = e  BY <3>2
    <3>8. EntryOK(p, e)  BY <3>3
    <3>9. i # Len(m)  BY <1>9, <1>1, <3>6
    <3>10. e.end <= Len(t)  BY <1>1, <1>6, <1>10, <3>4, <3>6
    <3> HIDE DEF e
    <3> QED BY <3>5, <3>6, <3>7, <3>8, <3>9, <3>10
  <2>2. CASE i > Len(l)
    <3>1. i = Len(l) + 1 /\ i = Len(m) /\ ~(i < Len(m))  BY <1>1, <1>9, <2>2
    <3>2. m[i] = b  BY <1>9, <3>1
    <3>3. Held(t, b)
      <4>1. Len(b.bytes) <= b.end  BY <1>1, <1>6, <1>7
      <4>2. b.end - Len(b.bytes) = Len(s)  BY <1>1, <1>6, <1>7
      <4> QED BY <1>10, <4>1, <4>2 DEF Held
    <3>4. b.end = Len(t) /\ b.end <= Len(t)  BY <1>1, <1>6, <1>7, <1>10
    <3> QED BY <1>4, <3>1, <3>2, <3>3, <3>4
  <2>3. i <= Len(l) \/ i > Len(l)  BY <1>1, <1>9
  <2> QED BY <2>1, <2>2, <2>3
<1>12. ASSUME NEW i \in 1..(Len(m) - 1) PROVE Follows(p, m[i], m[i + 1])
  <2>1. CASE i < Len(l)
    <3>1. i \in 1..(Len(l) - 1) /\ i \in 1..Len(l) /\ i + 1 \in 1..Len(l)  BY <1>1, <1>9, <2>1
    <3>2. m[i] = l[i] /\ m[i + 1] = l[i + 1]  BY <1>9, <3>1
    <3> QED BY <1>1, <3>1, <3>2
  <2>2. CASE ~(i < Len(l))
    <3>1. i = Len(l)  BY <1>1, <1>9, <2>2
    <3>2. m[i] = a /\ m[i + 1] = b  BY <1>2, <1>9, <3>1
    <3> QED BY <3>2
  <2> QED BY <2>1, <2>2
<1>13. m[1] = HttpEntry /\ Len(m) >= 1
  <2>1. 1 \in 1..Len(l)  BY <1>1
  <2> QED BY <1>1, <1>9, <2>1
<1>14. LogOK(p, m, t)  BY <1>1, <1>9, <1>10, <1>11, <1>12, <1>13 DEF LogOK
<1> QED BY <1>14 DEF m, t

\* A frame that Apple sends changes nothing in the buffer.
LEMMA BufferKept ==
  ASSUME NEW p, NEW l, NEW s, LogOK(p, l, s), NEW b \in Entry, NEW t \in Bytes,
         NEW g, NEW x, NEW st, NEW k, BufferOK(l, s, g, x, st, k)
  PROVE  BufferOK(Append(l, b), s \o t, g, x, st, k)
<1>1. /\ s \in Bytes /\ Len(s) \in Nat
      /\ l \in Seq(Entry) /\ Len(l) \in Nat /\ Len(l) >= 1
  BY LogIs
<1> DEFINE m == Append(l, b)  u == s \o t
<1>2. Len(m) = Len(l) + 1 /\ \A i \in 1..Len(l) : m[i] = l[i]  BY <1>1, AppendProperties
<1>3. /\ Len(u) = Len(s) + Len(t) /\ Len(t) \in Nat
      /\ \A i \in 1..Len(s) : u[i] = s[i]
  BY <1>1, Joining, ByteAt
<1> HIDE DEF m, u
<1>4. /\ g \in Nat /\ g <= Len(s) /\ st \in {"http", "reading", "failed"}
      /\ k \in Nat /\ k + 1 <= Len(l)
      /\ \/ st # "reading" /\ k = 0 /\ Holds(x, s, g, 0)
         \/ st # "http" /\ Holds(x, s, g, l[k + 1].end)
  BY DEF BufferOK
<1>5. ASSUME NEW n \in Nat, Holds(x, s, g, n) PROVE Holds(x, u, g, n)
  <2>1. n <= g /\ x \in Bytes /\ Len(x) = g - n /\ \A i \in 1..Len(x) : x[i] = s[n + i]
    BY <1>5 DEF Holds
  <2>2. \A i \in 1..Len(x) : x[i] = u[n + i]
    <3> TAKE i \in 1..Len(x)
    <3>1. n + i \in 1..Len(s)  BY <1>1, <1>4, <2>1
    <3> QED BY <1>3, <2>1, <3>1
  <2> QED BY <2>1, <2>2 DEF Holds
<1>6. k + 1 \in 1..Len(l)  BY <1>1, <1>4
<1>7. m[k + 1] = l[k + 1] /\ l[k + 1].end \in Nat
  <2>1. l[k + 1] \in Entry  BY <1>6, LogIs
  <2> QED BY <1>2, <1>6, <2>1, EntryIs
<1>8. g <= Len(u) /\ k + 1 <= Len(m)  BY <1>1, <1>2, <1>3, <1>4
<1>9. 0 \in Nat  OBVIOUS
<1>10. BufferOK(m, u, g, x, st, k)
  <2>1. CASE st # "reading" /\ k = 0 /\ Holds(x, s, g, 0)
    <3>1. Holds(x, u, g, 0)  BY <1>5, <1>9, <2>1
    <3> QED BY <1>4, <1>8, <2>1, <3>1 DEF BufferOK
  <2>2. CASE st # "http" /\ Holds(x, s, g, l[k + 1].end)
    <3>1. Holds(x, u, g, m[k + 1].end)  BY <1>5, <1>7, <2>2
    <3> QED BY <1>4, <1>8, <2>2, <3>1 DEF BufferOK
  <2> QED BY <1>4, <2>1, <2>2
<1> QED BY <1>10 DEF m, u

\* recv returns some bytes.
LEMMA BufferGets ==
  ASSUME NEW p, NEW l, NEW s, LogOK(p, l, s),
         NEW g, NEW x, NEW st, NEW k, BufferOK(l, s, g, x, st, k), NEW n \in 1..(Len(s) - g)
  PROVE  BufferOK(l, s, g + n, x \o SubSeq(s, g + 1, g + n), st, k)
<1>1. /\ s \in Bytes /\ Len(s) \in Nat
      /\ l \in Seq(Entry) /\ Len(l) \in Nat /\ Len(l) >= 1
  BY LogIs
<1>4. /\ g \in Nat /\ g <= Len(s) /\ st \in {"http", "reading", "failed"}
      /\ k \in Nat /\ k + 1 <= Len(l)
      /\ \/ st # "reading" /\ k = 0 /\ Holds(x, s, g, 0)
         \/ st # "http" /\ Holds(x, s, g, l[k + 1].end)
  BY DEF BufferOK
<1>2. n \in Nat /\ g + n \in Nat /\ g + n <= Len(s)  BY <1>1, <1>4
<1> DEFINE t == SubSeq(s, g + 1, g + n)  y == x \o t
<1>3. t \in Bytes /\ Len(t) = n /\ \A i \in 1..n : t[i] = s[g + i]
  <2>1. g + 1 \in Nat /\ 1 <= g + 1 /\ g + 1 <= g + n + 1  BY <1>2, <1>4
  <2>2. /\ t \in Bytes /\ Len(t) = g + n + 1 - (g + 1)
        /\ \A i \in 1..(g + n + 1 - (g + 1)) : t[i] = s[g + 1 + i - 1]
    BY <1>1, <1>2, <2>1, Cutting
  <2>3. g + n + 1 - (g + 1) = n  BY <1>2, <1>4
  <2>4. \A i \in 1..n : g + 1 + i - 1 = g + i  BY <1>2, <1>4
  <2> HIDE DEF t
  <2> QED BY <2>2, <2>3, <2>4
<1> HIDE DEF t
<1>5. ASSUME NEW c \in Nat, Holds(x, s, g, c) PROVE Holds(y, s, g + n, c)
  <2>1. c <= g /\ x \in Bytes /\ Len(x) = g - c /\ \A i \in 1..Len(x) : x[i] = s[c + i]
    BY <1>5 DEF Holds
  <2>2. /\ y \in Bytes /\ Len(y) = Len(x) + n
        /\ \A i \in 1..Len(x) : y[i] = x[i]
        /\ \A i \in 1..n : y[Len(x) + i] = t[i]
    BY <1>3, <2>1, Joining
  <2> HIDE DEF y
  <2>a. Len(x) \in Nat /\ Len(x) = g - c  BY <1>4, <2>1
  <2>3. \A i \in 1..Len(y) : y[i] = s[c + i]
    <3> TAKE i \in 1..Len(y)
    <3>1. CASE i <= Len(x)
      <4>1. i \in 1..Len(x)  BY <1>4, <2>1, <2>2, <3>1
      <4> QED BY <2>1, <2>2, <4>1
    <3>2. CASE i > Len(x)
      <4> DEFINE j == i - Len(x)
      <4>1. j \in 1..n /\ i = Len(x) + j /\ g + j = c + i
        <5>1. i \in Nat /\ i <= Len(x) + n /\ Len(x) = g - c  BY <1>2, <2>a, <2>1, <2>2
        <5> HIDE DEF y
        <5> QED BY <1>2, <1>4, <2>a, <3>2, <5>1
      <4> HIDE DEF j
      <4>2. y[Len(x) + j] = t[j] /\ t[j] = s[g + j]  BY <1>3, <2>2, <4>1
      <4> QED BY <4>1, <4>2
    <3>3. i <= Len(x) \/ i > Len(x)  BY <1>4, <2>1, <2>2
    <3> QED BY <3>1, <3>2, <3>3
  <2>4. c <= g + n /\ Len(y) = (g + n) - c  BY <1>2, <1>4, <2>1, <2>2
  <2>5. y \in Bytes  BY <2>2
  <2> QED BY <2>3, <2>4, <2>5 DEF Holds
<1>6. k + 1 \in 1..Len(l)  BY <1>1, <1>4
<1>7. l[k + 1].end \in Nat
  <2>1. l[k + 1] \in Entry  BY <1>6, LogIs
  <2> QED BY <2>1, EntryIs
<1>9. 0 \in Nat  OBVIOUS
<1> HIDE DEF y
<1>10. BufferOK(l, s, g + n, y, st, k)
  <2>1. CASE st # "reading" /\ k = 0 /\ Holds(x, s, g, 0)
    <3>1. Holds(y, s, g + n, 0)  BY <1>5, <1>9, <2>1
    <3> QED BY <1>2, <1>4, <2>1, <3>1 DEF BufferOK
  <2>2. CASE st # "http" /\ Holds(x, s, g, l[k + 1].end)
    <3>1. Holds(y, s, g + n, l[k + 1].end)  BY <1>5, <1>7, <2>2
    <3> QED BY <1>2, <1>4, <2>2, <3>1 DEF BufferOK
  <2> QED BY <1>4, <2>1, <2>2
<1> QED BY <1>10 DEF y, t

-----------------------------------------------------------------------------
(* What the client takes *)

\* Two texts that agree up to a place have the same markers there.
LEMMA SameMarkers ==
  ASSUME NEW x \in Bytes, NEW h \in Bytes, NEW n \in Nat, n <= Len(x), n <= Len(h),
         \A j \in 1..n : x[j] = h[j], NEW i \in 4..n
  PROVE  i \in MarkersIn(x) <=> i \in MarkersIn(h)
<1>1. Len(x) \in Nat /\ Len(h) \in Nat  BY ByteAt
<1>2. /\ i - 3 \in Nat /\ i \in Nat /\ 1 <= i - 3 /\ i - 3 <= i + 1 /\ i <= Len(x) /\ i <= Len(h)
      /\ i + 1 - (i - 3) = 4 /\ i \in 4..Len(x) /\ i \in 4..Len(h)
  BY <1>1
<1> DEFINE a == SubSeq(x, i - 3, i)  b == SubSeq(h, i - 3, i)
<1>3. a \in Bytes /\ Len(a) = i + 1 - (i - 3)
      /\ \A j \in 1..(i + 1 - (i - 3)) : a[j] = x[i - 3 + j - 1]
  BY <1>2, Cutting
<1>4. b \in Bytes /\ Len(b) = i + 1 - (i - 3)
      /\ \A j \in 1..(i + 1 - (i - 3)) : b[j] = h[i - 3 + j - 1]
  BY <1>2, Cutting
<1>5. a = b
  <2> HIDE DEF a, b
  <2>1. \A j \in 1..4 : i - 3 + j - 1 \in 1..n  BY <1>1
  <2>2. \A j \in 1..Len(a) : a[j] = b[j]  BY <1>2, <1>3, <1>4, <2>1
  <2> QED BY <1>3, <1>4, <2>2, SameBytes
<1> QED BY <1>2, <1>5 DEF MarkersIn

\* The buffer of a client that reads the HTTP answer.
LEMMA HttpMarkers ==
  ASSUME NEW p, NEW l, NEW s, LogOK(p, l, s),
         NEW g, NEW x, NEW k, BufferOK(l, s, g, x, "http", k)
  PROVE  /\ k = 0 /\ x \in Bytes /\ Len(x) \in Nat /\ Len(x) = g /\ Holds(x, s, g, 0)
         /\ l[1].end = Len(HttpAnswer) /\ Len(HttpAnswer) \in Nat /\ Len(HttpAnswer) >= 4
         /\ Len(HttpAnswer) <= Len(s)
         /\ \A i \in MarkersIn(x) : i \in Nat /\ Len(HttpAnswer) <= i /\ i <= Len(x)
         /\ Len(HttpAnswer) <= Len(x) => Len(HttpAnswer) \in MarkersIn(x)
<1> DEFINE h == HttpAnswer
<1>1. h \in Bytes /\ Len(h) \in Nat /\ MarkersIn(h) = {Len(h)}  BY UpgradeAnswer, ByteAt
<1>2. Len(h) >= 4
  <2>1. Len(h) \in MarkersIn(h)  BY <1>1
  <2> QED BY <2>1 DEF MarkersIn
<1>3. /\ s \in Bytes /\ Len(s) \in Nat /\ Len(l) \in Nat /\ Len(l) >= 1 /\ l[1] = HttpEntry
      /\ \A i \in 1..Len(l) : EntryAt(p, l, s, i)
  BY LogIs
<1>4. l[1].end = Len(h) /\ l[1].bytes = h  BY <1>3 DEF HttpEntry
<1>5. Len(h) <= Len(s) /\ \A j \in 1..Len(h) : s[j] = h[j]
  <2>1. 1 \in 1..Len(l)  BY <1>3
  <2>2. Held(s, l[1]) /\ l[1].end <= Len(s)  BY <1>3, <2>1 DEF EntryAt
  <2>3. \A j \in 1..Len(h) : s[Len(h) - Len(h) + j] = h[j]  BY <1>4, <2>2, Zenon DEF Held
  <2>4. \A j \in 1..Len(h) : Len(h) - Len(h) + j = j  BY <1>1
  <2> HIDE DEF h
  <2> QED BY <1>4, <2>2, <2>3, <2>4
<1>6. g \in Nat /\ g <= Len(s) /\ k = 0 /\ Holds(x, s, g, 0)  BY DEF BufferOK
<1>7. x \in Bytes /\ Len(x) = g /\ \A i \in 1..Len(x) : x[i] = s[i]
  <2>1. x \in Bytes /\ Len(x) = g - 0 /\ \A i \in 1..Len(x) : x[i] = s[0 + i]  BY <1>6 DEF Holds
  <2>2. \A i \in 1..Len(x) : 0 + i = i  BY <1>6, <2>1
  <2> QED BY <1>6, <2>1, <2>2
<1> HIDE DEF h
<1>8. ASSUME NEW i \in MarkersIn(x) PROVE i \in Nat /\ Len(h) <= i /\ i <= Len(x)
  <2>1. i \in 4..Len(x)  BY DEF MarkersIn
  <2>2. ASSUME i < Len(h) PROVE FALSE
    <3>1. i \in Nat /\ i <= Len(x) /\ i <= Len(h) /\ i \in 4..i  BY <1>1, <1>6, <1>7, <2>1, <2>2
    <3>2. \A j \in 1..i : x[j] = h[j]
      <4> TAKE j \in 1..i
      <4>1. j \in 1..Len(x) /\ j \in 1..Len(h)  BY <1>1, <1>6, <1>7, <3>1
      <4> QED BY <1>5, <1>7, <4>1
    <3>3. i \in MarkersIn(h)  BY <1>1, <1>7, <3>1, <3>2, SameMarkers
    <3> QED BY <1>1, <2>2, <3>3
  <2> QED BY <1>1, <1>6, <1>7, <2>1, <2>2
<1>9. ASSUME Len(h) <= Len(x) PROVE Len(h) \in MarkersIn(x)
  <2>1. Len(h) \in 4..Len(h) /\ Len(h) <= Len(h)  BY <1>1, <1>2
  <2>2. \A j \in 1..Len(h) : x[j] = h[j]
    <3> TAKE j \in 1..Len(h)
    <3>1. j \in 1..Len(x)  BY <1>1, <1>6, <1>7, <1>9
    <3> QED BY <1>5, <1>7, <3>1
  <2>3. Len(h) \in MarkersIn(h)  BY <1>1
  <2> QED BY <1>1, <1>7, <1>9, <2>1, <2>2, <2>3, SameMarkers
<1> QED BY <1>1, <1>2, <1>4, <1>5, <1>6, <1>7, <1>8, <1>9 DEF h

\* _read_http_response leaves in the buffer exactly what follows the HTTP
\* answer, the beginning of a frame included.
LEMMA HttpTaken ==
  ASSUME NEW p, NEW l, NEW s, LogOK(p, l, s),
         NEW g, NEW x, NEW k, BufferOK(l, s, g, x, "http", k), MarkersIn(x) # {},
         NEW i, i = CHOOSE m \in MarkersIn(x) : \A j \in MarkersIn(x) : m <= j
  PROVE  BufferOK(l, s, g, After(x, i), "reading", k)
<1> DEFINE n == Len(HttpAnswer)
<1>1. /\ k = 0 /\ x \in Bytes /\ Len(x) \in Nat /\ Len(x) = g /\ Holds(x, s, g, 0)
      /\ l[1].end = n /\ n \in Nat
      /\ \A j \in MarkersIn(x) : j \in Nat /\ n <= j /\ j <= Len(x)
      /\ n <= Len(x) => n \in MarkersIn(x)
  BY HttpMarkers
<1>2. n <= Len(x)
  <2>1. PICK j \in MarkersIn(x) : TRUE  OBVIOUS
  <2> HIDE DEF n
  <2> QED BY <1>1, <2>1
<1>3. n \in MarkersIn(x) /\ \A j \in MarkersIn(x) : n <= j  BY <1>1, <1>2
<1> HIDE DEF n
<1>4. i = n
  <2>1. i \in MarkersIn(x) /\ \A j \in MarkersIn(x) : i <= j  BY <1>3
  <2> QED BY <1>1, <1>3, <2>1
<1>5. /\ After(x, n) \in Bytes /\ Len(After(x, n)) = Len(x) - n
      /\ \A j \in 1..(Len(x) - n) : After(x, n)[j] = x[n + j]
  BY <1>1, <1>2, Taking
<1>6. Holds(After(x, n), s, g, n)
  <2>1. \A j \in 1..Len(x) : x[j] = s[0 + j]  BY <1>1 DEF Holds
  <2>2. \A j \in 1..Len(After(x, n)) : After(x, n)[j] = s[n + j]
    <3> TAKE j \in 1..Len(After(x, n))
    <3>1. j \in 1..(Len(x) - n) /\ n + j \in 1..Len(x) /\ 0 + (n + j) = n + j  BY <1>1, <1>2, <1>5
    <3> QED BY <1>5, <2>1, <3>1
  <2>3. n <= g /\ Len(After(x, n)) = g - n  BY <1>1, <1>2, <1>5
  <2> QED BY <1>5, <2>2, <2>3 DEF Holds
<1>7. g \in Nat /\ g <= Len(s) /\ k + 1 <= Len(l) /\ k \in Nat /\ k + 1 = 1  BY <1>1 DEF BufferOK
<1> QED BY <1>1, <1>4, <1>6, <1>7 DEF BufferOK

\* The buffer x begins with a frame of n bytes that ends after the entry e.
HeadRead(l, s, g, x, k, fin, opcode, payload) ==
  LET n == Len(l[k + 2].bytes)
  IN /\ x \in Bytes /\ n \in Nat /\ n >= 2 /\ l[k + 2].end <= Len(s)
     /\ l[k + 2].end = l[k + 1].end + n
     /\ Len(x) < n => FrameAt(x) = NeedMore
     /\ n <= Len(x) =>
          /\ FrameAt(x) = [fin |-> fin, opcode |-> opcode, payload |-> payload, size |-> n]
          /\ \A st \in {"reading", "failed"} : BufferOK(l, s, g, After(x, n), st, k + 1)

\* The buffer of a client that reads frames begins with the first one that is
\* not taken yet.
LEMMA HeadIs ==
  ASSUME NEW p, NEW l, NEW s, LogOK(p, l, s),
         NEW g, NEW x, NEW k \in Nat, BufferOK(l, s, g, x, "reading", k), k + 2 <= Len(l),
         NEW fin, NEW opcode, NEW payload, Says(p, l[k + 1], l[k + 2], fin, opcode, payload)
  PROVE  HeadRead(l, s, g, x, k, fin, opcode, payload)
<1> DEFINE a == l[k + 1]  e == l[k + 2]  n == Len(e.bytes)
<1>1. /\ s \in Bytes /\ Len(s) \in Nat /\ Len(l) \in Nat /\ Len(l) >= 1
      /\ \A i \in 1..Len(l) : EntryAt(p, l, s, i) /\ l[i] \in Entry
  BY LogIs
<1>2. k \in Nat /\ g \in Nat /\ g <= Len(s) /\ Holds(x, s, g, a.end)  BY DEF BufferOK
<1>3. k + 1 \in 1..Len(l) /\ k + 2 \in 1..Len(l)  BY <1>1, <1>2
<1>4. a \in Entry /\ e \in Entry /\ EntryAt(p, l, s, k + 2)  BY <1>1, <1>3
<1>5. Held(s, e) /\ e.end <= Len(s)  BY <1>4 DEF EntryAt
<1>6. a.end \in Nat /\ e.end \in Nat  BY <1>4, EntryIs
<1>7. e.end = a.end + n  BY DEF Says
<1>8. /\ e.bytes \in Bytes /\ n \in Nat /\ n >= 2
      /\ \A y \in Bytes : Agree(y, e.bytes) =>
           FrameAt(y) = IF Len(y) < n THEN NeedMore
                        ELSE [fin |-> fin, opcode |-> opcode, payload |-> payload, size |-> n]
  BY SaysFrame
<1>9. x \in Bytes /\ a.end <= g /\ Len(x) = g - a.end /\ \A i \in 1..Len(x) : x[i] = s[a.end + i]
  BY <1>2 DEF Holds
<1>10. Len(x) \in Nat  BY <1>9, ByteAt
<1>11. \A j \in 1..n : s[a.end + j] = e.bytes[j]
  <2>1. \A j \in 1..n : s[e.end - n + j] = e.bytes[j]  BY <1>5 DEF Held
  <2>2. e.end - n = a.end
    <3> HIDE DEF e, a, n
    <3> QED BY <1>6, <1>7, <1>8
  <2> QED BY <2>1, <2>2
<1> HIDE DEF a, e
<1>12. Agree(x, e.bytes)
  <2> SUFFICES ASSUME NEW i \in 1..n, i <= Len(x) PROVE x[i] = e.bytes[i]  BY DEF Agree
  <2>1. i \in 1..Len(x)  BY <1>8, <1>10
  <2> QED BY <1>9, <1>11, <2>1
<1> HIDE DEF n
<1>13. FrameAt(x) = IF Len(x) < n THEN NeedMore
                    ELSE [fin |-> fin, opcode |-> opcode, payload |-> payload, size |-> n]
  BY <1>8, <1>9, <1>12
<1>14. ASSUME n <= Len(x), NEW st \in {"reading", "failed"}
       PROVE  BufferOK(l, s, g, After(x, n), st, k + 1)
  <2> DEFINE y == After(x, n)
  <2>1. y \in Bytes /\ Len(y) = Len(x) - n /\ \A j \in 1..(Len(x) - n) : y[j] = x[n + j]
    BY <1>8, <1>9, <1>14, Taking
  <2> HIDE DEF y
  <2>2. \A j \in 1..Len(y) : y[j] = s[e.end + j]
    <3> TAKE j \in 1..Len(y)
    <3>1. j \in 1..(Len(x) - n) /\ n + j \in 1..Len(x) /\ a.end + (n + j) = e.end + j
      BY <1>6, <1>7, <1>8, <1>10, <1>14, <2>1
    <3> QED BY <1>9, <2>1, <3>1
  <2>3. e.end <= g /\ Len(y) = g - e.end  BY <1>2, <1>6, <1>7, <1>8, <1>9, <1>14, <2>1
  <2>4. Holds(y, s, g, e.end)  BY <2>1, <2>2, <2>3 DEF Holds
  <2>5. k + 1 \in Nat /\ k + 1 + 1 <= Len(l) /\ k + 1 + 1 = k + 2  BY <1>1, <1>2, <1>3
  <2>6. Holds(y, s, g, l[k + 1 + 1].end)  BY <2>4, <2>5 DEF e
  <2>7. st # "http"  OBVIOUS
  <2>8. BufferOK(l, s, g, y, st, k + 1)  BY <1>2, <2>5, <2>6, <2>7 DEF BufferOK
  <2> QED BY <2>8 DEF y
<1>15. n <= Len(x) => ~(Len(x) < n)  BY <1>8, <1>10
<1>16. /\ Len(x) < n => FrameAt(x) = NeedMore
       /\ n <= Len(x) =>
            FrameAt(x) = [fin |-> fin, opcode |-> opcode, payload |-> payload, size |-> n]
  BY <1>13, <1>15
<1> QED BY <1>5, <1>7, <1>8, <1>9, <1>14, <1>16 DEF a, e, n, HeadRead

\* Nothing is in the buffer once all frames are taken.
LEMMA NoneLeft ==
  ASSUME NEW p, NEW l, NEW s, LogOK(p, l, s),
         NEW g, NEW x, NEW k, BufferOK(l, s, g, x, "reading", k), k + 1 = Len(l)
  PROVE  x = <<>> /\ FrameAt(x) = NeedMore /\ g = Len(s)
<1>1. Len(s) \in Nat /\ Len(l) \in Nat /\ Len(l) >= 1 /\ EntryAt(p, l, s, Len(l))
  <2>1. /\ Len(s) \in Nat /\ Len(l) \in Nat /\ Len(l) >= 1
        /\ \A i \in 1..Len(l) : EntryAt(p, l, s, i)
    BY LogIs
  <2>2. Len(l) \in 1..Len(l)  BY <2>1
  <2> QED BY <2>1, <2>2
<1>2. l[Len(l)].end = Len(s)  BY <1>1 DEF EntryAt
<1>3. g \in Nat /\ g <= Len(s) /\ Holds(x, s, g, Len(s))  BY <1>2 DEF BufferOK
<1>4. x \in Bytes /\ Len(s) <= g /\ Len(x) = g - Len(s)  BY <1>3 DEF Holds
<1>5. g = Len(s) /\ Len(x) = 0  BY <1>1, <1>3, <1>4
<1>6. Len(x) < 2  BY <1>5
<1>7. FrameAt(x) = NeedMore  BY <1>6 DEF FrameAt
<1> QED BY <1>4, <1>5, <1>7, NoBytes

\* The log goes on after an entry that is not the last one.
LEMMA NextIs ==
  ASSUME NEW p, NEW l, NEW s, LogOK(p, l, s), NEW k \in Nat, k + 2 <= Len(l)
  PROVE  /\ EntryOK(p, l[k + 1]) /\ EntryOK(p, l[k + 2])
         /\ \E fin, opcode, payload : Says(p, l[k + 1], l[k + 2], fin, opcode, payload)
<1>1. /\ p \in Plans /\ Len(l) \in Nat
      /\ \A i \in 1..Len(l) : EntryAt(p, l, s, i)
      /\ \A i \in 1..(Len(l) - 1) : Follows(p, l[i], l[i + 1])
  BY LogIs
<1>2. k + 1 \in 1..Len(l) /\ k + 1 \in 1..(Len(l) - 1) /\ k + 1 + 1 = k + 2  BY <1>1
<1>3. EntryOK(p, l[k + 1])  BY <1>1, <1>2 DEF EntryAt
<1>4. Follows(p, l[k + 1], l[k + 2])  BY <1>1, <1>2
<1> QED BY <1>1, <1>3, <1>4, FollowsIs

\* A frame that is read is the first one not taken yet.
LEMMA HeadTaken ==
  ASSUME NEW p, NEW l, NEW s, LogOK(p, l, s),
         NEW g, NEW x, NEW k, BufferOK(l, s, g, x, "reading", k), FrameAt(x) # NeedMore
  PROVE  /\ k \in Nat /\ k + 2 <= Len(l) /\ EntryOK(p, l[k + 1]) /\ EntryOK(p, l[k + 2])
         /\ Says(p, l[k + 1], l[k + 2], FrameAt(x).fin, FrameAt(x).opcode, FrameAt(x).payload)
         /\ \A st \in {"reading", "failed"} :
              BufferOK(l, s, g, After(x, FrameAt(x).size), st, k + 1)
<1>1. k \in Nat /\ k + 1 <= Len(l) /\ Len(l) \in Nat
  <2>1. Len(l) \in Nat  BY LogIs
  <2> QED BY <2>1 DEF BufferOK
<1>2. k + 1 # Len(l)  BY NoneLeft
<1>3. k + 2 <= Len(l)  BY <1>1, <1>2
<1>4. PICK fin, opcode, payload : Says(p, l[k + 1], l[k + 2], fin, opcode, payload)
  BY <1>1, <1>3, NextIs
<1>6. HeadRead(l, s, g, x, k, fin, opcode, payload)  BY <1>1, <1>3, <1>4, HeadIs
<1> DEFINE n == Len(l[k + 2].bytes)
<1>5. /\ x \in Bytes /\ n \in Nat
      /\ Len(x) < n => FrameAt(x) = NeedMore
      /\ n <= Len(x) =>
           /\ FrameAt(x) = [fin |-> fin, opcode |-> opcode, payload |-> payload, size |-> n]
           /\ \A st \in {"reading", "failed"} : BufferOK(l, s, g, After(x, n), st, k + 1)
  BY <1>6 DEF HeadRead
<1> HIDE DEF n
<1>7. Len(x) \in Nat  BY <1>5, ByteAt
<1>8. n <= Len(x)  BY <1>5, <1>7
<1>9. FrameAt(x) = [fin |-> fin, opcode |-> opcode, payload |-> payload, size |-> n]
  BY <1>5, <1>8
<1>10. /\ FrameAt(x).fin = fin /\ FrameAt(x).opcode = opcode
       /\ FrameAt(x).payload = payload /\ FrameAt(x).size = n
  BY <1>9
<1>11. EntryOK(p, l[k + 1]) /\ EntryOK(p, l[k + 2])  BY <1>1, <1>3, NextIs
<1> QED BY <1>1, <1>3, <1>4, <1>5, <1>8, <1>10, <1>11

\* When all that was sent has arrived, a client that wants more has taken it.
LEMMA AllTaken ==
  ASSUME NEW p, NEW l, NEW s, LogOK(p, l, s),
         NEW x, NEW k, BufferOK(l, s, Len(s), x, "reading", k), FrameAt(x) = NeedMore
  PROVE  k + 1 = Len(l) /\ x = <<>>
<1>1. k \in Nat /\ k + 1 <= Len(l) /\ Len(l) \in Nat /\ Len(s) \in Nat
  <2>1. Len(l) \in Nat /\ Len(s) \in Nat  BY LogIs
  <2> QED BY <2>1 DEF BufferOK
<1>2. ASSUME k + 1 # Len(l) PROVE FALSE
  <2>1. k + 2 <= Len(l)  BY <1>1, <1>2
  <2>2. PICK fin, opcode, payload : Says(p, l[k + 1], l[k + 2], fin, opcode, payload)
    BY <1>1, <2>1, NextIs
  <2>9. HeadRead(l, s, Len(s), x, k, fin, opcode, payload)  BY <1>1, <2>1, <2>2, HeadIs
  <2> DEFINE n == Len(l[k + 2].bytes)
  <2>3. /\ n \in Nat /\ n >= 2 /\ l[k + 2].end <= Len(s) /\ l[k + 2].end = l[k + 1].end + n
        /\ n <= Len(x) =>
             FrameAt(x) = [fin |-> fin, opcode |-> opcode, payload |-> payload, size |-> n]
    BY <2>9 DEF HeadRead
  <2> HIDE DEF n
  <2>4. l[k + 1].end \in Nat
    <3>1. k + 1 \in 1..Len(l)  BY <1>1
    <3>2. l[k + 1] \in Entry  BY <3>1, LogIs
    <3> QED BY <3>2, EntryIs
  <2>5. Len(x) = Len(s) - l[k + 1].end  BY DEF BufferOK, Holds
  <2>6. n <= Len(x)  BY <1>1, <2>3, <2>4, <2>5
  <2>7. FrameAt(x).size = n  BY <2>3, <2>6
  <2>8. NeedMore.size = 0  BY DEF NeedMore
  <2> QED BY <2>3, <2>7, <2>8
<1> QED BY <1>2, NoneLeft

-----------------------------------------------------------------------------
(* The pieces, the messages and the answers *)

\* A frame that is no part of a message changes nothing of what was read.
LEMMA SameSaid ==
  ASSUME NEW p, NEW a, NEW b, SameMessage(a, b)
  PROVE  /\ PiecesAt(p, b) = PiecesAt(p, a)
         /\ \A w, r : ReadOK(p, a, w, r) => ReadOK(p, b, w, r)
<1>1. b.said = a.said /\ b.spoken = a.spoken /\ b.begun = a.begun  BY DEF SameMessage
<1>2. Text(p, b) = Text(p, a)  BY <1>1 DEF Text
<1>3. PiecesAt(p, b) = PiecesAt(p, a)  BY <1>1, <1>2 DEF PiecesAt
<1>4. \A w, r : ReadOK(p, a, w, r) => ReadOK(p, b, w, r)  BY <1>1 DEF ReadOK
<1> QED BY <1>3, <1>4

\* The message being said is a text, and what was spoken of it is no longer.
LEMMA TextIs ==
  ASSUME NEW p \in Plans, NEW a, EntryOK(p, a), a.said < Len(p)
  PROVE  /\ a \in Entry /\ a.said \in Nat /\ a.spoken \in Nat /\ a.begun \in BOOLEAN
         /\ a.said + 1 \in 1..Len(p)
         /\ Text(p, a) \in Bytes /\ Len(Text(p, a)) \in Nat /\ a.spoken <= Len(Text(p, a))
<1>1. a \in Entry  BY DEF EntryOK
<1>2. a.said \in Nat /\ a.spoken \in Nat /\ a.begun \in BOOLEAN  BY <1>1, EntryIs
<1>3. Len(p) \in Nat  BY PlanLength
<1>4. a.said + 1 \in 1..Len(p)  BY <1>2, <1>3
<1>5. Text(p, a) \in Bytes  BY <1>4, PlanIs DEF Text
<1>6. Len(Text(p, a)) \in Nat  BY <1>5, ByteAt
<1>7. a.spoken <= Len(Text(p, a))  BY DEF EntryOK
<1> QED BY <1>1, <1>2, <1>4, <1>5, <1>6, <1>7

\* The pieces with those of one more frame.
More(pc, opcode, payload) ==
  [opcode |-> IF opcode = 0 THEN pc.opcode ELSE opcode, data |-> pc.data \o payload]

\* The fields of the pieces.
LEMMA Piece2 ==
  \A u, v : [opcode |-> u, data |-> v].opcode = u /\ [opcode |-> u, data |-> v].data = v
OBVIOUS

\* The next piece of a message continues the pieces before it.
LEMMA PieceAdds ==
  ASSUME NEW p \in Plans, NEW a, EntryOK(p, a), NEW b, EntryOK(p, b), NEW fin, NEW opcode, NEW payload,
         SaysPiece(p, a, b, fin, opcode, payload)
  PROVE  More(PiecesAt(p, a), opcode, payload) = PiecesAt(p, b)
<1> DEFINE t == Text(p, a)
<1>1. /\ opcode = Spoken(a) /\ a.said < Len(p) /\ b.said = a.said /\ b.begun = TRUE
      /\ a.spoken <= b.spoken /\ b.spoken <= Len(t)
      /\ payload = SubSeq(t, a.spoken + 1, b.spoken)
  BY DEF SaysPiece
<1>2. /\ a.spoken \in Nat /\ a.begun \in BOOLEAN /\ t \in Bytes /\ Len(t) \in Nat
      /\ a.spoken <= Len(t) /\ a \in Entry
  BY <1>1, TextIs
<1>3. PiecesAt(p, b) = [opcode |-> 2, data |-> SubSeq(t, 1, b.spoken)]
  <2>1. Text(p, b) = t  BY <1>1 DEF Text
  <2> QED BY <1>1, <2>1 DEF PiecesAt
<1> HIDE DEF t
<1>n. b.spoken \in Nat
  <2>1. b \in Entry  BY DEF EntryOK
  <2> QED BY <2>1, EntryIs
<1>4. CASE a.begun = TRUE
  <2>1. opcode = 0 /\ PiecesAt(p, a) = [opcode |-> 2, data |-> SubSeq(t, 1, a.spoken)]
    BY <1>1, <1>4 DEF Spoken, PiecesAt, t
  <2>2. SubSeq(t, 1, a.spoken) \o payload = SubSeq(t, 1, b.spoken)
    <3>1. 1 \in 1..(Len(t) + 1) /\ a.spoken \in (1 - 1)..Len(t) /\ b.spoken \in a.spoken..Len(t)
      BY <1>1, <1>2, <1>n
    <3>2. t \in Seq(Byte)  BY <1>2, ByteAt
    <3> QED BY <1>1, <3>1, <3>2, ConcatAdjacentSubSeq
  <2>3. PiecesAt(p, a).opcode = 2 /\ PiecesAt(p, a).data = SubSeq(t, 1, a.spoken)
    BY <2>1, Piece2, Zenon
  <2>4. More(PiecesAt(p, a), opcode, payload) = [opcode |-> 2, data |-> SubSeq(t, 1, b.spoken)]
    BY <2>1, <2>2, <2>3, Zenon DEF More
  <2> QED BY <1>3, <2>4
<1>5. CASE a.begun = FALSE
  <2>1. opcode = 2 /\ PiecesAt(p, a) = [opcode |-> -1, data |-> <<>>]
    BY <1>1, <1>5 DEF Spoken, PiecesAt, NoPieces
  <2>2. a.spoken = 0  BY <1>5 DEF EntryOK
  <2>3. payload = SubSeq(t, 1, b.spoken)  BY <1>1, <2>2
  <2>4. payload \in Bytes
    <3>1. 1 \in Nat /\ 1 <= 1 /\ 1 <= b.spoken + 1  BY <1>n
    <3> QED BY <1>1, <1>2, <2>3, <1>n, <3>1, Cutting
  <2>5. <<>> \o payload = payload  BY <2>4, JoinNone
  <2> QED BY <1>3, <2>1, <2>3, <2>5 DEF More
<1> QED BY <1>2, <1>4, <1>5

\* The last piece of a message makes it whole.
LEMMA EndAdds ==
  ASSUME NEW p \in Plans, NEW a, EntryOK(p, a), NEW b, NEW fin, NEW opcode, NEW payload,
         SaysEnd(p, a, b, fin, opcode, payload)
  PROVE  /\ More(PiecesAt(p, a), opcode, payload) = [opcode |-> 2, data |-> Text(p, a)]
         /\ PiecesAt(p, b) = NoPieces
<1> DEFINE t == Text(p, a)
<1>1. /\ opcode = Spoken(a) /\ a.said < Len(p) /\ b.begun = FALSE
      /\ payload = After(t, a.spoken)
  BY DEF SaysEnd
<1>2. /\ a.spoken \in Nat /\ a.begun \in BOOLEAN /\ t \in Bytes /\ Len(t) \in Nat
      /\ a.spoken <= Len(t)
  BY <1>1, TextIs
<1>3. PiecesAt(p, b) = NoPieces  BY <1>1 DEF PiecesAt
<1> HIDE DEF t
<1>4. CASE a.begun = TRUE
  <2>1. opcode = 0 /\ PiecesAt(p, a) = [opcode |-> 2, data |-> SubSeq(t, 1, a.spoken)]
    BY <1>1, <1>4 DEF Spoken, PiecesAt, t
  <2>2. SubSeq(t, 1, a.spoken) \o payload = t  BY <1>1, <1>2, CutAndJoin
  <2>4. PiecesAt(p, a).opcode = 2 /\ PiecesAt(p, a).data = SubSeq(t, 1, a.spoken)
    BY <2>1, Piece2, Zenon
  <2>3. More(PiecesAt(p, a), opcode, payload) = [opcode |-> 2, data |-> t]
    BY <2>1, <2>2, <2>4, Zenon DEF More
  <2> QED BY <1>3, <2>3 DEF t
<1>5. CASE a.begun = FALSE
  <2>1. opcode = 2 /\ PiecesAt(p, a) = [opcode |-> -1, data |-> <<>>]
    BY <1>1, <1>5 DEF Spoken, PiecesAt, NoPieces
  <2>2. a.spoken = 0  BY <1>5 DEF EntryOK
  <2>3. payload = t  BY <1>1, <1>2, <2>2, AfterAll
  <2>4. <<>> \o payload = t  BY <1>2, <2>3, JoinNone
  <2>5. More(PiecesAt(p, a), opcode, payload) = [opcode |-> 2, data |-> t]
    BY <2>1, <2>4 DEF More
  <2> QED BY <1>3, <2>5 DEF t
<1> QED BY <1>2, <1>4, <1>5

\* The message just read is the next one that was sent.
LEMMA ReadNext ==
  ASSUME NEW p \in Plans, NEW a, EntryOK(p, a), NEW b, NEW fin, NEW opcode, NEW payload,
         SaysEnd(p, a, b, fin, opcode, payload),
         NEW w, NEW r, ReadOK(p, a, w, r)
  PROVE  /\ w \in {"token", "push"}
         /\ ReadOK(p, b, IF Accepted(PartsOf(p[a.said + 1])) THEN "push" ELSE w, Append(r, Text(p, a)))
<1>1. a.said < Len(p) /\ b.said = a.said + 1  BY DEF SaysEnd
<1>2. a.said \in Nat /\ Text(p, a) \in Bytes  BY <1>1, TextIs
<1>3. /\ r \in Seq(Bytes) /\ Len(r) = a.said
      /\ \A i \in 1..Len(r) : r[i] = MessageBytes(p[i])
      /\ w = IF \E j \in 1..Len(r) : Accepted(PartsOf(p[j])) THEN "push" ELSE "token"
  BY DEF ReadOK
<1> DEFINE q == Append(r, Text(p, a))  n == a.said
           v == IF Accepted(PartsOf(p[n + 1])) THEN "push" ELSE w
<1>4. /\ q \in Seq(Bytes) /\ Len(q) = Len(r) + 1 /\ q[Len(r) + 1] = Text(p, a)
      /\ \A i \in 1..Len(r) : q[i] = r[i]
  BY <1>2, <1>3, AppendProperties
<1> HIDE DEF q
<1>t. Text(p, a) = MessageBytes(p[n + 1])  BY DEF Text
<1>m. n \in Nat /\ Len(r) = n /\ b.said = n + 1  BY <1>1, <1>2, <1>3
<1> HIDE DEF n
<1>r. \A i \in 1..(n + 1) : i \in 1..n \/ i = n + 1  BY <1>m
<1>s. \A i \in 1..n : i \in 1..(n + 1)  BY <1>m
<1>o. n + 1 \in 1..(n + 1)  BY <1>m
<1>5. \A i \in 1..Len(q) : q[i] = MessageBytes(p[i])
  <2> TAKE i \in 1..Len(q)
  <2>1. CASE i \in 1..n  BY <1>3, <1>4, <1>m, <2>1
  <2>2. CASE i = n + 1  BY <1>4, <1>m, <1>t, <2>2
  <2> QED BY <1>4, <1>m, <1>r, <2>1, <2>2
<1>6. v = IF \E j \in 1..Len(q) : Accepted(PartsOf(p[j])) THEN "push" ELSE "token"
  <2>1. w = IF \E j \in 1..n : Accepted(PartsOf(p[j])) THEN "push" ELSE "token"  BY <1>3, <1>m
  <2>2. (\E j \in 1..(n + 1) : Accepted(PartsOf(p[j])))
          <=> (\E j \in 1..n : Accepted(PartsOf(p[j]))) \/ Accepted(PartsOf(p[n + 1]))
    BY <1>r, <1>s, <1>o, Zenon
  <2>3. Len(q) = n + 1  BY <1>4, <1>m
  <2> QED BY <2>1, <2>2, <2>3
<1>7. ReadOK(p, b, v, q)  BY <1>4, <1>5, <1>6, <1>m DEF ReadOK
<1> QED BY <1>3, <1>7 DEF q, n

-----------------------------------------------------------------------------
(* Answers *)

\* The answers of a client that goes on.
LEMMA SentIs ==
  ASSUME NEW e, NEW s, SentOK(e, "reading", s)
  PROVE  s \in Seq(Bytes) /\ Len(s) = Len(e.due) /\ \A i \in 1..Len(s) : AppleReads(s[i]) = e.due[i]
BY DEF SentOK

\* Nothing is due for such a frame.
LEMMA SentSame ==
  ASSUME NEW a, NEW b, b.due = a.due, NEW s, NEW st, SentOK(a, st, s)
  PROVE  SentOK(b, st, s) /\ SentOK(b, "failed", s)
BY DEF SentOK

\* The answer that is due is sent.
LEMMA SentAppends ==
  ASSUME NEW a, NEW b, a.due \in Seq(Due), NEW d \in Due, b.due = Append(a.due, d),
         NEW s, SentOK(a, "reading", s), NEW bytes \in Bytes, AppleReads(bytes) = d
  PROVE  SentOK(b, "reading", Append(s, bytes))
<1>1. s \in Seq(Bytes) /\ Len(s) = Len(a.due) /\ \A i \in 1..Len(s) : AppleReads(s[i]) = a.due[i]
  BY SentIs
<1> DEFINE q == Append(s, bytes)  e == Append(a.due, d)
<1>2. /\ q \in Seq(Bytes) /\ Len(q) = Len(s) + 1 /\ q[Len(s) + 1] = bytes
      /\ \A i \in 1..Len(s) : q[i] = s[i]
  BY <1>1, AppendProperties
<1>3. /\ Len(e) = Len(a.due) + 1 /\ e[Len(a.due) + 1] = d
      /\ \A i \in 1..Len(a.due) : e[i] = a.due[i]
  BY AppendProperties
<1>4. Len(s) \in Nat  BY <1>1, LenProperties
<1>5. b.due = e  OBVIOUS
<1> HIDE DEF q, e
<1>6. \A i \in 1..Len(q) : AppleReads(q[i]) = e[i]
  <2> TAKE i \in 1..Len(q)
  <2>1. i \in 1..Len(s) \/ i = Len(s) + 1  BY <1>2, <1>4
  <2>2. CASE i \in 1..Len(s)  BY <1>1, <1>2, <1>3, <2>2
  <2>3. CASE i = Len(s) + 1  BY <1>1, <1>2, <1>3, <2>3
  <2> QED BY <2>1, <2>2, <2>3
<1>7. Len(q) = Len(e) /\ Len(q) <= Len(e)  BY <1>1, <1>2, <1>3, <1>4
<1>8. SentOK(b, "reading", q)  BY <1>2, <1>5, <1>6, <1>7 DEF SentOK
<1> QED BY <1>8 DEF q

\* A client that gives up may owe answers.
LEMMA SentWaits ==
  ASSUME NEW a, NEW b, a.due \in Seq(Due), NEW q \in Seq(Due), b.due = a.due \o q,
         NEW s, SentOK(a, "reading", s)
  PROVE  SentOK(b, "failed", s)
<1>1. s \in Seq(Bytes) /\ Len(s) = Len(a.due) /\ \A i \in 1..Len(s) : AppleReads(s[i]) = a.due[i]
  BY SentIs
<1> DEFINE e == a.due \o q
<1>2. /\ Len(e) = Len(a.due) + Len(q)
      /\ \A i \in 1..(Len(a.due) + Len(q)) : e[i] = IF i <= Len(a.due) THEN a.due[i] ELSE q[i - Len(a.due)]
  BY ConcatProperties
<1>3. Len(s) \in Nat /\ Len(q) \in Nat  BY <1>1, LenProperties
<1>4. b.due = e  OBVIOUS
<1> HIDE DEF e
<1>5. Len(s) <= Len(e)  BY <1>1, <1>2, <1>3
<1>6. \A i \in 1..Len(s) : AppleReads(s[i]) = e[i]
  <2> TAKE i \in 1..Len(s)
  <2>1. i \in 1..(Len(a.due) + Len(q)) /\ i <= Len(a.due)  BY <1>1, <1>3
  <2> QED BY <1>1, <1>2, <2>1
<1> QED BY <1>1, <1>4, <1>5, <1>6 DEF SentOK

\* The acknowledgements that a client sends for a push it waited for.
AcksFor(acks) ==
  [i \in DOMAIN acks |-> Answer(Opcode.binary, EncodeAck(acks[i].topic, acks[i].id))]

\* The acknowledgements of no push and of one.
LEMMA AcksForIs ==
  AcksFor(<<>>) = <<>>
  /\ \A x : AcksFor(<<x>>) = <<Answer(Opcode.binary, EncodeAck(x.topic, x.id))>>
<1>1. AcksFor(<<>>) = <<>>  BY DEF AcksFor
<1>2. ASSUME NEW x
      PROVE  AcksFor(<<x>>) = <<Answer(Opcode.binary, EncodeAck(x.topic, x.id))>>
  <2>1. DOMAIN <<x>> = {1} /\ <<x>>[1] = x  OBVIOUS
  <2> DEFINE r == Answer(Opcode.binary, EncodeAck(x.topic, x.id))
  <2>2. AcksFor(<<x>>) = [i \in {1} |-> r]  BY <2>1 DEF AcksFor
  <2> HIDE DEF r
  <2>3. [i \in {1} |-> r] = <<r>>  OBVIOUS
  <2> QED BY <2>2, <2>3 DEF r
<1> QED BY <1>1, <1>2

\* The wait acknowledges the push of the message just read, if one is due.
LEMMA AnswersNext ==
  ASSUME NEW p \in Plans, NEW a, EntryOK(p, a), NEW b, NEW fin, NEW opcode, NEW payload,
         SaysEnd(p, a, b, fin, opcode, payload),
         NEW w, NEW r, ReadOK(p, a, w, r), NEW s, SentOK(a, "reading", s),
         NEW acks, acks = IF w = "push" THEN Pushed(PartsOf(p[a.said + 1])) ELSE <<>>
  PROVE  SentOK(b, "failed", s) /\ SentOK(b, "reading", s \o AcksFor(acks))
<1> DEFINE k == a.said + 1  q == AcksDue(p, k)
<1>1. a.said < Len(p) /\ b.due = a.due \o q  BY DEF SaysEnd
<1>2. a.said \in Nat /\ k \in 1..Len(p) /\ a \in Entry  BY <1>1, TextIs
<1>3. a.due \in Seq(Due)  BY <1>2, EntryIs
<1>4. q \in Seq(Due) /\ q = IF \E j \in 1..(k - 1) : Accepted(PartsOf(p[j]))
                            THEN Acks(Pushed(PartsOf(p[k]))) ELSE <<>>
  BY <1>2, AcksDueIs
<1>5. q = Acks(acks)
  <2>1. k - 1 = a.said  BY <1>2
  <2>2. w = "push" <=> \E j \in 1..a.said : Accepted(PartsOf(p[j]))  BY DEF ReadOK
  <2>3. w = "push" <=> \E j \in 1..(k - 1) : Accepted(PartsOf(p[j]))  BY <2>1, <2>2
  <2>4. CASE w = "push"  BY <1>4, <2>3, <2>4
  <2>5. CASE w # "push"
    <3>1. acks = <<>>  BY <2>5
    <3>2. q = <<>>  BY <1>4, <2>3, <2>5
    <3> QED BY <3>1, <3>2, AcksAre
  <2> QED BY <2>4, <2>5
<1>6. s \in Seq(Bytes)  BY SentIs
<1>7. \/ acks = <<>>
      \/ \E x : /\ acks = <<x>> /\ x.topic \in Bytes /\ Len(x.topic) \in Word /\ x.id \in Word
                /\ Len(EncodeAck(x.topic, x.id)) \in Word
  <2>1. IsMessage(p[k]) /\ SizesFit(p[k])  BY <1>2, PlanIs
  <2> DEFINE pushed == Pushed(PartsOf(p[k]))
  <2>2. \/ pushed = <<>>
        \/ \E x : /\ pushed = <<x>> /\ x.topic \in Bytes /\ Len(x.topic) \in Word /\ x.id \in Word
                  /\ Len(EncodeAck(x.topic, x.id)) \in Word
    BY <2>1, PushedIs
  <2>3. acks = pushed \/ acks = <<>>  OBVIOUS
  <2> HIDE DEF pushed
  <2> QED BY <2>2, <2>3
<1> HIDE DEF k, q
<1>8. SentOK(b, "failed", s)  BY <1>1, <1>3, <1>4, SentWaits
<1>9. CASE acks = <<>>
  <2>1. AcksFor(acks) = <<>> /\ q = <<>>  BY <1>5, <1>9, AcksForIs, AcksAre
  <2>2. s \o AcksFor(acks) = s  BY <1>6, <2>1, ConcatEmptySeq
  <2>3. b.due = a.due  BY <1>1, <1>3, <2>1, ConcatEmptySeq
  <2>4. SentOK(b, "reading", s)  BY <2>3, SentSame
  <2> QED BY <1>8, <2>2, <2>4
<1>10. CASE \E x : /\ acks = <<x>> /\ x.topic \in Bytes /\ Len(x.topic) \in Word /\ x.id \in Word
                   /\ Len(EncodeAck(x.topic, x.id)) \in Word
  <2>1. PICK x : /\ acks = <<x>> /\ x.topic \in Bytes /\ Len(x.topic) \in Word /\ x.id \in Word
                 /\ Len(EncodeAck(x.topic, x.id)) \in Word
    BY <1>10
  <2> DEFINE y == Answer(Opcode.binary, EncodeAck(x.topic, x.id))
             d == [kind |-> "ack", topic |-> x.topic, id |-> x.id]
  <2>2. y \in Bytes /\ AppleReads(y) = d  BY <2>1, AckIs
  <2>3. AcksFor(acks) = <<y>> /\ q = <<d>>  BY <1>5, <2>1, AcksForIs, AcksAre
  <2>4. d \in Due  BY <2>1 DEF Due
  <2> HIDE DEF y, d
  <2>5. s \o AcksFor(acks) = Append(s, y)  BY <1>6, <2>2, <2>3, AppendIsConcat
  <2>6. b.due = Append(a.due, d)  BY <1>1, <1>3, <2>3, <2>4, AppendIsConcat
  <2>7. SentOK(b, "reading", Append(s, y))  BY <1>3, <2>2, <2>4, <2>6, SentAppends
  <2> QED BY <1>8, <2>5, <2>7
<1> QED BY <1>7, <1>9, <1>10

-----------------------------------------------------------------------------
(* The invariant is kept *)

\* The invariant holds initially: nothing has been read.
LEMMA InitOK == Init => Inv
<1> SUFFICES ASSUME Init PROVE Inv  OBVIOUS
<1>1. /\ plan \in Plans /\ log = <<HttpEntry>> /\ stream = HttpAnswer /\ got = 0
      /\ buffer = <<>> /\ stage = "http" /\ wait = "token" /\ pieces = NoPieces
      /\ received = <<>> /\ sent = <<>> /\ taken = 0
  BY DEF Init
<1> DEFINE e == HttpEntry  h == HttpAnswer
<1>2. h \in Bytes /\ Len(h) \in Nat  BY UpgradeAnswer, ByteAt
<1>3. /\ e.bytes = h /\ e.end = Len(h) /\ e.said = 0 /\ e.spoken = 0 /\ e.begun = FALSE
      /\ e.due = <<>>
  BY DEF HttpEntry
<1>4. e \in Entry
  <2>1. <<>> \in Seq(Due)  BY EmptySeq
  <2>2. 0 \in Nat /\ FALSE \in BOOLEAN  OBVIOUS
  <2> QED BY <1>2, <2>1, <2>2 DEF HttpEntry, Entry
<1> HIDE DEF e, h
<1>5. EntryOK(plan, e)
  <2>1. Len(plan) \in Nat  BY <1>1, PlanLength
  <2>2. ASSUME e.said < Len(plan) PROVE e.spoken <= Len(Text(plan, e))
    <3>1. e.said + 1 \in 1..Len(plan)  BY <1>3, <2>1, <2>2
    <3>2. Text(plan, e) \in Bytes  BY <1>1, <3>1, PlanIs DEF Text
    <3>3. Len(Text(plan, e)) \in Nat  BY <3>2, ByteAt
    <3> QED BY <1>3, <3>3
  <2>3. e.said <= Len(plan)  BY <1>3, <2>1
  <2> QED BY <1>3, <1>4, <2>2, <2>3 DEF EntryOK
<1>6. Held(h, e)
  <2>1. \A j \in 1..Len(h) : Len(h) - Len(h) + j = j  BY <1>2
  <2>2. Len(h) <= Len(h)  BY <1>2
  <2> QED BY <1>3, <2>1, <2>2 DEF Held
<1> DEFINE l == <<e>>
<1>7. l \in Seq(Entry) /\ Len(l) = 1 /\ l[1] = e  BY <1>4
<1> HIDE DEF l
<1>8. LogOK(plan, l, h)
  <2>1. /\ EntryOK(plan, l[1]) /\ Held(h, l[1]) /\ l[1].end <= Len(h)
        /\ l[1].end = Len(h)
    BY <1>2, <1>3, <1>5, <1>6, <1>7
  <2>2. \A i \in 1..Len(l) : i = 1 /\ ~(i < Len(l))  BY <1>7
  <2>3. \A i \in 1..(Len(l) - 1) : FALSE  BY <1>7
  <2>4. Len(l) >= 1 /\ l[1] = HttpEntry  BY <1>7 DEF e
  <2> QED BY <1>1, <1>2, <1>7, <2>1, <2>2, <2>3, <2>4 DEF LogOK
<1>9. LogOK(plan, log, stream)  BY <1>1, <1>8 DEF l, e, h
<1>10. log[1] = e /\ Len(log) = 1 /\ Len(stream) = Len(h)  BY <1>1, <1>7 DEF l, e, h
<1>11. BufferOK(log, stream, got, buffer, stage, taken)
  <2>1. Holds(<<>>, stream, 0, 0)
    <3>1. 0 <= 0 /\ 0 = 0 - 0  OBVIOUS
    <3>2. \A i \in 1..0 : <<>>[i] = stream[0 + i]  OBVIOUS
    <3> QED BY <3>1, <3>2, NoBytes DEF Holds
  <2>2. 0 \in Nat /\ 0 <= Len(stream) /\ 0 + 1 <= Len(log)  BY <1>2, <1>10
  <2> QED BY <1>1, <2>1, <2>2 DEF BufferOK
<1>12. log[taken + 1] = e  BY <1>1, <1>10
<1>13. PiecesAt(plan, e) = NoPieces  BY <1>3 DEF PiecesAt
<1>14. ReadOK(plan, e, wait, received)
  <2>1. <<>> \in Seq(Bytes) /\ Len(<<>>) = 0  BY EmptySeq
  <2>2. \A i \in 1..0 : FALSE  OBVIOUS
  <2> QED BY <1>1, <1>3, <2>1, <2>2 DEF ReadOK
<1>15. SentOK(e, stage, sent)
  <2>1. <<>> \in Seq(Bytes) /\ Len(<<>>) = 0 /\ 0 <= 0  BY EmptySeq
  <2>2. \A i \in 1..0 : FALSE  OBVIOUS
  <2> QED BY <1>1, <1>3, <2>1, <2>2 DEF SentOK
<1> QED BY <1>1, <1>9, <1>11, <1>12, <1>13, <1>14, <1>15 DEF Inv

\* The entries that Apple adds hold the bytes it sends.
LEMMA BytesSent ==
  \A e \in Entry : \A bytes, u, v, x :
    /\ With(e, bytes).bytes = bytes
    /\ With([e EXCEPT !.spoken = u, !.begun = v], bytes).bytes = bytes
    /\ With([e EXCEPT !.said = u, !.spoken = v, !.begun = FALSE, !.due = x], bytes).bytes = bytes
    /\ With([e EXCEPT !.due = x], bytes).bytes = bytes
BY DEF With, Entry

\* The last entry of the log.
LEMMA NowIs ==
  Inv => Now = log[Len(log)] /\ Now \in Entry /\ EntryOK(plan, Now)
<1> SUFFICES ASSUME Inv PROVE Now = log[Len(log)] /\ Now \in Entry /\ EntryOK(plan, Now)
  OBVIOUS
<1>1. LogOK(plan, log, stream)  BY DEF Inv
<1>2. /\ Len(log) \in Nat /\ Len(log) >= 1
      /\ \A i \in 1..Len(log) : EntryAt(plan, log, stream, i) /\ log[i] \in Entry
  BY <1>1, LogIs
<1>3. Len(log) \in 1..Len(log)  BY <1>2
<1>4. Now = log[Len(log)]  BY DEF Now, Last
<1> QED BY <1>2, <1>3, <1>4 DEF EntryAt

\* Apple sends a frame that may follow the last one.
LEMMA AppleSent ==
  ASSUME Inv, NEW entry, NEW bytes, AppleSends(entry, bytes),
         Follows(plan, Now, With(entry, bytes)), With(entry, bytes).bytes = bytes
  PROVE  Inv'
<1> DEFINE b == With(entry, bytes)
<1>1. /\ log' = Append(log, b) /\ stream' = stream \o bytes
      /\ UNCHANGED <<plan, got, buffer, stage, wait, pieces, received, sent, taken>>
  BY DEF AppleSends, With
<1>2. LogOK(plan, log, stream) /\ BufferOK(log, stream, got, buffer, stage, taken)  BY DEF Inv
<1>3. Now = log[Len(log)] /\ EntryOK(plan, Now) /\ plan \in Plans  BY <1>2, NowIs, LogIs
<1>4. EntryOK(plan, b)  BY <1>3, FollowsIs
<1>5. b \in Entry /\ b.bytes = bytes  BY <1>4 DEF EntryOK
<1>6. bytes \in Bytes  BY <1>5, EntryIs
<1> HIDE DEF b
<1>7. Follows(plan, log[Len(log)], b)  BY <1>3 DEF b
<1>8. LogOK(plan, Append(log, b), stream \o bytes)
  <2>1. LogOK(plan, Append(log, b), stream \o b.bytes)  BY <1>2, <1>7, LogGrows
  <2> QED BY <1>5, <2>1
<1>9. BufferOK(Append(log, b), stream \o bytes, got, buffer, stage, taken)
  BY <1>2, <1>5, <1>6, BufferKept
<1>10. log'[taken + 1] = log[taken + 1]
  <2>1. log \in Seq(Entry) /\ Len(log) \in Nat  BY <1>2, LogIs
  <2>2. taken \in Nat /\ taken + 1 <= Len(log)  BY <1>2 DEF BufferOK
  <2>3. taken + 1 \in 1..Len(log)  BY <2>1, <2>2
  <2> QED BY <1>1, <1>5, <2>1, <2>3, AppendProperties
<1>11. LogOK(plan', log', stream')  BY <1>1, <1>8
<1>12. BufferOK(log', stream', got', buffer', stage', taken')  BY <1>1, <1>9
<1>13. log'[taken' + 1] = log[taken + 1]  BY <1>1, <1>10
<1>14. pieces' = PiecesAt(plan', log'[taken' + 1])  BY <1>1, <1>13 DEF Inv
<1>15. ReadOK(plan', log'[taken' + 1], wait', received')  BY <1>1, <1>13 DEF Inv
<1>16. SentOK(log'[taken' + 1], stage', sent')  BY <1>1, <1>13 DEF Inv
<1> QED BY <1>11, <1>12, <1>14, <1>15, <1>16 DEF Inv

\* Nothing that Apple sends breaks the invariant.
LEMMA AppleOK == ASSUME Inv, Apple PROVE Inv'
<1> DEFINE e == Now
<1>1. e \in Entry  BY NowIs
<1>2. SpokenAs = Spoken(e) /\ Opcode.ping = 9  BY DEF SpokenAs, Spoken, Opcode
<1>3. Saying = Text(plan, e)  BY DEF Saying, Text
<1>4. ASSUME NEW key \in Keys, NEW n \in Cuts, ApplePiece(n, key) PROVE Inv'
  <2> DEFINE entry == [e EXCEPT !.spoken = e.spoken + n, !.begun = TRUE]
             bytes == Frame(FALSE, Spoken(e), SubSeq(Text(plan, e), e.spoken + 1, e.spoken + n), key)
  <2>1. e.said < Len(plan) /\ e.spoken + n <= Len(Text(plan, e)) /\ AppleSends(entry, bytes)
    BY <1>2, <1>3, <1>4 DEF ApplePiece
  <2>2. Follows(plan, e, With(entry, bytes))  BY <2>1 DEF Follows
  <2>3. With(entry, bytes).bytes = bytes
    <3> DEFINE u == e.spoken + n
    <3> HIDE DEF u, bytes, e
    <3>1. With([e EXCEPT !.spoken = u, !.begun = TRUE], bytes).bytes = bytes  BY <1>1, SMT DEF With, Entry
    <3> QED BY <3>1 DEF u
  <2> HIDE DEF entry, bytes, e
  <2> QED BY <2>1, <2>2, <2>3, AppleSent DEF e
<1>5. ASSUME NEW key \in Keys, AppleEnds(key) PROVE Inv'
  <2> DEFINE due == e.due \o AcksDue(plan, e.said + 1)
             entry == [e EXCEPT !.said = e.said + 1, !.spoken = 0, !.begun = FALSE, !.due = due]
             bytes == Frame(TRUE, Spoken(e), After(Text(plan, e), e.spoken), key)
  <2>1. e.said < Len(plan) /\ AppleSends(entry, bytes)
    BY <1>2, <1>3, <1>5 DEF AppleEnds
  <2>2. Follows(plan, e, With(entry, bytes))  BY <2>1 DEF Follows
  <2>3. With(entry, bytes).bytes = bytes
    <3> DEFINE u == e.said + 1
    <3> HIDE DEF u, bytes, e, due
    <3>1. With([e EXCEPT !.said = u, !.spoken = 0, !.begun = FALSE, !.due = due], bytes).bytes = bytes
      BY <1>1, SMT DEF With, Entry
    <3> QED BY <3>1 DEF u
  <2> HIDE DEF entry, bytes, e
  <2> QED BY <2>1, <2>2, <2>3, AppleSent DEF e
<1>6. ASSUME NEW key \in Keys, NEW payload \in Pings, ApplePings(payload, key) PROVE Inv'
  <2> DEFINE due == Append(e.due, [kind |-> "pong", payload |-> payload])
             entry == [e EXCEPT !.due = due]
             bytes == Frame(TRUE, 9, payload, key)
  <2>1. AppleSends(entry, bytes)  BY <1>2, <1>6 DEF ApplePings
  <2>2. Follows(plan, e, With(entry, bytes))  BY <2>1 DEF Follows
  <2>3. With(entry, bytes).bytes = bytes
    <3> HIDE DEF bytes, e, due
    <3> QED BY <1>1, BytesSent
  <2> HIDE DEF entry, bytes, e
  <2> QED BY <2>1, <2>2, <2>3, AppleSent DEF e
<1>7. ASSUME NEW opcode \in Strays, AppleStrays(opcode) PROVE Inv'
  <2> DEFINE bytes == Frame(TRUE, opcode, <<>>, <<>>)
  <2>1. AppleSends(e, bytes)  BY <1>7 DEF AppleStrays
  <2>2. Follows(plan, e, With(e, bytes))  BY <2>1 DEF Follows
  <2>3. With(e, bytes).bytes = bytes
    <3> HIDE DEF bytes, e
    <3> QED BY <1>1, BytesSent
  <2> HIDE DEF bytes, e
  <2> QED BY <2>1, <2>2, <2>3, AppleSent DEF e
<1> QED BY <1>4, <1>5, <1>6, <1>7 DEF Apple

\* recv may return any number of bytes.
LEMMA RecvOK == ASSUME Inv, NEW n \in 1..(Len(stream) - got), Recv(n) PROVE Inv'
<1>1. /\ buffer' = buffer \o SubSeq(stream, got + 1, got + n) /\ got' = got + n
      /\ UNCHANGED <<plan, log, stream, stage, wait, pieces, received, sent, taken>>
  BY DEF Recv, apple
<1>2. LogOK(plan, log, stream) /\ BufferOK(log, stream, got, buffer, stage, taken)  BY DEF Inv
<1>3. BufferOK(log, stream, got + n, buffer \o SubSeq(stream, got + 1, got + n), stage, taken)
  BY <1>2, BufferGets
<1>4. BufferOK(log', stream', got', buffer', stage', taken')  BY <1>1, <1>3
<1>5. LogOK(plan', log', stream')  BY <1>1, <1>2
<1>6. log'[taken' + 1] = log[taken + 1]  BY <1>1
<1>7. pieces' = PiecesAt(plan', log'[taken' + 1])  BY <1>1, <1>6 DEF Inv
<1>8. ReadOK(plan', log'[taken' + 1], wait', received')  BY <1>1, <1>6 DEF Inv
<1>9. SentOK(log'[taken' + 1], stage', sent')  BY <1>1, <1>6 DEF Inv
<1> QED BY <1>4, <1>5, <1>7, <1>8, <1>9 DEF Inv

\* The connection may break anywhere.
LEMMA EofOK == ASSUME Inv, Eof PROVE Inv'
<1>1. /\ stage' = "failed" /\ (stage = "http" \/ stage = "reading")
      /\ UNCHANGED <<plan, log, stream, got, buffer, wait, pieces, received, sent, taken>>
  BY DEF Eof, Wanting, apple
<1>2. LogOK(plan, log, stream) /\ BufferOK(log, stream, got, buffer, stage, taken)  BY DEF Inv
<1>3. BufferOK(log, stream, got, buffer, "failed", taken)  BY <1>1, <1>2 DEF BufferOK
<1>4. BufferOK(log', stream', got', buffer', stage', taken')  BY <1>1, <1>3
<1>5. LogOK(plan', log', stream')  BY <1>1, <1>2
<1>6. log'[taken' + 1] = log[taken + 1]  BY <1>1
<1>7. pieces' = PiecesAt(plan', log'[taken' + 1])  BY <1>1, <1>6 DEF Inv
<1>8. ReadOK(plan', log'[taken' + 1], wait', received')  BY <1>1, <1>6 DEF Inv
<1>9. SentOK(log'[taken' + 1], stage', sent')
  <2>1. SentOK(log[taken + 1], stage, sent)  BY DEF Inv
  <2>2. SentOK(log[taken + 1], "failed", sent)  BY <2>1, SentSame
  <2> QED BY <1>1, <1>6, <2>2
<1> QED BY <1>4, <1>5, <1>7, <1>8, <1>9 DEF Inv

\* The HTTP answer is taken.
LEMMA HttpOK == ASSUME Inv, TakeHttpAnswer PROVE Inv'
<1> DEFINE i == CHOOSE m \in EndOfHttp : \A j \in EndOfHttp : m <= j
<1>1. /\ stage = "http" /\ MarkersIn(buffer) # {} /\ buffer' = After(buffer, i)
      /\ stage' = "reading"
      /\ UNCHANGED <<plan, log, stream, got, wait, pieces, received, sent, taken>>
  BY DEF TakeHttpAnswer, EndOfHttp, apple
<1>0. i = CHOOSE m \in MarkersIn(buffer) : \A j \in MarkersIn(buffer) : m <= j
  BY DEF EndOfHttp
<1>2. LogOK(plan, log, stream) /\ BufferOK(log, stream, got, buffer, "http", taken)
  BY <1>1 DEF Inv
<1> HIDE DEF i
<1>3. BufferOK(log, stream, got, After(buffer, i), "reading", taken)
  BY <1>0, <1>1, <1>2, HttpTaken
<1>4. BufferOK(log', stream', got', buffer', stage', taken')  BY <1>1, <1>3
<1>5. LogOK(plan', log', stream')  BY <1>1, <1>2
<1>6. log'[taken' + 1] = log[taken + 1]  BY <1>1
<1>7. pieces' = PiecesAt(plan', log'[taken' + 1])  BY <1>1, <1>6 DEF Inv
<1>8. ReadOK(plan', log'[taken' + 1], wait', received')  BY <1>1, <1>6 DEF Inv
<1>9. SentOK(log'[taken' + 1], stage', sent')
  <2>1. SentOK(log[taken + 1], "http", sent)  BY <1>1 DEF Inv
  <2>2. SentOK(log[taken + 1], "reading", sent)  BY <2>1 DEF SentOK
  <2> QED BY <1>1, <1>6, <2>2
<1> QED BY <1>4, <1>5, <1>7, <1>8, <1>9 DEF Inv

\* The step of a client that takes the frame at the head of its buffer.
Taken(f) ==
  /\ stage = "reading" /\ f = FrameAt(buffer) /\ f # NeedMore
  /\ Consume(f) /\ stage' \in {"reading", "failed"}

\* The frame at the head of the buffer.
LEMMA HeadIn ==
  \A opcodes : \A f \in HeadFrame(opcodes) :
     /\ stage = "reading" /\ f = FrameAt(buffer) /\ f # NeedMore /\ f.opcode \in opcodes
BY DEF HeadFrame

\* The invariant once the entry b of the frame is taken.
LEMMA TakenOK ==
  ASSUME Inv, NEW f, Taken(f)
  PROVE  LET a == log[taken + 1]
             b == log[taken + 2]
         IN /\ plan \in Plans /\ EntryOK(plan, a) /\ EntryOK(plan, b) /\ a.due \in Seq(Due)
            /\ Says(plan, a, b, f.fin, f.opcode, f.payload)
            /\ pieces = PiecesAt(plan, a) /\ ReadOK(plan, a, wait, received)
            /\ SentOK(a, "reading", sent)
            /\ (/\ pieces' = PiecesAt(plan, b)
                /\ ReadOK(plan, b, wait', received')
                /\ SentOK(b, stage', sent')) => Inv'
<1> DEFINE a == log[taken + 1]  b == log[taken + 2]
<1>1. /\ stage = "reading" /\ f = FrameAt(buffer) /\ f # NeedMore
      /\ stage' \in {"reading", "failed"}
      /\ buffer' = After(buffer, f.size) /\ taken' = taken + 1
      /\ UNCHANGED <<plan, log, stream, got>>
  BY DEF Taken, Consume, apple
<1>2. /\ LogOK(plan, log, stream) /\ BufferOK(log, stream, got, buffer, "reading", taken)
      /\ pieces = PiecesAt(plan, a) /\ ReadOK(plan, a, wait, received)
      /\ SentOK(a, "reading", sent)
  BY <1>1 DEF Inv
<1>3. /\ taken \in Nat /\ EntryOK(plan, a) /\ EntryOK(plan, b)
      /\ Says(plan, a, b, FrameAt(buffer).fin, FrameAt(buffer).opcode, FrameAt(buffer).payload)
      /\ \A st \in {"reading", "failed"} :
           BufferOK(log, stream, got, After(buffer, FrameAt(buffer).size), st, taken + 1)
  BY <1>1, <1>2, HeadTaken
<1>4. plan \in Plans  BY <1>2, LogIs
<1>5. a.due \in Seq(Due)
  <2>1. a \in Entry  BY <1>3 DEF EntryOK
  <2> QED BY <2>1, EntryIs
<1>6. Says(plan, a, b, f.fin, f.opcode, f.payload)  BY <1>1, <1>3
<1>7. BufferOK(log', stream', got', buffer', stage', taken')  BY <1>1, <1>3
<1>8. LogOK(plan', log', stream')  BY <1>1, <1>2
<1>9. log'[taken' + 1] = b
  <2>1. taken + 1 + 1 = taken + 2  BY <1>3
  <2> QED BY <1>1, <2>1
<1>10. ASSUME pieces' = PiecesAt(plan, b), ReadOK(plan, b, wait', received'), SentOK(b, stage', sent')
       PROVE  Inv'
  <2>1. plan' = plan  BY <1>1
  <2> HIDE DEF b
  <2> QED BY <1>7, <1>8, <1>9, <1>10, <2>1 DEF Inv
<1> QED BY <1>2, <1>3, <1>4, <1>5, <1>6, <1>10

\* What the opcode of a frame tells.
LEMMA Opcodes ==
  /\ Opcode.continuation = 0 /\ Opcode.text = 1 /\ Opcode.binary = 2
  /\ Opcode.close = 8 /\ Opcode.ping = 9 /\ Opcode.pong = 10
BY DEF Opcode

\* What a frame says depends on its opcode and on whether it is final.
LEMMA SaysOne ==
  ASSUME NEW p, NEW a, NEW b, NEW fin, NEW opcode, NEW payload, Says(p, a, b, fin, opcode, payload)
  PROVE  /\ opcode \in Nat /\ opcode < 16 /\ fin \in BOOLEAN /\ payload \in Bytes /\ Len(payload) \in Word
         /\ \/ SaysPiece(p, a, b, fin, opcode, payload) /\ fin = FALSE /\ opcode \in {0, 2}
            \/ SaysEnd(p, a, b, fin, opcode, payload) /\ fin = TRUE /\ opcode \in {0, 2}
            \/ SaysPing(p, a, b, fin, opcode, payload) /\ fin = TRUE /\ opcode = 9
            \/ SaysNothing(p, a, b, fin, opcode, payload) /\ fin = TRUE /\ opcode >= 3 /\ opcode # 9
<1>1. Spoken(a) \in {0, 2}  BY DEF Spoken
<1> QED BY <1>1 DEF Says, SaysPiece, SaysEnd, SaysPing, SaysNothing

\* What the opcode and the final bit of a frame tell.
LEMMA SaysWhich ==
  ASSUME NEW p, NEW a, NEW b, NEW fin, NEW opcode, NEW payload, Says(p, a, b, fin, opcode, payload)
  PROVE  /\ payload \in Bytes /\ Len(payload) \in Word
         /\ opcode = 9 => SaysPing(p, a, b, fin, opcode, payload)
         /\ opcode = 8 \/ opcode = 10 => SaysNothing(p, a, b, fin, opcode, payload)
         /\ ~fin => SaysPiece(p, a, b, fin, opcode, payload)
<1>1. /\ payload \in Bytes /\ Len(payload) \in Word /\ opcode \in Nat
      /\ \/ SaysPiece(p, a, b, fin, opcode, payload) /\ fin = FALSE /\ opcode \in {0, 2}
         \/ SaysEnd(p, a, b, fin, opcode, payload) /\ fin = TRUE /\ opcode \in {0, 2}
         \/ SaysPing(p, a, b, fin, opcode, payload) /\ fin = TRUE /\ opcode = 9
         \/ SaysNothing(p, a, b, fin, opcode, payload) /\ fin = TRUE /\ opcode # 9
  BY SaysOne
<1> QED BY <1>1

\* A ping is answered, between the pieces of a message or outside of one.
LEMMA PingOK == ASSUME Inv, TakePing PROVE Inv'
<1>1. PICK f \in HeadFrame({Opcode.ping}) :
        Consume(f) /\ sent' = Append(sent, Answer(Opcode.pong, f.payload))
  BY DEF TakePing
<1>2. UNCHANGED <<stage, wait, pieces, received>>  BY DEF TakePing
<1>3. stage = "reading" /\ f = FrameAt(buffer) /\ f # NeedMore /\ f.opcode = 9
  BY HeadIn, Opcodes
<1>4. Taken(f) /\ stage' = "reading"  BY <1>1, <1>2, <1>3 DEF Taken
<1> DEFINE a == log[taken + 1]  b == log[taken + 2]
<1>5. /\ a.due \in Seq(Due) /\ Says(plan, a, b, f.fin, f.opcode, f.payload)
      /\ pieces = PiecesAt(plan, a) /\ ReadOK(plan, a, wait, received)
      /\ SentOK(a, "reading", sent)
      /\ (/\ pieces' = PiecesAt(plan, b)
          /\ ReadOK(plan, b, wait', received')
          /\ SentOK(b, stage', sent')) => Inv'
  BY <1>4, TakenOK
<1> HIDE DEF a, b
<1>6. /\ SaysPing(plan, a, b, f.fin, f.opcode, f.payload)
      /\ f.payload \in Bytes /\ Len(f.payload) \in Word
  <2>1. Says(plan, a, b, f.fin, f.opcode, f.payload)  BY <1>5
  <2> QED BY <1>3, <2>1, SaysWhich
<1>7. SameMessage(a, b) /\ b.due = Append(a.due, [kind |-> "pong", payload |-> f.payload])
  BY <1>6 DEF SaysPing
<1>8. pieces' = PiecesAt(plan, b) /\ ReadOK(plan, b, wait', received')
  BY <1>2, <1>5, <1>7, SameSaid
<1>9. SentOK(b, "reading", sent')
  <2> DEFINE d == [kind |-> "pong", payload |-> f.payload]  y == Answer(Opcode.pong, f.payload)
  <2>1. y \in Bytes /\ AppleReads(y) = d  BY <1>6, PongIs
  <2>2. d \in Due  BY <1>6 DEF Due
  <2>3. sent' = Append(sent, y) /\ b.due = Append(a.due, d)  BY <1>1, <1>7
  <2> HIDE DEF d, y
  <2> QED BY <1>5, <2>1, <2>2, <2>3, SentAppends
<1> QED BY <1>4, <1>5, <1>8, <1>9

\* A pong is dropped.
LEMMA PongOK == ASSUME Inv, TakePong PROVE Inv'
<1>1. PICK f \in HeadFrame({Opcode.pong}) : Consume(f)  BY DEF TakePong
<1>2. UNCHANGED <<stage, wait, pieces, received, sent>>  BY DEF TakePong
<1>3. stage = "reading" /\ f = FrameAt(buffer) /\ f # NeedMore /\ f.opcode = 10
  BY HeadIn, Opcodes
<1>4. Taken(f) /\ stage' = "reading"  BY <1>1, <1>2, <1>3 DEF Taken
<1> DEFINE a == log[taken + 1]  b == log[taken + 2]
<1>5. /\ Says(plan, a, b, f.fin, f.opcode, f.payload)
      /\ pieces = PiecesAt(plan, a) /\ ReadOK(plan, a, wait, received)
      /\ SentOK(a, "reading", sent)
      /\ (/\ pieces' = PiecesAt(plan, b)
          /\ ReadOK(plan, b, wait', received')
          /\ SentOK(b, stage', sent')) => Inv'
  BY <1>4, TakenOK
<1> HIDE DEF a, b
<1>6. SaysNothing(plan, a, b, f.fin, f.opcode, f.payload)
  <2>1. Says(plan, a, b, f.fin, f.opcode, f.payload)  BY <1>5
  <2> QED BY <1>3, <2>1, SaysWhich
<1>7. SameMessage(a, b) /\ b.due = a.due  BY <1>6 DEF SaysNothing
<1>8. pieces' = PiecesAt(plan, b) /\ ReadOK(plan, b, wait', received')
  BY <1>2, <1>5, <1>7, SameSaid
<1>9. SentOK(b, stage', sent')  BY <1>2, <1>4, <1>5, <1>7, SentSame
<1> QED BY <1>5, <1>8, <1>9

\* A close frame ends the reading.
LEMMA CloseOK == ASSUME Inv, TakeClose PROVE Inv'
<1>1. PICK f \in HeadFrame({Opcode.close}) : Consume(f)  BY DEF TakeClose
<1>2. stage' = "failed" /\ UNCHANGED <<wait, pieces, received, sent>>  BY DEF TakeClose
<1>3. stage = "reading" /\ f = FrameAt(buffer) /\ f # NeedMore /\ f.opcode = 8
  BY HeadIn, Opcodes
<1>4. Taken(f)  BY <1>1, <1>2, <1>3 DEF Taken
<1> DEFINE a == log[taken + 1]  b == log[taken + 2]
<1>5. /\ Says(plan, a, b, f.fin, f.opcode, f.payload)
      /\ pieces = PiecesAt(plan, a) /\ ReadOK(plan, a, wait, received)
      /\ SentOK(a, "reading", sent)
      /\ (/\ pieces' = PiecesAt(plan, b)
          /\ ReadOK(plan, b, wait', received')
          /\ SentOK(b, stage', sent')) => Inv'
  BY <1>4, TakenOK
<1> HIDE DEF a, b
<1>6. SaysNothing(plan, a, b, f.fin, f.opcode, f.payload)
  <2>1. Says(plan, a, b, f.fin, f.opcode, f.payload)  BY <1>5
  <2> QED BY <1>3, <2>1, SaysWhich
<1>7. SameMessage(a, b) /\ b.due = a.due  BY <1>6 DEF SaysNothing
<1>8. pieces' = PiecesAt(plan, b) /\ ReadOK(plan, b, wait', received')
  BY <1>2, <1>5, <1>7, SameSaid
<1>9. SentOK(b, stage', sent')  BY <1>2, <1>5, <1>7, SentSame
<1> QED BY <1>5, <1>8, <1>9

\* The frames of a message, or others that are neither control frames.
LEMMA DataIn ==
  \A f \in DataFrame :
     /\ stage = "reading" /\ f = FrameAt(buffer) /\ f # NeedMore
     /\ f.opcode # 8 /\ f.opcode # 9 /\ f.opcode # 10
     /\ Joined(f) = More(pieces, f.opcode, f.payload)
<1> TAKE f \in DataFrame
<1>1. f \in HeadFrame(0..15 \ {Opcode.close, Opcode.ping, Opcode.pong})  BY DEF DataFrame
<1>2. stage = "reading" /\ f = FrameAt(buffer) /\ f # NeedMore
      /\ f.opcode \in 0..15 \ {Opcode.close, Opcode.ping, Opcode.pong}
  BY <1>1, HeadIn
<1>3. Joined(f) = More(pieces, f.opcode, f.payload)  BY Opcodes, Zenon DEF Joined, More
<1> QED BY <1>2, <1>3, Opcodes

\* A piece that is not the last one is kept.
LEMMA PieceOK == ASSUME Inv, TakePiece PROVE Inv'
<1>1. PICK f \in DataFrame : ~f.fin /\ Consume(f) /\ pieces' = Joined(f)  BY DEF TakePiece
<1>2. UNCHANGED <<stage, wait, received, sent>>  BY DEF TakePiece
<1>3. /\ stage = "reading" /\ f = FrameAt(buffer) /\ f # NeedMore
      /\ Joined(f) = More(pieces, f.opcode, f.payload)
  BY DataIn
<1>4. Taken(f) /\ stage' = "reading"  BY <1>1, <1>2, <1>3 DEF Taken
<1> DEFINE a == log[taken + 1]  b == log[taken + 2]
<1>5. /\ plan \in Plans /\ EntryOK(plan, a) /\ EntryOK(plan, b)
      /\ Says(plan, a, b, f.fin, f.opcode, f.payload)
      /\ pieces = PiecesAt(plan, a) /\ ReadOK(plan, a, wait, received)
      /\ SentOK(a, "reading", sent)
      /\ (/\ pieces' = PiecesAt(plan, b)
          /\ ReadOK(plan, b, wait', received')
          /\ SentOK(b, stage', sent')) => Inv'
  BY <1>4, TakenOK
<1> HIDE DEF a, b
<1>6. SaysPiece(plan, a, b, f.fin, f.opcode, f.payload)
  <2>1. Says(plan, a, b, f.fin, f.opcode, f.payload)  BY <1>5
  <2> QED BY <1>1, <2>1, SaysWhich
<1>7. pieces' = PiecesAt(plan, b)
  <2>1. More(PiecesAt(plan, a), f.opcode, f.payload) = PiecesAt(plan, b)  BY <1>5, <1>6, PieceAdds
  <2> QED BY <1>1, <1>3, <1>5, <2>1
<1>8. b.said = a.said /\ b.due = a.due  BY <1>6 DEF SaysPiece
<1>9. ReadOK(plan, b, wait', received')  BY <1>2, <1>5, <1>8 DEF ReadOK
<1>10. SentOK(b, stage', sent')  BY <1>2, <1>4, <1>5, <1>8, SentSame
<1> QED BY <1>5, <1>7, <1>9, <1>10

\* A final frame of another opcode ends the reading.
LEMMA UnsupportedOK == ASSUME Inv, TakeUnsupported PROVE Inv'
<1>1. PICK f \in DataFrame : f.fin /\ Joined(f).opcode \notin {Opcode.text, Opcode.binary} /\ Consume(f)
  BY DEF TakeUnsupported
<1>2. stage' = "failed" /\ UNCHANGED <<wait, pieces, received, sent>>  BY DEF TakeUnsupported
<1>3. /\ stage = "reading" /\ f = FrameAt(buffer) /\ f # NeedMore /\ f.opcode # 9
      /\ Joined(f) = More(pieces, f.opcode, f.payload)
  BY DataIn
<1>4. Taken(f)  BY <1>1, <1>2, <1>3 DEF Taken
<1> DEFINE a == log[taken + 1]  b == log[taken + 2]
<1>5. /\ plan \in Plans /\ EntryOK(plan, a)
      /\ Says(plan, a, b, f.fin, f.opcode, f.payload)
      /\ pieces = PiecesAt(plan, a) /\ ReadOK(plan, a, wait, received)
      /\ SentOK(a, "reading", sent)
      /\ (/\ pieces' = PiecesAt(plan, b)
          /\ ReadOK(plan, b, wait', received')
          /\ SentOK(b, stage', sent')) => Inv'
  BY <1>4, TakenOK
<1> HIDE DEF a, b
<1>6. ~SaysEnd(plan, a, b, f.fin, f.opcode, f.payload)
  <2> SUFFICES ASSUME SaysEnd(plan, a, b, f.fin, f.opcode, f.payload) PROVE FALSE  OBVIOUS
  <2>1. More(PiecesAt(plan, a), f.opcode, f.payload) = [opcode |-> 2, data |-> Text(plan, a)]
    BY <1>5, EndAdds
  <2>2. Joined(f) = [opcode |-> 2, data |-> Text(plan, a)]  BY <1>3, <1>5, <2>1
  <2>3. Joined(f).opcode = 2  BY <2>2, Piece2, Zenon
  <2> QED BY <1>1, <2>3, Opcodes
<1>7. SaysNothing(plan, a, b, f.fin, f.opcode, f.payload)  BY <1>1, <1>3, <1>5, <1>6, SaysOne
<1>8. SameMessage(a, b) /\ b.due = a.due  BY <1>7 DEF SaysNothing
<1>9. pieces' = PiecesAt(plan, b) /\ ReadOK(plan, b, wait', received')
  BY <1>2, <1>5, <1>8, SameSaid
<1>10. SentOK(b, stage', sent')  BY <1>2, <1>5, <1>8, SentSame
<1> QED BY <1>5, <1>9, <1>10

\* A message is read whole, and its push is acknowledged when one is due.
LEMMA MessageOK == ASSUME Inv, TakeMessage PROVE Inv'
<1> DEFINE acks(parts) == IF wait = "push" THEN Pushed(parts) ELSE <<>>
           done(f, parts) ==
             /\ f.fin /\ Joined(f).opcode \in {Opcode.text, Opcode.binary} /\ Consume(f)
             /\ received' = Append(received, Joined(f).data) /\ pieces' = NoPieces
             /\ \/ /\ Refused(wait, parts) /\ stage' = "failed" /\ UNCHANGED <<wait, sent>>
                \/ /\ ~Refused(wait, parts)
                   /\ wait' = IF Accepted(parts) THEN "push" ELSE wait
                   /\ sent' = sent \o AcksFor(acks(parts))
                   /\ UNCHANGED stage
<1>0. PICK f \in DataFrame : \E parts \in {DecodeServerMessage(Joined(f).data)} : done(f, parts)
  BY DEF TakeMessage, AcksFor
<1>1. PICK parts \in {DecodeServerMessage(Joined(f).data)} : done(f, parts)  BY <1>0
<1>2. parts = DecodeServerMessage(Joined(f).data)  BY <1>1
<1>3. /\ stage = "reading" /\ f = FrameAt(buffer) /\ f # NeedMore /\ f.opcode # 9
      /\ Joined(f) = More(pieces, f.opcode, f.payload)
  BY DataIn
<1>4. Taken(f)  BY <1>1, <1>3 DEF Taken
<1> DEFINE a == log[taken + 1]  b == log[taken + 2]
<1>5. /\ plan \in Plans /\ EntryOK(plan, a)
      /\ Says(plan, a, b, f.fin, f.opcode, f.payload)
      /\ pieces = PiecesAt(plan, a) /\ ReadOK(plan, a, wait, received)
      /\ SentOK(a, "reading", sent)
      /\ (/\ pieces' = PiecesAt(plan, b)
          /\ ReadOK(plan, b, wait', received')
          /\ SentOK(b, stage', sent')) => Inv'
  BY <1>4, TakenOK
<1> HIDE DEF a, b
<1>6. SaysEnd(plan, a, b, f.fin, f.opcode, f.payload)
  <2>1. ASSUME f.opcode >= 3, f.opcode \in Nat PROVE FALSE
    <3>1. f.opcode # 0  BY <2>1
    <3>2. Joined(f).opcode = f.opcode  BY <1>3, <3>1 DEF More
    <3> QED BY <1>1, <2>1, <3>2, Opcodes
  <2> QED BY <1>1, <1>3, <1>5, <2>1, SaysOne
<1> DEFINE m == plan[a.said + 1]
<1>7. Joined(f).data = Text(plan, a)
  <2>1. More(PiecesAt(plan, a), f.opcode, f.payload) = [opcode |-> 2, data |-> Text(plan, a)]
    BY <1>5, <1>6, EndAdds
  <2>2. Joined(f) = [opcode |-> 2, data |-> Text(plan, a)]  BY <1>3, <1>5, <2>1
  <2> QED BY <2>2, Piece2, Zenon
<1>8. pieces' = PiecesAt(plan, b)  BY <1>1, <1>5, <1>6, EndAdds
<1>9. parts = PartsOf(m)
  <2>1. a.said < Len(plan)  BY <1>6 DEF SaysEnd
  <2>2. a.said + 1 \in 1..Len(plan)  BY <1>5, <2>1, TextIs
  <2>3. DecodeServerMessage(MessageBytes(m)) = PartsOf(m)  BY <1>5, <2>2, PlanIs
  <2> QED BY <1>2, <1>7, <2>3 DEF Text
<1>10. /\ wait \in {"token", "push"}
       /\ ReadOK(plan, b, IF Accepted(PartsOf(m)) THEN "push" ELSE wait, received')
  <2>1. /\ wait \in {"token", "push"}
        /\ ReadOK(plan, b, IF Accepted(PartsOf(m)) THEN "push" ELSE wait, Append(received, Text(plan, a)))
    BY <1>5, <1>6, ReadNext
  <2>2. received' = Append(received, Text(plan, a))  BY <1>1, <1>7
  <2> QED BY <2>1, <2>2
<1>11. SentOK(b, "failed", sent) /\ SentOK(b, "reading", sent \o AcksFor(acks(parts)))
  <2> DEFINE q == acks(parts)
  <2>1. q = IF wait = "push" THEN Pushed(PartsOf(plan[a.said + 1])) ELSE <<>>  BY <1>9
  <2> HIDE DEF q
  <2>2. SentOK(b, "failed", sent) /\ SentOK(b, "reading", sent \o AcksFor(q))
    BY <1>5, <1>6, <2>1, AnswersNext
  <2> QED BY <2>2 DEF q
<1> HIDE DEF acks, m
<1>12. ReadOK(plan, b, wait', received') /\ SentOK(b, stage', sent')
  <2>1. CASE Refused(wait, parts) /\ stage' = "failed" /\ UNCHANGED <<wait, sent>>
    <3>1. Accepted(PartsOf(m)) => wait = "push"  BY <1>9, <1>10, <2>1 DEF Refused
    <3>2. wait' = IF Accepted(PartsOf(m)) THEN "push" ELSE wait  BY <2>1, <3>1
    <3> QED BY <1>10, <1>11, <2>1, <3>2
  <2>2. CASE /\ ~Refused(wait, parts)
             /\ wait' = IF Accepted(parts) THEN "push" ELSE wait
             /\ sent' = sent \o AcksFor(acks(parts))
             /\ UNCHANGED stage
    <3>1. wait' = IF Accepted(PartsOf(m)) THEN "push" ELSE wait  BY <1>9, <2>2
    <3>2. stage' = "reading"  BY <1>3, <2>2
    <3> QED BY <1>10, <1>11, <2>2, <3>1, <3>2
  <2> QED BY <1>1, <2>1, <2>2
<1> QED BY <1>5, <1>8, <1>12

\* Every step keeps the invariant.
LEMMA NextOK == Inv /\ [Next]_vars => Inv'
<1> SUFFICES ASSUME Inv, [Next]_vars PROVE Inv'  OBVIOUS
<1>1. CASE Apple  BY <1>1, AppleOK
<1>2. ASSUME NEW n \in 1..(Len(stream) - got), Recv(n) PROVE Inv'  BY <1>2, RecvOK
<1>3. CASE Eof  BY <1>3, EofOK
<1>4. CASE Client
  BY <1>4, HttpOK, PingOK, PongOK, CloseOK, PieceOK, UnsupportedOK, MessageOK DEF Client
<1>5. CASE UNCHANGED vars
  <2>1. /\ plan' = plan /\ log' = log /\ stream' = stream /\ got' = got /\ buffer' = buffer
        /\ stage' = stage /\ wait' = wait /\ pieces' = pieces /\ received' = received
        /\ sent' = sent /\ taken' = taken
    BY <1>5 DEF vars
  <2> QED BY <2>1 DEF Inv
<1>6. CASE Finished  BY <1>5, <1>6 DEF Finished
<1> QED BY <1>1, <1>2, <1>3, <1>4, <1>5, <1>6 DEF Next

\* The inductive invariant: buffer, pieces, messages and answers are those that
\* the entry of the last frame taken determines, in every behaviour.
THEOREM InvHolds == Spec => []Inv
<1>1. Init => Inv  BY InitOK
<1>2. Inv /\ [Next]_vars => Inv'  BY NextOK
<1> QED BY <1>1, <1>2, PTL DEF Spec

-----------------------------------------------------------------------------
(* What follows from it *)

\* What the invariant says.
LEMMA InvParts ==
  ASSUME Inv
  PROVE  LET e == log[taken + 1]
         IN /\ LogOK(plan, log, stream) /\ BufferOK(log, stream, got, buffer, stage, taken)
            /\ plan \in Plans /\ stream \in Bytes /\ Len(stream) \in Nat
            /\ Len(log) \in Nat /\ taken \in Nat /\ taken + 1 <= Len(log)
            /\ EntryOK(plan, e) /\ e \in Entry /\ e.said \in Nat
            /\ got \in Nat /\ got <= Len(stream) /\ buffer \in Bytes
            /\ pieces = PiecesAt(plan, e) /\ ReadOK(plan, e, wait, received)
            /\ SentOK(e, stage, sent)
<1> DEFINE e == log[taken + 1]
<1>1. LogOK(plan, log, stream) /\ BufferOK(log, stream, got, buffer, stage, taken)  BY DEF Inv
<1>2. /\ plan \in Plans /\ stream \in Bytes /\ Len(stream) \in Nat /\ Len(log) \in Nat
      /\ \A i \in 1..Len(log) : EntryAt(plan, log, stream, i) /\ log[i] \in Entry
  BY <1>1, LogIs
<1>3. /\ taken \in Nat /\ taken + 1 <= Len(log) /\ got \in Nat /\ got <= Len(stream)
      /\ buffer \in Bytes
  BY <1>1 DEF BufferOK, Holds
<1>4. taken + 1 \in 1..Len(log)  BY <1>2, <1>3
<1>5. EntryOK(plan, e) /\ e \in Entry  BY <1>2, <1>4 DEF EntryAt
<1>6. e.said \in Nat  BY <1>5, EntryIs
<1>7. pieces = PiecesAt(plan, e) /\ ReadOK(plan, e, wait, received) /\ SentOK(e, stage, sent)
  BY DEF Inv
<1> QED BY <1>1, <1>2, <1>3, <1>5, <1>6, <1>7

\* The pieces of a message are a text and an opcode.
LEMMA PiecesType ==
  ASSUME NEW p \in Plans, NEW e, EntryOK(p, e)
  PROVE  PiecesAt(p, e).opcode \in -1..15 /\ PiecesAt(p, e).data \in Bytes
<1>1. e \in Entry  BY DEF EntryOK
<1>2. e.spoken \in Nat /\ e.begun \in BOOLEAN  BY <1>1, EntryIs
<1>3. CASE e.begun = TRUE
  <2> DEFINE u == SubSeq(Text(p, e), 1, e.spoken)
  <2>1. PiecesAt(p, e) = [opcode |-> 2, data |-> u]  BY <1>3 DEF PiecesAt
  <2>2. e.said < Len(p)  BY <1>3 DEF EntryOK
  <2>3. Text(p, e) \in Bytes /\ e.spoken <= Len(Text(p, e))  BY <2>2, TextIs
  <2>4. 1 \in Nat /\ 1 <= 1 /\ 1 <= e.spoken + 1  BY <1>2
  <2>5. u \in Bytes  BY <1>2, <2>3, <2>4, Cutting
  <2> HIDE DEF u
  <2>6. PiecesAt(p, e).opcode = 2 /\ PiecesAt(p, e).data = u  BY <2>1, Piece2, Zenon
  <2> QED BY <2>5, <2>6
<1>4. CASE e.begun = FALSE
  <2>1. PiecesAt(p, e) = [opcode |-> -1, data |-> <<>>]  BY <1>4 DEF PiecesAt, NoPieces
  <2>2. PiecesAt(p, e).opcode = -1 /\ PiecesAt(p, e).data = <<>>  BY <2>1, Piece2, Zenon
  <2> QED BY <2>2, NoBytes
<1> QED BY <1>2, <1>3, <1>4

\* The invariant implies the type invariant.
LEMMA InvTypes == Inv => TypeOK
<1> SUFFICES ASSUME Inv PROVE TypeOK  OBVIOUS
<1> DEFINE e == log[taken + 1]
<1>1. /\ BufferOK(log, stream, got, buffer, stage, taken)
      /\ plan \in Plans /\ stream \in Bytes /\ Len(stream) \in Nat
      /\ Len(log) \in Nat /\ taken \in Nat /\ taken + 1 <= Len(log)
      /\ EntryOK(plan, e)
      /\ got \in Nat /\ got <= Len(stream) /\ buffer \in Bytes
      /\ pieces = PiecesAt(plan, e) /\ ReadOK(plan, e, wait, received)
      /\ SentOK(e, stage, sent)
  BY InvParts
<1> HIDE DEF e
<1>2. got \in 0..Len(stream) /\ taken \in 0..(Len(log) - 1)  BY <1>1
<1>3. stage \in {"http", "reading", "failed"}  BY <1>1 DEF BufferOK
<1>4. wait \in {"token", "push"} /\ Len(received) = e.said  BY <1>1 DEF ReadOK
<1>5. Len(received) <= Len(plan)  BY <1>1, <1>4 DEF EntryOK
<1>6. pieces.opcode \in -1..15 /\ pieces.data \in Bytes  BY <1>1, PiecesType
<1>7. \A i \in DOMAIN sent : sent[i] \in Bytes
  <2>1. sent \in Seq(Bytes)  BY <1>1 DEF SentOK
  <2> QED BY <2>1
<1> QED BY <1>1, <1>2, <1>3, <1>4, <1>5, <1>6, <1>7 DEF TypeOK

\* The invariant implies that what was read is what was sent.
LEMMA InvReceived == Inv => ReceivedIsSent
<1> SUFFICES ASSUME Inv, NEW i \in DOMAIN received
             PROVE  DecodeServerMessage(received[i]) = PartsOf(plan[i])
  BY DEF ReceivedIsSent
<1> DEFINE e == log[taken + 1]
<1>1. plan \in Plans /\ EntryOK(plan, e) /\ ReadOK(plan, e, wait, received) /\ e.said \in Nat
  BY InvParts
<1> HIDE DEF e
<1>2. /\ received \in Seq(Bytes) /\ Len(received) = e.said
      /\ \A k \in 1..Len(received) : received[k] = MessageBytes(plan[k])
  BY <1>1 DEF ReadOK
<1>3. DOMAIN received = 1..Len(received)  BY <1>2, LenProperties
<1>4. i \in 1..Len(plan)
  <2>1. e.said <= Len(plan) /\ Len(plan) \in Nat  BY <1>1, PlanLength DEF EntryOK
  <2> QED BY <1>1, <1>2, <1>3, <2>1
<1>5. received[i] = MessageBytes(plan[i])  BY <1>2, <1>3
<1> QED BY <1>1, <1>4, <1>5, PlanIs

\* A client that wants more when all has arrived has taken everything.
LEMMA WantingIs ==
  ASSUME Inv, Wanting, got = Len(stream)
  PROVE  stage = "reading" /\ buffer = <<>> /\ taken + 1 = Len(log)
<1>1. LogOK(plan, log, stream) /\ BufferOK(log, stream, got, buffer, stage, taken)  BY DEF Inv
<1>2. ASSUME stage = "http", EndOfHttp = {} PROVE FALSE
  <2>1. BufferOK(log, stream, got, buffer, "http", taken)  BY <1>1, <1>2
  <2>2. /\ Len(buffer) = got /\ Len(HttpAnswer) <= Len(stream)
        /\ Len(HttpAnswer) <= Len(buffer) => Len(HttpAnswer) \in MarkersIn(buffer)
    BY <1>1, <2>1, HttpMarkers
  <2> QED BY <1>2, <2>2 DEF EndOfHttp
<1>3. stage = "reading" /\ FrameAt(buffer) = NeedMore  BY <1>2 DEF Wanting
<1>4. BufferOK(log, stream, Len(stream), buffer, "reading", taken)  BY <1>1, <1>3
<1> QED BY <1>1, <1>3, <1>4, AllTaken

\* An empty buffer past the HTTP answer is one of a client that took all frames.
LEMMA EmptyIs ==
  ASSUME Inv, stage # "http", got = Len(stream), buffer = <<>>
  PROVE  taken + 1 = Len(log)
<1>1. LogOK(plan, log, stream) /\ BufferOK(log, stream, got, buffer, stage, taken)  BY DEF Inv
<1>2. /\ Len(stream) \in Nat /\ Len(log) \in Nat /\ Len(log) >= 1 /\ log[1] = HttpEntry
      /\ \A i \in 1..Len(log) : EntryAt(plan, log, stream, i) /\ log[i] \in Entry
  BY <1>1, LogIs
<1>3. Len(buffer) = 0  BY NoBytes
<1>4. /\ taken \in Nat /\ taken + 1 <= Len(log)
      /\ \/ taken = 0 /\ Holds(buffer, stream, got, 0)
         \/ Holds(buffer, stream, got, log[taken + 1].end)
  BY <1>1 DEF BufferOK
<1>5. ASSUME Holds(buffer, stream, got, 0) PROVE FALSE
  <2>1. Len(buffer) = got - 0  BY <1>5 DEF Holds
  <2>2. Len(stream) = 0  BY <1>2, <1>3, <2>1
  <2>3. 1 \in 1..Len(log)  BY <1>2
  <2>4. log[1].end <= Len(stream)  BY <1>2, <2>3 DEF EntryAt
  <2>5. log[1].end = Len(HttpAnswer)  BY <1>2 DEF HttpEntry
  <2>6. Len(HttpAnswer) >= 4
    <3>1. HttpAnswer \in Bytes /\ Len(HttpAnswer) \in MarkersIn(HttpAnswer)  BY UpgradeAnswer
    <3> QED BY <3>1 DEF MarkersIn
  <2>7. Len(HttpAnswer) \in Nat  BY UpgradeAnswer, ByteAt
  <2> QED BY <2>2, <2>4, <2>5, <2>6, <2>7
<1>6. CASE Holds(buffer, stream, got, log[taken + 1].end)
  <2>1. taken + 1 \in 1..Len(log)  BY <1>2, <1>4
  <2>2. EntryAt(plan, log, stream, taken + 1) /\ log[taken + 1] \in Entry  BY <1>2, <2>1
  <2>3. log[taken + 1].end \in Nat  BY <2>2, EntryIs
  <2>4. Len(buffer) = got - log[taken + 1].end  BY <1>6 DEF Holds
  <2>5. log[taken + 1].end = Len(stream)  BY <1>2, <1>3, <2>3, <2>4
  <2>6. taken + 1 < Len(log) => log[taken + 1].end < Len(stream)  BY <2>2 DEF EntryAt
  <2> QED BY <1>2, <1>4, <2>5, <2>6
<1> QED BY <1>4, <1>5, <1>6

\* The invariant implies that nothing is left over.
LEMMA InvNothingLeft == Inv => NothingLeftOver
<1> SUFFICES ASSUME Inv PROVE NothingLeftOver  OBVIOUS
<1> DEFINE e == log[taken + 1]
<1>1. pieces = PiecesAt(plan, e) /\ ReadOK(plan, e, wait, received)  BY InvParts
<1>2. Now = log[Len(log)]  BY NowIs
<1>3. ASSUME stage # "http", got = Len(stream), buffer = <<>> PROVE Len(received) = Now.said
  <2>1. taken + 1 = Len(log)  BY <1>3, EmptyIs
  <2> QED BY <1>1, <1>2, <2>1 DEF ReadOK
<1>4. ASSUME Wanting, got = Len(stream)
      PROVE  /\ buffer = <<>>
             /\ pieces = IF Now.begun
                         THEN [opcode |-> Opcode.binary, data |-> SubSeq(Saying, 1, Now.spoken)]
                         ELSE NoPieces
  <2>1. buffer = <<>> /\ taken + 1 = Len(log)  BY <1>4, WantingIs
  <2>2. e = Now  BY <1>2, <2>1
  <2>3. Saying = Text(plan, Now)  BY DEF Saying, Text
  <2>4. pieces = PiecesAt(plan, Now)  BY <1>1, <2>2
  <2> QED BY <2>1, <2>3, <2>4, Opcodes DEF PiecesAt
<1> QED BY <1>3, <1>4 DEF NothingLeftOver

\* The invariant implies that what was answered is what is due.
LEMMA InvAnswers == Inv => AnswersMatch
<1> SUFFICES ASSUME Inv PROVE AnswersMatch  OBVIOUS
<1> DEFINE e == log[taken + 1]
           answers == [i \in DOMAIN sent |-> AppleReads(sent[i])]
           due == e.due
<1>1. SentOK(e, stage, sent) /\ e \in Entry  BY InvParts
<1>2. due \in Seq(Due)  BY <1>1, EntryIs
<1>3. /\ sent \in Seq(Bytes) /\ Len(sent) <= Len(due)
      /\ \A i \in 1..Len(sent) : AppleReads(sent[i]) = due[i]
      /\ stage # "failed" => Len(sent) = Len(due)
  BY <1>1 DEF SentOK
<1>4. DOMAIN sent = 1..Len(sent) /\ Len(sent) \in Nat /\ Len(due) \in Nat
  BY <1>2, <1>3, LenProperties
<1>5. \A i \in 1..Len(sent) : answers[i] = due[i] /\ answers[i] \in Due
  <2> TAKE i \in 1..Len(sent)
  <2>1. answers[i] = due[i]  BY <1>3, <1>4
  <2>2. i \in 1..Len(due)  BY <1>3, <1>4
  <2>3. due[i] \in Due  BY <1>2, <2>2, ElementOfSeq
  <2> QED BY <2>1, <2>3
<1>6. answers \in Seq(Due) /\ Len(answers) = Len(sent)
  <2>1. answers = [i \in 1..Len(sent) |-> AppleReads(sent[i])]  BY <1>4
  <2>2. answers \in [1..Len(sent) -> Due]  BY <1>5, <2>1
  <2> HIDE DEF answers
  <2> QED BY <1>4, <2>2
<1> HIDE DEF answers, due
<1>7. IsPrefix(answers, due)
  <2> DEFINE n == Len(sent)  u == SubSeq(answers, 1, n)  v == SubSeq(due, 1, n)
  <2>1. u = answers  BY <1>6, SubSeqFull
  <2>2. v \in Seq(Due) /\ Len(v) = n /\ \A i \in 1..n : v[i] = due[i]
    <3>1. CASE n = 0
      <4>1. v = <<>>  BY <3>1, <1>2, SubSeqEmpty
      <4> QED BY <3>1, <4>1, EmptySeq
    <3>2. CASE n # 0
      <4>1. 1 \in 1..(Len(due) + 1) /\ n \in 1..Len(due)  BY <1>3, <1>4, <3>2
      <4> QED BY <1>2, <1>4, <4>1
    <3> QED BY <3>1, <3>2
  <2> HIDE DEF u, v
  <2>3. answers = v  BY <1>5, <1>6, <2>2, SeqEqual
  <2> QED BY <1>3, <1>6, <2>1, <2>3 DEF IsPrefix, u, v
<1>8. stage # "failed" => answers = due  BY <1>2, <1>3, <1>5, <1>6, SeqEqual
<1>9. ASSUME Wanting, got = Len(stream) PROVE answers = Now.due
  <2>1. stage = "reading" /\ taken + 1 = Len(log)  BY <1>9, WantingIs
  <2>2. Now = log[Len(log)]  BY NowIs
  <2> QED BY <1>8, <2>1, <2>2 DEF due
<1>10. /\ IsPrefix(answers, log[taken + 1].due)
       /\ stage # "failed" => answers = log[taken + 1].due
  BY <1>7, <1>8 DEF due
<1> QED BY <1>9, <1>10 DEF AnswersMatch, answers

\* Nothing that may be planned passes for another message when it is cut short.
LEMMA PlansTruncated == plan \in Plans => TruncationShows
<1> SUFFICES ASSUME plan \in Plans, NEW i \in DOMAIN plan,
                    NEW data \in {MessageBytes(plan[i])} \cup {PartBody(plan[i][k]) : k \in DOMAIN plan[i]},
                    NEW n \in 1..(Len(data) - 1)
             PROVE  LET fields == DecodeFields[SubSeq(data, 1, n)]
                    IN fields = <<Malformed>> \/ IsStrictPrefix(fields, DecodeFields[data])
  BY DEF TruncationShows
<1>1. plan \in Seq(Seq(Part))  BY PlannedMessages
<1>2. i \in 1..Len(plan)  BY <1>1, LenProperties
<1>3. IsMessage(plan[i]) /\ SizesFit(plan[i])  BY <1>2, PlanIs
<1>4. Good(data)
  <2>1. CASE data = MessageBytes(plan[i])  BY <1>3, <2>1, MessageRead
  <2>2. CASE \E k \in DOMAIN plan[i] : data = PartBody(plan[i][k])
    <3>1. PICK k \in DOMAIN plan[i] : data = PartBody(plan[i][k])  BY <2>2
    <3>2. plan[i] \in Seq(Part)  BY <1>3 DEF IsMessage
    <3>3. k \in 1..Len(plan[i])  BY <3>2, LenProperties
    <3> QED BY <1>3, <3>1, <3>3, PartRead
  <2> QED BY <2>1, <2>2
<1> QED BY <1>4, Truncated

\* For every sequence of messages, every way to cut them into frames and every
\* way recv delivers them: read_message returns the messages that were sent,
\* whole and in order, and leaves nothing over.
THEOREM StreamIsAlwaysKept == Spec => []StreamIsKept
<1>1. Inv => StreamIsKept  BY InvTypes, InvReceived, InvNothingLeft DEF StreamIsKept
<1> QED BY <1>1, InvHolds, PTL

\* For every message: no beginning of it, nor of one of its parts, is read by
\* _decode_fields as anything but an exception or fewer of the same fields.
THEOREM TruncationAlwaysShows == Spec => []TruncationShows
<1>1. Inv => plan \in Plans  BY InvTypes DEF TypeOK
<1>2. Inv => TruncationShows  BY <1>1, PlansTruncated
<1> QED BY <1>2, InvHolds, PTL

\* For every sequence of messages and pings: the client answers exactly what is
\* due, each answer once and in order, in frames from which Apple reads what was
\* to be said.
THEOREM AnswersAlwaysMatch == Spec => []AnswersMatch
<1>1. Inv => AnswersMatch  BY InvAnswers
<1> QED BY <1>1, InvHolds, PTL

=============================================================================
