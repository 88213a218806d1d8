---------------------------- MODULE BridgeProver ----------------------------
(***************************************************************************)
(* The arithmetic and the two halves of the code proof of                  *)
(* src/icloudlite/hsa2_bridge_prover.py: points of an elliptic curve, the  *)
(* SPAKE2 exchange built on them, the confirmations and the sealed code.   *)
(*                                                                         *)
(* The curve is y^2 = x^3 + ax + b over the integers modulo P, as in the   *)
(* code, with a small P.  Hashes, HMACs and the cipher are free            *)
(* constructors: equal results come from equal arguments only.             *)
(***************************************************************************)
EXTENDS Integers, Sequences

CONSTANTS P, B,        \* the field and the curve (a is P - 3)
          Order,       \* the number of points, a prime
          Gx, Gy,      \* the generator
          MCode, NCode,\* the two masking points, in compressed form
          W,           \* what scrypt may derive from a code
          StaleX, StaleY \* the scalars of an earlier exchange

ASSUME CurveAssumption ==
    /\ P \in Nat /\ P % 4 = 3
    /\ B \in 1..(P - 1) /\ Order \in Nat
    /\ W \subseteq Nat
    /\ StaleX \in 1..(Order - 1) /\ StaleY \in 1..(Order - 1)

A == (P - 3) % P

Infinity == <<"infinity">>
Coordinates == 0..(P - 1)
Points == {Infinity} \cup (Coordinates \X Coordinates)

-----------------------------------------------------------------------------
(* Points *)

Power(base, e) ==
    LET power[n \in 0..e] == IF n = 0 THEN 1 ELSE (base * power[n - 1]) % P
    IN power[e]

Inverse(n) == CHOOSE m \in 1..(P - 1) : (n * m) % P = 1

Cubic(x) == (x * x * x + A * x + B) % P

IsOnCurve(pt) == pt # Infinity /\ (pt[2] * pt[2] - Cubic(pt[1])) % P = 0

Curve == {pt \in Points : pt = Infinity \/ IsOnCurve(pt)}

Negate(pt) == IF pt = Infinity THEN pt ELSE <<pt[1], (-pt[2]) % P>>

Slope(l, r) ==
    IF l = r THEN ((3 * l[1]^2 + A) * Inverse((2 * l[2]) % P)) % P
             ELSE ((r[2] - l[2]) * Inverse((r[1] - l[1]) % P)) % P

AddPoints(l, r) ==
    IF l = Infinity THEN r
    ELSE IF r = Infinity THEN l
    ELSE IF l[1] = r[1] /\ (l[2] + r[2]) % P = 0 THEN Infinity
    ELSE LET slope == Slope(l, r)
             x == (slope^2 - l[1] - r[1]) % P
         IN <<x, (slope * (l[1] - x) - l[2]) % P>>

\* The loop of _multiply_point: doubles the addend, adds it for every one bit.
LoopState == [result : Curve, addend : Curve, scalar : Nat]

DoubleAndAdd[loop \in LoopState] ==
    IF loop.scalar = 0 THEN loop.result
    ELSE DoubleAndAdd[
            [result |-> IF loop.scalar % 2 = 1
                        THEN AddPoints(loop.result, loop.addend) ELSE loop.result,
             addend |-> AddPoints(loop.addend, loop.addend),
             scalar |-> loop.scalar \div 2]]

MultiplyPoint(pt, scalar) ==
    DoubleAndAdd[[result |-> Infinity, addend |-> pt, scalar |-> scalar % Order]]

\* SEC1: 02 or 03 with the parity of y, then x; or 04 with both.
EncodePoint(pt) == <<4, pt[1], pt[2]>>

SquareRoot(x) == Power(Cubic(x), (P + 1) \div 4)

\* Mutant: the parity in the first byte is not looked at.
DecodePointIgnoresParity(code) ==
    LET pt == <<code[2], IF code[1] = 4 THEN code[3] ELSE SquareRoot(code[2])>>
    IN IF IsOnCurve(pt) THEN pt ELSE <<"raises">>

DecodePoint(code) ==
    LET root == SquareRoot(code[2])
        pt == <<code[2], IF code[1] = 4 THEN code[3]
                         ELSE IF root % 2 = code[1] % 2 THEN root
                         ELSE (-root) % P>>
    IN IF IsOnCurve(pt) THEN pt ELSE <<"raises">>

G == <<Gx, Gy>>
M == DecodePoint(MCode)
N == DecodePoint(NCode)

\* The field: P is a prime, of which Fermat's theorem is what is needed.
ASSUME FieldAssumption == \A n \in 1..(P - 1) : Power(n, P - 1) = 1

\* The curve: under the code's addition its points are a group.
ASSUME GroupAssumption ==
    /\ {G, M, N} \subseteq Curve \ {Infinity}
    /\ \A p, q \in Curve : AddPoints(p, q) \in Curve
    /\ \A p, q, r \in Curve :
          AddPoints(AddPoints(p, q), r) = AddPoints(p, AddPoints(q, r))
    /\ \A p \in Curve : Negate(p) \in Curve /\ AddPoints(p, Negate(p)) = Infinity

\* The order of the group is a prime.
Repeated(pt, k) ==
    LET sum[n \in 0..k] == IF n = 0 THEN Infinity ELSE AddPoints(sum[n - 1], pt)
    IN sum[k]

ASSUME OrderAssumption ==
    /\ \A n \in 2..(Order - 1) : Order % n # 0
    /\ \A p \in Curve : Repeated(p, Order) = Infinity

-----------------------------------------------------------------------------
(* The exchange.  A pair of scalars is what scrypt makes of the code and    *)
(* the salt; w[1] masks the shares, w[2] is what is proved.                 *)

Pairs == W \X W

ClientShare(x, w) == AddPoints(MultiplyPoint(G, x), MultiplyPoint(M, w[1]))
ServerShare(y, w) == AddPoints(MultiplyPoint(G, y), MultiplyPoint(N, w[1]))

\* Mutant: the mask is added a second time.
UnmaskAdds(share, mask, w) == AddPoints(share, MultiplyPoint(mask, w[1]))

\* The other side's share without its mask.
Unmask(share, mask, w) == AddPoints(share, Negate(MultiplyPoint(mask, w[1])))

\* The transcript of a side: both shares, the two shared points, w0.  The
\* points are encoded in it, which the point at infinity does not survive.
Transcript(shareP, shareV, yPoint, vPoint, w) ==
    IF Infinity \in {shareP, shareV, yPoint, vPoint} THEN <<"raises">>
    ELSE <<"transcript", EncodePoint(shareP), EncodePoint(shareV),
           EncodePoint(yPoint), EncodePoint(vPoint), w[1]>>

ClientFinish(x, w, shareV) ==
    LET adjusted == Unmask(shareV, N, w)
    IN Transcript(ClientShare(x, w), shareV, MultiplyPoint(adjusted, x),
                  MultiplyPoint(adjusted, w[2]), w)

\* The verifier holds G times the second scalar, not the scalar.
ServerFinish(y, w, shareP) ==
    LET adjusted == Unmask(shareP, M, w)
        verifier == MultiplyPoint(G, w[2])
    IN Transcript(shareP, ServerShare(y, w), MultiplyPoint(adjusted, y),
                  MultiplyPoint(verifier, y), w)

\* Mutant: the confirmation is not keyed with the transcript.
ServerConfirmationUnkeyed(t) == <<"hmac", "confirm_server", t[2]>>

\* Keys derived from a transcript, and what is made with them.
ClientConfirmation(t) == <<"hmac", "confirm_client", t, t[3]>>
ServerConfirmation(t) == <<"hmac", "confirm_server", t, t[2]>>
SharedKey(t) == <<"SharedKey", t>>
VerifierKey(raw) == <<"webVerifier", raw>>
Sealed(key, code) == <<"sealed", key, code>>

-----------------------------------------------------------------------------
VARIABLES x, y,     \* the scalars drawn by the two sides
          wc, ws,   \* the pairs derived from the typed and the shown code
          push,     \* the exchange whose step-4 push is read: "own", "earlier"
          stage,    \* how far the conversation is
          secret,   \* the client's transcript
          rawKey,   \* the key each side holds once it has verified the other
          opened    \* what decrypt_message returned

vars == <<x, y, wc, ws, push, stage, secret, rawKey, opened>>

None == <<"none">>

\* The server's transcript of the exchange the push belongs to.  The earlier
\* one was a sign-in with the right code, with other scalars.
ServerSide(which) ==
    IF which = "own" THEN ServerFinish(y, ws, ClientShare(x, wc))
    ELSE ServerFinish(StaleY, ws, ClientShare(StaleX, ws))
ServerShareOf(which) == ServerShare(IF which = "own" THEN y ELSE StaleY, ws)

TypeOK ==
    /\ x \in 1..(Order - 1) /\ y \in 1..(Order - 1)
    /\ wc \in Pairs /\ ws \in Pairs
    /\ push \in {"own", "earlier"}
    /\ stage \in {"new", "asked", "processed", "refused", "raised",
                  "verified", "agreed", "opened"}
    /\ secret = None \/ secret[1] = "transcript"
    /\ DOMAIN rawKey = {"client", "server"}

\* init_with_salt draws a non-zero scalar; Apple draws another.
Init ==
    /\ x \in 1..(Order - 1) /\ y \in 1..(Order - 1)
    /\ wc \in Pairs /\ ws \in Pairs
    /\ push \in {"own", "earlier"}
    /\ stage = "new"
    /\ secret = None
    /\ rawKey = [client |-> None, server |-> None]
    /\ opened = None

Raise == stage' = "raised" /\ UNCHANGED <<secret, rawKey, opened>>

\* get_message1: the share is posted as step 2.
GetMessage1 ==
    /\ stage = "new"
    /\ IF ClientShare(x, wc) = Infinity THEN Raise
       ELSE stage' = "asked" /\ UNCHANGED <<secret, rawKey, opened>>
    /\ UNCHANGED <<x, y, wc, ws, push>>

\* process_message1: Apple's share comes in the push for step 4.  Apple's own
\* exchange must have worked out, or there is no push.
ProcessMessage1 ==
    /\ stage = "asked"
    /\ ServerSide(push) # <<"raises">>
    /\ LET t == ClientFinish(x, wc, ServerShareOf(push))
       IN IF t = <<"raises">> THEN Raise
          ELSE /\ secret' = t
               /\ stage' = "processed"
               /\ UNCHANGED <<rawKey, opened>>
    /\ UNCHANGED <<x, y, wc, ws, push>>

\* process_message2: Apple's confirmation must be the one the client's own
\* transcript yields.
ProcessMessage2 ==
    /\ stage = "processed"
    /\ IF ServerConfirmation(ServerSide(push)) = ServerConfirmation(secret)
       THEN /\ stage' = "verified"
            /\ rawKey' = [rawKey EXCEPT !.client = SharedKey(secret)]
       ELSE stage' = "refused" /\ UNCHANGED rawKey
    /\ UNCHANGED <<x, y, wc, ws, push, secret, opened>>

\* verify_message2, Apple's side of step 4.
VerifyMessage2 ==
    /\ stage = "verified"
    /\ LET t == ServerFinish(y, ws, ClientShare(x, wc))
       IN IF t # <<"raises">> /\ ClientConfirmation(secret) = ClientConfirmation(t)
          THEN /\ stage' = "agreed"
               /\ rawKey' = [rawKey EXCEPT !.server = SharedKey(t)]
          ELSE stage' = "refused" /\ UNCHANGED rawKey
    /\ UNCHANGED <<x, y, wc, ws, push, secret, opened>>

\* encrypt_message and decrypt_message: the cipher opens under its own key.
Decrypt ==
    /\ stage = "agreed"
    /\ LET message == Sealed(VerifierKey(rawKey.server), "code")
       IN IF message[2] = VerifierKey(rawKey.client)
          THEN stage' = "opened" /\ opened' = <<message[3]>>
          ELSE stage' = "raised" /\ UNCHANGED opened
    /\ UNCHANGED <<x, y, wc, ws, push, secret, rawKey>>

\* Nothing follows an answer, nor a push that Apple cannot make.
Done ==
    /\ \/ stage \in {"refused", "raised", "opened"}
       \/ stage = "asked" /\ ServerSide(push) = <<"raises">>
    /\ UNCHANGED vars

Next == \/ GetMessage1 \/ ProcessMessage1 \/ ProcessMessage2
        \/ VerifyMessage2 \/ Decrypt \/ Done

Spec == Init /\ [][Next]_vars

-----------------------------------------------------------------------------
(* Properties *)

\* w0 is part of the transcript, w1 only counts modulo the order.
SameCode == wc[1] = ws[1] /\ wc[2] % Order = ws[2] % Order

\* The client takes a confirmation for good only when Apple holds the same
\* code and answered this very share; in particular no push of an earlier
\* sign-in with the right code convinces it.
OnlyTheSameCodeVerifies ==
    rawKey.client # None =>
        /\ SameCode
        /\ secret = ServerSide(push)
        /\ push = "earlier" => ClientShare(StaleX, ws) = ClientShare(x, wc)

\* With the same code both sides work out the same transcript, although they
\* compute it differently (the client knows w1, Apple only G times w1), so the
\* right code is never refused, by either side, and the sealed code opens: the
\* only accident is a scalar or a share that is zero in the group.
SameCodeNeverRefused ==
    /\ SameCode /\ push = "own" => stage # "refused"
    /\ stage = "raised" =>
        \/ Infinity \in {ClientShare(x, wc), Unmask(ServerShareOf(push), N, wc)}
        \/ wc[2] % Order = 0

\* The double-and-add loop is repeated addition, on every point the exchange
\* multiplies and for scalars beyond the order, and its results are points.
MultiplyIsRepeatedAddition ==
    \A pt \in {G, M, N, ClientShare(x, wc)} : \A k \in {x, y, wc[1], ws[2]} :
        /\ MultiplyPoint(pt, k) = Repeated(pt, k)
        /\ MultiplyPoint(pt, k) = Infinity \/ IsOnCurve(MultiplyPoint(pt, k))

\* Both encodings of a share decode to it, and what no point has as its first
\* coordinate does not decode.
Compressed(pt) == <<2 + (pt[2] % 2), pt[1]>>
EncodingsAgree ==
    \A pt \in {ClientShare(x, wc), ServerShare(y, ws)} \ {Infinity} :
        /\ DecodePoint(EncodePoint(pt)) = pt
        /\ DecodePoint(Compressed(pt)) = pt
        /\ \A sign \in {2, 3} :
             DecodePoint(<<sign, x>>) = <<"raises">>
                <=> \A c \in Coordinates : ~IsOnCurve(<<x, c>>)

\* The arithmetic the exchange rests on, for every share it makes.
PointsAreRight == TypeOK /\ MultiplyIsRepeatedAddition /\ EncodingsAgree

=============================================================================
