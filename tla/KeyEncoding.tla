---------------------------- MODULE KeyEncoding ----------------------------
(***************************************************************************)
(* The arithmetic that hides a secret and brings it back, on both ways     *)
(* that the code has.  LTS: a key is encoded under the key of the nodes,   *)
(* re-encrypted by them and decoded by the reader.  OTS: a message is      *)
(* encrypted under a secret that is shared among the trustees; each sends  *)
(* its share, encrypted for the reader, who puts the secret together.      *)
(*                                                                         *)
(* A group of prime order Q stands for the curve: scalars and points are   *)
(* the numbers below Q, and the base point is 1.  A point carries at most  *)
(* PickLen bytes of data.  Hashes and ciphers are injective.               *)
(***************************************************************************)
EXTENDS Integers, Sequences, FiniteSets, SequencesExt

CONSTANTS
    Q,          \* the order of the group, a prime
    Bytes,      \* the values of a byte
    PickLen,    \* how many of them a point carries
    KeyNodes,   \* the nodes or trustees: an initial segment of 1, 2, ...
    Secrets,    \* the inputs of a case: LTS or OTS
    NoCase

ASSUME KeyAssumption ==
    /\ \A a \in 1..Q - 1 : \E b \in 1..Q - 1 : (a * b) % Q = 1
    /\ PickLen \in Nat \ {0}

VARIABLES
    case,       \* the inputs
    recovered   \* what the reader ends with

key_vars == <<case, recovered>>

Failed == <<-1>>

-----------------------------------------------------------------------------
(* The group *)

InverseOf(a) == CHOOSE b \in 1..Q - 1 : (a * b) % Q = 1

\* The data that points can carry, in a fixed order.
Embeddable == SetToSeq(UNION {[1..n -> Bytes] : n \in 0..PickLen})

\* Point.Pick and Point.Data: not every point carries data.
Pick(data) == SelectInSeq(Embeddable, LAMBDA d : d = data)
Data(point) == IF point \in DOMAIN Embeddable THEN Embeddable[point] ELSE Failed

\* A polynomial is the sequence of its coefficients, the secret first.
Eval(poly, i) == FoldRight(LAMBDA c, v : (c + v * i) % Q, poly, 0)

\* share.RecoverCommit and pvss.RecoverSecret: the value at 0 of the polynomial through
\* the points <<i, V[i]>>.
Recover(T, V) ==
    LET Factor(i) == FoldSet(LAMBDA j, p : (p * j * InverseOf((j - i) % Q)) % Q, 1, T \ {i})
    IN FoldSet(LAMBDA i, s : (s + V[i] * Factor(i)) % Q, 0, T)

\* What is left of the data after one point.
Rest(msg) == SubSeq(msg, PickLen + 1, Len(msg))

\* The loop over the data: one point for each piece.
Pieces(msg) ==
    LET piece[m \in UNION {[1..n -> Bytes] : n \in 0..Len(msg)}] ==
            IF m = <<>> THEN <<>>
            ELSE <<Pick(SubSeq(m, 1, IF Len(m) < PickLen THEN Len(m) ELSE PickLen))>>
                    \o piece[Rest(m)]
    IN piece[msg]

\* The data of the points Cs, each moved by S.
Parts(Cs, S) == [i \in DOMAIN Cs |-> Data((Cs[i] - S) % Q)]

-----------------------------------------------------------------------------
(* LTS: the key of the nodes *)

\* EncodeKey with the random scalar r.
EncodeKey(X, key, r) == [U |-> r, Cs |-> [i \in DOMAIN Pieces(key) |-> (X * r + Pieces(key)[i]) % Q]]

\* getUi on a node whose share of the private key is v.
getUi(v, U, Xc) == (U * v + Xc * v) % Q

\* Mutation: the part of the reader's own key is not removed.
WithReader(X, XhatEnc, xc) == XhatEnc

Xhat(X, XhatEnc, xc) == (XhatEnc - X * xc) % Q

DecodeKey(X, Cs, XhatEnc, xc) ==
    LET parts == Parts(Cs, Xhat(X, XhatEnc, xc))
    IN IF Failed \in ToSet(parts) THEN Failed ELSE FlattenSeq(parts)

\* Writer, nodes T and reader one after the other.
ReadKey(k, T) ==
    LET X == k.poly[1]
        enc == EncodeKey(X, k.data, k.r)
        Uis == [i \in T |-> getUi(Eval(k.poly, i), enc.U, k.reader)]
    IN DecodeKey(X, enc.Cs, Recover(T, Uis), k.reader)

-----------------------------------------------------------------------------
(* OTS: the shares of the trustees *)

\* A decrypted share as a message: its index, from 0, and its value, in Bytes.
Digits(v, n) == [i \in 1..n |-> (v \div Cardinality(Bytes)^(n - i)) % Cardinality(Bytes)]
Marshal(i, v) == Digits(i - 1, 2) \o Digits(v, 4)
Value(msg) == FoldLeft(LAMBDA v, d : v * Cardinality(Bytes) + d, 0, msg)
Unmarshal(msg) == [I |-> Value(SubSeq(msg, 1, 2)) + 1, V |-> Value(SubSeq(msg, 3, Len(msg)))]

PvssThreshold == (2 * Cardinality(KeyNodes)) \div 3 + 1

\* SetupPVSS: the shares of the secret, encrypted for the trustees; the trustees' keys
\* are 1, 2, ...
EncShares(poly) == [i \in KeyNodes |-> (Eval(poly, i) * i) % Q]

\* pvss.DecShare with the trustee's private key.
DecryptShare(S, priv) == (S * InverseOf(priv)) % Q

elGamalEncrypt(msg, rPubKey, r) ==
    [K |-> r, Cs |-> [i \in DOMAIN Pieces(msg) |-> (rPubKey * r + Pieces(msg)[i]) % Q]]

SharedPoint(K, privKey) == (K * privKey) % Q

\* A point without data adds nothing.
ElGamalDecrypt(ds, privKey) ==
    FlattenSeq(SelectSeq(Parts(ds.Cs, SharedPoint(ds.K, privKey)), LAMBDA d : d # Failed))

\* EncryptMessage and DecryptMessage: the key is a hash of the secret's point.
EncryptMessage(secret, mesg) == [key |-> secret, mesg |-> mesg]
DecryptMessage(recSecret, enc) == IF enc.key = recSecret THEN enc.mesg ELSE Failed

\* Writer, trustees T and reader one after the other.
ReadMessage(k, T) ==
    LET encShares == EncShares(k.poly)
        reply == [i \in T |->
                    elGamalEncrypt(Marshal(i, DecryptShare(encShares[i], i)), k.reader, k.r)]
        messages == {ElGamalDecrypt(reply[i], k.reader) : i \in T}
        shares == {Unmarshal(msg) : msg \in messages}
        V == [i \in {sh.I : sh \in shares} |-> (CHOOSE sh \in shares : sh.I = i).V]
    IN IF \E msg \in messages : Len(msg) # 6 THEN Failed
       ELSE DecryptMessage(Recover(DOMAIN V, V), EncryptMessage(k.poly[1], k.data))

-----------------------------------------------------------------------------
KeyCaseInit == case = NoCase /\ recovered = {}

\* DecryptKeyRequest gives RecoverCommit all nodes but one.
Enough(k) == IF k.kind = "lts" THEN Cardinality(KeyNodes) - 1 ELSE PvssThreshold

\* What any sufficient number of nodes or trustees gives.
Recovering(k) ==
    /\ case = NoCase
    /\ case' = k
    /\ recovered' = {IF k.kind = "lts" THEN ReadKey(k, T) ELSE ReadMessage(k, T) :
                       T \in {T \in SUBSET KeyNodes : Cardinality(T) >= Enough(k)}}

KeyCaseNext == \E k \in Secrets : Recovering(k)

(* Whichever nodes take part, if they are enough, what was encoded is recovered, whatever *)
(* its length.  LTS: DecodeKey gives the key that was encoded with EncodeKey.  OTS: any   *)
(* Threshold of the shares, sent through elGamalEncrypt and ElGamalDecrypt, lead to the   *)
(* secret, and with it to the message.                                                    *)
SecretIsRecovered == case # NoCase => recovered = {case.data}

=============================================================================
