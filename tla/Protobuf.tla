------------------------------ MODULE Protobuf ------------------------------
(***************************************************************************)
(* The encoder and the decoder of dedis/protobuf, on which every message,  *)
(* every stored configuration and every client request of onet rests.      *)
(*                                                                         *)
(* A byte has ByteBits bits (8 in the code): a varint carries ByteBits - 1 *)
(* of them in each byte, a "32-bit" word is 4 bytes and a "64-bit" word 8. *)
(* The type of a value is a record with its kind.  Numbers are integers    *)
(* within the width of their kind (floats are their bit patterns, times    *)
(* their nanoseconds), strings and byte slices are sequences of bytes, a   *)
(* pointer or an interface is <<>> (nil) or <<x>>, a map is a set of       *)
(* pairs, and a struct the sequence of the values of its ProtoFields.      *)
(***************************************************************************)
EXTENDS Integers, Sequences, FiniteSets, SequencesExt

CONSTANTS
    ByteBits,       \* the bits of a byte
    Generators      \* the ids given to RegisterInterface, sequences of bytes

VARIABLE coded      \* a type and a value of it that are encoded and decoded

NoMessage == [kind |-> "none"]

Byte == 2 ^ ByteBits
Group == 2 ^ (ByteBits - 1)
FixedWord == 2 ^ (8 * ByteBits)
Half == 2 ^ (4 * ByteBits)

Varints == {"bool", "int32", "int64", "uint32", "uint64"}
Fixed32 == {"sfixed32", "ufixed32", "float32"}
Fixed64 == {"sfixed64", "ufixed64", "float64", "time"}
Numbers == Varints \cup Fixed32 \cup Fixed64
Zigzag == {"int32", "int64"}
Signed == Zigzag \cup {"sfixed32", "sfixed64", "time"}
Narrow == Fixed32 \cup {"int32", "uint32"}

WireType(kind) == IF kind \in Varints THEN 0 ELSE IF kind \in Fixed32 THEN 5
                  ELSE IF kind \in Fixed64 THEN 1 ELSE 2

IsBytes(T) == T.kind \in {"slice", "array"} /\ T.elem.kind = "byte"

\* The two's complement of v in a word of size w, and back.
Unsigned(v, w) == v % w
AsSigned(v, w) == IF v % w >= w \div 2 THEN (v % w) - w ELSE v % w

-----------------------------------------------------------------------------
(* field.go: the fields of a struct with their ids.  A field is declared with a tag *)
(* (0 for none), a prefix, whether it is embedded, and its type.                    *)

RECURSIVE innerFieldIndexes(_, _)
innerFieldIndexes(id, T) ==
    LET Add(acc, f) ==
            LET next == IF f.tag # 0 THEN f.tag ELSE acc.id + 1 IN
            IF f.anon
            THEN LET inner == innerFieldIndexes(next - 1, f.type) IN
                 [id |-> inner.id, out |-> acc.out \o inner.out]
            ELSE [id |-> next,
                  out |-> Append(acc.out, [id |-> next, prefix |-> f.prefix, type |-> f.type])]
    IN FoldLeft(Add, [id |-> id, out |-> <<>>], T.fields)

ProtoFields(T) == innerFieldIndexes(0, T).out

\* ProtoFields panics on an id used twice.
IDReused(T) ==
    \E i, j \in DOMAIN ProtoFields(T) : i # j /\ ProtoFields(T)[i].id = ProtoFields(T)[j].id

-----------------------------------------------------------------------------
(* encode.go *)

\* binary.PutUvarint
RECURSIVE uvarint(_)
uvarint(v) == IF v < Group THEN <<v>> ELSE <<Group + (v % Group)>> \o uvarint(v \div Group)

\* Mutation: the negation does not take the sign bit with it.
Negated(v) == uvarint(IF v >= 0 THEN Unsigned(2 * v, FixedWord) ELSE Unsigned(-(2 * v), FixedWord))

svarint(v) ==
    uvarint(IF v >= 0 THEN Unsigned(2 * v, FixedWord) ELSE Unsigned(-(2 * v) - 1, FixedWord))

\* u32 and u64: n bytes, the low one first.
Fixed(v, n) == [k \in 1..n |-> (v \div Byte ^ (k - 1)) % Byte]

Number(kind, v) ==
    CASE kind \in Zigzag -> svarint(v)
      [] kind \in Varints \ Zigzag -> uvarint(v)
      [] kind \in Fixed32 -> Fixed(Unsigned(v, Half), 4)
      [] kind \in Fixed64 -> Fixed(Unsigned(v, FixedWord), 8)

Key(id, wiretype) == uvarint(id * 8 + wiretype)
Delimited(id, b) == Key(id, 2) \o uvarint(Len(b)) \o b

\* A slice of numbers is one packed item, but a time is a struct to the reflective path.
IsPacked(T) == T.kind \in {"slice", "array"} /\ T.elem.kind \in Numbers \ {"time"}

\* Whether the encoder panics.
RECURSIVE Panics(_, _, _)
Panics(T, v, prefix) ==
    CASE T.kind \in Numbers \cup {"string"} -> FALSE
      [] T.kind = "struct" ->
            LET fs == ProtoFields(T) IN
            \/ IDReused(T)
            \/ fs # <<>> /\ \A k \in DOMAIN fs : fs[k].type.kind = "blank"
            \/ \E k \in DOMAIN fs :
                fs[k].type.kind # "blank" /\ Panics(fs[k].type, v[k], fs[k].prefix)
      [] IsBytes(T) \/ IsPacked(T) -> FALSE
      [] T.kind \in {"slice", "array"} /\ ~IsBytes(T) /\ ~IsPacked(T) ->
            \/ T.elem.kind \in {"slice", "array"} /\ ~IsBytes(T.elem)
            \/ \E k \in DOMAIN v : Panics(T.elem, v[k], "none")
      [] T.kind = "ptr" -> IF v = <<>> THEN prefix = "req" ELSE Panics(T.elem, v[1], prefix)
      [] T.kind = "interface" -> FALSE
      [] T.kind = "map" -> \E e \in v :
            \/ T.elem.kind = "ptr" /\ e[2] = <<>>
            \/ T.elem.kind \in {"slice", "array"} /\ ~IsBytes(T.elem)
            \/ Panics(T.key, e[1], prefix) \/ Panics(T.elem, e[2], prefix)
      [] OTHER -> TRUE

TaggedLength(tag, b) == uvarint(Len(tag) + Len(b)) \o tag \o b

RECURSIVE encoderValue(_, _, _)

\* message: the fields in their order, blank ones left out.
encoderMessage(T, v) ==
    LET fs == ProtoFields(T) IN
    FoldLeft(LAMBDA b, k : IF fs[k].type.kind = "blank" THEN b
                           ELSE b \o encoderValue(fs[k].id, fs[k].type, v[k]),
             <<>>, [k \in 1..Len(fs) |-> k])

\* slice: numbers are packed into one item.
encoderPacked(id, T, v) ==
    Delimited(id, FoldLeft(LAMBDA b, x : b \o Number(T.elem.kind, x), <<>>, v))

\* sliceReflect: bytes are one item, everything else one item for each element.
sliceReflect(id, T, v) ==
    IF IsBytes(T) THEN Delimited(id, v)
    ELSE FoldLeft(LAMBDA b, x : b \o encoderValue(id, T.elem, x), <<>>, v)

handleMap(id, T, v) ==
    FoldLeft(LAMBDA b, e : b \o Delimited(id, encoderValue(1, T.key, e[1])
                                                \o encoderValue(2, T.elem, e[2])),
             <<>>, SetToSeq(v))

encoderValue(id, T, v) ==
    CASE T.kind \in Numbers -> Key(id, WireType(T.kind)) \o Number(T.kind, v)
      [] T.kind = "string" -> Delimited(id, v)
      [] T.kind = "struct" -> Delimited(id, encoderMessage(T, v))
      [] T.kind \in {"slice", "array"} ->
            IF IsPacked(T) THEN encoderPacked(id, T, v) ELSE sliceReflect(id, T, v)
      [] T.kind = "ptr" -> IF v = <<>> THEN <<>> ELSE encoderValue(id, T.elem, v[1])
      [] T.kind = "interface" ->
            IF v = <<>> THEN <<>>
            ELSE Key(id, 2) \o TaggedLength(IF v[1].id \in Generators THEN v[1].id ELSE <<>>,
                                            v[1].data)
      [] T.kind = "map" -> handleMap(id, T, v)

-----------------------------------------------------------------------------
(* decode.go *)

Good(v) == [ok |-> TRUE, v |-> v]
Bad == [ok |-> FALSE, v |-> 0]
Is(result, v) == result.ok /\ result.v = v

\* Goes on with the value of a result, unless it is an error.
Then(result, Next(_)) == IF result.ok THEN Next(result.v) ELSE Bad

\* The zero value of a type.
RECURSIVE Zero(_)
Zero(T) ==
    CASE T.kind \in Numbers \cup {"blank", "uint"} -> 0
      [] T.kind = "struct" -> [k \in DOMAIN ProtoFields(T) |-> Zero(ProtoFields(T)[k].type)]
      [] T.kind = "array" -> [k \in 1..T.len |-> IF IsBytes(T) THEN 0 ELSE Zero(T.elem)]
      [] T.kind = "map" -> {}
      [] OTHER -> <<>>

MaxVarintLen == (9 * ByteBits - 2) \div (ByteBits - 1)

\* binary.Uvarint: the number at the head of buf and its length, an error when there is none.
LittleEndian(buf, n, base) ==
    FoldLeft(LAMBDA x, k : x + (buf[k] % base) * base ^ (k - 1), 0, [k \in 1..n |-> k])
Read(n, v) == IF n > MaxVarintLen \/ v >= FixedWord THEN Bad ELSE Good([n |-> n, v |-> v])
Uvarint(buf) ==
    LET ends == {k \in 1..Len(buf) : buf[k] < Group} IN
    IF ends = {} THEN Bad ELSE LET n == Min(ends) IN Read(n, LittleEndian(buf, n, Group))

Fits(v, left) == v <= left

TakeBytes(s, n) == IF n < Len(s) THEN SubSeq(s, 1, n) ELSE s

\* The first half of value: the number or the bytes of an item, and what follows it.
Item(wiretype, buf) ==
    LET Ok(v, vb, skip) == Good([v |-> v, vb |-> vb, rem |-> SubSeq(buf, skip + 1, Len(buf))])
        Word(n) == IF Len(buf) < n THEN Bad ELSE Ok(LittleEndian(buf, n, Byte), <<>>, n)
        Sized(u) == IF ~Fits(u.v, Len(buf) - u.n) THEN Bad
                    ELSE Ok(u.v, TakeBytes(SubSeq(buf, u.n + 1, Len(buf)), u.v), u.n + u.v)
    IN CASE wiretype = 0 -> Then(Uvarint(buf), LAMBDA u : Ok(u.v, <<>>, u.n))
         [] wiretype = 1 -> Word(8)
         [] wiretype = 5 -> Word(4)
         [] wiretype = 2 -> Then(Uvarint(buf), Sized)
         [] OTHER -> Bad

\* The key before an item, and the item.
KeyedItem(buf) ==
    LET Keyed(key) == Then(Item(key.v % 8, SubSeq(buf, key.n + 1, Len(buf))), LAMBDA it : Good(
            [id |-> key.v \div 8, wiretype |-> key.v % 8,
             v |-> it.v, vb |-> it.vb, rem |-> it.rem]))
    IN Then(Uvarint(buf), Keyed)

\* The shift of a varint is arithmetic: it keeps the sign of the whole word.
decodeSignedInt(wiretype, v) ==
    CASE wiretype = 0 -> LET sv == AsSigned(v, FixedWord) \div 2 IN
                         Good(IF v % 2 # 0 THEN -sv - 1 ELSE sv)
      [] wiretype = 5 -> Good(AsSigned(v, Half))
      [] wiretype = 1 -> Good(AsSigned(v, FixedWord))
      [] OTHER -> Bad

\* The wire types accepted for a number.
CanHold(kind, wiretype, v) ==
    CASE kind = "bool" -> wiretype = 0 /\ v <= 1
      [] kind = "float32" -> wiretype = 5
      [] kind = "float64" -> wiretype = 1
      [] OTHER -> wiretype # 2

PutNumber(kind, wiretype, v) ==
    LET width == IF kind \in Narrow THEN Half ELSE FixedWord IN
    IF ~CanHold(kind, wiretype, v) THEN Bad
    ELSE IF kind \in Signed THEN Good(AsSigned(decodeSignedInt(wiretype, v).v, width))
    ELSE Good(v % width)

\* Where the search for the field with an id ends, from fieldi on.
Field(fs, fieldi, id) ==
    LET next == {k \in fieldi..Len(fs) : fs[k].id >= id} IN
    CHOOSE k \in next \cup {Len(fs) + 1} : \A j \in next : k <= j

Found(fs, k, id) == k <= Len(fs) /\ fs[k].id = id

PutInterface(cur, wiretype, vb) ==
    LET tags == {g \in Generators : Len(g) < Len(vb) /\ SubSeq(vb, 1, Len(g)) = g}
        tag == CHOOSE g \in tags : TRUE
    IN IF wiretype # 2 THEN Bad
       ELSE IF cur # <<>> THEN Good(<<[cur[1] EXCEPT !.data = vb]>>)
       ELSE IF tags = {} THEN Good(<<[id |-> <<>>, data |-> vb]>>)
       ELSE Good(<<[id |-> tag, data |-> SubSeq(vb, Len(tag) + 1, Len(vb))]>>)

RECURSIVE decoderMessage(_, _, _, _)
RECURSIVE putvalue(_, _, _, _, _)
RECURSIVE decoderPacked(_, _, _)
RECURSIVE MapItems(_, _, _)

decoderPacked(T, cur, vb) ==
    LET wiretype == WireType(T.elem.kind)
        Put(it) == Then(PutNumber(T.elem.kind, wiretype, it.v),
                        LAMBDA x : decoderPacked(T, Append(cur, x), it.rem))
    IN IF vb = <<>> THEN Good(cur)
       ELSE IF T.kind = "array" THEN Bad
       ELSE Then(Item(wiretype, vb), Put)

decoderSlice(T, cur, vb) ==
    IF IsPacked(T) THEN decoderPacked(T, cur, vb)
    ELSE IF IsBytes(T)
    THEN IF T.kind = "array" /\ T.len # Len(vb) THEN Bad ELSE Good(vb)
    ELSE IF T.kind = "array" THEN Bad
    ELSE Then(putvalue(2, T.elem, Zero(T.elem), 0, vb), LAMBDA x : Good(Append(cur, x)))

\* The items of a map entry: the first is the key, the others the value.
MapItems(types, got, buf) ==
    LET Rest(x, rem) ==
            IF Len(types) = 1 THEN IF rem = <<>> THEN Good(<<x>>) ELSE MapItems(types, <<x>>, rem)
            ELSE IF rem = <<>> THEN Good(<<x, got[2]>>)
            ELSE Then(MapItems(<<types[2]>>, <<got[2]>>, rem), LAMBDA y : Good(<<x, y[1]>>))
        Put(it) == Then(putvalue(it.wiretype, types[1], got[1], it.v, it.vb),
                       LAMBDA x : Rest(x, it.rem))
    IN Then(KeyedItem(buf), Put)

mapEntry(T, cur, vb) ==
    Then(MapItems(<<T.key, T.elem>>, <<Zero(T.key), Zero(T.elem)>>, vb),
         LAMBDA e : Good({f \in cur : f[1] # e[1]} \cup {e}))

putvalue(wiretype, T, cur, v, vb) ==
    CASE T.kind = "blank" -> Good(cur)
      [] T.kind \in Numbers -> PutNumber(T.kind, wiretype, v)
      [] T.kind = "string" -> IF wiretype # 2 THEN Bad ELSE Good(vb)
      [] T.kind = "struct" -> IF wiretype # 2 THEN Bad ELSE decoderMessage(T, vb, 1, cur)
      [] T.kind \in {"slice", "array"} -> IF wiretype # 2 THEN Bad ELSE decoderSlice(T, cur, vb)
      [] T.kind = "map" -> IF wiretype # 2 THEN Bad ELSE mapEntry(T, cur, vb)
      [] T.kind = "interface" -> PutInterface(cur, wiretype, vb)
      [] T.kind = "ptr" ->
            Then(putvalue(wiretype, T.elem, IF cur = <<>> THEN Zero(T.elem) ELSE cur[1], v, vb),
                 LAMBDA x : Good(<<x>>))

\* fieldi only moves forward; an item no field is found for is skipped.
decoderMessage(T, buf, fieldi, cur) ==
    LET fs == ProtoFields(T)
        PutField(k, it) == Then(putvalue(it.wiretype, fs[k].type, cur[k], it.v, it.vb),
                                LAMBDA x : decoderMessage(T, it.rem, k, [cur EXCEPT ![k] = x]))
        Put(k, it) == IF Found(fs, k, it.id) THEN PutField(k, it)
                      ELSE decoderMessage(T, it.rem, k, cur)
    IN IF buf = <<>> THEN Good(cur)
       ELSE Then(KeyedItem(buf), LAMBDA it : Put(Field(fs, fieldi, it.id), it))

Encode(T, v) == IF Panics(T, v, "none") THEN Bad ELSE Good(encoderMessage(T, v))
DecodeFields(T, buf) == IF IDReused(T) THEN Bad ELSE decoderMessage(T, buf, 1, Zero(T))

-----------------------------------------------------------------------------
(* network/encoding.go: the type of a message goes before its encoding.  known says *)
(* which ends have registered the type.                                             *)

ErrorType == [type |-> "error", body |-> Bad]

\* Marshal
Marshal(known, T, v) ==
    IF "sender" \notin known THEN ErrorType ELSE [type |-> "registered", body |-> Encode(T, v)]

\* Unmarshal
Unmarshal(known, T, sent) ==
    IF "receiver" \notin known THEN Bad ELSE DecodeFields(T, sent.body.v)

-----------------------------------------------------------------------------
\* The types the package can carry: ids rise, a slice holds numbers or what is encoded
\* with a length, an array holds bytes, and a pointer points to no pointer or slice of items.
RECURSIVE Supported(_)
Supported(T) ==
    CASE T.kind \in Numbers \cup {"string"} \/ IsBytes(T) -> TRUE
      [] T.kind = "struct" ->
            LET fs == ProtoFields(T) IN
            /\ \A i, j \in DOMAIN fs : i < j => fs[i].id < fs[j].id
            /\ \A k \in DOMAIN fs : fs[k].type.kind = "blank" \/ Supported(fs[k].type)
      [] T.kind = "slice" -> \/ IsPacked(T)
                             \/ /\ T.elem.kind \notin {"slice", "array", "map", "time"}
                                /\ T.elem.kind = "ptr" => T.elem.elem.kind \notin Numbers
                                /\ Supported(T.elem)
                             \/ IsBytes(T.elem)
      [] T.kind = "ptr" -> T.elem.kind \in Numbers \cup {"string", "struct"} /\ Supported(T.elem)
      [] T.kind = "map" -> T.elem.kind # "map" /\ Supported(T.key) /\ Supported(T.elem)
      [] OTHER -> T.kind = "interface"

\* The values that are carried as they are: a signed number has two bits to spare, no
\* element of a slice is nil, and an implementation is registered and has some data, or
\* has neither an id nor data that looks like one.
RECURSIVE Kept(_, _)
Kept(T, v) ==
    CASE T.kind = "int64" -> -(FixedWord \div 4) <= v /\ v < FixedWord \div 4
      [] T.kind = "struct" -> \A k \in DOMAIN v : Kept(ProtoFields(T)[k].type, v[k])
      [] T.kind = "slice" -> \A k \in DOMAIN v :
            Kept(T.elem, v[k]) /\ (T.elem.kind \in {"ptr", "interface"} => v[k] # <<>>)
      [] T.kind = "ptr" -> v # <<>> => Kept(T.elem, v[1])
      [] T.kind = "map" -> \A e \in v : Kept(T.key, e[1]) /\ Kept(T.elem, e[2])
      [] T.kind = "interface" -> v # <<>> =>
            IF v[1].id # <<>> THEN v[1].id \in Generators /\ v[1].data # <<>>
            ELSE \A g \in Generators : ~IsStrictPrefix(g, v[1].data)
      [] T.kind = "blank" -> v = 0
      [] OTHER -> TRUE

Asked == coded # NoMessage /\ Supported(coded.T) /\ ~Panics(coded.T, coded.v, "none")

(* What a registered message carries arrives: decoding gives back the value that was  *)
(* encoded, of every kind, width and nesting, exactly when it is one that is Kept; a  *)
(* type that an end has not registered is an error there and nothing else.            *)
RoundTrip == Asked =>
    LET sent == Marshal(coded.known, coded.T, coded.v)
        got == Unmarshal(coded.known, coded.T, sent) IN
    IF coded.known = {"sender", "receiver"} THEN Is(got, coded.v) <=> Kept(coded.T, coded.v)
    ELSE sent.type = ErrorType.type \/ ~got.ok

\* The same struct with only the fields of S, which keep their ids.
Version(T, S) ==
    LET fs == ProtoFields(T)
        ks == SelectSeq([k \in 1..Len(fs) |-> k], LAMBDA k : k \in S) IN
    [kind |-> "struct",
     fields |-> [i \in 1..Len(ks) |-> [tag |-> fs[ks[i]].id, anon |-> FALSE,
                                       prefix |-> fs[ks[i]].prefix, type |-> fs[ks[i]].type]]]
Fields(v, S) == LET ks == SelectSeq([k \in 1..Len(v) |-> k], LAMBDA k : k \in S) IN
                [i \in 1..Len(ks) |-> v[ks[i]]]

(* Two versions of a program understand each other: fields the receiver does not have *)
(* are skipped, and fields the sender does not have are left at zero.                 *)
OtherVersion == Asked /\ Kept(coded.T, coded.v) =>
    \A S \in SUBSET DOMAIN coded.v :
        LET T == Version(coded.T, S)
            v == Fields(coded.v, S) IN
        /\ Is(DecodeFields(T, Encode(coded.T, coded.v).v), v)
        /\ Encode(T, v).ok => Is(DecodeFields(coded.T, Encode(T, v).v),
            [k \in DOMAIN coded.v |-> IF k \in S THEN coded.v[k]
                                      ELSE Zero(ProtoFields(coded.T)[k].type)])

\* Whether w is v, or less of it: no value, or some of its items.
Less(T, w, v) ==
    \/ w = v
    \/ w = Zero(T)
    \/ T.kind = "slice" /\ ~IsBytes(T) /\ ~IsPacked(T) /\ IsPrefix(w, v)
    \/ T.kind = "map" /\ w \subseteq v

(* A message that is cut short is refused, or read up to its last whole item: no     *)
(* field gets a value that was not sent.                                             *)
CutKeepsWhole == Asked /\ Kept(coded.T, coded.v) =>
    LET b == Encode(coded.T, coded.v).v IN
    \A n \in 0..Len(b) :
        LET d == DecodeFields(coded.T, SubSeq(b, 1, n)) IN
        d.ok => \A k \in DOMAIN coded.v : Less(ProtoFields(coded.T)[k].type, d.v[k], coded.v[k])

(* A message arrives as it was sent, also at a receiver of another version, and no     *)
(* value that was not sent is read from a message that was cut.                        *)
MessagesTravel == RoundTrip /\ OtherVersion /\ CutKeepsWhole

=============================================================================
