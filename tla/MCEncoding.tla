----------------------------- MODULE MCEncoding -----------------------------
(***************************************************************************)
(* Messages for Protobuf: structs of two fields with, in one of them,      *)
(* every kind of number at the edges of its width, and strings, slices,    *)
(* arrays, pointers, maps, interfaces and structs, with and without tags,  *)
(* with tags that fall or are used twice, required, and embedded.          *)
(***************************************************************************)
EXTENDS Protobuf

MCGenerators == {<<1, 2>>}

K(kind) == [kind |-> kind]
Of(kind, elem) == [kind |-> kind, elem |-> elem]
ByteT == K("byte")
Bytes == Of("slice", ByteT)
Array2 == [kind |-> "array", elem |-> ByteT, len |-> 2]
F(type) == [tag |-> 0, anon |-> FALSE, prefix |-> "none", type |-> type]
Struct(fields) == [kind |-> "struct", fields |-> fields]
Inner == Struct(<<F(K("uint32")), F(Bytes)>>)
MapOf(key, elem) == [kind |-> "map", key |-> key, elem |-> elem]

PlainTypes == {K(k) : k \in Numbers \cup {"string", "interface", "blank", "uint"}}
            \cup {Bytes, Array2, Inner}
NestedTypes == {Of("slice", T) : T \in {K("bool"), K("int32"), K("int64"), K("float32"), K("ufixed64"), K("time"),
                K("string"), K("interface"), Bytes, Inner, Of("ptr", Inner), Of("ptr", K("int64"))}}
       \cup {Of("ptr", T) : T \in {K("int64"), K("string"), Inner, K("time")}}
       \cup {MapOf(K("string"), T) : T \in {K("int64"), Bytes, Inner, Of("ptr", Inner)}}
       \cup {[kind |-> "array", elem |-> K("uint32"), len |-> 1]}

RECURSIVE Sample(_)
Sample(T) ==
  CASE T.kind = "bool" -> {0,1}
    [] T.kind \in Numbers \ {"bool"} ->
        LET w == IF T.kind \in Narrow THEN Half ELSE FixedWord IN
        IF T.kind \in Signed THEN {0, 1, -1, -(w \div 2), w \div 2 - 1, w \div 4 - 1, -(w \div 4)}
        ELSE {0, 1, Group, Byte, w-1}
    [] T.kind \in {"string"} \/ T = Bytes -> {<<>>, <<0>>, <<7, 1, 2>>}
    [] T = Array2 -> {<<5, 0>>}
    [] T.kind = "struct" -> {<<x, y>> : x \in {0, 5}, y \in {<<>>, <<7, 1>>}}
    [] T.kind = "array" /\ T # Array2 -> {<<3>>}
    [] T.kind = "slice" /\ T # Bytes -> {<<>>} \cup {<<x>> : x \in Sample(T.elem)} \cup {<<x, CHOOSE y \in Sample(T.elem) : TRUE>> : x \in Sample(T.elem)}
    [] T.kind = "ptr" -> {<<>>} \cup {<<x>> : x \in Sample(T.elem)}
    [] T.kind = "interface" -> {<<>>} \cup {<<[id |-> g, data |-> d]>> : g \in {<<>>, <<1,2>>, <<3, 3>>}, d \in {<<>>, <<4>>, <<1, 2, 3>>}}
    [] T.kind = "map" -> {{}} \cup {{<<<<1>>, x>>} : x \in Sample(T.elem)} \cup {{<<<<1>>, x>>, <<<<>>, x>>} : x \in Sample(T.elem)}
    [] OTHER -> {0}


Structs(T, U) ==
   {Struct(<<F(T), F(U)>>),
    Struct(<<[F(T) EXCEPT !.tag = 4], F(U)>>),
    Struct(<<[F(T) EXCEPT !.tag = 4], [F(U) EXCEPT !.tag = 2]>>),
    Struct(<<[F(T) EXCEPT !.prefix = "req"], [F(U) EXCEPT !.tag = 1]>>),
    Struct(<<[tag |-> 0, anon |-> TRUE, prefix |-> "none", type |-> Struct(<<F(T)>>)], F(U)>>)}
BothEnds == {"sender", "receiver"}
Messages == UNION {{[kind |-> "asked", T |-> S, v |-> <<x, y>>, known |-> BothEnds] :
                    S \in Structs(T, K("int32")), x \in Sample(T), y \in {-1}}
                 \cup {[kind |-> "asked", T |-> Struct(<<F(Of("slice", Inner)), F(T)>>), v |-> <<y, x>>, known |-> kn] :
                    x \in Sample(T), y \in {<< <<5, <<>>>>, <<0, <<7, 1>>>> >>},
                    kn \in {BothEnds} \cup IF T = Inner THEN {{}, {"sender"}} ELSE {}} :
                T \in PlainTypes \cup NestedTypes}

=============================================================================
