--------------------------------- MODULE Amf ---------------------------------
(***************************************************************************)
(* AmfOp and AmfObjectItemMap: the AMF0 coding of numbers, booleans,       *)
(* strings, objects and ECMA arrays as bytes.  A byte is a number below    *)
(* Base (256 in the code), so that a length of two bytes, and the length   *)
(* from which a string is a long one, can be reached.                      *)
(*                                                                         *)
(* A decoder is given the bytes that are valid.  It fails, or returns what *)
(* it read and how far it went, which is what the code goes on from (the   *)
(* used_len it also reports is one or five bytes short for an object and   *)
(* an ECMA array, and only loosens the next decoder's bound).              *)
(***************************************************************************)
EXTENDS Naturals, Sequences, SequencesExt

CONSTANT Base

ASSUME AmfAssumption == Base \in Nat /\ Base > 20

\* Amf0DataType and Amf0ObjectValueType
NUMBER == 0
BOOLEANTYPE == 1
STRINGTYPE == 2
OBJECT == 3
NULL == 5
ECMA_ARRAY == 8
OBJECT_END == 9
LONG_STRING == 12

\* A string is a long one from this length on: 65536.
LongLen == Base * Base

-----------------------------------------------------------------------------
(* Encoding *)

Low(v) == v % Base

encode_int16(v) == <<Low(v \div Base), Low(v)>>
encode_int24(v) == <<Low(v \div (Base * Base))>> \o encode_int16(v)
encode_int32(v) == <<Low(v \div (Base * Base * Base))>> \o encode_int24(v)
encode_int32_le(v) == Reverse(encode_int32(v))

\* d is a double as it lies in memory: eight bytes, the most significant last.
encode_number(d) == <<NUMBER>> \o Reverse(d)

encode_boolean(b) == <<BOOLEANTYPE, IF b THEN 1 ELSE 0>>

encode_string(s) ==
    IF Len(s) < LongLen THEN <<STRINGTYPE>> \o encode_int16(Len(s)) \o s
    ELSE <<LONG_STRING>> \o encode_int32(Len(s)) \o s

encode_null == <<NULL>>

\* A property's value, as a type and the data of that type.
Value(type, data) == [type |-> type, data |-> data]

Item(name, value) == [name |-> name, value |-> value]

encode_value(v) ==
    CASE v.type = NUMBER      -> encode_number(v.data)
      [] v.type = BOOLEANTYPE -> encode_boolean(v.data = <<1>>)
      [] v.type = STRINGTYPE  -> encode_string(v.data)

\* encode_object_named_*: the name and the encoded value.
encode_object_named(item) ==
    encode_int16(Len(item.name)) \o item.name \o encode_value(item.value)

\* One after the other.
encode_items(items) == FlattenSeq([i \in DOMAIN items |-> encode_object_named(items[i])])

encode_object_begin == <<OBJECT>>
encode_object_end == encode_int24(OBJECT_END)
encode_ecma_array_begin(n) == <<ECMA_ARRAY>> \o encode_int32(n)
encode_ecma_array_end == encode_object_end

encode_object(items) == encode_object_begin \o encode_items(items) \o encode_object_end
encode_ecma_array(items) ==
    encode_ecma_array_begin(Len(items)) \o encode_items(items) \o encode_ecma_array_end

encode_string_reserve(len) == IF len < LongLen THEN len + 3 ELSE len + 5
encode_object_named_string_reserve(name, len) == 2 + name + encode_string_reserve(len)

-----------------------------------------------------------------------------
(* Decoding *)

Failed == [ok |-> FALSE]
Decoded(value, n) == [ok |-> TRUE, value |-> value, next |-> n]

\* What follows the first n bytes.
Rest(in, n) == SubSeq(in, n + 1, Len(in))

decode_boolean_with_type(in) ==
    IF Len(in) < 2 \/ in[1] # BOOLEANTYPE THEN Failed
    ELSE Decoded(Value(BOOLEANTYPE, <<IF in[2] = 1 THEN 1 ELSE 0>>), 2)

decode_number_with_type(in) ==
    IF Len(in) < 9 \/ in[1] # NUMBER THEN Failed
    ELSE Decoded(Value(NUMBER, Reverse(SubSeq(in, 2, 9))), 9)

decode_int24(in) ==
    IF Len(in) < 3 THEN Failed
    ELSE Decoded((in[1] * Base + in[2]) * Base + in[3], 3)

decode_int32(in) ==
    IF Len(in) < 4 THEN Failed
    ELSE Decoded(((in[1] * Base + in[2]) * Base + in[3]) * Base + in[4], 4)

\* Mutant: a string may not end where the message does.
decode_string_not_last(in) ==
    IF Len(in) < 2 THEN Failed
    ELSE LET n == in[1] * Base + in[2] IN
         IF n >= Len(in) - 2 THEN Failed
         ELSE Decoded(Value(STRINGTYPE, SubSeq(in, 3, n + 2)), n + 2)

decode_string(in) ==
    IF Len(in) < 2 THEN Failed
    ELSE LET n == in[1] * Base + in[2] IN
         IF n > Len(in) - 2 THEN Failed
         ELSE Decoded(Value(STRINGTYPE, SubSeq(in, 3, n + 2)), n + 2)

\* Long strings are not decoded.
decode_string_with_type(in) ==
    IF Len(in) < 3 \/ in[1] # STRINGTYPE THEN Failed
    ELSE LET s == decode_string(Rest(in, 1)) IN
         IF ~s.ok THEN Failed ELSE Decoded(s.value, s.next + 1)

Has(objs, name) == \E i \in DOMAIN objs : objs[i].name = name

Place(objs, name) == CHOOSE i \in DOMAIN objs : objs[i].name = name

get(objs, name) == objs[Place(objs, name)].value

\* AmfObjectItemMap is its list, in the order of the last put.  Mutant: the first
\* value stays.
put_keeps_first(objs, item) ==
    IF Has(objs, item.name) THEN objs ELSE Append(objs, item)

put(objs, item) ==
    LET others == IF Has(objs, item.name) THEN RemoveAt(objs, Place(objs, item.name))
                  ELSE objs
    IN  Append(others, item)

\* items, put into an empty map one after the other.
PutAll(items) ==
    LET objs[k \in 0 .. Len(items)] == IF k = 0 THEN <<>> ELSE put(objs[k - 1], items[k])
    IN  objs[Len(items)]

\* The value of a property, by its type byte.
decode_value(in) ==
    LET tries == {decode_number_with_type(in), decode_boolean_with_type(in),
                  decode_string_with_type(in)}
    IN  IF \E t \in tries : t.ok THEN CHOOSE t \in tries : t.ok ELSE Failed

\* A property: a name and a value.
decode_item(in) ==
    LET name == decode_string(in)
        value == IF name.ok THEN decode_value(Rest(in, name.next)) ELSE Failed
    IN  IF value.ok THEN Decoded(Item(name.value.data, value.value), name.next + value.next)
        ELSE Failed

EndsAt(in, at) == at + 3 <= Len(in) /\ SubSeq(in, at + 1, at + 3) = <<0, 0, OBJECT_END>>

\* The places a loop comes by that starts at from and goes on from at to next[at], as
\* long as it advances and stays within next.
Trail(next, from) ==
    LET trail[at \in DOMAIN next] ==
            IF next[at] \in DOMAIN next /\ next[at] > at THEN <<at>> \o trail[next[at]]
            ELSE <<at>>
    IN  trail[from]

\* Where the loop over properties goes on from each place.
ItemSteps(in) ==
    [at \in 0 .. Len(in) |->
        LET item == decode_item(Rest(in, at)) IN
        IF EndsAt(in, at) \/ ~item.ok THEN at ELSE at + item.next]

decode_object_or_ecma_array(in) ==
    LET stops == Trail(ItemSteps(in), 0)
        items == [i \in 1 .. Len(stops) - 1 |-> decode_item(Rest(in, stops[i])).value]
    IN  IF EndsAt(in, Last(stops)) THEN Decoded(PutAll(items), Last(stops) + 3) ELSE Failed

\* n bytes come before the properties.
After(n, items) == IF items.ok THEN Decoded(items.value, n + items.next) ELSE Failed

decode_object(in) ==
    IF in = <<>> \/ Head(in) # OBJECT THEN Failed
    ELSE After(1, decode_object_or_ecma_array(Rest(in, 1)))

\* The announced number of properties is not used.
decode_ecma_array(in) ==
    IF in = <<>> \/ Head(in) # ECMA_ARRAY \/ ~decode_int32(Rest(in, 1)).ok THEN Failed
    ELSE After(5, decode_object_or_ecma_array(Rest(in, 5)))
=============================================================================
