------------------------------ MODULE AbiLayout ------------------------------
(***************************************************************************)
(* How values of compound types are laid out: as a row of core WebAssembly *)
(* values (star_to_core_types, the constructors and the demotion of the    *)
(* fields of a matched variant in lib.rs) and in memory, for results that  *)
(* do not fit into one core value (component_abi.rs).                      *)
(*                                                                         *)
(* A value is [n, items]: a number, or the items of a tuple or a struct,   *)
(* or the (0-based) variant n of an enum with its fields.                  *)
(***************************************************************************)
EXTENDS Wasm

Datum(n, items) == [n |-> n, items |-> items]

-----------------------------------------------------------------------------
(* Core types                                                              *)

join(a, b) == IF a = b THEN a ELSE "i64"

\* Slot by slot, the wider of two rows.
Joined(a, b) == [j \in 1 .. Max({Len(a), Len(b)}) |-> IF j > Len(a) THEN b[j] ELSE IF j > Len(b) THEN a[j] ELSE join(a[j], b[j])]

RECURSIVE star_to_core_types(_), star_count_core_types(_)
star_to_core_types(t) ==
    LET flat(types) == FlattenSeq([j \in DOMAIN types |-> star_to_core_types(types[j])])
    IN  CASE t.k = "Unit" -> <<>>
          [] t.k = "Int" -> IF is_64bit(t.tag[1].name) THEN <<"i64">> ELSE <<"i32">>
          [] t.k \in {"Bool", "Utxo", "UtxoAny", "Token"} -> <<"i32">>
          [] t.k \in {"Tuple", "Record"} -> flat(t.args)
          [] t.k = "Enum" -> <<"i32">> \o FoldLeft(LAMBDA acc, i : Joined(acc, flat(FieldTypes(t, i))), <<>>, [i \in DOMAIN t.tag |-> i])
star_count_core_types(t) ==
    LET sum(types) == FoldLeft(LAMBDA n, u : n + star_count_core_types(u), 0, types)
    IN  CASE t.k = "Unit" -> 0
          [] t.k \in {"Int", "Bool", "Utxo", "UtxoAny", "Token", "Abi"} -> 1
          [] t.k \in {"Tuple", "Record"} -> sum(t.args)
          [] t.k = "Enum" -> 1 + Max({0} \cup {sum(FieldTypes(t, i)) : i \in DOMAIN t.tag})

\* i32 slots are extended without sign where the variants share an i64.
enum_promote(words, from, to) == [j \in DOMAIN words |-> IF from[j] = "i32" /\ to[j] = "i64" THEN words[j] % Word ELSE words[j]]

\* The discriminant, the fields and 0 in the slots that are left.
RECURSIVE Words(_, _)
Construct(t, v) ==
    LET dest == Tail(star_to_core_types(t))
        types == FieldTypes(t, v.n + 1)
        field(row, j) ==
            LET from == star_to_core_types(types[j])
            IN  row \o enum_promote(Words(types[j], v.items[j]), from, SubSeq(dest, Len(row) + 1, Len(row) + Len(from)))
        row == FoldLeft(field, <<>>, [j \in DOMAIN types |-> j])
    IN  <<v.n>> \o row \o Zeros(Len(dest) - Len(row))
Words(t, v) ==
    CASE t.k = "Unit" -> <<>>
      [] t.k \in {"Tuple", "Record"} -> FlattenSeq([j \in DOMAIN t.args |-> Words(t.args[j], v.items[j])])
      [] t.k = "Enum" -> Construct(t, v)
      [] OTHER -> <<v.n>>

\* Mutant: the upper half of a shared slot is kept.
Demoted_NoWrap(from, to, w) == w

Demoted(from, to, w) == IF from = "i64" /\ to = "i32" THEN Wrap(w) ELSE w

\* The fields of variant i, read from the joined slots.
demote_enum_fields(t, i, words) ==
    LET types == FieldTypes(t, i)
        core == star_to_core_types(t)
        field(acc, u) ==
            LET to == star_to_core_types(u)
                word(j) == LET at == acc.offset + j IN Demoted(core[at], to[j], words[at])
            IN  [offset |-> acc.offset + Len(to), fields |-> Append(acc.fields, [j \in DOMAIN to |-> word(j)])]
    IN  FoldLeft(field, [offset |-> 1, fields |-> <<>>], types).fields

\* Field access drops what comes after the field, then what comes before it,
\* unless the field has no slots.
VisitField(t, i, words) ==
    LET offset == FoldLeft(LAMBDA n, u : n + star_count_core_types(u), 0, SubSeq(t.args, 1, i - 1))
        n == Len(star_to_core_types(t.args[i]))
    IN  IF offset # 0 /\ n # 0 THEN SubSeq(words, offset + 1, offset + n) ELSE SubSeq(words, 1, offset + n)

-----------------------------------------------------------------------------
(* Memory (component_abi.rs).  items are optional: a variant's case may     *)
(* have no payload.                                                        *)

Abi(k, items) == [k |-> k, items |-> items]

RECURSIVE star_to_component_type(_)
star_to_component_type(t) ==
    LET some(types) == SelectSeq([j \in DOMAIN types |-> star_to_component_type(types[j])], LAMBDA c : c # <<>>)
        payload(i) == IF some(FieldTypes(t, i)) = <<>> THEN <<>> ELSE <<Abi("tuple", some(FieldTypes(t, i)))>>
    IN  CASE t.k = "Unit" -> <<>>
          [] t.k = "Int" -> <<Abi(t.tag[1].name, <<>>)>>
          [] t.k = "Bool" -> <<Abi("bool", <<>>)>>
          [] t.k = "Tuple" -> IF some(t.args) = <<>> THEN <<>> ELSE <<Abi("tuple", some(t.args))>>
          [] t.k = "Record" -> <<Abi("record", some(t.args))>>
          [] t.k = "Enum" -> <<Abi("variant", [i \in DOMAIN t.tag |-> payload(i)])>>
          [] OTHER -> <<Abi("own", <<>>)>>

\* Bound: at most 255 cases, so the discriminant is an u8.
discriminant_type == Abi("u8", <<>>)
next_multiple_of(n, a) == ((n + a - 1) \div a) * a

RECURSIVE alignment(_), elem_size(_)
max_case_alignment(items) == Max({1} \cup {alignment(items[j][1]) : j \in {i \in DOMAIN items : items[i] # <<>>}})
alignment(c) ==
    CASE c.k \in {"bool", "u8", "i8"} -> 1
      [] c.k \in {"i64", "u64"} -> 8
      [] c.k = "own" -> 4
      [] c.k \in {"tuple", "record"} -> max_case_alignment(c.items)
      [] c.k = "variant" -> Max({alignment(discriminant_type), max_case_alignment(c.items)})

Field(c, o) == next_multiple_of(o, alignment(c))
elem_size_record(items) ==
    next_multiple_of(FoldLeft(LAMBDA o, c : Field(c[1], o) + elem_size(c[1]), 0, items), max_case_alignment(items))
elem_size_variant(items) ==
    LET payload == Max({0} \cup {elem_size(items[j][1]) : j \in {i \in DOMAIN items : items[i] # <<>>}})
    IN  next_multiple_of(next_multiple_of(elem_size(discriminant_type), max_case_alignment(items)) + payload,
                         alignment(Abi("variant", items)))
elem_size(c) ==
    CASE c.k \in {"bool", "u8", "i8"} -> 1
      [] c.k \in {"i64", "u64"} -> 8
      [] c.k = "own" -> 4
      [] c.k \in {"tuple", "record"} -> elem_size_record(c.items)
      [] c.k = "variant" -> elem_size_variant(c.items)

RECURSIVE component_to_core_types(_)
component_to_core_types(c) ==
    CASE c.k \in {"bool", "u8", "i8", "own"} -> <<"i32">>
      [] c.k \in {"i64", "u64"} -> <<"i64">>
      [] c.k \in {"tuple", "record"} -> FlattenSeq([j \in DOMAIN c.items |-> component_to_core_types(c.items[j][1])])
      [] c.k = "variant" ->
            <<"i32">> \o FoldLeft(LAMBDA acc, case : IF case = <<>> THEN acc ELSE Joined(acc, component_to_core_types(case[1])), <<>>, c.items)

\* What is stored where.  A handle is stored with 16 bits.
RECURSIVE get_store_fns(_, _)
get_store_fns(c, offset) ==
    CASE c.k \in {"bool", "u8", "i8"} -> <<[offset |-> offset, width |-> 1, of |-> c]>>
      [] c.k = "own" -> <<[offset |-> offset, width |-> 2, of |-> c]>>
      [] c.k \in {"i64", "u64"} -> <<[offset |-> offset, width |-> 8, of |-> c]>>
      [] c.k \in {"tuple", "record"} ->
            FoldLeft(LAMBDA acc, item :
                        LET o == Field(item[1], acc.o)
                        IN  [o |-> o + elem_size(item[1]), out |-> acc.out \o get_store_fns(item[1], offset + o)],
                     [o |-> 0, out |-> <<>>], c.items).out

\* get_store_fns is not implemented for variants.
RECURSIVE Storable(_)
Storable(c) == c.k # "variant" /\ \A j \in DOMAIN c.items : Storable(c.items[j][1])
=============================================================================
