------------------------------- MODULE Fields -------------------------------
(***************************************************************************)
(* Field constructors and Field.AddTo.  A field squeezes every scalar into *)
(* one int64, and keeps slices, marshalers and reflected values by         *)
(* reference until an encoder asks for them; the program may write to them *)
(* in between.  A value is of a type, and given by value, by pointer or in *)
(* a slice; mem is the memory the pointer, slice or value names.           *)
(***************************************************************************)
EXTENDS Integers, Sequences

Seqs == INSTANCE SequencesExt   \* TLC, which it extends, has an Any of its own

CONSTANTS
  Word,    \* width of int64; the narrower types have 1/2, 1/4, 1/8 of it
  Nil

VARIABLES
  pc,     \* "construct", "held", "added"
  val,    \* what the program passes: its type and shape; for one of its own types, the
          \* interfaces it implements and how their methods fare
  mem,    \* contents of the memory it names
  given,  \* mem when the constructor was called
  field,  \* the field made of it
  out     \* what AddTo calls on the encoder

vars == <<pc, val, mem, given, field, out>>
-----------------------------------------------------------------------------
Signed == {"int", "int64", "int32", "int16", "int8", "duration"}
Unsigned == {"uint", "uint64", "uint32", "uint16", "uint8", "uintptr"}
Floats == {"float64", "float32"}
Boxed == {"complex128", "complex64"}
Concrete == Signed \cup Unsigned \cup Floats \cup Boxed \cup {"bool", "string", "time"}

Width(t) ==
  CASE t \in {"int32", "uint32", "float32"} -> Word \div 2
    [] t \in {"int16", "uint16"} -> Word \div 4
    [] t \in {"int8", "uint8"} -> Word \div 8
    [] OTHER -> Word

\* Go's integer conversion: the low bits, read in two's complement when signed.
Cast(n, w, signed) ==
  LET low == n % 2^w IN IF signed /\ low >= 2^(w - 1) THEN low - 2^w ELSE low

\* Field types; int and uint share those of the 64-bit types.
FieldType(t) == CASE t = "int" -> "int64" [] t = "uint" -> "uint64" [] OTHER -> t

Field(type, integer, interface) ==
  [Type |-> type, Integer |-> integer, Interface |-> interface]

\* A field that refers to the program's value rather than copying it; of: the type of its
\* elements; how: whether its methods work.
Ref(type, of, how) == Field(type, 0, [of |-> of, how |-> how])

nilField == Field("reflect", 0, Nil)

Bool(v) == Field("bool", IF v THEN 1 ELSE 0, Nil)

\* Mutant of Time: no range check, the nanoseconds wrap.
TimeWraps(v) == Field("time", Cast(v.nanos, Word, TRUE), v.loc)

Time(v) ==
  IF v.nanos < -(2^(Word - 1)) \/ v.nanos > 2^(Word - 1) - 1
  THEN Field("timefull", 0, v)
  ELSE Field("time", v.nanos, v.loc)

\* The constructors of one value of a concrete type.  A float is its bits.
Scalar(t, v) ==
  CASE t = "bool" -> Bool(v)
    [] t = "time" -> Time(v)
    [] t \in Boxed \cup {"string"} -> Field(t, 0, v)
    [] OTHER -> Field(FieldType(t), Cast(v, Word, TRUE), Nil)

\* Boolp, Intp, ... Durationp: the value now, or nil.
Pointer(t, m) == IF m = << >> THEN nilField ELSE Scalar(t, m[1])

\* Bools, Ints, ... Uintptrs: Array of a type that keeps the slice; so does dictField,
\* whose elements are fields.
Slice(t) == Ref(IF t = "field" THEN "object" ELSE "array", t, "ok")

Binary == Ref("binary", "uint8", "ok")

\* The constructor for a value of a type the library knows.
Typed(v, m) ==
  CASE v.shape = "value" -> Scalar(v.type, m[1])
    [] v.shape = "pointer" -> Pointer(v.type, m)
    [] v.shape = "slice" -> Slice(v.type)

\* The interfaces a value implements: those of the program's own type; String for
\* Duration and Time, and pointers to them.
Implements(v) ==
  IF v.shape = "own" THEN v.does
  ELSE IF v.shape # "slice" /\ v.type \in {"duration", "time"} THEN {"stringer"} ELSE {}

\* Any's type switch, in its order.
Any(v, m) ==
  IF "object" \in Implements(v) THEN Ref("object", "own", v.how)
  ELSE IF "array" \in Implements(v) THEN Ref("array", "own", v.how)
  ELSE IF v.shape = "slice" /\ v.type = "uint8" THEN Binary
  ELSE IF v.shape \in {"value", "pointer", "slice"} THEN Typed(v, m)
  ELSE IF "error" \in Implements(v) THEN Ref("error", "own", v.how)
  ELSE IF "stringer" \in Implements(v) THEN Ref("stringer", "own", v.how)
  ELSE IF v.shape = "nil" THEN nilField ELSE Ref("reflect", "own", "ok")
-----------------------------------------------------------------------------
Call(method, v) == [method |-> method, value |-> v]

\* Field.AddTo: the scalars.
AddScalar(f) ==
  CASE f.Type = "bool" -> Call("bool", f.Integer = 1)
    [] f.Type = "time" -> Call("time", [nanos |-> f.Integer, loc |-> f.Interface])
    [] f.Type = "timefull" -> Call("time", f.Interface)
    [] f.Type \in Signed -> Call(f.Type, Cast(f.Integer, Width(f.Type), TRUE))
    [] f.Type \in Unsigned \cup Floats -> Call(f.Type, Cast(f.Integer, Width(f.Type), FALSE))
    [] OTHER -> Call(f.Type, f.Interface)

\* The loops of the array types of array.go: an Append call of the element's own type for
\* each element.  They do not fail.
MarshalLogArray(f, m) ==
  Call("array", Seqs!FoldLeft(LAMBDA calls, v : Append(calls, Call(f.Interface.of, v)), << >>, m))

\* The loop of dictObject, one AddTo for each field.
MarshalLogObject(f, m) ==
  Call("object", Seqs!FoldLeft(LAMBDA calls, v : Append(calls, Call(f.Interface.of, v)), << >>, m))

\* encodeStringer and encodeError recover a panic, and call it nil if the receiver is a
\* nil pointer.
AddText(f, m) ==
  CASE f.Interface.how = "ok" -> <<Call("string", m)>>
    [] f.Interface.how = "nilptr" -> <<Call("string", "<nil>")>>
    [] f.Interface.how = "panics" -> <<Call("keyError", "PANIC")>>

\* Field.AddTo: the calls made, the report of an error included.
AddTo(f, m) ==
  CASE f.Type \in {"stringer", "error"} -> AddText(f, m)
    [] f.Type \in {"array", "object"} ->
         <<IF f.Type = "array" THEN MarshalLogArray(f, m) ELSE MarshalLogObject(f, m)>>
           \o (IF f.Interface.how = "fails" THEN <<Call("keyError", "err")>> ELSE << >>)
    [] f.Type = "reflect" -> <<Call("reflect", IF f.Interface = Nil THEN Nil ELSE m)>>
    [] f.Type = "binary" -> <<Call("binary", m)>>
    [] OTHER -> <<AddScalar(f)>>
-----------------------------------------------------------------------------
\* Values of a type, at the ends of its range.
Edges(t) ==
  CASE t \in Signed -> {-(2^(Width(t) - 1)), -1, 0, 2^(Width(t) - 1) - 1}
    [] t \in Unsigned \cup Floats -> {0, 1, 2^(Width(t) - 1), 2^Width(t) - 1}
    [] t = "bool" -> BOOLEAN
    [] t = "time" -> [nanos : {-(2^(Word - 1)) - 1, -(2^(Word - 1)), 0, 2^(Word - 1) - 1, 2^(Word - 1)},
                      loc : {"UTC", "Local"}]
    [] OTHER -> {t}

Memories(shape, t) ==
  CASE shape = "value" -> {<<v>> : v \in Edges(t)}
    [] shape = "pointer" -> {<< >>} \cup {<<v>> : v \in Edges(t)}
    [] shape = "slice" -> Seqs!BoundedSeq(Edges(t), 2)
    [] OTHER -> {<<"a">>, <<"b">>}

\* Values of the program's own types: fails is for MarshalLog methods, whose panics
\* nothing contains; panics and nilptr for Error and String.
Own ==
  {v \in [type : {"own"}, shape : {"own"}, does : SUBSET {"object", "array", "error", "stringer"},
          how : {"ok", "fails", "panics", "nilptr"}] :
     /\ v.how = "fails" => v.does \cap {"object", "array"} # {}
     /\ v.how \in {"panics", "nilptr"} => v.does # {} /\ v.does \cap {"object", "array"} = {}}

Known ==
  [type : Concrete, shape : {"value", "pointer", "slice"}, does : {{}}, how : {"ok"}]
    \cup [type : {"field"}, shape : {"slice"}, does : {{}}, how : {"ok"}]

Untyped == [type |-> "nil", shape |-> "nil", does |-> {}, how |-> "ok"]

None == [Type |-> "none", Integer |-> 0, Interface |-> Nil]

Init ==
  /\ pc = "construct" /\ val = Untyped
  /\ mem = << >> /\ given = << >> /\ field = None /\ out = << >>

Construct(v, m, f) ==
  /\ pc = "construct"
  /\ val' = v /\ mem' = m /\ given' = m
  /\ field' = f
  /\ pc' = "held"
  /\ UNCHANGED out

\* The program writes to its variable, or to an element of its slice.
Mutate(m) ==
  /\ pc = "held" /\ Len(m) = Len(mem)
  /\ mem' = m
  /\ UNCHANGED <<pc, val, given, field, out>>

Encode ==
  /\ pc = "held"
  /\ out' = AddTo(field, mem)
  /\ pc' = "added"
  /\ UNCHANGED <<val, mem, given, field>>

Next ==
  \/ \E v \in Known : \E m \in Memories(v.shape, v.type) :
       Construct(v, m, Typed(v, m)) \/ Construct(v, m, Any(v, m))
  \/ \E v \in Own \cup {Untyped} : \E m \in Memories(v.shape, v.type) : Construct(v, m, Any(v, m))
  \/ \E m \in Memories(val.shape, val.type) : Mutate(m)
  \/ Encode

Spec == Init /\ [][Next]_vars
-----------------------------------------------------------------------------
\* What the encoder should be told of a value of a known type: a scalar, and what a
\* pointer points to, as it was when the field was made; a slice as it is now, element by
\* element and each as what it is.
Each(t) == [i \in DOMAIN mem |-> Call(t, mem[i])]

Wanted ==
  CASE val.shape = "value" -> Call(FieldType(val.type), given[1])
    [] val.shape = "pointer" -> IF given = << >> THEN Call("reflect", Nil)
                                ELSE Call(FieldType(val.type), given[1])
    [] val.shape = "slice" ->   \* []uint8 has two constructors
         CASE val.type = "uint8" /\ field = Binary -> Call("binary", mem)
           [] val.type = "field" -> Call("object", Each("field"))
           [] OTHER -> Call("array", Each(val.type))
    [] val.shape = "nil" -> Call("reflect", Nil)

\* Whether its own constructor or Any made the field, the encoder is told the very value
\* the program passed: every integer, float and time, of any width, survives the trip
\* through int64, later writes do not reach a scalar or what a pointer pointed to, and
\* do reach a slice, whose elements are all told, in order and as their own type
\* (field.go, array.go, Field.AddTo).  A value of the program's own type is told as it is
\* now, or, when its method fails or panics, reported once.
ValueAsPassed ==
  pc = "added" =>
    IF val.shape # "own" THEN out = <<Wanted>>
    ELSE /\ val.how # "panics" =>
              out[1].value = CASE out[1].method \in {"array", "object"} -> Each("own")
                               [] val.how = "nilptr" -> "<nil>"
                               [] OTHER -> mem
         /\ Len(SelectSeq(out, LAMBDA c : c.method = "keyError")) =
              (IF val.how \in {"fails", "panics"} THEN 1 ELSE 0)
         /\ out[1].method = "reflect" <=> val.does = {}
=============================================================================
