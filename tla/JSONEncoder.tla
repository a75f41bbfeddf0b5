---------------------------- MODULE JSONEncoder -----------------------------
(***************************************************************************)
(* The structure a jsonEncoder writes: separators, brackets, keys and      *)
(* values, as operators on an encoder [buf, openNamespaces].  A key token  *)
(* stands for the quoted key and its colon, a value token for an encoded   *)
(* scalar.  What escaping and number formatting produce is left out.       *)
(***************************************************************************)
EXTENDS Naturals, Sequences, SequencesExt

Punct(c) == [t |-> c]
Key(k) == [t |-> "key", k |-> k]
Val == [t |-> "val"]

Write(enc, tok) == [enc EXCEPT !.buf = Append(@, tok)]

EmptyEncoder == [buf |-> << >>, openNamespaces |-> 0]

AddElementSeparator(enc) ==
  IF enc.buf = << >> \/ Last(enc.buf).t \in {"{", "[", "key", ","}
  THEN enc ELSE Write(enc, Punct(","))

AddKey(enc, k) == Write(AddElementSeparator(enc), Key(k))

\* AppendBool, AppendString and the other scalars; AppendReflected.  AppendTime
\* and AppendDuration write a number if the configured encoder writes nothing.
AppendScalar(enc) == Write(AddElementSeparator(enc), Val)

AddScalar(enc, k) == AppendScalar(AddKey(enc, k))

OpenNamespace(enc, k) ==
  [Write(AddKey(enc, k), Punct("{")) EXCEPT !.openNamespaces = @ + 1]

CloseOpenNamespaces(enc) ==
  [buf |-> enc.buf \o [i \in 1..enc.openNamespaces |-> Punct("}")], openNamespaces |-> 0]

\* AppendArray and AppendObject around the call of the marshaler.
BeginArray(enc) == Write(AddElementSeparator(enc), Punct("["))
EndArray(enc) == Write(enc, Punct("]"))

BeginObject(enc) ==
  [Write(AddElementSeparator(enc), Punct("{")) EXCEPT !.openNamespaces = 0]
EndObject(enc, old) ==
  [CloseOpenNamespaces(Write(enc, Punct("}"))) EXCEPT !.openNamespaces = old]

\* clone leaves the buffer empty, Clone copies it.
CloneEmpty(enc) == [EmptyEncoder EXCEPT !.openNamespaces = enc.openNamespaces]
Clone(enc) == enc
-----------------------------------------------------------------------------
(* EncodeEntry of the JSON encoder, before and after addFields.            *)

AddScalars(enc, keys) == FoldLeft(AddScalar, enc, keys)

\* The metadata keys, then the context.
EntryHead(enc, metadata) ==
  LET final == AddScalars(Write(CloneEmpty(enc), Punct("{")), metadata)
  IN IF enc.buf = << >> THEN final
     ELSE [final EXCEPT !.buf = AddElementSeparator(final).buf \o enc.buf]

\* Mutant of EntryTail: the stack trace ends up in the open namespace.
EntryTailStackFirst(final, stack) ==
  Write(CloseOpenNamespaces(AddScalars(final, stack)), Punct("}"))

EntryTail(final, stack) ==
  Write(AddScalars(CloseOpenNamespaces(final), stack), Punct("}"))

\* writeContext of the console encoder, after addFields: an empty context is
\* left out.
ConsoleContext(context) ==
  LET c == CloseOpenNamespaces(context)
  IN IF c.buf = << >> THEN c
     ELSE [c EXCEPT !.buf = <<Punct("{")>> \o c.buf \o <<Punct("}")>>]
=============================================================================
