---------------------------- MODULE SlogHandler -----------------------------
(***************************************************************************)
(* exp/zapslog.Handler: slog attributes and groups turned into lad fields. *)
(* Groups are kept back until there is a field to put in them.  A chain of *)
(* WithGroup and WithAttrs derives a handler; Handle writes a record.  The *)
(* output is the nodes the fields write, as MapObjectEncoder describes     *)
(* them, but with those of repeated keys kept, as in a line of JSON.       *)
(***************************************************************************)
EXTENDS MapObjectEncoder, Integers, FiniteSets

CONSTANTS
  Keys,      \* keys of attributes and names of groups
  GroupKeys, \* keys of the attributes that are groups
  Contents,  \* the possible contents of those groups, sets of keys
  MaxCalls,  \* bound on the calls that derive handlers
  MaxAttrs   \* bound on the attributes of one call

\* An attribute: a scalar, the zero Attr, or a group of scalars; the group with
\* the empty key is to be inlined.
NoKey == ""
Scalar(k) == [kind |-> "scalar", key |-> k, group |-> {}]
ZeroAttr == [kind |-> "zero", key |-> NoKey, group |-> {}]
Group(k, ks) == [kind |-> "group", key |-> k, group |-> ks]
Attrs == {Scalar(k) : k \in Keys} \cup {ZeroAttr}
           \cup {Group(k, ks) : k \in GroupKeys, ks \in Contents}
AttrLists == BoundedSeq(Attrs, MaxAttrs)

VARIABLES
  groups,   \* h.groups, the groups not applied yet
  context,  \* the fields h.core has been given
  opened,   \* history: all groups opened, in order
  expected, \* history: the scalars the slog contract asks for
  record,   \* the fields of the record handled
  calls

vars == <<groups, context, opened, expected, record, calls>>

Init ==
  /\ groups = << >> /\ context = << >> /\ opened = << >>
  /\ expected = {} /\ record = << >> /\ calls = 0

Skip == [type |-> "skip"]
Namespace(g) == [type |-> "namespace", key |-> g]

ConvertAttrToField(a) ==
  CASE a.kind = "zero" -> Skip
    [] a.kind = "scalar" -> [type |-> "scalar", key |-> a.key]
    [] a.kind = "group" /\ a.key = NoKey -> [type |-> "inline", keys |-> a.group]
    [] OTHER -> [type |-> "object", key |-> a.key, keys |-> a.group]

Fields(attrs) == [k \in DOMAIN attrs |-> ConvertAttrToField(attrs[k])]

\* Mutant of AppendFields: only the innermost group is applied.
AppendFieldsInnermost(attrs) ==
  LET fs == Fields(attrs)
      at == SelectInSeq(fs, LAMBDA f : f # Skip)
  IN IF at = 0 \/ groups = << >> THEN fs
     ELSE SubSeq(fs, 1, at - 1) \o <<Namespace(Last(groups))>> \o SubSeq(fs, at, Len(fs))

\* The loop of Handle and of WithAttrs: the groups go before the first field that
\* is not a Skip.
AppendFields(attrs) ==
  LET fs == Fields(attrs)
      at == SelectInSeq(fs, LAMBDA f : f # Skip)
  IN IF at = 0 \/ groups = << >> THEN fs
     ELSE SubSeq(fs, 1, at - 1) \o [k \in DOMAIN groups |-> Namespace(groups[k])] \o SubSeq(fs, at, Len(fs))

AddedNamespace(attrs) == groups # << >> /\ \E k \in DOMAIN attrs : attrs[k].kind # "zero"

\* The scalars an attribute stands for, where the groups opened so far put them.
Leaves(a) ==
  CASE a.kind = "zero" -> {}
    [] a.kind = "scalar" -> {Append(opened, a.key)}
    [] OTHER -> {opened \o (IF a.key = NoKey THEN << >> ELSE <<a.key>>) \o <<k>> : k \in a.group}
AllLeaves(attrs) == UNION {Leaves(attrs[k]) : k \in DOMAIN attrs}

Derive == record = << >> /\ calls < MaxCalls /\ calls' = calls + 1 /\ UNCHANGED record

WithGroup(g) ==
  /\ Derive
  /\ groups' = Append(groups, g)
  /\ opened' = Append(opened, g)
  /\ UNCHANGED <<context, expected>>

WithAttrs(attrs) ==
  /\ Derive
  /\ context' = context \o AppendFields(attrs)
  /\ groups' = IF AddedNamespace(attrs) THEN << >> ELSE groups
  /\ expected' = expected \cup AllLeaves(attrs)
  /\ UNCHANGED opened

Handle(attrs) ==
  /\ record = << >>
  /\ record' = AppendFields(attrs)
  /\ expected' = expected \cup AllLeaves(attrs)
  /\ UNCHANGED <<groups, context, opened, calls>>

Next ==
  \/ \E g \in Keys : WithGroup(g)
  \/ \E attrs \in AttrLists : WithAttrs(attrs) \/ Handle(attrs)

Spec == Init /\ [][Next]_vars
-----------------------------------------------------------------------------
\* Field.AddTo: what a field adds to the output; s is the nodes written and the
\* namespace the encoder is in.  A key that is repeated is written again.
AddTo(s, f) ==
  CASE f.type = "skip" -> s
    [] f.type = "scalar" -> [s EXCEPT !.nodes = @ \cup {Node(Append(s.cur, f.key), "val")}]
    [] f.type = "namespace" -> [nodes |-> s.nodes \cup {Node(Append(s.cur, f.key), "obj")},
                                cur |-> Append(s.cur, f.key)]
    [] f.type = "inline" -> [s EXCEPT !.nodes = @ \cup {Node(Append(s.cur, k), "val") : k \in f.keys}]
    [] OTHER -> [s EXCEPT !.nodes = @ \cup {Node(Append(s.cur, f.key), "obj")}
                                      \cup {Node(s.cur \o <<f.key, k>>, "val") : k \in f.keys}]

Output == FoldLeft(AddTo, [nodes |-> {}, cur |-> << >>], context \o record).nodes

\* Every scalar of the handler's attributes and of the record is found under the
\* groups that were open when it was added, and nothing else is found.
ScalarsInPlace == {x.path : x \in {y \in Output : y.kind = "val"}} = expected
=============================================================================
