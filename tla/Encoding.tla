------------------------------ MODULE Encoding ------------------------------
(***************************************************************************)
(* Fields encoded by the JSON encoder, the console encoder and the map     *)
(* encoder side by side.  A logger's context is built with With; entries   *)
(* are then encoded from it, each with fields of its own.  What a field    *)
(* does is any sequence of calls of the encoder interfaces: scalars,       *)
(* namespaces, and marshalers of objects and arrays that may nest and may  *)
(* fail half-way.  A value that json.Marshal refuses is an error of the    *)
(* JSON encoder only, so that from there on a marshaler may do less for it *)
(* than for the map encoder.                                               *)
(***************************************************************************)
EXTENDS JSONEncoder, MapObjectEncoder, Integers, FiniteSets

CONSTANTS
  Keys,       \* keys of fields
  Metadata,   \* the possible sequences of metadata keys of an entry
  Stack,      \* the key of the stack trace
  MaxCalls,   \* bound on the calls made of the encoders for an entry
  MaxDepth    \* bound on the nesting of marshalers

VARIABLES
  ctx,      \* the encoder of the core, shared by all entries
  ctxTree,  \* what a map encoder would hold of the context, and its cur; and reports
  enc,      \* the encoder of the entry, or of the core With derives
  frames,   \* the marshalers running, outermost first: the saved
            \* openNamespaces and the map or slice encoder each fills
  tree,     \* the nodes of the map encoder
  cut,      \* the outermost marshaler that runs on for the map encoder only, having
            \* returned the JSON encoder's error to it; 0 if there is none
  reports,  \* history: nodes for errors that AddTo met with the JSON encoder only
  phase,    \* "idle" | "with" | "json" | "console" | "done"
  meta,     \* metadata keys of the entry
  stack,    \* << >> or <<Stack>>
  out,      \* the line, and whether it is the console encoder's
  calls

vars == <<ctx, ctxTree, enc, frames, tree, cut, reports, phase, meta, stack, out, calls>>

Root == [old |-> 0, key |-> Stack, map |-> NewMapObjectEncoder(<< >>)]

Init ==
  /\ ctx = EmptyEncoder
  /\ ctxTree = [nodes |-> {}, cur |-> << >>, reports |-> {}]
  /\ enc = EmptyEncoder
  /\ frames = <<Root>> /\ tree = {} /\ cut = 0 /\ reports = {}
  /\ phase = "idle" /\ meta = << >> /\ stack = << >> /\ out = << >> /\ calls = 0

Top == Last(frames)
SetTop(m) == [frames EXCEPT ![Len(frames)].map = m]
InObject == Top.map.kind = "obj"

Begin(p, e) ==
  /\ phase = "idle"
  /\ phase' = p
  /\ enc' = e
  /\ tree' = ctxTree.nodes /\ reports' = ctxTree.reports
  /\ frames' = <<[Root EXCEPT !.map.cur = ctxTree.cur]>>
  /\ out' = << >>
  /\ UNCHANGED <<ctx, ctxTree, cut, calls>>

\* ioCore.With: the clone's encoder gets the fields.
With == Begin("with", Clone(ctx)) /\ UNCHANGED <<meta, stack>>

EncodeJSON ==
  \E keys \in Metadata, s \in {<< >>, <<Stack>>} :
    /\ meta' = keys /\ stack' = s
    /\ Begin("json", EntryHead(ctx, keys))

EncodeConsole ==
  /\ meta' = << >> /\ stack' = << >>
  /\ Begin("console", Clone(ctx))
-----------------------------------------------------------------------------
Call ==
  /\ phase \in {"with", "json", "console"}
  /\ calls < MaxCalls
  /\ calls' = calls + 1
  /\ UNCHANGED <<ctx, ctxTree, phase, meta, stack, out>>

Agreed == UNCHANGED <<cut, reports>>

\* The JSON encoder's part of a call.
JSON(e) == enc' = IF cut = 0 THEN e ELSE enc

\* AddInt, AppendString, ... of the encoder of the innermost marshaler.
Scalar(k) ==
  /\ Call /\ Agreed
  /\ JSON(IF InObject THEN AddScalar(enc, k) ELSE AppendScalar(enc))
  /\ tree' = Put(tree, Place(Top.map, k), "val")
  /\ frames' = SetTop(Grown(Top.map))

Namespace(k) ==
  /\ Call /\ Agreed
  /\ InObject
  /\ JSON(OpenNamespace(enc, k))
  /\ tree' = Put(tree, Place(Top.map, k), "obj")
  /\ frames' = SetTop(InNamespace(Top.map, k))

Enter(k, newMap, kind) ==
  /\ Len(frames) <= MaxDepth
  /\ tree' = Put(tree, Place(Top.map, k), kind)
  /\ frames' = Append(SetTop(Grown(Top.map)), [old |-> enc.openNamespaces, key |-> k, map |-> newMap])

\* AddObject and AppendObject, AddArray and AppendArray, up to the marshaler.
Keyed(k) == IF InObject THEN AddKey(enc, k) ELSE enc

Object(k) ==
  /\ Call /\ Agreed
  /\ Enter(k, NewMapObjectEncoder(Place(Top.map, k)), "obj")
  /\ JSON(BeginObject(Keyed(k)))

Array(k) ==
  /\ Call /\ Agreed
  /\ Enter(k, NewSliceEncoder(Place(Top.map, k)), "arr")
  /\ JSON(BeginArray(Keyed(k)))

\* The rest of AddObject and the like, after the marshaler of frame f.
Ended(e, f) == IF f.map.kind = "obj" THEN EndObject(e, f.old) ELSE EndArray(e)

\* The key AddTo reports the error of field k under.
ErrorKey(k) == <<k, "Error">>

\* AddTo has an error of the JSON encoder, and none of the map encoder.
ReportJSON(e, k) ==
  /\ enc' = AddScalar(e, ErrorKey(k))
  /\ reports' = reports \cup {Node(Place(frames[1].map, ErrorKey(k)), "val")}

\* AddReflected and AppendReflected of a value that json.Marshal refuses: the map and
\* slice encoders store it and return no error.
Stored(k) ==
  /\ Call
  /\ frames' = SetTop(Grown(Top.map))

\* As a field.
UnmarshalableField(k) ==
  /\ Stored(k) /\ Len(frames) = 1
  /\ tree' = Put(tree, Place(Top.map, k), "unmarshalable")
  /\ ReportJSON(enc, k)
  /\ UNCHANGED cut

\* In a marshaler that goes on as if nothing had happened.  An array has an element
\* less in JSON.
UnmarshalableIgnored(k) ==
  /\ Stored(k) /\ Len(frames) > 1
  /\ tree' = IF InObject THEN Put(tree, Place(Top.map, k), "unmarshalable")
             ELSE Put(tree, Top.map.base, "partial")
  /\ Agreed /\ UNCHANGED enc

\* In a marshaler that returns the error, as do those around it up to the n-th; that
\* one's caller ignores it, unless it is AddTo.
UnmarshalableReturned(k, n) ==
  LET ended == FoldLeft(Ended, enc, Reverse(SubSeq(frames, n, Len(frames))))
  IN /\ Stored(k) /\ cut = 0
     /\ tree' = Put(tree, frames[n].map.base, "partial")
     /\ cut' = n
     /\ IF n = 2 THEN ReportJSON(ended, frames[n].key) ELSE enc' = ended /\ UNCHANGED reports

\* A marshaler returns.  If it was a field's and it failed, AddTo adds the error.
Leave ==
  /\ Len(frames) > 1
  /\ \E failed \in {FALSE, Len(frames) = 2} :
       LET ended == Ended(enc, Top)
           outer == frames[Len(frames) - 1].map
       IN IF failed
          THEN /\ JSON(AddScalar(ended, ErrorKey(Top.key)))
               /\ tree' = Put(tree, Place(outer, ErrorKey(Top.key)), "val")
          ELSE JSON(ended) /\ tree' = tree
  /\ cut' = IF cut = Len(frames) THEN 0 ELSE cut
  /\ frames' = Front(frames)
  /\ UNCHANGED <<ctx, ctxTree, reports, phase, meta, stack, out, calls>>
-----------------------------------------------------------------------------
Finished(p) == phase = p /\ Len(frames) = 1

\* putJSONEncoder.
Release == enc' = EmptyEncoder /\ frames' = <<Root>>

\* With returns: the derived core's encoder is enc.
EndWith ==
  /\ Finished("with")
  /\ ctx' = enc
  /\ ctxTree' = [nodes |-> tree, cur |-> Top.map.cur, reports |-> reports]
  /\ phase' = "idle"
  /\ tree' = {} /\ reports' = {} /\ Release
  /\ UNCHANGED <<cut, meta, stack, out, calls>>

EndJSON ==
  /\ Finished("json")
  /\ out' = [line |-> EntryTail(enc, stack).buf, console |-> FALSE]
  /\ phase' = "done"
  /\ Release
  /\ UNCHANGED <<ctx, ctxTree, tree, cut, reports, meta, stack, calls>>

EndConsole ==
  /\ Finished("console")
  /\ out' = [line |-> ConsoleContext(enc).buf, console |-> TRUE]
  /\ phase' = "done"
  /\ Release
  /\ UNCHANGED <<ctx, ctxTree, tree, cut, reports, meta, stack, calls>>

\* An array's elements have no keys.
UsableKeys == IF InObject THEN Keys ELSE {CHOOSE k \in Keys : TRUE}

Next ==
  \/ With \/ EncodeJSON \/ EncodeConsole
  \/ \E k \in UsableKeys :
       \/ Scalar(k) \/ Namespace(k) \/ Object(k) \/ Array(k)
       \/ UnmarshalableField(k) \/ UnmarshalableIgnored(k)
       \/ \E n \in 2..Len(frames) : UnmarshalableReturned(k, n)
  \/ Leave \/ EndWith \/ EndJSON \/ EndConsole

Spec == Init /\ [][Next]_vars
-----------------------------------------------------------------------------
(* A reader of JSON that builds the nodes of a document, the last of two   *)
(* equal keys winning.  It is at "first" after an opening bracket, "value" *)
(* after a key, "next" after a comma, "sep" after a value.                 *)

Bad == [ok |-> FALSE, stack |-> << >>, at |-> "end", nodes |-> {}]

Read(s, tok) ==
  LET top == Last(s.stack)
      inObj == top.kind = "obj"
      mayHoldValue == IF inObj THEN s.at = "value" ELSE s.at \in {"first", "next"}
      path == IF inObj THEN Append(top.path, top.key) ELSE Append(top.path, top.n + 1)
      after == [s.stack EXCEPT ![Len(s.stack)].n = @ + 1]
  IN CASE ~s.ok -> Bad
       [] s.stack = << >> ->
            IF s.at = "start" /\ tok.t = "{"
            THEN [s EXCEPT !.stack = <<[kind |-> "obj", path |-> << >>, n |-> 0, key |-> Stack]>>, !.at = "first"]
            ELSE Bad
       [] tok.t = "key" ->
            IF inObj /\ s.at \in {"first", "next"}
            THEN [s EXCEPT !.stack[Len(s.stack)].key = tok.k, !.at = "value"] ELSE Bad
       [] tok.t = "val" ->
            IF mayHoldValue
            THEN [s EXCEPT !.nodes = Put(@, path, "val"), !.stack = after, !.at = "sep"] ELSE Bad
       [] tok.t \in {"{", "["} ->
            LET kind == IF tok.t = "{" THEN "obj" ELSE "arr" IN
            IF mayHoldValue
            THEN [s EXCEPT !.nodes = Put(@, path, kind), !.at = "first",
                           !.stack = Append(after, [kind |-> kind, path |-> path, n |-> 0, key |-> Stack])]
            ELSE Bad
       [] tok.t = "," -> IF s.at = "sep" THEN [s EXCEPT !.at = "next"] ELSE Bad
       [] OTHER ->   \* "}" or "]"
            IF s.at \in {"first", "sep"} /\ inObj = (tok.t = "}")
            THEN [s EXCEPT !.stack = Front(@), !.at = "sep"] ELSE Bad

Parse(line) ==
  FoldLeft(Read, [ok |-> TRUE, stack |-> << >>, at |-> "start", nodes |-> {}], line)

Scalars(keys) == {Node(<<keys[i]>>, "val") : i \in DOMAIN keys}

\* What is not under a key for which a value was refused, nor in an object or array that
\* only the map encoder has whole.
Alike(nodes) ==
  {x \in nodes : \A y \in tree : y.kind \in {"unmarshalable", "partial"} => ~IsPrefix(y.path, x.path)}

\* Every line of the JSON encoder is one well-formed JSON object, whatever the fields of
\* the context and of the entry do; so is the context on a line of the console encoder,
\* unless there is nothing in it and it is left out.  A reader of the line finds, besides
\* the metadata and the stack trace at the top level, exactly what the map encoder (and
\* so an observer's ContextMap) holds, with two exceptions, both for a value that
\* AddReflected of the JSON encoder alone refuses: the line has one more node, AddTo's
\* report of the error, which the map lacks; and under the key of the value, or in the
\* object or array whose marshaler gave up on it, line and map may differ.
EncodersAgree ==
  phase = "done" =>
    IF out.console /\ out.line = << >> THEN Alike(tree \cup reports) = {}
    ELSE LET p == Parse(out.line)
         IN /\ p.ok /\ p.stack = << >> /\ p.at = "sep"
            /\ Alike(p.nodes) = Alike(tree \cup reports \cup Scalars(meta \o stack))
            /\ reports \subseteq p.nodes
=============================================================================
