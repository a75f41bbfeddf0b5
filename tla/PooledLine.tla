----------------------------- MODULE PooledLine -----------------------------
(***************************************************************************)
(* One log call's way through the pools: the stack (internal/stacktrace),  *)
(* the buffers, the JSON encoders and the console encoder's slice          *)
(* encoders.  Goroutines take objects from the pools, fill them, and put   *)
(* them back, and another goroutine gets what was put with whatever is     *)
(* left in it.  A buffer is a sequence of pieces, each the work of one     *)
(* append.  The context of the logger's own encoder is never pooled.       *)
(***************************************************************************)
EXTENDS Integers, Sequences

CONSTANTS
  Procs,       \* goroutines
  Bufs, Encs, Arrs, Stacks,   \* the objects the pools may hand out, new ones included
  Scripts,     \* log calls: [id, console, fields, depth, addStack, panics]
  ScriptsOf,   \* the calls each goroutine makes, in any order
  FirstSize,   \* length of a new Stack's storage (64 in the code)
  Nil

ASSUME NilAssumption == Nil \notin Bufs \cup Encs \cup Arrs \cup Stacks
ASSUME ScriptsAssumption ==
  /\ Scripts # {}
  /\ \A c \in Scripts : c.fields \in Seq({"plain", "reflected"}) /\ c.depth \in Nat

VARIABLES
  bs,       \* contents of the buffers
  enc,      \* the jsonEncoders: their buf and reflectBuf
  elems,    \* elems of the slice encoders
  storage,  \* length of the stacks' storage
  pool,     \* what each pool holds
  left,     \* calls each goroutine has yet to make
  ppc, pcall, \* of each goroutine: where it is, and in which call
  mine,     \* the objects its local variables refer to
  frames,   \* frames captured and room for them
  text,     \* ce.Stack
  todo,     \* fields yet to be added
  line      \* what the sink was given

poolsVars == <<bs, enc, elems, storage, pool, left, ppc, pcall, mine, frames, text, todo, line>>

Nothing == [stack |-> Nil, buf |-> Nil, enc |-> Nil, arr |-> Nil]
Blank == [buf |-> Nil, reflectBuf |-> Nil]

PoolsInit ==
  /\ bs = [b \in Bufs |-> << >>]
  /\ enc = [e \in Encs |-> Blank]
  /\ elems = [a \in Arrs |-> << >>]
  /\ storage = [s \in Stacks |-> FirstSize]
  /\ pool = [bufs |-> Bufs, encs |-> Encs, arrs |-> Arrs, stacks |-> Stacks]
  /\ left = ScriptsOf
  /\ ppc = [p \in Procs |-> "idle"]
  /\ pcall = [p \in Procs |-> CHOOSE c \in Scripts : TRUE]
  /\ mine = [p \in Procs |-> Nothing]
  /\ frames = [p \in Procs |-> [got |-> 0, room |-> 0]]
  /\ text = [p \in Procs |-> << >>]
  /\ todo = [p \in Procs |-> << >>]
  /\ line = [p \in Procs |-> << >>]

Goto(p, l) == ppc' = [ppc EXCEPT ![p] = l]
Tag(p) == <<p, pcall[p].id>>
-----------------------------------------------------------------------------
(* stacktrace.Capture, with the annotation of Logger.check around it.      *)

Least(m, n) == IF m < n THEN m ELSE n

Start(p, c) ==
  /\ ppc[p] = "idle" /\ c \in left[p]
  /\ left' = [left EXCEPT ![p] = @ \ {c}]
  /\ pcall' = [pcall EXCEPT ![p] = c]
  /\ text' = [text EXCEPT ![p] = << >>]
  /\ todo' = [todo EXCEPT ![p] = c.fields]
  /\ Goto(p, "capture")
  /\ UNCHANGED <<bs, enc, elems, storage, pool, mine, frames, line>>

Capture(p, s) ==
  LET room == IF pcall[p].addStack THEN storage[s] ELSE 1
  IN /\ ppc[p] = "capture" /\ s \in pool.stacks
     /\ pool' = [pool EXCEPT !.stacks = @ \ {s}]
     /\ mine' = [mine EXCEPT ![p].stack = s]
     /\ frames' = [frames EXCEPT ![p] = [room |-> room, got |-> Least(pcall[p].depth, room)]]
     /\ Goto(p, IF pcall[p].addStack THEN "expand" ELSE "annotated")
     /\ UNCHANGED <<bs, enc, elems, storage, left, pcall, text, todo, line>>

\* runtime.Callers again, until it leaves room; the larger storage is kept.  When the
\* logger skips every frame there is no stack to format.
Expand(p) ==
  LET f == frames[p]
  IN /\ ppc[p] = "expand"
     /\ IF f.got = f.room
        THEN /\ frames' = [frames EXCEPT ![p] =
                             [room |-> 2 * f.room, got |-> Least(pcall[p].depth, 2 * f.room)]]
             /\ UNCHANGED <<storage, ppc>>
        ELSE /\ storage' = [storage EXCEPT ![mine[p].stack] = f.room]
             /\ Goto(p, IF f.got = 0 THEN "annotated" ELSE "format")
             /\ UNCHANGED frames
     /\ UNCHANGED <<bs, enc, elems, pool, left, pcall, mine, text, todo, line>>

\* The first frame, then all but the last of the others.
Formatted(p) ==
  LET n == frames[p].got
  IN [i \in 1..(IF n = 1 THEN 1 ELSE n - 1) |-> <<Tag(p), "frame", i>>]

Format(p, b) ==
  /\ ppc[p] = "format" /\ b \in pool.bufs
  /\ pool' = [pool EXCEPT !.bufs = @ \ {b}]
  /\ bs' = [bs EXCEPT ![b] = Formatted(p)]
  /\ mine' = [mine EXCEPT ![p].buf = b]
  /\ Goto(p, "copy")
  /\ UNCHANGED <<enc, elems, storage, left, pcall, frames, text, todo, line>>

\* ce.Stack = buffer.String(), then the deferred buffer.Free().
CopyStack(p) ==
  /\ ppc[p] = "copy"
  /\ text' = [text EXCEPT ![p] = bs[mine[p].buf]]
  /\ pool' = [pool EXCEPT !.bufs = @ \cup {mine[p].buf}]
  /\ mine' = [mine EXCEPT ![p].buf = Nil]
  /\ Goto(p, "annotated")
  /\ UNCHANGED <<bs, enc, elems, storage, left, pcall, frames, todo, line>>

\* The deferred stack.Free(); then the core's Write.
FreeStack(p) ==
  /\ ppc[p] = "annotated"
  /\ pool' = [pool EXCEPT !.stacks = @ \cup {mine[p].stack}]
  /\ mine' = [mine EXCEPT ![p].stack = Nil]
  /\ Goto(p, IF pcall[p].console THEN "line" ELSE "clone")
  /\ UNCHANGED <<bs, enc, elems, storage, left, pcall, frames, text, todo, line>>
-----------------------------------------------------------------------------
(* consoleEncoder.EncodeEntry up to writeContext.                          *)

ConsoleLine(p, b, a) ==
  /\ ppc[p] = "line" /\ b \in pool.bufs /\ a \in pool.arrs
  /\ pool' = [pool EXCEPT !.bufs = @ \ {b}, !.arrs = @ \ {a}]
  /\ bs' = [bs EXCEPT ![b] = << >>]
  /\ elems' = [elems EXCEPT ![a] = Append(@, <<Tag(p), "entry">>)]
  /\ mine' = [mine EXCEPT ![p].buf = b, ![p].arr = a]
  /\ Goto(p, "elems")
  /\ UNCHANGED <<enc, storage, left, pcall, frames, text, todo, line>>

ConsoleElems(p) ==
  /\ ppc[p] = "elems"
  /\ bs' = [bs EXCEPT ![mine[p].buf] = @ \o elems[mine[p].arr]]
  /\ elems' = [elems EXCEPT ![mine[p].arr] = << >>]
  /\ pool' = [pool EXCEPT !.arrs = @ \cup {mine[p].arr}]
  /\ mine' = [mine EXCEPT ![p].arr = Nil]
  /\ Goto(p, "clone")
  /\ UNCHANGED <<enc, storage, left, pcall, frames, text, todo, line>>
-----------------------------------------------------------------------------
(* jsonEncoder: clone, the fields, and the line.                           *)

\* The clone's reflectBuf is what the pool left in it.
Clone(p, e, b) ==
  /\ ppc[p] = "clone" /\ e \in pool.encs /\ b \in pool.bufs
  /\ pool' = [pool EXCEPT !.bufs = @ \ {b}, !.encs = @ \ {e}]
  /\ enc' = [enc EXCEPT ![e].buf = b]
  /\ bs' = [bs EXCEPT ![b] = IF pcall[p].console THEN <<"context">>
                             ELSE <<<<Tag(p), "entry">>, "context">>]
  /\ mine' = [mine EXCEPT ![p].enc = e]
  /\ Goto(p, "fields")
  /\ UNCHANGED <<elems, storage, left, pcall, frames, text, todo, line>>

Adds(p, f) == ppc[p] = "fields" /\ todo[p] # << >> /\ Head(todo[p]) = f

AddPlain(p) ==
  LET b == enc[mine[p].enc].buf
  IN /\ Adds(p, "plain")
     /\ bs' = [bs EXCEPT ![b] = Append(@, <<Tag(p), Len(todo[p])>>)]
     /\ todo' = [todo EXCEPT ![p] = Tail(@)]
     /\ UNCHANGED <<enc, elems, storage, pool, left, ppc, pcall, mine, frames, text, line>>

\* resetReflectBuf: a buffer for the first reflected field, the same one, emptied, for
\* the next ones; then the reflected encoder writes into it.
Reflect(p, b) ==
  LET e == mine[p].enc
  IN /\ Adds(p, "reflected")
     /\ IF enc[e].reflectBuf = Nil
        THEN /\ b \in pool.bufs
             /\ pool' = [pool EXCEPT !.bufs = @ \ {b}]
             /\ enc' = [enc EXCEPT ![e].reflectBuf = b]
        ELSE b = enc[e].reflectBuf /\ UNCHANGED <<pool, enc>>
     /\ bs' = [bs EXCEPT ![b] = <<<<Tag(p), Len(todo[p])>>>>]
     /\ Goto(p, "reflected")
     /\ UNCHANGED <<elems, storage, left, pcall, mine, frames, text, todo, line>>

CopyReflected(p) ==
  LET e == enc[mine[p].enc]
  IN /\ ppc[p] = "reflected"
     /\ bs' = [bs EXCEPT ![e.buf] = @ \o bs[e.reflectBuf]]
     /\ todo' = [todo EXCEPT ![p] = Tail(@)]
     /\ Goto(p, "fields")
     /\ UNCHANGED <<enc, elems, storage, pool, left, pcall, mine, frames, text, line>>

\* A marshaler of the program panics.  The console encoder's writeContext has a
\* deferred function that puts its clone back; nothing else is, and is lost.
Panic(p) ==
  LET e == mine[p].enc
  IN /\ ppc[p] = "fields" /\ todo[p] # << >> /\ pcall[p].panics
     /\ IF pcall[p].console
        THEN /\ pool' = [pool EXCEPT !.encs = @ \cup {e},
                           !.bufs = @ \cup ({enc[e].buf, enc[e].reflectBuf} \ {Nil})]
             /\ enc' = [enc EXCEPT ![e] = Blank]
        ELSE UNCHANGED <<pool, enc>>
     /\ mine' = [mine EXCEPT ![p] = Nothing]
     /\ Goto(p, "idle")
     /\ UNCHANGED <<bs, elems, storage, left, pcall, frames, text, todo, line>>

\* Mutant of PutJSONEncoder: the freed reflectBuf stays in the encoder.
PutKeepsReflectBuf(e) == [enc EXCEPT ![e].buf = Nil]

PutJSONEncoder(e) == [enc EXCEPT ![e] = Blank]

\* The end of EncodeEntry.  JSON: the clone's buffer is the line.  Console: the clone's
\* buffer is copied to the line and freed.
EndEncode(p) ==
  LET e == mine[p].enc
      reflected == {enc[e].reflectBuf} \ {Nil}
      b == enc[e].buf
  IN /\ ppc[p] = "fields" /\ todo[p] = << >>
     /\ IF pcall[p].console
        THEN /\ bs' = [bs EXCEPT ![mine[p].buf] = @ \o bs[b] \o text[p]]
             /\ pool' = [pool EXCEPT !.encs = @ \cup {e}, !.bufs = @ \cup reflected \cup {b}]
             /\ mine' = [mine EXCEPT ![p].enc = Nil]
        ELSE /\ bs' = [bs EXCEPT ![b] = @ \o text[p]]
             /\ pool' = [pool EXCEPT !.encs = @ \cup {e}, !.bufs = @ \cup reflected]
             /\ mine' = [mine EXCEPT ![p].enc = Nil, ![p].buf = b]
     /\ enc' = PutJSONEncoder(e)
     /\ Goto(p, "write")
     /\ UNCHANGED <<elems, storage, left, pcall, frames, text, todo, line>>
-----------------------------------------------------------------------------
(* ioCore.Write.                                                           *)

WriteLine(p) ==
  /\ ppc[p] = "write"
  /\ line' = [line EXCEPT ![p] = bs[mine[p].buf]]
  /\ Goto(p, "free")
  /\ UNCHANGED <<bs, enc, elems, storage, pool, left, pcall, mine, frames, text, todo>>

FreeLine(p) ==
  /\ ppc[p] = "free"
  /\ pool' = [pool EXCEPT !.bufs = @ \cup {mine[p].buf}]
  /\ mine' = [mine EXCEPT ![p].buf = Nil]
  /\ line' = [line EXCEPT ![p] = << >>]
  /\ Goto(p, "idle")
  /\ UNCHANGED <<bs, enc, elems, storage, left, pcall, frames, text, todo>>

PoolsNext ==
  \E p \in Procs :
    \/ \E c \in Scripts : Start(p, c)
    \/ \E s \in Stacks : Capture(p, s)
    \/ Expand(p) \/ CopyStack(p) \/ FreeStack(p)
    \/ \E b \in Bufs : Format(p, b) \/ Reflect(p, b)
    \/ \E b \in Bufs, a \in Arrs : ConsoleLine(p, b, a)
    \/ ConsoleElems(p)
    \/ \E b \in Bufs, e \in Encs : Clone(p, e, b)
    \/ AddPlain(p) \/ CopyReflected(p) \/ Panic(p) \/ EndEncode(p) \/ WriteLine(p) \/ FreeLine(p)

PoolsSpec == PoolsInit /\ [][PoolsNext]_poolsVars
-----------------------------------------------------------------------------
\* The stack of a call: its frames but the last, when the logger adds it.
StackOf(p) ==
  IF ~pcall[p].addStack THEN << >>
  ELSE [i \in 1..(IF pcall[p].depth < 2 THEN pcall[p].depth ELSE pcall[p].depth - 1) |-> <<Tag(p), "frame", i>>]

FieldsOf(p) ==
  [i \in 1..Len(pcall[p].fields) |-> <<Tag(p), Len(pcall[p].fields) + 1 - i>>]

\* The line the sink is given is this call's: its entry, the logger's context, its
\* fields in order, each with its own (reflected) value, and its whole stack; nothing
\* is left over from, or overwritten by, the calls that used the same pooled buffer,
\* encoder, slice encoder or stack before, at the same time or after (Buffer.Free,
\* putJSONEncoder, putSliceEncoder, stacktrace.Capture and Free, ioCore.Write).
LineIntact ==
  \A p \in Procs :
    ppc[p] = "free" =>
      line[p] = <<<<Tag(p), "entry">>, "context">> \o FieldsOf(p) \o StackOf(p)
=============================================================================
