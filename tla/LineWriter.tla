----------------------------- MODULE LineWriter -----------------------------
(***************************************************************************)
(* ladio.Writer: turns a stream of bytes, written in chunks, into one log  *)
(* entry per line.  Its logger's level may be changed by another goroutine *)
(* at any moment, between two lines of a Write included.  Calls of the     *)
(* writer itself are sequential.                                           *)
(***************************************************************************)
EXTENDS Integers, Sequences, SequencesExt, FiniteSets

CONSTANTS
  Bytes,       \* bytes other than the newline
  NL,          \* the newline
  MaxChunk,    \* bound on the bytes of one Write
  MaxBytes,    \* bound on the bytes written altogether
  MaxToggles   \* bound on the level changes

Chunks == BoundedSeq(Bytes \cup {NL}, MaxChunk)

VARIABLES
  enabled,   \* whether the logger's core enables w.Level
  buff,      \* w.buff
  rest,      \* the bytes of the current Write that are not consumed
  lines,     \* the entries logged
  pc,        \* "idle" | "loop"
  input,     \* history: every byte passed to Write, and a newline for a Sync
             \* that ends an unfinished line
  toggles

vars == <<enabled, buff, rest, lines, pc, input, toggles>>

Init ==
  /\ enabled \in BOOLEAN
  /\ buff = << >> /\ rest = << >> /\ lines = << >>
  /\ pc = "idle" /\ input = << >> /\ toggles = 0

\* Log of w: Check and Write of the logger.
Logged(b) == IF enabled THEN Append(lines, b) ELSE lines

\* Write, up to its loop: nothing of the chunk is looked at if the level is
\* disabled.
Write(bs) ==
  /\ pc = "idle"
  /\ Len(input) + Len(bs) <= MaxBytes
  /\ input' = input \o bs
  /\ IF enabled THEN rest' = bs /\ pc' = "loop" ELSE UNCHANGED <<rest, pc>>
  /\ UNCHANGED <<enabled, buff, lines, toggles>>

\* bytes.IndexByte, from 1; 0 if there is no newline.
IndexByte(bs) == IF \E k \in DOMAIN bs : bs[k] = NL THEN SelectInSeq(bs, LAMBDA b : b = NL) ELSE 0

\* Mutant of WriteLine: the fast path is taken though the buffer holds the
\* start of the line.
WriteLineAlwaysFast ==
  /\ pc = "loop" /\ rest # << >>
  /\ LET idx == IndexByte(rest) IN
       IF idx = 0
       THEN buff' = buff \o rest /\ rest' = << >> /\ UNCHANGED lines
       ELSE /\ rest' = SubSeq(rest, idx + 1, Len(rest))
            /\ lines' = Logged(SubSeq(rest, 1, idx - 1))
            /\ UNCHANGED buff
  /\ UNCHANGED <<enabled, pc, input, toggles>>

\* writeLine: one line, logged directly if nothing is buffered, otherwise
\* through the buffer and flush(true).
WriteLine ==
  /\ pc = "loop" /\ rest # << >>
  /\ LET idx == IndexByte(rest)
         line == SubSeq(rest, 1, idx - 1) IN
       IF idx = 0
       THEN buff' = buff \o rest /\ rest' = << >> /\ UNCHANGED lines
       ELSE /\ rest' = SubSeq(rest, idx + 1, Len(rest))
            /\ \/ buff = << >> /\ lines' = Logged(line) /\ UNCHANGED buff
               \/ buff # << >> /\ lines' = Logged(buff \o line) /\ buff' = << >>
  /\ UNCHANGED <<enabled, pc, input, toggles>>

Return ==
  /\ pc = "loop" /\ rest = << >>
  /\ pc' = "idle"
  /\ UNCHANGED <<enabled, buff, rest, lines, input, toggles>>

\* Sync and Close: flush(false).
Sync ==
  /\ pc = "idle"
  /\ lines' = IF buff # << >> THEN Logged(buff) ELSE lines
  /\ buff' = << >>
  /\ input' = IF input # << >> /\ Last(input) # NL THEN Append(input, NL) ELSE input
  /\ UNCHANGED <<enabled, rest, pc, toggles>>

\* Another goroutine changes the level of the logger's core.
SetLevel ==
  /\ toggles < MaxToggles
  /\ toggles' = toggles + 1
  /\ enabled' = ~enabled
  /\ UNCHANGED <<buff, rest, lines, pc, input>>

Next == (\E bs \in Chunks : Write(bs)) \/ WriteLine \/ Return \/ Sync \/ SetLevel

Spec == Init /\ [][Next]_vars
-----------------------------------------------------------------------------
Newlines(s) == {k \in DOMAIN s : s[k] = NL}

\* The lines of s that end in a newline, in order; what follows the last one.
LinesOf(s) ==
  LET ends == SetToSortSeq(Newlines(s), LAMBDA a, b : a < b)
      start(k) == IF k = 1 THEN 1 ELSE ends[k - 1] + 1
  IN [k \in DOMAIN ends |-> SubSeq(s, start(k), ends[k] - 1)]
TailOf(s) ==
  LET n == {0} \cup Newlines(s) IN SubSeq(s, (CHOOSE k \in n : \A j \in n : j <= k) + 1, Len(s))

\* Whether the elements of s occur in t, in their order.
IsSubsequence(s, t) ==
  FoldLeft(LAMBDA n, b : IF n < Len(s) /\ s[n + 1] = b THEN n + 1 ELSE n, 0, t) = Len(s)

\* However the stream is cut into Writes and Syncs, a logger that stays enabled
\* logs each of its lines once, in order and the empty ones included, and holds
\* back the unfinished one.  One whose level is changed in the middle of a Write
\* or between two may lose bytes, but repeats and reorders none.
LinesAsReference ==
  /\ enabled /\ toggles = 0 /\ pc = "idle" => lines = LinesOf(input) /\ buff = TailOf(input)
  /\ IsSubsequence(FlattenSeq(lines) \o buff \o rest, input)
=============================================================================
