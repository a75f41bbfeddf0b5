----------------------------- MODULE EntryLine ------------------------------
(***************************************************************************)
(* What the encoders write of an entry besides its fields: level, time,    *)
(* name, caller, function, message, stack trace, each under a key the      *)
(* configuration may leave out, through an encoder the configuration       *)
(* names, or that the program supplies, or that is missing.  An encoder is *)
(* the sequence of values it appends: one, or none if it breaks its        *)
(* contract.  What a level, a time or a duration looks like is left out.   *)
(* The configuration and the entry are chosen section by section, as       *)
(* EncodeEntry comes to them.                                              *)
(***************************************************************************)
EXTENDS Integers, Sequences, SequencesExt, FiniteSets

CONSTANTS
  Files    \* paths of source files, as sequences of "/" and names

VARIABLES
  console,  \* which encoder
  section,  \* the section it comes to
  line,     \* the line so far: keys, values and separators
  elems,    \* the console encoder's slice encoder
  want      \* the sections the line should have, with their values

vars == <<console, section, line, elems, want>>

Key(k) == [t |-> "key", v |-> k]
Value(v) == [t |-> "value", v |-> v]
Separator == [t |-> "sep", v |-> ""]
Text(s) == [t |-> "text", v |-> s]
-----------------------------------------------------------------------------
(* The encoders a configuration can name, or the program can supply.       *)

\* What the encoders of levels, times and durations may append: one value in some form,
\* or, if the program supplies them, nothing.
LevelEncoder == {<< >>, <<"level">>}
TimeEncoder == {<< >>, <<"time">>}
DurationEncoder == {<< >>, <<"elapsed">>}

FullPath(caller) == IF caller.Defined THEN caller.File \o <<":">> ELSE <<"undefined">>

\* strings.LastIndexByte(file, '/'), from 1; 0 if there is none.
LastSlash(file) ==
  IF \E i \in DOMAIN file : file[i] = "/"
  THEN CHOOSE i \in DOMAIN file : file[i] = "/" /\ \A j \in DOMAIN file : file[j] = "/" => j <= i
  ELSE 0

TrimmedPath(caller) ==
  LET last == LastSlash(caller.File)
      penultimate == LastSlash(SubSeq(caller.File, 1, last - 1))
  IN IF ~caller.Defined THEN <<"undefined">>
     ELSE IF last = 0 \/ penultimate = 0 THEN FullPath(caller)
     ELSE SubSeq(caller.File, penultimate + 1, Len(caller.File)) \o <<":">>

\* CallerEncoder.UnmarshalText.
CallerEncoder(text, caller) == <<IF text = "full" THEN FullPath(caller) ELSE TrimmedPath(caller)>>

\* NameEncoder.UnmarshalText: always FullNameEncoder, as for one not configured.
NameEncoder(name) == <<name>>
-----------------------------------------------------------------------------
Init ==
  /\ console = FALSE /\ section = "start" /\ line = << >> /\ elems = << >> /\ want = << >>

Goto(s) == section' = s

Start(c) ==
  /\ section = "start"
  /\ console' = c
  /\ line' = IF c THEN << >> ELSE <<Text("{")>>
  /\ Goto(IF c THEN "time" ELSE "level")
  /\ UNCHANGED <<elems, want>>

\* addElementSeparator, addKey; addSeparatorIfNecessary.
Separated(l) ==
  IF l = << >> \/ Last(l) \in {Text("{"), Separator} \/ Last(l).t = "key" THEN l ELSE Append(l, Separator)

\* Mutant of Keyed: an encoder that appends nothing leaves the key alone.
KeyedAsIs(l, k, encoded, fallback) ==
  Append(Separated(l), Key(k)) \o [i \in DOMAIN encoded |-> Value(encoded[i])]

\* A key, and what the encoder appends; or the fallback if that is nothing.
Keyed(l, k, encoded, fallback) ==
  Append(Separated(l), Key(k)) \o
    (IF encoded = << >> THEN <<Value(fallback)>> ELSE [i \in DOMAIN encoded |-> Value(encoded[i])])

Omit == UNCHANGED <<line, elems, want>>

WriteKeyed(k, encoded, fallback) ==
  /\ line' = Keyed(line, k, encoded, fallback)
  /\ want' = Append(want, <<k, IF encoded = << >> THEN fallback ELSE encoded[1]>>)
  /\ UNCHANGED elems

\* One section.  encoded: what the encoder appends.  A console line has no fallback for
\* an encoder that appends nothing.
Write(k, encoded, fallback) ==
  IF console
  THEN /\ elems' = elems \o encoded
       /\ want' = want \o [i \in DOMAIN encoded |-> <<k, encoded[i]>>]
       /\ UNCHANGED line
  ELSE WriteKeyed(k, encoded, fallback)

Level ==
  /\ section = "level"
  /\ \/ Omit   \* no LevelKey, or no EncodeLevel
     \/ \E encoded \in LevelEncoder : Write("level", encoded, "string")
  /\ Goto(IF console THEN "name" ELSE "time")
  /\ UNCHANGED console

\* A missing EncodeTime is like one that appends nothing, but in a console line the time
\* is then left out.
Time ==
  /\ section = "time"
  /\ \/ Omit   \* no TimeKey, or the time is zero
     \/ \E encoded \in TimeEncoder : Write("time", encoded, "nanos")
  /\ Goto(IF console THEN "level" ELSE "name")
  /\ UNCHANGED console

Name ==
  /\ section = "name"
  /\ \/ Omit   \* no NameKey, or no name
     \/ \E encoded \in {<< >>, NameEncoder("name")} : Write("name", encoded, "name")
  /\ Goto("caller")
  /\ UNCHANGED console

NoCaller ==
  /\ section = "caller"
  /\ Omit
  /\ Goto(IF console THEN "join" ELSE "message")
  /\ UNCHANGED console

\* The JSON encoder calls EncodeCaller without asking whether there is one.
CallerPanics ==
  /\ section = "caller" /\ ~console
  /\ line' = Append(Separated(line), Key("caller"))
  /\ Goto("panicked")
  /\ UNCHANGED <<console, elems, want>>

Caller(file) ==
  LET caller == [Defined |-> TRUE, File |-> file]
  IN /\ section = "caller"
     /\ \/ Omit   \* no CallerKey; or the console encoder, and no EncodeCaller
        \/ \E encoded \in {<< >>, CallerEncoder("full", caller), CallerEncoder("", caller)} :
             Write("caller", encoded, FullPath(caller))
     /\ Goto("function")
     /\ UNCHANGED console

Function ==
  /\ section = "function"
  /\ Omit \/ Write("function", <<"function">>, "function")
  /\ Goto(IF console THEN "join" ELSE "message")
  /\ UNCHANGED console

\* fmt.Fprint of the slice encoder's elements.
Join ==
  /\ section = "join"
  /\ line' = [i \in 1..(IF elems = << >> THEN 0 ELSE 2 * Len(elems) - 1) |->
                IF i % 2 = 1 THEN Value(elems[(i + 1) \div 2]) ELSE Separator]
  /\ elems' = << >>
  /\ Goto("message")
  /\ UNCHANGED <<console, want>>

Message ==
  /\ section = "message"
  /\ \/ Omit   \* no MessageKey
     \/ /\ line' = IF console THEN Append(Separated(line), Value("message"))
                   ELSE Keyed(line, "message", <<"message">>, "")
        /\ want' = Append(want, <<"message", "message">>)
        /\ UNCHANGED elems
  /\ Goto(IF console THEN "stack" ELSE "elapsed")
  /\ UNCHANGED console

\* A field that carries a duration: AppendDuration.  The other fields, and the console
\* encoder's context, are Encoding's matter.
Elapsed ==
  /\ section = "elapsed"
  /\ \/ Omit
     \/ \E encoded \in DurationEncoder : WriteKeyed("elapsed", encoded, "nanos")
  /\ Goto("stack")
  /\ UNCHANGED console

Stack ==
  /\ section = "stack"
  /\ \/ Omit   \* no StacktraceKey, or no stack
     \/ /\ line' = IF console THEN line \o <<Text("newline"), Value("stack")>>
                   ELSE Keyed(line, "stacktrace", <<"stack">>, "")
        /\ want' = Append(want, <<"stacktrace", "stack">>)
        /\ UNCHANGED elems
  /\ Goto("end")
  /\ UNCHANGED console

\* LineEnding: the default unless it is configured, or skipped.
End ==
  /\ section = "end"
  /\ \E ending \in {<<Text("newline")>>, << >>} :
       line' = (IF console THEN line ELSE Append(line, Text("}"))) \o ending
  /\ Goto("done")
  /\ UNCHANGED <<console, elems, want>>

Next ==
  \/ \E c \in BOOLEAN : Start(c)
  \/ Level \/ Time \/ Name
  \/ NoCaller \/ CallerPanics \/ (\E file \in Files : Caller(file)) \/ Function
  \/ Join \/ Message \/ Elapsed \/ Stack \/ End

Spec == Init /\ [][Next]_vars
-----------------------------------------------------------------------------
Only(t) == SelectSeq(line, LAMBDA x : x.t = t)
WantOf(n) == [i \in DOMAIN want |-> want[i][n]]
Values(s) == [i \in DOMAIN s |-> s[i].v]

\* The longest end of a path with at most one separator.
Short(file) ==
  LET Ends == {n \in 1..Len(file) : Cardinality({i \in n..Len(file) : file[i] = "/"}) <= 1}
  IN SubSeq(file, CHOOSE n \in Ends : \A m \in Ends : n <= m, Len(file))

\* Every part of the entry that is there and has a key is on the line, once, in order
\* and with the value its encoder made of it, whatever parts are missing and whatever
\* encoders append nothing or, but for EncodeCaller of the JSON encoder, are nil: a JSON
\* line stays a sequence of keys with one value each, a console line one of values with
\* one separator between two (the fallbacks of EncodeEntry, addSeparatorIfNecessary).
\* (A nil EncodeCaller panics there, at json_encoder.go:400, and leaves no line.)
\* A short caller is the file with its directory, however the path is written
\* (EntryCaller.TrimmedPath).
MetadataInLine ==
  section = "done" =>
    /\ Values(Only("value")) = WantOf(2)
    /\ ~console => /\ Values(Only("key")) = WantOf(1)
                   /\ \A i \in DOMAIN line : line[i].t = "key" => line[i + 1].t = "value"
    /\ \A i \in 1..(Len(line) - 1) :
         /\ line[i].t = "value" => line[i + 1].t \in {"sep", "text"}
         /\ line[i].t = "sep" => line[i + 1].t = (IF console THEN "value" ELSE "key")
    /\ line # << >> => Head(line).t # "sep"
    /\ \A file \in Files :
         TrimmedPath([Defined |-> TRUE, File |-> file]) = Append(Short(file), ":")
=============================================================================
