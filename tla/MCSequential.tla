---------------------------- MODULE MCSequential ----------------------------
(***************************************************************************)
(* The components that turn what one goroutine passes in into entries and  *)
(* fields, side by side: the SugaredLogger, the slog handler, the gRPC     *)
(* logger, the line writer, the field constructors, error fields, and the  *)
(* encoders with their strings and metadata.  They have no state in        *)
(* common; a behaviour exercises the one that part names.                  *)
(***************************************************************************)
EXTENDS SequencesExt, GRPCLogger

CONSTANTS
  Parts,   \* the components to exercise
  Nil

VARIABLES
  part,
  \* SugaredLogger
  args, i, fields, invalid, seenError, spc, method, lvl, levels, development, log, dropped,
  \* SlogHandler
  groups, context, opened, expected, record, derived,
  \* LineWriter
  enabled, buff, rest, lines, wpc, input, toggles,
  \* Encoding
  ctx, ctxTree, enc, frames, tree, cut, reports, phase, meta, stack, out, calls,
  \* JSONString
  string, si, last, jbuf, jpc,
  \* EntryLine
  console, section, line, elems, want,
  \* Fields
  fpc, val, mem, given, field, added,
  \* ErrorFields
  kind, errors, causes, now, epc, err, told

\* With five arguments every kind of report can follow every kind of field.  A core may
\* take no Error entries because its level is higher, or because it takes others only.
Sugared == INSTANCE SugaredLogger WITH
  MaxArgs <- 5, Enablers <- {{0, 2, 3}, {3}, {0}, {}}, pc <- spc, enabled <- levels

\* The group key "b" is also an attribute's; "" is a group to be inlined.
Slog == INSTANCE SlogHandler WITH
  Keys <- {"a", "b"}, GroupKeys <- {"", "b"}, Contents <- {{}, {"a"}},
  MaxCalls <- 2, MaxAttrs <- 2, calls <- derived

Lines == INSTANCE LineWriter WITH
  Bytes <- {"a", "b"}, NL <- "nl", MaxChunk <- 4, MaxBytes <- 6, MaxToggles <- 1, pc <- wpc

\* Two keys, which fields may repeat; and one key in deeper nestings.
Wide == INSTANCE Encoding WITH
  Keys <- {<<"a">>, <<"b">>}, MaxCalls <- 3, MaxDepth <- 2,
  Metadata <- {<< >>, <<<<"level">>, <<"msg">>>>}, Stack <- <<"stacktrace">>
Deep == INSTANCE Encoding WITH
  Keys <- {<<"a">>}, MaxCalls <- 4, MaxDepth <- 3,
  Metadata <- {<< >>}, Stack <- <<"stacktrace">>

\* 239, 191, 189 is the replacement character; 195, 191 is a rune of two bytes.
Strings == INSTANCE JSONString WITH
  Strings <- BoundedSeq({97, 34, 195, 239, 191, 189}, 5) \cup BoundedSeq({97, 31, 92, 10, 13, 9}, 2),
  s <- string, i <- si, buf <- jbuf, pc <- jpc

\* No slash, three, and one.
Metadata == INSTANCE EntryLine WITH
  Files <- {<<"a">>, <<"/", "a", "/", "b", "/", "c">>, <<"a", "/", "b">>}

\* With 16 bits for int64's 64, an int8 has 2.
Values == INSTANCE Fields WITH Word <- 16, pc <- fpc, out <- added

\* Two errors, the first with two causes.
Errors == INSTANCE ErrorFields WITH
  Paths <- {<< >>, <<1>>, <<1, 1>>, <<1, 2>>, <<2>>}, Width <- 2,
  pc <- epc, stack <- causes, out <- told

\* 6 is above every level of the gRPC logger.
MCThresholds == {-1, 0, 1, 2, 5, 6}

sugaredVars == <<args, i, fields, invalid, seenError, spc, method, lvl, levels, development, log, dropped>>
slogVars == <<groups, context, opened, expected, record, derived>>
linesVars == <<enabled, buff, rest, lines, wpc, input, toggles>>
encodingVars == <<ctx, ctxTree, enc, frames, tree, cut, reports, phase, meta, stack, out, calls>>
stringVars == <<string, si, last, jbuf, jpc>>
metadataVars == <<console, section, line, elems, want>>
valueVars == <<fpc, val, mem, given, field, added>>
errorVars == <<kind, errors, causes, now, epc, err, told>>
vars == <<part, sugaredVars, slogVars, linesVars, encodingVars, stringVars,
          metadataVars, valueVars, errorVars, grpcVars>>

Init ==
  /\ part \in Parts
  /\ Sugared!Init /\ Slog!Init /\ Lines!Init /\ Wide!Init /\ Strings!Init /\ Metadata!Init
  /\ Values!Init /\ Errors!Init /\ GRPCInit
  /\ part # "lines" => enabled   \* this level matters to the line writer only,
  /\ part # "sugared" => levels = {} /\ ~development   \* these to the SugaredLogger

Next ==
  /\ UNCHANGED part
  /\ \/ part = "sugared" /\ Sugared!Next
        /\ UNCHANGED <<slogVars, linesVars, encodingVars, stringVars, metadataVars,
                       valueVars, errorVars, grpcVars>>
     \/ part = "slog" /\ Slog!Next
        /\ UNCHANGED <<sugaredVars, linesVars, encodingVars, stringVars, metadataVars,
                       valueVars, errorVars, grpcVars>>
     \/ part = "lines" /\ Lines!Next
        /\ UNCHANGED <<sugaredVars, slogVars, encodingVars, stringVars, metadataVars,
                       valueVars, errorVars, grpcVars>>
     \/ part = "wide" /\ Wide!Next
        /\ UNCHANGED <<sugaredVars, slogVars, linesVars, stringVars, metadataVars, valueVars,
                       errorVars, grpcVars>>
     \/ part = "deep" /\ Deep!Next
        /\ UNCHANGED <<sugaredVars, slogVars, linesVars, stringVars, metadataVars, valueVars,
                       errorVars, grpcVars>>
     \/ part = "strings" /\ Strings!Next
        /\ UNCHANGED <<sugaredVars, slogVars, linesVars, encodingVars, metadataVars,
                       valueVars, errorVars, grpcVars>>
     \/ part = "metadata" /\ Metadata!Next
        /\ UNCHANGED <<sugaredVars, slogVars, linesVars, encodingVars, stringVars, valueVars,
                       errorVars, grpcVars>>
     \/ part = "values" /\ Values!Next
        /\ UNCHANGED <<sugaredVars, slogVars, linesVars, encodingVars, stringVars,
                       metadataVars, errorVars, grpcVars>>
     \/ part = "errors" /\ Errors!Next
        /\ UNCHANGED <<sugaredVars, slogVars, linesVars, encodingVars, stringVars,
                       metadataVars, valueVars, grpcVars>>
     \/ part = "grpc" /\ GRPCNext
        /\ UNCHANGED <<sugaredVars, slogVars, linesVars, encodingVars, stringVars,
                       metadataVars, valueVars, errorVars>>

Spec == Init /\ [][Next]_vars
-----------------------------------------------------------------------------
\* SugaredLogger.sweetenFields: every argument ends up in one place, in order, and
\* is reported for the reason given; only reports are lost if Error is not enabled.
EachArgumentOnce == Sugared!EachArgumentOnce

\* The comment of SugaredLogger.With: bad keys panic in development.
BadKeysPanic == Sugared!BadKeysPanic

\* The slog handler: every scalar is under the groups open when it was added.
ScalarsInPlace == Slog!ScalarsInPlace

\* ladio.Writer: one entry per line, however the stream is cut into Writes.
LinesAsReference == Lines!LinesAsReference

\* JSON and console encoders: every line is well-formed JSON and holds what the map
\* encoder holds, for the same fields, but for values json.Marshal refuses.
EncodersAgree == Wide!EncodersAgree

\* safeAppendStringLike: a JSON reader gets back the string that was logged.
StringsReadBack == Strings!StringsReadBack

\* EncodeEntry: each section of an entry is in the line once, as its encoder has it.
MetadataInLine == Metadata!MetadataInLine

\* Field constructors and AddTo: the encoder is given the value that was passed.
ValueAsPassed == Values!ValueAsPassed

\* encodeError: every cause of an error field is told, or the failure is.
CausesTold == Errors!CausesTold
=============================================================================
