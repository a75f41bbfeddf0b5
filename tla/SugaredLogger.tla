--------------------------- MODULE SugaredLogger ----------------------------
(***************************************************************************)
(* SugaredLogger.log and sweetenFields: a list of loosely typed arguments  *)
(* becomes fields, and what cannot become one is reported with a separate  *)
(* Error entry, if the base logger's core takes Error entries.  An         *)
(* argument is its kind; what becomes of it is recorded by its position.   *)
(***************************************************************************)
EXTENDS Integers, Sequences, SequencesExt, FiniteSets

CONSTANTS
  MaxArgs,      \* bound on the length of the argument list
  Enablers      \* the sets of levels that a core may have enabled

Kinds == {"Field", "error", "string", "other"}

InfoLevel == 0
ErrorLevel == 2
DPanicLevel == 3

VARIABLES
  args, i, fields, invalid, seenError,  \* of sweetenFields; i counts from 1
  pc,           \* "idle" | "loop" | "report" | "write" | "done" | "panicked"
  method,       \* "none" | "log" | "with"
  lvl,          \* the level of log
  enabled,      \* levels of the base logger's core
  development,  \* the base logger's option
  log,          \* what was logged, in order, or given to the derived logger
  dropped       \* history: the reports that Logger.check refused

logger == <<enabled, development>>
vars == <<args, i, fields, invalid, seenError, pc, method, lvl, logger, log, dropped>>

Init ==
  /\ args = << >> /\ i = 1 /\ fields = << >> /\ invalid = << >> /\ seenError = FALSE
  /\ pc = "idle" /\ method = "none" /\ lvl = InfoLevel /\ log = << >> /\ dropped = << >>
  /\ enabled \in Enablers /\ development \in BOOLEAN

\* Logger.check returns an entry to write, or one that only panics.
Writes(l) == l \in enabled
Panics(l) == l = DPanicLevel /\ development

\* sweetenFields, up to its loop.
Sweeten(as, m, l) ==
  /\ pc = "idle"
  /\ method' = m /\ lvl' = l
  /\ args' = as
  /\ pc' = IF as = << >> THEN "write" ELSE "loop"
  /\ UNCHANGED <<i, fields, invalid, seenError, logger, log, dropped>>

\* The logging methods up to DPanicLevel, Infow and the like; those that take no keys
\* and values pass an empty list.  (PanicLevel and FatalLevel are module Logger's.)
Log(as, l) == (Writes(l) \/ Panics(l)) /\ Sweeten(as, "log", l)

\* There is no entry: sweetenFields is not called.
LogDisabled(as, l) ==
  /\ pc = "idle"
  /\ ~Writes(l) /\ ~Panics(l)
  /\ lvl' = l /\ args' = as
  /\ pc' = "done"
  /\ UNCHANGED <<i, fields, invalid, seenError, method, logger, log, dropped>>

\* With and WithLazy, whatever the level.
With(as) == Sweeten(as, "with", InfoLevel)

Here == pc = "loop" /\ i <= Len(args)
Kind == args[i]

\* The level of s.base.Error.
ReportLevel == ErrorLevel

\* s.base.Error(...): an entry like any other, at the level its method has.
Report(what, positions, next) ==
  /\ LET r == [what |-> what, at |-> positions]
     IN IF Writes(ReportLevel) THEN log' = Append(log, r) /\ UNCHANGED dropped
        ELSE dropped' = Append(dropped, r) /\ UNCHANGED log
  /\ pc' = IF Panics(ReportLevel) THEN "panicked" ELSE next

Silent == UNCHANGED <<log, dropped>>

Consume(n) == i' = i + n /\ UNCHANGED <<args, method, lvl, logger>>

TakeField ==
  /\ Here /\ Kind = "Field"
  /\ fields' = Append(fields, <<i>>)
  /\ Consume(1) /\ Silent /\ UNCHANGED <<pc, invalid, seenError>>

\* Mutant of TakeError: errors after the first are skipped silently.
TakeErrorSilent ==
  /\ Here /\ Kind = "error"
  /\ fields' = IF seenError THEN fields ELSE Append(fields, <<i>>)
  /\ seenError' = TRUE
  /\ Consume(1) /\ Silent /\ UNCHANGED <<pc, invalid>>

TakeError ==
  /\ Here /\ Kind = "error"
  /\ IF seenError
     THEN Report("multipleErr", <<i>>, "loop") /\ UNCHANGED <<fields, seenError>>
     ELSE /\ fields' = Append(fields, <<i>>)
          /\ seenError' = TRUE
          /\ Silent /\ UNCHANGED pc
  /\ Consume(1) /\ UNCHANGED invalid

IsDangling == i = Len(args)

Dangling ==
  /\ Here /\ Kind \in {"string", "other"} /\ IsDangling
  /\ Report("oddNumber", <<i>>, "report")
  /\ UNCHANGED <<args, i, fields, invalid, seenError, method, lvl, logger>>

TakePair ==
  /\ Here /\ Kind \in {"string", "other"} /\ ~IsDangling
  /\ IF Kind = "string"
     THEN fields' = Append(fields, <<i, i + 1>>) /\ UNCHANGED invalid
     ELSE invalid' = Append(invalid, <<i, i + 1>>) /\ UNCHANGED fields
  /\ Consume(2) /\ Silent /\ UNCHANGED <<pc, seenError>>

LoopEnds ==
  /\ pc = "loop" /\ i > Len(args)
  /\ pc' = "report"
  /\ UNCHANGED <<args, i, fields, invalid, seenError, method, lvl, logger, log, dropped>>

\* The invalid pairs are reported together, after the loop.
ReportInvalid ==
  /\ pc = "report"
  /\ IF invalid # << >> THEN Report("nonStringKey", FlattenSeq(invalid), "write")
     ELSE pc' = "write" /\ Silent
  /\ UNCHANGED <<args, i, fields, invalid, seenError, method, lvl, logger>>

\* ce.Write(fields...), or the fields With gives to the derived logger.  An entry that
\* only panics is written nowhere.
WriteEntry ==
  /\ pc = "write"
  /\ log' = IF method = "log" /\ ~Writes(lvl) THEN log
            ELSE Append(log, [what |-> "entry", at |-> FlattenSeq(fields)])
  /\ pc' = IF method = "log" /\ Panics(lvl) THEN "panicked" ELSE "done"
  /\ UNCHANGED <<args, i, fields, invalid, seenError, method, lvl, logger, dropped>>

Next ==
  \/ pc = "idle" /\ \E as \in BoundedSeq(Kinds, MaxArgs) :
       With(as) \/ \E l \in {InfoLevel, DPanicLevel} : Log(as, l) \/ LogDisabled(as, l)
  \/ TakeField \/ TakeError \/ Dangling \/ TakePair \/ LoopEnds \/ ReportInvalid \/ WriteEntry

Spec == Init /\ [][Next]_vars
-----------------------------------------------------------------------------
Reports == log \o dropped

\* An argument is reported for the reason given and for no other: only strings
\* are keys, a dangling argument is the last one, and all errors but the first
\* that stand where a key could are reported.
ReportsAreJust ==
  \A k \in DOMAIN Reports :
    LET r == Reports[k] IN
    CASE r.what = "multipleErr" -> args[r.at[1]] = "error" /\ \E j \in 1..(r.at[1] - 1) : args[j] = "error"
      [] r.what = "oddNumber" -> r.at = <<Len(args)>> /\ args[Len(args)] \in {"string", "other"}
      [] r.what = "nonStringKey" -> \A a \in DOMAIN r.at : a % 2 = 1 => args[r.at[a]] = "other"
      [] OTHER -> TRUE

\* Whatever the level of the core and the mode of the logger, every argument of a call
\* that is not disabled ends up in exactly one place: in the entry (or the context), or
\* in one of the Error entries logged before it.  Within each the arguments keep their
\* order, and every report is just.  Only a core that does not take Error entries loses
\* the arguments it would have reported, never those that became fields; and only a
\* DPanic entry that the core does not take is lost itself (sweetenFields, Logger.check).
EachArgumentOnce ==
  /\ ReportsAreJust
  /\ dropped # << >> => ErrorLevel \notin enabled
  /\ pc \in {"done", "panicked"} /\ method # "none" =>
      LET all == FlattenSeq([k \in DOMAIN Reports |-> Reports[k].at])
          kept == {k \in DOMAIN log : log[k].what = "entry"}
      IN /\ kept = IF method = "log" /\ lvl \notin enabled THEN {} ELSE {Len(log)}
         /\ kept # {} => Len(all) = Len(args) /\ Range(all) = DOMAIN args
         /\ \A k \in DOMAIN Reports : \A a, b \in DOMAIN Reports[k].at :
              a < b => Reports[k].at[a] < Reports[k].at[b]

\* The comments of With and WithLazy: "In development, passing a non-string key panics";
\* "Passing an orphaned key triggers similar behavior".  A call that returns has met
\* neither.
BadKeysPanic ==
  development /\ pc = "done" =>
    \A k \in DOMAIN Reports : Reports[k].what \notin {"nonStringKey", "oddNumber"}
=============================================================================
