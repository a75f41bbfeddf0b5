----------------------------- MODULE Derivation -----------------------------
(***************************************************************************)
(* Loggers derived from loggers: With, WithLazy, Named, WithOptions, Sugar *)
(* and Desugar, and the standard library's logger over one.  Every one of  *)
(* them clones the Logger struct and changes the clone, so that whoever    *)
(* holds the original sees nothing of it; and each keeps count of the      *)
(* frames between the program's call and Logger.check, so that the caller  *)
(* an entry is annotated with is the program's.                            *)
(***************************************************************************)
EXTENDS Integers, Sequences

CONSTANTS
  Segments,     \* segments of logger names, "" excluded
  ContextFields, \* fields of contexts
  Settings,     \* fields of Logger that an option assigns: errorOutput, ...
  Values,       \* what they may be assigned
  Default,      \* what New assigns them
  Skips,        \* arguments of AddCallerSkip
  Levels,       \* arguments of IncreaseLevel
  CoreLevel,    \* level of the core given to New
  MaxHandles,   \* bound on the loggers derived
  MaxOptions    \* bound on the options of one WithOptions

ASSUME DerivationAssumption ==
  /\ Skips \subseteq Int /\ Levels \subseteq Int /\ CoreLevel \in Int
  /\ MaxHandles \in Nat /\ MaxOptions \in Nat

VARIABLES
  structs,   \* the Logger structs, by address
  held,      \* what the program holds: a *Logger, a *SugaredLogger (its base) or
             \* a log.Logger (the Logger it writes to), and what was asked of it
  building,  \* address of the clone WithOptions works on; 0: none
  kind,      \* whether it works on a "logger" or a "sugared" one
  asked,     \* what is asked of the logger being built
  applied    \* number of options applied

derivationVars == <<structs, held, building, kind, asked, applied>>

MinLevel == -1
MaxLevel == 5

\* New, for a core that is not nil.
Root == [context |-> << >>, top |-> CoreLevel, filters |-> {CoreLevel}, name |-> << >>,
         callerSkip |-> 0, set |-> [s \in Settings |-> Default]]

\* What the program asked for: context and settings as given, name segments, the
\* highest of the levels, and the frames of its own to skip.
AskedRoot == [context |-> << >>, level |-> CoreLevel, segments |-> << >>, skip |-> 0,
              set |-> [s \in Settings |-> Default]]

DerivationInit ==
  /\ structs = <<Root>>
  /\ held = <<[base |-> 1, kind |-> "logger", asked |-> AskedRoot]>>
  /\ building = 0 /\ kind = "logger" /\ asked = AskedRoot /\ applied = 0
-----------------------------------------------------------------------------
Idle == building = 0 /\ Len(held) < MaxHandles

Handle(address, k, a) == [base |-> address, kind |-> k, asked |-> a]
Return(address, k, a) == held' = Append(held, Handle(address, k, a))

\* Mutant of Derive: the receiver is changed in place.
DeriveInPlace(h, l, k, a) ==
  /\ structs' = [structs EXCEPT ![held[h].base] = l]
  /\ Return(held[h].base, k, a)
  /\ UNCHANGED <<building, kind, asked, applied>>

\* clone, changed to l.
Derive(h, l, k, a) ==
  /\ structs' = Append(structs, l)
  /\ Return(Len(structs) + 1, k, a)
  /\ UNCHANGED <<building, kind, asked, applied>>

\* The receiver itself: nothing to add.
Same(h) ==
  /\ Return(held[h].base, held[h].kind, held[h].asked)
  /\ UNCHANGED <<structs, building, kind, asked, applied>>

Of(h) == structs[held[h].base]
Skipping(l, n) == [l EXCEPT !.callerSkip = @ + n]

Sugar(h) ==
  /\ Idle /\ held[h].kind = "logger"
  /\ Derive(h, Skipping(Of(h), 2), "sugared", held[h].asked)

\* Mutant of Desugar: the frames Sugar added stay.
DesugarKeepsSkip(h) ==
  /\ Idle /\ held[h].kind = "sugared"
  /\ Derive(h, Of(h), "logger", held[h].asked)

Desugar(h) ==
  /\ Idle /\ held[h].kind = "sugared"
  /\ Derive(h, Skipping(Of(h), -2), "logger", held[h].asked)

\* _stdLogDefaultDepth + _loggerWriterDepth.
NewStdLog(h) ==
  /\ Idle /\ held[h].kind = "logger"
  /\ Derive(h, Skipping(Of(h), 3), "std", held[h].asked)

Extended(name, s) == IF name = << >> THEN <<s>> ELSE name \o <<".", s>>

Named(h, s) ==
  /\ Idle /\ held[h].kind # "std"
  /\ IF s = "" THEN Same(h)
     ELSE Derive(h, [Of(h) EXCEPT !.name = Extended(@, s)], held[h].kind,
                 [held[h].asked EXCEPT !.segments = Append(@, s)])

\* With and WithLazy; when the fields are evaluated is LazyWith's matter.
With(h, fs) ==
  /\ Idle /\ held[h].kind # "std"
  /\ IF fs = << >> THEN Same(h)
     ELSE Derive(h, [Of(h) EXCEPT !.context = @ \o fs], held[h].kind,
                 [held[h].asked EXCEPT !.context = @ \o fs])
-----------------------------------------------------------------------------
(* WithOptions, of a Logger and of a SugaredLogger, one option at a time.  *)

WithOptions(h) ==
  /\ Idle /\ held[h].kind # "std"
  /\ structs' = Append(structs, Of(h))
  /\ building' = Len(structs) + 1
  /\ kind' = held[h].kind /\ asked' = held[h].asked /\ applied' = 0
  /\ UNCHANGED held

Apply(l, a) ==
  /\ building # 0 /\ applied < MaxOptions
  /\ structs' = [structs EXCEPT ![building] = l]
  /\ asked' = a
  /\ applied' = applied + 1
  /\ UNCHANGED <<held, building, kind>>

\* ErrorOutput, Development, WithCaller, AddStacktrace, WithPanicHook,
\* WithFatalHook, WithClock.
Assign(s, v) ==
  Apply([structs[building] EXCEPT !.set[s] = v], [asked EXCEPT !.set[s] = v])

AddCallerSkip(n) ==
  Apply(Skipping(structs[building], n), [asked EXCEPT !.skip = @ + n])

\* The option Fields; WrapCore and Hooks likewise replace the clone's core.
AddFields(fs) ==
  Apply([structs[building] EXCEPT !.context = @ \o fs], [asked EXCEPT !.context = @ \o fs])

\* NewIncreaseLevelCore: lvl enables a level the core does not.
Decreases(l, lvl) == \E v \in MinLevel..MaxLevel : v < l.top /\ v >= lvl

\* The error is written to errorOutput; the core stays.
IncreaseLevel(lvl) ==
  Apply(IF Decreases(structs[building], lvl) THEN structs[building]
        ELSE [structs[building] EXCEPT !.top = lvl, !.filters = @ \cup {lvl}],
        [asked EXCEPT !.level = IF lvl > @ THEN lvl ELSE @])

EndOptions ==
  /\ building # 0
  /\ Return(building, kind, asked)
  /\ building' = 0 /\ kind' = "logger" /\ asked' = AskedRoot /\ applied' = 0
  /\ UNCHANGED structs

DerivationNext ==
  \/ \E h \in DOMAIN held :
       \/ Sugar(h) \/ Desugar(h) \/ NewStdLog(h) \/ WithOptions(h)
       \/ \E s \in Segments \cup {""} : Named(h, s)
       \/ \E fs \in {<< >>} \cup {<<f>> : f \in ContextFields} : With(h, fs)
  \/ \E s \in Settings, v \in Values : Assign(s, v)
  \/ \E n \in Skips : AddCallerSkip(n)
  \/ \E f \in ContextFields : AddFields(<<f>>)
  \/ \E lvl \in Levels : IncreaseLevel(lvl)
  \/ EndOptions

DerivationSpec == DerivationInit /\ [][DerivationNext]_derivationVars
-----------------------------------------------------------------------------
\* Segments joined by periods.
Joined(segments) ==
  [i \in 1..(IF segments = << >> THEN 0 ELSE 2 * Len(segments) - 1) |->
     IF i % 2 = 1 THEN segments[(i + 1) \div 2] ELSE "."]

\* The levels a logger writes: the fast path asks the topmost core, Check every one.
Writes(l, v) == v >= l.top /\ \A f \in l.filters : v >= f

\* Every logger the program holds has the name, context, settings and level asked
\* of it, whatever was derived from it, or from its relatives, since: clone keeps
\* them apart, and IncreaseLevel never lowers a level (Logger.clone, With,
\* WithOptions, options.go).
DerivedAsAsked ==
  \A h \in DOMAIN held :
    LET l == Of(h)
        a == held[h].asked
    IN /\ l.name = Joined(a.segments)
       /\ l.context = a.context
       /\ l.set = a.set
       /\ \A v \in MinLevel..MaxLevel : Writes(l, v) <=> v >= a.level

\* The frames between the program's call and the call of Capture, Logger.check's
\* included.  The last two of "std" are the standard library's.
Frames(k) ==
  CASE k = "logger" -> <<"check", "Info">>
    [] k = "sugared" -> <<"check", "Check", "log", "Infow">>
    [] k = "std" -> <<"check", "Info", "Write", "output", "Print">>

callerSkipOffset == 2

\* Through any chain of Sugar, Desugar, WithOptions and the rest, the frame that
\* Logger.check takes for the caller is the program's own call, or as many frames
\* further out as AddCallerSkip asked for.
CallerIsTheProgram ==
  \A h \in DOMAIN held :
    Of(h).callerSkip + callerSkipOffset = Len(Frames(held[h].kind)) + held[h].asked.skip
=============================================================================
