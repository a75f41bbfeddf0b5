------------------------------- MODULE Logger -------------------------------
(***************************************************************************)
(* lad.Logger over a tree of ladcore.Cores.  Goroutines log entries while  *)
(* others change AtomicLevels.  A call first asks the core whether the     *)
(* level is enabled, then lets the tree collect the cores that accept the  *)
(* entry in a pooled CheckedEntry, and writes to them; terminal levels     *)
(* then panic or exit.  The two walks over the tree keep the nodes still   *)
(* to be visited in todo, and read one AtomicLevel per step.  Samplers     *)
(* decide arbitrarily here (one that does not pass the entry on may also   *)
(* have found the level disabled); lazily evaluated fields are another     *)
(* module's.                                                               *)
(***************************************************************************)
EXTENDS Integers, Sequences, FiniteSets

CONSTANTS
  Procs,        \* goroutines that log
  Nodes,        \* the cores
  Kind,         \* Kind[n]: nop, io, tee, hooked, filter, sampler or lazy
  Kids,         \* Kids[n]: the wrapped cores of n, in order
  Atoms,        \* the AtomicLevels
  Gate,         \* Gate[n]: the AtomicLevel of an io or filter core
  LevelValues,  \* what SetLevel may be given
  EntryLevels,  \* the levels logged at
  CEs,          \* CheckedEntry objects
  Options,      \* the Loggers: records [core, onPanic, onFatal, development]
  MayFail       \* whether writes and hooks may return errors

ErrorLevel == 2
DPanicLevel == 3
PanicLevel == 4
FatalLevel == 5
NoCE == "no CheckedEntry"

ASSUME TreeAssumption ==
  /\ \A o \in Options : o.core \in Nodes
  /\ Kind \in [Nodes -> {"nop", "io", "tee", "hooked", "filter", "sampler", "lazy"}]
  /\ Kids \in [Nodes -> Seq(Nodes)]
  /\ \A n \in Nodes : /\ Kind[n] \in {"hooked", "filter", "sampler", "lazy"} => Len(Kids[n]) = 1
                      /\ Kind[n] = "io" => Kids[n] = << >>
\* A core is built around cores that exist already, and no core is wrapped twice.
ASSUME BuiltAssumption ==
  /\ \A m, n \in Nodes : \A i \in DOMAIN Kids[m], j \in DOMAIN Kids[n] :
       Kids[m][i] = Kids[n][j] => m = n /\ i = j
  /\ \A S \in SUBSET Nodes : S # {} => \E n \in S : \A i \in DOMAIN Kids[n] : Kids[n][i] \notin S
ASSUME LevelAssumption == LevelValues \subseteq Int /\ EntryLevels \subseteq Int
ASSUME GateAssumption == Gate \in [Nodes -> Atoms]
ASSUME CEAssumption == NoCE \notin CEs
\* WithPanicHook and WithFatalHook take a CheckWriteAction or a hook of the program's.
Overrides == {"nil", "noop", "custom", "panic", "goexit", "fatal"}
ASSUME HookAssumption ==
  \A o \in Options : o.onPanic \in Overrides /\ o.onFatal \in Overrides
ASSUME FailAssumption == MayFail \in BOOLEAN

VARIABLES
  opt,        \* the fields of the Logger
  lev,        \* the AtomicLevels
  pool,       \* _cePool
  ces,        \* the CheckedEntry objects
  pc, lvl,    \* a goroutine's call: where, and ent.Level
  todo,       \* steps left of the walk over the tree
  ce,         \* the call's CheckedEntry
  next,       \* index of the loop over ce.cores
  errs,       \* the cores whose errors are in err of CheckedEntry.Write
  exited,     \* os.Exit was called
  ever, always,     \* history: AtomicLevels that enabled lvl at some time, always
  written, synced,  \* history: cores written and synced in the call
  reported,         \* history: the call wrote to ErrorOutput
  sampledOut,       \* history: samplers that did not pass the entry on
  outcome           \* history: how the call ended

call == <<pc, lvl, todo, ce, next, errs>>
history == <<ever, always, written, synced, reported, sampledOut, outcome>>
vars == <<opt, lev, pool, ces, call, exited, history>>

Enabled(a, l) == l >= lev[a]
EnabledAtoms(l) == {a \in Atoms : Enabled(a, l)}
Range(f) == {f[x] : x \in DOMAIN f}
Held == {ce[p] : p \in Procs} \ {NoCE}

Init ==
  /\ opt \in Options
  /\ lev \in [Atoms -> LevelValues]
  /\ pool = {}
  /\ ces = [c \in CEs |-> [cores |-> << >>, after |-> "nil", errorOutput |-> FALSE,
                           dirty |-> FALSE]]
  /\ pc = [p \in Procs |-> "idle"]
  /\ lvl = [p \in Procs |-> 0]
  /\ todo = [p \in Procs |-> << >>]
  /\ ce = [p \in Procs |-> NoCE]
  /\ next = [p \in Procs |-> 1]
  /\ errs = [p \in Procs |-> {}]
  /\ exited = FALSE
  /\ ever = [p \in Procs |-> {}]
  /\ always = [p \in Procs |-> {}]
  /\ written = [p \in Procs |-> << >>]
  /\ synced = [p \in Procs |-> {}]
  /\ reported = [p \in Procs |-> FALSE]
  /\ sampledOut = [p \in Procs |-> {}]
  /\ outcome = [p \in Procs |-> "none"]

Visits(ns) == [i \in DOMAIN ns |-> <<"visit", ns[i]>>]
Walk(p, steps) == todo' = [todo EXCEPT ![p] = steps \o Tail(@)]

\* The call of p ends with result r.
End(p, r) ==
  /\ pc' = [pc EXCEPT ![p] = IF r = "goexit" THEN "dead" ELSE "idle"]
  /\ ce' = [ce EXCEPT ![p] = NoCE]
  /\ outcome' = [outcome EXCEPT ![p] = r]
-----------------------------------------------------------------------------
\* "Since Panic and higher may exit, we skip the optimization for those levels."
SkipsFastPath(l) == l >= DPanicLevel

\* A method of the Logger is called with level l.
Log(p, l) ==
  /\ pc[p] = "idle"
  /\ pc' = [pc EXCEPT ![p] = IF SkipsFastPath(l) THEN "check" ELSE "enabled"]
  /\ lvl' = [lvl EXCEPT ![p] = l]
  /\ todo' = [todo EXCEPT ![p] = << <<"visit", opt.core>> >>]
  /\ ever' = [ever EXCEPT ![p] = EnabledAtoms(l)]
  /\ always' = [always EXCEPT ![p] = EnabledAtoms(l)]
  /\ written' = [written EXCEPT ![p] = << >>]
  /\ synced' = [synced EXCEPT ![p] = {}]
  /\ reported' = [reported EXCEPT ![p] = FALSE]
  /\ sampledOut' = [sampledOut EXCEPT ![p] = {}]
  /\ outcome' = [outcome EXCEPT ![p] = "none"]
  /\ next' = [next EXCEPT ![p] = 1]
  /\ errs' = [errs EXCEPT ![p] = {}]
  /\ UNCHANGED <<opt, lev, pool, ces, ce, exited>>

\* Mutant of CoreEnabled: a tee answers for its first core.
CoreEnabledFirst(p) ==
  /\ pc[p] = "enabled"
  /\ LET n == Head(todo[p])[2]
     IN IF Kind[n] = "tee"
        THEN todo' = [todo EXCEPT ![p] = Visits(<<Kids[n][1]>>)] /\ UNCHANGED <<pc, ce, outcome>>
        ELSE IF Enabled(Gate[n], lvl[p])
        THEN /\ pc' = [pc EXCEPT ![p] = "check"]
             /\ todo' = [todo EXCEPT ![p] = << <<"visit", opt.core>> >>]
             /\ UNCHANGED <<ce, outcome>>
        ELSE End(p, "returned") /\ UNCHANGED todo
  /\ UNCHANGED <<opt, lev, pool, ces, lvl, next, errs, exited, ever, always,
                 written, synced, reported, sampledOut>>

\* One step of log.core.Enabled(lvl), which stops at the first true.
CoreEnabled(p) ==
  /\ pc[p] = "enabled"
  /\ IF todo[p] = << >>
     THEN End(p, "returned") /\ UNCHANGED todo
     ELSE LET n == Head(todo[p])[2]
          IN /\ IF Kind[n] \in {"io", "filter"} /\ Enabled(Gate[n], lvl[p])
                THEN /\ pc' = [pc EXCEPT ![p] = "check"]
                     /\ todo' = [todo EXCEPT ![p] = << <<"visit", opt.core>> >>]
                ELSE /\ Walk(p, IF Kind[n] = "filter" THEN << >> ELSE Visits(Kids[n]))
                     /\ UNCHANGED pc
             /\ UNCHANGED <<ce, outcome>>
  /\ UNCHANGED <<opt, lev, pool, ces, lvl, next, errs, exited, ever, always,
                 written, synced, reported, sampledOut>>

\* Mutant of Reset: the hook of the last use is kept.
ResetKeepsAfter(r) ==
  [cores |-> << >>, after |-> r.after, errorOutput |-> FALSE, dirty |-> FALSE]
\* CheckedEntry.reset.
Reset(r) ==
  [cores |-> << >>, after |-> "nil", errorOutput |-> FALSE, dirty |-> FALSE]

\* A change to a CheckedEntry: a core that is added, a hook, an ErrorOutput.
NoChange == [cores |-> << >>, after |-> "nil", errorOutput |-> FALSE]
Amend(r, d) == [r EXCEPT !.cores = @ \o d.cores,
                         !.after = IF d.after = "nil" THEN @ ELSE d.after,
                         !.errorOutput = @ \/ d.errorOutput]

\* The change d is made to p's CheckedEntry; if it is nil, to one from the pool,
\* which makes a new one or hands out any it holds.
Update(p, d) ==
  IF ce[p] # NoCE
  THEN /\ ces' = [ces EXCEPT ![ce[p]] = Amend(@, d)]
       /\ UNCHANGED <<ce, pool>>
  ELSE \E c \in CEs \ Held :
         /\ ce' = [ce EXCEPT ![p] = c]
         /\ pool' = pool \ {c}
         /\ ces' = [ces EXCEPT ![c] = Amend(Reset(@), d)]

AddCore(p, n) == Update(p, [NoChange EXCEPT !.cores = <<n>>])

\* Core.Check of the next node n of the walk, one operator per kind of core.
CheckIo(p, n) ==
  /\ Kind[n] = "io"
  /\ IF Enabled(Gate[n], lvl[p]) THEN AddCore(p, n) ELSE UNCHANGED <<ce, ces, pool>>
  /\ Walk(p, << >>)
  /\ UNCHANGED sampledOut

\* A tee asks its cores in order; a nop core has none, a lazy core has one.
CheckTee(p, n) ==
  /\ Kind[n] \in {"nop", "tee", "lazy"}
  /\ Walk(p, Visits(Kids[n]))
  /\ UNCHANGED <<ce, ces, pool, sampledOut>>

CheckFilter(p, n) ==
  /\ Kind[n] = "filter"
  /\ Walk(p, IF Enabled(Gate[n], lvl[p]) THEN Visits(Kids[n]) ELSE << >>)
  /\ UNCHANGED <<ce, ces, pool, sampledOut>>

CheckSampler(p, n) ==
  /\ Kind[n] = "sampler"
  /\ \/ Walk(p, Visits(Kids[n])) /\ UNCHANGED sampledOut
     \/ /\ Walk(p, << >>)
        /\ sampledOut' = [sampledOut EXCEPT ![p] = @ \cup {n}]
  /\ UNCHANGED <<ce, ces, pool>>

\* hooked.Check calls the wrapped core, ...
CheckHooked(p, n) ==
  /\ Kind[n] = "hooked"
  /\ Walk(p, Visits(Kids[n]) \o << <<"hook", n>> >>)
  /\ UNCHANGED <<ce, ces, pool, sampledOut>>

\* ... and adds itself if there is a CheckedEntry afterwards.
AddHooks(p, n) ==
  /\ IF ce[p] # NoCE THEN AddCore(p, n) ELSE UNCHANGED <<ce, ces, pool>>
  /\ Walk(p, << >>)
  /\ UNCHANGED sampledOut

CoreCheck(p) ==
  /\ pc[p] = "check"
  /\ todo[p] # << >>
  /\ LET n == Head(todo[p])[2]
     IN \/ /\ Head(todo[p])[1] = "visit"
           /\ \/ CheckIo(p, n) \/ CheckTee(p, n) \/ CheckFilter(p, n)
              \/ CheckSampler(p, n) \/ CheckHooked(p, n)
        \/ Head(todo[p])[1] = "hook" /\ AddHooks(p, n)
  /\ UNCHANGED <<opt, lev, pc, lvl, next, errs, exited, ever, always, written,
                 synced, reported, outcome>>

\* terminalHookOverride: nil and WriteThenNoop select the default.
TerminalHookOverride(default, override) ==
  IF override \in {"nil", "noop"} THEN default ELSE override

\* The hook Logger.check sets up for the level, or "nil".
TerminalHook(l) ==
  CASE l = PanicLevel -> TerminalHookOverride("panic", opt.onPanic)
    [] l = FatalLevel -> TerminalHookOverride("fatal", opt.onFatal)
    [] l = DPanicLevel /\ opt.development -> TerminalHookOverride("panic", opt.onPanic)
    [] OTHER -> "nil"

\* The rest of Logger.check: terminal behaviour, then ErrorOutput if some core
\* will write.
SetUp(p) ==
  /\ pc[p] = "check"
  /\ todo[p] = << >>
  /\ LET hook == TerminalHook(lvl[p])
     IN IF ce[p] = NoCE /\ hook = "nil"
        THEN End(p, "returned") /\ UNCHANGED <<ces, pool>>
        ELSE /\ Update(p, [NoChange EXCEPT !.after = hook, !.errorOutput = ce[p] # NoCE])
             /\ pc' = [pc EXCEPT ![p] = "write"]
             /\ UNCHANGED outcome
  /\ UNCHANGED <<opt, lev, lvl, todo, next, errs, exited, ever, always, written,
                 synced, reported, sampledOut>>
-----------------------------------------------------------------------------
\* Mutant of BeginWrite: the entry is returned to the pool before it is written.
BeginWriteEarlyPut(p) ==
  /\ pc[p] = "write"
  /\ ces' = [ces EXCEPT ![ce[p]].dirty = TRUE]
  /\ pool' = pool \cup {ce[p]}
  /\ pc' = [pc EXCEPT ![p] = "cores"]
  /\ UNCHANGED <<opt, lev, ce, lvl, todo, next, errs, exited, history>>

\* CheckedEntry.Write up to its loop; a dirty entry is reported and left alone.
BeginWrite(p) ==
  /\ pc[p] = "write"
  /\ IF ces[ce[p]].dirty
     THEN End(p, "unsafe") /\ UNCHANGED ces
     ELSE /\ ces' = [ces EXCEPT ![ce[p]].dirty = TRUE]
          /\ pc' = [pc EXCEPT ![p] = "cores"]
          /\ UNCHANGED <<ce, outcome>>
  /\ UNCHANGED <<opt, lev, pool, lvl, todo, next, errs, exited, ever, always,
                 written, synced, reported, sampledOut>>

\* Mutant of MustSync: only the levels that may exit.
MustSyncFatal(l) == l > FatalLevel
\* "Since we may be crashing the program, sync the output."
MustSync(l) == l > ErrorLevel

\* One iteration of the loop: Write of an io core or of a hooked core.
WriteCore(p) ==
  /\ pc[p] = "cores"
  /\ next[p] <= Len(ces[ce[p]].cores)
  /\ LET n == ces[ce[p]].cores[next[p]]
     IN \E fail \in {FALSE, MayFail} :
          /\ errs' = [errs EXCEPT ![p] = IF fail THEN @ \cup {n} ELSE @]
          /\ written' = [written EXCEPT ![p] = Append(@, n)]
          /\ IF Kind[n] = "io" /\ ~fail /\ MustSync(lvl[p])
             THEN pc' = [pc EXCEPT ![p] = "sync"] /\ UNCHANGED next
             ELSE next' = [next EXCEPT ![p] = @ + 1] /\ UNCHANGED pc
  /\ UNCHANGED <<opt, lev, pool, ces, lvl, todo, ce, exited, ever, always, synced, reported,
                 sampledOut, outcome>>
\* c.Sync() of the io core just written; its error is ignored.
SyncCore(p) ==
  /\ pc[p] = "sync"
  /\ synced' = [synced EXCEPT ![p] = @ \cup {ces[ce[p]].cores[next[p]]}]
  /\ next' = [next EXCEPT ![p] = @ + 1]
  /\ pc' = [pc EXCEPT ![p] = "cores"]
  /\ UNCHANGED <<opt, lev, pool, ces, lvl, todo, ce, errs, exited, ever, always,
                 written, reported, sampledOut, outcome>>

\* After the loop: errors go to ErrorOutput.
Report(p) ==
  /\ pc[p] = "cores"
  /\ next[p] > Len(ces[ce[p]].cores)
  /\ reported' = [reported EXCEPT ![p] = errs[p] # {} /\ ces[ce[p]].errorOutput]
  /\ pc' = [pc EXCEPT ![p] = "hook"]
  /\ UNCHANGED <<opt, lev, pool, ces, lvl, todo, ce, next, errs, exited, ever,
                 always, written, synced, sampledOut, outcome>>

\* The terminal hook, and putCheckedEntry if it returns: a panic, Goexit and
\* os.Exit do not, and leave the entry to the garbage collector.
RunHook(p) ==
  /\ pc[p] = "hook"
  /\ LET hook == ces[ce[p]].after
     IN CASE hook = "nil"    -> pool' = pool \cup {ce[p]} /\ End(p, "returned")
                                /\ UNCHANGED exited
          [] hook = "custom" -> pool' = pool \cup {ce[p]} /\ End(p, "custom")
                                /\ UNCHANGED exited
          [] hook = "panic"  -> End(p, "panicked") /\ UNCHANGED <<pool, exited>>
          [] hook = "goexit" -> End(p, "goexit") /\ UNCHANGED <<pool, exited>>
          [] hook = "fatal"  -> End(p, "exited") /\ exited' = TRUE /\ UNCHANGED pool
  /\ UNCHANGED <<opt, lev, ces, lvl, todo, next, errs, ever, always, written,
                 synced, reported, sampledOut>>

\* AtomicLevel.SetLevel, from any goroutine or from the HTTP handler.
SetLevel(a, l) ==
  /\ lev' = [lev EXCEPT ![a] = l]
  /\ LET choosing == {p \in Procs : pc[p] \in {"enabled", "check"}}
         on(p) == lvl[p] >= l
     IN /\ ever' = [p \in Procs |-> IF p \in choosing /\ on(p)
                                    THEN ever[p] \cup {a} ELSE ever[p]]
        /\ always' = [p \in Procs |-> IF p \in choosing /\ ~on(p)
                                      THEN always[p] \ {a} ELSE always[p]]
  /\ UNCHANGED <<opt, pool, ces, call, exited, written, synced, reported, sampledOut,
                 outcome>>

Step(p) ==
  \/ CoreEnabled(p) \/ CoreCheck(p) \/ SetUp(p)
  \/ BeginWrite(p) \/ WriteCore(p) \/ SyncCore(p) \/ Report(p) \/ RunHook(p)

Next ==
  /\ ~exited
  /\ \/ \E p \in Procs, l \in EntryLevels : Log(p, l)
     \/ \E p \in Procs : Step(p)
     \/ \E a \in Atoms, l \in LevelValues : SetLevel(a, l)

Spec == Init /\ [][Next]_vars
-----------------------------------------------------------------------------
Hook == {"nil", "custom", "panic", "goexit", "fatal"}

\* Types of the state; a call that is writing holds a CheckedEntry.
TypeOK ==
  /\ opt \in Options
  /\ lev \in [Atoms -> LevelValues]
  /\ pool \subseteq CEs
  /\ ces \in [CEs -> [cores : Seq(Nodes), after : Hook, errorOutput : BOOLEAN,
                      dirty : BOOLEAN]]
  /\ pc \in [Procs -> {"idle", "enabled", "check", "write", "cores", "sync", "hook",
                       "dead"}]
  /\ lvl \in [Procs -> EntryLevels \cup {0}]
  /\ todo \in [Procs -> Seq({"visit", "hook"} \X Nodes)]
  /\ ce \in [Procs -> CEs \cup {NoCE}]
  /\ \A p \in Procs : pc[p] \in {"write", "cores", "sync", "hook"} => ce[p] # NoCE
  /\ next \in [Procs -> Nat \ {0}]
  /\ exited \in BOOLEAN

\* A CheckedEntry belongs to one call or to the pool: no goroutine can be given
\* one that another is still writing.
PoolSafe ==
  /\ Held \cap pool = {}
  /\ \A p, q \in Procs : p # q /\ ce[p] # NoCE => ce[p] # ce[q]

IsTerminal(l) == l \in {PanicLevel, FatalLevel} \/ (l = DPanicLevel /\ opt.development)

\* Panic and Fatal, and DPanic in development, never return to the caller, even
\* if no core is enabled or the hook given is nil or WriteThenNoop (a custom hook
\* that returns is the user's choice); other levels never terminate, whatever the
\* CheckedEntry was used for before.
TerminatesIffTerminal ==
  \A p \in Procs :
    /\ outcome[p] = "returned" => ~IsTerminal(lvl[p])
    /\ outcome[p] \notin {"none", "returned"} => IsTerminal(lvl[p])

\* n and the cores around it: the least set that has n and, with a core, the one
\* that wraps it.
WithParents(S) == \A m \in Nodes : (\E i \in DOMAIN Kids[m] : Kids[m][i] \in S) => m \in S
Above == [n \in Nodes |-> {m \in Nodes : \A S \in SUBSET Nodes : n \in S /\ WithParents(S) => m \in S}]

\* The cores on the way from n up to the Logger's, both included.
Path(n) == {m \in Above[n] : opt.core \in Above[m]}
Gates(n) == {Gate[m] : m \in {m \in Path(n) : Kind[m] \in {"io", "filter"}}}

\* A call writes to an io core, once, if the core's level and the filters above
\* it enabled the entry throughout the call and no sampler dropped it, and not
\* if one of them never did: no sibling in a tee, and no AtomicLevel changing
\* meanwhile, adds or loses an entry.
Delivery ==
  \A p \in Procs : outcome[p] # "none" =>
    \A n \in {n \in Nodes : Kind[n] = "io" /\ opt.core \in Path(n)} :
      LET at == {i \in DOMAIN written[p] : written[p][i] = n}
      IN /\ \A i, j \in at : i = j
         /\ at # {} => Gates(n) \subseteq ever[p]
         /\ Gates(n) \subseteq always[p] /\ Path(n) \cap sampledOut[p] = {} => at # {}

\* When the program exits, or the goroutine panics, every output that took the
\* entry has been synced and every error has been reported.
DurableBeforeTermination ==
  \A p \in Procs : outcome[p] \in {"exited", "panicked", "goexit"} =>
    /\ \A i \in DOMAIN written[p] :
         Kind[written[p][i]] = "io" => written[p][i] \in synced[p] \cup errs[p]
    /\ errs[p] # {} => reported[p]

\* "Let the wrapped Core decide whether to log this message or not": hooks run
\* only if the core they wrap took the entry.
HooksFollowCore ==
  \A p \in Procs : \A i \in DOMAIN written[p] : Kind[written[p][i]] = "hooked" =>
    \E j \in DOMAIN written[p] :
      Kind[written[p][j]] = "io" /\ written[p][i] \in Path(written[p][j])
=============================================================================
