# Verification of lad

`lad` is a structured, leveled logging library for Go, a fork of zap. This
directory holds TLA+ models of its components, TLC configurations that check
them on small instances, and TLAPS proofs that hold for every value of the
constants. Paths below are relative to `src/`.

## 1. The system

A `Logger` (or the `SugaredLogger` around it) turns a call into an `Entry`, asks
a tree of `Core`s which of them want it, and writes it to those. A core encodes
the entry with an `Encoder` and passes the bytes to a `WriteSyncer`. Around this
path stand wrappers of cores (tee, hooks, level filter, sampler, lazy fields),
wrappers of WriteSyncers (lock, multi, buffer), adapters from other logging
interfaces (standard library, `io.Writer`, slog, grpc, testing), configuration
and registries, and test doubles (observer, mock clock).

| component | state it owns | operations | who shares it |
|---|---|---|---|
| Logger, CheckedEntry (`logger.go`, `ladcore/entry.go`) | options, the CheckedEntry pool | the logging methods, `Check`, `Write`, terminal hooks | all logging goroutines |
| Cores (`ladcore/core.go`, `tee.go`, `hook.go`, `increase_level.go`) | the tree, its levels | `Enabled`, `Check`, `Write`, `Sync`, `With` | all logging goroutines |
| lazyWithCore (`ladcore/lazy_with.go`) | a `sync.Once`, the wrapped core | `With`, `Check`, promoted `Enabled` | loggers derived from each other |
| Sampler (`ladcore/sampler.go`) | a table of atomic counters | `Check` | all clones made by `With` |
| BufferedWriteSyncer (`ladcore/buffered_write_syncer.go`) | buffer, ticker, two channels, mutex | `Write`, `Sync`, `Stop`, the flush loop | goroutines and the flush loop |
| Locked and multi WriteSyncer (`ladcore/write_syncer.go`, `writer.go`) | mutex | `Write`, `Sync` | all writers |
| AtomicLevel and HTTP handler (`level.go`, `http_handler.go`) | one atomic word | `SetLevel`, GET, PUT | requests, program, loggers |
| Derivation (`logger.go`, `options.go`, `sugar.go`, `global.go`) | one struct per logger | `New`, `With`, `WithLazy`, `Named`, `WithOptions`, `Sugar`, `Desugar`, `NewStdLog` | loggers derived from each other |
| Pools (`buffer/`, `internal/pool`, `internal/bufferpool`, `internal/stacktrace`) | free buffers, encoders, slice encoders, stacks | `Get`, `Free`, `Capture`, `FormatStack` | all logging goroutines |
| Encoders (`ladcore/json_encoder.go`, `console_encoder.go`, `memory_encoder.go`, `encoder.go`, `entry.go`) | buffer, open namespaces | `Add*`, `Append*`, `OpenNamespace`, `Clone`, `EncodeEntry`, escaping, level, time, duration, caller and name encoders | context shared, entries private |
| Fields (`field.go`, `array.go`, `error.go`, `ladcore/field.go`, `ladcore/error.go`) | none | constructors, `Any`, `AddTo`, `encodeError` | - |
| SugaredLogger (`sugar.go`) | none | `log`, `With`, `sweetenFields` | - |
| gRPC logger (`ladgrpc/zapgrpc.go`) | a level others change | the `grpclog` methods | all gRPC goroutines |
| Globals and redirection (`global.go`) | `_globalL`, `_globalS`, package `log`'s logger | `ReplaceGlobals`, `RedirectStdLogAt`, restores | the whole program |
| Config and registries (`config.go`, `sink.go`, `encoder.go`, `writer.go`) | two registries, open sinks | `Build`, `RegisterSink`, `RegisterEncoder` | the whole program |
| ladio.Writer (`ladio/writer.go`) | an unfinished line | `Write`, `Sync`, `Close` | one writer, a level others change |
| slog handler (`exp/zapslog/handler.go`) | groups kept back | `WithGroup`, `WithAttrs`, `Handle` | derived handlers |
| observer (`ladtest/observer/observer.go`) | the log, contexts over shared arrays | `With`, `Write`, readers | writers and readers |

The behaviours that make this code hard: levels that change in the middle of a
call; pooled objects reused across goroutines; lock-free counters; a background
goroutine that must be stopped while it wants the lock; destinations that
accept part of a write, fail or panic; nested `sync.Once`; slices that share a
backing array; state kept back until it is needed (namespaces, groups, an
unfinished line); undoing changes of global state. `PROJECT.json` lists the
hazards with their lines and the properties that cover them.

## 2. Modules and how they correspond to the code

One module per component; its `VARIABLES` are the component's fields and the
local variables that live across steps, its actions the stretches of code that
other goroutines cannot see the middle of. Comments marked *history* name the
variables that exist for the properties only. Definitions called "Mutant of" are
deliberately wrong variants of the definition that follows; the specifications
do not use them, they show which mistakes a property detects.

* **BufferedWriteSyncer.** A log entry is a sequence of pairs (entry, index), so
  that the sink shows where entries are cut. The mutex is explicit. `Lock`,
  `Initialize`, `MakeRoom`, `Spill` (bufio's loop), `Put`, `Sync`,
  `StopCritical`, `AwaitDone`, `SelectTick` and `SelectStop` follow the code;
  `Outcomes` is what the destination may answer. **EntryLog** is the abstract
  promise: callers are told about a log, the destination has an initial segment
  of it, both grow by whole entries until the destination fails, and then
  neither changes.
* **Sampler.** One action per atomic operation of `IncCheckReset`; an entry
  carries the time at which it was created, and the clock moves between any two
  steps. The hash is an arbitrary assignment of messages to counters.
* **Logger.** The tree of cores is a constant. `CoreEnabled` and `CoreCheck`
  walk it one core at a time, so a level may change between two siblings of a
  tee; `SetUp` is the rest of `Logger.check`; `BeginWrite`, `WriteCore`,
  `SyncCore`, `Report` and `RunHook` are `CheckedEntry.Write`. Samplers decide
  arbitrarily here, which covers what module Sampler can do.
* **LazyWith.** `Depth` lazy cores around an io core. `d.Core` is an interface
  of two words, which `Enabled` reads and `initOnce` writes without a lock: each
  word is one step. `sync.Once` is external and modelled by its contract.
* **Pipeline** extends BufferedWriteSyncer with the goroutines that use it: a
  Logger whose io core writes to the syncer. `Log` is `ioCore.Write` up to its
  call of `out.Write`, `Wrote` what it does with the answer (an entry above
  `ErrorLevel` is synced), `Synced` the end of that Sync, `OnWrite` the hook of
  the level. Every action of the syncer stays an action of the composition.
* **MultiWriteSyncer.** One step per sink under the mutex; a sink may take part
  of an entry, fail, or panic, which leaves the mutex locked.
* **LevelHandler.** A request decodes, stores and loads in separate steps.
* **Derivation.** A heap of Logger structs. A call clones one and changes the
  clone; `WithOptions` applies its options one at a time, each a step of its own.
  Beside each logger the program holds stands what was asked of it.
* **PooledLine.** A log call from `Get` to `Free`: the encoder and buffers it
  takes, the reflection buffer inside the encoder, the stack that grows past its
  first storage, and panics on the way. The pools share out a fixed set of
  objects, new ones included; one that was used comes out as its last user left it.
* **JSONEncoder**, **MapObjectEncoder**, **Encoding.** The first two are
  operators on encoder values (a JSON line is a sequence of tokens, a Go map a
  set of nodes); Encoding drives both with every short sequence of calls fields
  and marshalers can make, failing ones included, and reads the line back with a
  JSON reader. A value that `json.Marshal` refuses is an error of the JSON encoder
  only: `AddReflected` of the map encoder stores it and returns nil, so `AddTo`
  reports it on the line and not in the map (`UnmarshalableField`), and a marshaler
  that ignores the error or gives up on it does not do the same for both
  (`UnmarshalableIgnored`, `UnmarshalableReturned`).
* **JSONString.** `safeAppendStringLike` byte by byte, with Go's decoding of
  UTF-8 and an index arithmetic over the part not yet copied; a reader of JSON
  strings is the reference.
* **EntryLine.** `EncodeEntry` of both encoders section by section: which of the
  encoders of a configuration is missing, or silent, and what then stands in the
  line, or that the call panics (`CallerPanics`). A level, time or duration encoder
  is only what it appends, a value or nothing.
* **Fields.** Every scalar constructor by value, by pointer and in a slice,
  `Any`, and `Field.AddTo`: the conversions through `int64`, `float64` bits and
  an interface, at the ends of every range, and the loops of the array types, one
  `Append` call per element. A word has 16 bits for 64, and the narrower types are
  as much narrower.
* **ErrorFields.** `NamedError`, `Errors`, `encodeError` and both error arrays, on
  trees of errors that group, format verbosely, are nil, or panic.
* **SugaredLogger.** `log`, `With` and the loop of `sweetenFields` on lists of
  argument kinds, with the reports it makes on its way. They are calls of
  `base.Error`, so `Report` passes the level test of `Logger.check`: a core that
  does not take `ErrorLevel` loses them. The levels of the core and the logger's
  mode are chosen in the initial state.
* **GRPCLogger.** One step for the test of the level, one for the entry, and the
  program sets the level between the two.
* **Globals.** `ReplaceGlobals` is one step, a redirection one step per call of
  package `log`. Restore functions are called in the reverse order.
* **Config.** `Build` opens paths one by one while others register names.
* **LineWriter**, **SlogHandler**, **Observer.** As in the table above; Observer
  models Go slices as length and capacity over shared arrays.

`MC*` modules give the constants small values. The larger components have one
each. **MCFair** holds the two whose properties need fairness, LazyWith and
BufferedWriteSyncer; **MCSharedState** and **MCSequential** put the smaller ones
side by side,
and in a behaviour let the one that the variable `part` names take steps. These
components share no state, so what two of them do together is, seen from each,
something it can do alone. A component about which something is proved is
extended, so that the run checks the definition the theorem is about; its names
are its own for that reason (`MultiSpec`, `ObserverInit`, `mpc`, `opc`). The others
are instantiated with variables of the MC module, some of them twice, with few keys
and much depth or the other way round.

## 3. What the runs check

Passing runs, with the instance and why it is large enough:

| run | instance | shows |
|---|---|---|
| `bws_safety` | Pipeline: 2 goroutines, 3 entries shorter than, equal to and longer than the buffer, default size, failing destination; all entries at `InfoLevel`, or one that panics and one that exits | `Conservation`, `WholeEntries`, `FlushedOnReturn`, `NoDoubleClose`, `LoopEndedOnReturn`, `TerminalIsDurable`, `NoHole`, `RefinesEntryLog` |
| `sampler` | 2 goroutines, 5 calls, clock moving both ways; colliding, unsampled and disabled messages | `TicksDisjoint`, `OverSampling`, `UnderSampling`, `ExactWhenSequential` |
| `logger_safety` | a tree with every kind of core, 2 levels that change, failing writes; 2 goroutines and 2 pooled entries at terminal and other levels, every hook in either place | `PoolSafe`, `TerminatesIffTerminal`, `Delivery`, `DurableBeforeTermination` |
| `fair` | lazy: 2 goroutines, 2 nested lazy cores, panicking fields | `FieldsOnce`, `SameSnapshot`, `LogReturns` |
| | syncer: 2 goroutines, an entry that fits and one that does not, healthy destination | `StopReturns`, `EventuallyFlushed` |
| `shared_state` | multi: 2 goroutines, 3 sinks that fail or panic | `SameOrder`, `NilMeansDone` |
| | observer: 5 cores, the fewest of which two can share spare capacity, and no entries; 2 cores and 3 entries of 2 writers | `ContextsApart`; `NothingLost` |
| | globals: 2 loggers, 2 levels and an unknown one, depth 2 | `GlobalsNest` |
| | level handler: 2 requests of every kind, a program that sets levels, one without a name | `ReportedInForce` |
| | config: 1 build, 6 lists of file paths, URLs of a scheme that may be registered and texts that are none, registrations meanwhile | `AllOrNothing` |
| | derivation: 4 loggers, 2 options per call | `DerivedAsAsked`, `CallerIsTheProgram` |
| | pools: 2 goroutines with 2 calls each, 3 buffers, 2 encoders, 1 slice encoder, 1 stack | `LineIntact` |
| `sequential` | sugared: all lists of up to 5 arguments, 4 sets of enabled levels, both modes | `EachArgumentOnce` |
| | slog: chains of 2 calls of up to 2 attributes, then a record | `ScalarsInPlace` |
| | lines: streams of up to 6 bytes in chunks of up to 4, one change of level | `LinesAsReference` |
| | encoders: 2 keys, 3 calls, depth 2; 1 key, 4 calls, depth 3 | `EncodersAgree` |
| | strings: up to 5 bytes that form or break runes of 2 and 3 bytes, 2 bytes that need escapes | `StringsReadBack` |
| | metadata: every encoder present, missing and silent, files with 0, 1 and 3 slashes | `MetadataInLine` |
| | values: every type at the ends of its range, slices of up to 2 elements | `ValueAsPassed` |
| | errors: 2 errors, the first with 2 causes, every kind of error | `CausesTold` |
| | grpc: every method, 6 thresholds, 2 changes of level | `OneEntryPerCall` |

The bounds let every action happen, let every call overlap with another where the
code is concurrent, and make each boundary case occur: an exactly full buffer, the
turn of a tick, an empty line, a dangling key, a stack deeper than its storage, a
rune cut by the end of a string, the least and the greatest value of a type. All
named bounds are constants of the modules. Symmetry is
declared for goroutines, requests, entries and fields that nothing tells apart,
and not in the runs that check liveness. Deadlock is checked except where the
system may stop by itself: after `os.Exit`, or when
a bound on calls is used up. In `bws_safety` it is checked: the program's exit is
the only state from which nothing more happens, and it stutters.

Fairness is assumed in `fair` alone. Syncer: strong fairness of taking the mutex
(a `sync.Mutex` does not starve waiters), weak fairness of the steps of a
goroutine that can run and of the ticker; nobody has to call anything. Lazy: weak
fairness of the steps of a call, for `LogReturns`.

What the instances do not reach: `sampler` has `First` 3 and `Thereafter` 2, and the
edges 0 and 1 are covered by the theorem `ExactHolds` only; the critical sections of
the observer are single steps, so a section that forgot its mutex would not show.

### Disagreements between code and documentation

Each of these is a run that TLC refutes; `PROJECT.json` quotes the lines.

| run | the code |
|---|---|
| `bws_looperr` | an error of `WS.Sync` in the flush loop is reported to nobody |
| `logger_hooks` | hooks run for an entry the core they wrap declined, if an earlier core of a tee took it |
| `lazy_torn` | `Enabled` reads `d.Core` while `initOnce` writes it |
| `multi_smallest` | a count of 0 from the first sink is not the smallest |
| `sugar_badkeys` | a non-string or orphaned key is reported with `Error`, which does not panic in development |
| `globals_restorable` | a failed redirection leaves flags and prefix cleared, with no function to restore them |

Smaller ones that the models reproduce and that no run is devoted to:

* BufferedWriteSyncer: a second `Stop` returns nil without flushing what was
  written after the first (`FlushedOnReturn` speaks of calls that pass the early
  return).
* Sampler: messages whose hashes collide share a budget (`ExactWhenSequential`
  counts per counter).
* Globals: undoing a redirection sets flags and prefix before the output, so that
  a line printed in between reaches the lad logger annotated (`RedirectsNest`, the
  second half of `GlobalsNest`, excepts those two steps).
* ladio.Writer: a level disabled between two Writes joins parts of two lines into
  one entry (`LinesAsReference` then only promises that no byte is repeated or
  moved).
* SugaredLogger: the reports that `Infow` makes carry a method of the library as
  their caller, where the comment of `AddCaller` promises the user's; and a core
  that does not take `ErrorLevel` loses them, with the arguments they name.
* Config: a configuration without `Level` fails after `Build` has opened its sinks,
  which stay open (`AllOrNothing` states it).
* MultiWriteSyncer: a sink that panics leaves the mutex locked, and every later
  `Write` waits for ever (`SameOrder` shows that none writes past the hole).
* Encoders: a value that cannot be marshalled is reported on a JSON line and not in
  an observer's `ContextMap`; in an array, the JSON line has an element less.
* slog: an empty group opens the groups kept back, though nothing follows.
* Encoder configuration: the comment of `LevelEncoder.UnmarshalText` names
  "coloredCapital" and "colored", the code "capitalColor" and "color"; that of
  `DurationEncoder.UnmarshalText` says that anything else means nanoseconds, the
  code takes seconds.
* JSON encoder: `NewJSONEncoder` is said to escape all values; `AppendTimeLayout`
  writes the layout's own text unescaped. A missing `EncodeCaller` panics here and
  is skipped by the console encoder.
* Errors: the comment of `encodeError` promises Causes for a `causer` and Verbose
  for every `fmt.Formatter`; the code gives Causes to an `errorGroup` only, and
  then no Verbose. A cause that panics ends the list in `ladcore`'s array and not
  in `lad.Errors`. A nil group that panics after its message leaves its key twice.
* gRPC: `Fatalln` returns when `FatalLevel` is disabled, `Fatal` does not; the
  logger adds no caller skip for its own methods.

## 4. What is proved

Eight modules hold proofs. All are for every value of the constants, from the
assumptions that the component's module names; TLC evaluates those on every run.
They say no more than that a bound is a number, that a set of texts or fields is
one, that a marker is not a goroutine. What a theorem states is the definition that
a run checks, on the specification of its component.

**BufferedWriteSyncerProofs**, for every set of goroutines and entries, every
length and buffer size. `TypeOK` is inductive once split into control and data
(`TypeParts`). The control invariant `CInv` (who holds the mutex at which label;
which of the channels is closed at which stage of `Stop`; what a returned call
implies) gives `NoDoubleClose` and `LoopEndedOnReturn`. The data invariant `DInv`
adds `Untouched` (nothing is buffered before `initialize`), `Pending` (what
`Write` still has to hand over is a whole entry, and an entry that does not fit
meets an empty buffer) and `Marks`; without `Pending`, `WholeEntries` is not
inductive. From it follow `Conservation`, `WholeEntries` and `FlushedOnReturn`;
with `Frozen` (a stored error freezes the sink) `NoHole`; and with `AcceptStep`
the theorem `Refinement`: every step is a step of `EntryLog` or changes nothing of
it.

**PipelineProofs.** `Composed`: every step of the Logger is a step its syncer
allows, or leaves it alone, so that all of the above holds under a Logger.
`TerminalIsDurableHolds` rests on `PInv`, what is known of a call at each stage:
while it writes, its entry is still whole in `rest` or its last byte is among the
accepted ones; while it syncs, that byte is below the Sync's mark. `FlushedOnReturn`
then says the mark is synced and `Conservation` that the byte is in the sink. It
assumes that an encoded entry is not empty.

**LoggerProofs**, for every tree of cores, every set of goroutines, hooks and
pooled entries. `Inv` says of every goroutine, at every label, what its
CheckedEntry holds (`Entry`) and, when a call has ended, how (`Ended`); together
with `PoolSafe` it is inductive, as a step of one goroutine touches no entry that
another holds. It gives `PoolSafe`, `TerminatesIffTerminal` and
`DurableBeforeTermination`. `Delivery` needs more: `DeliverInv` follows each output
through the walk of `Check` and the writes after it. Before the output is decided
exactly one step left to take leads to it (a visit of a core on its path, at most
once), and every filter already passed on the way was enabled when it was asked; once
decided, it is among the cores of the CheckedEntry exactly once or not at all, with
the gate that refused it or the sampler that dropped it to show for it. That one step
stays one step when a tee is replaced by its children is what the lemmas about the
tree give: no core has two parents, and none is above itself (`BuiltAssumption`, as
the constructors wrap cores that exist).

**SamplerProofs**, for every finite set of goroutines, every hash, every rate and
every clock. The steps are proved from what they need of cardinalities, named in
`ResetSizes`, `CallSizes` and `Counting`; the last section proves those three from
the library's facts about finite sets.

* `Expired` (whoever resets a counter carries a time past the tick it saw) gives
  `TicksDisjoint`.
* `Budget` bounds the first entries admitted, those within `First` of a reset, by
  the resets of the tick, whatever `Thereafter` is; `Counted` and `Once` make it
  inductive, and it gives `OverSampling`. As a goroutine resets a counter at most
  twice in a tick, `WorstCase` follows: at most First + 2 * |Procs| * (First - 1)
  such entries.
* `UnderSampling` is a race that takes many steps: increments between `Store` and
  `CompareAndSwap` belong to the old tick and are counted in the new one. `Behind`
  says that what a call has seen of a counter is old. `Ahead` bounds, for whoever is
  about to win the `CompareAndSwap`, the counter together with the calls that may
  still add to it, by the number of goroutines; it is inductive because under a
  clock that does not go back no new call joins the old tick. `Loss` then says that
  a tick loses no more than what it began with.
* `ExactWhenSequential`: `Mirrors` relates the atomics of a counter to the decisions
  so far: a set of decisions with which the ticks begin, the last of them the tick
  now open, and the counter the number of decisions since. `Alone` says what a call
  finds that nothing overlaps with. Every step keeps some such set (`MirroredStep`).

**DerivationProofs.** LazyWith, for any number of goroutines, lazy cores and changes
of the objects, with and without panics: `Descent` says which Onces a goroutine is
in on its way from the core it called down to where it is, `Stored` what `d.Core`
is in each stage of its Once, `Snapshots` that a field that some context shows has
been evaluated and that all contexts show the same value. With what is known of the
entries logged these are inductive, and give `FieldsOnce` and `SameSnapshot`; the
evaluation of fields nests, so none of them is inductive without the others.
Derivation, for every set of options and any number of loggers: `Fits` relates each
struct on the heap to what was asked, for the loggers held and the one being built.
No step changes a struct that is held, which gives `DerivedAsAsked`; its part on
`callerSkip` gives `CallerIsTheProgram`.

**SinksProofs.** MultiWriteSyncer, for every number of sinks and writers: who holds
the mutex (`Exclusive`, `Owned`), that sinks already served are one entry ahead of
the others (`InStep`, `Alike`), and what was synced or taken so far (`Synced`,
`Complete`) are inductive together and give `SameOrder` and `NilMeansDone`. Observer:
`Slices` says that every core's slice lies within its array and has the fields asked
for. Appending to a clipped slice always copies, so no array a core uses is written
to, which gives `ContextsApart`. `Collected` (what was taken and what is held is
what was written) and the order of what a reader picks give `NothingLost`.

**SharedStateProofs.**

* Config: `Opening` relates the sinks that are open to how far the loop over the
  paths has come, the output paths first, and to whether one has failed; it gives
  `AllOrNothing`.
* Globals: the saved values form a chain from the current settings back to the
  program's own (`Chain`, `Stack`), and `Progress` says which of them a redirection
  has set so far; this gives `GlobalsNest`.
* LevelHandler: `Fine` is what is known of a request between its steps: the level
  in force now is one of those in force during the request, and after its store,
  unless it was overtaken, the one it asked for. It gives `ReportedInForce`.
* GRPCLogger: what is known between the two tests of the level gives
  `OneEntryPerCall`.

**PooledLineProofs**, for every number of goroutines, pooled objects and calls.
`LineIntact` looks at one moment, when the sink has its line; `PoolInv` is what makes
it inductive. No buffer, encoder or slice encoder is held twice, or held and pooled
(`BufsApart`, `EncsApart`, `ArrsApart`), where the buffers a call holds are its
line's, its clone's and the reflection buffer inside the clone. An encoder or slice
encoder in its pool is clean (`Clean`); a pooled buffer need not be, as whoever takes
it empties it. And at each of the thirteen points of a call (`Where`) its buffers hold
what the call has put together so far: the start of the clone, the fields but those
to come, the frames of its own stack. A step touches pooled objects and those of its
own call only (`Beside`), so that every other call is a bystander (`Bystander`); what
is left is one lemma for each operation. That no two goroutines have the same Stack
is not needed: a Stack lends its storage, and no frame is read from it after it is
freed. The proof assumes that nil is none of the objects, and that a call's fields are
a sequence and its depth a number.

Only model-checked:

* liveness, which needs fairness (`StopReturns`, `EventuallyFlushed`, `LogReturns`);
* the components whose correctness is what a recursive reader or reference computes,
  which takes an induction over data that the provers cannot do: `EncodersAgree`,
  `StringsReadBack`, `MetadataInLine`, `ValueAsPassed`, `CausesTold`,
  `ScalarsInPlace`, `LinesAsReference`, `EachArgumentOnce`.

## 5. What is not modelled

* Formatting: digits of numbers, times and durations, colour codes, wording of
  messages. Runes of four bytes.
* A core whose encoder fails. Names of encoders in configuration files.
* Composition of the whole tree of cores with a BufferedWriteSyncer: in Pipeline
  one core takes every entry. In a tee, a core whose level excludes `FatalLevel` is
  not synced when `Fatal` exits; `TerminalIsDurable` speaks of the core that took
  the entry and reported no error.
* `Objects`, `ObjectValues`, `Stringers`, `Inline`, `Field.Equals` and the generic
  constructors of `exp/zapfield`: loops or wrappers around what Fields has.
* `V` of the gRPC logger, which only reads a level; caller and stack annotation and
  level mapping of the slog handler; `AddSync`; `Level` of a core.
* `ladkit` assembles a tee of console and rotating file cores and calls
  `ReplaceGlobals`; rotation is a library's. `ladtest` adapts `testing.T`.
* `internal/ztest`, `internal/exit`, the mock clock: test doubles. Benchmarks and the
  README generator.
