------------------------------- MODULE Config -------------------------------
(***************************************************************************)
(* Config.Build: goroutines build loggers from configurations while others *)
(* register encoders and sinks.  An open sink is a handle, with the paths  *)
(* of the configuration opened one by one; the registries are maps behind  *)
(* a mutex each.                                                           *)
(***************************************************************************)
EXTENDS Integers, Sequences

CONSTANTS
  Builders,        \* goroutines that build; each builds once
  OutPaths,        \* the possible OutputPaths, and ErrorOutputPaths
  Scheme(_),       \* Scheme(path): the scheme url.Parse gives it, or BadURL
  Spellings,       \* schemes as passed to RegisterSink
  Normal(_),       \* normalizeScheme of a spelling, or BadURL
  Factories,       \* factories passed to RegisterSink and RegisterEncoder
  Encodings        \* encoder names a configuration may use, or register

ASSUME PathsAssumption == OutPaths \subseteq Seq(STRING)

File == "file"     \* schemeFile, and the factory of file sinks
BadURL == "bad URL"
None == "none"

VARIABLES
  sinkFactories,   \* sr.factories
  constructors,    \* _encoderNameToConstructor
  cpc, cfg,        \* cfg[p]: [encoding, out, err, level]
  ci,              \* index of the loop of open
  openErr,         \* openErr of open
  handles,         \* handles[p]: the sinks p has opened, as [path, state]
  first            \* how many of them belong to OutputPaths

registries == <<sinkFactories, constructors>>
build == <<cpc, cfg, ci, openErr, handles, first>>
configVars == <<registries, build>>

Configs == [encoding : Encodings, out : OutPaths, err : OutPaths, level : BOOLEAN]
NoConfig == [encoding |-> None, out |-> << >>, err |-> << >>, level |-> FALSE]

ConfigInit ==
  /\ sinkFactories = [s \in {File} |-> File]
  /\ constructors = [n \in {"json", "console"} |-> n]
  /\ cpc = [p \in Builders |-> "new"] /\ cfg = [p \in Builders |-> NoConfig]
  /\ ci = [p \in Builders |-> 1] /\ openErr = [p \in Builders |-> FALSE]
  /\ handles = [p \in Builders |-> << >>] /\ first = [p \in Builders |-> 0]
-----------------------------------------------------------------------------
Bind(f, k, v) == [x \in DOMAIN f \cup {k} |-> IF x = k THEN v ELSE f[x]]

RegisterSink(s, f) ==
  /\ s # "" /\ Normal(s) # BadURL /\ Normal(s) \notin DOMAIN sinkFactories
  /\ sinkFactories' = Bind(sinkFactories, Normal(s), f)
  /\ UNCHANGED <<constructors, build>>

RegisterEncoder(n, f) ==
  /\ n # "" /\ n \notin DOMAIN constructors
  /\ constructors' = Bind(constructors, n, f)
  /\ UNCHANGED <<sinkFactories, build>>
-----------------------------------------------------------------------------
\* buildEncoder: the configuration may lack EncodeTime, the name be unknown, or
\* the constructor fail.
Build(p, c) ==
  /\ cpc[p] = "new"
  /\ cfg' = [cfg EXCEPT ![p] = c]
  /\ \E ok \in {FALSE, c.encoding \in DOMAIN constructors} :
       cpc' = [cpc EXCEPT ![p] = IF ok THEN "out" ELSE "failed"]
  /\ UNCHANGED <<registries, ci, openErr, handles, first>>

Paths(p) == IF cpc[p] = "out" THEN cfg[p].out ELSE cfg[p].err

\* One path of open's loop: newSink looks the factory up under the mutex and
\* calls it outside; it, or opening the file, may fail.
OpenSink(p) ==
  /\ cpc[p] \in {"out", "err"} /\ ci[p] <= Len(Paths(p))
  /\ LET path == Paths(p)[ci[p]]
         known == Scheme(path) # BadURL /\ Scheme(path) \in DOMAIN sinkFactories
     IN \E ok \in {FALSE, known} :
          /\ openErr' = [openErr EXCEPT ![p] = @ \/ ~ok]
          /\ handles' = IF ok
                        THEN [handles EXCEPT ![p] = Append(@, [path |-> path, closed |-> 0])]
                        ELSE handles
  /\ ci' = [ci EXCEPT ![p] = @ + 1]
  /\ UNCHANGED <<registries, cpc, cfg, first>>

Close(h, a, b) == [k \in DOMAIN h |-> IF k \in a..b THEN [h[k] EXCEPT !.closed = @ + 1] ELSE h[k]]

\* Mutant of OpenFailed: closeOut is not called.
OpenFailedLeaks(p) ==
  /\ cpc[p] \in {"out", "err"} /\ ci[p] > Len(Paths(p)) /\ openErr[p]
  /\ handles' = [handles EXCEPT ![p] = Close(@, first[p] + 1, Len(@))]
  /\ cpc' = [cpc EXCEPT ![p] = "failed"]
  /\ UNCHANGED <<registries, cfg, ci, openErr, first>>

\* open closes what it has opened; openSinks closes the outputs if it is the
\* error outputs that failed.
OpenFailed(p) ==
  /\ cpc[p] \in {"out", "err"} /\ ci[p] > Len(Paths(p)) /\ openErr[p]
  /\ handles' = [handles EXCEPT ![p] = Close(@, 1, Len(@))]
  /\ cpc' = [cpc EXCEPT ![p] = "failed"]
  /\ UNCHANGED <<registries, cfg, ci, openErr, first>>

\* The outputs are open: on to the error outputs.
OutputsOpen(p) ==
  /\ cpc[p] = "out" /\ ci[p] > Len(cfg[p].out) /\ ~openErr[p]
  /\ cpc' = [cpc EXCEPT ![p] = "err"]
  /\ ci' = [ci EXCEPT ![p] = 1]
  /\ first' = [first EXCEPT ![p] = Len(handles[p])]
  /\ UNCHANGED <<registries, cfg, openErr, handles>>

\* All sinks are open; Build still fails if the configuration has no Level.
Finish(p) ==
  /\ cpc[p] = "err" /\ ci[p] > Len(cfg[p].err) /\ ~openErr[p]
  /\ cpc' = [cpc EXCEPT ![p] = IF cfg[p].level THEN "built" ELSE "noLevel"]
  /\ UNCHANGED <<registries, cfg, ci, openErr, handles, first>>

BuildStep(p) == OpenSink(p) \/ OpenFailed(p) \/ OutputsOpen(p) \/ Finish(p)

ConfigNext ==
  \/ \E s \in Spellings, f \in Factories : RegisterSink(s, f)
  \/ \E n \in Encodings, f \in Factories : RegisterEncoder(n, f)
  \/ \E p \in Builders, c \in Configs : Build(p, c)
  \/ \E p \in Builders : BuildStep(p)

ConfigSpec == ConfigInit /\ [][ConfigNext]_configVars
-----------------------------------------------------------------------------
\* Opening is all or nothing: a Build that fails for want of an encoder or a sink
\* leaves no sink open, whichever path of either list failed, and a Build that
\* succeeds has one open sink for each path, in the order of the paths.  A Build
\* that fails for want of a Level has opened them too, and leaves them all open.
AllOrNothing ==
  \A p \in Builders :
    /\ cpc[p] = "failed" => \A k \in DOMAIN handles[p] : handles[p][k].closed = 1
    /\ cpc[p] \in {"built", "noLevel"} =>
         handles[p] = [k \in 1..Len(cfg[p].out \o cfg[p].err) |->
                         [path |-> (cfg[p].out \o cfg[p].err)[k], closed |-> 0]]
=============================================================================
