--------------------------- MODULE MCSharedState ----------------------------
(***************************************************************************)
(* The smaller components that goroutines share, side by side: the multi-  *)
(* WriteSyncer, the observer, the globals and the standard logger, the     *)
(* level handler, Config.Build with its registries, loggers derived from   *)
(* one another, and the pools.  They have no state in common, so every     *)
(* interleaving of two of them is, seen from each, one of its own          *)
(* behaviours: a behaviour here exercises the one that part names and      *)
(* leaves the others in their initial states.                              *)
(***************************************************************************)
EXTENDS TLC, MultiWriteSyncer, Observer, Globals, LevelHandler, Config, Derivation,
  PooledLine

CONSTANTS
  p1, p2, r1, r2, e1, e2, f1, f2,
  Parts                \* the components to exercise

VARIABLE part

\* Five cores are the fewest with which two can share spare capacity; two write.
MCBounds == {<<5, 0>>, <<2, 3>>}
MCFieldLists == {<< >>} \cup {<<f>> : f \in Fields} \cup Fields \X Fields

\* "p1" and "p2" are file paths, "mem:" is a URL of a scheme that may be
\* registered, "://" is no URL.
MCScheme(path) ==
  CASE path \in {"p1", "p2"} -> "file"
    [] path = "mem:" -> "mem"
    [] path = "://" -> "bad URL"
MCNormal(s) ==
  CASE s \in {"mem", "MEM"} -> "mem"
    [] s \in {"file", "File"} -> "file"
    [] OTHER -> "bad URL"
MCPaths == {<< >>, <<"p1">>, <<"p1", "p2">>, <<"p1", "mem:">>, <<"mem:", "p2", "p1">>, <<"p1", "://", "p2">>}

\* Three calls, of which a goroutine makes two: each reflects fields, captures a
\* stack deeper than its storage, or panics on its way, and two of the three
\* encoders and buffers are of the second call's kind.
LogCall(id, console, fields, depth, addStack, panics) ==
  [id |-> id, console |-> console, fields |-> fields, depth |-> depth, addStack |-> addStack,
   panics |-> panics]
Deep == LogCall(1, FALSE, <<"reflected", "plain", "reflected">>, 4, TRUE, FALSE)
Console == LogCall(2, TRUE, <<"reflected">>, 2, FALSE, TRUE)
Plain == LogCall(3, FALSE, <<"plain">>, 0, TRUE, TRUE)

MCScripts == {Deep, Console, Plain}
MCScriptsOf == [p \in Procs |-> IF p = "g1" THEN {Deep, Console} ELSE {Console, Plain}]

vars == <<part, multiVars, observerVars, globalsVars, handlerVars, configVars, derivationVars,
          poolsVars>>

Init ==
  /\ part \in Parts
  /\ MultiInit /\ ObserverInit /\ GlobalsInit /\ HandlerInit /\ ConfigInit /\ DerivationInit
  /\ PoolsInit

Next ==
  /\ UNCHANGED part
  /\ \/ part = "multi" /\ MultiNext
        /\ UNCHANGED <<observerVars, globalsVars, handlerVars, configVars, derivationVars,
                       poolsVars>>
     \/ part = "observer" /\ ObserverNext
        /\ UNCHANGED <<multiVars, globalsVars, handlerVars, configVars, derivationVars,
                       poolsVars>>
     \/ part = "globals" /\ GlobalsNext
        /\ UNCHANGED <<multiVars, observerVars, handlerVars, configVars, derivationVars,
                       poolsVars>>
     \/ part = "handler" /\ HandlerNext
        /\ UNCHANGED <<multiVars, observerVars, globalsVars, configVars, derivationVars,
                       poolsVars>>
     \/ part = "config" /\ ConfigNext
        /\ UNCHANGED <<multiVars, observerVars, globalsVars, handlerVars, derivationVars,
                       poolsVars>>
     \/ part = "derivation" /\ DerivationNext
        /\ UNCHANGED <<multiVars, observerVars, globalsVars, handlerVars, configVars,
                       poolsVars>>
     \/ part = "pools" /\ PoolsNext
        /\ UNCHANGED <<multiVars, observerVars, globalsVars, handlerVars, configVars,
                       derivationVars>>

Spec == Init /\ [][Next]_vars

Symmetry == Permutations(Clients) \cup Permutations(Reqs) \cup Permutations(Entries)
              \cup Permutations(Fields)
=============================================================================
