------------------------------ MODULE MCLogger ------------------------------
(***************************************************************************)
(* Instances of Logger over a tree with every kind of core.                *)
(***************************************************************************)
EXTENDS Logger, TLC

CONSTANTS p1, p2, a1, a2

\* tee(io, hooked(io), filter(sampler(lazy(io))), nop)
MCKind == [tee |-> "tee", io1 |-> "io", hooked |-> "hooked", io2 |-> "io",
           filter |-> "filter", sampler |-> "sampler", lazy |-> "lazy", io3 |-> "io",
           nop |-> "nop"]
MCNodes == DOMAIN MCKind
MCKids == [n \in MCNodes |->
  CASE n = "tee"     -> <<"io1", "hooked", "filter", "nop">>
    [] n = "hooked"  -> <<"io2">>
    [] n = "filter"  -> <<"sampler">>
    [] n = "sampler" -> <<"lazy">>
    [] n = "lazy"    -> <<"io3">>
    [] OTHER         -> << >>]
MCGate == [n \in MCNodes |-> IF n \in {"io1", "filter"} THEN a1 ELSE a2]

MCHooks == {<<"noop", "custom">>, <<"goexit", "noop">>, <<"custom", "goexit">>}

\* Two Loggers: one over the whole tree with the default hooks, one over a single
\* core with each of the other hooks in either place.
MCOptions ==
  [core : {"tee"}, onPanic : {"nil"}, onFatal : {"nil"}, development : {TRUE}]
    \cup {[core |-> "io1", onPanic |-> h[1], onFatal |-> h[2], development |-> d] :
            h \in MCHooks, d \in BOOLEAN}

\* To bound the state space, a single goroutine logs through the tree, at two
\* levels, while levels change and writes fail; the goroutines that share one
\* core use all levels, and their writes succeed.
OneCaller == Cardinality({p \in Procs : pc'[p] # "idle" \/ outcome'[p] # "none"}) <= 1
MCInit == Init /\ (opt.core = "io1" => lev[a2] = 0)
MCNext ==
  /\ Next
  /\ opt.core = "tee" => OneCaller /\ \A p \in Procs : lvl'[p] \in {0, FatalLevel}
  /\ opt.core = "io1" => lev'[a2] = 0 /\ \A p \in Procs : errs'[p] = {}
MCSpec == MCInit /\ [][MCNext]_vars

ProcSymmetry == Permutations(Procs)
=============================================================================
