------------------------------ MODULE LazyWith ------------------------------
(***************************************************************************)
(* ladcore.lazyWithCore: Depth lazy cores wrap each other and an io core   *)
(* (Logger.WithLazy called Depth times), and goroutines log through any of *)
(* them.  Field i is evaluated when lazy core i initializes; what it       *)
(* evaluates to is the version of the object it refers to at that time.    *)
(* d.Core is an interface value of two words, a type and a pointer, which  *)
(* Enabled reads without synchronization.                                  *)
(***************************************************************************)
EXTENDS Integers, Sequences, FiniteSetsExt

CONSTANTS
  Procs,      \* goroutines that log
  Depth,      \* number of lazy cores; core 1 wraps the io core
  MaxChanges, \* bound on the changes of the objects
  MayPanic    \* whether evaluating a field may panic

Lazy == 1..Depth

ASSUME DepthAssumption == Depth \in Nat \ {0}
ASSUME ChangesAssumption == MaxChanges \in Nat
ASSUME PanicAssumption == MayPanic \in BOOLEAN
\* "new" and "done" are no goroutines.
ASSUME ProcsAssumption == Procs \cap {"new", "done"} = {}

VARIABLES
  typ, dat,  \* the words of d.Core: "lazy" and the index of a lazy core, or "io"
             \* and the context of an io core
  once,      \* sync.Once of every lazy core: "new", the goroutine in it, or "done"
  version,   \* the objects the fields refer to
  pc, at,    \* a goroutine's call: where, and in which lazy core
  top,       \* the lazy core of the Logger it called
  seen,      \* the type word it read
  res,       \* the context of the core that With returned
  lost,      \* history: fields whose evaluation panicked, with all above them
  logged,    \* history: entries checked, as the core called and the context
  torn       \* history: some goroutine used a half-written d.Core

d == <<typ, dat, once>>
locals == <<pc, at, top, seen, res>>
vars == <<d, version, locals, lost, logged, torn>>

\* A pointer is the index of the lazy core it points to, or a context.
LazyPtr(i) == [core |-> i, ctx |-> << >>]
IoPtr(ctx) == [core |-> 0, ctx |-> ctx]

Init ==
  /\ typ = [i \in Lazy |-> IF i = 1 THEN "io" ELSE "lazy"]
  /\ dat = [i \in Lazy |-> IF i = 1 THEN IoPtr(<< >>) ELSE LazyPtr(i - 1)]
  /\ once = [i \in Lazy |-> "new"]
  /\ version = [i \in Lazy |-> 0]
  /\ pc = [p \in Procs |-> "idle"]
  /\ at = [p \in Procs |-> Depth]
  /\ top = [p \in Procs |-> Depth]
  /\ seen = [p \in Procs |-> "none"]
  /\ res = [p \in Procs |-> << >>]
  /\ lost = {} /\ logged = {} /\ torn = FALSE

Goto(p, l) == pc' = [pc EXCEPT ![p] = l]
Enter(p, l, i) == Goto(p, l) /\ at' = [at EXCEPT ![p] = i]

\* A method of the Logger whose core is lazy core i: first d.Enabled(lvl).
Log(p, i) ==
  /\ pc[p] = "idle"
  /\ Enter(p, "type", i)
  /\ top' = [top EXCEPT ![p] = i]
  /\ UNCHANGED <<d, version, seen, res, lost, logged, torn>>

\* The embedded Core's Enabled: the words of d.Core are read one by one.
ReadType(p) ==
  /\ pc[p] = "type"
  /\ seen' = [seen EXCEPT ![p] = typ[at[p]]]
  /\ Goto(p, "pointer")
  /\ UNCHANGED <<d, version, at, top, res, lost, logged, torn>>

ReadPointer(p) ==
  /\ pc[p] = "pointer"
  /\ LET core == dat[at[p]].core
     IN IF (seen[p] = "io") # (core = 0)
        THEN torn' = TRUE /\ Enter(p, "crashed", at[p])
        ELSE /\ UNCHANGED torn
             /\ IF core = 0 THEN Enter(p, "once", top[p]) ELSE Enter(p, "type", core)
  /\ UNCHANGED <<d, version, top, seen, res, lost, logged>>
-----------------------------------------------------------------------------
\* d.Once.Do: the first caller runs the function, others wait until it is done.
EnterOnce(p) ==
  /\ pc[p] = "once"
  /\ once[at[p]] \in {"new", "done"}
  /\ once' = IF once[at[p]] = "new" THEN [once EXCEPT ![at[p]] = p] ELSE once
  /\ Goto(p, "core")
  /\ UNCHANGED <<typ, dat, version, at, top, seen, res, lost, logged, torn>>

\* The lazy cores whose initOnce p is running; the smallest is the innermost.
Owned(p) == {i \in Lazy : once[i] = p}

\* A call on d.Core where d is a lazy core: it is initialized first.
CallLazy(p) ==
  /\ pc[p] = "core"
  /\ typ[at[p]] = "lazy"
  /\ Enter(p, "once", dat[at[p]].core)
  /\ UNCHANGED <<d, version, top, seen, res, lost, logged, torn>>

\* Mutant of CheckIo: fields are evaluated for every entry.
CheckIoAgain(p) ==
  /\ pc[p] = "core"
  /\ typ[at[p]] = "io"
  /\ Owned(p) = {}
  /\ LET ctx == dat[at[p]].ctx
     IN logged' = logged \cup {[core |-> top[p],
                                ctx |-> [i \in DOMAIN ctx |-> <<ctx[i][1], version[ctx[i][1]]>>]]}
  /\ Goto(p, "idle")
  /\ UNCHANGED <<d, version, at, top, seen, res, lost, torn>>

\* d.Core.Check on the io core, which takes the entry.
CheckIo(p) ==
  /\ pc[p] = "core"
  /\ typ[at[p]] = "io"
  /\ Owned(p) = {}
  /\ logged' = logged \cup {[core |-> top[p], ctx |-> dat[at[p]].ctx]}
  /\ Goto(p, "idle")
  /\ UNCHANGED <<d, version, at, top, seen, res, lost, torn>>

\* d.Core.With(d.fields) on the io core evaluates the field.
WithIo(p) ==
  /\ pc[p] = "core"
  /\ typ[at[p]] = "io"
  /\ \E i \in Owned(p) :
       /\ \A j \in Owned(p) : i <= j
       /\ res' = [res EXCEPT ![p] = Append(dat[at[p]].ctx, <<i, version[i]>>)]
       /\ Enter(p, "assign", i)
  /\ UNCHANGED <<d, version, top, seen, lost, logged, torn>>

\* The evaluation panics: every Once that p is in counts as done.
WithPanics(p) ==
  /\ MayPanic
  /\ pc[p] = "core"
  /\ typ[at[p]] = "io"
  /\ Owned(p) # {}
  /\ once' = [i \in Lazy |-> IF i \in Owned(p) THEN "done" ELSE once[i]]
  /\ lost' = lost \cup Owned(p)
  /\ Goto(p, "idle")
  /\ UNCHANGED <<typ, dat, version, at, top, seen, res, logged, torn>>

\* d.Core = ...: the words are written one by one, in either order.
AssignFirst(p) ==
  /\ pc[p] = "assign"
  /\ \/ typ' = [typ EXCEPT ![at[p]] = "io"] /\ UNCHANGED dat
     \/ dat' = [dat EXCEPT ![at[p]] = IoPtr(res[p])] /\ UNCHANGED typ
  /\ Goto(p, "assign2")
  /\ UNCHANGED <<once, version, at, top, seen, res, lost, logged, torn>>

\* Mutant of AssignSecond: the pointer is not stored.
AssignSecondHalf(p) ==
  /\ pc[p] = "assign2"
  /\ typ' = [typ EXCEPT ![at[p]] = "io"]
  /\ dat' = [dat EXCEPT ![at[p]] = IoPtr(@.ctx)]
  /\ once' = [once EXCEPT ![at[p]] = "done"]
  /\ Goto(p, "core")
  /\ UNCHANGED <<version, at, top, seen, res, lost, logged, torn>>

\* Mutant of AssignSecond: the Once is not completed.
AssignSecondStuck(p) ==
  /\ pc[p] = "assign2"
  /\ typ' = [typ EXCEPT ![at[p]] = "io"]
  /\ dat' = [dat EXCEPT ![at[p]] = IoPtr(res[p])]
  /\ Goto(p, "idle")
  /\ UNCHANGED <<once, version, at, top, seen, res, lost, logged, torn>>

\* The second word; the function returns and the Once is done.
AssignSecond(p) ==
  /\ pc[p] = "assign2"
  /\ typ' = [typ EXCEPT ![at[p]] = "io"]
  /\ dat' = [dat EXCEPT ![at[p]] = IoPtr(res[p])]
  /\ once' = [once EXCEPT ![at[p]] = "done"]
  /\ Goto(p, "core")
  /\ UNCHANGED <<version, at, top, seen, res, lost, logged, torn>>

\* The program changes an object that a field refers to.
Mutate(i) ==
  /\ MapThenSumSet(LAMBDA j : version[j], Lazy) < MaxChanges
  /\ version' = [version EXCEPT ![i] = @ + 1]
  /\ UNCHANGED <<d, locals, lost, logged, torn>>

Step(p) ==
  \/ ReadType(p) \/ ReadPointer(p) \/ EnterOnce(p) \/ CallLazy(p) \/ CheckIo(p)
  \/ WithIo(p) \/ WithPanics(p) \/ AssignFirst(p) \/ AssignSecond(p)

Next ==
  \/ \E p \in Procs, i \in Lazy : Log(p, i)
  \/ \E p \in Procs : Step(p)
  \/ \E i \in Lazy : Mutate(i)

Spec == Init /\ [][Next]_vars

\* Goroutines that can run are scheduled; nobody has to log.
FairSpec == Spec /\ \A p \in Procs : WF_vars(Step(p))
-----------------------------------------------------------------------------
\* Every entry carries the fields of its Logger and of the Logger's parents,
\* each once and the parent's first, and never a child's, however many
\* goroutines race to be the first to log; only a field whose evaluation
\* panicked is missing.
FieldsOnce ==
  \A e \in logged :
    /\ \A i, j \in DOMAIN e.ctx : i < j => e.ctx[i][1] < e.ctx[j][1]
    /\ {e.ctx[i][1] : i \in DOMAIN e.ctx} \subseteq 1..e.core
    /\ (1..e.core) \ lost \subseteq {e.ctx[i][1] : i \in DOMAIN e.ctx}

\* A field is evaluated once: all entries, a parent's and its child's included,
\* show the object as it was when the field was first needed.
SameSnapshot ==
  \A e, f \in logged : \A i \in DOMAIN e.ctx, j \in DOMAIN f.ctx :
    e.ctx[i][1] = f.ctx[j][1] => e.ctx[i][2] = f.ctx[j][2]

\* Callers waiting for each other's Once, which nest, never deadlock.
LogReturns == \A p \in Procs : pc[p] = "once" ~> pc[p] \in {"idle", "crashed"}

\* Logger: "All methods are safe for concurrent use": no call of Enabled meets
\* a d.Core that initOnce has half written.
NoTornRead == ~torn
=============================================================================
