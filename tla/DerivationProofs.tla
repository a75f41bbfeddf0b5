-------------------------- MODULE DerivationProofs --------------------------
(***************************************************************************)
(* Loggers derived from others.  For any number of goroutines, of lazy     *)
(* cores and of changes of the objects, with and without panics: an entry  *)
(* logged through lazy cores carries each field once, as it was when it    *)
(* was first evaluated.  For any options and any goroutines: a derived     *)
(* logger is what its chain of calls asked for, and names the caller.      *)
(***************************************************************************)
EXTENDS LazyWith, Derivation, TLAPS

(* Sequences and numbers.                                                  *)
LEMMA AppendSeq ==
  ASSUME NEW T, NEW s \in Seq(T), NEW e \in T
  PROVE  /\ Append(s, e) \in Seq(T)
         /\ Len(s) + 1 \in DOMAIN Append(s, e) /\ Len(s) + 1 \notin DOMAIN s
         /\ Append(s, e)[Len(s) + 1] = e
         /\ \A i \in DOMAIN s : i \in DOMAIN Append(s, e) /\ Append(s, e)[i] = s[i]
         /\ \A i \in DOMAIN Append(s, e) : i \in DOMAIN s \/ i = Len(s) + 1
OBVIOUS

LEMMA ReplaceSeq ==
  ASSUME NEW T, NEW s \in Seq(T), NEW k \in DOMAIN s, NEW e \in T
  PROVE  LET u == [s EXCEPT ![k] = e]
         IN /\ u \in Seq(T) /\ DOMAIN u = DOMAIN s /\ u[k] = e
            /\ \A i \in DOMAIN s : i # k => u[i] = s[i]
OBVIOUS

LEMMA IndexSeq == ASSUME NEW T, NEW s \in Seq(T) PROVE \A i \in DOMAIN s : i # 0
OBVIOUS

\* callerSkip s and the offset o skip f frames and a more that were asked for.
Balanced(s, o, f, a) == s + o = f + a

LEMMA BalancedMore ==
  ASSUME NEW s \in Int, NEW o \in Int, NEW f \in Int, NEW a \in Int, NEW n \in Int, Balanced(s, o, f, a)
  PROVE  Balanced(s + n, o, f + n, a) /\ Balanced(s + n, o, f, a + n)
BY DEF Balanced

LEMMA LastTwo ==
  ASSUME NEW n \in Nat, NEW i \in 1 .. 2 * n + 1
  PROVE  i <= 2 * n - 1 \/ i = 2 * n \/ i = 2 * n + 1
OBVIOUS

-----------------------------------------------------------------------------
(* LazyWith                                                                *)
Context == Seq(Lazy \X Nat)
Place == {"idle", "type", "pointer", "crashed", "once", "core", "assign", "assign2"}

TypeOK ==
  /\ typ \in [Lazy -> {"lazy", "io"}]
  /\ dat \in [Lazy -> [core : 0..Depth, ctx : Context]]
  /\ once \in [Lazy -> Procs \cup {"new", "done"}]
  /\ version \in [Lazy -> Nat]
  /\ pc \in [Procs -> Place]
  /\ at \in [Procs -> Lazy]
  /\ top \in [Procs -> Lazy]
  /\ res \in [Procs -> Context]
  /\ lost \subseteq Lazy
  /\ logged \subseteq [core : Lazy, ctx : Context]

Assigning(p) == pc[p] \in {"assign", "assign2"}

\* A context c of lazy core i: the fields of the cores 1..i, each once and in order,
\* without some of those in gone, whose evaluation panicked.
Whole(c, i, gone) ==
  /\ \A k, l \in DOMAIN c : k < l => c[k][1] < c[l][1]
  /\ \A k \in DOMAIN c : c[k][1] <= i
  /\ \A f \in 1..i : f \in gone \/ \E k \in DOMAIN c : c[k][1] = f

\* The Onces a goroutine is in are those of cores it went through on its way down
\* from top; the others on its way were given up by a panic.
Descends(p) ==
  /\ \A j \in Lazy : once[j] = p => pc[p] \in {"once", "core", "assign", "assign2"}
  /\ pc[p] \in {"once", "core", "assign", "assign2"} =>
       /\ at[p] <= top[p]
       /\ \A j \in Lazy : once[j] = p => at[p] <= j /\ j <= top[p]
       /\ \A j \in Lazy : at[p] < j /\ j <= top[p] => once[j] = p \/ j \in lost
  /\ pc[p] = "once" => once[at[p]] # p
  /\ pc[p] = "core" => once[at[p]] \in {p, "done"}
  /\ Assigning(p) => once[at[p]] = p /\ Whole(res[p], at[p], lost)
Descent == \A p \in Procs : Descends(p)

\* d.Core as NewLazyWith made it.
Untouched(i) ==
  /\ typ[i] = IF i = 1 THEN "io" ELSE "lazy"
  /\ dat[i] = IF i = 1 THEN IoPtr(<< >>) ELSE LazyPtr(i - 1)

\* d.Core is written once, by the goroutine in the Once, unless it panics.
StoredAt(i) ==
  /\ i \in lost => once[i] = "done"
  /\ once[i] = "done" /\ i \notin lost => typ[i] = "io" /\ Whole(dat[i].ctx, i, lost)
  /\ \/ once[i] = "done" /\ i \notin lost
     \/ once[i] \in Procs /\ pc[once[i]] = "assign2" /\ at[once[i]] = i
     \/ Untouched(i)
Stored == \A i \in Lazy : StoredAt(i)

\* The contexts that an entry shows or may come to show.
Shown ==
  {dat[i].ctx : i \in Lazy} \cup {res[p] : p \in {q \in Procs : Assigning(q)}}
    \cup {e.ctx : e \in logged}

\* Field f has been evaluated.
Evaluated(f) ==
  once[f] = "done" \/ (once[f] \in Procs /\ Assigning(once[f]) /\ at[once[f]] = f)

\* A field that some context has was evaluated, and all of them have the same value.
Snapshots ==
  /\ \A c \in Shown : \A k \in DOMAIN c : Evaluated(c[k][1])
  /\ \A b, c \in Shown : \A k \in DOMAIN b, l \in DOMAIN c :
       b[k][1] = c[l][1] => b[k][2] = c[l][2]

IInv ==
  /\ TypeOK /\ Descent /\ Stored /\ Snapshots
  /\ \A e \in logged : Whole(e.ctx, e.core, lost)
-----------------------------------------------------------------------------
\* A context stays whole when more fields are given up.
LEMMA WholeMonotone ==
  ASSUME NEW c, NEW i, NEW gone, NEW more, gone \subseteq more, Whole(c, i, gone)
  PROVE  Whole(c, i, more)
BY Zenon DEF Whole

\* It is the context of a core further up when all between are given up.
LEMMA WholeUp ==
  ASSUME NEW c, NEW i \in Nat, NEW j \in Nat, NEW gone, i <= j, c \in Context, Whole(c, i, gone),
         \A f \in i + 1 .. j : f \in gone
  PROVE  Whole(c, j, gone)
<1>1. \A k \in DOMAIN c : c[k][1] \in Nat
  BY DepthAssumption DEF Context, Lazy
<1>2. \A k \in DOMAIN c : c[k][1] <= j
  BY <1>1 DEF Whole
<1>3. \A f \in 1..j : f \in gone \/ \E k \in DOMAIN c : c[k][1] = f
  BY DEF Whole
<1> QED BY <1>2, <1>3, Zenon DEF Whole

\* With of the io core: the context gets the next field that is not given up.
LEMMA WholeAppend ==
  ASSUME NEW c \in Context, NEW i \in Nat, NEW j \in Lazy, NEW v \in Nat, NEW gone,
         i < j, Whole(c, i, gone), \A f \in i + 1 .. j - 1 : f \in gone
  PROVE  /\ Append(c, <<j, v>>) \in Context
         /\ Whole(Append(c, <<j, v>>), j, gone)
<1> DEFINE b == Append(c, <<j, v>>)
<1>1. b \in Context /\ Len(b) = Len(c) + 1 /\ DOMAIN b = 1..Len(b) /\ DOMAIN c = 1..Len(c)
  BY DepthAssumption DEF Context
<1>2. b[Len(b)] = <<j, v>> /\ \A k \in DOMAIN c : b[k] = c[k]
  BY <1>1 DEF Context
<1>3. \A k \in DOMAIN c : c[k][1] \in Nat /\ c[k][1] <= i
  BY DepthAssumption DEF Context, Lazy, Whole
<1>4. b[Len(b)][1] = j /\ j \in Nat
  BY <1>2, DepthAssumption DEF Lazy
<1> HIDE DEF b
<1>5. \A k, l \in DOMAIN b : k < l => b[k][1] < b[l][1]
  <2> TAKE k, l \in DOMAIN b
  <2> HAVE k < l
  <2>0. Len(c) \in Nat /\ k \in 1 .. Len(c) + 1 /\ l \in 1 .. Len(c) + 1
    BY <1>1 DEF Context
  <2>3. k \in DOMAIN c
    BY <2>0, <1>1
  <2>1. CASE l \in DOMAIN c
    <3>1. c[k][1] < c[l][1]
      BY <2>1, <2>3, Zenon DEF Whole
    <3> QED BY Zenon, <3>1, <2>1, <2>3, <1>2
  <2>2. CASE l \notin DOMAIN c
    <3>1. l = Len(b)
      BY <2>0, <2>2, <1>1
    <3> QED BY <3>1, <2>3, <1>2, <1>3, <1>4
  <2> QED BY Zenon, <2>1, <2>2
<1>6. \A k \in DOMAIN b : b[k][1] <= j
  <2> TAKE k \in DOMAIN b
  <2>1. CASE k \in DOMAIN c
    BY <2>1, <1>2, <1>3, <1>4
  <2>2. CASE k \notin DOMAIN c
    BY <2>2, <1>1, <1>4 DEF Context
  <2> QED BY Zenon, <2>1, <2>2
<1>7. \A f \in 1..j : f \in gone \/ \E k \in DOMAIN b : b[k][1] = f
  <2> TAKE f \in 1..j
  <2>1. CASE f = j
    BY <2>1, <1>1, <1>4 DEF Context
  <2>2. CASE f \in 1..i
    <3>1. f \in gone \/ \E k \in DOMAIN c : c[k][1] = f
      BY <2>2, Zenon DEF Whole
    <3>2. DOMAIN c \subseteq DOMAIN b
      BY <1>1 DEF Context
    <3> QED BY Zenon, <3>1, <3>2, <1>2
  <2>3. CASE f \in i + 1 .. j - 1
    BY Zenon, <2>3
  <2> QED BY <2>1, <2>2, <2>3, <1>4
<1> QED BY <1>1, <1>5, <1>6, <1>7, Zenon DEF Whole, b

\* When a goroutine reaches an io core, its context is that of a core i, and the
\* cores after i up to where it is are given up or its own.
LEMMA AtIo ==
  ASSUME IInv, NEW p \in Procs, pc[p] = "core", typ[at[p]] = "io"
  PROVE  \E i \in Nat :
           /\ Whole(dat[at[p]].ctx, i, lost)
           /\ i <= at[p]
           /\ \A f \in i + 1 .. at[p] : f \in lost \/ once[f] = p
           /\ \A j \in Lazy : once[j] = p => i < j
<1> DEFINE a == at[p]
<1>1. a \in Lazy /\ a \in Nat /\ a > 0 /\ Lazy \subseteq Nat
  BY DepthAssumption DEF IInv, TypeOK, Lazy
<1>2. once[a] = p \/ once[a] = "done"
  BY Zenon DEF IInv, Descent, Descends
<1>3. \A j \in Lazy : once[j] = p => a <= j
  BY Zenon DEF IInv, Descent, Descends
<1>4. CASE once[a] = "done" /\ a \notin lost
  <2>1. Whole(dat[a].ctx, a, lost)
    BY <1>1, <1>4, Zenon DEF IInv, Stored, StoredAt
  <2>2. \A j \in Lazy : once[j] = p => a < j
    BY <1>1, <1>3, <1>4, ProcsAssumption
  <2> QED BY <1>1, <2>1, <2>2
<1>5. CASE ~(once[a] = "done" /\ a \notin lost)
  <2>0. ~(once[a] \in Procs /\ pc[once[a]] = "assign2" /\ at[once[a]] = a)
    BY Zenon, <1>2, ProcsAssumption
  <2>1. Untouched(a)
    BY <1>1, <1>5, <2>0, Zenon DEF IInv, Stored, StoredAt
  <2>2. a = 1 /\ dat[a].ctx = << >>
    BY <2>1 DEF Untouched, IoPtr
  <2>3. Whole(<< >>, 0, lost)
    BY DEF Whole
  <2>4. a \in lost \/ once[a] = p
    BY Zenon, <1>2, <1>5
  <2>5. \A f \in 0 + 1 .. a : f \in lost \/ once[f] = p
    BY <2>2, <2>4
  <2>6. \A j \in Lazy : once[j] = p => 0 < j
    BY DEF Lazy
  <2> QED BY <1>1, <2>2, <2>3, <2>5, <2>6
<1> QED BY Zenon, <1>4, <1>5

\* When it reaches a lazy core instead, that core wraps the one below, and is its
\* own to initialize or given up.
LEMMA AtLazy ==
  ASSUME IInv, NEW p \in Procs, pc[p] = "core", typ[at[p]] = "lazy"
  PROVE  /\ dat[at[p]].core = at[p] - 1
         /\ at[p] - 1 \in Lazy
         /\ once[at[p]] = p \/ at[p] \in lost
<1>1. at[p] \in Lazy /\ at[p] \in Nat /\ at[p] > 0
  BY DepthAssumption DEF IInv, TypeOK, Lazy
<1>2. once[at[p]] = p \/ once[at[p]] = "done"
  BY Zenon DEF IInv, Descent, Descends
<1>3. ~(once[at[p]] = "done" /\ at[p] \notin lost)
  BY <1>1, Zenon DEF IInv, Stored, StoredAt
<1>4. ~(once[at[p]] \in Procs /\ pc[once[at[p]]] = "assign2" /\ at[once[at[p]]] = at[p])
  BY Zenon, <1>2, ProcsAssumption
<1>5. Untouched(at[p])
  BY <1>1, <1>3, <1>4, Zenon DEF IInv, Stored, StoredAt
<1>6. at[p] # 1 /\ dat[at[p]].core = at[p] - 1
  BY <1>5 DEF Untouched, LazyPtr
<1>7. at[p] - 1 \in Lazy
  BY <1>1, <1>6, DepthAssumption DEF Lazy
<1> QED BY Zenon, <1>2, <1>3, <1>6, <1>7
-----------------------------------------------------------------------------
\* Init establishes the invariant.
LEMMA InitInv == Init => IInv
<1> HAVE Init
<1>0. Depth \in Lazy /\ Lazy \subseteq Nat
  BY DepthAssumption DEF Lazy
<1>1. << >> \in Context
  BY DEF Context
<1>2. TypeOK
  <2>1. dat \in [Lazy -> [core : 0..Depth, ctx : Context]]
    BY <1>1, DepthAssumption DEF Init, IoPtr, LazyPtr, Lazy
  <2> QED BY <2>1, <1>0, <1>1, Zenon DEF Init, TypeOK, Place
<1>3. Descent
  BY ProcsAssumption, Zenon DEF Init, Descent, Descends, Assigning
<1>4. Stored
  BY Zenon DEF Init, Stored, StoredAt, Untouched
<1>5. Shown \subseteq {<< >>}
  BY Zenon DEF Init, Shown, Assigning, IoPtr, LazyPtr
<1>6. Snapshots
  BY <1>5 DEF Snapshots
<1> QED BY <1>2, <1>3, <1>4, <1>6, Zenon DEF IInv, Init

\* The types.
LEMMA TypeStep == ASSUME IInv, [Next]_vars PROVE TypeOK'
<1> USE DEF Place
<1>0. TypeOK /\ Lazy \subseteq Nat
  BY DepthAssumption DEF IInv, Lazy
<1>1. ASSUME NEW p \in Procs, NEW i \in Lazy, Log(p, i) PROVE TypeOK'
  BY <1>0, <1>1, Zenon DEF TypeOK, Log, Enter, Goto, d
<1>2. ASSUME NEW p \in Procs, ReadType(p) PROVE TypeOK'
  BY <1>0, <1>2, Zenon DEF TypeOK, ReadType, Goto, d
<1>3. ASSUME NEW p \in Procs, ReadPointer(p) PROVE TypeOK'
  <2>1. dat[at[p]].core \in 0..Depth /\ at[p] \in Lazy /\ top[p] \in Lazy
    BY <1>0, Zenon DEF TypeOK
  <2>2. dat[at[p]].core # 0 => dat[at[p]].core \in Lazy
    BY <2>1, DepthAssumption DEF Lazy
  <2>3. \E l \in Place, i \in Lazy : pc' = [pc EXCEPT ![p] = l] /\ at' = [at EXCEPT ![p] = i]
    BY <2>1, <2>2, <1>3, Zenon DEF ReadPointer, Enter, Goto
  <2> QED BY <2>3, <1>0, <1>3 DEF TypeOK, ReadPointer, d
<1>4. ASSUME NEW p \in Procs, EnterOnce(p) PROVE TypeOK'
  BY <1>0, <1>4, Zenon DEF TypeOK, EnterOnce, Goto
<1>5. ASSUME NEW p \in Procs, CallLazy(p) PROVE TypeOK'
  <2>1. dat[at[p]].core \in Lazy
    BY <1>5, AtLazy, Zenon DEF CallLazy
  <2> QED BY <2>1, <1>0, <1>5, Zenon DEF TypeOK, CallLazy, Enter, Goto, d
<1>6. ASSUME NEW p \in Procs, CheckIo(p) PROVE TypeOK'
  <2>1. [core |-> top[p], ctx |-> dat[at[p]].ctx] \in [core : Lazy, ctx : Context]
    BY <1>0, Zenon DEF TypeOK
  <2>2. logged' \subseteq [core : Lazy, ctx : Context]
    BY <2>1, <1>0, <1>6, Zenon DEF TypeOK, CheckIo
  <2> QED BY <2>2, <1>0, <1>6, Zenon DEF TypeOK, CheckIo, Goto, d
<1>7. ASSUME NEW p \in Procs, WithIo(p) PROVE TypeOK'
  <2>1. PICK i \in Lazy : /\ res' = [res EXCEPT ![p] = Append(dat[at[p]].ctx, <<i, version[i]>>)]
                          /\ Enter(p, "assign", i)
    BY <1>7, Zenon DEF WithIo, Owned
  <2>2. Append(dat[at[p]].ctx, <<i, version[i]>>) \in Context
    <3>1. dat[at[p]].ctx \in Seq(Lazy \X Nat)
      BY <1>0, Zenon DEF TypeOK, Context
    <3>2. <<i, version[i]>> \in Lazy \X Nat
      BY <1>0, Zenon DEF TypeOK
    <3> QED BY <3>1, <3>2 DEF Context
  <2> QED BY <2>1, <2>2, <1>0, <1>7, Zenon DEF TypeOK, WithIo, Enter, Goto, d
<1>8. ASSUME NEW p \in Procs, WithPanics(p) PROVE TypeOK'
  BY <1>0, <1>8, Zenon DEF TypeOK, WithPanics, Goto, Owned
<1>9. ASSUME NEW p \in Procs, AssignFirst(p) PROVE TypeOK'
  <2>1. IoPtr(res[p]) \in [core : 0..Depth, ctx : Context]
    BY <1>0, DepthAssumption DEF TypeOK, IoPtr
  <2> QED BY <2>1, <1>0, <1>9 DEF TypeOK, AssignFirst, Goto
<1>10. ASSUME NEW p \in Procs, AssignSecond(p) PROVE TypeOK'
  <2>1. IoPtr(res[p]) \in [core : 0..Depth, ctx : Context]
    BY <1>0, DepthAssumption DEF TypeOK, IoPtr
  <2> QED BY <2>1, <1>0, <1>10, Zenon DEF TypeOK, AssignSecond, Goto
<1>11. ASSUME NEW i \in Lazy, Mutate(i) PROVE TypeOK'
  BY <1>0, <1>11 DEF TypeOK, Mutate, d, locals
<1>12. CASE UNCHANGED vars
  BY <1>0, <1>12, Zenon DEF TypeOK, vars, d, locals
<1> QED BY <1>1, <1>2, <1>3, <1>4, <1>5, <1>6, <1>7, <1>8, <1>9, <1>10, <1>11, <1>12, Zenon DEF Next, Step

\* A goroutine does not notice what others do to the Onces it is not in.
LEMMA Bystander ==
  ASSUME NEW q \in Procs, Descends(q), at[q] \in Lazy,
         pc'[q] = pc[q], at'[q] = at[q], top'[q] = top[q], res'[q] = res[q],
         lost \subseteq lost',
         \A j \in Lazy : once'[j] = q <=> once[j] = q,
         \A j \in Lazy : once[j] = "done" => once'[j] = "done"
  PROVE  Descends(q)'
<1>1. Assigning(q)' <=> Assigning(q)
  BY Zenon DEF Assigning
<1>2. Assigning(q) => Whole(res[q], at[q], lost)'
  BY WholeMonotone DEF Descends, Whole
<1> QED BY <1>1, <1>2, Zenon DEF Descends

\* The way down.
LEMMA DescentStep == ASSUME IInv, [Next]_vars PROVE Descent'
<1> USE DEF Assigning
<1>0. /\ TypeOK /\ Lazy \subseteq Nat /\ \A q \in Procs : Descends(q) /\ at[q] \in Lazy
      /\ "new" \notin Procs /\ "done" \notin Procs
  <2>1. TypeOK /\ \A q \in Procs : Descends(q)
    BY Zenon DEF IInv, Descent
  <2>2. \A q \in Procs : at[q] \in Lazy
    BY <2>1, Zenon DEF TypeOK
  <2>3. Lazy \subseteq Nat
    BY DepthAssumption DEF Lazy
  <2> QED BY Zenon, <2>1, <2>2, <2>3, ProcsAssumption
<1>1. ASSUME NEW p \in Procs, NEW i \in Lazy, Log(p, i), NEW q \in Procs PROVE Descends(q)'
  <2>1. CASE q = p
    BY <2>1, <1>0, <1>1, ZenonT(30) DEF TypeOK, Descends, Log, Enter, Goto, d
  <2>2. CASE q # p
    BY <2>2, <1>0, <1>1, Bystander, Zenon DEF TypeOK, Log, Enter, Goto, d
  <2> QED BY Zenon, <2>1, <2>2
<1>2. ASSUME NEW p \in Procs, ReadType(p), NEW q \in Procs PROVE Descends(q)'
  <2>1. CASE q = p
    BY <2>1, <1>0, <1>2, ZenonT(30) DEF TypeOK, Descends, ReadType, Goto, d
  <2>2. CASE q # p
    BY <2>2, <1>0, <1>2, Bystander, Zenon DEF TypeOK, ReadType, Goto, d
  <2> QED BY Zenon, <2>1, <2>2
<1>3. ASSUME NEW p \in Procs, ReadPointer(p), NEW q \in Procs PROVE Descends(q)'
  <2>0. /\ \/ Enter(p, "crashed", at[p])
           \/ Enter(p, "once", top[p])
           \/ Enter(p, "type", dat[at[p]].core)
        /\ UNCHANGED <<once, top, res, lost>>
    BY <1>3, ZenonT(30) DEF ReadPointer, d
  <2>1. CASE q = p
    <3>1. \A j \in Lazy : once[j] # p
      BY <1>0, <1>3, Zenon DEF Descends, ReadPointer
    <3>2. /\ pc'[p] \in {"crashed", "once", "type"}
          /\ pc'[p] = "once" => at'[p] = top[p]
          /\ top[p] \in Nat
      BY <2>0, <1>0, Zenon DEF TypeOK, Enter, Goto
    <3>3. pc'[p] = "once" => at'[p] <= top'[p] /\ at'[p] \in Lazy
      BY <3>2, <2>0, <1>0 DEF TypeOK
    <3>4. pc'[p] = "once" => \A j \in Lazy : ~(at'[p] < j /\ j <= top'[p])
      BY <3>2, <2>0, <1>0
    <3> QED BY <2>0, <2>1, <3>1, <3>2, <3>3, <3>4, Zenon DEF Descends
  <2>2. CASE q # p
    BY <2>0, <2>2, <1>0, Bystander, Zenon DEF TypeOK, Enter, Goto
  <2> QED BY <2>1, <2>2
<1>4. ASSUME NEW p \in Procs, EnterOnce(p), NEW q \in Procs PROVE Descends(q)'
  <2>1. CASE q = p
    BY <2>1, <1>0, <1>4 DEF TypeOK, Descends, EnterOnce, Goto
  <2>2. CASE q # p
    BY <2>2, <1>0, <1>4, Bystander, Zenon DEF TypeOK, EnterOnce, Goto
  <2> QED BY <2>1, <2>2
<1>5. ASSUME NEW p \in Procs, CallLazy(p), NEW q \in Procs PROVE Descends(q)'
  <2>1. CASE q = p
    <3>1. /\ dat[at[p]].core = at[p] - 1
          /\ at[p] - 1 \in Lazy
          /\ once[at[p]] = p \/ at[p] \in lost
      BY <1>5, AtLazy, Zenon DEF CallLazy
    <3>2. /\ pc' = [pc EXCEPT ![p] = "once"] /\ at' = [at EXCEPT ![p] = at[p] - 1]
          /\ UNCHANGED <<once, top, res, lost>>
      BY <3>1, <1>5, Zenon DEF CallLazy, Enter, Goto, d
    <3>3. pc'[p] = "once" /\ at'[p] = at[p] - 1
      BY <3>2, <1>0, Zenon DEF TypeOK
    <3>4. /\ at[p] <= top[p]
          /\ \A j \in Lazy : once[j] = p => at[p] <= j /\ j <= top[p]
          /\ \A j \in Lazy : at[p] < j /\ j <= top[p] => once[j] = p \/ j \in lost
      BY <1>0, <1>5, Zenon DEF Descends, CallLazy
    <3>6. top[p] \in Nat /\ at[p] \in Nat
      BY <1>0, Zenon DEF TypeOK
    <3>5. \A j \in Lazy : at[p] - 1 < j => at[p] = j \/ at[p] < j
      BY <3>6, DepthAssumption DEF Lazy
    <3>8. \A j \in Lazy : at[p] - 1 < j /\ j <= top[p] => once[j] = p \/ j \in lost
      BY Zenon, <3>1, <3>4, <3>5
    <3>9. \A j \in Lazy : once[j] = p => at[p] - 1 < j /\ at[p] - 1 <= j /\ j <= top[p]
      BY <3>4, <3>6, DepthAssumption DEF Lazy
    <3>10. once[at[p] - 1] # p /\ at[p] - 1 <= top[p]
      BY <3>1, <3>4, <3>6, <3>9
    <3> HIDE DEF Assigning
    <3>7. ~Assigning(p)'
      BY <3>3, Zenon DEF Assigning
    <3> QED BY <2>1, <3>2, <3>3, <3>7, <3>8, <3>9, <3>10, Zenon DEF Descends
  <2>2. CASE q # p
    BY <2>2, <1>0, <1>5, Bystander, Zenon DEF TypeOK, CallLazy, Enter, Goto, d
  <2> QED BY <2>1, <2>2
<1>6. ASSUME NEW p \in Procs, CheckIo(p), NEW q \in Procs PROVE Descends(q)'
  <2>1. CASE q = p
    BY <2>1, <1>0, <1>6, Zenon DEF TypeOK, Descends, CheckIo, Goto, Owned, d
  <2>2. CASE q # p
    BY <2>2, <1>0, <1>6, Bystander, Zenon DEF TypeOK, CheckIo, Goto, d
  <2> QED BY <2>1, <2>2
<1>7. ASSUME NEW p \in Procs, WithIo(p), NEW q \in Procs PROVE Descends(q)'
  <2>0. PICK i \in Lazy : /\ once[i] = p
                          /\ \A j \in Lazy : once[j] = p => i <= j
                          /\ res' = [res EXCEPT ![p] = Append(dat[at[p]].ctx, <<i, version[i]>>)]
                          /\ Enter(p, "assign", i)
    BY <1>7, ZenonT(60) DEF WithIo, Owned
  <2>1. CASE q = p
    <3>1. PICK a \in Nat : /\ Whole(dat[at[p]].ctx, a, lost)
                           /\ a <= at[p]
                           /\ \A f \in a + 1 .. at[p] : f \in lost \/ once[f] = p
                           /\ \A j \in Lazy : once[j] = p => a < j
      BY <1>7, AtIo, ZenonT(60) DEF WithIo
    <3>2. /\ at[p] <= top[p] /\ i <= top[p]
          /\ \A j \in Lazy : once[j] = p => at[p] <= j /\ j <= top[p]
          /\ \A j \in Lazy : at[p] < j /\ j <= top[p] => once[j] = p \/ j \in lost
      BY <1>0, <1>7, <2>0, Zenon DEF Descends, WithIo
    <3>3. at[p] \in Nat /\ top[p] \in Nat /\ top[p] <= Depth /\ i \in Nat /\ at[p] <= i /\ a < i
      BY <1>0, <2>0, <3>1, <3>2, SMTT(30) DEF TypeOK, Lazy
    <3>4. \A f \in a + 1 .. i - 1 : f \in lost
      <4> TAKE f \in a + 1 .. i - 1
      <4>1. f \in Lazy /\ once[f] # p
        BY <2>0, <3>2, <3>3, <1>0, DepthAssumption DEF Lazy
      <4>2. CASE f <= at[p]
        BY <4>1, <4>2, <3>1, <3>3
      <4>3. CASE at[p] < f
        BY <4>1, <4>3, <3>2, <3>3
      <4> QED BY <4>2, <4>3, <3>3
    <3>5. dat[at[p]].ctx \in Context /\ version[i] \in Nat
      BY <1>0, Zenon DEF TypeOK
    <3>6. Whole(Append(dat[at[p]].ctx, <<i, version[i]>>), i, lost)
      BY Zenon, <3>1, <3>3, <3>4, <3>5, WholeAppend
    <3>7. pc'[p] = "assign" /\ at'[p] = i /\ res'[p] = Append(dat[at[p]].ctx, <<i, version[i]>>)
      BY <2>0, <1>0, Zenon DEF TypeOK, Enter, Goto
    <3>8. UNCHANGED <<once, top, lost>>
      BY <1>7, Zenon DEF WithIo, d
    <3>9. Whole(res[p], at[p], lost)'
      BY Zenon, <3>6, <3>7, <3>8
    <3>10. \A j \in Lazy : i < j /\ j <= top[p] => once[j] = p \/ j \in lost
      BY <3>2, <3>3, <1>0, SMTT(30)
    <3> HIDE DEF Assigning
    <3> QED BY <2>0, <2>1, <3>2, <3>7, <3>8, <3>9, <3>10, Zenon DEF Descends
  <2>2. CASE q # p
    BY <2>0, <2>2, <1>0, <1>7, Bystander, Zenon DEF TypeOK, WithIo, Enter, Goto, d
  <2> QED BY <2>1, <2>2, Zenon
<1>8. ASSUME NEW p \in Procs, WithPanics(p), NEW q \in Procs PROVE Descends(q)'
  <2>0. /\ \A j \in Lazy : once'[j] = IF once[j] = p THEN "done" ELSE once[j]
        /\ pc' = [pc EXCEPT ![p] = "idle"] /\ lost \subseteq lost' /\ UNCHANGED <<at, top, res>>
    BY <1>8, Zenon DEF WithPanics, Owned, Goto
  <2>1. CASE q = p
    <3>1. pc'[p] = "idle" /\ \A j \in Lazy : once'[j] # p
      BY <1>0, <2>0, Zenon DEF TypeOK
    <3> QED BY <2>1, <3>1, Zenon DEF Descends
  <2>2. CASE q # p
    BY <2>0, <2>2, <1>0, Bystander, Zenon DEF TypeOK
  <2> QED BY <2>1, <2>2
<1>9. ASSUME NEW p \in Procs, AssignFirst(p), NEW q \in Procs PROVE Descends(q)'
  <2>1. CASE q = p
    BY <2>1, <1>0, <1>9 DEF TypeOK, Descends, AssignFirst, Goto
  <2>2. CASE q # p
    BY <2>2, <1>0, <1>9, Bystander, Zenon DEF TypeOK, AssignFirst, Goto
  <2> QED BY <2>1, <2>2
<1>10. ASSUME NEW p \in Procs, AssignSecond(p), NEW q \in Procs PROVE Descends(q)'
  <2>0. /\ \A j \in Lazy : once'[j] = IF j = at[p] THEN "done" ELSE once[j]
        /\ pc' = [pc EXCEPT ![p] = "core"] /\ UNCHANGED <<at, top, res, lost>>
        /\ once[at[p]] = p
    BY <1>0, <1>10, ZenonT(30) DEF TypeOK, AssignSecond, Goto, Descends
  <2>1. CASE q = p
    BY <2>0, <2>1, <1>0, <1>10 DEF TypeOK, Descends, AssignSecond
  <2>2. CASE q # p
    BY <2>0, <2>2, <1>0, Bystander, Zenon DEF TypeOK
  <2> QED BY <2>1, <2>2
<1>11. ASSUME NEW i \in Lazy, Mutate(i), NEW q \in Procs PROVE Descends(q)'
  BY <1>0, <1>11, Bystander, Zenon DEF Mutate, d, locals
<1>12. ASSUME UNCHANGED vars, NEW q \in Procs PROVE Descends(q)'
  BY <1>0, <1>12, Bystander, Zenon DEF vars, d, locals
<1> HIDE DEF Assigning
<1> QED BY Zenon, <1>1, <1>2, <1>3, <1>4, <1>5, <1>6, <1>7, <1>8, <1>9, <1>10, <1>11, <1>12
        DEF Next, Step, Descent

\* A core that a step is not about.
LEMMA Elsewhere ==
  ASSUME NEW i \in Lazy, StoredAt(i), typ'[i] = typ[i], dat'[i] = dat[i], once'[i] = once[i],
         i \in lost' <=> i \in lost, lost \subseteq lost',
         once[i] \in Procs /\ pc[once[i]] = "assign2" /\ at[once[i]] = i =>
           pc'[once[i]] = "assign2" /\ at'[once[i]] = i
  PROVE  StoredAt(i)'
<1>1. Untouched(i)' <=> Untouched(i)
  BY Zenon DEF Untouched
<1>2. Whole(dat[i].ctx, i, lost) => Whole(dat[i].ctx, i, lost)'
  BY WholeMonotone, ZenonT(60) DEF Whole
<1> QED BY <1>1, <1>2, Zenon DEF StoredAt

\* What d.Core holds.
LEMMA StoredStep == ASSUME IInv, [Next]_vars PROVE Stored'
<1>0. /\ TypeOK /\ \A i \in Lazy : StoredAt(i)
      /\ "new" \notin Procs /\ "done" \notin Procs
  BY ProcsAssumption, Zenon DEF IInv, Stored
<1>a. ASSUME NEW p \in Procs, pc[p] # "assign2", \A q \in Procs \ {p} : pc'[q] = pc[q] /\ at'[q] = at[q],
             NEW i \in Lazy, typ'[i] = typ[i], dat'[i] = dat[i], once'[i] = once[i],
             i \in lost' <=> i \in lost, lost \subseteq lost'
      PROVE  StoredAt(i)'
  BY Zenon, <1>0, <1>a, Elsewhere
<1>1. ASSUME NEW p \in Procs, NEW j \in Lazy, Log(p, j), NEW i \in Lazy PROVE StoredAt(i)'
  BY <1>0, <1>1, <1>a, Zenon DEF TypeOK, Log, Enter, Goto, d
<1>2. ASSUME NEW p \in Procs, ReadType(p), NEW i \in Lazy PROVE StoredAt(i)'
  BY <1>0, <1>2, <1>a, Zenon DEF TypeOK, ReadType, Goto, d
<1>3. ASSUME NEW p \in Procs, ReadPointer(p), NEW i \in Lazy PROVE StoredAt(i)'
  <2>1. \A q \in Procs \ {p} : pc'[q] = pc[q] /\ at'[q] = at[q]
    BY <1>0, <1>3, ZenonT(30) DEF TypeOK, ReadPointer, Enter, Goto
  <2> QED BY <2>1, <1>3, <1>a, Zenon DEF ReadPointer, d
<1>4. ASSUME NEW p \in Procs, EnterOnce(p), NEW i \in Lazy PROVE StoredAt(i)'
  <2>1. CASE once[at[p]] = "new" /\ i = at[p]
    <3>1. Untouched(i) /\ i \notin lost
      BY <1>0, <2>1, Zenon DEF StoredAt
    <3>2. Untouched(i)'
      BY <3>1, <1>4, Zenon DEF Untouched, EnterOnce
    <3>3. once'[i] = p /\ i \notin lost'
      BY <3>1, <2>1, <1>0, <1>4, Zenon DEF TypeOK, EnterOnce
    <3> QED BY <3>2, <3>3, <1>0, Zenon DEF StoredAt
  <2>2. CASE ~(once[at[p]] = "new" /\ i = at[p])
    <3>1. once'[i] = once[i]
      BY <2>2, <1>0, <1>4, Zenon DEF TypeOK, EnterOnce
    <3> QED BY <3>1, <1>0, <1>4, <1>a, Zenon DEF TypeOK, EnterOnce, Goto
  <2> QED BY <2>1, <2>2, Zenon
<1>5. ASSUME NEW p \in Procs, CallLazy(p), NEW i \in Lazy PROVE StoredAt(i)'
  BY <1>0, <1>5, <1>a, Zenon DEF TypeOK, CallLazy, Enter, Goto, d
<1>6. ASSUME NEW p \in Procs, CheckIo(p), NEW i \in Lazy PROVE StoredAt(i)'
  BY <1>0, <1>6, <1>a, Zenon DEF TypeOK, CheckIo, Goto, d
<1>7. ASSUME NEW p \in Procs, WithIo(p), NEW i \in Lazy PROVE StoredAt(i)'
  <2>1. \A q \in Procs \ {p} : pc'[q] = pc[q] /\ at'[q] = at[q]
    BY <1>0, <1>7, ZenonT(30) DEF TypeOK, WithIo, Enter, Goto
  <2> QED BY <2>1, <1>7, <1>a, Zenon DEF WithIo, d
<1>8. ASSUME NEW p \in Procs, WithPanics(p), NEW i \in Lazy PROVE StoredAt(i)'
  <2>0. /\ once'[i] = IF once[i] = p THEN "done" ELSE once[i]
        /\ lost' = lost \cup {j \in Lazy : once[j] = p}
        /\ pc' = [pc EXCEPT ![p] = "idle"] /\ UNCHANGED <<typ, dat, at>>
    BY <1>8, Zenon DEF WithPanics, Owned, Goto
  <2>1. CASE once[i] = p
    <3>1. Untouched(i)
      BY <2>1, <1>0, <1>8, Zenon DEF StoredAt, WithPanics
    <3>2. Untouched(i)'
      BY <3>1, <2>0, Zenon DEF Untouched
    <3> QED BY <2>0, <2>1, <3>2, Zenon DEF StoredAt
  <2>2. CASE once[i] # p
    BY <2>0, <2>2, <1>0, <1>8, <1>a, Zenon DEF TypeOK, WithPanics
  <2> QED BY <2>1, <2>2, Zenon
<1>9. ASSUME NEW p \in Procs, AssignFirst(p), NEW i \in Lazy PROVE StoredAt(i)'
  <2>0. once[at[p]] = p
    BY <1>9, Zenon DEF IInv, Descent, Descends, Assigning, AssignFirst
  <2>1. CASE i = at[p]
    <3>1. once'[i] = p /\ pc'[p] = "assign2" /\ at'[p] = i /\ i \notin lost'
      BY <2>0, <2>1, <1>0, <1>9, Zenon DEF TypeOK, AssignFirst, Goto, StoredAt
    <3> QED BY <3>1, <1>0, Zenon DEF StoredAt
  <2>2. CASE i # at[p]
    BY <2>2, <1>0, <1>9, <1>a, Zenon DEF TypeOK, AssignFirst, Goto
  <2> QED BY <2>1, <2>2, Zenon
<1>10. ASSUME NEW p \in Procs, AssignSecond(p), NEW i \in Lazy PROVE StoredAt(i)'
  <2>0. once[at[p]] = p /\ Whole(res[p], at[p], lost)
    BY <1>10, ZenonT(60) DEF IInv, Descent, Descends, Assigning, AssignSecond
  <2>1. CASE i = at[p]
    <3>1. once'[i] = "done" /\ typ'[i] = "io" /\ dat'[i] = IoPtr(res[p]) /\ i \notin lost'
      BY <2>0, <2>1, <1>0, <1>10, Zenon DEF TypeOK, AssignSecond, StoredAt
    <3>2. dat'[i].ctx = res[p] /\ lost' = lost
      <4>1. IoPtr(res[p]).ctx = res[p]
        BY Zenon DEF IoPtr
      <4>2. lost' = lost
        BY <1>10, Zenon DEF AssignSecond
      <4> QED BY <3>1, <4>1, <4>2, Zenon
    <3>3. Whole(dat[i].ctx, i, lost)'
      BY Zenon, <3>2, <2>0, <2>1
    <3> QED BY <3>1, <3>3, Zenon DEF StoredAt
  <2>2. CASE i # at[p]
    <3>1. once[i] = p => at[p] # i
      BY Zenon, <2>2
    <3> QED BY <2>2, <1>0, <1>10, Elsewhere, Zenon DEF TypeOK, AssignSecond, Goto
  <2> QED BY Zenon, <2>1, <2>2
<1>11. ASSUME NEW j \in Lazy, Mutate(j), NEW i \in Lazy PROVE StoredAt(i)'
  BY <1>0, <1>11, Elsewhere, ZenonT(30) DEF Mutate, d, locals
<1>12. ASSUME UNCHANGED vars, NEW i \in Lazy PROVE StoredAt(i)'
  BY <1>0, <1>12, Elsewhere, ZenonT(60) DEF vars, d, locals
<1> QED BY Zenon, <1>1, <1>2, <1>3, <1>4, <1>5, <1>6, <1>7, <1>8, <1>9, <1>10, <1>11, <1>12
        DEF Next, Step, Stored

\* A step that shows no new context.
LEMMA NothingNew ==
  ASSUME Snapshots, Shown' \subseteq Shown, Shown \subseteq Context,
         \A f \in Lazy : Evaluated(f) => Evaluated(f)'
  PROVE  Snapshots'
<1>1. \A c \in Shown : \A k \in DOMAIN c : c[k][1] \in Lazy
  BY DEF Context
<1>2. \A c \in Shown' : \A k \in DOMAIN c : Evaluated(c[k][1])'
  BY <1>1, Zenon DEF Snapshots
<1>3. \A b, c \in Shown' : \A k \in DOMAIN b, l \in DOMAIN c :
        b[k][1] = c[l][1] => b[k][2] = c[l][2]
  BY Zenon DEF Snapshots
<1> QED BY <1>2, <1>3, Zenon DEF Snapshots

\* Fields are evaluated once.
LEMMA SnapshotStep == ASSUME IInv, [Next]_vars PROVE Snapshots'
<1>0. TypeOK /\ Snapshots /\ "new" \notin Procs /\ "done" \notin Procs
  BY ProcsAssumption, Zenon DEF IInv
<1>b. Shown \subseteq Context
  BY <1>0 DEF TypeOK, Shown
<1>a. ASSUME NEW p \in Procs, ~Assigning(p), ~Assigning(p)',
             \A q \in Procs \ {p} : pc'[q] = pc[q] /\ at'[q] = at[q],
             UNCHANGED <<dat, res>>, {e.ctx : e \in logged'} \subseteq Shown,
             \A f \in Lazy : once[f] = "done" => once'[f] = "done",
             \A f \in Lazy : once[f] \in Procs /\ once[f] # p => once'[f] = once[f]
      PROVE  Snapshots'
  <2>1. Shown' \subseteq Shown
    BY <1>a, Zenon DEF Shown, Assigning
  <2>2. \A f \in Lazy : Evaluated(f) => Evaluated(f)'
    BY <1>a DEF Evaluated, Assigning
  <2> QED BY Zenon, <2>1, <2>2, <1>0, <1>b, NothingNew
<1>c. {e.ctx : e \in logged} \subseteq Shown
  BY Zenon DEF Shown
<1>1. ASSUME NEW p \in Procs, NEW j \in Lazy, Log(p, j) PROVE Snapshots'
  BY <1>0, <1>1, <1>a, <1>c, Zenon DEF TypeOK, Log, Enter, Goto, d, Assigning
<1>2. ASSUME NEW p \in Procs, ReadType(p) PROVE Snapshots'
  BY <1>0, <1>2, <1>a, <1>c, Zenon DEF TypeOK, ReadType, Goto, d, Assigning
<1>3. ASSUME NEW p \in Procs, ReadPointer(p) PROVE Snapshots'
  <2>1. /\ \A q \in Procs \ {p} : pc'[q] = pc[q] /\ at'[q] = at[q]
        /\ pc'[p] \in {"crashed", "once", "type"}
    BY <1>0, <1>3, ZenonT(30) DEF TypeOK, ReadPointer, Enter, Goto
  <2>2. ~Assigning(p) /\ ~Assigning(p)'
    BY <2>1, <1>3, Zenon DEF Assigning, ReadPointer
  <2> QED BY <2>1, <2>2, <1>3, <1>a, <1>c, Zenon DEF ReadPointer, d
<1>4. ASSUME NEW p \in Procs, EnterOnce(p) PROVE Snapshots'
  <2>1. /\ \A f \in Lazy : once[f] = "done" => once'[f] = "done"
        /\ \A f \in Lazy : once[f] \in Procs /\ once[f] # p => once'[f] = once[f]
    BY <1>0, <1>4, Zenon DEF TypeOK, EnterOnce
  <2> QED BY <2>1, <1>0, <1>4, <1>a, <1>c, Zenon DEF TypeOK, EnterOnce, Goto, Assigning
<1>5. ASSUME NEW p \in Procs, CallLazy(p) PROVE Snapshots'
  BY <1>0, <1>5, <1>a, <1>c, Zenon DEF TypeOK, CallLazy, Enter, Goto, d, Assigning
<1>6. ASSUME NEW p \in Procs, CheckIo(p) PROVE Snapshots'
  <2>1. dat[at[p]].ctx \in Shown
    BY <1>0, Zenon DEF TypeOK, Shown
  <2>a. logged' = logged \cup {[core |-> top[p], ctx |-> dat[at[p]].ctx]}
    BY <1>6, Zenon DEF CheckIo
  <2>2. {e.ctx : e \in logged'} \subseteq Shown
    <3> SUFFICES ASSUME NEW e \in logged' PROVE e.ctx \in Shown
      BY Zenon
    <3>1. CASE e \in logged
      BY <3>1, <1>c, Zenon
    <3>2. CASE e = [core |-> top[p], ctx |-> dat[at[p]].ctx]
      BY <3>2, <2>1, Zenon
    <3> QED BY <2>a, <3>1, <3>2, Zenon
  <2> QED BY <2>2, <1>0, <1>6, <1>a, Zenon DEF TypeOK, CheckIo, Goto, d, Assigning
<1>7. ASSUME NEW p \in Procs, WithIo(p) PROVE Snapshots'
  <2>0. PICK i \in Lazy : /\ once[i] = p
                          /\ res' = [res EXCEPT ![p] = Append(dat[at[p]].ctx, <<i, version[i]>>)]
                          /\ Enter(p, "assign", i)
    BY <1>7, ZenonT(60) DEF WithIo, Owned
  <2> DEFINE c0 == dat[at[p]].ctx
             r == Append(c0, <<i, version[i]>>)
  <2>1. /\ pc[p] = "core" /\ UNCHANGED <<dat, once, logged>>
        /\ res'[p] = r /\ \A q \in Procs \ {p} : res'[q] = res[q]
        /\ pc'[p] = "assign" /\ at'[p] = i
        /\ \A q \in Procs \ {p} : pc'[q] = pc[q] /\ at'[q] = at[q]
    BY <2>0, <1>0, <1>7, ZenonT(60) DEF TypeOK, WithIo, Enter, Goto, d
  <2>2. c0 \in Shown /\ c0 \in Context
    BY <1>0, Zenon DEF TypeOK, Shown
  <2>3. DOMAIN r = 1 .. Len(c0) + 1 /\ DOMAIN c0 = 1..Len(c0)
    BY <2>2, SMTT(30) DEF Context
  <2>4. \A k \in DOMAIN r : \/ k \in DOMAIN c0 /\ r[k] = c0[k]
                            \/ r[k] = <<i, version[i]>>
    BY <2>2, SMTT(30) DEF Context
  <2>5. Shown' \subseteq Shown \cup {r}
    <3> HIDE DEF r
    <3> QED BY <2>1, ZenonT(60) DEF Shown, Assigning
  <2>6. ~Evaluated(i)
    BY <2>0, <2>1, <1>0, ZenonT(60) DEF Evaluated, Assigning
  <2>7. \A f \in Lazy : Evaluated(f) => Evaluated(f)'
    BY <2>1, Zenon DEF Evaluated, Assigning
  <2>8. Evaluated(i)'
    BY <2>0, <2>1, ZenonT(60) DEF Evaluated, Assigning
  <2> HIDE DEF r, c0
  <2>9. \A c \in Shown : \A k \in DOMAIN c : c[k][1] \in Lazy /\ Evaluated(c[k][1]) /\ c[k][1] # i
    BY <2>6, <1>0, <1>b DEF Snapshots, Context
  <2>10. \A k \in DOMAIN r : \/ k \in DOMAIN c0 /\ r[k] = c0[k] /\ r[k][1] # i
                             \/ r[k][1] = i /\ r[k][2] = version[i]
    <3>1. ASSUME NEW k \in DOMAIN c0 PROVE c0[k][1] # i
      BY <2>2, <2>9, Zenon
    <3>2. <<i, version[i]>>[1] = i /\ <<i, version[i]>>[2] = version[i]
      BY Zenon
    <3> QED BY <2>4, <3>1, <3>2, Zenon
  <2>11. \A c \in Shown' : \A k \in DOMAIN c : Evaluated(c[k][1])'
    <3> TAKE c \in Shown'
    <3>1. CASE c \in Shown
      BY Zenon, <3>1, <2>7, <2>9
    <3>2. CASE c = r
      BY ZenonT(60), <3>2, <2>2, <2>7, <2>8, <2>9, <2>10
    <3> QED BY Zenon, <3>1, <3>2, <2>5
  <2>12. ASSUME NEW c \in Shown PROVE \A k \in DOMAIN r, l \in DOMAIN c : r[k][1] = c[l][1] => r[k][2] = c[l][2]
    BY <2>2, <2>9, <2>10, <1>0 DEF Snapshots
  <2>13. \A k, l \in DOMAIN r : r[k][1] = r[l][1] => r[k][2] = r[l][2]
    BY <2>2, <2>10, <1>0 DEF Snapshots
  <2>14. \A b, c \in Shown' : \A k \in DOMAIN b, l \in DOMAIN c :
           b[k][1] = c[l][1] => b[k][2] = c[l][2]
    <3> TAKE b, c \in Shown'
    <3>1. CASE b \in Shown /\ c \in Shown
      BY <3>1, <1>0, Zenon DEF Snapshots
    <3>2. CASE b = r /\ c \in Shown
      BY Zenon, <3>2, <2>12
    <3>3. CASE b \in Shown /\ c = r
      BY Zenon, <3>3, <2>12
    <3>4. CASE b = r /\ c = r
      BY ZenonT(60), <3>4, <2>13
    <3> QED BY Zenon, <3>1, <3>2, <3>3, <3>4, <2>5
  <2> QED BY <2>11, <2>14, Zenon DEF Snapshots
<1>8. ASSUME NEW p \in Procs, WithPanics(p) PROVE Snapshots'
  <2>1. \A f \in Lazy : once'[f] = IF once[f] = p THEN "done" ELSE once[f]
    BY <1>8, Zenon DEF WithPanics, Owned
  <2> QED BY <2>1, <1>0, <1>8, <1>a, <1>c, Zenon DEF TypeOK, WithPanics, Goto, Assigning
<1>9. ASSUME NEW p \in Procs, AssignFirst(p) PROVE Snapshots'
  <2>1. /\ Assigning(p) /\ \A q \in Procs : Assigning(q)' <=> Assigning(q)
        /\ UNCHANGED <<res, logged, once, at>>
    BY <1>0, <1>9, Zenon DEF TypeOK, AssignFirst, Goto, Assigning
  <2>2. \A i \in Lazy : dat'[i].ctx = dat[i].ctx \/ dat'[i].ctx = res[p]
    BY <1>0, <1>9, SMTT(30) DEF TypeOK, AssignFirst, IoPtr
  <2>3. Shown' \subseteq Shown
    <3>1. \A i \in Lazy : dat'[i].ctx \in Shown
      BY <2>1, <2>2, Zenon DEF Shown
    <3>2. /\ \A q \in Procs : Assigning(q)' => res'[q] \in Shown
          /\ \A e \in logged' : e.ctx \in Shown
      BY <2>1, ZenonT(60) DEF Shown
    <3> QED BY <3>1, <3>2, Zenon DEF Shown
  <2>4. \A f \in Lazy : Evaluated(f) => Evaluated(f)'
    BY <2>1, Zenon DEF Evaluated
  <2> QED BY Zenon, <2>3, <2>4, <1>0, <1>b, NothingNew
<1>10. ASSUME NEW p \in Procs, AssignSecond(p) PROVE Snapshots'
  <2>1. /\ Assigning(p) /\ \A q \in Procs : Assigning(q)' => Assigning(q)
        /\ \A q \in Procs \ {p} : Assigning(q)' <=> Assigning(q)
        /\ UNCHANGED <<res, logged, at>>
        /\ \A f \in Lazy : once'[f] = IF f = at[p] THEN "done" ELSE once[f]
    BY <1>0, <1>10, Zenon DEF TypeOK, AssignSecond, Goto, Assigning
  <2>2. \A i \in Lazy : dat'[i].ctx = dat[i].ctx \/ dat'[i].ctx = res[p]
    BY <1>0, <1>10, Zenon DEF TypeOK, AssignSecond, IoPtr
  <2>3. Shown' \subseteq Shown
    <3>1. \A i \in Lazy : dat'[i].ctx \in Shown
      BY <2>1, <2>2, ZenonT(60) DEF Shown
    <3>2. /\ \A q \in Procs : Assigning(q)' => res'[q] \in Shown
          /\ \A e \in logged' : e.ctx \in Shown
      BY <2>1, Zenon DEF Shown
    <3> QED BY <3>1, <3>2, Zenon DEF Shown
  <2>4. \A f \in Lazy : Evaluated(f) => Evaluated(f)'
    BY <2>1, Zenon DEF Evaluated
  <2> QED BY <2>3, <2>4, <1>0, <1>b, NothingNew
<1>11. ASSUME UNCHANGED <<d, locals, logged>> PROVE Snapshots'
  <2>1. Shown' = Shown /\ \A f \in Lazy : Evaluated(f)' <=> Evaluated(f)
    BY <1>11, Zenon DEF Shown, Evaluated, Assigning, d, locals
  <2> QED BY Zenon, <2>1, <1>0, <1>b, NothingNew
<1> QED BY <1>1, <1>2, <1>3, <1>4, <1>5, <1>6, <1>7, <1>8, <1>9, <1>10, <1>11, Zenon
        DEF Next, Step, Mutate, vars

\* The entries.
LEMMA LoggedStep ==
  ASSUME IInv, [Next]_vars
  PROVE  (\A e \in logged : Whole(e.ctx, e.core, lost))'
<1>0. TypeOK /\ Lazy \subseteq Nat /\ \A e \in logged : Whole(e.ctx, e.core, lost)
  BY DepthAssumption DEF IInv, Lazy
<1>1. ASSUME NEW p \in Procs, CheckIo(p) PROVE (\A e \in logged : Whole(e.ctx, e.core, lost))'
  <2>1. PICK a \in Nat : /\ Whole(dat[at[p]].ctx, a, lost)
                         /\ a <= at[p]
                         /\ \A f \in a + 1 .. at[p] : f \in lost \/ once[f] = p
    BY <1>1, AtIo, Zenon DEF CheckIo
  <2>2. /\ \A j \in Lazy : once[j] # p
        /\ at[p] <= top[p]
        /\ \A j \in Lazy : at[p] < j /\ j <= top[p] => once[j] = p \/ j \in lost
    BY <1>1, Zenon DEF IInv, Descent, Descends, CheckIo, Owned
  <2>3. at[p] \in Nat /\ top[p] \in Nat /\ top[p] <= Depth /\ dat[at[p]].ctx \in Context
    BY <1>0, DepthAssumption, SMTT(30) DEF TypeOK, Lazy
  <2>4. \A f \in a + 1 .. top[p] : f \in lost
    <3> TAKE f \in a + 1 .. top[p]
    <3>1. f \in Lazy
      BY <2>3, DepthAssumption DEF Lazy
    <3>2. f \in a + 1 .. at[p] \/ (at[p] < f /\ f <= top[p])
      BY <2>1, <2>3, <3>1, DepthAssumption DEF Lazy
    <3> QED BY <3>1, <3>2, <2>1, <2>2, Zenon
  <2>5. Whole(dat[at[p]].ctx, top[p], lost)
    BY <2>1, <2>2, <2>3, <2>4, WholeUp, SMTT(30)
  <2>6. lost' = lost /\ logged' = logged \cup {[core |-> top[p], ctx |-> dat[at[p]].ctx]}
    BY <1>1, Zenon DEF CheckIo
  <2> QED BY <2>5, <2>6, <1>0, SMTT(30)
<1>2. ASSUME UNCHANGED logged, lost \subseteq lost'
      PROVE  (\A e \in logged : Whole(e.ctx, e.core, lost))'
  BY <1>0, <1>2, WholeMonotone, Zenon
<1>3. (\E p \in Procs : CheckIo(p)) \/ (UNCHANGED logged /\ lost \subseteq lost')
  BY ZenonT(60) DEF Next, Step, vars, Log, ReadType, ReadPointer, EnterOnce, CallLazy, WithIo, WithPanics,
         AssignFirst, AssignSecond, Mutate
<1> QED BY Zenon, <1>1, <1>2, <1>3
-----------------------------------------------------------------------------
\* The invariant holds in every state.
LEMMA Inductive == Spec => []IInv
<1>1. IInv /\ [Next]_vars => IInv'
  BY TypeStep, DescentStep, StoredStep, SnapshotStep, LoggedStep, Zenon DEF IInv
<1> QED BY InitInv, <1>1, PTL DEF Spec

\* lazyWithCore.Check through any number of WithLazy: however many goroutines race to
\* be the first to log, an entry has the fields of its Logger and of the Logger's
\* parents, each once, the parent's first; a field is missing only if its own
\* evaluation, or one below it in the same call, panicked.
THEOREM FieldsOnceHolds == Spec => []FieldsOnce
<1>1. IInv => FieldsOnce
  <2> SUFFICES ASSUME IInv, NEW e \in logged
               PROVE  /\ \A i, j \in DOMAIN e.ctx : i < j => e.ctx[i][1] < e.ctx[j][1]
                      /\ {e.ctx[i][1] : i \in DOMAIN e.ctx} \subseteq 1..e.core
                      /\ (1..e.core) \ lost \subseteq {e.ctx[i][1] : i \in DOMAIN e.ctx}
    BY Zenon DEF FieldsOnce
  <2>1. Whole(e.ctx, e.core, lost) /\ e.ctx \in Context /\ e.core \in Lazy
    BY Zenon DEF IInv, TypeOK
  <2>2. \A i \in DOMAIN e.ctx : e.ctx[i][1] \in Lazy /\ e.ctx[i][1] <= e.core
    BY <2>1 DEF Context, Whole
  <2>3. {e.ctx[i][1] : i \in DOMAIN e.ctx} \subseteq 1..e.core
    BY <2>1, <2>2, DepthAssumption, SMTT(30) DEF Lazy
  <2> QED BY <2>1, <2>3, Zenon DEF Whole
<1> QED BY <1>1, Inductive, PTL

\* lazyWithCore.initOnce: all entries that have a field, a parent Logger's and its
\* child's included, show it as it was at its one evaluation.
THEOREM SameSnapshotHolds == Spec => []SameSnapshot
<1>1. IInv => SameSnapshot
  <2>1. \A e \in logged : e.ctx \in Shown
    BY Zenon DEF Shown
  <2> QED BY <2>1, Zenon DEF IInv, Snapshots, SameSnapshot
<1> QED BY <1>1, Inductive, PTL

-----------------------------------------------------------------------------
(* Derivation                                                              *)
Kinds == {"logger", "sugared", "std"}

LoggerType ==
  [context : Seq(ContextFields), top : Int, filters : SUBSET Int, name : Seq(Segments \cup {"."}),
   callerSkip : Int, set : [Settings -> Values \cup {Default}]]

AskedType ==
  [context : Seq(ContextFields), level : Int, segments : Seq(Segments), skip : Int,
   set : [Settings -> Values \cup {Default}]]

\* The struct l is what a asks of a logger behind a handle of kind k.
Fits(l, k, a) ==
  /\ l \in LoggerType /\ a \in AskedType /\ k \in Kinds
  /\ l.name = Joined(a.segments)
  /\ l.context = a.context
  /\ l.set = a.set
  /\ l.top \in l.filters
  /\ \A v \in MinLevel..MaxLevel : (\A f \in l.filters : v >= f) <=> v >= a.level
  /\ l.callerSkip + callerSkipOffset = Len(Frames(k)) + a.skip

\* The program holds no handle on the clone that WithOptions is working on.
DerivationInv ==
  /\ structs \in Seq(LoggerType)
  /\ held \in Seq([base : Nat, kind : Kinds, asked : AskedType])
  /\ \A h \in DOMAIN held :
       /\ held[h].base \in DOMAIN structs /\ held[h].base # building
       /\ Fits(structs[held[h].base], held[h].kind, held[h].asked)
  /\ building # 0 => building \in DOMAIN structs /\ Fits(structs[building], kind, asked)

\* Another segment of the name, behind a period unless it is the first.
LEMMA JoinedExtends ==
  ASSUME NEW segs \in Seq(Segments), NEW s \in Segments
  PROVE  Extended(Joined(segs), s) = Joined(Append(segs, s))
<1> DEFINE n == Len(segs)
           j == Joined(segs)
           t == Append(segs, s)
<1>0. n \in Nat /\ Len(t) = n + 1 /\ t # << >> /\ t[n + 1] = s /\ \A k \in 1 .. n : t[k] = segs[k]
  OBVIOUS
<1>1. CASE segs = << >>
  <2>1. j = << >>
    BY <1>1 DEF Joined
  <2>2. Joined(t) = [i \in 1 .. 1 |-> s]
    <3>1. Joined(t) = [i \in 1 .. 1 |-> IF i % 2 = 1 THEN t[(i + 1) \div 2] ELSE "."]
      BY <1>0, <1>1 DEF Joined
    <3>2. \A i \in 1 .. 1 : (IF i % 2 = 1 THEN t[(i + 1) \div 2] ELSE ".") = s
      BY <1>0, <1>1
    <3> QED
      BY Zenon, <3>1, <3>2
  <2> QED
    BY <2>1, <2>2 DEF Extended
<1>2. CASE segs # << >>
  <2>0. n >= 1
    BY <1>2
  <2>1. j = [i \in 1 .. 2 * n - 1 |-> IF i % 2 = 1 THEN segs[(i + 1) \div 2] ELSE "."]
    BY <1>2, Zenon DEF Joined
  <2>2. Joined(t) = [i \in 1 .. 2 * n + 1 |-> IF i % 2 = 1 THEN t[(i + 1) \div 2] ELSE "."]
    <3>1. 2 * Len(t) - 1 = 2 * n + 1
      BY <1>0
    <3> QED
      BY <1>0, <3>1, Zenon DEF Joined
  <2>3. j \in Seq(Segments \cup {"."}) /\ Len(j) = 2 * n - 1
    <3>1. \A i \in 1 .. 2 * n - 1 : i % 2 = 1 => (i + 1) \div 2 \in 1 .. n
      BY <2>0
    <3>2. \A i \in 1 .. 2 * n - 1 : (IF i % 2 = 1 THEN segs[(i + 1) \div 2] ELSE ".") \in Segments \cup {"."}
      BY <3>1
    <3>3. 2 * n - 1 \in Nat
      BY <2>0
    <3> QED
      BY <2>1, <3>2, <3>3
  <2>4. Extended(j, s) = j \o <<".", s>>
    BY <2>0, <2>3 DEF Extended
  <2>5. j \o <<".", s>> = [i \in 1 .. 2 * n + 1 |-> IF i <= 2 * n - 1 THEN j[i] ELSE <<".", s>>[i - (2 * n - 1)]]
    BY <2>0, <2>3
  <2>6. ASSUME NEW i \in 1 .. 2 * n + 1
        PROVE  (IF i <= 2 * n - 1 THEN j[i] ELSE <<".", s>>[i - (2 * n - 1)])
                 = IF i % 2 = 1 THEN t[(i + 1) \div 2] ELSE "."
    <3>1. CASE i <= 2 * n - 1
      <4>1. i % 2 = 1 => (i + 1) \div 2 \in 1 .. n
        BY <2>0, <3>1
      <4> QED
        BY <1>0, <2>1, <3>1, <4>1
    <3>2. CASE i = 2 * n
      BY <2>0, <3>2
    <3>3. CASE i = 2 * n + 1
      <4>1. i % 2 = 1 /\ (i + 1) \div 2 = n + 1
        BY <1>0, <3>3
      <4> QED
        BY <1>0, <2>0, <3>3, <4>1
    <3> QED
      BY <1>0, <3>1, <3>2, <3>3, LastTwo, Zenon
  <2> QED
    BY <2>2, <2>4, <2>5, <2>6, Zenon
<1> QED
  BY Zenon, <1>1, <1>2

-----------------------------------------------------------------------------
(* What each operation makes of a struct that fits.                        *)

LEMMA SkippingIs ==
  ASSUME NEW l \in LoggerType, NEW n \in Int
  PROVE  LET m == Skipping(l, n)
         IN /\ m \in LoggerType /\ m.callerSkip = l.callerSkip + n
            /\ m.name = l.name /\ m.context = l.context /\ m.set = l.set
            /\ m.top = l.top /\ m.filters = l.filters
<1>1. l.callerSkip + n \in Int
  BY DEF LoggerType
<1> QED BY <1>1, Zenon DEF Skipping, LoggerType

LEMMA FrameCounts ==
  /\ Len(Frames("sugared")) = Len(Frames("logger")) + 2
  /\ Len(Frames("logger")) = Len(Frames("sugared")) + -2
  /\ Len(Frames("std")) = Len(Frames("logger")) + 3
  /\ \A k \in Kinds : Len(Frames(k)) \in Int
<1>1. Len(Frames("logger")) = 2
  BY Zenon DEF Frames
<1>2. Len(Frames("sugared")) = 4
  BY Zenon DEF Frames
<1>3. Len(Frames("std")) = 5
  BY Zenon DEF Frames
<1>4. 4 = 2 + 2 /\ 2 = 4 + -2 /\ 5 = 2 + 3 /\ 2 \in Int /\ 4 \in Int /\ 5 \in Int
  OBVIOUS
<1> QED BY <1>1, <1>2, <1>3, <1>4, Zenon DEF Kinds

LEMMA SkippingFits ==
  ASSUME NEW l, NEW k, NEW a, Fits(l, k, a), NEW n \in Int, NEW k2 \in Kinds,
         Len(Frames(k2)) = Len(Frames(k)) + n
  PROVE  Fits(Skipping(l, n), k2, a)
<1> DEFINE m == Skipping(l, n)
<1>0. l \in LoggerType /\ a \in AskedType /\ k \in Kinds
  BY Zenon DEF Fits
<1>1. Len(Frames(k)) \in Int /\ Len(Frames(k2)) \in Int
  BY <1>0, FrameCounts, Zenon
<1>2. /\ m \in LoggerType /\ m.callerSkip = l.callerSkip + n
      /\ m.name = l.name /\ m.context = l.context /\ m.set = l.set
      /\ m.top = l.top /\ m.filters = l.filters
  BY <1>0, SkippingIs, Zenon
<1>3. a.skip \in Int /\ l.callerSkip \in Int /\ callerSkipOffset \in Int
  BY <1>0 DEF LoggerType, AskedType, callerSkipOffset
<1> HIDE DEF m
<1>4. m.callerSkip + callerSkipOffset = Len(Frames(k2)) + a.skip
  <2>1. Balanced(l.callerSkip, callerSkipOffset, Len(Frames(k)), a.skip)
    BY Zenon DEF Fits, Balanced
  <2>2. Balanced(l.callerSkip + n, callerSkipOffset, Len(Frames(k)) + n, a.skip)
    BY <1>1, <1>3, <2>1, BalancedMore, Zenon
  <2> QED
    BY <1>2, <2>2, Zenon DEF Balanced
<1> QED
  BY <1>2, <1>4, Zenon DEF Fits, m

LEMMA CallerSkipFits ==
  ASSUME NEW l, NEW k, NEW a, Fits(l, k, a), NEW n \in Int
  PROVE  Fits(Skipping(l, n), k, [a EXCEPT !.skip = @ + n])
<1> DEFINE m == Skipping(l, n)
           b == [a EXCEPT !.skip = @ + n]
<1>0. l \in LoggerType /\ a \in AskedType /\ k \in Kinds
  BY Zenon DEF Fits
<1>1. Len(Frames(k)) \in Int
  BY <1>0, FrameCounts, Zenon
<1>2. /\ m \in LoggerType /\ m.callerSkip = l.callerSkip + n
      /\ m.name = l.name /\ m.context = l.context /\ m.set = l.set
      /\ m.top = l.top /\ m.filters = l.filters
  BY <1>0, SkippingIs, Zenon
<1>3. /\ b \in AskedType /\ b.skip = a.skip + n
      /\ b.segments = a.segments /\ b.context = a.context /\ b.set = a.set /\ b.level = a.level
  <2>1. a.skip + n \in Int
    BY <1>0 DEF AskedType
  <2> QED
    BY <1>0, <2>1, Zenon DEF AskedType
<1>4. a.skip \in Int /\ l.callerSkip \in Int /\ callerSkipOffset \in Int
  BY <1>0 DEF LoggerType, AskedType, callerSkipOffset
<1> HIDE DEF m, b
<1>5. m.callerSkip + callerSkipOffset = Len(Frames(k)) + b.skip
  <2>1. Balanced(l.callerSkip, callerSkipOffset, Len(Frames(k)), a.skip)
    BY Zenon DEF Fits, Balanced
  <2>2. m.callerSkip = l.callerSkip + n /\ b.skip = a.skip + n
    BY Zenon, <1>2, <1>3
  <2>3. Balanced(l.callerSkip + n, callerSkipOffset, Len(Frames(k)), a.skip + n)
    BY <1>1, <1>4, <2>1, BalancedMore, Zenon
  <2> QED
    BY <2>2, <2>3, Zenon DEF Balanced
<1>6. Fits(m, k, b)
  BY <1>2, <1>3, <1>5, Zenon DEF Fits
<1> QED
  BY <1>6, Zenon DEF m, b

LEMMA NamedFits ==
  ASSUME NEW l, NEW k, NEW a, Fits(l, k, a), NEW s \in Segments
  PROVE  Fits([l EXCEPT !.name = Extended(@, s)], k, [a EXCEPT !.segments = Append(@, s)])
<1> DEFINE m == [l EXCEPT !.name = Extended(@, s)]
           b == [a EXCEPT !.segments = Append(@, s)]
<1>0. l \in LoggerType /\ a \in AskedType /\ k \in Kinds
  BY Zenon DEF Fits
<1>1. a.segments \in Seq(Segments) /\ l.name \in Seq(Segments \cup {"."})
  BY <1>0, Zenon DEF LoggerType, AskedType
<1>2. Extended(l.name, s) = Joined(Append(a.segments, s))
  BY <1>1, JoinedExtends, Zenon DEF Fits
<1>3. Extended(l.name, s) \in Seq(Segments \cup {"."})
  <2>1. <<s>> \in Seq(Segments \cup {"."}) /\ <<".", s>> \in Seq(Segments \cup {"."})
    OBVIOUS
  <2>2. l.name \o <<".", s>> \in Seq(Segments \cup {"."})
    BY <1>1, <2>1
  <2> QED
    BY <2>1, <2>2, Zenon DEF Extended
<1>4. /\ m \in LoggerType /\ m.name = Extended(l.name, s)
      /\ m.context = l.context /\ m.set = l.set
      /\ m.top = l.top /\ m.filters = l.filters /\ m.callerSkip = l.callerSkip
  BY <1>0, <1>3, Zenon DEF LoggerType
<1>5. /\ b \in AskedType /\ b.segments = Append(a.segments, s)
      /\ b.context = a.context /\ b.set = a.set /\ b.level = a.level /\ b.skip = a.skip
  <2>1. Append(a.segments, s) \in Seq(Segments)
    BY <1>1
  <2> QED
    BY <1>0, <2>1, Zenon DEF AskedType
<1> HIDE DEF m, b
<1>6. Fits(m, k, b)
  BY <1>2, <1>4, <1>5, Zenon DEF Fits
<1> QED
  BY <1>6, Zenon DEF m, b

LEMMA WithFits ==
  ASSUME NEW l, NEW k, NEW a, Fits(l, k, a), NEW fs \in Seq(ContextFields)
  PROVE  Fits([l EXCEPT !.context = @ \o fs], k, [a EXCEPT !.context = @ \o fs])
<1> DEFINE m == [l EXCEPT !.context = @ \o fs]
           b == [a EXCEPT !.context = @ \o fs]
<1>0. l \in LoggerType /\ a \in AskedType /\ k \in Kinds
  BY Zenon DEF Fits
<1>1. /\ m \in LoggerType /\ m.context = l.context \o fs /\ m.name = l.name /\ m.set = l.set
      /\ m.top = l.top /\ m.filters = l.filters /\ m.callerSkip = l.callerSkip
  <2>1. l.context \o fs \in Seq(ContextFields)
    BY <1>0 DEF LoggerType
  <2> QED
    BY <1>0, <2>1, Zenon DEF LoggerType
<1>2. /\ b \in AskedType /\ b.context = a.context \o fs
      /\ b.segments = a.segments /\ b.set = a.set /\ b.level = a.level /\ b.skip = a.skip
  <2>1. a.context \o fs \in Seq(ContextFields)
    BY <1>0 DEF AskedType
  <2> QED
    BY <1>0, <2>1, Zenon DEF AskedType
<1> HIDE DEF m, b
<1>3. Fits(m, k, b)
  BY <1>1, <1>2, Zenon DEF Fits
<1> QED
  BY <1>3, Zenon DEF m, b

LEMMA AssignFits ==
  ASSUME NEW l, NEW k, NEW a, Fits(l, k, a), NEW s \in Settings, NEW v \in Values
  PROVE  Fits([l EXCEPT !.set[s] = v], k, [a EXCEPT !.set[s] = v])
<1> DEFINE m == [l EXCEPT !.set[s] = v]
           b == [a EXCEPT !.set[s] = v]
<1>0. l \in LoggerType /\ a \in AskedType /\ k \in Kinds
  BY Zenon DEF Fits
<1>1. /\ m \in LoggerType /\ m.set = [l.set EXCEPT ![s] = v] /\ m.name = l.name
      /\ m.context = l.context /\ m.top = l.top /\ m.filters = l.filters /\ m.callerSkip = l.callerSkip
  BY <1>0, Zenon DEF LoggerType
<1>2. /\ b \in AskedType /\ b.set = [a.set EXCEPT ![s] = v]
      /\ b.segments = a.segments /\ b.context = a.context /\ b.level = a.level /\ b.skip = a.skip
  BY <1>0, Zenon DEF AskedType
<1> HIDE DEF m, b
<1>3. Fits(m, k, b)
  BY <1>1, <1>2, Zenon DEF Fits
<1> QED
  BY <1>3, Zenon DEF m, b

LEMMA IncreaseFits ==
  ASSUME NEW l, NEW k, NEW a, Fits(l, k, a), NEW lvl \in Int
  PROVE  Fits(IF Decreases(l, lvl) THEN l ELSE [l EXCEPT !.top = lvl, !.filters = @ \cup {lvl}],
              k, [a EXCEPT !.level = IF lvl > @ THEN lvl ELSE @])
<1> DEFINE b == [a EXCEPT !.level = IF lvl > @ THEN lvl ELSE @]
           m == [l EXCEPT !.top = lvl, !.filters = @ \cup {lvl}]
<1>0. /\ l \in LoggerType /\ a \in AskedType /\ l.top \in Int /\ a.level \in Int /\ l.filters \subseteq Int
      /\ l.top \in l.filters
      /\ \A v \in MinLevel..MaxLevel : (\A f \in l.filters : v >= f) <=> v >= a.level
  BY Zenon DEF Fits, LoggerType, AskedType
<1>1. b \in AskedType /\ b.level = (IF lvl > a.level THEN lvl ELSE a.level)
  BY <1>0, Zenon DEF AskedType
<1>2. b.segments = a.segments /\ b.context = a.context /\ b.set = a.set /\ b.skip = a.skip
  BY <1>0, Zenon DEF AskedType
<1>3. CASE Decreases(l, lvl)
  <2>1. PICK w \in MinLevel..MaxLevel : w < l.top /\ w >= lvl
    BY <1>3, Zenon DEF Decreases
  <2>2. ~(w >= a.level)
    BY <1>0, <2>1 DEF MinLevel, MaxLevel
  <2>3. b.level = a.level
    BY <1>0, <1>1, <2>1, <2>2 DEF MinLevel, MaxLevel
  <2> HIDE DEF b
  <2>4. Fits(l, k, b)
    BY <1>1, <1>2, <2>3, Zenon DEF Fits
  <2> QED
    BY <1>3, <2>4, Zenon DEF b
<1>4. CASE ~Decreases(l, lvl)
  <2>1. /\ m \in LoggerType /\ m.top = lvl /\ m.filters = l.filters \cup {lvl}
        /\ m.name = l.name /\ m.context = l.context /\ m.set = l.set /\ m.callerSkip = l.callerSkip
    BY <1>0, Zenon DEF LoggerType
  <2> HIDE DEF b, m
  <2>2. ASSUME NEW v \in MinLevel..MaxLevel
        PROVE  (\A f \in m.filters : v >= f) <=> v >= b.level
    <3>1. (\A f \in m.filters : v >= f) <=> v >= a.level /\ v >= lvl
      BY Zenon, <1>0, <2>1
    <3> QED
      BY <1>0, <1>1, <3>1 DEF MinLevel, MaxLevel
  <2>3. Fits(m, k, b)
    <3>1. m.top \in m.filters
      BY Zenon, <2>1
    <3> QED
      BY <1>1, <1>2, <2>1, <2>2, <3>1, ZenonT(60) DEF Fits
  <2> QED
    BY <1>4, <2>3, Zenon DEF m, b
<1> QED
  BY <1>3, <1>4, Zenon
-----------------------------------------------------------------------------
(* What each step makes of the heap and the handles.                       *)

LEMMA FitsTyped ==
  ASSUME NEW l, NEW k, NEW a, Fits(l, k, a)
  PROVE  l \in LoggerType /\ a \in AskedType /\ k \in Kinds
BY Zenon DEF Fits

\* A handle on a struct that fits is added; the heap only grew.
LEMMA Returned ==
  ASSUME DerivationInv, NEW address \in DOMAIN structs', NEW k, NEW a, Fits(structs'[address], k, a),
         structs' \in Seq(LoggerType), \A i \in DOMAIN structs : i \in DOMAIN structs' /\ structs'[i] = structs[i],
         building' = 0, Return(address, k, a)
  PROVE  DerivationInv'
<1>1. address \in Nat /\ k \in Kinds /\ a \in AskedType
  <2>1. address \in Nat
    BY SMTT(30)
  <2> QED
    BY <2>1, FitsTyped, Zenon
<1>2. /\ held \in Seq([base : Nat, kind : Kinds, asked : AskedType])
      /\ held' = Append(held, [base |-> address, kind |-> k, asked |-> a])
  BY ZenonT(60) DEF DerivationInv, Return, Handle
<1>3. held' \in Seq([base : Nat, kind : Kinds, asked : AskedType])
  BY <1>1, <1>2, SMTT(30)
<1>4. ASSUME NEW h \in DOMAIN held'
      PROVE  /\ held'[h].base \in DOMAIN structs' /\ held'[h].base # 0
             /\ Fits(structs'[held'[h].base], held'[h].kind, held'[h].asked)
  <2>1. CASE h \in DOMAIN held
    <3>1. held'[h] = held[h]
      BY <1>1, <1>2, <2>1
    <3>2. /\ held[h].base \in DOMAIN structs
          /\ Fits(structs[held[h].base], held[h].kind, held[h].asked)
      BY <2>1, Zenon DEF DerivationInv
    <3>3. held[h].base \in DOMAIN structs' /\ structs'[held[h].base] = structs[held[h].base]
      BY <3>2, Zenon
    <3>4. held[h].base # 0
      BY <3>2, IndexSeq, Zenon DEF DerivationInv
    <3> QED
      BY <3>1, <3>2, <3>3, <3>4, Zenon
  <2>2. CASE h \notin DOMAIN held
    <3>1. h = Len(held) + 1
      BY <1>1, <1>2, <2>2, SMTT(30)
    <3>2. held'[h] = [base |-> address, kind |-> k, asked |-> a]
      BY <1>1, <1>2, <3>1
    <3>3. address # 0
      OBVIOUS
    <3> QED
      BY <3>2, <3>3, SMTT(30)
  <2> QED
    BY <2>1, <2>2, Zenon
<1> QED
  BY <1>3, <1>4, Zenon DEF DerivationInv

\* The struct behind a handle fits, and is not the one being built.
LEMMA Held ==
  ASSUME DerivationInv, NEW h \in DOMAIN held
  PROVE  /\ held[h].base \in DOMAIN structs /\ held[h].base # building
         /\ Fits(Of(h), held[h].kind, held[h].asked)
BY Zenon DEF DerivationInv, Of

LEMMA DeriveKeeps ==
  ASSUME DerivationInv, NEW h, NEW l, NEW k, NEW a, Fits(l, k, a), building = 0, Derive(h, l, k, a)
  PROVE  DerivationInv'
<1>1. l \in LoggerType /\ structs \in Seq(LoggerType) /\ structs' = Append(structs, l)
  BY FitsTyped, Zenon DEF Derive, DerivationInv
<1>2. /\ structs' \in Seq(LoggerType) /\ Len(structs) + 1 \in DOMAIN structs' /\ structs'[Len(structs) + 1] = l
      /\ \A i \in DOMAIN structs : i \in DOMAIN structs' /\ structs'[i] = structs[i]
  BY <1>1
<1>3. building' = 0 /\ Return(Len(structs) + 1, k, a)
  BY Zenon DEF Derive
<1> QED
  BY <1>2, <1>3, Returned, ZenonT(60)

LEMMA SameKeeps ==
  ASSUME DerivationInv, NEW h \in DOMAIN held, building = 0, Same(h) PROVE DerivationInv'
<1>1. /\ held[h].base \in DOMAIN structs' /\ structs' = structs /\ building' = 0
      /\ Fits(structs'[held[h].base], held[h].kind, held[h].asked)
      /\ Return(held[h].base, held[h].kind, held[h].asked)
  BY Held, ZenonT(60) DEF Same, Of
<1>2. structs' \in Seq(LoggerType)
  BY <1>1, Zenon DEF DerivationInv
<1> QED
  BY <1>1, <1>2, Returned, Zenon

\* Only the clone changes, and no handle is on it.
LEMMA ApplyKeeps ==
  ASSUME DerivationInv, NEW l, NEW a, Fits(l, kind, a), Apply(l, a) PROVE DerivationInv'
<1>1. /\ building \in DOMAIN structs /\ l \in LoggerType /\ structs \in Seq(LoggerType)
      /\ structs' = [structs EXCEPT ![building] = l] /\ asked' = a /\ UNCHANGED <<held, building, kind>>
  BY FitsTyped, Zenon DEF Apply, DerivationInv
<1>2. /\ structs' \in Seq(LoggerType) /\ DOMAIN structs' = DOMAIN structs /\ structs'[building] = l
      /\ \A i \in DOMAIN structs : i # building => structs'[i] = structs[i]
  BY <1>1, ReplaceSeq, Zenon
<1>3. ASSUME NEW h \in DOMAIN held
      PROVE  /\ held[h].base \in DOMAIN structs' /\ held[h].base # building
             /\ Fits(structs'[held[h].base], held[h].kind, held[h].asked)
  <2>1. held[h].base \in DOMAIN structs /\ held[h].base # building
        /\ Fits(structs[held[h].base], held[h].kind, held[h].asked)
    BY Zenon DEF DerivationInv
  <2> QED
    BY Zenon, <1>2, <2>1
<1>4. Fits(structs'[building], kind, asked')
  BY Zenon, <1>1, <1>2
<1>5. held \in Seq([base : Nat, kind : Kinds, asked : AskedType])
  BY Zenon DEF DerivationInv
<1> QED
  BY <1>1, <1>2, <1>3, <1>4, <1>5, ZenonT(60) DEF DerivationInv

LEMMA DerivationStep == DerivationInv /\ [DerivationNext]_derivationVars => DerivationInv'
<1> SUFFICES ASSUME DerivationInv, [DerivationNext]_derivationVars PROVE DerivationInv'
    BY Zenon
<1>1. ASSUME NEW h \in DOMAIN held, Sugar(h) PROVE DerivationInv'
  <2>1. building = 0 /\ held[h].kind = "logger"
    BY <1>1, Zenon DEF Sugar, Idle
  <2>2. Len(Frames("sugared")) = Len(Frames("logger")) + 2 /\ "sugared" \in Kinds
    BY FrameCounts, Zenon DEF Kinds
  <2>3. Fits(Skipping(Of(h), 2), "sugared", held[h].asked)
    BY <2>1, <2>2, Held, SkippingFits, SMTT(30)
  <2> QED
    BY <1>1, <2>1, <2>3, DeriveKeeps, Zenon DEF Sugar
<1>2. ASSUME NEW h \in DOMAIN held, Desugar(h) PROVE DerivationInv'
  <2>1. building = 0 /\ held[h].kind = "sugared"
    BY <1>2, Zenon DEF Desugar, Idle
  <2>2. Len(Frames("logger")) = Len(Frames("sugared")) + -2 /\ "logger" \in Kinds
    BY FrameCounts, Zenon DEF Kinds
  <2>3. Fits(Skipping(Of(h), -2), "logger", held[h].asked)
    BY <2>1, <2>2, Held, SkippingFits, SMTT(30)
  <2> QED
    BY <1>2, <2>1, <2>3, DeriveKeeps, ZenonT(60) DEF Desugar
<1>3. ASSUME NEW h \in DOMAIN held, NewStdLog(h) PROVE DerivationInv'
  <2>1. building = 0 /\ held[h].kind = "logger"
    BY <1>3, Zenon DEF NewStdLog, Idle
  <2>2. Len(Frames("std")) = Len(Frames("logger")) + 3 /\ "std" \in Kinds
    BY FrameCounts, Zenon DEF Kinds
  <2>3. Fits(Skipping(Of(h), 3), "std", held[h].asked)
    BY <2>1, <2>2, Held, SkippingFits
  <2> QED
    BY <1>3, <2>1, <2>3, DeriveKeeps, ZenonT(60) DEF NewStdLog
<1>4. ASSUME NEW h \in DOMAIN held, NEW s \in Segments \cup {""}, Named(h, s) PROVE DerivationInv'
  <2>1. building = 0
    BY <1>4, Zenon DEF Named, Idle
  <2>2. CASE s = ""
    BY <1>4, <2>1, <2>2, SameKeeps, Zenon DEF Named
  <2>3. CASE s # ""
    <3>1. Fits([Of(h) EXCEPT !.name = Extended(@, s)], held[h].kind,
               [held[h].asked EXCEPT !.segments = Append(@, s)])
      BY <2>3, Held, NamedFits, Zenon
    <3> QED
      BY <1>4, <2>1, <2>3, <3>1, DeriveKeeps, Zenon DEF Named
  <2> QED
    BY <2>2, <2>3, Zenon
<1>5. ASSUME NEW h \in DOMAIN held, NEW fs \in {<< >>} \cup {<<f>> : f \in ContextFields}, With(h, fs)
      PROVE  DerivationInv'
  <2>1. building = 0 /\ fs \in Seq(ContextFields)
    <3>1. \A f \in ContextFields : <<f>> \in Seq(ContextFields)
      OBVIOUS
    <3>2. CASE fs = << >>
      BY <1>5, <3>2 DEF With, Idle
    <3>3. CASE fs \in {<<f>> : f \in ContextFields}
      <4>1. PICK f \in ContextFields : fs = <<f>>
        BY <3>3, Zenon
      <4> QED
        BY <1>5, <3>1, <4>1, Zenon DEF With, Idle
    <3> QED
      BY <3>2, <3>3, Zenon
  <2>2. CASE fs = << >>
    BY <1>5, <2>1, <2>2, SameKeeps, Zenon DEF With
  <2>3. CASE fs # << >>
    <3>1. Fits([Of(h) EXCEPT !.context = @ \o fs], held[h].kind,
               [held[h].asked EXCEPT !.context = @ \o fs])
      BY <2>1, Held, WithFits, Zenon
    <3> QED
      BY <1>5, <2>1, <2>3, <3>1, DeriveKeeps, Zenon DEF With
  <2> QED
    BY Zenon, <2>2, <2>3
<1>6. ASSUME NEW h \in DOMAIN held, WithOptions(h) PROVE DerivationInv'
  <2>1. /\ building = 0 /\ structs' = Append(structs, Of(h)) /\ building' = Len(structs) + 1
        /\ kind' = held[h].kind /\ asked' = held[h].asked /\ held' = held
    BY <1>6, Zenon DEF WithOptions, Idle
  <2>2. Fits(Of(h), held[h].kind, held[h].asked)
    BY Held, Zenon
  <2>3. structs \in Seq(LoggerType) /\ Of(h) \in LoggerType
    BY <2>2, FitsTyped, Zenon DEF DerivationInv
  <2>4. /\ structs' \in Seq(LoggerType) /\ building' \in DOMAIN structs' /\ building' \notin DOMAIN structs
        /\ structs'[building'] = Of(h)
        /\ \A i \in DOMAIN structs : i \in DOMAIN structs' /\ structs'[i] = structs[i]
    BY <2>1, <2>3, AppendSeq, ZenonT(60)
  <2>5. ASSUME NEW g \in DOMAIN held
        PROVE  /\ held[g].base \in DOMAIN structs' /\ held[g].base # building'
               /\ Fits(structs'[held[g].base], held[g].kind, held[g].asked)
    <3>1. held[g].base \in DOMAIN structs /\ Fits(structs[held[g].base], held[g].kind, held[g].asked)
      BY ZenonT(60) DEF DerivationInv
    <3> QED
      BY Zenon, <2>4, <3>1
  <2>6. Fits(structs'[building'], kind', asked') /\ held \in Seq([base : Nat, kind : Kinds, asked : AskedType])
    BY <2>1, <2>2, <2>4, Zenon DEF DerivationInv
  <2> QED
    BY <2>1, <2>4, <2>5, <2>6, Zenon DEF DerivationInv
<1>7. ASSUME NEW s \in Settings, NEW v \in Values, Assign(s, v) PROVE DerivationInv'
  <2>1. Fits(structs[building], kind, asked)
    BY <1>7, Zenon DEF Assign, Apply, DerivationInv
  <2> QED
    BY <1>7, <2>1, AssignFits, ApplyKeeps, Zenon DEF Assign
<1>8. ASSUME NEW n \in Skips, AddCallerSkip(n) PROVE DerivationInv'
  <2>1. Fits(structs[building], kind, asked) /\ n \in Int
    BY DerivationAssumption, <1>8, Zenon DEF AddCallerSkip, Apply, DerivationInv
  <2> QED
    BY <1>8, <2>1, CallerSkipFits, ApplyKeeps, Zenon DEF AddCallerSkip
<1>9. ASSUME NEW f \in ContextFields, AddFields(<<f>>) PROVE DerivationInv'
  <2>1. Fits(structs[building], kind, asked)
    BY <1>9, Zenon DEF AddFields, Apply, DerivationInv
  <2>2. <<f>> \in Seq(ContextFields)
    OBVIOUS
  <2> QED
    BY <1>9, <2>1, <2>2, WithFits, ApplyKeeps, Zenon DEF AddFields
<1>10. ASSUME NEW lvl \in Levels, IncreaseLevel(lvl) PROVE DerivationInv'
  <2>1. Fits(structs[building], kind, asked) /\ lvl \in Int
    BY DerivationAssumption, <1>10, Zenon DEF IncreaseLevel, Apply, DerivationInv
  <2> QED
    BY <1>10, <2>1, IncreaseFits, ApplyKeeps, Zenon DEF IncreaseLevel
<1>11. CASE EndOptions
  <2>1. /\ building \in DOMAIN structs /\ structs' = structs /\ building' = 0 /\ Return(building, kind, asked)
        /\ Fits(structs[building], kind, asked) /\ structs \in Seq(LoggerType)
    BY <1>11, Zenon DEF EndOptions, DerivationInv
  <2> QED
    BY Zenon, <2>1, Returned
<1>12. CASE UNCHANGED derivationVars
  BY <1>12, Zenon DEF derivationVars, DerivationInv
<1> QED
  BY <1>1, <1>2, <1>3, <1>4, <1>5, <1>6, <1>7, <1>8, <1>9, <1>10, <1>11, <1>12, Zenon DEF DerivationNext

LEMMA DerivationStart == DerivationInit => DerivationInv
<1> SUFFICES ASSUME DerivationInit PROVE DerivationInv
    BY ZenonT(60)
<1>1. Root \in LoggerType /\ AskedRoot \in AskedType
  BY DerivationAssumption, SMTT(30) DEF Root, AskedRoot, LoggerType, AskedType
<1>2. Root.name = Joined(AskedRoot.segments)
  BY DEF Root, AskedRoot, Joined
<1>3. Root.callerSkip + callerSkipOffset = Len(Frames("logger")) + AskedRoot.skip
  <2>1. Root.callerSkip = 0 /\ AskedRoot.skip = 0
    BY Zenon DEF Root, AskedRoot
  <2>2. 0 + callerSkipOffset = Len(Frames("logger")) + 0
    BY DEF callerSkipOffset, Frames
  <2> QED BY <2>1, <2>2, Zenon
<1>4. Fits(Root, "logger", AskedRoot)
  BY DerivationAssumption, <1>1, <1>2, <1>3, Zenon DEF Fits, Root, AskedRoot, Kinds, MinLevel, MaxLevel
<1>5. structs = <<Root>> /\ held = <<[base |-> 1, kind |-> "logger", asked |-> AskedRoot]>> /\ building = 0
  BY Zenon DEF DerivationInit
<1>6. /\ structs \in Seq(LoggerType) /\ DOMAIN structs = {1} /\ structs[1] = Root
      /\ DOMAIN held = {1} /\ held[1] = [base |-> 1, kind |-> "logger", asked |-> AskedRoot]
      /\ held \in Seq([base : Nat, kind : Kinds, asked : AskedType])
  BY <1>1, <1>5 DEF Kinds
<1> QED
  BY <1>4, <1>5, <1>6 DEF DerivationInv

LEMMA DerivationKept == DerivationSpec => []DerivationInv
BY DerivationStart, DerivationStep, PTL DEF DerivationSpec

\* Every logger has the name, context, settings and level asked of it, whatever is
\* derived from it later: clone, With, Named, WithOptions, IncreaseLevel.
THEOREM DerivedAsAskedHolds == DerivationSpec => []DerivedAsAsked
<1>1. DerivationInv => DerivedAsAsked
  <2> SUFFICES ASSUME DerivationInv, NEW h \in DOMAIN held
               PROVE  /\ Of(h).name = Joined(held[h].asked.segments)
                      /\ Of(h).context = held[h].asked.context
                      /\ Of(h).set = held[h].asked.set
                      /\ \A v \in MinLevel..MaxLevel : Writes(Of(h), v) <=> v >= held[h].asked.level
      BY Zenon DEF DerivedAsAsked
  <2>1. Fits(Of(h), held[h].kind, held[h].asked)
    BY Zenon, Held
  <2> QED
    BY <2>1, ZenonT(60) DEF Fits, Writes
<1> QED
  BY <1>1, DerivationKept, PTL

\* The frame annotated as the caller is the program's own, through any chain of
\* Sugar, Desugar, NewStdLog, AddCallerSkip and the rest.
THEOREM CallerIsTheProgramHolds == DerivationSpec => []CallerIsTheProgram
<1>1. DerivationInv => CallerIsTheProgram
  BY Held, Zenon DEF CallerIsTheProgram, Fits
<1> QED
  BY <1>1, DerivationKept, PTL

=============================================================================
