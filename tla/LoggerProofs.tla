---------------------------- MODULE LoggerProofs ----------------------------
(***************************************************************************)
(* For any tree of cores, any number of goroutines and AtomicLevels: no    *)
(* two calls share a CheckedEntry, a call terminates exactly when its      *)
(* level says so, by then its entry is durable and its errors are          *)
(* reported, and a call writes its entry once to every output that enables *)
(* it and to no other.                                                     *)
(***************************************************************************)
EXTENDS Logger, TLAPS

(* Sequences that have exactly one element in C, x, or none.               *)
Sole(s, C, x) == \E i \in DOMAIN s : s[i] = x /\ x \in C /\ \A j \in DOMAIN s : s[j] \in C => j = i
None(s, C) == \A i \in DOMAIN s : s[i] \notin C
Has(s, x) == \E i \in DOMAIN s : s[i] = x

LEMMA NoneEmpty == \A C : None(<< >>, C)
BY DEF None

LEMMA NoneOne == \A x, C : x \notin C => None(<<x>>, C)
BY DEF None

LEMMA NotSoleEmpty == \A C, x : ~Sole(<< >>, C, x) /\ ~Has(<< >>, x)
BY DEF Sole, Has

LEMMA EmptySeq == \A T : << >> \in Seq(T)
OBVIOUS

LEMMA OneSeq == \A T : \A x \in T : <<x>> \in Seq(T)
OBVIOUS

LEMMA OneIs == \A x : \A i \in DOMAIN <<x>> : <<x>>[i] = x
OBVIOUS

LEMMA ConcatEmpty ==
  ASSUME NEW T, NEW s \in Seq(T)
  PROVE  s \o << >> = s
OBVIOUS

LEMMA ElementType ==
  ASSUME NEW T, NEW s \in Seq(T), NEW k \in Nat \ {0}, k <= Len(s)
  PROVE  s[k] \in T
OBVIOUS

LEMMA SameSeq ==
  ASSUME NEW T, NEW s \in Seq(T), NEW u \in Seq(T), Len(s) = Len(u), \A i \in 1..Len(u) : s[i] = u[i]
  PROVE  s = u
OBVIOUS

\* u is the first k - 1 elements of s, and gets the next.
LEMMA Longer ==
  ASSUME NEW T, NEW s \in Seq(T), NEW u \in Seq(T), NEW k \in Nat \ {0}, k <= Len(s),
         Len(u) = k - 1, \A i \in 1..(k - 1) : u[i] = s[i]
  PROVE  Len(Append(u, s[k])) = k /\ \A i \in 1..k : Append(u, s[k])[i] = s[i]
<1>1. s[k] \in T /\ Len(Append(u, s[k])) = k
  OBVIOUS
<1>2. ASSUME NEW i \in 1..k PROVE Append(u, s[k])[i] = s[i]
  <2>1. CASE i = k
    BY <2>1
  <2>2. CASE i # k
    BY <2>2
  <2> QED BY <2>1, <2>2
<1> QED BY <1>1, <1>2

LEMMA Counting ==
  /\ 1 - 1 = 0 /\ \A k \in Nat : (k + 1) - 1 = k
  /\ \A T : \A s \in Seq(T) : Len(s) \in Nat /\ 0 <= Len(s)
  /\ \A k, l \in Nat : k > l /\ k - 1 <= l => k - 1 = l
  /\ Len(<< >>) = 0 /\ 1..0 = {}
OBVIOUS

LEMMA SecondSame == \A a, b, c, d : <<a, b>> = <<c, d>> => b = d
OBVIOUS

LEMMA HeadTail ==
  ASSUME NEW T, NEW s \in Seq(T), s # << >>
  PROVE  /\ 1 \in DOMAIN s /\ Head(s) = s[1] /\ Tail(s) \in Seq(T)
         /\ \A i \in DOMAIN Tail(s) : i + 1 \in DOMAIN s /\ Tail(s)[i] = s[i + 1]
         /\ \A i \in DOMAIN s : i # 1 => i - 1 \in DOMAIN Tail(s) /\ Tail(s)[i - 1] = s[i]
OBVIOUS

LEMMA HeadIn ==
  ASSUME NEW T, NEW s \in Seq(T), s # << >>
  PROVE  Head(s) \in T
OBVIOUS

LEMMA NoneTail ==
  ASSUME NEW T, NEW s \in Seq(T), s # << >>, NEW C, None(s, C)
  PROVE  Head(s) \notin C /\ None(Tail(s), C)
BY HeadTail, ZenonT(60) DEF None

LEMMA SoleHead ==
  ASSUME NEW T, NEW s \in Seq(T), s # << >>, NEW C, NEW x, Sole(s, C, x), Head(s) \in C
  PROVE  x = Head(s) /\ None(Tail(s), C)
<1>1. PICK i \in DOMAIN s : s[i] = x /\ x \in C /\ \A j \in DOMAIN s : s[j] \in C => j = i
  BY Zenon DEF Sole
<1>2. i = 1
  BY <1>1, HeadTail, Zenon
<1>3. \A j \in DOMAIN Tail(s) : j + 1 # 1
  BY DOMAIN Tail(s) = 1..Len(Tail(s))
<1> QED BY <1>1, <1>2, <1>3, HeadTail, Zenon DEF None

LEMMA SoleTail ==
  ASSUME NEW T, NEW s \in Seq(T), s # << >>, NEW C, NEW x, Sole(s, C, x), Head(s) \notin C
  PROVE  Sole(Tail(s), C, x)
<1>1. PICK i \in DOMAIN s : s[i] = x /\ x \in C /\ \A j \in DOMAIN s : s[j] \in C => j = i
  BY Zenon DEF Sole
<1>2. i # 1
  BY <1>1, HeadTail, ZenonT(60)
<1>3. i - 1 \in DOMAIN Tail(s) /\ Tail(s)[i - 1] = x
  BY <1>1, <1>2, HeadTail, Zenon
<1>4. ASSUME NEW j \in DOMAIN Tail(s), Tail(s)[j] \in C PROVE j = i - 1
  <2>1. j + 1 = i
    BY <1>1, <1>4, HeadTail, Zenon
  <2>2. j \in Int
    BY HeadTail
  <2> QED BY <2>1, <2>2
<1> QED BY <1>1, <1>3, <1>4, Zenon DEF Sole

LEMMA Concat ==
  ASSUME NEW T, NEW u \in Seq(T), NEW v \in Seq(T)
  PROVE  /\ u \o v \in Seq(T)
         /\ \A i \in DOMAIN u : i \in DOMAIN (u \o v) /\ (u \o v)[i] = u[i]
         /\ \A i \in DOMAIN v : i + Len(u) \in DOMAIN (u \o v) /\ (u \o v)[i + Len(u)] = v[i]
         /\ \A i \in DOMAIN (u \o v) : i \in DOMAIN u \/ i - Len(u) \in DOMAIN v
         /\ \A i \in DOMAIN (u \o v) : i \notin DOMAIN u => (u \o v)[i] = v[i - Len(u)]
OBVIOUS

LEMMA HasTail ==
  ASSUME NEW T, NEW s \in Seq(T), s # << >>, NEW x, Has(s, x), x # Head(s)
  PROVE  Has(Tail(s), x)
<1>1. PICK i \in DOMAIN s : s[i] = x
  BY Zenon DEF Has
<1>2. i - 1 \in DOMAIN Tail(s) /\ Tail(s)[i - 1] = s[i]
  BY <1>1, HeadTail, Zenon
<1> QED BY <1>1, <1>2, Zenon DEF Has

LEMMA HasConcat ==
  ASSUME NEW T, NEW u \in Seq(T), NEW v \in Seq(T), NEW x, Has(u, x) \/ Has(v, x)
  PROVE  Has(u \o v, x)
<1>1. CASE Has(u, x)
  <2>1. PICK i \in DOMAIN u : u[i] = x
    BY <1>1, Zenon DEF Has
  <2>2. i \in DOMAIN (u \o v) /\ (u \o v)[i] = u[i]
    BY <2>1, Concat
  <2> QED BY <2>1, <2>2, Zenon DEF Has
<1>2. CASE Has(v, x)
  <2>1. PICK i \in DOMAIN v : v[i] = x
    BY <1>2, Zenon DEF Has
  <2>2. i + Len(u) \in DOMAIN (u \o v) /\ (u \o v)[i + Len(u)] = v[i]
    BY <2>1, Concat
  <2> QED BY <2>1, <2>2, Zenon DEF Has
<1> QED BY <1>1, <1>2

LEMMA NoneConcat ==
  ASSUME NEW T, NEW u \in Seq(T), NEW v \in Seq(T), NEW C, None(u, C), None(v, C)
  PROVE  None(u \o v, C)
<1> DEFINE w == u \o v
<1>0. /\ \A i \in DOMAIN u : i \in DOMAIN w /\ w[i] = u[i]
      /\ \A i \in DOMAIN w : i \in DOMAIN u \/ i - Len(u) \in DOMAIN v
      /\ \A i \in DOMAIN w : i \notin DOMAIN u => w[i] = v[i - Len(u)]
  BY Concat
<1> HIDE DEF w
<1>1. ASSUME NEW i \in DOMAIN w PROVE w[i] \notin C
  <2>1. i \in DOMAIN u => w[i] = u[i] /\ u[i] \notin C
    BY <1>0, Zenon DEF None
  <2>2. i \notin DOMAIN u => w[i] = v[i - Len(u)] /\ v[i - Len(u)] \notin C
    BY <1>0, Zenon DEF None
  <2> QED BY <2>1, <2>2, Zenon
<1> QED BY <1>1, Zenon DEF None, w

LEMMA SoleLeft ==
  ASSUME NEW T, NEW u \in Seq(T), NEW v \in Seq(T), NEW C, NEW x, Sole(u, C, x), None(v, C)
  PROVE  Sole(u \o v, C, x)
<1> DEFINE w == u \o v
<1>0. /\ \A i \in DOMAIN u : i \in DOMAIN w /\ w[i] = u[i]
      /\ \A i \in DOMAIN w : i \in DOMAIN u \/ i - Len(u) \in DOMAIN v
      /\ \A i \in DOMAIN w : i \notin DOMAIN u => w[i] = v[i - Len(u)]
  BY Concat
<1> HIDE DEF w
<1>1. PICK i \in DOMAIN u : u[i] = x /\ x \in C /\ \A j \in DOMAIN u : u[j] \in C => j = i
  BY Zenon DEF Sole
<1>2. i \in DOMAIN w /\ w[i] = x
  BY <1>0, <1>1, Zenon
<1>3. \A j \in DOMAIN w : w[j] \in C => j = i
  BY <1>0, <1>1, Zenon DEF None
<1>4. Sole(w, C, x)
  BY <1>1, <1>2, <1>3, Zenon DEF Sole
<1> QED BY <1>4, Zenon DEF w

LEMMA SoleRight ==
  ASSUME NEW T, NEW u \in Seq(T), NEW v \in Seq(T), NEW C, NEW x, None(u, C), Sole(v, C, x)
  PROVE  Sole(u \o v, C, x)
<1>1. PICK i \in DOMAIN v : v[i] = x /\ x \in C /\ \A j \in DOMAIN v : v[j] \in C => j = i
  BY Zenon DEF Sole
<1>2. i + Len(u) \in DOMAIN (u \o v) /\ (u \o v)[i + Len(u)] = x
  BY <1>1, Concat, Zenon
<1>3. ASSUME NEW j \in DOMAIN (u \o v), (u \o v)[j] \in C PROVE j = i + Len(u)
  <2>1. j \notin DOMAIN u
    BY <1>3, Concat DEF None
  <2>2. j - Len(u) = i
    BY <1>1, <1>3, <2>1, Concat, Zenon
  <2>3. j \in Int /\ Len(u) \in Int
    BY Concat
  <2> QED BY <2>2, <2>3
<1> QED BY <1>1, <1>2, <1>3, Zenon DEF Sole
-----------------------------------------------------------------------------
(* The tree of cores: Above[n] is n and what is around it.                 *)

\* The cores around a core are the least set of its kind.
LEMMA Least ==
  ASSUME NEW n \in Nodes, NEW S \in SUBSET Nodes, n \in S, WithParents(S)
  PROVE  Above[n] \subseteq S
BY Zenon DEF Above

LEMMA AboveSelf == \A n \in Nodes : n \in Above[n] /\ Above[n] \subseteq Nodes
BY Zenon DEF Above

\* A core around a wrapped core is around what that core wraps.
LEMMA AboveParent ==
  ASSUME NEW n \in Nodes, NEW m \in Nodes, NEW i \in DOMAIN Kids[m], Kids[m][i] \in Above[n]
  PROVE  m \in Above[n]
<1> SUFFICES ASSUME NEW S \in SUBSET Nodes, n \in S, WithParents(S) PROVE m \in S
  BY Zenon DEF Above
<1>1. Kids[m][i] \in S
  BY Zenon DEF Above
<1> QED BY <1>1, Zenon DEF WithParents

LEMMA AboveTransitive ==
  ASSUME NEW n \in Nodes, NEW m \in Above[n]
  PROVE  Above[m] \subseteq Above[n]
<1>1. WithParents(Above[n])
  BY AboveParent, Zenon DEF WithParents
<1> QED BY <1>1, Least, AboveSelf, Zenon

\* Between a core and one around it stands one of those it wraps.
LEMMA AboveKid ==
  ASSUME NEW n \in Nodes, NEW a \in Above[n], a # n
  PROVE  \E i \in DOMAIN Kids[a] : Kids[a][i] \in Above[n]
<1> SUFFICES ASSUME \A i \in DOMAIN Kids[a] : Kids[a][i] \notin Above[n] PROVE FALSE
  OBVIOUS
<1> DEFINE S == Above[n] \ {a}
<1>1. n \in S /\ S \in SUBSET Nodes
  BY AboveSelf
<1>2. WithParents(S)
  <2> SUFFICES ASSUME NEW m \in Nodes, NEW i \in DOMAIN Kids[m], Kids[m][i] \in S PROVE m \in S
    BY Zenon DEF WithParents
  <2>1. m \in Above[n]
    BY AboveParent, Zenon
  <2>2. m # a
    BY Zenon
  <2> QED BY <2>1, <2>2
<1>3. Above[n] \subseteq S
  BY <1>1, <1>2, Least, Zenon
<1> QED BY <1>3

\* What is around a wrapped core, itself aside, is around the one that wraps it.
LEMMA AboveUp ==
  ASSUME NEW m \in Nodes, NEW i \in DOMAIN Kids[m], Kids[m][i] \in Nodes,
         NEW a \in Above[Kids[m][i]], a # Kids[m][i]
  PROVE  a \in Above[m]
<1> DEFINE n == Kids[m][i]
           S == {n} \cup Above[m]
<1>1. n \in S /\ S \in SUBSET Nodes
  BY Zenon, AboveSelf
<1>2. WithParents(S)
  <2> SUFFICES ASSUME NEW k \in Nodes, NEW j \in DOMAIN Kids[k], Kids[k][j] \in S PROVE k \in S
    BY Zenon DEF WithParents
  <2>1. CASE Kids[k][j] = n
    BY <2>1, BuiltAssumption, AboveSelf, ZenonT(60)
  <2>2. CASE Kids[k][j] \in Above[m]
    BY <2>2, AboveParent, Zenon
  <2> QED BY <2>1, <2>2
<1>3. Above[n] \subseteq S
  BY <1>1, <1>2, Least, Zenon
<1> QED BY <1>3

\* No core is around the one that wraps it.
LEMMA NoCycle ==
  ASSUME NEW a \in Nodes, NEW i \in DOMAIN Kids[a], Kids[a][i] \in Nodes
  PROVE  Kids[a][i] \notin Above[a]
<1> SUFFICES ASSUME Kids[a][i] \in Above[a] PROVE FALSE
  OBVIOUS
<1> DEFINE Z == {m \in Nodes : m \in Above[a] /\ a \in Above[m]}
<1>1. a \in Z /\ Z \in SUBSET Nodes
  BY AboveSelf
<1>2. ASSUME NEW m \in Nodes, NEW j \in DOMAIN Kids[m], Kids[m][j] \in Nodes, m \in Z, Kids[m][j] \in Above[a]
      PROVE  Kids[m][j] \in Z
  <2>1. m \in Above[Kids[m][j]]
    BY <1>2, AboveSelf, AboveParent, Zenon
  <2>2. a \in Above[Kids[m][j]]
    BY <1>2, <2>1, AboveTransitive, Zenon
  <2> QED BY <1>2, <2>2
<1>3. \A m \in Z : \E j \in DOMAIN Kids[m] : Kids[m][j] \in Z
  <2> SUFFICES ASSUME NEW m \in Z PROVE \E j \in DOMAIN Kids[m] : Kids[m][j] \in Z
    OBVIOUS
  <2>1. \E j \in DOMAIN Kids[m] : Kids[m][j] \in Above[a]
    BY AboveKid, AboveSelf, Zenon
  <2>2. \A j \in DOMAIN Kids[m] : Kids[m][j] \in Nodes
    BY TreeAssumption
  <2> QED BY <1>2, <2>1, <2>2, Zenon
<1> QED BY <1>1, <1>3, BuiltAssumption, Zenon

\* The cores around a core form a chain: a core wraps at most one of them.
LEMMA OneKid ==
  ASSUME NEW n \in Nodes, NEW a \in Nodes, NEW i \in DOMAIN Kids[a], NEW j \in DOMAIN Kids[a],
         Kids[a][i] \in Above[n], Kids[a][j] \in Above[n]
  PROVE  i = j
<1> SUFFICES ASSUME i # j PROVE FALSE
  OBVIOUS
<1> DEFINE c == Kids[a][i]
           e == Kids[a][j]
           S == {x \in Nodes : c \in Above[x] /\ e \in Above[x]}
<1>1. c \in Nodes /\ e \in Nodes /\ c # e
  BY TreeAssumption, BuiltAssumption
<1>2. c \notin Above[e] /\ e \notin Above[c]
  <2>1. c \notin Above[a] /\ e \notin Above[a]
    BY <1>1, NoCycle, Zenon
  <2>2. ASSUME c \in Above[e] PROVE FALSE
    <3>1. c \in Above[Kids[a][j]] /\ c # Kids[a][j] /\ Kids[a][j] \in Nodes
      BY <1>1, <2>2
    <3> QED BY <2>1, <3>1, AboveUp, Zenon
  <2>3. ASSUME e \in Above[c] PROVE FALSE
    <3>1. e \in Above[Kids[a][i]] /\ e # Kids[a][i] /\ Kids[a][i] \in Nodes
      BY <1>1, <2>3
    <3> QED BY <2>1, <3>1, AboveUp, Zenon
  <2> QED BY <2>2, <2>3
<1>3. WithParents(S)
  <2> SUFFICES ASSUME NEW m \in Nodes, NEW k \in DOMAIN Kids[m], Kids[m][k] \in S PROVE m \in S
    BY Zenon DEF WithParents
  <2>1. Kids[m][k] # c /\ Kids[m][k] # e
    BY <1>2, Zenon
  <2> QED BY <1>2, <2>1, AboveUp, Zenon
<1>4. Above[n] \subseteq S
  BY <1>3, Least, Zenon
<1>5. c \in S
  BY <1>4
<1> QED BY <1>2, <1>5
-----------------------------------------------------------------------------
(* A call and its CheckedEntry.                                            *)

CEType == [cores : Seq(Nodes), after : Hook, errorOutput : BOOLEAN, dirty : BOOLEAN]
Change == [cores : Seq(Nodes), after : Hook, errorOutput : BOOLEAN]

Types ==
  /\ TypeOK
  /\ errs \in [Procs -> SUBSET Nodes]
  /\ written \in [Procs -> Seq(Nodes)]
  /\ synced \in [Procs -> SUBSET Nodes]
  /\ reported \in [Procs -> BOOLEAN]
  /\ outcome \in [Procs -> {"none", "returned", "custom", "panicked", "goexit", "exited", "unsafe"}]

LEMMA ResetType == \A r : Reset(r) \in CEType
BY DEF Reset, CEType, Hook

LEMMA AmendType ==
  ASSUME NEW r \in CEType, NEW d \in Change
  PROVE  /\ Amend(r, d) \in CEType
         /\ Amend(r, d).cores = r.cores \o d.cores
         /\ Amend(r, d).after = IF d.after = "nil" THEN r.after ELSE d.after
         /\ Amend(r, d).errorOutput = (r.errorOutput \/ d.errorOutput)
         /\ Amend(r, d).dirty = r.dirty
<1> DEFINE cs == r.cores \o d.cores
           af == IF d.after = "nil" THEN r.after ELSE d.after
           eo == r.errorOutput \/ d.errorOutput
<1>1. cs \in Seq(Nodes) /\ af \in Hook
  BY DEF CEType, Change
<1>2. eo \in BOOLEAN
  OBVIOUS
<1>3. Amend(r, d) = [r EXCEPT !.cores = cs, !.after = af, !.errorOutput = eo]
  BY Zenon DEF Amend
<1> HIDE DEF cs, af, eo
<1>4. LET a == [r EXCEPT !.cores = cs, !.after = af, !.errorOutput = eo]
      IN a \in CEType /\ a.cores = cs /\ a.after = af /\ a.errorOutput = eo /\ a.dirty = r.dirty
  BY <1>1, <1>2, Zenon DEF CEType
<1> QED
  BY <1>3, <1>4, Zenon DEF cs, af, eo

\* What Update does: p's CheckedEntry c is nobody else's and is not in the pool.
LEMMA UpdateEffect ==
  ASSUME Types, PoolSafe, NEW p \in Procs, NEW d \in Change, Update(p, d)
  PROVE  \E c \in CEs, r \in CEType :
           /\ ce' = [ce EXCEPT ![p] = c]
           /\ \A q \in Procs : q # p => ce[q] # c
           /\ c \notin pool' /\ pool' \subseteq pool
           /\ ces' = [ces EXCEPT ![c] = Amend(r, d)]
           /\ ce[p] # NoCE => c = ce[p] /\ r = ces[c]
           /\ ce[p] = NoCE => r = Reset(ces[c])
<1>0. ce \in [Procs -> CEs \cup {NoCE}] /\ ces \in [CEs -> CEType] /\ pool \subseteq CEs
  BY Zenon DEF Types, TypeOK, CEType
<1>1. CASE ce[p] # NoCE
  <2>1. ce[p] \in CEs /\ ces[ce[p]] \in CEType
    BY <1>0, <1>1
  <2>2. ces' = [ces EXCEPT ![ce[p]] = Amend(ces[ce[p]], d)] /\ ce' = ce /\ pool' = pool
    BY <1>1 DEF Update
  <2>3. ce' = [ce EXCEPT ![p] = ce[p]]
    BY <1>0, <2>2
  <2>4. ce[p] \notin pool /\ \A q \in Procs : q # p => ce[q] # ce[p]
    BY <1>1, Zenon DEF PoolSafe, Held
  <2> QED
    BY <1>1, <2>1, <2>2, <2>3, <2>4, Zenon
<1>2. CASE ce[p] = NoCE
  <2>1. PICK c \in CEs \ Held : /\ ce' = [ce EXCEPT ![p] = c]
                                /\ pool' = pool \ {c}
                                /\ ces' = [ces EXCEPT ![c] = Amend(Reset(@), d)]
    BY <1>2, Zenon DEF Update
  <2>2. ces' = [ces EXCEPT ![c] = Amend(Reset(ces[c]), d)] /\ Reset(ces[c]) \in CEType
    BY Zenon, <1>0, <2>1, ResetType
  <2>3. \A q \in Procs : q # p => ce[q] # c
    BY <2>1, CEAssumption DEF Held
  <2>4. c \in CEs /\ c \notin pool' /\ pool' \subseteq pool
    BY <2>1
  <2> QED
    BY <1>2, <2>1, <2>2, <2>3, <2>4, Zenon
<1> QED
  BY <1>1, <1>2, Zenon

\* A call takes the CheckedEntry c, or releases its own: to the pool, if to anywhere.
LEMMA PoolStep ==
  ASSUME Types, PoolSafe, NEW p \in Procs, NEW c \in CEs \cup {NoCE}, ce' = [ce EXCEPT ![p] = c],
         c = NoCE \/ (c \notin pool' /\ \A q \in Procs : q # p => ce[q] # c),
         pool' \subseteq pool \cup {ce[p]}
  PROVE  PoolSafe'
<1>1. ce \in [Procs -> CEs \cup {NoCE}]
  BY Zenon DEF Types, TypeOK
<1>2. ce'[p] = c /\ \A q \in Procs : q # p => ce'[q] = ce[q]
  BY <1>1
<1>3. ASSUME NEW q \in Procs, ce'[q] # NoCE PROVE ce'[q] \notin pool'
  <2>1. CASE q = p
    BY <1>2, <1>3, <2>1
  <2>2. CASE q # p
    <3>1. ce[q] \notin pool /\ ce[q] # ce[p]
      BY <1>2, <1>3, <2>2, Zenon DEF PoolSafe, Held
    <3> QED
      BY ZenonT(30), <1>2, <2>2, <3>1
  <2> QED
    BY <2>1, <2>2
<1>4. ASSUME NEW q \in Procs, NEW r \in Procs, q # r, ce'[q] # NoCE PROVE ce'[q] # ce'[r]
  <2>1. CASE q # p /\ r # p
    BY <1>2, <1>4, <2>1, Zenon DEF PoolSafe
  <2>2. CASE q = p \/ r = p
    BY <1>2, <1>4, <2>2
  <2> QED
    BY <2>1, <2>2
<1> QED
  BY <1>3, <1>4, Zenon DEF PoolSafe, Held
-----------------------------------------------------------------------------
(* The inductive invariant, for one call.                                  *)

\* What the CheckedEntry r of p says: nothing but cores while the cores are asked;
\* then the terminal hook of the level and, if some core will write, ErrorOutput.
\* What was written at a level that must be synced is synced, or about to be, or
\* its error is kept.
Entry(p, r) ==
  /\ pc[p] = "check" => r.after = "nil"
  /\ pc[p] \in {"check", "write"} => ~r.dirty
  /\ pc[p] \in {"write", "cores", "sync", "hook"} =>
       r.after = TerminalHook(lvl[p]) /\ (r.cores # << >> => r.errorOutput)
  /\ pc[p] \in {"cores", "sync", "hook"} /\ MustSync(lvl[p]) =>
       \A k \in DOMAIN written[p] : Kind[written[p][k]] = "io" =>
         \/ written[p][k] \in synced[p] \cup errs[p]
         \/ pc[p] = "sync" /\ written[p][k] = r.cores[next[p]]
  /\ pc[p] \in {"cores", "sync"} /\ errs[p] # {} => r.cores # << >>
  /\ pc[p] = "hook" /\ errs[p] # {} => reported[p]
  /\ pc[p] = "sync" => next[p] \in DOMAIN r.cores

\* How the call of p ended is as its level says, and it left nothing behind.
Ended(p) ==
  /\ outcome[p] = "returned" => ~IsTerminal(lvl[p])
  /\ outcome[p] \notin {"none", "returned"} => IsTerminal(lvl[p])
  /\ outcome[p] \in {"exited", "panicked", "goexit"} =>
       /\ \A k \in DOMAIN written[p] :
            Kind[written[p][k]] = "io" => written[p][k] \in synced[p] \cup errs[p]
       /\ errs[p] # {} => reported[p]

Good(p) ==
  /\ pc[p] \in {"idle", "enabled", "dead"} => ce[p] = NoCE
  /\ pc[p] \notin {"idle", "dead"} => outcome[p] = "none"
  /\ pc[p] = "enabled" => ~SkipsFastPath(lvl[p])
  /\ pc[p] \in {"enabled", "check", "write"} => written[p] = << >> /\ errs[p] = {}
  /\ ce[p] # NoCE => Entry(p, ces[ce[p]])
  /\ Ended(p)

Inv == Types /\ PoolSafe /\ \A p \in Procs : Good(p)

\* A step of p's touches nothing of another call, the CheckedEntry it holds included.
Apart(p) ==
  /\ opt' = opt
  /\ \A q \in Procs : q # p =>
       /\ pc'[q] = pc[q] /\ lvl'[q] = lvl[q] /\ ce'[q] = ce[q] /\ next'[q] = next[q]
       /\ errs'[q] = errs[q] /\ written'[q] = written[q] /\ synced'[q] = synced[q]
       /\ reported'[q] = reported[q] /\ outcome'[q] = outcome[q]
       /\ ce[q] # NoCE => ces'[ce[q]] = ces[ce[q]]

LEMMA Finish ==
  ASSUME Inv, NEW p \in Procs, Types', PoolSafe', Good(p)', Apart(p) PROVE Inv'
<1>1. ASSUME NEW q \in Procs, q # p PROVE Good(q)'
  <2>1. /\ opt' = opt
        /\ pc'[q] = pc[q] /\ lvl'[q] = lvl[q] /\ ce'[q] = ce[q] /\ next'[q] = next[q]
        /\ errs'[q] = errs[q] /\ written'[q] = written[q] /\ synced'[q] = synced[q]
        /\ reported'[q] = reported[q] /\ outcome'[q] = outcome[q]
        /\ ce[q] # NoCE => ces'[ce[q]] = ces[ce[q]]
    BY <1>1, Zenon DEF Apart
  <2>2. Good(q)
    BY Zenon DEF Inv
  <2>3. TerminalHook(lvl[q])' = TerminalHook(lvl[q]) /\ (IsTerminal(lvl[q])' <=> IsTerminal(lvl[q]))
    BY <2>1, Zenon DEF TerminalHook, IsTerminal
  <2>4. Ended(q)'
    <3>1. Ended(q)
      BY <2>2, Zenon DEF Good
    <3> QED
      BY <2>1, <2>3, <3>1, Zenon DEF Ended
  <2>5. ASSUME ce[q] # NoCE PROVE Entry(q, ces[ce[q]])'
    <3>1. Entry(q, ces[ce[q]])
      BY <2>2, <2>5, Zenon DEF Good
    <3>2. ces'[ce'[q]] = ces[ce[q]]
      BY <2>1, <2>5, Zenon
    <3> QED
      BY <2>1, <2>3, <3>1, <3>2, ZenonT(60) DEF Entry
  <2> QED
    BY <2>1, <2>2, <2>4, <2>5, Zenon DEF Good
<1> QED
  BY <1>1, Zenon DEF Inv

LEMMA LevelFacts ==
  \A l \in EntryLevels \cup {0} :
    /\ ~SkipsFastPath(l) => ~IsTerminal(l)
    /\ IsTerminal(l) => MustSync(l)
BY LevelAssumption
   DEF SkipsFastPath, IsTerminal, MustSync, DPanicLevel, PanicLevel, FatalLevel, ErrorLevel

LEMMA HookFacts ==
  ASSUME opt \in Options, NEW l
  PROVE  TerminalHook(l) \in Hook /\ (TerminalHook(l) = "nil" <=> ~IsTerminal(l))
<1>1. opt.onPanic \in Overrides /\ opt.onFatal \in Overrides
  BY HookAssumption
<1> DEFINE a == TerminalHookOverride("panic", opt.onPanic)
           b == TerminalHookOverride("fatal", opt.onFatal)
<1>2. a \in Hook /\ a # "nil" /\ b \in Hook /\ b # "nil"
  BY <1>1 DEF TerminalHookOverride, Overrides, Hook
<1> HIDE DEF a, b
<1>3. TerminalHook(l) = CASE l = PanicLevel -> a
                          [] l = FatalLevel -> b
                          [] l = DPanicLevel /\ opt.development -> a
                          [] OTHER -> "nil"
  BY Zenon DEF TerminalHook, a, b
<1>4. "nil" \in Hook
  BY DEF Hook
<1>5. CASE l = PanicLevel
  BY <1>2, <1>3, <1>5, Zenon DEF PanicLevel, FatalLevel, DPanicLevel, IsTerminal
<1>6. CASE l = FatalLevel
  BY <1>2, <1>3, <1>6 DEF PanicLevel, FatalLevel, DPanicLevel, IsTerminal
<1>7. CASE l \notin {PanicLevel, FatalLevel} /\ l = DPanicLevel /\ opt.development
  BY <1>2, <1>3, <1>7, Zenon DEF IsTerminal
<1>8. CASE l \notin {PanicLevel, FatalLevel} /\ ~(l = DPanicLevel /\ opt.development)
  BY <1>3, <1>4, <1>8, Zenon DEF IsTerminal
<1> QED
  BY <1>5, <1>6, <1>7, <1>8, Zenon

LEMMA LogStep ==
  ASSUME Inv, NEW p \in Procs, NEW l \in EntryLevels, Log(p, l) PROVE Inv'
<1>1. Types
  BY Zenon DEF Inv
<1>2. Types'
  <2>1. UNCHANGED <<opt, lev, pool, ces, ce, exited>>
    BY Zenon DEF Log
  <2>2. pc' \in [Procs -> {"idle", "enabled", "check", "write", "cores", "sync", "hook", "dead"}]
        /\ \A q \in Procs : pc'[q] \in {"write", "cores", "sync", "hook"} => pc[q] = pc'[q]
    BY <1>1, Zenon DEF Log, Types, TypeOK
  <2>3. lvl' \in [Procs -> EntryLevels \cup {0}] /\ next' \in [Procs -> Nat \ {0}]
    BY <1>1 DEF Log, Types, TypeOK
  <2>4. todo' \in [Procs -> Seq({"visit", "hook"} \X Nodes)]
    <3>1. << <<"visit", opt.core>> >> \in Seq({"visit", "hook"} \X Nodes)
      BY <1>1, TreeAssumption DEF Types, TypeOK
    <3>2. todo \in [Procs -> Seq({"visit", "hook"} \X Nodes)]
      BY <1>1, Zenon DEF Types, TypeOK
    <3> QED
      BY <3>1, <3>2, Zenon DEF Log
  <2>5. /\ errs' \in [Procs -> SUBSET Nodes] /\ synced' \in [Procs -> SUBSET Nodes]
        /\ written' \in [Procs -> Seq(Nodes)]
    BY <1>1 DEF Log, Types
  <2>6. reported' \in [Procs -> BOOLEAN]
    BY <1>1, Zenon DEF Log, Types
  <2>7. outcome' \in [Procs -> {"none", "returned", "custom", "panicked", "goexit", "exited", "unsafe"}]
    BY <1>1 DEF Log, Types
  <2> QED
    BY <1>1, <2>1, <2>2, <2>3, <2>4, <2>5, <2>6, <2>7, Zenon DEF Types, TypeOK
<1>3. PoolSafe'
  BY Zenon DEF Inv, Log, PoolSafe, Held
<1>4. Apart(p)
  <2>1. \A q \in Procs : q # p => reported'[q] = reported[q]
    BY <1>1, Zenon DEF Log, Types
  <2>2. UNCHANGED <<opt, ces, ce>>
    BY Zenon DEF Log
  <2>3. \A q \in Procs : q # p =>
          /\ pc'[q] = pc[q] /\ lvl'[q] = lvl[q] /\ next'[q] = next[q] /\ errs'[q] = errs[q]
          /\ written'[q] = written[q] /\ synced'[q] = synced[q] /\ outcome'[q] = outcome[q]
    BY <1>1, Zenon DEF Log, Types, TypeOK
  <2> QED
    BY <2>1, <2>2, <2>3, Zenon DEF Apart
<1>5. Good(p)'
  <2>1. /\ pc'[p] = (IF SkipsFastPath(l) THEN "check" ELSE "enabled") /\ lvl'[p] = l
        /\ outcome'[p] = "none" /\ written'[p] = << >> /\ errs'[p] = {}
    BY <1>1, Zenon DEF Log, Types, TypeOK
  <2>2. ce'[p] = NoCE
    BY Zenon DEF Inv, Good, Log
  <2>3. pc'[p] \in {"check", "enabled"} /\ (pc'[p] = "enabled" => ~SkipsFastPath(l))
    BY Zenon, <2>1
  <2>4. Ended(p)'
    BY <2>1, Zenon DEF Ended
  <2> QED
    BY <2>1, <2>2, <2>3, <2>4, Zenon DEF Good
<1> QED
  BY Zenon, <1>2, <1>3, <1>4, <1>5, Finish

\* A call ends with result r, which suits its level; what it wrote is durable if r
\* is the end of the program or of the goroutine.
LEMMA EndStep ==
  ASSUME Inv, NEW p \in Procs, NEW r \in {"returned", "custom", "panicked", "goexit", "exited"},
         End(p, r), UNCHANGED <<opt, lev, ces, lvl, todo, next, errs, written, synced, reported>>,
         pool' \subseteq CEs, pool' \subseteq pool \cup {ce[p]}, exited' \in BOOLEAN,
         r = "returned" => ~IsTerminal(lvl[p]),
         r # "returned" => IsTerminal(lvl[p]),
         r # "returned" =>
           /\ \A k \in DOMAIN written[p] :
                Kind[written[p][k]] = "io" => written[p][k] \in synced[p] \cup errs[p]
           /\ errs[p] # {} => reported[p]
  PROVE  Inv'
<1>1. Types
  BY Zenon DEF Inv
<1>2. Types'
  <2>1. ce' \in [Procs -> CEs \cup {NoCE}]
    BY <1>1, Zenon DEF End, Types, TypeOK
  <2>2. /\ pc' \in [Procs -> {"idle", "enabled", "check", "write", "cores", "sync", "hook", "dead"}]
        /\ \A q \in Procs : pc'[q] \in {"write", "cores", "sync", "hook"} => pc[q] = pc'[q] /\ ce'[q] = ce[q]
    BY <1>1, Zenon DEF End, Types, TypeOK
  <2>3. outcome' \in [Procs -> {"none", "returned", "custom", "panicked", "goexit", "exited", "unsafe"}]
    BY <1>1 DEF End, Types
  <2> QED
    BY <1>1, <2>1, <2>2, <2>3, Zenon DEF Types, TypeOK
<1>3. PoolSafe'
  <2>1. ce' = [ce EXCEPT ![p] = NoCE]
    BY Zenon DEF End
  <2> QED
    BY <1>1, <2>1, PoolStep, Zenon DEF Inv
<1>4. Apart(p)
  <2>1. \A q \in Procs : q # p => pc'[q] = pc[q] /\ ce'[q] = ce[q] /\ outcome'[q] = outcome[q]
    BY <1>1, Zenon DEF End, Types, TypeOK
  <2> QED
    BY <2>1, Zenon DEF Apart
<1>5. Good(p)'
  <2>1. pc'[p] \in {"idle", "dead"} /\ ce'[p] = NoCE /\ outcome'[p] = r
    BY <1>1 DEF End, Types, TypeOK
  <2>2. IsTerminal(lvl[p])' <=> IsTerminal(lvl[p])
    BY Zenon DEF IsTerminal
  <2>3. Ended(p)'
    <3>1. /\ outcome'[p] = "returned" => ~IsTerminal(lvl[p])
          /\ outcome'[p] \notin {"none", "returned"} => IsTerminal(lvl[p])
          /\ outcome'[p] \in {"exited", "panicked", "goexit"} => r # "returned"
      BY Zenon, <2>1
    <3> QED
      BY <2>2, <3>1, Zenon DEF Ended
  <2>4. pc'[p] \notin {"enabled", "check", "write"}
    BY Zenon, <2>1
  <2> QED
    BY <2>1, <2>3, <2>4, Zenon DEF Good
<1> QED
  BY Zenon, <1>2, <1>3, <1>4, <1>5, Finish

\* A step that only asks: the walk goes on, or from Enabled to Check.
LEMMA AskStep ==
  ASSUME Inv, NEW p \in Procs, pc[p] \in {"enabled", "check"},
         pc' = [pc EXCEPT ![p] = "check"] \/ pc' = pc,
         todo' \in [Procs -> Seq({"visit", "hook"} \X Nodes)],
         UNCHANGED <<opt, lev, pool, ces, lvl, ce, next, errs, exited, written, synced, reported, outcome>>
  PROVE  Inv'
<1>1. Types
  BY Zenon DEF Inv
<1>2. /\ pc' \in [Procs -> {"idle", "enabled", "check", "write", "cores", "sync", "hook", "dead"}]
      /\ \A q \in Procs : q # p => pc'[q] = pc[q]
      /\ pc'[p] = pc[p] \/ pc'[p] = "check"
  BY <1>1, Zenon DEF Types, TypeOK
<1>3. Types'
  <2>1. \A q \in Procs : pc'[q] \in {"write", "cores", "sync", "hook"} => pc[q] = pc'[q]
    BY Zenon, <1>2
  <2> QED
    BY <1>1, <1>2, <2>1, Zenon DEF Types, TypeOK
<1>4. PoolSafe'
  BY Zenon DEF Inv, PoolSafe, Held
<1>5. Apart(p)
  BY <1>2, Zenon DEF Apart
<1>6. Good(p)'
  <2>1. Good(p)
    BY Zenon DEF Inv
  <2>2. CASE pc'[p] = pc[p]
    <3>1. TerminalHook(lvl[p])' = TerminalHook(lvl[p]) /\ (IsTerminal(lvl[p])' <=> IsTerminal(lvl[p]))
      BY Zenon DEF TerminalHook, IsTerminal
    <3>2. Ended(p)'
      BY <2>1, <3>1, Zenon DEF Good, Ended
    <3>3. ce[p] # NoCE => Entry(p, ces[ce[p]])'
      BY <2>1, <2>2, <3>1, Zenon DEF Good, Entry
    <3> QED
      BY <2>1, <2>2, <3>2, <3>3, Zenon DEF Good
  <2>3. CASE pc'[p] # pc[p]
    <3>1. pc[p] = "enabled" /\ pc'[p] = "check"
      BY Zenon, <1>2, <2>3
    <3>2. ce[p] = NoCE /\ outcome[p] = "none" /\ written[p] = << >> /\ errs[p] = {}
      BY <2>1, <3>1, Zenon DEF Good
    <3> QED
      BY <3>1, <3>2, Zenon DEF Good, Ended
  <2> QED
    BY <2>2, <2>3
<1> QED
  BY Zenon, <1>3, <1>4, <1>5, <1>6, Finish

LEMMA WalkType ==
  ASSUME Types, NEW p \in Procs, todo[p] # << >>, NEW steps \in Seq({"visit", "hook"} \X Nodes),
         Walk(p, steps)
  PROVE  todo' \in [Procs -> Seq({"visit", "hook"} \X Nodes)]
<1> DEFINE S == {"visit", "hook"} \X Nodes
<1>1. todo \in [Procs -> Seq(S)]
  BY Zenon DEF Types, TypeOK
<1> HIDE DEF S
<1>2. steps \o Tail(todo[p]) \in Seq(S)
  <2>1. Tail(todo[p]) \in Seq(S)
    BY <1>1
  <2> QED
    BY <2>1 DEF S
<1> QED
  BY <1>1, <1>2, Zenon DEF Walk, S

LEMMA VisitsType ==
  ASSUME NEW ns \in Seq(Nodes) PROVE Visits(ns) \in Seq({"visit", "hook"} \X Nodes)
BY DEF Visits

LEMMA HeadType ==
  ASSUME Types, NEW p \in Procs, todo[p] # << >>
  PROVE  Head(todo[p])[2] \in Nodes /\ Kids[Head(todo[p])[2]] \in Seq(Nodes)
<1> DEFINE S == {"visit", "hook"} \X Nodes
<1>1. todo[p] \in Seq(S)
  BY Zenon DEF Types, TypeOK
<1> HIDE DEF S
<1>2. Head(todo[p]) \in S
  BY <1>1
<1> QED
  BY <1>2, TreeAssumption DEF S

LEMMA CoreEnabledStep ==
  ASSUME Inv, NEW p \in Procs, CoreEnabled(p) PROVE Inv'
<1>1. Types /\ Good(p) /\ pc[p] = "enabled"
  BY Zenon DEF Inv, CoreEnabled
<1>2. UNCHANGED <<opt, lev, pool, ces, lvl, next, errs, exited, written, synced, reported>>
  BY Zenon DEF CoreEnabled
<1>3. CASE todo[p] = << >>
  <2>1. End(p, "returned") /\ todo' = todo
    BY <1>3, Zenon DEF CoreEnabled
  <2>2. ~IsTerminal(lvl[p])
    <3>1. lvl[p] \in EntryLevels \cup {0} /\ ~SkipsFastPath(lvl[p])
      BY <1>1, Zenon DEF Types, TypeOK, Good
    <3> QED
      BY <3>1, LevelFacts, Zenon
  <2>3. pool' \subseteq CEs /\ pool' \subseteq pool \cup {ce[p]} /\ exited' \in BOOLEAN
    BY <1>1, <1>2, Zenon DEF Types, TypeOK
  <2> QED
    BY Zenon, <1>2, <2>1, <2>2, <2>3, EndStep
<1>4. CASE todo[p] # << >>
  <2> DEFINE n == Head(todo[p])[2]
  <2>1. UNCHANGED <<ce, outcome>>
    BY <1>4, Zenon DEF CoreEnabled
  <2>2. CASE Kind[n] \in {"io", "filter"} /\ Enabled(Gate[n], lvl[p])
    <3>1. /\ pc' = [pc EXCEPT ![p] = "check"]
          /\ todo' = [todo EXCEPT ![p] = << <<"visit", opt.core>> >>]
      BY <1>4, <2>2, Zenon DEF CoreEnabled
    <3>2. << <<"visit", opt.core>> >> \in Seq({"visit", "hook"} \X Nodes)
      BY <1>1, TreeAssumption DEF Types, TypeOK
    <3>3. todo' \in [Procs -> Seq({"visit", "hook"} \X Nodes)]
      BY <1>1, <3>1, <3>2, Zenon DEF Types, TypeOK
    <3> QED
      BY <1>1, <1>2, <2>1, <3>1, <3>3, AskStep, Zenon
  <2>3. CASE ~(Kind[n] \in {"io", "filter"} /\ Enabled(Gate[n], lvl[p]))
    <3>1. Walk(p, IF Kind[n] = "filter" THEN << >> ELSE Visits(Kids[n])) /\ pc' = pc
      BY <1>4, <2>3, Zenon DEF CoreEnabled
    <3>2. (IF Kind[n] = "filter" THEN << >> ELSE Visits(Kids[n])) \in Seq({"visit", "hook"} \X Nodes)
      BY <1>1, <1>4, HeadType, VisitsType
    <3>3. todo' \in [Procs -> Seq({"visit", "hook"} \X Nodes)]
      BY <1>1, <1>4, <3>1, <3>2, WalkType, Zenon
    <3> QED
      BY Zenon, <1>1, <1>2, <2>1, <3>1, <3>3, AskStep
  <2> QED
    BY Zenon, <2>2, <2>3
<1> QED
  BY <1>3, <1>4

\* The CheckedEntry is made or amended: with a core while the cores are asked, with
\* the terminal hook and ErrorOutput afterwards.
LEMMA UpdateStep ==
  ASSUME Inv, NEW p \in Procs, pc[p] = "check", NEW d \in Change, Update(p, d),
         NEW l \in {"check", "write"}, pc' = [pc EXCEPT ![p] = l],
         todo' \in [Procs -> Seq({"visit", "hook"} \X Nodes)],
         UNCHANGED <<opt, lev, lvl, next, errs, exited, written, synced, reported, outcome>>,
         l = "check" => d.after = "nil",
         l = "write" => d.after = TerminalHook(lvl[p]) /\ d.cores = << >> /\ (ce[p] # NoCE => d.errorOutput)
  PROVE  Inv'
<1>1. Types /\ PoolSafe /\ Good(p)
  BY Zenon DEF Inv
<1>2. PICK c \in CEs, r \in CEType :
           /\ ce' = [ce EXCEPT ![p] = c]
           /\ \A q \in Procs : q # p => ce[q] # c
           /\ c \notin pool' /\ pool' \subseteq pool
           /\ ces' = [ces EXCEPT ![c] = Amend(r, d)]
           /\ ce[p] # NoCE => c = ce[p] /\ r = ces[c]
           /\ ce[p] = NoCE => r = Reset(ces[c])
  BY <1>1, UpdateEffect, ZenonT(60)
<1> DEFINE R == Amend(r, d)
<1>3. /\ R \in CEType /\ R.cores = r.cores \o d.cores
      /\ R.after = (IF d.after = "nil" THEN r.after ELSE d.after)
      /\ R.errorOutput = (r.errorOutput \/ d.errorOutput) /\ R.dirty = r.dirty
  BY AmendType, Zenon
<1> HIDE DEF R
<1>4. ces' = [ces EXCEPT ![c] = R]
  BY <1>2, Zenon DEF R
<1>5. /\ pc' \in [Procs -> {"idle", "enabled", "check", "write", "cores", "sync", "hook", "dead"}]
      /\ pc'[p] = l /\ \A q \in Procs : q # p => pc'[q] = pc[q]
  BY <1>1, ZenonT(30) DEF Types, TypeOK
<1>6. /\ ce' \in [Procs -> CEs \cup {NoCE}] /\ ce'[p] = c /\ ce'[p] # NoCE
      /\ \A q \in Procs : q # p => ce'[q] = ce[q]
  BY <1>1, <1>2, CEAssumption, Zenon DEF Types, TypeOK
<1>7. ces \in [CEs -> CEType]
  BY <1>1, Zenon DEF Types, TypeOK, CEType
<1>8. Types'
  <2>1. ces' \in [CEs -> CEType] /\ pool' \subseteq CEs
    <3>1. pool \subseteq CEs
      BY <1>1, Zenon DEF Types, TypeOK
    <3> QED
      BY <1>2, <1>3, <1>4, <1>7, <3>1
  <2>2. \A q \in Procs : pc'[q] \in {"write", "cores", "sync", "hook"} => ce'[q] # NoCE
    <3>1. \A q \in Procs : pc[q] \in {"write", "cores", "sync", "hook"} => ce[q] # NoCE
      BY <1>1, Zenon DEF Types, TypeOK
    <3> QED
      BY <1>5, <1>6, <3>1
  <2> QED
    BY <1>1, <1>5, <1>6, <2>1, <2>2, ZenonT(60) DEF Types, TypeOK, CEType
<1>9. PoolSafe'
  BY <1>1, <1>2, PoolStep, Zenon
<1>10. Apart(p)
  <2>1. \A q \in Procs : q # p /\ ce[q] # NoCE => ces'[ce[q]] = ces[ce[q]]
    BY <1>1, <1>2, <1>4, <1>7, ZenonT(60) DEF Types, TypeOK
  <2> QED
    BY <1>5, <1>6, <2>1, Zenon DEF Apart
<1>11. Good(p)'
  <2>1. r.after = "nil" /\ ~r.dirty /\ (ce[p] = NoCE => r.cores = << >>)
    <3>1. CASE ce[p] = NoCE
      <4>1. r = [cores |-> << >>, after |-> "nil", errorOutput |-> FALSE, dirty |-> FALSE]
        BY <1>2, <3>1, Zenon DEF Reset
      <4>2. r.dirty = FALSE
        BY Zenon, <4>1
      <4>3. r.after = "nil" /\ r.cores = << >>
        BY Zenon, <4>1
      <4> QED
        BY <4>2, <4>3, Zenon
    <3>2. CASE ce[p] # NoCE
      <4>1. Entry(p, ces[ce[p]])
        BY <1>1, <3>2, Zenon DEF Good
      <4> QED
        BY <1>2, <3>2, <4>1, Zenon DEF Entry
    <3> QED
      BY Zenon, <3>1, <3>2
  <2>2. ces'[ce'[p]] = R
    BY <1>2, <1>4, <1>6, <1>7, Zenon
  <2>3. ~R.dirty
    BY <1>3, <2>1, Zenon
  <2>4. l = "check" => R.after = "nil"
    BY Zenon, <1>3, <2>1
  <2>5. l = "write" => R.after = TerminalHook(lvl[p])
    BY Zenon, <1>3, <2>1
  <2>6. ASSUME l = "write", R.cores # << >> PROVE R.errorOutput
    <3>1. CASE ce[p] # NoCE
      <4>1. d.errorOutput
        BY <2>6, <3>1, Zenon
      <4> QED
        BY <1>3, <4>1, Zenon
    <3>2. CASE ce[p] = NoCE
      <4>1. R.cores = << >> \o << >>
        BY <1>3, <2>1, <2>6, <3>2, Zenon
      <4>2. << >> \o << >> = << >>
        OBVIOUS
      <4> QED
        BY <2>6, <4>1, <4>2, Zenon
    <3> QED
      BY ZenonT(30), <3>1, <3>2
  <2>7. TerminalHook(lvl[p])' = TerminalHook(lvl[p])
    BY Zenon DEF TerminalHook
  <2>8. Entry(p, ces[ce[p]])'
    <3>1. pc'[p] \notin {"cores", "sync", "hook"}
      BY Zenon, <1>5
    <3>2. pc'[p] = "check" \/ pc'[p] = "write"
      BY ZenonT(30), <1>5
    <3>3. CASE l = "check"
      <4>1. pc'[p] \notin {"write", "cores", "sync", "hook"}
        BY Zenon, <1>5, <3>3
      <4> QED
        BY <2>2, <2>3, <2>4, <3>1, <3>3, <4>1, Zenon DEF Entry
    <3>4. CASE l = "write"
      BY <1>5, <2>2, <2>3, <2>5, <2>6, <2>7, <3>1, <3>4, Zenon DEF Entry
    <3> QED
      BY Zenon, <3>3, <3>4
  <2>9. outcome[p] = "none" /\ written[p] = << >> /\ errs[p] = {}
    BY <1>1, ZenonT(30) DEF Good
  <2>10. Ended(p)'
    BY <2>9, Zenon DEF Ended
  <2>11. pc'[p] \notin {"idle", "enabled", "dead"}
    BY Zenon, <1>5
  <2> QED
    BY <2>8, <2>9, <2>10, <2>11, Zenon DEF Good
<1> QED
  BY Zenon, <1>8, <1>9, <1>10, <1>11, Finish

LEMMA NoChangeType == NoChange \in Change /\ NoChange.after = "nil" /\ NoChange.cores = << >>
<1>1. << >> \in Seq(Nodes) /\ "nil" \in Hook /\ FALSE \in BOOLEAN
  BY DEF Hook
<1>2. NoChange \in Change
  BY <1>1, Zenon DEF NoChange, Change
<1>3. NoChange.after = "nil" /\ NoChange.cores = << >>
  BY DEF NoChange
<1> QED
  BY Zenon, <1>2, <1>3

LEMMA CoreCheckStep ==
  ASSUME Inv, NEW p \in Procs, CoreCheck(p) PROVE Inv'
<1> DEFINE n == Head(todo[p])[2]
           S == {"visit", "hook"} \X Nodes
<1>1. Types /\ pc[p] = "check" /\ todo[p] # << >>
  BY Zenon DEF Inv, CoreCheck
<1>2. UNCHANGED <<opt, lev, pc, lvl, next, errs, exited, written, synced, reported, outcome>>
  BY Zenon DEF CoreCheck
<1>3. n \in Nodes /\ Kids[n] \in Seq(Nodes) /\ Visits(Kids[n]) \in Seq(S) /\ << >> \in Seq(S)
  BY <1>1, HeadType, VisitsType
<1>4. Visits(Kids[n]) \o << <<"hook", n>> >> \in Seq(S)
  <2>1. << <<"hook", n>> >> \in Seq(S)
    BY <1>3
  <2> HIDE DEF S
  <2> QED
    BY <1>3, <2>1
<1>5. \A steps \in Seq(S) : Walk(p, steps) => todo' \in [Procs -> Seq(S)]
  BY <1>1, WalkType, Zenon
<1> HIDE DEF n, S
<1>6. ASSUME NEW steps \in Seq(S), Walk(p, steps), UNCHANGED <<ce, ces, pool>> PROVE Inv'
  BY <1>1, <1>2, <1>5, <1>6, AskStep, Zenon DEF S
<1>7. ASSUME AddCore(p, n), Walk(p, << >>) PROVE Inv'
  <2> DEFINE d == [NoChange EXCEPT !.cores = <<n>>]
  <2>1. d \in Change /\ d.after = "nil"
    <3>1. <<n>> \in Seq(Nodes)
      BY <1>3
    <3> QED
      BY <3>1, NoChangeType, Zenon DEF Change
  <2>2. Update(p, d)
    BY <1>7, Zenon DEF AddCore
  <2> HIDE DEF d
  <2>3. pc' = [pc EXCEPT ![p] = "check"]
    BY <1>1, <1>2, ZenonT(30) DEF Types, TypeOK
  <2>4. todo' \in [Procs -> Seq({"visit", "hook"} \X Nodes)]
    BY <1>3, <1>5, <1>7, Zenon DEF S
  <2> QED
    BY <1>1, <1>2, <2>1, <2>2, <2>3, <2>4, UpdateStep, Zenon
<1>8. CASE CheckIo(p, n)
  BY <1>3, <1>6, <1>7, <1>8, Zenon DEF CheckIo
<1>9. CASE CheckTee(p, n)
  BY <1>3, <1>6, <1>9, Zenon DEF CheckTee
<1>10. CASE CheckFilter(p, n)
  <2>1. (IF Enabled(Gate[n], lvl[p]) THEN Visits(Kids[n]) ELSE << >>) \in Seq(S)
    BY <1>3, Zenon
  <2> QED
    BY <1>6, <1>10, <2>1, Zenon DEF CheckFilter
<1>11. CASE CheckSampler(p, n)
  BY <1>3, <1>6, <1>11, Zenon DEF CheckSampler
<1>12. CASE CheckHooked(p, n)
  BY <1>4, <1>6, <1>12, Zenon DEF CheckHooked
<1>13. CASE AddHooks(p, n)
  BY <1>3, <1>6, <1>7, <1>13, Zenon DEF AddHooks
<1> QED
  BY <1>8, <1>9, <1>10, <1>11, <1>12, <1>13, Zenon DEF CoreCheck, n

LEMMA SetUpStep ==
  ASSUME Inv, NEW p \in Procs, SetUp(p) PROVE Inv'
<1> DEFINE hook == TerminalHook(lvl[p])
<1>1. Types /\ pc[p] = "check"
  BY Zenon DEF Inv, SetUp
<1>2. UNCHANGED <<opt, lev, lvl, todo, next, errs, exited, written, synced, reported>>
  BY Zenon DEF SetUp
<1>3. hook \in Hook /\ (hook = "nil" <=> ~IsTerminal(lvl[p]))
  BY <1>1, HookFacts, Zenon DEF Types, TypeOK
<1>4. todo' \in [Procs -> Seq({"visit", "hook"} \X Nodes)]
  BY <1>1, <1>2, Zenon DEF Types, TypeOK
<1>5. CASE ce[p] = NoCE /\ hook = "nil"
  <2>1. End(p, "returned") /\ UNCHANGED <<ces, pool>>
    BY <1>5, Zenon DEF SetUp
  <2>2. pool' \subseteq CEs /\ pool' \subseteq pool \cup {ce[p]} /\ exited' \in BOOLEAN
    BY <1>1, <1>2, <2>1, Zenon DEF Types, TypeOK
  <2> QED
    BY ZenonT(30), <1>2, <1>3, <1>5, <2>1, <2>2, EndStep
<1>6. CASE ~(ce[p] = NoCE /\ hook = "nil")
  <2> DEFINE e == ce[p] # NoCE
             d == [NoChange EXCEPT !.after = hook, !.errorOutput = e]
  <2>1. Update(p, d) /\ pc' = [pc EXCEPT ![p] = "write"] /\ outcome' = outcome
    BY <1>6, Zenon DEF SetUp
  <2>2. e \in BOOLEAN
    OBVIOUS
  <2> HIDE DEF e, hook
  <2>3. d \in Change /\ d.after = hook /\ d.cores = << >> /\ d.errorOutput = e
    BY <1>3, <2>2, NoChangeType, Zenon DEF Change
  <2> HIDE DEF d
  <2>4. ce[p] # NoCE => d.errorOutput
    BY <2>3, ZenonT(60) DEF e
  <2> QED
    BY <1>1, <1>2, <1>4, <2>1, <2>3, <2>4, UpdateStep, Zenon DEF hook
<1> QED
  BY Zenon, <1>5, <1>6

\* A step of CheckedEntry.Write: of the entries it changes p's only.
LEMMA WritingStep ==
  ASSUME Inv, NEW p \in Procs, pc[p] \in {"write", "cores", "sync"}, ce[p] \in CEs,
         NEW l \in {"cores", "sync", "hook"}, pc' = [pc EXCEPT ![p] = l],
         ces' \in [CEs -> CEType], \A c \in CEs : c # ce[p] => ces'[c] = ces[c],
         next' \in [Procs -> Nat \ {0}], errs' \in [Procs -> SUBSET Nodes],
         written' \in [Procs -> Seq(Nodes)], synced' \in [Procs -> SUBSET Nodes],
         reported' \in [Procs -> BOOLEAN],
         \A q \in Procs : q # p =>
           /\ next'[q] = next[q] /\ errs'[q] = errs[q] /\ written'[q] = written[q]
           /\ synced'[q] = synced[q] /\ reported'[q] = reported[q],
         UNCHANGED <<opt, lev, pool, lvl, todo, ce, exited, outcome>>,
         Entry(p, ces[ce[p]])'
  PROVE  Inv'
<1>1. Types /\ PoolSafe /\ Good(p)
  BY Zenon DEF Inv
<1>2. /\ pc' \in [Procs -> {"idle", "enabled", "check", "write", "cores", "sync", "hook", "dead"}]
      /\ pc'[p] = l /\ \A q \in Procs : q # p => pc'[q] = pc[q]
  BY <1>1, ZenonT(30) DEF Types, TypeOK
<1>3. ces \in [CEs -> CEType] /\ ce[p] # NoCE
  BY <1>1, CEAssumption, Zenon DEF Types, TypeOK, CEType
<1>5. Types'
  <2>1. \A q \in Procs : pc'[q] \in {"write", "cores", "sync", "hook"} => ce'[q] # NoCE
    <3>1. \A q \in Procs : pc[q] \in {"write", "cores", "sync", "hook"} => ce[q] # NoCE
      BY <1>1, Zenon DEF Types, TypeOK
    <3> QED
      BY Zenon, <1>2, <1>3, <3>1
  <2> QED
    BY <1>1, <1>2, <2>1, Zenon DEF Types, TypeOK, CEType
<1>6. PoolSafe'
  BY <1>1, ZenonT(60) DEF PoolSafe, Held
<1>7. Apart(p)
  <2>1. \A q \in Procs : q # p /\ ce[q] # NoCE => ces'[ce[q]] = ces[ce[q]]
    <3>1. \A q \in Procs : q # p /\ ce[q] # NoCE => ce[q] \in CEs /\ ce[q] # ce[p]
      BY <1>1, <1>3, ZenonT(60) DEF Types, TypeOK, PoolSafe
    <3> QED
      BY <3>1, Zenon
  <2> QED
    BY <1>2, <2>1, Zenon DEF Apart
<1>8. Good(p)'
  <2>1. outcome[p] = "none"
    BY <1>1, Zenon DEF Good
  <2>2. Ended(p)'
    BY <2>1, Zenon DEF Ended
  <2>3. pc'[p] \notin {"idle", "enabled", "dead", "check", "write"}
    BY ZenonT(30), <1>2
  <2>5. pc'[p] \notin {"idle", "enabled", "dead"} /\ pc'[p] \notin {"enabled", "check", "write"}
        /\ pc'[p] # "enabled"
    BY Zenon, <2>3
  <2> QED
    BY <2>1, <2>2, <2>5, Zenon DEF Good
<1> QED
  BY Zenon, <1>5, <1>6, <1>7, <1>8, Finish

\* What holds of a call that is in CheckedEntry.Write.
LEMMA Writing ==
  ASSUME Inv, NEW p \in Procs, pc[p] \in {"write", "cores", "sync", "hook"}
  PROVE  /\ Types /\ ce[p] \in CEs /\ ces \in [CEs -> CEType] /\ ces[ce[p]] \in CEType
         /\ Entry(p, ces[ce[p]]) /\ Good(p)
         /\ ces = [ces EXCEPT ![ce[p]] = ces[ce[p]]]
<1>1. Types /\ Good(p)
  BY Zenon DEF Inv
<1>2. ce[p] \in CEs /\ ce[p] # NoCE /\ ces \in [CEs -> CEType]
  BY <1>1, Zenon DEF Types, TypeOK, CEType
<1>3. Entry(p, ces[ce[p]])
  BY <1>1, <1>2, Zenon DEF Good
<1> QED
  BY Zenon, <1>1, <1>2, <1>3

LEMMA BeginWriteStep ==
  ASSUME Inv, NEW p \in Procs, BeginWrite(p) PROVE Inv'
<1>0. pc[p] = "write"
  BY Zenon DEF BeginWrite
<1> DEFINE r == ces[ce[p]]
           R == [r EXCEPT !.dirty = TRUE]
<1>1. Types /\ ce[p] \in CEs /\ r \in CEType /\ Entry(p, r) /\ Good(p)
  BY Zenon, <1>0, Writing
<1>2. ~r.dirty
  BY <1>0, <1>1, Zenon DEF Entry
<1>3. /\ ces' = [ces EXCEPT ![ce[p]].dirty = TRUE] /\ pc' = [pc EXCEPT ![p] = "cores"]
      /\ UNCHANGED <<opt, lev, pool, lvl, todo, ce, next, errs, exited, written, synced, reported, outcome>>
  BY <1>2, Zenon DEF BeginWrite
<1>4. ces' \in [CEs -> CEType] /\ ces'[ce[p]] = R /\ \A c \in CEs : c # ce[p] => ces'[c] = ces[c]
  <2>1. R \in CEType
    BY <1>1, Zenon DEF CEType
  <2>2. ces' = [ces EXCEPT ![ce[p]] = R]
    BY <1>3, Zenon
  <2> HIDE DEF R
  <2> QED
    BY Zenon, <1>0, <2>1, <2>2, Writing
<1>5. R.after = r.after /\ R.cores = r.cores /\ R.errorOutput = r.errorOutput
  BY <1>1, Zenon DEF CEType
<1>6. pc'[p] = "cores" /\ written[p] = << >> /\ errs[p] = {}
  BY <1>0, <1>1, <1>3, Zenon DEF Types, TypeOK, Good
<1> HIDE DEF R
<1>7. Entry(p, ces[ce[p]])'
  <2>1. R.after = TerminalHook(lvl[p]) /\ (R.cores # << >> => R.errorOutput)
    BY <1>0, <1>1, <1>5, Zenon DEF Entry
  <2>2. TerminalHook(lvl[p])' = TerminalHook(lvl[p])
    BY <1>3, Zenon DEF TerminalHook
  <2>3. DOMAIN written'[p] = {} /\ errs'[p] = {}
    BY <1>3, <1>6
  <2>4. pc'[p] \notin {"check", "write"} /\ pc'[p] # "hook" /\ pc'[p] # "sync" /\ pc'[p] # "check"
    BY Zenon, <1>6
  <2>5. ces'[ce'[p]] = R /\ lvl'[p] = lvl[p]
    BY <1>3, <1>4, Zenon
  <2> QED
    BY <2>1, <2>2, <2>3, <2>4, <2>5, Zenon DEF Entry
<1>8. /\ next' \in [Procs -> Nat \ {0}] /\ errs' \in [Procs -> SUBSET Nodes]
      /\ written' \in [Procs -> Seq(Nodes)] /\ synced' \in [Procs -> SUBSET Nodes]
      /\ reported' \in [Procs -> BOOLEAN]
  BY <1>1, <1>3, Zenon DEF Types, TypeOK
<1> QED
  BY <1>0, <1>1, <1>3, <1>4, <1>7, <1>8, WritingStep, Zenon

\* The clauses of Entry that a step of the loop can disturb, for an unchanged entry.
LEMMA EntryKept ==
  ASSUME NEW p \in Procs, Entry(p, ces[ce[p]]), pc[p] \in {"cores", "sync"},
         UNCHANGED <<opt, ces, ce, lvl>>, pc'[p] \in {"cores", "sync", "hook"},
         MustSync(lvl[p]) => \A k \in DOMAIN written'[p] : Kind[written'[p][k]] = "io" =>
           \/ written'[p][k] \in synced'[p] \cup errs'[p]
           \/ pc'[p] = "sync" /\ written'[p][k] = ces[ce[p]].cores[next'[p]],
         pc'[p] \in {"cores", "sync"} /\ errs'[p] # {} => ces[ce[p]].cores # << >>,
         pc'[p] = "hook" /\ errs'[p] # {} => reported'[p],
         pc'[p] = "sync" => next'[p] \in DOMAIN ces[ce[p]].cores
  PROVE  Entry(p, ces[ce[p]])'
<1>1. ces[ce[p]].after = TerminalHook(lvl[p])
      /\ (ces[ce[p]].cores # << >> => ces[ce[p]].errorOutput)
  BY Zenon DEF Entry
<1>2. TerminalHook(lvl[p])' = TerminalHook(lvl[p]) /\ MustSync(lvl[p])' = MustSync(lvl[p])
  BY Zenon DEF TerminalHook, MustSync
<1>3. pc'[p] # "check" /\ pc'[p] \notin {"check", "write"}
  BY Zenon
<1>4. ces'[ce'[p]] = ces[ce[p]] /\ lvl'[p] = lvl[p]
  BY Zenon
<1> QED
  BY <1>1, <1>2, <1>3, <1>4, Zenon DEF Entry

LEMMA WriteCoreStep ==
  ASSUME Inv, NEW p \in Procs, WriteCore(p) PROVE Inv'
<1>0. pc[p] = "cores"
  BY Zenon DEF WriteCore
<1> DEFINE r == ces[ce[p]]
           n == r.cores[next[p]]
<1>1. Types /\ ce[p] \in CEs /\ ces \in [CEs -> CEType] /\ r \in CEType /\ Entry(p, r)
  BY Zenon, <1>0, Writing
<1>2. /\ next[p] <= Len(r.cores)
      /\ UNCHANGED <<opt, lev, pool, ces, lvl, todo, ce, exited, synced, reported, outcome>>
  BY Zenon DEF WriteCore
<1>3. PICK fail \in {FALSE, MayFail} :
        /\ errs' = [errs EXCEPT ![p] = IF fail THEN @ \cup {n} ELSE @]
        /\ written' = [written EXCEPT ![p] = Append(@, n)]
        /\ IF Kind[n] = "io" /\ ~fail /\ MustSync(lvl[p])
           THEN pc' = [pc EXCEPT ![p] = "sync"] /\ UNCHANGED next
           ELSE next' = [next EXCEPT ![p] = @ + 1] /\ UNCHANGED pc
  BY Zenon DEF WriteCore
<1>4. r.cores \in Seq(Nodes) /\ next[p] \in Nat \ {0}
  BY <1>1, Zenon DEF CEType, Types, TypeOK
<1>5. next[p] \in DOMAIN r.cores /\ n \in Nodes /\ r.cores # << >>
  BY <1>2, <1>4
<1>6. /\ next \in [Procs -> Nat \ {0}] /\ errs \in [Procs -> SUBSET Nodes]
      /\ written \in [Procs -> Seq(Nodes)] /\ synced \in [Procs -> SUBSET Nodes]
      /\ reported \in [Procs -> BOOLEAN]
  BY <1>1, Zenon DEF Types, TypeOK
<1> HIDE DEF n
<1>7. /\ next' \in [Procs -> Nat \ {0}] /\ \A q \in Procs : q # p => next'[q] = next[q]
  <2>1. CASE next' = next
    BY Zenon, <1>6, <2>1
  <2>2. CASE next' = [next EXCEPT ![p] = @ + 1]
    BY <1>6, <2>2
  <2> QED
    BY <1>3, <2>1, <2>2, ZenonT(60)
<1>8. /\ errs' \in [Procs -> SUBSET Nodes] /\ \A q \in Procs : q # p => errs'[q] = errs[q]
      /\ errs[p] \subseteq errs'[p] /\ (fail => n \in errs'[p])
  <2>1. CASE fail
    BY Zenon, <1>3, <1>5, <1>6, <2>1
  <2>2. CASE ~fail
    BY ZenonT(60), <1>3, <1>6, <2>2
  <2> QED
    BY Zenon, <2>1, <2>2
<1>9. /\ written' \in [Procs -> Seq(Nodes)] /\ \A q \in Procs : q # p => written'[q] = written[q]
      /\ written'[p] = Append(written[p], n) /\ written[p] \in Seq(Nodes)
  BY <1>3, <1>5, <1>6
<1>10. PICK l \in {"cores", "sync"} :
         /\ pc' = [pc EXCEPT ![p] = l]
         /\ l = "sync" => next' = next
         /\ Kind[n] = "io" /\ MustSync(lvl[p]) => fail \/ l = "sync"
  <2>1. CASE Kind[n] = "io" /\ ~fail /\ MustSync(lvl[p])
    BY <1>3, <2>1, Zenon
  <2>2. CASE ~(Kind[n] = "io" /\ ~fail /\ MustSync(lvl[p]))
    <3>1. pc' = pc
      BY <1>3, <2>2, Zenon
    <3>2. pc' = [pc EXCEPT ![p] = "cores"]
      BY <1>0, <1>1, <3>1, Zenon DEF Types, TypeOK
    <3> QED
      BY <2>2, <3>2, Zenon
  <2> QED
    BY Zenon, <2>1, <2>2
<1>11. pc'[p] = l
  BY <1>1, <1>10, Zenon DEF Types, TypeOK
<1>12. ASSUME MustSync(lvl[p]), NEW k \in DOMAIN written'[p], Kind[written'[p][k]] = "io"
       PROVE  \/ written'[p][k] \in synced'[p] \cup errs'[p]
              \/ pc'[p] = "sync" /\ written'[p][k] = r.cores[next'[p]]
  <2>1. CASE k \in DOMAIN written[p]
    <3>1. written'[p][k] = written[p][k]
      BY <1>5, <1>9, <2>1
    <3>2. written[p][k] \in synced[p] \cup errs[p]
      BY <1>0, <1>1, <1>12, <2>1, <3>1, Zenon DEF Entry
    <3> QED
      BY ZenonT(60), <1>2, <1>8, <3>1, <3>2
  <2>2. CASE k \notin DOMAIN written[p]
    <3>1. written'[p][k] = n
      BY <1>5, <1>9, <2>2
    <3>2. CASE fail
      BY Zenon, <1>8, <3>1, <3>2
    <3>3. CASE l = "sync"
      BY <1>10, <1>11, <3>1, <3>3, Zenon DEF n
    <3> QED
      BY ZenonT(60), <1>10, <1>12, <3>1, <3>2, <3>3
  <2> QED
    BY Zenon, <2>1, <2>2
<1>13. Entry(p, ces[ce[p]])'
  <2>1. pc'[p] \in {"cores", "sync", "hook"} /\ pc'[p] # "hook"
    BY Zenon, <1>11
  <2>2. pc'[p] = "sync" => next'[p] \in DOMAIN r.cores
    BY Zenon, <1>5, <1>10, <1>11
  <2> QED
    BY <1>0, <1>1, <1>2, <1>5, <1>12, <2>1, <2>2, EntryKept, ZenonT(60)
<1> QED
  BY <1>0, <1>1, <1>2, <1>6, <1>7, <1>8, <1>9, <1>10, <1>13, WritingStep, ZenonT(60)

LEMMA SyncCoreStep ==
  ASSUME Inv, NEW p \in Procs, SyncCore(p) PROVE Inv'
<1> DEFINE r == ces[ce[p]]
<1>0. /\ pc[p] = "sync" /\ pc' = [pc EXCEPT ![p] = "cores"]
      /\ synced' = [synced EXCEPT ![p] = @ \cup {r.cores[next[p]]}]
      /\ next' = [next EXCEPT ![p] = @ + 1]
      /\ UNCHANGED <<opt, lev, pool, ces, lvl, todo, ce, errs, exited, written, reported, outcome>>
  BY Zenon DEF SyncCore
<1>1. Types /\ ce[p] \in CEs /\ ces \in [CEs -> CEType] /\ r \in CEType /\ Entry(p, r)
  BY Zenon, <1>0, Writing
<1>2. next[p] \in DOMAIN r.cores /\ (errs[p] # {} => r.cores # << >>)
  BY <1>0, <1>1, Zenon DEF Entry
<1>3. r.cores[next[p]] \in Nodes
  BY <1>1, <1>2 DEF CEType
<1>4. /\ next \in [Procs -> Nat \ {0}] /\ errs \in [Procs -> SUBSET Nodes]
      /\ written \in [Procs -> Seq(Nodes)] /\ synced \in [Procs -> SUBSET Nodes]
      /\ reported \in [Procs -> BOOLEAN]
  BY <1>1, ZenonT(60) DEF Types, TypeOK
<1>5. /\ synced' \in [Procs -> SUBSET Nodes] /\ \A q \in Procs : q # p => synced'[q] = synced[q]
      /\ synced'[p] = synced[p] \cup {r.cores[next[p]]}
  BY Zenon, <1>0, <1>3, <1>4
<1>6. next' \in [Procs -> Nat \ {0}] /\ \A q \in Procs : q # p => next'[q] = next[q]
  BY <1>0, <1>4
<1>7. pc'[p] = "cores"
  BY <1>0, <1>1, Zenon DEF Types, TypeOK
<1>8. ASSUME MustSync(lvl[p]), NEW k \in DOMAIN written[p], Kind[written[p][k]] = "io"
      PROVE  written[p][k] \in synced'[p] \cup errs[p]
  BY <1>0, <1>1, <1>5, <1>8, Zenon DEF Entry
<1>9. Entry(p, ces[ce[p]])'
  <2>1. pc'[p] \in {"cores", "sync", "hook"} /\ pc'[p] # "hook" /\ pc'[p] # "sync"
    BY Zenon, <1>7
  <2> QED
    BY <1>0, <1>1, <1>2, <1>8, <2>1, EntryKept, Zenon
<1> QED
  BY <1>0, <1>1, <1>4, <1>5, <1>6, <1>9, WritingStep, Zenon

LEMMA ReportStep ==
  ASSUME Inv, NEW p \in Procs, Report(p) PROVE Inv'
<1> DEFINE r == ces[ce[p]]
<1>0. /\ pc[p] = "cores" /\ pc' = [pc EXCEPT ![p] = "hook"]
      /\ reported' = [reported EXCEPT ![p] = errs[p] # {} /\ r.errorOutput]
      /\ UNCHANGED <<opt, lev, pool, ces, lvl, todo, ce, next, errs, exited, written, synced, outcome>>
  BY Zenon DEF Report
<1>1. Types /\ ce[p] \in CEs /\ ces \in [CEs -> CEType] /\ r \in CEType /\ Entry(p, r)
  BY Zenon, <1>0, Writing
<1>2. /\ next \in [Procs -> Nat \ {0}] /\ errs \in [Procs -> SUBSET Nodes]
      /\ written \in [Procs -> Seq(Nodes)] /\ synced \in [Procs -> SUBSET Nodes]
      /\ reported \in [Procs -> BOOLEAN]
  BY <1>1, Zenon DEF Types, TypeOK
<1>3. errs[p] # {} => r.errorOutput
  BY <1>0, <1>1, Zenon DEF Entry
<1>4. (errs[p] # {} /\ r.errorOutput) \in BOOLEAN
  BY <1>3, Zenon
<1>5. /\ reported' \in [Procs -> BOOLEAN] /\ \A q \in Procs : q # p => reported'[q] = reported[q]
      /\ errs[p] # {} => reported'[p]
  BY <1>0, <1>2, <1>3, <1>4, Zenon
<1>6. pc'[p] = "hook"
  BY <1>0, <1>1, Zenon DEF Types, TypeOK
<1>7. ASSUME MustSync(lvl[p]), NEW k \in DOMAIN written[p], Kind[written[p][k]] = "io"
      PROVE  written[p][k] \in synced[p] \cup errs[p]
  BY <1>0, <1>1, <1>7, Zenon DEF Entry
<1>8. Entry(p, ces[ce[p]])'
  <2>1. pc'[p] \in {"cores", "sync", "hook"} /\ pc'[p] \notin {"cores", "sync"} /\ pc'[p] # "sync"
    BY Zenon, <1>6
  <2> QED
    BY <1>0, <1>1, <1>5, <1>7, <2>1, EntryKept, Zenon
<1> QED
  BY <1>0, <1>1, <1>2, <1>5, <1>8, WritingStep, Zenon

LEMMA RunHookStep ==
  ASSUME Inv, NEW p \in Procs, RunHook(p) PROVE Inv'
<1> DEFINE hook == ces[ce[p]].after
<1>0. /\ pc[p] = "hook"
      /\ UNCHANGED <<opt, lev, ces, lvl, todo, next, errs, written, synced, reported>>
  BY Zenon DEF RunHook
<1>1. Types /\ ce[p] \in CEs /\ Entry(p, ces[ce[p]])
  BY Zenon, <1>0, Writing
<1>2. hook = TerminalHook(lvl[p]) /\ opt \in Options /\ lvl[p] \in EntryLevels \cup {0}
      /\ pool \subseteq CEs /\ exited \in BOOLEAN
  BY <1>0, <1>1, Zenon DEF Entry, Types, TypeOK
<1>3. hook \in Hook /\ (hook = "nil" <=> ~IsTerminal(lvl[p]))
  BY <1>2, HookFacts, Zenon
<1>4. IsTerminal(lvl[p]) =>
        /\ \A k \in DOMAIN written[p] :
             Kind[written[p][k]] = "io" => written[p][k] \in synced[p] \cup errs[p]
        /\ errs[p] # {} => reported[p]
  <2>1. IsTerminal(lvl[p]) => MustSync(lvl[p])
    BY <1>2, LevelFacts, Zenon
  <2>2. pc[p] # "sync" /\ pc[p] \in {"cores", "sync", "hook"}
    BY Zenon, <1>0
  <2>3. ASSUME IsTerminal(lvl[p]), NEW k \in DOMAIN written[p], Kind[written[p][k]] = "io"
        PROVE  written[p][k] \in synced[p] \cup errs[p]
    BY <1>1, <2>1, <2>2, <2>3, Zenon DEF Entry
  <2>4. errs[p] # {} => reported[p]
    BY <1>0, <1>1, Zenon DEF Entry
  <2> QED
    BY <2>3, <2>4, Zenon
<1> DEFINE Ends(r) == /\ End(p, r) /\ pool' \subseteq CEs /\ pool' \subseteq pool \cup {ce[p]}
                      /\ exited' \in BOOLEAN /\ (r = "returned" <=> hook = "nil")
<1>5. \/ Ends("returned") \/ Ends("custom") \/ Ends("panicked") \/ Ends("goexit") \/ Ends("exited")
  <2>1. CASE hook = "nil"
    <3>1. End(p, "returned") /\ pool' = pool \cup {ce[p]} /\ exited' = exited
      BY <2>1, Zenon DEF RunHook
    <3> QED
      BY Zenon, <1>1, <1>2, <2>1, <3>1
  <2>2. CASE hook = "custom"
    <3>1. End(p, "custom") /\ pool' = pool \cup {ce[p]} /\ exited' = exited
      BY <2>2, Zenon DEF RunHook
    <3> QED
      BY Zenon, <1>1, <1>2, <2>2, <3>1
  <2>3. CASE hook = "panic"
    <3>1. End(p, "panicked") /\ pool' = pool /\ exited' = exited
      BY <2>3, Zenon DEF RunHook
    <3> QED
      BY Zenon, <1>1, <1>2, <2>3, <3>1
  <2>4. CASE hook = "goexit"
    <3>1. End(p, "goexit") /\ pool' = pool /\ exited' = exited
      BY <2>4, ZenonT(30) DEF RunHook
    <3> QED
      BY Zenon, <1>1, <1>2, <2>4, <3>1
  <2>5. CASE hook = "fatal"
    <3>1. End(p, "exited") /\ pool' = pool /\ exited' = TRUE
      BY <2>5, ZenonT(30) DEF RunHook
    <3> QED
      BY Zenon, <1>1, <1>2, <2>5, <3>1
  <2> QED
    BY <1>3, <2>1, <2>2, <2>3, <2>4, <2>5, ZenonT(60) DEF Hook
<1>6. ASSUME NEW r \in {"returned", "custom", "panicked", "goexit", "exited"}, Ends(r) PROVE Inv'
  BY <1>0, <1>3, <1>4, <1>6, EndStep, Zenon
<1> HIDE DEF Ends
<1> QED
  BY Zenon, <1>5, <1>6

\* Another goroutine changes a level, or nothing happens: no call is touched.
LEMMA LevStep ==
  ASSUME Inv, lev' \in [Atoms -> LevelValues],
         UNCHANGED <<opt, pool, ces, pc, lvl, todo, ce, next, errs, exited, written, synced,
                     reported, outcome>>
  PROVE  Inv'
<1>1. Types' /\ PoolSafe'
  <2>1. Types /\ PoolSafe
    BY Zenon DEF Inv
  <2>2. TypeOK'
    BY <2>1, Zenon DEF Types, TypeOK
  <2>3. Types'
    BY <2>1, <2>2, Zenon DEF Types
  <2>4. PoolSafe'
    BY <2>1, Zenon DEF PoolSafe, Held
  <2> QED
    BY <2>3, <2>4, Zenon
<1>2. ASSUME NEW q \in Procs PROVE Good(q)'
  <2>1. Good(q)
    BY Zenon DEF Inv
  <2>2. \A r : Entry(q, r)' = Entry(q, r)
    BY ZenonT(60) DEF Entry, MustSync, TerminalHook
  <2> QED
    BY <2>1, <2>2, ZenonT(60) DEF Good, Ended, Entry, IsTerminal, SkipsFastPath, MustSync, TerminalHook
<1> QED
  BY <1>1, <1>2, Zenon DEF Inv

LEMMA InitInv == Init => Inv
<1> SUFFICES ASSUME Init PROVE Inv
  BY Zenon
<1>1. TypeOK
  <2>1. ces \in [CEs -> CEType]
    <3>1. [cores |-> << >>, after |-> "nil", errorOutput |-> FALSE, dirty |-> FALSE] \in CEType
      BY DEF CEType, Hook
    <3> QED
      BY <3>1, Zenon DEF Init
  <2>2. todo \in [Procs -> Seq({"visit", "hook"} \X Nodes)]
    BY DEF Init
  <2>3. next \in [Procs -> Nat \ {0}] /\ lvl \in [Procs -> EntryLevels \cup {0}]
        /\ ce \in [Procs -> CEs \cup {NoCE}] /\ pool \subseteq CEs
    BY DEF Init
  <2>4. /\ pc \in [Procs -> {"idle", "enabled", "check", "write", "cores", "sync", "hook", "dead"}]
        /\ \A p \in Procs : pc[p] \notin {"write", "cores", "sync", "hook"}
    BY DEF Init
  <2>5. exited \in BOOLEAN /\ opt \in Options /\ lev \in [Atoms -> LevelValues]
    BY Zenon DEF Init
  <2> QED
    BY <2>1, <2>2, <2>3, <2>4, <2>5, Zenon DEF TypeOK, CEType
<1>2. Types
  <2>1. errs \in [Procs -> SUBSET Nodes] /\ written \in [Procs -> Seq(Nodes)]
        /\ synced \in [Procs -> SUBSET Nodes]
        /\ outcome \in [Procs -> {"none", "returned", "custom", "panicked", "goexit", "exited", "unsafe"}]
    BY DEF Init
  <2>2. reported \in [Procs -> BOOLEAN]
    BY Zenon DEF Init
  <2> QED
    BY <1>1, <2>1, <2>2, Zenon DEF Types
<1>3. PoolSafe
  BY Zenon DEF Init, PoolSafe, Held
<1>4. ASSUME NEW p \in Procs PROVE Good(p)
  <2>1. pc[p] = "idle" /\ ce[p] = NoCE /\ outcome[p] = "none"
    BY DEF Init
  <2> QED
    BY <2>1, ZenonT(30) DEF Good, Ended
<1> QED
  BY <1>2, <1>3, <1>4, Zenon DEF Inv

LEMMA InvStep == Inv /\ [Next]_vars => Inv'
<1> SUFFICES ASSUME Inv, [Next]_vars PROVE Inv'
  BY Zenon
<1>1. ASSUME NEW p \in Procs, NEW l \in EntryLevels, Log(p, l) PROVE Inv'
  BY Zenon, <1>1, LogStep
<1>2. ASSUME NEW p \in Procs, Step(p) PROVE Inv'
  BY <1>2, CoreEnabledStep, CoreCheckStep, SetUpStep, BeginWriteStep, WriteCoreStep, SyncCoreStep,
     ReportStep, RunHookStep, Zenon DEF Step
<1>3. ASSUME NEW a \in Atoms, NEW l \in LevelValues, SetLevel(a, l) PROVE Inv'
  <2>1. lev' \in [Atoms -> LevelValues]
    <3>1. lev \in [Atoms -> LevelValues] /\ lev' = [lev EXCEPT ![a] = l]
      BY <1>3, Zenon DEF Inv, Types, TypeOK, SetLevel
    <3> QED
      BY Zenon, <3>1
  <2> QED
    BY <1>3, <2>1, LevStep, Zenon DEF SetLevel, call
<1>4. ASSUME UNCHANGED vars PROVE Inv'
  <2>1. lev' \in [Atoms -> LevelValues]
    BY <1>4, Zenon DEF Inv, Types, TypeOK, vars
  <2> QED
    BY <1>4, <2>1, LevStep, Zenon DEF vars, call, history
<1> QED
  BY <1>1, <1>2, <1>3, <1>4, Zenon DEF Next

LEMMA InvHolds == Spec => []Inv
BY InitInv, InvStep, PTL DEF Spec
-----------------------------------------------------------------------------
\* For every tree of cores, every number of goroutines and of CheckedEntries, and
\* every setting of the Logger: the pool never gives a CheckedEntry to two calls
\* (getCheckedEntry, putCheckedEntry).
THEOREM PoolSafeHolds == Spec => []PoolSafe
<1>1. Inv => PoolSafe
  BY Zenon DEF Inv
<1> QED
  BY <1>1, InvHolds, PTL

\* Likewise: a call ends the goroutine or the program if its level is terminal, and
\* only then (Logger.check, terminalHookOverride, CheckedEntry.Write).
THEOREM TerminatesIffTerminalHolds == Spec => []TerminatesIffTerminal
<1>1. Inv => TerminatesIffTerminal
  BY Zenon DEF Inv, Good, Ended, TerminatesIffTerminal
<1> QED
  BY <1>1, InvHolds, PTL

\* Likewise: what a terminating call wrote is synced first, and the errors it met
\* are reported (ioCore.Write, CheckedEntry.Write).
THEOREM DurableBeforeTerminationHolds == Spec => []DurableBeforeTermination
<1>1. Inv => DurableBeforeTermination
  BY Zenon DEF Inv, Good, Ended, DurableBeforeTermination
<1> QED
  BY <1>1, InvHolds, PTL
-----------------------------------------------------------------------------
(* The inductive invariant, for one call.                                  *)

Leaves == {n \in Nodes : Kind[n] = "io" /\ opt.core \in Above[n]}
\* The steps of the walk that will come to n.
Ways(n) == {"visit"} \X Above[n]

\* Some level on the way to n disabled the entry at some time, or a sampler dropped it.
Refused(n, al, out) == ~(Gates(n) \subseteq al) \/ Path(n) \cap out # {}
\* n is among the cores cs once, and was enabled; or it is not, and was refused.
Taken(n, cs, ev, al, out) ==
  \/ Sole(cs, {n}, n) /\ Gates(n) \subseteq ev
  \/ None(cs, {n}) /\ Refused(n, al, out)
\* The levels on the way to n that were asked enabled the entry; those left are a's
\* and below.
Passed(n, a, ev) ==
  \A m \in Path(n) : Kind[m] \in {"io", "filter"} => Gate[m] \in ev \/ a \in Above[m]
\* The walk is still to come to n, by one way; or it is decided.
Asked(n, td, cs, ev, al, out) ==
  \/ None(cs, {n}) /\ \E a \in Path(n) : Sole(td, Ways(n), <<"visit", a>>) /\ Passed(n, a, ev)
  \/ None(td, Ways(n)) /\ Taken(n, cs, ev, al, out)
Sought(n, td) == \E a \in Path(n) : Has(td, <<"visit", a>>)

Cores(p) == IF ce[p] = NoCE THEN << >> ELSE ces[ce[p]].cores
\* The first k cores have been written.
Copied(p, k) ==
  /\ Len(written[p]) = k /\ k <= Len(Cores(p))
  /\ \A i \in 1..k : written[p][i] = Cores(p)[i]

Deliver(p) ==
  /\ pc[p] \in {"enabled", "check"} =>
       \A a \in Atoms : (Enabled(a, lvl[p]) => a \in ever[p]) /\ (a \in always[p] => Enabled(a, lvl[p]))
  /\ pc[p] \in {"enabled", "check", "write"} => next[p] = 1
  /\ pc[p] = "enabled" =>
       \A n \in Leaves : Sought(n, todo[p]) \/ Refused(n, always[p], sampledOut[p])
  /\ pc[p] = "check" =>
       /\ \A i \in DOMAIN todo[p] : todo[p][i][1] = "hook" => Kind[todo[p][i][2]] = "hooked"
       /\ \A n \in Leaves : Asked(n, todo[p], Cores(p), ever[p], always[p], sampledOut[p])
  /\ pc[p] \in {"write", "cores", "sync", "hook"} =>
       \A n \in Leaves : Taken(n, Cores(p), ever[p], always[p], sampledOut[p])
  /\ pc[p] = "cores" => Copied(p, next[p] - 1)
  /\ pc[p] = "sync" => Copied(p, next[p])
  /\ pc[p] = "hook" => written[p] = Cores(p)
  /\ outcome[p] # "none" =>
       \A n \in Leaves : Taken(n, written[p], ever[p], always[p], sampledOut[p])

DeliverTypes ==
  /\ ever \in [Procs -> SUBSET Atoms] /\ always \in [Procs -> SUBSET Atoms]
  /\ sampledOut \in [Procs -> SUBSET Nodes]

DeliverInv == DeliverTypes /\ \A p \in Procs : Deliver(p)
-----------------------------------------------------------------------------
(* What a step of the walk does to one io core n.                          *)
Steps == {"visit", "hook"} \X Nodes

LEMMA WaysAre ==
  /\ \A n, a : <<"visit", a>> \in Ways(n) <=> a \in Above[n]
  /\ \A n, a : <<"hook", a>> \notin Ways(n)
BY Zenon DEF Ways

LEMMA StepsAre ==
  /\ \A a \in Nodes : <<"visit", a>> \in Steps /\ <<"hook", a>> \in Steps
  /\ \A s \in Steps : s = <<s[1], s[2]>>
BY DEF Steps

LEMMA VisitsAre == \A ks : \A i \in DOMAIN ks : Visits(ks)[i] = <<"visit", ks[i]>>
BY Zenon DEF Visits

\* The first step of a walk is a visit.
LEMMA VisitFirst ==
  \A s, x : s = << <<"visit", x>> >> => \A i \in DOMAIN s : s[i][1] = "hook" => Kind[s[i][2]] = "hooked"
OBVIOUS

\* A hook step is put behind visits by the core that has the hooks.
LEMMA HookLast ==
  ASSUME NEW u \in Seq(Steps), NEW x \in Nodes, Kind[x] = "hooked", \A i \in DOMAIN u : u[i][1] = "visit"
  PROVE  LET w == u \o << <<"hook", x>> >>
         IN w \in Seq(Steps) /\ \A i \in DOMAIN w : w[i][1] = "hook" => Kind[w[i][2]] = "hooked"
<1> DEFINE v == << <<"hook", x>> >>
           w == u \o v
<1>1. v \in Seq(Steps) /\ \A i \in DOMAIN v : v[i] = <<"hook", x>>
  BY StepsAre, OneSeq, OneIs, ZenonT(60)
<1> HIDE DEF v
<1>2. /\ w \in Seq(Steps)
      /\ \A i \in DOMAIN u : w[i] = u[i]
      /\ \A i \in DOMAIN w : i \in DOMAIN u \/ i - Len(u) \in DOMAIN v
      /\ \A i \in DOMAIN w : i \notin DOMAIN u => w[i] = v[i - Len(u)]
  BY <1>1, Concat
<1> HIDE DEF w
<1>3. ASSUME NEW i \in DOMAIN w, w[i][1] = "hook" PROVE Kind[w[i][2]] = "hooked"
  <2>1. i \notin DOMAIN u
    BY <1>2, <1>3, Zenon
  <2>2. w[i] = <<"hook", x>>
    BY <1>1, <1>2, <2>1, Zenon
  <2> QED BY <2>2
<1> QED BY <1>2, <1>3, Zenon DEF w, v

LEMMA TakenMore ==
  ASSUME NEW n, NEW cs, NEW ev, NEW al, NEW out, Taken(n, cs, ev, al, out),
         NEW ev2, ev \subseteq ev2, NEW al2, al2 \subseteq al, NEW out2, out \subseteq out2
  PROVE  Taken(n, cs, ev2, al2, out2)
BY Zenon DEF Taken, Refused

LEMMA AskedMore ==
  ASSUME NEW n, NEW td, NEW cs, NEW ev, NEW al, NEW out, Asked(n, td, cs, ev, al, out),
         NEW ev2, ev \subseteq ev2, NEW al2, al2 \subseteq al, NEW out2, out \subseteq out2
  PROVE  Asked(n, td, cs, ev2, al2, out2)
<1>1. \A a : Passed(n, a, ev) => Passed(n, a, ev2)
  BY Zenon DEF Passed
<1>2. Taken(n, cs, ev, al, out) => Taken(n, cs, ev2, al2, out2)
  BY TakenMore, Zenon
<1> QED BY <1>1, <1>2, Zenon DEF Asked

\* Cores other than n are added.
LEMMA TakenBeside ==
  ASSUME NEW n \in Nodes, NEW cs \in Seq(Nodes), NEW more \in Seq(Nodes), None(more, {n}),
         NEW ev, NEW al, NEW out, Taken(n, cs, ev, al, out)
  PROVE  Taken(n, cs \o more, ev, al, out)
<1>1. Sole(cs, {n}, n) => Sole(cs \o more, {n}, n)
  BY SoleLeft, Zenon
<1>2. None(cs, {n}) => None(cs \o more, {n})
  BY NoneConcat, Zenon
<1> QED BY <1>1, <1>2, Zenon DEF Taken

\* A step that is not on the way to n, and leads to none.
LEMMA AskBeside ==
  ASSUME NEW n \in Nodes, NEW td \in Seq(Steps), td # << >>, NEW cs \in Seq(Nodes),
         NEW ev, NEW al, NEW out, Asked(n, td, cs, ev, al, out), Head(td) \notin Ways(n),
         NEW steps \in Seq(Steps), None(steps, Ways(n)),
         NEW more \in Seq(Nodes), None(more, {n})
  PROVE  Asked(n, steps \o Tail(td), cs \o more, ev, al, out)
<1>0. Tail(td) \in Seq(Steps)
  BY HeadTail, Zenon
<1>1. CASE None(td, Ways(n)) /\ Taken(n, cs, ev, al, out)
  <2>1. None(Tail(td), Ways(n))
    BY <1>1, NoneTail, Zenon
  <2>2. None(steps \o Tail(td), Ways(n))
    BY <1>0, <2>1, NoneConcat, Zenon
  <2>3. Taken(n, cs \o more, ev, al, out)
    BY <1>1, TakenBeside, Zenon
  <2> QED BY <2>2, <2>3, Zenon DEF Asked
<1>2. ASSUME NEW a \in Path(n), None(cs, {n}), Sole(td, Ways(n), <<"visit", a>>), Passed(n, a, ev)
      PROVE  Asked(n, steps \o Tail(td), cs \o more, ev, al, out)
  <2>1. Sole(Tail(td), Ways(n), <<"visit", a>>)
    BY <1>2, SoleTail, Zenon
  <2>2. Sole(steps \o Tail(td), Ways(n), <<"visit", a>>)
    BY <1>0, <2>1, SoleRight, Zenon
  <2>3. None(cs \o more, {n})
    BY <1>2, NoneConcat, Zenon
  <2> QED BY <1>2, <2>2, <2>3, Zenon DEF Asked
<1> QED BY <1>1, <1>2, Zenon DEF Asked

\* The step that is on the way to n is the only one.
LEMMA OneWay ==
  ASSUME NEW n \in Nodes, NEW td \in Seq(Steps), td # << >>, NEW cs, NEW ev, NEW al, NEW out,
         Asked(n, td, cs, ev, al, out), NEW x, Head(td) = <<"visit", x>>, x \in Above[n]
  PROVE  /\ None(Tail(td), Ways(n)) /\ None(cs, {n})
         /\ x \in Path(n) /\ Passed(n, x, ev)
<1>1. Head(td) \in Ways(n)
  BY WaysAre, Zenon
<1>2. ~None(td, Ways(n))
  BY <1>1, NoneTail, Zenon
<1>3. PICK a \in Path(n) : None(cs, {n}) /\ Sole(td, Ways(n), <<"visit", a>>) /\ Passed(n, a, ev)
  BY <1>2, Zenon DEF Asked
<1>4. <<"visit", a>> = Head(td) /\ None(Tail(td), Ways(n))
  BY <1>1, <1>3, SoleHead, Zenon
<1>5. a = x
  BY <1>4, SecondSame, Zenon
<1> QED BY <1>3, <1>4, <1>5, Zenon

\* The entry is refused on the way to n.
LEMMA AskRefused ==
  ASSUME NEW n \in Nodes, NEW td \in Seq(Steps), td # << >>, NEW cs, NEW ev, NEW al, NEW out,
         Asked(n, td, cs, ev, al, out), NEW x, Head(td) = <<"visit", x>>, x \in Above[n],
         NEW out2, out \subseteq out2, Refused(n, al, out2)
  PROVE  Asked(n, << >> \o Tail(td), cs, ev, al, out2)
<1>1. None(Tail(td), Ways(n)) /\ None(cs, {n})
  BY OneWay, Zenon
<1>2. << >> \o Tail(td) = Tail(td)
  BY HeadTail
<1> QED BY <1>1, <1>2, Zenon DEF Asked, Taken

\* An io core has none below it.
LEMMA IoLast ==
  ASSUME NEW n \in Nodes, Kind[n] = "io", NEW m \in Nodes, n \in Above[m]
  PROVE  m = n
<1>1. DOMAIN Kids[n] = {}
  BY TreeAssumption
<1> QED BY <1>1, AboveKid, Zenon

\* n itself is asked, and takes the entry.
LEMMA AskTaken ==
  ASSUME NEW n \in Nodes, Kind[n] = "io", NEW td \in Seq(Steps), td # << >>, NEW cs \in Seq(Nodes),
         NEW ev, NEW al, NEW out, Asked(n, td, cs, ev, al, out), Head(td) = <<"visit", n>>,
         Gate[n] \in ev
  PROVE  Asked(n, << >> \o Tail(td), cs \o <<n>>, ev, al, out)
<1>1. n \in Above[n]
  BY AboveSelf, Zenon
<1>2. None(Tail(td), Ways(n)) /\ None(cs, {n}) /\ Passed(n, n, ev)
  BY <1>1, OneWay, Zenon
<1>3. << >> \o Tail(td) = Tail(td)
  BY HeadTail
<1>4. Gates(n) \subseteq ev
  <2> SUFFICES ASSUME NEW m \in Path(n), Kind[m] \in {"io", "filter"} PROVE Gate[m] \in ev
    BY Zenon DEF Gates
  <2>1. Gate[m] \in ev \/ n \in Above[m]
    BY <1>2, Zenon DEF Passed
  <2>2. m \in Nodes
    BY AboveSelf, ZenonT(30) DEF Path
  <2> QED BY <2>1, <2>2, IoLast, Zenon
<1>5. <<n>> \in Seq(Nodes) /\ Sole(<<n>>, {n}, n)
  BY DEF Sole
<1>6. Sole(cs \o <<n>>, {n}, n)
  BY <1>2, <1>5, SoleRight, Zenon
<1> QED BY <1>2, <1>3, <1>4, <1>6, Zenon DEF Asked, Taken

LEMMA VisitsSteps == \A x \in Nodes : Visits(Kids[x]) \in Seq(Steps) /\ DOMAIN Visits(Kids[x]) = DOMAIN Kids[x]
<1> SUFFICES ASSUME NEW x \in Nodes
             PROVE  Visits(Kids[x]) \in Seq(Steps) /\ DOMAIN Visits(Kids[x]) = DOMAIN Kids[x]
  BY Zenon
<1>1. Kids[x] \in Seq(Nodes)
  BY ZenonT(30), TreeAssumption
<1> QED BY <1>1, VisitsType, Zenon DEF Visits, Steps

LEMMA VisitsBeside ==
  ASSUME NEW n \in Nodes, NEW x \in Nodes, x \notin Above[n]
  PROVE  None(Visits(Kids[x]), Ways(n))
<1> SUFFICES ASSUME NEW i \in DOMAIN Kids[x], Visits(Kids[x])[i] \in Ways(n) PROVE FALSE
  BY VisitsSteps, Zenon DEF None
<1>1. Visits(Kids[x])[i] = <<"visit", Kids[x][i]>>
  BY VisitsAre, Zenon
<1>2. Kids[x][i] \in Above[n]
  BY <1>1, WaysAre, Zenon
<1> QED BY <1>2, AboveParent, Zenon

\* The core x around n passes the entry on: of the cores it wraps one is on the way
\* to n.
LEMMA WayDown ==
  ASSUME NEW n \in Nodes, NEW x \in Path(n), x # n
  PROVE  \E c \in Path(n) :
           /\ Sole(Visits(Kids[x]), Ways(n), <<"visit", c>>)
           /\ \A m \in Path(n) : m # x /\ x \in Above[m] => c \in Above[m]
<1>0. x \in Nodes /\ x \in Above[n] /\ opt.core \in Above[x]
  BY AboveSelf, Zenon DEF Path
<1>1. PICK i \in DOMAIN Kids[x] : Kids[x][i] \in Above[n]
  BY <1>0, AboveKid, Zenon
<1> DEFINE c == Kids[x][i]
<1>2. c \in Nodes
  BY ZenonT(30), <1>1, AboveSelf
<1>3. c \in Path(n)
  <2>1. x \in Above[c]
    BY <1>0, <1>2, AboveSelf, AboveParent, Zenon
  <2> QED BY <1>0, <1>1, <1>2, <2>1, AboveTransitive, Zenon DEF Path
<1>4. \A j \in DOMAIN Kids[x] : Visits(Kids[x])[j] = <<"visit", Kids[x][j]>>
  BY VisitsAre, Zenon
<1>5. \A j \in DOMAIN Kids[x] : Kids[x][j] \in Above[n] => j = i
  BY <1>0, <1>1, OneKid, Zenon
<1>6. Sole(Visits(Kids[x]), Ways(n), <<"visit", c>>)
  <2>1. <<"visit", c>> \in Ways(n)
    BY <1>1, WaysAre, Zenon
  <2>2. \A j \in DOMAIN Kids[x] : Visits(Kids[x])[j] \in Ways(n) => j = i
    BY <1>4, <1>5, WaysAre, Zenon
  <2> QED BY <1>0, <1>1, <1>4, <2>1, <2>2, VisitsSteps, ZenonT(60) DEF Sole
<1>7. ASSUME NEW m \in Path(n), m # x, x \in Above[m] PROVE c \in Above[m]
  <2>1. m \in Nodes /\ m \in Above[n]
    BY AboveSelf, ZenonT(30) DEF Path
  <2>2. PICK j \in DOMAIN Kids[x] : Kids[x][j] \in Above[m]
    BY <1>7, <2>1, AboveKid, Zenon
  <2>3. Kids[x][j] \in Above[n]
    BY <2>1, <2>2, AboveTransitive, Zenon
  <2> QED BY <1>5, <2>2, <2>3, Zenon
<1> QED BY <1>3, <1>6, <1>7, Zenon

LEMMA AskPassed ==
  ASSUME NEW n \in Nodes, NEW td \in Seq(Steps), td # << >>, NEW cs, NEW ev, NEW al, NEW out,
         Asked(n, td, cs, ev, al, out), NEW x, Head(td) = <<"visit", x>>, x \in Above[n], x # n,
         Kind[x] \in {"io", "filter"} => Gate[x] \in ev,
         NEW rest \in Seq(Steps), None(rest, Ways(n))
  PROVE  Asked(n, (Visits(Kids[x]) \o rest) \o Tail(td), cs, ev, al, out)
<1>1. None(Tail(td), Ways(n)) /\ None(cs, {n}) /\ x \in Path(n) /\ Passed(n, x, ev)
  BY OneWay, Zenon
<1>2. PICK c \in Path(n) :
           /\ Sole(Visits(Kids[x]), Ways(n), <<"visit", c>>)
           /\ \A m \in Path(n) : m # x /\ x \in Above[m] => c \in Above[m]
  BY <1>1, WayDown, Zenon
<1>3. Passed(n, c, ev)
  BY <1>1, <1>2, Zenon DEF Passed
<1>4. x \in Nodes /\ Tail(td) \in Seq(Steps) /\ Visits(Kids[x]) \in Seq(Steps)
  BY AboveSelf, HeadTail, VisitsSteps, Zenon
<1>5. Sole(Visits(Kids[x]) \o rest, Ways(n), <<"visit", c>>)
  BY <1>2, <1>4, SoleLeft, ZenonT(60)
<1>6. Visits(Kids[x]) \o rest \in Seq(Steps)
  BY <1>4
<1>7. Sole((Visits(Kids[x]) \o rest) \o Tail(td), Ways(n), <<"visit", c>>)
  BY <1>1, <1>4, <1>5, <1>6, SoleLeft, ZenonT(60)
<1> QED BY <1>1, <1>2, <1>3, <1>7, ZenonT(60) DEF Asked
-----------------------------------------------------------------------------
(* Steps of the calls.                                                     *)

\* Deliver after a step, spelt out: the tree is what it was.
LEMMA DeliverNext ==
  ASSUME NEW p \in Procs, opt' = opt,
         pc'[p] \in {"enabled", "check"} =>
           \A a \in Atoms : (Enabled(a, lvl[p])' => a \in ever'[p]) /\ (a \in always'[p] => Enabled(a, lvl[p])'),
         pc'[p] \in {"enabled", "check", "write"} => next'[p] = 1,
         pc'[p] = "enabled" => \A n \in Leaves : Sought(n, todo'[p]) \/ Refused(n, always'[p], sampledOut'[p]),
         pc'[p] = "check" => \A i \in DOMAIN todo'[p] : todo'[p][i][1] = "hook" => Kind[todo'[p][i][2]] = "hooked",
         pc'[p] = "check" => \A n \in Leaves : Asked(n, todo'[p], Cores(p)', ever'[p], always'[p], sampledOut'[p]),
         pc'[p] \in {"write", "cores", "sync", "hook"} => \A n \in Leaves : Taken(n, Cores(p)', ever'[p], always'[p], sampledOut'[p]),
         pc'[p] = "cores" => Copied(p, next[p] - 1)',
         pc'[p] = "sync" => Copied(p, next[p])',
         pc'[p] = "hook" => written'[p] = Cores(p)',
         outcome'[p] # "none" => \A n \in Leaves : Taken(n, written'[p], ever'[p], always'[p], sampledOut'[p])
  PROVE  Deliver(p)'
<1>1. Leaves' = Leaves /\ \A n : Path(n)' = Path(n)
  BY Zenon DEF Leaves, Path
<1>2. \A n : Gates(n)' = Gates(n)
  BY <1>1, Zenon DEF Gates
<1>3. \A n : Refused(n, always[p], sampledOut[p])' <=> Refused(n, always'[p], sampledOut'[p])
  BY <1>1, <1>2, Zenon DEF Refused
<1>4. \A n : Taken(n, Cores(p), ever[p], always[p], sampledOut[p])' <=> Taken(n, Cores(p)', ever'[p], always'[p], sampledOut'[p])
  BY <1>2, <1>3, Zenon DEF Taken
<1>5. \A n : Taken(n, written[p], ever[p], always[p], sampledOut[p])' <=> Taken(n, written'[p], ever'[p], always'[p], sampledOut'[p])
  BY <1>2, <1>3, Zenon DEF Taken
<1>6. \A n, a : Passed(n, a, ever[p])' <=> Passed(n, a, ever'[p])
  BY <1>1, Zenon DEF Passed
<1>7. \A n : Asked(n, todo[p], Cores(p), ever[p], always[p], sampledOut[p])' <=> Asked(n, todo'[p], Cores(p)', ever'[p], always'[p], sampledOut'[p])
  BY <1>1, <1>4, <1>6, Zenon DEF Asked
<1>8. \A n : Sought(n, todo[p])' <=> Sought(n, todo'[p])
  BY <1>1, Zenon DEF Sought
<1> QED BY <1>1, <1>3, <1>4, <1>5, <1>7, <1>8, ZenonT(60) DEF Deliver

\* Nothing of the call changes but that more levels are seen to be enabled or not.
LEMMA DeliverKept ==
  ASSUME NEW q \in Procs, Deliver(q), opt' = opt,
         pc'[q] = pc[q], lvl'[q] = lvl[q], todo'[q] = todo[q], ce'[q] = ce[q], next'[q] = next[q],
         written'[q] = written[q], outcome'[q] = outcome[q], sampledOut'[q] = sampledOut[q],
         ce[q] # NoCE => ces'[ce[q]] = ces[ce[q]],
         ever[q] \subseteq ever'[q], always'[q] \subseteq always[q],
         pc[q] \in {"enabled", "check"} =>
           \A a \in Atoms : (Enabled(a, lvl[q])' => a \in ever'[q]) /\ (a \in always'[q] => Enabled(a, lvl[q])')
  PROVE  Deliver(q)'
<1>1. Cores(q)' = Cores(q)
  BY Zenon DEF Cores
<1>2. (Copied(q, next[q] - 1)' <=> Copied(q, next[q] - 1)) /\ (Copied(q, next[q])' <=> Copied(q, next[q]))
  BY <1>1, Zenon DEF Copied
<1>3. \A n : Refused(n, always[q], sampledOut[q]) => Refused(n, always'[q], sampledOut'[q])
  BY Zenon DEF Refused
<1>4. \A n : Taken(n, Cores(q), ever[q], always[q], sampledOut[q])
               => Taken(n, Cores(q)', ever'[q], always'[q], sampledOut'[q])
  BY <1>1, <1>3, Zenon DEF Taken
<1>5. \A n : Taken(n, written[q], ever[q], always[q], sampledOut[q])
               => Taken(n, written'[q], ever'[q], always'[q], sampledOut'[q])
  BY <1>3, Zenon DEF Taken
<1>6. \A n, a : Passed(n, a, ever[q]) => Passed(n, a, ever'[q])
  BY Zenon DEF Passed
<1>7. \A n : Asked(n, todo[q], Cores(q), ever[q], always[q], sampledOut[q])
               => Asked(n, todo'[q], Cores(q)', ever'[q], always'[q], sampledOut'[q])
  BY <1>1, <1>4, <1>6, ZenonT(60) DEF Asked
<1>8. /\ pc[q] \in {"enabled", "check", "write"} => next[q] = 1
      /\ pc[q] = "enabled" => \A n \in Leaves : Sought(n, todo'[q]) \/ Refused(n, always'[q], sampledOut'[q])
      /\ pc[q] = "check" => \A i \in DOMAIN todo[q] : todo[q][i][1] = "hook" => Kind[todo[q][i][2]] = "hooked"
      /\ pc[q] = "check" => \A n \in Leaves : Asked(n, todo'[q], Cores(q)', ever'[q], always'[q], sampledOut'[q])
      /\ pc[q] \in {"write", "cores", "sync", "hook"} =>
           \A n \in Leaves : Taken(n, Cores(q)', ever'[q], always'[q], sampledOut'[q])
      /\ pc[q] = "cores" => Copied(q, next[q] - 1)'
      /\ pc[q] = "sync" => Copied(q, next[q])'
      /\ pc[q] = "hook" => written[q] = Cores(q)
      /\ outcome[q] # "none" =>
           \A n \in Leaves : Taken(n, written'[q], ever'[q], always'[q], sampledOut'[q])
  BY <1>2, <1>3, <1>4, <1>5, <1>7, ZenonT(60) DEF Deliver
<1> QED BY <1>1, <1>8, DeliverNext, ZenonT(60)

\* A step of p's leaves the other calls as they are.
Beside(p) ==
  /\ opt' = opt /\ lev' = lev
  /\ \A q \in Procs : q # p =>
       /\ pc'[q] = pc[q] /\ lvl'[q] = lvl[q] /\ todo'[q] = todo[q] /\ ce'[q] = ce[q]
       /\ next'[q] = next[q] /\ written'[q] = written[q] /\ outcome'[q] = outcome[q]
       /\ ever'[q] = ever[q] /\ always'[q] = always[q] /\ sampledOut'[q] = sampledOut[q]
       /\ ce[q] # NoCE => ces'[ce[q]] = ces[ce[q]]

LEMMA DeliverFinish ==
  ASSUME DeliverInv, NEW p \in Procs, Beside(p), DeliverTypes', Deliver(p)'
  PROVE  DeliverInv'
<1>1. ASSUME NEW q \in Procs, q # p PROVE Deliver(q)'
  <2>1. Deliver(q)
    BY Zenon DEF DeliverInv, DeliverTypes
  <2>2. /\ opt' = opt /\ lev' = lev
        /\ pc'[q] = pc[q] /\ lvl'[q] = lvl[q] /\ todo'[q] = todo[q] /\ ce'[q] = ce[q]
        /\ next'[q] = next[q] /\ written'[q] = written[q] /\ outcome'[q] = outcome[q]
        /\ ever'[q] = ever[q] /\ always'[q] = always[q] /\ sampledOut'[q] = sampledOut[q]
        /\ ce[q] # NoCE => ces'[ce[q]] = ces[ce[q]]
    BY <1>1, Zenon DEF Beside
  <2>3. pc[q] \in {"enabled", "check"} =>
          \A a \in Atoms : (Enabled(a, lvl[q])' => a \in ever'[q]) /\ (a \in always'[q] => Enabled(a, lvl[q])')
    BY <2>1, <2>2, Zenon DEF Deliver, Enabled
  <2>4. ever[q] \subseteq ever'[q] /\ always'[q] \subseteq always[q]
    BY <2>2, Zenon
  <2> QED BY <2>1, <2>2, <2>3, <2>4, DeliverKept, Zenon
<1>2. \A q \in Procs : Deliver(q)'
  BY <1>1, Zenon
<1> QED BY <1>2, Zenon DEF DeliverInv, DeliverTypes

LEMMA CoresType == ASSUME Types, NEW p \in Procs PROVE Cores(p) \in Seq(Nodes)
<1>1. ce[p] \in CEs \cup {NoCE} /\ ces \in [CEs -> CEType]
  BY Zenon DEF Types, TypeOK, CEType
<1>2. CASE ce[p] = NoCE
  BY <1>2 DEF Cores
<1>3. CASE ce[p] # NoCE
  <2>1. ces[ce[p]] \in CEType
    BY ZenonT(30), <1>1, <1>3
  <2> QED BY <1>3, <2>1, ZenonT(30) DEF Cores, CEType
<1> QED BY Zenon, <1>2, <1>3

LEMMA CoresUpdate ==
  ASSUME Types, PoolSafe, NEW p \in Procs, NEW d \in Change, Update(p, d)
  PROVE  /\ Cores(p)' = Cores(p) \o d.cores
         /\ \A q \in Procs : q # p => ce'[q] = ce[q] /\ (ce[q] # NoCE => ces'[ce[q]] = ces[ce[q]])
<1>0. ce \in [Procs -> CEs \cup {NoCE}] /\ ces \in [CEs -> CEType]
  BY Zenon DEF Types, TypeOK, CEType
<1>1. PICK c \in CEs, r \in CEType :
           /\ ce' = [ce EXCEPT ![p] = c]
           /\ \A q \in Procs : q # p => ce[q] # c
           /\ c \notin pool' /\ pool' \subseteq pool
           /\ ces' = [ces EXCEPT ![c] = Amend(r, d)]
           /\ ce[p] # NoCE => c = ce[p] /\ r = ces[c]
           /\ ce[p] = NoCE => r = Reset(ces[c])
  BY UpdateEffect, ZenonT(60)
<1>2. Amend(r, d).cores = r.cores \o d.cores
  BY AmendType, Zenon
<1>3. r.cores = Cores(p)
  <2>1. CASE ce[p] = NoCE
    <3>1. Reset(ces[c]).cores = << >>
      BY ZenonT(30) DEF Reset
    <3> QED BY <1>1, <2>1, <3>1, Zenon DEF Cores
  <2>2. CASE ce[p] # NoCE
    BY <1>1, <2>2, Zenon DEF Cores
  <2> QED BY <2>1, <2>2
<1>4. ce'[p] = c /\ c # NoCE /\ ces'[c] = Amend(r, d)
  BY <1>0, <1>1, CEAssumption, Zenon
<1>5. Cores(p)' = Amend(r, d).cores
  BY <1>4, Zenon DEF Cores
<1>6. \A q \in Procs : q # p => ce'[q] = ce[q] /\ (ce[q] # NoCE => ces'[ce[q]] = ces[ce[q]])
  BY <1>0, <1>1, ZenonT(60)
<1> QED BY <1>2, <1>3, <1>5, <1>6, Zenon

\* A step of the walk over the tree in Core.Check.
LEMMA DeliverCheck ==
  ASSUME Inv, DeliverInv, NEW p \in Procs, pc[p] = "check", todo[p] # << >>,
         NEW steps \in Seq(Steps), Walk(p, steps), NEW more \in Seq(Nodes),
         Cores(p)' = Cores(p) \o more,
         \A q \in Procs : q # p => ce'[q] = ce[q] /\ (ce[q] # NoCE => ces'[ce[q]] = ces[ce[q]]),
         NEW out \in SUBSET Nodes, sampledOut' = [sampledOut EXCEPT ![p] = out],
         UNCHANGED <<opt, lev, pc, lvl, next, ever, always, written, outcome>>,
         \A i \in DOMAIN steps : steps[i][1] = "hook" => Kind[steps[i][2]] = "hooked",
         \A n \in Leaves : Asked(n, steps \o Tail(todo[p]), Cores(p) \o more, ever[p], always[p], out)
  PROVE  DeliverInv'
<1>0. todo \in [Procs -> Seq(Steps)] /\ Deliver(p) /\ DeliverTypes
  BY Zenon DEF Inv, Types, TypeOK, Steps, DeliverInv, DeliverTypes
<1>1. todo'[p] = steps \o Tail(todo[p]) /\ \A q \in Procs : q # p => todo'[q] = todo[q]
  BY <1>0, Zenon DEF Walk
<1>2. sampledOut'[p] = out /\ \A q \in Procs : q # p => sampledOut'[q] = sampledOut[q]
  BY <1>0, Zenon DEF DeliverTypes
<1>3. DeliverTypes'
  BY <1>0, Zenon DEF DeliverTypes
<1>4. Beside(p)
  BY <1>1, <1>2, Zenon DEF Beside
<1>5. \A i \in DOMAIN todo'[p] : todo'[p][i][1] = "hook" => Kind[todo'[p][i][2]] = "hooked"
  <2> DEFINE H == {x \in Steps : x[1] = "hook" /\ Kind[x[2]] # "hooked"}
  <2>1. todo[p] \in Seq(Steps) /\ Tail(todo[p]) \in Seq(Steps) /\ steps \o Tail(todo[p]) \in Seq(Steps)
    BY <1>0
  <2>2. \A s \in Seq(Steps) :
          None(s, H) <=> \A i \in DOMAIN s : s[i][1] = "hook" => Kind[s[i][2]] = "hooked"
    <3>1. \A s \in Seq(Steps) : \A i \in DOMAIN s : s[i] \in Steps
      OBVIOUS
    <3> QED BY <3>1, ZenonT(60) DEF None
  <2>3. None(todo[p], H)
    BY <1>0, <2>1, <2>2, ZenonT(60) DEF Deliver
  <2>4. None(steps, H)
    BY <2>2, Zenon
  <2> HIDE DEF H
  <2>5. None(steps \o Tail(todo[p]), H)
    BY <2>1, <2>3, <2>4, NoneTail, NoneConcat, ZenonT(60)
  <2> QED BY <1>1, <2>1, <2>2, <2>5, ZenonT(60)
<1>6. Deliver(p)'
  <2>1. pc'[p] = "check" /\ next'[p] = 1 /\ outcome'[p] = "none"
    BY <1>0, Zenon DEF Deliver, Inv, Good
  <2>2. \A a \in Atoms : (Enabled(a, lvl[p])' => a \in ever'[p]) /\ (a \in always'[p] => Enabled(a, lvl[p])')
    BY <1>0, Zenon DEF Deliver, Enabled
  <2>3. \A n \in Leaves : Asked(n, todo'[p], Cores(p)', ever'[p], always'[p], sampledOut'[p])
    BY <1>1, <1>2, ZenonT(60)
  <2>4. pc'[p] \notin {"enabled", "write", "cores", "sync", "hook"}
    BY ZenonT(30), <2>1
  <2> QED BY <1>5, <2>1, <2>2, <2>3, <2>4, DeliverNext, ZenonT(60)
<1> QED BY <1>3, <1>4, <1>6, DeliverFinish, ZenonT(60)

\* The core x passes the entry on to the cores it wraps.
LEMMA Forwarded ==
  ASSUME NEW n \in Nodes, Kind[n] = "io", NEW td \in Seq(Steps), td # << >>, NEW cs \in Seq(Nodes),
         NEW ev, NEW al, NEW out, Asked(n, td, cs, ev, al, out), NEW x \in Nodes,
         Head(td) = <<"visit", x>>, Kind[x] # "io", Kind[x] = "filter" => Gate[x] \in ev,
         NEW rest \in Seq(Steps), None(rest, Ways(n))
  PROVE  Asked(n, (Visits(Kids[x]) \o rest) \o Tail(td), cs \o << >>, ev, al, out)
<1>1. CASE x \in Above[n]
  <2>1. x # n /\ (Kind[x] \in {"io", "filter"} => Gate[x] \in ev)
    BY Zenon
  <2>2. Asked(n, (Visits(Kids[x]) \o rest) \o Tail(td), cs, ev, al, out)
    BY <1>1, <2>1, AskPassed, Zenon
  <2>3. cs \o << >> = cs
    BY ConcatEmpty, Zenon
  <2> QED BY <2>2, <2>3, Zenon
<1>2. CASE x \notin Above[n]
  <2>1. None(Visits(Kids[x]), Ways(n)) /\ Visits(Kids[x]) \in Seq(Steps)
    BY <1>2, VisitsBeside, VisitsSteps, Zenon
  <2>2. None(Visits(Kids[x]) \o rest, Ways(n)) /\ Visits(Kids[x]) \o rest \in Seq(Steps)
    BY <2>1, NoneConcat, Concat, ZenonT(60)
  <2>3. Head(td) \notin Ways(n)
    BY <1>2, WaysAre, Zenon
  <2>4. << >> \in Seq(Nodes) /\ None(<< >>, {n})
    BY NoneEmpty, EmptySeq, Zenon
  <2> QED BY <2>2, <2>3, <2>4, AskBeside, ZenonT(60)
<1> QED BY ZenonT(30), <1>1, <1>2

\* The core x does not pass it on, and if it stands around n, n is refused.
LEMMA Stopped ==
  ASSUME NEW n \in Nodes, NEW td \in Seq(Steps), td # << >>, NEW cs \in Seq(Nodes),
         NEW ev, NEW al, NEW out, Asked(n, td, cs, ev, al, out), NEW x, Head(td) = <<"visit", x>>,
         NEW out2, out \subseteq out2, x \in Above[n] => Refused(n, al, out2)
  PROVE  Asked(n, << >> \o Tail(td), cs \o << >>, ev, al, out2)
<1>1. CASE x \in Above[n]
  <2>1. Asked(n, << >> \o Tail(td), cs, ev, al, out2)
    BY <1>1, AskRefused, Zenon
  <2>2. cs \o << >> = cs
    BY ConcatEmpty, Zenon
  <2> QED BY <2>1, <2>2, Zenon
<1>2. CASE x \notin Above[n]
  <2>1. Head(td) \notin Ways(n)
    BY <1>2, WaysAre, ZenonT(60)
  <2>2. << >> \in Seq(Nodes) /\ << >> \in Seq(Steps) /\ None(<< >>, {n}) /\ None(<< >>, Ways(n))
    BY NoneEmpty, EmptySeq, ZenonT(60)
  <2>3. Asked(n, << >> \o Tail(td), cs \o << >>, ev, al, out)
    BY <2>1, <2>2, AskBeside, ZenonT(60)
  <2> QED BY <2>3, AskedMore, ZenonT(60)
<1> QED BY ZenonT(30), <1>1, <1>2

\* The io core x takes the entry.
LEMMA TakenBy ==
  ASSUME NEW n \in Nodes, Kind[n] = "io", NEW td \in Seq(Steps), td # << >>, NEW cs \in Seq(Nodes),
         NEW ev, NEW al, NEW out, Asked(n, td, cs, ev, al, out), NEW x \in Nodes,
         Head(td) = <<"visit", x>>, Kind[x] = "io", Gate[x] \in ev
  PROVE  Asked(n, << >> \o Tail(td), cs \o <<x>>, ev, al, out)
<1>1. CASE x = n
  BY <1>1, AskTaken, Zenon
<1>2. CASE x # n
  <2>1. x \notin Above[n]
    BY <1>2, IoLast, Zenon
  <2>2. Head(td) \notin Ways(n)
    BY <2>1, WaysAre, Zenon
  <2>3. <<x>> \in Seq(Nodes) /\ << >> \in Seq(Steps) /\ None(<<x>>, {n}) /\ None(<< >>, Ways(n))
    BY <1>2, NoneEmpty, NoneOne, EmptySeq, OneSeq, ZenonT(60)
  <2> QED BY <2>2, <2>3, AskBeside, ZenonT(60)
<1> QED BY Zenon, <1>1, <1>2

\* Hooks that may be added to the CheckedEntry are not n.
LEMMA Hooked ==
  ASSUME NEW n \in Nodes, NEW td \in Seq(Steps), td # << >>, NEW cs \in Seq(Nodes),
         NEW ev, NEW al, NEW out, Asked(n, td, cs, ev, al, out), NEW x, Head(td) = <<"hook", x>>,
         NEW more \in Seq(Nodes), None(more, {n})
  PROVE  Asked(n, << >> \o Tail(td), cs \o more, ev, al, out)
<1>1. Head(td) \notin Ways(n)
  BY WaysAre, Zenon
<1>2. << >> \in Seq(Steps) /\ None(<< >>, Ways(n))
  BY NoneEmpty, EmptySeq, Zenon
<1> QED BY <1>1, <1>2, AskBeside, ZenonT(60)

LEMMA DeliverCoreCheck ==
  ASSUME Inv, DeliverInv, NEW p \in Procs, CoreCheck(p) PROVE DeliverInv'
<1> DEFINE td == todo[p]
           x == Head(td)[2]
           cs == Cores(p)
           out == sampledOut[p]
<1>1. Types /\ PoolSafe /\ Deliver(p) /\ pc[p] = "check" /\ td # << >>
  BY Zenon DEF Inv, DeliverInv, DeliverTypes, CoreCheck
<1>2. UNCHANGED <<opt, lev, pc, lvl, next, ever, always, written, outcome>>
  BY Zenon DEF CoreCheck
<1>3. td \in Seq(Steps) /\ cs \in Seq(Nodes) /\ x \in Nodes
  BY <1>1, CoresType, HeadType, ZenonT(60) DEF Types, TypeOK, Steps
<1>4. Head(td) \in Steps /\ Head(td) = <<Head(td)[1], x>>
  <2>1. Head(td) \in Steps
    BY <1>1, <1>3, HeadIn, Zenon
  <2> QED BY <2>1, StepsAre, Zenon
<1>5. out \in SUBSET Nodes /\ sampledOut = [sampledOut EXCEPT ![p] = out]
  BY ZenonT(30) DEF DeliverInv, DeliverTypes
<1>6. \A n \in Leaves : n \in Nodes /\ Kind[n] = "io" /\ Asked(n, td, cs, ever[p], always[p], out)
  BY <1>1, Zenon DEF Deliver, Leaves
<1>7. (\A a \in Atoms : (Enabled(a, lvl[p]) => a \in ever[p]) /\ (a \in always[p] => Enabled(a, lvl[p])))
      /\ Gate[x] \in Atoms
  BY <1>1, <1>3, GateAssumption, ZenonT(60) DEF Deliver
<1>8. Visits(Kids[x]) \in Seq(Steps) /\ << >> \in Seq(Steps) /\ << >> \in Seq(Nodes)
  BY <1>3, VisitsSteps, EmptySeq, ZenonT(60)
<1>9. \A i \in DOMAIN Visits(Kids[x]) : Visits(Kids[x])[i][1] = "visit"
  BY ZenonT(30) DEF Visits
<1>10. cs \o << >> = cs /\ \A s \in Seq(Steps) : s \o << >> = s
  BY <1>3, ConcatEmpty, Zenon
<1>11. ASSUME Head(td)[1] = "visit" PROVE Head(td) = <<"visit", x>> /\ \A n \in Leaves : x \in Above[n] => x \in Path(n)
  <2>1. Head(td) = <<"visit", x>>
    BY <1>4, <1>11, Zenon
  <2> QED BY <1>1, <1>3, <1>6, <2>1, OneWay, ZenonT(60)
<1>12. UNCHANGED <<ce, ces>> =>
         /\ Cores(p)' = cs \o << >>
         /\ \A q \in Procs : q # p => ce'[q] = ce[q] /\ (ce[q] # NoCE => ces'[ce[q]] = ces[ce[q]])
  BY <1>10, Zenon DEF Cores
<1>13. AddCore(p, x) =>
         /\ Cores(p)' = cs \o <<x>>
         /\ \A q \in Procs : q # p => ce'[q] = ce[q] /\ (ce[q] # NoCE => ces'[ce[q]] = ces[ce[q]])
  <2> DEFINE d == [NoChange EXCEPT !.cores = <<x>>]
  <2>1. <<x>> \in Seq(Nodes)
    BY <1>3, OneSeq, ZenonT(60)
  <2>2. d \in Change /\ d.cores = <<x>>
    BY <2>1, NoChangeType, ZenonT(60) DEF Change
  <2>3. AddCore(p, x) => Update(p, d)
    BY Zenon DEF AddCore
  <2> HIDE DEF d
  <2> QED BY <1>1, <2>2, <2>3, CoresUpdate, ZenonT(60)
<1> HIDE DEF td, x, cs, out
<1> DEFINE Hooks(s) == \A i \in DOMAIN s : s[i][1] = "hook" => Kind[s[i][2]] = "hooked"
<1>14. Hooks(<< >>) /\ Hooks(Visits(Kids[x]))
  BY <1>9
\* The step as DeliverCheck describes it.
<1>15. ASSUME NEW steps \in Seq(Steps), Walk(p, steps), Hooks(steps), NEW more \in Seq(Nodes),
              Cores(p)' = cs \o more,
              \A q \in Procs : q # p => ce'[q] = ce[q] /\ (ce[q] # NoCE => ces'[ce[q]] = ces[ce[q]]),
              NEW o \in SUBSET Nodes, sampledOut' = [sampledOut EXCEPT ![p] = o],
              \A n \in Leaves : Asked(n, steps \o Tail(td), cs \o more, ever[p], always[p], o)
       PROVE  DeliverInv'
  BY <1>1, <1>2, <1>15, DeliverCheck, ZenonT(60) DEF td, cs
<1> HIDE DEF Hooks
<1>16. ASSUME Head(td)[1] = "visit", CheckIo(p, x) PROVE DeliverInv'
  <2>1. Kind[x] = "io" /\ Walk(p, << >>) /\ sampledOut' = [sampledOut EXCEPT ![p] = out]
    BY <1>5, <1>16, ZenonT(60) DEF CheckIo
  <2>2. CASE Enabled(Gate[x], lvl[p])
    <3>1. AddCore(p, x) /\ Gate[x] \in ever[p]
      BY <1>7, <1>16, <2>2, ZenonT(60) DEF CheckIo
    <3>2. \A n \in Leaves : Asked(n, << >> \o Tail(td), cs \o <<x>>, ever[p], always[p], out)
      BY <1>1, <1>3, <1>6, <1>11, <1>16, <2>1, <3>1, TakenBy, ZenonT(60)
    <3>3. <<x>> \in Seq(Nodes)
      BY <1>3, OneSeq, ZenonT(60)
    <3> QED BY <1>5, <1>8, <1>13, <1>14, <1>15, <2>1, <3>1, <3>2, <3>3, ZenonT(60)
  <2>3. CASE ~Enabled(Gate[x], lvl[p])
    <3>1. UNCHANGED <<ce, ces>> /\ Gate[x] \notin always[p]
      BY <1>7, <1>16, <2>3, ZenonT(60) DEF CheckIo
    <3>2. \A n \in Leaves : x \in Above[n] => Refused(n, always[p], out)
      BY <1>11, <1>16, <2>1, <3>1, ZenonT(60) DEF Refused, Gates
    <3>3. \A n \in Leaves : Asked(n, << >> \o Tail(td), cs \o << >>, ever[p], always[p], out)
      BY <1>1, <1>3, <1>6, <1>11, <1>16, <3>2, Stopped, ZenonT(60)
    <3> QED BY <1>5, <1>8, <1>12, <1>14, <1>15, <2>1, <3>1, <3>3, ZenonT(60)
  <2> QED BY ZenonT(60), <2>2, <2>3
\* The entry is passed on, or not.
<1>17. ASSUME Head(td)[1] = "visit", Kind[x] # "io", Kind[x] = "filter" => Gate[x] \in ever[p],
              Walk(p, Visits(Kids[x])), UNCHANGED <<ce, ces, sampledOut>>
       PROVE  DeliverInv'
  <2>1. \A n \in Leaves : None(<< >>, Ways(n))
    BY NoneEmpty, Zenon
  <2>2. \A n \in Leaves :
          Asked(n, (Visits(Kids[x]) \o << >>) \o Tail(td), cs \o << >>, ever[p], always[p], out)
    BY <1>1, <1>3, <1>6, <1>8, <1>11, <1>17, <2>1, Forwarded, ZenonT(60)
  <2>3. Visits(Kids[x]) \o << >> = Visits(Kids[x])
    BY <1>8, <1>10, ZenonT(60)
  <2>4. \A n \in Leaves : Asked(n, Visits(Kids[x]) \o Tail(td), cs \o << >>, ever[p], always[p], out)
    BY <2>2, <2>3, Zenon
  <2> QED BY <1>5, <1>8, <1>12, <1>14, <1>15, <1>17, <2>4, ZenonT(60)
<1>18. ASSUME Head(td)[1] = "visit", Walk(p, << >>), UNCHANGED <<ce, ces>>,
              NEW o \in SUBSET Nodes, out \subseteq o, sampledOut' = [sampledOut EXCEPT ![p] = o],
              \A n \in Leaves : x \in Path(n) => Refused(n, always[p], o)
       PROVE  DeliverInv'
  <2>1. \A n \in Leaves : Asked(n, << >> \o Tail(td), cs \o << >>, ever[p], always[p], o)
    BY <1>1, <1>3, <1>6, <1>11, <1>18, Stopped, ZenonT(60)
  <2> QED BY <1>8, <1>12, <1>14, <1>15, <1>18, <2>1, ZenonT(60)
<1>19. ASSUME Head(td)[1] = "visit", CheckTee(p, x) PROVE DeliverInv'
  <2>1. Kind[x] # "io" /\ Kind[x] # "filter"
    BY <1>19, ZenonT(60) DEF CheckTee
  <2> QED BY <1>17, <1>19, <2>1, ZenonT(60) DEF CheckTee
<1>20. ASSUME Head(td)[1] = "visit", CheckFilter(p, x) PROVE DeliverInv'
  <2>1. Kind[x] = "filter" /\ Kind[x] # "io" /\ UNCHANGED <<ce, ces, sampledOut>>
    BY <1>20, ZenonT(30) DEF CheckFilter
  <2>2. CASE Enabled(Gate[x], lvl[p])
    <3>1. Walk(p, Visits(Kids[x])) /\ Gate[x] \in ever[p]
      BY <1>7, <1>20, <2>2, ZenonT(60) DEF CheckFilter
    <3> QED BY <1>17, <1>20, <2>1, <3>1, ZenonT(60)
  <2>3. CASE ~Enabled(Gate[x], lvl[p])
    <3>1. Walk(p, << >>) /\ Gate[x] \notin always[p]
      BY <1>7, <1>20, <2>3, ZenonT(60) DEF CheckFilter
    <3>2. \A n \in Leaves : x \in Path(n) => Refused(n, always[p], out)
      BY <2>1, <3>1, ZenonT(60) DEF Refused, Gates
    <3>3. sampledOut' = [sampledOut EXCEPT ![p] = out] /\ out \subseteq out
      BY <1>5, <2>1, Zenon
    <3> QED BY <1>5, <1>18, <1>20, <2>1, <3>1, <3>2, <3>3, ZenonT(60)
  <2> QED BY Zenon, <2>2, <2>3
<1>21. ASSUME Head(td)[1] = "visit", CheckSampler(p, x) PROVE DeliverInv'
  <2>1. Kind[x] # "filter" /\ Kind[x] # "io" /\ UNCHANGED <<ce, ces>>
    BY <1>21, ZenonT(30) DEF CheckSampler
  <2>2. CASE Walk(p, Visits(Kids[x])) /\ UNCHANGED sampledOut
    BY <1>17, <1>21, <2>1, <2>2, ZenonT(60)
  <2>3. CASE Walk(p, << >>) /\ sampledOut' = [sampledOut EXCEPT ![p] = @ \cup {x}]
    <3>1. sampledOut' = [sampledOut EXCEPT ![p] = out \cup {x}] /\ out \cup {x} \in SUBSET Nodes
      BY <1>3, <1>5, <2>3, ZenonT(30) DEF out
    <3>2. \A n \in Leaves : x \in Path(n) => Refused(n, always[p], out \cup {x})
      BY Zenon DEF Refused
    <3>3. out \subseteq out \cup {x}
      BY Zenon
    <3> QED BY <1>18, <1>21, <2>1, <2>3, <3>1, <3>2, <3>3, ZenonT(60)
  <2> QED BY <1>21, <2>2, <2>3, ZenonT(60) DEF CheckSampler
<1>22. ASSUME Head(td)[1] = "visit", CheckHooked(p, x) PROVE DeliverInv'
  <2> DEFINE h == << <<"hook", x>> >>
  <2>1. Kind[x] = "hooked" /\ Kind[x] # "filter" /\ Kind[x] # "io" /\ UNCHANGED <<ce, ces, sampledOut>>
    BY <1>22, Zenon DEF CheckHooked
  <2>2. Walk(p, Visits(Kids[x]) \o h)
    BY <1>22, Zenon DEF CheckHooked
  <2>3. h \in Seq(Steps)
    BY <1>3, StepsAre, OneSeq, ZenonT(60)
  <2>4. \A n \in Leaves : None(h, Ways(n))
    BY NoneOne, WaysAre, ZenonT(60)
  <2>5. Hooks(Visits(Kids[x]) \o h)
    BY <1>3, <1>8, <1>9, <2>1, HookLast, ZenonT(60) DEF Hooks
  <2>6. Visits(Kids[x]) \o h \in Seq(Steps)
    BY <1>8, <2>3, Concat, ZenonT(60)
  <2> HIDE DEF h
  <2>7. \A n \in Leaves :
          Asked(n, (Visits(Kids[x]) \o h) \o Tail(td), cs \o << >>, ever[p], always[p], out)
    BY <1>1, <1>3, <1>6, <1>11, <1>22, <2>1, <2>3, <2>4, Forwarded, ZenonT(60)
  <2>8. sampledOut' = [sampledOut EXCEPT ![p] = out]
    BY <1>5, <2>1, Zenon
  <2> QED BY <1>5, <1>8, <1>12, <1>15, <2>1, <2>2, <2>5, <2>6, <2>7, <2>8, ZenonT(60)
<1>23. ASSUME Head(td)[1] = "hook", AddHooks(p, x) PROVE DeliverInv'
  <2>1. Head(td) = <<"hook", x>> /\ Walk(p, << >>) /\ sampledOut' = [sampledOut EXCEPT ![p] = out]
    BY <1>4, <1>5, <1>23, ZenonT(60) DEF AddHooks
  <2>2. Kind[x] = "hooked"
    <3>1. 1 \in DOMAIN td /\ Head(td) = td[1]
      BY <1>1, <1>3, HeadTail, ZenonT(60)
    <3>2. td[1][1] = "hook" /\ td[1][2] = x
      BY <1>23, <3>1, Zenon DEF x
    <3> QED BY <1>1, <3>1, <3>2, ZenonT(60) DEF Deliver, td
  <2>3. \A n \in Leaves : None(<<x>>, {n}) /\ None(<< >>, {n})
    <3>1. \A n \in Leaves : x \notin {n}
      BY ZenonT(30), <1>6, <2>2
    <3> QED BY <3>1, NoneOne, NoneEmpty, ZenonT(60)
  <2>4. \A more \in Seq(Nodes) : (\A n \in Leaves : None(more, {n})) =>
          \A n \in Leaves : Asked(n, << >> \o Tail(td), cs \o more, ever[p], always[p], out)
    BY <1>1, <1>3, <1>6, <2>1, Hooked, ZenonT(60)
  <2>5. <<x>> \in Seq(Nodes)
    BY <1>3, OneSeq, Zenon
  <2>6. CASE ce[p] # NoCE
    <3>1. AddCore(p, x)
      BY <1>23, <2>6, ZenonT(60) DEF AddHooks
    <3> QED BY <1>5, <1>8, <1>13, <1>14, <1>15, <2>1, <2>3, <2>4, <2>5, <3>1, ZenonT(60)
  <2>7. CASE ce[p] = NoCE
    <3>1. UNCHANGED <<ce, ces>>
      BY <1>23, <2>7, ZenonT(60) DEF AddHooks
    <3> QED BY <1>5, <1>8, <1>12, <1>14, <1>15, <2>1, <2>3, <2>4, <3>1, ZenonT(60)
  <2> QED BY Zenon, <2>6, <2>7
<1> QED
  BY <1>16, <1>19, <1>20, <1>21, <1>22, <1>23, ZenonT(60) DEF CoreCheck, x, td

\* The call ends.
LEMMA DeliverEnd ==
  ASSUME Inv, DeliverInv, NEW p \in Procs, NEW r, End(p, r),
         UNCHANGED <<opt, lev, ces, lvl, todo, next, written, ever, always, sampledOut>>,
         \A n \in Leaves : Taken(n, written[p], ever[p], always[p], sampledOut[p])
  PROVE  DeliverInv'
<1>1. /\ pc \in [Procs -> {"idle", "enabled", "check", "write", "cores", "sync", "hook", "dead"}]
      /\ ce \in [Procs -> CEs \cup {NoCE}]
      /\ outcome \in [Procs -> {"none", "returned", "custom", "panicked", "goexit", "exited", "unsafe"}]
  BY Zenon DEF Inv, Types, TypeOK
<1>2. /\ pc'[p] \in {"idle", "dead"}
      /\ \A q \in Procs : q # p => pc'[q] = pc[q] /\ ce'[q] = ce[q] /\ outcome'[q] = outcome[q]
  BY <1>1, Zenon DEF End
<1>3. Beside(p) /\ DeliverTypes'
  BY <1>2, Zenon DEF Beside, DeliverInv, DeliverTypes
<1>4. pc'[p] \notin {"enabled", "check", "write", "cores", "sync", "hook"}
  BY ZenonT(30), <1>2
<1>5. Deliver(p)'
  BY <1>4, DeliverNext, Zenon
<1> QED BY <1>3, <1>5, DeliverFinish, ZenonT(60)

\* A step of CheckedEntry.Write.
LEMMA DeliverWriting ==
  ASSUME Inv, DeliverInv, NEW p \in Procs, pc[p] \in {"write", "cores", "sync"},
         NEW l \in {"cores", "sync", "hook"}, pc' = [pc EXCEPT ![p] = l],
         UNCHANGED <<opt, lev, lvl, todo, ce, ever, always, sampledOut, outcome>>,
         Cores(p)' = Cores(p),
         \A q \in Procs : q # p =>
           /\ next'[q] = next[q] /\ written'[q] = written[q]
           /\ ce[q] # NoCE => ces'[ce[q]] = ces[ce[q]],
         l = "cores" => Copied(p, next[p] - 1)',
         l = "sync" => Copied(p, next[p])',
         l = "hook" => written'[p] = Cores(p)'
  PROVE  DeliverInv'
<1>1. pc \in [Procs -> {"idle", "enabled", "check", "write", "cores", "sync", "hook", "dead"}]
  BY Zenon DEF Inv, Types, TypeOK
<1>2. pc'[p] = l /\ \A q \in Procs : q # p => pc'[q] = pc[q]
  BY <1>1, Zenon
<1>3. Beside(p) /\ DeliverTypes'
  BY <1>2, Zenon DEF Beside, DeliverInv, DeliverTypes
<1>4. pc'[p] \notin {"enabled", "check", "write"} /\ outcome'[p] = "none"
  <2>1. pc[p] \notin {"idle", "dead"}
    BY Zenon
  <2>2. outcome[p] = "none"
    BY <2>1, Zenon DEF Inv, Good
  <2> QED BY ZenonT(30), <1>2, <2>2
<1>5. \A n \in Leaves : Taken(n, Cores(p)', ever'[p], always'[p], sampledOut'[p])
  <2>1. pc[p] \in {"write", "cores", "sync", "hook"}
    BY ZenonT(30)
  <2> QED BY <2>1, Zenon DEF DeliverInv, DeliverTypes, Deliver
<1>6. Deliver(p)'
  BY <1>2, <1>4, <1>5, DeliverNext, ZenonT(60)
<1> QED BY <1>3, <1>6, DeliverFinish, ZenonT(60)

LEMMA DeliverBeginWrite ==
  ASSUME Inv, DeliverInv, NEW p \in Procs, BeginWrite(p) PROVE DeliverInv'
<1>1. Types /\ PoolSafe /\ Good(p) /\ Deliver(p) /\ pc[p] = "write"
  BY Zenon DEF Inv, DeliverInv, DeliverTypes, BeginWrite
<1>2. ce[p] # NoCE /\ ce[p] \in CEs /\ ce \in [Procs -> CEs \cup {NoCE}] /\ ces \in [CEs -> CEType]
  BY <1>1, Zenon DEF Types, TypeOK, CEType
<1>3. ~ces[ce[p]].dirty
  BY <1>1, <1>2, ZenonT(30) DEF Good, Entry
<1>4. /\ ces' = [ces EXCEPT ![ce[p]].dirty = TRUE] /\ pc' = [pc EXCEPT ![p] = "cores"]
      /\ UNCHANGED <<opt, lev, lvl, todo, ce, next, ever, always, written, sampledOut, outcome>>
  BY <1>3, Zenon DEF BeginWrite
<1>5. Cores(p)' = Cores(p)
  <2>1. ces'[ce[p]] = [ces[ce[p]] EXCEPT !.dirty = TRUE] /\ ces[ce[p]] \in CEType
    BY <1>2, <1>4, Zenon
  <2>2. ces'[ce[p]].cores = ces[ce[p]].cores
    BY <2>1, Zenon DEF CEType
  <2> QED BY <1>2, <1>4, <2>2, ZenonT(60) DEF Cores
<1>6. \A q \in Procs : q # p /\ ce[q] # NoCE => ces'[ce[q]] = ces[ce[q]]
  <2>1. \A q \in Procs : q # p /\ ce[q] # NoCE => ce[q] # ce[p] /\ ce[q] \in CEs
    BY <1>1, <1>2, Zenon DEF PoolSafe
  <2> QED BY <1>2, <1>4, <2>1, ZenonT(60)
<1>7. Copied(p, next[p] - 1)'
  <2>1. next'[p] - 1 = 0 /\ written'[p] = << >>
    BY <1>1, <1>4, Counting, ZenonT(60) DEF Good, Deliver
  <2>2. Cores(p) \in Seq(Nodes)
    BY <1>1, CoresType, Zenon
  <2>3. Len(written'[p]) = 0 /\ 0 <= Len(Cores(p))
    BY <2>1, <2>2, Counting, Zenon
  <2>4. \A i \in 1..0 : written'[p][i] = Cores(p)[i]
    BY Counting, Zenon
  <2> QED BY <1>5, <2>1, <2>3, <2>4, ZenonT(60) DEF Copied
<1> QED BY <1>1, <1>4, <1>5, <1>6, <1>7, DeliverWriting, ZenonT(60)

LEMMA DeliverWriteCore ==
  ASSUME Inv, DeliverInv, NEW p \in Procs, WriteCore(p) PROVE DeliverInv'
<1> DEFINE cs == ces[ce[p]].cores
           k == next[p]
<1>1. Types /\ Deliver(p) /\ pc[p] = "cores" /\ k <= Len(cs)
  BY Zenon DEF Inv, DeliverInv, DeliverTypes, WriteCore
<1>2. ce[p] # NoCE /\ k \in Nat \ {0} /\ next \in [Procs -> Nat \ {0}] /\ written \in [Procs -> Seq(Nodes)]
      /\ pc \in [Procs -> {"idle", "enabled", "check", "write", "cores", "sync", "hook", "dead"}]
  BY <1>1, ZenonT(30) DEF Types, TypeOK
<1>3. Cores(p) = cs /\ cs \in Seq(Nodes)
  BY <1>1, <1>2, CoresType, ZenonT(60) DEF Cores
<1>4. UNCHANGED <<opt, lev, ces, lvl, todo, ce, ever, always, sampledOut, outcome>>
  BY Zenon DEF WriteCore
<1>5. Cores(p)' = cs
  BY <1>3, <1>4, Zenon DEF Cores
<1> DEFINE wr == written[p]
<1>6. written' = [written EXCEPT ![p] = Append(wr, cs[k])]
  BY Zenon DEF WriteCore
<1>7. \/ pc' = [pc EXCEPT ![p] = "sync"] /\ next' = next
      \/ pc' = pc /\ next' = [next EXCEPT ![p] = k + 1]
  BY Zenon DEF WriteCore
<1>8. Len(wr) = k - 1 /\ \A i \in 1..(k - 1) : wr[i] = cs[i]
  BY <1>1, <1>3, Zenon DEF Deliver, Copied
<1> HIDE DEF cs, k, wr
<1>9. written'[p] = Append(wr, cs[k]) /\ \A q \in Procs : q # p => written'[q] = written[q]
  BY <1>2, <1>6, Zenon
<1>10. Len(Append(wr, cs[k])) = k /\ \A i \in 1..k : Append(wr, cs[k])[i] = cs[i]
  <2>1. wr \in Seq(Nodes)
    BY <1>2, Zenon DEF wr
  <2>2. cs \in Seq(Nodes) /\ k \in Nat \ {0} /\ k <= Len(cs)
    BY <1>1, <1>2, <1>3, ZenonT(60)
  <2> QED BY <1>8, <2>1, <2>2, Longer, ZenonT(60)
<1>11. CASE pc' = [pc EXCEPT ![p] = "sync"] /\ next' = next
  <2>1. Copied(p, next[p])'
    BY <1>1, <1>5, <1>9, <1>10, <1>11, ZenonT(60) DEF Copied, k
  <2> QED BY <1>1, <1>3, <1>4, <1>5, <1>9, <1>11, <2>1, DeliverWriting, ZenonT(60)
<1>12. CASE pc' = pc /\ next' = [next EXCEPT ![p] = k + 1]
  <2>1. next'[p] - 1 = k /\ \A q \in Procs : q # p => next'[q] = next[q]
    <3>1. next'[p] = k + 1 /\ k \in Nat
      BY <1>2, <1>12, ZenonT(60)
    <3> QED BY <1>2, <1>12, <3>1, Counting, ZenonT(60)
  <2>2. Copied(p, next[p] - 1)'
    BY <1>1, <1>5, <1>9, <1>10, <2>1, ZenonT(60) DEF Copied
  <2>3. pc' = [pc EXCEPT ![p] = "cores"]
    BY ZenonT(30), <1>1, <1>2, <1>12
  <2> QED BY <1>1, <1>3, <1>4, <1>5, <1>9, <2>1, <2>2, <2>3, DeliverWriting, ZenonT(60)
<1> QED BY ZenonT(60), <1>7, <1>11, <1>12

LEMMA DeliverSyncCore ==
  ASSUME Inv, DeliverInv, NEW p \in Procs, SyncCore(p) PROVE DeliverInv'
<1>1. Types /\ Deliver(p) /\ pc[p] = "sync"
  BY Zenon DEF Inv, DeliverInv, DeliverTypes, SyncCore
<1>2. /\ next' = [next EXCEPT ![p] = @ + 1] /\ pc' = [pc EXCEPT ![p] = "cores"]
      /\ UNCHANGED <<opt, lev, ces, lvl, todo, ce, ever, always, written, sampledOut, outcome>>
  BY Zenon DEF SyncCore
<1>3. next'[p] - 1 = next[p] /\ \A q \in Procs : q # p => next'[q] = next[q]
  <2>1. next \in [Procs -> Nat \ {0}] /\ next[p] \in Nat
    BY <1>1, Zenon DEF Types, TypeOK
  <2>2. next'[p] = next[p] + 1
    BY <1>2, <2>1, Zenon
  <2> QED BY <1>2, <2>1, <2>2, Counting, ZenonT(60)
<1>4. Cores(p)' = Cores(p)
  BY <1>2, Zenon DEF Cores
<1>5. Copied(p, next[p])
  BY <1>1, Zenon DEF Deliver
<1>6. Copied(p, next[p] - 1)'
  BY <1>2, <1>3, <1>4, <1>5, ZenonT(60) DEF Copied
<1> QED BY <1>1, <1>2, <1>3, <1>4, <1>6, DeliverWriting, ZenonT(60)

LEMMA DeliverReport ==
  ASSUME Inv, DeliverInv, NEW p \in Procs, Report(p) PROVE DeliverInv'
<1>1. Types /\ Deliver(p) /\ pc[p] = "cores" /\ next[p] > Len(ces[ce[p]].cores)
  BY Zenon DEF Inv, DeliverInv, DeliverTypes, Report
<1>2. /\ pc' = [pc EXCEPT ![p] = "hook"]
      /\ UNCHANGED <<opt, lev, ces, lvl, todo, ce, next, ever, always, written, sampledOut, outcome>>
  BY Zenon DEF Report
<1>3. Cores(p)' = Cores(p)
  BY <1>2, Zenon DEF Cores
<1>4. written'[p] = Cores(p)'
  <2>1. ce[p] # NoCE /\ next[p] \in Nat /\ written[p] \in Seq(Nodes) /\ Cores(p) \in Seq(Nodes)
    BY <1>1, CoresType, Zenon DEF Types, TypeOK
  <2>2. Cores(p) = ces[ce[p]].cores
    BY <2>1, Zenon DEF Cores
  <2>3. /\ Len(written[p]) = next[p] - 1 /\ next[p] - 1 <= Len(Cores(p))
        /\ \A i \in 1..(next[p] - 1) : written[p][i] = Cores(p)[i]
    BY <1>1, Zenon DEF Deliver, Copied
  <2>4. next[p] - 1 = Len(Cores(p))
    <3>1. Len(Cores(p)) \in Nat /\ next[p] > Len(Cores(p)) /\ next[p] - 1 <= Len(Cores(p))
      BY <1>1, <2>1, <2>2, <2>3, Counting, ZenonT(60)
    <3> QED BY <2>1, <3>1, Counting, ZenonT(60)
  <2>5. Len(written[p]) = Len(Cores(p)) /\ \A i \in 1..Len(Cores(p)) : written[p][i] = Cores(p)[i]
    BY <2>3, <2>4, Zenon
  <2>6. written[p] = Cores(p)
    BY <2>1, <2>5, SameSeq, Zenon
  <2> QED BY <1>2, <1>3, <2>6, ZenonT(60)
<1> QED BY <1>1, <1>2, <1>3, <1>4, DeliverWriting, ZenonT(60)

LEMMA DeliverRunHook ==
  ASSUME Inv, DeliverInv, NEW p \in Procs, RunHook(p) PROVE DeliverInv'
<1>1. Types /\ Good(p) /\ Deliver(p) /\ pc[p] = "hook"
  BY Zenon DEF Inv, DeliverInv, DeliverTypes, RunHook
<1>2. UNCHANGED <<opt, lev, ces, lvl, todo, next, written, ever, always, sampledOut>>
  BY Zenon DEF RunHook
<1>3. \A n \in Leaves : Taken(n, written[p], ever[p], always[p], sampledOut[p])
  BY <1>1, Zenon DEF Deliver
<1>4. \E r : End(p, r)
  <2>1. ces[ce[p]].after \in {"nil", "custom", "panic", "goexit", "fatal"}
    <3>1. ce[p] \in CEs /\ ces \in [CEs -> CEType]
      BY <1>1, Zenon DEF Types, TypeOK, CEType
    <3> QED BY <3>1, Zenon DEF CEType, Hook
  <2>2. \/ End(p, "returned") \/ End(p, "custom") \/ End(p, "panicked")
        \/ End(p, "goexit") \/ End(p, "exited")
    BY <2>1, Zenon DEF RunHook
  <2> QED BY <2>2, Zenon
<1> QED BY <1>2, <1>3, <1>4, DeliverEnd, Zenon

LEMMA DeliverSetUp ==
  ASSUME Inv, DeliverInv, NEW p \in Procs, SetUp(p) PROVE DeliverInv'
<1> DEFINE hook == TerminalHook(lvl[p])
<1>1. Types /\ PoolSafe /\ Good(p) /\ Deliver(p) /\ pc[p] = "check" /\ todo[p] = << >>
  BY Zenon DEF Inv, DeliverInv, DeliverTypes, SetUp
<1>2. UNCHANGED <<opt, lev, lvl, todo, next, ever, always, written, sampledOut>>
  BY Zenon DEF SetUp
<1>3. \A n \in Leaves : Taken(n, Cores(p), ever[p], always[p], sampledOut[p])
  <2> SUFFICES ASSUME NEW n \in Leaves PROVE Taken(n, Cores(p), ever[p], always[p], sampledOut[p])
    BY ZenonT(30)
  <2>1. Asked(n, << >>, Cores(p), ever[p], always[p], sampledOut[p])
    BY <1>1, Zenon DEF Deliver
  <2> QED BY <2>1, NotSoleEmpty, ZenonT(60) DEF Asked
<1>4. written[p] = << >> /\ next[p] = 1 /\ outcome[p] = "none"
  BY <1>1, Zenon DEF Good, Deliver
<1>5. CASE ce[p] = NoCE /\ hook = "nil"
  <2>1. End(p, "returned") /\ ces' = ces
    BY <1>5, Zenon DEF SetUp
  <2>2. Cores(p) = written[p]
    BY <1>4, <1>5, Zenon DEF Cores
  <2> QED BY <1>2, <1>3, <2>1, <2>2, DeliverEnd, ZenonT(60)
<1>6. CASE ~(ce[p] = NoCE /\ hook = "nil")
  <2> DEFINE e == ce[p] # NoCE
             d == [NoChange EXCEPT !.after = hook, !.errorOutput = e]
  <2>1. Update(p, d) /\ pc' = [pc EXCEPT ![p] = "write"] /\ outcome' = outcome
    BY <1>6, Zenon DEF SetUp
  <2>2. hook \in Hook
    BY <1>1, HookFacts, Zenon DEF Types, TypeOK
  <2>3. e \in BOOLEAN
    BY ZenonT(30)
  <2> HIDE DEF e, hook
  <2>4. d \in Change /\ d.cores = << >>
    BY <2>2, <2>3, NoChangeType, ZenonT(60) DEF Change
  <2> HIDE DEF d
  <2>5. /\ Cores(p)' = Cores(p) \o << >>
        /\ \A q \in Procs : q # p => ce'[q] = ce[q] /\ (ce[q] # NoCE => ces'[ce[q]] = ces[ce[q]])
    BY <1>1, <2>1, <2>4, CoresUpdate, ZenonT(60)
  <2>6. Cores(p)' = Cores(p)
    <3>1. Cores(p) \in Seq(Nodes)
      BY <1>1, CoresType, Zenon
    <3> HIDE DEF Cores
    <3>2. \A s \in Seq(Nodes) : s \o << >> = s
      OBVIOUS
    <3> QED BY <2>5, <3>1, <3>2, Zenon
  <2>7. pc'[p] = "write" /\ \A q \in Procs : q # p => pc'[q] = pc[q]
    BY <1>1, <2>1, ZenonT(60) DEF Types, TypeOK
  <2>8. Beside(p) /\ DeliverTypes'
    BY <1>2, <2>1, <2>5, <2>7, ZenonT(60) DEF Beside, DeliverInv, DeliverTypes
  <2>9. Deliver(p)'
    <3>1. pc'[p] \notin {"enabled", "check", "cores", "sync", "hook"}
      BY ZenonT(30), <2>7
    <3>2. next'[p] = 1 /\ outcome'[p] = "none"
      BY <1>2, <1>4, <2>1, ZenonT(60)
    <3>3. \A n \in Leaves : Taken(n, Cores(p)', ever'[p], always'[p], sampledOut'[p])
      BY <1>2, <1>3, <2>6, ZenonT(60)
    <3> QED BY <1>2, <3>1, <3>2, <3>3, DeliverNext, ZenonT(60)
  <2> QED BY <2>8, <2>9, DeliverFinish, ZenonT(60)
<1> QED BY Zenon, <1>5, <1>6

\* The walk begins at the Logger's core, which is around every leaf.
LEMMA AskedFirst ==
  ASSUME opt \in Options, NEW n \in Leaves, NEW ev, NEW al, NEW out
  PROVE  /\ Asked(n, << <<"visit", opt.core>> >>, << >>, ev, al, out)
         /\ Sought(n, << <<"visit", opt.core>> >>)
<1> DEFINE c == opt.core
           td == << <<"visit", c>> >>
<1>1. c \in Nodes /\ n \in Nodes /\ c \in Above[n] /\ c \in Above[c]
  BY TreeAssumption, AboveSelf, Zenon DEF Leaves
<1>2. c \in Path(n)
  BY <1>1, Zenon DEF Path
<1>3. Passed(n, c, ev)
  BY Zenon DEF Passed, Path
<1>4. <<"visit", c>> \in Ways(n)
  BY <1>1, ZenonT(30) DEF Ways
<1>5. 1 \in DOMAIN td /\ td[1] = <<"visit", c>> /\ \A j \in DOMAIN td : j = 1
  OBVIOUS
<1> HIDE DEF td
<1>6. Sole(td, Ways(n), <<"visit", c>>)
  BY <1>4, <1>5, Zenon DEF Sole
<1>7. Asked(n, td, << >>, ev, al, out)
  BY <1>2, <1>3, <1>6, NoneEmpty, ZenonT(60) DEF Asked
<1>8. Sought(n, td)
  BY <1>2, <1>5, Zenon DEF Sought, Has
<1> QED BY <1>7, <1>8, Zenon DEF td

\* Core.Enabled goes on to the wrapped cores, or found one that refuses the entry.
LEMMA SoughtOn ==
  ASSUME NEW n \in Nodes, Kind[n] = "io", NEW td \in Seq(Steps), td # << >>, Sought(n, td),
         NEW x \in Nodes, x = Head(td)[2], NEW al, NEW out,
         Kind[x] \in {"io", "filter"} => Gate[x] \notin al
  PROVE  \/ Sought(n, (IF Kind[x] = "filter" THEN << >> ELSE Visits(Kids[x])) \o Tail(td))
         \/ Refused(n, al, out)
<1> DEFINE steps == IF Kind[x] = "filter" THEN << >> ELSE Visits(Kids[x])
           rest == Tail(td)
<1>1. rest \in Seq(Steps) /\ steps \in Seq(Steps)
  <2>1. << >> \in Seq(Steps)
    OBVIOUS
  <2> QED BY <2>1, HeadTail, VisitsSteps, ZenonT(60)
<1>2. PICK a \in Path(n) : Has(td, <<"visit", a>>)
  BY Zenon DEF Sought
<1>3. CASE Head(td) # <<"visit", a>>
  <2>1. Has(rest, <<"visit", a>>)
    BY <1>2, <1>3, HasTail, ZenonT(60)
  <2> HIDE DEF steps, rest
  <2>2. Has(steps \o rest, <<"visit", a>>)
    BY <1>1, <2>1, HasConcat, ZenonT(60)
  <2> QED BY <2>2, Zenon DEF Sought, steps, rest
<1>4. CASE Head(td) = <<"visit", a>>
  <2>1. a = x
    BY <1>4
  <2>2. CASE Kind[x] \in {"io", "filter"}
    BY <2>1, <2>2, Zenon DEF Refused, Gates
  <2>3. CASE Kind[x] \notin {"io", "filter"}
    <3>1. x # n /\ steps = Visits(Kids[x])
      BY ZenonT(30), <2>3
    <3>2. PICK c \in Path(n) : Sole(Visits(Kids[x]), Ways(n), <<"visit", c>>)
      BY <2>1, <3>1, WayDown, ZenonT(60)
    <3>3. Has(steps, <<"visit", c>>)
      BY <3>1, <3>2, ZenonT(60) DEF Sole, Has
    <3> HIDE DEF steps, rest
    <3>4. Has(steps \o rest, <<"visit", c>>)
      BY <1>1, <3>3, HasConcat, ZenonT(60)
    <3> QED BY <3>4, Zenon DEF Sought, steps, rest
  <2> QED BY ZenonT(30), <2>2, <2>3
<1> QED BY ZenonT(30), <1>3, <1>4

LEMMA DeliverCoreEnabled ==
  ASSUME Inv, DeliverInv, NEW p \in Procs, CoreEnabled(p) PROVE DeliverInv'
<1> DEFINE td == todo[p]
           x == Head(td)[2]
           al == always[p]
           out == sampledOut[p]
<1>1. Types /\ Good(p) /\ Deliver(p) /\ pc[p] = "enabled"
  BY Zenon DEF Inv, DeliverInv, DeliverTypes, CoreEnabled
<1>2. UNCHANGED <<opt, lev, ces, lvl, next, ever, always, written, sampledOut>>
  BY Zenon DEF CoreEnabled
<1>3. td \in Seq(Steps) /\ todo \in [Procs -> Seq(Steps)] /\ opt \in Options
      /\ pc \in [Procs -> {"idle", "enabled", "check", "write", "cores", "sync", "hook", "dead"}]
  BY <1>1, Zenon DEF Types, TypeOK, Steps
<1>4. written[p] = << >> /\ next[p] = 1 /\ outcome[p] = "none" /\ ce[p] = NoCE
  BY <1>1, Zenon DEF Good, Deliver
<1>5. \A n \in Leaves : n \in Nodes /\ Kind[n] = "io" /\ (Sought(n, td) \/ Refused(n, al, out))
  BY <1>1, Zenon DEF Deliver, Leaves
<1>6. \A a \in Atoms : (Enabled(a, lvl[p]) => a \in ever[p]) /\ (a \in always[p] => Enabled(a, lvl[p]))
  BY <1>1, ZenonT(30) DEF Deliver
<1>7. \A a \in Atoms : (Enabled(a, lvl[p])' => a \in ever'[p]) /\ (a \in always'[p] => Enabled(a, lvl[p])')
  BY <1>2, <1>6, ZenonT(60) DEF Enabled
<1>8. CASE td = << >>
  <2>1. End(p, "returned") /\ todo' = todo
    BY <1>8, Zenon DEF CoreEnabled
  <2>2. \A n : ~Sought(n, << >>)
    BY NotSoleEmpty, Zenon DEF Sought
  <2>3. \A n \in Leaves : Taken(n, written[p], ever[p], al, out)
    BY <1>4, <1>5, <1>8, <2>2, NoneEmpty, ZenonT(60) DEF Taken
  <2> QED BY <1>2, <2>1, <2>3, DeliverEnd, ZenonT(60)
<1>9. CASE td # << >>
  <2>1. UNCHANGED <<ce, outcome>> /\ x \in Nodes
    BY <1>1, <1>9, HeadType, ZenonT(60) DEF CoreEnabled
  <2>2. CASE Kind[x] \in {"io", "filter"} /\ Enabled(Gate[x], lvl[p])
    <3>1. /\ pc' = [pc EXCEPT ![p] = "check"]
          /\ todo' = [todo EXCEPT ![p] = << <<"visit", opt.core>> >>]
      BY <1>9, <2>2, ZenonT(60) DEF CoreEnabled
    <3>2. /\ pc'[p] = "check" /\ todo'[p] = << <<"visit", opt.core>> >>
          /\ \A q \in Procs : q # p => pc'[q] = pc[q] /\ todo'[q] = todo[q]
      BY <1>3, <3>1, Zenon
    <3>3. Beside(p) /\ DeliverTypes'
      BY <1>2, <2>1, <3>2, ZenonT(60) DEF Beside, DeliverInv, DeliverTypes
    <3>4. Cores(p)' = << >>
      BY <1>4, <2>1, ZenonT(60) DEF Cores
    <3>5. \A n \in Leaves : Asked(n, todo'[p], Cores(p)', ever'[p], always'[p], sampledOut'[p])
      BY <1>3, <3>2, <3>4, AskedFirst, ZenonT(60)
    <3>6. \A i \in DOMAIN todo'[p] : todo'[p][i][1] = "hook" => Kind[todo'[p][i][2]] = "hooked"
      <4>1. todo'[p] = << <<"visit", opt.core>> >>
        BY <3>2, Zenon
      <4> QED BY <4>1, VisitFirst, ZenonT(60)
    <3>7. pc'[p] \notin {"enabled", "write", "cores", "sync", "hook"} /\ next'[p] = 1 /\ outcome'[p] = "none"
      BY ZenonT(60), <1>2, <1>4, <2>1, <3>2
    <3>8. Deliver(p)'
      BY <1>2, <1>7, <3>2, <3>5, <3>6, <3>7, DeliverNext, ZenonT(60)
    <3> QED BY <3>3, <3>8, DeliverFinish, Zenon
  <2>3. CASE ~(Kind[x] \in {"io", "filter"} /\ Enabled(Gate[x], lvl[p]))
    <3> DEFINE steps == IF Kind[x] = "filter" THEN << >> ELSE Visits(Kids[x])
    <3>1. todo' = [todo EXCEPT ![p] = steps \o Tail(td)] /\ pc' = pc
      BY <1>9, <2>3, Zenon DEF CoreEnabled, Walk
    <3> HIDE DEF td, x, al, out
    <3>2. Kind[x] \in {"io", "filter"} => Gate[x] \notin al
      <4>1. Gate[x] \in Atoms
        BY ZenonT(60), <2>1, GateAssumption
      <4> QED BY <1>6, <2>3, <4>1, ZenonT(60) DEF al
    <3>3. \A n \in Leaves : Sought(n, steps \o Tail(td)) \/ Refused(n, al, out)
      BY <1>3, <1>5, <1>9, <2>1, <3>2, SoughtOn, ZenonT(60) DEF x
    <3>4. todo'[p] = steps \o Tail(td) /\ \A q \in Procs : q # p => todo'[q] = todo[q]
      BY <1>3, <3>1, ZenonT(60)
    <3>5. Beside(p) /\ DeliverTypes'
      BY <1>2, <2>1, <3>1, <3>4, ZenonT(60) DEF Beside, DeliverInv, DeliverTypes
    <3>6. \A n \in Leaves : Sought(n, todo'[p]) \/ Refused(n, always'[p], sampledOut'[p])
      BY <1>2, <3>3, <3>4, ZenonT(60) DEF al, out
    <3>7. pc'[p] \notin {"check", "write", "cores", "sync", "hook"} /\ next'[p] = 1 /\ outcome'[p] = "none"
      BY ZenonT(30), <1>1, <1>2, <1>4, <2>1, <3>1
    <3>8. Deliver(p)'
      BY <1>2, <1>7, <3>6, <3>7, DeliverNext, ZenonT(60)
    <3> QED BY <3>5, <3>8, DeliverFinish, Zenon
  <2> QED BY ZenonT(30), <2>2, <2>3
<1> QED BY ZenonT(30), <1>8, <1>9

LEMMA DeliverLog ==
  ASSUME Inv, DeliverInv, NEW p \in Procs, NEW l \in EntryLevels, Log(p, l) PROVE DeliverInv'
<1>1. Types /\ Good(p) /\ pc[p] = "idle"
  BY Zenon DEF Inv, Log
<1>2. UNCHANGED <<opt, lev, ces, ce>> /\ opt \in Options /\ ce[p] = NoCE
  BY <1>1, ZenonT(30) DEF Log, Types, TypeOK, Good
<1>3. /\ pc'[p] = (IF SkipsFastPath(l) THEN "check" ELSE "enabled") /\ lvl'[p] = l
      /\ todo'[p] = << <<"visit", opt.core>> >> /\ outcome'[p] = "none" /\ next'[p] = 1
  BY <1>1, Zenon DEF Log, Types, TypeOK
<1>4. ever'[p] = EnabledAtoms(l) /\ always'[p] = EnabledAtoms(l)
  BY Zenon DEF Log, DeliverInv, DeliverTypes
<1>5. \A q \in Procs : q # p =>
        /\ pc'[q] = pc[q] /\ lvl'[q] = lvl[q] /\ todo'[q] = todo[q] /\ next'[q] = next[q]
        /\ written'[q] = written[q] /\ outcome'[q] = outcome[q]
  BY <1>1, Zenon DEF Log, Types, TypeOK
<1>6. \A q \in Procs : q # p =>
        ever'[q] = ever[q] /\ always'[q] = always[q] /\ sampledOut'[q] = sampledOut[q]
  BY Zenon DEF Log, DeliverInv, DeliverTypes
<1>7. DeliverTypes'
  <2>1. EnabledAtoms(l) \in SUBSET Atoms
    BY ZenonT(30) DEF EnabledAtoms
  <2> QED BY <2>1, ZenonT(30) DEF Log, DeliverInv, DeliverTypes
<1>8. Beside(p)
  BY <1>2, <1>5, <1>6, ZenonT(60) DEF Beside
<1>9. Deliver(p)'
  <2>1. \A a \in Atoms : (Enabled(a, lvl[p])' => a \in ever'[p]) /\ (a \in always'[p] => Enabled(a, lvl[p])')
    BY <1>2, <1>3, <1>4, ZenonT(60) DEF Enabled, EnabledAtoms
  <2>2. Cores(p)' = << >>
    BY <1>2, Zenon DEF Cores
  <2>3. \A n \in Leaves : /\ Asked(n, todo'[p], Cores(p)', ever'[p], always'[p], sampledOut'[p])
                          /\ Sought(n, todo'[p])
    BY <1>2, <1>3, <2>2, AskedFirst, ZenonT(60)
  <2>4. \A i \in DOMAIN todo'[p] : todo'[p][i][1] = "hook" => Kind[todo'[p][i][2]] = "hooked"
    <3>1. todo'[p] = << <<"visit", opt.core>> >>
      BY <1>3, ZenonT(60)
    <3> QED BY <3>1, VisitFirst, ZenonT(60)
  <2>5. pc'[p] \notin {"write", "cores", "sync", "hook"}
    BY ZenonT(30), <1>3
  <2> QED BY <1>2, <1>3, <2>1, <2>3, <2>4, <2>5, DeliverNext, ZenonT(60)
<1> QED BY <1>7, <1>8, <1>9, DeliverFinish, ZenonT(60)

\* An AtomicLevel changes: what the calls saw of it is kept.
LEMMA DeliverSetLevel ==
  ASSUME Inv, DeliverInv, NEW b \in Atoms, NEW l \in LevelValues, SetLevel(b, l) PROVE DeliverInv'
<1> DEFINE choosing == {p \in Procs : pc[p] \in {"enabled", "check"}}
<1>1. /\ lev' = [lev EXCEPT ![b] = l] /\ lev \in [Atoms -> LevelValues]
      /\ UNCHANGED <<opt, ces, pc, lvl, todo, ce, next, written, sampledOut, outcome>>
  BY Zenon DEF SetLevel, call, Inv, Types, TypeOK
<1>2. \A p \in Procs :
        /\ ever'[p] = IF p \in choosing /\ lvl[p] >= l THEN ever[p] \cup {b} ELSE ever[p]
        /\ always'[p] = IF p \in choosing /\ ~(lvl[p] >= l) THEN always[p] \ {b} ELSE always[p]
  BY Zenon DEF SetLevel
<1>3. DeliverTypes'
  <2>1. /\ ever' = [p \in Procs |-> IF p \in choosing /\ lvl[p] >= l THEN ever[p] \cup {b} ELSE ever[p]]
        /\ always' = [p \in Procs |-> IF p \in choosing /\ ~(lvl[p] >= l) THEN always[p] \ {b} ELSE always[p]]
    BY Zenon DEF SetLevel
  <2> HIDE DEF choosing
  <2>2. ever' \in [Procs -> SUBSET Atoms] /\ always' \in [Procs -> SUBSET Atoms]
    BY <2>1, ZenonT(30) DEF DeliverInv, DeliverTypes
  <2> QED BY <1>1, <2>2, ZenonT(60) DEF DeliverInv, DeliverTypes
<1>4. ASSUME NEW p \in Procs PROVE Deliver(p)'
  <2>1. Deliver(p)
    BY Zenon DEF DeliverInv, DeliverTypes
  <2>2. ever[p] \subseteq ever'[p] /\ always'[p] \subseteq always[p]
    BY <1>2, Zenon
  <2>3. ASSUME pc[p] \in {"enabled", "check"}, NEW a \in Atoms
        PROVE  (Enabled(a, lvl[p])' => a \in ever'[p]) /\ (a \in always'[p] => Enabled(a, lvl[p])')
    <3>1. (Enabled(a, lvl[p]) => a \in ever[p]) /\ (a \in always[p] => Enabled(a, lvl[p]))
      BY <2>1, <2>3, Zenon DEF Deliver
    <3>2. p \in choosing
      BY ZenonT(30), <2>3
    <3>3. CASE a = b
      <4>1. Enabled(a, lvl[p])' <=> lvl[p] >= l
        BY <1>1, <3>3, Zenon DEF Enabled
      <4> HIDE DEF choosing
      <4> QED BY <1>2, <3>2, <3>3, <4>1, ZenonT(60)
    <3>4. CASE a # b
      <4>1. Enabled(a, lvl[p])' <=> Enabled(a, lvl[p])
        BY <1>1, <3>4, Zenon DEF Enabled
      <4>2. (a \in ever[p] => a \in ever'[p]) /\ (a \in always'[p] => a \in always[p])
        BY <2>2, Zenon
      <4> QED BY <3>1, <4>1, <4>2, ZenonT(60)
    <3> QED BY Zenon, <3>3, <3>4
  <2> QED BY <1>1, <2>1, <2>2, <2>3, DeliverKept, ZenonT(60)
<1> QED BY <1>3, <1>4, ZenonT(60) DEF DeliverInv, DeliverTypes

LEMMA DeliverInit == Init => DeliverInv
<1> SUFFICES ASSUME Init PROVE DeliverInv
  BY Zenon
<1>1. /\ ever \in [Procs -> SUBSET Atoms] /\ always \in [Procs -> SUBSET Atoms]
      /\ sampledOut \in [Procs -> SUBSET Nodes]
  BY Zenon DEF Init
<1>2. ASSUME NEW p \in Procs PROVE Deliver(p)
  <2>1. pc[p] = "idle" /\ outcome[p] = "none"
    BY ZenonT(30) DEF Init
  <2>2. pc[p] \notin {"enabled", "check", "write", "cores", "sync", "hook"}
    BY ZenonT(30), <2>1
  <2> QED BY <2>1, <2>2, Zenon DEF Deliver
<1> QED BY <1>1, <1>2, ZenonT(60) DEF DeliverInv, DeliverTypes

LEMMA DeliverStep == Inv /\ DeliverInv /\ [Next]_vars => DeliverInv'
<1> SUFFICES ASSUME Inv, DeliverInv, [Next]_vars PROVE DeliverInv'
  BY ZenonT(30)
<1>1. CASE vars' = vars
  <2>1. UNCHANGED <<opt, lev, ces, pc, lvl, todo, ce, next, written, outcome, ever, always, sampledOut>>
    BY <1>1, Zenon DEF vars, call, history
  <2>2. DeliverTypes'
    BY <2>1, Zenon DEF DeliverInv, DeliverTypes
  <2>3. ASSUME NEW p \in Procs PROVE Deliver(p)'
    <3>1. Deliver(p)
      BY Zenon DEF DeliverInv, DeliverTypes
    <3>2. pc[p] \in {"enabled", "check"} =>
            \A a \in Atoms : (Enabled(a, lvl[p])' => a \in ever'[p]) /\ (a \in always'[p] => Enabled(a, lvl[p])')
      BY <2>1, <3>1, ZenonT(60) DEF Deliver, Enabled
    <3> QED BY <2>1, <3>1, <3>2, DeliverKept, ZenonT(60)
  <2> QED BY <2>2, <2>3, ZenonT(60) DEF DeliverInv, DeliverTypes
<1>2. ASSUME NEW p \in Procs, NEW l \in EntryLevels, Log(p, l) PROVE DeliverInv'
  BY ZenonT(30), <1>2, DeliverLog
<1>3. ASSUME NEW p \in Procs, Step(p) PROVE DeliverInv'
  BY <1>3, DeliverCoreEnabled, DeliverCoreCheck, DeliverSetUp, DeliverBeginWrite, DeliverWriteCore,
     DeliverSyncCore, DeliverReport, DeliverRunHook, ZenonT(60) DEF Step
<1>4. ASSUME NEW a \in Atoms, NEW l \in LevelValues, SetLevel(a, l) PROVE DeliverInv'
  BY Zenon, <1>4, DeliverSetLevel
<1> QED BY <1>1, <1>2, <1>3, <1>4, ZenonT(60) DEF Next

\* What Delivery says of the positions at of one output in what a call wrote.
Right(n, at, ev, al, out) ==
  /\ \A i, j \in at : i = j
  /\ at # {} => Gates(n) \subseteq ev
  /\ Gates(n) \subseteq al /\ Path(n) \cap out = {} => at # {}

LEMMA TakenMeans ==
  ASSUME NEW n \in Nodes, NEW cs, NEW ev, NEW al, NEW out, Taken(n, cs, ev, al, out)
  PROVE  Right(n, {i \in DOMAIN cs : cs[i] = n}, ev, al, out)
<1>1. CASE Sole(cs, {n}, n) /\ Gates(n) \subseteq ev
  BY <1>1, Zenon DEF Sole, Right
<1>2. CASE None(cs, {n}) /\ Refused(n, al, out)
  BY <1>2, Zenon DEF None, Refused, Right
<1> QED BY <1>1, <1>2, Zenon DEF Taken

\* For every tree of cores in which none is wrapped twice, however AtomicLevels change
\* during a call: it writes once to each output whose level and filters enabled the
\* entry throughout and which no sampler kept it from, to none that was never enabled,
\* and to none twice.
THEOREM DeliveryHolds == Spec => []Delivery
<1>1. Inv /\ DeliverInv => Delivery
  <2> SUFFICES ASSUME Inv, DeliverInv, NEW p \in Procs, outcome[p] # "none",
                      NEW n \in Nodes, Kind[n] = "io", opt.core \in Path(n)
               PROVE  Right(n, {i \in DOMAIN written[p] : written[p][i] = n},
                            ever[p], always[p], sampledOut[p])
    BY ZenonT(60) DEF Delivery, Right
  <2>1. n \in Leaves
    BY Zenon DEF Leaves, Path
  <2>2. Taken(n, written[p], ever[p], always[p], sampledOut[p])
    BY <2>1, Zenon DEF DeliverInv, DeliverTypes, Deliver
  <2> QED BY <2>2, TakenMeans, Zenon
<1>2. Spec => []Inv
  BY InvHolds
<1> QED BY <1>1, <1>2, DeliverInit, DeliverStep, PTL DEF Spec
=============================================================================
