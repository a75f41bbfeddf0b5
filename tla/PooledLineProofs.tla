-------------------------- MODULE PooledLineProofs --------------------------
(***************************************************************************)
(* Proofs about PooledLine, for every number of goroutines, pooled objects *)
(* and calls: what the sink is given is the line of its own call.  The     *)
(* inductive invariant PoolInv says that no pooled object is held twice or *)
(* held and pooled, that what Put leaves in an object is clean, and, for   *)
(* each point of a call, what its buffers hold (Where).  A step touches    *)
(* pooled objects and those of its own call only (Beside), so that every   *)
(* other call is a bystander.                                              *)
(***************************************************************************)
EXTENDS PooledLine, TLAPS

\* The pieces that calls append.
Tags == {<<p, c.id>> : p \in Procs, c \in Scripts}
Piece ==
  {"context"} \cup {<<t, "entry">> : t \in Tags} \cup {<<t, n>> : t \in Tags, n \in Nat}
    \cup {<<t, "frame", n>> : t \in Tags, n \in Nat}

\* What a call has put together so far: the start of its clone, the fields but the last
\* n, its stack, and the line as a whole.
Begun(t, c) == IF c.console THEN <<"context">> ELSE <<<<t, "entry">>, "context">>
Added(t, c, n) == [i \in 1 .. (Len(c.fields) - n) |-> <<t, Len(c.fields) + 1 - i>>]
Trace(t, c) ==
  IF ~c.addStack THEN << >>
  ELSE [i \in 1 .. (IF c.depth < 2 THEN c.depth ELSE c.depth - 1) |-> <<t, "frame", i>>]
Whole(t, c) == <<<<t, "entry">>, "context">> \o Added(t, c, 0) \o Trace(t, c)
-----------------------------------------------------------------------------
(* Sequences                                                               *)

\* Concatenation is associative.
LEMMA JoinMore ==
  ASSUME NEW S, NEW s \in Seq(S), NEW t \in Seq(S), NEW u \in Seq(S)
  PROVE  (s \o t) \o u = s \o (t \o u)
OBVIOUS

\* Appending one piece is concatenating it.
LEMMA AppendIs ==
  ASSUME NEW S, NEW s \in Seq(S), NEW x \in S
  PROVE  Append(s, x) = s \o <<x>> /\ <<x>> \in Seq(S) /\ Append(s, x) \in Seq(S)
OBVIOUS

\* How a piece is appended to a concatenation.
JoinsAt(s, t, x) ==
  Append(s \o t, x) = s \o Append(t, x) /\ (s \o t) \o <<x>> = s \o Append(t, x)

\* Appending to the second of two sequences appends to both together.
LEMMA JoinAppend ==
  ASSUME NEW S, NEW s \in Seq(S), NEW t \in Seq(S), NEW x \in S
  PROVE  JoinsAt(s, t, x)
<1>1. s \o t \in Seq(S)
  OBVIOUS
<1>2. Append(s \o t, x) = (s \o t) \o <<x>>
  BY <1>1, AppendIs, Zenon
<1>3. Append(t, x) = t \o <<x>> /\ <<x>> \in Seq(S)
  BY AppendIs, Zenon
<1>4. (s \o t) \o <<x>> = s \o (t \o <<x>>)
  BY <1>3, JoinMore
<1> QED BY <1>2, <1>3, <1>4, Zenon DEF JoinsAt

\* A sequence of two elements is the pair of them.
LEMMA TwoLong ==
  ASSUME NEW S, NEW s \in Seq(S), Len(s) = 2
  PROVE  s = <<s[1], s[2]>>
OBVIOUS

\* An element before a sequence that begins with another one.
LEMMA JoinFirst ==
  ASSUME NEW S, NEW x \in S, NEW y \in S, NEW t \in Seq(S)
  PROVE  <<x>> \o (<<y>> \o t) = <<x, y>> \o t
<1>1. <<x>> \in Seq(S) /\ <<y>> \in Seq(S) /\ <<x, y>> \in Seq(S)
  OBVIOUS
<1>2. <<x>> \o <<y>> = <<x, y>>
  <2>1. <<x>> \o <<y>> \in Seq(S) /\ Len(<<x>> \o <<y>>) = 2
    BY <1>1
  <2>2. (<<x>> \o <<y>>)[1] = x /\ (<<x>> \o <<y>>)[2] = y
    BY <1>1
  <2> QED BY Zenon, <1>1, <2>1, <2>2, TwoLong
<1>3. (<<x>> \o <<y>>) \o t = <<x>> \o (<<y>> \o t)
  BY <1>1, JoinMore
<1> QED BY <1>2, <1>3, Zenon

\* Appending to an emptied buffer (Buffer.Reset).
LEMMA ToEmpty ==
  ASSUME NEW x
  PROVE  << >> \o <<x>> = <<x>> /\ Append(<< >>, x) = <<x>>
OBVIOUS

\* A sequence that is one longer and agrees with s up to its end is s with its last
\* element appended.
LEMMA AppendedSame ==
  ASSUME NEW S, NEW s \in Seq(S), NEW t \in Seq(S), NEW x \in S, Len(t) = Len(s) + 1,
         \A i \in 1 .. Len(s) : t[i] = s[i], t[Len(t)] = x
  PROVE  t = Append(s, x)
<1>1. Append(s, x) \in Seq(S) /\ Len(Append(s, x)) = Len(t)
  OBVIOUS
<1>2. \A i \in 1 .. Len(t) : t[i] = Append(s, x)[i]
  OBVIOUS
<1> QED BY <1>1, <1>2

\* What a call appends to its buffers is a piece.
LEMMA PieceIs ==
  ASSUME NEW p \in Procs, NEW c \in Scripts, NEW t, t = <<p, c.id>>
  PROVE  /\ "context" \in Piece /\ <<t, "entry">> \in Piece
         /\ \A n \in Nat : <<t, n>> \in Piece /\ <<t, "frame", n>> \in Piece
BY DEF Piece, Tags

\* The fields added so far, the start of the clone, the stack and the line are
\* sequences of pieces, and one field more is one piece more.
LEMMA AddedIs ==
  ASSUME NEW p \in Procs, NEW c \in Scripts, NEW t, t = <<p, c.id>>
  PROVE  /\ \A n \in Nat : n <= Len(c.fields) => Added(t, c, n) \in Seq(Piece)
         /\ Added(t, c, Len(c.fields)) = << >>
         /\ \A n \in Nat : n + 1 <= Len(c.fields) =>
              Added(t, c, n) = Append(Added(t, c, n + 1), <<t, n + 1>>)
         /\ Begun(t, c) \in Seq(Piece) /\ Trace(t, c) \in Seq(Piece)
<1> DEFINE N == Len(c.fields)
<1>0. N \in Nat /\ c.depth \in Nat
  BY ScriptsAssumption
<1>1. ASSUME NEW n \in Nat, n <= N
      PROVE  Added(t, c, n) \in Seq(Piece)
  <2>1. \A i \in 1 .. (N - n) : N + 1 - i \in Nat
    BY <1>0, <1>1
  <2>2. \A i \in 1 .. (N - n) : <<t, N + 1 - i>> \in Piece
    BY Zenon, <2>1, PieceIs
  <2>3. N - n \in Nat
    BY <1>0, <1>1
  <2> HIDE DEF N
  <2>4. [i \in 1 .. (N - n) |-> <<t, N + 1 - i>>] \in Seq(Piece)
    BY <2>2, <2>3
  <2> QED BY <2>4, Zenon DEF Added, N
<1>2. Added(t, c, N) = << >>
  BY <1>0 DEF Added
<1>3. ASSUME NEW n \in Nat, n + 1 <= N
      PROVE  Added(t, c, n) = Append(Added(t, c, n + 1), <<t, n + 1>>)
  <2>1. Added(t, c, n + 1) \in Seq(Piece) /\ Added(t, c, n) \in Seq(Piece)
    <3>1. n + 1 \in Nat /\ n <= N
      BY <1>0, <1>3
    <3> QED BY <3>1, <1>1, <1>3, Zenon
  <2>2. Len(Added(t, c, n + 1)) = N - (n + 1) /\ Len(Added(t, c, n)) = N - n
    BY <1>0, <1>3 DEF Added
  <2>3. <<t, n + 1>> \in Piece
    <3>1. n + 1 \in Nat
      OBVIOUS
    <3> QED BY <3>1, PieceIs, Zenon
  <2>4. \A i \in 1 .. (N - (n + 1)) : Added(t, c, n)[i] = Added(t, c, n + 1)[i]
    BY <1>0, <1>3 DEF Added
  <2>5. Added(t, c, n)[N - n] = <<t, n + 1>>
    <3>1. N - n \in 1 .. (N - n) /\ N + 1 - (N - n) = n + 1
      BY <1>0, <1>3
    <3> QED BY <3>1, Zenon DEF Added
  <2> HIDE DEF N
  <2> DEFINE u == Added(t, c, n + 1)
             v == Added(t, c, n)
             x == <<t, n + 1>>
  <2>6. Len(v) = Len(u) + 1
    BY <1>0, <2>2
  <2>7. (\A i \in 1 .. Len(u) : v[i] = u[i]) /\ v[Len(v)] = x
    BY <2>2, <2>4, <2>5, Zenon
  <2>8. u \in Seq(Piece) /\ v \in Seq(Piece) /\ x \in Piece
    BY <2>1, <2>3, Zenon
  <2> HIDE DEF u, v, x
  <2>9. v = Append(u, x)
    BY <2>6, <2>7, <2>8, AppendedSame
  <2> QED BY <2>9, Zenon DEF u, v, x
<1>4. Begun(t, c) \in Seq(Piece)
  <2>1. "context" \in Piece /\ <<t, "entry">> \in Piece
    BY Zenon, PieceIs
  <2> QED BY <2>1 DEF Begun
<1>5. Trace(t, c) \in Seq(Piece)
  <2>1. CASE c.addStack
    <3> DEFINE k == IF c.depth < 2 THEN c.depth ELSE c.depth - 1
    <3>1. k \in Nat
      BY <1>0
    <3>2. \A i \in 1 .. k : <<t, "frame", i>> \in Piece
      <4>1. \A i \in 1 .. k : i \in Nat
        BY <3>1
      <4> QED BY <4>1, PieceIs, Zenon
    <3> HIDE DEF k
    <3>3. [i \in 1 .. k |-> <<t, "frame", i>>] \in Seq(Piece)
      BY <3>1, <3>2
    <3> QED BY <2>1, <3>3, Zenon DEF Trace, k
  <2> QED BY <2>1 DEF Trace
<1> QED BY Zenon, <1>1, <1>2, <1>3, <1>4, <1>5

\* A field added is one fewer to add.
LEMMA ShorterIs ==
  ASSUME NEW S, NEW d \in Seq(S), d # << >>
  PROVE  /\ Tail(d) \in Seq(S) /\ Len(Tail(d)) \in Nat /\ Len(d) \in Nat
         /\ Len(d) = Len(Tail(d)) + 1
OBVIOUS

\* Less one is still within the bound.
LEMMA OneMore ==
  ASSUME NEW n \in Nat, NEW m \in Nat, n + 1 <= m
  PROVE  n <= m
OBVIOUS

\* One field more, appended or copied from the reflection buffer.
Grows(t, c, d) ==
  /\ Append(Begun(t, c) \o Added(t, c, Len(d)), <<t, Len(d)>>)
       = Begun(t, c) \o Added(t, c, Len(Tail(d)))
  /\ (Begun(t, c) \o Added(t, c, Len(d))) \o <<<<t, Len(d)>>>>
       = Begun(t, c) \o Added(t, c, Len(Tail(d)))
  /\ Tail(d) \in Seq({"plain", "reflected"}) /\ Len(Tail(d)) <= Len(c.fields)

\* A field that an encoder's Add method appends, or copies from reflectBuf, makes the
\* clone's buffer that of the fields added so far.
LEMMA Grown ==
  ASSUME NEW p \in Procs, NEW c \in Scripts, NEW t, t = <<p, c.id>>,
         NEW d \in Seq({"plain", "reflected"}), d # << >>, Len(d) <= Len(c.fields)
  PROVE  Grows(t, c, d)
<1> DEFINE n == Len(Tail(d))
<1>1. n \in Nat /\ Len(d) = n + 1 /\ Tail(d) \in Seq({"plain", "reflected"}) /\ Len(d) \in Nat
  BY Zenon, ShorterIs
<1>2. Len(c.fields) \in Nat
  BY ScriptsAssumption
<1> HIDE DEF n
<1>3. n + 1 <= Len(c.fields)
  BY <1>1, Zenon
<1>4. n <= Len(c.fields)
  BY Zenon, <1>1, <1>2, <1>3, OneMore
<1>5. Added(t, c, n) = Append(Added(t, c, Len(d)), <<t, Len(d)>>)
  BY <1>1, <1>3, AddedIs, ZenonT(60)
<1>6. Added(t, c, Len(d)) \in Seq(Piece) /\ Begun(t, c) \in Seq(Piece)
  BY <1>1, AddedIs, Zenon
<1>7. <<t, Len(d)>> \in Piece
  BY <1>1, PieceIs, Zenon
<1>8. JoinsAt(Begun(t, c), Added(t, c, Len(d)), <<t, Len(d)>>)
  BY <1>6, <1>7, JoinAppend, Zenon
<1>9. /\ Append(Begun(t, c) \o Added(t, c, Len(d)), <<t, Len(d)>>) = Begun(t, c) \o Added(t, c, n)
      /\ (Begun(t, c) \o Added(t, c, Len(d))) \o <<<<t, Len(d)>>>> = Begun(t, c) \o Added(t, c, n)
  BY <1>5, <1>8, Zenon DEF JoinsAt
<1> QED BY <1>1, <1>4, <1>9, Zenon DEF n, Grows

\* No field left: the line is whole once the stack follows.
Ends(t, c) ==
  /\ ~c.console => (Begun(t, c) \o Added(t, c, 0)) \o Trace(t, c) = Whole(t, c)
  /\ c.console => (<<<<t, "entry">>>> \o (Begun(t, c) \o Added(t, c, 0))) \o Trace(t, c)
                    = Whole(t, c)

\* With the last field added and the stack after it the line is whole.
LEMMA Finished ==
  ASSUME NEW p \in Procs, NEW c \in Scripts, NEW t, t = <<p, c.id>>
  PROVE  Ends(t, c)
<1>1. CASE ~c.console
  BY <1>1, Zenon DEF Begun, Whole, Ends
<1>2. CASE c.console
  <2>1. 0 \in Nat /\ 0 <= Len(c.fields)
    BY ScriptsAssumption
  <2>2. Added(t, c, 0) \in Seq(Piece)
    BY <2>1, AddedIs, Zenon
  <2> DEFINE x == <<t, "entry">>
             a == Added(t, c, 0)
  <2>3. x \in Piece /\ "context" \in Piece /\ a \in Seq(Piece)
    BY <2>2, PieceIs, Zenon
  <2> HIDE DEF x, a
  <2>4. <<x>> \o (<<"context">> \o a) = <<x, "context">> \o a
    BY <2>3, JoinFirst
  <2> QED BY <1>2, <2>4, Zenon DEF Begun, Whole, Ends, x, a
<1> QED BY <1>1, <1>2, Zenon

\* The frames formatted are the stack of the call.
LEMMA FormattedIs ==
  ASSUME NEW c \in Scripts, NEW t, c.addStack, c.depth # 0
  PROVE  [i \in 1 .. (IF c.depth = 1 THEN 1 ELSE c.depth - 1) |-> <<t, "frame", i>>] = Trace(t, c)
<1>1. c.depth \in Nat
  BY Zenon, ScriptsAssumption
<1>2. (IF c.depth = 1 THEN 1 ELSE c.depth - 1) = (IF c.depth < 2 THEN c.depth ELSE c.depth - 1)
  BY <1>1
<1> QED BY <1>2, Zenon DEF Trace

\* No frame: no stack, whether or not it is asked for.
LEMMA NoStack ==
  ASSUME NEW c \in Scripts, NEW t, c.depth = 0 \/ ~c.addStack
  PROVE  Trace(t, c) = << >>
BY DEF Trace
-----------------------------------------------------------------------------
(* What a goroutine holds.                                                 *)

\* The clone of p's call and the buffers that p may refer to: the line's, the clone's
\* and the clone's reflectBuf.
EncOf(p) == IF mine[p].enc = Nil THEN Blank ELSE enc[mine[p].enc]

Slot(p, k) ==
  CASE k = "line" -> mine[p].buf
    [] k = "clone" -> EncOf(p).buf
    [] k = "reflect" -> EncOf(p).reflectBuf
Kinds == {"line", "clone", "reflect"}

\* What is in a buffer of p and in its slice encoder.
In(p, k) == IF Slot(p, k) = Nil THEN << >> ELSE bs[Slot(p, k)]
ElemsOf(p) == IF mine[p].arr = Nil THEN << >> ELSE elems[mine[p].arr]

\* No buffer, encoder or slice encoder is held twice, or held and pooled.
BufsApart ==
  /\ \A p, q \in Procs : \A j, k \in Kinds :
       Slot(p, j) = Slot(q, k) /\ Slot(p, j) # Nil => p = q /\ j = k
  /\ \A p \in Procs : \A k \in Kinds : Slot(p, k) \notin pool.bufs
EncsApart ==
  /\ \A p, q \in Procs : mine[p].enc = mine[q].enc /\ mine[p].enc # Nil => p = q
  /\ \A p \in Procs : mine[p].enc \notin pool.encs
ArrsApart ==
  /\ \A p, q \in Procs : mine[p].arr = mine[q].arr /\ mine[p].arr # Nil => p = q
  /\ \A p \in Procs : mine[p].arr \notin pool.arrs

\* What Put leaves in an object.
Clean ==
  /\ \A e \in pool.encs : enc[e] = Blank
  /\ \A a \in pool.arrs : elems[a] = << >>

\* The types.
Labels == {"idle", "capture", "expand", "format", "copy", "annotated", "line", "elems", "clone",
           "fields", "reflected", "write", "free"}
Holding == [stack : Stacks \cup {Nil}, buf : Bufs \cup {Nil}, enc : Encs \cup {Nil},
            arr : Arrs \cup {Nil}]
Encoder == [buf : Bufs \cup {Nil}, reflectBuf : Bufs \cup {Nil}]
Pooled == [bufs : SUBSET Bufs, encs : SUBSET Encs, arrs : SUBSET Arrs,
           stacks : SUBSET (Stacks \cup {Nil})]

PoolTypes ==
  /\ ppc \in [Procs -> Labels] /\ pcall \in [Procs -> Scripts]
  /\ mine \in [Procs -> Holding] /\ enc \in [Encs -> Encoder] /\ pool \in Pooled
  /\ DOMAIN bs = Bufs /\ DOMAIN elems = Arrs
  /\ DOMAIN frames = Procs /\ DOMAIN text = Procs /\ DOMAIN todo = Procs /\ DOMAIN line = Procs
-----------------------------------------------------------------------------
(* Where a call is: t is its tag, c the call, m what it holds, e its       *)
(* clone, f the frames captured, x its stack, d the fields to come, l, b   *)
(* and r what is in its line, its clone and its reflection buffer.         *)
Bare(m) == m.buf = Nil /\ m.enc = Nil /\ m.arr = Nil

AtCapture(c, m, x, d) == Bare(m) /\ x = << >> /\ d = c.fields
AtExpand(c, m, f, x, d) ==
  AtCapture(c, m, x, d) /\ c.addStack /\ f.got = Least(c.depth, f.room)
AtFormat(c, m, f, x, d) ==
  AtCapture(c, m, x, d) /\ c.addStack /\ f.got = c.depth /\ c.depth # 0
AtCopy(t, c, m, d, l) ==
  m.enc = Nil /\ m.arr = Nil /\ m.buf # Nil /\ d = c.fields /\ l = Trace(t, c)
AtAnnotated(t, c, m, x, d) == Bare(m) /\ d = c.fields /\ x = Trace(t, c)
AtLine(t, c, m, x, d) == AtAnnotated(t, c, m, x, d) /\ c.console
AtElems(t, c, m, x, d, l, es) ==
  /\ m.enc = Nil /\ m.arr # Nil /\ m.buf # Nil /\ d = c.fields /\ x = Trace(t, c) /\ c.console
  /\ l = << >> /\ es = <<<<t, "entry">>>>
Started(t, c, m, x, l) ==
  /\ m.arr = Nil /\ x = Trace(t, c)
  /\ c.console => m.buf # Nil /\ l = <<<<t, "entry">>>>
  /\ ~c.console => m.buf = Nil
AtClone(t, c, m, x, d, l) == Started(t, c, m, x, l) /\ m.enc = Nil /\ d = c.fields
AtFields(t, c, m, e, x, d, l, b) ==
  /\ Started(t, c, m, x, l) /\ m.enc # Nil /\ e.buf # Nil
  /\ d \in Seq({"plain", "reflected"}) /\ Len(d) <= Len(c.fields)
  /\ b = Begun(t, c) \o Added(t, c, Len(d))
AtReflected(t, c, m, e, x, d, l, b, r) ==
  /\ AtFields(t, c, m, e, x, d, l, b) /\ d # << >>
  /\ e.reflectBuf # Nil /\ r = <<<<t, Len(d)>>>>
AtWrite(t, c, m, l) == m.enc = Nil /\ m.arr = Nil /\ m.buf # Nil /\ l = Whole(t, c)
AtFree(t, c, m, ln) == m.enc = Nil /\ m.arr = Nil /\ m.buf # Nil /\ ln = Whole(t, c)

Where(a, t, c, m, e, f, x, d, ln, l, b, r, es) ==
  /\ a = "idle" => Bare(m)
  /\ a = "capture" => AtCapture(c, m, x, d)
  /\ a = "expand" => AtExpand(c, m, f, x, d)
  /\ a = "format" => AtFormat(c, m, f, x, d)
  /\ a = "copy" => AtCopy(t, c, m, d, l)
  /\ a = "annotated" => AtAnnotated(t, c, m, x, d)
  /\ a = "line" => AtLine(t, c, m, x, d)
  /\ a = "elems" => AtElems(t, c, m, x, d, l, es)
  /\ a = "clone" => AtClone(t, c, m, x, d, l)
  /\ a = "fields" => AtFields(t, c, m, e, x, d, l, b)
  /\ a = "reflected" => AtReflected(t, c, m, e, x, d, l, b, r)
  /\ a = "write" => AtWrite(t, c, m, l)
  /\ a = "free" => AtFree(t, c, m, ln)

\* At each label one of the thirteen cases says everything.
LEMMA AtLabel ==
  ASSUME NEW t, NEW c, NEW m, NEW e, NEW f, NEW x, NEW d, NEW ln, NEW l, NEW b, NEW r, NEW es
  PROVE  /\ Where("idle", t, c, m, e, f, x, d, ln, l, b, r, es) <=> Bare(m)
         /\ Where("capture", t, c, m, e, f, x, d, ln, l, b, r, es) <=> AtCapture(c, m, x, d)
         /\ Where("expand", t, c, m, e, f, x, d, ln, l, b, r, es) <=> AtExpand(c, m, f, x, d)
         /\ Where("format", t, c, m, e, f, x, d, ln, l, b, r, es) <=> AtFormat(c, m, f, x, d)
         /\ Where("copy", t, c, m, e, f, x, d, ln, l, b, r, es) <=> AtCopy(t, c, m, d, l)
         /\ Where("annotated", t, c, m, e, f, x, d, ln, l, b, r, es) <=> AtAnnotated(t, c, m, x, d)
         /\ Where("line", t, c, m, e, f, x, d, ln, l, b, r, es) <=> AtLine(t, c, m, x, d)
         /\ Where("elems", t, c, m, e, f, x, d, ln, l, b, r, es) <=> AtElems(t, c, m, x, d, l, es)
         /\ Where("clone", t, c, m, e, f, x, d, ln, l, b, r, es) <=> AtClone(t, c, m, x, d, l)
         /\ Where("fields", t, c, m, e, f, x, d, ln, l, b, r, es) <=> AtFields(t, c, m, e, x, d, l, b)
         /\ Where("reflected", t, c, m, e, f, x, d, ln, l, b, r, es) <=> AtReflected(t, c, m, e, x, d, l, b, r)
         /\ Where("write", t, c, m, e, f, x, d, ln, l, b, r, es) <=> AtWrite(t, c, m, l)
         /\ Where("free", t, c, m, e, f, x, d, ln, l, b, r, es) <=> AtFree(t, c, m, ln)
<1>1. Where("idle", t, c, m, e, f, x, d, ln, l, b, r, es) <=> Bare(m)
  BY Zenon DEF Where
<1>2. Where("capture", t, c, m, e, f, x, d, ln, l, b, r, es) <=> AtCapture(c, m, x, d)
  BY Zenon DEF Where
<1>3. Where("expand", t, c, m, e, f, x, d, ln, l, b, r, es) <=> AtExpand(c, m, f, x, d)
  BY Zenon DEF Where
<1>4. Where("format", t, c, m, e, f, x, d, ln, l, b, r, es) <=> AtFormat(c, m, f, x, d)
  BY Zenon DEF Where
<1>5. Where("copy", t, c, m, e, f, x, d, ln, l, b, r, es) <=> AtCopy(t, c, m, d, l)
  BY Zenon DEF Where
<1>6. Where("annotated", t, c, m, e, f, x, d, ln, l, b, r, es) <=> AtAnnotated(t, c, m, x, d)
  BY Zenon DEF Where
<1>7. Where("line", t, c, m, e, f, x, d, ln, l, b, r, es) <=> AtLine(t, c, m, x, d)
  BY Zenon DEF Where
<1>8. Where("elems", t, c, m, e, f, x, d, ln, l, b, r, es) <=> AtElems(t, c, m, x, d, l, es)
  BY Zenon DEF Where
<1>9. Where("clone", t, c, m, e, f, x, d, ln, l, b, r, es) <=> AtClone(t, c, m, x, d, l)
  BY Zenon DEF Where
<1>10. Where("fields", t, c, m, e, f, x, d, ln, l, b, r, es) <=> AtFields(t, c, m, e, x, d, l, b)
  BY Zenon DEF Where
<1>11. Where("reflected", t, c, m, e, f, x, d, ln, l, b, r, es) <=> AtReflected(t, c, m, e, x, d, l, b, r)
  BY Zenon DEF Where
<1>12. Where("write", t, c, m, e, f, x, d, ln, l, b, r, es) <=> AtWrite(t, c, m, l)
  BY Zenon DEF Where
<1>13. Where("free", t, c, m, e, f, x, d, ln, l, b, r, es) <=> AtFree(t, c, m, ln)
  BY Zenon DEF Where
<1> QED BY <1>1, <1>2, <1>3, <1>4, <1>5, <1>6, <1>7, <1>8, <1>9, <1>10, <1>11, <1>12, <1>13, Zenon

\* The call of p is where its label says, with the buffers that it should have there.
Right(p) ==
  Where(ppc[p], Tag(p), pcall[p], mine[p], EncOf(p), frames[p], text[p], todo[p], line[p],
     In(p, "line"), In(p, "clone"), In(p, "reflect"), ElemsOf(p))

\* The inductive invariant.
PoolInv ==
  PoolTypes /\ BufsApart /\ EncsApart /\ ArrsApart /\ Clean /\ \A p \in Procs : Right(p)
-----------------------------------------------------------------------------
\* The three buffers that a call may hold.
LEMMA SlotIs ==
  ASSUME NEW p
  PROVE  /\ Slot(p, "line") = mine[p].buf /\ Slot(p, "clone") = EncOf(p).buf
         /\ Slot(p, "reflect") = EncOf(p).reflectBuf
         /\ Slot(p, "line")' = mine'[p].buf /\ Slot(p, "clone")' = EncOf(p)'.buf
         /\ Slot(p, "reflect")' = EncOf(p)'.reflectBuf
BY Zenon DEF Slot

\* There are three of them.
LEMMA KindsAre ==
  /\ "line" \in Kinds /\ "clone" \in Kinds /\ "reflect" \in Kinds
  /\ \A k \in Kinds : k = "line" \/ k = "clone" \/ k = "reflect"
BY Zenon DEF Kinds

\* p takes buffers from the pool and gives some of its own back.
Exchanged(p) ==
  /\ \A q \in Procs : q # p => \A k \in Kinds : Slot(q, k)' = Slot(q, k)
  /\ \A k \in Kinds : \/ Slot(p, k)' = Nil
                      \/ Slot(p, k)' \in pool.bufs
                      \/ \E j \in Kinds : Slot(p, k)' = Slot(p, j)
  /\ \A j, k \in Kinds : Slot(p, j)' = Slot(p, k)' /\ Slot(p, j)' # Nil => j = k
  /\ \A b \in pool'.bufs : b # Nil /\ (b \in pool.bufs \/ \E j \in Kinds : b = Slot(p, j))
  /\ \A k \in Kinds : Slot(p, k)' \notin pool'.bufs

\* Taking buffers from the pool (bufferpool.Get) and putting back those of the call
\* (Buffer.Free) leaves no buffer held twice, or held and pooled.
LEMMA BufsApartStep ==
  ASSUME NEW p \in Procs, BufsApart, Exchanged(p)
  PROVE  BufsApart'
<1>1. ASSUME NEW q \in Procs, NEW r \in Procs, NEW j \in Kinds, NEW k \in Kinds,
             Slot(q, j)' = Slot(r, k)', Slot(q, j)' # Nil
      PROVE  q = r /\ j = k
  <2>1. CASE q = p /\ r = p
    BY <1>1, <2>1, Zenon DEF Exchanged
  <2>2. CASE q # p /\ r # p
    BY <1>1, <2>2 DEF Exchanged, BufsApart
  <2>3. CASE q = p /\ r # p
    BY <1>1, <2>3 DEF Exchanged, BufsApart
  <2>4. CASE q # p /\ r = p
    BY <1>1, <2>4 DEF Exchanged, BufsApart
  <2> QED BY <2>1, <2>2, <2>3, <2>4, Zenon
<1>2. ASSUME NEW q \in Procs, NEW k \in Kinds
      PROVE  Slot(q, k)' \notin pool'.bufs
  <2>1. CASE q = p
    BY <2>1, Zenon DEF Exchanged
  <2>2. CASE q # p
    BY <2>2 DEF Exchanged, BufsApart
  <2> QED BY <2>1, <2>2, Zenon
<1> QED BY <1>1, <1>2 DEF BufsApart

\* The same for encoders and slice encoders, of which it holds one at a time.
LEMMA EncsApartStep ==
  ASSUME NEW p \in Procs, EncsApart,
         \A q \in Procs : q # p => mine'[q] = mine[q],
         mine'[p].enc = Nil \/ mine'[p].enc \in pool.encs \/ mine'[p].enc = mine[p].enc,
         \A e \in pool'.encs : e # Nil /\ (e \in pool.encs \/ e = mine[p].enc),
         mine'[p].enc \notin pool'.encs
  PROVE  EncsApart'
<1>1. ASSUME NEW q \in Procs, NEW r \in Procs, mine'[q].enc = mine'[r].enc, mine'[q].enc # Nil
      PROVE  q = r
  <2>1. CASE q # p /\ r # p
    BY <1>1, <2>1, ZenonT(60) DEF EncsApart
  <2>2. CASE q = p /\ r # p
    <3>1. mine'[r].enc = mine[r].enc /\ mine[r].enc \notin pool.encs
      BY <2>2, Zenon DEF EncsApart
    <3> QED BY <1>1, <2>2, <3>1, Zenon DEF EncsApart
  <2>3. CASE q # p /\ r = p
    <3>1. mine'[q].enc = mine[q].enc /\ mine[q].enc \notin pool.encs
      BY <2>3, Zenon DEF EncsApart
    <3> QED BY <1>1, <2>3, <3>1, Zenon DEF EncsApart
  <2> QED BY <2>1, <2>2, <2>3, Zenon
<1>2. ASSUME NEW q \in Procs PROVE mine'[q].enc \notin pool'.encs
  <2>1. CASE q = p
    BY <2>1, Zenon
  <2>2. CASE q # p
    BY <2>2, Zenon DEF EncsApart
  <2> QED BY <2>1, <2>2, Zenon
<1> QED BY <1>1, <1>2, Zenon DEF EncsApart

\* The same for the slice encoders (getSliceEncoder, putSliceEncoder).
LEMMA ArrsApartStep ==
  ASSUME NEW p \in Procs, ArrsApart,
         \A q \in Procs : q # p => mine'[q] = mine[q],
         mine'[p].arr = Nil \/ mine'[p].arr \in pool.arrs \/ mine'[p].arr = mine[p].arr,
         \A a \in pool'.arrs : a # Nil /\ (a \in pool.arrs \/ a = mine[p].arr),
         mine'[p].arr \notin pool'.arrs
  PROVE  ArrsApart'
<1>1. ASSUME NEW q \in Procs, NEW r \in Procs, mine'[q].arr = mine'[r].arr, mine'[q].arr # Nil
      PROVE  q = r
  <2>1. CASE q # p /\ r # p
    BY <1>1, <2>1, ZenonT(60) DEF ArrsApart
  <2>2. CASE q = p /\ r # p
    <3>1. mine'[r].arr = mine[r].arr /\ mine[r].arr \notin pool.arrs
      BY <2>2, Zenon DEF ArrsApart
    <3> QED BY <1>1, <2>2, <3>1, Zenon DEF ArrsApart
  <2>3. CASE q # p /\ r = p
    <3>1. mine'[q].arr = mine[q].arr /\ mine[q].arr \notin pool.arrs
      BY <2>3, Zenon DEF ArrsApart
    <3> QED BY <1>1, <2>3, <3>1, ZenonT(60) DEF ArrsApart
  <2> QED BY <2>1, <2>2, <2>3, Zenon
<1>2. ASSUME NEW q \in Procs PROVE mine'[q].arr \notin pool'.arrs
  <2>1. CASE q = p
    BY <2>1, Zenon
  <2>2. CASE q # p
    BY <2>2, Zenon DEF ArrsApart
  <2> QED BY <2>1, <2>2, Zenon
<1> QED BY <1>1, <1>2, Zenon DEF ArrsApart

\* What a step of p leaves alone: all that is not its own or pooled.
Beside(p) ==
  /\ \A q \in Procs : q # p =>
       /\ ppc'[q] = ppc[q] /\ pcall'[q] = pcall[q] /\ mine'[q] = mine[q]
       /\ frames'[q] = frames[q] /\ text'[q] = text[q] /\ todo'[q] = todo[q]
       /\ line'[q] = line[q]
  /\ \A e \in Encs : e \notin pool.encs /\ e # mine[p].enc => enc'[e] = enc[e]
  /\ \A a \in Arrs : a \notin pool.arrs /\ a # mine[p].arr => elems'[a] = elems[a]
  /\ \A b \in Bufs : b \notin pool.bufs /\ (\A k \in Kinds : b # Slot(p, k)) => bs'[b] = bs[b]

\* What a call refers to is an object of its kind.
LEMMA HeldAre ==
  ASSUME PoolTypes, NEW q \in Procs
  PROVE  /\ mine[q].enc # Nil => mine[q].enc \in Encs
         /\ mine[q].arr # Nil => mine[q].arr \in Arrs
         /\ \A k \in Kinds : Slot(q, k) # Nil => Slot(q, k) \in Bufs
<1>1. mine[q].enc # Nil => mine[q].enc \in Encs
  BY Zenon DEF PoolTypes, Holding
<1>2. mine[q].arr # Nil => mine[q].arr \in Arrs
  BY Zenon DEF PoolTypes, Holding
<1>3. mine[q].buf # Nil => mine[q].buf \in Bufs
  BY Zenon DEF PoolTypes, Holding
<1>4. (EncOf(q).buf # Nil => EncOf(q).buf \in Bufs)
        /\ (EncOf(q).reflectBuf # Nil => EncOf(q).reflectBuf \in Bufs)
  BY <1>1, Zenon DEF PoolTypes, Encoder, EncOf, Blank
<1> QED BY <1>1, <1>2, <1>3, <1>4, SlotIs, KindsAre, Zenon

\* A step that touches only pooled objects and those of p leaves every other call, and
\* all that its line is being made of, as they were.
LEMMA Bystander ==
  ASSUME PoolInv, NEW p \in Procs, Beside(p), NEW q \in Procs, q # p
  PROVE  Right(q)' /\ \A k \in Kinds : Slot(q, k)' = Slot(q, k)
<1>1. mine'[q] = mine[q] /\ ppc'[q] = ppc[q] /\ pcall'[q] = pcall[q] /\ frames'[q] = frames[q]
        /\ text'[q] = text[q] /\ todo'[q] = todo[q] /\ line'[q] = line[q]
  BY Zenon DEF Beside
<1>2. EncOf(q)' = EncOf(q)
  <2>1. CASE mine[q].enc = Nil
    BY <1>1, <2>1, Zenon DEF EncOf
  <2>2. CASE mine[q].enc # Nil
    <3>1. mine[q].enc \in Encs /\ mine[q].enc \notin pool.encs /\ mine[q].enc # mine[p].enc
      BY <2>2, HeldAre, Zenon DEF PoolInv, EncsApart
    <3>2. enc'[mine[q].enc] = enc[mine[q].enc]
      BY <3>1, Zenon DEF Beside
    <3> QED BY <1>1, <3>2, Zenon DEF EncOf
  <2> QED BY <2>1, <2>2, Zenon
<1>3. ASSUME NEW k \in Kinds PROVE Slot(q, k)' = Slot(q, k)
  BY <1>1, <1>2, SlotIs, KindsAre, ZenonT(60)
<1>4. ASSUME NEW k \in Kinds PROVE In(q, k)' = In(q, k)
  <2>0. Slot(q, k)' = Slot(q, k)
    BY Zenon, <1>3
  <2>1. CASE Slot(q, k) = Nil
    BY <2>0, <2>1, Zenon DEF In
  <2>2. CASE Slot(q, k) # Nil
    <3>1. Slot(q, k) \in Bufs /\ Slot(q, k) \notin pool.bufs
      BY <2>2, HeldAre, Zenon DEF PoolInv, BufsApart
    <3>2. \A j \in Kinds : Slot(q, k) # Slot(p, j)
      BY <2>2, ZenonT(60) DEF PoolInv, BufsApart
    <3>3. bs'[Slot(q, k)] = bs[Slot(q, k)]
      BY <3>1, <3>2, Zenon DEF Beside
    <3> QED BY <2>0, <3>3, Zenon DEF In
  <2> QED BY <2>1, <2>2, Zenon
<1>5. ElemsOf(q)' = ElemsOf(q)
  <2>1. CASE mine[q].arr = Nil
    BY <1>1, <2>1, Zenon DEF ElemsOf
  <2>2. CASE mine[q].arr # Nil
    <3>1. mine[q].arr \in Arrs /\ mine[q].arr \notin pool.arrs /\ mine[q].arr # mine[p].arr
      BY <2>2, HeldAre, Zenon DEF PoolInv, ArrsApart
    <3>2. elems'[mine[q].arr] = elems[mine[q].arr]
      BY <3>1, Zenon DEF Beside
    <3> QED BY <1>1, <3>2, Zenon DEF ElemsOf
  <2> QED BY <2>1, <2>2, Zenon
<1>6. Tag(q)' = Tag(q)
  BY <1>1, Zenon DEF Tag
<1>7. Right(q)
  BY Zenon DEF PoolInv
<1>8. In(q, "line")' = In(q, "line") /\ In(q, "clone")' = In(q, "clone")
        /\ In(q, "reflect")' = In(q, "reflect")
  BY <1>4, KindsAre, Zenon
<1>9. Right(q)'
  BY <1>1, <1>2, <1>5, <1>6, <1>7, <1>8, Zenon DEF Right
<1> QED BY <1>3, <1>9, Zenon
-----------------------------------------------------------------------------
(* What assignments to parts of mine, enc and pool do.                     *)
\* Assigning the stack leaves the other variables of the call.
LEMMA SetStack ==
  ASSUME NEW m \in [Procs -> Holding], NEW p \in Procs, NEW x \in Stacks \cup {Nil},
         NEW n, n = [m EXCEPT ![p].stack = x]
  PROVE  /\ n \in [Procs -> Holding] /\ \A q \in Procs : q # p => n[q] = m[q]
         /\ n[p].buf = m[p].buf /\ n[p].enc = m[p].enc /\ n[p].arr = m[p].arr
BY Zenon DEF Holding

\* Assigning the line's buffer does.
LEMMA SetBuf ==
  ASSUME NEW m \in [Procs -> Holding], NEW p \in Procs, NEW x \in Bufs \cup {Nil},
         NEW n, n = [m EXCEPT ![p].buf = x]
  PROVE  /\ n \in [Procs -> Holding] /\ \A q \in Procs : q # p => n[q] = m[q]
         /\ n[p].buf = x /\ n[p].enc = m[p].enc /\ n[p].arr = m[p].arr
BY Zenon DEF Holding

\* Assigning the clone does.
LEMMA SetEnc ==
  ASSUME NEW m \in [Procs -> Holding], NEW p \in Procs, NEW x \in Encs \cup {Nil},
         NEW n, n = [m EXCEPT ![p].enc = x]
  PROVE  /\ n \in [Procs -> Holding] /\ \A q \in Procs : q # p => n[q] = m[q]
         /\ n[p].buf = m[p].buf /\ n[p].enc = x /\ n[p].arr = m[p].arr
BY Zenon DEF Holding

\* Assigning the slice encoder does.
LEMMA SetArr ==
  ASSUME NEW m \in [Procs -> Holding], NEW p \in Procs, NEW x \in Arrs \cup {Nil},
         NEW n, n = [m EXCEPT ![p].arr = x]
  PROVE  /\ n \in [Procs -> Holding] /\ \A q \in Procs : q # p => n[q] = m[q]
         /\ n[p].buf = m[p].buf /\ n[p].enc = m[p].enc /\ n[p].arr = x
BY Zenon DEF Holding

\* The pools hold objects of their kinds.
LEMMA PoolIs ==
  ASSUME NEW P \in Pooled
  PROVE  P.bufs \subseteq Bufs /\ P.encs \subseteq Encs /\ P.arrs \subseteq Arrs
BY Zenon DEF Pooled
-----------------------------------------------------------------------------
\* What a step has to be shown to do.
LEMMA Together ==
  ASSUME PoolInv, NEW p \in Procs, PoolTypes', Clean', Beside(p), Right(p)',
         \A k \in Kinds : \/ Slot(p, k)' = Nil
                          \/ Slot(p, k)' \in pool.bufs
                          \/ \E j \in Kinds : Slot(p, k)' = Slot(p, j),
         \A j, k \in Kinds : Slot(p, j)' = Slot(p, k)' /\ Slot(p, j)' # Nil => j = k,
         \A b \in pool'.bufs : b \in pool.bufs \/ \E j \in Kinds : b = Slot(p, j),
         \A k \in Kinds : Slot(p, k)' \notin pool'.bufs,
         mine'[p].enc = Nil \/ mine'[p].enc \in pool.encs \/ mine'[p].enc = mine[p].enc,
         \A e \in pool'.encs : e \in pool.encs \/ e = mine[p].enc,
         mine'[p].enc \notin pool'.encs,
         mine'[p].arr = Nil \/ mine'[p].arr \in pool.arrs \/ mine'[p].arr = mine[p].arr,
         \A a \in pool'.arrs : a \in pool.arrs \/ a = mine[p].arr,
         mine'[p].arr \notin pool'.arrs
  PROVE  PoolInv'
<1>1. Nil \notin pool'.bufs /\ Nil \notin pool'.encs /\ Nil \notin pool'.arrs
  <2>1. pool' \in Pooled
    BY Zenon DEF PoolTypes
  <2> QED BY Zenon, <2>1, PoolIs, NilAssumption
<1>2. \A q \in Procs : q # p => Right(q)' /\ \A k \in Kinds : Slot(q, k)' = Slot(q, k)
  BY Bystander, Zenon
<1>3. BufsApart'
  <2>1. Exchanged(p)
    BY <1>1, <1>2, Zenon DEF Exchanged
  <2> QED BY <2>1, BufsApartStep, Zenon DEF PoolInv
<1>4. \A q \in Procs : q # p => mine'[q] = mine[q]
  BY Zenon DEF Beside
<1>5. EncsApart'
  <2>1. \A e \in pool'.encs : e # Nil /\ (e \in pool.encs \/ e = mine[p].enc)
    BY <1>1, Zenon
  <2> QED BY <1>4, <2>1, EncsApartStep, Zenon DEF PoolInv
<1>6. ArrsApart'
  <2>1. \A a \in pool'.arrs : a # Nil /\ (a \in pool.arrs \/ a = mine[p].arr)
    BY <1>1, Zenon
  <2> QED BY <1>4, <2>1, ArrsApartStep, Zenon DEF PoolInv
<1>7. \A q \in Procs : Right(q)'
  BY <1>2, Zenon
<1> QED BY <1>3, <1>5, <1>6, <1>7, Zenon DEF PoolInv

\* A step that takes nothing from the pools and gives nothing back.
Keeps(p) ==
  /\ mine'[p].buf = mine[p].buf /\ mine'[p].enc = mine[p].enc /\ mine'[p].arr = mine[p].arr
  /\ pool'.bufs = pool.bufs /\ pool'.encs = pool.encs /\ pool'.arrs = pool.arrs
  /\ enc' = enc /\ elems' = elems

\* A step that exchanges nothing with the pools leaves the buffers of its call where
\* they are.
LEMMA KeepsSlots ==
  ASSUME NEW p, Keeps(p)
  PROVE  EncOf(p)' = EncOf(p) /\ \A k \in Kinds : Slot(p, k)' = Slot(p, k)
<1>1. EncOf(p)' = EncOf(p)
  BY Zenon DEF EncOf, Keeps
<1> QED BY <1>1, SlotIs, KindsAre, ZenonT(60) DEF Keeps

\* Such a step preserves the invariant if its own call is right after it.
LEMMA KeepsStep ==
  ASSUME PoolInv, NEW p \in Procs, PoolTypes', Beside(p), Keeps(p), Right(p)'
  PROVE  PoolInv'
<1>1. \A k \in Kinds : Slot(p, k)' = Slot(p, k)
  BY KeepsSlots, Zenon
<1>2. Clean'
  BY Zenon DEF Clean, Keeps, PoolInv
<1>3. \A k \in Kinds : \/ Slot(p, k)' = Nil
                       \/ Slot(p, k)' \in pool.bufs
                       \/ \E j \in Kinds : Slot(p, k)' = Slot(p, j)
  BY <1>1, Zenon
<1>4. \A j, k \in Kinds : Slot(p, j)' = Slot(p, k)' /\ Slot(p, j)' # Nil => j = k
  <2>1. ASSUME NEW j \in Kinds, NEW k \in Kinds, Slot(p, j)' = Slot(p, k)', Slot(p, j)' # Nil
        PROVE  j = k
    BY <1>1, <2>1 DEF PoolInv, BufsApart
  <2> QED BY <2>1, Zenon
<1>5. \A k \in Kinds : Slot(p, k)' \notin pool'.bufs
  <2>1. ASSUME NEW k \in Kinds PROVE Slot(p, k)' \notin pool'.bufs
    BY <1>1, Zenon DEF PoolInv, BufsApart, Keeps
  <2> QED BY <2>1, Zenon
<1>6. mine'[p].enc \notin pool'.encs /\ mine'[p].arr \notin pool'.arrs
  BY Zenon DEF PoolInv, EncsApart, ArrsApart, Keeps
<1>7. /\ mine'[p].enc = mine[p].enc /\ mine'[p].arr = mine[p].arr
      /\ pool'.bufs = pool.bufs /\ pool'.encs = pool.encs /\ pool'.arrs = pool.arrs
  BY Zenon DEF Keeps
<1> HIDE DEF Keeps
<1> QED BY <1>2, <1>3, <1>4, <1>5, <1>6, <1>7, Together, Zenon
-----------------------------------------------------------------------------
(* One lemma for each operation.                                           *)

\* Where the call goes next.
LEMMA LabelsAre ==
  ASSUME PoolTypes, NEW p \in Procs, NEW l \in Labels, Goto(p, l)
  PROVE  ppc' \in [Procs -> Labels] /\ ppc'[p] = l /\ \A q \in Procs : q # p => ppc'[q] = ppc[q]
BY Zenon DEF PoolTypes, Goto

\* Assigning one element of a function leaves the others.
LEMMA SetAt ==
  ASSUME NEW f, NEW p, NEW x
  PROVE  /\ DOMAIN [f EXCEPT ![p] = x] = DOMAIN f
         /\ p \in DOMAIN f => [f EXCEPT ![p] = x][p] = x
         /\ \A q \in DOMAIN f : q # p => [f EXCEPT ![p] = x][q] = f[q]
BY Zenon

\* A log call begins (Logger.check).
LEMMA StartStep ==
  ASSUME PoolInv, NEW p \in Procs, NEW c \in Scripts, Start(p, c)
  PROVE  PoolInv'
<1>1. PoolTypes /\ Right(p)
  BY Zenon DEF PoolInv
<1>2. ppc' \in [Procs -> Labels] /\ ppc'[p] = "capture" /\ \A q \in Procs : q # p => ppc'[q] = ppc[q]
  BY <1>1, LabelsAre, Zenon DEF Start, Labels
<1>3. pcall' \in [Procs -> Scripts] /\ pcall'[p] = c /\ \A q \in Procs : q # p => pcall'[q] = pcall[q]
  BY <1>1, Zenon DEF Start, PoolTypes
<1>4. DOMAIN text' = Procs /\ text'[p] = << >> /\ \A q \in Procs : q # p => text'[q] = text[q]
  BY <1>1, Zenon DEF Start, PoolTypes
<1>5. DOMAIN todo' = Procs /\ todo'[p] = c.fields /\ \A q \in Procs : q # p => todo'[q] = todo[q]
  BY <1>1, Zenon DEF Start, PoolTypes
<1>6. PoolTypes'
  BY <1>1, <1>2, <1>3, <1>4, <1>5, Zenon DEF Start, PoolTypes
<1>7. Beside(p)
  BY <1>2, <1>3, <1>4, <1>5, Zenon DEF Start, Beside
<1>8. Keeps(p)
  BY Zenon DEF Start, Keeps
<1>9. Right(p)'
  <2>1. Bare(mine[p])
    BY <1>1, AtLabel, ZenonT(60) DEF Right, Start
  <2>2. AtCapture(pcall'[p], mine'[p], text'[p], todo'[p])
    BY <2>1, <1>3, <1>4, <1>5, Zenon DEF AtCapture, Start
  <2> QED BY <1>2, <2>2, AtLabel, Zenon DEF Right
<1> QED BY <1>6, <1>7, <1>8, <1>9, KeepsStep, Zenon

\* stacktrace.Capture takes a Stack from the pool.
LEMMA CaptureStep ==
  ASSUME PoolInv, NEW p \in Procs, NEW s \in Stacks, Capture(p, s)
  PROVE  PoolInv'
<1>1. PoolTypes /\ Right(p)
  BY Zenon DEF PoolInv
<1> DEFINE l == IF pcall[p].addStack THEN "expand" ELSE "annotated"
<1>2. ppc' \in [Procs -> Labels] /\ ppc'[p] = l /\ \A q \in Procs : q # p => ppc'[q] = ppc[q]
  <2>1. l \in Labels /\ Goto(p, l)
    BY Zenon DEF Capture, Labels
  <2> QED BY <1>1, <2>1, LabelsAre, Zenon
<1>3. /\ mine' \in [Procs -> Holding] /\ \A q \in Procs : q # p => mine'[q] = mine[q]
      /\ mine'[p].buf = mine[p].buf /\ mine'[p].enc = mine[p].enc /\ mine'[p].arr = mine[p].arr
  <2>1. mine \in [Procs -> Holding] /\ mine' = [mine EXCEPT ![p].stack = s] /\ s \in Stacks \cup {Nil}
    BY <1>1, Zenon DEF Capture, PoolTypes
  <2> QED BY <2>1, SetStack
<1>4. /\ pool' \in Pooled
      /\ pool'.bufs = pool.bufs /\ pool'.encs = pool.encs /\ pool'.arrs = pool.arrs
  <2>1. pool \in Pooled /\ pool' = [pool EXCEPT !.stacks = @ \ {s}]
    BY <1>1, Zenon DEF Capture, PoolTypes
  <2> QED BY <2>1, Zenon DEF Pooled
<1>5. DOMAIN frames' = Procs /\ \A q \in Procs : q # p => frames'[q] = frames[q]
  BY <1>1, Zenon DEF Capture, PoolTypes
<1>6. frames'[p].got = Least(pcall[p].depth, frames'[p].room)
  BY <1>1, Zenon DEF Capture, PoolTypes
<1>7. PoolTypes'
  BY <1>1, <1>2, <1>3, <1>4, <1>5, Zenon DEF Capture, PoolTypes
<1>8. Beside(p)
  BY <1>2, <1>3, <1>5, ZenonT(60) DEF Capture, Beside
<1>9. Keeps(p)
  BY <1>3, <1>4, Zenon DEF Capture, Keeps
<1>10. Right(p)'
  <2>1. AtCapture(pcall[p], mine[p], text[p], todo[p])
    BY <1>1, AtLabel, Zenon DEF Right, Capture
  <2>2. AtCapture(pcall'[p], mine'[p], text'[p], todo'[p]) /\ pcall' = pcall
    BY <2>1, <1>3, Zenon DEF AtCapture, Bare, Capture
  <2>3. CASE pcall[p].addStack
    <3>1. AtExpand(pcall'[p], mine'[p], frames'[p], text'[p], todo'[p])
      BY <1>6, <2>2, <2>3, Zenon DEF AtExpand
    <3> QED BY <1>2, <2>3, <3>1, AtLabel, Zenon DEF Right
  <2>4. CASE ~pcall[p].addStack
    <3>1. pcall[p] \in Scripts
      BY <1>1, Zenon DEF PoolTypes
    <3>2. Trace(Tag(p)', pcall'[p]) = << >>
      BY <2>2, <2>4, <3>1, NoStack, Zenon
    <3>3. AtAnnotated(Tag(p)', pcall'[p], mine'[p], text'[p], todo'[p])
      BY <2>2, <3>2, Zenon DEF AtAnnotated, AtCapture
    <3> QED BY <1>2, <2>4, <3>3, AtLabel, Zenon DEF Right
  <2> QED BY <2>3, <2>4, Zenon
<1> QED BY <1>7, <1>8, <1>9, <1>10, KeepsStep, Zenon

\* Callers returned fewer frames than there was room for: all there are.
LEMMA AllFrames ==
  ASSUME NEW d, NEW g, NEW r, g = Least(d, r), g # r
  PROVE  g = d
BY Zenon DEF Least

\* stacktrace.Capture doubles the storage until runtime.Callers leaves room in it, so
\* that the frames formatted are all of the call's.
LEMMA ExpandStep ==
  ASSUME PoolInv, NEW p \in Procs, Expand(p)
  PROVE  PoolInv'
<1>1. PoolTypes /\ Right(p) /\ pcall' = pcall /\ ppc[p] = "expand"
  BY Zenon DEF PoolInv, Expand
<1>2. AtExpand(pcall[p], mine[p], frames[p], text[p], todo[p])
  BY <1>1, AtLabel, ZenonT(60) DEF Right
<1>3. CASE frames[p].got = frames[p].room
  <2>1. frames' = [frames EXCEPT ![p] = [room |-> 2 * frames[p].room,
                                         got |-> Least(pcall[p].depth, 2 * frames[p].room)]]
    BY <1>3, Zenon DEF Expand
  <2>2. DOMAIN frames' = Procs /\ (\A q \in Procs : q # p => frames'[q] = frames[q])
          /\ frames'[p].got = Least(pcall[p].depth, frames'[p].room)
    BY <1>1, <2>1, Zenon DEF PoolTypes
  <2>3. ppc' = ppc
    BY <1>3, Zenon DEF Expand
  <2>4. PoolTypes'
    BY <1>1, <2>2, <2>3, Zenon DEF Expand, PoolTypes
  <2>5. Beside(p)
    BY <2>2, <2>3, Zenon DEF Expand, Beside
  <2>6. Keeps(p)
    BY Zenon DEF Expand, Keeps
  <2>7. AtExpand(pcall'[p], mine'[p], frames'[p], text'[p], todo'[p])
    BY <1>1, <1>2, <2>2, Zenon DEF AtExpand, Expand
  <2>8. Right(p)'
    BY <1>1, <2>3, <2>7, AtLabel, Zenon DEF Right
  <2> QED BY <2>4, <2>5, <2>6, <2>8, KeepsStep, Zenon
<1>4. CASE frames[p].got # frames[p].room
  <2> DEFINE l == IF frames[p].got = 0 THEN "annotated" ELSE "format"
  <2>1. ppc' \in [Procs -> Labels] /\ ppc'[p] = l /\ \A q \in Procs : q # p => ppc'[q] = ppc[q]
    <3>1. l \in Labels /\ Goto(p, l)
      BY <1>4, Zenon DEF Expand, Labels
    <3> QED BY <1>1, <3>1, LabelsAre, Zenon
  <2>2. frames' = frames
    BY <1>4, Zenon DEF Expand
  <2>4. PoolTypes'
    BY <1>1, <2>1, <2>2, Zenon DEF Expand, PoolTypes
  <2>5. Beside(p)
    BY <2>1, <2>2, Zenon DEF Expand, Beside
  <2>6. Keeps(p)
    BY Zenon DEF Expand, Keeps
  <2>7. frames[p].got = pcall[p].depth
    BY <1>2, <1>4, AllFrames, Zenon DEF AtExpand
  <2>8. AtCapture(pcall'[p], mine'[p], text'[p], todo'[p]) /\ pcall'[p].addStack
    BY <1>1, <1>2, Zenon DEF AtExpand, Expand
  <2>9. CASE frames[p].got = 0
    <3>1. pcall[p] \in Scripts
      BY <1>1, ZenonT(30) DEF PoolTypes
    <3>2. Trace(Tag(p)', pcall'[p]) = << >>
      BY <1>1, <2>7, <2>9, <3>1, NoStack, Zenon
    <3>3. AtAnnotated(Tag(p)', pcall'[p], mine'[p], text'[p], todo'[p])
      BY <2>8, <3>2, Zenon DEF AtAnnotated, AtCapture
    <3>4. Right(p)'
      BY <2>1, <2>9, <3>3, AtLabel, Zenon DEF Right
    <3> QED BY <2>4, <2>5, <2>6, <3>4, KeepsStep, Zenon
  <2>10. CASE frames[p].got # 0
    <3>1. AtFormat(pcall'[p], mine'[p], frames'[p], text'[p], todo'[p])
      BY <1>1, <2>2, <2>7, <2>8, <2>10, Zenon DEF AtFormat
    <3>2. Right(p)'
      BY <2>1, <2>10, <3>1, AtLabel, Zenon DEF Right
    <3> QED BY <2>4, <2>5, <2>6, <3>2, KeepsStep, Zenon
  <2> QED BY <2>9, <2>10, Zenon
<1> QED BY <1>3, <1>4, Zenon

\* Stack.Free.
LEMMA FreeStackStep ==
  ASSUME PoolInv, NEW p \in Procs, FreeStack(p)
  PROVE  PoolInv'
<1>1. PoolTypes /\ Right(p) /\ ppc[p] = "annotated" /\ pcall' = pcall
  BY Zenon DEF PoolInv, FreeStack
<1> DEFINE l == IF pcall[p].console THEN "line" ELSE "clone"
<1>2. ppc' \in [Procs -> Labels] /\ ppc'[p] = l /\ \A q \in Procs : q # p => ppc'[q] = ppc[q]
  <2>1. l \in Labels /\ Goto(p, l)
    BY Zenon DEF FreeStack, Labels
  <2> QED BY <1>1, <2>1, LabelsAre, Zenon
<1>3. /\ mine' \in [Procs -> Holding] /\ \A q \in Procs : q # p => mine'[q] = mine[q]
      /\ mine'[p].buf = mine[p].buf /\ mine'[p].enc = mine[p].enc /\ mine'[p].arr = mine[p].arr
  <2>1. mine \in [Procs -> Holding] /\ mine' = [mine EXCEPT ![p].stack = Nil] /\ Nil \in Stacks \cup {Nil}
    BY <1>1, Zenon DEF FreeStack, PoolTypes
  <2> QED BY <2>1, SetStack
<1>4. /\ pool' \in Pooled
      /\ pool'.bufs = pool.bufs /\ pool'.encs = pool.encs /\ pool'.arrs = pool.arrs
  <2>1. pool \in Pooled /\ pool' = [pool EXCEPT !.stacks = @ \cup {mine[p].stack}]
    BY <1>1, Zenon DEF FreeStack, PoolTypes
  <2>2. mine[p].stack \in Stacks \cup {Nil}
    BY <1>1, Zenon DEF PoolTypes, Holding
  <2> QED BY <2>1, <2>2, Zenon DEF Pooled
<1>7. PoolTypes'
  BY <1>1, <1>2, <1>3, <1>4, Zenon DEF FreeStack, PoolTypes
<1>8. Beside(p)
  BY <1>2, <1>3, Zenon DEF FreeStack, Beside
<1>9. Keeps(p)
  BY <1>3, <1>4, Zenon DEF FreeStack, Keeps
<1>10. Right(p)'
  <2>1. AtAnnotated(Tag(p), pcall[p], mine[p], text[p], todo[p])
    BY <1>1, AtLabel, Zenon DEF Right
  <2>2. Tag(p)' = Tag(p)
    BY <1>1, Zenon DEF Tag
  <2>3. AtAnnotated(Tag(p)', pcall'[p], mine'[p], text'[p], todo'[p])
    BY <1>1, <2>1, <1>3, <2>2, Zenon DEF AtAnnotated, Bare, FreeStack
  <2>4. CASE pcall[p].console
    <3>1. AtLine(Tag(p)', pcall'[p], mine'[p], text'[p], todo'[p])
      BY <1>1, <2>3, <2>4, Zenon DEF AtLine
    <3> QED BY <1>2, <2>4, <3>1, AtLabel, Zenon DEF Right
  <2>5. CASE ~pcall[p].console
    <3>1. AtClone(Tag(p)', pcall'[p], mine'[p], text'[p], todo'[p], In(p, "line")')
      BY <1>1, <2>3, <2>5, Zenon DEF AtClone, Started, AtAnnotated, Bare
    <3> QED BY <1>2, <2>5, <3>1, AtLabel, Zenon DEF Right
  <2> QED BY <2>4, <2>5, Zenon
<1> QED BY <1>7, <1>8, <1>9, <1>10, KeepsStep, Zenon

\* ioCore.Write gives the sink the buffer of the line, which is whole.
LEMMA WriteLineStep ==
  ASSUME PoolInv, NEW p \in Procs, WriteLine(p)
  PROVE  PoolInv'
<1>1. PoolTypes /\ Right(p) /\ ppc[p] = "write" /\ pcall' = pcall
  BY Zenon DEF PoolInv, WriteLine
<1>2. ppc' \in [Procs -> Labels] /\ ppc'[p] = "free" /\ \A q \in Procs : q # p => ppc'[q] = ppc[q]
  BY <1>1, LabelsAre, Zenon DEF WriteLine, Labels
<1>3. DOMAIN line' = Procs /\ (\A q \in Procs : q # p => line'[q] = line[q])
        /\ line'[p] = bs[mine[p].buf]
  BY <1>1, Zenon DEF WriteLine, PoolTypes
<1>4. PoolTypes'
  BY <1>1, <1>2, <1>3, Zenon DEF WriteLine, PoolTypes
<1>5. Beside(p)
  BY <1>2, <1>3, Zenon DEF WriteLine, Beside
<1>6. Keeps(p)
  BY Zenon DEF WriteLine, Keeps
<1>7. Right(p)'
  <2>1. AtWrite(Tag(p), pcall[p], mine[p], In(p, "line"))
    BY <1>1, AtLabel, ZenonT(60) DEF Right
  <2>2. In(p, "line") = bs[mine[p].buf]
    BY <2>1, SlotIs, Zenon DEF In, AtWrite
  <2>3. Tag(p)' = Tag(p) /\ mine' = mine
    BY <1>1, Zenon DEF Tag, WriteLine
  <2>4. AtFree(Tag(p)', pcall'[p], mine'[p], line'[p])
    BY <1>1, <1>3, <2>1, <2>2, <2>3, Zenon DEF AtFree, AtWrite
  <2> QED BY <1>2, <2>4, AtLabel, Zenon DEF Right
<1> QED BY <1>4, <1>5, <1>6, <1>7, KeepsStep, Zenon

\* The buffers of a call that adds fields.
LEMMA FieldBufs ==
  ASSUME PoolInv, NEW p \in Procs, mine[p].enc # Nil, EncOf(p).buf # Nil
  PROVE  /\ EncOf(p) = enc[mine[p].enc]
         /\ EncOf(p).buf \in Bufs /\ In(p, "clone") = bs[EncOf(p).buf]
         /\ EncOf(p).buf # mine[p].buf /\ EncOf(p).buf # EncOf(p).reflectBuf
<1>1. PoolTypes /\ BufsApart
  BY Zenon DEF PoolInv
<1>2. EncOf(p) = enc[mine[p].enc]
  BY Zenon DEF EncOf
<1>3. EncOf(p).buf \in Bufs
  BY <1>1, HeldAre, SlotIs, KindsAre, Zenon
<1>4. In(p, "clone") = bs[EncOf(p).buf]
  BY SlotIs, Zenon DEF In
<1>5. "line" # "clone" /\ "clone" # "reflect"
  BY Zenon
<1>6. EncOf(p).buf # mine[p].buf /\ EncOf(p).buf # EncOf(p).reflectBuf
  <2>1. Slot(p, "clone") # Nil
    BY SlotIs, Zenon
  <2>2. Slot(p, "clone") # Slot(p, "line") /\ Slot(p, "clone") # Slot(p, "reflect")
    BY <1>1, <1>5, <2>1, KindsAre, Zenon DEF BufsApart
  <2> QED BY <2>2, SlotIs, Zenon
<1> QED BY <1>2, <1>3, <1>4, <1>6, Zenon

\* Something is appended to the clone's buffer: the line is not affected.
LEMMA ToClone ==
  ASSUME PoolInv, NEW p \in Procs, Keeps(p), mine[p].enc # Nil, EncOf(p).buf # Nil, NEW v,
         bs' = [bs EXCEPT ![EncOf(p).buf] = v]
  PROVE  /\ DOMAIN bs' = Bufs /\ In(p, "clone")' = v /\ In(p, "line")' = In(p, "line")
         /\ \A b \in Bufs : (\A k \in Kinds : b # Slot(p, k)) => bs'[b] = bs[b]
<1>1. DOMAIN bs = Bufs /\ EncOf(p).buf \in Bufs /\ EncOf(p).buf # mine[p].buf
  BY FieldBufs, Zenon DEF PoolInv, PoolTypes
<1>2. DOMAIN bs' = Bufs /\ bs'[EncOf(p).buf] = v
        /\ \A b \in Bufs : b # EncOf(p).buf => bs'[b] = bs[b]
  <2> DEFINE x == EncOf(p).buf
  <2>1. x \in Bufs /\ bs' = [bs EXCEPT ![x] = v] /\ DOMAIN bs = Bufs
    BY <1>1, Zenon
  <2> HIDE DEF x
  <2>2. DOMAIN bs' = Bufs /\ bs'[x] = v /\ \A b \in Bufs : b # x => bs'[b] = bs[b]
    BY ZenonT(30), <2>1
  <2> QED BY <2>2, Zenon DEF x
<1>3. \A k \in Kinds : Slot(p, k)' = Slot(p, k)
  BY KeepsSlots, Zenon
<1>4. In(p, "clone")' = v
  BY <1>2, <1>3, SlotIs, KindsAre, ZenonT(60) DEF In
<1>5. In(p, "line")' = In(p, "line")
  <2>1. CASE Slot(p, "line") = Nil
    BY <1>3, <2>1, KindsAre, Zenon DEF In
  <2>2. CASE Slot(p, "line") # Nil
    <3>1. Slot(p, "line") \in Bufs
      BY <2>2, HeldAre, KindsAre, Zenon DEF PoolInv
    <3> QED BY <1>1, <1>2, <1>3, <3>1, SlotIs, KindsAre, ZenonT(60) DEF In
  <2> QED BY <2>1, <2>2, Zenon
<1>6. \A b \in Bufs : (\A k \in Kinds : b # Slot(p, k)) => bs'[b] = bs[b]
  BY <1>2, SlotIs, KindsAre, ZenonT(60)
<1> QED BY <1>2, <1>4, <1>5, <1>6, Zenon

\* The call under way is one of the calls.
LEMMA CallIs ==
  ASSUME PoolTypes, NEW p \in Procs
  PROVE  pcall[p] \in Scripts /\ Tag(p) = <<p, pcall[p].id>>
BY Zenon DEF PoolTypes, Tag

\* A field appended to the clone's buffer.
LEMMA AddPlainStep ==
  ASSUME PoolInv, NEW p \in Procs, AddPlain(p)
  PROVE  PoolInv'
<1>1. /\ PoolTypes /\ Right(p) /\ ppc[p] = "fields" /\ todo[p] # << >>
      /\ ppc' = ppc /\ pcall' = pcall /\ mine' = mine /\ text' = text
  BY Zenon DEF PoolInv, AddPlain, Adds
<1>2. AtFields(Tag(p), pcall[p], mine[p], EncOf(p), text[p], todo[p], In(p, "line"), In(p, "clone"))
  BY <1>1, AtLabel, Zenon DEF Right
<1>3. mine[p].enc # Nil /\ EncOf(p).buf # Nil
  BY <1>2, Zenon DEF AtFields
<1>4. Keeps(p)
  BY Zenon DEF AddPlain, Keeps
<1> DEFINE v == Append(In(p, "clone"), <<Tag(p), Len(todo[p])>>)
<1>5. bs' = [bs EXCEPT ![EncOf(p).buf] = v]
  <2>1. enc[mine[p].enc].buf = EncOf(p).buf /\ bs[EncOf(p).buf] = In(p, "clone")
    BY <1>3, FieldBufs, ZenonT(60)
  <2>2. bs' = [bs EXCEPT ![enc[mine[p].enc].buf] =
                 Append(bs[enc[mine[p].enc].buf], <<Tag(p), Len(todo[p])>>)]
    BY ZenonT(30) DEF AddPlain
  <2> QED BY <2>1, <2>2, Zenon
<1>6. /\ DOMAIN bs' = Bufs /\ In(p, "clone")' = v /\ In(p, "line")' = In(p, "line")
      /\ \A b \in Bufs : (\A k \in Kinds : b # Slot(p, k)) => bs'[b] = bs[b]
  <2> HIDE DEF v
  <2> QED BY <1>3, <1>4, <1>5, ToClone, ZenonT(60)
<1>7. DOMAIN todo' = Procs /\ todo'[p] = Tail(todo[p]) /\ \A q \in Procs : q # p => todo'[q] = todo[q]
  BY <1>1, Zenon DEF AddPlain, PoolTypes
<1>8. PoolTypes'
  BY <1>1, <1>6, <1>7, Zenon DEF AddPlain, PoolTypes
<1>9. Beside(p)
  BY <1>6, <1>7, Zenon DEF AddPlain, Beside
<1>10. Right(p)'
  <2>1. Tag(p)' = Tag(p) /\ EncOf(p)' = EncOf(p)
    BY <1>1, <1>4, KeepsSlots, Zenon DEF Tag
  <2>2. /\ pcall[p] \in Scripts /\ Tag(p) = <<p, pcall[p].id>>
        /\ todo[p] \in Seq({"plain", "reflected"}) /\ Len(todo[p]) <= Len(pcall[p].fields)
    BY <1>1, <1>2, CallIs, Zenon DEF AtFields
  <2>3. /\ v = Begun(Tag(p), pcall[p]) \o Added(Tag(p), pcall[p], Len(todo'[p]))
        /\ todo'[p] \in Seq({"plain", "reflected"}) /\ Len(todo'[p]) <= Len(pcall[p].fields)
    <3>1. Grows(Tag(p), pcall[p], todo[p])
      BY <1>1, <2>2, Grown, Zenon
    <3>2. In(p, "clone") = Begun(Tag(p), pcall[p]) \o Added(Tag(p), pcall[p], Len(todo[p]))
      BY <1>2, Zenon DEF AtFields
    <3> QED BY <1>7, <3>1, <3>2, Zenon DEF Grows
  <2>4. AtFields(Tag(p)', pcall'[p], mine'[p], EncOf(p)', text'[p], todo'[p], In(p, "line")',
                 In(p, "clone")')
    BY <1>1, <1>2, <1>6, <2>1, <2>3, Zenon DEF AtFields
  <2> QED BY <1>1, <2>4, AtLabel, ZenonT(60) DEF Right
<1> QED BY <1>4, <1>8, <1>9, <1>10, KeepsStep, Zenon

\* jsonEncoder.AddReflected copies what was encoded into reflectBuf, which nobody else
\* has written to since.
LEMMA CopyReflectedStep ==
  ASSUME PoolInv, NEW p \in Procs, CopyReflected(p)
  PROVE  PoolInv'
<1>1. /\ PoolTypes /\ Right(p) /\ ppc[p] = "reflected"
      /\ pcall' = pcall /\ mine' = mine /\ text' = text
  BY Zenon DEF PoolInv, CopyReflected
<1>2. AtReflected(Tag(p), pcall[p], mine[p], EncOf(p), text[p], todo[p], In(p, "line"),
                  In(p, "clone"), In(p, "reflect"))
  BY <1>1, AtLabel, ZenonT(60) DEF Right
<1>3. mine[p].enc # Nil /\ EncOf(p).buf # Nil /\ EncOf(p).reflectBuf # Nil /\ todo[p] # << >>
  BY <1>2, Zenon DEF AtReflected, AtFields
<1>4. Keeps(p)
  BY Zenon DEF CopyReflected, Keeps
<1> DEFINE v == In(p, "clone") \o <<<<Tag(p), Len(todo[p])>>>>
<1>5. bs' = [bs EXCEPT ![EncOf(p).buf] = v]
  <2>1. enc[mine[p].enc] = EncOf(p) /\ bs[EncOf(p).buf] = In(p, "clone")
    BY <1>3, FieldBufs, Zenon
  <2>2. bs[EncOf(p).reflectBuf] = <<<<Tag(p), Len(todo[p])>>>>
    BY <1>2, <1>3, SlotIs, Zenon DEF In, AtReflected
  <2>3. bs' = [bs EXCEPT ![enc[mine[p].enc].buf] =
                 bs[enc[mine[p].enc].buf] \o bs[enc[mine[p].enc].reflectBuf]]
    BY Zenon DEF CopyReflected
  <2> QED BY <2>1, <2>2, <2>3, Zenon
<1>6. /\ DOMAIN bs' = Bufs /\ In(p, "clone")' = v /\ In(p, "line")' = In(p, "line")
      /\ \A b \in Bufs : (\A k \in Kinds : b # Slot(p, k)) => bs'[b] = bs[b]
  <2> HIDE DEF v
  <2> QED BY <1>3, <1>4, <1>5, ToClone, Zenon
<1>7. DOMAIN todo' = Procs /\ todo'[p] = Tail(todo[p]) /\ \A q \in Procs : q # p => todo'[q] = todo[q]
  BY <1>1, Zenon DEF CopyReflected, PoolTypes
<1>11. ppc' \in [Procs -> Labels] /\ ppc'[p] = "fields" /\ \A q \in Procs : q # p => ppc'[q] = ppc[q]
  BY <1>1, LabelsAre, Zenon DEF CopyReflected, Labels
<1>8. PoolTypes'
  BY <1>1, <1>6, <1>7, <1>11, Zenon DEF CopyReflected, PoolTypes
<1>9. Beside(p)
  BY <1>6, <1>7, <1>11, Zenon DEF CopyReflected, Beside
<1>10. Right(p)'
  <2>0. AtFields(Tag(p), pcall[p], mine[p], EncOf(p), text[p], todo[p], In(p, "line"), In(p, "clone"))
    BY <1>2, Zenon DEF AtReflected
  <2>1. Tag(p)' = Tag(p) /\ EncOf(p)' = EncOf(p)
    BY <1>1, <1>4, KeepsSlots, Zenon DEF Tag
  <2>2. /\ pcall[p] \in Scripts /\ Tag(p) = <<p, pcall[p].id>>
        /\ todo[p] \in Seq({"plain", "reflected"}) /\ Len(todo[p]) <= Len(pcall[p].fields)
    BY <1>1, <2>0, CallIs, Zenon DEF AtFields
  <2>3. /\ v = Begun(Tag(p), pcall[p]) \o Added(Tag(p), pcall[p], Len(todo'[p]))
        /\ todo'[p] \in Seq({"plain", "reflected"}) /\ Len(todo'[p]) <= Len(pcall[p].fields)
    <3>1. Grows(Tag(p), pcall[p], todo[p])
      BY <1>3, <2>2, Grown, Zenon
    <3>2. In(p, "clone") = Begun(Tag(p), pcall[p]) \o Added(Tag(p), pcall[p], Len(todo[p]))
      BY <2>0, Zenon DEF AtFields
    <3> QED BY <1>7, <3>1, <3>2, Zenon DEF Grows
  <2>4. AtFields(Tag(p)', pcall'[p], mine'[p], EncOf(p)', text'[p], todo'[p], In(p, "line")',
                 In(p, "clone")')
    BY <1>1, <2>0, <1>6, <2>1, <2>3, Zenon DEF AtFields
  <2> QED BY <1>11, <2>4, AtLabel, Zenon DEF Right
<1> QED BY <1>4, <1>8, <1>9, <1>10, KeepsStep, Zenon

\* Exchanges of the line's buffer and the slice encoder, while the call has no clone.
LineMoves(p) ==
  /\ mine[p].enc = Nil /\ mine'[p].enc = Nil /\ pool'.encs = pool.encs
  /\ mine'[p].buf = Nil \/ mine'[p].buf \in pool.bufs \/ mine'[p].buf = mine[p].buf
  /\ \A b \in pool'.bufs : b \in pool.bufs \/ b = mine[p].buf
  /\ mine'[p].buf \notin pool'.bufs
  /\ mine'[p].arr = Nil \/ mine'[p].arr \in pool.arrs \/ mine'[p].arr = mine[p].arr
  /\ \A a \in pool'.arrs : a \in pool.arrs \/ a = mine[p].arr
  /\ mine'[p].arr \notin pool'.arrs

\* Such an exchange preserves the invariant if its own call is right after it.
LEMMA LineMovesStep ==
  ASSUME PoolInv, NEW p \in Procs, PoolTypes', Clean', Beside(p), Right(p)', LineMoves(p)
  PROVE  PoolInv'
<1>1. Blank.buf = Nil /\ Blank.reflectBuf = Nil
  BY Zenon DEF Blank
<1>2. EncOf(p)' = Blank
  BY Zenon DEF EncOf, LineMoves
<1>3. Slot(p, "clone")' = Nil /\ Slot(p, "reflect")' = Nil
  BY <1>1, <1>2, SlotIs, Zenon
<1>4. Nil \notin pool'.bufs /\ Nil \notin pool'.encs
  <2>1. pool' \in Pooled
    BY Zenon DEF PoolTypes
  <2> QED BY ZenonT(30), <2>1, PoolIs, NilAssumption
<1>5. \A k \in Kinds : \/ Slot(p, k)' = Nil
                       \/ Slot(p, k)' \in pool.bufs
                       \/ \E j \in Kinds : Slot(p, k)' = Slot(p, j)
  BY <1>3, SlotIs, KindsAre, ZenonT(60) DEF LineMoves
<1>6. \A j, k \in Kinds : Slot(p, j)' = Slot(p, k)' /\ Slot(p, j)' # Nil => j = k
  BY <1>3, KindsAre, Zenon
<1>7. \A b \in pool'.bufs : b \in pool.bufs \/ \E j \in Kinds : b = Slot(p, j)
  BY SlotIs, KindsAre, Zenon DEF LineMoves
<1>8. \A k \in Kinds : Slot(p, k)' \notin pool'.bufs
  BY <1>3, <1>4, SlotIs, KindsAre, Zenon DEF LineMoves
<1>9. /\ mine'[p].enc = Nil \/ mine'[p].enc \in pool.encs \/ mine'[p].enc = mine[p].enc
      /\ \A e \in pool'.encs : e \in pool.encs \/ e = mine[p].enc
      /\ mine'[p].enc \notin pool'.encs
  BY <1>4, Zenon DEF LineMoves
<1>10. /\ mine'[p].arr = Nil \/ mine'[p].arr \in pool.arrs \/ mine'[p].arr = mine[p].arr
       /\ \A a \in pool'.arrs : a \in pool.arrs \/ a = mine[p].arr
       /\ mine'[p].arr \notin pool'.arrs
  BY Zenon DEF LineMoves
<1> QED BY <1>5, <1>6, <1>7, <1>8, <1>9, <1>10, Together, Zenon

\* Pooled encoders stay clean when none is touched.
LEMMA CleanKept ==
  ASSUME PoolInv, enc' = enc, elems' = elems, pool'.encs = pool.encs, pool'.arrs = pool.arrs
  PROVE  Clean'
BY Zenon DEF PoolInv, Clean

\* The stack is formatted into a pooled buffer.
LEMMA FormatStep ==
  ASSUME PoolInv, NEW p \in Procs, NEW b \in Bufs, Format(p, b)
  PROVE  PoolInv'
<1>1. /\ PoolTypes /\ Right(p) /\ ppc[p] = "format" /\ b \in pool.bufs
      /\ pcall' = pcall /\ todo' = todo /\ text' = text /\ b # Nil
  BY NilAssumption, Zenon DEF PoolInv, Format
<1>2. AtFormat(pcall[p], mine[p], frames[p], text[p], todo[p])
  BY <1>1, AtLabel, ZenonT(60) DEF Right
<1>3. mine[p].enc = Nil /\ mine[p].arr = Nil /\ mine[p].buf = Nil
  BY <1>2, Zenon DEF AtFormat, AtCapture, Bare
<1>4. ppc' \in [Procs -> Labels] /\ ppc'[p] = "copy" /\ \A q \in Procs : q # p => ppc'[q] = ppc[q]
  BY <1>1, LabelsAre, Zenon DEF Format, Labels
<1>5. /\ mine' \in [Procs -> Holding] /\ \A q \in Procs : q # p => mine'[q] = mine[q]
      /\ mine'[p].buf = b /\ mine'[p].enc = mine[p].enc /\ mine'[p].arr = mine[p].arr
  <2>1. mine \in [Procs -> Holding] /\ mine' = [mine EXCEPT ![p].buf = b] /\ b \in Bufs \cup {Nil}
    BY <1>1, Zenon DEF Format, PoolTypes
  <2> QED BY <2>1, SetBuf
<1>6. /\ pool' \in Pooled
      /\ pool'.bufs = pool.bufs \ {b} /\ pool'.encs = pool.encs /\ pool'.arrs = pool.arrs
  <2>1. pool \in Pooled /\ pool' = [pool EXCEPT !.bufs = @ \ {b}]
    BY <1>1, Zenon DEF Format, PoolTypes
  <2> QED BY <2>1, Zenon DEF Pooled
<1>7. DOMAIN bs' = Bufs /\ bs'[b] = Formatted(p) /\ \A x \in Bufs : x # b => bs'[x] = bs[x]
  BY <1>1, Zenon DEF Format, PoolTypes
<1>8. PoolTypes'
  BY <1>1, <1>4, <1>5, <1>6, <1>7, Zenon DEF Format, PoolTypes
<1>9. Beside(p)
  BY <1>1, <1>4, <1>5, <1>7, Zenon DEF Format, Beside
<1>10. Clean'
  BY <1>6, CleanKept, Zenon DEF Format
<1>11. LineMoves(p)
  <2>1. pool.arrs \subseteq Arrs
    BY <1>1, PoolIs, Zenon DEF PoolTypes
  <2>2. Nil \notin pool.arrs
    BY Zenon, <2>1, NilAssumption
  <2> QED BY <1>1, <1>3, <1>5, <1>6, <2>2, Zenon DEF LineMoves
<1>12. Right(p)'
  <2>1. Tag(p)' = Tag(p)
    BY <1>1, Zenon DEF Tag
  <2>2. In(p, "line")' = Formatted(p)
    BY <1>1, <1>5, <1>7, SlotIs, Zenon DEF In
  <2>3. Formatted(p) = Trace(Tag(p), pcall[p])
    <3>1. pcall[p] \in Scripts /\ pcall[p].addStack /\ pcall[p].depth # 0 /\ frames[p].got = pcall[p].depth
      BY <1>1, <1>2, CallIs, Zenon DEF AtFormat
    <3>2. Formatted(p) = [i \in 1 .. (IF pcall[p].depth = 1 THEN 1 ELSE pcall[p].depth - 1)
                            |-> <<Tag(p), "frame", i>>]
      BY <3>1, Zenon DEF Formatted
    <3> QED BY <3>1, <3>2, FormattedIs, Zenon
  <2>4. AtCopy(Tag(p)', pcall'[p], mine'[p], todo'[p], In(p, "line")')
    BY <1>1, <1>2, <1>3, <1>5, <2>1, <2>2, <2>3, Zenon DEF AtCopy, AtFormat, AtCapture
  <2> QED BY <1>4, <2>4, AtLabel, Zenon DEF Right
<1> QED BY <1>8, <1>9, <1>10, <1>11, <1>12, LineMovesStep, Zenon

\* ce.Stack is a copy of the buffer, made before the buffer is freed.
LEMMA CopyStackStep ==
  ASSUME PoolInv, NEW p \in Procs, CopyStack(p)
  PROVE  PoolInv'
<1>1. /\ PoolTypes /\ Right(p) /\ ppc[p] = "copy" /\ pcall' = pcall /\ todo' = todo /\ bs' = bs
  BY Zenon DEF PoolInv, CopyStack
<1>2. AtCopy(Tag(p), pcall[p], mine[p], todo[p], In(p, "line"))
  BY <1>1, AtLabel, ZenonT(60) DEF Right
<1>3. mine[p].enc = Nil /\ mine[p].arr = Nil /\ mine[p].buf # Nil
  BY <1>2, Zenon DEF AtCopy
<1>4. ppc' \in [Procs -> Labels] /\ ppc'[p] = "annotated" /\ \A q \in Procs : q # p => ppc'[q] = ppc[q]
  BY <1>1, LabelsAre, Zenon DEF CopyStack, Labels
<1>5. /\ mine' \in [Procs -> Holding] /\ \A q \in Procs : q # p => mine'[q] = mine[q]
      /\ mine'[p].buf = Nil /\ mine'[p].enc = mine[p].enc /\ mine'[p].arr = mine[p].arr
  <2>1. mine \in [Procs -> Holding] /\ mine' = [mine EXCEPT ![p].buf = Nil] /\ Nil \in Bufs \cup {Nil}
    BY <1>1, Zenon DEF CopyStack, PoolTypes
  <2> QED BY <2>1, SetBuf
<1>6. /\ pool' \in Pooled /\ pool'.bufs = pool.bufs \cup {mine[p].buf}
      /\ pool'.encs = pool.encs /\ pool'.arrs = pool.arrs
  <2>1. pool \in Pooled /\ pool' = [pool EXCEPT !.bufs = @ \cup {mine[p].buf}] /\ mine[p] \in Holding
    BY <1>1, Zenon DEF CopyStack, PoolTypes
  <2> QED BY <1>3, <2>1, Zenon DEF Pooled, Holding
<1>7. DOMAIN text' = Procs /\ text'[p] = bs[mine[p].buf] /\ \A q \in Procs : q # p => text'[q] = text[q]
  BY <1>1, Zenon DEF CopyStack, PoolTypes
<1>8. PoolTypes'
  BY <1>1, <1>4, <1>5, <1>6, <1>7, Zenon DEF CopyStack, PoolTypes
<1>9. Beside(p)
  BY <1>1, <1>4, <1>5, <1>7, ZenonT(60) DEF CopyStack, Beside
<1>10. Clean'
  BY <1>6, CleanKept, Zenon DEF CopyStack
<1>11. LineMoves(p)
  <2>1. Nil \notin pool'.bufs /\ Nil \notin pool.arrs
    BY <1>1, <1>6, PoolIs, NilAssumption, Zenon DEF PoolTypes
  <2> QED BY <1>1, <1>3, <1>5, <1>6, <2>1, Zenon DEF LineMoves
<1>12. Right(p)'
  <2>1. Tag(p)' = Tag(p)
    BY <1>1, Zenon DEF Tag
  <2>2. In(p, "line") = bs[mine[p].buf]
    BY <1>3, SlotIs, Zenon DEF In
  <2>3. AtAnnotated(Tag(p)', pcall'[p], mine'[p], text'[p], todo'[p])
    BY <1>1, <1>2, <1>3, <1>5, <1>7, <2>1, <2>2, Zenon DEF AtAnnotated, AtCopy, Bare
  <2> QED BY <1>4, <2>3, AtLabel, Zenon DEF Right
<1> QED BY <1>8, <1>9, <1>10, <1>11, <1>12, LineMovesStep, Zenon

\* consoleEncoder.EncodeEntry takes a buffer and a slice encoder, which is empty.
LEMMA ConsoleLineStep ==
  ASSUME PoolInv, NEW p \in Procs, NEW b \in Bufs, NEW a \in Arrs, ConsoleLine(p, b, a)
  PROVE  PoolInv'
<1>1. /\ PoolTypes /\ Right(p) /\ ppc[p] = "line" /\ b \in pool.bufs /\ a \in pool.arrs
      /\ pcall' = pcall /\ todo' = todo /\ text' = text /\ b # Nil /\ a # Nil
  BY NilAssumption, Zenon DEF PoolInv, ConsoleLine
<1>2. AtLine(Tag(p), pcall[p], mine[p], text[p], todo[p])
  BY <1>1, AtLabel, ZenonT(60) DEF Right
<1>3. mine[p].enc = Nil /\ mine[p].arr = Nil /\ mine[p].buf = Nil
  BY <1>2, Zenon DEF AtLine, AtAnnotated, Bare
<1>4. ppc' \in [Procs -> Labels] /\ ppc'[p] = "elems" /\ \A q \in Procs : q # p => ppc'[q] = ppc[q]
  BY <1>1, LabelsAre, Zenon DEF ConsoleLine, Labels
<1>5. /\ mine' \in [Procs -> Holding] /\ \A q \in Procs : q # p => mine'[q] = mine[q]
      /\ mine'[p].buf = b /\ mine'[p].enc = mine[p].enc /\ mine'[p].arr = a
  <2>1. mine \in [Procs -> Holding] /\ mine' = [mine EXCEPT ![p].buf = b, ![p].arr = a]
    BY <1>1, Zenon DEF ConsoleLine, PoolTypes
  <2> QED BY <2>1, ZenonT(60) DEF Holding
<1>6. /\ pool' \in Pooled
      /\ pool'.bufs = pool.bufs \ {b} /\ pool'.encs = pool.encs /\ pool'.arrs = pool.arrs \ {a}
  <2>1. pool \in Pooled /\ pool' = [pool EXCEPT !.bufs = @ \ {b}, !.arrs = @ \ {a}]
    BY <1>1, Zenon DEF ConsoleLine, PoolTypes
  <2> QED BY <2>1, Zenon DEF Pooled
<1>7. DOMAIN bs' = Bufs /\ bs'[b] = << >> /\ \A x \in Bufs : x # b => bs'[x] = bs[x]
  BY <1>1, Zenon DEF ConsoleLine, PoolTypes
<1>8. /\ DOMAIN elems' = Arrs /\ elems'[a] = <<<<Tag(p), "entry">>>>
      /\ \A x \in Arrs : x # a => elems'[x] = elems[x]
  <2>1. elems' = [elems EXCEPT ![a] = Append(elems[a], <<Tag(p), "entry">>)]
    BY ZenonT(30) DEF ConsoleLine
  <2>2. elems[a] = << >>
    BY <1>1, Zenon DEF PoolInv, Clean
  <2>3. elems' = [elems EXCEPT ![a] = <<<<Tag(p), "entry">>>>]
    BY <2>1, <2>2, ToEmpty, Zenon
  <2>4. DOMAIN elems = Arrs
    BY <1>1, Zenon DEF PoolTypes
  <2> QED BY Zenon, <2>3, <2>4
<1>9. PoolTypes'
  BY <1>1, <1>4, <1>5, <1>6, <1>7, <1>8, Zenon DEF ConsoleLine, PoolTypes
<1>10. Beside(p)
  BY <1>1, <1>4, <1>5, <1>7, <1>8, Zenon DEF ConsoleLine, Beside
<1>11. Clean'
  <2>1. \A x \in pool'.encs : enc'[x] = Blank
    BY <1>6, Zenon DEF PoolInv, Clean, ConsoleLine
  <2>2. \A x \in pool'.arrs : x \in pool.arrs /\ x \in Arrs /\ x # a
    BY <1>1, <1>6, PoolIs, Zenon DEF PoolTypes
  <2>3. \A x \in pool'.arrs : elems'[x] = << >>
    BY <1>8, <2>2, ZenonT(60) DEF PoolInv, Clean
  <2> QED BY <2>1, <2>3, Zenon DEF Clean
<1>12. LineMoves(p)
  BY <1>1, <1>3, <1>5, <1>6, ZenonT(30) DEF LineMoves
<1>13. Right(p)'
  <2>1. Tag(p)' = Tag(p)
    BY <1>1, Zenon DEF Tag
  <2>2. In(p, "line")' = << >> /\ ElemsOf(p)' = <<<<Tag(p), "entry">>>>
    BY <1>1, <1>5, <1>7, <1>8, SlotIs, Zenon DEF In, ElemsOf
  <2>3. AtElems(Tag(p)', pcall'[p], mine'[p], text'[p], todo'[p], In(p, "line")', ElemsOf(p)')
    BY <1>1, <1>2, <1>3, <1>5, <2>1, <2>2, ZenonT(60) DEF AtElems, AtLine, AtAnnotated
  <2> QED BY <1>4, <2>3, AtLabel, Zenon DEF Right
<1> QED BY <1>9, <1>10, <1>11, <1>12, <1>13, LineMovesStep, ZenonT(60)

\* It writes the elements into the line and puts the slice encoder back, emptied.
LEMMA ConsoleElemsStep ==
  ASSUME PoolInv, NEW p \in Procs, ConsoleElems(p)
  PROVE  PoolInv'
<1>1. /\ PoolTypes /\ Right(p) /\ ppc[p] = "elems"
      /\ pcall' = pcall /\ todo' = todo /\ text' = text
  BY Zenon DEF PoolInv, ConsoleElems
<1>2. AtElems(Tag(p), pcall[p], mine[p], text[p], todo[p], In(p, "line"), ElemsOf(p))
  BY <1>1, AtLabel, ZenonT(60) DEF Right
<1>3. /\ mine[p].enc = Nil /\ mine[p].arr # Nil /\ mine[p].buf # Nil
      /\ In(p, "line") = << >> /\ ElemsOf(p) = <<<<Tag(p), "entry">>>>
  BY <1>2, Zenon DEF AtElems
<1>4. ppc' \in [Procs -> Labels] /\ ppc'[p] = "clone" /\ \A q \in Procs : q # p => ppc'[q] = ppc[q]
  BY <1>1, LabelsAre, Zenon DEF ConsoleElems, Labels
<1>5. /\ mine' \in [Procs -> Holding] /\ \A q \in Procs : q # p => mine'[q] = mine[q]
      /\ mine'[p].buf = mine[p].buf /\ mine'[p].enc = mine[p].enc /\ mine'[p].arr = Nil
  <2>1. mine \in [Procs -> Holding] /\ mine' = [mine EXCEPT ![p].arr = Nil] /\ Nil \in Arrs \cup {Nil}
    BY <1>1, Zenon DEF ConsoleElems, PoolTypes
  <2> QED BY <2>1, SetArr
<1>a. mine[p].arr \in Arrs /\ mine[p].buf \in Bufs /\ mine[p].buf \notin pool.bufs
  <2>1. mine[p].arr \in Arrs /\ mine[p].buf \in Bufs
    BY <1>1, <1>3, HeldAre, SlotIs, KindsAre, Zenon
  <2>2. Slot(p, "line") \notin pool.bufs
    BY KindsAre, Zenon DEF PoolInv, BufsApart
  <2> QED BY <2>1, <2>2, SlotIs, Zenon
<1>6. /\ pool' \in Pooled /\ pool'.bufs = pool.bufs
      /\ pool'.encs = pool.encs /\ pool'.arrs = pool.arrs \cup {mine[p].arr}
  <2>1. pool \in Pooled /\ pool' = [pool EXCEPT !.arrs = @ \cup {mine[p].arr}]
    BY <1>1, Zenon DEF ConsoleElems, PoolTypes
  <2> QED BY <1>a, <2>1, Zenon DEF Pooled
<1>7. /\ DOMAIN bs' = Bufs /\ bs'[mine[p].buf] = <<<<Tag(p), "entry">>>>
      /\ \A x \in Bufs : x # mine[p].buf => bs'[x] = bs[x]
  <2>1. bs' = [bs EXCEPT ![mine[p].buf] = bs[mine[p].buf] \o elems[mine[p].arr]]
    BY Zenon DEF ConsoleElems
  <2>2. bs[mine[p].buf] = << >> /\ elems[mine[p].arr] = <<<<Tag(p), "entry">>>>
    BY <1>3, SlotIs, Zenon DEF In, ElemsOf
  <2>3. bs' = [bs EXCEPT ![mine[p].buf] = <<<<Tag(p), "entry">>>>]
    BY <2>1, <2>2, ToEmpty, Zenon
  <2>4. DOMAIN bs = Bufs
    BY <1>1, Zenon DEF PoolTypes
  <2> QED BY Zenon, <1>a, <2>3, <2>4
<1>8. /\ DOMAIN elems' = Arrs /\ elems'[mine[p].arr] = << >>
      /\ \A x \in Arrs : x # mine[p].arr => elems'[x] = elems[x]
  <2>1. DOMAIN elems = Arrs /\ elems' = [elems EXCEPT ![mine[p].arr] = << >>]
    BY <1>1, Zenon DEF ConsoleElems, PoolTypes
  <2> QED BY Zenon, <1>a, <2>1
<1>9. PoolTypes'
  BY <1>1, <1>4, <1>5, <1>6, <1>7, <1>8, Zenon DEF ConsoleElems, PoolTypes
<1>10. Beside(p)
  <2>1. \A x \in Bufs : (\A k \in Kinds : x # Slot(p, k)) => bs'[x] = bs[x]
    BY <1>7, SlotIs, KindsAre, Zenon
  <2> QED BY <1>4, <1>5, <1>8, <2>1, Zenon DEF ConsoleElems, Beside
<1>11. Clean'
  <2>1. \A x \in pool'.encs : enc'[x] = Blank
    BY <1>6, ZenonT(60) DEF PoolInv, Clean, ConsoleElems
  <2>2. \A x \in pool'.arrs : x = mine[p].arr \/ (x \in pool.arrs /\ x \in Arrs)
    BY <1>1, <1>6, PoolIs, Zenon DEF PoolTypes
  <2>3. \A x \in pool'.arrs : elems'[x] = << >>
    BY <1>8, <2>2, Zenon DEF PoolInv, Clean
  <2> QED BY <2>1, <2>3, Zenon DEF Clean
<1>12. LineMoves(p)
  <2>1. Nil \notin pool'.arrs
    BY Zenon, <1>6, PoolIs, NilAssumption
  <2> QED BY <1>3, <1>a, <1>5, <1>6, <2>1, ZenonT(30) DEF LineMoves
<1>13. Right(p)'
  <2>1. Tag(p)' = Tag(p)
    BY <1>1, Zenon DEF Tag
  <2>2. In(p, "line")' = <<<<Tag(p), "entry">>>>
    BY <1>3, <1>5, <1>7, SlotIs, ZenonT(60) DEF In
  <2>3. AtClone(Tag(p)', pcall'[p], mine'[p], text'[p], todo'[p], In(p, "line")')
    BY <1>1, <1>2, <1>3, <1>5, <2>1, <2>2, Zenon DEF AtElems, AtClone, Started
  <2> QED BY <1>4, <2>3, AtLabel, Zenon DEF Right
<1> QED BY <1>9, <1>10, <1>11, <1>12, <1>13, LineMovesStep, Zenon

\* buf.Free() after the write: the line was the only reference to the buffer.
LEMMA FreeLineStep ==
  ASSUME PoolInv, NEW p \in Procs, FreeLine(p)
  PROVE  PoolInv'
<1>1. PoolTypes /\ Right(p) /\ ppc[p] = "free" /\ bs' = bs
  BY Zenon DEF PoolInv, FreeLine
<1>2. AtFree(Tag(p), pcall[p], mine[p], line[p])
  BY <1>1, AtLabel, ZenonT(60) DEF Right
<1>3. mine[p].enc = Nil /\ mine[p].arr = Nil /\ mine[p].buf # Nil
  BY <1>2, Zenon DEF AtFree
<1>4. ppc' \in [Procs -> Labels] /\ ppc'[p] = "idle" /\ \A q \in Procs : q # p => ppc'[q] = ppc[q]
  BY <1>1, LabelsAre, Zenon DEF FreeLine, Labels
<1>5. /\ mine' \in [Procs -> Holding] /\ \A q \in Procs : q # p => mine'[q] = mine[q]
      /\ mine'[p].buf = Nil /\ mine'[p].enc = mine[p].enc /\ mine'[p].arr = mine[p].arr
  <2>1. mine \in [Procs -> Holding] /\ mine' = [mine EXCEPT ![p].buf = Nil] /\ Nil \in Bufs \cup {Nil}
    BY <1>1, Zenon DEF FreeLine, PoolTypes
  <2> QED BY <2>1, SetBuf
<1>6. /\ pool' \in Pooled /\ pool'.bufs = pool.bufs \cup {mine[p].buf}
      /\ pool'.encs = pool.encs /\ pool'.arrs = pool.arrs
  <2>1. pool \in Pooled /\ pool' = [pool EXCEPT !.bufs = @ \cup {mine[p].buf}] /\ mine[p] \in Holding
    BY <1>1, Zenon DEF FreeLine, PoolTypes
  <2> QED BY <1>3, <2>1 DEF Pooled, Holding
<1>7. DOMAIN line' = Procs /\ \A q \in Procs : q # p => line'[q] = line[q]
  BY <1>1, Zenon DEF FreeLine, PoolTypes
<1>8. PoolTypes'
  BY <1>1, <1>4, <1>5, <1>6, <1>7, ZenonT(60) DEF FreeLine, PoolTypes
<1>9. Beside(p)
  BY <1>1, <1>4, <1>5, <1>7, ZenonT(60) DEF FreeLine, Beside
<1>10. Clean'
  BY <1>6, CleanKept, Zenon DEF FreeLine
<1>11. LineMoves(p)
  <2>1. Nil \notin pool'.bufs /\ Nil \notin pool.arrs
    BY <1>1, <1>6, PoolIs, NilAssumption, Zenon DEF PoolTypes
  <2> QED BY <1>1, <1>3, <1>5, <1>6, <2>1, ZenonT(30) DEF LineMoves
<1>12. Right(p)'
  <2>1. Bare(mine'[p])
    BY <1>3, <1>5, ZenonT(60) DEF Bare
  <2> QED BY <1>4, <2>1, AtLabel, Zenon DEF Right
<1> QED BY <1>8, <1>9, <1>10, <1>11, <1>12, LineMovesStep, Zenon

\* The call has put its clone back, and has at most the line's buffer, which may be
\* the clone's.
Released(p) ==
  /\ mine'[p].enc = Nil /\ mine'[p].arr = Nil /\ pool'.arrs = pool.arrs
  /\ mine'[p].buf = Nil \/ \E k \in Kinds : mine'[p].buf = Slot(p, k)
  /\ \A b \in pool'.bufs : b \in pool.bufs \/ \E j \in Kinds : b = Slot(p, j)
  /\ mine'[p].buf \notin pool'.bufs
  /\ \A e \in pool'.encs : e \in pool.encs \/ e = mine[p].enc

\* A call that has put its clone back preserves the invariant if it is right after it.
LEMMA ReleasedStep ==
  ASSUME PoolInv, NEW p \in Procs, PoolTypes', Clean', Beside(p), Right(p)', Released(p)
  PROVE  PoolInv'
<1>1. Blank.buf = Nil /\ Blank.reflectBuf = Nil
  BY DEF Blank
<1>2. EncOf(p)' = Blank
  BY ZenonT(60) DEF EncOf, Released
<1>3. Slot(p, "clone")' = Nil /\ Slot(p, "reflect")' = Nil
  BY <1>1, <1>2, SlotIs, Zenon
<1>4. Nil \notin pool'.bufs /\ Nil \notin pool'.encs /\ Nil \notin pool'.arrs
  <2>1. pool' \in Pooled
    BY Zenon DEF PoolTypes
  <2> QED BY ZenonT(30), <2>1, PoolIs, NilAssumption
<1>5. \A k \in Kinds : \/ Slot(p, k)' = Nil
                       \/ Slot(p, k)' \in pool.bufs
                       \/ \E j \in Kinds : Slot(p, k)' = Slot(p, j)
  BY <1>3, SlotIs, KindsAre, ZenonT(60) DEF Released
<1>6. \A j, k \in Kinds : Slot(p, j)' = Slot(p, k)' /\ Slot(p, j)' # Nil => j = k
  BY <1>3, KindsAre, Zenon
<1>7. \A b \in pool'.bufs : b \in pool.bufs \/ \E j \in Kinds : b = Slot(p, j)
  BY Zenon DEF Released
<1>8. \A k \in Kinds : Slot(p, k)' \notin pool'.bufs
  BY <1>3, <1>4, SlotIs, KindsAre, Zenon DEF Released
<1>9. /\ mine'[p].enc = Nil \/ mine'[p].enc \in pool.encs \/ mine'[p].enc = mine[p].enc
      /\ \A e \in pool'.encs : e \in pool.encs \/ e = mine[p].enc
      /\ mine'[p].enc \notin pool'.encs
  BY <1>4, Zenon DEF Released
<1>10. /\ mine'[p].arr = Nil \/ mine'[p].arr \in pool.arrs \/ mine'[p].arr = mine[p].arr
       /\ \A a \in pool'.arrs : a \in pool.arrs \/ a = mine[p].arr
       /\ mine'[p].arr \notin pool'.arrs
  BY <1>4, Zenon DEF Released
<1> QED BY <1>5, <1>6, <1>7, <1>8, <1>9, <1>10, Together, Zenon

\* putJSONEncoder, or no change of the encoders at all, leaves pooled ones clean.
LEMMA EncoderPut ==
  ASSUME PoolInv, NEW e \in Encs, enc' = [enc EXCEPT ![e] = Blank], elems' = elems,
         pool'.encs = pool.encs \cup {e}, pool'.arrs = pool.arrs
  PROVE  /\ Clean' /\ enc' \in [Encs -> Encoder]
         /\ \A x \in Encs : x # e => enc'[x] = enc[x]
<1>1. enc \in [Encs -> Encoder] /\ pool.encs \subseteq Encs /\ Clean
  BY PoolIs, Zenon DEF PoolInv, PoolTypes
<1>2. Blank \in Encoder
  BY Zenon DEF Blank, Encoder
<1>3. enc' \in [Encs -> Encoder] /\ enc'[e] = Blank /\ \A x \in Encs : x # e => enc'[x] = enc[x]
  <2> HIDE DEF Blank
  <2> QED BY Zenon, <1>1, <1>2
<1>4. \A x \in pool'.encs : x = e \/ (x \in pool.encs /\ x \in Encs)
  BY Zenon, <1>1
<1>5. \A x \in pool'.encs : enc'[x] = Blank
  BY <1>1, <1>3, <1>4, Zenon DEF Clean
<1>6. \A a \in pool'.arrs : elems'[a] = << >>
  BY <1>1, Zenon DEF Clean
<1> QED BY <1>3, <1>5, <1>6, Zenon DEF Clean

\* A marshaler's panic: the console encoder's deferred function puts the clone and its
\* buffers back, once; what else the call held is lost, and so is in no pool.
LEMMA PanicStep ==
  ASSUME PoolInv, NEW p \in Procs, Panic(p)
  PROVE  PoolInv'
<1>1. PoolTypes /\ Right(p) /\ ppc[p] = "fields" /\ bs' = bs
  BY Zenon DEF PoolInv, Panic
<1>2. AtFields(Tag(p), pcall[p], mine[p], EncOf(p), text[p], todo[p], In(p, "line"), In(p, "clone"))
  BY <1>1, AtLabel, Zenon DEF Right
<1>3. mine[p].enc # Nil /\ mine[p].arr = Nil
  BY <1>2, Zenon DEF AtFields, Started
<1>4. ppc' \in [Procs -> Labels] /\ ppc'[p] = "idle" /\ \A q \in Procs : q # p => ppc'[q] = ppc[q]
  BY <1>1, LabelsAre, Zenon DEF Panic, Labels
<1>5. /\ mine' \in [Procs -> Holding] /\ \A q \in Procs : q # p => mine'[q] = mine[q]
      /\ mine'[p].buf = Nil /\ mine'[p].enc = Nil /\ mine'[p].arr = Nil
  <2>1. mine \in [Procs -> Holding] /\ mine' = [mine EXCEPT ![p] = Nothing]
    BY <1>1, Zenon DEF Panic, PoolTypes
  <2> QED BY <2>1, Zenon DEF Holding, Nothing
<1>6. mine[p].enc \in Encs /\ EncOf(p) = enc[mine[p].enc]
  BY <1>1, <1>3, HeldAre, Zenon DEF EncOf
<1>7. Right(p)'
  <2>1. Bare(mine'[p])
    BY <1>5, Zenon DEF Bare
  <2> QED BY <1>4, <2>1, AtLabel, Zenon DEF Right
<1>8. CASE pcall[p].console
  <2>1. /\ pool \in Pooled
        /\ pool' = [pool EXCEPT !.encs = @ \cup {mine[p].enc},
                      !.bufs = @ \cup ({enc[mine[p].enc].buf, enc[mine[p].enc].reflectBuf} \ {Nil})]
        /\ enc' = [enc EXCEPT ![mine[p].enc] = Blank]
    BY <1>1, <1>8, Zenon DEF Panic, PoolTypes
  <2>2. enc[mine[p].enc] \in Encoder
    BY <1>1, <1>6, ZenonT(30) DEF PoolTypes
  <2>3. /\ pool' \in Pooled /\ pool'.encs = pool.encs \cup {mine[p].enc} /\ pool'.arrs = pool.arrs
        /\ pool'.bufs = pool.bufs \cup ({EncOf(p).buf, EncOf(p).reflectBuf} \ {Nil})
    BY <1>6, <2>1, <2>2, Zenon DEF Pooled, Encoder
  <2>4. /\ Clean' /\ enc' \in [Encs -> Encoder]
        /\ \A x \in Encs : x # mine[p].enc => enc'[x] = enc[x]
    BY <1>6, <2>1, <2>3, EncoderPut, Zenon DEF Panic
  <2>5. PoolTypes'
    BY <1>1, <1>4, <1>5, <2>3, <2>4, Zenon DEF Panic, PoolTypes
  <2>6. Beside(p)
    BY <1>1, <1>4, <1>5, <2>4, Zenon DEF Panic, Beside
  <2>7. Released(p)
    <3>1. \A b \in pool'.bufs : b # Nil /\ (b \in pool.bufs \/ b = EncOf(p).buf \/ b = EncOf(p).reflectBuf)
      BY <1>1, <2>3, PoolIs, NilAssumption, ZenonT(30) DEF PoolTypes
    <3>2. \A b \in pool'.bufs : b \in pool.bufs \/ \E j \in Kinds : b = Slot(p, j)
      BY <3>1, SlotIs, KindsAre, ZenonT(60)
    <3>3. \A e \in pool'.encs : e \in pool.encs \/ e = mine[p].enc
      BY Zenon, <2>3
    <3> QED BY <1>5, <2>3, <3>1, <3>2, <3>3, ZenonT(60) DEF Released
  <2> QED BY <1>7, <2>4, <2>5, <2>6, <2>7, ReleasedStep, ZenonT(60)
<1>9. CASE ~pcall[p].console
  <2>1. pool' = pool /\ enc' = enc
    BY <1>9, Zenon DEF Panic
  <2>2. Clean'
    BY <2>1, CleanKept, Zenon DEF Panic
  <2>3. PoolTypes'
    BY <1>1, <1>4, <1>5, <2>1, Zenon DEF Panic, PoolTypes
  <2>4. Beside(p)
    BY <1>1, <1>4, <1>5, <2>1, Zenon DEF Panic, Beside
  <2>5. Released(p)
    <3>1. Nil \notin pool.bufs
      BY <1>1, PoolIs, NilAssumption, ZenonT(30) DEF PoolTypes
    <3> QED BY <1>5, <2>1, <3>1, Zenon DEF Released
  <2> QED BY <1>7, <2>2, <2>3, <2>4, <2>5, ReleasedStep, Zenon
<1> QED BY <1>8, <1>9, Zenon

\* The end of EncodeEntry: putJSONEncoder, with the clone's buffer as the line (JSON) or
\* copied to the line and freed (console).
LEMMA EndEncodeStep ==
  ASSUME PoolInv, NEW p \in Procs, EndEncode(p)
  PROVE  PoolInv'
<1>1. /\ PoolTypes /\ Right(p) /\ ppc[p] = "fields" /\ todo[p] = << >>
      /\ pcall' = pcall /\ text' = text
  BY Zenon DEF PoolInv, EndEncode
<1>2. AtFields(Tag(p), pcall[p], mine[p], EncOf(p), text[p], todo[p], In(p, "line"), In(p, "clone"))
  BY <1>1, AtLabel, ZenonT(60) DEF Right
<1>3. /\ mine[p].enc # Nil /\ EncOf(p).buf # Nil /\ mine[p].arr = Nil
      /\ text[p] = Trace(Tag(p), pcall[p])
  BY <1>2, Zenon DEF AtFields, Started
<1>4. ppc' \in [Procs -> Labels] /\ ppc'[p] = "write" /\ \A q \in Procs : q # p => ppc'[q] = ppc[q]
  BY <1>1, LabelsAre, Zenon DEF EndEncode, Labels
<1>5. /\ mine[p].enc \in Encs /\ EncOf(p) = enc[mine[p].enc] /\ EncOf(p).buf \in Bufs
      /\ EncOf(p).buf # mine[p].buf /\ EncOf(p).buf # EncOf(p).reflectBuf
      /\ In(p, "clone") = bs[EncOf(p).buf]
  BY <1>1, <1>3, HeldAre, FieldBufs, Zenon
<1>6. enc[mine[p].enc] \in Encoder /\ mine \in [Procs -> Holding] /\ pool \in Pooled /\ DOMAIN bs = Bufs
  BY <1>1, <1>5, ZenonT(30) DEF PoolTypes
<1>7. enc' = [enc EXCEPT ![mine[p].enc] = Blank] /\ elems' = elems
  BY Zenon DEF EndEncode, PutJSONEncoder
<1>8. Tag(p)' = Tag(p)
  BY <1>1, Zenon DEF Tag
<1>9. In(p, "clone") = Begun(Tag(p), pcall[p]) \o Added(Tag(p), pcall[p], 0)
  <2>1. Len(todo[p]) = 0
    BY <1>1
  <2> QED BY <1>2, <2>1, Zenon DEF AtFields
<1>10. Ends(Tag(p), pcall[p])
  BY <1>1, CallIs, Finished, Zenon
<1>11. \A k \in Kinds : Slot(p, k) \notin pool.bufs
  BY Zenon DEF PoolInv, BufsApart
<1>12. Nil \notin pool.bufs
  BY ZenonT(30), <1>6, PoolIs, NilAssumption
<1> DEFINE reflected == {EncOf(p).reflectBuf} \ {Nil}
<1>13. CASE pcall[p].console
  <2>1. mine[p].buf # Nil /\ In(p, "line") = <<<<Tag(p), "entry">>>>
    BY <1>2, <1>13, Zenon DEF AtFields, Started
  <2>2. mine[p].buf \in Bufs /\ In(p, "line") = bs[mine[p].buf]
    BY <1>1, <2>1, HeldAre, SlotIs, KindsAre, Zenon DEF In
  <2>3. /\ bs' = [bs EXCEPT ![mine[p].buf] = (bs[mine[p].buf] \o bs[enc[mine[p].enc].buf]) \o text[p]]
        /\ pool' = [pool EXCEPT !.encs = @ \cup {mine[p].enc},
                      !.bufs = @ \cup ({enc[mine[p].enc].reflectBuf} \ {Nil}) \cup {enc[mine[p].enc].buf}]
        /\ mine' = [mine EXCEPT ![p].enc = Nil]
    BY <1>13, Zenon DEF EndEncode
  <2>4. bs' = [bs EXCEPT ![mine[p].buf] = Whole(Tag(p), pcall[p])]
    BY <1>3, <1>5, <1>9, <1>10, <1>13, <2>1, <2>2, <2>3, ZenonT(60) DEF Ends
  <2>5. /\ DOMAIN bs' = Bufs /\ bs'[mine[p].buf] = Whole(Tag(p), pcall[p])
        /\ \A x \in Bufs : x # mine[p].buf => bs'[x] = bs[x]
    BY Zenon, <1>6, <2>2, <2>4
  <2>6. /\ pool' \in Pooled /\ pool'.encs = pool.encs \cup {mine[p].enc} /\ pool'.arrs = pool.arrs
        /\ pool'.bufs = (pool.bufs \cup reflected) \cup {EncOf(p).buf}
    BY <1>5, <1>6, <2>3, Zenon DEF Pooled, Encoder
  <2>7. /\ mine' \in [Procs -> Holding] /\ \A q \in Procs : q # p => mine'[q] = mine[q]
        /\ mine'[p].buf = mine[p].buf /\ mine'[p].enc = Nil /\ mine'[p].arr = mine[p].arr
    <3>1. mine \in [Procs -> Holding] /\ mine' = [mine EXCEPT ![p].enc = Nil] /\ Nil \in Encs \cup {Nil}
      BY Zenon, <1>6, <2>3
    <3> QED BY <3>1, SetEnc
  <2>8. /\ Clean' /\ enc' \in [Encs -> Encoder]
        /\ \A x \in Encs : x # mine[p].enc => enc'[x] = enc[x]
    BY <1>5, <1>7, <2>6, EncoderPut, Zenon
  <2>9. PoolTypes'
    BY <1>1, <1>4, <2>5, <2>6, <2>7, <2>8, Zenon DEF EndEncode, PoolTypes
  <2>10. Beside(p)
    <3>1. \A x \in Bufs : (\A k \in Kinds : x # Slot(p, k)) => bs'[x] = bs[x]
      BY <2>5, SlotIs, KindsAre, Zenon
    <3> QED BY <1>4, <1>7, <2>7, <2>8, <3>1, Zenon DEF EndEncode, Beside
  <2>11. Released(p)
    <3>1. \A b \in pool'.bufs : b \in pool.bufs \/ b = EncOf(p).buf \/ b = EncOf(p).reflectBuf
      BY Zenon, <2>6
    <3>2. \A b \in pool'.bufs : b \in pool.bufs \/ \E j \in Kinds : b = Slot(p, j)
      BY <3>1, SlotIs, KindsAre, Zenon
    <3>3. \A e \in pool'.encs : e \in pool.encs \/ e = mine[p].enc
      BY Zenon, <2>6
    <3>4. mine[p].buf # EncOf(p).reflectBuf
      <4>1. Slot(p, "line") # Nil /\ "line" # "reflect"
        BY Zenon, <2>1, SlotIs
      <4>2. Slot(p, "line") # Slot(p, "reflect")
        BY <4>1, KindsAre, Zenon DEF PoolInv, BufsApart
      <4> QED BY <4>2, SlotIs, Zenon
    <3>5. mine'[p].buf \notin pool'.bufs
      BY <1>5, <1>11, <2>7, <3>1, <3>4, SlotIs, KindsAre, ZenonT(60)
    <3>6. \E k \in Kinds : mine'[p].buf = Slot(p, k)
      BY <2>7, SlotIs, KindsAre, Zenon
    <3> QED BY <1>3, <2>6, <2>7, <3>2, <3>3, <3>5, <3>6, ZenonT(60) DEF Released
  <2>12. Right(p)'
    <3>1. In(p, "line")' = Whole(Tag(p), pcall[p])
      BY <2>1, <2>5, <2>7, SlotIs, ZenonT(60) DEF In
    <3>2. AtWrite(Tag(p)', pcall'[p], mine'[p], In(p, "line")')
      BY <1>1, <1>3, <1>8, <2>1, <2>7, <3>1, ZenonT(60) DEF AtWrite
    <3> QED BY <1>4, <3>2, AtLabel, Zenon DEF Right
  <2> QED BY <2>8, <2>9, <2>10, <2>11, <2>12, ReleasedStep, Zenon
<1>14. CASE ~pcall[p].console
  <2>3. /\ bs' = [bs EXCEPT ![enc[mine[p].enc].buf] = bs[enc[mine[p].enc].buf] \o text[p]]
        /\ pool' = [pool EXCEPT !.encs = @ \cup {mine[p].enc},
                      !.bufs = @ \cup ({enc[mine[p].enc].reflectBuf} \ {Nil})]
        /\ mine' = [mine EXCEPT ![p].enc = Nil, ![p].buf = enc[mine[p].enc].buf]
    BY <1>14, Zenon DEF EndEncode
  <2>4. bs' = [bs EXCEPT ![EncOf(p).buf] = Whole(Tag(p), pcall[p])]
    BY <1>3, <1>5, <1>9, <1>10, <1>14, <2>3, Zenon DEF Ends
  <2>5. /\ DOMAIN bs' = Bufs /\ bs'[EncOf(p).buf] = Whole(Tag(p), pcall[p])
        /\ \A x \in Bufs : x # EncOf(p).buf => bs'[x] = bs[x]
    BY Zenon, <1>5, <1>6, <2>4
  <2>6. /\ pool' \in Pooled /\ pool'.encs = pool.encs \cup {mine[p].enc} /\ pool'.arrs = pool.arrs
        /\ pool'.bufs = pool.bufs \cup reflected
    BY <1>5, <1>6, <2>3, Zenon DEF Pooled, Encoder
  <2>7. /\ mine' \in [Procs -> Holding] /\ \A q \in Procs : q # p => mine'[q] = mine[q]
        /\ mine'[p].buf = EncOf(p).buf /\ mine'[p].enc = Nil /\ mine'[p].arr = mine[p].arr
    BY <1>5, <1>6, <2>3, ZenonT(60) DEF Holding
  <2>8. /\ Clean' /\ enc' \in [Encs -> Encoder]
        /\ \A x \in Encs : x # mine[p].enc => enc'[x] = enc[x]
    BY <1>5, <1>7, <2>6, EncoderPut, Zenon
  <2>9. PoolTypes'
    BY <1>1, <1>4, <2>5, <2>6, <2>7, <2>8, Zenon DEF EndEncode, PoolTypes
  <2>10. Beside(p)
    <3>1. \A x \in Bufs : (\A k \in Kinds : x # Slot(p, k)) => bs'[x] = bs[x]
      BY <2>5, SlotIs, KindsAre, Zenon
    <3> QED BY <1>4, <1>7, <2>7, <2>8, <3>1, Zenon DEF EndEncode, Beside
  <2>11. Released(p)
    <3>1. \A b \in pool'.bufs : b \in pool.bufs \/ b = EncOf(p).reflectBuf
      BY Zenon, <2>6
    <3>2. \A b \in pool'.bufs : b \in pool.bufs \/ \E j \in Kinds : b = Slot(p, j)
      BY <3>1, SlotIs, KindsAre, Zenon
    <3>3. \A e \in pool'.encs : e \in pool.encs \/ e = mine[p].enc
      BY ZenonT(30), <2>6
    <3>5. mine'[p].buf \notin pool'.bufs
      BY <1>5, <1>11, <2>7, <3>1, SlotIs, KindsAre, ZenonT(60)
    <3>6. \E k \in Kinds : mine'[p].buf = Slot(p, k)
      BY <2>7, SlotIs, KindsAre, ZenonT(60)
    <3> QED BY <1>3, <2>6, <2>7, <3>2, <3>3, <3>5, <3>6, ZenonT(60) DEF Released
  <2>12. Right(p)'
    <3>1. In(p, "line")' = Whole(Tag(p), pcall[p])
      BY <1>3, <2>5, <2>7, SlotIs, Zenon DEF In
    <3>2. AtWrite(Tag(p)', pcall'[p], mine'[p], In(p, "line")')
      BY <1>1, <1>3, <1>8, <2>7, <3>1, Zenon DEF AtWrite
    <3> QED BY <1>4, <3>2, AtLabel, Zenon DEF Right
  <2> QED BY <2>8, <2>9, <2>10, <2>11, <2>12, ReleasedStep, Zenon
<1> QED BY <1>13, <1>14, Zenon

\* jsonEncoder.clone: what the pool hands out has no reflectBuf of an earlier call.
LEMMA CloneStep ==
  ASSUME PoolInv, NEW p \in Procs, NEW e \in Encs, NEW b \in Bufs, Clone(p, e, b)
  PROVE  PoolInv'
<1>1. /\ PoolTypes /\ Right(p) /\ ppc[p] = "clone" /\ e \in pool.encs /\ b \in pool.bufs
      /\ pcall' = pcall /\ todo' = todo /\ text' = text /\ elems' = elems /\ e # Nil /\ b # Nil
  BY NilAssumption, Zenon DEF PoolInv, Clone
<1>2. AtClone(Tag(p), pcall[p], mine[p], text[p], todo[p], In(p, "line"))
  BY <1>1, AtLabel, ZenonT(60) DEF Right
<1>3. mine[p].enc = Nil /\ mine[p].arr = Nil /\ todo[p] = pcall[p].fields
  BY <1>2, Zenon DEF AtClone, Started
<1>4. ppc' \in [Procs -> Labels] /\ ppc'[p] = "fields" /\ \A q \in Procs : q # p => ppc'[q] = ppc[q]
  BY <1>1, LabelsAre, Zenon DEF Clone, Labels
<1>5. /\ mine' \in [Procs -> Holding] /\ \A q \in Procs : q # p => mine'[q] = mine[q]
      /\ mine'[p].buf = mine[p].buf /\ mine'[p].enc = e /\ mine'[p].arr = mine[p].arr
  <2>1. mine \in [Procs -> Holding] /\ mine' = [mine EXCEPT ![p].enc = e] /\ e \in Encs \cup {Nil}
    BY <1>1, Zenon DEF Clone, PoolTypes
  <2> QED BY <2>1, SetEnc
<1>6. /\ pool' \in Pooled
      /\ pool'.bufs = pool.bufs \ {b} /\ pool'.encs = pool.encs \ {e} /\ pool'.arrs = pool.arrs
  <2>1. pool \in Pooled /\ pool' = [pool EXCEPT !.bufs = @ \ {b}, !.encs = @ \ {e}]
    BY <1>1, Zenon DEF Clone, PoolTypes
  <2> QED BY <2>1, Zenon DEF Pooled
<1>7. DOMAIN bs' = Bufs /\ bs'[b] = Begun(Tag(p), pcall[p]) /\ \A x \in Bufs : x # b => bs'[x] = bs[x]
  <2>1. bs' = [bs EXCEPT ![b] = Begun(Tag(p), pcall[p])] /\ DOMAIN bs = Bufs
    BY <1>1, Zenon DEF Clone, Begun, PoolTypes
  <2> QED BY Zenon, <2>1
<1>8. /\ enc' \in [Encs -> Encoder] /\ enc'[e].buf = b /\ enc'[e].reflectBuf = Nil
      /\ \A x \in Encs : x # e => enc'[x] = enc[x]
  <2>1. enc[e] = Blank
    BY <1>1, Zenon DEF PoolInv, Clean
  <2>2. enc \in [Encs -> Encoder] /\ enc' = [enc EXCEPT ![e].buf = b]
    BY <1>1, Zenon DEF Clone, PoolTypes
  <2> QED BY <2>1, <2>2 DEF Encoder, Blank
<1>9. EncOf(p)' = enc'[e]
  BY <1>1, <1>5, Zenon DEF EncOf
<1>10. /\ Slot(p, "line")' = Slot(p, "line") /\ Slot(p, "clone")' = b /\ Slot(p, "reflect")' = Nil
       /\ Slot(p, "line") # b
  <2>1. Slot(p, "line") \notin pool.bufs
    BY KindsAre, Zenon DEF PoolInv, BufsApart
  <2>2. Slot(p, "line") # b
    BY Zenon, <1>1, <2>1
  <2>3. Slot(p, "line")' = Slot(p, "line")
    BY <1>5, SlotIs, Zenon
  <2>4. Slot(p, "clone")' = b
    BY <1>8, <1>9, SlotIs, Zenon
  <2>5. Slot(p, "reflect")' = Nil
    BY <1>8, <1>9, SlotIs, Zenon
  <2> QED BY <2>2, <2>3, <2>4, <2>5, Zenon
<1>11. PoolTypes'
  BY <1>1, <1>4, <1>5, <1>6, <1>7, <1>8, ZenonT(60) DEF Clone, PoolTypes
<1>12. Beside(p)
  BY <1>1, <1>4, <1>5, <1>7, <1>8, ZenonT(60) DEF Clone, Beside
<1>13. Clean'
  <2>1. \A x \in pool'.encs : x \in pool.encs /\ x \in Encs /\ x # e
    BY <1>1, <1>6, PoolIs, Zenon DEF PoolTypes
  <2>2. \A x \in pool'.encs : enc'[x] = Blank
    BY <1>8, <2>1, Zenon DEF PoolInv, Clean
  <2>3. \A x \in pool'.arrs : elems'[x] = << >>
    BY <1>1, <1>6, Zenon DEF PoolInv, Clean
  <2> QED BY <2>2, <2>3, Zenon DEF Clean
<1>14. Right(p)'
  <2>1. Tag(p)' = Tag(p)
    BY <1>1, Zenon DEF Tag
  <2>2. In(p, "clone")' = Begun(Tag(p), pcall[p])
    BY <1>1, <1>7, <1>10, Zenon DEF In
  <2>3. In(p, "line")' = In(p, "line")
    <3>1. CASE Slot(p, "line") = Nil
      BY <1>10, <3>1, Zenon DEF In
    <3>2. CASE Slot(p, "line") # Nil
      <4>1. Slot(p, "line") \in Bufs
        BY <1>1, <3>2, HeldAre, KindsAre, Zenon
      <4> QED BY <1>7, <1>10, <4>1, Zenon DEF In
    <3> QED BY <3>1, <3>2, Zenon
  <2>4. pcall[p] \in Scripts /\ Tag(p) = <<p, pcall[p].id>>
    BY <1>1, CallIs, Zenon
  <2>5. /\ pcall[p].fields \in Seq({"plain", "reflected"})
        /\ Len(pcall[p].fields) <= Len(pcall[p].fields)
    BY <2>4, ScriptsAssumption
  <2>6. Begun(Tag(p), pcall[p])
          = Begun(Tag(p), pcall[p]) \o Added(Tag(p), pcall[p], Len(pcall[p].fields))
    <3>1. Begun(Tag(p), pcall[p]) \in Seq(Piece) /\ Added(Tag(p), pcall[p], Len(pcall[p].fields)) = << >>
      BY <2>4, AddedIs, Zenon
    <3> QED BY <3>1
  <2>7. EncOf(p)'.buf # Nil
    BY <1>1, <1>8, <1>9, Zenon
  <2>8. AtFields(Tag(p)', pcall'[p], mine'[p], EncOf(p)', text'[p], todo'[p], In(p, "line")',
                 In(p, "clone")')
    <3>1. Started(Tag(p)', pcall'[p], mine'[p], text'[p], In(p, "line")')
      BY <1>1, <1>2, <1>5, <2>1, <2>3, Zenon DEF AtClone, Started
    <3> QED BY <1>1, <1>3, <1>5, <2>1, <2>2, <2>5, <2>6, <2>7, <3>1, ZenonT(60) DEF AtFields
  <2> QED BY <1>4, <2>8, AtLabel, Zenon DEF Right
<1>15. Nil \notin pool'.bufs /\ Nil \notin pool'.encs /\ Nil \notin pool'.arrs
  BY ZenonT(30), <1>6, PoolIs, NilAssumption
<1>16. \A k \in Kinds : \/ Slot(p, k)' = Nil
                        \/ Slot(p, k)' \in pool.bufs
                        \/ \E j \in Kinds : Slot(p, k)' = Slot(p, j)
  BY <1>1, <1>10, KindsAre, Zenon
<1>17. \A j, k \in Kinds : Slot(p, j)' = Slot(p, k)' /\ Slot(p, j)' # Nil => j = k
  BY <1>10, KindsAre, Zenon
<1>18. \A k \in Kinds : Slot(p, k)' \notin pool'.bufs
  <2>1. b \notin pool'.bufs /\ \A x \in pool'.bufs : x \in pool.bufs
    BY ZenonT(30), <1>6
  <2>2. Slot(p, "line") \notin pool.bufs
    BY KindsAre, Zenon DEF PoolInv, BufsApart
  <2> QED BY <1>10, <1>15, <2>1, <2>2, KindsAre, Zenon
<1>19. /\ \A x \in pool'.bufs : x \in pool.bufs \/ \E j \in Kinds : x = Slot(p, j)
       /\ \A x \in pool'.encs : x \in pool.encs \/ x = mine[p].enc
       /\ \A x \in pool'.arrs : x \in pool.arrs \/ x = mine[p].arr
       /\ e \notin pool'.encs
  BY Zenon, <1>6
<1> QED BY <1>1, <1>3, <1>5, <1>11, <1>12, <1>13, <1>14, <1>15, <1>16, <1>17, <1>18, <1>19, Together, ZenonT(60)

\* resetReflectBuf takes a buffer for the clone, or empties the one that it has.
LEMMA ReflectStep ==
  ASSUME PoolInv, NEW p \in Procs, NEW b \in Bufs, Reflect(p, b)
  PROVE  PoolInv'
<1>1. /\ PoolTypes /\ Right(p) /\ ppc[p] = "fields" /\ todo[p] # << >>
      /\ pcall' = pcall /\ todo' = todo /\ text' = text /\ elems' = elems /\ mine' = mine /\ b # Nil
  BY NilAssumption, Zenon DEF PoolInv, Reflect, Adds
<1>2. AtFields(Tag(p), pcall[p], mine[p], EncOf(p), text[p], todo[p], In(p, "line"), In(p, "clone"))
  BY <1>1, AtLabel, Zenon DEF Right
<1>3. mine[p].enc # Nil /\ EncOf(p).buf # Nil
  BY <1>2, Zenon DEF AtFields
<1>4. ppc' \in [Procs -> Labels] /\ ppc'[p] = "reflected" /\ \A q \in Procs : q # p => ppc'[q] = ppc[q]
  BY <1>1, LabelsAre, Zenon DEF Reflect, Labels
<1>5. /\ mine[p].enc \in Encs /\ EncOf(p) = enc[mine[p].enc] /\ EncOf(p).buf \in Bufs
      /\ EncOf(p).buf # EncOf(p).reflectBuf /\ In(p, "clone") = bs[EncOf(p).buf]
  BY <1>1, <1>3, HeldAre, FieldBufs, Zenon
<1>6. /\ DOMAIN bs' = Bufs /\ bs'[b] = <<<<Tag(p), Len(todo[p])>>>>
      /\ \A x \in Bufs : x # b => bs'[x] = bs[x]
  BY <1>1, Zenon DEF Reflect, PoolTypes
<1>7. /\ enc' \in [Encs -> Encoder] /\ enc'[mine[p].enc].reflectBuf = b
      /\ enc'[mine[p].enc].buf = enc[mine[p].enc].buf
      /\ \A x \in Encs : x # mine[p].enc => enc'[x] = enc[x]
      /\ pool' \in Pooled /\ b \notin pool'.bufs /\ pool'.encs = pool.encs /\ pool'.arrs = pool.arrs
      /\ \A x \in pool'.bufs : x \in pool.bufs
      /\ b \in pool.bufs \/ b = EncOf(p).reflectBuf
  <2>1. enc \in [Encs -> Encoder] /\ pool \in Pooled
    BY <1>1, Zenon DEF PoolTypes
  <2>2. CASE enc[mine[p].enc].reflectBuf = Nil
    <3>1. /\ pool' = [pool EXCEPT !.bufs = @ \ {b}] /\ b \in pool.bufs
          /\ enc' = [enc EXCEPT ![mine[p].enc].reflectBuf = b]
      BY <2>2, Zenon DEF Reflect
    <3>2. /\ enc' \in [Encs -> Encoder] /\ enc'[mine[p].enc].reflectBuf = b
          /\ enc'[mine[p].enc].buf = enc[mine[p].enc].buf
          /\ \A x \in Encs : x # mine[p].enc => enc'[x] = enc[x]
      BY <1>5, <2>1, <3>1, ZenonT(30) DEF Encoder
    <3>3. /\ pool' \in Pooled /\ b \notin pool'.bufs /\ pool'.encs = pool.encs
          /\ pool'.arrs = pool.arrs /\ \A x \in pool'.bufs : x \in pool.bufs
      BY <2>1, <3>1, Zenon DEF Pooled
    <3> QED BY <3>1, <3>2, <3>3, Zenon
  <2>3. CASE enc[mine[p].enc].reflectBuf # Nil
    <3>1. pool' = pool /\ enc' = enc /\ b = enc[mine[p].enc].reflectBuf
      BY <2>3, Zenon DEF Reflect
    <3>2. Slot(p, "reflect") \notin pool.bufs
      BY KindsAre, Zenon DEF PoolInv, BufsApart
    <3> QED BY <1>5, <2>1, <3>1, <3>2, SlotIs, Zenon
  <2> QED BY <2>2, <2>3, Zenon
<1>8. EncOf(p)' = enc'[mine[p].enc]
  BY <1>1, <1>3, Zenon DEF EncOf
<1>9. /\ Slot(p, "line")' = Slot(p, "line") /\ Slot(p, "clone")' = Slot(p, "clone")
      /\ Slot(p, "reflect")' = b
  <2>1. Slot(p, "line")' = Slot(p, "line")
    BY <1>1, SlotIs, Zenon
  <2>2. Slot(p, "clone")' = Slot(p, "clone")
    <3>1. EncOf(p)'.buf = EncOf(p).buf
      BY <1>5, <1>7, <1>8, Zenon
    <3> QED BY <3>1, SlotIs, Zenon
  <2>3. Slot(p, "reflect")' = b
    BY <1>7, <1>8, SlotIs, ZenonT(60)
  <2> QED BY <2>1, <2>2, <2>3, Zenon
<1>20. b \in pool.bufs \/ b = Slot(p, "reflect")
  BY <1>7, SlotIs, Zenon
<1>10. b # Slot(p, "line") /\ b # Slot(p, "clone") /\ Slot(p, "clone") # Slot(p, "line")
  <2>1. "line" # "clone" /\ "clone" # "reflect" /\ "line" # "reflect"
    BY Zenon
  <2>0. BufsApart
    BY Zenon DEF PoolInv
  <2>4. Slot(p, "clone") # Slot(p, "line")
    <3>1. Slot(p, "clone") # Nil
      BY <1>3, SlotIs, Zenon
    <3> QED BY <2>0, <2>1, <3>1, KindsAre, Zenon DEF BufsApart
  <2>2. CASE b \in pool.bufs
    <3>1. Slot(p, "line") \notin pool.bufs /\ Slot(p, "clone") \notin pool.bufs
      BY <2>0, KindsAre, Zenon DEF BufsApart
    <3> QED BY Zenon, <2>2, <2>4, <3>1
  <2>3. CASE b = Slot(p, "reflect")
    <3>1. Slot(p, "reflect") # Nil
      BY <1>1, <2>3, Zenon
    <3>2. Slot(p, "reflect") # Slot(p, "line") /\ Slot(p, "reflect") # Slot(p, "clone")
      BY <2>0, <2>1, <3>1, KindsAre, ZenonT(30) DEF BufsApart
    <3> QED BY <2>3, <2>4, <3>2, Zenon
  <2> QED BY <1>20, <2>2, <2>3, Zenon
<1>11. PoolTypes'
  BY <1>1, <1>4, <1>6, <1>7, Zenon DEF Reflect, PoolTypes
<1>12. Beside(p)
  <2>1. \A x \in Bufs : x \notin pool.bufs /\ (\A k \in Kinds : x # Slot(p, k)) => bs'[x] = bs[x]
    BY <1>6, <1>20, KindsAre, Zenon
  <2> QED BY <1>1, <1>4, <1>7, <2>1, Zenon DEF Reflect, Beside
<1>13. Clean'
  <2>1. mine[p].enc \notin pool.encs /\ pool.encs \subseteq Encs
    BY <1>1, PoolIs, Zenon DEF PoolInv, EncsApart, PoolTypes
  <2>2. \A x \in pool.encs : x # mine[p].enc /\ x \in Encs
    BY ZenonT(30), <2>1
  <2> QED BY <1>1, <1>7, <2>2, Zenon DEF PoolInv, Clean
<1>14. Right(p)'
  <2>1. Tag(p)' = Tag(p)
    BY <1>1, Zenon DEF Tag
  <2>2. In(p, "reflect")' = <<<<Tag(p), Len(todo[p])>>>>
    BY <1>1, <1>6, <1>9, Zenon DEF In
  <2>3. In(p, "clone")' = In(p, "clone")
    <3>1. Slot(p, "clone") \in Bufs
      BY <1>5, SlotIs, Zenon
    <3> QED BY <1>6, <1>9, <1>10, <3>1, Zenon DEF In
  <2>4. In(p, "line")' = In(p, "line")
    <3>1. CASE Slot(p, "line") = Nil
      BY <1>9, <3>1, Zenon DEF In
    <3>2. CASE Slot(p, "line") # Nil
      <4>1. Slot(p, "line") \in Bufs
        BY <1>1, <3>2, HeldAre, KindsAre, Zenon
      <4> QED BY <1>6, <1>9, <1>10, <4>1, Zenon DEF In
    <3> QED BY <3>1, <3>2, Zenon
  <2>5. EncOf(p)'.buf # Nil /\ EncOf(p)'.reflectBuf # Nil
    BY <1>1, <1>3, <1>5, <1>7, <1>8, Zenon
  <2>6. AtFields(Tag(p)', pcall'[p], mine'[p], EncOf(p)', text'[p], todo'[p], In(p, "line")',
                 In(p, "clone")')
    BY <1>1, <1>2, <2>1, <2>3, <2>4, <2>5, ZenonT(60) DEF AtFields
  <2>7. AtReflected(Tag(p)', pcall'[p], mine'[p], EncOf(p)', text'[p], todo'[p], In(p, "line")',
                    In(p, "clone")', In(p, "reflect")')
    BY <1>1, <2>1, <2>2, <2>5, <2>6, Zenon DEF AtReflected
  <2> QED BY <1>4, <2>7, AtLabel, Zenon DEF Right
<1>15. \A k \in Kinds : \/ Slot(p, k)' = Nil
                        \/ Slot(p, k)' \in pool.bufs
                        \/ \E j \in Kinds : Slot(p, k)' = Slot(p, j)
  BY <1>9, <1>20, KindsAre, Zenon
<1>16. \A j, k \in Kinds : Slot(p, j)' = Slot(p, k)' /\ Slot(p, j)' # Nil => j = k
  BY <1>9, <1>10, KindsAre, Zenon
<1>17. \A k \in Kinds : Slot(p, k)' \notin pool'.bufs
  <2>1. Slot(p, "line") \notin pool.bufs /\ Slot(p, "clone") \notin pool.bufs
    BY KindsAre, Zenon DEF PoolInv, BufsApart
  <2> QED BY <1>7, <1>9, <2>1, KindsAre, Zenon
<1>18. mine'[p].enc \notin pool'.encs /\ mine'[p].arr \notin pool'.arrs
  BY <1>1, <1>7, ZenonT(60) DEF PoolInv, EncsApart, ArrsApart
<1> QED BY <1>1, <1>7, <1>11, <1>12, <1>13, <1>14, <1>15, <1>16, <1>17, <1>18, Together, ZenonT(60)

\* At the start every object is in its pool and clean.
LEMMA PoolsStart == PoolsInit => PoolInv
<1> SUFFICES ASSUME PoolsInit PROVE PoolInv
  BY Zenon
<1>1. Blank \in Encoder /\ Nothing \in Holding
  BY Zenon DEF Blank, Encoder, Nothing, Holding
<1>2. Nothing.buf = Nil /\ Nothing.enc = Nil /\ Nothing.arr = Nil /\ Blank.buf = Nil /\ Blank.reflectBuf = Nil
  BY Zenon DEF Nothing, Blank
<1>3. (CHOOSE c \in Scripts : TRUE) \in Scripts
  BY Zenon, ScriptsAssumption
<1>4. /\ ppc \in [Procs -> Labels] /\ pcall \in [Procs -> Scripts] /\ mine \in [Procs -> Holding]
      /\ enc \in [Encs -> Encoder]
  <2>1. "idle" \in Labels
    BY Zenon DEF Labels
  <2>2. /\ ppc = [p \in Procs |-> "idle"] /\ pcall = [p \in Procs |-> CHOOSE c \in Scripts : TRUE]
        /\ mine = [p \in Procs |-> Nothing] /\ enc = [e \in Encs |-> Blank]
    BY Zenon DEF PoolsInit
  <2> QED BY <1>1, <1>3, <2>1, <2>2, Zenon
<1>5. pool \in Pooled /\ pool.bufs = Bufs /\ pool.encs = Encs /\ pool.arrs = Arrs
  <2>1. pool = [bufs |-> Bufs, encs |-> Encs, arrs |-> Arrs, stacks |-> Stacks]
    BY Zenon DEF PoolsInit
  <2> QED BY <2>1, Zenon DEF Pooled
<1>6. PoolTypes
  <2>1. DOMAIN bs = Bufs /\ DOMAIN elems = Arrs
    BY Zenon DEF PoolsInit
  <2>2. DOMAIN frames = Procs /\ DOMAIN text = Procs /\ DOMAIN todo = Procs /\ DOMAIN line = Procs
    BY Zenon DEF PoolsInit
  <2> QED BY <1>4, <1>5, <2>1, <2>2, Zenon DEF PoolTypes
<1>7. \A p \in Procs : mine[p] = Nothing /\ ppc[p] = "idle"
  BY DEF PoolsInit
<1>8. \A p \in Procs : EncOf(p) = Blank
  BY <1>2, <1>7, Zenon DEF EncOf
<1>9. \A p \in Procs : \A k \in Kinds : Slot(p, k) = Nil
  BY <1>2, <1>7, <1>8, SlotIs, KindsAre, ZenonT(60)
<1>10. Nil \notin Bufs /\ Nil \notin Encs /\ Nil \notin Arrs
  BY Zenon, NilAssumption
<1>11. BufsApart
  BY <1>5, <1>9, <1>10, Zenon DEF BufsApart
<1>12. EncsApart /\ ArrsApart
  BY <1>2, <1>5, <1>7, <1>10, Zenon DEF EncsApart, ArrsApart
<1>13. Clean
  <2>1. \A e \in Encs : enc[e] = Blank
    BY Zenon DEF PoolsInit
  <2>2. \A a \in Arrs : elems[a] = << >>
    BY Zenon DEF PoolsInit
  <2> QED BY <1>5, <2>1, <2>2, Zenon DEF Clean
<1>14. \A p \in Procs : Right(p)
  <2>1. \A p \in Procs : Bare(mine[p])
    BY <1>2, <1>7, Zenon DEF Bare
  <2> QED BY <1>7, <2>1, AtLabel, ZenonT(60) DEF Right
<1> QED BY <1>6, <1>11, <1>12, <1>13, <1>14, ZenonT(60) DEF PoolInv

\* Every step preserves the invariant.
LEMMA PoolsStep == PoolInv /\ [PoolsNext]_poolsVars => PoolInv'
<1> SUFFICES ASSUME PoolInv, [PoolsNext]_poolsVars PROVE PoolInv'
  BY ZenonT(30)
<1>1. ASSUME NEW p \in Procs, NEW c \in Scripts, Start(p, c) PROVE PoolInv'
  BY <1>1, StartStep, Zenon
<1>2. ASSUME NEW p \in Procs, NEW s \in Stacks, Capture(p, s) PROVE PoolInv'
  BY <1>2, CaptureStep, Zenon
<1>3. ASSUME NEW p \in Procs, Expand(p) \/ CopyStack(p) \/ FreeStack(p) PROVE PoolInv'
  BY <1>3, ExpandStep, CopyStackStep, FreeStackStep, Zenon
<1>4. ASSUME NEW p \in Procs, NEW b \in Bufs, Format(p, b) \/ Reflect(p, b) PROVE PoolInv'
  BY <1>4, FormatStep, ReflectStep, Zenon
<1>5. ASSUME NEW p \in Procs, NEW b \in Bufs, NEW a \in Arrs, ConsoleLine(p, b, a) PROVE PoolInv'
  BY <1>5, ConsoleLineStep, Zenon
<1>6. ASSUME NEW p \in Procs, NEW b \in Bufs, NEW e \in Encs, Clone(p, e, b) PROVE PoolInv'
  BY <1>6, CloneStep, Zenon
<1>7. ASSUME NEW p \in Procs, ConsoleElems(p) \/ AddPlain(p) \/ CopyReflected(p) PROVE PoolInv'
  BY <1>7, ConsoleElemsStep, AddPlainStep, CopyReflectedStep, Zenon
<1>8. ASSUME NEW p \in Procs, Panic(p) \/ EndEncode(p) \/ WriteLine(p) \/ FreeLine(p) PROVE PoolInv'
  BY <1>8, PanicStep, EndEncodeStep, WriteLineStep, FreeLineStep, Zenon
<1>9. CASE UNCHANGED poolsVars
  <2>1. /\ bs' = bs /\ enc' = enc /\ elems' = elems /\ pool' = pool /\ ppc' = ppc /\ pcall' = pcall
        /\ mine' = mine /\ frames' = frames /\ text' = text /\ todo' = todo /\ line' = line
    BY <1>9, ZenonT(30) DEF poolsVars
  <2>2. \A p : EncOf(p)' = EncOf(p) /\ ElemsOf(p)' = ElemsOf(p) /\ Tag(p)' = Tag(p)
    BY <2>1, Zenon DEF EncOf, ElemsOf, Tag
  <2>3. \A p : \A k : Slot(p, k)' = Slot(p, k)
    BY <2>1, <2>2, Zenon DEF Slot
  <2>4. \A p : \A k : In(p, k)' = In(p, k)
    BY <2>1, <2>3, Zenon DEF In
  <2>5. \A p : Right(p)' <=> Right(p)
    BY <2>1, <2>2, <2>4, Zenon DEF Right
  <2>6. PoolTypes' /\ Clean'
    BY <2>1, Zenon DEF PoolInv, PoolTypes, Clean
  <2>7. BufsApart' /\ EncsApart' /\ ArrsApart'
    <3>1. BufsApart /\ EncsApart /\ ArrsApart
      BY Zenon DEF PoolInv
    <3>2. BufsApart'
      BY <2>1, <2>3, <3>1 DEF BufsApart
    <3>3. EncsApart' /\ ArrsApart'
      BY <2>1, <3>1, Zenon DEF EncsApart, ArrsApart
    <3> QED BY <3>2, <3>3, Zenon
  <2> QED BY <2>5, <2>6, <2>7, Zenon DEF PoolInv
<1> QED BY <1>1, <1>2, <1>3, <1>4, <1>5, <1>6, <1>7, <1>8, <1>9, Zenon DEF PoolsNext

\* For every number of goroutines, pooled objects and calls: what ioCore.Write gives the
\* sink is the entry, context, fields and stack of its own call, whoever used the
\* pooled buffers, encoders and stacks before or uses others at the same time, panics
\* of marshalers included.
THEOREM LineIntactHolds == PoolsSpec => []LineIntact
<1>1. PoolInv => LineIntact
  <2> SUFFICES ASSUME PoolInv, NEW p \in Procs, ppc[p] = "free"
               PROVE  line[p] = <<<<Tag(p), "entry">>, "context">> \o FieldsOf(p) \o StackOf(p)
    BY Zenon DEF LineIntact
  <2>1. AtFree(Tag(p), pcall[p], mine[p], line[p])
    BY AtLabel, ZenonT(60) DEF PoolInv, Right
  <2>2. pcall[p] \in Scripts
    BY CallIs, Zenon DEF PoolInv
  <2>3. Len(pcall[p].fields) - 0 = Len(pcall[p].fields)
    BY <2>2, ScriptsAssumption
  <2>4. FieldsOf(p) = Added(Tag(p), pcall[p], 0)
    BY <2>3, Zenon DEF FieldsOf, Added
  <2>5. StackOf(p) = Trace(Tag(p), pcall[p])
    BY Zenon DEF StackOf, Trace
  <2> QED BY <2>1, <2>4, <2>5, Zenon DEF AtFree, Whole
<1> QED BY <1>1, PoolsStart, PoolsStep, PTL DEF PoolsSpec
=============================================================================
