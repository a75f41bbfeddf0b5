---------------------------- MODULE SinksProofs -----------------------------
(***************************************************************************)
(* Where entries end up, for any number of goroutines: the mutex of Lock   *)
(* keeps the sinks of a MultiWriteSyncer in step, what reports no error is *)
(* done, and an observer keeps what it was given and its cores apart.      *)
(***************************************************************************)
EXTENDS MultiWriteSyncer, Observer, TLAPS

(* Numbers of sinks and of bytes.                                          *)
LEMMA Numbers ==
  /\ 1 \in 1 .. NumSinks + 1 /\ 0 \in Nat /\ ~(1 > 1)
  /\ \A i \in 1 .. NumSinks : i + 1 \in 1 .. NumSinks + 1 /\ i \in Int /\ ~(i < 1)
  /\ \A i \in 1 .. NumSinks + 1 : i > NumSinks => \A s \in 1 .. NumSinks : s < i
  /\ \A n \in 0 .. EntryLen : n \in Nat
  /\ \A n \in Nat : n + 1 \in 1 .. n + 1
  /\ \A i, j \in Int : i < j + 1 /\ i # j => i < j
BY MultiAssumption

\* What Write returns once every sink took all of an entry.
LEMMA FewestFull == \A w \in {0, EntryLen} : Fewest(w, EntryLen) = EntryLen
BY MultiAssumption, Zenon DEF Fewest

LEMMA SomeSeqs ==
  ASSUME NEW T
  PROVE  /\ << >> \in Seq(T)
         /\ \A s \in Seq(T) : Len(s) \in Nat /\ \A e \in T : Append(s, e) \in Seq(T)
OBVIOUS

-----------------------------------------------------------------------------
(* Observer                                                                *)
Elem == Fields \cup {Unused}
ObservedEntry == [id : Nat, time : {1}, fields : Seq(Elem)]

\* A context is a part of an array that is there.
IsSlice(s) ==
  /\ s \in [arr : Nat, len : Nat, cap : Nat]
  /\ s.arr \in 1 .. Len(heap) /\ s.len <= Len(heap[s.arr])

Slices ==
  /\ heap \in Seq(Seq(Elem))
  /\ cores \in Seq([arr : Nat, len : Nat, cap : Nat]) /\ ctx \in Seq(Seq(Elem))
  /\ Len(cores) = Len(ctx)
  /\ \A c \in 1 .. Len(cores) : IsSlice(cores[c]) /\ Elems(cores[c]) = ctx[c]

Collected ==
  /\ logs \in Seq(ObservedEntry) /\ taken \in Seq(ObservedEntry) /\ written \in Seq(ObservedEntry)
  /\ opc \in [Clients -> ObservedEntry \cup {NoEntry}]
  /\ NothingLost

\* The elements of two sequences put together.
LEMMA Concatenated ==
  ASSUME NEW S, NEW s \in Seq(S), NEW t \in Seq(S)
  PROVE  /\ s \o t \in Seq(S) /\ Len(s \o t) = Len(s) + Len(t) /\ Len(s) \in Nat /\ Len(t) \in Nat
         /\ \A k \in 1 .. Len(s) : (s \o t)[k] = s[k]
         /\ \A k \in 1 .. Len(t) : (s \o t)[Len(s) + k] = t[k]
OBVIOUS

\* An element of a sequence.
LEMMA ElementOf ==
  ASSUME NEW S, NEW s \in Seq(S), NEW k \in 1 .. Len(s)
  PROVE  s[k] \in S
OBVIOUS

\* The elements of a sequence one longer.
LEMMA Appended ==
  ASSUME NEW S, NEW s \in Seq(S), NEW x \in S
  PROVE  /\ Append(s, x) \in Seq(S) /\ Len(Append(s, x)) = Len(s) + 1 /\ Len(s) \in Nat
         /\ \A k \in 1 .. Len(s) : Append(s, x)[k] = s[k]
         /\ Append(s, x)[Len(s) + 1] = x
OBVIOUS

\* The first part of a sequence that goes on.
LEMMA FirstPart ==
  ASSUME NEW S, NEW s \in Seq(S), NEW n \in 0 .. Len(s)
  PROVE  /\ SubSeq(s, 1, n) \in Seq(S) /\ Len(SubSeq(s, 1, n)) = n
         /\ \A k \in 1 .. n : SubSeq(s, 1, n)[k] = s[k]
OBVIOUS

\* Sequences with the same elements are equal.
LEMMA SameElements ==
  ASSUME NEW S, NEW s \in Seq(S), NEW t \in Seq(S), Len(s) = Len(t),
         \A k \in 1 .. Len(s) : s[k] = t[k]
  PROVE  s = t
OBVIOUS

\* A new array has room to spare behind the elements.
LEMMA Padded ==
  ASSUME NEW s \in Seq(Elem), NEW n \in Nat, n >= Len(s)
  PROVE  Pad(s, n) \in Seq(Elem) /\ Len(Pad(s, n)) = n /\ SubSeq(Pad(s, n), 1, Len(s)) = s
<1> DEFINE room == [k \in 1 .. (n - Len(s)) |-> Unused]
<1>1. n - Len(s) \in Nat
  OBVIOUS
<1>2. room \in Seq(Elem) /\ Len(room) = n - Len(s)
  <2>1. room \in [1 .. (n - Len(s)) -> Elem]
    BY Zenon DEF Elem
  <2> HIDE DEF room
  <2>2. PICK m \in Nat : m = n - Len(s)
    BY Zenon, <1>1
  <2>3. room \in [1 .. m -> Elem]
    BY Zenon, <2>1, <2>2
  <2>4. room \in Seq(Elem) /\ Len(room) = m
    BY <2>3
  <2> QED BY Zenon, <2>2, <2>4
<1> HIDE DEF room
<1>3. /\ s \o room \in Seq(Elem) /\ Len(s \o room) = Len(s) + Len(room) /\ Len(s) \in Nat
      /\ \A k \in 1 .. Len(s) : (s \o room)[k] = s[k]
  BY ZenonT(60), <1>2, Concatenated
<1>4. Len(s \o room) = n /\ Len(s) \in 0 .. n
  BY <1>2, <1>3
<1>5. /\ SubSeq(s \o room, 1, Len(s)) \in Seq(Elem) /\ Len(SubSeq(s \o room, 1, Len(s))) = Len(s)
      /\ \A k \in 1 .. Len(s) : SubSeq(s \o room, 1, Len(s))[k] = (s \o room)[k]
  BY Zenon, <1>3, <1>4, FirstPart
<1>6. SubSeq(s \o room, 1, Len(s)) = s
  BY Zenon, <1>3, <1>5, SameElements
<1> QED BY <1>3, <1>4, <1>6, Zenon DEF Pad, room

\* Deriving a core writes into no array another core's context is in.
LEMMA WithFieldsKeeps ==
  ASSUME Slices, NEW c \in DOMAIN cores, NEW fs \in FieldLists, WithFields(c, fs)
  PROVE  Slices'
<1> DEFINE S == [arr : Nat, len : Nat, cap : Nat]
           s == Clip(cores[c])
           n == s.len + Len(fs)
<1>1. /\ heap \in Seq(Seq(Elem)) /\ cores \in Seq(S) /\ ctx \in Seq(Seq(Elem)) /\ Len(cores) = Len(ctx)
      /\ c \in 1 .. Len(cores) /\ c \in 1 .. Len(ctx) /\ Len(cores) \in Nat /\ Len(heap) \in Nat
  BY SMTT(30) DEF Slices
<1>2. \A d \in 1 .. Len(cores) : IsSlice(cores[d]) /\ Elems(cores[d]) = ctx[d]
  BY Zenon DEF Slices
<1>3. fs \in Seq(Elem) /\ Len(fs) \in Nat
  BY FieldListsAssumption DEF Elem
<1>4. /\ s \in S /\ s.cap = s.len /\ s.arr \in 1 .. Len(heap) /\ s.len <= Len(heap[s.arr])
      /\ s.arr = cores[c].arr /\ s.len = cores[c].len
  BY <1>1, <1>2, Zenon DEF IsSlice, Clip
<1> HIDE DEF s
<1>5. Elems(s) = ctx[c] /\ ctx[c] \in Seq(Elem) /\ heap[s.arr] \in Seq(Elem)
  <2>1. Elems(s) = ctx[c]
    BY <1>1, <1>2, <1>4, Zenon DEF Elems
  <2>2. ctx[c] \in Seq(Elem) /\ heap[s.arr] \in Seq(Elem)
    BY <1>1, <1>4, ElementOf, Zenon
  <2> QED BY Zenon, <2>1, <2>2
<1>6. Len(ctx[c]) = s.len
  <2>1. s.len \in 0 .. Len(heap[s.arr])
    BY <1>4, <1>5
  <2> QED BY <1>5, <2>1, FirstPart DEF Elems
<1>7. ctx' = Append(ctx, ctx[c] \o fs) /\ heap' = GoAppend(s, fs).heap /\ cores' = Append(cores, GoAppend(s, fs).slice)
  BY Zenon DEF WithFields, s
<1>8. ctx[c] \o fs \in Seq(Elem) /\ Len(ctx[c] \o fs) = n /\ n \in Nat
  BY <1>3, <1>4, <1>5, <1>6, Concatenated
<1>9. /\ ctx' \in Seq(Seq(Elem)) /\ Len(ctx') = Len(ctx) + 1 /\ ctx'[Len(ctx) + 1] = ctx[c] \o fs
      /\ \A d \in 1 .. Len(ctx) : ctx'[d] = ctx[d]
  <2>1. PICK x \in Seq(Elem) : x = ctx[c] \o fs
    BY <1>8, Zenon
  <2>2. /\ Append(ctx, x) \in Seq(Seq(Elem)) /\ Len(Append(ctx, x)) = Len(ctx) + 1
        /\ Append(ctx, x)[Len(ctx) + 1] = x /\ \A d \in 1 .. Len(ctx) : Append(ctx, x)[d] = ctx[d]
    BY <1>1, Appended
  <2> QED BY <1>7, <2>1, <2>2, Zenon
<1>10. ASSUME NEW new \in S, cores' = Append(cores, new), heap' \in Seq(Seq(Elem)),
              Len(heap') >= Len(heap), \A a \in 1 .. Len(heap) : heap'[a] = heap[a],
              new.arr \in 1 .. Len(heap'), new.len <= Len(heap'[new.arr]),
              SubSeq(heap'[new.arr], 1, new.len) = ctx[c] \o fs
       PROVE  Slices'
  <2>1. /\ cores' \in Seq(S) /\ Len(cores') = Len(cores) + 1 /\ cores'[Len(cores) + 1] = new
        /\ \A d \in 1 .. Len(cores) : cores'[d] = cores[d]
    <3>0. cores \in Seq(S) /\ new \in S
      BY Zenon, <1>1
    <3> HIDE DEF S
    <3>1. /\ Append(cores, new) \in Seq(S) /\ Len(Append(cores, new)) = Len(cores) + 1
          /\ Append(cores, new)[Len(cores) + 1] = new
          /\ \A d \in 1 .. Len(cores) : Append(cores, new)[d] = cores[d]
      BY <3>0, Appended
    <3> QED BY <1>10, <3>1, Zenon
  <2>2. ASSUME NEW d \in 1 .. Len(cores') PROVE IsSlice(cores[d])' /\ Elems(cores[d])' = ctx'[d]
    <3>1. CASE d = Len(cores) + 1
      <4>1. cores'[d] = new /\ ctx'[d] = ctx[c] \o fs
        BY <1>1, <1>9, <2>1, <3>1, Zenon
      <4> QED BY <1>10, <4>1, Zenon DEF IsSlice, Elems
    <3>2. CASE d \in 1 .. Len(cores)
      <4>1. cores'[d] = cores[d] /\ ctx'[d] = ctx[d]
        BY <1>1, <1>9, <2>1, <3>2, Zenon
      <4>2. IsSlice(cores[d]) /\ Elems(cores[d]) = ctx[d]
        BY Zenon, <1>2, <3>2
      <4>3. cores[d].arr \in 1 .. Len(heap) /\ heap'[cores[d].arr] = heap[cores[d].arr]
        BY <1>10, <4>2, Zenon DEF IsSlice
      <4>4. cores[d].arr \in 1 .. Len(heap')
        <5>1. Len(heap') \in Nat /\ Len(heap') >= Len(heap)
          BY <1>10
        <5>2. Len(heap) \in Nat
          BY Zenon, <1>1
        <5> QED BY <4>3, <5>1, <5>2
      <4>5. IsSlice(cores[d])'
        BY <4>1, <4>2, <4>3, <4>4, Zenon DEF IsSlice
      <4>6. Elems(cores[d])' = ctx'[d]
        BY <4>1, <4>2, <4>3, Zenon DEF Elems
      <4> QED BY Zenon, <4>5, <4>6
    <3> QED BY <1>1, <2>1, <3>1, <3>2
  <2> QED BY <1>1, <1>9, <1>10, <2>1, <2>2, Zenon DEF Slices
<1>11. CASE n <= s.cap
  <2>1. Len(fs) = 0 /\ n = s.len
    BY <1>3, <1>4, <1>11
  <2>2. heap' = [heap EXCEPT ![s.arr] = [k \in DOMAIN @ |-> IF k > s.len /\ k <= n THEN fs[k - s.len] ELSE @[k]]]
    BY <1>7, <1>11, Zenon DEF GoAppend
  <2>3. [k \in DOMAIN heap[s.arr] |-> IF k > s.len /\ k <= n THEN fs[k - s.len] ELSE heap[s.arr][k]] = heap[s.arr]
    <3>1. \A k \in DOMAIN heap[s.arr] : ~(k > s.len /\ k <= n)
      BY <1>4, <1>5, <2>1
    <3> QED BY <1>5, <3>1
  <2>4. heap' = heap
    <3>1. heap' = [heap EXCEPT ![s.arr] = heap[s.arr]]
      BY <2>2, <2>3, Zenon
    <3> QED BY <1>1, <1>4, <3>1
  <2>5. cores' = Append(cores, [s EXCEPT !.len = n])
    BY <1>7, <1>11, Zenon DEF GoAppend
  <2>6. [s EXCEPT !.len = n] = s
    BY Zenon, <1>4, <2>1
  <2>7. ctx[c] \o fs = ctx[c]
    BY <1>3, <1>5, <2>1
  <2>8. SubSeq(heap[s.arr], 1, s.len) = ctx[c] \o fs
    BY <1>5, <2>7, Zenon DEF Elems
  <2>9. /\ cores' = Append(cores, s) /\ heap' \in Seq(Seq(Elem)) /\ Len(heap') >= Len(heap)
        /\ s.arr \in 1 .. Len(heap') /\ \A a \in 1 .. Len(heap) : heap'[a] = heap[a]
    BY <1>1, <1>4, <2>4, <2>5, <2>6
  <2>10. s.len <= Len(heap'[s.arr]) /\ SubSeq(heap'[s.arr], 1, s.len) = ctx[c] \o fs
    BY <1>4, <2>4, <2>8, Zenon
  <2> QED BY <1>4, <1>10, <2>9, <2>10, Zenon
<1>12. CASE n > s.cap
  <2> DEFINE grown == IF n > 2 * s.cap THEN n ELSE 2 * s.cap
             arr == Pad(Elems(s) \o fs, grown)
             new == [arr |-> Len(heap) + 1, len |-> n, cap |-> grown]
  <2>1. grown \in Nat /\ grown >= n
    BY <1>4, <1>8
  <2>2. heap' = Append(heap, arr) /\ cores' = Append(cores, new)
    <3>1. ~(n <= s.cap)
      BY <1>4, <1>8, <1>12
    <3> QED BY <1>7, <3>1, Zenon DEF GoAppend
  <2> HIDE DEF grown
  <2>3. arr \in Seq(Elem) /\ Len(arr) = grown /\ SubSeq(arr, 1, n) = ctx[c] \o fs
    BY <1>5, <1>8, <2>1, Padded, ZenonT(60)
  <2> HIDE DEF arr
  <2>4. /\ heap' \in Seq(Seq(Elem)) /\ Len(heap') = Len(heap) + 1 /\ heap'[Len(heap) + 1] = arr
        /\ \A a \in 1 .. Len(heap) : heap'[a] = heap[a]
    BY <1>1, <2>2, <2>3, Appended
  <2>5. new \in S /\ new.arr = Len(heap) + 1 /\ new.len = n
    BY <1>1, <1>8, <2>1
  <2> HIDE DEF new
  <2>6. new.arr \in 1 .. Len(heap') /\ Len(heap') >= Len(heap) /\ new.len <= Len(heap'[new.arr])
    <3>1. new.arr \in 1 .. Len(heap') /\ Len(heap') >= Len(heap)
      <4>1. Len(heap) \in Nat
        BY Zenon, <1>1
      <4> QED BY <2>4, <2>5, <4>1
    <3>2. Len(heap'[new.arr]) = grown
      BY <2>3, <2>4, <2>5, Zenon
    <3> QED BY Zenon, <1>8, <2>1, <2>5, <3>1, <3>2
  <2>7. SubSeq(heap'[new.arr], 1, new.len) = ctx[c] \o fs
    BY <2>3, <2>4, <2>5, Zenon
  <2> QED BY <1>10, <2>2, <2>4, <2>5, <2>6, <2>7, Zenon
<1> QED BY <1>4, <1>8, <1>11, <1>12

\* The first core has no context.
LEMMA SlicesInit == ObserverInit => Slices
<1> SUFFICES ASSUME ObserverInit PROVE Slices
    BY Zenon
<1>1. /\ heap = << << >> >> /\ cores = <<[arr |-> 1, len |-> 0, cap |-> 0]>> /\ ctx = << << >> >>
  BY Zenon DEF ObserverInit
<1>2. << >> \in Seq(Elem)
  OBVIOUS
<1>3. heap \in Seq(Seq(Elem)) /\ ctx \in Seq(Seq(Elem)) /\ cores \in Seq([arr : Nat, len : Nat, cap : Nat])
  BY <1>1, <1>2
<1>4. Len(heap) = 1 /\ heap[1] = << >> /\ Len(ctx) = 1 /\ ctx[1] = << >> /\ Len(cores) = 1
  BY Zenon, <1>1
<1>5. cores[1] = [arr |-> 1, len |-> 0, cap |-> 0]
  BY Zenon, <1>1
<1>6. IsSlice(cores[1]) /\ Elems(cores[1]) = ctx[1]
  BY <1>4, <1>5 DEF IsSlice, Elems
<1> QED BY <1>3, <1>4, <1>6 DEF Slices

\* Only With touches the contexts.
LEMMA SlicesStep == Slices /\ [ObserverNext]_observerVars => Slices'
<1> SUFFICES ASSUME Slices, [ObserverNext]_observerVars PROVE Slices'
    BY Zenon
<1>1. ASSUME NEW c \in DOMAIN cores, NEW fs \in FieldLists, WithFields(c, fs) PROVE Slices'
  BY Zenon, <1>1, WithFieldsKeeps
<1>2. CASE UNCHANGED <<heap, cores, ctx>>
  BY <1>2, Zenon DEF Slices, IsSlice, Elems
<1>3. ASSUME NEW p \in Clients, NEW c \in DOMAIN cores, NEW f \in Fields, Write(p, c, f) PROVE Slices'
  BY <1>2, <1>3, Zenon DEF Write
<1>4. ASSUME NEW p \in Clients, Add(p) PROVE Slices'
  BY <1>2, <1>4, Zenon DEF Add
<1>5. CASE TakeAll
  BY <1>2, <1>5, Zenon DEF TakeAll
<1>6. CASE All \/ AllUntimed
  BY <1>2, <1>6, Zenon DEF All, AllUntimed, Read
<1>7. ASSUME NEW f \in Fields, FilterField(f) PROVE Slices'
  BY <1>2, <1>7, Zenon DEF FilterField, Filter, Read
<1>8. CASE UNCHANGED observerVars
  BY <1>2, <1>8, Zenon DEF observerVars
<1> QED BY <1>1, <1>3, <1>4, <1>5, <1>6, <1>7, <1>8, Zenon DEF ObserverNext

\* Whatever fields are added to whatever cores, a core of the observer keeps the
\* context it was derived with: With clips the parent's slice before it appends
\* (observer.go).
THEOREM ContextsApartHolds == ObserverSpec => []ContextsApart
<1>1. ObserverInit => Slices
  BY Zenon, SlicesInit
<1>2. Slices => ContextsApart
  BY SMTT(30) DEF Slices, ContextsApart
<1> QED BY <1>1, <1>2, SlicesStep, PTL DEF ObserverSpec

\* A reader is given entries of the collection, which end what has been added.
LEMMA ReadsFromLogs ==
  ASSUME Collected, written' = written,
         NEW n \in Nat, NEW at \in [1 .. n -> 1 .. Len(logs)],
         \A j, k \in 1 .. n : j < k => at[j] < at[k],
         DOMAIN seen' = 1 .. n,
         \A k \in 1 .. n : seen'[k].id = logs[at[k]].id /\ seen'[k].fields = logs[at[k]].fields
  PROVE  ReadsInOrder'
<1> DEFINE f == [k \in 1 .. n |-> Len(taken) + at[k]]
<1>1. /\ written = taken \o logs /\ Len(written) = Len(taken) + Len(logs)
      /\ Len(taken) \in Nat /\ Len(logs) \in Nat
      /\ \A k \in 1 .. Len(logs) : written[Len(taken) + k] = logs[k]
  <2>1. written = taken \o logs /\ taken \in Seq(ObservedEntry) /\ logs \in Seq(ObservedEntry)
    BY Zenon DEF Collected, NothingLost
  <2>2. /\ Len(taken \o logs) = Len(taken) + Len(logs) /\ Len(taken) \in Nat /\ Len(logs) \in Nat
        /\ \A k \in 1 .. Len(logs) : (taken \o logs)[Len(taken) + k] = logs[k]
    <3>1. PICK a, b \in Seq(ObservedEntry) : a = taken /\ b = logs
      BY Zenon, <2>1
    <3>2. /\ Len(a \o b) = Len(a) + Len(b) /\ Len(a) \in Nat /\ Len(b) \in Nat
          /\ \A k \in 1 .. Len(b) : (a \o b)[Len(a) + k] = b[k]
      BY Concatenated
    <3> QED BY <3>1, <3>2, Zenon
  <2> QED BY <2>1, <2>2, Zenon
<1>2. DOMAIN written = 1 .. Len(written)
  BY DEF Collected
<1>3. \A k \in 1 .. n : f[k] = Len(taken) + at[k] /\ at[k] \in 1 .. Len(logs)
  BY Zenon
<1>4. f \in [1 .. n -> DOMAIN written]
  <2>1. \A k \in 1 .. n : Len(taken) + at[k] \in 1 .. Len(written)
    BY <1>1, <1>3
  <2> QED BY Zenon, <1>2, <2>1
<1> HIDE DEF f
<1>5. \A j, k \in 1 .. n : j < k => f[j] < f[k]
  BY <1>1, <1>3
<1>6. \A k \in 1 .. n : seen'[k].id = written[f[k]].id /\ seen'[k].fields = written[f[k]].fields
  <2>1. \A k \in 1 .. n : written[f[k]] = logs[at[k]]
    BY <1>1, <1>3, Zenon
  <2> QED BY Zenon, <2>1
<1>7. /\ f \in [DOMAIN seen' -> DOMAIN written']
      /\ \A j, k \in DOMAIN seen' : j < k => f[j] < f[k]
      /\ \A k \in DOMAIN seen' : /\ seen'[k].id = written'[f[k]].id
                                 /\ seen'[k].fields = written'[f[k]].fields
  <2>1. DOMAIN seen' = 1 .. n /\ written' = written
    BY Zenon
  <2>2. f \in [DOMAIN seen' -> DOMAIN written']
    BY <1>4, <2>1, Zenon
  <2> QED BY <1>5, <1>6, <2>1, <2>2, Zenon
<1> QED BY <1>7, Zenon DEF ReadsInOrder

\* What was read stays in order while entries are added.
LEMMA ReadsStay ==
  ASSUME ReadsInOrder, seen' = seen, written \in Seq(ObservedEntry),
         written' = written \/ \E e \in ObservedEntry : written' = Append(written, e)
  PROVE  ReadsInOrder'
<1>1. PICK f \in [DOMAIN seen -> DOMAIN written] :
        /\ \A j, k \in DOMAIN seen : j < k => f[j] < f[k]
        /\ \A k \in DOMAIN seen : seen[k].id = written[f[k]].id /\ seen[k].fields = written[f[k]].fields
  BY Zenon DEF ReadsInOrder
<1>2. \A k \in DOMAIN written : k \in DOMAIN written' /\ written'[k] = written[k]
  <2>1. CASE written' = written
    BY Zenon, <2>1
  <2>2. ASSUME NEW e \in ObservedEntry, written' = Append(written, e)
        PROVE  \A k \in DOMAIN written : k \in DOMAIN written' /\ written'[k] = written[k]
    <3>1. /\ written' \in Seq(ObservedEntry) /\ Len(written') = Len(written) + 1 /\ Len(written) \in Nat
          /\ \A k \in 1 .. Len(written) : written'[k] = written[k]
      <4>1. /\ Append(written, e) \in Seq(ObservedEntry) /\ Len(Append(written, e)) = Len(written) + 1
            /\ Len(written) \in Nat /\ \A k \in 1 .. Len(written) : Append(written, e)[k] = written[k]
        BY Appended
      <4> QED BY <2>2, <4>1, Zenon
    <3>2. DOMAIN written = 1 .. Len(written) /\ DOMAIN written' = 1 .. Len(written')
      BY <3>1
    <3> QED BY <3>1, <3>2
  <2> QED BY Zenon, <2>1, <2>2
<1>3. f \in [DOMAIN seen' -> DOMAIN written']
  BY Zenon, <1>1, <1>2
<1>4. \A k \in DOMAIN seen' : seen'[k].id = written'[f[k]].id /\ seen'[k].fields = written'[f[k]].fields
  <2>1. \A k \in DOMAIN seen : f[k] \in DOMAIN written
    BY Zenon, <1>1
  <2> QED BY <1>1, <1>2, <2>1, Zenon
<1>5. \A j, k \in DOMAIN seen' : j < k => f[j] < f[k]
  BY <1>1, Zenon
<1> QED BY <1>3, <1>4, <1>5, Zenon DEF ReadsInOrder

\* What is added is in the collection until TakeAll returns it.
LEMMA EntriesStep == Slices /\ Collected /\ [ObserverNext]_observerVars => Collected'
<1> SUFFICES ASSUME Slices, Collected, [ObserverNext]_observerVars PROVE Collected'
    BY Zenon
<1>0. /\ logs \in Seq(ObservedEntry) /\ taken \in Seq(ObservedEntry) /\ written \in Seq(ObservedEntry)
      /\ opc \in [Clients -> ObservedEntry \cup {NoEntry}]
      /\ written = taken \o logs /\ ReadsInOrder
  BY Zenon DEF Collected, NothingLost
<1>1. CASE UNCHANGED <<logs, taken, written, opc, seen>>
  BY <1>1, ZenonT(60) DEF Collected, NothingLost, ReadsInOrder
<1>2. ASSUME NEW c, NEW fs, WithFields(c, fs) PROVE Collected'
  BY <1>1, <1>2, Zenon DEF WithFields
<1>3. ASSUME NEW p \in Clients, NEW c \in DOMAIN cores, NEW f \in Fields, Write(p, c, f) PROVE Collected'
  <2> DEFINE e == [id |-> c, time |-> 1, fields |-> Append(Elems(cores[c]), f)]
  <2>1. c \in 1 .. Len(cores) /\ c \in Nat
    BY SMTT(30) DEF Slices
  <2>2. Elems(cores[c]) \in Seq(Elem)
    <3>1. Elems(cores[c]) = ctx[c] /\ ctx \in Seq(Seq(Elem)) /\ Len(cores) = Len(ctx)
      BY <2>1, Zenon DEF Slices
    <3> QED BY <2>1, <3>1, ElementOf, Zenon
  <2>3. Append(Elems(cores[c]), f) \in Seq(Elem)
    <3>1. f \in Elem
      BY Zenon DEF Elem
    <3> QED BY <2>2, <3>1, Appended, Zenon
  <2>4. e \in ObservedEntry
    BY <2>1, <2>3, Zenon DEF ObservedEntry
  <2>5. opc' = [opc EXCEPT ![p] = e] /\ UNCHANGED <<logs, taken, written, seen>>
    BY <1>3, Zenon DEF Write
  <2> HIDE DEF e
  <2>6. opc' \in [Clients -> ObservedEntry \cup {NoEntry}]
    BY Zenon, <1>0, <2>4, <2>5
  <2> QED BY <1>0, <2>5, <2>6, ZenonT(60) DEF Collected, NothingLost, ReadsInOrder
<1>4. ASSUME NEW p \in Clients, Add(p) PROVE Collected'
  <2>1. /\ opc[p] \in ObservedEntry /\ logs' = Append(logs, opc[p]) /\ written' = Append(written, opc[p])
        /\ opc' = [opc EXCEPT ![p] = NoEntry] /\ taken' = taken /\ seen' = seen
    BY <1>0, <1>4, Zenon DEF Add
  <2>2. PICK x \in ObservedEntry : x = opc[p]
    BY Zenon, <2>1
  <2>3. Append(logs, x) \in Seq(ObservedEntry) /\ Append(written, x) \in Seq(ObservedEntry)
    BY Zenon, <1>0, Appended
  <2>4. taken \o Append(logs, x) = Append(taken \o logs, x)
    BY <1>0
  <2>5. opc' \in [Clients -> ObservedEntry \cup {NoEntry}]
    BY Zenon, <1>0, <2>1
  <2>6. ReadsInOrder'
    BY <1>0, <2>1, ReadsStay, Zenon
  <2> QED BY <1>0, <2>1, <2>2, <2>3, <2>4, <2>5, <2>6, Zenon DEF Collected, NothingLost
<1>5. CASE TakeAll
  <2>1. taken' = taken \o logs /\ logs' = << >> /\ UNCHANGED <<written, opc, seen>>
    BY <1>5, Zenon DEF TakeAll
  <2>2. taken \o logs \in Seq(ObservedEntry) /\ << >> \in Seq(ObservedEntry) /\ (taken \o logs) \o << >> = taken \o logs
    BY <1>0
  <2>3. ReadsInOrder'
    BY <1>0, <2>1, ReadsStay, Zenon
  <2> QED BY <1>0, <2>1, <2>2, <2>3, Zenon DEF Collected, NothingLost
<1>6. ASSUME NEW s, Read(s), ReadsInOrder' PROVE Collected'
  BY <1>0, <1>6, Zenon DEF Read, Collected, NothingLost
<1>7. Len(logs) \in Nat /\ DOMAIN logs = 1 .. Len(logs)
  BY <1>0
<1>8. CASE All
  <2>1. seen' = logs /\ written' = written
    BY <1>8, Zenon DEF All, Read
  <2> DEFINE at == [k \in 1 .. Len(logs) |-> k]
  <2>2. at \in [1 .. Len(logs) -> 1 .. Len(logs)] /\ \A k \in 1 .. Len(logs) : at[k] = k
    BY Zenon
  <2> HIDE DEF at
  <2>3. ReadsInOrder'
    BY <1>7, <2>1, <2>2, ReadsFromLogs, Zenon
  <2> QED BY <1>6, <1>8, <2>3, Zenon DEF All
<1>9. CASE AllUntimed
  <2>1. seen' = Untimed(logs) /\ written' = written
    BY <1>9, Zenon DEF AllUntimed, Read
  <2> DEFINE at == [k \in 1 .. Len(logs) |-> k]
  <2>2. at \in [1 .. Len(logs) -> 1 .. Len(logs)] /\ \A k \in 1 .. Len(logs) : at[k] = k
    OBVIOUS
  <2> HIDE DEF at
  <2>3. DOMAIN seen' = 1 .. Len(logs)
    BY <1>7, <2>1, Zenon DEF Untimed
  <2>4. ASSUME NEW k \in 1 .. Len(logs)
        PROVE  seen'[k].id = logs[k].id /\ seen'[k].fields = logs[k].fields
    <3>1. logs[k] \in ObservedEntry /\ seen'[k] = [logs[k] EXCEPT !.time = 0]
      BY <1>0, <1>7, <2>1 DEF Untimed
    <3> QED BY <3>1, Zenon DEF ObservedEntry
  <2>5. ReadsInOrder'
    <3>1. /\ \A j, k \in 1 .. Len(logs) : j < k => at[j] < at[k]
          /\ \A k \in 1 .. Len(logs) : /\ seen'[k].id = logs[at[k]].id
                                       /\ seen'[k].fields = logs[at[k]].fields
      BY <2>2, <2>4, Zenon
    <3> QED BY <1>7, <2>1, <2>2, <2>3, <3>1, ReadsFromLogs, Zenon
  <2> QED BY <1>6, <1>9, <2>5, Zenon DEF AllUntimed
<1>10. ASSUME NEW f \in Fields, FilterField(f) PROVE Collected'
  <2>0. PICK n \in 0 .. Len(logs) : \E at \in [1 .. n -> DOMAIN logs] :
          /\ \A j, k \in 1 .. n : j < k => at[j] < at[k]
          /\ Read([k \in 1 .. n |-> logs[at[k]]])
    BY <1>10, Zenon DEF FilterField, Filter
  <2>1. PICK at \in [1 .. n -> DOMAIN logs] :
          /\ \A j, k \in 1 .. n : j < k => at[j] < at[k]
          /\ Read([k \in 1 .. n |-> logs[at[k]]])
    BY <2>0, Zenon
  <2>2. seen' = [k \in 1 .. n |-> logs[at[k]]] /\ written' = written
    BY <2>1, Zenon DEF Read
  <2>3. DOMAIN seen' = 1 .. n /\ \A k \in 1 .. n : seen'[k] = logs[at[k]]
    BY Zenon, <2>2
  <2>4. n \in Nat /\ at \in [1 .. n -> 1 .. Len(logs)]
    BY <1>7
  <2>5. ReadsInOrder'
    BY <2>1, <2>2, <2>3, <2>4, ReadsFromLogs, Zenon
  <2> QED BY Zenon, <1>6, <2>1, <2>5
<1>11. CASE UNCHANGED observerVars
  BY <1>1, <1>11, Zenon DEF observerVars
<1> QED BY <1>2, <1>3, <1>4, <1>5, <1>8, <1>9, <1>10, <1>11, Zenon DEF ObserverNext

\* Whoever logs, reads and empties the ObservedLogs at the same time: the entries that
\* TakeAll has returned and those still in the collection are all that add was given, once
\* each and in order, and every reader is given entries in that order (observer.go).
THEOREM NothingLostHolds == ObserverSpec => []NothingLost
<1>1. ObserverInit => Collected
  <2> SUFFICES ASSUME ObserverInit PROVE Collected
      OBVIOUS
  <2>1. /\ logs = << >> /\ taken = << >> /\ written = << >> /\ seen = << >>
        /\ opc = [p \in Clients |-> NoEntry]
    BY Zenon DEF ObserverInit
  <2>2. << >> \in Seq(ObservedEntry) /\ << >> \o << >> = << >>
    OBVIOUS
  <2>3. opc \in [Clients -> ObservedEntry \cup {NoEntry}]
    BY Zenon, <2>1
  <2>4. ReadsInOrder
    <3>1. DOMAIN seen = {} /\ DOMAIN written = {}
      BY <2>1
    <3>2. [k \in {} |-> 0] \in [{} -> {}]
      BY Zenon
    <3> QED BY <3>1, <3>2, Zenon DEF ReadsInOrder
  <2> QED BY <2>1, <2>2, <2>3, <2>4, Zenon DEF Collected, NothingLost
<1>2. ObserverInit => Slices
  BY SlicesInit
<1>3. Collected => NothingLost
  BY Zenon DEF Collected
<1> QED BY <1>1, <1>2, <1>3, SlicesStep, EntriesStep, PTL DEF ObserverSpec

-----------------------------------------------------------------------------
(* MultiWriteSyncer                                                        *)
Taken == [entry : Entries, n : Nat]

TypeOK ==
  /\ mu \in Writers \cup {Free}
  /\ got \in [Sinks -> Seq(Taken)]
  /\ syncs \in [Sinks -> Nat]
  /\ mpc \in [Writers -> {"idle", "write", "sync", "writing", "syncing", "wrote", "synced", "panicked"}]
  /\ entry \in [Writers -> Entries \cup {"none"}]
  /\ mi \in [Writers -> 1 .. NumSinks + 1]
  /\ nWritten \in [Writers -> Nat]
  /\ err \in [Writers -> BOOLEAN]
  /\ counts \in [Writers -> Seq(Nat)]
  /\ issued \subseteq Entries

\* Only the holder of the mutex is among the sinks.  (After a panic there is a holder
\* who is not.)
Exclusive == \A p \in Writers : mpc[p] \in {"writing", "syncing"} => mu = p

\* An entry belongs to one goroutine.
Owned ==
  /\ \A p \in Writers : entry[p] # "none" => entry[p] \in issued
  /\ \A p, q \in Writers : entry[p] = entry[q] /\ entry[p] # "none" => p = q
  /\ \A p \in Writers : mpc[p] \in {"write", "writing", "wrote"} => entry[p] # "none"
  /\ \A s \in Sinks : \A k \in DOMAIN got[s] : got[s][k].entry \in issued
  /\ \A p \in Writers : mpc[p] \in {"write", "sync"} => mi[p] = 1

\* The lengths of what the sinks were given: a writer has been at those before i.
InStep ==
  /\ \A s, t \in Sinks : s < t => Len(got[s]) = Len(got[t]) \/ Len(got[s]) = Len(got[t]) + 1
  /\ mu = Free \/ (\E p \in Writers : mpc[p] = "syncing") => \A s, t \in Sinks : Len(got[s]) = Len(got[t])
  /\ \A p \in Writers : mpc[p] = "writing" =>
       \A s, t \in Sinks :
         /\ (s < mi[p] <=> t < mi[p]) => Len(got[s]) = Len(got[t])
         /\ s < mi[p] /\ t >= mi[p] => Len(got[s]) = Len(got[t]) + 1

\* What they hold in common, and what the writer has just left with them.
Alike ==
  /\ \A s, t \in Sinks : \A k \in DOMAIN got[s] \cap DOMAIN got[t] : got[s][k].entry = got[t][k].entry
  /\ \A p \in Writers : mpc[p] = "writing" =>
       \A s \in Sinks : s < mi[p] => /\ Len(got[s]) > 0
                                    /\ got[s][Len(got[s])].entry = entry[p]

\* A Sync under way, or returned, without an error has synced what it passed.
Synced ==
  \A p \in Writers : mpc[p] \in {"syncing", "synced"} /\ ~err[p] =>
    \A s \in Sinks : mpc[p] = "synced" \/ s < mi[p] =>
      \A k \in DOMAIN got[s] : got[s][k].entry = entry[p] => k <= syncs[s]

\* A Write under way, or returned, without an error has been taken by the sinks it passed.
Complete ==
  \A p \in Writers :
    /\ mpc[p] = "write" => nWritten[p] = 0
    /\ mpc[p] \in {"writing", "wrote"} /\ ~err[p] =>
         /\ nWritten[p] = IF mi[p] > 1 THEN EntryLen ELSE 0
         /\ mpc[p] = "wrote" => mi[p] = NumSinks + 1
         /\ \A s \in Sinks : s < mi[p] =>
              \E k \in DOMAIN got[s] : got[s][k] = [entry |-> entry[p], n |-> EntryLen]

MultiInv == TypeOK /\ Exclusive /\ Owned /\ InStep /\ Alike /\ Synced /\ Complete

USE DEF Sinks

LEMMA TypeStep == TypeOK /\ Owned /\ [MultiNext]_multiVars => TypeOK'
<1> SUFFICES ASSUME TypeOK, Owned, [MultiNext]_multiVars PROVE TypeOK'
    BY Zenon
<1> USE MultiAssumption DEF TypeOK
<1>1. ASSUME NEW p \in Writers, NEW e \in Entries, CallWrite(p, e) PROVE TypeOK'
  BY <1>1, Numbers, SomeSeqs, ZenonT(60) DEF CallWrite, Begin
<1>2. ASSUME NEW p \in Writers, CallSync(p) PROVE TypeOK'
  BY <1>2, Numbers, SomeSeqs, Zenon DEF CallSync, Begin
<1>3. ASSUME NEW p \in Writers, Lock(p) PROVE TypeOK'
  BY <1>3, Zenon DEF Lock
<1>4. ASSUME NEW p \in Writers, WriteSink(p) PROVE TypeOK'
  <2>1. PICK n \in 0 .. EntryLen, fail \in {FALSE, SinksMayFail} :
          /\ n < EntryLen => fail
          /\ got' = [got EXCEPT ![mi[p]] = Append(@, [entry |-> entry[p], n |-> n])]
          /\ err' = [err EXCEPT ![p] = @ \/ fail]
          /\ nWritten' = [nWritten EXCEPT ![p] = Fewest(@, n)]
          /\ counts' = [counts EXCEPT ![p] = Append(@, n)]
          /\ mi' = [mi EXCEPT ![p] = @ + 1]
    BY <1>4, ZenonT(30) DEF WriteSink
  <2>2. [entry |-> entry[p], n |-> n] \in Taken /\ mi[p] \in Sinks
    BY <1>4 DEF WriteSink, Owned, Taken
  <2>3. got' \in [Sinks -> Seq(Taken)]
    BY <2>1, <2>2
  <2>4. Fewest(nWritten[p], n) \in Nat
    BY DEF Fewest
  <2>5. err' \in [Writers -> BOOLEAN]
    BY <2>1, Zenon
  <2>6. mi' \in [Writers -> 1 .. NumSinks + 1] /\ nWritten' \in [Writers -> Nat] /\ counts' \in [Writers -> Seq(Nat)]
    <3>1. mi[p] + 1 \in 1 .. NumSinks + 1 /\ Append(counts[p], n) \in Seq(Nat)
      BY <2>2, Numbers, SomeSeqs, Zenon
    <3> QED
      BY <2>1, <2>4, <3>1, Zenon
  <2>7. UNCHANGED <<mu, syncs, mpc, entry, issued>>
    BY <1>4, Zenon DEF WriteSink
  <2> QED
    BY <2>3, <2>5, <2>6, <2>7, Zenon
<1>5. ASSUME NEW p \in Writers, SyncSink(p) PROVE TypeOK'
  <2>1. PICK fail \in {FALSE, SinksMayFail} :
          /\ syncs' = IF fail THEN syncs ELSE [syncs EXCEPT ![mi[p]] = Len(got[mi[p]])]
          /\ err' = [err EXCEPT ![p] = @ \/ fail]
          /\ mi' = [mi EXCEPT ![p] = @ + 1]
    BY <1>5, Zenon DEF SyncSink
  <2>2. err' \in [Writers -> BOOLEAN]
    BY <2>1, Zenon
  <2>3. mi[p] \in Sinks
    BY <1>5 DEF SyncSink
  <2>4. mi' \in [Writers -> 1 .. NumSinks + 1]
    BY <2>1, <2>3, Numbers, Zenon
  <2>5. syncs' \in [Sinks -> Nat]
    <3>1. CASE fail
      BY Zenon, <2>1, <3>1
    <3>2. CASE ~fail
      BY <2>1, <2>3, <3>2
    <3> QED
      BY Zenon, <3>1, <3>2
  <2>6. UNCHANGED <<mu, got, mpc, entry, nWritten, counts, issued>>
    BY <1>5, Zenon DEF SyncSink
  <2> QED
    BY <2>2, <2>4, <2>5, <2>6, Zenon
<1>6. ASSUME NEW p \in Writers, SinkPanics(p) PROVE TypeOK'
  BY <1>6, Numbers, SomeSeqs, Zenon DEF SinkPanics
<1>7. ASSUME NEW p \in Writers, Unlock(p) PROVE TypeOK'
  BY <1>7, Zenon DEF Unlock
<1>8. CASE UNCHANGED multiVars
  BY <1>8, Zenon DEF multiVars, multiCall
<1> QED
  BY <1>1, <1>2, <1>3, <1>4, <1>5, <1>6, <1>7, <1>8, Zenon DEF MultiNext, MultiStep

\* What a step at a sink changes, with the error as a proposition.
LEMMA WriteEffect ==
  ASSUME TypeOK, Owned, NEW p \in Writers, WriteSink(p)
  PROVE  /\ mpc[p] = "writing" /\ mi[p] \in Sinks /\ mi' = [mi EXCEPT ![p] = @ + 1]
         /\ \E x \in Taken :
              /\ x.entry = entry[p]
              /\ got' = [got EXCEPT ![mi[p]] = Append(@, x)]
              /\ ~err'[p] => /\ ~err[p] /\ x = [entry |-> entry[p], n |-> EntryLen]
                             /\ nWritten'[p] = Fewest(nWritten[p], EntryLen)
         /\ \A q \in Writers : q # p => err'[q] = err[q] /\ nWritten'[q] = nWritten[q]
         /\ UNCHANGED <<mu, syncs, mpc, entry, issued>>
<1> USE MultiAssumption DEF TypeOK
<1>1. PICK n \in 0 .. EntryLen, fail \in {FALSE, SinksMayFail} :
        /\ n < EntryLen => fail
        /\ got' = [got EXCEPT ![mi[p]] = Append(@, [entry |-> entry[p], n |-> n])]
        /\ err' = [err EXCEPT ![p] = @ \/ fail]
        /\ nWritten' = [nWritten EXCEPT ![p] = Fewest(@, n)]
        /\ counts' = [counts EXCEPT ![p] = Append(@, n)]
        /\ mi' = [mi EXCEPT ![p] = @ + 1]
  BY Zenon DEF WriteSink
<1>2. mpc[p] = "writing" /\ mi[p] \in Sinks /\ UNCHANGED <<mu, syncs, mpc, entry, issued>>
  BY DEF WriteSink
<1>3. [entry |-> entry[p], n |-> n] \in Taken
  BY <1>2 DEF Owned, Taken
<1>4. ~err'[p] => ~err[p] /\ ~fail
  BY <1>1, Zenon
<1>5. \A q \in Writers : q # p => err'[q] = err[q]
  BY <1>1, Zenon
<1>6. ~err'[p] => n = EntryLen
  <2> SUFFICES ASSUME ~err'[p] PROVE n = EntryLen
      BY Zenon
  <2>1. ~(n < EntryLen)
    BY Zenon, <1>1, <1>4
  <2> QED
    BY <2>1
<1>7. nWritten'[p] = Fewest(nWritten[p], n) /\ \A q \in Writers : q # p => nWritten'[q] = nWritten[q]
  BY Zenon, <1>1
<1> DEFINE x == [entry |-> entry[p], n |-> n]
<1>8. x.entry = entry[p]
  BY Zenon
<1>9. mi' = [mi EXCEPT ![p] = @ + 1] /\ got' = [got EXCEPT ![mi[p]] = Append(@, x)]
  BY Zenon, <1>1
<1>10. ~err'[p] => /\ ~err[p] /\ x = [entry |-> entry[p], n |-> EntryLen]
                  /\ nWritten'[p] = Fewest(nWritten[p], EntryLen)
  BY Zenon, <1>4, <1>6, <1>7
<1> HIDE DEF x
<1>11. x \in Taken
  BY <1>3, Zenon DEF x
<1> QED
  BY <1>2, <1>5, <1>7, <1>8, <1>9, <1>10, <1>11, Zenon

LEMMA SyncEffect ==
  ASSUME TypeOK, NEW p \in Writers, SyncSink(p)
  PROVE  /\ mpc[p] = "syncing" /\ mi[p] \in Sinks /\ mi' = [mi EXCEPT ![p] = @ + 1]
         /\ ~err'[p] => ~err[p] /\ syncs' = [syncs EXCEPT ![mi[p]] = Len(got[mi[p]])]
         /\ syncs' \in {syncs, [syncs EXCEPT ![mi[p]] = Len(got[mi[p]])]}
         /\ \A q \in Writers : q # p => err'[q] = err[q]
         /\ UNCHANGED <<mu, got, mpc, entry, nWritten, issued>>
<1> USE MultiAssumption DEF TypeOK
<1>1. PICK fail \in {FALSE, SinksMayFail} :
        /\ syncs' = IF fail THEN syncs ELSE [syncs EXCEPT ![mi[p]] = Len(got[mi[p]])]
        /\ err' = [err EXCEPT ![p] = @ \/ fail]
        /\ mi' = [mi EXCEPT ![p] = @ + 1]
  BY Zenon DEF SyncSink
<1>2. mpc[p] = "syncing" /\ mi[p] \in Sinks /\ UNCHANGED <<mu, got, mpc, entry, nWritten, issued>>
  BY DEF SyncSink
<1>3. ~err'[p] => ~err[p] /\ ~fail
  BY <1>1, Zenon
<1>4. \A q \in Writers : q # p => err'[q] = err[q]
  BY <1>1, ZenonT(60)
<1> QED
  BY <1>1, <1>2, <1>3, <1>4, Zenon

LEMMA ExclusiveStep ==
  TypeOK /\ Owned /\ Exclusive /\ [MultiNext]_multiVars => Exclusive'
<1> SUFFICES ASSUME TypeOK, Owned, Exclusive, [MultiNext]_multiVars PROVE Exclusive'
    BY Zenon
<1> USE MultiAssumption DEF TypeOK, Exclusive
<1>1. ASSUME NEW p \in Writers, NEW e \in Entries, CallWrite(p, e) PROVE Exclusive'
  BY <1>1, Zenon DEF CallWrite, Begin
<1>2. ASSUME NEW p \in Writers, CallSync(p) PROVE Exclusive'
  BY <1>2, Zenon DEF CallSync, Begin
<1>3. ASSUME NEW p \in Writers, Lock(p) PROVE Exclusive'
  BY <1>3, Zenon DEF Lock
<1>4. ASSUME NEW p \in Writers, WriteSink(p) PROVE Exclusive'
  BY <1>4, WriteEffect, Zenon
<1>5. ASSUME NEW p \in Writers, SyncSink(p) PROVE Exclusive'
  BY <1>5, SyncEffect, Zenon
<1>6. ASSUME NEW p \in Writers, SinkPanics(p) PROVE Exclusive'
  BY <1>6, Zenon DEF SinkPanics
<1>7. ASSUME NEW p \in Writers, Unlock(p) PROVE Exclusive'
  BY <1>7, Zenon DEF Unlock
<1>8. CASE UNCHANGED multiVars
  BY <1>8, Zenon DEF multiVars, multiCall
<1> QED
  BY <1>1, <1>2, <1>3, <1>4, <1>5, <1>6, <1>7, <1>8, Zenon DEF MultiNext, MultiStep

LEMMA OwnedStep == TypeOK /\ Owned /\ [MultiNext]_multiVars => Owned'
<1> SUFFICES ASSUME TypeOK, Owned, [MultiNext]_multiVars PROVE Owned'
    OBVIOUS
<1>1. ASSUME NEW p \in Writers, NEW e \in Entries, CallWrite(p, e) PROVE Owned'
  BY MultiAssumption, <1>1, ZenonT(60) DEF CallWrite, Begin, TypeOK, Owned
<1>2. ASSUME NEW p \in Writers, CallSync(p) PROVE Owned'
  BY MultiAssumption, <1>2, Zenon DEF CallSync, Begin, TypeOK, Owned
<1>3. ASSUME NEW p \in Writers, Lock(p) PROVE Owned'
  BY MultiAssumption, <1>3, Zenon DEF Lock, TypeOK, Owned
<1>4. ASSUME NEW p \in Writers, WriteSink(p) PROVE Owned'
  <2>1. PICK x \in Taken : x.entry = entry[p] /\ got' = [got EXCEPT ![mi[p]] = Append(@, x)]
    BY <1>4, WriteEffect, Zenon
  <2>2. /\ mpc[p] = "writing" /\ mi[p] \in Sinks /\ mi' = [mi EXCEPT ![p] = @ + 1]
        /\ UNCHANGED <<mpc, entry, issued>>
    BY <1>4, WriteEffect, ZenonT(60)
  <2>3. x.entry \in issued
    BY <2>1, <2>2, Zenon DEF Owned
  <2>4. \A s \in Sinks : \A k \in DOMAIN got'[s] : got'[s][k].entry \in issued
    <3> SUFFICES ASSUME NEW s \in Sinks, NEW k \in DOMAIN got'[s] PROVE got'[s][k].entry \in issued
        BY Zenon
    <3>1. CASE s # mi[p]
      BY <2>1, <3>1, Zenon DEF TypeOK, Owned
    <3>2. CASE s = mi[p]
      <4>1. got[s] \in Seq(Taken) /\ got'[s] = Append(got[s], x)
        BY <2>1, <3>2, Zenon DEF TypeOK
      <4> QED
        BY <2>3, <4>1 DEF Owned
    <3> QED
      BY Zenon, <3>1, <3>2
  <2> QED
    BY <2>2, <2>4, Zenon DEF TypeOK, Owned
<1>5. ASSUME NEW p \in Writers, SyncSink(p) PROVE Owned'
  <2>1. mpc[p] = "syncing" /\ mi' = [mi EXCEPT ![p] = @ + 1] /\ UNCHANGED <<got, mpc, entry, issued>>
    BY <1>5, SyncEffect, Zenon
  <2> QED
    BY <2>1, Zenon DEF TypeOK, Owned
<1>6. ASSUME NEW p \in Writers, SinkPanics(p) PROVE Owned'
  BY MultiAssumption, <1>6, Zenon DEF SinkPanics, TypeOK, Owned
<1>7. ASSUME NEW p \in Writers, Unlock(p) PROVE Owned'
  BY MultiAssumption, <1>7, Zenon DEF Unlock, TypeOK, Owned
<1>8. CASE UNCHANGED multiVars
  BY MultiAssumption, <1>8, Zenon DEF multiVars, multiCall, TypeOK, Owned
<1> QED
  BY <1>1, <1>2, <1>3, <1>4, <1>5, <1>6, <1>7, <1>8, Zenon DEF MultiNext, MultiStep

\* A step at a sink is the holder's; the others are elsewhere.
LEMMA Alone ==
  ASSUME Exclusive, NEW p \in Writers, mpc[p] \in {"writing", "syncing"}
  PROVE  mu = p /\ \A q \in Writers : q # p => mpc[q] \notin {"writing", "syncing"}
BY Zenon DEF Exclusive

LEMMA Lengths == TypeOK => \A s \in Sinks : Len(got[s]) \in Nat
BY SomeSeqs, Zenon DEF TypeOK

\* A step that gives the sinks nothing, and leaves the mutex and the writers alone.
LEMMA InStepQuiet ==
  ASSUME InStep, got' = got, mu' = mu,
         \A q \in Writers : mpc'[q] \in {"writing", "syncing"} => mpc'[q] = mpc[q],
         \A q \in Writers : mpc'[q] = "writing" => mi'[q] = mi[q]
  PROVE  InStep'
BY DEF InStep

LEMMA InStepStep ==
  TypeOK /\ Owned /\ Exclusive /\ InStep /\ [MultiNext]_multiVars => InStep'
<1> SUFFICES ASSUME TypeOK, Owned, Exclusive, InStep, [MultiNext]_multiVars PROVE InStep'
    BY Zenon
<1>1. ASSUME NEW p \in Writers, NEW e \in Entries, CallWrite(p, e) PROVE InStep'
  BY <1>1, InStepQuiet, Zenon DEF CallWrite, Begin, TypeOK
<1>2. ASSUME NEW p \in Writers, CallSync(p) PROVE InStep'
  BY <1>2, InStepQuiet, Zenon DEF CallSync, Begin, TypeOK
<1>3. ASSUME NEW p \in Writers, Lock(p) PROVE InStep'
  <2>1. mi[p] = 1 /\ \A q \in Writers : mpc[q] \notin {"writing", "syncing"}
    BY MultiAssumption, <1>3, Zenon DEF Lock, Exclusive, Owned
  <2>2. \A s, t \in Sinks : Len(got[s]) = Len(got[t])
    BY <1>3, Zenon DEF Lock, InStep
  <2>3. mu' = p /\ got' = got /\ mi' = mi /\ \A q \in Writers : q # p => mpc'[q] = mpc[q]
    BY <1>3, Zenon DEF Lock, TypeOK
  <2> QED
    <3>1. \A s \in Sinks : s \in Int /\ ~(s < mi'[p])
      BY MultiAssumption, <2>1, <2>3
    <3> HIDE DEF Sinks
    <3> QED
      BY MultiAssumption, <2>1, <2>2, <2>3, <3>1, Zenon DEF InStep
<1>4. ASSUME NEW p \in Writers, WriteSink(p) PROVE InStep'
  <2>1. PICK x \in Taken : got' = [got EXCEPT ![mi[p]] = Append(@, x)]
    BY <1>4, WriteEffect, Zenon
  <2>2. /\ mpc[p] = "writing" /\ mi[p] \in Sinks /\ mi' = [mi EXCEPT ![p] = @ + 1] /\ UNCHANGED <<mu, mpc>>
    BY <1>4, WriteEffect, Zenon
  <2>3. \A s \in Sinks : /\ s = mi[p] => Len(got'[s]) = Len(got[s]) + 1
                         /\ s # mi[p] => Len(got'[s]) = Len(got[s])
    BY <2>1 DEF TypeOK
  <2>4. mu = p /\ \A q \in Writers : q # p => mpc[q] \notin {"writing", "syncing"}
    BY Zenon, <2>2, Alone
  <2>5. mi[p] \in Int /\ mi'[p] = mi[p] + 1 /\ \A s \in Sinks : s \in Int /\ Len(got[s]) \in Int
    BY MultiAssumption, <2>2, Lengths DEF TypeOK
  <2>6. \A s, t \in Sinks :
          /\ (s < mi'[p] <=> t < mi'[p]) => Len(got'[s]) = Len(got'[t])
          /\ s < mi'[p] /\ t >= mi'[p] => Len(got'[s]) = Len(got'[t]) + 1
    <3> SUFFICES ASSUME NEW s \in Sinks, NEW t \in Sinks
                 PROVE  /\ (s < mi'[p] <=> t < mi'[p]) => Len(got'[s]) = Len(got'[t])
                        /\ s < mi'[p] /\ t >= mi'[p] => Len(got'[s]) = Len(got'[t]) + 1
        BY Zenon
    <3>1. /\ (s < mi[p] <=> t < mi[p]) => Len(got[s]) = Len(got[t])
          /\ s < mi[p] /\ t >= mi[p] => Len(got[s]) = Len(got[t]) + 1
          /\ t < mi[p] /\ s >= mi[p] => Len(got[t]) = Len(got[s]) + 1
      BY <2>2 DEF InStep
    <3>2. /\ s = mi[p] => Len(got'[s]) = Len(got[s]) + 1
          /\ s # mi[p] => Len(got'[s]) = Len(got[s])
          /\ t = mi[p] => Len(got'[t]) = Len(got[t]) + 1
          /\ t # mi[p] => Len(got'[t]) = Len(got[t])
      BY Zenon, <2>3
    <3>3. s \in Int /\ t \in Int /\ Len(got[s]) \in Int /\ Len(got[t]) \in Int
      BY Zenon, <2>5
    <3>4. mi[p] \in Int /\ mi'[p] = mi[p] + 1
      BY Zenon, <2>5
    <3> HIDE DEF Sinks
    <3>5. CASE s = mi[p] /\ t = mi[p]
      BY <3>1, <3>2, <3>3, <3>4, <3>5
    <3>6. CASE s = mi[p] /\ t # mi[p]
      BY <3>1, <3>2, <3>3, <3>4, <3>6, SMTT(30)
    <3>7. CASE s # mi[p] /\ t = mi[p]
      BY <3>1, <3>2, <3>3, <3>4, <3>7
    <3>8. CASE s # mi[p] /\ t # mi[p]
      BY <3>1, <3>2, <3>3, <3>4, <3>8, SMTT(30)
    <3> QED
      BY Zenon, <3>5, <3>6, <3>7, <3>8
  <2>7. ASSUME NEW s \in Sinks, NEW t \in Sinks, s < t
        PROVE  Len(got'[s]) = Len(got'[t]) \/ Len(got'[s]) = Len(got'[t]) + 1
    <3>1. /\ (s < mi'[p] <=> t < mi'[p]) => Len(got'[s]) = Len(got'[t])
          /\ s < mi'[p] /\ t >= mi'[p] => Len(got'[s]) = Len(got'[t]) + 1
      BY Zenon, <2>6
    <3>2. s \in Int /\ t \in Int /\ mi'[p] \in Int
      BY <2>5
    <3> QED
      BY <2>7, <3>1, <3>2
  <2> QED
    BY MultiAssumption, <2>2, <2>4, <2>6, <2>7, ZenonT(30) DEF InStep
<1>5. ASSUME NEW p \in Writers, SyncSink(p) PROVE InStep'
  <2>1. mpc[p] = "syncing" /\ mi' = [mi EXCEPT ![p] = @ + 1] /\ UNCHANGED <<mu, got, mpc>>
    BY <1>5, SyncEffect, Zenon
  <2> QED
    BY <2>1, InStepQuiet, Zenon DEF TypeOK
<1>6. ASSUME NEW p \in Writers, SinkPanics(p) PROVE InStep'
  BY <1>6, InStepQuiet, Zenon DEF SinkPanics, TypeOK
<1>7. ASSUME NEW p \in Writers, Unlock(p) PROVE InStep'
  <2>1. \A q \in Writers : q # p => mpc[q] \notin {"writing", "syncing"}
    BY <1>7, Alone, ZenonT(30) DEF Unlock
  <2>2. \A s, t \in Sinks : Len(got[s]) = Len(got[t])
    <3>1. CASE mpc[p] = "syncing"
      BY <3>1, Zenon DEF InStep
    <3>2. CASE mpc[p] = "writing"
      <4> SUFFICES ASSUME NEW s \in Sinks, NEW t \in Sinks PROVE Len(got[s]) = Len(got[t])
          BY Zenon
      <4>1. s < mi[p] /\ t < mi[p]
        BY MultiAssumption, <1>7 DEF Unlock, TypeOK
      <4>2. \A u, v \in Sinks : u < mi[p] /\ v < mi[p] => Len(got[u]) = Len(got[v])
        BY <3>2, ZenonT(60) DEF InStep
      <4> QED
        BY Zenon, <4>1, <4>2
    <3> QED
      BY <1>7, <3>1, <3>2, Zenon DEF Unlock
  <2>3. got' = got /\ mi' = mi /\ mpc'[p] \in {"wrote", "synced"} /\ \A q \in Writers : q # p => mpc'[q] = mpc[q]
    BY <1>7, Zenon DEF Unlock, TypeOK
  <2> QED
    BY <2>1, <2>2, <2>3, Lengths, Zenon DEF InStep
<1>8. CASE UNCHANGED multiVars
  BY <1>8, InStepQuiet, Zenon DEF multiVars, multiCall
<1> QED
  BY <1>1, <1>2, <1>3, <1>4, <1>5, <1>6, <1>7, <1>8, Zenon DEF MultiNext, MultiStep

\* What the sinks hold after a step at a sink: what they held, and x at the last.
LEMMA Grown ==
  ASSUME TypeOK, NEW p \in Writers, mi[p] \in Sinks, NEW x \in Taken,
         got' = [got EXCEPT ![mi[p]] = Append(@, x)]
  PROVE  \A s \in Sinks :
           /\ Len(got[s]) \in Nat
           /\ DOMAIN got[s] = 1 .. Len(got[s]) /\ DOMAIN got'[s] = 1 .. Len(got'[s])
           /\ s # mi[p] => got'[s] = got[s]
           /\ s = mi[p] => Len(got'[s]) = Len(got[s]) + 1 /\ got'[s][Len(got[s]) + 1] = x
           /\ \A k \in DOMAIN got[s] : k \in DOMAIN got'[s] /\ got'[s][k] = got[s][k]
<1> SUFFICES ASSUME NEW s \in Sinks
             PROVE  /\ Len(got[s]) \in Nat
                    /\ DOMAIN got[s] = 1 .. Len(got[s]) /\ DOMAIN got'[s] = 1 .. Len(got'[s])
                    /\ s # mi[p] => got'[s] = got[s]
                    /\ s = mi[p] => Len(got'[s]) = Len(got[s]) + 1 /\ got'[s][Len(got[s]) + 1] = x
                    /\ \A k \in DOMAIN got[s] : k \in DOMAIN got'[s] /\ got'[s][k] = got[s][k]
    BY Zenon
<1>1. got[s] \in Seq(Taken)
  BY Zenon DEF TypeOK
<1>2. CASE s # mi[p]
  <2>1. got'[s] = got[s]
    BY <1>2, Zenon DEF TypeOK
  <2> QED
    BY <1>1, <1>2, <2>1
<1>3. CASE s = mi[p]
  <2>1. got'[s] = Append(got[s], x)
    BY <1>3, Zenon DEF TypeOK
  <2> QED
    BY <1>1, <1>3, <2>1
<1> QED
  BY Zenon, <1>2, <1>3

LEMMA AlikeStep ==
  TypeOK /\ Owned /\ Exclusive /\ InStep /\ Alike /\ [MultiNext]_multiVars => Alike'
<1> SUFFICES ASSUME TypeOK, Owned, Exclusive, InStep, Alike, [MultiNext]_multiVars PROVE Alike'
    BY Zenon
<1>0. ASSUME got' = got, \A q \in Writers : mpc'[q] = "writing" =>
               mpc[q] = "writing" /\ mi'[q] = mi[q] /\ entry'[q] = entry[q]
      PROVE Alike'
  BY <1>0, ZenonT(60) DEF Alike
<1>1. ASSUME NEW p \in Writers, NEW e \in Entries, CallWrite(p, e) PROVE Alike'
  BY <1>0, <1>1, Zenon DEF CallWrite, Begin, TypeOK
<1>2. ASSUME NEW p \in Writers, CallSync(p) PROVE Alike'
  BY <1>0, <1>2, Zenon DEF CallSync, Begin, TypeOK
<1>3. ASSUME NEW p \in Writers, Lock(p) PROVE Alike'
  <2>1. mi[p] = 1 /\ \A q \in Writers : mpc[q] \notin {"writing", "syncing"}
    BY MultiAssumption, <1>3, Zenon DEF Lock, Exclusive, Owned
  <2>2. got' = got /\ mi' = mi /\ \A q \in Writers : q # p => mpc'[q] = mpc[q]
    BY <1>3, Zenon DEF Lock, TypeOK
  <2>3. \A s \in Sinks : ~(s < mi'[p])
    BY <2>1, <2>2
  <2> QED
    BY <2>1, <2>2, <2>3 DEF Alike
<1>4. ASSUME NEW p \in Writers, WriteSink(p) PROVE Alike'
  <2>1. PICK x \in Taken : x.entry = entry[p] /\ got' = [got EXCEPT ![mi[p]] = Append(@, x)]
    BY <1>4, WriteEffect, Zenon
  <2>2. /\ mpc[p] = "writing" /\ mi[p] \in Sinks /\ mi' = [mi EXCEPT ![p] = @ + 1]
        /\ UNCHANGED <<mu, mpc, entry>>
    BY <1>4, WriteEffect, Zenon
  <2>3. \A q \in Writers : q # p => mpc[q] \notin {"writing", "syncing"}
    BY Zenon, <2>2, Alone
  <2>4. \A s \in Sinks :
          /\ Len(got[s]) \in Nat
          /\ DOMAIN got[s] = 1 .. Len(got[s]) /\ DOMAIN got'[s] = 1 .. Len(got'[s])
          /\ s # mi[p] => got'[s] = got[s]
          /\ s = mi[p] => Len(got'[s]) = Len(got[s]) + 1 /\ got'[s][Len(got[s]) + 1] = x
          /\ \A k \in DOMAIN got[s] : k \in DOMAIN got'[s] /\ got'[s][k] = got[s][k]
    BY <2>1, <2>2, Grown, Zenon
  <2>5. mi[p] \in Int /\ mi'[p] = mi[p] + 1 /\ \A s \in Sinks : s \in Int
    BY MultiAssumption, <2>2 DEF TypeOK
  <2>6. ASSUME NEW t \in Sinks, t # mi[p], NEW k \in DOMAIN got'[mi[p]] \cap DOMAIN got'[t]
        PROVE  got'[mi[p]][k].entry = got'[t][k].entry
    <3>1. CASE k \in DOMAIN got[mi[p]]
      <4>1. got'[t] = got[t] /\ got'[mi[p]][k] = got[mi[p]][k]
        BY Zenon, <2>2, <2>4, <2>6, <3>1
      <4>2. got[mi[p]][k].entry = got[t][k].entry
        BY <2>2, <2>6, <3>1, <4>1, ZenonT(60) DEF Alike
      <4> QED
        BY Zenon, <4>1, <4>2
    <3>2. CASE k \notin DOMAIN got[mi[p]]
      <4>0. /\ DOMAIN got[mi[p]] = 1 .. Len(got[mi[p]]) /\ Len(got[mi[p]]) \in Nat
            /\ DOMAIN got'[mi[p]] = 1 .. Len(got[mi[p]]) + 1
            /\ got'[t] = got[t] /\ DOMAIN got[t] = 1 .. Len(got[t]) /\ Len(got[t]) \in Nat
        BY <2>2, <2>4, <2>6, ZenonT(60)
      <4>1. k = Len(got[mi[p]]) + 1 /\ k <= Len(got[t]) /\ got'[t] = got[t]
        BY <2>6, <3>2, <4>0
      <4>2. t < mi[p]
        <5>1. t > mi[p] => Len(got[mi[p]]) = Len(got[t])
          BY <2>2, <2>5, <2>6 DEF InStep
        <5>2. ~(t > mi[p])
          BY <4>0, <4>1, <5>1
        <5> QED
          BY <2>5, <2>6, <5>2
      <4>3. Len(got[t]) = Len(got[mi[p]]) + 1
        BY <2>2, <2>5, <4>2, SMTT(30) DEF InStep
      <4>4. got[t][Len(got[t])].entry = entry[p]
        BY <2>2, <4>2, Zenon DEF Alike
      <4> QED
        BY Zenon, <2>1, <2>2, <2>4, <4>1, <4>3, <4>4
    <3> QED
      BY Zenon, <3>1, <3>2
  <2>7. \A s, t \in Sinks : \A k \in DOMAIN got'[s] \cap DOMAIN got'[t] : got'[s][k].entry = got'[t][k].entry
    <3> SUFFICES ASSUME NEW s \in Sinks, NEW t \in Sinks, NEW k \in DOMAIN got'[s] \cap DOMAIN got'[t]
                 PROVE  got'[s][k].entry = got'[t][k].entry
        BY Zenon
    <3>1. CASE s = t
      BY Zenon, <3>1
    <3>2. CASE s = mi[p] /\ t # mi[p]
      BY Zenon, <2>6, <3>2
    <3>3. CASE s # mi[p] /\ t = mi[p]
      BY Zenon, <2>6, <3>3
    <3>4. CASE s # mi[p] /\ t # mi[p]
      BY <2>4, <3>4 DEF Alike
    <3> QED
      BY Zenon, <3>1, <3>2, <3>3, <3>4
  <2>8. ASSUME NEW s \in Sinks, s < mi'[p]
        PROVE  Len(got'[s]) > 0 /\ got'[s][Len(got'[s])].entry = entry[p]
    <3>1. CASE s = mi[p]
      BY <2>1, <2>4, <3>1
    <3>2. CASE s # mi[p]
      <4>1. s < mi[p]
        BY <2>5, <2>8, <3>2
      <4>2. Len(got[s]) > 0 /\ got[s][Len(got[s])].entry = entry[p]
        BY <2>2, <4>1, Zenon DEF Alike
      <4> QED
        BY Zenon, <2>4, <3>2, <4>2
    <3> QED
      BY Zenon, <3>1, <3>2
  <2> QED
    BY <2>2, <2>3, <2>7, <2>8, Zenon DEF Alike
<1>5. ASSUME NEW p \in Writers, SyncSink(p) PROVE Alike'
  <2>1. mpc[p] = "syncing" /\ mi' = [mi EXCEPT ![p] = @ + 1] /\ UNCHANGED <<got, mpc, entry>>
    BY <1>5, SyncEffect, Zenon
  <2> QED
    BY <1>0, <2>1, Zenon DEF TypeOK
<1>6. ASSUME NEW p \in Writers, SinkPanics(p) PROVE Alike'
  BY <1>0, <1>6, Zenon DEF SinkPanics, TypeOK
<1>7. ASSUME NEW p \in Writers, Unlock(p) PROVE Alike'
  BY <1>0, <1>7, Zenon DEF Unlock, TypeOK
<1>8. CASE UNCHANGED multiVars
  BY <1>0, <1>8, Zenon DEF multiVars, multiCall
<1> QED
  BY <1>1, <1>2, <1>3, <1>4, <1>5, <1>6, <1>7, <1>8, Zenon DEF MultiNext, MultiStep

LEMMA SyncedStep ==
  TypeOK /\ Owned /\ Exclusive /\ Synced /\ [MultiNext]_multiVars => Synced'
<1> SUFFICES ASSUME TypeOK, Owned, Exclusive, Synced, [MultiNext]_multiVars PROVE Synced'
    OBVIOUS
<1>0. ASSUME got' = got, syncs' = syncs,
             \A q \in Writers : mpc'[q] \in {"syncing", "synced"} =>
               mpc'[q] = mpc[q] /\ mi'[q] = mi[q] /\ entry'[q] = entry[q] /\ err'[q] = err[q]
      PROVE Synced'
  BY <1>0 DEF Synced
<1>1. ASSUME NEW p \in Writers, NEW e \in Entries, CallWrite(p, e) PROVE Synced'
  <2>1. \A q \in Writers : mpc'[q] \in {"syncing", "synced"} => q # p
    BY <1>1, Zenon DEF CallWrite, Begin, TypeOK
  <2>2. \A q \in Writers : q # p => err'[q] = err[q]
    BY <1>1, Zenon DEF CallWrite, Begin, TypeOK
  <2> QED
    BY <1>0, <1>1, <2>1, <2>2, Zenon DEF CallWrite, Begin, TypeOK
<1>2. ASSUME NEW p \in Writers, CallSync(p) PROVE Synced'
  <2>1. \A q \in Writers : mpc'[q] \in {"syncing", "synced"} => q # p
    BY <1>2, Zenon DEF CallSync, Begin, TypeOK
  <2>2. \A q \in Writers : q # p => err'[q] = err[q]
    BY <1>2, ZenonT(60) DEF CallSync, Begin, TypeOK
  <2> QED
    BY <1>0, <1>2, <2>1, <2>2, ZenonT(60) DEF CallSync, Begin, TypeOK
<1>3. ASSUME NEW p \in Writers, Lock(p) PROVE Synced'
  <2>1. mi[p] = 1 /\ mpc'[p] # "synced"
    BY <1>3, Zenon DEF Lock, Owned, TypeOK
  <2>2. UNCHANGED <<got, syncs, entry, mi, err>> /\ \A q \in Writers : q # p => mpc'[q] = mpc[q]
    BY <1>3, Zenon DEF Lock, TypeOK
  <2>3. \A s \in Sinks : ~(s < mi'[p])
    BY <2>1, <2>2, SMTT(30)
  <2> QED
    BY <2>1, <2>2, <2>3, ZenonT(30) DEF Synced
<1>4. ASSUME NEW p \in Writers, WriteSink(p) PROVE Synced'
  <2>1. PICK x \in Taken : x.entry = entry[p] /\ got' = [got EXCEPT ![mi[p]] = Append(@, x)]
    BY <1>4, WriteEffect, Zenon
  <2>2. /\ mpc[p] = "writing" /\ mi[p] \in Sinks /\ mi' = [mi EXCEPT ![p] = @ + 1]
        /\ UNCHANGED <<syncs, mpc, entry>>
    BY <1>4, WriteEffect, Zenon
  <2>3. \A q \in Writers : q # p => err'[q] = err[q]
    BY <1>4, WriteEffect, Zenon
  <2>4. \A s \in Sinks :
          /\ Len(got[s]) \in Nat
          /\ DOMAIN got[s] = 1 .. Len(got[s]) /\ DOMAIN got'[s] = 1 .. Len(got'[s])
          /\ s # mi[p] => got'[s] = got[s]
          /\ s = mi[p] => Len(got'[s]) = Len(got[s]) + 1 /\ got'[s][Len(got[s]) + 1] = x
          /\ \A k \in DOMAIN got[s] : k \in DOMAIN got'[s] /\ got'[s][k] = got[s][k]
    BY <2>1, <2>2, Grown, ZenonT(60)
  <2> SUFFICES ASSUME NEW q \in Writers, mpc[q] \in {"syncing", "synced"}, ~err'[q],
                      NEW s \in Sinks, mpc[q] = "synced" \/ s < mi'[q],
                      NEW k \in DOMAIN got'[s], got'[s][k].entry = entry[q]
               PROVE  k <= syncs[s]
      BY <2>2, Zenon DEF Synced
  <2>5. q # p /\ ~err[q] /\ mi'[q] = mi[q]
    BY <2>2, <2>3, ZenonT(60) DEF TypeOK
  <2>6. x.entry # entry[q]
    BY <2>1, <2>2, <2>5, Zenon DEF Owned
  <2>7. k \in DOMAIN got[s]
    <3>1. CASE s # mi[p]
      BY Zenon, <2>4, <3>1
    <3>2. CASE s = mi[p]
      <4>1. DOMAIN got'[s] = 1 .. Len(got[s]) + 1 /\ got'[s][Len(got[s]) + 1] = x
        BY <2>4, <3>2, Zenon
      <4>2. k # Len(got[s]) + 1
        BY Zenon, <2>6, <4>1
      <4>3. Len(got[s]) \in Nat /\ DOMAIN got[s] = 1 .. Len(got[s])
        BY Zenon, <2>4
      <4> QED
        BY <4>1, <4>2, <4>3
    <3> QED
      BY Zenon, <3>1, <3>2
  <2>8. got[s][k].entry = entry[q]
    BY Zenon, <2>4, <2>7
  <2> QED
    BY <2>5, <2>7, <2>8, Zenon DEF Synced
<1>5. ASSUME NEW p \in Writers, SyncSink(p) PROVE Synced'
  <2>1. /\ mpc[p] = "syncing" /\ mi[p] \in Sinks /\ mi' = [mi EXCEPT ![p] = @ + 1]
        /\ ~err'[p] => ~err[p] /\ syncs' = [syncs EXCEPT ![mi[p]] = Len(got[mi[p]])]
        /\ syncs' \in {syncs, [syncs EXCEPT ![mi[p]] = Len(got[mi[p]])]}
        /\ \A q \in Writers : q # p => err'[q] = err[q]
        /\ UNCHANGED <<got, mpc, entry>>
    BY <1>5, SyncEffect, Zenon
  <2>2. \A s \in Sinks : /\ syncs'[s] \in {syncs[s], Len(got[s])}
                         /\ ~err'[p] /\ s = mi[p] => syncs'[s] = Len(got[s])
                         /\ \A k \in DOMAIN got[s] : k <= Len(got[s])
    <3> SUFFICES ASSUME NEW s \in Sinks
                 PROVE  /\ syncs'[s] \in {syncs[s], Len(got[s])}
                        /\ ~err'[p] /\ s = mi[p] => syncs'[s] = Len(got[s])
                        /\ \A k \in DOMAIN got[s] : k <= Len(got[s])
        BY Zenon
    <3>1. got[s] \in Seq(Taken) /\ syncs \in [Sinks -> Nat]
      BY Zenon DEF TypeOK
    <3>2. [syncs EXCEPT ![mi[p]] = Len(got[mi[p]])][s] = IF s = mi[p] THEN Len(got[s]) ELSE syncs[s]
      BY Zenon, <3>1
    <3>3. syncs'[s] \in {syncs[s], Len(got[s])}
      BY <2>1, <3>2, Zenon
    <3>4. ~err'[p] /\ s = mi[p] => syncs'[s] = Len(got[s])
      BY <2>1, <3>2, Zenon
    <3> QED
      BY <3>1, <3>3, <3>4
  <2> SUFFICES ASSUME NEW q \in Writers, mpc[q] \in {"syncing", "synced"}, ~err'[q],
                      NEW s \in Sinks, mpc[q] = "synced" \/ s < mi'[q],
                      NEW k \in DOMAIN got[s], got[s][k].entry = entry[q]
               PROVE  k <= syncs'[s]
      BY <2>1, Zenon DEF Synced
  <2>3. CASE q = p /\ s = mi[p]
    BY Zenon, <2>2, <2>3
  <2>4. CASE ~(q = p /\ s = mi[p])
    <3>1. ~err[q]
      BY Zenon, <2>1
    <3>2. mpc[q] = "synced" \/ s < mi[q]
      <4>1. mi[p] \in Int /\ s \in Int /\ mi'[p] = mi[p] + 1 /\ \A r \in Writers : r # p => mi'[r] = mi[r]
        BY MultiAssumption, <2>1, SMTT(30) DEF TypeOK
      <4> QED
        BY <2>1, <2>4, <4>1, SMTT(30)
    <3>3. k <= syncs[s]
      BY <3>1, <3>2, Zenon DEF Synced
    <3> QED
      BY Zenon, <2>2, <3>3
  <2> QED
    BY Zenon, <2>3, <2>4
<1>6. ASSUME NEW p \in Writers, SinkPanics(p) PROVE Synced'
  <2>1. \A q \in Writers : mpc'[q] \in {"syncing", "synced"} => q # p
    BY <1>6, Zenon DEF SinkPanics, TypeOK
  <2>2. \A q \in Writers : q # p => err'[q] = err[q]
    BY <1>6, ZenonT(60) DEF SinkPanics, TypeOK
  <2> QED
    BY <1>0, <1>6, <2>1, <2>2, Zenon DEF SinkPanics, TypeOK
<1>7. ASSUME NEW p \in Writers, Unlock(p) PROVE Synced'
  <2>1. UNCHANGED <<got, syncs, entry, mi, err>> /\ \A q \in Writers : q # p => mpc'[q] = mpc[q]
    BY <1>7, Zenon DEF Unlock, TypeOK
  <2>2. mpc'[p] \in {"syncing", "synced"} => mpc[p] = "syncing" /\ \A s \in Sinks : s < mi[p]
    BY <1>7, Numbers, Zenon DEF Unlock, TypeOK
  <2> SUFFICES ASSUME NEW q \in Writers, mpc'[q] \in {"syncing", "synced"}, ~err[q],
                      NEW s \in Sinks, mpc'[q] = "synced" \/ s < mi[q],
                      NEW k \in DOMAIN got[s], got[s][k].entry = entry[q]
               PROVE  k <= syncs[s]
      BY <2>1, Zenon DEF Synced
  <2>3. mpc[q] \in {"syncing", "synced"} /\ (mpc[q] = "synced" \/ s < mi[q])
    BY Zenon, <2>1, <2>2
  <2> QED
    BY <2>3, Zenon DEF Synced
<1>8. CASE UNCHANGED multiVars
  BY <1>0, <1>8, ZenonT(60) DEF multiVars, multiCall
<1> QED
  BY <1>1, <1>2, <1>3, <1>4, <1>5, <1>6, <1>7, <1>8 DEF MultiNext, MultiStep

LEMMA CompleteStep ==
  TypeOK /\ Owned /\ Exclusive /\ Complete /\ [MultiNext]_multiVars => Complete'
<1> SUFFICES ASSUME TypeOK, Owned, Exclusive, Complete, [MultiNext]_multiVars PROVE Complete'
    OBVIOUS
<1>0. ASSUME got' = got,
             \A q \in Writers : mpc'[q] = "write" => nWritten'[q] = 0,
             \A q \in Writers : mpc'[q] \in {"writing", "wrote"} =>
               /\ mpc'[q] = mpc[q] /\ mi'[q] = mi[q] /\ entry'[q] = entry[q]
               /\ err'[q] = err[q] /\ nWritten'[q] = nWritten[q]
      PROVE Complete'
  BY <1>0 DEF Complete
<1>1. ASSUME NEW p \in Writers, NEW e \in Entries, CallWrite(p, e) PROVE Complete'
  <2>1. \A q \in Writers : mpc'[q] \in {"writing", "wrote"} => q # p
    BY <1>1, Zenon DEF CallWrite, Begin, TypeOK
  <2>2. \A q \in Writers : q # p => err'[q] = err[q]
    BY <1>1, Zenon DEF CallWrite, Begin, TypeOK
  <2>3. \A q \in Writers : mpc'[q] = "write" => nWritten'[q] = 0
    BY <1>1, Zenon DEF CallWrite, Begin, TypeOK, Complete
  <2> QED
    BY <1>0, <1>1, <2>1, <2>2, <2>3, ZenonT(60) DEF CallWrite, Begin, TypeOK
<1>2. ASSUME NEW p \in Writers, CallSync(p) PROVE Complete'
  <2>1. \A q \in Writers : mpc'[q] \in {"writing", "wrote"} => q # p
    BY <1>2, Zenon DEF CallSync, Begin, TypeOK
  <2>2. \A q \in Writers : q # p => err'[q] = err[q]
    BY <1>2, Zenon DEF CallSync, Begin, TypeOK
  <2>3. \A q \in Writers : mpc'[q] = "write" => nWritten'[q] = 0
    BY <1>2, ZenonT(60) DEF CallSync, Begin, TypeOK, Complete
  <2> QED
    BY <1>0, <1>2, <2>1, <2>2, <2>3, Zenon DEF CallSync, Begin, TypeOK
<1>3. ASSUME NEW p \in Writers, Lock(p) PROVE Complete'
  <2>1. mi[p] = 1 /\ mpc'[p] \notin {"write", "wrote"} /\ (mpc'[p] = "writing" => nWritten[p] = 0)
    BY <1>3, Zenon DEF Lock, Owned, TypeOK, Complete
  <2>2. UNCHANGED <<got, entry, mi, err, nWritten>> /\ \A q \in Writers : q # p => mpc'[q] = mpc[q]
    BY <1>3, Zenon DEF Lock, TypeOK
  <2>3. ~(mi'[p] > 1) /\ \A s \in Sinks : ~(s < mi'[p])
    BY <2>1, <2>2, Numbers, Zenon
  <2> QED
    BY <2>1, <2>2, <2>3, ZenonT(60) DEF Complete
<1>4. ASSUME NEW p \in Writers, WriteSink(p) PROVE Complete'
  <2>1. PICK x \in Taken :
          /\ x.entry = entry[p]
          /\ got' = [got EXCEPT ![mi[p]] = Append(@, x)]
          /\ ~err'[p] => /\ ~err[p] /\ x = [entry |-> entry[p], n |-> EntryLen]
                         /\ nWritten'[p] = Fewest(nWritten[p], EntryLen)
    BY <1>4, WriteEffect, Zenon
  <2>2. /\ mpc[p] = "writing" /\ mi[p] \in Sinks /\ mi' = [mi EXCEPT ![p] = @ + 1]
        /\ UNCHANGED <<mpc, entry>>
    BY <1>4, WriteEffect, Zenon
  <2>3. \A q \in Writers : q # p => err'[q] = err[q] /\ nWritten'[q] = nWritten[q]
    BY <1>4, WriteEffect, Zenon
  <2>4. \A s \in Sinks :
          /\ Len(got[s]) \in Nat
          /\ DOMAIN got[s] = 1 .. Len(got[s]) /\ DOMAIN got'[s] = 1 .. Len(got'[s])
          /\ s # mi[p] => got'[s] = got[s]
          /\ s = mi[p] => Len(got'[s]) = Len(got[s]) + 1 /\ got'[s][Len(got[s]) + 1] = x
          /\ \A k \in DOMAIN got[s] : k \in DOMAIN got'[s] /\ got'[s][k] = got[s][k]
    BY <2>1, <2>2, Grown, Zenon
  <2>5. /\ mi[p] \in Int /\ mi[p] >= 1 /\ mi'[p] = mi[p] + 1 /\ \A s \in Sinks : s \in Int
        /\ \A q \in Writers : q # p => mi'[q] = mi[q]
    BY MultiAssumption, <2>2, SMTT(30) DEF TypeOK
  <2>6. ASSUME NEW q \in Writers, q # p, mpc[q] \in {"writing", "wrote"}, ~err'[q]
        PROVE  /\ nWritten'[q] = IF mi'[q] > 1 THEN EntryLen ELSE 0
               /\ mpc[q] = "wrote" => mi'[q] = NumSinks + 1
               /\ \A s \in Sinks : s < mi'[q] =>
                    \E k \in DOMAIN got'[s] : got'[s][k] = [entry |-> entry[q], n |-> EntryLen]
    <3>1. ~err[q] /\ nWritten'[q] = nWritten[q] /\ mi'[q] = mi[q]
      BY <2>3, <2>5, <2>6, Zenon
    <3>2. /\ nWritten[q] = IF mi[q] > 1 THEN EntryLen ELSE 0
          /\ mpc[q] = "wrote" => mi[q] = NumSinks + 1
          /\ \A s \in Sinks : s < mi[q] =>
               \E k \in DOMAIN got[s] : got[s][k] = [entry |-> entry[q], n |-> EntryLen]
      BY <2>6, <3>1, Zenon DEF Complete
    <3>3. ASSUME NEW s \in Sinks, s < mi[q]
          PROVE  \E k \in DOMAIN got'[s] : got'[s][k] = [entry |-> entry[q], n |-> EntryLen]
      <4>1. PICK k \in DOMAIN got[s] : got[s][k] = [entry |-> entry[q], n |-> EntryLen]
        BY ZenonT(60), <3>2, <3>3
      <4> QED
        BY Zenon, <2>4, <4>1
    <3> QED
      BY <3>1, <3>2, <3>3, ZenonT(30)
  <2>7. ASSUME ~err'[p]
        PROVE  /\ nWritten'[p] = EntryLen
               /\ \A s \in Sinks : s < mi'[p] =>
                    \E k \in DOMAIN got'[s] : got'[s][k] = [entry |-> entry[p], n |-> EntryLen]
    <3>1. /\ ~err[p] /\ x = [entry |-> entry[p], n |-> EntryLen]
          /\ nWritten'[p] = Fewest(nWritten[p], EntryLen)
      BY <2>1, <2>7, ZenonT(60)
    <3>2. /\ nWritten[p] \in {0, EntryLen}
          /\ \A s \in Sinks : s < mi[p] =>
               \E k \in DOMAIN got[s] : got[s][k] = [entry |-> entry[p], n |-> EntryLen]
      BY <2>2, <3>1, Zenon DEF Complete
    <3>3. nWritten'[p] = EntryLen
      BY <3>1, <3>2, FewestFull, Zenon
    <3>4. ASSUME NEW s \in Sinks, s < mi'[p]
          PROVE  \E k \in DOMAIN got'[s] : got'[s][k] = [entry |-> entry[p], n |-> EntryLen]
      <4>1. CASE s = mi[p]
        <5>1. Len(got[s]) + 1 \in DOMAIN got'[s] /\ got'[s][Len(got[s]) + 1] = x
          <6>1. /\ Len(got[s]) \in Nat /\ DOMAIN got'[s] = 1 .. Len(got[s]) + 1
                /\ got'[s][Len(got[s]) + 1] = x
            BY <2>4, <4>1, Zenon
          <6> QED
            BY <6>1, Numbers, Zenon
        <5> QED
          BY ZenonT(60), <3>1, <5>1
      <4>2. CASE s # mi[p]
        <5>1. s < mi[p]
          BY <2>5, <3>4, <4>2, Numbers, Zenon
        <5>2. PICK k \in DOMAIN got[s] : got[s][k] = [entry |-> entry[p], n |-> EntryLen]
          BY <3>2, <5>1, Zenon
        <5> QED
          BY <2>4, <5>2, Zenon
      <4> QED
        BY <4>1, <4>2, Zenon
    <3> QED
      BY Zenon, <3>3, <3>4
  <2>8. \A q \in Writers : mpc'[q] = "write" => nWritten'[q] = 0
    BY <2>2, <2>3, Zenon DEF Complete
  <2>9. mi'[p] > 1 /\ mpc'[p] # "wrote"
    BY <2>2, <2>5
  <2> QED
    BY <2>2, <2>6, <2>7, <2>8, <2>9 DEF Complete
<1>5. ASSUME NEW p \in Writers, SyncSink(p) PROVE Complete'
  <2>1. /\ mpc[p] = "syncing" /\ mi' = [mi EXCEPT ![p] = @ + 1]
        /\ \A q \in Writers : q # p => err'[q] = err[q]
        /\ UNCHANGED <<got, mpc, entry, nWritten>>
    BY <1>5, SyncEffect, Zenon
  <2>2. \A q \in Writers : mpc'[q] = "write" => nWritten'[q] = 0
    BY <2>1, ZenonT(60) DEF Complete
  <2>3. \A q \in Writers : mpc'[q] \in {"writing", "wrote"} => q # p
    BY Zenon, <2>1
  <2> QED
    BY <1>0, <2>1, <2>2, <2>3, Zenon DEF TypeOK
<1>6. ASSUME NEW p \in Writers, SinkPanics(p) PROVE Complete'
  <2>1. \A q \in Writers : mpc'[q] \in {"writing", "wrote"} => q # p
    BY <1>6, Zenon DEF SinkPanics, TypeOK
  <2>2. \A q \in Writers : q # p => err'[q] = err[q]
    BY <1>6, Zenon DEF SinkPanics, TypeOK
  <2>3. \A q \in Writers : mpc'[q] = "write" => nWritten'[q] = 0
    BY <1>6, ZenonT(60) DEF SinkPanics, TypeOK, Complete
  <2> QED
    BY <1>0, <1>6, <2>1, <2>2, <2>3, ZenonT(60) DEF SinkPanics, TypeOK
<1>7. ASSUME NEW p \in Writers, Unlock(p) PROVE Complete'
  <2>1. UNCHANGED <<got, entry, mi, err, nWritten>> /\ \A q \in Writers : q # p => mpc'[q] = mpc[q]
    BY <1>7, Zenon DEF Unlock, TypeOK
  <2>2. /\ mpc'[p] # "write" /\ mi[p] = NumSinks + 1
        /\ mpc'[p] \in {"writing", "wrote"} => mpc[p] = "writing"
    BY MultiAssumption, <1>7 DEF Unlock, TypeOK
  <2> QED
    BY <2>1, <2>2, Zenon DEF Complete
<1>8. CASE UNCHANGED multiVars
  <2>1. got' = got /\ mpc' = mpc /\ mi' = mi /\ entry' = entry /\ err' = err /\ nWritten' = nWritten
    BY <1>8, Zenon DEF multiVars, multiCall
  <2> QED
    BY <2>1, Zenon DEF Complete
<1> QED
  BY <1>1, <1>2, <1>3, <1>4, <1>5, <1>6, <1>7, <1>8 DEF MultiNext, MultiStep

LEMMA MultiInvHolds == MultiSpec => []MultiInv
<1>1. MultiInit => MultiInv
  <2> SUFFICES ASSUME MultiInit PROVE MultiInv
      OBVIOUS
  <2>1. TypeOK
    <3>1. err \in [Writers -> BOOLEAN]
      BY Zenon DEF MultiInit
    <3> QED
      BY MultiAssumption, <3>1 DEF MultiInit, TypeOK
  <2>2. Exclusive /\ Owned
    BY MultiAssumption DEF MultiInit, Exclusive, Owned
  <2>3. InStep /\ Alike
    BY MultiAssumption, Zenon DEF MultiInit, InStep, Alike
  <2>4. Synced /\ Complete
    BY Zenon DEF MultiInit, Synced, Complete
  <2> QED
    BY <2>1, <2>2, <2>3, <2>4, Zenon DEF MultiInv
<1>2. MultiInv /\ [MultiNext]_multiVars => MultiInv'
  BY TypeStep, ExclusiveStep, OwnedStep, InStepStep, AlikeStep, SyncedStep, CompleteStep, Zenon DEF MultiInv
<1> QED
  BY <1>1, <1>2, PTL DEF MultiSpec

\* The sinks of a CombineWriteSyncers are given the same entries in the same order
\* and are at most one entry apart, whatever fails or panics.
THEOREM SameOrderHolds == MultiSpec => []SameOrder
<1>1. MultiInv => SameOrder
  <2> SUFFICES ASSUME TypeOK, InStep, Alike, NEW s \in Sinks, NEW t \in Sinks
               PROVE  /\ Len(got[s]) - Len(got[t]) \in IF mu = Free THEN {0} ELSE -1 .. 1
                      /\ \A k \in DOMAIN got[s] \cap DOMAIN got[t] : got[s][k].entry = got[t][k].entry
      BY Zenon DEF MultiInv, SameOrder
  <2>1. Len(got[s]) \in Nat /\ Len(got[t]) \in Nat /\ s \in Int /\ t \in Int
    BY Numbers, Lengths, Zenon
  <2>2. CASE mu = Free
    <3>1. Len(got[s]) = Len(got[t])
      BY <2>2, Zenon DEF InStep
    <3> QED
      BY <2>1, <2>2, <3>1 DEF Alike
  <2>3. CASE mu # Free
    <3>1. /\ s < t => Len(got[s]) = Len(got[t]) \/ Len(got[s]) = Len(got[t]) + 1
          /\ t < s => Len(got[t]) = Len(got[s]) \/ Len(got[t]) = Len(got[s]) + 1
      BY Zenon DEF InStep
    <3>2. Len(got[s]) - Len(got[t]) \in -1 .. 1
      <4>1. CASE s = t
        BY <2>1, <4>1
      <4>2. CASE s < t
        BY <2>1, <3>1, <4>2
      <4>3. CASE t < s
        BY <2>1, <3>1, <4>3
      <4> QED
        BY <2>1, <4>1, <4>2, <4>3
    <3> QED
      BY <2>3, <3>2, Zenon DEF Alike
  <2> QED
    BY <2>2, <2>3, Zenon
<1> QED
  BY <1>1, MultiInvHolds, PTL

\* A Sync of the combined sinks that returns nil has synced, and a Write that returns
\* nil has written, every one of them.
THEOREM NilMeansDoneHolds == MultiSpec => []NilMeansDone
<1>1. MultiInv => NilMeansDone
  <2> SUFFICES ASSUME MultiInv PROVE NilSyncIsDurable /\ NilWriteIsComplete
      BY Zenon DEF NilMeansDone
  <2>1. NilSyncIsDurable
    BY Zenon DEF MultiInv, Synced, NilSyncIsDurable
  <2>2. NilWriteIsComplete
    <3>1. NumSinks + 1 > 1 /\ \A s \in Sinks : s < NumSinks + 1
      BY MultiAssumption
    <3> QED
      BY <3>1, Zenon DEF MultiInv, Complete, NilWriteIsComplete
  <2> QED
    BY Zenon, <2>1, <2>2
<1> QED
  BY <1>1, MultiInvHolds, PTL
=============================================================================
