---------------------- MODULE BufferedWriteSyncerProofs ----------------------
(***************************************************************************)
(* Proofs about BufferedWriteSyncer for every set of goroutines and        *)
(* entries and every buffer size.                                          *)
(***************************************************************************)
EXTENDS BufferedWriteSyncer, TLAPS

\* Facts about sequences.
\* The empty sequence is the one of length zero.
LEMMA EmptySeq ==
  ASSUME NEW S
  PROVE  << >> \in Seq(S) /\ Len(<< >>) = 0 /\ \A s \in Seq(S) : s # << >> => Len(s) \in Nat \ {0}
  OBVIOUS

\* A sequence is a function on 1..Len.
LEMMA LenProperties ==
  ASSUME NEW S, NEW s \in Seq(S)
  PROVE  Len(s) \in Nat /\ s \in [1..Len(s) -> S] /\ DOMAIN s = 1..Len(s)
  OBVIOUS

\* The elements of a sequence over S are in S.
LEMMA ElementOfSeq ==
  ASSUME NEW S, NEW s \in Seq(S), NEW n \in 1..Len(s)
  PROVE  s[n] \in S
  OBVIOUS

\* Sequences are equal if their elements are.
LEMMA SeqEqual ==
  ASSUME NEW S, NEW s \in Seq(S), NEW t \in Seq(S), Len(s) = Len(t), \A k \in 1..Len(s) : s[k] = t[k]
  PROVE  s = t
  OBVIOUS

\* What s \o t holds: first the elements of s, then those of t.
LEMMA ConcatProperties ==
  ASSUME NEW S, NEW s \in Seq(S), NEW t \in Seq(S)
  PROVE  /\ s \o t \in Seq(S) /\ Len(s \o t) = Len(s) + Len(t)
         /\ \A k \in 1..Len(s) + Len(t) :
              (s \o t)[k] = IF k <= Len(s) THEN s[k] ELSE t[k - Len(s)]
  OBVIOUS

\* The empty sequence is neutral.
LEMMA ConcatEmptySeq ==
  ASSUME NEW S, NEW s \in Seq(S)
  PROVE  s \o << >> = s /\ << >> \o s = s
  OBVIOUS

\* Concatenation is associative.
LEMMA ConcatAssociative ==
  ASSUME NEW S, NEW s \in Seq(S), NEW t \in Seq(S), NEW u \in Seq(S)
  PROVE  (s \o t) \o u = s \o (t \o u)
  OBVIOUS

\* What SubSeq holds: the elements m to n.
LEMMA SubSeqProperties ==
  ASSUME NEW S, NEW s, NEW m \in Int, NEW n \in Int, \A k \in m..n : s[k] \in S
  PROVE  /\ SubSeq(s, m, n) \in Seq(S)
         /\ Len(SubSeq(s, m, n)) = IF m <= n THEN n - m + 1 ELSE 0
         /\ \A k \in 1..n - m + 1 : SubSeq(s, m, n)[k] = s[m + k - 1]
  OBVIOUS

\* An empty range gives the empty sequence.
LEMMA SubSeqEmpty ==
  ASSUME NEW s, NEW m \in Int, NEW n \in Int, n < m
  PROVE  SubSeq(s, m, n) = << >>
  OBVIOUS

\* The whole range gives the whole sequence.
LEMMA SubSeqFull ==
  ASSUME NEW S, NEW s \in Seq(S)
  PROVE  SubSeq(s, 1, Len(s)) = s
  OBVIOUS

\* The capacity that initialize chooses is positive.
LEMMA CapacityPositive == Capacity \in Nat \ {0}
  BY SizeAssumption, Zenon DEF Capacity

\* Cutting a sequence at n and putting the parts together gives it back.
LEMMA TakeDrop ==
  ASSUME NEW S, NEW s \in Seq(S), NEW n \in 0..Len(s)
  PROVE  /\ Take(s, n) \in Seq(S) /\ Len(Take(s, n)) = n
         /\ Drop(s, n) \in Seq(S) /\ Len(Drop(s, n)) = Len(s) - n
         /\ Take(s, n) \o Drop(s, n) = s
  <1>1. Take(s, n) \in Seq(S) /\ Len(Take(s, n)) = n
    BY SubSeqProperties, LenProperties DEF Take
  <1>2. Drop(s, n) \in Seq(S) /\ Len(Drop(s, n)) = Len(s) - n
    BY SubSeqProperties, LenProperties DEF Drop
  <1>3. Take(s, n) \o Drop(s, n) = s
    <2>1. Take(s, n) \o Drop(s, n) \in Seq(S) /\ Len(Take(s, n) \o Drop(s, n)) = Len(s)
      BY <1>1, <1>2, ConcatProperties, LenProperties, SMTT(30)
    <2>2. ASSUME NEW k \in 1..Len(s) PROVE (Take(s, n) \o Drop(s, n))[k] = s[k]
      <3>1. CASE k <= n
        BY <1>1, <1>2, <3>1, ConcatProperties, LenProperties DEF Take
      <3>2. CASE k > n
        BY <1>1, <1>2, <3>2, ConcatProperties, LenProperties DEF Drop
      <3>3. k <= n \/ k > n
        OBVIOUS
      <3> QED BY <3>1, <3>2, <3>3, Zenon
    <2> QED
      BY <2>1, <2>2, SeqEqual, Zenon
  <1> QED
    BY Zenon, <1>1, <1>2, <1>3

\* Taking all of a sequence gives it back, dropping all of it leaves nothing.
LEMMA TakeAll ==
  ASSUME NEW S, NEW s \in Seq(S)
  PROVE  Take(s, Len(s)) = s /\ Drop(s, Len(s)) = << >>
  BY SubSeqFull, SubSeqEmpty, LenProperties DEF Take, Drop

\* The bytes of an entry are a sequence of bytes.
LEMMA BytesType ==
  ASSUME NEW m \in Msgs
  PROVE  Bytes(m) \in Seq(Byte) /\ Len(Bytes(m)) = MsgLen[m]
  BY MsgsAssumption DEF Bytes, Byte
-----------------------------------------------------------------------------
\* What bufio.Flush does: bytes move from the front of the buffer to the end of
\* the sink.
LEMMA FlushType ==
  ASSUME TypeOK, NEW o \in Outcomes(Len(buf)), Flush(o)
  PROVE  /\ buf' \in Seq(Byte) /\ sink' \in Seq(Byte) /\ werr' \in BOOLEAN
         /\ Len(buf') <= Len(buf)
         /\ Len(sink') >= Len(sink)
         /\ sink' \o buf' = sink \o buf
  <1>1. o.n \in 0..Len(buf) /\ o.err \in BOOLEAN
    BY Zenon DEF Outcomes
  <1>2. CASE werr \/ buf = << >>
    BY <1>2 DEF Flush, TypeOK
  <1>3. CASE ~(werr \/ buf = << >>)
    <2>1. Take(buf, o.n) \in Seq(Byte) /\ Len(Take(buf, o.n)) = o.n
      BY <1>1, TakeDrop, ZenonT(60) DEF TypeOK
    <2>2. Drop(buf, o.n) \in Seq(Byte) /\ Len(Drop(buf, o.n)) = Len(buf) - o.n
          /\ Take(buf, o.n) \o Drop(buf, o.n) = buf
      BY <1>1, TakeDrop, ZenonT(60) DEF TypeOK
    <2>3. sink' = sink \o Take(buf, o.n) /\ buf' = Drop(buf, o.n)
      BY <1>3, Zenon DEF Flush
    <2>4. werr' \in BOOLEAN
      BY <1>1, <1>3, Zenon DEF Flush
    <2>5. sink \in Seq(Byte) /\ buf \in Seq(Byte)
      BY Zenon DEF TypeOK
    <2>6. sink' \in Seq(Byte) /\ Len(sink') = Len(sink) + Len(Take(buf, o.n))
      BY Zenon, <2>1, <2>3, <2>5, ConcatProperties
    <2>7. sink' \o buf' = sink \o buf
      <3>1. Take(buf, o.n) \in Seq(Byte) /\ Drop(buf, o.n) \in Seq(Byte)
        BY Zenon, <2>1, <2>2
      <3>2. (sink \o Take(buf, o.n)) \o Drop(buf, o.n)
              = sink \o (Take(buf, o.n) \o Drop(buf, o.n))
        BY <2>5, <3>1, ConcatAssociative, SMTT(30)
      <3> QED
        BY <2>2, <2>3, <3>2, Zenon
    <2> QED
      BY <1>1, <2>1, <2>2, <2>3, <2>4, <2>5, <2>6, <2>7, LenProperties, SMTT(30)
  <1> QED
    BY <1>2, <1>3, Zenon

\* TypeOK in two parts, which the provers treat better one at a time.
ControlOK ==
  /\ initialized \in BOOLEAN /\ stopped \in BOOLEAN
  /\ tickerOn \in BOOLEAN /\ tick \in BOOLEAN
  /\ stopClosed \in BOOLEAN /\ doneClosed \in BOOLEAN
  /\ werr \in BOOLEAN /\ loopErr \in BOOLEAN /\ panicked \in BOOLEAN
  /\ mu \in Actors \cup {Free}
  /\ pc \in [Actors -> Label]
  /\ op \in [Procs -> {"none", "Write", "Sync", "Stop"}]
  /\ ret \in [Procs -> {"none", "ok", "err", "noop"}]

DataOK ==
  /\ buf \in Seq(Byte) /\ sink \in Seq(Byte) /\ accepted \in Seq(Byte)
  /\ synced \in 0..Len(sink)
  /\ Len(buf) <= Capacity
  /\ rest \in [Procs -> Seq(Byte)]
  /\ mark \in [Procs -> Nat]
  /\ issued \subseteq Msgs

\* The type invariant is the types of the control state and those of the data.
LEMMA TypeParts == (TypeOK <=> ControlOK /\ DataOK) /\ (TypeOK' <=> ControlOK' /\ DataOK')
  BY Zenon DEF TypeOK, ControlOK, DataOK

\* Moving a goroutine to a label keeps pc well typed.
LEMMA GotoType ==
  ASSUME ControlOK, NEW a \in Actors, NEW l \in Label, Goto(a, l)
  PROVE  pc' \in [Actors -> Label]
  BY Zenon DEF ControlOK, Goto

\* So does returning from a call.
LEMMA ReturnType ==
  ASSUME ControlOK, DataOK, NEW p \in Procs,
         NEW r \in {"none", "ok", "err", "noop"}, Return(p, r)
  PROVE  /\ mu' \in Actors \cup {Free}
         /\ pc' \in [Actors -> Label]
         /\ ret' \in [Procs -> {"none", "ok", "err", "noop"}]
         /\ rest' \in [Procs -> Seq(Byte)]
  <1>1. "idle" \in Label
    BY Zenon DEF Label
  <1> QED
    BY <1>1, GotoType DEF Return, ControlOK, DataOK, Actors

\* Every step keeps the control state well typed.
LEMMA ControlStep == TypeOK /\ [Next]_vars => ControlOK'
  <1> SUFFICES ASSUME TypeOK, ControlOK, DataOK, [Next]_vars
               PROVE  ControlOK'
    BY Zenon, TypeParts
  <1>l. /\ {"idle", "write", "writing", "room", "put", "sync"} \subseteq Label
        /\ {"syncing", "stop", "stopping", "wait", "select", "ended"} \subseteq Label
    BY Zenon DEF Label
  <1>p. Procs \subseteq Actors /\ Loop \in Actors
    BY Zenon DEF Actors
  <1>1. ASSUME NEW p \in Procs, NEW m \in Msgs, CallWrite(p, m)
        PROVE  ControlOK'
    <2>1. pc' \in [Actors -> Label]
      BY <1>1, <1>l, <1>p, GotoType, Zenon DEF CallWrite, Call
    <2> QED
      BY <1>1, <2>1, ZenonT(30) DEF CallWrite, Call, ControlOK, lifecycle, bufio
  <1>2. ASSUME NEW p \in Procs, CallSync(p)
        PROVE  ControlOK'
    <2>1. pc' \in [Actors -> Label]
      BY <1>2, <1>l, <1>p, GotoType, Zenon DEF CallSync, Call
    <2> QED
      BY <1>2, <2>1, ZenonT(30) DEF CallSync, Call, ControlOK, lifecycle, bufio
  <1>3. ASSUME NEW p \in Procs, CallStop(p)
        PROVE  ControlOK'
    <2>1. pc' \in [Actors -> Label]
      BY <1>3, <1>l, <1>p, GotoType, Zenon DEF CallStop, Call
    <2> QED
      BY <1>3, <2>1, ZenonT(30) DEF CallStop, Call, ControlOK, lifecycle, bufio
  <1>4. ASSUME NEW a \in Actors, Lock(a)
        PROVE  ControlOK'
    <2>1. pc' \in [Actors -> Label]
      BY <1>4, <1>l, GotoType, Zenon DEF Lock
    <2> QED
      BY <1>4, <2>1, Zenon DEF Lock, ControlOK, lifecycle, bufio, call, history
  <1>5. ASSUME NEW p \in Procs, Initialize(p)
        PROVE  ControlOK'
    <2>1. CASE initialized
      <3>1. pc' \in [Actors -> Label]
        BY <1>5, <2>1, <1>l, <1>p, GotoType, Zenon DEF Initialize
      <3> QED
        BY <1>5, <2>1, <3>1, Zenon DEF Initialize, ControlOK, lifecycle, bufio, call, history
    <2>2. CASE ~initialized
      <3>1. pc' = [pc EXCEPT ![p] = "room", ![Loop] = "select"]
        BY <1>5, <2>2, Zenon DEF Initialize
      <3>2. pc' \in [Actors -> Label]
        BY <3>1, <1>l, <1>p, Zenon DEF ControlOK
      <3> QED
        BY <1>5, <2>2, <3>2, Zenon DEF Initialize, ControlOK, call, history
    <2> QED
      BY Zenon, <2>1, <2>2
  <1>6. ASSUME NEW p \in Procs, MakeRoom(p)
        PROVE  ControlOK'
    <2>1. /\ werr' \in BOOLEAN
          /\ \/ Return(p, "err")
             \/ Goto(p, "put") /\ UNCHANGED <<mu, ret>>
      BY <1>6, FlushType, Zenon DEF MakeRoom, bufio, ControlOK
    <2>2. pc' \in [Actors -> Label] /\ mu' \in Actors \cup {Free}
          /\ ret' \in [Procs -> {"none", "ok", "err", "noop"}]
      BY <2>1, <1>l, <1>p, GotoType, ReturnType, Zenon DEF ControlOK
    <2> QED
      BY <1>6, <2>1, <2>2, Zenon DEF MakeRoom, ControlOK, lifecycle, history
  <1>7. ASSUME NEW p \in Procs, Spill(p)
        PROVE  ControlOK'
    <2>1. werr' \in BOOLEAN
      BY <1>7, Zenon DEF Spill, Outcomes
    <2> QED
      BY <1>7, <2>1, Zenon DEF Spill, ControlOK, lifecycle
  <1>8. ASSUME NEW p \in Procs, Put(p)
        PROVE  ControlOK'
    <2>1. Return(p, "err") \/ Return(p, "ok")
      BY <1>8, Zenon DEF Put
    <2> QED
      BY <1>8, <2>1, ReturnType DEF Put, ControlOK, lifecycle
  <1>9. ASSUME NEW a \in Actors, Sync(a)
        PROVE  ControlOK'
    <2>1. werr' \in BOOLEAN
      BY <1>9, FlushType, Zenon DEF Sync, bufio, ControlOK
    <2>2. CASE a = Loop
      <3>1. /\ mu' = Free /\ Goto(Loop, "select") /\ ret' = ret
            /\ loopErr' \in BOOLEAN
        BY <1>9, <2>2, Zenon DEF Sync
      <3>2. pc' \in [Actors -> Label]
        BY Zenon, <3>1, <1>l, <1>p, GotoType
      <3> QED
        BY <1>9, <2>1, <3>1, <3>2, Zenon DEF Sync, ControlOK, lifecycle
    <2>3. CASE a # Loop
      <3>1. a \in Procs
        BY <2>3, Zenon DEF Actors
      <3>2. (Return(a, "err") \/ Return(a, "ok")) /\ loopErr' = loopErr
        BY <1>9, <2>3, Zenon DEF Sync
      <3> QED
        BY <1>9, <2>1, <3>1, <3>2, ReturnType, ZenonT(30) DEF Sync, ControlOK, lifecycle
    <2> QED
      BY Zenon, <2>2, <2>3
  <1>10. ASSUME NEW p \in Procs, StopCritical(p)
         PROVE  ControlOK'
    <2>1. CASE NothingToStop
      BY <1>10, <2>1, ReturnType DEF StopCritical, ControlOK, lifecycle, bufio
    <2>2. CASE ~NothingToStop
      <3>1. pc' \in [Actors -> Label]
        BY <1>10, <2>2, <1>l, <1>p, GotoType, Zenon DEF StopCritical
      <3> QED
        BY <1>10, <2>2, <3>1, Zenon DEF StopCritical, ControlOK, bufio
    <2> QED
      BY Zenon, <2>1, <2>2
  <1>11. ASSUME NEW p \in Procs, AwaitDone(p)
         PROVE  ControlOK'
    <2>1. pc' \in [Actors -> Label]
      BY <1>11, <1>l, <1>p, GotoType, Zenon DEF AwaitDone
    <2> QED
      BY <1>11, <2>1, Zenon DEF AwaitDone, ControlOK, lifecycle, bufio, call, history
  <1>12. CASE SelectTick
    <2>1. pc' \in [Actors -> Label]
      BY <1>12, <1>l, <1>p, GotoType, Zenon DEF SelectTick
    <2> QED
      BY <1>12, <2>1, Zenon DEF SelectTick, ControlOK, bufio, call, history
  <1>13. CASE SelectStop
    <2>1. pc' \in [Actors -> Label]
      BY <1>13, <1>l, <1>p, GotoType, Zenon DEF SelectStop
    <2> QED
      BY <1>13, <2>1, Zenon DEF SelectStop, ControlOK, bufio, call
  <1>14. CASE Tick
    BY <1>14, Zenon DEF Tick, ControlOK, bufio, call, history
  <1>15. CASE UNCHANGED vars
    BY <1>15, ZenonT(30) DEF vars, ControlOK, lifecycle, bufio, call, history
  <1> QED
    BY Zenon, <1>1, <1>2, <1>3, <1>4, <1>5, <1>6, <1>7, <1>8, <1>9, <1>10, <1>11,
       <1>12, <1>13, <1>14, <1>15 DEF Next, Step

\* One iteration of bufio.Write's loop moves the bytes it takes from its input
\* through the buffer towards the sink, in order.
LEMMA SpillEffect ==
  ASSUME TypeOK, NEW p \in Procs, Spill(p)
  PROVE  /\ buf' \in Seq(Byte) /\ sink' \in Seq(Byte) /\ accepted' \in Seq(Byte)
         /\ rest' \in [Procs -> Seq(Byte)]
         /\ Len(buf') <= Capacity
         /\ Len(sink') >= Len(sink)
         /\ Len(accepted') >= Len(accepted)
         /\ sink \o buf = accepted => sink' \o buf' = accepted'
         /\ buf = << >> => \E n \in 0..Len(rest[p]) :
              /\ n < Len(rest[p]) => werr'
              /\ buf' = << >>
              /\ sink' = sink \o Take(rest[p], n)
              /\ accepted' = accepted \o Take(rest[p], n)
              /\ rest' = [rest EXCEPT ![p] = Drop(@, n)]
  <1> DEFINE fill == Take(rest[p], Available)
             out == IF buf = << >> THEN rest[p] ELSE buf \o fill
  <1>0. /\ buf \in Seq(Byte) /\ sink \in Seq(Byte) /\ accepted \in Seq(Byte)
        /\ rest[p] \in Seq(Byte) /\ rest \in [Procs -> Seq(Byte)]
        /\ Len(rest[p]) \in Nat /\ Len(buf) \in Nat /\ Len(buf) <= Capacity
    BY LenProperties, Zenon DEF TypeOK
  <1>1. Available \in 0..Len(rest[p]) /\ Len(buf) + Available = Capacity
    BY <1>0, CapacityPositive DEF Spill, Available
  <1>2. fill \in Seq(Byte) /\ Len(fill) = Available
    BY Zenon, <1>0, <1>1, TakeDrop
  <1>3. buf \o fill \in Seq(Byte) /\ Len(buf \o fill) = Len(buf) + Len(fill)
    BY Zenon, <1>0, <1>2, ConcatProperties
  <1>4. PICK o \in Outcomes(Len(out)) :
          LET taken == IF buf = << >> THEN o.n ELSE Len(fill)
          IN /\ sink' = sink \o Take(out, o.n)
             /\ buf' = IF buf = << >> THEN buf ELSE Drop(out, o.n)
             /\ werr' = o.err
             /\ accepted' = accepted \o Take(rest[p], taken)
             /\ rest' = [rest EXCEPT ![p] = Drop(@, taken)]
    BY Zenon DEF Spill
  <1>5. o.n \in 0..Len(out) /\ (o.n < Len(out) => o.err)
    BY Zenon DEF Outcomes
  <1>6. CASE buf = << >>
    <2>1. /\ sink' = sink \o Take(rest[p], o.n)
          /\ buf' = << >>
          /\ accepted' = accepted \o Take(rest[p], o.n)
          /\ rest' = [rest EXCEPT ![p] = Drop(@, o.n)]
          /\ o.n \in 0..Len(rest[p])
      BY Zenon, <1>4, <1>5, <1>6
    <2>2. o.n < Len(rest[p]) => werr'
      BY Zenon, <1>4, <1>5, <1>6
    <2> DEFINE t == Take(rest[p], o.n)
    <2>3. t \in Seq(Byte) /\ Len(t) \in Nat /\ Drop(rest[p], o.n) \in Seq(Byte)
      BY SMTT(30), <1>0, <2>1, TakeDrop
    <2>4. /\ sink \o t \in Seq(Byte) /\ Len(sink \o t) = Len(sink) + Len(t)
          /\ accepted \o t \in Seq(Byte)
          /\ Len(accepted \o t) = Len(accepted) + Len(t)
      BY Zenon, <1>0, <2>3, ConcatProperties
    <2>5. sink \o buf = sink /\ (sink \o t) \o << >> = sink \o t
      BY Zenon, <1>0, <1>6, <2>4, ConcatEmptySeq
    <2>6. rest' \in [Procs -> Seq(Byte)]
      BY Zenon, <1>0, <2>1, <2>3
    <2>7. Len(sink) \in Nat /\ Len(accepted) \in Nat /\ << >> \in Seq(Byte)
          /\ Len(buf') <= Capacity
      BY Zenon, <1>0, <1>6, <2>1, LenProperties, EmptySeq
    <2>8. Len(sink') >= Len(sink) /\ Len(accepted') >= Len(accepted)
      BY <2>1, <2>3, <2>4, <2>7
    <2>9. sink \o buf = accepted => sink' \o buf' = accepted'
      BY Zenon, <2>1, <2>5
    <2> HIDE DEF t, fill, out
    <2> QED
      BY <2>1, <2>2, <2>4, <2>6, <2>7, <2>8, <2>9, Zenon DEF t
  <1>7. CASE buf # << >>
    <2>1. /\ sink' = sink \o Take(buf \o fill, o.n)
          /\ buf' = Drop(buf \o fill, o.n)
          /\ accepted' = accepted \o Take(rest[p], Len(fill))
          /\ rest' = [rest EXCEPT ![p] = Drop(@, Len(fill))]
          /\ o.n \in 0..Len(buf \o fill)
      BY Zenon, <1>4, <1>5, <1>7
    <2>2. Take(rest[p], Len(fill)) = fill
      BY Zenon, <1>2
    <2> HIDE DEF fill, out
    <2> DEFINE both == buf \o fill
    <2>3. /\ Take(both, o.n) \in Seq(Byte) /\ Len(Take(both, o.n)) = o.n
          /\ Drop(both, o.n) \in Seq(Byte) /\ Len(Drop(both, o.n)) = Len(both) - o.n
          /\ Take(both, o.n) \o Drop(both, o.n) = both
      BY Zenon, <1>3, <2>1, TakeDrop
    <2>4. Drop(rest[p], Len(fill)) \in Seq(Byte)
      BY Zenon, <1>0, <1>1, <1>2, TakeDrop
    <2>5. /\ sink' \in Seq(Byte) /\ Len(sink') = Len(sink) + Len(Take(both, o.n))
      <3>1. sink \in Seq(Byte) /\ Take(both, o.n) \in Seq(Byte)
        BY Zenon, <1>0, <2>3
      <3>2. sink' = sink \o Take(both, o.n)
        BY Zenon, <2>1
      <3> QED
        BY Zenon, <3>1, <3>2, ConcatProperties
    <2>6. /\ accepted' \in Seq(Byte) /\ Len(accepted') = Len(accepted) + Len(fill)
      BY Zenon, <1>0, <1>2, <2>1, <2>2, ConcatProperties
    <2>7. rest' \in [Procs -> Seq(Byte)]
      BY Zenon, <1>0, <2>1, <2>4
    <2>8. buf' \in Seq(Byte) /\ Len(buf') <= Capacity
      BY <1>0, <1>1, <1>2, <1>3, <2>1, <2>3, SMTT(30)
    <2>9. sink' \o buf' = sink \o both
      <3>1. /\ sink \in Seq(Byte)
            /\ Take(both, o.n) \in Seq(Byte) /\ Drop(both, o.n) \in Seq(Byte)
        BY Zenon, <1>0, <2>3
      <3> HIDE DEF both
      <3>2. (sink \o Take(both, o.n)) \o Drop(both, o.n)
              = sink \o (Take(both, o.n) \o Drop(both, o.n))
        BY SMTT(30), <3>1, ConcatAssociative
      <3>3. sink' = sink \o Take(both, o.n) /\ buf' = Drop(both, o.n)
        BY <2>1, Zenon DEF both
      <3> QED
        BY Zenon, <2>3, <3>2, <3>3
    <2>10. sink \o both = (sink \o buf) \o fill
      <3>1. sink \in Seq(Byte) /\ buf \in Seq(Byte) /\ fill \in Seq(Byte)
        BY Zenon, <1>0, <1>2
      <3> QED
        BY SMTT(30), <3>1, ConcatAssociative
    <2>11. sink \o buf = accepted => sink' \o buf' = accepted'
      <3>1. accepted' = accepted \o fill
        BY Zenon, <2>1, <2>2
      <3> QED
        BY Zenon, <2>9, <2>10, <3>1
    <2>12. Len(sink') >= Len(sink) /\ Len(accepted') >= Len(accepted)
      <3>1. /\ Len(sink) \in Nat /\ Len(accepted) \in Nat /\ Len(fill) \in Nat
            /\ o.n \in Nat
        BY <1>0, <1>1, <1>2, <2>1, LenProperties
      <3> QED
        BY SMTT(30), <2>3, <2>5, <2>6, <3>1
    <2> QED
      BY Zenon, <1>7, <2>5, <2>6, <2>7, <2>8, <2>11, <2>12
  <1> QED
    BY Zenon, <1>6, <1>7

\* The end of bufio.Write appends the input to the buffer or leaves all alone.
LEMMA PutEffect ==
  ASSUME TypeOK, NEW p \in Procs, Put(p)
  PROVE  /\ buf' \in Seq(Byte) /\ accepted' \in Seq(Byte)
         /\ Len(buf') <= Capacity
         /\ Len(accepted') >= Len(accepted)
         /\ sink \o buf = accepted => sink \o buf' = accepted'
  <1>0. /\ buf \in Seq(Byte) /\ sink \in Seq(Byte) /\ accepted \in Seq(Byte)
        /\ rest[p] \in Seq(Byte) /\ Len(buf) <= Capacity
        /\ Len(rest[p]) \in Nat /\ Len(buf) \in Nat /\ Len(accepted) \in Nat
    BY LenProperties, Zenon DEF TypeOK
  <1>1. CASE werr
    BY <1>0, <1>1 DEF Put
  <1>2. CASE ~werr
    <2>1. /\ buf' = buf \o rest[p] /\ accepted' = accepted \o rest[p]
          /\ Len(rest[p]) <= Capacity - Len(buf)
      BY <1>2, Zenon DEF Put, Available
    <2>2. /\ buf' \in Seq(Byte) /\ Len(buf') = Len(buf) + Len(rest[p])
          /\ accepted' \in Seq(Byte)
          /\ Len(accepted') = Len(accepted) + Len(rest[p])
      BY Zenon, <1>0, <2>1, ConcatProperties
    <2>3. sink \o (buf \o rest[p]) = (sink \o buf) \o rest[p]
      <3> DEFINE r == rest[p]
      <3>1. sink \in Seq(Byte) /\ buf \in Seq(Byte) /\ r \in Seq(Byte)
        BY Zenon, <1>0
      <3> HIDE DEF r
      <3>2. sink \o (buf \o r) = (sink \o buf) \o r
        BY SMTT(30), <3>1, ConcatAssociative
      <3> QED
        BY <3>2, Zenon DEF r
    <2>4. sink \o buf = accepted => sink \o buf' = accepted'
      BY Zenon, <2>1, <2>3
    <2>5. Len(buf') <= Capacity /\ Len(accepted') >= Len(accepted)
      BY <1>0, <2>1, <2>2, CapacityPositive
    <2> QED
      BY Zenon, <2>2, <2>4, <2>5
  <1> QED
    BY Zenon, <1>1, <1>2

\* Every step keeps the data well typed, and the histories only grow.
LEMMA DataStep ==
  TypeOK /\ [Next]_vars =>
    DataOK' /\ synced' >= synced /\ Len(accepted') >= Len(accepted)
  <1> DEFINE Goal == DataOK' /\ synced' >= synced /\ Len(accepted') >= Len(accepted)
  <1> SUFFICES ASSUME TypeOK, ControlOK, DataOK, [Next]_vars
               PROVE  Goal
    BY Zenon, TypeParts
  <1>0. Len(sink) \in Nat /\ Len(accepted) \in Nat /\ synced \in Nat
        /\ Len(buf) \in Nat /\ << >> \in Seq(Byte) /\ Len(<< >>) = 0
    BY LenProperties, EmptySeq DEF DataOK
  <1>s. ASSUME buf' = buf, sink' = sink, accepted' = accepted, synced' = synced,
               rest' \in [Procs -> Seq(Byte)], mark' \in [Procs -> Nat],
               issued' \subseteq Msgs
        PROVE  Goal
    BY <1>s, <1>0 DEF DataOK
  <1>1. ASSUME NEW p \in Procs, NEW m \in Msgs, CallWrite(p, m)
        PROVE  Goal
    <2>1. rest' \in [Procs -> Seq(Byte)]
      BY <1>1, BytesType, Zenon DEF CallWrite, DataOK
    <2>2. mark' \in [Procs -> Nat] /\ issued' \subseteq Msgs
      BY <1>0, <1>1, Zenon DEF CallWrite, Call, DataOK
    <2> QED
      BY <1>1, <1>s, <2>1, <2>2, Zenon DEF CallWrite, Call, bufio, ws
  <1>2. ASSUME NEW p \in Procs, CallSync(p) \/ CallStop(p)
        PROVE  Goal
    <2>1. mark' \in [Procs -> Nat] /\ issued' \subseteq Msgs
          /\ rest' \in [Procs -> Seq(Byte)]
      BY <1>0, <1>2, Zenon DEF CallSync, CallStop, Call, DataOK
    <2> QED
      BY <1>2, <1>s, <2>1, Zenon DEF CallSync, CallStop, Call, bufio, ws
  <1>3. ASSUME NEW a \in Actors, Lock(a)
        PROVE  Goal
    BY <1>3, <1>s, Zenon DEF Lock, DataOK, bufio, ws, call, history
  <1>4. ASSUME NEW p \in Procs, Initialize(p)
        PROVE  Goal
    <2>1. /\ sink' = sink /\ accepted' = accepted /\ synced' = synced
          /\ rest' = rest /\ mark' = mark /\ issued' = issued
      BY <1>4, Zenon DEF Initialize, bufio, ws, call, history
    <2>2. buf' = buf \/ buf' = << >>
      BY <1>4, Zenon DEF Initialize, bufio
    <2>3. buf' \in Seq(Byte)
      BY <1>0, <2>2, Zenon DEF DataOK
    <2>4. Len(buf') <= Capacity
      <3>1. Len(buf') = Len(buf) \/ Len(buf') = 0
        BY Zenon, <1>0, <2>2
      <3> QED
        BY <3>1, CapacityPositive DEF DataOK
    <2> QED
      BY <1>0, <2>1, <2>3, <2>4 DEF DataOK
  <1>5. ASSUME NEW p \in Procs, MakeRoom(p)
        PROVE  Goal
    <2>1. /\ buf' \in Seq(Byte) /\ sink' \in Seq(Byte)
          /\ Len(buf') <= Len(buf) /\ Len(sink') >= Len(sink)
      BY <1>0, <1>5, FlushType DEF MakeRoom, bufio, DataOK
    <2>2. accepted' = accepted /\ synced' = synced /\ mark' = mark
          /\ issued' = issued
      BY <1>5, Zenon DEF MakeRoom, history
    <2>3. rest' \in [Procs -> Seq(Byte)]
      BY <1>0, <1>5, Zenon DEF MakeRoom, Return, DataOK
    <2>4. Len(buf') <= Capacity /\ synced' \in 0..Len(sink')
      BY <1>0, <2>1, <2>2, LenProperties, CapacityPositive DEF DataOK
    <2> QED
      BY <1>0, <2>1, <2>2, <2>3, <2>4 DEF DataOK
  <1>6. ASSUME NEW p \in Procs, Spill(p)
        PROVE  Goal
    <2>1. synced' = synced /\ mark' = mark /\ issued' = issued
      BY <1>6, Zenon DEF Spill
    <2>2. Len(sink') \in Nat /\ synced' \in 0..Len(sink')
      BY <1>0, <1>6, <2>1, SpillEffect, LenProperties DEF DataOK
    <2> QED
      BY <1>0, <1>6, <2>1, <2>2, SpillEffect, SMTT(30) DEF DataOK
  <1>7. ASSUME NEW p \in Procs, Put(p)
        PROVE  Goal
    <2>1. sink' = sink /\ synced' = synced /\ mark' = mark /\ issued' = issued
      BY <1>7, Zenon DEF Put, ws
    <2>2. rest' \in [Procs -> Seq(Byte)]
      BY <1>0, <1>7, Zenon DEF Put, Return, DataOK
    <2> QED
      BY <1>0, <1>7, <2>1, <2>2, PutEffect DEF DataOK
  <1>8. ASSUME NEW a \in Actors, Sync(a)
        PROVE  Goal
    <2>1. /\ buf' \in Seq(Byte) /\ sink' \in Seq(Byte)
          /\ Len(buf') <= Len(buf) /\ Len(sink') >= Len(sink)
      BY <1>0, <1>8, FlushType DEF Sync, bufio, DataOK
    <2>2. accepted' = accepted /\ mark' = mark /\ issued' = issued
          /\ synced' \in {synced, Len(sink')}
      BY <1>8, Zenon DEF Sync
    <2>3. rest' \in [Procs -> Seq(Byte)]
      <3>1. rest' = rest \/ (a \in Procs /\ rest' = [rest EXCEPT ![a] = << >>])
        BY <1>8, Zenon DEF Sync, Return, Actors
      <3> QED
        BY <1>0, <3>1, Zenon DEF DataOK
    <2>4. Len(sink') \in Nat /\ Len(buf') \in Nat
      BY Zenon, <2>1, LenProperties
    <2>5. Len(buf') <= Capacity /\ synced' \in 0..Len(sink') /\ synced' >= synced
      BY <1>0, <2>1, <2>2, <2>4, CapacityPositive DEF DataOK
    <2> QED
      BY <1>0, <2>1, <2>2, <2>3, <2>5 DEF DataOK
  <1>9. ASSUME NEW p \in Procs, StopCritical(p) \/ AwaitDone(p)
        PROVE  Goal
    <2>1. rest' \in [Procs -> Seq(Byte)]
      BY <1>0, <1>9, Zenon DEF StopCritical, AwaitDone, Return, call, DataOK
    <2> QED
      BY <1>9, <1>s, <2>1, Zenon DEF StopCritical, AwaitDone, bufio, ws, call, history, DataOK
  <1>10. CASE SelectTick \/ SelectStop \/ Tick
    BY <1>10, <1>s, Zenon DEF SelectTick, SelectStop, Tick, bufio, ws, call, history, DataOK
  <1>11. CASE UNCHANGED vars
    BY <1>11, <1>s, Zenon DEF vars, bufio, ws, call, history, DataOK
  <1> QED
    BY Zenon, <1>1, <1>2, <1>3, <1>4, <1>5, <1>6, <1>7, <1>8, <1>9, <1>10, <1>11
    DEF Next, Step

\* The variables keep their types and bufio's buffer never exceeds the size
\* that initialize gave it.
THEOREM TypeCorrect == Spec => []TypeOK
  <1>1. Init => TypeOK
    <2> SUFFICES ASSUME Init PROVE ControlOK /\ DataOK
      BY Zenon, TypeParts
    <2>1. << >> \in Seq(Byte) /\ Len(<< >>) = 0
      BY Zenon, EmptySeq
    <2>2. ControlOK
      BY Zenon DEF Init, ControlOK, Actors, Label
    <2>3. DataOK
      BY <2>1, CapacityPositive DEF Init, DataOK
    <2> QED
      BY Zenon, <2>2, <2>3
  <1>2. TypeOK /\ [Next]_vars => TypeOK'
    BY Zenon, ControlStep, DataStep, TypeParts
  <1> QED
    BY <1>1, <1>2, PTL DEF Spec
-----------------------------------------------------------------------------
\* The control part of the inductive invariant: who holds the mutex, how far
\* the flush loop is, and what a call in progress implies about both.
Holding == {"writing", "room", "put", "syncing", "stopping"}

Mutex == \A a \in Actors : pc[a] \in Holding <=> mu = a

Lifecycle ==
  /\ pc[Loop] \in {"none", "select", "sync", "syncing", "ended"}
  /\ initialized <=> pc[Loop] # "none"
  /\ stopped => initialized
  /\ stopClosed <=> stopped
  /\ doneClosed <=> pc[Loop] = "ended"
  /\ pc[Loop] = "ended" => stopped
  /\ tickerOn => ~stopped
  /\ ~panicked

Calls ==
  \A p \in Procs :
    /\ pc[p] \notin {"none", "select", "ended"}
    /\ pc[p] \in {"stop", "stopping", "wait"} => op[p] = "Stop"
    /\ pc[p] \in {"write", "writing", "room", "put"} => op[p] = "Write"
    /\ pc[p] # "idle" => ret[p] = "none"
    /\ pc[p] \in {"room", "put"} => initialized
    /\ op[p] = "Stop" /\ (pc[p] \in {"sync", "syncing"} \/ ret[p] \in {"ok", "err"})
         => pc[Loop] = "ended"

CInv == Mutex /\ Lifecycle /\ Calls
\* Unlocking: the holder moves to a label outside of the critical sections.
LEMMA ReleaseMutex ==
  ASSUME ControlOK, Mutex, NEW a \in Actors, pc[a] \in Holding,
         NEW l \in Label \ Holding, Goto(a, l), mu' = Free
  PROVE  Mutex'
  <1>1. mu = a /\ Free \notin Actors
    BY ProcsAssumption, Zenon DEF Mutex, Actors, Free, Loop
  <1>2. \A b \in Actors : b # a => pc[b] \notin Holding /\ pc'[b] = pc[b]
    BY <1>1, Zenon DEF Mutex, Goto, ControlOK
  <1>3. pc'[a] \notin Holding
    BY Zenon DEF Goto, ControlOK
  <1> QED
    BY <1>1, <1>2, <1>3, Zenon DEF Mutex

\* Moving within or outside of the critical sections leaves the mutex alone.
LEMMA KeepMutex ==
  ASSUME ControlOK, Mutex, NEW a \in Actors, NEW l \in Label, Goto(a, l),
         pc[a] \in Holding <=> l \in Holding, mu' = mu
  PROVE  Mutex'
  BY ZenonT(60) DEF Mutex, Goto, ControlOK

\* Every step preserves the control part.
LEMMA CInvStep == TypeOK /\ CInv /\ [Next]_vars => CInv'
  <1> SUFFICES ASSUME TypeOK, ControlOK, Mutex, Lifecycle, Calls, [Next]_vars
               PROVE  Mutex' /\ Lifecycle' /\ Calls'
    BY TypeParts, Zenon DEF CInv
  <1> USE ProcsAssumption DEF ControlOK, Actors, Holding
  <1>1. ASSUME NEW p \in Procs, NEW m \in Msgs, CallWrite(p, m)
        PROVE  Mutex' /\ Lifecycle' /\ Calls'
    <2>1. Mutex'
      BY <1>1, Zenon DEF Mutex, Lifecycle, Calls, CallWrite, Call, Goto, lifecycle
    <2>2. Lifecycle'
      BY <1>1, Zenon DEF Mutex, Lifecycle, Calls, CallWrite, Call, Goto, lifecycle
    <2>3. Calls'
      BY <1>1 DEF Mutex, Lifecycle, Calls, CallWrite, Call, Goto, lifecycle
    <2> QED
      BY Zenon, <2>1, <2>2, <2>3
  <1>2. ASSUME NEW p \in Procs, CallSync(p)
        PROVE  Mutex' /\ Lifecycle' /\ Calls'
    <2>1. Mutex'
      BY <1>2, Zenon DEF Mutex, Lifecycle, Calls, CallSync, Call, Goto, lifecycle
    <2>2. Lifecycle'
      BY <1>2, Zenon DEF Mutex, Lifecycle, Calls, CallSync, Call, Goto, lifecycle
    <2>3. Calls'
      BY <1>2 DEF Mutex, Lifecycle, Calls, CallSync, Call, Goto, lifecycle
    <2> QED
      BY Zenon, <2>1, <2>2, <2>3
  <1>3. ASSUME NEW p \in Procs, CallStop(p)
        PROVE  Mutex' /\ Lifecycle' /\ Calls'
    <2>1. Mutex'
      BY <1>3, Zenon DEF Mutex, Lifecycle, Calls, CallStop, Call, Goto, lifecycle
    <2>2. Lifecycle'
      BY <1>3, Zenon DEF Mutex, Lifecycle, Calls, CallStop, Call, Goto, lifecycle
    <2>3. Calls'
      BY <1>3, ZenonT(30) DEF Mutex, Lifecycle, Calls, CallStop, Call, Goto, lifecycle
    <2> QED
      BY <2>1, <2>2, <2>3
  <1>4. ASSUME NEW a \in Actors, Lock(a)
        PROVE  Mutex' /\ Lifecycle' /\ Calls'
    <2>1. Mutex'
      <3>1. mu = Free /\ mu' = a /\ Free \notin Actors
        BY <1>4, Zenon DEF Lock, Free, Loop
      <3>2. pc'[a] \in Holding
        BY <1>4, Zenon DEF Lock, Goto
      <3>3. \A b \in Actors : b # a => pc[b] \notin Holding /\ pc'[b] = pc[b]
        BY <1>4, <3>1, Zenon DEF Lock, Goto, Mutex
      <3> QED
        BY <3>1, <3>2, <3>3, Zenon DEF Mutex
    <2>2. Lifecycle'
      BY <1>4, Zenon DEF Mutex, Lifecycle, Calls, Lock, Goto, lifecycle, call, history
    <2>3. Calls'
      BY <1>4 DEF Mutex, Lifecycle, Calls, Lock, Goto, lifecycle, call, history
    <2> QED
      BY Zenon, <2>1, <2>2, <2>3
  <1>5. ASSUME NEW p \in Procs, Initialize(p)
        PROVE  Mutex' /\ Lifecycle' /\ Calls'
    <2>1. Mutex'
      BY <1>5 DEF Mutex, Lifecycle, Calls, Initialize, Goto, lifecycle, call, history
    <2>2. Lifecycle'
      BY <1>5, ZenonT(30) DEF Mutex, Lifecycle, Calls, Initialize, Goto, lifecycle, call, history
    <2>3. Calls'
      BY <1>5 DEF Mutex, Lifecycle, Calls, Initialize, Goto, lifecycle, call, history
    <2> QED
      BY <2>1, <2>2, <2>3
  <1>6. ASSUME NEW p \in Procs, MakeRoom(p)
        PROVE  Mutex' /\ Lifecycle' /\ Calls'
    <2>0. /\ pc[p] = "room" /\ op' = op
          /\ \/ Return(p, "err")
             \/ Goto(p, "put") /\ mu' = mu /\ ret' = ret
      BY <1>6, Zenon DEF MakeRoom
    <2>l. "put" \in Label /\ "put" \in Holding /\ "idle" \in Label \ Holding
      BY Zenon DEF Label
    <2>1. Mutex'
      BY <2>0, <2>l, ReleaseMutex, KeepMutex, Zenon DEF Return
    <2>2. Lifecycle'
      BY <1>6, ZenonT(60) DEF Mutex, Lifecycle, Calls, MakeRoom, Return, Goto, lifecycle, history
    <2>3. Calls'
      BY <2>0, <1>6, ZenonT(60) DEF Lifecycle, Calls, MakeRoom, Return, Goto, lifecycle
    <2> QED
      BY <2>1, <2>2, <2>3
  <1>7. ASSUME NEW p \in Procs, Spill(p)
        PROVE  Mutex' /\ Lifecycle' /\ Calls'
    <2>1. Mutex'
      BY <1>7, Zenon DEF Mutex, Lifecycle, Calls, Spill, lifecycle
    <2>2. Lifecycle'
      BY <1>7, Zenon DEF Mutex, Lifecycle, Calls, Spill, lifecycle
    <2>3. Calls'
      BY <1>7, Zenon DEF Mutex, Lifecycle, Calls, Spill, lifecycle
    <2> QED
      BY <2>1, <2>2, <2>3
  <1>8. ASSUME NEW p \in Procs, Put(p)
        PROVE  Mutex' /\ Lifecycle' /\ Calls'
    <2>0. pc[p] = "put" /\ op' = op /\ (Return(p, "err") \/ Return(p, "ok"))
      BY <1>8, Zenon DEF Put
    <2>l. "idle" \in Label \ Holding
      BY Zenon DEF Label
    <2>1. Mutex'
      BY <2>0, <2>l, ReleaseMutex, Zenon DEF Return
    <2>2. Lifecycle'
      BY <1>8, Zenon DEF Mutex, Lifecycle, Calls, Put, Return, Goto, lifecycle
    <2>3. Calls'
      BY <2>0, <1>8 DEF Lifecycle, Calls, Put, Return, Goto, lifecycle
    <2> QED
      BY <2>1, <2>2, <2>3
  <1>9. ASSUME NEW a \in Actors, Sync(a)
        PROVE  Mutex' /\ Lifecycle' /\ Calls'
    <2>0. /\ pc[a] = "syncing" /\ mu' = Free
          /\ Goto(a, "select") \/ Goto(a, "idle")
      BY <1>9, Zenon DEF Sync, Return
    <2>l. "idle" \in Label \ Holding /\ "select" \in Label \ Holding
      BY Zenon DEF Label
    <2>1. Mutex'
      BY <2>0, <2>l, ReleaseMutex, Zenon
    <2>2. Lifecycle'
      BY <1>9, ZenonT(60) DEF Mutex, Lifecycle, Calls, Sync, Return, Goto, lifecycle
    <2>3. Calls'
      BY <1>9 DEF Mutex, Lifecycle, Calls, Sync, Return, Goto, lifecycle
    <2> QED
      BY <2>1, <2>2, <2>3
  <1>10. ASSUME NEW p \in Procs, StopCritical(p)
        PROVE  Mutex' /\ Lifecycle' /\ Calls'
    <2>0. /\ pc[p] = "stopping" /\ mu' = Free
          /\ Goto(p, "wait") \/ Goto(p, "idle")
      BY <1>10, Zenon DEF StopCritical, Return
    <2>l. "idle" \in Label \ Holding /\ "wait" \in Label \ Holding
      BY Zenon DEF Label
    <2>1. Mutex'
      BY <2>0, <2>l, ReleaseMutex, Zenon
    <2>2. Lifecycle'
      BY <1>10, ZenonT(60) DEF Mutex, Lifecycle, Calls, StopCritical, NothingToStop, Return, Goto, lifecycle
    <2>3. Calls'
      BY <1>10 DEF Mutex, Lifecycle, Calls, StopCritical, NothingToStop, Return, Goto, lifecycle
    <2> QED
      BY <2>1, <2>2, <2>3
  <1>11. ASSUME NEW p \in Procs, AwaitDone(p)
        PROVE  Mutex' /\ Lifecycle' /\ Calls'
    <2>1. Mutex'
      BY <1>11, Zenon DEF Mutex, Lifecycle, Calls, AwaitDone, Goto, lifecycle, call, history
    <2>2. Lifecycle'
      BY <1>11, Zenon DEF Mutex, Lifecycle, Calls, AwaitDone, Goto, lifecycle, call, history
    <2>3. Calls'
      BY <1>11, Zenon DEF Mutex, Lifecycle, Calls, AwaitDone, Goto, lifecycle, call, history
    <2> QED
      BY <2>1, <2>2, <2>3
  <1>12. CASE SelectTick
    <2>1. Mutex'
      BY <1>12, Zenon DEF Mutex, Lifecycle, Calls, SelectTick, Goto, call, history
    <2>2. Lifecycle'
      BY <1>12, ZenonT(60) DEF Mutex, Lifecycle, Calls, SelectTick, Goto, call, history
    <2>3. Calls'
      BY <1>12, Zenon DEF Mutex, Lifecycle, Calls, SelectTick, Goto, call, history
    <2> QED
      BY Zenon, <2>1, <2>2, <2>3
  <1>13. CASE SelectStop
    <2>1. Mutex'
      BY <1>13, Zenon DEF Mutex, Lifecycle, Calls, SelectStop, Goto, call
    <2>2. Lifecycle'
      BY <1>13, Zenon DEF Mutex, Lifecycle, Calls, SelectStop, Goto, call
    <2>3. Calls'
      BY <1>13, Zenon DEF Mutex, Lifecycle, Calls, SelectStop, Goto, call
    <2> QED
      BY <2>1, <2>2, <2>3
  <1>14. CASE Tick
    <2>1. Mutex'
      BY <1>14, Zenon DEF Mutex, Lifecycle, Calls, Tick, call, history
    <2>2. Lifecycle'
      BY <1>14, Zenon DEF Mutex, Lifecycle, Calls, Tick, call, history
    <2>3. Calls'
      BY <1>14, ZenonT(30) DEF Mutex, Lifecycle, Calls, Tick, call, history
    <2> QED
      BY <2>1, <2>2, <2>3
  <1>15. CASE UNCHANGED vars
    <2>1. Mutex'
      BY <1>15, Zenon DEF Mutex, Lifecycle, Calls, vars, lifecycle, call, history
    <2>2. Lifecycle'
      BY <1>15, ZenonT(60) DEF Mutex, Lifecycle, Calls, vars, lifecycle, call, history
    <2>3. Calls'
      BY <1>15, Zenon DEF Mutex, Lifecycle, Calls, vars, lifecycle, call, history
    <2> QED
      BY <2>1, <2>2, <2>3
  <1> QED
    BY Zenon, <1>1, <1>2, <1>3, <1>4, <1>5, <1>6, <1>7, <1>8, <1>9, <1>10, <1>11,
       <1>12, <1>13, <1>14, <1>15 DEF Next, Step

\* The control part holds in every reachable state.
LEMMA ControlInvariant == Spec => []CInv
  <1>1. Init => CInv
    <2> SUFFICES ASSUME Init PROVE CInv
      BY Zenon
    <2>1. Free \notin Actors
      BY ProcsAssumption, Zenon DEF Actors, Free, Loop
    <2>2. \A a \in Actors : pc[a] \in {"none", "idle"} /\ mu # a
      BY <2>1, Zenon DEF Init
    <2>3. Mutex
      BY <2>2, Zenon DEF Mutex, Holding
    <2>4. pc[Loop] = "none" /\ \A p \in Procs : pc[p] = "idle"
      BY ProcsAssumption, Zenon DEF Init, Actors
    <2>5. Lifecycle
      BY <2>4, Zenon DEF Init, Lifecycle
    <2>6. Calls
      BY <2>4, Zenon DEF Init, Calls
    <2> QED
      BY <2>3, <2>5, <2>6, Zenon DEF CInv
  <1> QED
    BY <1>1, CInvStep, TypeCorrect, PTL DEF Spec

\* No interleaving of Write, Sync, Stop and the flush loop closes a channel
\* twice.
THEOREM NoDoubleCloseHolds == Spec => []NoDoubleClose
  <1>1. CInv => NoDoubleClose
    BY Zenon DEF CInv, Lifecycle, NoDoubleClose
  <1> QED
    BY <1>1, ControlInvariant, PTL

\* When the Stop that did the stopping returns, the background goroutine is
\* gone.
THEOREM LoopEndedOnReturnHolds == Spec => []LoopEndedOnReturn
  <1>1. CInv => LoopEndedOnReturn
    BY Zenon DEF CInv, Lifecycle, Calls, LoopEndedOnReturn
  <1> QED
    BY <1>1, ControlInvariant, PTL

-----------------------------------------------------------------------------
\* The bytes of one entry are whole.
LEMMA WholeBytes ==
  ASSUME NEW m \in Msgs
  PROVE  Whole(Bytes(m))
  <1>1. MsgLen[m] \in Nat /\ Len(Bytes(m)) = MsgLen[m] /\ Bytes(m) \in Seq(Byte)
    BY Zenon, MsgsAssumption, BytesType
  <1>2. \A i \in 1..MsgLen[m] : Bytes(m)[i] = <<m, i>>
    BY Zenon DEF Bytes
  <1>3. \A i \in 1 .. Len(Bytes(m)) - 1 : Follows(Bytes(m)[i + 1], Bytes(m)[i])
    BY <1>1, <1>2 DEF Follows
  <1>4. Bytes(m) # << >> => MsgLen[m] >= 1
    BY <1>1, EmptySeq
  <1>5. Bytes(m) # << >> => IsFirst(Bytes(m)[1]) /\ IsLast(Bytes(m)[Len(Bytes(m))])
    BY <1>1, <1>2, <1>4 DEF IsFirst, IsLast
  <1> QED
    BY <1>3, <1>5, Zenon DEF Whole

\* An empty buffer or sink cuts no entry.
LEMMA WholeEmpty == Whole(<< >>)
  BY EmptySeq DEF Whole

\* Appending whole entries to whole entries gives whole entries.
LEMMA WholeConcat ==
  ASSUME NEW s \in Seq(Byte), NEW t \in Seq(Byte), Whole(s), Whole(t)
  PROVE  Whole(s \o t)
  <1>0. Len(s) \in Nat /\ Len(t) \in Nat
    BY Zenon, LenProperties
  <1>1. CASE s = << >>
    <2>1. s \o t = t
      BY Zenon, <1>1, ConcatEmptySeq
    <2> QED
      BY Zenon, <2>1
  <1>2. CASE t = << >>
    <2>1. s \o t = s
      BY Zenon, <1>2, ConcatEmptySeq
    <2> QED
      BY Zenon, <2>1
  <1>3. CASE s # << >> /\ t # << >>
    <2> DEFINE u == s \o t
    <2>1. /\ Len(u) = Len(s) + Len(t)
          /\ \A i \in 1 .. Len(s) + Len(t) :
               u[i] = IF i <= Len(s) THEN s[i] ELSE t[i - Len(s)]
      BY Zenon, ConcatProperties
    <2>2. Len(s) >= 1 /\ Len(t) >= 1
      BY <1>3, EmptySeq
    <2> HIDE DEF u
    <2>3. u[1] = s[1] /\ u[Len(u)] = t[Len(t)]
      BY <1>0, <2>1, <2>2
    <2>4. ASSUME NEW i \in 1 .. Len(u) - 1
          PROVE  Follows(u[i + 1], u[i])
      <3>1. CASE i < Len(s)
        <4>1. u[i] = s[i] /\ u[i + 1] = s[i + 1] /\ i \in 1 .. Len(s) - 1
          BY <1>0, <2>1, <3>1
        <4> QED
          BY <4>1, Zenon DEF Whole
      <3>2. CASE i = Len(s)
        <4>1. u[i] = s[Len(s)] /\ u[i + 1] = t[1]
          BY <1>0, <2>1, <2>2, <3>2
        <4> QED
          BY <1>3, <4>1, Zenon DEF Whole, Follows
      <3>3. CASE i > Len(s)
        <4>1. /\ u[i] = t[i - Len(s)] /\ u[i + 1] = t[(i - Len(s)) + 1]
              /\ i - Len(s) \in 1 .. Len(t) - 1
          BY <1>0, <2>1, <3>3
        <4> QED
          BY <4>1, Zenon DEF Whole
      <3> QED
        BY <1>0, <2>1, <3>1, <3>2, <3>3
    <2>5. Whole(u)
      BY <1>3, <2>3, <2>4, Zenon DEF Whole
    <2> QED
      BY <2>5, Zenon DEF u
  <1> QED
    BY Zenon, <1>1, <1>2, <1>3

\* The data part of the inductive invariant.
Untouched == ~initialized => buf = << >> /\ ~werr

Pending ==
  \A p \in Procs :
    /\ pc[p] \in {"write", "writing", "room"} => \E m \in Msgs : rest[p] = Bytes(m)
    /\ pc[p] = "put" /\ ~werr =>
         /\ rest[p] = << >> \/ \E m \in Msgs : rest[p] = Bytes(m)
         /\ Len(rest[p]) > Available => buf = << >>

Marks == \A p \in Procs : mark[p] <= Len(accepted)

DInv == Untouched /\ Conservation /\ WholeEntries /\ Pending /\ Marks
        /\ FlushedOnReturn

\* A flush that leaves no error has moved everything to the sink.
LEMMA FlushDone ==
  ASSUME TypeOK, NEW o \in Outcomes(Len(buf)), Flush(o), ~werr'
  PROVE  ~werr /\ buf' = << >> /\ sink' = sink \o buf
  <1>0. buf \in Seq(Byte) /\ sink \in Seq(Byte)
    BY Zenon DEF TypeOK
  <1>1. CASE werr \/ buf = << >>
    <2>1. ~werr /\ buf = << >> /\ buf' = buf /\ sink' = sink
      BY <1>1, Zenon DEF Flush
    <2>2. sink \o << >> = sink
      BY Zenon, <1>0, ConcatEmptySeq
    <2> QED
      BY Zenon, <2>1, <2>2
  <1>2. CASE ~(werr \/ buf = << >>)
    <2>1. /\ sink' = sink \o Take(buf, o.n) /\ buf' = Drop(buf, o.n)
          /\ ~o.err /\ ~werr
      BY <1>2, Zenon DEF Flush
    <2>2. o.n = Len(buf)
      BY <1>0, <2>1, LenProperties DEF Outcomes
    <2> QED
      BY Zenon, <1>0, <2>1, <2>2, TakeAll
  <1> QED
    BY Zenon, <1>1, <1>2

\* The other actions leave the buffer, the sink and the histories alone.
LEMMA DataActions ==
  ASSUME [Next]_vars
  PROVE  \/ \E p \in Procs : Initialize(p) \/ MakeRoom(p) \/ Spill(p) \/ Put(p)
         \/ \E a \in Actors : Sync(a)
         \/ UNCHANGED <<initialized, buf, werr, sink, synced, accepted>>
  <1>1. ASSUME NEW p \in Procs,
               CallSync(p) \/ CallStop(p) \/ \E m \in Msgs : CallWrite(p, m)
        PROVE  UNCHANGED <<initialized, buf, werr, sink, synced, accepted>>
    BY <1>1, Zenon DEF CallSync, CallStop, CallWrite, Call, lifecycle, bufio, ws
  <1>2. ASSUME NEW a \in Actors, Lock(a)
        PROVE  UNCHANGED <<initialized, buf, werr, sink, synced, accepted>>
    BY <1>2, Zenon DEF Lock, lifecycle, bufio, ws, history
  <1>3. ASSUME NEW p \in Procs, StopCritical(p) \/ AwaitDone(p)
        PROVE  UNCHANGED <<initialized, buf, werr, sink, synced, accepted>>
    BY <1>3, ZenonT(60) DEF StopCritical, AwaitDone, lifecycle, bufio, ws, history
  <1>4. ASSUME SelectTick \/ SelectStop \/ Tick \/ UNCHANGED vars
        PROVE  UNCHANGED <<initialized, buf, werr, sink, synced, accepted>>
    BY <1>4, Zenon DEF SelectTick, SelectStop, Tick, vars, lifecycle, bufio, ws, history
  <1> QED
    BY <1>1, <1>2, <1>3, <1>4, ZenonT(60) DEF Next, Step

\* Before initialize there is nothing in the buffer.
LEMMA UntouchedStep == TypeOK /\ CInv /\ Untouched /\ [Next]_vars => Untouched'
  <1> SUFFICES ASSUME TypeOK, CInv, Untouched, [Next]_vars, ~initialized'
               PROVE  buf' = << >> /\ ~werr'
    BY Zenon DEF Untouched
  <1>1. ASSUME NEW p \in Procs, Initialize(p)
        PROVE  FALSE
    BY <1>1, Zenon DEF Initialize, lifecycle
  <1>2. ASSUME NEW p \in Procs, MakeRoom(p) \/ Spill(p) \/ Put(p)
        PROVE  FALSE
    <2>1. pc[p] \in {"room", "put"}
      BY <1>2, Zenon DEF MakeRoom, Spill, Put
    <2>2. initialized
      BY <2>1, ZenonT(60) DEF CInv, Calls
    <2>3. initialized' = initialized
      BY <1>2, Zenon DEF MakeRoom, Spill, Put, lifecycle
    <2> QED
      BY Zenon, <2>2, <2>3
  <1>3. ASSUME NEW a \in Actors, Sync(a)
        PROVE  buf' = << >> /\ ~werr'
    BY <1>3, Zenon DEF Sync, MustFlush, Untouched, lifecycle, bufio
  <1> QED
    BY <1>1, <1>2, <1>3, DataActions DEF Untouched

\* No step loses, duplicates or reorders an accepted byte.
LEMMA ConservationStep ==
  TypeOK /\ Untouched /\ Conservation /\ [Next]_vars => Conservation'
  <1> SUFFICES ASSUME TypeOK, Untouched, Conservation, [Next]_vars
               PROVE  Conservation'
    BY Zenon
  <1>1. ASSUME NEW p \in Procs, Initialize(p)
        PROVE  Conservation'
    <2>1. buf' = buf /\ sink' = sink /\ accepted' = accepted
      BY <1>1, Zenon DEF Initialize, Untouched, bufio, ws, history
    <2> QED
      BY <2>1, Zenon DEF Conservation
  <1>2. ASSUME NEW p \in Procs, MakeRoom(p)
        PROVE  Conservation'
    <2>1. accepted' = accepted
      BY <1>2, Zenon DEF MakeRoom, history
    <2>2. sink' \o buf' = sink \o buf
      BY <1>2, FlushType, Zenon DEF MakeRoom, bufio
    <2> QED
      BY <2>1, <2>2, Zenon DEF Conservation
  <1>3. ASSUME NEW p \in Procs, Spill(p)
        PROVE  Conservation'
    BY <1>3, SpillEffect, Zenon DEF Conservation
  <1>4. ASSUME NEW p \in Procs, Put(p)
        PROVE  Conservation'
    <2>1. sink' = sink
      BY <1>4, Zenon DEF Put, ws
    <2> QED
      BY <1>4, <2>1, PutEffect, Zenon DEF Conservation
  <1>5. ASSUME NEW a \in Actors, Sync(a)
        PROVE  Conservation'
    <2>1. accepted' = accepted
      BY <1>5, Zenon DEF Sync
    <2>2. sink' \o buf' = sink \o buf
      BY <1>5, FlushType, Zenon DEF Sync, bufio
    <2> QED
      BY <2>1, <2>2, Zenon DEF Conservation
  <1> QED
    BY <1>1, <1>2, <1>3, <1>4, <1>5, DataActions, Zenon DEF Conservation

\* No step of a healthy writer cuts an entry.
LEMMA WholeStep ==
  TypeOK /\ Untouched /\ WholeEntries /\ Pending /\ [Next]_vars => WholeEntries'
  <1> SUFFICES ASSUME TypeOK, Untouched, WholeEntries, Pending, [Next]_vars, ~werr'
               PROVE  Whole(sink') /\ Whole(buf')
    BY Zenon DEF WholeEntries, Whole
  <1>0. buf \in Seq(Byte) /\ sink \in Seq(Byte) /\ rest \in [Procs -> Seq(Byte)]
    BY Zenon DEF TypeOK
  <1>f. ASSUME NEW o \in Outcomes(Len(buf)), Flush(o)
        PROVE  Whole(sink') /\ Whole(buf')
    <2>1. ~werr /\ buf' = << >> /\ sink' = sink \o buf
      BY Zenon, <1>f, FlushDone
    <2> QED
      BY <1>0, <2>1, WholeConcat, WholeEmpty, Zenon DEF WholeEntries
  <1>1. ASSUME NEW p \in Procs, Initialize(p)
        PROVE  Whole(sink') /\ Whole(buf')
    <2>1. buf' = buf /\ sink' = sink /\ ~werr
      BY <1>1, Zenon DEF Initialize, Untouched, bufio, ws
    <2> QED
      BY <2>1, Zenon DEF WholeEntries
  <1>2. ASSUME NEW p \in Procs, MakeRoom(p)
        PROVE  Whole(sink') /\ Whole(buf')
    BY <1>2, <1>f, Zenon DEF MakeRoom, WholeEntries, bufio
  <1>p. ASSUME NEW p \in Procs, pc[p] = "put", ~werr
        PROVE  Whole(rest[p]) /\ (Len(rest[p]) > Available => buf = << >>)
    BY <1>p, WholeBytes, WholeEmpty, Zenon DEF Pending
  <1>3. ASSUME NEW p \in Procs, Spill(p)
        PROVE  Whole(sink') /\ Whole(buf')
    <2>1. ~werr /\ buf = << >> /\ Whole(rest[p]) /\ rest[p] \in Seq(Byte)
      BY <1>0, <1>3, <1>p, Zenon DEF Spill
    <2>2. PICK n \in 0..Len(rest[p]) :
            /\ n < Len(rest[p]) => werr'
            /\ buf' = << >>
            /\ sink' = sink \o Take(rest[p], n)
      BY Zenon, <1>3, <2>1, SpillEffect
    <2>3. n = Len(rest[p])
      BY <2>1, <2>2, LenProperties
    <2>4. sink' = sink \o rest[p]
      BY <2>1, <2>2, <2>3, TakeAll, Zenon
    <2> QED
      BY <1>0, <2>1, <2>2, <2>4, WholeConcat, WholeEmpty, ZenonT(60) DEF WholeEntries
  <1>4. ASSUME NEW p \in Procs, Put(p)
        PROVE  Whole(sink') /\ Whole(buf')
    <2>1. ~werr /\ sink' = sink /\ buf' = buf \o rest[p] /\ Whole(rest[p])
      BY <1>4, <1>p, Zenon DEF Put, ws
    <2> QED
      BY <1>0, <2>1, WholeConcat, Zenon DEF WholeEntries
  <1>5. ASSUME NEW a \in Actors, Sync(a)
        PROVE  Whole(sink') /\ Whole(buf')
    BY <1>5, <1>f, Zenon DEF Sync, WholeEntries, bufio
  <1> QED
    BY <1>1, <1>2, <1>3, <1>4, <1>5, DataActions, Zenon DEF WholeEntries

\* What a goroutine at work on a Write knows about its input and the buffer.
PendingAt(p) ==
  /\ pc[p] \in {"write", "writing", "room"} => \E m \in Msgs : rest[p] = Bytes(m)
  /\ pc[p] = "put" /\ ~werr =>
       /\ rest[p] = << >> \/ \E m \in Msgs : rest[p] = Bytes(m)
       /\ Len(rest[p]) > Available => buf = << >>

\* What Write still has to hand to bufio stays a whole entry, or nothing, on every
\* step of a writer that has not failed.
LEMMA PendingStep == TypeOK /\ CInv /\ Pending /\ [Next]_vars => Pending'
  <1> SUFFICES ASSUME TypeOK, ControlOK, DataOK, CInv, Pending, [Next]_vars,
                      NEW q \in Procs
               PROVE  PendingAt(q)'
    BY TypeParts, Zenon DEF Pending, PendingAt
  <1>0. /\ PendingAt(q) /\ q \in Actors /\ q # Loop
        /\ pc \in [Actors -> Label] /\ rest \in [Procs -> Seq(Byte)]
        /\ buf \in Seq(Byte)
    BY ProcsAssumption, ZenonT(60) DEF Pending, PendingAt, ControlOK, DataOK, Actors
  <1>g. ASSUME pc'[q] = pc[q], rest'[q] = rest[q],
               pc[q] = "put" => buf' = buf /\ werr' = werr
        PROVE  PendingAt(q)'
    BY <1>0, <1>g, Zenon DEF PendingAt, Available
  <1>i. ASSUME pc'[q] \notin {"write", "writing", "room", "put"}
        PROVE  PendingAt(q)'
    BY <1>i, Zenon DEF PendingAt
  <1>m. ASSUME NEW a \in Actors, pc[a] \in Holding, a # q
        PROVE  pc[q] # "put"
    BY <1>0, <1>m, Zenon DEF CInv, Mutex, Holding
  <1>1. ASSUME NEW p \in Procs, NEW m \in Msgs, CallWrite(p, m)
        PROVE  PendingAt(q)'
    <2>1. CASE p = q
      <3>1. pc'[q] = "write" /\ rest'[q] = Bytes(m)
        BY <1>0, <1>1, <2>1, Zenon DEF CallWrite, Call, Goto
      <3> QED
        BY <3>1, Zenon DEF PendingAt
    <2>2. CASE p # q
      BY <1>0, <1>1, <1>g, <2>2, Zenon DEF CallWrite, Call, Goto, bufio
    <2> QED
      BY Zenon, <2>1, <2>2
  <1>2. ASSUME NEW p \in Procs, CallSync(p) \/ CallStop(p)
        PROVE  PendingAt(q)'
    <2>1. CASE p = q
      BY <1>0, <1>2, <1>i, <2>1, ZenonT(60) DEF CallSync, CallStop, Call, Goto
    <2>2. CASE p # q
      BY <1>0, <1>2, <1>g, <2>2, Zenon DEF CallSync, CallStop, Call, Goto, bufio
    <2> QED
      BY Zenon, <2>1, <2>2
  <1>3. ASSUME NEW a \in Actors, Lock(a)
        PROVE  PendingAt(q)'
    <2>1. CASE a = q
      <3>1. pc'[q] \in {"writing", "syncing", "stopping"} /\ rest' = rest
            /\ (pc'[q] = "writing" => pc[q] = "write")
        BY <1>0, <1>3, <2>1, Zenon DEF Lock, Goto, call
      <3> QED
        BY <1>0, <3>1, Zenon DEF PendingAt
    <2>2. CASE a # q
      BY <1>0, <1>3, <1>g, <2>2, Zenon DEF Lock, Goto, bufio, call
    <2> QED
      BY Zenon, <2>1, <2>2
  <1>4. ASSUME NEW p \in Procs, Initialize(p)
        PROVE  PendingAt(q)'
    <2>1. pc[p] = "writing" /\ rest' = rest /\ p \in Actors
      BY <1>4, Zenon DEF Initialize, call, Actors
    <2>2. CASE p = q
      <3>1. pc'[q] = "room"
        BY <1>0, <1>4, <2>2, Zenon DEF Initialize, Goto
      <3> QED
        BY <1>0, <2>1, <2>2, <3>1, Zenon DEF PendingAt
    <2>3. CASE p # q
      <3>1. pc'[q] = pc[q]
        BY <1>0, <1>4, <2>3, Zenon DEF Initialize, Goto
      <3> QED
        BY <1>g, <1>m, <2>1, <2>3, <3>1, Zenon DEF Holding
    <2> QED
      BY <2>2, <2>3
  <1>5. ASSUME NEW p \in Procs, MakeRoom(p)
        PROVE  PendingAt(q)'
    <2>1. /\ pc[p] = "room" /\ p \in Actors
          /\ \/ Return(p, "err")
             \/ Goto(p, "put") /\ rest' = rest
      BY <1>5, Zenon DEF MakeRoom, Actors
    <2>2. CASE p # q
      <3>1. pc'[q] = pc[q] /\ rest'[q] = rest[q]
        BY <1>0, <2>1, <2>2, Zenon DEF Return, Goto
      <3> QED
        BY <1>g, <1>m, <2>1, <2>2, <3>1, Zenon DEF Holding
    <2>3. CASE p = q /\ Return(p, "err")
      BY <1>0, <1>i, <2>3, ZenonT(60) DEF Return, Goto
    <2>4. CASE p = q /\ Goto(p, "put") /\ rest' = rest
      <3>1. pc'[q] = "put" /\ \E m \in Msgs : rest'[q] = Bytes(m)
        BY <1>0, <2>1, <2>4, Zenon DEF Goto, PendingAt
      <3>2. ASSUME ~werr', Len(rest[q]) > Available'
            PROVE  buf' = << >>
        <4>1. CASE Len(rest[p]) > Available /\ Len(buf) > 0
          BY <1>5, <3>2, <4>1, FlushDone, Zenon DEF MakeRoom
        <4>2. CASE ~(Len(rest[p]) > Available /\ Len(buf) > 0)
          <5>1. buf' = buf
            BY <1>5, <4>2, Zenon DEF MakeRoom, bufio
          <5>2. ~(Len(buf) > 0)
            BY <2>4, <3>2, <4>2, <5>1, Zenon DEF Available
          <5> QED
            BY <1>0, <5>1, <5>2, EmptySeq
        <4> QED
          BY Zenon, <4>1, <4>2
      <3> QED
        BY <2>4, <3>1, <3>2, Zenon DEF PendingAt
    <2> QED
      BY Zenon, <2>1, <2>2, <2>3, <2>4
  <1>6. ASSUME NEW p \in Procs, Spill(p)
        PROVE  PendingAt(q)'
    <2>1. /\ pc[p] = "put" /\ ~werr /\ Len(rest[p]) > Available /\ p \in Actors
          /\ pc' = pc /\ PendingAt(p)
      BY <1>6, Zenon DEF Spill, Actors, Pending, PendingAt
    <2>2. buf = << >>
      BY <2>1, Zenon DEF PendingAt
    <2>3. PICK n \in 0..Len(rest[p]) :
            /\ n < Len(rest[p]) => werr'
            /\ buf' = << >>
            /\ rest' = [rest EXCEPT ![p] = Drop(@, n)]
      BY Zenon, <1>6, <2>2, SpillEffect
    <2>4. CASE p = q
      <3> SUFFICES ASSUME ~werr'
                   PROVE  rest'[q] = << >> /\ buf' = << >>
        BY <2>1, <2>4, Zenon DEF PendingAt
      <3>1. n = Len(rest[q]) /\ rest[q] \in Seq(Byte)
        BY <1>0, <2>3, <2>4, LenProperties
      <3>2. rest'[q] = Drop(rest[q], Len(rest[q]))
        BY ZenonT(60), <1>0, <2>3, <2>4, <3>1
      <3> QED
        BY ZenonT(30), <2>3, <3>1, <3>2, TakeAll
    <2>5. CASE p # q
      <3>1. rest'[q] = rest[q]
        BY Zenon, <1>0, <2>3, <2>5
      <3> QED
        BY <1>g, <1>m, <2>1, <2>5, <3>1, Zenon DEF Holding
    <2> QED
      BY ZenonT(60), <2>4, <2>5
  <1>7. ASSUME NEW p \in Procs, Put(p)
        PROVE  PendingAt(q)'
    <2>1. pc[p] = "put" /\ p \in Actors /\ (Return(p, "err") \/ Return(p, "ok"))
      BY <1>7, Zenon DEF Put, Actors
    <2>2. CASE p = q
      BY <1>0, <1>i, <2>1, <2>2, ZenonT(60) DEF Return, Goto
    <2>3. CASE p # q
      <3>1. pc'[q] = pc[q] /\ rest'[q] = rest[q]
        BY <1>0, <2>1, <2>3, ZenonT(60) DEF Return, Goto
      <3> QED
        BY <1>g, <1>m, <2>1, <2>3, <3>1, Zenon DEF Holding
    <2> QED
      BY <2>2, <2>3
  <1>8. ASSUME NEW a \in Actors, Sync(a)
        PROVE  PendingAt(q)'
    <2>1. /\ pc[a] = "syncing"
          /\ \/ Goto(a, "select") /\ rest' = rest /\ a = Loop
             \/ Return(a, "err") \/ Return(a, "ok")
      BY <1>8, Zenon DEF Sync
    <2>2. CASE a = q
      BY <1>0, <1>i, <2>1, <2>2, Zenon DEF Return, Goto
    <2>3. CASE a # q
      <3>1. pc'[q] = pc[q] /\ rest'[q] = rest[q]
        BY <1>0, <2>1, <2>3, Zenon DEF Return, Goto
      <3> QED
        BY <1>g, <1>m, <2>1, <2>3, <3>1, Zenon DEF Holding
    <2> QED
      BY <2>2, <2>3
  <1>9. ASSUME NEW p \in Procs, StopCritical(p) \/ AwaitDone(p)
        PROVE  PendingAt(q)'
    <2>1. p = q => pc'[q] \in {"idle", "wait", "sync"}
      BY <1>0, <1>9, ZenonT(60) DEF StopCritical, AwaitDone, Return, Goto
    <2>2. p # q => pc'[q] = pc[q] /\ rest'[q] = rest[q]
      BY <1>0, <1>9, Zenon DEF StopCritical, AwaitDone, Return, Goto, call
    <2>3. buf' = buf /\ werr' = werr
      BY <1>9, ZenonT(60) DEF StopCritical, AwaitDone, bufio
    <2> QED
      BY Zenon, <1>g, <1>i, <2>1, <2>2, <2>3
  <1>10. CASE SelectTick \/ SelectStop \/ Tick
    BY <1>0, <1>g, <1>10, Zenon DEF SelectTick, SelectStop, Tick, Goto, bufio, call
  <1>11. CASE UNCHANGED vars
    BY <1>g, <1>11, Zenon DEF vars, bufio, call
  <1> QED
    BY Zenon, <1>1, <1>2, <1>3, <1>4, <1>5, <1>6, <1>7, <1>8, <1>9, <1>10, <1>11
    DEF Next, Step

\* A call's mark never exceeds what has been accepted.
LEMMA MarksStep == TypeOK /\ Marks /\ [Next]_vars => Marks'
  <1> SUFFICES ASSUME TypeOK, ControlOK, DataOK, Marks, [Next]_vars
               PROVE  Marks'
    BY Zenon, TypeParts
  <1>0. /\ Len(accepted') >= Len(accepted) /\ Len(accepted') \in Nat
        /\ Len(accepted) \in Nat /\ mark \in [Procs -> Nat]
    BY DataStep, LenProperties, Zenon DEF DataOK
  <1>1. ASSUME NEW p \in Procs, mark' = [mark EXCEPT ![p] = Len(accepted)]
        PROVE  Marks'
    BY <1>0, <1>1 DEF Marks
  <1>2. ASSUME mark' = mark
        PROVE  Marks'
    BY <1>0, <1>2, SMTT(30) DEF Marks
  <1>3. mark' = mark \/ \E p \in Procs : mark' = [mark EXCEPT ![p] = Len(accepted)]
    <2>1. ASSUME NEW p \in Procs,
                 CallSync(p) \/ CallStop(p) \/ \E m \in Msgs : CallWrite(p, m)
          PROVE  mark' = [mark EXCEPT ![p] = Len(accepted)]
      BY <2>1, Zenon DEF CallSync, CallStop, CallWrite, Call
    <2>2. ASSUME NEW a \in Actors, Lock(a) \/ Sync(a)
          PROVE  mark' = mark
      BY <2>2, Zenon DEF Lock, Sync, call
    <2>3. ASSUME NEW p \in Procs, Initialize(p) \/ MakeRoom(p)
          PROVE  mark' = mark
      BY <2>3, ZenonT(60) DEF Initialize, MakeRoom, call
    <2>4. ASSUME NEW p \in Procs, Spill(p) \/ Put(p)
          PROVE  mark' = mark
      BY <2>4, Zenon DEF Spill, Put, call
    <2>5. ASSUME NEW p \in Procs, StopCritical(p) \/ AwaitDone(p)
          PROVE  mark' = mark
      BY <2>5, ZenonT(60) DEF StopCritical, AwaitDone, call
    <2>6. ASSUME SelectTick \/ SelectStop \/ Tick \/ UNCHANGED vars
          PROVE  mark' = mark
      BY <2>6, Zenon DEF SelectTick, SelectStop, Tick, vars, call
    <2> QED
      BY <2>1, <2>2, <2>3, <2>4, <2>5, <2>6, Zenon DEF Next, Step
  <1> QED
    BY Zenon, <1>1, <1>2, <1>3

\* A successful Sync leaves nothing that was accepted before it unsynced.
LEMMA FlushedStep ==
  TypeOK /\ CInv /\ Untouched /\ Conservation /\ Marks /\ FlushedOnReturn
    /\ [Next]_vars => FlushedOnReturn'
  <1> SUFFICES ASSUME TypeOK, ControlOK, DataOK, CInv, Untouched, Conservation,
                      Marks, FlushedOnReturn, [Next]_vars, NEW q \in Procs,
                      op'[q] \in {"Sync", "Stop"}, ret'[q] = "ok"
               PROVE  mark'[q] <= synced'
    BY TypeParts, ZenonT(60) DEF FlushedOnReturn
  <1>0. /\ synced' >= synced /\ synced \in Nat /\ synced' \in Nat
        /\ mark \in [Procs -> Nat] /\ ret \in [Procs -> {"none", "ok", "err", "noop"}]
        /\ op \in [Procs -> {"none", "Write", "Sync", "Stop"}]
        /\ Conservation' /\ DataOK' /\ q # Loop
    BY SMTT(30), DataStep, ConservationStep, LenProperties, ProcsAssumption
    DEF DataOK, ControlOK
  <1>s. ASSUME ret'[q] = ret[q], op'[q] = op[q], mark'[q] = mark[q]
        PROVE  mark'[q] <= synced'
    BY <1>0, <1>s DEF FlushedOnReturn
  <1>1. ASSUME NEW p \in Procs,
               CallSync(p) \/ CallStop(p) \/ \E m \in Msgs : CallWrite(p, m)
        PROVE  mark'[q] <= synced'
    <2>1. /\ ret' = [ret EXCEPT ![p] = "none"]
          /\ \E name : op' = [op EXCEPT ![p] = name]
          /\ mark' = [mark EXCEPT ![p] = Len(accepted)]
      BY <1>1, Zenon DEF CallSync, CallStop, CallWrite, Call
    <2>2. p # q
      BY Zenon, <1>0, <2>1
    <2> QED
      BY Zenon, <1>0, <1>s, <2>1, <2>2
  <1>2. ASSUME NEW p \in Procs, MakeRoom(p) \/ Put(p) \/ StopCritical(p)
        PROVE  mark'[q] <= synced'
    <2>1. /\ op' = op /\ mark' = mark
          /\ ret' = ret \/ \E r : ret' = [ret EXCEPT ![p] = r]
      BY <1>2, ZenonT(60) DEF MakeRoom, Put, StopCritical, Return
    <2>2. pc[p] \in {"room", "put"} => op[p] = "Write"
      BY Zenon DEF CInv, Calls
    <2>3. pc[p] \in {"room", "put"} \/ ret'[p] \in {"noop", ret[p]}
      BY <1>0, <1>2, Zenon DEF MakeRoom, Put, StopCritical, Return
    <2>4. p = q => ret'[q] = ret[q]
      BY Zenon, <2>1, <2>2, <2>3
    <2> QED
      BY Zenon, <1>0, <1>s, <2>1, <2>4
  <1>3. ASSUME NEW a \in Actors, Sync(a)
        PROVE  mark'[q] <= synced'
    <2>0. op' = op /\ mark' = mark /\ accepted' = accepted
      BY <1>3, ZenonT(60) DEF Sync
    <2>1. CASE a # q
      <3>1. ret'[q] = ret[q]
        BY <1>0, <1>3, <2>1, ZenonT(60) DEF Sync, Return
      <3> QED
        BY Zenon, <1>s, <2>0, <3>1
    <2>2. CASE a = q
      <3>1. PICK o \in Outcomes(Len(buf)), se \in {FALSE, WSMayFail} :
              /\ IF MustFlush THEN Flush(o) ELSE UNCHANGED <<bufio, sink>>
              /\ synced' = IF se THEN synced ELSE Len(sink')
              /\ Return(q, IF werr' \/ se THEN "err" ELSE "ok")
        BY <1>0, <1>3, <2>2, Zenon DEF Sync
      <3>2. ret'[q] = IF werr' \/ se THEN "err" ELSE "ok"
        BY <1>0, <3>1, ZenonT(60) DEF Return
      <3>3. ~werr' /\ ~se
        BY <3>2, Zenon
      <3>4. buf' = << >>
        BY <3>1, <3>3, FlushDone, Zenon DEF MustFlush, Untouched, bufio
      <3>5. sink' = accepted'
        <4>1. sink' \o << >> = sink'
          BY <1>0, ConcatEmptySeq, Zenon DEF DataOK
        <4> QED
          BY <1>0, <3>4, <4>1, Zenon DEF Conservation
      <3>6. synced' = Len(accepted)
        BY Zenon, <2>0, <3>1, <3>3, <3>5
      <3> QED
        BY <2>0, <3>6, Zenon DEF Marks
    <2> QED
      BY Zenon, <2>1, <2>2
  <1>4. ASSUME NEW p \in Procs, Initialize(p) \/ Spill(p) \/ AwaitDone(p)
        PROVE  mark'[q] <= synced'
    BY <1>4, <1>s, Zenon DEF Initialize, Spill, AwaitDone, call
  <1>5. ASSUME \/ SelectTick \/ SelectStop \/ Tick \/ UNCHANGED vars
               \/ \E a \in Actors : Lock(a)
        PROVE  mark'[q] <= synced'
    BY <1>5, <1>s, Zenon DEF SelectTick, SelectStop, Tick, Lock, vars, call
  <1> QED
    BY <1>1, <1>2, <1>3, <1>4, <1>5, Zenon DEF Next, Step

\* The data part holds in every reachable state.
LEMMA DataInvariant == Spec => []DInv
  <1>1. Init => DInv
    <2> SUFFICES ASSUME Init PROVE DInv
      OBVIOUS
    <2>1. << >> \in Seq(Byte) /\ Len(<< >>) = 0 /\ << >> \o << >> = << >>
      BY Zenon, EmptySeq, ConcatEmptySeq
    <2>2. Untouched /\ Conservation
      BY <2>1, Zenon DEF Init, Untouched, Conservation
    <2>3. WholeEntries
      BY WholeEmpty, Zenon DEF Init, WholeEntries
    <2>4. Pending
      BY ProcsAssumption, Zenon DEF Init, Pending, Actors
    <2>5. Marks /\ FlushedOnReturn
      BY <2>1 DEF Init, Marks, FlushedOnReturn
    <2> QED
      BY <2>2, <2>3, <2>4, <2>5, Zenon DEF DInv
  <1>2. TypeOK /\ CInv /\ DInv /\ [Next]_vars => DInv'
    BY Zenon, UntouchedStep, ConservationStep, WholeStep, PendingStep, MarksStep,
       FlushedStep DEF DInv
  <1> QED
    BY <1>1, <1>2, TypeCorrect, ControlInvariant, PTL DEF Spec

\* The sink followed by the buffer is what Write reported as written, whatever
\* WS answers.
THEOREM ConservationHolds == Spec => []Conservation
  <1>1. DInv => Conservation
    BY Zenon DEF DInv
  <1> QED
    BY <1>1, DataInvariant, PTL

\* A healthy sink holds whole entries only, for every buffer size and every
\* length of entry.
THEOREM WholeEntriesHolds == Spec => []WholeEntries
  <1>1. DInv => WholeEntries
    BY Zenon DEF DInv
  <1> QED
    BY <1>1, DataInvariant, PTL

\* What was accepted before a successful Sync, or before the Stop that did the
\* stopping, is durable when it returns.
THEOREM FlushedOnReturnHolds == Spec => []FlushedOnReturn
  <1>1. DInv => FlushedOnReturn
    BY Zenon DEF DInv
  <1> QED
    BY <1>1, DataInvariant, PTL
-----------------------------------------------------------------------------
\* A stored error freezes the sink, the buffer's error and the log.
LEMMA Frozen ==
  ASSUME Untouched, [Next]_vars, werr
  PROVE  werr' /\ sink' = sink /\ accepted' = accepted
  <1>1. ASSUME NEW p \in Procs, Initialize(p)
        PROVE  werr' /\ sink' = sink /\ accepted' = accepted
    BY <1>1, Zenon DEF Initialize, Untouched, bufio, ws, history
  <1>2. ASSUME NEW p \in Procs, MakeRoom(p)
        PROVE  werr' /\ sink' = sink /\ accepted' = accepted
    BY <1>2, ZenonT(60) DEF MakeRoom, Flush, bufio, history
  <1>3. ASSUME NEW p \in Procs, Spill(p) \/ Put(p)
        PROVE  werr' /\ sink' = sink /\ accepted' = accepted
    BY <1>3, Zenon DEF Spill, Put, ws
  <1>4. ASSUME NEW a \in Actors, Sync(a)
        PROVE  werr' /\ sink' = sink /\ accepted' = accepted
    BY <1>4, Zenon DEF Sync, Flush, bufio
  <1> QED
    BY Zenon, <1>1, <1>2, <1>3, <1>4, DataActions

\* Once WS has failed, nothing more is sent to it.
THEOREM NoHoleHolds == Spec => NoHole
  <1>1. DInv /\ [Next]_vars => [werr => werr' /\ sink' = sink]_vars
    BY Frozen, Zenon DEF DInv
  <1> QED
    BY <1>1, DataInvariant, PTL DEF Spec, NoHole

-----------------------------------------------------------------------------
\* A sequence is the initial segment of its own extension.
LEMMA Prefix ==
  ASSUME NEW S, NEW s \in Seq(S), NEW t \in Seq(S)
  PROVE  SubSeq(s \o t, 1, Len(s)) = s /\ Len(s \o t) >= Len(s)
  <1>0. Len(s) \in Nat /\ Len(t) \in Nat /\ s \o t \in Seq(S)
        /\ Len(s \o t) = Len(s) + Len(t)
    BY Zenon, LenProperties, ConcatProperties
  <1>1. \A i \in 1..Len(s) : (s \o t)[i] = s[i] /\ (s \o t)[i] \in S
    BY <1>0, ConcatProperties, ElementOfSeq
  <1> DEFINE u == SubSeq(s \o t, 1, Len(s))
  <1>2. u \in Seq(S) /\ Len(u) = Len(s) /\ \A i \in 1..Len(s) : u[i] = (s \o t)[i]
    BY <1>0, <1>1, SubSeqProperties
  <1> HIDE DEF u
  <1>3. u = s
    BY ZenonT(60), <1>1, <1>2, SeqEqual
  <1> QED
    BY <1>0, <1>3 DEF u

\* A step accepts nothing or more bytes of one entry, and all of it unless WS
\* fails in that step.
LEMMA AcceptStep ==
  ASSUME TypeOK, Pending, [Next]_vars
  PROVE  \/ accepted' = accepted
         \/ \E x \in Seq(Byte) :
              /\ accepted' = accepted \o x
              /\ ~werr' => x = << >> \/ \E m \in Msgs : x = Bytes(m)
  <1> DEFINE Goal ==
         \/ accepted' = accepted
         \/ \E x \in Seq(Byte) :
              /\ accepted' = accepted \o x
              /\ ~werr' => x = << >> \/ \E m \in Msgs : x = Bytes(m)
  <1>0. accepted \in Seq(Byte) /\ rest \in [Procs -> Seq(Byte)]
    BY Zenon DEF TypeOK
  <1>1. ASSUME NEW p \in Procs, Spill(p)
        PROVE  Goal
    <2>1. /\ buf = << >> /\ rest[p] \in Seq(Byte)
          /\ rest[p] = << >> \/ \E m \in Msgs : rest[p] = Bytes(m)
      BY <1>0, <1>1, Zenon DEF Spill, Pending
    <2>2. PICK n \in 0..Len(rest[p]) :
            /\ n < Len(rest[p]) => werr'
            /\ accepted' = accepted \o Take(rest[p], n)
      BY Zenon, <1>1, <2>1, SpillEffect
    <2>3. Take(rest[p], n) \in Seq(Byte)
      BY <2>1, TakeDrop, ZenonT(60)
    <2>4. ~werr' => Take(rest[p], n) = rest[p]
      <3>1. ~werr' => n = Len(rest[p])
        BY <2>1, <2>2, LenProperties
      <3> QED
        BY Zenon, <2>1, <3>1, TakeAll
    <2> QED
      BY Zenon, <2>1, <2>2, <2>3, <2>4
  <1>2. ASSUME NEW p \in Procs, Put(p)
        PROVE  Goal
    <2>1. CASE werr
      BY <1>2, <2>1, Zenon DEF Put
    <2>2. CASE ~werr
      <3>1. /\ accepted' = accepted \o rest[p] /\ rest[p] \in Seq(Byte)
            /\ rest[p] = << >> \/ \E m \in Msgs : rest[p] = Bytes(m)
        BY <1>0, <1>2, <2>2, Zenon DEF Put, Pending
      <3> QED
        BY ZenonT(60), <3>1
    <2> QED
      BY Zenon, <2>1, <2>2
  <1>3. ASSUME NEW p \in Procs, Initialize(p) \/ MakeRoom(p)
        PROVE  Goal
    BY <1>3, Zenon DEF Initialize, MakeRoom, history
  <1>4. ASSUME NEW a \in Actors, Sync(a)
        PROVE  Goal
    BY <1>4, Zenon DEF Sync
  <1> QED
    BY <1>1, <1>2, <1>3, <1>4, DataActions, Zenon

\* Every step maps to a step of the abstract log or changes nothing of it.
LEMMA RefinementStep ==
  TypeOK /\ DInv /\ TypeOK' /\ DInv' /\ [Next]_vars
    => [EntryLog!Next]_(EntryLog!vars)
  <1> SUFFICES ASSUME TypeOK, DInv, TypeOK', DInv', [Next]_vars
               PROVE  EntryLog!Next \/ UNCHANGED EntryLog!vars
    BY ZenonT(60)
  <1>0. /\ accepted \in Seq(Byte) /\ accepted' \in Seq(Byte)
        /\ sink \in Seq(Byte) /\ sink' \in Seq(Byte) /\ buf' \in Seq(Byte)
        /\ werr \in BOOLEAN /\ werr' \in BOOLEAN
    BY Zenon DEF TypeOK
  <1>1. CASE werr
    <2>1. werr' /\ sink' = sink /\ accepted' = accepted
      BY <1>1, Frozen, Zenon DEF DInv
    <2> QED
      BY <1>0, <1>1, <2>1, Zenon DEF EntryLog!vars
  <1>2. CASE ~werr
    <2>1. EntryLog!Deliver
      <3>1. sink' \o buf' = accepted'
        BY Zenon DEF DInv, Conservation
      <3>2. SubSeq(accepted', 1, Len(sink')) = sink' /\ Len(accepted') >= Len(sink')
        BY ZenonT(60), <1>0, <3>1, Prefix
      <3>3. Len(sink') >= Len(sink)
        <4>1. CASE UNCHANGED <<initialized, buf, werr, sink, synced, accepted>>
          BY <1>0, <4>1, LenProperties
        <4>2. ASSUME NEW p \in Procs, Initialize(p) \/ Put(p)
              PROVE  Len(sink') >= Len(sink)
          <5>1. sink' = sink
            BY <4>2, ZenonT(60) DEF Initialize, Put, ws
          <5> QED
            BY <1>0, <5>1, LenProperties
        <4>3. ASSUME NEW p \in Procs, MakeRoom(p) \/ Spill(p)
              PROVE  Len(sink') >= Len(sink)
          BY <1>0, <4>3, FlushType, SpillEffect, LenProperties, SMTT(30) DEF MakeRoom
        <4>4. ASSUME NEW a \in Actors, Sync(a)
              PROVE  Len(sink') >= Len(sink)
          BY <1>0, <4>4, FlushType, LenProperties DEF Sync
        <4> QED
          BY Zenon, <4>1, <4>2, <4>3, <4>4, DataActions
      <3>4. Len(sink') \in Len(sink)..Len(accepted')
        BY <1>0, <3>2, <3>3, LenProperties
      <3> QED
        BY <3>2, <3>4, Zenon DEF EntryLog!Deliver
    <2>2. CASE ~werr'
      <3>1. accepted' = accepted \/ \E m \in Msgs : accepted' = accepted \o Bytes(m)
        <4>1. accepted \o << >> = accepted
          BY Zenon, <1>0, ConcatEmptySeq
        <4> QED
          BY <2>2, <4>1, AcceptStep, Zenon DEF DInv
      <3>2. \A m \in Msgs : EntryLog!Entry(m) = Bytes(m)
        BY Zenon DEF EntryLog!Entry, Bytes
      <3>3. Whole(sink')
        BY <2>2, Zenon DEF DInv, WholeEntries
      <3>4. EntryLog!AtBoundary(sink')
        BY <3>3, Zenon DEF EntryLog!AtBoundary, Whole, IsLast
      <3>5. EntryLog!Advance
        BY <1>2, <2>1, <2>2, <3>1, <3>2, <3>4, Zenon DEF EntryLog!Advance
      <3> QED
        BY <3>5, Zenon DEF EntryLog!Next
    <2>3. CASE werr'
      <3>1. Len(accepted') >= Len(accepted)
            /\ SubSeq(accepted', 1, Len(accepted)) = accepted
        <4>1. CASE accepted' = accepted
          BY <1>0, <4>1, SubSeqFull, LenProperties
        <4>2. CASE \E x \in Seq(Byte) : accepted' = accepted \o x
          BY Zenon, <1>0, <4>2, Prefix
        <4> QED
          BY <4>1, <4>2, AcceptStep, Zenon DEF DInv
      <3>2. EntryLog!Fail
        BY <1>2, <2>1, <2>3, <3>1, Zenon DEF EntryLog!Fail
      <3> QED
        BY <3>2, Zenon DEF EntryLog!Next
    <2> QED
      BY Zenon, <2>2, <2>3
  <1> QED
    BY Zenon, <1>1, <1>2

\* BufferedWriteSyncer implements an in-order log of whole entries that freezes
\* when its destination fails.
THEOREM Refinement == Spec => RefinesEntryLog
  <1>1. Init => EntryLog!Init
    BY Zenon DEF Init, EntryLog!Init
  <1> QED
    BY <1>1, RefinementStep, TypeCorrect, DataInvariant, PTL
    DEF Spec, RefinesEntryLog, EntryLog!Spec

=============================================================================
