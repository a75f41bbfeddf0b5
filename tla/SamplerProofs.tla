---------------------------- MODULE SamplerProofs ----------------------------
(***************************************************************************)
(* Proofs about Sampler, for every number of goroutines, every assignment  *)
(* of messages to counters and every clock, one that steps back included:  *)
(* the types, the ticks and the calls under way, then what is counted.     *)
(***************************************************************************)
EXTENDS Sampler, TLAPS

\* A goroutine about to reset a counter saw a tick that its entry is not in.
Expired == \A p \in Procs : pc[p] \in {"store", "cas"} => old[p] <= tn[p]

\* A counter whose tick was ever opened, and one that a goroutine is about to
\* increment or has reset, is positive: only the opener of a tick can be first.
Counted ==
  /\ \A c \in Buckets : resetAt[c] > 0 => counter[c] >= 1
  /\ \A p \in Procs : pc[p] \in {"cas", "add"} => counter[b(p)] >= 1

\* A goroutine resets a counter at most once early and once late per tick.
Kind(p) == IF old[p] = resetAt[b(p)] THEN "early" ELSE "late"
Once ==
  /\ \A p \in Procs : pc[p] = "store" => <<p, Kind(p)>> \notin resets[b(p)]
  /\ \A p \in Procs, c \in Buckets : <<p, "early">> \in resets[c] =>
       pc[p] = "cas" /\ b(p) = c /\ old[p] = resetAt[c]

\* The rest of the state: the counters a call has seen are behind, and under a
\* steady clock so is its time; whatever is to be added to has been opened.
Behind ==
  /\ \A p \in Procs : old[p] <= resetAt[b(p)] \/ pc[p] \in {"idle", "load"}
  /\ steady => \A p \in Procs : tn[p] <= now
  /\ \A p \in Procs : pc[p] # "idle" => tn[p] > 0
  /\ \A c \in Buckets : resetAt[c] > 0 => calls[c] > 0
  /\ \A p \in Procs : pc[p] = "add" => calls[b(p)] > 0

\* While no two calls overlap, the one under way finds the counter as it left it.
Alone ==
  /\ hist \in Seq([key : Keys, at : Nat, sampled : BOOLEAN])
  /\ apart => \A p \in Procs :
       /\ pc[p] # "idle" => \A q \in Procs : pc[q] # "idle" => q = p
       /\ pc[p] = "add" => tn[p] < resetAt[b(p)]
       /\ pc[p] \in {"store", "cas"} => old[p] = resetAt[b(p)]
       /\ pc[p] = "cas" => counter[b(p)] = 1

\* The n-th entry of a tick is logged.
Logged(n) == n <= First \/ (Thereafter # 0 /\ (n - First) % Thereafter = 0)

\* The atomics of counter c are those of a sequential sampler whose ticks began with
\* the decisions in B.
Mirrors(c, B) ==
  /\ Begins(c, B)
  /\ \A i \in Of(c) : hist[i].sampled <=> Logged(Cardinality(InTick(c, B, i)))
  /\ Of(c) = {} => resetAt[c] = 0
  /\ \A m \in B : hist[m].at + Tick <= resetAt[c]
  /\ Of(c) # {} => \E m \in B :
       /\ \A k \in B : k <= m
       /\ resetAt[c] = hist[m].at + Tick
       /\ (\A p \in Procs : pc[p] = "cas" => b(p) # c) =>
            counter[c] = Cardinality({j \in Of(c) : m <= j})
Mirrored == apart => \A c \in Buckets : \E B \in SUBSET Of(c) : Mirrors(c, B)
-----------------------------------------------------------------------------
\* How many of the counts 2..n are within First.
Extra(n) == IF n < 1 THEN 0 ELSE IF n < First THEN n - 1 ELSE First - 1

\* A counter admits at most First - 1 entries besides the one that reset it.
LEMMA ExtraBounds ==
  ASSUME NEW n \in Nat, First # 0
  PROVE  Extra(n) \in 0..(First - 1)
  BY RatesAssumption DEF Extra

\* Every step leaves the state well typed; in particular a call that is under
\* way has a counter of the table.
THEOREM TypeCorrect == Spec => []TypeOK
  <1>1. Init => TypeOK
    <2> SUFFICES ASSUME Init PROVE TypeOK
      BY Zenon
    <2>1. (CHOOSE k \in Keys : TRUE) \in Keys
      BY Zenon, KeysAssumption
    <2> QED
      BY <2>1, ClockAssumption DEF Init, TypeOK
  <1>2. TypeOK /\ [Next]_vars => TypeOK'
    <2> SUFFICES ASSUME TypeOK, [Next]_vars PROVE TypeOK'
      BY Zenon
    <2> USE BucketAssumption, RatesAssumption, ClockAssumption
    <2>1. ASSUME NEW p \in Procs, NEW k \in Keys, Check(p, k)
          PROVE  TypeOK'
      <3>1. CASE UNCHANGED locals
        BY <2>1, <3>1 DEF Check, TypeOK, atomics, locals, b
      <3>2. CASE k \in EnabledKeys /\ Bucket[k] # Unsampled
        BY <2>1, <3>2 DEF Check, TypeOK, atomics, b
      <3> QED
        BY <2>1, <3>1, <3>2, Zenon DEF Check
    <2>2. ASSUME NEW p \in Procs, Load(p)
          PROVE  TypeOK'
      BY <2>2, Zenon DEF Load, TypeOK, atomics, stats, b
    <2>3. ASSUME NEW p \in Procs, Add(p)
          PROVE  TypeOK'
      BY <2>3 DEF Add, Count, TypeOK, b
    <2>4. ASSUME NEW p \in Procs, Store(p)
          PROVE  TypeOK'
      BY <2>4 DEF Store, TypeOK, stats, b
    <2>5. ASSUME NEW p \in Procs, CompareAndSwap(p)
          PROVE  TypeOK'
      <3>1. CASE resetAt[b(p)] = old[p]
        BY <2>5, <3>1 DEF CompareAndSwap, Open, TypeOK, b
      <3>2. CASE resetAt[b(p)] # old[p]
        BY <2>5, <3>2, Zenon DEF CompareAndSwap, TypeOK, stats, b
      <3> QED
        BY Zenon, <3>1, <3>2
    <2>6. CASE Clock
      BY <2>6, Zenon DEF Clock, TypeOK, atomics, locals, stats, b
    <2>7. CASE UNCHANGED vars
      BY <2>7, Zenon DEF vars, TypeOK, atomics, locals, stats, b
    <2> QED
      BY <2>1, <2>2, <2>3, <2>4, <2>5, <2>6, <2>7, Zenon DEF Next, Step
  <1> QED
    BY <1>1, <1>2, PTL DEF Spec
-----------------------------------------------------------------------------
\* What a call of Check, a stutter and the clock leave alone: the atomics, the
\* statistics of the ticks, and every call that is past its Load.
LEMMA Quiet ==
  ASSUME TypeOK,
         \/ \E p \in Procs, k \in Keys : Check(p, k)
         \/ Clock
         \/ UNCHANGED vars
  PROVE  /\ UNCHANGED <<resetAt, counter, calls, admitted, resets, old>>
         /\ \A p \in Procs : pc'[p] \in {"add", "store", "cas"} \/ pc[p] \in {"add", "store", "cas"} =>
              pc'[p] = pc[p] /\ tn'[p] = tn[p] /\ key'[p] = key[p]
  <1>1. CASE Clock \/ UNCHANGED vars
    BY <1>1, Zenon DEF Clock, vars, atomics, locals, stats
  <1>2. ASSUME NEW p \in Procs, NEW k \in Keys, Check(p, k)
        PROVE  /\ UNCHANGED <<resetAt, counter, calls, admitted, resets, old>>
               /\ \A q \in Procs : pc'[q] \in {"add", "store", "cas"} \/ pc[q] \in {"add", "store", "cas"} =>
                    pc'[q] = pc[q] /\ tn'[q] = tn[q] /\ key'[q] = key[q]
    <2>1. CASE UNCHANGED locals
      BY <1>2, <2>1, Zenon DEF Check, atomics, locals
    <2>2. CASE k \in EnabledKeys /\ Bucket[k] # Unsampled
      BY <1>2, <2>2, ZenonT(30) DEF Check, atomics, TypeOK
    <2> QED
      BY <1>2, <2>1, <2>2, Zenon DEF Check
  <1> QED
    BY Zenon, <1>1, <1>2

\* Whoever resets a counter has loaded a resetAt that its entry is not before.
LEMMA ExpiredInvariant == Spec => []Expired
  <1>1. Init => Expired
    BY Zenon DEF Init, Expired
  <1>2. TypeOK /\ Expired /\ [Next]_vars => Expired'
    <2> SUFFICES ASSUME TypeOK, Expired, [Next]_vars PROVE Expired'
      BY Zenon
    <2>1. CASE \/ \E p \in Procs, k \in Keys : Check(p, k)
               \/ Clock
               \/ UNCHANGED vars
      <3>1. old' = old /\ \A p \in Procs : pc'[p] \in {"store", "cas"} =>
              pc'[p] = pc[p] /\ tn'[p] = tn[p]
        BY Zenon, <2>1, Quiet
      <3> QED
        BY <3>1, Zenon DEF Expired
    <2>2. ASSUME NEW p \in Procs, Load(p)
          PROVE  Expired'
      BY <2>2 DEF Load, TypeOK, Expired, b
    <2>3. ASSUME NEW p \in Procs, Add(p) \/ Store(p) \/ CompareAndSwap(p)
          PROVE  Expired'
      BY <2>3, Zenon DEF Add, Store, CompareAndSwap, Open, TypeOK, Expired
    <2> QED
      BY <2>1, <2>2, <2>3, Zenon DEF Next, Step
  <1> QED
    BY <1>1, <1>2, TypeCorrect, PTL DEF Spec

\* CompareAndSwap is what keeps the ticks of a counter apart: it succeeds only
\* for a goroutine whose entry is past the end of the tick it replaces.
THEOREM TicksDisjointHolds == Spec => TicksDisjoint
  <1> DEFINE Apart == \A c \in Buckets :
               resetAt'[c] # resetAt[c] => resetAt'[c] >= resetAt[c] + Tick
  <1>1. TypeOK /\ Expired /\ [Next]_vars => Apart \/ UNCHANGED vars
    <2> SUFFICES ASSUME TypeOK, Expired, [Next]_vars PROVE Apart
      BY Zenon
    <2>1. CASE resetAt' = resetAt
      BY Zenon, <2>1
    <2>2. ASSUME NEW p \in Procs, CompareAndSwap(p), resetAt[b(p)] = old[p]
          PROVE  Apart
      <3>1. /\ resetAt' = [resetAt EXCEPT ![b(p)] = tn[p] + Tick]
            /\ old[p] <= tn[p] /\ tn[p] \in Nat /\ old[p] \in Nat
        BY <2>2, Zenon DEF CompareAndSwap, Open, Expired, TypeOK
      <3> QED
        BY <2>2, <3>1, RatesAssumption DEF TypeOK
    <2> QED
      BY <2>1, <2>2, Zenon DEF Next, Step, Check, Load, Add, Store, CompareAndSwap, Clock,
                        vars, atomics
  <1> QED
    BY <1>1, TypeCorrect, ExpiredInvariant, PTL DEF Spec, TicksDisjoint

\* Increments start from a counter that was opened: it is positive.
LEMMA CountedInvariant == Spec => []Counted
  <1>1. Init => Counted
    BY DEF Init, Counted
  <1>2. TypeOK /\ Counted /\ [Next]_vars => Counted'
    <2> SUFFICES ASSUME TypeOK, Counted, [Next]_vars PROVE Counted'
      OBVIOUS
    <2>1. CASE \/ \E p \in Procs, k \in Keys : Check(p, k)
               \/ Clock
               \/ UNCHANGED vars
      <3>1. UNCHANGED <<resetAt, counter>> /\ \A p \in Procs : pc'[p] \in {"cas", "add"} =>
              pc'[p] = pc[p] /\ key'[p] = key[p]
        BY Zenon, <2>1, Quiet
      <3> QED
        BY <3>1, Zenon DEF Counted, b
    <2>2. ASSUME NEW p \in Procs, Load(p)
          PROVE  Counted'
      BY <2>2 DEF Load, atomics, TypeOK, Counted, b
    <2>3. ASSUME NEW p \in Procs, Add(p)
          PROVE  Counted'
      BY <2>3 DEF Add, TypeOK, Counted, b
    <2>4. ASSUME NEW p \in Procs, Store(p)
          PROVE  Counted'
      BY <2>4 DEF Store, TypeOK, Counted, b
    <2>5. ASSUME NEW p \in Procs, CompareAndSwap(p)
          PROVE  Counted'
      <3>1. CASE resetAt[b(p)] = old[p]
        BY <2>5, <3>1, ZenonT(60) DEF CompareAndSwap, Open, TypeOK, Counted, b
      <3>2. CASE resetAt[b(p)] # old[p]
        BY <2>5, <3>2, Zenon DEF CompareAndSwap, TypeOK, Counted, b
      <3> QED
        BY Zenon, <3>1, <3>2
    <2> QED
      BY <2>1, <2>2, <2>3, <2>4, <2>5, Zenon DEF Next, Step
  <1> QED
    BY <1>1, <1>2, TypeCorrect, PTL DEF Spec

\* No goroutine stores 1 in a counter more than twice in one tick.
LEMMA OnceInvariant == Spec => []Once
  <1>1. Init => Once
    BY Zenon DEF Init, Once
  <1>2. TypeOK /\ Once /\ [Next]_vars => Once'
    <2> SUFFICES ASSUME TypeOK, Once, [Next]_vars PROVE Once'
      OBVIOUS
    <2>1. CASE \/ \E p \in Procs, k \in Keys : Check(p, k)
               \/ Clock
               \/ UNCHANGED vars
      <3>1. UNCHANGED <<resetAt, resets, old>> /\ \A p \in Procs :
              pc'[p] \in {"store", "cas"} \/ pc[p] \in {"store", "cas"} =>
                pc'[p] = pc[p] /\ key'[p] = key[p]
        BY Zenon, <2>1, Quiet
      <3> QED
        BY <3>1 DEF Once, Kind, b
    <2>2. ASSUME NEW p \in Procs, Load(p)
          PROVE  Once'
      BY <2>2 DEF Load, atomics, stats, TypeOK, Once, Kind, b
    <2>3. ASSUME NEW p \in Procs, Add(p)
          PROVE  Once'
      BY <2>3 DEF Add, TypeOK, Once, Kind, b
    <2>4. ASSUME NEW p \in Procs, Store(p)
          PROVE  Once'
      BY <2>4 DEF Store, TypeOK, Once, Kind, b
    <2>5. ASSUME NEW p \in Procs, CompareAndSwap(p)
          PROVE  Once'
      <3>1. CASE resetAt[b(p)] = old[p]
        BY <2>5, <3>1 DEF CompareAndSwap, Open, TypeOK, Once, Kind, b
      <3>2. CASE resetAt[b(p)] # old[p]
        BY <2>5, <3>2 DEF CompareAndSwap, stats, TypeOK, Once, Kind, b
      <3> QED
        BY <3>1, <3>2
    <2> QED
      BY <2>1, <2>2, <2>3, <2>4, <2>5 DEF Next, Step
  <1> QED
    BY <1>1, <1>2, TypeCorrect, PTL DEF Spec
-----------------------------------------------------------------------------
\* Facts about the calls under way that both kinds of error rest on.
LEMMA BehindInvariant == Spec => []Behind
  <1> USE RatesAssumption
  <1>1. Init => Behind
    BY DEF Init, Behind
  <1>2. TypeOK /\ Expired /\ Behind /\ [Next]_vars => Behind'
    <2> SUFFICES ASSUME TypeOK, Expired, Behind, [Next]_vars PROVE Behind'
      BY Zenon
    <2>1. ASSUME NEW p \in Procs, NEW k \in Keys, Check(p, k) PROVE Behind'
      <3>1. UNCHANGED <<now, steady, resetAt, old, calls>>
        BY <2>1, Zenon DEF Check, Record, Enter, atomics, locals
      <3>2. CASE UNCHANGED locals
        BY <3>1, <3>2, Zenon DEF Behind, locals, b
      <3>3. CASE ~UNCHANGED locals
        <4>1. /\ pc' = [pc EXCEPT ![p] = "load"]
              /\ key' = [key EXCEPT ![p] = k]
              /\ tn' = [tn EXCEPT ![p] = now]
          BY <2>1, <3>3, Zenon DEF Check
        <4> QED BY <3>1, <4>1 DEF Behind, b, TypeOK
      <3> QED BY Zenon, <3>2, <3>3
    <2>2. ASSUME NEW p \in Procs, Load(p) PROVE Behind'
      BY <2>2 DEF Load, atomics, stats, TypeOK, Behind, b
    <2>3. ASSUME NEW p \in Procs, Add(p) PROVE Behind'
      BY <2>3, SMTT(30) DEF Add, Record, TypeOK, Behind, b
    <2>4. ASSUME NEW p \in Procs, Store(p) PROVE Behind'
      BY <2>4, Zenon DEF Store, stats, TypeOK, Behind, b
    <2>5. ASSUME NEW p \in Procs, CompareAndSwap(p) PROVE Behind'
      <3>1. CASE resetAt[b(p)] = old[p]
        <4>1. old[p] <= tn[p] + Tick
          BY <2>5 DEF CompareAndSwap, Expired, TypeOK
        <4>2. /\ resetAt' = [resetAt EXCEPT ![b(p)] = tn[p] + Tick]
              /\ calls' = [calls EXCEPT ![b(p)] = 1]
              /\ pc' = [pc EXCEPT ![p] = "idle"]
              /\ UNCHANGED <<now, steady, key, tn, old>>
          BY <2>5, <3>1, Zenon DEF CompareAndSwap, Open, Record
        <4>3. \A c \in Buckets : resetAt[c] <= resetAt'[c] /\ calls'[c] \in Nat
                /\ (calls[c] > 0 \/ resetAt'[c] # resetAt[c] => calls'[c] > 0)
          BY <2>5, <3>1, <4>1, <4>2 DEF CompareAndSwap, TypeOK
        <4>4. \A q \in Procs : old'[q] <= resetAt'[b(q)'] \/ pc'[q] \in {"idle", "load"}
          BY <4>2, <4>3 DEF Behind, TypeOK, b
        <4>5. \A q \in Procs : pc'[q] = "add" => calls'[b(q)'] > 0
          BY <4>2, <4>3, Zenon DEF Behind, TypeOK, b
        <4>6. \A q \in Procs : pc'[q] # "idle" => tn'[q] > 0
          BY <4>2, Zenon DEF Behind, TypeOK
        <4>7. \A c \in Buckets : resetAt'[c] > 0 => calls'[c] > 0
          BY <4>3, Zenon DEF Behind, TypeOK
        <4> QED BY <4>2, <4>4, <4>5, <4>6, <4>7, Zenon DEF Behind
      <3>2. CASE resetAt[b(p)] # old[p]
        BY <2>5, <3>2, SMTT(30) DEF CompareAndSwap, stats, TypeOK, Behind, b
      <3> QED BY Zenon, <3>1, <3>2
    <2>6. CASE Clock
      <3>1. steady' => steady /\ now' > now
        BY <2>6, Zenon DEF Clock
      <3>2. now \in Nat /\ now' \in Nat /\ UNCHANGED <<resetAt, pc, key, tn, old, calls>>
        BY <2>6, ClockAssumption DEF Clock, atomics, locals, TypeOK
      <3>3. steady' => \A p \in Procs : tn'[p] <= now'
        BY <3>1, <3>2 DEF Behind, TypeOK
      <3> QED BY <3>2, <3>3, Zenon DEF Behind, b
    <2>7. CASE UNCHANGED vars
      BY <2>7, Zenon DEF vars, atomics, locals, stats, Behind, b
    <2> QED BY <2>1, <2>2, <2>3, <2>4, <2>5, <2>6, <2>7, Zenon DEF Next, Step
  <1> QED BY <1>1, <1>2, TypeCorrect, ExpiredInvariant, PTL DEF Spec
-----------------------------------------------------------------------------
Decision == [key : Keys, at : Nat, sampled : BOOLEAN]

\* What a step adds to the history of the decisions.
LEMMA RecordAppends ==
  ASSUME Alone, NEW k \in Keys, NEW t \in Nat, NEW s \in BOOLEAN, Record(k, t, s)
  PROVE  /\ hist' \in Seq(Decision)
         /\ apart' = apart /\ steady' = steady
         /\ apart => hist' = Append(hist, [key |-> k, at |-> t, sampled |-> s])
  <1>1. [key |-> k, at |-> t, sampled |-> s] \in Decision
    BY Zenon DEF Decision
  <1>2. hist \in Seq(Decision)
    BY Zenon DEF Alone, Decision
  <1>3. hist' = hist \/ hist' = Append(hist, [key |-> k, at |-> t, sampled |-> s])
    BY Zenon DEF Record
  <1> QED BY <1>1, <1>2, <1>3 DEF Record

\* While no two calls overlap, the one under way is alone with the counter.
LEMMA AloneInvariant == Spec => []Alone
  <1> USE DEF Decision
  <1>1. Init => Alone
    BY DEF Init, Alone
  <1>2. TypeOK /\ Expired /\ Alone /\ [Next]_vars => Alone'
    <2> SUFFICES ASSUME TypeOK, Expired, Alone, [Next]_vars PROVE Alone'
      BY Zenon
    <2> DEFINE Private == \A p \in Procs :
                 /\ pc[p] # "idle" => \A q \in Procs : pc[q] # "idle" => q = p
                 /\ pc[p] = "add" => tn[p] < resetAt[b(p)]
                 /\ pc[p] \in {"store", "cas"} => old[p] = resetAt[b(p)]
                 /\ pc[p] = "cas" => counter[b(p)] = 1
    <2>0. apart => Private
      BY Zenon DEF Alone
    <2>1. ASSUME NEW p \in Procs, NEW k \in Keys, Check(p, k) PROVE Alone'
      <3>1. UNCHANGED <<resetAt, counter, old>>
        BY <2>1, Zenon DEF Check, atomics, locals
      <3>2. CASE k \notin EnabledKeys
        BY <2>1, <3>1, <3>2 DEF Check, Alone, locals, b
      <3>3. CASE k \in EnabledKeys /\ Bucket[k] = Unsampled
        <4>1. Record(k, now, TRUE) /\ UNCHANGED locals
          BY <2>1, <3>3, Zenon DEF Check
        <4>2. now \in Nat
          BY ClockAssumption DEF TypeOK
        <4>3. hist' \in Seq(Decision) /\ apart' = apart
          BY <4>1, <4>2, RecordAppends, ZenonT(30)
        <4>4. Private => Private'
          BY <4>1, <3>1, Zenon DEF locals, b
        <4> QED BY <2>0, <4>3, <4>4, Zenon DEF Alone
      <3>4. CASE k \in EnabledKeys /\ Bucket[k] # Unsampled
        <4>1. pc' = [pc EXCEPT ![p] = "load"] /\ Enter
          BY <2>1, <3>4, Zenon DEF Check
        <4>2. hist' \in Seq(Decision)
          BY <4>1 DEF Enter, Alone
        <4>3. apart' => \A q \in Procs : pc[q] = "idle"
          BY <4>1, Zenon DEF Enter
        <4>4. apart' => Private'
          BY <4>1, <4>3, Zenon DEF TypeOK
        <4> QED BY <4>2, <4>4, Zenon DEF Alone
      <3> QED BY Zenon, <3>2, <3>3, <3>4
    <2>2. ASSUME NEW p \in Procs, Load(p) PROVE Alone'
      <3>1. UNCHANGED <<hist, apart, resetAt, counter, key, tn>>
        BY <2>2, Zenon DEF Load, atomics, stats
      <3>2. apart => Private'
        BY <2>0, <2>2, <3>1, ZenonT(30) DEF Load, TypeOK, b
      <3> QED BY <3>1, <3>2, Zenon DEF Alone
    <2>3. ASSUME NEW p \in Procs, Add(p) PROVE Alone'
      <3>1. Record(key[p], tn[p], ~Drops(counter[b(p)] + 1))
        BY <2>3, Zenon DEF Add
      <3>2. key[p] \in Keys /\ tn[p] \in Nat
        BY Zenon DEF TypeOK
      <3>3. hist' \in Seq(Decision) /\ apart' = apart
        BY <3>1, <3>2, RecordAppends, Zenon
      <3>4. apart => Private'
        <4> HAVE apart
        <4>1. pc[p] = "add" /\ pc' = [pc EXCEPT ![p] = "idle"]
          BY <2>3, Zenon DEF Add
        <4>2. \A q \in Procs : pc[q] # "idle" => q = p
          BY Zenon, <2>0, <4>1
        <4> QED BY <4>1, <4>2, Zenon DEF TypeOK
      <3> QED BY <3>3, <3>4, Zenon DEF Alone
    <2>4. ASSUME NEW p \in Procs, Store(p) PROVE Alone'
      <3>1. UNCHANGED <<hist, apart, resetAt, key, tn, old>>
        BY <2>4, Zenon DEF Store, stats
      <3>2. apart => Private'
        BY <2>0, <2>4, <3>1 DEF Store, TypeOK, b
      <3> QED BY <3>1, <3>2, Zenon DEF Alone
    <2>5. ASSUME NEW p \in Procs, CompareAndSwap(p) PROVE Alone'
      <3>1. CASE resetAt[b(p)] = old[p]
        <4>1. Record(key[p], tn[p], ~Drops(1)) /\ pc[p] = "cas" /\ pc' = [pc EXCEPT ![p] = "idle"]
          BY <2>5, <3>1, Zenon DEF CompareAndSwap, Open
        <4>2. key[p] \in Keys /\ tn[p] \in Nat
          BY DEF TypeOK
        <4>3. hist' \in Seq(Decision) /\ apart' = apart
          BY <4>1, <4>2, RecordAppends, ZenonT(60)
        <4>4. apart => Private'
          BY <2>0, <4>1, ZenonT(60) DEF TypeOK
        <4> QED BY <4>3, <4>4 DEF Alone
      <3>2. CASE resetAt[b(p)] # old[p]
        <4>1. ~apart /\ UNCHANGED <<hist, apart>>
          BY <2>0, <2>5, <3>2, Zenon DEF CompareAndSwap, stats
        <4> QED BY <4>1, Zenon DEF Alone
      <3> QED BY <3>1, <3>2, Zenon
    <2>6. CASE Clock \/ UNCHANGED vars
      <3>1. UNCHANGED <<hist, apart, resetAt, counter, pc, key, tn, old>>
        BY <2>6, Zenon DEF Clock, vars, atomics, locals, stats
      <3> QED BY <3>1, Zenon DEF Alone, b
    <2> QED BY <2>1, <2>2, <2>3, <2>4, <2>5, <2>6, Zenon DEF Next, Step
  <1> QED BY <1>1, <1>2, TypeCorrect, ExpiredInvariant, PTL DEF Spec

\* The decisions of a counter, when one is added to the history.
LEMMA OfAppend ==
  ASSUME hist \in Seq(Decision), NEW e \in Decision, hist' = Append(hist, e), NEW c
  PROVE  /\ Len(hist) \in Nat
         /\ Of(c) \subseteq 1..Len(hist)
         /\ Of(c)' = IF Bucket[e.key] = c THEN Of(c) \cup {Len(hist) + 1} ELSE Of(c)
         /\ \A i \in Of(c) : hist'[i] = hist[i] /\ hist[i] \in Decision
         /\ hist'[Len(hist) + 1] = e
  <1>1. Len(hist) \in Nat /\ DOMAIN hist = 1..Len(hist)
    OBVIOUS
  <1>2. DOMAIN hist' = 1 .. Len(hist) + 1 /\ hist'[Len(hist) + 1] = e
    OBVIOUS
  <1>3. \A i \in 1..Len(hist) : hist'[i] = hist[i] /\ hist[i] \in Decision
    OBVIOUS
  <1>4. Of(c) \subseteq 1..Len(hist)
    BY <1>1, Zenon DEF Of
  <1>5. Of(c)' = {i \in 1 .. Len(hist) + 1 : Bucket[hist'[i].key] = c}
    BY <1>2, Zenon DEF Of
  <1>6. Of(c) = {i \in 1 .. Len(hist) : Bucket[hist[i].key] = c}
    BY <1>1, Zenon DEF Of
  <1>7. 1 .. Len(hist) + 1 = (1 .. Len(hist)) \cup {Len(hist) + 1}
    BY <1>1
  <1>8. Of(c)' = IF Bucket[e.key] = c THEN Of(c) \cup {Len(hist) + 1} ELSE Of(c)
    BY <1>2, <1>3, <1>5, <1>6, <1>7, SMTT(30)
  <1> QED BY Zenon, <1>1, <1>2, <1>3, <1>4, <1>8

\* A counter that a step is not about.
LEMMA MirrorsKept ==
  ASSUME NEW c \in Buckets, NEW B \in SUBSET Of(c), Mirrors(c, B),
         Of(c)' = Of(c), \A i \in Of(c) : hist'[i] = hist[i],
         resetAt'[c] = resetAt[c],
         (\A p \in Procs : pc'[p] = "cas" => b(p)' # c) =>
           counter'[c] = counter[c] /\ \A p \in Procs : pc[p] = "cas" => b(p) # c
  PROVE  Mirrors(c, B)'
  <1>1. Begins(c, B)'
    BY Zenon DEF Mirrors, Begins
  <1>2. \A i \in Of(c) : InTick(c, B, i)' = InTick(c, B, i)
    BY Zenon DEF InTick
  <1>3. (\A i \in Of(c) : hist[i].sampled <=> Logged(Cardinality(InTick(c, B, i))))'
    BY <1>2, Zenon DEF Mirrors
  <1>5. /\ (Of(c) = {} => resetAt[c] = 0)'
        /\ (\A m \in B : hist[m].at + Tick <= resetAt[c])'
    BY Zenon DEF Mirrors
  <1>6. ASSUME Of(c) # {}
        PROVE  \E m \in B :
                 /\ \A k \in B : k <= m
                 /\ resetAt'[c] = hist'[m].at + Tick
                 /\ (\A p \in Procs : pc'[p] = "cas" => b(p)' # c) =>
                      counter'[c] = Cardinality({j \in Of(c)' : m <= j})
    <2>1. PICK m \in B :
            /\ \A k \in B : k <= m
            /\ resetAt[c] = hist[m].at + Tick
            /\ (\A p \in Procs : pc[p] = "cas" => b(p) # c) =>
                 counter[c] = Cardinality({j \in Of(c) : m <= j})
      BY <1>6, Zenon DEF Mirrors
    <2>2. {j \in Of(c)' : m <= j} = {j \in Of(c) : m <= j}
      BY Zenon
    <2> QED BY <2>1, <2>2, Zenon
  <1> QED BY <1>1, <1>3, <1>5, <1>6, ZenonT(30) DEF Mirrors

\* Drops, said the other way round.
LEMMA DropsOrLogs == \A n \in Nat : ~Drops(n) <=> Logged(n)
  BY RatesAssumption DEF Drops, Logged

\* What the proofs about sequential calls use of cardinalities.
Counting ==
  /\ \A n \in Nat : Cardinality({n}) = 1
  /\ \A n \in Nat : \A S \in SUBSET (1 .. n) : Cardinality(S \cup {n + 1}) = Cardinality(S) + 1

\* A decision in the tick under way.
LEMMA MirrorsAdd ==
  ASSUME Counting, hist \in Seq(Decision), NEW e \in Decision, hist' = Append(hist, e),
         NEW c \in Buckets, Bucket[e.key] = c, NEW B \in SUBSET Of(c), Mirrors(c, B),
         e.at < resetAt[c], resetAt'[c] = resetAt[c],
         counter[c] \in Nat, counter'[c] = counter[c] + 1,
         e.sampled <=> ~Drops(counter[c] + 1),
         \A q \in Procs : pc[q] = "cas" => b(q) # c
  PROVE  B \in SUBSET (Of(c)') /\ Mirrors(c, B)'
  <1>0. PICK n \in Nat : n = Len(hist) + 1
    <2>1. Len(hist) \in Nat
      OBVIOUS
    <2> QED BY <2>1
  <1>1. /\ Len(hist) \in Nat
        /\ Of(c) \subseteq 1..Len(hist)
        /\ Of(c)' = Of(c) \cup {n}
        /\ \A i \in Of(c) : hist'[i] = hist[i] /\ hist[i] \in Decision
        /\ hist'[n] = e
    BY <1>0, OfAppend, Zenon
  <1>2. e.at \in Nat
    BY Zenon DEF Decision
  <1>3. PICK m \in B : /\ \A k \in B : k <= m
                       /\ resetAt[c] = hist[m].at + Tick
                       /\ counter[c] = Cardinality({j \in Of(c) : m <= j})
    <2>1. Of(c) # {}
      BY <1>2, SMTT(30) DEF Mirrors
    <2> QED BY <2>1, ZenonT(60) DEF Mirrors
  <1>4. n \in Nat /\ n \notin Of(c) /\ \A i \in Of(c) : i \in Nat /\ i < n
    BY <1>0, <1>1, SMTT(30)
  <1>5. Begins(c, B)'
    <2> SUFFICES ASSUME NEW i \in Of(c)'
                 PROVE  i \in B <=> \A k \in B : k < i => hist'[i].at >= hist'[k].at + Tick
      BY Zenon DEF Begins
    <2>1. CASE i \in Of(c)
      <3>1. i \in B <=> \A k \in B : k < i => hist[i].at >= hist[k].at + Tick
        BY <2>1, ZenonT(30) DEF Mirrors, Begins
      <3> QED BY <2>1, <3>1, <1>1, Zenon
    <2>2. CASE i = n
      <3>1. ~(hist'[i].at >= hist'[m].at + Tick)
        <4>1. hist'[m].at + Tick = resetAt[c] /\ hist'[i].at = e.at
          BY <1>1, <1>3, <2>2, Zenon
        <4>2. hist[m].at \in Nat
          BY <1>1, Zenon DEF Decision
        <4>3. resetAt[c] \in Nat /\ ~(e.at >= resetAt[c])
          BY <1>2, <1>3, <4>2, RatesAssumption, SMTT(30)
        <4> QED BY <4>1, <4>3, Zenon
      <3>2. i \notin B /\ m < i
        BY Zenon, <1>4, <2>2
      <3> QED BY <3>1, <3>2, Zenon
    <2> QED BY <2>1, <2>2, <1>1, Zenon
  <1>6. \A i \in Of(c) : InTick(c, B, i)' = InTick(c, B, i)
    <2> TAKE i \in Of(c)
    <2>1. ~(n <= i)
      BY <1>4, SMTT(30)
    <2> QED BY <2>1, <1>1, ZenonT(60) DEF InTick
  <1> DEFINE S == {j \in Of(c) : m <= j}
  <1>7. {j \in Of(c)' : m <= j} = S \cup {n}
    BY <1>1, <1>4
  <1>8. InTick(c, B, n)' = S \cup {n}
    <2>1. \A j \in Of(c)' : j <= n /\ ((\A k \in B : k <= n => k <= j) <=> m <= j)
      <3> TAKE j \in Of(c)'
      <3>1. j \in Nat /\ j <= n
        BY <1>1, <1>4, SMTT(30)
      <3>2. \A k \in B : k \in Nat /\ k <= n /\ k <= m
        BY <1>3, <1>4
      <3>3. m \in Nat
        BY <1>4, Zenon
      <3>4. (\A k \in B : k <= n => k <= j) => m <= j
        BY <3>2, Zenon
      <3>5. ASSUME m <= j, NEW k \in B PROVE k <= j
        BY <3>1, <3>2, <3>3, <3>5
      <3> QED BY <3>1, <3>4, <3>5, Zenon
    <2> QED BY <2>1, <1>7, Zenon DEF InTick
  <1>9. Cardinality(S \cup {n}) = counter[c] + 1
    <2>1. S \subseteq 1..Len(hist) /\ n \notin S
      BY Zenon, <1>1, <1>4
    <2>2. Cardinality(S \cup {n}) = Cardinality(S) + 1
      BY <1>0, <1>1, <2>1, ZenonT(60) DEF Counting
    <2> QED BY <1>3, <2>2, ZenonT(60)
  <1>10. (\A i \in Of(c) : hist[i].sampled <=> Logged(Cardinality(InTick(c, B, i))))'
    <2> SUFFICES ASSUME NEW i \in Of(c)'
                 PROVE  hist'[i].sampled <=> Logged(Cardinality(InTick(c, B, i)'))
      BY Zenon DEF Logged
    <2>1. CASE i \in Of(c)
      BY <2>1, <1>1, <1>6, ZenonT(30) DEF Mirrors
    <2>2. CASE i = n
      <3>1. e.sampled <=> Logged(counter[c] + 1)
        BY DropsOrLogs, SMTT(30)
      <3> QED BY <2>2, <3>1, <1>1, <1>8, <1>9, ZenonT(30)
    <2> QED BY <2>1, <2>2, <1>1, ZenonT(30)
  <1>11. \A k \in B : hist'[k].at + Tick <= resetAt'[c]
    BY <1>1, ZenonT(30) DEF Mirrors
  <1>12. resetAt'[c] = hist'[m].at + Tick /\ counter'[c] = Cardinality({j \in Of(c)' : m <= j})
    BY <1>1, <1>3, <1>7, <1>9, ZenonT(30)
  <1>13. Of(c)' # {} /\ B \in SUBSET (Of(c)')
    BY Zenon, <1>1
  <1> QED BY <1>3, <1>5, <1>10, <1>11, <1>12, <1>13, ZenonT(60) DEF Mirrors

\* The decision that opens a tick.
LEMMA MirrorsOpen ==
  ASSUME Counting, hist \in Seq(Decision), NEW e \in Decision, hist' = Append(hist, e),
         NEW c \in Buckets, Bucket[e.key] = c, NEW B \in SUBSET Of(c), Mirrors(c, B),
         resetAt[c] <= e.at, resetAt[c] \in Nat, resetAt'[c] = e.at + Tick,
         counter'[c] = 1, e.sampled <=> ~Drops(1)
  PROVE  \E A \in SUBSET (Of(c)') : Mirrors(c, A)'
  <1>0. PICK n \in Nat : n = Len(hist) + 1
    <2>1. Len(hist) \in Nat
      BY SMTT(30)
    <2> QED BY <2>1
  <1> DEFINE A == B \cup {n}
  <1>1. /\ Len(hist) \in Nat
        /\ Of(c) \subseteq 1..Len(hist)
        /\ Of(c)' = Of(c) \cup {n}
        /\ \A i \in Of(c) : hist'[i] = hist[i] /\ hist[i] \in Decision
        /\ hist'[n] = e
    BY Zenon, <1>0, OfAppend
  <1>2. e.at \in Nat /\ Tick \in Nat
    BY RatesAssumption, Zenon DEF Decision
  <1>4. n \in Nat /\ n \notin Of(c) /\ \A i \in Of(c) : i \in Nat /\ i < n
    BY <1>0, <1>1, SMTT(30)
  <1>3. A \in SUBSET (Of(c)')
    BY <1>1, Zenon
  <1>5. \A k \in B : hist'[k].at \in Nat /\ hist'[k].at + Tick <= resetAt[c]
    BY <1>1, Zenon DEF Mirrors, Decision
  <1>a. \A k \in B : e.at >= hist'[k].at + Tick /\ hist'[k].at + Tick <= e.at + Tick
    <2> TAKE k \in B
    <2>1. PICK h \in Nat : h = hist'[k].at /\ h + Tick <= resetAt[c]
      BY <1>5, ZenonT(60)
    <2>2. \A r, t, k1 \in Nat : h + k1 <= r /\ r <= t => t >= h + k1 /\ h + k1 <= t + k1
      OBVIOUS
    <2>3. e.at >= h + Tick /\ h + Tick <= e.at + Tick
      BY <2>1, <2>2, <1>2, Zenon
    <2> QED BY <2>1, <2>3, Zenon
  <1>6. Begins(c, A)'
    <2> SUFFICES ASSUME NEW i \in Of(c)'
                 PROVE  i \in A <=> \A k \in A : k < i => hist'[i].at >= hist'[k].at + Tick
      BY Zenon DEF Begins
    <2>1. CASE i \in Of(c)
      <3>1. i \in B <=> \A k \in B : k < i => hist[i].at >= hist[k].at + Tick
        BY <2>1, Zenon DEF Mirrors, Begins
      <3>2. i # n /\ ~(n < i)
        BY <2>1, <1>4
      <3> QED BY <2>1, <3>1, <3>2, <1>1, Zenon
    <2>2. CASE i = n
      <3>1. hist'[i].at = e.at /\ ~(n < n) /\ i \in A
        BY <2>2, <1>1, <1>4
      <3>2. \A k \in B : e.at >= hist'[k].at + Tick
        BY <1>a, Zenon
      <3> QED BY <2>2, <3>1, <3>2, Zenon
    <2> QED BY <2>1, <2>2, <1>1, Zenon
  <1>7. \A i \in Of(c) : InTick(c, A, i)' = InTick(c, B, i)
    <2> TAKE i \in Of(c)
    <2>1. ~(n <= i)
      BY <1>4, SMTT(30)
    <2> QED BY <2>1, <1>1, Zenon DEF InTick
  <1>8. \A j \in Of(c)' : n <= j <=> j = n
    BY <1>1, <1>4
  <1>9. InTick(c, A, n)' = {n} /\ {j \in Of(c)' : n <= j} = {n}
    <2>1. {j \in Of(c)' : n <= j} = {n}
      BY Zenon, <1>1, <1>8
    <2>2. n \in InTick(c, A, n)'
      BY <1>1, <1>4, SMTT(30) DEF InTick
    <2>3. InTick(c, A, n)' \subseteq {n}
      BY <1>4, <1>8, SMTT(30) DEF InTick
    <2> QED BY <2>1, <2>2, <2>3, ZenonT(30)
  <1>10. Cardinality({n}) = 1
    BY Zenon DEF Counting
  <1>11. (\A i \in Of(c) : hist[i].sampled <=> Logged(Cardinality(InTick(c, A, i))))'
    <2> SUFFICES ASSUME NEW i \in Of(c)'
                 PROVE  hist'[i].sampled <=> Logged(Cardinality(InTick(c, A, i)'))
      BY ZenonT(30) DEF Logged
    <2>1. CASE i \in Of(c)
      BY <2>1, <1>1, <1>7, Zenon DEF Mirrors
    <2>2. CASE i = n
      <3>1. e.sampled <=> Logged(1)
        BY DropsOrLogs, Zenon
      <3> QED BY <2>2, <3>1, <1>1, <1>9, <1>10, ZenonT(30)
    <2> QED BY <2>1, <2>2, <1>1, Zenon
  <1>12. \A k \in A : hist'[k].at + Tick <= resetAt'[c]
    <2>1. \A k \in B : hist'[k].at + Tick <= resetAt'[c]
      BY <1>a, Zenon
    <2>2. hist'[n].at + Tick <= resetAt'[c]
      <3>1. hist'[n].at = e.at /\ e.at + Tick <= e.at + Tick
        BY <1>1, <1>2
      <3> QED BY Zenon, <3>1
    <2> QED BY <2>1, <2>2, Zenon
  <1>13. (\A k \in A : k <= n) /\ n \in A
    BY <1>4, SMTT(30)
  <1>14. Of(c)' # {}
    BY <1>1, Zenon
  <1>15. Mirrors(c, A)'
    BY <1>1, <1>6, <1>9, <1>10, <1>11, <1>12, <1>13, <1>14, ZenonT(60) DEF Mirrors
  <1> QED BY Zenon, <1>3, <1>15

\* No counter has been used at the start.
LEMMA MirroredInit == Init => Mirrored
  <1> SUFFICES ASSUME Init, NEW c \in Buckets PROVE \E B \in SUBSET Of(c) : Mirrors(c, B)
    BY Zenon DEF Mirrored
  <1>1. Of(c) = {}
    BY DEF Init, Of
  <1>2. Mirrors(c, {})
    BY <1>1, Zenon DEF Init, Mirrors, Begins
  <1> QED BY Zenon, <1>2

\* While no two calls overlap, every counter stays that of a sequential sampler.
LEMMA MirroredStep ==
  ASSUME Counting PROVE TypeOK /\ Expired /\ Alone /\ Mirrored /\ [Next]_vars => Mirrored'
  <1> SUFFICES ASSUME TypeOK, Expired, Alone, Mirrored, [Next]_vars, apart', NEW c \in Buckets
               PROVE  \E B \in SUBSET (Of(c)') : Mirrors(c, B)'
    BY Zenon DEF Mirrored
  <1>1. hist \in Seq(Decision)
    BY Zenon DEF Alone, Decision
  <1>2. apart
    BY Zenon DEF Next, Step, Check, Load, Add, Store, CompareAndSwap, Open, Record, Enter, Clock, stats, vars
  <1>3. PICK B \in SUBSET Of(c) : Mirrors(c, B)
    BY <1>2, Zenon DEF Mirrored
  <1>4. ASSUME hist' = hist, resetAt'[c] = resetAt[c],
               (\A p \in Procs : pc'[p] = "cas" => b(p)' # c) =>
                 counter'[c] = counter[c] /\ \A p \in Procs : pc[p] = "cas" => b(p) # c
        PROVE  \E A \in SUBSET (Of(c)') : Mirrors(c, A)'
    <2>1. Of(c)' = Of(c) /\ \A i \in Of(c) : hist'[i] = hist[i]
      BY <1>4, ZenonT(30) DEF Of
    <2>2. Mirrors(c, B)'
      BY <1>3, <1>4, <2>1, MirrorsKept, ZenonT(30)
    <2> QED BY <2>1, <2>2, Zenon
  <1>5. ASSUME NEW e \in Decision, hist' = Append(hist, e), Bucket[e.key] # c,
               resetAt'[c] = resetAt[c],
               (\A p \in Procs : pc'[p] = "cas" => b(p)' # c) =>
                 counter'[c] = counter[c] /\ \A p \in Procs : pc[p] = "cas" => b(p) # c
        PROVE  \E A \in SUBSET (Of(c)') : Mirrors(c, A)'
    <2>1. Of(c)' = Of(c) /\ \A i \in Of(c) : hist'[i] = hist[i]
      BY <1>1, <1>5, OfAppend, SMTT(30)
    <2>2. Mirrors(c, B)'
      BY <1>3, <1>5, <2>1, MirrorsKept, Zenon
    <2> QED BY <2>1, <2>2, ZenonT(60)
  <1> DEFINE Goal == \E A \in SUBSET (Of(c)') : Mirrors(c, A)'
  <1> HIDE DEF Goal
  <1>6. ASSUME NEW p \in Procs, NEW k \in Keys, Check(p, k) PROVE Goal
    <2>1. /\ UNCHANGED <<resetAt, counter>>
          /\ \A q \in Procs : pc'[q] = "cas" \/ pc[q] = "cas" => pc'[q] = pc[q] /\ key'[q] = key[q]
      BY <1>6, Quiet, ZenonT(30)
    <2>2. (\A q \in Procs : pc'[q] = "cas" => b(q)' # c) =>
             counter'[c] = counter[c] /\ \A q \in Procs : pc[q] = "cas" => b(q) # c
      BY <2>1, ZenonT(30) DEF b
    <2>3. CASE k \in EnabledKeys /\ Bucket[k] = Unsampled
      <3>0. now \in Nat
        BY ClockAssumption DEF TypeOK
      <3>1. Record(k, now, TRUE)
        BY <1>6, <2>3, Zenon DEF Check
      <3> DEFINE e == [key |-> k, at |-> now, sampled |-> TRUE]
      <3>2. hist' = Append(hist, e)
        BY <1>2, <3>1, Zenon DEF Record
      <3>3. e \in Decision /\ Bucket[e.key] # c
        BY <2>3, <3>0, BucketAssumption, Zenon DEF Decision
      <3> QED BY <1>5, <2>1, <2>2, <3>2, <3>3, Zenon DEF Goal
    <2>4. CASE ~(k \in EnabledKeys /\ Bucket[k] = Unsampled)
      <3>1. hist' = hist
        BY <1>6, <2>4, ZenonT(30) DEF Check, Enter
      <3> QED BY <1>4, <2>1, <2>2, <3>1, Zenon DEF Goal
    <2> QED BY Zenon, <2>3, <2>4
  <1>7. ASSUME NEW p \in Procs, Load(p) PROVE Goal
    <2>1. /\ hist' = hist /\ UNCHANGED <<resetAt, counter>>
          /\ \A q \in Procs : pc[q] = "cas" => pc'[q] = "cas" /\ b(q)' = b(q)
      BY <1>7, Zenon DEF Load, atomics, stats, TypeOK, b
    <2> QED BY <1>4, <2>1, Zenon DEF Goal
  <1>8. ASSUME NEW p \in Procs, Add(p) PROVE Goal
    <2> DEFINE e == [key |-> key[p], at |-> tn[p], sampled |-> ~Drops(counter[b(p)] + 1)]
    <2>1. hist' = Append(hist, e) /\ resetAt'[c] = resetAt[c]
      BY <1>2, <1>8, Zenon DEF Add, Record
    <2>2. e \in Decision
      BY ZenonT(30) DEF Decision, TypeOK
    <2>3. \A q \in Procs : pc[q] # "cas"
      BY <1>2, <1>8, Zenon DEF Alone, Add
    <2>4. CASE b(p) = c
      <3>1. tn[p] < resetAt[c]
        <4>1. pc[p] = "add"
          BY <1>8, Zenon DEF Add
        <4>2. tn[p] < resetAt[b(p)]
          BY <1>2, <4>1, Zenon DEF Alone
        <4> QED BY <2>4, <4>2, Zenon
      <3>2. counter[c] \in Nat /\ counter'[c] = counter[c] + 1
        BY <1>8, <2>4, Zenon DEF Add, TypeOK
      <3>3. e.at = tn[p] /\ Bucket[e.key] = c
        BY <2>4, Zenon DEF b
      <3>4. e.sampled <=> ~Drops(counter[c] + 1)
        BY <2>4, Zenon
      <3> HIDE DEF e
      <3>5. B \in SUBSET (Of(c)') /\ Mirrors(c, B)'
        BY <1>1, <1>3, <2>1, <2>2, <2>3, <3>1, <3>2, <3>3, <3>4, MirrorsAdd, ZenonT(30)
      <3> QED BY <3>5, Zenon DEF Goal
    <2>5. CASE b(p) # c
      <3>1. counter'[c] = counter[c]
        BY <1>8, <2>5, Zenon DEF Add, TypeOK
      <3>2. Bucket[e.key] # c
        BY <2>5, Zenon DEF b
      <3> HIDE DEF e
      <3> QED BY <1>5, <2>1, <2>2, <2>3, <3>1, <3>2, ZenonT(30) DEF Goal
    <2> QED BY <2>4, <2>5, Zenon
  <1>9. ASSUME NEW p \in Procs, Store(p) PROVE Goal
    <2>1. hist' = hist /\ resetAt' = resetAt
      BY <1>9, ZenonT(30) DEF Store, stats
    <2>2. /\ pc'[p] = "cas" /\ b(p)' = b(p) /\ pc[p] # "cas"
          /\ \A q \in Procs \ {p} : pc'[q] = pc[q] /\ b(q)' = b(q)
      BY <1>9, Zenon DEF Store, TypeOK, b
    <2>3. b(p) # c => counter'[c] = counter[c]
      BY <1>9, Zenon DEF Store, TypeOK
    <2> QED BY <1>4, <2>1, <2>2, <2>3, ZenonT(30) DEF Goal
  <1>10. ASSUME NEW p \in Procs, CompareAndSwap(p) PROVE Goal
    <2>1. resetAt[b(p)] = old[p] /\ pc[p] = "cas" /\ counter[b(p)] = 1 /\ old[p] <= tn[p]
      BY <1>2, <1>10, Zenon DEF CompareAndSwap, Alone, Expired
    <2> DEFINE e == [key |-> key[p], at |-> tn[p], sampled |-> ~Drops(1)]
    <2>2. hist' = Append(hist, e)
      BY <1>2, <1>10, <2>1, ZenonT(30) DEF CompareAndSwap, Open, Record
    <2>3. e \in Decision
      BY ZenonT(30) DEF Decision, TypeOK
    <2>4. resetAt' = [resetAt EXCEPT ![b(p)] = tn[p] + Tick] /\ counter' = counter
      BY <1>10, <2>1, ZenonT(30) DEF CompareAndSwap, Open
    <2>5. CASE b(p) = c
      <3>1. resetAt[c] <= tn[p] /\ resetAt[c] \in Nat /\ resetAt'[c] = tn[p] + Tick /\ counter'[c] = 1
        BY <2>1, <2>4, <2>5, Zenon DEF TypeOK
      <3>2. e.at = tn[p] /\ Bucket[e.key] = c
        BY <2>5, Zenon DEF b
      <3>3. e.sampled <=> ~Drops(1)
        BY Zenon
      <3> HIDE DEF e
      <3> QED BY <1>1, <1>3, <2>2, <2>3, <3>1, <3>2, <3>3, MirrorsOpen, ZenonT(30) DEF Goal
    <2>6. CASE b(p) # c
      <3>1. resetAt'[c] = resetAt[c] /\ counter'[c] = counter[c]
        BY <2>4, <2>6, Zenon DEF TypeOK
      <3>2. Bucket[e.key] # c
        BY <2>6, Zenon DEF b
      <3>3. \A q \in Procs : pc[q] = "cas" => b(q) # c
        BY <1>2, <2>1, <2>6, Zenon DEF Alone
      <3> HIDE DEF e
      <3> QED BY <1>5, <2>2, <2>3, <3>1, <3>2, <3>3, Zenon DEF Goal
    <2> QED BY <2>5, <2>6
  <1>11. ASSUME Clock \/ UNCHANGED vars PROVE Goal
    <2>1. UNCHANGED <<hist, resetAt, counter, pc, key>>
      BY <1>11, Zenon DEF Clock, vars, atomics, locals, stats
    <2> QED BY <1>4, <2>1, Zenon DEF Goal, b
  <1>12. Goal
    BY <1>6, <1>7, <1>8, <1>9, <1>10, <1>11, ZenonT(60) DEF Next, Step
  <1> QED BY <1>12, Zenon DEF Goal
-----------------------------------------------------------------------------
(* The entries admitted.  The steps are proved from what they need of the  *)
(* cardinalities (ResetSizes, CallSizes, Counting), which the last section *)
(* shows to hold.                                                          *)

Budget ==
  \A c \in Buckets :
    admitted[c] <= IF First = 0 THEN 0
                   ELSE 1 + Cardinality(resets[c]) * (First - 1) + Extra(counter[c])

\* The calls that may yet add to counter c before its tick ends.
MayAdd(c) ==
  {q \in Procs : /\ pc[q] # "idle" /\ b(q) = c
                 /\ \/ pc[q] = "add"
                    \/ pc[q] = "load" /\ tn[q] < resetAt[c]
                    \/ pc[q] \in {"store", "cas"} /\ old[q] # resetAt[c]}

\* While a goroutine races to open a tick no new call adds to the old one, so that
\* what the counter is ahead by stays within the number of the other goroutines.
Ahead ==
  steady => \A c \in Buckets : \A p \in Procs : pc[p] = "cas" /\ b(p) = c /\ old[p] = resetAt[c] =>
    counter[c] + Cardinality(MayAdd(c)) <= Cardinality(Procs)

\* What the counter was ahead by at the beginning is all that a tick can lose.
Loss ==
  /\ \A c \in Buckets : First > 0 /\ calls[c] > 0 => admitted[c] > 0
  /\ steady => \A c \in Buckets : calls[c] > 0 =>
       \/ admitted[c] >= First - (Cardinality(Procs) - 1)
       \/ admitted[c] >= counter[c] - (Cardinality(Procs) - 1) /\ admitted[c] >= calls[c]

\* A reset is the early or the late one of a goroutine, so that a tick has at most
\* two for each of them.
ResetSizes ==
  /\ Cardinality({}) = 0
  /\ \A R \in SUBSET (Procs \X {"early", "late"}) :
       /\ Cardinality(R) \in Nat /\ Cardinality(R) <= 2 * Cardinality(Procs)
       /\ \A x \in (Procs \X {"early", "late"}) \ R : Cardinality(R \cup {x}) = Cardinality(R) + 1

\* How many calls, among the goroutines that there are, a set of calls has.
CallSizes ==
  /\ Cardinality(Procs) \in Nat /\ (Procs # {} => Cardinality(Procs) > 0)
  /\ \A S \in SUBSET Procs :
       /\ Cardinality(S) \in Nat
       /\ \A T \in SUBSET S : Cardinality(T) <= Cardinality(S)
       /\ \A p \in S : Cardinality(S \ {p}) = Cardinality(S) - 1
       /\ \A p \in Procs \ S : Cardinality(S) <= Cardinality(Procs) - 1
-----------------------------------------------------------------------------
\* Every batch of admitted entries beyond the first needs one more reset.
LEMMA BudgetStep ==
  ASSUME ResetSizes PROVE TypeOK /\ Counted /\ Once /\ Budget /\ TypeOK' /\ [Next]_vars => Budget'
  <1> SUFFICES ASSUME TypeOK, Counted, Once, Budget, TypeOK', [Next]_vars,
                      NEW c \in Buckets
               PROVE  admitted'[c] <= IF First = 0 THEN 0 ELSE
                        1 + Cardinality(resets'[c]) * (First - 1) + Extra(counter'[c])
    BY Zenon DEF Budget
  <1> DEFINE Bound(a, k, n) == a <= IF First = 0 THEN 0
                                    ELSE 1 + k * (First - 1) + Extra(n)
             Goal == Bound(admitted'[c], Cardinality(resets'[c]), counter'[c])
  <1>0. /\ Bound(admitted[c], Cardinality(resets[c]), counter[c])
        /\ admitted[c] \in Nat /\ counter[c] \in Nat
        /\ resets[c] \in SUBSET (Procs \X {"early", "late"}) /\ First \in Nat
    BY RatesAssumption, Zenon DEF Budget, TypeOK
  <1>r. Cardinality(resets[c]) \in Nat
    BY <1>0, Zenon DEF ResetSizes
  <1>1. CASE admitted'[c] = admitted[c] /\ resets'[c] = resets[c] /\ counter'[c] = counter[c]
    BY Zenon, <1>0, <1>1
  <1>2. ASSUME NEW p \in Procs, Add(p), b(p) = c
        PROVE  Goal
    <2>1. /\ counter'[c] = counter[c] + 1 /\ resets' = resets
          /\ admitted'[c] = IF counter[c] + 1 > First THEN admitted[c] ELSE admitted[c] + 1
          /\ counter[c] >= 1
      BY <1>2, Zenon DEF Add, Count, TypeOK, Counted
    <2>3. CASE counter[c] + 1 > First
      <3>1. admitted'[c] = admitted[c]
        BY Zenon, <2>1, <2>3
      <3>2. First # 0 => Extra(counter[c] + 1) = Extra(counter[c])
        BY <1>0, <2>1, <2>3 DEF Extra
      <3> QED
        BY Zenon, <1>0, <2>1, <3>1, <3>2
    <2>4. CASE ~(counter[c] + 1 > First)
      <3>1. admitted'[c] = admitted[c] + 1 /\ First # 0
        BY <1>0, <2>1, <2>4
      <3>2. Extra(counter[c] + 1) = Extra(counter[c]) + 1
        BY <1>0, <2>1, <2>4 DEF Extra
      <3>3. Extra(counter[c]) \in Nat /\ Cardinality(resets[c]) * (First - 1) \in Nat
        BY <1>0, <1>r, <3>1, ExtraBounds
      <3> HIDE DEF Extra
      <3> QED
        BY <1>0, <2>1, <3>1, <3>2, <3>3
    <2> QED
      BY Zenon, <2>3, <2>4
  <1>3. ASSUME NEW p \in Procs, Store(p), b(p) = c
        PROVE  Goal
    <2>1. /\ counter'[c] = 1 /\ admitted' = admitted
          /\ resets'[c] = resets[c] \cup {<<p, Kind(p)>>}
          /\ <<p, Kind(p)>> \notin resets[c]
      BY <1>3, Zenon DEF Store, stats, TypeOK, Once, Kind
    <2>2. Cardinality(resets'[c]) = Cardinality(resets[c]) + 1
      <3>1. <<p, Kind(p)>> \in Procs \X {"early", "late"}
        BY Zenon DEF Kind
      <3> QED BY <1>0, <2>1, <3>1, Zenon DEF ResetSizes
    <2>3. CASE First = 0
      BY Zenon, <1>0, <2>1, <2>3
    <2>4. CASE First # 0
      <3>1. Extra(1) \in 0..(First - 1) /\ Extra(counter[c]) \in 0..(First - 1)
        BY Zenon, <1>0, <2>4, ExtraBounds
      <3> DEFINE k == Cardinality(resets[c])
                 f == First - 1
      <3>2. k \in Nat /\ f \in Nat /\ k * f \in Nat
        BY <1>0, <1>r, <2>4
      <3>3. (k + 1) * f = k * f + f
        BY <3>2
      <3> QED
        BY <1>0, <2>1, <2>2, <2>4, <3>1, <3>2, <3>3
    <2> QED
      BY Zenon, <2>3, <2>4
  <1>4. ASSUME NEW p \in Procs, CompareAndSwap(p), resetAt[b(p)] = old[p], b(p) = c
        PROVE  Goal
    <2>1. /\ counter' = counter /\ resets'[c] = {}
          /\ admitted'[c] = IF 1 > First THEN 0 ELSE 1
      BY <1>4, Zenon DEF CompareAndSwap, Open, TypeOK
    <2>2. Cardinality(resets'[c]) = 0
      BY <2>1, Zenon DEF ResetSizes
    <2>3. CASE First = 0
      BY <1>0, <2>1, <2>3
    <2>4. CASE First # 0
      <3>1. admitted'[c] \in {0, 1} /\ Extra(counter[c]) \in Nat
        BY <1>0, <2>1, <2>4, ExtraBounds
      <3> QED
        BY <1>0, <2>1, <2>2, <2>4, <3>1
    <2> QED
      BY Zenon, <2>3, <2>4
  <1>5. ASSUME NEW p \in Procs, b(p) # c, Add(p) \/ Store(p) \/ CompareAndSwap(p)
        PROVE  Goal
    <2>1. admitted'[c] = admitted[c] /\ resets'[c] = resets[c] /\ counter'[c] = counter[c]
      BY <1>5 DEF Add, Count, Store, CompareAndSwap, Open, stats, TypeOK
    <2> QED
      BY ZenonT(60), <1>1, <2>1
  <1>6. ASSUME NEW p \in Procs, CompareAndSwap(p), resetAt[b(p)] # old[p]
        PROVE  Goal
    BY <1>1, <1>6, Zenon DEF CompareAndSwap, stats
  <1>7. ASSUME NEW p \in Procs, Load(p)
        PROVE  Goal
    BY <1>1, <1>7, Zenon DEF Load, atomics, stats
  <1>8. CASE \/ \E p \in Procs, k \in Keys : Check(p, k)
             \/ Clock
             \/ UNCHANGED vars
    BY Zenon, <1>1, <1>8, Quiet
  <1> QED
    BY <1>2, <1>3, <1>4, <1>5, <1>6, <1>7, <1>8, Zenon DEF Next, Step

-----------------------------------------------------------------------------
\* How far a counter is ahead when a tick is opened.
LEMMA AheadStep ==
  ASSUME CallSizes PROVE TypeOK /\ Expired /\ Behind /\ TypeOK' /\ Ahead /\ [Next]_vars => Ahead'
  <1> SUFFICES ASSUME TypeOK, Expired, Behind, TypeOK', Ahead, [Next]_vars, steady',
                      NEW c \in Buckets,
                      NEW p \in Procs, pc'[p] = "cas", b(p)' = c, old'[p] = resetAt'[c]
               PROVE  counter'[c] + Cardinality(MayAdd(c)') <= Cardinality(Procs)
    BY Zenon DEF Ahead
  <1> DEFINE N == Cardinality(Procs)
  <1>1. MayAdd(c) \in SUBSET Procs /\ MayAdd(c)' \in SUBSET Procs
    BY Zenon DEF MayAdd
  <1>2. counter[c] \in Nat /\ counter'[c] \in Nat /\ N \in Nat
    BY ZenonT(60) DEF TypeOK, CallSizes
  <1>3. ASSUME pc[p] = "cas", b(p) = c, old[p] = resetAt[c], steady,
               counter'[c] = counter[c], MayAdd(c)' \subseteq MayAdd(c)
        PROVE  counter'[c] + Cardinality(MayAdd(c)') <= N
    <2>1. counter[c] + Cardinality(MayAdd(c)) <= N
      BY <1>3, Zenon DEF Ahead
    <2>2. /\ Cardinality(MayAdd(c)') <= Cardinality(MayAdd(c))
          /\ Cardinality(MayAdd(c)') \in Nat /\ Cardinality(MayAdd(c)) \in Nat
      BY <1>1, <1>3, Zenon DEF CallSizes
    <2> QED BY <1>2, <1>3, <2>1, <2>2, SMTT(30)
  <1>4. ASSUME NEW q \in Procs, NEW k \in Keys, Check(q, k)
        PROVE  counter'[c] + Cardinality(MayAdd(c)') <= N
    <2>1. /\ UNCHANGED <<resetAt, counter, calls, admitted, resets, old>>
          /\ \A r \in Procs : pc'[r] \in {"add", "store", "cas"} \/ pc[r] \in {"add", "store", "cas"} =>
               pc'[r] = pc[r] /\ tn'[r] = tn[r] /\ key'[r] = key[r]
      BY Zenon, <1>4, Quiet
    <2>2. steady = steady'
      BY <1>4, Zenon DEF Check, Record, Enter
    <2>3. pc[p] = "cas" /\ b(p) = c /\ old[p] = resetAt[c]
      BY <2>1, ZenonT(60) DEF b
    <2>4. resetAt[c] <= now
      <3>1. old[p] <= tn[p] /\ tn[p] <= now
        BY <2>2, <2>3, Zenon DEF Behind, Expired
      <3>2. old[p] \in Nat /\ tn[p] \in Nat /\ now \in Nat
        BY ClockAssumption DEF TypeOK
      <3> QED BY <2>3, <3>1, <3>2
    <2>5. MayAdd(c)' \subseteq MayAdd(c)
      <3> SUFFICES ASSUME NEW r \in MayAdd(c)' PROVE r \in MayAdd(c)
        BY Zenon
      <3>1. r \in Procs
        BY Zenon DEF MayAdd
      <3>2. CASE pc'[r] = "load" /\ pc[r] = "load"
        <4>1. pc'[r] = pc[r] /\ tn'[r] = tn[r] /\ key'[r] = key[r]
          BY <1>4, <3>1, <3>2, ZenonT(60) DEF Check, TypeOK, locals
        <4> QED BY <4>1, <2>1, Zenon DEF MayAdd, b
      <3>3. CASE pc'[r] = "load" /\ pc[r] # "load"
        <4>1. tn'[r] = now
          BY <1>4, <3>1, <3>3, ZenonT(60) DEF Check, TypeOK, locals
        <4> QED BY <4>1, <3>3, <2>1, <2>4 DEF MayAdd, TypeOK
      <3>4. CASE pc'[r] # "load"
        BY <3>1, <3>4, <2>1, Zenon DEF MayAdd, b
      <3> QED BY Zenon, <3>2, <3>3, <3>4
    <2> QED BY ZenonT(30), <1>3, <2>1, <2>2, <2>3, <2>5
  <1>5. CASE Clock \/ UNCHANGED vars
    <2>1. UNCHANGED <<atomics, locals>> /\ steady
      BY <1>5, Zenon DEF Clock, vars, stats
    <2>2. MayAdd(c)' = MayAdd(c)
      BY <2>1, Zenon DEF MayAdd, b, atomics, locals
    <2> QED BY <1>3, <2>1, <2>2, Zenon DEF atomics, locals, b
  <1>6. ASSUME NEW q \in Procs, Load(q)
        PROVE  counter'[c] + Cardinality(MayAdd(c)') <= N
    <2>1. pc[p] = "cas" /\ b(p) = c /\ old[p] = resetAt[c] /\ steady /\ counter'[c] = counter[c]
      BY <1>6, ZenonT(30) DEF Load, TypeOK, b, atomics, stats
    <2>2. MayAdd(c)' \subseteq MayAdd(c)
      BY <1>6, ZenonT(30) DEF Load, MayAdd, TypeOK, b, atomics
    <2> QED BY Zenon, <1>3, <2>1, <2>2
  <1>7. ASSUME NEW q \in Procs, Add(q)
        PROVE  counter'[c] + Cardinality(MayAdd(c)') <= N
    <2>1. pc[p] = "cas" /\ b(p) = c /\ old[p] = resetAt[c] /\ steady
      BY <1>7, Zenon DEF Add, TypeOK, b, Record
    <2>2. MayAdd(c)' = MayAdd(c) \ {q}
      BY <1>7, Zenon DEF Add, MayAdd, TypeOK, b
    <2>3. CASE b(q) = c
      <3>1. counter'[c] = counter[c] + 1 /\ q \in MayAdd(c)
        BY <1>7, <2>3, ZenonT(30) DEF Add, MayAdd, TypeOK
      <3>2. Cardinality(MayAdd(c)) \in Nat
        BY <1>1, Zenon DEF CallSizes
      <3>3. Cardinality(MayAdd(c)') = Cardinality(MayAdd(c)) - 1
        BY <1>1, <2>2, <3>1, Zenon DEF CallSizes
      <3>4. counter[c] + Cardinality(MayAdd(c)) <= N
        BY <2>1, Zenon DEF Ahead
      <3> QED BY <1>2, <3>1, <3>2, <3>3, <3>4
    <2>4. CASE b(q) # c
      <3>1. counter'[c] = counter[c]
        BY <1>7, <2>4, ZenonT(30) DEF Add, TypeOK
      <3> QED BY Zenon, <1>3, <2>1, <2>2, <3>1
    <2> QED BY <2>3, <2>4, Zenon
  <1>8. ASSUME NEW q \in Procs, Store(q)
        PROVE  counter'[c] + Cardinality(MayAdd(c)') <= N
    <2>1. b(p) = c /\ old[p] = resetAt[c] /\ steady /\ b(q) = b(q)'
      BY <1>8, Zenon DEF Store, TypeOK, b, stats
    <2>2. CASE b(q) = c
      <3>1. counter'[c] = 1
        BY <1>8, <2>2, Zenon DEF Store, TypeOK
      <3>2. p \notin MayAdd(c)'
        BY Zenon DEF MayAdd
      <3>3. Cardinality(MayAdd(c)') <= N - 1 /\ Cardinality(MayAdd(c)') \in Nat
        BY <1>1, <3>2, Zenon DEF CallSizes
      <3> QED BY <1>2, <3>1, <3>3
    <2>3. CASE b(q) # c
      <3>1. q # p /\ pc[p] = "cas" /\ counter'[c] = counter[c]
        BY <1>8, <2>1, <2>3, ZenonT(60) DEF Store, TypeOK
      <3>2. MayAdd(c)' \subseteq MayAdd(c)
        BY <1>8, <2>3, Zenon DEF Store, MayAdd, TypeOK, b
      <3> QED BY Zenon, <1>3, <2>1, <3>1, <3>2
    <2> QED BY <2>2, <2>3, Zenon
  <1>9. ASSUME NEW q \in Procs, CompareAndSwap(q)
        PROVE  counter'[c] + Cardinality(MayAdd(c)') <= N
    <2>1. /\ q # p /\ pc[p] = "cas" /\ b(p) = c /\ steady /\ UNCHANGED <<counter, old, key, tn>>
          /\ pc'[q] \in {"idle", "add"} /\ \A r \in Procs : r # q => pc'[r] = pc[r]
      BY <1>9, ZenonT(60) DEF CompareAndSwap, Open, Record, stats, TypeOK, b
    <2>2. old[p] <= resetAt[c] /\ old[p] \in Nat /\ resetAt[c] \in Nat
      BY <2>1, Zenon DEF Behind, TypeOK
    <2>3. resetAt'[c] = resetAt[c]
      <3>1. CASE resetAt[b(q)] = old[q] /\ b(q) = c
        <4>1. resetAt'[c] = tn[q] + Tick /\ old[q] <= tn[q] /\ tn[q] \in Nat
          BY <1>9, <3>1, SMTT(30) DEF CompareAndSwap, Open, Expired, TypeOK
        <4> QED BY <2>1, <2>2, <3>1, <4>1, RatesAssumption, SMTT(30)
      <3>2. CASE ~(resetAt[b(q)] = old[q] /\ b(q) = c)
        BY <1>9, <3>2, Zenon DEF CompareAndSwap, Open, TypeOK
      <3> QED BY Zenon, <3>1, <3>2
    <2>4. pc'[q] = "add" => old[q] # resetAt[b(q)]
      BY <1>9, Zenon DEF CompareAndSwap, Open, TypeOK
    <2>5. MayAdd(c)' \subseteq MayAdd(c)
      BY <1>9, <2>1, <2>3, <2>4, ZenonT(60) DEF MayAdd, b, CompareAndSwap
    <2> QED BY <1>3, <2>1, <2>3, <2>5, Zenon
  <1> QED BY <1>4, <1>5, <1>6, <1>7, <1>8, <1>9, ZenonT(60) DEF Next, Step

\* What a tick can lose.
LEMMA LossStep ==
  ASSUME CallSizes PROVE TypeOK /\ Behind /\ Ahead /\ Loss /\ TypeOK' /\ [Next]_vars => Loss'
  <1> SUFFICES ASSUME TypeOK, Behind, Ahead, Loss, TypeOK', [Next]_vars,
                      NEW c \in Buckets, calls'[c] > 0
               PROVE  /\ First > 0 => admitted'[c] > 0
                      /\ steady' =>
                           \/ admitted'[c] >= First - (Cardinality(Procs) - 1)
                           \/ /\ admitted'[c] >= counter'[c] - (Cardinality(Procs) - 1)
                              /\ admitted'[c] >= calls'[c]
    BY Zenon DEF Loss
  <1> DEFINE N == Cardinality(Procs)
             Goal(a, n, k) == /\ First > 0 => a > 0
                              /\ steady' => \/ a >= First - (N - 1)
                                            \/ a >= n - (N - 1) /\ a >= k
  <1>0. /\ N \in Nat /\ First \in Nat /\ counter[c] \in Nat /\ calls[c] \in Nat /\ admitted[c] \in Nat
        /\ steady' => steady
    <2>1. N \in Nat
      BY Zenon DEF CallSizes
    <2>2. steady' => steady
      BY ZenonT(30) DEF Next, Step, Check, Load, Add, Store, CompareAndSwap, Open, Record, Enter, Clock, stats, vars
    <2> QED BY <2>1, <2>2, RatesAssumption, Zenon DEF TypeOK
  <1>1. calls[c] > 0 => Goal(admitted[c], counter[c], calls[c])
    BY <1>0, Zenon DEF Loss
  <1> HIDE DEF N
  <1>2. ASSUME UNCHANGED <<counter, calls, admitted>> PROVE Goal(admitted'[c], counter'[c], calls'[c])
    BY <1>1, <1>2, Zenon
  <1>3. ASSUME NEW p \in Procs, Add(p) PROVE Goal(admitted'[c], counter'[c], calls'[c])
    <2>1. CASE b(p) = c
      <3>1. /\ counter'[c] = counter[c] + 1 /\ calls'[c] = calls[c] + 1
            /\ admitted'[c] = IF counter[c] + 1 > First THEN admitted[c] ELSE admitted[c] + 1
        BY <1>3, <2>1, Zenon DEF Add, Count, TypeOK
      <3>2. calls[c] > 0
        BY <1>3, <2>1, Zenon DEF Behind, Add
      <3> QED BY <1>0, <1>1, <3>1, <3>2, SMTT(30)
    <2>2. CASE b(p) # c
      <3>1. counter'[c] = counter[c] /\ calls'[c] = calls[c] /\ admitted'[c] = admitted[c]
        BY <1>3, <2>2, ZenonT(60) DEF Add, Count, TypeOK
      <3> QED BY Zenon, <1>1, <3>1
    <2> QED BY Zenon, <2>1, <2>2
  <1>4. ASSUME NEW p \in Procs, Store(p) PROVE Goal(admitted'[c], counter'[c], calls'[c])
    <2>1. calls'[c] = calls[c] /\ admitted'[c] = admitted[c]
          /\ (counter'[c] = counter[c] \/ counter'[c] = 1)
      BY <1>4, Zenon DEF Store, stats, TypeOK
    <2>2. N > 0
      BY Zenon DEF N, CallSizes
    <2> QED BY <1>0, <1>1, <2>1, <2>2, SMTT(30)
  <1>5. ASSUME NEW p \in Procs, CompareAndSwap(p) PROVE Goal(admitted'[c], counter'[c], calls'[c])
    <2>1. CASE resetAt[b(p)] = old[p] /\ b(p) = c
      <3>1. calls'[c] = 1 /\ admitted'[c] = (IF 1 > First THEN 0 ELSE 1) /\ counter'[c] = counter[c]
        BY <1>5, <2>1, Zenon DEF CompareAndSwap, Open, TypeOK
      <3>2. MayAdd(c) \in SUBSET Procs
        BY Zenon DEF MayAdd
      <3>3. Cardinality(MayAdd(c)) \in Nat
        BY <3>2, Zenon DEF CallSizes
      <3>4. steady => counter[c] <= N
        <4>1. steady => counter[c] + Cardinality(MayAdd(c)) <= N
          BY <1>5, <2>1, Zenon DEF Ahead, CompareAndSwap, N
        <4> QED BY <1>0, <3>3, <4>1
      <3>5. N > 0
        BY Zenon DEF N, CallSizes
      <3> QED BY <1>0, <3>1, <3>4, <3>5
    <2>2. CASE ~(resetAt[b(p)] = old[p] /\ b(p) = c)
      <3>1. calls'[c] = calls[c] /\ admitted'[c] = admitted[c] /\ counter'[c] = counter[c]
        BY <1>5, <2>2, ZenonT(30) DEF CompareAndSwap, Open, stats, TypeOK
      <3> QED BY <1>1, <3>1, ZenonT(60)
    <2> QED BY ZenonT(60), <2>1, <2>2
  <1>6. \/ UNCHANGED <<counter, calls, admitted>>
        \/ \E p \in Procs : Add(p) \/ Store(p) \/ CompareAndSwap(p)
    BY Quiet, ZenonT(60) DEF Next, Step, Load, atomics, stats
  <1>7. Goal(admitted'[c], counter'[c], calls'[c])
    BY <1>2, <1>3, <1>4, <1>5, <1>6, ZenonT(30)
  <1> QED BY <1>7, Zenon DEF N
-----------------------------------------------------------------------------
(* The cardinalities, and the theorems.                                    *)

INSTANCE FiniteSetTheorems

\* A tick has at most two resets for each goroutine.
LEMMA ResetSizesHolds == ResetSizes
  <1> DEFINE K == {"early", "late"}
  <1>1. IsFiniteSet(K) /\ Cardinality(K) = 2
    <2>1. IsFiniteSet({"early"}) /\ Cardinality({"early"}) = 1
      BY FS_Singleton, Zenon
    <2>2. "late" \notin {"early"} /\ K = {"early"} \cup {"late"}
      BY Zenon
    <2> QED
      BY <2>1, <2>2, FS_AddElement
  <1> HIDE DEF K
  <1>2. /\ IsFiniteSet(Procs \X K)
        /\ Cardinality(Procs \X K) = Cardinality(Procs) * Cardinality(K)
    BY Zenon, <1>1, ProcsFinite, FS_Product
  <1>3. Cardinality(Procs) \in Nat /\ Cardinality({}) = 0
    BY ProcsFinite, FS_CardinalityType, FS_EmptySet, Zenon
  <1>4. ASSUME NEW R \in SUBSET (Procs \X K)
        PROVE  /\ Cardinality(R) \in Nat /\ Cardinality(R) <= 2 * Cardinality(Procs)
               /\ \A x \in (Procs \X K) \ R : Cardinality(R \cup {x}) = Cardinality(R) + 1
    <2>1. IsFiniteSet(R) /\ Cardinality(R) <= Cardinality(Procs \X K)
      BY Zenon, <1>2, FS_Subset
    <2>2. Cardinality(R) \in Nat
      BY <2>1, FS_CardinalityType, Zenon
    <2>3. \A x \in (Procs \X K) \ R : Cardinality(R \cup {x}) = Cardinality(R) + 1
      BY <2>1, FS_AddElement, Zenon
    <2> QED
      BY <1>1, <1>2, <1>3, <2>1, <2>2, <2>3
  <1> QED
    BY <1>3, <1>4, Zenon DEF ResetSizes, K

\* A call among the goroutines counts once.
LEMMA CallSizesHolds == CallSizes
  <1>1. Cardinality(Procs) \in Nat /\ (Procs # {} => Cardinality(Procs) > 0)
    <2>1. Cardinality(Procs) \in Nat /\ (Procs # {} => Cardinality(Procs) # 0)
      BY ProcsFinite, FS_CardinalityType, FS_EmptySet, Zenon
    <2> QED BY <2>1
  <1>2. ASSUME NEW S \in SUBSET Procs
        PROVE  /\ Cardinality(S) \in Nat
               /\ \A T \in SUBSET S : Cardinality(T) <= Cardinality(S)
               /\ \A p \in S : Cardinality(S \ {p}) = Cardinality(S) - 1
               /\ \A p \in Procs \ S : Cardinality(S) <= Cardinality(Procs) - 1
    <2>1. IsFiniteSet(S)
      BY ProcsFinite, FS_Subset, Zenon
    <2>2. Cardinality(S) \in Nat
      BY <2>1, FS_CardinalityType, Zenon
    <2>3. \A T \in SUBSET S : Cardinality(T) <= Cardinality(S)
      BY <2>1, FS_Subset, Zenon
    <2>4. \A p \in S : Cardinality(S \ {p}) = Cardinality(S) - 1
      BY <2>1, FS_RemoveElement, Zenon
    <2>5. ASSUME NEW p \in Procs \ S PROVE Cardinality(S) <= Cardinality(Procs) - 1
      <3>1. Cardinality(S \cup {p}) = Cardinality(S) + 1
        BY <2>1, <2>5, FS_AddElement, Zenon
      <3>2. Cardinality(S \cup {p}) <= Cardinality(Procs)
        BY Zenon, <2>5, ProcsFinite, FS_Subset
      <3> QED BY <1>1, <2>2, <3>1, <3>2
    <2> QED BY <2>2, <2>3, <2>4, <2>5, Zenon
  <1> QED BY <1>1, <1>2, Zenon DEF CallSizes

\* A number more is one more.
LEMMA CountingHolds == Counting
  <1>1. ASSUME NEW n \in Nat PROVE Cardinality({n}) = 1
    BY FS_Singleton, Zenon
  <1>2. ASSUME NEW n \in Nat, NEW S \in SUBSET (1 .. n)
        PROVE  Cardinality(S \cup {n + 1}) = Cardinality(S) + 1
    <2>1. IsFiniteSet(1 .. n)
      BY FS_Interval
    <2>2. IsFiniteSet(S)
      BY <2>1, FS_Subset, Zenon
    <2>3. n + 1 \notin S
      OBVIOUS
    <2> QED BY <2>2, <2>3, FS_AddElement, Zenon
  <1> QED BY <1>1, <1>2, Zenon DEF Counting

\* The entries admitted in a tick are paid for by its resets and its counter.
LEMMA BudgetInvariant == Spec => []Budget
  <1>1. Init => Budget
    <2> SUFFICES ASSUME Init, NEW c \in Buckets
                 PROVE  admitted[c] <= IF First = 0 THEN 0 ELSE
                          1 + Cardinality(resets[c]) * (First - 1) + Extra(counter[c])
      BY Zenon DEF Budget
    <2>1. admitted[c] = 0 /\ Cardinality(resets[c]) = 0 /\ Extra(counter[c]) = 0
      BY ResetSizesHolds DEF ResetSizes, Init, Extra
    <2> QED
      BY <2>1, RatesAssumption
  <1> QED
    BY <1>1, ResetSizesHolds, BudgetStep, TypeCorrect, CountedInvariant, OnceInvariant, PTL DEF Spec

\* However many goroutines race at the turn of a tick, the entries admitted in
\* it as one of the first exceed First by at most First - 1 for every reset of the counter.
THEOREM OverSamplingHolds == Spec => []OverSampling
  <1>1. TypeOK /\ Budget => OverSampling
    <2> SUFFICES ASSUME TypeOK, Budget, NEW c \in Buckets
                 PROVE  admitted[c] <= IF First = 0 THEN 0 ELSE
                          First + Cardinality(resets[c]) * (First - 1)
      BY Zenon DEF OverSampling
    <2>1. CASE First = 0
      BY <2>1, Zenon DEF Budget
    <2>2. CASE First # 0
      <3>1. /\ admitted[c] <= 1 + Cardinality(resets[c]) * (First - 1) + Extra(counter[c])
            /\ Extra(counter[c]) \in 0..(First - 1)
            /\ admitted[c] \in Nat /\ First \in Nat
        BY <2>2, ExtraBounds, RatesAssumption, ZenonT(30) DEF Budget, TypeOK
      <3>2. Cardinality(resets[c]) * (First - 1) \in Nat
        <4>1. Cardinality(resets[c]) \in Nat
          BY ResetSizesHolds, Zenon DEF ResetSizes, TypeOK
        <4> QED BY <2>2, <3>1, <4>1
      <3> QED
        BY <2>2, <3>1, <3>2
    <2> QED
      BY Zenon, <2>1, <2>2
  <1> QED
    BY <1>1, TypeCorrect, BudgetInvariant, PTL

\* A tick admits at most First + 2 * |Procs| * (First - 1) first entries: what
\* "slightly over-sampled" means in terms of the goroutines that log.
WorstCase ==
  First > 0 => \A c \in Buckets :
    admitted[c] <= First + 2 * Cardinality(Procs) * (First - 1)

\* The worst case follows, as no goroutine resets a counter more than twice in
\* one tick.
THEOREM WorstCaseHolds == Spec => []WorstCase
  <1>1. TypeOK /\ OverSampling => WorstCase
    <2> SUFFICES ASSUME TypeOK, OverSampling, First > 0, NEW c \in Buckets
                 PROVE  admitted[c] <= First + 2 * Cardinality(Procs) * (First - 1)
      BY Zenon DEF WorstCase
    <2> DEFINE k == Cardinality(resets[c])
               n == Cardinality(Procs)
               f == First - 1
    <2>1. k \in Nat /\ k <= 2 * n
      BY ResetSizesHolds, Zenon DEF ResetSizes, TypeOK
    <2>2. n \in Nat /\ f \in Nat /\ First \in Nat /\ admitted[c] \in Nat
      <3>1. n \in Nat /\ First \in Nat /\ admitted[c] \in Nat
        BY CallSizesHolds, RatesAssumption, Zenon DEF CallSizes, TypeOK
      <3> QED BY <3>1
    <2>3. admitted[c] <= First + k * f
      <3>1. First # 0
        BY <2>2
      <3> QED BY <3>1, Zenon DEF OverSampling
    <2> HIDE DEF k, n, f
    <2>4. k * f <= 2 * n * f
      BY <2>1, <2>2
    <2>5. k * f \in Nat /\ 2 * n * f \in Nat
      BY <2>1, <2>2
    <2> QED
      BY <2>2, <2>3, <2>4, <2>5 DEF n, f
  <1> QED
    BY <1>1, TypeCorrect, OverSamplingHolds, PTL

\* While a goroutine races to open a tick, the counter is at most |Procs| ahead.
LEMMA AheadInvariant == Spec => []Ahead
  <1>1. Init => Ahead
    BY Zenon DEF Init, Ahead
  <1>2. TypeOK /\ Expired /\ Behind /\ TypeOK' /\ Ahead /\ [Next]_vars => Ahead'
    BY CallSizesHolds, AheadStep, Zenon
  <1> QED BY <1>1, <1>2, TypeCorrect, ExpiredInvariant, BehindInvariant, PTL DEF Spec

\* A tick loses no more than what the counter was ahead by.
LEMMA LossInvariant == Spec => []Loss
  <1>1. Init => Loss
    BY DEF Init, Loss
  <1>2. TypeOK /\ Behind /\ Ahead /\ Loss /\ TypeOK' /\ [Next]_vars => Loss'
    BY CallSizesHolds, LossStep, ZenonT(60)
  <1> QED BY <1>1, <1>2, TypeCorrect, BehindInvariant, AheadInvariant, PTL DEF Spec

\* counter.IncCheckReset under a clock that never steps back: a tick that has dropped
\* an entry has admitted First, less at most one for every other goroutine.
THEOREM UnderSamplingHolds == Spec => []UnderSampling
  <1>1. TypeOK /\ Loss => UnderSampling
    <2> SUFFICES ASSUME TypeOK, Loss, steady, NEW c \in Buckets
                 PROVE  \/ admitted[c] >= calls[c]
                        \/ admitted[c] >= First - (Cardinality(Procs) - 1)
      BY Zenon DEF UnderSampling
    <2> QED BY DEF Loss, TypeOK
  <1> QED BY <1>1, TypeCorrect, LossInvariant, PTL
\* counter.IncCheckReset and sampler.Check when calls do not overlap, whatever the
\* clock does: in each tick the first First entries of a counter and every
\* Thereafter-th one after them are logged, and no others.
THEOREM ExactHolds == Spec => []ExactWhenSequential
  <1>1. Mirrored => ExactWhenSequential
    <2> SUFFICES ASSUME Mirrored, apart, NEW c \in Buckets
                 PROVE  \E B \in SUBSET Of(c) :
                          /\ Begins(c, B)
                          /\ \A i \in Of(c) : hist[i].sampled <=> Logged(Cardinality(InTick(c, B, i)))
      BY Zenon DEF ExactWhenSequential, Logged
    <2>1. PICK B \in SUBSET Of(c) : Mirrors(c, B)
      BY Zenon DEF Mirrored
    <2>2. /\ Begins(c, B)
          /\ \A i \in Of(c) : hist[i].sampled <=> Logged(Cardinality(InTick(c, B, i)))
      BY <2>1, Zenon DEF Mirrors
    <2> QED BY Zenon, <2>2
  <1>2. TypeOK /\ Expired /\ Alone /\ Mirrored /\ [Next]_vars => Mirrored'
    BY Zenon, CountingHolds, MirroredStep
  <1> QED BY <1>1, <1>2, MirroredInit, TypeCorrect, ExpiredInvariant, AloneInvariant, PTL DEF Spec
=============================================================================
