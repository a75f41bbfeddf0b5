------------------------------- MODULE Sampler -------------------------------
(***************************************************************************)
(* ladcore.sampler: goroutines pass entries to Check, which counts them in *)
(* a table of lock-free counters.  Every atomic operation of IncCheckReset *)
(* is one action, and the clock moves between any two of them: an entry    *)
(* carries the time at which the Logger created it.  A key stands for a    *)
(* level and message; Bucket is the counter that counters.get selects.     *)
(* Clones made by With share the counters, so any goroutine may be using   *)
(* any clone.                                                              *)
(***************************************************************************)
EXTENDS Integers, Sequences, FiniteSets

CONSTANTS
  Procs,        \* goroutines that log
  Keys,         \* level and message of an entry
  EnabledKeys,  \* keys whose level the wrapped core enables
  Buckets,      \* the counters of the table
  Bucket,       \* Bucket[k] is k's counter, or Unsampled
  Tick,         \* s.tick
  First,        \* s.first
  Thereafter,   \* s.thereafter
  ClockSteps,   \* by how much the clock may move at once
  MaxTime,      \* bound on the clock
  MaxCalls      \* bound on the number of calls of Check

\* The level is outside of _minLevel.._maxLevel.
Unsampled == "unsampled"

ASSUME BucketAssumption ==
  Bucket \in [Keys -> Buckets \cup {Unsampled}] /\ Unsampled \notin Buckets
ASSUME ProcsFinite == IsFiniteSet(Procs)
ASSUME KeysAssumption == Keys # {}
ASSUME RatesAssumption == Tick \in Nat /\ First \in Nat /\ Thereafter \in Nat
ASSUME ClockAssumption == ClockSteps \subseteq Int /\ MaxTime \in Nat \ {0}

VARIABLES
  now,               \* the Logger's clock
  resetAt, counter,  \* the atomics of every counter
  pc, key, tn, old,  \* a goroutine's call: where, key, t.UnixNano(), resetAfter
  begun,             \* history: calls of Check
  calls, admitted,   \* history: decisions, and those of the first First, since
                     \* resetAt changed
  resets,            \* history: stores of 1 since resetAt changed
  steady,            \* history: the clock has never moved back
  apart,             \* history: no two calls have overlapped
  hist               \* history: the decisions in order, while apart

atomics == <<resetAt, counter>>
locals == <<pc, key, tn, old>>
stats == <<calls, admitted, steady, apart, hist>>
vars == <<now, atomics, locals, begun, stats, resets>>

b(p) == Bucket[key[p]]

Init ==
  /\ now = 1
  /\ resetAt = [c \in Buckets |-> 0]
  /\ counter = [c \in Buckets |-> 0]
  /\ pc = [p \in Procs |-> "idle"]
  /\ key = [p \in Procs |-> CHOOSE k \in Keys : TRUE]
  /\ tn = [p \in Procs |-> 0]
  /\ old = [p \in Procs |-> 0]
  /\ begun = 0
  /\ calls = [c \in Buckets |-> 0]
  /\ admitted = [c \in Buckets |-> 0]
  /\ resets = [c \in Buckets |-> {}]
  /\ steady = TRUE /\ apart = TRUE /\ hist = << >>

\* Mutant of Drops: every thereafter-th entry counted from the first one.
DropsFromStart(n) == n > First /\ (Thereafter = 0 \/ n % Thereafter # 0)

\* The n-th entry of a tick is dropped.
Drops(n) ==
  /\ n > First
  /\ Thereafter = 0 \/ (n - First) % Thereafter # 0

\* A decision about an entry with key k and time t is made.
Record(k, t, sampled) ==
  /\ hist' = IF apart THEN Append(hist, [key |-> k, at |-> t, sampled |-> sampled]) ELSE hist
  /\ UNCHANGED <<steady, apart>>

\* The n-th entry of a tick is counted for OverSampling.
Count(c, n) == admitted' = [admitted EXCEPT ![c] = IF n > First THEN @ ELSE @ + 1]

\* A call begins: the history ends if another is under way.
Enter ==
  /\ apart' = (apart /\ \A q \in Procs : pc[q] = "idle")
  /\ hist' = IF apart' THEN hist ELSE << >>
  /\ UNCHANGED steady

\* The Logger reads the clock and calls Check.
Check(p, k) ==
  /\ pc[p] = "idle"
  /\ begun < MaxCalls
  /\ begun' = begun + 1
  /\ IF k \notin EnabledKeys
     THEN UNCHANGED <<locals, steady, apart, hist>>
     ELSE IF Bucket[k] = Unsampled
     THEN Record(k, now, TRUE) /\ UNCHANGED locals
     ELSE /\ pc' = [pc EXCEPT ![p] = "load"]
          /\ key' = [key EXCEPT ![p] = k]
          /\ tn' = [tn EXCEPT ![p] = now]
          /\ Enter
          /\ UNCHANGED old
  /\ UNCHANGED <<now, atomics, calls, admitted, resets>>

\* resetAfter := c.resetAt.Load(), and the test of it.
Load(p) ==
  /\ pc[p] = "load"
  /\ old' = [old EXCEPT ![p] = resetAt[b(p)]]
  /\ pc' = [pc EXCEPT ![p] = IF resetAt[b(p)] > tn[p] THEN "add" ELSE "store"]
  /\ UNCHANGED <<now, atomics, key, tn, begun, stats, resets>>

\* return c.counter.Add(1), at either place; Check acts on the result.
Add(p) ==
  /\ pc[p] = "add"
  /\ LET c == b(p)
         n == counter[c] + 1
     IN /\ counter' = [counter EXCEPT ![c] = n]
        /\ calls' = [calls EXCEPT ![c] = @ + 1]
        /\ Count(c, n)
        /\ Record(key[p], tn[p], ~Drops(n))
  /\ pc' = [pc EXCEPT ![p] = "idle"]
  /\ UNCHANGED <<now, resetAt, key, tn, old, begun, resets>>

\* Mutant of Store: the counter is incremented and never starts over.
StoreIncrements(p) ==
  /\ pc[p] = "store"
  /\ counter' = [counter EXCEPT ![b(p)] = @ + 1]
  /\ pc' = [pc EXCEPT ![p] = "cas"]
  /\ UNCHANGED <<now, resetAt, key, tn, old, begun, stats, resets>>

\* c.counter.Store(1).
Store(p) ==
  /\ pc[p] = "store"
  /\ counter' = [counter EXCEPT ![b(p)] = 1]
  /\ resets' = [resets EXCEPT ![b(p)] =
       @ \cup {<<p, IF old[p] = resetAt[b(p)] THEN "early" ELSE "late">>}]
  /\ pc' = [pc EXCEPT ![p] = "cas"]
  /\ UNCHANGED <<now, resetAt, key, tn, old, begun, stats>>

\* Check acts on a count of 1, the first of a tick that p opened.
Open(p) ==
  /\ resetAt' = [resetAt EXCEPT ![b(p)] = tn[p] + Tick]
  /\ calls' = [calls EXCEPT ![b(p)] = 1]
  /\ admitted' = [admitted EXCEPT ![b(p)] = IF 1 > First THEN 0 ELSE 1]
  /\ resets' = [resets EXCEPT ![b(p)] = {}]
  /\ Record(key[p], tn[p], ~Drops(1))
  /\ pc' = [pc EXCEPT ![p] = "idle"]

\* Mutant of CompareAndSwap: an unconditional store.
CompareAndSwapBlind(p) ==
  /\ pc[p] = "cas"
  /\ Open(p)
  /\ UNCHANGED <<now, counter, key, tn, old, begun>>
\* Mutant of CompareAndSwap: a lost race is not followed by an increment.
CompareAndSwapNoAdd(p) ==
  /\ pc[p] = "cas"
  /\ IF resetAt[b(p)] = old[p]
     THEN Open(p)
     ELSE /\ calls' = [calls EXCEPT ![b(p)] = @ + 1]
          /\ Count(b(p), 1)
          /\ pc' = [pc EXCEPT ![p] = "idle"]
          /\ UNCHANGED <<resetAt, resets, steady, apart, hist>>
  /\ UNCHANGED <<now, counter, key, tn, old, begun>>

\* c.resetAt.CompareAndSwap(resetAfter, newResetAfter).
CompareAndSwap(p) ==
  /\ pc[p] = "cas"
  /\ IF resetAt[b(p)] = old[p]
     THEN Open(p)
     ELSE /\ pc' = [pc EXCEPT ![p] = "add"]
          /\ UNCHANGED <<resetAt, stats, resets>>
  /\ UNCHANGED <<now, counter, key, tn, old, begun>>

Clock ==
  /\ \E d \in ClockSteps : now + d \in 1..MaxTime /\ now' = now + d
  /\ steady' = (steady /\ now' > now)
  /\ UNCHANGED <<atomics, locals, begun, calls, admitted, apart, hist, resets>>

Step(p) == Load(p) \/ Add(p) \/ Store(p) \/ CompareAndSwap(p)

Next ==
  \/ \E p \in Procs, k \in Keys : Check(p, k)
  \/ \E p \in Procs : Step(p)
  \/ Clock

Spec == Init /\ [][Next]_vars
-----------------------------------------------------------------------------
\* Types of the state; a call that is counting has a counter of the table.
TypeOK ==
  /\ now \in 1..MaxTime
  /\ resetAt \in [Buckets -> Nat]
  /\ counter \in [Buckets -> Nat]
  /\ pc \in [Procs -> {"idle", "load", "add", "store", "cas"}]
  /\ key \in [Procs -> Keys]
  /\ \A p \in Procs : pc[p] # "idle" => b(p) \in Buckets
  /\ tn \in [Procs -> Nat] /\ old \in [Procs -> Nat]
  /\ begun \in Nat
  /\ calls \in [Buckets -> Nat] /\ admitted \in [Buckets -> Nat]
  /\ resets \in [Buckets -> SUBSET (Procs \X {"early", "late"})]

\* The ticks of a counter do not overlap: a new one ends at least s.tick after
\* the one before it, although the goroutines that race to open it carry times
\* read earlier and in any order.
TicksDisjoint ==
  [][\A c \in Buckets : resetAt'[c] # resetAt[c] => resetAt'[c] >= resetAt[c] + Tick]_vars

\* "each tick may be slightly over- ... sampled": beyond First entries, not
\* counting the ones that thereafter admits, by at most First - 1 entries
\* for every goroutine that resets the counter late, after losing the race to
\* open this tick, or early, while racing to open the next.  With First = 1
\* there is never more than one.
OverSampling ==
  \A c \in Buckets :
    admitted[c] <= IF First = 0 THEN 0
                   ELSE First + Cardinality(resets[c]) * (First - 1)

\* "... or under-sampled": a counter that other goroutines incremented between
\* Store and CompareAndSwap costs the new tick at most one entry for each, unless
\* the clock moves back: then they may go on counting in the old tick.
UnderSampling ==
  steady => \A c \in Buckets :
    \/ admitted[c] >= calls[c]
    \/ admitted[c] >= First - (Cardinality(Procs) - 1)

\* The decisions about entries of counter c.
Of(c) == {i \in DOMAIN hist : Bucket[hist[i].key] = c}

\* The decisions in B are the ones with which the ticks of c begin: the first, and
\* every one that is s.tick or more later than those before it in B.
Begins(c, B) ==
  \A i \in Of(c) : i \in B <=> \A m \in B : m < i => hist[i].at >= hist[m].at + Tick

\* The decisions of the tick that decision i of c is in, up to i.
InTick(c, B, i) == {j \in Of(c) : j <= i /\ \A m \in B : m <= i => m <= j}

\* Calls that do not overlap are sampled exactly: the first N entries of a
\* counter each tick, and every Mth after those.
ExactWhenSequential ==
  apart => \A c \in Buckets : \E B \in SUBSET Of(c) :
    /\ Begins(c, B)
    /\ \A i \in Of(c) : hist[i].sampled <=>
         LET n == Cardinality(InTick(c, B, i))
         IN n <= First \/ (Thereafter # 0 /\ (n - First) % Thereafter = 0)
=============================================================================
