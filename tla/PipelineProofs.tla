--------------------------- MODULE PipelineProofs ----------------------------
(***************************************************************************)
(* Proofs about Pipeline for every set of goroutines, entries and levels   *)
(* and every buffer size: the Logger calls the syncer only in ways that    *)
(* BufferedWriteSyncer allows, and terminal entries are durable.           *)
(***************************************************************************)
EXTENDS Pipeline, BufferedWriteSyncerProofs

\* Every step of the Logger is a step of its syncer, or leaves the syncer alone.
LEMMA SyncerStep == [PNext]_<<vars, logging>> => [Next]_vars
  <1> SUFFICES ASSUME PNext, ~(UNCHANGED vars)
               PROVE  Next
    BY Zenon
  <1>1. ASSUME NEW p \in Procs, NEW m \in Msgs, Log(p, m)
        PROVE  Next
    BY <1>1, Zenon DEF Log, Next
  <1>2. ASSUME NEW p \in Procs, SyncOrStop(p)
        PROVE  Next
    BY <1>2, Zenon DEF SyncOrStop, Next
  <1>3. ASSUME NEW p \in Procs, Wrote(p) \/ Synced(p)
        PROVE  Next
    <2>1. CallSync(p) \/ UNCHANGED vars
      BY <1>3, Zenon DEF Wrote, Synced, OnWrite
    <2> QED
      BY <2>1, Zenon DEF Next
  <1>4. CASE \/ \E p \in Procs : Step(p)
             \/ \E a \in Actors : Lock(a) \/ Sync(a)
             \/ SelectTick \/ SelectStop \/ Tick
    BY <1>4, Zenon DEF Next
  <1> QED
    BY <1>1, <1>2, <1>3, <1>4, Zenon DEF PNext

\* A Logger over a BufferedWriteSyncer uses it as its specification allows, so that
\* what holds of the syncer for every caller holds under the Logger.
THEOREM Composed == PSpec => Spec
  <1>1. PInit => Init
    BY Zenon DEF PInit
  <1> QED
    BY <1>1, SyncerStep, PTL DEF PSpec, Spec
-----------------------------------------------------------------------------
\* The last byte of the entry that p logs is among the first n accepted.
Own(p) == <<entry[p], MsgLen[entry[p]]>>
Taken(p, n) == \E k \in 1..n : accepted[k] = Own(p)

\* The types of the Logger's state.
LogOK ==
  /\ at \in [Procs -> {"out", "write", "sync"}]
  /\ entry \in [Procs -> Msgs \cup {NoEntry}]
  /\ due \in [Procs -> Nat]

\* What is known in ioCore.Write's call of out.Write: the entry is still to be
\* handed to bufio, or has been.
Writing(p) ==
  /\ entry[p] \in Msgs
  /\ due[p] <= Len(accepted)
  /\ pc[p] \in {"write", "writing", "room", "put", "idle"}
  /\ pc[p] \in {"write", "writing", "room"} => rest[p] = Bytes(entry[p])
  /\ pc[p] = "put" /\ ~werr =>
       rest[p] = Bytes(entry[p]) \/ (rest[p] = << >> /\ Taken(p, Len(accepted)))
  /\ pc[p] = "idle" /\ ret[p] = "ok" => Taken(p, Len(accepted))

\* What is known in its call of Sync: the entry was accepted before.
Syncing(p) ==
  /\ entry[p] \in Msgs
  /\ op[p] = "Sync"
  /\ pc[p] \in {"sync", "syncing", "idle"}
  /\ due[p] <= mark[p]
  /\ Taken(p, mark[p])

Job(p) == (at[p] = "write" => Writing(p)) /\ (at[p] = "sync" => Syncing(p))

\* The types hold of every step.
LEMMA LogOKStep == LogOK /\ DataOK /\ [PNext]_<<vars, logging>> => LogOK'
  <1> SUFFICES ASSUME LogOK, DataOK, [PNext]_<<vars, logging>>
               PROVE  LogOK'
    BY Zenon
  <1>1. ASSUME NEW p \in Procs, NEW m \in Msgs, Log(p, m)
        PROVE  LogOK'
    <2>1. Len(accepted) \in Nat
      BY LenProperties, Zenon DEF DataOK
    <2> QED
      BY <1>1, <2>1, Zenon DEF Log, LogOK
  <1>2. ASSUME NEW p \in Procs, Wrote(p) \/ Synced(p)
        PROVE  LogOK'
    <2>1. \/ at' = [at EXCEPT ![p] = "sync"] /\ entry' = entry /\ due' = due
          \/ /\ at' = [at EXCEPT ![p] = "out"] /\ entry' = [entry EXCEPT ![p] = NoEntry]
             /\ due' = [due EXCEPT ![p] = 0]
      BY <1>2, Zenon DEF Wrote, Synced, OnWrite
    <2> QED
      BY <2>1 DEF LogOK
  <1>3. CASE UNCHANGED logging
    BY <1>3, Zenon DEF LogOK, logging
  <1> QED
    BY <1>1, <1>2, <1>3, Zenon DEF PNext, SyncOrStop

\* What has been accepted stays in its place.
LEMMA Grows ==
  ASSUME TypeOK, Pending, [Next]_vars
  PROVE  /\ Len(accepted) \in Nat /\ Len(accepted') \in Nat
         /\ Len(accepted') >= Len(accepted)
         /\ \A k \in 1..Len(accepted) : accepted'[k] = accepted[k]
  <1>0. accepted \in Seq(Byte) /\ Len(accepted) \in Nat
    BY LenProperties, Zenon DEF TypeOK
  <1>1. CASE accepted' = accepted
    BY <1>0, <1>1
  <1>2. ASSUME NEW x \in Seq(Byte), accepted' = accepted \o x
        PROVE  /\ Len(accepted') \in Nat
               /\ Len(accepted') >= Len(accepted)
               /\ \A k \in 1..Len(accepted) : accepted'[k] = accepted[k]
    BY <1>0, <1>2, ConcatProperties, LenProperties
  <1> QED
    BY <1>0, <1>1, <1>2, AcceptStep, Zenon

\* An entry ends with its last byte, and it has one.
LEMMA LastByte ==
  ASSUME NEW s \in Seq(Byte), NEW m \in Msgs
  PROVE  LET t == s \o Bytes(m)
         IN Len(t) \in Nat \ {0} /\ t[Len(t)] = <<m, MsgLen[m]>>
  <1>1. Bytes(m) \in Seq(Byte) /\ Len(Bytes(m)) = MsgLen[m]
    BY Zenon, BytesType
  <1>2. MsgLen[m] \in Nat \ {0} /\ Len(s) \in Nat
    BY EntryAssumption, MsgsAssumption, LenProperties
  <1>3. Bytes(m)[MsgLen[m]] = <<m, MsgLen[m]>>
    BY <1>2 DEF Bytes
  <1> DEFINE b == Bytes(m)
             n == MsgLen[m]
  <1>4. Len(b) = n /\ b \in Seq(Byte) /\ b[n] = <<m, n>> /\ n \in Nat \ {0}
    BY Zenon, <1>1, <1>2, <1>3
  <1> HIDE DEF b, n
  <1>5. /\ Len(s \o b) = Len(s) + n
        /\ \A i \in 1..Len(s) + n :
             (s \o b)[i] = IF i <= Len(s) THEN s[i] ELSE b[i - Len(s)]
    BY <1>4, ConcatProperties, ZenonT(60)
  <1>6. (s \o b)[Len(s) + n] = <<m, n>>
    <2> DEFINE i == Len(s) + n
    <2>1. i \in 1..Len(s) + n /\ ~(i <= Len(s)) /\ i - Len(s) = n
      BY <1>2, <1>4
    <2> HIDE DEF i
    <2>2. (s \o b)[i] = b[i - Len(s)]
      BY <1>5, <2>1, Zenon
    <2> QED
      BY <1>4, <2>1, <2>2, Zenon DEF i
  <1>7. Len(s \o b) \in Nat \ {0} /\ (s \o b)[Len(s \o b)] = <<m, n>>
    BY <1>2, <1>4, <1>5, <1>6
  <1> QED
    BY <1>7, Zenon DEF b, n

\* A step that leaves the call of q and what it logs alone keeps what is known of it.
LEMMA OthersKeep ==
  ASSUME TypeOK, DInv, [Next]_vars, NEW q \in Procs, Job(q),
         pc'[q] = pc[q], rest'[q] = rest[q], op'[q] = op[q], ret'[q] = ret[q],
         mark'[q] = mark[q], at'[q] = at[q], entry'[q] = entry[q], due'[q] = due[q],
         due[q] \in Nat
  PROVE  Job(q)'
  <1>1. /\ Len(accepted) \in Nat /\ Len(accepted') \in Nat
        /\ Len(accepted') >= Len(accepted)
        /\ \A k \in 1..Len(accepted) : accepted'[k] = accepted[k]
    BY Grows, Zenon DEF DInv
  <1>2. mark[q] \in Nat /\ mark[q] <= Len(accepted)
    BY Zenon DEF DInv, Marks, TypeOK
  <1>3. Own(q)' = Own(q)
    BY Zenon DEF Own
  <1>4. ASSUME NEW n \in Nat, n <= Len(accepted), NEW l \in Nat, n <= l, Taken(q, n)
        PROVE  \E k \in 1..l : accepted'[k] = Own(q)
    BY <1>1, <1>4 DEF Taken
  <1>5. ~werr' => ~werr
    BY Frozen, Zenon DEF DInv
  <1>6. CASE at[q] = "write"
    <2>1. Writing(q)
      BY <1>6, Zenon DEF Job
    <2>2. Taken(q, Len(accepted)) => Taken(q, Len(accepted))'
      BY <1>1, <1>3, <1>4 DEF Taken
    <2>3. due'[q] <= Len(accepted')
      BY <1>1, <2>1 DEF Writing
    <2>4. Writing(q)'
      BY <1>5, <2>1, <2>2, <2>3, Zenon DEF Writing
    <2> QED
      BY <1>6, <2>4, Zenon DEF Job
  <1>7. CASE at[q] = "sync"
    <2>1. Syncing(q)
      BY <1>7, Zenon DEF Job
    <2>2. Taken(q, mark[q])'
      BY <1>2, <1>3, <1>4, <2>1 DEF Taken, Syncing
    <2>3. Syncing(q)'
      BY <2>1, <2>2, Zenon DEF Syncing
    <2> QED
      BY <1>7, <2>3, Zenon DEF Job
  <1> QED
    BY <1>6, <1>7, Zenon DEF Job

\* A step of the Logger by another goroutine leaves the call of q alone.
LEMMA OthersCall ==
  ASSUME TypeOK, LogOK, NEW p \in Procs, NEW q \in Procs, p # q,
         \/ \E m \in Msgs : Log(p, m)
         \/ SyncOrStop(p) \/ Wrote(p) \/ Synced(p)
  PROVE  /\ pc'[q] = pc[q] /\ rest'[q] = rest[q] /\ op'[q] = op[q] /\ ret'[q] = ret[q]
         /\ mark'[q] = mark[q] /\ at'[q] = at[q] /\ entry'[q] = entry[q]
         /\ due'[q] = due[q]
  <1>0. /\ pc \in [Actors -> Label] /\ p \in Actors /\ q \in Actors
        /\ DOMAIN op = Procs /\ DOMAIN rest = Procs /\ DOMAIN ret = Procs
        /\ DOMAIN mark = Procs
    BY Zenon DEF TypeOK, Actors
  <1>1. /\ DOMAIN at = Procs /\ DOMAIN entry = Procs /\ DOMAIN due = Procs
    BY Zenon DEF LogOK
  <1>2. \/ Call(p, "Write", "write") /\ \E b : rest' = [rest EXCEPT ![p] = b]
        \/ (Call(p, "Sync", "sync") \/ Call(p, "Stop", "stop")) /\ rest' = rest
        \/ UNCHANGED vars
    BY Zenon DEF Log, SyncOrStop, Wrote, Synced, OnWrite, CallWrite, CallSync, CallStop
  <1>3. pc'[q] = pc[q] /\ rest'[q] = rest[q] /\ op'[q] = op[q] /\ ret'[q] = ret[q]
        /\ mark'[q] = mark[q]
    <2>1. CASE UNCHANGED vars
      BY <2>1, Zenon DEF vars, call
    <2>2. CASE ~(UNCHANGED vars)
      BY <1>0, <1>2, <2>2 DEF Call, Goto
    <2> QED
      BY Zenon, <2>1, <2>2
  <1>4. at'[q] = at[q] /\ entry'[q] = entry[q] /\ due'[q] = due[q]
    BY <1>1, Zenon DEF Log, SyncOrStop, Wrote, Synced, OnWrite, logging
  <1> QED
    BY Zenon, <1>3, <1>4

\* So does a step of the syncer by another goroutine or by the flush loop.
LEMMA OthersStep ==
  ASSUME TypeOK, NEW a \in Actors, NEW q \in Procs, a # q,
         \/ a \in Procs /\ Step(a)
         \/ Lock(a) \/ Sync(a)
  PROVE  pc'[q] = pc[q] /\ rest'[q] = rest[q] /\ op'[q] = op[q] /\ ret'[q] = ret[q]
         /\ mark'[q] = mark[q]
  <1>0. /\ pc \in [Actors -> Label] /\ q \in Actors /\ q # Loop
        /\ DOMAIN op = Procs /\ DOMAIN rest = Procs /\ DOMAIN ret = Procs
        /\ DOMAIN mark = Procs
    BY ProcsAssumption, Zenon DEF TypeOK, Actors
  <1>1. CASE Lock(a)
    BY <1>0, <1>1, Zenon DEF Lock, Goto, call
  <1>2. CASE Sync(a)
    <2>1. (\E r : Return(a, r)) \/ (Goto(Loop, "select") /\ UNCHANGED <<ret, rest>>)
      BY <1>2, Zenon DEF Sync
    <2>2. UNCHANGED <<op, mark>>
      BY <1>2, Zenon DEF Sync
    <2> QED
      BY <1>0, <2>1, <2>2, Zenon DEF Return, Goto
  <1>3. CASE a \in Procs /\ (MakeRoom(a) \/ Put(a) \/ StopCritical(a) \/ AwaitDone(a))
    <2>1. \/ Return(a, "ok") \/ Return(a, "err") \/ Return(a, "noop")
          \/ (Goto(a, "put") \/ Goto(a, "wait") \/ Goto(a, "sync")) /\ UNCHANGED <<ret, rest>>
      <3>1. CASE MakeRoom(a)
        BY <3>1, Zenon DEF MakeRoom
      <3>2. CASE Put(a)
        BY <3>2, Zenon DEF Put
      <3>3. CASE StopCritical(a)
        BY <3>3, Zenon DEF StopCritical
      <3>4. CASE AwaitDone(a)
        BY <3>4, Zenon DEF AwaitDone, call
      <3> QED
        BY <1>3, <3>1, <3>2, <3>3, <3>4, Zenon
    <2>2. UNCHANGED <<op, mark>>
      BY <1>3, Zenon DEF MakeRoom, Put, StopCritical, AwaitDone, call
    <2> QED
      BY <1>0, <2>1, <2>2, ZenonT(30) DEF Return, Goto
  <1>4. CASE a \in Procs /\ Initialize(a)
    <2>1. pc'[q] = pc[q]
      BY <1>0, <1>4, Zenon DEF Initialize, Goto
    <2>2. UNCHANGED call
      BY <1>4, Zenon DEF Initialize
    <2> QED
      BY <2>1, <2>2, Zenon DEF call
  <1>5. CASE a \in Procs /\ Spill(a)
    <2>1. (\E b : rest' = [rest EXCEPT ![a] = b]) /\ UNCHANGED <<pc, op, ret, mark>>
      BY <1>5, Zenon DEF Spill
    <2> QED
      BY Zenon, <1>0, <2>1
  <1> QED
    BY <1>1, <1>2, <1>3, <1>4, <1>5, Zenon DEF Step

\* Nor does the ticker, or the flush loop's select, touch a call.
LEMMA LoopStep ==
  ASSUME TypeOK, NEW q \in Procs, SelectTick \/ SelectStop \/ Tick
  PROVE  pc'[q] = pc[q] /\ rest'[q] = rest[q] /\ op'[q] = op[q] /\ ret'[q] = ret[q]
         /\ mark'[q] = mark[q]
  <1>1. pc \in [Actors -> Label] /\ q \in Actors /\ q # Loop
    BY ProcsAssumption, Zenon DEF TypeOK, Actors
  <1>2. UNCHANGED call /\ ((\E l : Goto(Loop, l)) \/ pc' = pc)
    BY Zenon DEF SelectTick, SelectStop, Tick
  <1>3. pc'[q] = pc[q]
    BY <1>1, <1>2, Zenon DEF Goto
  <1> QED
    BY <1>2, <1>3, Zenon DEF call

\* The Logger's own steps keep what is known of the call they begin or end.
LEMMA OwnCall ==
  ASSUME TypeOK, LogOK, NEW q \in Procs, Job(q),
         \/ \E m \in Msgs : Log(q, m)
         \/ SyncOrStop(q) \/ Wrote(q) \/ Synced(q)
  PROVE  Job(q)'
  <1>0. /\ q \in Actors /\ DOMAIN pc = Actors /\ DOMAIN op = Procs /\ DOMAIN rest = Procs
        /\ DOMAIN ret = Procs /\ DOMAIN mark = Procs /\ Len(accepted) \in Nat
    BY LenProperties, Zenon DEF TypeOK, Actors
  <1>1. /\ DOMAIN at = Procs /\ DOMAIN entry = Procs /\ DOMAIN due = Procs
        /\ due[q] \in Nat
    BY Zenon DEF LogOK
  <1>2. ASSUME NEW m \in Msgs, Log(q, m)
        PROVE  Job(q)'
    <2>1. at'[q] = "write" /\ entry'[q] = m
      BY <1>1, <1>2, Zenon DEF Log
    <2>2. pc'[q] = "write" /\ rest'[q] = Bytes(m) /\ accepted' = accepted
      BY <1>0, <1>2, Zenon DEF Log, CallWrite, Call, Goto
    <2>3. due'[q] <= Len(accepted)
      BY <1>0, <1>1, <1>2, SMTT(30) DEF Log
    <2>4. Writing(q)'
      BY <2>1, <2>2, <2>3, Zenon DEF Writing
    <2> QED
      BY <2>1, <2>4, Zenon DEF Job
  <1>3. CASE SyncOrStop(q)
    BY <1>3, Zenon DEF SyncOrStop, logging, Job
  <1>4. CASE Wrote(q)
    <2>1. CASE ret[q] = "ok" /\ MustSync(levelOf[entry[q]])
      <3>1. at'[q] = "sync" /\ entry' = entry /\ due' = due /\ CallSync(q)
        BY <1>1, <1>4, <2>1, Zenon DEF Wrote
      <3>2. /\ op'[q] = "Sync" /\ pc'[q] = "sync" /\ mark'[q] = Len(accepted)
            /\ accepted' = accepted
        BY <1>0, <3>1, Zenon DEF CallSync, Call, Goto
      <3>3. Writing(q) /\ Taken(q, Len(accepted))
        BY <1>4, <2>1, Zenon DEF Wrote, Returned, Job, Writing
      <3>4. Taken(q, mark[q])'
        BY <3>1, <3>2, <3>3, Zenon DEF Taken, Own
      <3>5. Syncing(q)'
        BY <3>1, <3>2, <3>3, <3>4, ZenonT(60) DEF Syncing, Writing
      <3> QED
        BY <3>1, <3>5, Zenon DEF Job
    <2>2. CASE ~(ret[q] = "ok" /\ MustSync(levelOf[entry[q]]))
      BY <1>1, <1>4, <2>2, Zenon DEF Wrote, OnWrite, Job
    <2> QED
      BY Zenon, <2>1, <2>2
  <1>5. CASE Synced(q)
    BY <1>1, <1>5, Zenon DEF Synced, OnWrite, Job
  <1> QED
    BY Zenon, <1>2, <1>3, <1>4, <1>5

\* The steps of the call that q has made keep what is known of it: bufio takes the
\* whole entry, or the call reports an error.
LEMMA OwnStep ==
  ASSUME TypeOK, CInv, DInv, LogOK, NEW q \in Procs, Job(q), UNCHANGED logging,
         Step(q) \/ Lock(q) \/ Sync(q)
  PROVE  Job(q)'
  <1>0. /\ q \in Actors /\ q # Loop /\ DOMAIN pc = Actors /\ DOMAIN rest = Procs
        /\ DOMAIN ret = Procs /\ rest[q] \in Seq(Byte) /\ accepted \in Seq(Byte)
        /\ Len(accepted) \in Nat /\ mark[q] \in Nat /\ due[q] \in Nat
    BY ProcsAssumption, LenProperties, Zenon DEF TypeOK, LogOK, Actors
  <1>1. at' = at /\ entry' = entry /\ due' = due
    BY Zenon DEF logging
  <1>2. /\ Len(accepted') \in Nat /\ Len(accepted') >= Len(accepted)
        /\ \A k \in 1..Len(accepted) : accepted'[k] = accepted[k]
    <2>1. [Next]_vars
      BY Zenon, <1>0 DEF Next
    <2> QED
      BY <2>1, Grows, Zenon DEF DInv
  <1>3. CASE at[q] = "sync"
    <2>1. Syncing(q)
      BY <1>3, Zenon DEF Job
    <2>2. /\ pc'[q] \in {"sync", "syncing", "idle"} /\ op' = op /\ mark' = mark
          /\ accepted' = accepted
      <3>1. CASE Lock(q)
        BY <1>0, <2>1, <3>1, Zenon DEF Lock, Goto, call, history, Syncing
      <3>2. CASE Sync(q)
        BY <1>0, <2>1, <3>2, Zenon DEF Sync, Return, Goto
      <3>3. CASE Step(q)
        BY <2>1, <3>3, Zenon DEF Step, Initialize, MakeRoom, Spill, Put, StopCritical,
                          AwaitDone, Syncing
      <3> QED
        BY Zenon, <3>1, <3>2, <3>3
    <2>3. Syncing(q)'
      BY <1>1, <2>1, <2>2, Zenon DEF Syncing, Taken, Own
    <2> QED
      BY <1>1, <1>3, <2>3, Zenon DEF Job
  <1>4. CASE at[q] = "write"
    <2>0. Writing(q) /\ entry[q] \in Msgs
      BY <1>4, ZenonT(60) DEF Job, Writing
    <2>1. due'[q] <= Len(accepted') /\ entry'[q] \in Msgs
      BY <1>0, <1>1, <1>2, <2>0 DEF Writing
    <2>2. Own(q)' = Own(q) /\ Own(q) = <<entry[q], MsgLen[entry[q]]>>
      BY <1>1, Zenon DEF Own
    <2>3. Taken(q, Len(accepted)) => Taken(q, Len(accepted))'
      BY <1>0, <1>2, <2>2 DEF Taken
    <2>4. ASSUME accepted' = accepted \o Bytes(entry[q])
          PROVE  Taken(q, Len(accepted))'
      <3>1. Len(accepted') \in Nat \ {0} /\ accepted'[Len(accepted')] = Own(q)'
        BY <1>0, <2>0, <2>2, <2>4, LastByte, ZenonT(60)
      <3> QED
        BY <3>1 DEF Taken
    <2>5. CASE Lock(q)
      <3>1. pc[q] = "write" /\ pc'[q] = "writing" /\ rest' = rest
        BY <1>0, <2>0, <2>5, Zenon DEF Lock, Goto, call, Writing
      <3> QED
        BY <1>1, <1>4, <2>0, <2>1, <3>1, Zenon DEF Job, Writing
    <2>6. CASE Initialize(q)
      <3>1. pc[q] = "writing" /\ pc'[q] = "room" /\ rest' = rest
        BY <1>0, <2>6, ZenonT(60) DEF Initialize, Goto, call
      <3> QED
        BY <1>1, <1>4, <2>0, <2>1, <3>1, Zenon DEF Job, Writing
    <2>7. CASE MakeRoom(q)
      <3>1. pc[q] = "room" /\ (Return(q, "err") \/ (Goto(q, "put") /\ rest' = rest))
        BY <2>7, Zenon DEF MakeRoom
      <3>2. (pc'[q] = "idle" /\ ret'[q] = "err") \/ (pc'[q] = "put" /\ rest' = rest)
        BY <1>0, <3>1, Zenon DEF Return, Goto
      <3> QED
        BY <1>1, <1>4, <2>0, <2>1, <3>1, <3>2, ZenonT(30) DEF Job, Writing
    <2>8. CASE Spill(q)
      <3>1. /\ pc[q] = "put" /\ ~werr /\ pc' = pc /\ buf = << >>
            /\ rest[q] = Bytes(entry[q]) \/ (rest[q] = << >> /\ Taken(q, Len(accepted)))
        BY <2>0, <2>8, Zenon DEF Spill, DInv, Pending, Writing
      <3>2. PICK n \in 0..Len(rest[q]) :
              /\ n < Len(rest[q]) => werr'
              /\ accepted' = accepted \o Take(rest[q], n)
              /\ rest' = [rest EXCEPT ![q] = Drop(@, n)]
        BY <2>8, <3>1, SpillEffect, Zenon
      <3>3. ASSUME ~werr'
            PROVE  rest'[q] = << >> /\ Taken(q, Len(accepted))'
        <4>1. n = Len(rest[q])
          BY <1>0, <3>2, <3>3, LenProperties
        <4>2. accepted' = accepted \o rest[q] /\ rest'[q] = << >>
          BY <1>0, <3>2, <4>1, TakeAll, ZenonT(60)
        <4> QED
          BY <2>3, <2>4, <3>1, <4>2, ZenonT(60)
      <3> QED
        BY <1>1, <1>4, <2>1, <3>1, <3>3, ZenonT(60) DEF Job, Writing
    <2>9. CASE Put(q)
      <3>1. pc'[q] = "idle"
        BY <1>0, <2>9, Zenon DEF Put, Return, Goto
      <3>2. ASSUME ret'[q] = "ok"
            PROVE  Taken(q, Len(accepted))'
        <4>1. pc[q] = "put" /\ ~werr /\ accepted' = accepted \o rest[q]
          BY <1>0, <2>9, <3>2, Zenon DEF Put, Return
        <4>2. rest[q] = Bytes(entry[q]) \/ Taken(q, Len(accepted))
          BY <2>0, <4>1, ZenonT(60) DEF Writing
        <4> QED
          BY <2>3, <2>4, <4>1, <4>2, ZenonT(60)
      <3> QED
        BY <1>1, <1>4, <2>1, <3>1, <3>2, Zenon DEF Job, Writing
    <2>10. CASE StopCritical(q) \/ AwaitDone(q) \/ Sync(q)
      BY <2>0, <2>10, Zenon DEF StopCritical, AwaitDone, Sync, Writing
    <2> QED
      BY <2>5, <2>6, <2>7, <2>8, <2>9, <2>10, ZenonT(60) DEF Step
  <1> QED
    BY <1>1, <1>3, <1>4, Zenon DEF Job

\* What is known of the calls is inductive.
PInv == LogOK /\ \A p \in Procs : Job(p)

LEMMA PInvStep ==
  TypeOK /\ CInv /\ DInv /\ PInv /\ [PNext]_<<vars, logging>> => PInv'
  <1> SUFFICES ASSUME TypeOK, CInv, DInv, PInv, [PNext]_<<vars, logging>>
               PROVE  PInv'
    BY Zenon
  <1>0. LogOK /\ (\A p \in Procs : Job(p)) /\ [Next]_vars
    BY SyncerStep, Zenon DEF PInv
  <1>1. LogOK'
    BY <1>0, LogOKStep, TypeParts, Zenon
  <1> SUFFICES ASSUME NEW q \in Procs
               PROVE  Job(q)'
    BY <1>1, Zenon DEF PInv
  <1>2. due[q] \in Nat /\ Job(q)
    BY <1>0, Zenon DEF LogOK
  <1>3. ASSUME NEW p \in Procs,
               \/ \E m \in Msgs : Log(p, m)
               \/ SyncOrStop(p) \/ Wrote(p) \/ Synced(p)
        PROVE  Job(q)'
    <2>1. CASE p = q
      BY <1>0, <1>2, <1>3, <2>1, OwnCall, Zenon
    <2>2. CASE p # q
      <3>1. /\ pc'[q] = pc[q] /\ rest'[q] = rest[q] /\ op'[q] = op[q] /\ ret'[q] = ret[q]
            /\ mark'[q] = mark[q] /\ at'[q] = at[q] /\ entry'[q] = entry[q]
            /\ due'[q] = due[q]
        BY <1>0, <1>3, <2>2, OthersCall, Zenon
      <3> QED
        BY <1>0, <1>2, <3>1, OthersKeep, Zenon
    <2> QED
      BY ZenonT(30), <2>1, <2>2
  <1>4. ASSUME UNCHANGED logging, pc'[q] = pc[q], rest'[q] = rest[q], op'[q] = op[q],
               ret'[q] = ret[q], mark'[q] = mark[q]
        PROVE  Job(q)'
    <2>1. at' = at /\ entry' = entry /\ due' = due
      BY <1>4, Zenon DEF logging
    <2> QED
      BY <1>0, <1>2, <1>4, <2>1, OthersKeep, Zenon
  <1>5. ASSUME NEW a \in Actors, UNCHANGED logging,
               (a \in Procs /\ Step(a)) \/ Lock(a) \/ Sync(a)
        PROVE  Job(q)'
    <2>1. CASE a = q
      BY <1>0, <1>2, <1>5, <2>1, OwnStep, Zenon
    <2>2. CASE a # q
      BY <1>4, <1>5, <2>2, OthersStep, Zenon
    <2> QED
      BY ZenonT(30), <2>1, <2>2
  <1>6. ASSUME UNCHANGED logging, SelectTick \/ SelectStop \/ Tick
        PROVE  Job(q)'
    BY <1>4, <1>6, LoopStep, Zenon
  <1>7. CASE UNCHANGED <<vars, logging>>
    <2>1. UNCHANGED call /\ pc' = pc /\ UNCHANGED logging
      BY <1>7, Zenon DEF vars
    <2> QED
      BY <1>4, <2>1, Zenon DEF call
  <1>8. Procs \subseteq Actors
    BY Zenon DEF Actors
  <1> QED
    BY <1>3, <1>5, <1>6, <1>7, <1>8, Zenon DEF PNext

\* When a call at a level above ErrorLevel ends without an error, its Sync has
\* returned, and what it covers includes the entry.
LEMMA DurableStep ==
  ASSUME TypeOK, DInv, PInv, PNext, NEW p \in Procs,
         at[p] # "out", at'[p] = "out", levelOf[entry[p]] > ErrorLevel, ret[p] = "ok"
  PROVE  /\ due[p] <= synced
         /\ \E k \in 1..synced : sink[k] = <<entry[p], MsgLen[entry[p]]>>
  <1>0. /\ at \in [Procs -> {"out", "write", "sync"}] /\ Job(p) /\ due[p] \in Nat
        /\ entry \in [Procs -> Msgs \cup {NoEntry}]
    BY Zenon DEF PInv, LogOK
  <1>1. Synced(p)
    <2>1. ASSUME NEW q \in Procs, NEW m \in Msgs, Log(q, m)
          PROVE  FALSE
      BY <1>0, <2>1, Zenon DEF Log
    <2>2. ASSUME UNCHANGED at
          PROVE  FALSE
      BY <2>2, Zenon
    <2>3. ASSUME NEW q \in Procs, q # p, Wrote(q) \/ Synced(q)
          PROVE  FALSE
      BY <1>0, <2>3, Zenon DEF Wrote, Synced, OnWrite
    <2>4. ASSUME Wrote(p)
          PROVE  FALSE
      BY <1>0, <2>4, ZenonT(60) DEF Wrote, MustSync
    <2> QED
      BY <2>1, <2>2, <2>3, <2>4, Zenon DEF PNext, SyncOrStop, logging
  <1>2. at[p] = "sync" /\ pc[p] = "idle"
    BY <1>1, Zenon DEF Synced, Returned
  <1>3. Syncing(p)
    BY <1>0, <1>2, Zenon DEF Job
  <1>4. /\ mark[p] \in Nat /\ synced \in 0..Len(sink) /\ sink \in Seq(Byte)
        /\ buf \in Seq(Byte) /\ Len(sink) \in Nat
    BY LenProperties, Zenon DEF TypeOK
  <1>5. mark[p] <= synced
    BY <1>2, <1>3, ZenonT(60) DEF DInv, FlushedOnReturn, Syncing
  <1>6. PICK k \in 1..mark[p] : accepted[k] = <<entry[p], MsgLen[entry[p]]>>
    BY <1>3, Zenon DEF Syncing, Taken, Own
  <1>7. sink[k] = accepted[k]
    <2>1. accepted = sink \o buf
      BY Zenon DEF DInv, Conservation
    <2>2. k \in 1..Len(sink)
      BY <1>4, <1>5
    <2> QED
      BY <1>4, <2>1, <2>2, ConcatProperties
  <1>8. k \in 1..synced /\ due[p] <= synced
    BY <1>0, <1>3, <1>4, <1>5 DEF Syncing
  <1> QED
    BY Zenon, <1>6, <1>7, <1>8

\* For every buffer size, set of goroutines and entries, and whatever WS answers: when
\* a Panic or Fatal that saw no error is about to end the goroutine or the program, its
\* entry and all that were accepted before it are durable.
THEOREM TerminalIsDurableHolds == PSpec => TerminalIsDurable
  <1>1. PInit => PInv
    BY DEF PInit, PInv, LogOK, Job
  <1>2. TypeOK /\ DInv /\ PInv /\ [PNext]_<<vars, logging>> =>
          [\A p \in Procs :
             at[p] # "out" /\ at'[p] = "out" /\ levelOf[entry[p]] > ErrorLevel /\ ret[p] = "ok" =>
               /\ due[p] <= synced
               /\ \E k \in 1..synced : sink[k] = <<entry[p], MsgLen[entry[p]]>>]_<<vars, logging>>
    BY DurableStep, Zenon
  <1> QED
    BY <1>1, <1>2, PInvStep, Composed, TypeCorrect, ControlInvariant, DataInvariant, PTL
    DEF PSpec, TerminalIsDurable
=============================================================================
