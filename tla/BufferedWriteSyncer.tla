------------------------- MODULE BufferedWriteSyncer -------------------------
(***************************************************************************)
(* ladcore.BufferedWriteSyncer: goroutines call Write, Sync and Stop while *)
(* a background flush loop empties the buffer on every tick.  A log entry  *)
(* m is MsgLen[m] bytes, and byte i of m is the pair <<m, i>>, so that the *)
(* sink shows which bytes arrived, in which order, and where entries are   *)
(* cut.  The mutex is explicit; each step of a critical section is one     *)
(* action.                                                                 *)
(***************************************************************************)
EXTENDS Integers, Sequences

CONSTANTS
  Procs,        \* goroutines that call the syncer
  Msgs,         \* log entries; each is written once
  MsgLen,       \* MsgLen[m] is the length of m in bytes
  Size,         \* the Size field; 0 asks for the default
  DefaultSize,  \* _defaultBufferSize
  WSMayFail     \* whether the wrapped WriteSyncer may return errors

Loop == "flushLoop"
Free == "free"
Actors == Procs \cup {Loop}

ASSUME ProcsAssumption == Loop \notin Procs /\ Free \notin Procs
ASSUME MsgsAssumption == MsgLen \in [Msgs -> Nat]
ASSUME SizeAssumption == Size \in Nat /\ DefaultSize \in Nat \ {0}
ASSUME FailAssumption == WSMayFail \in BOOLEAN

VARIABLES
  initialized, stopped,    \* the fields of the same names
  tickerOn, tick,          \* s.ticker: running, and its channel of capacity 1
  stopClosed, doneClosed,  \* the channels s.stop and s.done
  mu,                      \* holder of s.mu
  buf, werr,               \* s.writer: buffered bytes, stored error
  sink, synced,            \* s.WS: bytes received, how many a WS.Sync covered
  pc,                      \* control state of every goroutine
  op, rest,                \* the call in progress: method, bytes left to write
  ret,                     \* result of the last call
  mark,                    \* history: bytes accepted when the call began
  accepted,                \* history: bytes Write reported as written
  issued,                  \* history: entries passed to Write
  loopErr,                 \* history: flushLoop discarded an error of Sync
  panicked                 \* a channel was closed twice

bufio == <<buf, werr>>
ws == <<sink, synced>>
lifecycle == <<initialized, stopped, tickerOn, tick, stopClosed, doneClosed>>
call == <<op, rest, ret, mark>>
history == <<accepted, issued, loopErr, panicked>>
vars == <<lifecycle, mu, bufio, ws, pc, call, history>>

Byte == Msgs \X Nat
Bytes(m) == [i \in 1..MsgLen[m] |-> <<m, i>>]
Drop(s, n) == SubSeq(s, n + 1, Len(s))
Take(s, n) == SubSeq(s, 1, n)

\* initialize: a Size of zero selects the default.
Capacity == IF Size = 0 THEN DefaultSize ELSE Size
Available == Capacity - Len(buf)

\* What WS.Write may answer for len bytes: fewer bytes only with an error.
Outcomes(len) ==
  {o \in [n : 0..len, err : BOOLEAN] :
      (o.n < len => o.err) /\ (o.err => WSMayFail)}

Init ==
  /\ initialized = FALSE /\ stopped = FALSE
  /\ tickerOn = FALSE /\ tick = FALSE
  /\ stopClosed = FALSE /\ doneClosed = FALSE
  /\ mu = Free
  /\ buf = << >> /\ werr = FALSE
  /\ sink = << >> /\ synced = 0
  /\ pc = [a \in Actors |-> IF a = Loop THEN "none" ELSE "idle"]
  /\ op = [p \in Procs |-> "none"]
  /\ rest = [p \in Procs |-> << >>]
  /\ ret = [p \in Procs |-> "none"]
  /\ mark = [p \in Procs |-> 0]
  /\ accepted = << >> /\ issued = {} /\ loopErr = FALSE /\ panicked = FALSE

Goto(a, l) == pc' = [pc EXCEPT ![a] = l]

\* The call of p returns r and the deferred Unlock runs.
Return(p, r) ==
  /\ mu' = Free
  /\ Goto(p, "idle")
  /\ ret' = [ret EXCEPT ![p] = r]
  /\ rest' = [rest EXCEPT ![p] = << >>]

Call(p, name, first) ==
  /\ pc[p] = "idle"
  /\ Goto(p, first)
  /\ op' = [op EXCEPT ![p] = name]
  /\ ret' = [ret EXCEPT ![p] = "none"]
  /\ mark' = [mark EXCEPT ![p] = Len(accepted)]
  /\ UNCHANGED <<lifecycle, mu, bufio, ws, accepted, loopErr, panicked>>

CallWrite(p, m) ==
  /\ m \notin issued
  /\ Call(p, "Write", "write")
  /\ rest' = [rest EXCEPT ![p] = Bytes(m)]
  /\ issued' = issued \cup {m}

CallSync(p) == Call(p, "Sync", "sync") /\ UNCHANGED <<rest, issued>>

CallStop(p) == Call(p, "Stop", "stop") /\ UNCHANGED <<rest, issued>>

\* s.mu.Lock() at the head of Write, Sync and Stop's critical section.
Lock(a) ==
  /\ pc[a] \in {"write", "sync", "stop"}
  /\ mu = Free
  /\ mu' = a
  /\ Goto(a, CASE pc[a] = "write" -> "writing"
               [] pc[a] = "sync"  -> "syncing"
               [] pc[a] = "stop"  -> "stopping")
  /\ UNCHANGED <<lifecycle, bufio, ws, call, history>>
-----------------------------------------------------------------------------
\* Mutant of Initialize: the flush loop is not started.
InitializeNoLoop(p) ==
  /\ pc[p] = "writing"
  /\ tickerOn' = TRUE
  /\ initialized' = TRUE
  /\ Goto(p, "room")
  /\ UNCHANGED <<stopped, tick, stopClosed, doneClosed, mu, bufio, ws, call,
                 history>>

\* Write, first step: if !s.initialized { s.initialize() }.
Initialize(p) ==
  /\ pc[p] = "writing"
  /\ IF initialized
     THEN Goto(p, "room") /\ UNCHANGED <<lifecycle, bufio>>
     ELSE /\ tickerOn' = TRUE
          /\ buf' = << >> /\ werr' = FALSE
          /\ stopClosed' = FALSE /\ doneClosed' = FALSE
          /\ initialized' = TRUE
          /\ pc' = [pc EXCEPT ![p] = "room", ![Loop] = "select"]
          /\ UNCHANGED <<stopped, tick>>
  /\ UNCHANGED <<mu, ws, call, history>>

\* Mutants of Flush: unsent bytes are dropped; a stored error is forgotten.
FlushDropsRest(o) ==
  IF werr \/ buf = << >>
  THEN UNCHANGED <<buf, werr, sink>>
  ELSE sink' = sink \o Take(buf, o.n) /\ buf' = << >> /\ werr' = o.err
FlushRetries(o) ==
  /\ sink' = sink \o Take(buf, o.n)
  /\ buf' = Drop(buf, o.n)
  /\ werr' = o.err

\* bufio.Writer.Flush when WS.Write answers o; its result is the stored error.
Flush(o) ==
  IF werr \/ buf = << >>
  THEN UNCHANGED <<buf, werr, sink>>
  ELSE /\ sink' = sink \o Take(buf, o.n)
       /\ buf' = Drop(buf, o.n)
       /\ werr' = o.err

\* Mutant of MakeRoom: the buffer is left to bufio, which splits the entry.
MakeRoomNoFlush(p) ==
  /\ pc[p] = "room"
  /\ Goto(p, "put")
  /\ UNCHANGED <<lifecycle, mu, bufio, ws, call, history>>

\* Write, second step: an entry that does not fit flushes the buffer first.
MakeRoom(p) ==
  /\ pc[p] = "room"
  /\ IF Len(rest[p]) > Available /\ Len(buf) > 0
     THEN \E o \in Outcomes(Len(buf)) :
            /\ Flush(o)
            /\ IF werr' THEN Return(p, "err")
                        ELSE Goto(p, "put") /\ UNCHANGED <<mu, ret, rest>>
     ELSE Goto(p, "put") /\ UNCHANGED <<mu, ret, rest, bufio, sink>>
  /\ UNCHANGED <<lifecycle, synced, op, mark, history>>

\* bufio.Writer.Write, one iteration of its loop over input that does not fit:
\* an empty buffer is bypassed, a non-empty one is filled and flushed.
Spill(p) ==
  /\ pc[p] = "put"
  /\ ~werr
  /\ Len(rest[p]) > Available
  /\ LET fill == Take(rest[p], Available)
         out == IF buf = << >> THEN rest[p] ELSE buf \o fill
     IN \E o \in Outcomes(Len(out)) :
          LET taken == IF buf = << >> THEN o.n ELSE Len(fill)
          IN /\ sink' = sink \o Take(out, o.n)
             /\ buf' = IF buf = << >> THEN buf ELSE Drop(out, o.n)
             /\ werr' = o.err
             /\ accepted' = accepted \o Take(rest[p], taken)
             /\ rest' = [rest EXCEPT ![p] = Drop(@, taken)]
  /\ UNCHANGED <<lifecycle, mu, synced, pc, op, ret, mark, issued, loopErr,
                 panicked>>

\* Mutant of Put: the stored error does not stop the writer.
PutIgnoresError(p) ==
  /\ pc[p] = "put"
  /\ werr \/ Len(rest[p]) <= Available
  /\ buf' = buf \o rest[p]
  /\ accepted' = accepted \o rest[p]
  /\ Return(p, "ok")
  /\ UNCHANGED <<lifecycle, werr, ws, op, mark, issued, loopErr, panicked>>

\* bufio.Writer.Write after its loop: report the stored error or buffer the
\* input; then Write returns.
Put(p) ==
  /\ pc[p] = "put"
  /\ werr \/ Len(rest[p]) <= Available
  /\ IF werr
     THEN Return(p, "err") /\ UNCHANGED <<buf, accepted>>
     ELSE /\ buf' = buf \o rest[p]
          /\ accepted' = accepted \o rest[p]
          /\ Return(p, "ok")
  /\ UNCHANGED <<lifecycle, werr, ws, op, mark, issued, loopErr, panicked>>
-----------------------------------------------------------------------------
\* Mutant of MustFlush: a stopped syncer is taken to be empty.
MustFlushUnlessStopped == initialized /\ ~stopped

\* There is a bufio writer to flush.
MustFlush == initialized

\* Sync under the lock: flush if initialized, then WS.Sync in any case, which
\* answers an error iff se.  flushLoop discards the result.
Sync(a) ==
  /\ pc[a] = "syncing"
  /\ \E o \in Outcomes(Len(buf)), se \in {FALSE, WSMayFail} :
       /\ IF MustFlush THEN Flush(o) ELSE UNCHANGED <<bufio, sink>>
       /\ synced' = IF se THEN synced ELSE Len(sink')
       /\ LET failed == werr' \/ se
          IN IF a = Loop
             THEN /\ mu' = Free
                  /\ Goto(Loop, "select")
                  /\ loopErr' = (loopErr \/ failed)
                  /\ UNCHANGED <<ret, rest>>
             ELSE /\ Return(a, IF failed THEN "err" ELSE "ok")
                  /\ UNCHANGED loopErr
  /\ UNCHANGED <<lifecycle, op, mark, accepted, issued, panicked>>

\* Mutant of NothingToStop: no check of s.stopped.
NothingToStopUnchecked == ~initialized

\* Stop's early returns: not initialized, or already stopped.
NothingToStop == ~initialized \/ stopped

\* Stop's critical section.  "noop": nothing to clean up, the result is nil.
StopCritical(p) ==
  /\ pc[p] = "stopping"
  /\ IF NothingToStop
     THEN Return(p, "noop") /\ UNCHANGED <<lifecycle, panicked>>
     ELSE /\ stopped' = TRUE
          /\ tickerOn' = FALSE
          /\ stopClosed' = TRUE
          /\ panicked' = (panicked \/ stopClosed)
          /\ mu' = Free
          /\ Goto(p, "wait")
          /\ UNCHANGED <<initialized, tick, doneClosed, ret, rest>>
  /\ UNCHANGED <<bufio, ws, op, mark, accepted, issued, loopErr>>

\* Mutant of AwaitDone: Stop does not wait.
AwaitDoneEarly(p) ==
  /\ pc[p] = "wait"
  /\ Goto(p, "sync")
  /\ UNCHANGED <<lifecycle, mu, bufio, ws, call, history>>

\* <-s.done, outside of the lock; then Stop calls Sync.
AwaitDone(p) ==
  /\ pc[p] = "wait"
  /\ doneClosed
  /\ Goto(p, "sync")
  /\ UNCHANGED <<lifecycle, mu, bufio, ws, call, history>>
-----------------------------------------------------------------------------
\* flushLoop, case <-s.ticker.C.
SelectTick ==
  /\ pc[Loop] = "select"
  /\ tick
  /\ tick' = FALSE
  /\ Goto(Loop, "sync")
  /\ UNCHANGED <<initialized, stopped, tickerOn, stopClosed, doneClosed, mu,
                 bufio, ws, call, history>>

\* Mutant of SelectStop: close(s.done) is forgotten.
SelectStopNoClose ==
  /\ pc[Loop] = "select"
  /\ stopClosed
  /\ Goto(Loop, "ended")
  /\ UNCHANGED <<lifecycle, mu, bufio, ws, call, history>>

\* flushLoop, case <-s.stop: return, and the deferred close(s.done) runs.
SelectStop ==
  /\ pc[Loop] = "select"
  /\ stopClosed
  /\ doneClosed' = TRUE
  /\ panicked' = (panicked \/ doneClosed)
  /\ Goto(Loop, "ended")
  /\ UNCHANGED <<initialized, stopped, tickerOn, tick, stopClosed, mu, bufio,
                 ws, call, accepted, issued, loopErr>>

\* The clock's ticker sends without blocking; a tick nobody took is kept.
Tick ==
  /\ tickerOn
  /\ ~tick
  /\ tick' = TRUE
  /\ UNCHANGED <<initialized, stopped, tickerOn, stopClosed, doneClosed, mu,
                 bufio, ws, pc, call, history>>

\* The steps of a call that p has begun.
Step(p) ==
  \/ Initialize(p) \/ MakeRoom(p) \/ Spill(p) \/ Put(p)
  \/ StopCritical(p) \/ AwaitDone(p)

Next ==
  \/ \E p \in Procs, m \in Msgs : CallWrite(p, m)
  \/ \E p \in Procs : CallSync(p)
  \/ \E p \in Procs : CallStop(p)
  \/ \E p \in Procs : Step(p)
  \/ \E a \in Actors : Lock(a) \/ Sync(a)
  \/ SelectTick \/ SelectStop \/ Tick

Spec == Init /\ [][Next]_vars

\* sync.Mutex is starvation free, goroutines that can run are scheduled, and
\* the ticker keeps ticking.  Nobody is obliged to call anything.
Fairness ==
  /\ \A a \in Actors : SF_vars(Lock(a)) /\ WF_vars(Sync(a))
  /\ \A p \in Procs : WF_vars(Step(p))
  /\ WF_vars(SelectTick \/ SelectStop)
  /\ WF_vars(Tick)

FairSpec == Spec /\ Fairness
-----------------------------------------------------------------------------
Label == {"none", "idle", "write", "writing", "room", "put", "sync", "syncing",
          "stop", "stopping", "wait", "select", "ended"}

\* Types of the state; bufio never holds more than the capacity initialize gave it,
\* and WS.Sync never covers bytes that WS has not received.
TypeOK ==
  /\ initialized \in BOOLEAN /\ stopped \in BOOLEAN
  /\ tickerOn \in BOOLEAN /\ tick \in BOOLEAN
  /\ stopClosed \in BOOLEAN /\ doneClosed \in BOOLEAN
  /\ werr \in BOOLEAN /\ loopErr \in BOOLEAN /\ panicked \in BOOLEAN
  /\ mu \in Actors \cup {Free}
  /\ buf \in Seq(Byte) /\ sink \in Seq(Byte) /\ accepted \in Seq(Byte)
  /\ synced \in 0..Len(sink)
  /\ Len(buf) <= Capacity
  /\ pc \in [Actors -> Label]
  /\ op \in [Procs -> {"none", "Write", "Sync", "Stop"}]
  /\ rest \in [Procs -> Seq(Byte)]
  /\ ret \in [Procs -> {"none", "ok", "err", "noop"}]
  /\ mark \in [Procs -> Nat]
  /\ issued \subseteq Msgs

\* Write, Sync and Stop never lose, duplicate or reorder a byte: what Write
\* reported as written is what the sink has followed by what is buffered, also
\* after a short write of WS.
Conservation == sink \o buf = accepted

\* s is made of whole entries: it starts and ends at an entry's ends, and
\* between two bytes it continues an entry or starts a new one.
IsFirst(b) == b[2] = 1
IsLast(b) == b[2] = MsgLen[b[1]]
Follows(c, b) == \/ c[1] = b[1] /\ c[2] = b[2] + 1
                 \/ IsLast(b) /\ IsFirst(c)
Whole(s) ==
  /\ s # << >> => IsFirst(s[1]) /\ IsLast(s[Len(s)])
  /\ \A i \in 1 .. Len(s) - 1 : Follows(s[i + 1], s[i])

\* Until WS fails, every write it receives ends at an entry boundary ("To avoid
\* partial writes from being flushed"), whichever of a full buffer, an
\* oversized entry, a tick, Sync or Stop caused it.
WholeEntries == ~werr => Whole(sink) /\ Whole(buf)

\* A Sync, or the Stop that did the stopping, that returned nil has made
\* everything accepted before it was called durable.
FlushedOnReturn ==
  \A p \in Procs :
    op[p] \in {"Sync", "Stop"} /\ ret[p] = "ok" => mark[p] <= synced

\* No sequence of Stop calls closes s.stop or s.done twice, which would panic.
NoDoubleClose == ~panicked

\* Stop "cleans up background goroutines": when the stopping Stop returns, the
\* flush loop has ended and no tick can start it again.
LoopEndedOnReturn ==
  \A p \in Procs : op[p] = "Stop" /\ ret[p] \in {"ok", "err"} =>
    pc[Loop] = "ended" /\ doneClosed /\ ~tickerOn

\* After WS has failed nothing more reaches it, so the log it holds has no hole.
NoHole == [][werr => werr' /\ sink' = sink]_vars

\* The steps refine an in-order log of whole entries.
EntryLog == INSTANCE EntryLog WITH log <- accepted, out <- sink, failed <- werr
RefinesEntryLog == EntryLog!Spec

\* Every call of Stop returns: waiting for flushLoop outside of the lock cannot
\* deadlock with the Sync of flushLoop.
StopReturns ==
  \A p \in Procs : (op[p] = "Stop" /\ ret[p] = "none") ~> (ret[p] # "none")

\* While the syncer is running, an accepted byte reaches a healthy WS even if
\* nobody calls the syncer again.
EventuallyFlushed ==
  \A m \in Msgs : \A i \in 1..MsgLen[m] :
    (\E k \in DOMAIN accepted : accepted[k] = <<m, i>>)
      ~> (stopped \/ \E k \in DOMAIN sink : sink[k] = <<m, i>>)

\* "the underlying bufio writer stores any errors and we return any error from
\* Sync() as part of the close": a nil Stop means flushLoop met no error.
LoopErrorsReturned ==
  \A p \in Procs : op[p] = "Stop" /\ ret[p] = "ok" => ~loopErr
=============================================================================
