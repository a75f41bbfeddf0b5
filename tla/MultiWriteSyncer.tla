-------------------------- MODULE MultiWriteSyncer --------------------------
(***************************************************************************)
(* CombineWriteSyncers: goroutines call Write and Sync of a multi-         *)
(* WriteSyncer behind the mutex of Lock.  An entry is EntryLen bytes; a    *)
(* sink may take fewer, with an error (the contract of io.Writer), and may *)
(* fail to sync.  A call of the mutex-protected writer is several steps:   *)
(* the lock, one per sink, the unlock.                                     *)
(***************************************************************************)
EXTENDS Integers, Sequences

CONSTANTS
  Writers,    \* goroutines
  Entries,    \* what they write; each is written once
  NumSinks,   \* the sinks are 1..NumSinks, in the order of the slice
  EntryLen,   \* len(bs)
  SinksMayFail

Sinks == 1..NumSinks
Free == "free"

\* There is a sink (CombineWriteSyncers of none is a discarding one); "free" is no
\* goroutine and "none" no entry.
ASSUME MultiAssumption ==
  /\ NumSinks \in Nat \ {0} /\ EntryLen \in Nat /\ SinksMayFail \in BOOLEAN
  /\ Free \notin Writers /\ "none" \notin Entries

VARIABLES
  mu,            \* holder of the mutex of lockedWriteSyncer
  got,           \* got[s]: the entries s was given, with the bytes it took
  syncs,         \* syncs[s]: how many of them it had when it was last synced
  mpc, entry, mi,  \* a goroutine's call: where, its entry, index of the loop
  nWritten, err, \* results of the loop so far
  counts,        \* history: what the sinks answered in this call
  issued         \* history: entries passed to Write

multiCall == <<mpc, entry, mi, nWritten, err, counts>>
multiVars == <<mu, got, syncs, multiCall, issued>>

MultiInit ==
  /\ mu = Free
  /\ got = [s \in Sinks |-> << >>]
  /\ syncs = [s \in Sinks |-> 0]
  /\ mpc = [p \in Writers |-> "idle"]
  /\ entry = [p \in Writers |-> "none"]
  /\ mi = [p \in Writers |-> 1]
  /\ nWritten = [p \in Writers |-> 0]
  /\ err = [p \in Writers |-> FALSE]
  /\ counts = [p \in Writers |-> << >>]
  /\ issued = {}

Begin(p, l) ==
  /\ mpc[p] \in {"idle", "wrote", "synced", "panicked"}
  /\ mpc' = [mpc EXCEPT ![p] = l]
  /\ mi' = [mi EXCEPT ![p] = 1]
  /\ nWritten' = [nWritten EXCEPT ![p] = 0]
  /\ err' = [err EXCEPT ![p] = FALSE]
  /\ counts' = [counts EXCEPT ![p] = << >>]
  /\ UNCHANGED <<mu, got, syncs>>

CallWrite(p, e) ==
  /\ e \notin issued
  /\ issued' = issued \cup {e}
  /\ entry' = [entry EXCEPT ![p] = e]
  /\ Begin(p, "write")

CallSync(p) == Begin(p, "sync") /\ UNCHANGED <<entry, issued>>

\* Mutant of Lock: the multiWriteSyncer is used without Lock.
LockMissing(p) ==
  /\ mpc[p] \in {"write", "sync"}
  /\ mpc' = [mpc EXCEPT ![p] = IF @ = "write" THEN "writing" ELSE "syncing"]
  /\ UNCHANGED <<mu, got, syncs, entry, mi, nWritten, err, counts, issued>>

\* s.Lock() of Write and Sync.
Lock(p) ==
  /\ mpc[p] \in {"write", "sync"}
  /\ mu = Free
  /\ mu' = p
  /\ mpc' = [mpc EXCEPT ![p] = IF @ = "write" THEN "writing" ELSE "syncing"]
  /\ UNCHANGED <<got, syncs, entry, mi, nWritten, err, counts, issued>>

\* nWritten after a sink that took n bytes.
Fewest(nw, n) ==
  IF nw = 0 /\ n # 0 THEN n ELSE IF n < nw THEN n ELSE nw

\* One iteration of multiWriteSyncer.Write.
WriteSink(p) ==
  /\ mpc[p] = "writing" /\ mi[p] <= NumSinks
  /\ \E n \in 0..EntryLen, fail \in {FALSE, SinksMayFail} :
       /\ n < EntryLen => fail
       /\ got' = [got EXCEPT ![mi[p]] = Append(@, [entry |-> entry[p], n |-> n])]
       /\ err' = [err EXCEPT ![p] = @ \/ fail]
       /\ nWritten' = [nWritten EXCEPT ![p] = Fewest(@, n)]
       /\ counts' = [counts EXCEPT ![p] = Append(@, n)]
       /\ mi' = [mi EXCEPT ![p] = @ + 1]
  /\ UNCHANGED <<mu, syncs, mpc, entry, issued>>

\* Mutant of SyncSink: only the last error is kept.
SyncSinkLastError(p) ==
  /\ mpc[p] = "syncing" /\ mi[p] <= NumSinks
  /\ \E fail \in {FALSE, SinksMayFail} :
       /\ syncs' = IF fail THEN syncs ELSE [syncs EXCEPT ![mi[p]] = Len(got[mi[p]])]
       /\ err' = [err EXCEPT ![p] = fail]
       /\ mi' = [mi EXCEPT ![p] = @ + 1]
  /\ UNCHANGED <<mu, got, mpc, entry, nWritten, counts, issued>>

\* One iteration of multiWriteSyncer.Sync.
SyncSink(p) ==
  /\ mpc[p] = "syncing" /\ mi[p] <= NumSinks
  /\ \E fail \in {FALSE, SinksMayFail} :
       /\ syncs' = IF fail THEN syncs ELSE [syncs EXCEPT ![mi[p]] = Len(got[mi[p]])]
       /\ err' = [err EXCEPT ![p] = @ \/ fail]
       /\ mi' = [mi EXCEPT ![p] = @ + 1]
  /\ UNCHANGED <<mu, got, mpc, entry, nWritten, counts, issued>>

\* The sink panics, in Write or Sync, with nothing taken.  Unlock is not deferred:
\* the mutex stays locked, even if the caller recovers, and the call's locals go.
SinkPanics(p) ==
  /\ mpc[p] \in {"writing", "syncing"} /\ mi[p] <= NumSinks /\ SinksMayFail
  /\ mpc' = [mpc EXCEPT ![p] = "panicked"]
  /\ entry' = [entry EXCEPT ![p] = "none"]
  /\ mi' = [mi EXCEPT ![p] = 1]
  /\ nWritten' = [nWritten EXCEPT ![p] = 0]
  /\ err' = [err EXCEPT ![p] = FALSE]
  /\ counts' = [counts EXCEPT ![p] = << >>]
  /\ UNCHANGED <<mu, got, syncs, issued>>

\* s.Unlock() and return.
Unlock(p) ==
  /\ mpc[p] \in {"writing", "syncing"} /\ mi[p] > NumSinks
  /\ mu' = Free
  /\ mpc' = [mpc EXCEPT ![p] = IF @ = "writing" THEN "wrote" ELSE "synced"]
  /\ UNCHANGED <<got, syncs, entry, mi, nWritten, err, counts, issued>>

MultiStep(p) == Lock(p) \/ WriteSink(p) \/ SyncSink(p) \/ SinkPanics(p) \/ Unlock(p)

MultiNext ==
  \/ \E p \in Writers, e \in Entries : CallWrite(p, e)
  \/ \E p \in Writers : CallSync(p)
  \/ \E p \in Writers : MultiStep(p)

MultiSpec == MultiInit /\ [][MultiNext]_multiVars
-----------------------------------------------------------------------------
\* Every sink is given the same entries in the same order, those that another sink
\* failed to take included: a sink is at most one entry behind another, and not at
\* all while the mutex is free.  A panic half-way through the sinks makes no hole
\* either: the mutex it leaves locked stops every later Write.
SameOrder ==
  \A s, t \in Sinks :
    /\ Len(got[s]) - Len(got[t]) \in IF mu = Free THEN {0} ELSE -1 .. 1
    /\ \A k \in DOMAIN got[s] \cap DOMAIN got[t] : got[s][k].entry = got[t][k].entry

\* A Sync that reports no error has synced every sink, with all that the
\* goroutine had written before.
NilSyncIsDurable ==
  \A p \in Writers : mpc[p] = "synced" /\ ~err[p] =>
    \A s \in Sinks : \A k \in DOMAIN got[s] : got[s][k].entry = entry[p] => k <= syncs[s]

\* A Write that reports no error was taken whole by every sink and returns the
\* length of the entry.
NilWriteIsComplete ==
  \A p \in Writers : mpc[p] = "wrote" /\ ~err[p] =>
    /\ nWritten[p] = EntryLen
    /\ \A s \in Sinks : \E k \in DOMAIN got[s] : got[s][k] = [entry |-> entry[p], n |-> EntryLen]

\* No error from Sync, or from Write, means that it is done, at every sink.
NilMeansDone == NilSyncIsDurable /\ NilWriteIsComplete

\* "When not all underlying syncers write the same number of bytes, the smallest
\* number is returned even though Write() is called on all of them."
SmallestReturned ==
  \A p \in Writers : mpc[p] = "wrote" => \A k \in DOMAIN counts[p] : nWritten[p] <= counts[p][k]
=============================================================================
