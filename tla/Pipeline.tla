------------------------------ MODULE Pipeline -------------------------------
(***************************************************************************)
(* A Logger over a core that writes to a BufferedWriteSyncer: goroutines   *)
(* log at any level, call Sync, and stop the syncer, while its flush loop  *)
(* runs.  An entry above ErrorLevel is synced before the call ends, as it  *)
(* may end the program.  Which entries reach a core, and the hooks that    *)
(* end a call, are module Logger's; here the core takes every entry, a     *)
(* panic is recovered, and Fatal exits.                                    *)
(***************************************************************************)
EXTENDS BufferedWriteSyncer

CONSTANT Levels   \* the levels the entries may have: functions of Msgs

VARIABLES
  levelOf,  \* levelOf[m] is the level entry m is logged at
  at,       \* where a goroutine is: "out" of the Logger, or in the core's call of
            \* "write" or "sync"
  entry,    \* the entry it logs
  due,      \* history: the bytes accepted when it began, if it must sync
  exited    \* the program has ended

logging == <<levelOf, at, entry, due, exited>>

ErrorLevel == 2
FatalLevel == 5
NoEntry == "none"

\* An encoded entry has at least its braces or its message, or the line's end.
ASSUME EntryAssumption == \A m \in Msgs : MsgLen[m] > 0 /\ m # NoEntry
ASSUME LevelsAssumption == Levels \subseteq [Msgs -> Int]

PInit ==
  /\ Init
  /\ levelOf \in Levels
  /\ at = [p \in Procs |-> "out"]
  /\ entry = [p \in Procs |-> NoEntry]
  /\ due = [p \in Procs |-> 0]
  /\ exited = FALSE

\* Mutant of MustSync: only what is above FatalLevel.
MustSyncLess(l) == l > FatalLevel
\* "Since we may be crashing the program, sync the output."
MustSync(l) == l > ErrorLevel

\* The call of the syncer that p made has returned.
Returned(p, l) == at[p] = l /\ pc[p] = "idle"

\* ioCore.Write of an encoded entry, up to c.out.Write.
Log(p, m) ==
  /\ at[p] = "out"
  /\ CallWrite(p, m)
  /\ at' = [at EXCEPT ![p] = "write"]
  /\ entry' = [entry EXCEPT ![p] = m]
  /\ due' = [due EXCEPT ![p] = IF levelOf[m] > ErrorLevel THEN Len(accepted) ELSE 0]
  /\ UNCHANGED <<levelOf, exited>>

\* Logger.Sync, and Stop of the syncer.
SyncOrStop(p) == at[p] = "out" /\ (CallSync(p) \/ CallStop(p)) /\ UNCHANGED logging

\* The call of p ends: CheckedEntry.Write runs the hook of the level, if it has one.
OnWrite(p) ==
  /\ at' = [at EXCEPT ![p] = "out"]
  /\ entry' = [entry EXCEPT ![p] = NoEntry]
  /\ due' = [due EXCEPT ![p] = 0]
  /\ exited' = (levelOf[entry[p]] = FatalLevel)
  /\ UNCHANGED <<levelOf, vars>>

\* ioCore.Write after c.out.Write: an error is returned at once; otherwise an entry
\* above ErrorLevel is synced.
Wrote(p) ==
  /\ Returned(p, "write")
  /\ IF ret[p] = "ok" /\ MustSync(levelOf[entry[p]])
     THEN CallSync(p) /\ at' = [at EXCEPT ![p] = "sync"] /\ UNCHANGED <<levelOf, entry, due, exited>>
     ELSE OnWrite(p)

\* ... and the error of Sync is ignored.
Synced(p) == Returned(p, "sync") /\ OnWrite(p)

PNext ==
  \/ /\ ~exited
     /\ \/ \E p \in Procs, m \in Msgs : Log(p, m)
        \/ \E p \in Procs : SyncOrStop(p) \/ Wrote(p) \/ Synced(p)
        \/ /\ \/ \E p \in Procs : Step(p)
              \/ \E a \in Actors : Lock(a) \/ Sync(a)
              \/ SelectTick \/ SelectStop \/ Tick
           /\ UNCHANGED logging
  \/ exited /\ UNCHANGED <<vars, logging>>

PSpec == PInit /\ [][PNext]_<<vars, logging>>
-----------------------------------------------------------------------------
\* When a Panic or Fatal is about to end the goroutine or the program, and the syncer
\* reported no error to it, its own entry and every entry accepted before it was
\* logged, by any goroutine and at any level, have left the buffer and are synced,
\* whatever the flush loop and a Stop are doing (ioCore.Write, Sync).
TerminalIsDurable ==
  [][\A p \in Procs :
       at[p] # "out" /\ at'[p] = "out" /\ levelOf[entry[p]] > ErrorLevel /\ ret[p] = "ok" =>
         /\ due[p] <= synced
         /\ \E k \in 1..synced : sink[k] = <<entry[p], MsgLen[entry[p]]>>]_<<vars, logging>>
=============================================================================
