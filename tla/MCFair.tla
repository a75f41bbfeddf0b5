------------------------------- MODULE MCFair -------------------------------
(***************************************************************************)
(* Instances of LazyWith and BufferedWriteSyncer, for the properties that  *)
(* need their fairness.  A behaviour is of one part, "lazy" or "syncer".   *)
(***************************************************************************)
EXTENDS LazyWith, TLC

CONSTANTS Parts, p1, p2, m1, m3

VARIABLES
  part,
  initialized, stopped, tickerOn, tick, stopClosed, doneClosed, mu, buf, werr,
  sink, synced, where, op, rest, ret, mark, accepted, issued, loopErr, panicked

\* A healthy destination; m1 fits the buffer and m3 exceeds it.
Syncer == INSTANCE BufferedWriteSyncer WITH
  Msgs <- {m1, m3}, MsgLen <- (m1 :> 1 @@ m3 :> 3), Size <- 2, DefaultSize <- 2,
  WSMayFail <- FALSE, pc <- where

syncer == <<initialized, stopped, tickerOn, tick, stopClosed, doneClosed, mu, buf, werr,
            sink, synced, where, op, rest, ret, mark, accepted, issued, loopErr, panicked>>
all == <<part, vars, syncer>>

Is(p) == part = p /\ UNCHANGED part
LazyDoes(A) == Is("lazy") /\ A /\ UNCHANGED syncer
SyncerDoes(A) == Is("syncer") /\ A /\ UNCHANGED vars

MCInit == part \in Parts /\ Init /\ Syncer!Init

MCNext == LazyDoes(Next) \/ SyncerDoes(Syncer!Next)

MCFairness ==
  /\ \A p \in Procs : WF_all(LazyDoes(Step(p)) \/ SyncerDoes(Syncer!Step(p)))
  /\ \A a \in Syncer!Actors : SF_all(SyncerDoes(Syncer!Lock(a))) /\ WF_all(SyncerDoes(Syncer!Sync(a)))
  /\ WF_all(SyncerDoes(Syncer!SelectTick \/ Syncer!SelectStop))
  /\ WF_all(SyncerDoes(Syncer!Tick))

MCSpec == MCInit /\ [][MCNext]_all /\ MCFairness

\* StopReturns and EventuallyFlushed of BufferedWriteSyncer.
StopReturns == Syncer!StopReturns
EventuallyFlushed == Syncer!EventuallyFlushed
=============================================================================
