------------------------------ MODULE EntryLog ------------------------------
(***************************************************************************)
(* What a buffering WriteSyncer promises: log is what callers were told is *)
(* written, out what the destination has received.  out is always an       *)
(* initial segment of log, both only grow, and both grow by whole entries  *)
(* until the destination fails; after that neither changes.                *)
(***************************************************************************)
EXTENDS Integers, Sequences

CONSTANTS Msgs, MsgLen
VARIABLES log, out, failed

vars == <<log, out, failed>>

Entry(m) == [i \in 1..MsgLen[m] |-> <<m, i>>]

Init == log = << >> /\ out = << >> /\ failed = FALSE

AtBoundary(s) == s # << >> => s[Len(s)][2] = MsgLen[s[Len(s)][1]]

\* The destination receives more of the log, possibly nothing.
Deliver == \E k \in Len(out)..Len(log') : out' = SubSeq(log', 1, k)

Advance ==
  /\ ~failed /\ ~failed'
  /\ log' = log \/ \E m \in Msgs : log' = log \o Entry(m)
  /\ Deliver
  /\ AtBoundary(out')

\* The failing write may have been cut anywhere.
Fail ==
  /\ ~failed /\ failed'
  /\ Len(log') >= Len(log) /\ SubSeq(log', 1, Len(log)) = log
  /\ Deliver

Next == Advance \/ Fail

Spec == Init /\ [][Next]_vars
=============================================================================
