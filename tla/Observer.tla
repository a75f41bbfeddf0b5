------------------------------ MODULE Observer ------------------------------
(***************************************************************************)
(* ladtest/observer: cores derived from one another with With, writing     *)
(* into one ObservedLogs that other goroutines read and empty.  Contexts   *)
(* are Go slices: a length and a capacity over a backing array that        *)
(* several slices may share.                                               *)
(***************************************************************************)
EXTENDS Integers, Sequences, FiniteSets

CONSTANTS
  Clients,     \* goroutines that log
  Fields,
  FieldLists,  \* arguments of With
  Bounds       \* bounds on the cores derived and the entries written, as pairs

ASSUME FieldListsAssumption == FieldLists \subseteq Seq(Fields)

Unused == "unused"   \* an element of a backing array beyond every length

VARIABLES
  heap,      \* the backing arrays
  cores,     \* the contexts, slices [arr, len, cap]
  ctx,       \* history: the fields each core was derived with
  logs,      \* o.logs
  taken,     \* history: what TakeAll has returned, in order
  written,   \* history: the entries added, in order
  opc,       \* opc[p]: the entry p is about to add, or NoEntry
  seen       \* what the last reader was given

observerVars == <<heap, cores, ctx, logs, taken, written, opc, seen>>

NoEntry == [id |-> 0]

ObserverInit ==
  /\ heap = << << >> >>
  /\ cores = <<[arr |-> 1, len |-> 0, cap |-> 0]>>
  /\ ctx = << << >> >>
  /\ logs = << >> /\ taken = << >> /\ written = << >>
  /\ opc = [p \in Clients |-> NoEntry]
  /\ seen = << >>

Elems(s) == SubSeq(heap[s.arr], 1, s.len)
-----------------------------------------------------------------------------
Pad(s, n) == s \o [k \in 1..(n - Len(s)) |-> Unused]

\* append(s, fs...): in place if the capacity allows, in a new array, with room
\* to spare, if it does not.  Gives the new heap and the resulting slice.
GoAppend(s, fs) ==
  LET n == s.len + Len(fs)
      grown == IF n > 2 * s.cap THEN n ELSE 2 * s.cap
  IN IF n <= s.cap
     THEN [heap |-> [heap EXCEPT ![s.arr] =
                       [k \in DOMAIN @ |-> IF k > s.len /\ k <= n THEN fs[k - s.len] ELSE @[k]]],
           slice |-> [s EXCEPT !.len = n]]
     ELSE [heap |-> Append(heap, Pad(Elems(s) \o fs, grown)),
           slice |-> [arr |-> Len(heap) + 1, len |-> n, cap |-> grown]]

NumEntries == Len(written) + Cardinality({p \in Clients : opc[p] # NoEntry})
Room(n, m) == \E b \in Bounds : n <= b[1] /\ m <= b[2]

\* Mutant of Clip: the slice keeps its capacity.
ClipNot(s) == s

\* co.context[:len(co.context):len(co.context)]
Clip(s) == [s EXCEPT !.cap = s.len]

WithFields(c, fs) ==
  /\ Room(Len(cores) + 1, NumEntries)
  /\ LET r == GoAppend(Clip(cores[c]), fs) IN
       heap' = r.heap /\ cores' = Append(cores, r.slice)
  /\ ctx' = Append(ctx, ctx[c] \o fs)
  /\ UNCHANGED <<logs, taken, written, opc, seen>>

\* Write, up to the call of add: the context is copied into all.
Write(p, c, f) ==
  /\ opc[p] = NoEntry
  /\ Room(Len(cores), NumEntries + 1)
  /\ opc' = [opc EXCEPT ![p] = [id |-> c, time |-> 1, fields |-> Append(Elems(cores[c]), f)]]
  /\ UNCHANGED <<heap, cores, ctx, logs, taken, written, seen>>

Add(p) ==
  /\ opc[p] # NoEntry
  /\ logs' = Append(logs, opc[p])
  /\ written' = Append(written, opc[p])
  /\ opc' = [opc EXCEPT ![p] = NoEntry]
  /\ UNCHANGED <<heap, cores, ctx, taken, seen>>

TakeAll ==
  /\ taken' = taken \o logs
  /\ logs' = << >>
  /\ UNCHANGED <<heap, cores, ctx, written, opc, seen>>

Read(s) == seen' = s /\ UNCHANGED <<heap, cores, ctx, logs, taken, written, opc>>

All == Read(logs)

Untimed(s) == [k \in DOMAIN s |-> [s[k] EXCEPT !.time = 0]]

\* Mutant of AllUntimed: the times are overwritten in the collection.
AllUntimedInPlace ==
  /\ seen' = Untimed(logs) /\ logs' = seen'
  /\ UNCHANGED <<heap, cores, ctx, taken, written, opc>>

AllUntimed == Read(Untimed(logs))

\* The entries for which the function returns true, in order; keep: those entries.
Filter(keep) ==
  LET matching == {k \in DOMAIN logs : logs[k] \in keep}
  IN \E n \in 0..Len(logs) : \E at \in [1..n -> DOMAIN logs] :
       /\ \A j, k \in 1..n : j < k => at[j] < at[k]
       /\ {at[k] : k \in 1..n} = matching
       /\ Read([k \in 1..n |-> logs[at[k]]])

FilterField(f) ==
  Filter({e \in {logs[k] : k \in DOMAIN logs} : \E j \in DOMAIN e.fields : e.fields[j] = f})

ObserverNext ==
  \/ \E c \in DOMAIN cores, fs \in FieldLists : WithFields(c, fs)
  \/ \E p \in Clients, c \in DOMAIN cores, f \in Fields : Write(p, c, f)
  \/ \E p \in Clients : Add(p)
  \/ TakeAll \/ All \/ AllUntimed
  \/ \E f \in Fields : FilterField(f)

ObserverSpec == ObserverInit /\ [][ObserverNext]_observerVars
-----------------------------------------------------------------------------
\* A core's context is the fields it was derived with for as long as it lives,
\* whatever cores are derived from the same parent before or after it.
ContextsApart == \A c \in DOMAIN cores : Elems(cores[c]) = ctx[c]

\* What a reader was given is entries in the order in which they were added.
ReadsInOrder ==
  \E f \in [DOMAIN seen -> DOMAIN written] :
    /\ \A j, k \in DOMAIN seen : j < k => f[j] < f[k]
    /\ \A k \in DOMAIN seen : seen[k].id = written[f[k]].id /\ seen[k].fields = written[f[k]].fields

\* No entry is lost, duplicated, reordered or altered between the moment it is
\* added and the TakeAll that returns it, whoever reads in between, and readers
\* get entries in the order in which they were added.
NothingLost == taken \o logs = written /\ ReadsInOrder
=============================================================================
