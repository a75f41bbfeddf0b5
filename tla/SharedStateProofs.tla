------------------------- MODULE SharedStateProofs --------------------------
(***************************************************************************)
(* State that goroutines share, for any loggers, levels, paths and         *)
(* requests: the registries of Config, the globals, the level handler; and *)
(* the gRPC logger.                                                        *)
(***************************************************************************)
EXTENDS Config, Globals, LevelHandler, GRPCLogger, TLAPS

\* The elements of two sequences put together.
LEMMA Concatenated ==
  ASSUME NEW S, NEW s \in Seq(S), NEW t \in Seq(S)
  PROVE  /\ s \o t \in Seq(S) /\ Len(s \o t) = Len(s) + Len(t) /\ Len(s) \in Nat /\ Len(t) \in Nat
         /\ \A k \in 1 .. Len(s) : (s \o t)[k] = s[k]
         /\ \A k \in 1 .. Len(t) : (s \o t)[Len(s) + k] = t[k]
OBVIOUS

\* The elements of a sequence one longer.
LEMMA Appended ==
  ASSUME NEW S, NEW s \in Seq(S), NEW x \in S
  PROVE  /\ Append(s, x) \in Seq(S) /\ Len(Append(s, x)) = Len(s) + 1 /\ Len(s) \in Nat
         /\ \A k \in 1 .. Len(s) : Append(s, x)[k] = s[k]
         /\ Append(s, x)[Len(s) + 1] = x
OBVIOUS

\* An index that has gone past the last element of n.
LEMMA PastTheLast ==
  ASSUME NEW n \in Nat, NEW c \in 1 .. n + 1, c > n
  PROVE  c = n + 1
OBVIOUS

-----------------------------------------------------------------------------
(* Config                                                                  *)
SinkHandle == [path : STRING, closed : Nat]

\* The paths of a configuration, in the order in which they are opened.
AllPaths(p) == cfg[p].out \o cfg[p].err

\* How many paths the loop has been through.
Before(p) == IF cpc[p] = "out" THEN 0 ELSE Len(cfg[p].out)
Done(p) == Before(p) + ci[p] - 1

\* The open sinks are those of the paths the loop has been through, unless one failed.
Opening(p) ==
  /\ cpc[p] \in {"new", "out", "err", "failed", "built", "noLevel"}
  /\ cpc[p] # "new" => cfg[p].out \in Seq(STRING) /\ cfg[p].err \in Seq(STRING)
  /\ handles[p] \in Seq(SinkHandle)
  /\ cpc[p] = "new" => ci[p] = 1 /\ ~openErr[p] /\ handles[p] = << >>
  /\ cpc[p] \in {"out", "err"} =>
       /\ ci[p] \in 1 .. Len(Paths(p)) + 1
       /\ \A k \in 1 .. Len(handles[p]) : handles[p][k].closed = 0
       /\ ~openErr[p] =>
            /\ Len(handles[p]) = Done(p)
            /\ \A k \in 1 .. Len(handles[p]) : handles[p][k].path = AllPaths(p)[k]
  /\ cpc[p] = "failed" => \A k \in 1 .. Len(handles[p]) : handles[p][k].closed = 1
  /\ cpc[p] \in {"built", "noLevel"} =>
       /\ Len(handles[p]) = Len(AllPaths(p))
       /\ \A k \in 1 .. Len(handles[p]) : handles[p][k] = [path |-> AllPaths(p)[k], closed |-> 0]

Domains ==
  /\ DOMAIN cpc = Builders /\ DOMAIN cfg = Builders /\ DOMAIN ci = Builders
  /\ DOMAIN openErr = Builders /\ handles \in [Builders -> Seq(SinkHandle)] /\ DOMAIN first = Builders

ConfigInv == Domains /\ \A p \in Builders : Opening(p)

\* What a builder has is not touched by another one.
LEMMA Apart ==
  ASSUME NEW q \in Builders, Opening(q),
         cpc'[q] = cpc[q], cfg'[q] = cfg[q], ci'[q] = ci[q],
         openErr'[q] = openErr[q], handles'[q] = handles[q]
  PROVE  Opening(q)'
BY ZenonT(60) DEF Opening, Before, Done, AllPaths, Paths

\* A path that is opened joins the open sinks.
LEMMA OpenSinkKeeps ==
  ASSUME ConfigInv, NEW p \in Builders, OpenSink(p)
  PROVE  Opening(p)'
<1> DEFINE path == Paths(p)[ci[p]]
           h == [path |-> path, closed |-> 0]
<1>1. /\ cpc[p] \in {"out", "err"} /\ ci[p] <= Len(Paths(p)) /\ ci'[p] = ci[p] + 1
      /\ cpc' = cpc /\ cfg' = cfg
  BY Zenon DEF OpenSink, ConfigInv, Domains
<1>2. Opening(p) /\ p \in DOMAIN handles /\ p \in DOMAIN openErr
  BY Zenon DEF ConfigInv, Domains
<1>3. /\ cfg[p].out \in Seq(STRING) /\ cfg[p].err \in Seq(STRING) /\ Paths(p) \in Seq(STRING)
      /\ handles[p] \in Seq(SinkHandle) /\ ci[p] \in Int /\ ci[p] \in 1 .. Len(Paths(p))
  BY <1>1, <1>2 DEF Opening, Paths
<1>4. h \in SinkHandle
  BY <1>3 DEF SinkHandle
<1>5. PICK ok \in BOOLEAN : /\ openErr' = [openErr EXCEPT ![p] = @ \/ ~ok]
                            /\ handles' = IF ok THEN [handles EXCEPT ![p] = Append(@, h)] ELSE handles
  BY Zenon DEF OpenSink
<1> HIDE DEF h
<1>6. Paths(p)' = Paths(p) /\ AllPaths(p)' = AllPaths(p)
  BY <1>1, Zenon DEF Paths, AllPaths
<1>7. Done(p)' = Done(p) + 1 /\ Done(p) \in Nat
  <2>1. Len(cfg[p].out) \in Nat /\ ci[p] \in Nat \ {0}
    BY <1>3
  <2>2. Before(p) \in Nat /\ Before(p)' = Before(p)
    BY <1>1, <2>1, Zenon DEF Before
  <2> QED BY <1>1, <2>1, <2>2, SMTT(30) DEF Done
<1>8. CASE ~ok
  <2>1. openErr'[p] /\ handles' = handles
    BY <1>2, <1>5, <1>8, Zenon
  <2>2. ci'[p] \in 1 .. Len(Paths(p)') + 1
    BY <1>1, <1>3, <1>6
  <2>3. \A k \in 1 .. Len(handles[p]) : handles[p][k].closed = 0
    BY <1>1, <1>2, Zenon DEF Opening
  <2> QED
    BY <1>1, <1>3, <2>1, <2>2, <2>3, Zenon DEF Opening
<1>9. CASE ok
  <2>1. handles'[p] = Append(handles[p], h) /\ (openErr'[p] <=> openErr[p])
    BY <1>2, <1>5, <1>9, Zenon
  <2>2. /\ handles'[p] \in Seq(SinkHandle) /\ Len(handles'[p]) = Len(handles[p]) + 1 /\ Len(handles[p]) \in Nat
        /\ handles'[p][Len(handles[p]) + 1] = h
        /\ \A k \in 1 .. Len(handles[p]) : handles'[p][k] = handles[p][k]
    <3>1. PICK a \in Seq(SinkHandle), x \in SinkHandle : a = handles[p] /\ x = h
      BY Zenon, <1>3, <1>4
    <3>2. /\ Append(a, x) \in Seq(SinkHandle) /\ Len(Append(a, x)) = Len(a) + 1 /\ Len(a) \in Nat
          /\ Append(a, x)[Len(a) + 1] = x /\ \A k \in 1 .. Len(a) : Append(a, x)[k] = a[k]
      BY Appended
    <3> QED BY <2>1, <3>1, <3>2, Zenon
  <2>3. h.closed = 0 /\ h.path = path
    BY Zenon DEF h
  <2>4. \A k \in 1 .. Len(handles'[p]) : handles'[p][k].closed = 0
    <3>1. \A k \in 1 .. Len(handles[p]) : handles[p][k].closed = 0
      BY <1>1, <1>2, Zenon DEF Opening
    <3>2. \A k \in 1 .. Len(handles[p]) + 1 : k \in 1 .. Len(handles[p]) \/ k = Len(handles[p]) + 1
      BY <2>2
    <3> QED BY Zenon, <2>2, <2>3, <3>1, <3>2
  <2>5. ~openErr[p] => AllPaths(p)[Len(handles[p]) + 1] = path
    <3>1. ~openErr[p] => Len(handles[p]) = Done(p)
      BY <1>1, <1>2, Zenon DEF Opening
    <3>2. AllPaths(p)[Done(p) + 1] = path
      <4>1. CASE cpc[p] = "out"
        <5>1. Before(p) = 0 /\ Paths(p) = cfg[p].out
          BY <4>1, Zenon DEF Before, Paths
        <5>2. Done(p) + 1 = ci[p]
          BY <1>3, <5>1 DEF Done
        <5>3. ci[p] \in 1 .. Len(cfg[p].out)
          BY Zenon, <1>3, <5>1
        <5>4. AllPaths(p)[ci[p]] = cfg[p].out[ci[p]]
          <6>1. \A k \in 1 .. Len(cfg[p].out) : AllPaths(p)[k] = cfg[p].out[k]
            BY <1>3, Concatenated, ZenonT(60) DEF AllPaths
          <6> QED BY Zenon, <5>3, <6>1
        <5> QED BY Zenon, <5>1, <5>2, <5>4
      <4>2. CASE cpc[p] = "err"
        <5>1. Before(p) = Len(cfg[p].out) /\ Paths(p) = cfg[p].err
          BY <4>2, Zenon DEF Before, Paths
        <5>2. Len(cfg[p].out) \in Nat /\ ci[p] \in Int
          BY <1>3
        <5>3. Done(p) + 1 = Len(cfg[p].out) + ci[p]
          BY <5>1, <5>2, SMTT(30) DEF Done
        <5>4. ci[p] \in 1 .. Len(cfg[p].err)
          BY Zenon, <1>3, <5>1
        <5>5. AllPaths(p)[Len(cfg[p].out) + ci[p]] = cfg[p].err[ci[p]]
          <6>0. cfg[p].out \in Seq(STRING) /\ cfg[p].err \in Seq(STRING)
            BY Zenon, <1>3
          <6>1. \A k \in 1 .. Len(cfg[p].err) : AllPaths(p)[Len(cfg[p].out) + k] = cfg[p].err[k]
            <7>1. PICK a, b \in Seq(STRING) : a = cfg[p].out /\ b = cfg[p].err
              BY Zenon, <6>0
            <7>2. \A k \in 1 .. Len(b) : (a \o b)[Len(a) + k] = b[k]
              BY Concatenated
            <7> QED BY <7>1, <7>2, Zenon DEF AllPaths
          <6> QED BY Zenon, <5>4, <6>1
        <5> QED BY Zenon, <5>1, <5>3, <5>5
      <4> QED BY Zenon, <1>1, <4>1, <4>2
    <3> QED BY Zenon, <3>1, <3>2
  <2>6. ~openErr'[p] => /\ Len(handles'[p]) = Done(p)'
                        /\ \A k \in 1 .. Len(handles'[p]) : handles'[p][k].path = AllPaths(p)'[k]
    <3> SUFFICES ASSUME ~openErr[p]
                 PROVE  /\ Len(handles'[p]) = Done(p)'
                        /\ \A k \in 1 .. Len(handles'[p]) : handles'[p][k].path = AllPaths(p)'[k]
        BY <2>1, Zenon
    <3>1. Len(handles[p]) = Done(p) /\ \A k \in 1 .. Len(handles[p]) : handles[p][k].path = AllPaths(p)[k]
      BY <1>1, <1>2, Zenon DEF Opening
    <3>2. \A k \in 1 .. Len(handles[p]) + 1 : k \in 1 .. Len(handles[p]) \/ k = Len(handles[p]) + 1
      BY <2>2
    <3>3. \A k \in 1 .. Len(handles'[p]) : handles'[p][k].path = AllPaths(p)[k]
      BY <2>2, <2>3, <2>5, <3>1, <3>2, ZenonT(30)
    <3> QED BY Zenon, <1>6, <1>7, <2>2, <3>1, <3>3
  <2>7. ci'[p] \in 1 .. Len(Paths(p)') + 1
    BY <1>1, <1>3, <1>6
  <2> QED
    BY <1>1, <1>3, <2>2, <2>4, <2>6, <2>7, Zenon DEF Opening
<1> QED BY Zenon, <1>8, <1>9

\* open, and openSinks, close what has been opened.
LEMMA OpenFailedKeeps ==
  ASSUME ConfigInv, NEW p \in Builders, OpenFailed(p)
  PROVE  Opening(p)'
<1>1. /\ cpc[p] \in {"out", "err"} /\ cpc'[p] = "failed" /\ cfg' = cfg
      /\ handles'[p] = Close(handles[p], 1, Len(handles[p]))
  BY Zenon DEF OpenFailed, ConfigInv, Domains
<1>2. Opening(p)
  BY Zenon DEF ConfigInv
<1>3. handles[p] \in Seq(SinkHandle) /\ \A k \in 1 .. Len(handles[p]) : handles[p][k].closed = 0
  BY <1>1, <1>2, Zenon DEF Opening
<1>4. handles'[p] = [k \in 1 .. Len(handles[p]) |-> [handles[p][k] EXCEPT !.closed = @ + 1]]
  BY <1>1, <1>3 DEF Close
<1>5. \A k \in 1 .. Len(handles[p]) : handles'[p][k] \in SinkHandle /\ handles'[p][k].closed = 1
  <2> SUFFICES ASSUME NEW k \in 1 .. Len(handles[p])
               PROVE  handles'[p][k] \in SinkHandle /\ handles'[p][k].closed = 1
      BY Zenon
  <2>1. handles'[p][k] = [handles[p][k] EXCEPT !.closed = @ + 1] /\ handles[p][k] \in SinkHandle /\ handles[p][k].closed = 0
    BY <1>3, <1>4
  <2> QED BY <2>1 DEF SinkHandle
<1>6. handles'[p] \in Seq(SinkHandle) /\ Len(handles'[p]) = Len(handles[p])
  <2>1. handles'[p] \in [1 .. Len(handles[p]) -> SinkHandle] /\ Len(handles[p]) \in Nat
    <3>1. Len(handles[p]) \in Nat
      BY <1>3
    <3>2. handles'[p] = [k \in 1 .. Len(handles[p]) |-> handles'[p][k]]
      BY Zenon, <1>4
    <3> QED BY <1>5, <3>1, <3>2, Zenon
  <2> QED BY <2>1
<1>7. cfg[p].out \in Seq(STRING) /\ cfg[p].err \in Seq(STRING)
  BY <1>1, <1>2, Zenon DEF Opening
<1> QED BY <1>1, <1>5, <1>6, <1>7, Zenon DEF Opening

\* Each step of a Build, and of the registrations, keeps the invariant.
LEMMA ConfigStep == ConfigInv /\ [ConfigNext]_configVars => ConfigInv'
<1> SUFFICES ASSUME ConfigInv, [ConfigNext]_configVars PROVE ConfigInv'
    BY Zenon
<1>0. Domains /\ \A p \in Builders : Opening(p)
  BY Zenon DEF ConfigInv
<1>1. ASSUME UNCHANGED build PROVE ConfigInv'
  BY <1>0, <1>1, Apart, Zenon DEF ConfigInv, Domains, build
<1>2. ASSUME NEW p \in Builders, NEW c \in Configs, Build(p, c) PROVE ConfigInv'
  <2>1. /\ cpc[p] = "new" /\ cfg' = [cfg EXCEPT ![p] = c]
        /\ \/ cpc' = [cpc EXCEPT ![p] = "out"]
           \/ cpc' = [cpc EXCEPT ![p] = "failed"]
        /\ UNCHANGED <<ci, openErr, handles, first>>
    BY <1>2, Zenon DEF Build
  <2>2. Domains' /\ \A q \in Builders \ {p} : cpc'[q] = cpc[q] /\ cfg'[q] = cfg[q]
    BY <1>0, <2>1, Zenon DEF Domains
  <2>3. cfg'[p].out \in Seq(STRING) /\ cfg'[p].err \in Seq(STRING)
    BY <1>0, <2>1, PathsAssumption, Zenon DEF Configs, Domains
  <2>4. Opening(p)'
    <3>1. handles'[p] = << >> /\ ~openErr'[p] /\ ci'[p] = 1
      BY <1>0, <2>1, Zenon DEF Opening
    <3>2. cpc'[p] \in {"out", "failed"}
      BY <1>0, <2>1, Zenon DEF Domains
    <3> QED BY <2>3, <3>1, <3>2 DEF Opening, Before, Done, Paths
  <2> QED BY <1>0, <2>1, <2>2, <2>4, Apart, Zenon DEF ConfigInv
<1>3. ASSUME NEW p \in Builders, OpenSink(p) PROVE ConfigInv'
  <2>1. /\ cpc' = cpc /\ cfg' = cfg /\ first' = first /\ ci' = [ci EXCEPT ![p] = @ + 1]
        /\ \E b : openErr' = [openErr EXCEPT ![p] = b]
        /\ \E b : handles' = [handles EXCEPT ![p] = b]
    <3>1. \E b : handles' = [handles EXCEPT ![p] = b]
      <4>1. handles = [handles EXCEPT ![p] = handles[p]]
        BY <1>0, Zenon DEF Domains
      <4> QED BY <1>3, <4>1, Zenon DEF OpenSink
    <3> QED BY <1>3, <3>1, Zenon DEF OpenSink
  <2>2. \A q \in Builders \ {p} : ci'[q] = ci[q] /\ openErr'[q] = openErr[q] /\ handles'[q] = handles[q]
    BY <1>0, <2>1, Zenon DEF Domains
  <2>3. Opening(p)'
    BY Zenon, <1>3, OpenSinkKeeps
  <2>4. handles'[p] \in Seq(SinkHandle)
    BY <2>3, Zenon DEF Opening
  <2>5. Domains'
    BY <1>0, <2>1, <2>4, Zenon DEF Domains
  <2> QED BY <1>0, <2>1, <2>2, <2>3, <2>5, Apart, Zenon DEF ConfigInv
<1>4. ASSUME NEW p \in Builders, OpenFailed(p) PROVE ConfigInv'
  <2>1. /\ cfg' = cfg /\ first' = first /\ ci' = ci /\ openErr' = openErr
        /\ cpc' = [cpc EXCEPT ![p] = "failed"] /\ \E b : handles' = [handles EXCEPT ![p] = b]
    BY <1>4, Zenon DEF OpenFailed
  <2>2. \A q \in Builders \ {p} : cpc'[q] = cpc[q] /\ handles'[q] = handles[q]
    BY <1>0, <2>1, Zenon DEF Domains
  <2>3. Opening(p)'
    BY <1>4, OpenFailedKeeps
  <2>4. handles'[p] \in Seq(SinkHandle)
    BY <2>3 DEF Opening
  <2>5. Domains'
    BY <1>0, <2>1, <2>4, Zenon DEF Domains
  <2> QED BY <1>0, <2>1, <2>2, <2>3, <2>5, Apart, Zenon DEF ConfigInv
<1>5. ASSUME NEW p \in Builders, OutputsOpen(p) PROVE ConfigInv'
  <2>1. /\ cpc[p] = "out" /\ ci[p] > Len(cfg[p].out) /\ ~openErr[p]
        /\ cpc' = [cpc EXCEPT ![p] = "err"] /\ ci' = [ci EXCEPT ![p] = 1]
        /\ cfg' = cfg /\ openErr' = openErr /\ handles' = handles /\ \E b : first' = [first EXCEPT ![p] = b]
    BY <1>5, Zenon DEF OutputsOpen
  <2>2. /\ Domains' /\ cpc'[p] = "err" /\ ci'[p] = 1
        /\ \A q \in Builders \ {p} : cpc'[q] = cpc[q] /\ ci'[q] = ci[q]
    BY <1>0, <2>1, Zenon DEF Domains
  <2>3. Opening(p)'
    <3>1. Opening(p)
      BY Zenon, <1>0
    <3>2. Len(cfg[p].out) \in Nat /\ Len(cfg[p].err) \in Nat /\ ci[p] = Len(cfg[p].out) + 1
      <4>0. Paths(p) = cfg[p].out
        BY <2>1, Zenon DEF Paths
      <4>1. cfg[p].out \in Seq(STRING) /\ cfg[p].err \in Seq(STRING) /\ ci[p] \in 1 .. Len(cfg[p].out) + 1
        <5>1. cpc[p] # "new" /\ cpc[p] \in {"out", "err"}
          BY Zenon, <2>1
        <5> QED BY <3>1, <4>0, <5>1, Zenon DEF Opening
      <4>2. Len(cfg[p].out) \in Nat /\ Len(cfg[p].err) \in Nat
        BY <4>1
      <4> QED BY <2>1, <4>1, <4>2, SMTT(30)
    <3>3. Len(handles[p]) = Len(cfg[p].out)
      <4>1. Len(handles[p]) = Done(p) /\ Before(p) = 0
        BY <2>1, <3>1, Zenon DEF Opening, Before
      <4> QED BY <3>2, <4>1 DEF Done
    <3>4. Done(p)' = Len(cfg[p].out) /\ ci'[p] \in 1 .. Len(Paths(p)') + 1
      <4>1. cfg'[p] = cfg[p] /\ cpc'[p] # "out"
        BY Zenon, <2>1, <2>2
      <4>2. Paths(p)' = cfg[p].err /\ Done(p)' = Len(cfg[p].out) + 1 - 1
        BY <2>2, <4>1, Zenon DEF Before, Done, Paths
      <4> QED BY <2>2, <3>2, <4>2
    <3>5. AllPaths(p)' = AllPaths(p)
      BY <2>1, Zenon DEF AllPaths
    <3> QED BY <2>1, <2>2, <3>1, <3>3, <3>4, <3>5, Zenon DEF Opening
  <2> QED BY <1>0, <2>1, <2>2, <2>3, Apart, Zenon DEF ConfigInv
<1>6. ASSUME NEW p \in Builders, Finish(p) PROVE ConfigInv'
  <2>1. /\ cpc[p] = "err" /\ ci[p] > Len(cfg[p].err) /\ ~openErr[p]
        /\ \/ cpc' = [cpc EXCEPT ![p] = "built"]
           \/ cpc' = [cpc EXCEPT ![p] = "noLevel"]
        /\ UNCHANGED <<cfg, ci, openErr, handles, first>>
    BY <1>6, Zenon DEF Finish
  <2>2. Domains' /\ cpc'[p] \in {"built", "noLevel"} /\ \A q \in Builders \ {p} : cpc'[q] = cpc[q]
    BY <1>0, <2>1, ZenonT(60) DEF Domains
  <2>3. Opening(p)'
    <3>1. Opening(p)
      BY <1>0
    <3>2. /\ cfg[p].out \in Seq(STRING) /\ cfg[p].err \in Seq(STRING) /\ ci[p] = Len(cfg[p].err) + 1
          /\ handles[p] \in Seq(SinkHandle) /\ Len(cfg[p].out) \in Nat /\ Len(cfg[p].err) \in Nat
      <4>0. Paths(p) = cfg[p].err
        BY <2>1, Zenon DEF Paths
      <4>1. /\ cfg[p].out \in Seq(STRING) /\ cfg[p].err \in Seq(STRING) /\ ci[p] \in 1 .. Len(cfg[p].err) + 1
            /\ handles[p] \in Seq(SinkHandle)
        <5>1. cpc[p] # "new" /\ cpc[p] \in {"out", "err"}
          BY Zenon, <2>1
        <5> QED BY <3>1, <4>0, <5>1, Zenon DEF Opening
      <4>2. Len(cfg[p].out) \in Nat /\ Len(cfg[p].err) \in Nat
        BY <4>1
      <4>3. ci[p] > Len(cfg[p].err)
        BY <2>1, Zenon
      <4> QED BY <4>1, <4>2, <4>3, PastTheLast, Zenon
    <3>3. Len(handles[p]) = Len(AllPaths(p))
      <4>1. Len(handles[p]) = Done(p)
        BY <2>1, <3>1, Zenon DEF Opening
      <4>2. Done(p) = Len(cfg[p].out) + Len(cfg[p].err)
        BY <2>1, <3>2 DEF Before, Done
      <4> QED BY <3>2, <4>1, <4>2 DEF AllPaths
    <3>4. ASSUME NEW k \in 1 .. Len(handles[p]) PROVE handles[p][k] = [path |-> AllPaths(p)[k], closed |-> 0]
      <4>1. handles[p][k].path = AllPaths(p)[k] /\ handles[p][k].closed = 0
        BY <2>1, <3>1, Zenon DEF Opening
      <4>2. handles[p][k] \in SinkHandle
        BY <3>2
      <4> QED BY <4>1, <4>2, Zenon DEF SinkHandle
    <3>5. AllPaths(p)' = AllPaths(p)
      BY <2>1, Zenon DEF AllPaths
    <3> QED BY <2>1, <2>2, <3>2, <3>3, <3>4, <3>5, Zenon DEF Opening
  <2> QED BY <1>0, <2>1, <2>2, <2>3, Apart, Zenon DEF ConfigInv
<1>7. ASSUME NEW s, NEW f, RegisterSink(s, f) PROVE ConfigInv'
  BY <1>1, <1>7, Zenon DEF RegisterSink
<1>8. ASSUME NEW n, NEW f, RegisterEncoder(n, f) PROVE ConfigInv'
  BY <1>1, <1>8, Zenon DEF RegisterEncoder
<1>9. CASE UNCHANGED configVars
  BY <1>1, <1>9, Zenon DEF configVars
<1> QED BY <1>2, <1>3, <1>4, <1>5, <1>6, <1>7, <1>8, <1>9, Zenon DEF ConfigNext, BuildStep

\* Whatever the paths and however many configurations are built while sinks and
\* encoders are registered: Open and openSinks leave every sink of a failed Build closed,
\* once each, and a Build that gets past them has one open sink for each path.
THEOREM AllOrNothingHolds == ConfigSpec => []AllOrNothing
<1>1. ConfigInit => ConfigInv
  <2> SUFFICES ASSUME ConfigInit PROVE ConfigInv
      BY Zenon
  <2>1. Domains
    BY DEF ConfigInit, Domains
  <2>2. ASSUME NEW p \in Builders PROVE Opening(p)
    <3>1. cpc[p] = "new" /\ ci[p] = 1 /\ ~openErr[p] /\ handles[p] = << >>
      BY Zenon DEF ConfigInit
    <3>2. << >> \in Seq(SinkHandle)
      OBVIOUS
    <3> QED BY <3>1, <3>2, Zenon DEF Opening
  <2> QED BY <2>1, <2>2, Zenon DEF ConfigInv
<1>2. ConfigInv => AllOrNothing
  <2> SUFFICES ASSUME ConfigInv, NEW p \in Builders
               PROVE  /\ cpc[p] = "failed" => \A k \in DOMAIN handles[p] : handles[p][k].closed = 1
                      /\ cpc[p] \in {"built", "noLevel"} =>
                           handles[p] = [k \in 1 .. Len(cfg[p].out \o cfg[p].err) |->
                                           [path |-> (cfg[p].out \o cfg[p].err)[k], closed |-> 0]]
      BY Zenon DEF AllOrNothing
  <2>1. Opening(p)
    BY Zenon DEF ConfigInv
  <2>2. handles[p] \in Seq(SinkHandle)
    BY <2>1, Zenon DEF Opening
  <2>3. handles[p] = [k \in 1 .. Len(handles[p]) |-> handles[p][k]]
    BY <2>2
  <2> QED BY <2>1, <2>2, <2>3, Zenon DEF Opening, AllPaths
<1> QED BY <1>1, <1>2, ConfigStep, PTL DEF ConfigSpec

-----------------------------------------------------------------------------
(* Globals                                                                 *)
\* A stack whose top is its first element: the new top and what is under it.
LEMMA Push ==
  ASSUME NEW S, NEW s \in Seq(S), NEW x \in S
  PROVE  /\ <<x>> \o s \in Seq(S) /\ Len(<<x>> \o s) = Len(s) + 1 /\ <<x>> \o s # << >>
         /\ (<<x>> \o s)[1] = x /\ Head(<<x>> \o s) = x
         /\ \A k \in 1 .. Len(s) : (<<x>> \o s)[k + 1] = s[k]
  OBVIOUS

\* The top goes and leaves the others.
LEMMA Pop ==
  ASSUME NEW S, NEW s \in Seq(S), s # << >>
  PROVE  /\ Tail(s) \in Seq(S) /\ Len(s) \in Nat \ {0} /\ Len(Tail(s)) = Len(s) - 1
         /\ Head(s) = s[1] /\ s[1] \in S
         /\ \A k \in 1 .. Len(s) - 1 : Tail(s)[k] = s[k + 1]
         /\ Tail(s) = << >> <=> Len(s) = 1
<1>1. /\ Tail(s) \in Seq(S) /\ Len(s) \in Nat \ {0} /\ Len(Tail(s)) = Len(s) - 1
      /\ Head(s) = s[1] /\ s[1] \in S
  OBVIOUS
<1>2. \A k \in 1 .. Len(s) - 1 : Tail(s)[k] = s[k + 1]
  OBVIOUS
<1>3. ASSUME NEW t \in Seq(S) PROVE t = << >> <=> Len(t) = 0
  OBVIOUS
<1>4. Tail(s) = << >> <=> Len(Tail(s)) = 0
  BY <1>1, <1>3, Zenon
<1>5. Len(Tail(s)) = 0 <=> Len(s) = 1
  BY <1>1
<1> QED BY <1>1, <1>2, <1>4, <1>5, Zenon

Own == [flags |-> Flags, prefix |-> Prefix]
Cleared == [flags |-> NoFlags, prefix |-> NoPrefix]
Standing == IF saved = << >> THEN Own ELSE Cleared

\* Each restore function holds what the one before it installed.
Chain ==
  /\ restores \in Seq(Loggers \cup {Nop}) /\ installed \in Seq(Loggers)
  /\ globalL \in Loggers \cup {Nop}
  /\ Len(restores) = Len(installed)
  /\ \A k \in DOMAIN restores : restores[k] = IF k = Len(restores) THEN Nop ELSE installed[k + 1]
  /\ ReplacementsNest

\* Unless a redirection has failed, the first restore function holds what the
\* program had set and every later one what the redirection before it set.
Stack ==
  /\ saved \in Seq([flags : {Flags, NoFlags}, prefix : {Prefix, NoPrefix}])
  /\ ~failed => \A k \in DOMAIN saved : saved[k] = IF k = Len(saved) THEN Own ELSE Cleared

\* How far a redirection, or a restore function, has got.
Progress ==
  /\ flags \in {Flags, NoFlags} /\ prefix \in {Prefix, NoPrefix}
  /\ stdpc \in {"idle", "flags", "prefix", "output", "restorePrefix", "restoreOutput"}
  /\ stdpc = "flags" => flags = cur.flags /\ prefix = cur.prefix
  /\ stdpc \in {"prefix", "output"} => flags = NoFlags
  /\ stdpc = "output" => prefix = NoPrefix
  /\ stdpc \in {"flags", "prefix", "output"} =>
       /\ cur.flags \in {Flags, NoFlags} /\ cur.prefix \in {Prefix, NoPrefix}
       /\ ~failed => cur.flags = Standing.flags /\ cur.prefix = Standing.prefix
  /\ stdpc \in {"restorePrefix", "restoreOutput"} => saved # << >> /\ flags = Head(saved).flags
  /\ stdpc = "restoreOutput" => prefix = Head(saved).prefix
  /\ stdpc = "idle" /\ ~failed => flags = Standing.flags /\ prefix = Standing.prefix
  /\ out # Stderr /\ stdpc \notin {"restorePrefix", "restoreOutput"} => flags = NoFlags /\ prefix = NoPrefix

\* ReplaceGlobals and its restore functions keep the chain.
LEMMA ChainStep == Chain /\ [GlobalsNext]_globalsVars => Chain'
<1> SUFFICES ASSUME Chain, [GlobalsNext]_globalsVars PROVE Chain'
    OBVIOUS
<1>0. /\ restores \in Seq(Loggers \cup {Nop}) /\ installed \in Seq(Loggers)
      /\ globalL \in Loggers \cup {Nop} /\ Len(restores) = Len(installed) /\ Len(restores) \in Nat
      /\ \A k \in 1 .. Len(restores) : restores[k] = IF k = Len(restores) THEN Nop ELSE installed[k + 1]
  BY DEF Chain
<1>1. ASSUME NEW l \in Loggers, ReplaceGlobals(l) PROVE Chain'
  <2>1. /\ restores' = <<globalL>> \o restores /\ installed' = <<l>> \o installed
        /\ globalL' = l /\ globalS' = Sugared(l)
    BY <1>1, Zenon DEF ReplaceGlobals, Install
  <2>2. /\ restores' \in Seq(Loggers \cup {Nop}) /\ Len(restores') = Len(restores) + 1
        /\ restores'[1] = globalL /\ \A k \in 1 .. Len(restores) : restores'[k + 1] = restores[k]
    BY <1>0, <2>1, Push
  <2>3. /\ installed' \in Seq(Loggers) /\ Len(installed') = Len(installed) + 1
        /\ installed' # << >> /\ Head(installed') = l
        /\ \A k \in 1 .. Len(installed) : installed'[k + 1] = installed[k]
    BY <1>0, <2>1, Push
  <2>4. ASSUME NEW k \in DOMAIN restores'
        PROVE  restores'[k] = IF k = Len(restores') THEN Nop ELSE installed'[k + 1]
    <3>0. k \in 1 .. Len(restores) + 1
      BY <2>2
    <3>1. CASE k = 1
      <4>1. globalL = IF installed = << >> THEN Nop ELSE Head(installed)
        BY Zenon DEF Chain, ReplacementsNest
      <4>2. CASE installed = << >>
        BY <1>0, <2>2, <3>1, <4>1, <4>2
      <4>3. CASE installed # << >>
        <5>1. Len(installed) \in Nat \ {0} /\ Head(installed) = installed[1]
          BY Zenon, <1>0, <4>3, Pop
        <5>2. installed'[1 + 1] = installed[1] /\ k # Len(restores')
          BY <1>0, <2>2, <2>3, <3>1, <5>1
        <5> QED BY Zenon, <2>2, <3>1, <4>1, <4>3, <5>1, <5>2
      <4> QED BY Zenon, <4>2, <4>3
    <3>2. CASE k # 1
      <4>1. k - 1 \in 1 .. Len(restores) /\ restores'[(k - 1) + 1] = restores[k - 1]
        BY <1>0, <2>2, <3>0, <3>2
      <4>2. restores[k - 1] = IF k - 1 = Len(restores) THEN Nop ELSE installed[(k - 1) + 1]
        BY Zenon, <1>0, <4>1
      <4>3. k - 1 # Len(restores) => installed'[k + 1] = installed[k]
        <5>1. k - 1 # Len(restores) => k \in 1 .. Len(installed)
          BY <1>0, <3>0, <3>2
        <5> QED BY Zenon, <2>3, <5>1
      <4> QED BY <1>0, <2>2, <3>0, <4>1, <4>2, <4>3
    <3> QED BY Zenon, <3>1, <3>2
  <2> QED
    BY <1>0, <2>1, <2>2, <2>3, <2>4, Zenon DEF Chain, ReplacementsNest
<1>2. CASE RestoreGlobals
  <2>1. /\ restores # << >> /\ restores' = Tail(restores) /\ installed' = Tail(installed)
        /\ globalL' = Head(restores) /\ globalS' = Sugared(globalL')
    BY <1>2, Zenon DEF RestoreGlobals, Install
  <2>2. /\ restores' \in Seq(Loggers \cup {Nop}) /\ Len(restores) \in Nat \ {0}
        /\ Len(restores') = Len(restores) - 1 /\ Head(restores) = restores[1]
        /\ restores[1] \in Loggers \cup {Nop}
        /\ \A k \in 1 .. Len(restores) - 1 : restores'[k] = restores[k + 1]
    BY Zenon, <1>0, <2>1, Pop
  <2>3. installed # << >>
    BY Zenon, <1>0, <2>2
  <2>4. /\ installed' \in Seq(Loggers) /\ Len(installed') = Len(installed) - 1
        /\ \A k \in 1 .. Len(installed) - 1 : installed'[k] = installed[k + 1]
        /\ installed' = << >> <=> Len(installed) = 1
    BY Zenon, <1>0, <2>1, <2>3, Pop
  <2>5. ASSUME NEW k \in DOMAIN restores'
        PROVE  restores'[k] = IF k = Len(restores') THEN Nop ELSE installed'[k + 1]
    <3>1. k \in 1 .. Len(restores) - 1 /\ k + 1 \in 1 .. Len(restores)
      BY <1>0, <2>2
    <3>2. restores'[k] = IF k + 1 = Len(restores) THEN Nop ELSE installed[k + 1 + 1]
      BY Zenon, <1>0, <2>2, <3>1
    <3>3. k = Len(restores') <=> k + 1 = Len(restores)
      BY <2>2, <3>1, SMTT(30)
    <3>4. k + 1 # Len(restores) => k + 1 \in 1 .. Len(installed) - 1
      BY <1>0, <2>2, <3>1, SMTT(30)
    <3> QED BY Zenon, <2>4, <3>2, <3>3, <3>4
  <2>6. globalL' = IF installed' = << >> THEN Nop ELSE Head(installed')
    <3>1. restores[1] = IF 1 = Len(restores) THEN Nop ELSE installed[1 + 1]
      BY <1>0, <2>2, SMTT(30)
    <3>2. CASE Len(installed) = 1
      BY Zenon, <1>0, <2>1, <2>2, <2>4, <3>1, <3>2
    <3>3. CASE Len(installed) # 1
      <4>1. installed' # << >> /\ installed'[1] = installed[1 + 1]
        BY <1>0, <2>2, <2>4, <3>3
      <4>2. Head(installed') = installed'[1]
        BY Zenon, <2>4, <4>1, Pop
      <4> QED BY Zenon, <1>0, <2>1, <2>2, <3>1, <3>3, <4>1, <4>2
    <3> QED BY Zenon, <3>2, <3>3
  <2> QED
    BY <1>0, <2>1, <2>2, <2>4, <2>5, <2>6, SMTT(30) DEF Chain, ReplacementsNest
<1>3. CASE UNCHANGED globals
  BY <1>3, Zenon DEF globals, Chain, ReplacementsNest
<1>4. CASE UNCHANGED globalsVars
  BY <1>3, <1>4, Zenon DEF globalsVars
<1> QED
  BY Zenon, <1>1, <1>2, <1>3, <1>4
  DEF GlobalsNext, RedirectStdLogAt, SetFlags, SetPrefix, SetOutput, RestoreFlags, RestorePrefix, RestoreOutput

LEMMA StackStep == Stack /\ Progress /\ [GlobalsNext]_globalsVars => Stack'
<1> SUFFICES ASSUME Stack, Progress, [GlobalsNext]_globalsVars PROVE Stack'
    BY Zenon
<1> DEFINE Pair == [flags : {Flags, NoFlags}, prefix : {Prefix, NoPrefix}]
<1>0. saved \in Seq(Pair)
  BY Zenon DEF Stack
<1>1. CASE SetOutput
  <2>1. CASE cur.level \in StdLevels
    <3> DEFINE x == [flags |-> cur.flags, prefix |-> cur.prefix]
    <3>1. saved' = <<x>> \o saved /\ failed' = failed /\ stdpc = "output"
      BY <1>1, <2>1, Zenon DEF SetOutput, At
    <3>2. x \in Pair /\ (~failed => x = Standing)
      BY <3>1, Zenon DEF Progress, Standing, Own, Cleared
    <3> HIDE DEF x, Pair
    <3>3. /\ saved' \in Seq(Pair) /\ Len(saved) \in Nat /\ Len(saved') = Len(saved) + 1 /\ saved'[1] = x
          /\ \A k \in 1 .. Len(saved) : saved'[k + 1] = saved[k]
      BY <1>0, <3>1, <3>2, Push
    <3>4. ASSUME ~failed, NEW k \in DOMAIN saved'
          PROVE  saved'[k] = IF k = Len(saved') THEN Own ELSE Cleared
      <4>0. k \in 1 .. Len(saved) + 1
        BY <3>3
      <4>1. CASE k = 1
        <5>1. saved = << >> <=> k = Len(saved')
          BY <1>0, <3>3, <4>1
        <5> QED BY <3>2, <3>3, <3>4, <4>1, <5>1, Zenon DEF Standing
      <4>2. CASE k # 1
        <5>1. k - 1 \in 1 .. Len(saved) /\ k - 1 \in DOMAIN saved /\ saved'[(k - 1) + 1] = saved[k - 1]
          BY <1>0, <3>3, <4>0, <4>2
        <5>2. saved[k - 1] = IF k - 1 = Len(saved) THEN Own ELSE Cleared
          BY <3>4, <5>1, Zenon DEF Stack
        <5> QED BY <3>3, <4>0, <5>1, <5>2
      <4> QED BY Zenon, <4>1, <4>2
    <3> QED
      BY <3>1, <3>3, <3>4, Zenon DEF Stack, Pair
  <2>2. CASE cur.level \notin StdLevels
    BY <1>1, <2>2, Zenon DEF SetOutput, Stack
  <2> QED
    BY Zenon, <2>1, <2>2
<1>2. CASE RestoreOutput
  <2>1. saved' = Tail(saved) /\ failed' = failed /\ saved # << >>
    BY <1>2, Zenon DEF RestoreOutput, At, Progress
  <2> HIDE DEF Pair
  <2>2. /\ saved' \in Seq(Pair) /\ Len(saved) \in Nat \ {0} /\ Len(saved') = Len(saved) - 1
        /\ \A k \in 1 .. Len(saved) - 1 : saved'[k] = saved[k + 1]
    BY Zenon, <1>0, <2>1, Pop
  <2>3. ASSUME ~failed, NEW k \in DOMAIN saved'
        PROVE  saved'[k] = IF k = Len(saved') THEN Own ELSE Cleared
    <3>1. k \in 1 .. Len(saved) - 1 /\ k + 1 \in DOMAIN saved
      BY <1>0, <2>2
    <3>2. saved[k + 1] = IF k + 1 = Len(saved) THEN Own ELSE Cleared
      BY <2>3, <3>1, Zenon DEF Stack
    <3> QED BY <2>2, <3>1, <3>2
  <2> QED
    BY <2>1, <2>2, <2>3, Zenon DEF Stack, Pair
<1>3. CASE UNCHANGED <<saved, failed>>
  BY <1>3, Zenon DEF Stack
<1> QED
  BY <1>1, <1>2, <1>3, Zenon
  DEF GlobalsNext, ReplaceGlobals, RestoreGlobals, RedirectStdLogAt, SetFlags, SetPrefix, RestoreFlags,
      RestorePrefix, globalsVars, std

LEMMA ProgressStep == Stack /\ Progress /\ [GlobalsNext]_globalsVars => Progress'
<1> SUFFICES ASSUME Stack, Progress, [GlobalsNext]_globalsVars PROVE Progress'
    BY Zenon
<1>0. saved # << >> =>
        /\ Head(saved).flags \in {Flags, NoFlags} /\ Head(saved).prefix \in {Prefix, NoPrefix}
        /\ ~failed => Head(saved) = IF Len(saved) = 1 THEN Own ELSE Cleared
  <2> DEFINE Pair == [flags : {Flags, NoFlags}, prefix : {Prefix, NoPrefix}]
  <2> SUFFICES ASSUME saved # << >>
               PROVE  /\ Head(saved).flags \in {Flags, NoFlags}
                      /\ Head(saved).prefix \in {Prefix, NoPrefix}
                      /\ ~failed => Head(saved) = IF Len(saved) = 1 THEN Own ELSE Cleared
      BY Zenon
  <2>1. saved \in Seq(Pair)
    BY Zenon DEF Stack
  <2> HIDE DEF Pair
  <2>2. Head(saved) = saved[1] /\ saved[1] \in Pair /\ 1 \in DOMAIN saved
    BY <2>1, Pop
  <2>3. ~failed => saved[1] = IF 1 = Len(saved) THEN Own ELSE Cleared
    BY <2>2, ZenonT(60) DEF Stack
  <2> QED
    BY <2>2, <2>3, Zenon DEF Pair
<1>1. ASSUME NEW l \in Loggers, NEW lvl \in StdLevels \cup BadLevels, RedirectStdLogAt(l, lvl)
      PROVE  Progress'
  BY <1>1, Zenon DEF RedirectStdLogAt, At, Progress, Standing
<1>2. CASE SetFlags
  BY <1>2, Zenon DEF SetFlags, At, Progress, Standing
<1>3. CASE SetPrefix
  BY <1>3, ZenonT(60) DEF SetPrefix, At, Progress, Standing
<1>4. CASE SetOutput
  <2>1. /\ stdpc = "output" /\ stdpc' = "idle" /\ flags' = flags /\ prefix' = prefix
        /\ flags = NoFlags /\ prefix = NoPrefix
    BY <1>4, Zenon DEF SetOutput, At, Progress
  <2>2. ~failed' => flags' = Standing'.flags /\ prefix' = Standing'.prefix
    <3> SUFFICES ASSUME ~failed' PROVE flags' = Standing'.flags /\ prefix' = Standing'.prefix
        BY Zenon
    <3>1. saved' = <<[flags |-> cur.flags, prefix |-> cur.prefix]>> \o saved
      BY <1>4, Zenon DEF SetOutput
    <3>2. saved' # << >>
      BY <3>1, SMTT(30) DEF Stack
    <3> QED
      BY <2>1, <3>2, Zenon DEF Standing, Cleared
  <2> QED
    BY <2>1, <2>2, Zenon DEF Progress
<1>5. CASE RestoreFlags
  BY <1>0, <1>5, Zenon DEF RestoreFlags, At, Progress
<1>6. CASE RestorePrefix
  BY <1>0, <1>6, ZenonT(60) DEF RestorePrefix, At, Progress
<1>7. CASE RestoreOutput
  <2>1. /\ stdpc = "restoreOutput" /\ stdpc' = "idle" /\ out' = Stderr /\ saved' = Tail(saved)
        /\ flags' = flags /\ prefix' = prefix /\ failed' = failed /\ saved # << >>
        /\ flags = Head(saved).flags /\ prefix = Head(saved).prefix
    BY <1>7, Zenon DEF RestoreOutput, At, Progress
  <2>2. saved' = << >> <=> Len(saved) = 1
    <3> DEFINE Pair == [flags : {Flags, NoFlags}, prefix : {Prefix, NoPrefix}]
    <3>1. saved \in Seq(Pair)
      BY DEF Stack
    <3> HIDE DEF Pair
    <3> QED
      BY <2>1, <3>1, Pop, Zenon
  <2>3. ~failed => Head(saved) = Standing'
    BY <1>0, <2>1, <2>2, Zenon DEF Standing
  <2> QED
    BY <1>0, <2>1, <2>3, Zenon DEF Progress
<1>8. CASE UNCHANGED std
  BY <1>8, ZenonT(60) DEF std, Progress, Standing
<1> QED
  BY <1>1, <1>2, <1>3, <1>4, <1>5, <1>6, <1>7, <1>8, Zenon DEF GlobalsNext, ReplaceGlobals, RestoreGlobals, globalsVars

\* Undone in the reverse of their order, any number of ReplaceGlobals and of
\* redirections of the standard logger leave the program as they found it.
THEOREM GlobalsNestHolds == GlobalsSpec => []GlobalsNest
<1> DEFINE Inv == Chain /\ Stack /\ Progress
<1>1. GlobalsInit => Inv
  <2> SUFFICES ASSUME GlobalsInit PROVE Chain /\ Stack /\ Progress
      BY Zenon
  <2>1. Chain
    BY DEF GlobalsInit, Chain, ReplacementsNest
  <2>2. Stack
    BY SMTT(30) DEF GlobalsInit, Stack
  <2>3. Progress
    BY Zenon DEF GlobalsInit, Progress, Standing, Own
  <2> QED
    BY Zenon, <2>1, <2>2, <2>3
<1>2. Inv /\ [GlobalsNext]_globalsVars => Inv'
  BY ChainStep, StackStep, ProgressStep, ZenonT(60)
<1>3. Inv => GlobalsNest
  BY Zenon DEF Chain, Progress, Standing, Own, Cleared, GlobalsNest, RedirectsNest
<1> QED
  BY <1>1, <1>2, <1>3, PTL DEF GlobalsSpec

-----------------------------------------------------------------------------
(* LevelHandler                                                            *)
\* Where a request stands: before its store, after it, and answered.
Fine(r) ==
  /\ lpc[r] # "done" => status[r] = 0
  /\ lpc[r] \in {"serve", "store", "load"} => level \in during[r]
  /\ lpc[r] = "load" /\ ~raced[r] => level = requested[r]
  /\ lpc[r] = "done" /\ status[r] = 200 => reported[r] \in during[r]
  /\ lpc[r] = "done" /\ status[r] = 200 /\ req[r].method = "PUT" /\ ~raced[r] =>
       reported[r] = requested[r] /\ level = requested[r]

Served ==
  /\ DOMAIN lpc = Reqs /\ DOMAIN req = Reqs /\ DOMAIN status = Reqs
  /\ DOMAIN requested = Reqs /\ DOMAIN reported = Reqs
  /\ DOMAIN during = Reqs /\ DOMAIN raced = Reqs
  /\ \A r \in Reqs : Fine(r)

\* A request that a step is not about, and that no store overtakes.
LEMMA FineKept ==
  ASSUME NEW s \in Reqs, Fine(s), level' = level, lpc'[s] = lpc[s], req'[s] = req[s],
         requested'[s] = requested[s], status'[s] = status[s], reported'[s] = reported[s],
         during'[s] = during[s], raced'[s] = raced[s]
  PROVE  Fine(s)'
BY ZenonT(60) DEF Fine

\* A request that a store overtakes.
LEMMA FineOvertaken ==
  ASSUME Served, NEW s \in Reqs, NEW l, StoreLevel(l), raced'[s], lpc'[s] = lpc[s], status'[s] = status[s],
         reported'[s] = reported[s]
  PROVE  Fine(s)'
<1>1. level' = l /\ during'[s] = IF lpc[s] \in {"new", "done"} THEN during[s] ELSE during[s] \cup {l}
  BY Zenon DEF StoreLevel
<1>2. Fine(s)
  BY Zenon DEF Served
<1>3. lpc'[s] \in {"serve", "store", "load"} => level' \in during'[s]
  BY Zenon, <1>1
<1>4. lpc'[s] = "done" => during'[s] = during[s]
  BY Zenon, <1>1
<1> QED BY <1>2, <1>3, <1>4, ZenonT(60) DEF Fine

\* A request is answered with the level that is in force.
LEMMA FineReply ==
  ASSUME Served, NEW r \in Reqs, NEW code, Reply(r, code, level), lpc[r] \in {"serve", "load"},
         req[r].method = "PUT" => lpc[r] = "load",
         UNCHANGED <<level, req, requested, during, raced>>
  PROVE  Served'
<1>1. /\ lpc' = [lpc EXCEPT ![r] = "done"] /\ status' = [status EXCEPT ![r] = code]
      /\ reported' = [reported EXCEPT ![r] = level]
  BY Zenon DEF Reply
<1>2. /\ lpc'[r] = "done" /\ reported'[r] = level
      /\ \A s \in Reqs \ {r} : lpc'[s] = lpc[s] /\ status'[s] = status[s] /\ reported'[s] = reported[s]
  BY <1>1, ZenonT(60) DEF Served
<1>3. Fine(r)
  BY Zenon DEF Served
<1>4. Fine(r)'
  BY <1>2, <1>3, Zenon DEF Fine
<1>5. \A s \in Reqs : Fine(s)'
  BY <1>2, <1>4, FineKept, Zenon DEF Served
<1> QED BY <1>1, <1>5, Zenon DEF Served

\* A request is answered with an error.
LEMMA FineError ==
  ASSUME Served, NEW r \in Reqs, NEW code, code # 200, Reply(r, code, Rejected),
         UNCHANGED <<level, req, requested, during, raced>>
  PROVE  Served'
<1>1. /\ lpc' = [lpc EXCEPT ![r] = "done"] /\ status' = [status EXCEPT ![r] = code]
      /\ reported' = [reported EXCEPT ![r] = Rejected]
  BY Zenon DEF Reply
<1>2. /\ lpc'[r] = "done" /\ status'[r] = code
      /\ \A s \in Reqs \ {r} : lpc'[s] = lpc[s] /\ status'[s] = status[s] /\ reported'[s] = reported[s]
  BY <1>1, Zenon DEF Served
<1>3. Fine(r)'
  BY <1>2, Zenon DEF Fine
<1>4. \A s \in Reqs : Fine(s)'
  BY <1>2, <1>3, FineKept, ZenonT(60) DEF Served
<1> QED BY <1>1, <1>4, Zenon DEF Served

\* A step of a request leaves what the invariant says of the others.
LEMMA ServedStep == Served /\ [HandlerNext]_handlerVars => Served'
<1> SUFFICES ASSUME Served, [HandlerNext]_handlerVars PROVE Served'
    OBVIOUS
<1>0. \A s \in Reqs : Fine(s)
  BY Zenon DEF Served
<1>1. ASSUME NEW r \in Reqs, NEW q \in Requests, Arrive(r, q) PROVE Served'
  <2>1. /\ lpc[r] = "new" /\ lpc' = [lpc EXCEPT ![r] = "serve"] /\ req' = [req EXCEPT ![r] = q]
        /\ during' = [during EXCEPT ![r] = {level}]
        /\ UNCHANGED <<level, requested, status, reported, raced>>
    BY <1>1, Zenon DEF Arrive
  <2>2. /\ lpc'[r] = "serve" /\ during'[r] = {level}
        /\ \A s \in Reqs \ {r} : lpc'[s] = lpc[s] /\ req'[s] = req[s] /\ during'[s] = during[s]
    BY <2>1, Zenon DEF Served
  <2>3. Fine(r)'
    BY <1>0, <2>1, <2>2, Zenon DEF Fine
  <2>4. \A s \in Reqs : Fine(s)'
    BY <1>0, <2>1, <2>2, <2>3, FineKept, Zenon
  <2> QED BY <2>1, <2>4, Zenon DEF Served
<1>2. ASSUME NEW r \in Reqs, Get(r) PROVE Served'
  BY <1>2, FineReply, Zenon DEF Get
<1>3. ASSUME NEW r \in Reqs, NotAllowed(r) PROVE Served'
  BY <1>3, FineError DEF NotAllowed
<1>4. ASSUME NEW r \in Reqs, PutDecode(r) PROVE Served'
  <2> DEFINE l == Decode(req[r])
  <2>1. /\ lpc[r] = "serve" /\ UNCHANGED <<level, req, during, raced>>
        /\ \/ Reply(r, 400, Rejected) /\ UNCHANGED requested
           \/ /\ requested' = [requested EXCEPT ![r] = l] /\ lpc' = [lpc EXCEPT ![r] = "store"]
              /\ UNCHANGED <<status, reported>>
    BY <1>4, Zenon DEF PutDecode
  <2> HIDE DEF l
  <2>2. CASE Reply(r, 400, Rejected) /\ UNCHANGED requested
    BY <2>1, <2>2, FineError
  <2>3. CASE /\ requested' = [requested EXCEPT ![r] = l] /\ lpc' = [lpc EXCEPT ![r] = "store"]
             /\ UNCHANGED <<status, reported>>
    <3>1. lpc'[r] = "store" /\ \A s \in Reqs \ {r} : lpc'[s] = lpc[s] /\ requested'[s] = requested[s]
      BY <2>3, Zenon DEF Served
    <3>2. status'[r] = 0 /\ level' \in during'[r]
      BY <1>0, <2>1, <2>3, Zenon DEF Fine
    <3>3. Fine(r)'
      BY <3>1, <3>2, Zenon DEF Fine
    <3>4. \A s \in Reqs : Fine(s)'
      BY <1>0, <2>1, <2>3, <3>1, <3>3, FineKept, Zenon
    <3> QED BY <2>1, <2>3, <3>4, ZenonT(60) DEF Served
  <2> QED BY Zenon, <2>1, <2>2, <2>3
<1>5. ASSUME NEW r \in Reqs, PutStore(r) PROVE Served'
  <2>1. /\ lpc[r] = "store" /\ lpc' = [lpc EXCEPT ![r] = "load"]
        /\ StoreLevel(requested[r]) /\ raced' = [s \in Reqs |-> s # r]
        /\ UNCHANGED <<req, requested, status, reported>>
    BY <1>5, Zenon DEF PutStore
  <2>2. DOMAIN raced' = Reqs /\ \A s \in Reqs : s # r => raced'[s]
    BY <2>1, ZenonT(60)
  <2>3. level' = requested[r] /\ DOMAIN during' = Reqs /\ during'[r] = during[r] \cup {requested[r]}
    BY <2>1, Zenon DEF StoreLevel
  <2>4. lpc'[r] = "load" /\ \A s \in Reqs \ {r} : lpc'[s] = lpc[s]
    BY <2>1, Zenon DEF Served
  <2>5. status'[r] = 0
    BY <1>0, <2>1, ZenonT(60) DEF Fine
  <2>6. Fine(r)'
    BY <2>1, <2>3, <2>4, <2>5, Zenon DEF Fine
  <2>7. ASSUME NEW s \in Reqs \ {r} PROVE Fine(s)'
    BY <2>1, <2>2, <2>4, FineOvertaken, ZenonT(60)
  <2> QED BY <2>1, <2>2, <2>3, <2>6, <2>7, Zenon DEF Served
<1>6. ASSUME NEW r \in Reqs, PutLoad(r) PROVE Served'
  BY <1>6, FineReply, Zenon DEF PutLoad
<1>7. ASSUME NEW l \in SetTo, SetLevel(l) PROVE Served'
  <2>1. StoreLevel(l) /\ raced' = [r \in Reqs |-> TRUE] /\ UNCHANGED <<lpc, req, requested, status, reported>>
    BY <1>7, Zenon DEF SetLevel, served
  <2>2. DOMAIN raced' = Reqs /\ \A s \in Reqs : raced'[s]
    BY <2>1, ZenonT(60)
  <2>3. DOMAIN during' = Reqs
    BY <2>1, Zenon DEF StoreLevel
  <2>4. ASSUME NEW s \in Reqs PROVE Fine(s)'
    BY <2>1, <2>2, FineOvertaken, Zenon
  <2> QED BY <2>1, <2>2, <2>3, <2>4, Zenon DEF Served
<1>8. CASE UNCHANGED handlerVars
  BY <1>8, FineKept, Zenon DEF handlerVars, served, Served
<1> QED BY <1>1, <1>2, <1>3, <1>4, <1>5, <1>6, <1>7, <1>8, Zenon DEF HandlerNext

\* However many requests are served at once and whatever levels the program sets,
\* ServeHTTP reports a level that was in force while it served the request, and a PUT
\* that no store overtook reports the level it stored (http_handler.go).
THEOREM ReportedInForceHolds == HandlerSpec => []ReportedInForce
<1>1. HandlerInit => Served
  <2> SUFFICES ASSUME HandlerInit PROVE Served
      OBVIOUS
  <2>1. \A r \in Reqs : lpc[r] = "new" /\ status[r] = 0
    BY Zenon DEF HandlerInit
  <2>2. \A r \in Reqs : Fine(r)
    BY <2>1, Zenon DEF Fine
  <2>3. /\ DOMAIN lpc = Reqs /\ DOMAIN req = Reqs /\ DOMAIN status = Reqs /\ DOMAIN requested = Reqs
        /\ DOMAIN reported = Reqs /\ DOMAIN during = Reqs /\ DOMAIN raced = Reqs
    BY Zenon DEF HandlerInit
  <2> QED BY <2>2, <2>3, Zenon DEF Served
<1>2. Served => ReportedInForce
  <2> SUFFICES ASSUME Served, NEW r \in Reqs, status[r] = 200
               PROVE  /\ reported[r] \in during[r]
                      /\ req[r].method = "PUT" /\ ~raced[r] => reported[r] = requested[r] /\ level = requested[r]
      BY Zenon DEF ReportedInForce
  <2>1. Fine(r)
    BY Zenon DEF Served
  <2>2. lpc[r] = "done"
    BY <2>1 DEF Fine
  <2> QED BY <2>1, <2>2, Zenon DEF Fine
<1> QED BY <1>1, <1>2, ServedStep, PTL DEF HandlerSpec

-----------------------------------------------------------------------------
(* GRPCLogger                                                              *)
Methods == {"Print", "Info", "Warning", "Error", "Fatal"}

GRPCTypeOK ==
  /\ threshold \in Int
  /\ debug \in BOOLEAN
  /\ gpc \in {"new", "idle", "ln", "delegate", "done"}
  /\ call \in [name : Methods, ln : BOOLEAN]
  /\ always \in BOOLEAN /\ never \in BOOLEAN
  /\ exited \in BOOLEAN
  /\ sets \in Int

\* Before the delegate has been called, nothing is written, and the history of the level
\* agrees with the level now.
BeforeDelegate ==
  gpc \in {"ln", "delegate"} =>
    /\ wrote = << >>
    /\ ~exited
    /\ always => Enabled(LevelOf(call.name))
    /\ never => ~Enabled(LevelOf(call.name))
    /\ gpc = "ln" => call.ln

GRPCInv == GRPCTypeOK /\ BeforeDelegate /\ (gpc \in {"new", "idle"} => ~exited) /\ OneEntryPerCall

LEMMA LevelType == GRPCTypeOK => LevelOf(call.name) \in Int
BY SMTT(30) DEF GRPCTypeOK, Methods, LevelOf, DebugLevel, InfoLevel, WarnLevel, ErrorLevel, FatalLevel

LEMMA GRPCStep == GRPCInv /\ [GRPCNext]_grpcVars => GRPCInv'
<1> SUFFICES ASSUME GRPCInv, [GRPCNext]_grpcVars PROVE GRPCInv'
    OBVIOUS
<1> USE DEF GRPCInv, GRPCTypeOK
<1>1. ASSUME NEW name \in Methods, NEW ln \in BOOLEAN, Call(name, ln) PROVE GRPCInv'
  BY <1>1 DEF Call, BeforeDelegate, OneEntryPerCall, Enabled, LevelOf, Methods
<1>2. ASSUME NEW d \in BOOLEAN, NewLogger(d) PROVE GRPCInv'
  BY <1>2, Zenon DEF NewLogger, BeforeDelegate, OneEntryPerCall
<1>3. CASE Println
  BY <1>3, Zenon DEF Println, BeforeDelegate, OneEntryPerCall, Enabled, LevelOf
<1>4. CASE Delegate
  BY <1>4, Zenon DEF Delegate, BeforeDelegate, OneEntryPerCall, Enabled, LevelOf
<1>5. CASE CallReturns
  BY <1>5, ZenonT(60) DEF CallReturns, BeforeDelegate, OneEntryPerCall
<1>6. ASSUME NEW t \in Thresholds, SetThreshold(t) PROVE GRPCInv'
  <2>1. LevelOf(call.name) \in Int /\ LevelOf(call.name)' = LevelOf(call.name) /\ t \in Int
    BY <1>6, ThresholdsAssumption, LevelType, Zenon DEF SetThreshold, LevelOf
  <2> QED
    BY <1>6, <2>1 DEF SetThreshold, BeforeDelegate, OneEntryPerCall, Enabled
<1>7. CASE UNCHANGED grpcVars
  BY <1>7, ZenonT(60) DEF grpcVars, BeforeDelegate, OneEntryPerCall, Enabled, LevelOf
<1> QED
  BY <1>1, <1>2, <1>3, <1>4, <1>5, <1>6, <1>7, Zenon DEF GRPCNext, Methods

\* A method of the gRPC logger writes one entry if its level stays enabled during the
\* call, none if it stays disabled, and never more than one; Fatal ends the process
\* unless Fatalln found the level disabled (zapgrpc.go).
THEOREM OneEntryPerCallHolds == GRPCSpec => []OneEntryPerCall
<1>1. GRPCInit => GRPCInv
  <2> SUFFICES ASSUME GRPCInit PROVE GRPCInv
      OBVIOUS
  <2>1. threshold \in Int /\ sets \in Int
    BY DEF GRPCInit, InfoLevel
  <2>2. debug \in BOOLEAN /\ always \in BOOLEAN /\ never \in BOOLEAN /\ exited \in BOOLEAN
    BY Zenon DEF GRPCInit
  <2>3. call \in [name : Methods, ln : BOOLEAN] /\ gpc = "new"
    BY Zenon DEF GRPCInit, Methods
  <2>4. ~exited
    BY Zenon DEF GRPCInit
  <2> QED
    BY <2>1, <2>2, <2>3, <2>4, Zenon DEF GRPCInv, GRPCTypeOK, BeforeDelegate, OneEntryPerCall
<1>2. GRPCInv => OneEntryPerCall
  BY Zenon DEF GRPCInv
<1> QED
  BY <1>1, <1>2, GRPCStep, PTL DEF GRPCSpec

=============================================================================
