---------------------------- MODULE LevelHandler ----------------------------
(***************************************************************************)
(* AtomicLevel served over HTTP: concurrent GET and PUT requests, and a    *)
(* goroutine of the program that calls SetLevel.  The level is one atomic  *)
(* word; a request decodes its body, stores and loads in separate steps.   *)
(***************************************************************************)
EXTENDS Integers, Sequences

CONSTANTS
  Reqs,      \* requests in flight; each is served once
  SetTo,     \* levels the program itself sets, named or not
  Texts,     \* texts a request may carry
  StartLevel \* the level the AtomicLevel was created with

Names == <<"debug", "info", "warn", "error", "dpanic", "panic", "fatal">>
Absent == "absent"
Malformed == "malformed"

VARIABLES
  level,      \* lvl.l
  lpc, req,   \* req[r]: [method, form, text]
  requested,  \* requestedLvl
  status, reported,
  during,     \* history: the levels in force since the request began
  raced       \* history: another store happened since this request's own

served == <<lpc, req, requested, status, reported>>
handlerVars == <<level, served, during, raced>>

NoReq == [method |-> "none", form |-> FALSE, text |-> Absent]
Rejected == -1000   \* a decoding error

HandlerInit ==
  /\ level = StartLevel
  /\ lpc = [r \in Reqs |-> "new"]
  /\ req = [r \in Reqs |-> NoReq]
  /\ requested = [r \in Reqs |-> 0]
  /\ status = [r \in Reqs |-> 0]
  /\ reported = [r \in Reqs |-> Rejected]
  /\ during = [r \in Reqs |-> {}]
  /\ raced = [r \in Reqs |-> FALSE]

\* Every store adds to the history of the requests that are being served.
StoreLevel(l) ==
  /\ level' = l
  /\ during' = [r \in Reqs |-> IF lpc[r] \in {"new", "done"} THEN during[r] ELSE during[r] \cup {l}]

Arrive(r, q) ==
  /\ lpc[r] = "new"
  /\ lpc' = [lpc EXCEPT ![r] = "serve"]
  /\ req' = [req EXCEPT ![r] = q]
  /\ during' = [during EXCEPT ![r] = {level}]
  /\ UNCHANGED <<level, requested, status, reported, raced>>

\* Level.UnmarshalText: any case is accepted (the texts here are lower case), and
\* the empty text is Info.
UnmarshalText(t) ==
  IF t = "" THEN 0
  ELSE IF t = "warning" THEN 1
  ELSE IF \E k \in DOMAIN Names : Names[k] = t THEN (CHOOSE k \in DOMAIN Names : Names[k] = t) - 2
  ELSE Rejected

\* decodePutRequest: a form must have a level that is not empty, a JSON body one
\* that is not null.
Decode(q) ==
  IF q.form
  THEN IF q.text \in {Absent, Malformed, ""} THEN Rejected ELSE UnmarshalText(q.text)
  ELSE IF q.text \in {Absent, Malformed} THEN Rejected ELSE UnmarshalText(q.text)

Reply(r, code, lvl) ==
  /\ lpc' = [lpc EXCEPT ![r] = "done"]
  /\ status' = [status EXCEPT ![r] = code]
  /\ reported' = [reported EXCEPT ![r] = lvl]

\* Mutant of Get: the level the AtomicLevel was created with is reported.
GetStale(r) ==
  /\ lpc[r] = "serve" /\ req[r].method = "GET"
  /\ Reply(r, 200, StartLevel)
  /\ UNCHANGED <<level, req, requested, during, raced>>

Get(r) ==
  /\ lpc[r] = "serve" /\ req[r].method = "GET"
  /\ Reply(r, 200, level)
  /\ UNCHANGED <<level, req, requested, during, raced>>

NotAllowed(r) ==
  /\ lpc[r] = "serve" /\ req[r].method \notin {"GET", "PUT"}
  /\ Reply(r, 405, Rejected)
  /\ UNCHANGED <<level, req, requested, during, raced>>

PutDecode(r) ==
  /\ lpc[r] = "serve" /\ req[r].method = "PUT"
  /\ LET l == Decode(req[r]) IN
       IF l = Rejected
       THEN Reply(r, 400, Rejected) /\ UNCHANGED requested
       ELSE /\ requested' = [requested EXCEPT ![r] = l]
            /\ lpc' = [lpc EXCEPT ![r] = "store"]
            /\ UNCHANGED <<status, reported>>
  /\ UNCHANGED <<level, req, during, raced>>

\* lvl.SetLevel(requestedLvl)
PutStore(r) ==
  /\ lpc[r] = "store"
  /\ StoreLevel(requested[r])
  /\ raced' = [s \in Reqs |-> s # r]
  /\ lpc' = [lpc EXCEPT ![r] = "load"]
  /\ UNCHANGED <<req, requested, status, reported>>

\* enc.Encode(payload{Level: lvl.Level()})
PutLoad(r) ==
  /\ lpc[r] = "load"
  /\ Reply(r, 200, level)
  /\ UNCHANGED <<level, req, requested, during, raced>>

\* The program calls SetLevel.
SetLevel(l) ==
  /\ l # level
  /\ StoreLevel(l)
  /\ raced' = [r \in Reqs |-> TRUE]
  /\ UNCHANGED served

\* The body is read for a PUT only.
Requests == [method : {"PUT"}, form : BOOLEAN, text : Texts]
              \cup [method : {"GET", "POST"}, form : {FALSE}, text : {Absent}]

HandlerNext ==
  \/ \E r \in Reqs, q \in Requests : Arrive(r, q)
  \/ \E r \in Reqs : Get(r) \/ NotAllowed(r) \/ PutDecode(r) \/ PutStore(r) \/ PutLoad(r)
  \/ \E l \in SetTo : SetLevel(l)

HandlerSpec == HandlerInit /\ [][HandlerNext]_handlerVars
-----------------------------------------------------------------------------
\* A response reports a level that was in force while the request was served; a
\* PUT that no other store overtook reports the level it asked for, which is
\* still in force.
ReportedInForce ==
  \A r \in Reqs : status[r] = 200 =>
    /\ reported[r] \in during[r]
    /\ req[r].method = "PUT" /\ ~raced[r] => reported[r] = requested[r] /\ level = requested[r]
=============================================================================
