----------------------------- MODULE ErrorFields -----------------------------
(***************************************************************************)
(* Fields that carry errors: NamedError and Errors of the root package,    *)
(* encodeError and errArray of ladcore.  An error may be a group of        *)
(* others, to any depth, and any of its methods may panic.  The error at   *)
(* path p has its causes at p \o <<1>>, p \o <<2>>, ...; the path << >> is *)
(* the field's own error or, for Errors, the slice.                        *)
(***************************************************************************)
EXTENDS Integers, Sequences, SequencesExt, FiniteSets

CONSTANTS
  Paths,   \* the tree of errors: a set of paths closed under prefixes
  Width    \* bound on the causes of an error

Kinds ==
  {"nil",        \* no error
   "plain", "verbose",   \* verbose: implements fmt.Formatter, which says more
   "nilptr",     \* a nil pointer whose Error panics
   "panics",     \* Error panics
   "group",      \* implements errorGroup; its Format, if any, is not asked
   "badgroup",   \* Error works and Errors panics
   "nilgroup"}   \* the same, on a nil pointer

VARIABLES
  kind,    \* of the error at each path
  errors,  \* the field is made by Errors, not by NamedError
  stack,   \* the loops over causes under way: [at, i]
  now,     \* the path of the error encodeError is at
  pc,      \* "start", "encode", "return", "loop", "done"
  err,     \* the error being returned up the stack
  out      \* what the encoder is told: <<what, path>>

vars == <<kind, errors, stack, now, pc, err, out>>

Init ==
  /\ kind = [p \in Paths |-> "nil"] /\ errors = FALSE
  /\ stack = << >> /\ now = << >> /\ pc = "start" /\ err = FALSE /\ out = << >>

\* Only a group has causes; the slice given to Errors is like one.
Trees ==
  {k \in [Paths -> Kinds] : \A p \in Paths : p # << >> /\ k[p] # "nil" => k[Front(p)] = "group"}

Tell(what) == out' = Append(out, <<what, now>>)
Causes(p) == {i \in 1..Width : Append(p, i) \in Paths}

\* NamedError(nil) is Skip; Errors is an array whatever it holds.
Start(k) ==
  /\ pc = "start"
  /\ kind' = k
  /\ \/ /\ errors' = FALSE
        /\ pc' = IF k[<< >>] = "nil" THEN "done" ELSE "encode"
        /\ UNCHANGED <<out, stack>>
     \/ /\ k[<< >>] = "group" /\ errors' = TRUE
        /\ Tell("[")
        /\ stack' = <<[at |-> << >>, i |-> 1]>>
        /\ pc' = "loop"
  /\ UNCHANGED <<now, err>>

\* encodeError.
EncodeError ==
  /\ pc = "encode"
  /\ CASE kind[now] = "panics" -> err' = TRUE /\ pc' = "return" /\ UNCHANGED <<out, stack>>
       [] kind[now] = "nilptr" -> Tell("<nil>") /\ pc' = "return" /\ UNCHANGED <<err, stack>>
       [] kind[now] = "plain" -> Tell("error") /\ pc' = "return" /\ UNCHANGED <<err, stack>>
       [] kind[now] = "verbose" -> /\ out' = out \o <<<<"error", now>>, <<"verbose", now>>>>
                                   /\ pc' = "return" /\ UNCHANGED <<err, stack>>
       [] kind[now] = "group" -> /\ out' = out \o <<<<"error", now>>, <<"[", now>>>>
                                 /\ stack' = Append(stack, [at |-> now, i |-> 1])
                                 /\ pc' = "loop" /\ UNCHANGED err
       [] kind[now] = "badgroup" -> Tell("error") /\ err' = TRUE /\ pc' = "return" /\ UNCHANGED stack
       [] kind[now] = "nilgroup" -> /\ out' = out \o <<<<"error", now>>, <<"<nil>", now>>>>
                                    /\ pc' = "return" /\ UNCHANGED <<err, stack>>
  /\ UNCHANGED <<kind, errors, now>>

\* errArray.MarshalLogArray, of either package: nil errors are passed over.
Loop ==
  LET top == Last(stack)
      p == Append(top.at, top.i)
  IN /\ pc = "loop"
     /\ IF top.i \notin Causes(top.at)
        THEN /\ out' = Append(out, <<"]", top.at>>)
             /\ stack' = Front(stack)
             /\ now' = top.at
             /\ pc' = "return"
        ELSE /\ stack' = [stack EXCEPT ![Len(stack)].i = @ + 1]
             /\ IF kind[p] = "nil" THEN UNCHANGED <<out, now, pc>>
                ELSE out' = Append(out, <<"{", p>>) /\ now' = p /\ pc' = "encode"
     /\ UNCHANGED <<kind, errors, err>>

\* The root package's errArrayElem ends in Field.AddTo, which reports the error in the
\* object and returns none; ladcore's hands it to its caller, and errArray stops.
Swallows == errors /\ Len(stack) = 1

\* Mutant of Return: AddObject and AddArray give up without closing what they opened.
ReturnUnclosed ==
  /\ pc = "return"
  /\ IF stack = << >>
     THEN /\ out' = IF err THEN Append(out, <<"keyError", << >>>>) ELSE out
          /\ pc' = "done" /\ UNCHANGED <<stack, now, err>>
     ELSE IF err /\ ~Swallows
     THEN stack' = Front(stack) /\ now' = Last(stack).at /\ UNCHANGED <<out, err, pc>>
     ELSE /\ out' = (IF err THEN Append(out, <<"keyError", now>>) ELSE out) \o <<<<"}", now>>>>
          /\ err' = FALSE /\ pc' = "loop" /\ UNCHANGED <<stack, now>>
  /\ UNCHANGED <<kind, errors>>

\* encodeError has returned, to Field.AddTo or to the object of an array.
Return ==
  /\ pc = "return"
  /\ IF stack = << >>
     THEN /\ out' = IF err THEN Append(out, <<"keyError", << >>>>) ELSE out
          /\ pc' = "done" /\ UNCHANGED <<stack, now, err>>
     ELSE IF err /\ ~Swallows
     THEN /\ out' = out \o <<<<"}", now>>, <<"]", Last(stack).at>>>>
          /\ stack' = Front(stack) /\ now' = Last(stack).at /\ UNCHANGED <<err, pc>>
     ELSE /\ out' = (IF err THEN Append(out, <<"keyError", now>>) ELSE out) \o <<<<"}", now>>>>
          /\ err' = FALSE /\ pc' = "loop" /\ UNCHANGED <<stack, now>>
  /\ UNCHANGED <<kind, errors>>

Next == (pc = "start" /\ \E k \in Trees : Start(k)) \/ EncodeError \/ Loop \/ Return

Spec == Init /\ [][Next]_vars
-----------------------------------------------------------------------------
\* p comes before q when the tree is walked from the root, causes in order.
Before(p, q) ==
  \/ IsStrictPrefix(p, q)
  \/ \E n \in 1..Len(p) : /\ n <= Len(q) /\ p[n] < q[n]
                          /\ SubSeq(p, 1, n - 1) = SubSeq(q, 1, n - 1)

IsError(p) == kind[p] # "nil" /\ (errors => p # << >>)
Fails(p) == IsError(p) /\ kind[p] \in {"panics", "badgroup"}

\* p and q are in the same element of Errors, or in the same field.
Together(p, q) == errors => p[1] = q[1]

\* The errors that are told: those no failing one comes before.
Reached(p) == IsError(p) /\ \A q \in Paths : Fails(q) /\ Together(q, p) => ~Before(q, p)

Told(what) == SelectSeq(out, LAMBDA e : e[1] = what)
PathsTold(what) == {Told(what)[i][2] : i \in DOMAIN Told(what)}

\* What is opened is closed, around what is told of the same error and its causes.
Nested ==
  \A i \in DOMAIN out :
    out[i][1] \in {"[", "{"} =>
      \E k \in i..Len(out) :
        /\ out[k] = <<IF out[i][1] = "[" THEN "]" ELSE "}", out[i][2]>>
        /\ \A j \in i..k : IsPrefix(out[i][2], out[j][2])

\* Whatever panics among an error and its causes, the field is well formed: every
\* error before the first failing one is told, once and in the order of the causes,
\* every array and object that was opened is closed, and the failure is reported once;
\* among the elements of Errors, a failing one costs the others nothing (encodeError's
\* recover, errArray, errArrayElem, Field.AddTo).
CausesTold ==
  pc = "done" =>
    /\ PathsTold("error") =
         {p \in Paths : Reached(p) /\ kind[p] \notin {"panics", "nilptr"}}
    /\ \A i, j \in DOMAIN Told("error") : i < j => Before(Told("error")[i][2], Told("error")[j][2])
    /\ PathsTold("<nil>") = {p \in Paths : Reached(p) /\ kind[p] \in {"nilptr", "nilgroup"}}
    /\ Nested /\ Len(Told("[")) = Len(Told("]")) /\ Len(Told("{")) = Len(Told("}"))
    /\ \A what \in {"<nil>", "verbose", "keyError"} : Len(Told(what)) = Cardinality(PathsTold(what))
    /\ PathsTold("keyError") =
         IF errors THEN {p \in Paths : Len(p) = 1 /\ \E q \in Paths : Fails(q) /\ IsPrefix(p, q)}
         ELSE {p \in {<< >>} : \E q \in Paths : Fails(q)}
=============================================================================
