-------------------------- MODULE MapObjectEncoder --------------------------
(***************************************************************************)
(* MapObjectEncoder and sliceArrayEncoder: nested Go maps and slices, as a *)
(* set of nodes [path, kind].  An element of a path is a key or an index.  *)
(* An encoder is [base, cur, n]: the node it fills, the namespace it is    *)
(* writing to, and the length of its slice.                                *)
(***************************************************************************)
EXTENDS Naturals, Sequences, SequencesExt

Node(path, kind) == [path |-> path, kind |-> kind]

\* m[key] = v: whatever was stored there before is gone.
Put(tree, path, kind) ==
  {x \in tree : ~IsPrefix(path, x.path)} \cup {Node(path, kind)}

NewMapObjectEncoder(path) == [kind |-> "obj", base |-> path, cur |-> path, n |-> 0]
NewSliceEncoder(path) == [kind |-> "arr", base |-> path, cur |-> path, n |-> 0]

\* Where the next value goes: m.cur[k], or the end of s.elems.
Place(m, k) == IF m.kind = "obj" THEN Append(m.cur, k) ELSE Append(m.cur, m.n + 1)
Grown(m) == IF m.kind = "arr" THEN [m EXCEPT !.n = @ + 1] ELSE m

\* OpenNamespace: m.cur = ns.
InNamespace(m, k) == [m EXCEPT !.cur = Append(@, k)]
=============================================================================
