----------------------------- MODULE Component -----------------------------
(***************************************************************************)
(* Several small components are checked in one run: st is the state of     *)
(* the one that a behaviour is about, a record whose field kind names it.  *)
(***************************************************************************)
EXTENDS SequencesExt

VARIABLE st

Is(kind) == st.kind = kind

(* The assignment f[key] = v to a map of Go. *)
Assign(f, key, v) == [k \in DOMAIN f \cup {key} |-> IF k = key THEN v ELSE f[k]]

(* The same for a key that is not in the map; another keeps its value.     *)
AssignNew(f, key, value) == IF key \in DOMAIN f THEN f ELSE Assign(f, key, value)

(* A loop over s that appends those of S to its result.                    *)
Only(s, S) == FoldLeft(LAMBDA out, x : IF x \in S THEN Append(out, x) ELSE out, <<>>, s)

(* The map g after everything in f was assigned to it.                     *)
Over(f, g) ==
  [k \in DOMAIN f \cup DOMAIN g |-> IF k \in DOMAIN f THEN f[k] ELSE g[k]]
=============================================================================
