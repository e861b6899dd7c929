---------------------------- MODULE MCSyncRebase ----------------------------
(***************************************************************************)
(* Instances of SyncRebase for TLC: two rows, two values, and mutators     *)
(* that insert, update, delete, rename, and fail half way.                 *)
(***************************************************************************)
EXTENDS SyncRebaseView

CONSTANTS x, y

\* A counter that wraps; a new one starts at one.
Count == [v \in {0, 1, Absent} |-> IF v = 0 \/ v = Absent THEN 1 ELSE 0]

M(op, row, to) == [op |-> op, row |-> row, to |-> to, value |-> 0]

Mutators == {M("inc", x, x), M("inc", y, y), M("create", y, y),
             M("delete", x, x), M("rename", x, y), M("move", x, y)}
=============================================================================
