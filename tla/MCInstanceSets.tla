--------------------------- MODULE MCInstanceSets ---------------------------
(* One set, with one or two of what users do and a fault.                    *)
EXTENDS InstanceSets

Scene(want, users, m, n) == [want |-> want, users |-> users, edits |-> m, faults |-> n]

Once    == {Scene(n, {"scale", "template", "pause", "delete", "deleteKid"}, 1, 0) : n \in 0 .. 2}
Failing == {Scene(1, {"scale", "delete"}, 1, 1), Scene(2, {"template", "deleteKid"}, 1, 1)}
Twice   == {Scene(2, {"scale", "template"}, 2, 0), Scene(1, {"delete"}, 2, 0)}

AllScenes == Once \cup Failing \cup Twice
=============================================================================
