----------------------------- MODULE MCTeardown -----------------------------
(* One object of each kind with one connection, two kinds at a time.  Most   *)
(* scenes have either faults or the connection's deletion; KeepsVpc has both.*)
EXTENDS Teardown

InProject == Bring["project"]

Scene(kinds, given, n) ==
  [kinds |-> kinds, given |-> given, faults |-> n,
   protected |-> {}, optsOut |-> {}, byRef |-> FALSE, stays |-> n # 0]

Nested(n)    == Scene({"project", "vpc"}, {}, n)
Snapshots(n) == Scene({"disk", "snapshot"}, InProject, n)
Clones(n)    == [Scene({"snapshot", "clone"}, InProject \cup {"disk"}, n)
                   EXCEPT !.protected = {"snapshot"}]
ByRef(n)     == [Scene({"vpc", "subnet"}, InProject, n) EXCEPT !.byRef = TRUE]
KeepsVpc(n)  == [ByRef(n) EXCEPT !.protected = {"vpc"}, !.stays = FALSE]
OptsOut(n)   == [Scene({"disk"}, InProject, n) EXCEPT !.optsOut = {"disk"}, !.stays = FALSE]

AllScenes ==
  {KeepsVpc(1), Clones(1), Nested(0), Nested(1), Snapshots(0), Snapshots(1), OptsOut(1)}
OnlyByRef == {ByRef(0)}
=============================================================================
