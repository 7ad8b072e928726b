--------------------------- MODULE MCSessionStore ---------------------------
(* One session row, its creator, and two more writers in processes of their *)
(* own: two runs, or a run and a /messages handler.                         *)
EXTENDS SessionStore

CONSTANTS c, r, x, XKind, RunSaves

MCWriters == {c, r, x}
MCProcesses == {"A", "B"}
MCProcessOf == [w \in MCWriters |-> IF w = x THEN "B" ELSE "A"]
MCKind == [w \in MCWriters |-> CASE w = c -> "create" [] w = r -> "run" [] w = x -> XKind]
MCMaxSaves == [w \in MCWriters |-> IF w = r THEN RunSaves ELSE 1]
=============================================================================
