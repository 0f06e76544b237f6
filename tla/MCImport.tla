------------------------------ MODULE MCImport ------------------------------
(* TLC instances of Import. *)
EXTENDS Import

CONSTANTS u1, u2

With(users, parts, limit) == [users |-> users, parts |-> parts, mishaps |-> limit]

SomeScenes == {
  With({u1, u2}, {"full"}, 0),
  With({u1}, {"change", "full", "total", "fail"}, 1),
  With({u1}, {"change", "remove", "total"}, 0),
  With({u1}, {"change", "bad", "total", "crash"}, 2),
  With({u1}, {"hand", "fail"}, 2),
  With({u1}, {"outside", "lost"}, 2)}

Shrinking == {With({u1}, {"shrink", "total"}, 0)}
\* An import that was given up is handed out again after its worker died.
Resumed == {With({u1}, {"remove", "fail", "crash"}, 2)}
Wedging == {With({u1}, {"outside"}, 2)}
=============================================================================
