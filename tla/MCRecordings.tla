---------------------------- MODULE MCRecordings ----------------------------
(* TLC instances of Recordings. *)
EXTENDS Recordings

CONSTANTS d1, d2, r1, r2

With(devices, takes, parts) == [devices |-> devices, takes |-> takes, parts |-> parts]

SomeScenes == {
  With({d1, d2}, {r1}, {"drop", "close"}),
  With({d1, d2}, {r1}, {"drop", "delete"}),
  With({d1}, {r1}, {"drop", "camera", "close", "fail", "sweep"}),
  With({d1}, {r1}, {"drop", "recount", "delete", "expire"}),
  With({d1}, {r1}, {"drop", "recount", "expire", "restart"}),
  With({d1}, {r1}, {"drop", "purge", "expire", "restart"}),
  With({d1}, {r1}, {"drop", "purge", "delete", "fail"}),
  With({d1}, {r1, r2}, {"purge", "expire"})}
=============================================================================
