----------------------------- MODULE MCPairing -----------------------------
(* TLC instances of Pairing. *)
EXTENDS Pairing

CONSTANTS w1, w2, p1, p2

With(desktops, phones, codes, parts) ==
  [desktops |-> desktops, phones |-> phones, codes |-> codes, parts |-> parts]

SomeScenes == {
  With({w1, w2}, {p1, p2}, 2, {"release"}),
  With({w1}, {p1, p2}, 2, {"lost", "release"}),
  With({w1}, {p1}, 1, {"watch", "time", "silent", "reload"}),
  With({w1}, {p1}, 1, {"watch", "time", "release"}),
  With({w1}, {p1}, 2, {"watch", "release"})}
=============================================================================
