---------------------------- MODULE MCConnection ----------------------------
(* TLC instances of Connection. *)
EXTENDS Connection

CONSTANTS o1, o2, scheduler, staff, push, daily

With(actors, orders, parts) == [actors |-> actors, orders |-> orders, parts |-> parts]

SomeScenes == {
  With({scheduler}, {o1, o2}, {"crash"}),
  With({scheduler, daily}, {o1}, {"tokens"}),
  With({scheduler, push}, {}, {"tokens"}),
  With({scheduler, daily}, {}, {"tokens", "crash"}),
  With({scheduler, push}, {}, {"tokens", "owner"})}

TwoPulls == {With({scheduler, staff}, {o1}, {"overlap"})}
Disconnects == {With({push}, {}, {"tokens", "owner"})}
Regrants == {With({push}, {}, {"tokens", "owner", "race"})}
=============================================================================
