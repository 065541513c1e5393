---------------------------- MODULE MCLightServer ---------------------------
(* Two clients that send two packets each, in pieces, then close or reset, *)
(* and a server that has room for both and the event loop, for both only,  *)
(* for one connection, or for both with one that select() cannot watch.    *)
EXTENDS LightServer

CONSTANTS c1, c2

MCClients == {c1, c2}

MCLimits == {
  [open |-> 5, select |-> 2],
  [open |-> 4, select |-> 2],
  [open |-> 1, select |-> 2],
  [open |-> 5, select |-> 1]}
=============================================================================
