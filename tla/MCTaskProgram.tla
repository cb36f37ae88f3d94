---------------------------- MODULE MCTaskProgram ----------------------------
(* TaskProgram with every task, and with every program of up to MaxWrites     *)
(* bytes in any order of its streams, ending or not.                          *)
EXTENDS TaskProgram

CONSTANT MaxWrites  \* bound: bytes of a program beyond the templates

MCOthers ==
  [writes : UNION {[1..n -> Streams] : n \in 0..MaxWrites}, exit : {0, Never}]
=============================================================================
