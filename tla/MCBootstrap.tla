---------------------------- MODULE MCBootstrap ----------------------------
(***************************************************************************)
(* Bootstrap with every command line of up to three short strings.         *)
(***************************************************************************)
EXTENDS Bootstrap

MCProgram == <<1>>
MCStrings == {<<>>, <<1, 1>>, <<2>>, <<2, 1>>}
MCCommandLines ==
  {<<MCProgram>> \o rest : rest \in UNION {[1..k -> MCStrings] : k \in 0..2}}
    \cup {<<>>}
=============================================================================
