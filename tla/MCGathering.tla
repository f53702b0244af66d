------------------------------ MODULE MCGathering ------------------------------
(* Both orders of a STUN and a TURN server, and one of each alone. *)
EXTENDS Gathering

MCServerLists == {<<"stun", "turn">>, <<"turn", "stun">>}
MCUsernameLens == {3, 4}
================================================================================
