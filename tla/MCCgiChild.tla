----------------------------- MODULE MCCgiChild -----------------------------
(* CgiChild for TLC: a refused request and a script that cannot be executed*)
(* beside one that can, and two scripts that hold each other's connection. *)
EXTENDS CgiChild

MCWorkloads == {<<"refused", "broken", "script">>, <<"script", "script", "refused">>}
=============================================================================
