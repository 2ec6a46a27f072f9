------------------------------- MODULE MCShim -------------------------------
(***************************************************************************)
(* Two tabs.  There is always a token that no URL has, and a session that  *)
(* neither the jar nor a request under way carries.  One page becomes the  *)
(* other when it loses a prefix that is its own.                           *)
(***************************************************************************)
EXTENDS Shim

CONSTANTS s1, s2, s3, s4, k1, k2, k3

MCSession == {s1, s2, s3, s4}
MCToken == {k1, k2, k3}
MCPrefix == <<"verify">>
MCPage == {<<"a">>, <<"verify", "a">>}
MCPublic == {<<"a">>}
=============================================================================
