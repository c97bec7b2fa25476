---------------------------- MODULE MCProxyLogin ----------------------------
(* Instance of ProxyLogin for TLC. *)
EXTENDS ProxyLogin, TLC

(* The first version allows one connection, the second two. *)
OneThenTwo == (1 :> 1) @@ (2 :> 2)
=============================================================================
