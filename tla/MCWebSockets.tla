---------------------------- MODULE MCWebSockets ----------------------------
(***************************************************************************)
(* Two connections that send two messages between them, about one          *)
(* collection that changes once, and one read that is refused.             *)
(***************************************************************************)
EXTENDS WebSockets
=============================================================================
