---------------------------- MODULE MCHttpServer ----------------------------
(* Two pages: one of a single part, one of three parts with a short last one *)
EXTENDS HttpServer, TLC

CONSTANTS small, large
MCPages == {small, large}
MCPageLen == small :> 2 @@ large :> 5
=============================================================================
