------------------------- MODULE MCGoResourceServer --------------------------
(* The Go resource server on the routes of MCResourceServer.               *)
EXTENDS GoResourceServer, MCResourceServer
=============================================================================
