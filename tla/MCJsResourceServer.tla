------------------------- MODULE MCJsResourceServer --------------------------
(* The TypeScript resource server on the routes of MCResourceServer.       *)
EXTENDS JsResourceServer, MCResourceServer
=============================================================================
