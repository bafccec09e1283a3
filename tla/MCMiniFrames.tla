---------------------------- MODULE MCMiniFrames ----------------------------
(* Two solutions, with and without a fix, and a version answer. *)
EXTENDS MiniFrames

MCParts == ("pvt" :> 2) @@ ("nofix" :> 1) @@ ("ver" :> 3)
=============================================================================
