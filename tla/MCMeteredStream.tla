--------------------------- MODULE MCMeteredStream ---------------------------
(* MeteredStream on small instances. *)
EXTENDS MeteredStream, TLC

CONSTANTS s1, s2

Mixed == s1 :> "sse" @@ s2 :> "ws"
AllSse == [s \in Streams |-> "sse"]
==============================================================================
