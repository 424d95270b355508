---------------------------- MODULE MCWsTranslator ----------------------------
(* Instance of WsTranslator for TLC: see the cfg files for the bounds.       *)
EXTENDS WsTranslator
==============================================================================
