-------------------------- MODULE MCEngineOutputBus -------------------------
(* Two agents, four events. *)
EXTENDS EngineOutputBus, TLC

CONSTANTS root, sub
MCEmitters == {root, sub}
=============================================================================
