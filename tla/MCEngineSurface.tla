--------------------------- MODULE MCEngineSurface --------------------------
(* Two subagents, one event, and the entry points.                          *)
EXTENDS EngineSurface, TLC

CONSTANTS s1, s2
TwoInvocations == {s1, s2}
TwoEmitters == {Root, s1, s2}

DirectAsync == [filtered |-> FALSE, private |-> FALSE]
DirectSync == [filtered |-> FALSE, private |-> TRUE]
ItemsAsync == [filtered |-> TRUE, private |-> FALSE]
ItemsSync == [filtered |-> TRUE, private |-> TRUE]

ClosingSurfaces == {DirectAsync, DirectSync, ItemsAsync}
ItemsSyncOnly == {ItemsSync}
=============================================================================
