--------------------------- MODULE MCControlProtocol ---------------------------
EXTENDS ControlProtocol

CONSTANTS fe, cp, be1, be2

MCNode == {fe, cp, be1, be2}
MCParent == [n \in MCNode \ {fe} |-> IF n = be2 THEN cp ELSE fe]
MCFailures == {{}, {be1, be2}}
=============================================================================
