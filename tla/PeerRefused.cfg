SPECIFICATION Spec
CONSTANT Worlds <- OrderlyWorld
INVARIANTS RefusalRespected
