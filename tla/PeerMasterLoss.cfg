SPECIFICATION FairSpec
CONSTANT Worlds <- OrderlyWorld
PROPERTIES MasterLossNoticed
