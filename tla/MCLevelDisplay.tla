--------------------------- MODULE MCLevelDisplay ---------------------------
EXTENDS LevelDisplay
=============================================================================
