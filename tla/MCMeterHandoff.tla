--------------------------- MODULE MCMeterHandoff ---------------------------
EXTENDS MeterHandoff
=============================================================================
