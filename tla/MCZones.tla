------------------------------ MODULE MCZones ------------------------------
EXTENDS Zones
CONSTANTS a, b
Album == {<<a, b>>}
=============================================================================
