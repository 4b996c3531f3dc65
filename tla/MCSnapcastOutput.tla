-------------------------- MODULE MCSnapcastOutput --------------------------
EXTENDS SnapcastOutput
CONSTANTS a, b
NoneFound == {}
Album == {<<a, b>>}
Single == {<<a>>}
MayFind == {<<a>>}
=============================================================================
