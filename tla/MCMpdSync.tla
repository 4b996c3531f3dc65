----------------------------- MODULE MCMpdSync -----------------------------
EXTENDS MpdSync
CONSTANTS a, b
Album == {<<a, b>>}
MayFind == {<<>>, <<b>>}
Others == {<<b>>}
=============================================================================
