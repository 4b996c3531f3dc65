--------------------------- MODULE MCBrowserPlayer ---------------------------
EXTENDS BrowserPlayer

CONSTANTS a, b, c

MCTracks == {a, b, c}
MCBatches == {<<>>, <<a>>, <<b, c>>}
MCFound == {<<>>, <<c>>}
=============================================================================
