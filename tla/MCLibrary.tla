----------------------------- MODULE MCLibrary ------------------------------
EXTENDS Library

OnlyPath == [s \in {1} |-> 1]
OnePath == [s \in {1, 2} |-> 1]
=============================================================================
