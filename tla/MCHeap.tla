------------------------------- MODULE MCHeap -------------------------------
EXTENDS HeapBase
=============================================================================
