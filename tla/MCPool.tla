------------------------------- MODULE MCPool -------------------------------
EXTENDS PoolObjs, TLC

\* The pool compares and computes no addresses, and reads no place that is not listed
\* before it has written it: as long as OneOwner holds, two states with the same view
\* differ in the names of objects and in such places only.
Shape ==
  <<currentRow, currentCol, numObjsAlloc, numBlocksAlloc, flags, init, lockInit, destroyed,
    pc, [t \in Threads |-> arg[t] = NoObj], [r \in Rows |-> rows[r] = NoRow],
    WellFormed, OneOwner, NothingLost, Cardinality(live), Cardinality(used)>>
=============================================================================
