--------------------------- MODULE MCBufferCache ---------------------------
EXTENDS BufferCache, TLC

\* Processes, buffers and blocks are interchangeable: the list of the buffers
\* begins in any order.
CacheSymmetry == Permutations(Procs) \cup Permutations(Bufs) \cup Permutations(Blocks)
=============================================================================
