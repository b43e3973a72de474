---------------------------- MODULE MCBufferPool ----------------------------
EXTENDS BufferPool, TLC

MCGarbage == {0, 1}

Symmetric == Permutations(Fds) \cup Permutations(Addrs)
=============================================================================
