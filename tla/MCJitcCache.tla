----------------------------- MODULE MCJitcCache -----------------------------
EXTENDS JitcCache, TLC

Interchangeable == Permutations(Fragments) \cup
    Permutations(Stored) \cup Permutations(Frames \ Stored)
=============================================================================
