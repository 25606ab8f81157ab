-------------------------------- MODULE MCMmu --------------------------------
EXTENDS Mmu

\* a kernel segment and a user segment
Paged == {[vsid |-> "k", t |-> FALSE, ks |-> FALSE, kp |-> TRUE],
          [vsid |-> "u", t |-> FALSE, ks |-> TRUE, kp |-> TRUE]}

\* and a direct-store segment
MCSegments == Paged \cup {[vsid |-> "u", t |-> TRUE, ks |-> TRUE, kp |-> TRUE]}

\* the page table lies in RAM, or in part where nothing is
MCGaps == {{}, {<<"k", 1>>}}

MCBatUppers == {[bepi |-> 0, vs |-> FALSE, vp |-> FALSE],
                [bepi |-> 0, vs |-> TRUE, vp |-> FALSE]}

\* no block translation: only the segment register is switched
NoBat == {[bepi |-> 0, vs |-> FALSE, vp |-> FALSE]}

Pte(rpn, pp) == [rpn |-> rpn, pp |-> pp, c |-> FALSE]

\* page 0 is remapped and write-protected; page 1 has the last frame; page 2
\* shares the slot of page 0 and is the frame buffer
MCPtes == [k \in Keys |->
    CASE k = <<"k", 0>> -> {Pte(1, 0), Pte(0, 2)}
      [] k = <<"k", 1>> -> {Pte(4, 3)}
      [] k = <<"u", 2>> -> {Pte(3, 1)}
      [] OTHER -> {}]
=============================================================================
