-------------------------------- MODULE MCPic --------------------------------
EXTENDS PicLine

\* IDE and CUDA replies are raised on the CPU thread, CUDA events also on
\* the thread of the event loop
MCRaises == [t \in Threads |-> IF t = CPU THEN Irqs ELSE Irqs \ Level]

AllAcks == SUBSET Irqs
=============================================================================
