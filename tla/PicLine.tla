------------------------------- MODULE PicLine -------------------------------
(***************************************************************************)
(* What the PIC promises about the external-interrupt line, stated over    *)
(* Pic with a history variable: the interrupts that were pending when the  *)
(* CPU last entered the external interrupt vector and have not been        *)
(* acknowledged since.  The guest knows of those; it must be told of the   *)
(* others.  A second history tells whether a device thread was ever inside *)
(* pic_raise_interrupt while the CPU thread was inside pic_write, which    *)
(* takes no lock: a bit stored in that window may be lost, or stay pending *)
(* without a signal, and nothing is claimed after it.                      *)
(***************************************************************************)
EXTENDS Pic

VARIABLES
    served,
    raced

lineVars == <<allVars, served, raced>>

LineInit == PicInit /\ served = {} /\ raced = FALSE

\* a raise of a device thread and a register write are both under way
Overlap == picop # Idle /\ \E t \in Devices : raising[t] # Idle

LineNext ==
    /\ PicNext
    /\ served' = IF cpu = "takeExt" /\ cpu' = "guest"
                 THEN pending' \cup level'
                 ELSE served \cap (pending' \cup level')
    /\ raced' = (raced \/ Overlap')

LineSpec == LineInit /\ [][LineNext]_lineVars

\* no thread is inside a PIC function
Quiescent == picop = Idle /\ \A t \in Threads : raising[t] = Idle

(***************************************************************************)
(* An interrupt that is pending and enabled and that the guest has not     *)
(* been interrupted for is signalled to the CPU: pic.cc signals an edge    *)
(* "if not masked and state raises from low to high" and re-evaluates      *)
(* after every register write.                                             *)
(***************************************************************************)
NoStrandedInterrupt ==
    /\ PicTypeOK
    /\ ~raced /\ Quiescent /\ ((pending \cup level) \cap enable) \ served # {} =>
         "ext" \in flags

(***************************************************************************)
(* The CPU is not signalled for nothing: when ext_exception is set and no  *)
(* PIC function is running, the registers show the guest's handler an      *)
(* enabled interrupt to serve.                                             *)
(***************************************************************************)
NoSpuriousInterrupt ==
    ~raced /\ Quiescent /\ "ext" \in flags => wanted
=============================================================================
