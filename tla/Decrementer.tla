----------------------------- MODULE Decrementer -----------------------------
(***************************************************************************)
(* The decrementer of the JIT backends (readDEC, writeDEC in ppc_opc.cc)   *)
(* and the one-shot host timer behind it (sys_set_timer, decTimerCB).  The *)
(* register is not counted: it is computed from the value written last and *)
(* the time since then, and the exception comes from the host timer.       *)
(*                                                                         *)
(* Time is counted in ticks of the time base.  A due timer is assumed to   *)
(* call back before the next tick.                                         *)
(***************************************************************************)
EXTENDS Integers

CONSTANTS
    Half,       \* 2^31: a register value is negative from here on
    Limit,      \* 20 ms: longer intervals are cut ...
    Clamp,      \* ... to 10 ms
    Writes,     \* the values the guest writes
    MaxTime     \* bound: the last tick

ASSUME DecAssumption ==
    /\ Half \in Nat /\ Limit \in Nat /\ Clamp \in Nat /\ MaxTime \in Nat
    /\ 0 < Clamp /\ Clamp <= Limit /\ Limit < Half
    /\ Writes \subseteq 0 .. (2 * Half - 1)

VARIABLES
    now,            \* ppc_get_cpu_ideal_timebase()
    dec,            \* aCPU.dec, up to date only after a read or a write
    writeValue,     \* gDECwriteValue
    writeITB,       \* gDECwriteITB
    initialized,    \* gDECinitialized
    timer,          \* when the host timer goes off, or NoTimer
    written,        \* history: when writeDEC last ran, or NoTimer
    raised,         \* history: a DEC exception was raised since
    accessed        \* history: when the register was last read or written

decVars == <<now, dec, writeValue, writeITB, initialized, timer, written, raised,
             accessed>>

NoTimer == -1
Registers == 0 .. (2 * Half - 1)
Negative(v) == v >= Half

DecTypeOK ==
    /\ now \in 0 .. MaxTime
    /\ dec \in Registers
    /\ writeValue \in Registers
    /\ writeITB \in 0 .. MaxTime
    /\ initialized \in BOOLEAN
    /\ timer \in Nat \cup {NoTimer}
    /\ written \in 0 .. MaxTime \cup {NoTimer}
    /\ raised \in BOOLEAN
    /\ accessed \in 0 .. MaxTime

-----------------------------------------------------------------------------
\* faulty variant: nothing is cut
MutInterval(newdec) == newdec

\* the interval writeDEC asks the host timer for
interval(newdec) == IF newdec > Limit THEN Clamp ELSE newdec

\* the value readDEC computes, modulo 2^32
register(value, itb) == (value - (now - itb)) % (2 * Half)

\* faulty variant: a timer that is not replaced
MutWriteDEC(newdec) ==
    /\ dec' = newdec
    /\ LET fires == (~Negative(dec) /\ Negative(newdec)) \/ newdec = 0 IN
         /\ raised' = fires
         /\ timer' = IF fires \/ timer # NoTimer THEN timer ELSE now + interval(newdec)
    /\ writeValue' = newdec
    /\ writeITB' = now
    /\ written' = now
    /\ accessed' = now
    /\ UNCHANGED <<now, initialized>>

\* sys_set_timer calls back at once for an interval of zero, and leaves a
\* timer set earlier alone; otherwise it replaces that timer.
writeDEC(newdec) ==
    /\ dec' = newdec
    /\ LET fires == (~Negative(dec) /\ Negative(newdec)) \/ newdec = 0 IN
         /\ raised' = fires
         /\ timer' = IF fires THEN timer ELSE now + interval(newdec)
    /\ writeValue' = newdec
    /\ writeITB' = now
    /\ written' = now
    /\ accessed' = now
    /\ UNCHANGED <<now, initialized>>

\* faulty variant: the value counts on from the last read, the time from the write
MutReadDEC ==
    /\ initialized' = TRUE
    /\ writeITB' = IF initialized THEN writeITB ELSE now
    /\ dec' = register(dec, writeITB')
    /\ accessed' = now
    /\ UNCHANGED <<now, writeValue, timer, written, raised>>

\* the first read takes the time it happens for the time of the write
readDEC ==
    /\ initialized' = TRUE
    /\ writeITB' = IF initialized THEN writeITB ELSE now
    /\ dec' = register(writeValue, writeITB')
    /\ accessed' = now
    /\ UNCHANGED <<now, writeValue, timer, written, raised>>

\* decTimerCB
Fire ==
    /\ timer # NoTimer
    /\ now >= timer
    /\ timer' = NoTimer
    /\ raised' = TRUE
    /\ UNCHANGED <<now, dec, writeValue, writeITB, initialized, written, accessed>>

Tick ==
    /\ now < MaxTime
    /\ timer = NoTimer \/ now < timer
    /\ now' = now + 1
    /\ UNCHANGED <<dec, writeValue, writeITB, initialized, timer, written, raised,
                   accessed>>

DecInit ==
    /\ now = 0
    /\ dec = 0
    /\ writeValue = 0
    /\ writeITB = 0
    /\ initialized = FALSE
    /\ timer = NoTimer
    /\ written = NoTimer
    /\ raised = FALSE
    /\ accessed = 0

DecNext == (\E v \in Writes : writeDEC(v)) \/ readDEC \/ Fire \/ Tick

DecSpec == DecInit /\ [][DecNext]_decVars

-----------------------------------------------------------------------------
(***************************************************************************)
(* No interval that the host timer can take is cut short: after a write of *)
(* at most 20 ms no exception is raised before the register has run down,  *)
(* although a timer set by an earlier write may still be pending.          *)
(***************************************************************************)
NotEarly ==
    raised /\ written # NoTimer /\ writeValue \in 0 .. Limit => now - written >= writeValue

(***************************************************************************)
(* Whatever the guest writes, and however often it rewrites the register,  *)
(* an exception follows within 20 ms of the last write.                    *)
(***************************************************************************)
RaisedInTime ==
    written # NoTimer /\ ~raised => /\ timer # NoTimer
                                    /\ now <= written + Limit

(***************************************************************************)
(* The register never runs backward and never faster than time: between    *)
(* two accesses it falls by no more than the ticks that passed, modulo     *)
(* 2^32.  The first read, which forgets the time since the write, may make *)
(* it slower but not faster.                                               *)
(***************************************************************************)
ReadsTrackTime ==
    [][readDEC => (dec - dec') % (2 * Half) <= now - accessed]_decVars
=============================================================================
