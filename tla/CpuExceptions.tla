---------------------------- MODULE CpuExceptions ----------------------------
(***************************************************************************)
(* The asynchronous exception protocol of the three JIT backends.          *)
(*                                                                         *)
(* PPC_CPU_State packs four flag bytes into one 32-bit word                *)
(* (exception_pending, dec_exception, ext_exception, stop_exception).      *)
(* The word is the only channel from the other threads to translated code: *)
(* the DEC timer thread, the device threads and the UI thread set bits of  *)
(* it, and the CPU thread tests it in the heartbeat, in several separate   *)
(* loads, before it enters an exception vector or leaves translated code.  *)
(*                                                                         *)
(* The word is modelled as the set of the flags that are set.              *)
(***************************************************************************)

CONSTANT Backends       \* the JITs to look at

ASSUME BackendsAssumption == Backends \subseteq {"aarch64", "x86_64", "x86"}

VARIABLES
    backend,    \* the JIT the emulator was built with; never changes
    flags,      \* the exception word of PPC_CPU_State
    ee,         \* MSR[EE] of the guest
    cpu,        \* where the CPU thread is
    ui          \* where the main (UI) thread is

vars == <<backend, flags, ee, cpu, ui>>

Flags == {"pending", "dec", "ext", "stop"}

(***************************************************************************)
(* "guest": in translated code or in an MMIO handler called from it;       *)
(* "test...": between two loads of one heartbeat; "take...": in the entry  *)
(* code of an exception; "doze": waiting in cpu_doze; "stopped":           *)
(* ppc_cpu_run has returned; "unknown": jitc_error_unknown_exception.      *)
(***************************************************************************)
CpuStates == {"guest", "testStop", "testEE", "testExt", "testDec",
              "takeExt", "takeDec", "doze", "stopped", "unknown"}

(***************************************************************************)
(* "run": in the event loop; "stopping": between the two byte stores of    *)
(* the x86 ppc_cpu_stop; "join": in sys_join_thread(cpuThread); "done":    *)
(* joined.                                                                 *)
(***************************************************************************)
UiStates == {"run", "stopping", "join", "done"}

TypeOK ==
    /\ backend \in Backends
    /\ flags \subseteq Flags
    /\ ee \in BOOLEAN
    /\ cpu \in CpuStates
    /\ ui \in UiStates

-----------------------------------------------------------------------------
(* The read-modify-write operations on the word.  Each is one LDAXR/STLXR  *)
(* or LOCK CMPXCHG loop, hence atomic.                                     *)

\* Faulty variants (Mut...) stand before the definition they vary; nothing
\* refers to them but the list of mutants in PROJECT.json.
MutCancelExtByte(w) == w \ {"ext"}                  \* pending is left set
MutCancelAll(w) == {}                         \* the other source is dropped

raise_dec(w)  == w \cup {"pending", "dec"}
raise_ext(w)  == w \cup {"pending", "ext"}
raise_stop(w) == w \cup {"pending", "stop"}

\* "Keep only dec_exception bit and pending flag if dec is set"
cancel_ext(w) == IF "dec" \in w THEN {"pending", "dec"} ELSE {}

\* "Keep ext_exception (bit 16) if set, clear everything else"
cancel_dec(w) == IF "ext" \in w THEN {"pending", "ext"} ELSE {}

\* ppc_ext_exception_asm: the x86_64 backend leaves the word alone
take_ext(w) == IF backend = "x86_64" THEN w ELSE cancel_ext(w)

\* What the first load of the heartbeat tests: aarch64 the whole word,
\* the x86 backends the exception_pending byte.
signalled(w) == IF backend = "aarch64" THEN w # {} ELSE "pending" \in w

-----------------------------------------------------------------------------
(* Other threads                                                           *)

Running == cpu # "unknown" /\ ui # "done"

\* decTimerCB on the timer thread (or in the signal handler)
RaiseDec ==
    /\ Running
    /\ flags' = raise_dec(flags)
    /\ UNCHANGED <<backend, ee, cpu, ui>>

\* ppc_cpu_raise_ext_exception, from a device thread or from the CPU thread
RaiseExt ==
    /\ Running
    /\ flags' = raise_ext(flags)
    /\ UNCHANGED <<backend, ee, cpu, ui>>

\* ppc_cpu_stop on the UI thread once the window is closed
Stop ==
    /\ Running
    /\ ui = "run"
    /\ backend # "x86"
    /\ flags' = raise_stop(flags)
    /\ ui' = "join"
    /\ UNCHANGED <<backend, ee, cpu>>

\* the x86 backend sets the two bytes one after the other
StopFirstStore ==
    /\ Running
    /\ ui = "run"
    /\ backend = "x86"
    /\ flags' = flags \cup {"pending"}
    /\ ui' = "stopping"
    /\ UNCHANGED <<backend, ee, cpu>>

StopSecondStore ==
    /\ Running
    /\ ui = "stopping"
    /\ flags' = flags \cup {"stop"}
    /\ ui' = "join"
    /\ UNCHANGED <<backend, ee, cpu>>

\* sys_join_thread in main
Join ==
    /\ ui = "join"
    /\ cpu = "stopped"
    /\ ui' = "done"
    /\ UNCHANGED <<backend, flags, ee, cpu>>

-----------------------------------------------------------------------------
(* The CPU thread in translated code and in the handlers it calls          *)

\* ppc_cpu_cancel_ext_exception, only ever called from PIC register writes
\* and pic_cancel_interrupt, which run on the CPU thread
CancelExt ==
    /\ Running
    /\ cpu = "guest"
    /\ flags' = cancel_ext(flags)
    /\ UNCHANGED <<backend, ee, cpu, ui>>

\* CUDA_POWERDOWN and CUDA_RESET_SYSTEM call ppc_cpu_stop on the CPU thread
PowerDown ==
    /\ Running
    /\ cpu = "guest"
    /\ flags' = raise_stop(flags)
    /\ UNCHANGED <<backend, ee, cpu, ui>>

\* mtmsr or rfi without MSR[POW], or any synchronous exception (msr := 0)
SetMsr ==
    /\ Running
    /\ cpu = "guest"
    /\ ee' \in BOOLEAN
    /\ UNCHANGED <<backend, flags, cpu, ui>>

\* mtmsr with MSR[POW]: cpu_doze returns at once if exception_pending is set
Doze ==
    /\ Running
    /\ cpu = "guest"
    /\ "pending" \notin flags
    /\ cpu' = "doze"
    /\ UNCHANGED <<backend, flags, ee, ui>>

\* the bounded wait ends (signalled, spuriously or after 10 ms) and the new
\* MSR is stored
EndDoze ==
    /\ Running
    /\ cpu = "doze"
    /\ cpu' = "guest"
    /\ ee' \in BOOLEAN
    /\ UNCHANGED <<backend, flags, ui>>

-----------------------------------------------------------------------------
(* The heartbeat, one action per load                                      *)

HeartbeatSignalled ==
    /\ Running
    /\ cpu = "guest"
    /\ signalled(flags)
    /\ cpu' = "testStop"
    /\ UNCHANGED <<backend, flags, ee, ui>>

HeartbeatStop ==
    /\ Running
    /\ cpu = "testStop"
    /\ cpu' = IF "stop" \in flags THEN "stopped" ELSE "testEE"
    /\ UNCHANGED <<backend, flags, ee, ui>>

HeartbeatEE ==
    /\ Running
    /\ cpu = "testEE"
    /\ cpu' = IF ee THEN "testExt" ELSE "guest"
    /\ UNCHANGED <<backend, flags, ee, ui>>

HeartbeatExt ==
    /\ Running
    /\ cpu = "testExt"
    /\ cpu' = IF "ext" \in flags THEN "takeExt" ELSE "testDec"
    /\ UNCHANGED <<backend, flags, ee, ui>>

HeartbeatDec ==
    /\ Running
    /\ cpu = "testDec"
    /\ cpu' = IF "dec" \in flags THEN "takeDec" ELSE "unknown"
    /\ UNCHANGED <<backend, flags, ee, ui>>

\* ppc_ext_exception_asm: vector 0x500 with MSR cleared
TakeExt ==
    /\ Running
    /\ cpu = "takeExt"
    /\ flags' = take_ext(flags)
    /\ ee' = FALSE
    /\ cpu' = "guest"
    /\ UNCHANGED <<backend, ui>>

\* ppc_dec_exception_asm: vector 0x900 with MSR cleared
TakeDec ==
    /\ Running
    /\ cpu = "takeDec"
    /\ flags' = cancel_dec(flags)
    /\ ee' = FALSE
    /\ cpu' = "guest"
    /\ UNCHANGED <<backend, ui>>

\* main has returned, or jitc_error_unknown_exception has ended the process
Terminated ==
    /\ ~Running
    /\ UNCHANGED vars

-----------------------------------------------------------------------------
Init ==
    /\ backend \in Backends
    /\ flags = {}
    /\ ee = FALSE
    /\ cpu = "guest"
    /\ ui = "run"

Others == RaiseDec \/ RaiseExt \/ Stop \/ StopFirstStore \/ StopSecondStore \/ Join

Guest == CancelExt \/ PowerDown \/ SetMsr \/ Doze \/ EndDoze

Heartbeat ==
    \/ HeartbeatSignalled \/ HeartbeatStop \/ HeartbeatEE
    \/ HeartbeatExt \/ HeartbeatDec \/ TakeExt \/ TakeDec

Next == Others \/ Guest \/ Heartbeat \/ Terminated

Spec == Init /\ [][Next]_vars

(***************************************************************************)
(* Fairness.  The threads run: a heartbeat, an exception entry, a doze     *)
(* (10 ms at most), the UI thread's stores and its join all finish.        *)
(* Translated code reaches a heartbeat at every taken branch and at every  *)
(* page boundary, and the guest program is assumed to reach one again and  *)
(* again with MSR[EE] set if it sets MSR[EE] again and again.              *)
(***************************************************************************)
Fairness ==
    /\ WF_vars(EndDoze)
    /\ WF_vars(HeartbeatSignalled)
    /\ SF_vars(HeartbeatSignalled /\ ee)
    /\ WF_vars(HeartbeatStop \/ HeartbeatEE \/ HeartbeatExt \/ HeartbeatDec)
    /\ WF_vars(TakeExt \/ TakeDec)
    /\ WF_vars(StopSecondStore)
    /\ WF_vars(Join)

FairSpec == Spec /\ Fairness

-----------------------------------------------------------------------------
(***************************************************************************)
(* The heartbeat never finds the word signalled without an exception       *)
(* source behind it, although it tests stop, EE, ext and dec with separate *)
(* loads while other threads change the word.  The one exception is the    *)
(* 32-bit backend, and there only once the window has been closed.         *)
(***************************************************************************)
KnownException == cpu = "unknown" => backend = "x86" /\ ui # "run"

(***************************************************************************)
(* A decrementer exception leaves the word only by being delivered, an     *)
(* external one only by being delivered or by the PIC cancelling it:       *)
(* delivering or cancelling one source keeps the other.                    *)
(***************************************************************************)
SourcesKept ==
    [][/\ "dec" \in flags \ flags' => TakeDec
       /\ "ext" \in flags \ flags' => TakeExt \/ CancelExt]_vars

(***************************************************************************)
(* A raised decrementer exception is delivered, unless the emulator ends,  *)
(* provided the devices do not raise external exceptions for ever (they    *)
(* are tested first, so an endless stream of them starves the              *)
(* decrementer), the guest keeps MSR[EE] from staying clear for ever and,  *)
(* on x86_64, where the entry code leaves ext_exception set, acknowledges  *)
(* its external interrupts.                                                *)
(***************************************************************************)
DecDelivered ==
    /\ <>[][~RaiseExt]_vars
    /\ []<>ee
    /\ backend = "x86_64" => []<>("ext" \notin flags)
    => ("dec" \in flags ~> cpu \in {"takeDec", "stopped", "unknown"})

(***************************************************************************)
(* Closing the window ends the emulator: the heartbeat sees stop_exception *)
(* and leaves translated code, and main joins the CPU thread.              *)
(***************************************************************************)
StopTaken == (ui = "join") ~> (ui = "done")
=============================================================================
