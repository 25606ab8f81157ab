--------------------------------- MODULE Pic ---------------------------------
(***************************************************************************)
(* The interrupt controller (io/pic/pic.cc) composed with the exception    *)
(* word of the CPU.                                                        *)
(*                                                                         *)
(* pic_raise_interrupt runs on device threads (CUDA event loop, network    *)
(* receivers) and on the CPU thread (IDE, CUDA replies) under PIC_mutex.   *)
(* pic_write runs on the CPU thread and takes no lock, so its loads and    *)
(* stores of PIC_pending and its two halves of pic_renew_interrupts are    *)
(* separate steps here.  pic_cancel_interrupt runs on the CPU thread       *)
(* under the lock.                                                         *)
(*                                                                         *)
(* The registers come as a low and a high word; every IRQ the emulator     *)
(* raises (pic.h) is below 32, so one word is modelled.                    *)
(***************************************************************************)
EXTENDS CpuExceptions

CONSTANTS
    Irqs,       \* the interrupt lines in use
    Level,      \* those in IO_PIC_LEVEL_TYPE
    Devices,    \* the device threads
    CPU,        \* the CPU thread as a caller of pic_raise_interrupt
    Raises,     \* Raises[t]: the lines thread t raises
    Acks        \* the words the guest writes to the acknowledge register

Threads == Devices \cup {CPU}

ASSUME PicAssumption ==
    /\ Level \subseteq Irqs
    /\ CPU \notin Devices
    /\ Raises \in [Threads -> SUBSET Irqs]
    /\ Acks \subseteq SUBSET Irqs

VARIABLES
    enable,     \* PIC_enable_low
    pending,    \* PIC_pending_low
    level,      \* PIC_pending_level
    mutex,      \* PIC_mutex: the set of threads that hold it
    raising,    \* raising[t]: the locals of pic_raise_interrupt in thread t
    picop       \* the locals of pic_write on the CPU thread

picVars == <<enable, pending, level, mutex, raising, picop>>
allVars == <<vars, picVars>>

Idle == [at |-> "idle"]

RaiseStates ==
    {Idle} \cup
    [at : {"read"}, irq : Irqs, mask : SUBSET Irqs, old : SUBSET Irqs] \cup
    [at : {"stored"}, irq : Irqs, signal : BOOLEAN]

PicOps ==
    {Idle, [at |-> "renew"]} \cup
    [at : {"ack"}, data : SUBSET Irqs, old : SUBSET Irqs] \cup
    [at : {"apply"}, raise : BOOLEAN]

PicTypeOK ==
    /\ TypeOK
    /\ enable \subseteq Irqs
    /\ pending \subseteq Irqs
    /\ level \subseteq Level
    /\ mutex \subseteq Threads
    /\ raising \in [Threads -> RaiseStates]
    /\ picop \in PicOps

\* the CPU thread is in translated code and not inside a PIC handler
InGuest == Running /\ cpu = "guest" /\ picop = Idle /\ raising[CPU] = Idle

-----------------------------------------------------------------------------
(* pic_raise_interrupt                                                     *)

\* faulty variants: without the lock ...
MutRaiseBegin(t, i) ==
    /\ IF t = CPU THEN InGuest ELSE Running /\ raising[t] = Idle
    /\ i \in Raises[t]
    /\ mutex' = {t}
    /\ raising' = [raising EXCEPT ![t] =
                     [at |-> "read", irq |-> i, mask |-> enable, old |-> pending]]
    /\ UNCHANGED <<vars, enable, pending, level, picop>>

\* ... exception_pending not set
MutRaiseSignal(t) ==
    LET r == raising[t] IN
    /\ Running
    /\ r.at = "stored"
    /\ flags' = IF r.signal THEN flags \cup {"ext"} ELSE flags
    /\ mutex' = mutex \ {t}
    /\ raising' = [raising EXCEPT ![t] = Idle]
    /\ UNCHANGED <<backend, ee, cpu, ui, enable, pending, level, picop>>

\* sys_lock_mutex, then mask and pending are read into locals
RaiseBegin(t, i) ==
    /\ IF t = CPU THEN InGuest ELSE Running /\ raising[t] = Idle
    /\ i \in Raises[t]
    /\ mutex = {}
    /\ mutex' = {t}
    /\ raising' = [raising EXCEPT ![t] =
                     [at |-> "read", irq |-> i, mask |-> enable, old |-> pending]]
    /\ UNCHANGED <<vars, enable, pending, level, picop>>

\* PIC_pending_low |= ibit: the compiler may reuse the value loaded above or
\* load the word again
RaiseStore(t) ==
    LET r == raising[t] IN
    /\ Running
    /\ r.at = "read"
    /\ \E word \in {r.old, pending} : pending' = word \cup {r.irq}
    /\ level' = level \cup ({r.irq} \cap Level)
    /\ raising' = [raising EXCEPT ![t] =
                     [at |-> "stored", irq |-> r.irq,
                      signal |-> /\ r.irq \in r.mask
                                 /\ r.irq \in Level \/ r.irq \notin r.old]]
    /\ UNCHANGED <<vars, enable, mutex, picop>>

\* the conditional ppc_cpu_raise_ext_exception, sys_unlock_mutex and
\* ppc_cpu_wakeup (a doze may end at any time, see EndDoze)
RaiseSignal(t) ==
    LET r == raising[t] IN
    /\ Running
    /\ r.at = "stored"
    /\ flags' = IF r.signal THEN raise_ext(flags) ELSE flags
    /\ mutex' = mutex \ {t}
    /\ raising' = [raising EXCEPT ![t] = Idle]
    /\ UNCHANGED <<backend, ee, cpu, ui, enable, pending, level, picop>>

-----------------------------------------------------------------------------
(* pic_write and pic_cancel_interrupt on the CPU thread                    *)

\* offset 0x24: the enable register
WriteEnable(data) ==
    /\ InGuest
    /\ enable' = data
    /\ picop' = [at |-> "renew"]
    /\ UNCHANGED <<vars, pending, level, mutex, raising>>

\* offset 0x28: PIC_pending_low &= ~data, the load
AckLoad(data) ==
    /\ InGuest
    /\ picop' = [at |-> "ack", data |-> data, old |-> pending]
    /\ UNCHANGED <<vars, enable, pending, level, mutex, raising>>

\* ... and the store
AckStore ==
    /\ Running
    /\ picop.at = "ack"
    /\ pending' = picop.old \ picop.data
    /\ picop' = [at |-> "renew"]
    /\ UNCHANGED <<vars, enable, level, mutex, raising>>

\* offset 0x38 (sound): nothing but the renewal
WriteSound ==
    /\ InGuest
    /\ picop' = [at |-> "renew"]
    /\ UNCHANGED <<vars, enable, pending, level, mutex, raising>>

\* faulty variants: the test that pic.cc has commented out, and a renewal
\* that never cancels
MutWanted == level \cap enable # {}

MutRenewApply ==
    /\ Running
    /\ picop.at = "apply"
    /\ flags' = IF picop.raise THEN raise_ext(flags) ELSE flags
    /\ picop' = Idle
    /\ UNCHANGED <<backend, ee, cpu, ui, enable, pending, level, mutex, raising>>

\* pic_renew_interrupts: the condition
wanted == (pending \cup level) \cap enable # {}

RenewRead ==
    /\ Running
    /\ picop.at = "renew"
    /\ picop' = [at |-> "apply", raise |-> wanted]
    /\ UNCHANGED <<vars, enable, pending, level, mutex, raising>>

\* ... and the call it selects
RenewApply ==
    /\ Running
    /\ picop.at = "apply"
    /\ flags' = IF picop.raise THEN raise_ext(flags) ELSE cancel_ext(flags)
    /\ picop' = Idle
    /\ UNCHANGED <<backend, ee, cpu, ui, enable, pending, level, mutex, raising>>

\* pic_cancel_interrupt: all of it under PIC_mutex, which every concurrent
\* writer of these words holds too
Cancel(i) ==
    /\ InGuest
    /\ mutex = {}
    /\ pending' = pending \ {i}
    /\ level' = level \ {i}
    /\ flags' = IF (pending' \cup level') \cap enable # {}
                THEN raise_ext(flags) ELSE cancel_ext(flags)
    /\ UNCHANGED <<backend, ee, cpu, ui, enable, mutex, raising, picop>>

-----------------------------------------------------------------------------
(* The rest of the machine: CpuExceptions without its stand-ins for the    *)
(* PIC (RaiseExt, CancelExt); translated code only runs outside handlers   *)

CpuStep ==
    /\ RaiseDec \/ Stop \/ StopFirstStore \/ StopSecondStore \/ Join
    /\ UNCHANGED picVars

GuestStep ==
    /\ InGuest
    /\ PowerDown \/ SetMsr \/ Doze \/ HeartbeatSignalled
    /\ UNCHANGED picVars

HeartbeatStep ==
    /\ \/ EndDoze \/ HeartbeatStop \/ HeartbeatEE \/ HeartbeatExt \/ HeartbeatDec
       \/ TakeExt \/ TakeDec
    /\ UNCHANGED picVars

PicInit ==
    /\ Init
    /\ enable = {}
    /\ pending = {}
    /\ level = {}
    /\ mutex = {}
    /\ raising = [t \in Threads |-> Idle]
    /\ picop = Idle

PicNext ==
    \/ \E t \in Threads : \/ \E i \in Irqs : RaiseBegin(t, i)
                          \/ RaiseStore(t)
                          \/ RaiseSignal(t)
    \/ \E data \in SUBSET Irqs : WriteEnable(data)
    \/ \E data \in Acks : AckLoad(data)
    \/ AckStore
    \/ WriteSound
    \/ RenewRead
    \/ RenewApply
    \/ \E i \in Level : Cancel(i)
    \/ CpuStep
    \/ GuestStep
    \/ HeartbeatStep
    \/ Terminated /\ UNCHANGED picVars

PicSpec == PicInit /\ [][PicNext]_allVars

-----------------------------------------------------------------------------
(***************************************************************************)
(* pic_raise_interrupt never clears a bit.  Another device thread cannot   *)
(* get in between its load and its store of PIC_pending_low, and an        *)
(* acknowledge that does can only have made the loaded value too large, so *)
(* whatever is lost is lost by the CPU thread.                             *)
(***************************************************************************)
ClearedByCpuOnly ==
    [][\A i \in pending \ pending' : AckStore \/ (i \in Level /\ Cancel(i))]_allVars
=============================================================================
