------------------------------ MODULE PicProofs ------------------------------
(***************************************************************************)
(* Theorems about the exception word, for every backend they hold of,      *)
(* about the PIC composed with it, for any lines and device threads, and   *)
(* about the decrementer, the other source of the word, for every limit,   *)
(* clamp and set of values the guest writes.                               *)
(***************************************************************************)
EXTENDS PicLine, Decrementer, TLAPS

(***************************************************************************)
(* The variables keep their types: the flag word, MSR[EE] and the places   *)
(* the two threads can be at.                                              *)
(***************************************************************************)
THEOREM TypeCorrect == Spec => []TypeOK
<1>a. Init => TypeOK
  BY DEF Init, TypeOK, CpuStates, UiStates
<1>b. TypeOK /\ [Next]_vars => TypeOK'
  <2> SUFFICES ASSUME TypeOK, [Next]_vars PROVE TypeOK'
    OBVIOUS
  <2>a. CASE Others
    BY <2>a DEF TypeOK, Others, RaiseDec, RaiseExt, Stop, StopFirstStore, StopSecondStore,
                Join, raise_dec, raise_ext, raise_stop, Flags, UiStates
  <2>b. CASE Guest
    BY <2>b DEF TypeOK, Guest, CancelExt, PowerDown, SetMsr, Doze, EndDoze,
                cancel_ext, raise_stop, Flags, CpuStates
  <2>c. CASE Heartbeat
    BY <2>c DEF TypeOK, Heartbeat, HeartbeatSignalled, HeartbeatStop, HeartbeatEE,
                HeartbeatExt, HeartbeatDec, TakeExt, TakeDec, take_ext, cancel_ext,
                cancel_dec, Flags, CpuStates
  <2>d. CASE UNCHANGED vars
    BY <2>d DEF TypeOK, vars
  <2>e. QED
    BY <2>a, <2>b, <2>c, <2>d DEF Next, Terminated
<1>c. QED
  BY <1>a, <1>b, PTL DEF Spec

-----------------------------------------------------------------------------
(***************************************************************************)
(* KnownException is not inductive: the heartbeat's later loads are sound  *)
(* only because of what its earlier loads saw and because no other thread  *)
(* takes a source out of the word.  The strengthening records, for each    *)
(* place between two loads, the sources that must still be there, for as   *)
(* long as the stores of the 32-bit ppc_cpu_stop have not begun.           *)
(***************************************************************************)
Stopping86 == backend = "x86" /\ ui # "run"

HeartbeatInv ==
    /\ ui = "stopping" => backend = "x86"
    /\ Stopping86 \/
          /\ flags # {} => flags \cap {"dec", "ext", "stop"} # {}
          /\ cpu = "testStop" => flags \cap {"dec", "ext", "stop"} # {}
          /\ cpu \in {"testEE", "testExt"} => flags \cap {"dec", "ext"} # {}
          /\ cpu \in {"testDec", "takeDec"} => "dec" \in flags
          /\ cpu = "takeExt" => "ext" \in flags
          /\ cpu # "unknown"

(***************************************************************************)
(* The heartbeat never reaches jitc_error_unknown_exception, except in the *)
(* 32-bit backend after its ppc_cpu_stop has begun, which sets             *)
(* exception_pending before stop_exception.                                *)
(***************************************************************************)
THEOREM HeartbeatSound == Spec => []KnownException
<1>a. Init => HeartbeatInv
  BY DEF Init, HeartbeatInv
<1>b. HeartbeatInv /\ [Next]_vars => HeartbeatInv'
  <2> SUFFICES ASSUME HeartbeatInv, [Next]_vars PROVE HeartbeatInv'
    OBVIOUS
  <2> USE DEF HeartbeatInv, Stopping86
  <2>a. CASE Others
    BY <2>a DEF Others, RaiseDec, RaiseExt, Stop, StopFirstStore, StopSecondStore,
                Join, raise_dec, raise_ext, raise_stop
  <2>b. CASE Guest
    BY <2>b DEF Guest, CancelExt, PowerDown, SetMsr, Doze, EndDoze, cancel_ext, raise_stop
  <2>c. CASE HeartbeatSignalled
    BY <2>c DEF HeartbeatSignalled, signalled
  <2>d. CASE HeartbeatStop
    BY <2>d DEF HeartbeatStop
  <2>e. CASE HeartbeatEE \/ HeartbeatExt \/ HeartbeatDec
    BY <2>e DEF HeartbeatEE, HeartbeatExt, HeartbeatDec
  <2>f. CASE TakeExt
    BY <2>f DEF TakeExt, take_ext, cancel_ext
  <2>g. CASE TakeDec
    BY <2>g DEF TakeDec, cancel_dec
  <2>h. CASE UNCHANGED vars
    BY <2>h DEF vars
  <2>i. QED
    BY <2>a, <2>b, <2>c, <2>d, <2>e, <2>f, <2>g, <2>h DEF Next, Heartbeat, Terminated
<1>c. HeartbeatInv => KnownException
  BY DEF HeartbeatInv, Stopping86, KnownException
<1>d. QED
  BY <1>a, <1>b, <1>c, PTL DEF Spec

-----------------------------------------------------------------------------
(***************************************************************************)
(* In every backend, a decrementer exception leaves the word only when it  *)
(* is delivered, an external exception only when it is delivered or        *)
(* cancelled.                                                              *)
(***************************************************************************)
THEOREM SourcesAreKept == Spec => SourcesKept
<1> DEFINE Kept == /\ "dec" \in flags \ flags' => TakeDec
                   /\ "ext" \in flags \ flags' => TakeExt \/ CancelExt
<1>a. [Next]_vars => [Kept]_vars
  <2> SUFFICES ASSUME Next PROVE Kept
    OBVIOUS
  <2>a. CASE Others
    BY <2>a DEF Others, RaiseDec, RaiseExt, Stop, StopFirstStore, StopSecondStore,
                Join, raise_dec, raise_ext, raise_stop
  <2>b. CASE Guest
    BY <2>b DEF Guest, CancelExt, PowerDown, SetMsr, Doze, EndDoze, cancel_ext, raise_stop
  <2>c. CASE TakeExt
    BY <2>c DEF TakeExt, take_ext, cancel_ext
  <2>d. CASE TakeDec
    BY <2>d DEF TakeDec, cancel_dec
  <2>e. CASE UNCHANGED flags
    BY <2>e
  <2>f. QED
    BY <2>a, <2>b, <2>c, <2>d, <2>e
       DEF Next, Heartbeat, Terminated, vars, HeartbeatSignalled, HeartbeatStop,
           HeartbeatEE, HeartbeatExt, HeartbeatDec
<1>b. QED
  BY <1>a, PTL DEF Spec, SourcesKept

-----------------------------------------------------------------------------
(* The PIC and the exception word together.                                *)

(***************************************************************************)
(* While pic_write is under way the CPU thread is in translated code: the  *)
(* handler is a call out of it.                                            *)
(***************************************************************************)
HandlerInGuest == picop # Idle => cpu = "guest"

LEMMA HandlerInv == PicSpec => []HandlerInGuest
<1>a. PicInit => HandlerInGuest
  BY DEF PicInit, HandlerInGuest
<1>b. HandlerInGuest /\ [PicNext]_allVars => HandlerInGuest'
  <2> SUFFICES ASSUME HandlerInGuest, [PicNext]_allVars PROVE HandlerInGuest'
    OBVIOUS
  <2> USE DEF HandlerInGuest
  <2>a. CASE \E t \in Threads : \/ \E i \in Irqs : RaiseBegin(t, i)
                                \/ RaiseStore(t)
                                \/ RaiseSignal(t)
    BY <2>a DEF RaiseBegin, RaiseStore, RaiseSignal, vars
  <2>b. CASE \E data \in SUBSET Irqs : WriteEnable(data)
    BY <2>b DEF WriteEnable, InGuest, vars
  <2>c. CASE \E data \in Acks : AckLoad(data)
    BY <2>c DEF AckLoad, InGuest, vars
  <2>d. CASE AckStore
    BY <2>d DEF AckStore, Idle, vars
  <2>e. CASE WriteSound
    BY <2>e DEF WriteSound, InGuest, vars
  <2>f. CASE RenewRead
    BY <2>f DEF RenewRead, Idle, vars
  <2>g. CASE RenewApply
    BY <2>g DEF RenewApply
  <2>h. CASE \E i \in Level : Cancel(i)
    BY <2>h DEF Cancel
  <2>i. CASE CpuStep
    BY <2>i DEF CpuStep, picVars, RaiseDec, Stop, StopFirstStore, StopSecondStore, Join
  <2>j. CASE GuestStep
    BY <2>j DEF GuestStep, InGuest, picVars
  <2>k. CASE HeartbeatStep
    BY <2>k DEF HeartbeatStep, picVars, EndDoze, HeartbeatStop, HeartbeatEE,
                 HeartbeatExt, HeartbeatDec, TakeExt, TakeDec
  <2>l. CASE UNCHANGED allVars
    BY <2>l DEF allVars, vars, picVars
  <2>m. QED
    BY <2>a, <2>b, <2>c, <2>d, <2>e, <2>f, <2>g, <2>h, <2>i, <2>j, <2>k, <2>l
       DEF PicNext, Terminated, allVars
<1>c. QED
  BY <1>a, <1>b, PTL DEF PicSpec

(***************************************************************************)
(* The composition implements the exception protocol: whatever the PIC     *)
(* does to the exception word is a raise, or a cancel from translated      *)
(* code, so every theorem about CpuExceptions holds of the composition.    *)
(***************************************************************************)
THEOREM PicImplementsExceptions == PicSpec => Spec
<1>a. PicInit => Init
  BY DEF PicInit
<1>b. HandlerInGuest /\ [PicNext]_allVars => [Next]_vars
  <2> SUFFICES ASSUME HandlerInGuest, PicNext PROVE [Next]_vars
    BY DEF allVars, vars
  <2>a. CASE \E t \in Threads : RaiseSignal(t)
    <3>a. PICK t \in Threads : RaiseSignal(t)
      BY <2>a
    <3>b. RaiseExt \/ UNCHANGED vars
      BY <3>a DEF RaiseSignal, RaiseExt, vars
    <3>c. QED
      BY <3>b DEF Next, Others
  <2>b. CASE RenewApply
    <3>a. RaiseExt \/ CancelExt
      BY <2>b DEF RenewApply, HandlerInGuest, Idle, RaiseExt, CancelExt
    <3>b. QED
      BY <3>a DEF Next, Others, Guest
  <2>c. CASE \E i \in Level : Cancel(i)
    <3>a. RaiseExt \/ CancelExt
      BY <2>c DEF Cancel, InGuest, RaiseExt, CancelExt
    <3>b. QED
      BY <3>a DEF Next, Others, Guest
  <2>d. CASE CpuStep
    BY <2>d DEF CpuStep, Next, Others
  <2>e. CASE GuestStep
    BY <2>e DEF GuestStep, Next, Guest, Heartbeat
  <2>f. CASE HeartbeatStep
    BY <2>f DEF HeartbeatStep, Next, Guest, Heartbeat
  <2>g. CASE UNCHANGED vars
    BY <2>g
  <2>h. QED
    BY <2>a, <2>b, <2>c, <2>d, <2>e, <2>f, <2>g
       DEF PicNext, RaiseBegin, RaiseStore, WriteEnable, AckLoad, AckStore, WriteSound,
           RenewRead, Terminated
<1>c. QED
  BY <1>a, <1>b, HandlerInv, PTL DEF PicSpec, Spec

-----------------------------------------------------------------------------
(***************************************************************************)
(* What PIC_mutex is for: a thread between its load and its store of       *)
(* PIC_pending_low holds the lock alone.  The acknowledge does not take    *)
(* the lock, so the value the thread loaded may be out of date, but only   *)
(* by bits cleared since; and what the acknowledge itself has loaded may   *)
(* only lack bits set since.                                               *)
(***************************************************************************)
RaisersExclude ==
    /\ DOMAIN raising = Threads
    /\ \A t \in Threads :
          /\ raising[t].at \in {"read", "stored"} => mutex = {t}
          /\ raising[t].at = "read" => pending \subseteq raising[t].old
    /\ picop.at = "ack" => picop.old \subseteq pending

LEMMA MutexInv == PicSpec => []RaisersExclude
<1>a. PicInit => RaisersExclude
  BY DEF PicInit, RaisersExclude, Idle
<1>b. RaisersExclude /\ [PicNext]_allVars => RaisersExclude'
  <2> SUFFICES ASSUME RaisersExclude, [PicNext]_allVars PROVE RaisersExclude'
    OBVIOUS
  <2> USE DEF RaisersExclude
  <2>a. ASSUME NEW t \in Threads, NEW i \in Irqs, RaiseBegin(t, i) PROVE RaisersExclude'
    BY <2>a DEF RaiseBegin
  <2>b. ASSUME NEW t \in Threads, RaiseStore(t) PROVE RaisersExclude'
    BY <2>b DEF RaiseStore
  <2>c. ASSUME NEW t \in Threads, RaiseSignal(t) PROVE RaisersExclude'
    BY <2>c DEF RaiseSignal, Idle
  <2>d. ASSUME NEW data, WriteEnable(data) \/ AckLoad(data) PROVE RaisersExclude'
    BY <2>d DEF WriteEnable, AckLoad
  <2>e. CASE AckStore
    BY <2>e DEF AckStore
  <2>f. CASE WriteSound \/ RenewRead \/ RenewApply
    BY <2>f DEF WriteSound, RenewRead, RenewApply, Idle
  <2>g. CASE \E i \in Level : Cancel(i)
    BY <2>g DEF Cancel, InGuest, Idle
  <2>h. CASE UNCHANGED picVars
    BY <2>h DEF picVars
  <2>i. QED
    BY <2>a, <2>b, <2>c, <2>d, <2>e, <2>f, <2>g, <2>h
       DEF PicNext, CpuStep, GuestStep, HeartbeatStep, allVars
<1>c. QED
  BY <1>a, <1>b, PTL DEF PicSpec

(***************************************************************************)
(* For any number of device threads and interrupt lines,                   *)
(* pic_raise_interrupt never loses a pending bit: every bit that is lost   *)
(* is lost by the unlocked acknowledge in pic_write.                       *)
(***************************************************************************)
THEOREM RaisersLoseNothing == PicSpec => ClearedByCpuOnly
<1> DEFINE Cleared == \A i \in pending \ pending' : AckStore \/ (i \in Level /\ Cancel(i))
<1>a. RaisersExclude /\ [PicNext]_allVars => [Cleared]_allVars
  <2> SUFFICES ASSUME RaisersExclude, PicNext PROVE Cleared
    OBVIOUS
  <2>a. ASSUME NEW t \in Threads, RaiseStore(t) PROVE pending \subseteq pending'
    BY <2>a DEF RaiseStore, RaisersExclude
  <2>b. ASSUME NEW i \in Level, Cancel(i) PROVE pending \ pending' \subseteq {i}
    BY <2>b DEF Cancel
  <2>c. CASE UNCHANGED pending
    BY <2>c
  <2>d. CASE AckStore
    BY <2>d
  <2>e. QED
    BY <2>a, <2>b, <2>c, <2>d
       DEF PicNext, RaiseBegin, RaiseSignal, WriteEnable, AckLoad, WriteSound, RenewRead,
           RenewApply, CpuStep, GuestStep, HeartbeatStep, picVars
<1>b. QED
  BY <1>a, MutexInv, PTL DEF PicSpec, ClearedByCpuOnly

-----------------------------------------------------------------------------
(* The line of the PIC.                                                    *)

\* The locals of pic_raise_interrupt by the place it is at.
LEMMA RaiseKinds ==
  ASSUME NEW r \in RaiseStates
  PROVE  /\ r = Idle <=> r.at = "idle"
         /\ r.at \in {"idle", "read", "stored"}
         /\ r.at = "read" => r.irq \in Irqs /\ r.mask \subseteq Irqs /\ r.old \subseteq Irqs
         /\ r.at = "stored" => r.irq \in Irqs /\ r.signal \in BOOLEAN
  BY DEF RaiseStates, Idle

\* The locals of pic_write by the place it is at.
LEMMA PicOpKinds ==
  ASSUME NEW p \in PicOps
  PROVE  /\ p = Idle <=> p.at = "idle"
         /\ p.at \in {"idle", "renew", "ack", "apply"}
         /\ p.at = "ack" => p.data \subseteq Irqs /\ p.old \subseteq Irqs
         /\ p.at = "apply" => p.raise \in BOOLEAN
  BY DEF PicOps, Idle

\* What the PIC's own variables hold.
PicTypes ==
    /\ enable \subseteq Irqs
    /\ pending \subseteq Irqs
    /\ level \subseteq Level
    /\ mutex \subseteq Threads
    /\ raising \in [Threads -> RaiseStates]
    /\ picop \in PicOps

\* Every step of the composition keeps the types of the PIC's variables.
LEMMA PicTypesInv == PicSpec => []PicTypes
  <1>init. PicInit => PicTypes
    BY DEF PicInit, PicTypes, RaiseStates, PicOps
  <1>step. PicTypes /\ [PicNext]_allVars => PicTypes'
    <2> SUFFICES ASSUME PicTypes, [PicNext]_allVars PROVE PicTypes'
      OBVIOUS
    <2> USE DEF PicTypes
    <2>begin. ASSUME NEW t \in Threads, NEW i \in Irqs, RaiseBegin(t, i) PROVE PicTypes'
      <3>new. [at |-> "read", irq |-> i, mask |-> enable, old |-> pending] \in RaiseStates
        BY DEF RaiseStates
      <3> HIDE DEF RaiseStates
      <3> QED  BY <2>begin, <3>new DEF RaiseBegin
    <2>store. ASSUME NEW t \in Threads, RaiseStore(t) PROVE PicTypes'
      <3> DEFINE r == raising[t]
                 sig == r.irq \in r.mask /\ (r.irq \in Level \/ r.irq \notin r.old)
      <3>kind. r.irq \in Irqs /\ r.old \subseteq Irqs
        <4>in. r \in RaiseStates /\ r.at = "read"
          BY <2>store DEF RaiseStore
        <4> QED  BY <4>in, RaiseKinds
      <3>new. [at |-> "stored", irq |-> r.irq, signal |-> sig] \in RaiseStates
        <4>bool. sig \in BOOLEAN
          OBVIOUS
        <4> HIDE DEF sig
        <4> QED  BY <3>kind, <4>bool DEF RaiseStates
      <3>next. raising' = [raising EXCEPT ![t] = [at |-> "stored", irq |-> r.irq, signal |-> sig]]
        BY <2>store DEF RaiseStore
      <3>raising. raising' \in [Threads -> RaiseStates]
        <4> HIDE DEF RaiseStates, sig, r
        <4> QED  BY <3>new, <3>next
      <3>rest. /\ pending' \subseteq Irqs /\ level' \subseteq Level
               /\ enable' = enable /\ mutex' = mutex /\ picop' = picop
        BY <2>store, <3>kind DEF RaiseStore
      <3> QED  BY <3>raising, <3>rest
    <2>signal. ASSUME NEW t \in Threads, RaiseSignal(t) PROVE PicTypes'
      BY <2>signal DEF RaiseSignal, RaiseStates
    <2>enable. ASSUME NEW data \in SUBSET Irqs, WriteEnable(data) PROVE PicTypes'
      BY <2>enable DEF WriteEnable, PicOps
    <2>ack. ASSUME NEW data \in Acks, AckLoad(data) PROVE PicTypes'
      BY <2>ack, PicAssumption DEF AckLoad, PicOps
    <2>acked. CASE AckStore
      <3>old. picop.old \subseteq Irqs
        BY <2>acked, PicOpKinds DEF AckStore
      <3> QED  BY <2>acked, <3>old DEF AckStore, PicOps
    <2>sound. CASE WriteSound
      BY <2>sound DEF WriteSound, PicOps
    <2>read. CASE RenewRead
      <3>bool. wanted \in BOOLEAN
        BY DEF wanted
      <3> QED  BY <2>read, <3>bool DEF RenewRead, PicOps
    <2>apply. CASE RenewApply
      BY <2>apply DEF RenewApply, PicOps
    <2>cancel. CASE \E i \in Level : Cancel(i)
      BY <2>cancel DEF Cancel
    <2>other. CASE UNCHANGED picVars
      BY <2>other DEF picVars
    <2> QED
      BY <2>begin, <2>store, <2>signal, <2>enable, <2>ack, <2>acked, <2>sound, <2>read, <2>apply,
         <2>cancel, <2>other
      DEF PicNext, CpuStep, GuestStep, HeartbeatStep, allVars
  <1> QED  BY <1>init, <1>step, PTL DEF PicSpec

(***************************************************************************)
(* The composition of pic.cc with the exception word is well typed.  The   *)
(* PIC's own part is inductive by itself; the part of the exceptions comes *)
(* from the theorem about them, as every behaviour of the PIC is one.      *)
(***************************************************************************)
THEOREM PicTypeCorrect == PicSpec => []PicTypeOK
  <1>both. PicTypes /\ TypeOK => PicTypeOK
    BY DEF PicTypes, PicTypeOK
  <1> QED  BY PicTypesInv, PicImplementsExceptions, TypeCorrect, <1>both, PTL

-----------------------------------------------------------------------------
\* interrupts that are wanted and that the guest has not been told of
Unserved == ((pending \cup level) \cap enable) \ served

\* one thread at a time is in pic_raise_interrupt, and the CPU thread is in one
\* function of the PIC at a time
OneRaiser ==
    /\ \A t \in Threads : raising[t] = Idle \/ mutex = {t}
    /\ picop # Idle => raising[CPU] = Idle

\* without a race, what the functions of the PIC have read is what is there
Snapshots ==
    /\ ~Overlap
    /\ picop.at = "apply" => (picop.raise <=> wanted)
    /\ \A t \in Threads :
          /\ raising[t].at = "read" => raising[t].mask = enable /\ raising[t].old = pending
          /\ raising[t].at = "stored" =>
                raising[t].irq \in pending /\ (raising[t].signal => raising[t].irq \in enable)

\* outside pic_write, the line is up only if something is wanted, and it is up, or
\* about to be pulled up, for whatever the guest does not know of
LineUp ==
    picop = Idle =>
        /\ "ext" \in flags => wanted
        /\ \A i \in Unserved : "ext" \in flags \/ \E t \in Threads :
              raising[t].at = "stored" /\ raising[t].signal /\ raising[t].irq = i

(***************************************************************************)
(* The inductive invariant.  NoStrandedInterrupt speaks of the states where*)
(* nobody is in pic.cc; to carry it over pic_raise_interrupt, the pull of  *)
(* the line that is still to come has to count as the line being up.       *)
(***************************************************************************)
LineInv == OneRaiser /\ (~raced => Snapshots /\ LineUp)

\* Without a race, nobody raises while pic_write is under way.
LEMMA NobodyRaises ==
  ASSUME PicTypes, LineInv, ~raced, picop # Idle
  PROVE  \A t \in Threads : raising[t] = Idle
  BY DEF LineInv, OneRaiser, Snapshots, Overlap, Threads

\* What a step does to the history: a race is never forgotten, and what the guest
\* knows of only shrinks where it is told anew.
LEMMA HistoryStep ==
  ASSUME LineNext
  PROVE  /\ ~raced' => ~raced /\ ~Overlap'
         /\ Unserved' \subseteq ((pending' \cup level') \cap enable') \ served
         /\ cpu = "takeExt" /\ cpu' = "guest" => Unserved' = {}
  BY DEF LineNext, Unserved

\* The steps that touch no register of the PIC.
LEMMA FlagStep ==
  ASSUME CpuStep \/ GuestStep \/ HeartbeatStep \/ (Terminated /\ UNCHANGED picVars)
  PROVE  /\ UNCHANGED picVars
         /\ "ext" \in flags' => "ext" \in flags
         /\ "ext" \in flags => "ext" \in flags' \/ (cpu = "takeExt" /\ cpu' = "guest")
  BY DEF CpuStep, GuestStep, HeartbeatStep, Terminated, vars, RaiseDec, Stop, StopFirstStore,
         StopSecondStore, Join, PowerDown, SetMsr, Doze, HeartbeatSignalled, EndDoze,
         HeartbeatStop, HeartbeatEE, HeartbeatExt, HeartbeatDec, TakeExt, TakeDec,
         raise_dec, raise_stop, take_ext, cancel_ext, cancel_dec

\* Every step keeps the invariant: one step of the proof for each action.
LEMMA LineKept ==
  ASSUME PicTypes, LineInv, LineNext
  PROVE  LineInv'
  <1>hist. /\ ~raced' => ~raced /\ ~Overlap'
           /\ Unserved' \subseteq ((pending' \cup level') \cap enable') \ served
           /\ cpu = "takeExt" /\ cpu' = "guest" => Unserved' = {}
    BY HistoryStep
  <1>kinds. \A t \in Threads : raising[t] \in RaiseStates /\ (raising[t] = Idle <=> raising[t].at = "idle")
    BY RaiseKinds DEF PicTypes
  <1>cpu. CPU \in Threads
    BY DEF Threads
  <1>begin. ASSUME NEW t \in Threads, NEW i \in Irqs, RaiseBegin(t, i) PROVE LineInv'
    <2> DEFINE new == [at |-> "read", irq |-> i, mask |-> enable, old |-> pending]
    <2>next. /\ mutex = {} /\ mutex' = {t} /\ raising[t] = Idle
             /\ t = CPU => picop = Idle
             /\ raising' = [raising EXCEPT ![t] = new]
             /\ UNCHANGED <<vars, enable, pending, level, picop>>
      BY <1>begin DEF RaiseBegin, InGuest
    <2>flags. flags' = flags
      BY <2>next DEF vars
    <2>others. \A u \in Threads : raising[u] = Idle
      BY <2>next DEF LineInv, OneRaiser
    <2>at. /\ raising'[t] = new /\ \A u \in Threads \ {t} : raising'[u] = Idle
           /\ new.at = "read" /\ new # Idle /\ new.mask = enable /\ new.old = pending
           /\ Idle.at = "idle"
      BY <2>next, <2>others DEF PicTypes, Idle
    <2> HIDE DEF new
    <2>one. OneRaiser'
      BY <2>next, <2>at, <1>cpu DEF OneRaiser
    <2>calm. ASSUME ~raced' PROVE Snapshots' /\ LineUp'
      <3>not. ~raced /\ ~Overlap'
        BY <1>hist, <2>calm
      <3>idle. picop = Idle
        <4> SUFFICES ASSUME picop # Idle PROVE FALSE
          OBVIOUS
        <4>dev. t \in Devices
          BY <2>next DEF Threads
        <4> QED  BY <4>dev, <3>not, <2>at, <2>next DEF Overlap
      <3>old. Snapshots /\ LineUp
        BY <3>not DEF LineInv
      <3>snap. Snapshots'
        BY <3>not, <3>idle, <2>at, <2>next DEF Snapshots, Idle
      <3>up. LineUp'
        <4>was. /\ "ext" \in flags => wanted
                /\ \A j \in Unserved : "ext" \in flags
          BY <3>old, <3>idle, <2>others, <2>at DEF LineUp
        <4>sub. Unserved' \subseteq Unserved
          BY <1>hist, <2>next DEF Unserved
        <4>want. wanted' = wanted
          BY <2>next DEF wanted
        <4> QED  BY <4>was, <4>sub, <4>want, <2>flags DEF LineUp
      <3> QED  BY <3>snap, <3>up
    <2> QED  BY <2>one, <2>calm DEF LineInv
  <1>store. ASSUME NEW t \in Threads, RaiseStore(t) PROVE LineInv'
    <2> DEFINE r == raising[t]
               i == r.irq
               new == [at |-> "stored", irq |-> i,
                       signal |-> i \in r.mask /\ (i \in Level \/ i \notin r.old)]
    <2>next. /\ r.at = "read" /\ mutex' = mutex /\ picop' = picop /\ enable' = enable /\ flags' = flags
             /\ raising' = [raising EXCEPT ![t] = new]
             /\ \E word \in {r.old, pending} : pending' = word \cup {i}
             /\ level' = level \cup ({i} \cap Level)
      BY <1>store DEF RaiseStore, vars
    <2>busy. r # Idle
      BY <2>next, <1>kinds
    <2>alone. mutex = {t} /\ \A u \in Threads \ {t} : raising[u] = Idle
      BY <2>busy DEF LineInv, OneRaiser
    <2>at. /\ raising'[t] = new /\ \A u \in Threads \ {t} : raising'[u] = Idle
           /\ new.at = "stored" /\ new # Idle /\ new.irq = i
           /\ new.signal <=> i \in r.mask /\ (i \in Level \/ i \notin r.old)
           /\ Idle.at = "idle"
      BY <2>next, <2>alone DEF PicTypes, Idle
    <2> HIDE DEF new, r, i
    <2>one. OneRaiser'
      BY <2>next, <2>at, <2>alone, <2>busy, <1>cpu DEF OneRaiser, LineInv, r
    <2>calm. ASSUME ~raced' PROVE Snapshots' /\ LineUp'
      <3>not. ~raced /\ ~Overlap'
        BY <1>hist, <2>calm
      <3>idle. picop = Idle
        BY <3>not, <2>busy, NobodyRaises DEF r
      <3>old. Snapshots /\ LineUp
        BY <3>not DEF LineInv
      <3>fresh. r.mask = enable /\ r.old = pending
        BY <3>old, <2>next DEF Snapshots, r
      <3>pend. pending' = pending \cup {i}
        BY <2>next, <3>fresh
      <3>snap. Snapshots'
        BY <3>not, <3>idle, <3>fresh, <3>pend, <2>at, <2>next DEF Snapshots, Idle
      <3>up. LineUp'
        <4>was. /\ "ext" \in flags => wanted
                /\ \A j \in Unserved : "ext" \in flags
          <5>nobody. \A u \in Threads : raising[u].at # "stored"
            BY <2>next, <2>alone, <2>at DEF r
          <5> QED  BY <5>nobody, <3>old, <3>idle DEF LineUp
        <4>want. wanted => wanted'
          BY <3>pend, <2>next DEF wanted
        <4>each. ASSUME NEW j \in Unserved'
                 PROVE  "ext" \in flags \/ (new.signal /\ j = i)
          <5>in. j \in ((pending \cup level \cup {i}) \cap enable) \ served
            BY <1>hist, <3>pend, <2>next
          <5>other. CASE j # i
            BY <5>in, <5>other, <4>was DEF Unserved
          <5>this. CASE j = i
            <6>known. i \in pending => "ext" \in flags
              BY <5>in, <5>this, <4>was DEF Unserved
            <6> QED  BY <6>known, <5>in, <5>this, <3>fresh, <2>at
          <5> QED  BY <5>other, <5>this
        <4> QED  BY <4>was, <4>want, <4>each, <2>at, <2>next DEF LineUp
      <3> QED  BY <3>snap, <3>up
    <2> QED  BY <2>one, <2>calm DEF LineInv
  <1>signal. ASSUME NEW t \in Threads, RaiseSignal(t) PROVE LineInv'
    <2> DEFINE r == raising[t]
    <2>next. /\ r.at = "stored" /\ mutex' = mutex \ {t} /\ picop' = picop
             /\ enable' = enable /\ pending' = pending /\ level' = level
             /\ raising' = [raising EXCEPT ![t] = Idle]
             /\ flags' = IF r.signal THEN raise_ext(flags) ELSE flags
      BY <1>signal DEF RaiseSignal
    <2>busy. r # Idle
      BY <2>next, <1>kinds
    <2>alone. mutex = {t} /\ \A u \in Threads \ {t} : raising[u] = Idle
      BY <2>busy DEF LineInv, OneRaiser
    <2>at. (\A u \in Threads : raising'[u] = Idle) /\ Idle.at = "idle"
      BY <2>next, <2>alone DEF PicTypes, Idle
    <2> HIDE DEF r
    <2>one. OneRaiser'
      BY <2>at, <1>cpu DEF OneRaiser
    <2>calm. ASSUME ~raced' PROVE Snapshots' /\ LineUp'
      <3>not. ~raced /\ ~Overlap'
        BY <1>hist, <2>calm
      <3>idle. picop = Idle
        BY <3>not, <2>busy, NobodyRaises DEF r
      <3>old. Snapshots /\ LineUp
        BY <3>not DEF LineInv
      <3>snap. Snapshots'
        BY <3>not, <3>idle, <2>at, <2>next DEF Snapshots
      <3>want. wanted' = wanted
        BY <2>next DEF wanted
      <3>sub. Unserved' \subseteq Unserved
        BY <1>hist, <2>next DEF Unserved
      <3>yes. CASE r.signal
        <4>set. "ext" \in flags'
          BY <3>yes, <2>next DEF raise_ext
        <4>in. r.irq \in pending /\ r.irq \in enable
          BY <3>yes, <3>old, <2>next DEF Snapshots, r
        <4>wants. wanted
          BY <4>in DEF wanted
        <4> QED  BY <4>set, <4>wants, <3>want, <3>snap DEF LineUp
      <3>no. CASE ~r.signal
        <4>flags. flags' = flags
          BY <3>no, <2>next
        <4>was. /\ "ext" \in flags => wanted
                /\ \A j \in Unserved : "ext" \in flags
          <5>nobody. \A u \in Threads : raising[u].at = "stored" => ~raising[u].signal
            BY <3>no, <2>alone, <2>at DEF r
          <5> QED  BY <5>nobody, <3>old, <3>idle DEF LineUp
        <4> QED  BY <4>flags, <4>was, <3>want, <3>sub, <3>snap DEF LineUp
      <3> QED  BY <3>yes, <3>no
    <2> QED  BY <2>one, <2>calm DEF LineInv
  <1>write. ASSUME raising' = raising, mutex' = mutex, picop' # Idle, picop'.at # "apply",
                   picop = Idle => raising[CPU] = Idle
            PROVE  LineInv'
    <2>cpu. raising[CPU] = Idle
      BY <1>write DEF LineInv, OneRaiser
    <2>one. OneRaiser'
      BY <2>cpu, <1>write DEF LineInv, OneRaiser
    <2>calm. ASSUME ~raced' PROVE Snapshots' /\ LineUp'
      <3>not. ~raced /\ ~Overlap'
        BY <1>hist, <2>calm
      <3>idle. \A t \in Threads : raising'[t] = Idle
        BY <3>not, <2>cpu, <1>write DEF Overlap, Threads
      <3> QED  BY <3>not, <3>idle, <1>write DEF Snapshots, LineUp, Idle
    <2> QED  BY <2>one, <2>calm DEF LineInv
  <1>enable. ASSUME NEW data, WriteEnable(data) \/ AckLoad(data) \/ WriteSound PROVE LineInv'
    <2>next. /\ raising' = raising /\ mutex' = mutex /\ raising[CPU] = Idle
             /\ picop' # Idle /\ picop'.at # "apply"
      BY <1>enable DEF WriteEnable, AckLoad, WriteSound, InGuest, Idle
    <2> QED  BY <2>next, <1>write
  <1>acked. CASE AckStore
    <2>next. /\ raising' = raising /\ mutex' = mutex /\ picop # Idle
             /\ picop' # Idle /\ picop'.at # "apply"
      BY <1>acked DEF AckStore, Idle
    <2> QED  BY <2>next, <1>write
  <1>read. CASE RenewRead
    <2>next. /\ UNCHANGED <<enable, pending, level, mutex, raising, flags>> /\ picop # Idle
             /\ picop' = [at |-> "apply", raise |-> wanted]
      BY <1>read DEF RenewRead, Idle, vars
    <2>busy. picop' # Idle /\ (picop'.raise <=> wanted)
      BY <2>next DEF Idle
    <2>one. OneRaiser'
      BY <2>next, <2>busy DEF LineInv, OneRaiser
    <2>calm. ASSUME ~raced' PROVE Snapshots' /\ LineUp'
      <3>not. ~raced /\ ~Overlap'
        BY <1>hist, <2>calm
      <3>idle. \A t \in Threads : raising[t] = Idle
        BY <3>not, <2>next, NobodyRaises
      <3>want. wanted' = wanted
        BY <2>next DEF wanted
      <3> QED  BY <3>not, <3>idle, <3>want, <2>busy, <2>next DEF Snapshots, LineUp, Idle
    <2> QED  BY <2>one, <2>calm DEF LineInv
  <1>settle. ASSUME ~raced => \A t \in Threads : raising[t] = Idle,
                    raising' = raising, mutex' = mutex, picop' = Idle,
                    ~raced => ("ext" \in flags' <=> wanted')
             PROVE  LineInv'
    <2>one. OneRaiser'
      BY <1>settle DEF LineInv, OneRaiser
    <2>calm. ASSUME ~raced' PROVE Snapshots' /\ LineUp'
      <3>not. ~raced /\ ~Overlap'
        BY <1>hist, <2>calm
      <3>idle. \A t \in Threads : raising'[t] = Idle
        BY <3>not, <1>settle
      <3>snap. Snapshots'
        BY <3>not, <3>idle, <1>settle DEF Snapshots, Idle
      <3>line. "ext" \in flags' <=> wanted'
        BY <3>not, <1>settle
      <3>sub. Unserved' # {} => wanted'
        BY DEF Unserved, wanted
      <3> QED  BY <3>snap, <3>line, <3>sub DEF LineUp
    <2> QED  BY <2>one, <2>calm DEF LineInv
  <1>apply. CASE RenewApply
    <2>next. /\ UNCHANGED <<enable, pending, level, mutex, raising>> /\ picop # Idle
             /\ picop.at = "apply" /\ picop' = Idle
             /\ flags' = IF picop.raise THEN raise_ext(flags) ELSE cancel_ext(flags)
      BY <1>apply DEF RenewApply, Idle
    <2>idle. ~raced => \A t \in Threads : raising[t] = Idle
      BY <2>next, NobodyRaises
    <2>want. wanted' = wanted
      BY <2>next DEF wanted
    <2>line. "ext" \in flags' <=> picop.raise
      BY <2>next DEF raise_ext, cancel_ext
    <2>fresh. ~raced => (picop.raise <=> wanted)
      BY <2>next DEF LineInv, Snapshots
    <2> QED  BY <2>idle, <2>want, <2>line, <2>fresh, <2>next, <1>settle
  <1>cancel. ASSUME NEW i, Cancel(i) PROVE LineInv'
    <2>next. /\ UNCHANGED <<enable, mutex, raising, picop>> /\ picop = Idle /\ mutex = {}
             /\ flags' = IF (pending' \cup level') \cap enable # {}
                         THEN raise_ext(flags) ELSE cancel_ext(flags)
      BY <1>cancel DEF Cancel, InGuest
    <2>idle. \A t \in Threads : raising[t] = Idle
      BY <2>next DEF LineInv, OneRaiser
    <2>line. "ext" \in flags' <=> wanted'
      BY <2>next DEF raise_ext, cancel_ext, wanted
    <2> QED  BY <2>idle, <2>line, <2>next, <1>settle
  <1>cpuside. CASE CpuStep \/ GuestStep \/ HeartbeatStep \/ (Terminated /\ UNCHANGED picVars)
    <2>next. /\ UNCHANGED <<enable, pending, level, mutex, raising, picop>>
             /\ "ext" \in flags' => "ext" \in flags
             /\ "ext" \in flags => "ext" \in flags' \/ (cpu = "takeExt" /\ cpu' = "guest")
      BY <1>cpuside, FlagStep DEF picVars
    <2>one. OneRaiser'
      BY <2>next DEF LineInv, OneRaiser
    <2>calm. ASSUME ~raced' PROVE Snapshots' /\ LineUp'
      <3>not. ~raced /\ ~Overlap'
        BY <1>hist, <2>calm
      <3>old. Snapshots /\ LineUp
        BY <3>not DEF LineInv
      <3>want. wanted' = wanted
        BY <2>next DEF wanted
      <3>snap. Snapshots'
        BY <3>not, <3>old, <3>want, <2>next DEF Snapshots
      <3>sub. Unserved' \subseteq Unserved
        BY <1>hist, <2>next DEF Unserved
      <3>take. CASE cpu = "takeExt" /\ cpu' = "guest"
        <4>none. Unserved' = {}
          BY <1>hist, <3>take
        <4> QED  BY <4>none, <3>snap, <3>old, <3>want, <2>next DEF LineUp
      <3>other. CASE ~(cpu = "takeExt" /\ cpu' = "guest")
        <4>same. "ext" \in flags' <=> "ext" \in flags
          BY <2>next, <3>other
        <4> QED  BY <4>same, <3>snap, <3>old, <3>want, <3>sub, <2>next DEF LineUp
      <3> QED  BY <3>take, <3>other
    <2> QED  BY <2>one, <2>calm DEF LineInv
  <1>next. PicNext
    BY DEF LineNext
  <1> QED
    BY <1>next, <1>begin, <1>store, <1>signal, <1>enable, <1>acked, <1>read, <1>apply, <1>cancel, <1>cpuside
    DEF PicNext

\* The invariant holds in every state of the line.
LEMMA LineInvariant == LineSpec => [](PicTypeOK /\ LineInv)
  <1>pic. LineSpec => PicSpec
    <2>init. LineInit => PicInit
      BY DEF LineInit
    <2>step. [LineNext]_lineVars => [PicNext]_allVars
      BY DEF LineNext, lineVars
    <2> QED  BY <2>init, <2>step, PTL DEF LineSpec, PicSpec
  <1>init. LineInit => LineInv
    <2> SUFFICES ASSUME LineInit PROVE LineInv
      OBVIOUS
    <2>idle. (\A t \in Threads : raising[t] = Idle) /\ picop = Idle /\ flags = {}
             /\ pending = {} /\ level = {}
      BY DEF LineInit, PicInit, Init
    <2> QED  BY <2>idle DEF LineInv, OneRaiser, Snapshots, LineUp, Overlap, Unserved, Idle
  <1>step. PicTypes /\ LineInv /\ [LineNext]_lineVars => LineInv'
    <2>move. PicTypes /\ LineInv /\ LineNext => LineInv'
      BY LineKept
    <2>stay. LineInv /\ UNCHANGED lineVars => LineInv'
      BY DEF lineVars, allVars, vars, picVars, LineInv, OneRaiser, Snapshots, LineUp, Overlap,
             Unserved, wanted
    <2> QED  BY <2>move, <2>stay
  <1> QED  BY <1>pic, <1>init, <1>step, PicTypesInv, PicTypeCorrect, PTL DEF LineSpec

(***************************************************************************)
(* As long as pic_write of the CPU thread and pic_raise_interrupt of a     *)
(* device thread never overlap, an interrupt that is pending and enabled,  *)
(* and that the guest was not told of, has the exception word's bit set    *)
(* whenever nobody is in pic.cc: for any set of interrupts and devices.    *)
(***************************************************************************)
THEOREM NothingStranded == LineSpec => []NoStrandedInterrupt
  <1>inv. PicTypeOK /\ LineInv => NoStrandedInterrupt
    <2> SUFFICES ASSUME PicTypeOK, LineInv, ~raced, Quiescent,
                        NEW i \in ((pending \cup level) \cap enable) \ served
                 PROVE  "ext" \in flags
      BY DEF NoStrandedInterrupt
    <2>idle. picop = Idle /\ \A t \in Threads : raising[t].at # "stored"
      BY DEF Quiescent, Idle
    <2> QED  BY <2>idle DEF LineInv, LineUp, Unserved
  <1> QED  BY LineInvariant, <1>inv, PTL

(***************************************************************************)
(* Under the same condition the bit is only set while some interrupt is    *)
(* pending and enabled: pic_renew_interrupts and pic_cancel_interrupt take *)
(* the line down with the last one.                                        *)
(***************************************************************************)
THEOREM NothingSpurious == LineSpec => []NoSpuriousInterrupt
  <1>inv. LineInv => NoSpuriousInterrupt
    BY DEF LineInv, LineUp, NoSpuriousInterrupt, Quiescent
  <1> QED  BY LineInvariant, <1>inv, PTL

-----------------------------------------------------------------------------
(* The decrementer                                                         *)

(***************************************************************************)
(* The interval writeDEC asks for is one the host timer takes: at most     *)
(* 20 ms, and the whole value if that is no more.                          *)
(***************************************************************************)
LEMMA IntervalBounds ==
    ASSUME NEW v \in Registers
    PROVE  /\ interval(v) \in 0 .. Limit
           /\ v <= Limit => interval(v) = v
BY DecAssumption DEF interval, Registers

(***************************************************************************)
(* What readDEC computes fits the register, however long ago the write     *)
(* was: the difference is taken modulo 2^32.                               *)
(***************************************************************************)
LEMMA RegisterType ==
    ASSUME NEW v \in Registers, NEW itb \in Nat, now \in Nat
    PROVE  register(v, itb) \in Registers
<1>1. 2 * Half \in Nat \ {0}
  BY DecAssumption
<1>2. v - (now - itb) \in Int
  BY DecAssumption DEF Registers
<1>3. QED
  BY <1>1, <1>2 DEF register, Registers

(***************************************************************************)
(* The variables keep their types; the register stays within 32 bits.      *)
(***************************************************************************)
THEOREM DecTypeCorrect == DecSpec => []DecTypeOK
<1>start. DecInit => DecTypeOK
  <2>a. {0} \subseteq Registers \cap (0 .. MaxTime)
    BY DecAssumption DEF Registers
  <2>b. QED
    BY <2>a, Zenon DEF DecInit, DecTypeOK
<1>step. ASSUME DecTypeOK, [DecNext]_decVars
         PROVE  DecTypeOK'
  <2> USE DecAssumption, <1>step DEF DecTypeOK, NoTimer
  <2>tick. CASE Tick
    BY <2>tick DEF Tick
  <2>fire. CASE Fire
    BY <2>fire DEF Fire
  <2>same. CASE UNCHANGED decVars
    BY <2>same DEF decVars
  <2>read. CASE readDEC
    <3>a. writeITB' \in 0 .. MaxTime
      BY <2>read DEF readDEC
    <3>b. register(writeValue, writeITB') \in Registers
      BY <3>a, RegisterType
    <3>c. QED
      BY <2>read, <3>a, <3>b DEF readDEC
  <2>write. ASSUME NEW v \in Writes, writeDEC(v)
            PROVE  DecTypeOK'
    <3>a. v \in Registers
      BY DEF Registers
    <3>b. now + interval(v) \in Nat
      BY <3>a, IntervalBounds
    <3>c. QED
      BY <2>write, <3>a, <3>b DEF writeDEC
  <2>all. QED
    BY <2>tick, <2>fire, <2>same, <2>read, <2>write DEF DecNext
<1>end. QED
  BY <1>start, <1>step, PTL DEF DecSpec

-----------------------------------------------------------------------------
(***************************************************************************)
(* Neither property is inductive: the timer has to be related to the last  *)
(* write.  Until an exception has been raised for the last write the timer *)
(* is the one that write set; after that it may be an older one, which no  *)
(* longer matters.                                                         *)
(***************************************************************************)
TimerInv ==
    /\ timer # NoTimer => now <= timer
    /\ written # NoTimer => written <= now
    /\ written = NoTimer => timer = NoTimer
    /\ written # NoTimer /\ ~raised => timer = written + interval(writeValue)
    /\ NotEarly

LEMMA TimerInvariant == DecSpec => []TimerInv
<1>start. DecInit => TimerInv
  BY DEF DecInit, TimerInv, NotEarly, NoTimer
<1>step. ASSUME DecTypeOK, TimerInv, [DecNext]_decVars
         PROVE  TimerInv'
  <2> USE DecAssumption, <1>step DEF DecTypeOK, TimerInv, NotEarly, NoTimer
  <2>idle. CASE readDEC \/ UNCHANGED decVars
    BY <2>idle DEF readDEC, decVars
  <2>tick. CASE Tick
    BY <2>tick DEF Tick, Registers
  <2>fire. CASE Fire
    <3>a. writeValue <= Limit => interval(writeValue) = writeValue
      BY IntervalBounds
    <3>b. QED
      BY <2>fire, <3>a DEF Fire, Registers
  <2>write. ASSUME NEW v \in Writes, writeDEC(v)
            PROVE  TimerInv'
    <3>v. v \in Registers /\ interval(v) \in 0 .. Limit
      BY IntervalBounds DEF Registers
    <3>now. CASE (~Negative(dec) /\ Negative(v)) \/ v = 0
      <4>a. raised' /\ timer' = timer
        BY <2>write, <3>now, Zenon DEF writeDEC
      <4>b. v = 0 \/ ~(v \in 0 .. Limit)
        BY <3>v, <3>now DEF Negative, Registers
      <4>c. QED
        BY <2>write, <3>v, <4>a, <4>b DEF writeDEC
    <3>later. CASE ~((~Negative(dec) /\ Negative(v)) \/ v = 0)
      <4>a. ~raised' /\ timer' = now + interval(v)
        BY <2>write, <3>later, Zenon DEF writeDEC
      <4>b. interval(writeValue)' = interval(v)
        BY <2>write DEF writeDEC, interval
      <4>c. QED
        BY <2>write, <3>v, <4>a, <4>b DEF writeDEC
    <3> QED
      BY <3>now, <3>later
  <2>all. QED
    BY <2>idle, <2>tick, <2>fire, <2>write DEF DecNext
<1>end. QED
  BY <1>start, <1>step, DecTypeCorrect, PTL DEF DecSpec

(***************************************************************************)
(* No exception is early for a value of at most 20 ms: a timer left from   *)
(* an earlier write does not cut the interval short.                       *)
(***************************************************************************)
THEOREM NeverEarly == DecSpec => []NotEarly
<1>1. TimerInv => NotEarly
  BY DEF TimerInv
<1>2. QED
  BY <1>1, TimerInvariant, PTL

(***************************************************************************)
(* Until an exception has been raised after a write, the timer is set and  *)
(* at most 20 ms have passed since the write.                              *)
(***************************************************************************)
THEOREM AlwaysInTime == DecSpec => []RaisedInTime
<1>1. DecTypeOK /\ TimerInv => RaisedInTime
  <2> SUFFICES ASSUME DecTypeOK, TimerInv, written # NoTimer, ~raised
               PROVE  timer # NoTimer /\ now <= written + Limit
    BY DEF RaisedInTime
  <2>1. interval(writeValue) \in 0 .. Limit
    BY IntervalBounds DEF DecTypeOK
  <2>2. QED
    BY <2>1, DecAssumption DEF DecTypeOK, TimerInv, NoTimer
<1>2. QED
  BY <1>1, DecTypeCorrect, TimerInvariant, PTL

-----------------------------------------------------------------------------
(***************************************************************************)
(* Division with remainder: the remainder is unique ...                    *)
(***************************************************************************)
LEMMA UniqueRemainder ==
    ASSUME NEW m \in Nat \ {0}, NEW q \in Int, NEW p \in Int,
           NEW r \in 0 .. (m - 1), NEW s \in 0 .. (m - 1),
           m * q + r = m * p + s
    PROVE  r = s
<1>grow. ASSUME NEW d \in Int, d >= 1 PROVE m * d >= m
  BY <1>grow
<1>sub. m * (q - p) = s - r /\ m * (p - q) = r - s
  OBVIOUS
<1>a. CASE q - p >= 1
  BY <1>a, <1>sub, <1>grow, q - p \in Int
<1>b. CASE p - q >= 1
  BY <1>b, <1>sub, <1>grow, p - q \in Int
<1>c. CASE p = q
  BY <1>c
<1> QED
  BY <1>a, <1>b, <1>c

(***************************************************************************)
(* ... so the register falls, modulo m, by no more than is subtracted.     *)
(***************************************************************************)
LEMMA ModFall ==
    ASSUME NEW x \in Int, NEW d \in Nat, NEW m \in Nat \ {0}
    PROVE  ((x % m) - ((x - d) % m)) % m <= d
<1> DEFINE r == x % m
           s == (x - d) % m
           q == x \div m
           p == (x - d) \div m
<1>div. /\ r \in 0 .. (m - 1) /\ s \in 0 .. (m - 1) /\ q \in Int /\ p \in Int
        /\ x = m * q + r /\ x - d = m * p + s
  OBVIOUS
<1> HIDE DEF r, s, q, p
<1>big. CASE d >= m
  <2>a. (r - s) % m \in 0 .. (m - 1)
    BY <1>div
  <2>b. QED
    BY <2>a, <1>big DEF r, s
<1>down. CASE d < m /\ r >= d
  <2>a. m * q + (r - d) = m * p + s /\ r - d \in 0 .. (m - 1)
    BY <1>div, <1>down
  <2>b. r - d = s
    BY <2>a, <1>div, UniqueRemainder
  <2>c. QED
    BY <2>b, <1>div, <1>down DEF r, s
<1>wrap. CASE d < m /\ r < d
  <2>a. m * (q - 1) + (r - d + m) = m * p + s /\ r - d + m \in 0 .. (m - 1)
    BY <1>div, <1>wrap
  <2>b. r - d + m = s
    BY <2>a, <1>div, q - 1 \in Int, UniqueRemainder
  <2>c. r - s = d - m /\ d - m \in Int
    BY <2>b, <1>div
  <2>d. d - m = m * (-1) + d /\ d \in 0 .. (m - 1)
    BY <1>wrap
  <2>e. d - m = m * ((d - m) \div m) + ((d - m) % m)
        /\ (d - m) % m \in 0 .. (m - 1) /\ (d - m) \div m \in Int
    OBVIOUS
  <2>f. (d - m) % m = d
    BY <2>d, <2>e, -1 \in Int, UniqueRemainder
  <2>g. QED
    BY <2>c, <2>f DEF r, s
<1> QED
  BY <1>div, <1>big, <1>down, <1>wrap

(***************************************************************************)
(* What the cached register is worth: the last read left in it the value   *)
(* of that time, and before the first read it is the value written.        *)
(***************************************************************************)
CacheInv ==
    /\ accessed <= now
    /\ initialized => dec = (writeValue - (accessed - writeITB)) % (2 * Half)
    /\ ~initialized => dec = writeValue

LEMMA CacheInvariant == DecSpec => []CacheInv
<1>start. DecInit => CacheInv
  BY DEF DecInit, CacheInv
<1>step. ASSUME DecTypeOK, CacheInv, [DecNext]_decVars
         PROVE  CacheInv'
  <2> USE DecAssumption, <1>step DEF DecTypeOK, CacheInv
  <2>time. CASE Tick \/ Fire \/ UNCHANGED decVars
    BY <2>time DEF Tick, Fire, decVars
  <2>read. CASE readDEC
    BY <2>read DEF readDEC, register
  <2>write. ASSUME NEW v \in Writes, writeDEC(v)
            PROVE  CacheInv'
    <3>a. v % (2 * Half) = v
      OBVIOUS
    <3>b. QED
      BY <2>write, <3>a DEF writeDEC
  <2>all. QED
    BY <2>time, <2>read, <2>write DEF DecNext
<1>end. QED
  BY <1>start, <1>step, DecTypeCorrect, PTL DEF DecSpec

(***************************************************************************)
(* A read never shows the register running backward or faster than time,   *)
(* whatever was written and however often it was read before.              *)
(***************************************************************************)
THEOREM RegisterTracksTime == DecSpec => ReadsTrackTime
<1>read. ASSUME DecTypeOK, CacheInv, readDEC
         PROVE  (dec - dec') % (2 * Half) <= now - accessed
  <2> USE DecAssumption, <1>read DEF DecTypeOK, CacheInv, Registers
  <2>first. CASE ~initialized
    <3>a. dec' = writeValue % (2 * Half) /\ dec = writeValue
      BY <2>first DEF readDEC, register
    <3>b. QED
      BY <3>a
  <2>later. CASE initialized
    <3>a. dec' = (writeValue - (now - writeITB)) % (2 * Half)
      BY <2>later DEF readDEC, register
    <3> DEFINE x == writeValue - (accessed - writeITB)
    <3>b. x \in Int /\ now - accessed \in Nat /\ 2 * Half \in Nat \ {0}
      OBVIOUS
    <3>c. dec = x % (2 * Half) /\ dec' = (x - (now - accessed)) % (2 * Half)
      BY <2>later, <3>a
    <3> HIDE DEF x
    <3>d. QED
      BY <3>b, <3>c, ModFall
  <2> QED
    BY <2>first, <2>later
<1>end. QED
  BY <1>read, DecTypeCorrect, CacheInvariant, PTL DEF ReadsTrackTime, DecSpec
=============================================================================
