-------------------------------- MODULE Cuda --------------------------------
(***************************************************************************)
(* The shift register of the VIA and the CUDA microcontroller behind it    *)
(* (io/cuda/cuda.cc): cuda_write and cuda_read on the registers that drive *)
(* a transfer, the packets cuda_send_packet puts into the one data buffer, *)
(* and the thread that turns keyboard and mouse events into packets.       *)
(* Every register access and every attempt of the event thread holds       *)
(* gCUDAMutex and is one step.                                             *)
(*                                                                         *)
(* A byte is the packet it belongs to and its index there.  Bits of        *)
(* register B are active low, as in the code: TRUE is a set bit.           *)
(***************************************************************************)
EXTENDS Integers, Sequences

CONSTANTS
    Commands,       \* the commands the guest sends, of those CUDA answers
    ReplyLen,       \* [Commands -> Nat]: bytes of the reply, of which there are two at least
    EventLen,       \* bytes of an event packet: 5 in doProcessCudaEvent
    Overflow,       \* a command has at most this many bytes: 10
    BufSize,        \* bytes of gCUDA.data: 100
    MaxEvents       \* bound: events the user causes

ASSUME CudaAssumption ==
    /\ ReplyLen \in [Commands -> 2 .. BufSize - 1]
    /\ EventLen \in Nat \ {0, 1} /\ Overflow \in Nat \ {0} /\ MaxEvents \in Nat
    /\ BufSize \in Nat /\ Overflow < BufSize /\ EventLen < BufSize

VARIABLES
    rB,             \* [treq, tack, tip |-> BOOLEAN]
    rSR,            \* the byte the guest shifts out
    srOut,          \* ACR & SR_OUT
    srInt,          \* IFR & SR_INT
    state,          \* gCUDA.state
    left, pos,      \* gCUDA.left, gCUDA.pos
    data,           \* gCUDA.data
    irq,            \* IO_PIC_IRQ_CUDA is pending in the PIC
    posted,         \* events the user has caused
    queue,          \* gCUDAEvents
    loop,           \* cudaEventLoop: before the first wait, waiting, processing
    trying          \* the event tryProcessCudaEvent works on, or 0

chipVars == <<rB, rSR, srOut, srInt, state, left, pos, data, irq>>
eventVars == <<posted, queue, loop, trying>>

Command(c) == [kind |-> "command", n |-> c]
Reply(c) == [kind |-> "reply", n |-> c]
Event(n) == [kind |-> "event", n |-> n]
Packets == {Command(c) : c \in Commands} \cup {Reply(c) : c \in Commands}
           \cup {Event(n) : n \in 1 .. MaxEvents}
Bytes == (Packets \X (0 .. BufSize)) \cup {<<>>}

Length(p) == IF p.kind = "event" THEN EventLen ELSE ReplyLen[p.n]

CudaTypeOK ==
    /\ rB \in [treq : BOOLEAN, tack : BOOLEAN, tip : BOOLEAN]
    /\ rSR \in Bytes
    /\ srOut \in BOOLEAN /\ srInt \in BOOLEAN /\ irq \in BOOLEAN
    /\ state \in {"idle", "writing", "reading"}
    /\ left \in Nat /\ pos \in Nat
    /\ data \in [0 .. BufSize - 1 -> Bytes]
    /\ posted \in 0 .. MaxEvents
    /\ queue \in Seq(1 .. MaxEvents)
    /\ loop \in {"starting", "waiting", "processing"}
    /\ trying \in 0 .. MaxEvents

-----------------------------------------------------------------------------
\* faulty variant: the packet is not announced
MutSendPacket(p, b) ==
    /\ data' = [i \in DOMAIN data |-> IF i < Length(p) THEN <<p, i>> ELSE data[i]]
    /\ pos' = 0
    /\ left' = Length(p)
    /\ srInt' = FALSE
    /\ rB' = [b EXCEPT !.treq = FALSE, !.tip = TRUE]
    /\ irq' = TRUE

\* cuda_send_packet: whatever the buffer holds is replaced
cuda_send_packet(p, b) ==
    /\ data' = [i \in DOMAIN data |-> IF i < Length(p) THEN <<p, i>> ELSE data[i]]
    /\ pos' = 0
    /\ left' = Length(p)
    /\ srInt' = TRUE
    /\ rB' = [b EXCEPT !.treq = FALSE, !.tip = TRUE]
    /\ irq' = TRUE

\* an edge of TACK; in the idle state it also moves TREQ
ack(d) == rB.tack # d.tack
acked(d) == IF ack(d) /\ state = "idle" THEN d.tack /\ d.tip ELSE d.treq

\* faulty variant: the end of a transfer does not set SR_INT
MutTransferEnd(d) ==
    /\ ~rB.tip /\ d.tip
    /\ LET high == [d EXCEPT !.treq = TRUE] IN
         \/ state = "reading" /\ cuda_send_packet(Reply(data[1][1].n), high)
         \/ /\ state # "reading"
            /\ rB' = high
            /\ left' = 0 /\ pos' = 0
            /\ UNCHANGED <<srInt, irq, data>>
    /\ state' = "idle"
    /\ UNCHANGED <<rSR, srOut>>

\* TIP rises: the transfer is over, and a command is answered at once.
TransferEnd(d) ==
    /\ ~rB.tip /\ d.tip
    /\ LET high == [d EXCEPT !.treq = TRUE]
           told == srInt \/ ack(d) IN
         \/ /\ state = "reading"
            /\ cuda_send_packet(Reply(data[1][1].n), high)
         \/ /\ state # "reading"
            /\ rB' = high
            /\ srInt' = TRUE
            /\ irq' = (irq \/ told)
            /\ left' = IF state = "writing" THEN 0 ELSE left
            /\ pos' = IF state = "writing" THEN 0 ELSE pos
            /\ UNCHANGED data
    /\ state' = "idle"
    /\ UNCHANGED <<rSR, srOut>>

\* TIP falls: the guest starts to send, or to read what is waiting.
TransferStart(d) ==
    /\ rB.tip /\ ~d.tip
    /\ srInt' = TRUE
    /\ irq' = TRUE
    /\ rB' = [d EXCEPT !.treq = srOut]
    /\ IF srOut
       THEN /\ state' = "reading"
            /\ pos' = 1
            /\ data' = [data EXCEPT ![0] = rSR]
       ELSE /\ state' = IF left # 0 THEN "writing" ELSE state
            /\ UNCHANGED <<pos, data>>
    /\ UNCHANGED <<rSR, srOut, left>>

\* TIP stays: an edge of TACK shifts one byte.
TransferByte(d) ==
    /\ rB.tip = d.tip
    /\ IF state = "reading" /\ ack(d) /\ srOut
       THEN /\ data' = [data EXCEPT ![pos] = rSR]
            /\ pos' = IF pos + 1 > Overflow THEN 0 ELSE pos + 1
       ELSE UNCHANGED <<data, pos>>
    /\ srInt' = (srInt \/ ack(d))
    /\ irq' = (irq \/ srInt')
    /\ rB' = [d EXCEPT !.treq = acked(d) \/ (state = "writing" /\ ack(d) /\ left <= 1)]
    /\ UNCHANGED <<rSR, srOut, state, left>>

cuda_write_B(d) == TransferEnd(d) \/ TransferStart(d) \/ TransferByte(d)

\* the byte a read of the shift register returns
shifted == IF state = "writing" /\ left # 0 THEN data[pos] ELSE rSR

cuda_read_SR ==
    /\ srInt' = FALSE
    /\ IF state = "writing" /\ left # 0
       THEN pos' = pos + 1 /\ left' = left - 1
       ELSE UNCHANGED <<pos, left>>
    /\ rB' = CASE state = "writing" -> IF left <= 1 THEN [rB EXCEPT !.treq = TRUE, !.tip = FALSE]
                                       ELSE rB
               [] state = "reading" -> [rB EXCEPT !.treq = FALSE]
               [] OTHER -> [rB EXCEPT !.treq = TRUE]
    /\ UNCHANGED <<rSR, state, data, irq>>

cuda_write_SR(b) ==
    /\ rSR' = b
    /\ UNCHANGED <<rB, srInt, state, left, pos, data, irq>>

-----------------------------------------------------------------------------
\* faulty variant: a stack
MutEventHandler ==
    /\ posted < MaxEvents
    /\ loop # "processing"
    /\ posted' = posted + 1
    /\ queue' = <<posted'>> \o queue
    /\ loop' = IF loop = "waiting" THEN "processing" ELSE loop
    /\ UNCHANGED <<trying, chipVars>>

\* cudaEventHandler, in the thread of the user interface: the event loop
\* holds the lock unless it waits, and a signal before its first wait is lost.
cudaEventHandler ==
    /\ posted < MaxEvents
    /\ loop # "processing"
    /\ posted' = posted + 1
    /\ queue' = Append(queue, posted')
    /\ loop' = IF loop = "waiting" THEN "processing" ELSE loop
    /\ UNCHANGED <<trying, chipVars>>

LoopStart ==
    /\ loop = "starting"
    /\ loop' = "waiting"
    /\ UNCHANGED <<posted, queue, trying, chipVars>>

\* the inner loop of cudaEventLoop
deQueue ==
    /\ loop = "processing" /\ trying = 0
    /\ IF queue = <<>>
       THEN loop' = "waiting" /\ UNCHANGED <<queue, trying>>
       ELSE trying' = Head(queue) /\ queue' = Tail(queue) /\ UNCHANGED loop
    /\ UNCHANGED <<posted, chipVars>>

\* faulty variant: the packet that is waiting is not looked at
MutTry ==
    /\ trying # 0
    /\ state # "reading"
    /\ cuda_send_packet(Event(trying), rB)
    /\ trying' = 0
    /\ UNCHANGED <<rSR, srOut, state, posted, queue, loop>>

tryProcessCudaEvent ==
    /\ trying # 0
    /\ state = "idle" /\ left = 0
    /\ cuda_send_packet(Event(trying), rB)
    /\ trying' = 0
    /\ UNCHANGED <<rSR, srOut, state, posted, queue, loop>>

\* faulty variant: no time-out while a packet waits to be fetched
MutTimeOut ==
    /\ trying # 0 /\ state # "idle"
    /\ trying' = 0
    /\ UNCHANGED <<posted, queue, loop, chipVars>>

\* 200 ms have passed: the event is dropped
TimeOut ==
    /\ trying # 0
    /\ trying' = 0
    /\ UNCHANGED <<posted, queue, loop, chipVars>>

EventThread == deQueue \/ tryProcessCudaEvent \/ TimeOut

\* the guest's driver has set the controller up: TACK, TIP and TREQ high
CudaInit ==
    /\ rB = [treq |-> TRUE, tack |-> TRUE, tip |-> TRUE]
    /\ rSR = <<>>
    /\ srOut = FALSE /\ srInt = FALSE /\ irq = FALSE
    /\ state = "idle"
    /\ left = 0 /\ pos = 0
    /\ data = [i \in 0 .. BufSize - 1 |-> <<>>]
    /\ posted = 0 /\ queue = <<>>
    /\ loop = "starting" /\ trying = 0
=============================================================================
