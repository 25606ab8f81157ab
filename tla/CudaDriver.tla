----------------------------- MODULE CudaDriver -----------------------------
(***************************************************************************)
(* Cuda with the guest that drives it: an interrupt-driven driver that     *)
(* sends commands, reads the replies and the unsolicited event packets,    *)
(* and polls while one of its commands is pending.  The driver is not in   *)
(* this repository; it is modelled by the handshake that cuda_write and    *)
(* cuda_read implement.  It runs with interrupts off, but the event thread *)
(* may act between any two of its register accesses.                       *)
(***************************************************************************)
EXTENDS Cuda

CONSTANT
    CommandLen,     \* [Commands -> Nat]: bytes of a command
    NoCommand       \* no command is pending

ASSUME DriverAssumption ==
    /\ CommandLen \in [Commands -> 2 .. Overflow]
    /\ NoCommand \notin Commands

VARIABLES
    drv,            \* the driver's state
    at,             \* the register access it makes next, "out" between two runs
    status,         \* register B when the handler was entered
    seen,           \* register B as it was last read, to be written back
    req,            \* the command to be sent or answered
    done,           \* the commands completed
    index,          \* the next byte of the command
    buf,            \* the packet read so far
    reply,          \* it is the reply to req
    events,         \* history: the events received
    raced           \* history: an event came between two accesses of a handler

driverVars == <<drv, at, status, seen, req, done, index, buf, reply, events, raced>>
vars == <<chipVars, eventVars, driverVars>>

DriverTypeOK ==
    /\ CudaTypeOK
    /\ drv \in {"idle", "first", "sending", "awaiting", "reading", "read_done"}
    /\ at \in {"out", "shift", "readB", "writeB", "start", "load", "startB", "tipB"}
    /\ status \in [treq : BOOLEAN, tack : BOOLEAN, tip : BOOLEAN]
    /\ seen \in [treq : BOOLEAN, tack : BOOLEAN, tip : BOOLEAN]
    /\ req \in Commands \cup {NoCommand}
    /\ done \subseteq Commands
    /\ index \in Nat
    /\ buf \in Seq(Bytes)
    /\ reply \in BOOLEAN
    /\ events \in Seq(1 .. MaxEvents)
    /\ raced \in BOOLEAN

-----------------------------------------------------------------------------
\* a process asks for a command: it starts at once if the driver is idle
Request(c) ==
    /\ req = NoCommand /\ c \notin done /\ at = "out"
    /\ req' = c
    /\ at' = IF drv = "idle" THEN "start" ELSE "out"
    /\ UNCHANGED <<chipVars, drv, status, seen, done, index, buf, reply, events>>

\* starting a command: it has to wait if TREQ shows that a packet is coming
Start ==
    /\ at = "start"
    /\ at' = IF req # NoCommand /\ rB.treq THEN "load" ELSE "out"
    /\ UNCHANGED <<chipVars, drv, status, seen, req, done, index, buf, reply, events>>

Load ==
    /\ at = "load"
    /\ srOut' = TRUE
    /\ cuda_write_SR(<<Command(req), 0>>)
    /\ at' = "startB"
    /\ UNCHANGED <<drv, status, seen, req, done, index, buf, reply, events>>

ReadB ==
    /\ at \in {"startB", "readB"}
    /\ seen' = rB
    /\ at' = IF at = "startB" THEN "tipB" ELSE "writeB"
    /\ UNCHANGED <<chipVars, drv, status, req, done, index, buf, reply, events>>

Tip ==
    /\ at = "tipB"
    /\ cuda_write_B([seen EXCEPT !.tip = FALSE])
    /\ drv' = "first"
    /\ index' = 1
    /\ at' = "out"
    /\ UNCHANGED <<status, seen, req, done, buf, reply, events>>

\* the handler runs for an interrupt, or from the poll of a pending command;
\* it looks at SR_INT and at register B first
Enter ==
    /\ at = "out"
    /\ irq \/ (req # NoCommand /\ srInt)
    /\ irq' = FALSE
    /\ status' = rB
    /\ at' = IF srInt THEN "shift" ELSE "out"
    /\ UNCHANGED <<rB, rSR, srOut, srInt, state, left, pos, data, drv, seen, req, done,
                   index, buf, reply, events>>

More == index < CommandLen[req]

\* a packet has been read to its end, and no other is coming
Finished == drv = "read_done" /\ (status.treq \/ ~status.tip)

\* the handler's access to the shift register
Shift ==
    /\ at = "shift"
    /\ IF drv \in {"first", "sending"} /\ More
       THEN cuda_write_SR(<<Command(req), index>>) /\ UNCHANGED srOut
       ELSE cuda_read_SR /\ srOut' = (srOut /\ drv # "sending")
    /\ buf' = CASE drv = "reading" -> Append(buf, shifted)
                [] drv = "read_done" -> <<>>
                [] OTHER -> buf
    /\ LET own == drv = "read_done" /\ reply IN
         /\ done' = IF own THEN done \cup {req} ELSE done
         /\ req' = IF own THEN NoCommand ELSE req
    /\ events' = IF drv = "read_done" /\ ~reply THEN Append(events, buf[1][1].n) ELSE events
    /\ drv' = IF Finished THEN "idle" ELSE drv
    /\ at' = IF Finished THEN "start" ELSE "readB"
    /\ UNCHANGED <<status, seen, index, reply>>

Pulse == cuda_write_B([seen EXCEPT !.tack = ~@])
Release == cuda_write_B([seen EXCEPT !.tack = TRUE, !.tip = TRUE])

\* and its write to register B
Write ==
    /\ at = "writeB"
    /\ at' = "out"
    /\ \/ /\ drv \in {"idle", "awaiting", "read_done"}
          /\ cuda_write_B([seen EXCEPT !.tip = FALSE])
          /\ drv' = "reading" /\ buf' = <<>> /\ reply' = (drv = "awaiting")
          /\ UNCHANGED index
       \/ /\ drv \in {"first", "sending"} /\ More
          /\ Pulse
          /\ drv' = "sending" /\ index' = index + 1
          /\ UNCHANGED <<buf, reply>>
       \/ /\ drv = "sending" /\ ~More
          /\ Release
          /\ drv' = "awaiting"
          /\ UNCHANGED <<index, buf, reply>>
       \/ /\ drv = "reading"
          /\ IF status.treq THEN Release /\ drv' = "read_done"
                            ELSE Pulse /\ drv' = "reading"
          /\ UNCHANGED <<index, buf, reply>>
    /\ UNCHANGED <<status, seen, req, done, events>>

Driver == Start \/ Load \/ ReadB \/ Tip \/ Enter \/ Shift \/ Write

Init ==
    /\ CudaInit
    /\ drv = "idle" /\ at = "out"
    /\ status = rB /\ seen = rB
    /\ req = NoCommand /\ done = {}
    /\ index = 0 /\ buf = <<>> /\ reply = FALSE
    /\ events = <<>> /\ raced = FALSE

\* the thread of the CPU
Guest(A) == A /\ UNCHANGED <<eventVars, raced>>

\* the other threads
Host(A) ==
    /\ A
    /\ raced' = (raced \/ (at = "shift" /\ left # left'))
    /\ UNCHANGED <<drv, at, status, seen, req, done, index, buf, reply, events>>

Next ==
    \/ Guest(\E c \in Commands : Request(c))
    \/ Guest(Driver)
    \/ Host(cudaEventHandler)
    \/ Host(LoopStart)
    \/ Host(EventThread)

\* The CPU runs the driver, and the event thread is scheduled.
Spec == Init /\ [][Next]_vars /\ WF_vars(Guest(Driver)) /\ WF_vars(Host(EventThread))

-----------------------------------------------------------------------------
(***************************************************************************)
(* What the driver has read when it takes a packet for complete is one     *)
(* whole packet, byte for byte: a reply to the very command it sent, or an *)
(* event.  The event thread and the guest share one buffer.                *)
(***************************************************************************)
WholePackets ==
    /\ DriverTypeOK
    /\ drv = "read_done" /\ at \in {"out", "shift"} =>
         /\ buf # <<>>
         /\ LET p == buf[1][1] IN
              /\ buf = [i \in 1 .. Length(p) |-> <<p, i - 1>>]
              /\ IF reply THEN p = Reply(req) ELSE p.kind = "event"

\* the event in the driver's buffer, and the one waiting in the chip's
inDriver == IF buf # <<>> /\ buf[1][1].kind = "event" THEN {buf[1][1].n} ELSE {}
inChip == IF left # 0 /\ state # "reading" /\ data[pos][1].kind = "event"
          THEN {data[pos][1].n} ELSE {}
inQueue == {queue[i] : i \in 1 .. Len(queue)} \cup ({trying} \ {0})

Channel == INSTANCE EventChannel WITH
    transit <- inQueue \cup inChip \cup inDriver,
    received <- events

(***************************************************************************)
(* The queue, the event thread, the controller's buffer and the driver     *)
(* together implement the channel of EventChannel: events are dropped by   *)
(* the time-out and overwritten by a command the guest starts, but never   *)
(* reordered, delivered twice or made up.                                  *)
(***************************************************************************)
ImplementsChannel == Channel!Spec

(***************************************************************************)
(* Between two runs of the driver, whenever it has something to do SR_INT  *)
(* tells it so: there is a packet to be fetched, or a transfer is under    *)
(* way.  The exception is an event whose packet came between the driver's  *)
(* read of register B and its read of the shift register, which clears     *)
(* SR_INT.  And "the CUDA driver relies on the PIC interrupt to know when  *)
(* shift register transfers complete": while bytes of a packet go either   *)
(* way, SR_INT comes with the interrupt.  (Not at the end of a packet: the *)
(* rise of TIP sets SR_INT after the test that raises the interrupt.)      *)
(***************************************************************************)
Told ==
    at = "out" =>
      /\ drv # "idle" \/ left # 0 => srInt \/ raced
      /\ drv \notin {"idle", "read_done"} /\ srInt => irq

(***************************************************************************)
(* A command of the guest completes, although events take the controller   *)
(* and a time-out drops events at any time.                                *)
(***************************************************************************)
CommandCompletes == \A c \in Commands : req = c ~> c \in done

(***************************************************************************)
(* The event loop gets back to its wait, so that the thread of the user    *)
(* interface, which blocks in cudaEventHandler meanwhile, goes on.         *)
(***************************************************************************)
LoopReturns == loop = "processing" ~> loop = "waiting"
=============================================================================
