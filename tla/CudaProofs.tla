------------------------------ MODULE CudaProofs ------------------------------
(***************************************************************************)
(* CudaDriver keeps packets whole, tells the guest, and implements         *)
(* EventChannel, which delivers events in order: for any commands, lengths *)
(* of commands and packets, and number of events.                          *)
(*                                                                         *)
(* The chip and the driver each have a state, and most pairs never occur.  *)
(* The invariant has a part for each state of the driver: what the chip is *)
(* doing then, how far both have got with the packet, and at which         *)
(* register accesses SR_INT and TREQ show it.                              *)
(***************************************************************************)
EXTENDS CudaDriver, TLAPS

\* what CUDA sends
Outgoing == {Reply(c) : c \in Commands} \cup {Event(n) : n \in 1 .. MaxEvents}

\* the chip's buffer holds p, of which pos bytes have been fetched
Holds(p) ==
    /\ left + pos = Length(p)
    /\ \A i \in 0 .. Length(p) - 1 : data[i] = <<p, i>>

\* the driver has read the first k bytes of p
HasRead(p, k) == buf = [i \in 1 .. k |-> <<p, i - 1>>]

\* p answers the command the driver waits for, or is an event
Wanted(p) == IF reply THEN req # NoCommand /\ p = Reply(req) ELSE p.kind = "event"

\* p answers the command that was sent, or no command was sent and it is an event
Due(p) == IF drv = "awaiting" THEN p = Reply(req) ELSE p.kind = "event"

\* no transfer is under way
Resting == drv \in {"idle", "awaiting", "read_done"}

\* the buffer is empty or holds the packet that is due; it is fetched only if it is there
Rest ==
    Resting =>
      /\ state = "idle" /\ pos = 0 /\ rB.tack /\ rB.tip
      /\ srOut <=> at \in {"startB", "tipB"}
      /\ at \in {"start", "load", "startB", "tipB"} => drv = "idle"
      /\ at \in {"load", "startB", "tipB"} => req # NoCommand
      /\ at = "tipB" => seen.tack /\ seen.tip
      /\ at \in {"readB", "writeB"} => left # 0
      /\ left # 0 => \E p \in Outgoing : Holds(p) /\ Due(p)

\* SR_INT announces a packet, unless an event came between two accesses of the handler
Idle ==
    drv = "idle" =>
      /\ buf = <<>>
      /\ at = "shift" \/ srInt => left # 0
      /\ at \in {"out", "start", "load", "startB", "tipB"} /\ left # 0 => srInt \/ raced

\* the reply waits
Awaiting ==
    drv = "awaiting" =>
      /\ buf = <<>>
      /\ req # NoCommand
      /\ left # 0
      /\ at = "out" => srInt /\ irq

\* a packet has been read; TREQ shows the next one, or an event has come since
ReadDone ==
    drv = "read_done" =>
      IF at \in {"readB", "writeB"} THEN buf = <<>>
      ELSE /\ srInt
           /\ \E p \in Outgoing : HasRead(p, Length(p)) /\ Wanted(p)
           /\ at = "out" => (rB.treq <=> left = 0)
           /\ at = "shift" =>
                status.tip /\ IF status.treq THEN left = 0 \/ raced ELSE left # 0

\* the chip has got as many bytes of the command as the driver has sent
Sending ==
    drv \in {"first", "sending"} =>
      /\ state = "reading" /\ ~rB.tip /\ req # NoCommand
      /\ at \in {"out", "shift", "readB", "writeB"}
      /\ pos = index /\ index \in 1 .. CommandLen[req]
      /\ IF drv = "first" THEN index = 1 ELSE index > 1 /\ data[1] = <<Command(req), 1>>
      /\ IF at \in {"out", "shift"} THEN srOut /\ srInt ELSE srOut <=> More
      /\ at \in {"readB", "writeB"} /\ More => rSR = <<Command(req), index>>
      /\ at = "out" => irq
      /\ buf = <<>>

\* the driver has got as many bytes of the packet as the chip has sent
Reading ==
    drv = "reading" =>
      /\ state = "writing" /\ ~rB.tip /\ ~srOut
      /\ at \in {"out", "shift", "readB", "writeB"}
      /\ \E p \in Outgoing : Holds(p) /\ HasRead(p, pos) /\ Wanted(p)
      /\ rB.treq <=> left <= IF at \in {"out", "shift"} THEN 1 ELSE 0
      /\ at # "out" => (status.treq <=> rB.treq)
      /\ at \in {"out", "shift"} => left >= 1
      /\ at = "out" => srInt /\ irq

ShapeInv ==
    /\ Rest /\ Idle /\ Awaiting /\ ReadDone /\ Sending /\ Reading
    /\ at = "writeB" => seen = rB

\* the driver's event is older than the chip's, and that older than the queue's
OrderInv ==
    /\ \A i \in 1 .. Len(queue) : queue[i] \in 1 .. posted
    /\ \A i, j \in 1 .. Len(queue) : i < j => queue[i] < queue[j]
    /\ trying # 0 => trying <= posted /\ \A i \in 1 .. Len(queue) : trying < queue[i]
    /\ \A e \in inChip \cup inDriver : e \in 1 .. posted /\ \A k \in inQueue : e < k
    /\ drv = "read_done" => \A e \in inDriver, k \in inChip : e < k

\* The inductive invariant: WholePackets speaks of the end of a packet only, and says
\* nothing of the bytes on their way.
CudaInv == DriverTypeOK /\ ShapeInv /\ OrderInv

-----------------------------------------------------------------------------
\* What the constants give.
LEMMA Assumptions ==
  /\ CommandLen \in [Commands -> 2 .. Overflow] /\ NoCommand \notin Commands
  /\ BufSize \in Nat /\ Overflow \in Nat /\ Overflow < BufSize /\ MaxEvents \in Nat
  /\ 1 \in 0 .. BufSize - 1 /\ 0 \in 0 .. BufSize - 1
  BY CudaAssumption, DriverAssumption

\* The packets CUDA sends have at least two bytes and fit into the buffer.
LEMMA PacketFacts ==
  ASSUME NEW p \in Outgoing
  PROVE  /\ p \in Packets /\ Length(p) \in 2 .. BufSize - 1
         /\ p.kind = "event" => p.n \in 1 .. MaxEvents /\ p = Event(p.n)
         /\ \A i \in 0 .. BufSize : <<p, i>> \in Bytes
  <1>event. CASE \E n \in 1 .. MaxEvents : p = Event(n)
    BY <1>event, CudaAssumption DEF Event, Packets, Length, Bytes
  <1>reply. CASE \E c \in Commands : p = Reply(c)
    BY <1>reply, CudaAssumption DEF Reply, Packets, Length, Bytes
  <1> QED  BY <1>event, <1>reply DEF Outgoing

\* A new request touches no register.
LEMMA RequestKeeps ==
  ASSUME CudaInv, NEW c \in Commands, Guest(Request(c))
  PROVE  DriverTypeOK' /\ ShapeInv'
  <1> USE Assumptions DEF CudaInv, Guest, Request, chipVars, eventVars
  <1>types. DriverTypeOK'
    BY DEF DriverTypeOK, CudaTypeOK
  <1>wanted. \A p \in Outgoing : /\ Holds(p)' = Holds(p)
                                 /\ Wanted(p) => Wanted(p)'
                                 /\ Resting /\ Due(p) => Due(p)'
    BY DEF Holds, Wanted, Resting, Due, Awaiting, ShapeInv
  <1>read. \A p \in Outgoing : \A k : HasRead(p, k)' = HasRead(p, k)
    BY DEF HasRead
  <1>rest. Rest'
    BY <1>wanted DEF Rest, ShapeInv, Resting
  <1>idle. Idle'
    BY DEF Idle, ShapeInv
  <1>awaiting. Awaiting'
    BY DEF Awaiting, ShapeInv
  <1>done. ReadDone'
    BY <1>wanted, <1>read DEF ReadDone, ShapeInv
  <1>sending. Sending'
    BY DEF Sending, More, ShapeInv
  <1>reading. Reading'
    BY <1>wanted, <1>read DEF Reading, ShapeInv
  <1> QED  BY <1>types, <1>rest, <1>idle, <1>awaiting, <1>done, <1>sending, <1>reading
            DEF ShapeInv

\* Start looks at TREQ only.
LEMMA StartKeeps ==
  ASSUME CudaInv, Guest(Start)
  PROVE  DriverTypeOK' /\ ShapeInv'
  <1> USE Assumptions DEF CudaInv, Guest, Start, chipVars, eventVars
  <1>at. drv = "idle" /\ state = "idle" /\ ~srOut
    BY DEF ShapeInv, Rest, Resting, Sending, Reading, DriverTypeOK
  <1>types. DriverTypeOK'
    BY DEF DriverTypeOK, CudaTypeOK
  <1>wanted. \A p \in Outgoing : /\ Holds(p)' = Holds(p)
                                 /\ Wanted(p) => Wanted(p)'
                                 /\ Resting /\ Due(p) => Due(p)'
    BY DEF Holds, Wanted, Resting, Due, Awaiting, ShapeInv
  <1>read. \A p \in Outgoing : \A k : HasRead(p, k)' = HasRead(p, k)
    BY DEF HasRead
  <1>rest. Rest'
    BY <1>wanted DEF Rest, ShapeInv, Resting
  <1>idle. Idle'
    BY DEF Idle, ShapeInv
  <1>awaiting. Awaiting'
    BY <1>at DEF Awaiting, ShapeInv
  <1>done. ReadDone'
    BY <1>at DEF ReadDone, ShapeInv
  <1>sending. Sending'
    BY <1>at DEF Sending, ShapeInv
  <1>reading. Reading'
    BY <1>at DEF Reading, ShapeInv
  <1>seen. at' = "writeB" => seen' = rB'
    BY DEF ShapeInv
  <1> QED  BY <1>types, <1>rest, <1>idle, <1>awaiting, <1>done, <1>sending, <1>reading, <1>seen
            DEF ShapeInv

\* The first byte of a command goes into the shift register.
LEMMA LoadKeeps ==
  ASSUME CudaInv, Guest(Load)
  PROVE  DriverTypeOK' /\ ShapeInv'
  <1> USE Assumptions DEF CudaInv, Guest, Load, cuda_write_SR, chipVars, eventVars
  <1>at. drv = "idle" /\ state = "idle" /\ ~srOut
    BY DEF ShapeInv, Rest, Resting, Sending, Reading, DriverTypeOK
  <1>byte. <<Command(req), 0>> \in Bytes
    <2> req \in Commands /\ 0 \in 0 .. BufSize
      BY <1>at DEF ShapeInv, Rest, Resting, DriverTypeOK
    <2> QED  BY DEF Bytes, Packets
  <1>types. DriverTypeOK'
    BY <1>byte DEF DriverTypeOK, CudaTypeOK
  <1>wanted. \A p \in Outgoing : /\ Holds(p)' = Holds(p)
                                 /\ Wanted(p) => Wanted(p)'
                                 /\ Resting /\ Due(p) => Due(p)'
    BY DEF Holds, Wanted, Resting, Due, Awaiting, ShapeInv
  <1>read. \A p \in Outgoing : \A k : HasRead(p, k)' = HasRead(p, k)
    BY DEF HasRead
  <1>rest. Rest'
    BY <1>wanted DEF Rest, ShapeInv, Resting
  <1>idle. Idle'
    BY DEF Idle, ShapeInv
  <1>awaiting. Awaiting'
    BY <1>at DEF Awaiting, ShapeInv
  <1>done. ReadDone'
    BY <1>at DEF ReadDone, ShapeInv
  <1>sending. Sending'
    BY <1>at DEF Sending, ShapeInv
  <1>reading. Reading'
    BY <1>at DEF Reading, ShapeInv
  <1>seen. at' = "writeB" => seen' = rB'
    BY DEF ShapeInv
  <1> QED  BY <1>types, <1>rest, <1>idle, <1>awaiting, <1>done, <1>sending, <1>reading, <1>seen
            DEF ShapeInv

\* Register B is read, to be written back.
LEMMA ReadBKeeps ==
  ASSUME CudaInv, Guest(ReadB)
  PROVE  DriverTypeOK' /\ ShapeInv'
  <1> USE Assumptions DEF CudaInv, Guest, ReadB, chipVars, eventVars
  <1>types. DriverTypeOK'
    BY DEF DriverTypeOK, CudaTypeOK
  <1>wanted. \A p \in Outgoing : /\ Holds(p)' = Holds(p)
                                 /\ Wanted(p) => Wanted(p)'
                                 /\ Resting /\ Due(p) => Due(p)'
    BY DEF Holds, Wanted, Resting, Due, Awaiting, ShapeInv
  <1>read. \A p \in Outgoing : \A k : HasRead(p, k)' = HasRead(p, k)
    BY DEF HasRead
  <1>rest. Rest'
    BY <1>wanted DEF Rest, ShapeInv, Resting
  <1>idle. Idle'
    BY DEF Idle, ShapeInv
  <1>awaiting. Awaiting'
    BY DEF Awaiting, ShapeInv
  <1>done. ReadDone'
    BY <1>wanted, <1>read DEF ReadDone, ShapeInv
  <1>sending. Sending'
    BY DEF Sending, More, ShapeInv
  <1>reading. Reading'
    BY <1>wanted, <1>read DEF Reading, ShapeInv
  <1>seen. at' = "writeB" => seen' = rB'
    BY DEF ShapeInv
  <1> QED  BY <1>types, <1>rest, <1>idle, <1>awaiting, <1>done, <1>sending, <1>reading, <1>seen
            DEF ShapeInv

\* The handler finds SR_INT set unless it was called for nothing.
LEMMA EnterKeeps ==
  ASSUME CudaInv, Guest(Enter)
  PROVE  DriverTypeOK' /\ ShapeInv'
  <1> USE Assumptions DEF CudaInv, Guest, Enter, chipVars, eventVars
  <1>types. DriverTypeOK'
    <2>chip. CudaTypeOK'
      BY DEF DriverTypeOK, CudaTypeOK
    <2>at. at' \in {"shift", "out"} /\ status' \in [treq : BOOLEAN, tack : BOOLEAN, tip : BOOLEAN]
      BY DEF DriverTypeOK, CudaTypeOK
    <2> QED  BY <2>chip, <2>at DEF DriverTypeOK
  <1>wanted. \A p \in Outgoing : /\ Holds(p)' = Holds(p)
                                 /\ Wanted(p) => Wanted(p)'
                                 /\ Resting /\ Due(p) => Due(p)'
    BY DEF Holds, Wanted, Resting, Due, Awaiting, ShapeInv
  <1>read. \A p \in Outgoing : \A k : HasRead(p, k)' = HasRead(p, k)
    BY DEF HasRead
  <1>rest. Rest'
    BY <1>wanted DEF Rest, ShapeInv, Resting
  <1>idle. Idle'
    BY DEF Idle, ShapeInv
  <1>awaiting. Awaiting'
    BY DEF Awaiting, ShapeInv
  <1>done. ReadDone'
    <2>rest. drv = "read_done" => rB.tip /\ srInt /\ at' = "shift" /\ (rB.treq <=> left = 0)
      BY DEF ReadDone, Rest, Resting, ShapeInv
    <2> QED  BY <1>wanted, <1>read, <2>rest DEF ReadDone, ShapeInv
  <1>sending. Sending'
    BY DEF Sending, More, ShapeInv
  <1>reading. Reading'
    BY <1>wanted, <1>read DEF Reading, ShapeInv
  <1>seen. at' = "writeB" => seen' = rB'
    BY DEF ShapeInv
  <1> QED  BY <1>types, <1>rest, <1>idle, <1>awaiting, <1>done, <1>sending, <1>reading, <1>seen
            DEF ShapeInv

\* The shape does not depend on the queue, and an event that comes in between
\* excuses more.
LEMMA ShapeOfChip ==
  ASSUME ShapeInv, raced => raced',
         UNCHANGED <<chipVars, drv, at, status, seen, req, done, index, buf, reply, events>>
  PROVE  ShapeInv'
  <1> USE DEF chipVars
  <1>wanted. \A p \in Outgoing : Holds(p)' = Holds(p) /\ Wanted(p)' = Wanted(p) /\ Due(p)' = Due(p)
    BY DEF Holds, Wanted, Due
  <1>read. \A p \in Outgoing : \A k : HasRead(p, k)' = HasRead(p, k)
    BY DEF HasRead
  <1>rest. Rest' /\ Idle' /\ Awaiting'
    BY <1>wanted DEF Rest, Resting, Idle, Awaiting, ShapeInv
  <1>done. ReadDone'
    BY <1>wanted, <1>read DEF ReadDone, ShapeInv
  <1>sending. Sending'
    BY DEF Sending, More, ShapeInv
  <1>reading. Reading'
    BY <1>wanted, <1>read DEF Reading, ShapeInv
  <1> QED  BY <1>rest, <1>done, <1>sending, <1>reading DEF ShapeInv

\* The queue and its thread, as long as they do not touch the chip.
LEMMA HostKeeps ==
  ASSUME CudaInv, Host(cudaEventHandler) \/ Host(LoopStart) \/ Host(deQueue) \/ Host(TimeOut)
  PROVE  DriverTypeOK' /\ ShapeInv'
  <1>shape. ShapeInv'
    BY ShapeOfChip DEF Host, cudaEventHandler, LoopStart, deQueue, TimeOut, CudaInv
  <1>seq. queue \in Seq(1 .. MaxEvents) /\ posted \in 0 .. MaxEvents
          /\ trying \in 0 .. MaxEvents /\ MaxEvents \in Nat
    BY Assumptions DEF CudaInv, DriverTypeOK, CudaTypeOK
  <1>handler. ASSUME Host(cudaEventHandler)
              PROVE  posted' \in 0 .. MaxEvents /\ queue' \in Seq(1 .. MaxEvents) /\ trying' = trying
    <2> posted + 1 \in 0 .. MaxEvents /\ posted + 1 \in 1 .. MaxEvents
      BY <1>seq, <1>handler DEF Host, cudaEventHandler
    <2> QED  BY <1>seq, <1>handler DEF Host, cudaEventHandler
  <1>take. ASSUME Host(deQueue)
           PROVE  posted' = posted /\ queue' \in Seq(1 .. MaxEvents) /\ trying' \in 0 .. MaxEvents
    <2>next. queue # <<>> => Head(queue) \in 1 .. MaxEvents /\ Tail(queue) \in Seq(1 .. MaxEvents)
      BY <1>seq
    <2>range. 1 .. MaxEvents \subseteq 0 .. MaxEvents
      OBVIOUS
    <2> QED  BY <1>seq, <1>take, <2>next, <2>range DEF Host, deQueue, chipVars
  <1>other. Host(LoopStart) \/ Host(TimeOut) =>
              posted' = posted /\ queue' = queue /\ trying' \in 0 .. MaxEvents
    BY <1>seq DEF Host, LoopStart, TimeOut
  <1>events. posted' \in 0 .. MaxEvents /\ queue' \in Seq(1 .. MaxEvents) /\ trying' \in 0 .. MaxEvents
    BY <1>seq, <1>handler, <1>take, <1>other
  <1>rest. /\ UNCHANGED <<chipVars, drv, at, status, seen, req, done, index, buf, reply, events>>
           /\ loop' \in {"starting", "waiting", "processing"} /\ raced' \in BOOLEAN
    BY DEF Host, cudaEventHandler, LoopStart, deQueue, TimeOut, CudaInv, DriverTypeOK, CudaTypeOK
  <1>types. DriverTypeOK'
    BY <1>events, <1>rest DEF CudaInv, DriverTypeOK, CudaTypeOK, chipVars
  <1> QED  BY <1>types, <1>shape

\* register B
RegB == [treq : BOOLEAN, tack : BOOLEAN, tip : BOOLEAN]

\* What cuda_send_packet leaves behind.
LEMMA SendPacket ==
  ASSUME CudaTypeOK, NEW p \in Outgoing, NEW b \in RegB, cuda_send_packet(p, b)
  PROVE  /\ Holds(p)' /\ left' \in Nat /\ left' # 0 /\ pos' = 0
         /\ srInt' /\ irq' /\ rB' \in RegB /\ ~rB'.treq /\ rB'.tip /\ rB'.tack = b.tack
         /\ srInt' \in BOOLEAN /\ irq' \in BOOLEAN
         /\ data' \in [0 .. BufSize - 1 -> Bytes] /\ data'[0] = <<p, 0>>
  <1>p. Length(p) \in 2 .. BufSize - 1 /\ BufSize \in Nat /\ \A i \in 0 .. BufSize : <<p, i>> \in Bytes
    BY PacketFacts, Assumptions
  <1>data. data \in [0 .. BufSize - 1 -> Bytes]
    BY DEF CudaTypeOK
  <1>new. data' = [i \in 0 .. BufSize - 1 |-> IF i < Length(p) THEN <<p, i>> ELSE data[i]]
    BY <1>data DEF cuda_send_packet
  <1>type. data' \in [0 .. BufSize - 1 -> Bytes]
    BY <1>p, <1>data, <1>new
  <1>bytes. \A i \in 0 .. Length(p) - 1 : data'[i] = <<p, i>>
    BY <1>p, <1>new
  <1>len. left' = Length(p) /\ pos' = 0 /\ left' \in Nat /\ left' # 0 /\ left' + pos' = Length(p)
    BY <1>p DEF cuda_send_packet
  <1>regs. /\ srInt' = TRUE /\ irq' = TRUE /\ rB' \in RegB /\ ~rB'.treq /\ rB'.tip
           /\ rB'.tack = b.tack
    BY DEF cuda_send_packet, RegB
  <1>holds. Holds(p)'
    BY <1>len, <1>bytes DEF Holds
  <1> QED  BY <1>type, <1>bytes, <1>len, <1>regs, <1>holds, <1>p

\* An event is put into the buffer only when the chip rests and has nothing to send.
LEMMA TryKeeps ==
  ASSUME CudaInv, Host(tryProcessCudaEvent)
  PROVE  DriverTypeOK' /\ ShapeInv'
  <1> USE DEF CudaInv, Host, tryProcessCudaEvent
  <1>old. DriverTypeOK /\ CudaTypeOK /\ rB \in RegB /\ trying \in 1 .. MaxEvents
    BY Assumptions DEF DriverTypeOK, CudaTypeOK, RegB
  <1>packet. PICK p \in Outgoing : p = Event(trying)
    BY <1>old DEF Outgoing
  <1>sent. /\ Holds(p)' /\ left' \in Nat /\ left' # 0 /\ pos' = 0
           /\ srInt' /\ irq' /\ rB' \in RegB /\ ~rB'.treq /\ rB'.tip /\ rB'.tack = rB.tack
           /\ srInt' \in BOOLEAN /\ irq' \in BOOLEAN
           /\ data' \in [0 .. BufSize - 1 -> Bytes]
    BY <1>old, <1>packet, SendPacket
  <1>same. /\ UNCHANGED <<drv, at, status, seen, req, done, index, buf, reply, events>>
           /\ UNCHANGED <<rSR, srOut, state, posted, queue, loop>>
           /\ trying' = 0 /\ (at = "shift" => raced') /\ raced' \in BOOLEAN
    BY <1>old, <1>sent DEF DriverTypeOK
  <1>resting. Resting /\ drv # "awaiting" /\ at \notin {"readB", "writeB"}
              /\ (drv = "idle" => at # "shift")
    BY <1>old DEF ShapeInv, Rest, Idle, Awaiting, Sending, Reading, Resting, DriverTypeOK
  <1>types. DriverTypeOK'
    <2>chip. CudaTypeOK'
      BY <1>old, <1>sent, <1>same, Assumptions DEF CudaTypeOK, RegB
    <2> QED  BY <2>chip, <1>old, <1>same DEF DriverTypeOK
  <1>rest. Rest'
    <2>due. Due(p)'
      BY <1>packet, <1>same, <1>resting DEF Due, Event
    <2> QED  BY <2>due, <1>sent, <1>same, <1>resting, <1>packet DEF Rest, Resting, ShapeInv
  <1>idle. Idle'
    BY <1>sent, <1>same DEF Idle, ShapeInv
  <1>done. ReadDone'
    <2>read. \A q \in Outgoing : \A k : HasRead(q, k)' = HasRead(q, k) /\ Wanted(q)' = Wanted(q)
      BY <1>same DEF HasRead, Wanted
    <2> QED  BY <2>read, <1>sent, <1>same, <1>resting DEF ReadDone, ShapeInv
  <1>other. Awaiting' /\ Sending' /\ Reading' /\ (at' = "writeB" => seen' = rB')
    BY <1>same, <1>resting DEF Awaiting, Sending, Reading, Resting
  <1> QED  BY <1>types, <1>rest, <1>idle, <1>done, <1>other DEF ShapeInv

\* TIP falls with SR_OUT set: the guest starts to send, and an event that waits is lost.
LEMMA TipKeeps ==
  ASSUME CudaInv, Guest(Tip)
  PROVE  DriverTypeOK' /\ ShapeInv'
  <1> USE DEF CudaInv, Guest, Tip
  <1>num. /\ 0 \in 0 .. BufSize - 1 /\ CommandLen \in [Commands -> 2 .. Overflow] /\ Overflow \in Nat
          /\ NoCommand \notin Commands
    BY Assumptions
  <1>old. DriverTypeOK /\ CudaTypeOK /\ rB \in RegB /\ seen \in RegB /\ data \in [0 .. BufSize - 1 -> Bytes]
    BY DEF DriverTypeOK, CudaTypeOK, RegB
  <1>at. drv = "idle" /\ rB.tip /\ srOut /\ seen.tip /\ seen.tack /\ req # NoCommand
         /\ req \in Commands /\ buf = <<>>
    BY <1>old DEF ShapeInv, Rest, Resting, Idle, Sending, Reading, DriverTypeOK
  <1> DEFINE d == [seen EXCEPT !.tip = FALSE]
  <1>d. d \in RegB /\ ~d.tip
    BY <1>old DEF RegB
  <1>start. TransferStart(d)
    BY <1>at, <1>d DEF cuda_write_B, TransferEnd, TransferByte
  <1>new. /\ srInt' = TRUE /\ irq' = TRUE /\ rB' = [d EXCEPT !.treq = srOut]
          /\ state' = "reading" /\ pos' = 1 /\ data' = [data EXCEPT ![0] = rSR]
          /\ UNCHANGED <<rSR, srOut, left>>
    BY <1>start, <1>at DEF TransferStart
  <1>rB. rB' \in RegB /\ ~rB'.tip
    BY <1>new, <1>d, <1>old DEF RegB, CudaTypeOK
  <1>data. data' \in [0 .. BufSize - 1 -> Bytes]
    BY <1>new, <1>old, <1>num DEF CudaTypeOK
  <1>drv. /\ drv' = "first" /\ index' = 1 /\ at' = "out"
          /\ UNCHANGED <<status, seen, req, done, buf, reply, events, posted, queue, loop, trying, raced>>
    BY DEF eventVars
  <1>types. DriverTypeOK'
    <2>chip. CudaTypeOK'
      BY <1>old, <1>new, <1>rB, <1>data, <1>drv DEF CudaTypeOK, RegB
    <2> QED  BY <2>chip, <1>old, <1>drv DEF DriverTypeOK
  <1>len. CommandLen[req] \in 2 .. Overflow /\ 1 \in 1 .. CommandLen[req]
    BY <1>num, <1>at
  <1>sending. Sending'
    BY <1>new, <1>drv, <1>rB, <1>at, <1>len DEF Sending
  <1>other. Rest' /\ Idle' /\ Awaiting' /\ ReadDone' /\ Reading' /\ (at' = "writeB" => seen' = rB')
    BY <1>drv DEF Rest, Resting, Idle, Awaiting, ReadDone, Reading
  <1> QED  BY <1>types, <1>sending, <1>other DEF ShapeInv

\* The next byte of a command, or the end of it.
LEMMA ShiftOut ==
  ASSUME CudaInv, Guest(Shift), drv \in {"first", "sending"}
  PROVE  DriverTypeOK' /\ ShapeInv'
  <1> USE DEF CudaInv, Guest, Shift
  <1>num. CommandLen \in [Commands -> 2 .. Overflow] /\ Overflow \in Nat /\ BufSize \in Nat
          /\ Overflow < BufSize /\ NoCommand \notin Commands
    BY Assumptions
  <1>old. DriverTypeOK /\ CudaTypeOK /\ rB \in RegB /\ Sending
    BY DEF DriverTypeOK, CudaTypeOK, RegB, ShapeInv
  <1>req. req \in Commands /\ req # NoCommand /\ state = "reading" /\ srOut /\ srInt
          /\ pos = index /\ index \in 1 .. CommandLen[req] /\ index \in 0 .. BufSize
    BY <1>num, <1>old DEF Sending, DriverTypeOK
  <1>same. /\ at = "shift" /\ at' = "readB" /\ drv' = drv
           /\ UNCHANGED <<status, seen, req, done, index, buf, reply, events, state, left, pos, data, irq>>
           /\ UNCHANGED <<posted, queue, loop, trying, raced>>
    BY <1>req DEF Finished, cuda_write_SR, cuda_read_SR, eventVars
  <1>more. CASE More
    <2>byte. <<Command(req), index>> \in Bytes
      BY <1>req DEF Bytes, Packets
    <2>new. rSR' = <<Command(req), index>> /\ UNCHANGED <<rB, srInt, srOut>>
      BY <1>more DEF cuda_write_SR
    <2>types. DriverTypeOK'
      <3>chip. CudaTypeOK'
        BY <1>old, <1>same, <2>byte, <2>new DEF CudaTypeOK
      <3> QED  BY <3>chip, <1>old, <1>same DEF DriverTypeOK
    <2>sending. Sending'
      BY <1>more, <1>old, <1>same, <2>new, <1>req DEF Sending, More
    <2> QED  BY <2>types, <2>sending, <1>same
             DEF ShapeInv, Rest, Resting, Idle, Awaiting, ReadDone, Reading
  <1>last. CASE ~More
    <2>new. /\ rSR' = rSR /\ srInt' = FALSE /\ rB' = [rB EXCEPT !.treq = FALSE]
            /\ srOut' = (srOut /\ drv # "sending")
      BY <1>last, <1>req DEF cuda_read_SR
    <2>drv. drv = "sending"
      BY <1>last, <1>old, <1>num, <1>req DEF Sending, More
    <2>rB. rB' \in RegB /\ rB'.tip = rB.tip
      BY <2>new, <1>old DEF RegB
    <2>types. DriverTypeOK'
      <3>chip. CudaTypeOK'
        BY <1>old, <1>same, <2>rB, <2>new DEF CudaTypeOK, RegB
      <3> QED  BY <3>chip, <1>old, <1>same DEF DriverTypeOK
    <2>sending. Sending'
      BY <1>last, <1>old, <1>same, <2>new, <2>rB, <2>drv, <1>req DEF Sending, More
    <2> QED  BY <2>types, <2>sending, <1>same
             DEF ShapeInv, Rest, Resting, Idle, Awaiting, ReadDone, Reading
  <1> QED  BY <1>more, <1>last

\* Before a packet is fetched the handler reads the shift register for nothing.
LEMMA ShiftNone ==
  ASSUME CudaInv, Guest(Shift), drv \in {"idle", "awaiting"}
  PROVE  DriverTypeOK' /\ ShapeInv'
  <1> USE DEF CudaInv, Guest, Shift
  <1>old. DriverTypeOK /\ CudaTypeOK /\ rB \in RegB
    BY DEF DriverTypeOK, CudaTypeOK, RegB
  <1>rest. state = "idle" /\ pos = 0 /\ rB.tack /\ rB.tip /\ left # 0
    BY DEF ShapeInv, Rest, Resting, Idle, Awaiting
  <1>same. /\ at = "shift" /\ at' = "readB" /\ drv' = drv
           /\ UNCHANGED <<status, seen, req, done, index, buf, reply, events, state, left, pos, data, irq>>
           /\ UNCHANGED <<posted, queue, loop, trying, raced, rSR>>
           /\ srInt' = FALSE /\ rB' = [rB EXCEPT !.treq = TRUE] /\ (srOut' <=> srOut) /\ srOut' \in BOOLEAN
    BY <1>old, <1>rest DEF Finished, cuda_read_SR, eventVars, CudaTypeOK
  <1>rB. rB' \in RegB /\ rB'.tip /\ rB'.tack
    BY <1>same, <1>old, <1>rest DEF RegB
  <1>types. DriverTypeOK'
    <2>chip. CudaTypeOK'
      BY <1>old, <1>same, <1>rB DEF CudaTypeOK, RegB
    <2> QED  BY <2>chip, <1>old, <1>same DEF DriverTypeOK
  <1>holds. \A p \in Outgoing : Holds(p)' = Holds(p) /\ Due(p)' = Due(p)
    BY <1>same DEF Holds, Due
  <1>shape. Rest' /\ Idle' /\ Awaiting'
    BY <1>same, <1>rest, <1>rB, <1>holds DEF ShapeInv, Rest, Resting, Idle, Awaiting
  <1> QED  BY <1>types, <1>shape, <1>same DEF ShapeInv, ReadDone, Sending, Reading

\* The driver knows the packet by its first byte.
LEMMA EventRead ==
  ASSUME NEW p \in Outgoing, HasRead(p, Length(p)), buf \in Seq(Bytes)
  PROVE  buf[1] = <<p, 0>> /\ buf # <<>>
  <1>len. Length(p) \in Nat /\ 1 \in 1 .. Length(p)
    BY PacketFacts, Assumptions
  <1>first. buf[1] = <<p, 0>>
    BY <1>len DEF HasRead
  <1>some. DOMAIN buf = 1 .. Length(p)
    BY DEF HasRead
  <1> QED  BY <1>first, <1>some, <1>len

\* The handler has a packet and goes on with the next one, if there is one.
LEMMA ShiftEnd ==
  ASSUME CudaInv, Guest(Shift), drv = "read_done"
  PROVE  DriverTypeOK' /\ ShapeInv'
  <1> USE DEF CudaInv, Guest, Shift
  <1>old. DriverTypeOK /\ CudaTypeOK /\ rB \in RegB
    BY DEF DriverTypeOK, CudaTypeOK, RegB
  <1>rest. state = "idle" /\ pos = 0 /\ rB.tack /\ rB.tip /\ ~srOut /\ at = "shift"
    BY DEF ShapeInv, Rest, Resting
  <1>done. status.tip /\ IF status.treq THEN left = 0 \/ raced ELSE left # 0
    BY <1>rest DEF ShapeInv, ReadDone
  <1>same. /\ UNCHANGED <<status, seen, index, reply, state, left, pos, data, irq>>
           /\ UNCHANGED <<posted, queue, loop, trying, raced, rSR>>
           /\ srInt' = FALSE /\ rB' = [rB EXCEPT !.treq = TRUE] /\ srOut' = FALSE
           /\ buf' = <<>>
           /\ IF Finished THEN drv' = "idle" /\ at' = "start" ELSE drv' = "read_done" /\ at' = "readB"
    BY <1>rest DEF cuda_read_SR, eventVars
  <1>read. PICK p \in Outgoing : HasRead(p, Length(p)) /\ Wanted(p)
    BY <1>rest DEF ShapeInv, ReadDone
  <1>p. buf[1] = <<p, 0>>
    BY <1>read, EventRead, <1>old DEF DriverTypeOK
  <1>req. reply => req \in Commands
    BY <1>read, <1>old DEF Wanted, DriverTypeOK
  <1>event. ~reply => p.n \in 1 .. MaxEvents /\ buf[1][1].n = p.n
    BY <1>read, <1>p, PacketFacts DEF Wanted
  <1>hist. /\ req' \in Commands \cup {NoCommand} /\ done' \subseteq Commands
           /\ events' \in Seq(1 .. MaxEvents)
    <2>own. req' \in Commands \cup {NoCommand} /\ done' \subseteq Commands
      BY <1>req, <1>old DEF DriverTypeOK
    <2>event. events' = IF ~reply THEN Append(events, p.n) ELSE events
      BY <1>event
    <2>seq. events \in Seq(1 .. MaxEvents)
      BY <1>old DEF DriverTypeOK
    <2>add. ~reply => Append(events, p.n) \in Seq(1 .. MaxEvents)
      BY <2>seq, <1>event
    <2> QED  BY <2>own, <2>event, <2>seq, <2>add
  <1>rB. rB' \in RegB /\ rB'.tip /\ rB'.tack
    BY <1>same, <1>old, <1>rest DEF RegB
  <1>types. DriverTypeOK'
    <2>chip. CudaTypeOK'
      BY <1>old, <1>same, <1>rB DEF CudaTypeOK, RegB
    <2>buf. <<>> \in Seq(Bytes)
      OBVIOUS
    <2> QED  BY <2>chip, <2>buf, <1>old, <1>same, <1>hist DEF DriverTypeOK
  <1>holds. \A q \in Outgoing : Holds(q)' = Holds(q) /\ (Due(q) => Due(q)')
    BY <1>same DEF Holds, Due
  <1>finished. /\ Finished => left = 0 \/ raced
               /\ ~Finished => left # 0
    BY <1>done DEF Finished
  <1>shape. Rest' /\ Idle' /\ ReadDone'
    BY <1>same, <1>rest, <1>rB, <1>holds, <1>finished DEF ShapeInv, Rest, Resting, Idle, ReadDone
  <1> QED  BY <1>types, <1>shape, <1>same DEF ShapeInv, Awaiting, Sending, Reading

\* one more byte of p has been read
LEMMA ReadOn ==
  ASSUME NEW p, NEW k \in Nat, HasRead(p, k), buf' = Append(buf, <<p, k>>)
  PROVE  buf' = [i \in 1 .. k + 1 |-> <<p, i - 1>>]
  <1>len. Len(buf) = k
    BY DEF HasRead
  <1>old. buf = [i \in 1 .. k |-> <<p, i - 1>>]
    BY DEF HasRead
  <1> QED  BY <1>len, <1>old

\* A byte of a packet is read: TREQ shows the last one.
LEMMA ShiftIn ==
  ASSUME CudaInv, Guest(Shift), drv = "reading"
  PROVE  DriverTypeOK' /\ ShapeInv'
  <1> USE DEF CudaInv, Guest, Shift
  <1>old. DriverTypeOK /\ CudaTypeOK /\ rB \in RegB /\ left \in Nat /\ pos \in Nat
    BY DEF DriverTypeOK, CudaTypeOK, RegB
  <1>rest. /\ state = "writing" /\ ~rB.tip /\ ~srOut /\ at = "shift" /\ left >= 1
           /\ (rB.treq <=> left <= 1) /\ (status.treq <=> rB.treq)
    BY DEF ShapeInv, Reading
  <1>read. PICK p \in Outgoing : Holds(p) /\ HasRead(p, pos) /\ Wanted(p)
    BY DEF ShapeInv, Reading
  <1>p. Length(p) \in 2 .. BufSize - 1 /\ BufSize \in Nat /\ \A i \in 0 .. BufSize : <<p, i>> \in Bytes
    BY PacketFacts, Assumptions
  <1>byte. data[pos] = <<p, pos>> /\ <<p, pos>> \in Bytes /\ left + pos = Length(p)
    BY <1>read, <1>p, <1>old, <1>rest DEF Holds
  <1>num. pos + 1 \in Nat /\ left - 1 \in Nat /\ (left - 1) + (pos + 1) = left + pos /\ left # 0
    BY <1>old, <1>rest
  <1>same. /\ UNCHANGED <<drv, status, seen, req, done, index, reply, events, state, data, irq>>
           /\ UNCHANGED <<posted, queue, loop, trying, raced, rSR>>
           /\ at' = "readB" /\ srInt' = FALSE /\ srOut' \in BOOLEAN /\ ~srOut'
           /\ pos' = pos + 1 /\ left' = left - 1 /\ buf' = Append(buf, <<p, pos>>)
           /\ rB' = IF left <= 1 THEN [rB EXCEPT !.treq = TRUE, !.tip = FALSE] ELSE rB
    BY <1>rest, <1>num, <1>byte, <1>old DEF Finished, cuda_read_SR, shifted, eventVars, CudaTypeOK
  <1>rB. rB' \in RegB /\ ~rB'.tip /\ (rB'.treq <=> left' <= 0)
    <2>last. CASE left <= 1
      <3> left - 1 <= 0
        BY <2>last, <1>old, <1>rest
      <3> QED  BY <2>last, <1>same, <1>old DEF RegB
    <2>more. CASE ~(left <= 1)
      <3> ~(left - 1 <= 0)
        BY <2>more, <1>old, <1>rest
      <3> QED  BY <2>more, <1>same, <1>old, <1>rest
    <2> QED  BY <2>last, <2>more
  <1>status. status.treq <=> rB'.treq
    BY <1>rest, <1>rB, <1>same, <1>old
  <1>buf. buf' = [i \in 1 .. pos + 1 |-> <<p, i - 1>>] /\ buf' \in Seq(Bytes)
    <2>seq. buf \in Seq(Bytes) /\ Append(buf, <<p, pos>>) \in Seq(Bytes)
      BY <1>old, <1>byte DEF DriverTypeOK
    <2> QED  BY <1>read, <1>same, <1>old, <2>seq, ReadOn
  <1>types. DriverTypeOK'
    <2>chip. CudaTypeOK'
      BY <1>old, <1>same, <1>rB, <1>num DEF CudaTypeOK, RegB
    <2> QED  BY <2>chip, <1>buf, <1>old, <1>same DEF DriverTypeOK
  <1>keep. Holds(p)' /\ HasRead(p, pos)' /\ Wanted(p)'
    <2>h. Holds(p)'
      BY <1>same, <1>read, <1>num DEF Holds
    <2>r. HasRead(p, pos)'
      BY <1>same, <1>buf DEF HasRead
    <2>w. Wanted(p)'
      BY <1>same, <1>read DEF Wanted
    <2> QED  BY <2>h, <2>r, <2>w
  <1>shape. Reading'
    BY <1>same, <1>rest, <1>rB, <1>keep, <1>status DEF Reading
  <1> QED  BY <1>types, <1>shape, <1>same
           DEF ShapeInv, Rest, Resting, Idle, Awaiting, ReadDone, Sending

\* TIP falls with SR_OUT clear: the guest fetches the packet that waits.
LEMMA WriteStart ==
  ASSUME CudaInv, Guest(Write), Resting
  PROVE  DriverTypeOK' /\ ShapeInv'
  <1> USE DEF CudaInv, Guest
  <1>old. DriverTypeOK /\ CudaTypeOK /\ rB \in RegB /\ left \in Nat /\ seen = rB /\ at = "writeB"
    BY DEF DriverTypeOK, CudaTypeOK, RegB, ShapeInv, Write
  <1>rest. state = "idle" /\ pos = 0 /\ rB.tip /\ ~srOut /\ left # 0
    BY <1>old DEF ShapeInv, Rest
  <1> DEFINE d == [seen EXCEPT !.tip = FALSE]
  <1>d. d \in RegB /\ ~d.tip
    BY <1>old DEF RegB
  <1>write. /\ cuda_write_B(d)
            /\ drv' = "reading" /\ buf' = <<>> /\ reply' = (drv = "awaiting") /\ at' = "out"
            /\ UNCHANGED <<index, status, seen, req, done, events, posted, queue, loop, trying, raced>>
    BY DEF Write, Resting, eventVars
  <1>start. TransferStart(d)
    BY <1>rest, <1>d, <1>write DEF cuda_write_B, TransferEnd, TransferByte
  <1>new. /\ srInt' = TRUE /\ irq' = TRUE /\ rB' = [d EXCEPT !.treq = srOut]
          /\ state' = "writing" /\ UNCHANGED <<pos, data, rSR, srOut, left>>
    BY <1>start, <1>rest DEF TransferStart
  <1>rB. rB' \in RegB /\ ~rB'.tip /\ ~rB'.treq
    BY <1>new, <1>d, <1>old, <1>rest DEF RegB, CudaTypeOK
  <1>types. DriverTypeOK'
    <2>chip. CudaTypeOK'
      BY <1>old, <1>new, <1>rB, <1>write DEF CudaTypeOK, RegB
    <2>buf. <<>> \in Seq(Bytes)
      OBVIOUS
    <2> QED  BY <2>chip, <2>buf, <1>old, <1>write DEF DriverTypeOK
  <1>packet. PICK p \in Outgoing : Holds(p) /\ Due(p)
    BY <1>rest DEF ShapeInv, Rest
  <1>len. Length(p) \in 2 .. BufSize - 1 /\ BufSize \in Nat
    BY PacketFacts, Assumptions
  <1>left. left >= 2 /\ ~(left <= 1) /\ left >= 1
    BY <1>packet, <1>len, <1>old, <1>rest DEF Holds
  <1>wanted. Wanted(p)'
    BY <1>packet, <1>write DEF Wanted, Due, ShapeInv, Awaiting
  <1>keep. Holds(p)' /\ HasRead(p, pos)'
    <2>h. Holds(p)'
      BY <1>new, <1>packet DEF Holds
    <2>r. buf' = [i \in 1 .. 0 |-> <<p, i - 1>>]
      BY <1>write
    <2> QED  BY <2>h, <2>r, <1>new, <1>rest DEF HasRead
  <1>shape. Reading'
    BY <1>new, <1>rest, <1>rB, <1>keep, <1>wanted, <1>write, <1>left DEF Reading
  <1> QED  BY <1>types, <1>shape, <1>write
           DEF ShapeInv, Rest, Resting, Idle, Awaiting, ReadDone, Sending

\* An edge of TACK gives the chip a byte of the command.
LEMMA WriteByte ==
  ASSUME CudaInv, Guest(Write), drv \in {"first", "sending"}, More
  PROVE  DriverTypeOK' /\ ShapeInv'
  <1> USE DEF CudaInv, Guest
  <1>num. CommandLen \in [Commands -> 2 .. Overflow] /\ Overflow \in Nat /\ BufSize \in Nat
          /\ Overflow < BufSize /\ NoCommand \notin Commands
    BY Assumptions
  <1>old. DriverTypeOK /\ CudaTypeOK /\ rB \in RegB /\ seen = rB /\ at = "writeB"
    BY DEF DriverTypeOK, CudaTypeOK, RegB, ShapeInv, Write
  <1>rest. /\ state = "reading" /\ ~rB.tip /\ req # NoCommand /\ pos = index /\ srOut
           /\ index \in 1 .. CommandLen[req] /\ rSR = <<Command(req), index>> /\ buf = <<>>
           /\ IF drv = "first" THEN index = 1 ELSE index > 1 /\ data[1] = <<Command(req), 1>>
    BY <1>old DEF ShapeInv, Sending
  <1>idx. /\ req \in Commands /\ index \in Nat /\ index + 1 \in Nat /\ index + 1 \in 1 .. CommandLen[req]
          /\ ~(pos + 1 > Overflow) /\ pos \in 0 .. BufSize - 1 /\ index + 1 > 1
    BY <1>num, <1>old, <1>rest DEF More, DriverTypeOK
  <1> DEFINE d == [seen EXCEPT !.tack = ~@]
  <1>d. d \in RegB /\ d.tip = rB.tip /\ ack(d)
    BY <1>old DEF RegB, ack
  <1>write. /\ cuda_write_B(d)
            /\ drv' = "sending" /\ index' = index + 1 /\ at' = "out"
            /\ UNCHANGED <<buf, reply, status, seen, req, done, events, posted, queue, loop, trying, raced>>
    BY DEF Write, eventVars, Pulse
  <1>byte. TransferByte(d)
    BY <1>rest, <1>d, <1>write DEF cuda_write_B, TransferEnd, TransferStart
  <1>new. /\ data' = [data EXCEPT ![pos] = rSR] /\ pos' = pos + 1
          /\ srInt' = (srInt \/ ack(d)) /\ irq' = (irq \/ srInt')
          /\ rB' = [d EXCEPT !.treq = acked(d) \/ (state = "writing" /\ ack(d) /\ left <= 1)]
          /\ UNCHANGED <<rSR, srOut, state, left>>
    BY <1>byte, <1>rest, <1>d, <1>idx DEF TransferByte
  <1>bits. srInt' /\ srInt' \in BOOLEAN /\ irq' /\ irq' \in BOOLEAN
    BY <1>new, <1>d
  <1>rB. rB' \in RegB /\ ~rB'.tip
    <2>d. d \in RegB /\ ~d.tip /\ (acked(d) \/ (state = "writing" /\ ack(d) /\ left <= 1)) \in BOOLEAN
      BY <1>d, <1>rest
    <2> HIDE DEF d
    <2> QED  BY <1>new, <2>d DEF RegB
  <1>data. data' \in [0 .. BufSize - 1 -> Bytes] /\ data'[1] = <<Command(req), 1>>
    <2>type. data \in [0 .. BufSize - 1 -> Bytes] /\ rSR \in Bytes
      BY <1>old DEF CudaTypeOK
    <2>one. 1 \in 0 .. BufSize - 1
      BY Assumptions
    <2> QED  BY <1>new, <1>rest, <1>idx, <2>type, <2>one
  <1>types. DriverTypeOK'
    <2>chip. CudaTypeOK'
      BY <1>old, <1>new, <1>rB, <1>bits, <1>data, <1>write, <1>idx, <1>rest DEF CudaTypeOK, RegB
    <2> QED  BY <2>chip, <1>old, <1>write, <1>idx DEF DriverTypeOK
  <1>shape. Sending'
    BY <1>new, <1>rest, <1>rB, <1>bits, <1>data, <1>write, <1>idx DEF Sending
  <1> QED  BY <1>types, <1>shape, <1>write
           DEF ShapeInv, Rest, Resting, Idle, Awaiting, ReadDone, Reading

\* TIP rises: the command is answered at once.
LEMMA WriteLast ==
  ASSUME CudaInv, Guest(Write), drv = "sending", ~More
  PROVE  DriverTypeOK' /\ ShapeInv'
  <1> USE DEF CudaInv, Guest
  <1>num. CommandLen \in [Commands -> 2 .. Overflow] /\ NoCommand \notin Commands
    BY Assumptions
  <1>old. DriverTypeOK /\ CudaTypeOK /\ rB \in RegB /\ seen = rB /\ at = "writeB"
    BY DEF DriverTypeOK, CudaTypeOK, RegB, ShapeInv, Write
  <1>rest. /\ state = "reading" /\ ~rB.tip /\ req # NoCommand /\ ~srOut
           /\ buf = <<>> /\ data[1] = <<Command(req), 1>>
    BY <1>old DEF ShapeInv, Sending
  <1>packet. PICK p \in Outgoing : p = Reply(req)
    BY <1>old, <1>rest DEF Outgoing, DriverTypeOK
  <1> DEFINE d == [seen EXCEPT !.tack = TRUE, !.tip = TRUE]
             high == [d EXCEPT !.treq = TRUE]
  <1>d. d \in RegB /\ d.tip /\ high \in RegB /\ high.tack = TRUE
    BY <1>old DEF RegB
  <1>write. /\ cuda_write_B(d)
            /\ drv' = "awaiting" /\ at' = "out"
            /\ UNCHANGED <<index, buf, reply, status, seen, req, done, events, posted, queue, loop,
                           trying, raced>>
    BY DEF Write, eventVars, Release
  <1>end. TransferEnd(d)
    BY <1>rest, <1>d, <1>write DEF cuda_write_B, TransferByte, TransferStart
  <1>new. cuda_send_packet(p, high) /\ state' = "idle" /\ UNCHANGED <<rSR, srOut>>
    <2>n. Reply(data[1][1].n) = p
      BY <1>rest, <1>packet DEF Command
    <2> QED  BY <1>end, <1>rest, <2>n DEF TransferEnd
  <1>sent. /\ Holds(p)' /\ left' \in Nat /\ left' # 0 /\ pos' = 0
           /\ srInt' /\ irq' /\ rB' \in RegB /\ ~rB'.treq /\ rB'.tip /\ rB'.tack = high.tack
           /\ srInt' \in BOOLEAN /\ irq' \in BOOLEAN
           /\ data' \in [0 .. BufSize - 1 -> Bytes]
    <2> HIDE DEF d, high
    <2> QED  BY <1>old, <1>new, <1>d, SendPacket
  <1>types. DriverTypeOK'
    <2>chip. CudaTypeOK'
      BY <1>old, <1>new, <1>sent, <1>write, Assumptions DEF CudaTypeOK, RegB
    <2> QED  BY <2>chip, <1>old, <1>write DEF DriverTypeOK
  <1>due. Due(p)'
    BY <1>packet, <1>write DEF Due
  <1>shape. Rest' /\ Awaiting'
    BY <1>new, <1>rest, <1>sent, <1>write, <1>due, <1>d DEF Rest, Resting, Awaiting
  <1> QED  BY <1>types, <1>shape, <1>write
           DEF ShapeInv, Idle, ReadDone, Sending, Reading

\* An edge of TACK asks for the next byte; TIP rises behind the last.
LEMMA WriteRead ==
  ASSUME CudaInv, Guest(Write), drv = "reading"
  PROVE  DriverTypeOK' /\ ShapeInv'
  <1> USE DEF CudaInv, Guest
  <1>old. DriverTypeOK /\ CudaTypeOK /\ rB \in RegB /\ seen = rB /\ at = "writeB"
          /\ left \in Nat /\ pos \in Nat
    BY DEF DriverTypeOK, CudaTypeOK, RegB, ShapeInv, Write
  <1>rest. /\ state = "writing" /\ ~rB.tip /\ ~srOut
           /\ (rB.treq <=> left <= 0) /\ (status.treq <=> rB.treq)
    BY <1>old DEF ShapeInv, Reading
  <1>read. PICK p \in Outgoing : Holds(p) /\ HasRead(p, pos) /\ Wanted(p)
    BY DEF ShapeInv, Reading
  <1>p. Length(p) \in 2 .. BufSize - 1 /\ BufSize \in Nat
    BY PacketFacts, Assumptions
  <1>same. /\ at' = "out"
           /\ UNCHANGED <<index, buf, reply, status, seen, req, done, events, posted, queue, loop,
                          trying, raced>>
    BY DEF Write, eventVars
  <1>kept. Wanted(p)' /\ \A k : HasRead(p, k)' = HasRead(p, k)
    BY <1>read, <1>same DEF Wanted, HasRead
  <1>more. CASE ~status.treq
    <2> DEFINE d == [seen EXCEPT !.tack = ~@]
    <2>d. d \in RegB /\ d.tip = rB.tip /\ ack(d) /\ d.treq = rB.treq
      BY <1>old DEF RegB, ack
    <2>write. cuda_write_B(d) /\ drv' = "reading"
      BY <1>more DEF Write, Pulse
    <2>byte. TransferByte(d)
      BY <1>rest, <2>d, <2>write DEF cuda_write_B, TransferEnd, TransferStart
    <2>new. /\ srInt' = (srInt \/ ack(d)) /\ irq' = (irq \/ srInt')
            /\ rB' = [d EXCEPT !.treq = acked(d) \/ (state = "writing" /\ ack(d) /\ left <= 1)]
            /\ UNCHANGED <<rSR, srOut, state, left, pos, data>>
      BY <2>byte, <1>rest DEF TransferByte
    <2>bits. srInt' /\ srInt' \in BOOLEAN /\ irq' /\ irq' \in BOOLEAN
      BY <2>new, <2>d
    <2>left. left >= 1
      BY <1>rest, <1>more, <1>old
    <2>acked. (acked(d) \/ (state = "writing" /\ ack(d) /\ left <= 1)) <=> left <= 1
      BY <2>d, <1>rest, <1>more DEF acked
    <2>rB. rB' \in RegB /\ ~rB'.tip /\ (rB'.treq <=> left <= 1)
      <3>d. d \in RegB /\ ~d.tip
        BY <2>d, <1>rest
      <3> HIDE DEF d
      <3> QED  BY <2>new, <2>acked, <3>d DEF RegB
    <2>types. DriverTypeOK'
      <3>chip. CudaTypeOK'
        BY <1>old, <2>new, <2>rB, <2>bits, <1>same DEF CudaTypeOK, RegB
      <3> QED  BY <3>chip, <1>old, <1>same, <2>write DEF DriverTypeOK
    <2>holds. Holds(p)' /\ HasRead(p, pos)'
      <3> HasRead(p, pos)
        BY <1>read
      <3> QED  BY <1>read, <2>new, <1>same DEF Holds, HasRead
    <2>shape. Reading'
      BY <2>new, <1>rest, <2>rB, <2>bits, <2>left, <2>holds, <1>kept, <1>same, <2>write DEF Reading
    <2> QED  BY <2>types, <2>shape, <1>same, <2>write
             DEF ShapeInv, Rest, Resting, Idle, Awaiting, ReadDone, Sending
  <1>last. CASE status.treq
    <2> DEFINE d == [seen EXCEPT !.tack = TRUE, !.tip = TRUE]
               high == [d EXCEPT !.treq = TRUE]
    <2>d. d \in RegB /\ d.tip /\ high \in RegB /\ high.tack /\ high.treq /\ high.tip
      BY <1>old DEF RegB
    <2>write. cuda_write_B(d) /\ drv' = "read_done"
      BY <1>last DEF Write, Release
    <2>end. TransferEnd(d)
      BY <1>rest, <2>d, <2>write DEF cuda_write_B, TransferByte, TransferStart
    <2>new. /\ rB' = high /\ srInt' = TRUE /\ irq' \in BOOLEAN /\ left' = 0 /\ pos' = 0
            /\ UNCHANGED <<data, rSR, srOut>> /\ state' = "idle"
      BY <2>end, <1>rest, <1>old DEF TransferEnd, CudaTypeOK
    <2>types. DriverTypeOK'
      <3>chip. CudaTypeOK'
        BY <1>old, <2>new, <2>d, <1>same DEF CudaTypeOK, RegB
      <3> QED  BY <3>chip, <1>old, <1>same, <2>write DEF DriverTypeOK
    <2>whole. HasRead(p, Length(p))
      <3> pos = Length(p)
        BY <1>read, <1>rest, <1>last, <1>old, <1>p DEF Holds
      <3> QED  BY <1>read
    <2>shape. Rest' /\ ReadDone'
      BY <2>new, <1>rest, <2>d, <1>kept, <2>whole, <1>same, <2>write DEF Rest, Resting, ReadDone
    <2> QED  BY <2>types, <2>shape, <1>same, <2>write
             DEF ShapeInv, Idle, Awaiting, Reading, Sending
  <1> QED  BY <1>more, <1>last

-----------------------------------------------------------------------------
\* the refinement mapping
Transit == inQueue \cup inChip \cup inDriver

ChannelStep == [Channel!Next]_(Channel!vars)

\* A step that leaves the events in transit alone.
LEMMA Same ==
  ASSUME Transit' = Transit, UNCHANGED <<posted, events>>
  PROVE  ChannelStep
  BY DEF ChannelStep, Transit, Channel!vars

\* what is in the chip's buffer and in the driver's
LEMMA ChipEvent ==
  ASSUME NEW p \in Outgoing, Holds(p), left \in Nat, pos \in Nat
  PROVE  inChip = IF left # 0 /\ state # "reading" /\ p.kind = "event" THEN {p.n} ELSE {}
  <1>at. left # 0 => data[pos] = <<p, pos>>
    BY PacketFacts, Assumptions DEF Holds
  <1> QED  BY <1>at DEF inChip

\* The event the driver is reading.
LEMMA DriverEvent ==
  ASSUME NEW p \in Outgoing, NEW k \in Nat, HasRead(p, k)
  PROVE  inDriver = IF k # 0 /\ p.kind = "event" THEN {p.n} ELSE {}
  <1>none. CASE k = 0
    <2> buf = <<>>
      BY <1>none DEF HasRead
    <2> QED  BY <1>none DEF inDriver
  <1>some. CASE k # 0
    <2>len. 1 \in 1 .. k
      BY <1>some
    <2>buf. buf[1] = <<p, 0>> /\ DOMAIN buf = 1 .. k
      BY <2>len DEF HasRead
    <2>not. buf # <<>>
      BY <2>buf, <2>len
    <2> QED  BY <1>some, <2>buf, <2>not DEF inDriver
  <1> QED  BY <1>none, <1>some

\* the queue and the thread are not concerned
LEMMA Unqueued ==
  ASSUME CudaInv, UNCHANGED <<queue, trying, posted, events>>,
         inChip' \cup inDriver' = inChip \cup inDriver,
         drv' = "read_done" => \A e \in inDriver', k \in inChip' : e < k
  PROVE  OrderInv' /\ ChannelStep
  <1>queue. inQueue' = inQueue
    BY DEF inQueue
  <1>order. OrderInv'
    BY <1>queue DEF OrderInv, CudaInv
  <1>step. Transit' = Transit
    BY <1>queue DEF Transit
  <1> QED  BY <1>order, <1>step, Same

\* Steps that move no event.
LEMMA QuietFlows ==
  ASSUME CudaInv,
         \/ Guest(\E c \in Commands : Request(c)) \/ Guest(Start) \/ Guest(Load)
         \/ Guest(ReadB) \/ Guest(Enter) \/ Host(LoopStart)
  PROVE  OrderInv' /\ ChannelStep
  <1>same. UNCHANGED <<queue, trying, posted, events, data, pos, left, state, buf, drv>>
    BY DEF Guest, Host, Request, Start, Load, ReadB, Enter, LoopStart, chipVars, eventVars,
           cuda_write_SR
  <1>sets. inChip' = inChip /\ inDriver' = inDriver
    BY <1>same DEF inChip, inDriver
  <1> QED  BY <1>same, <1>sets, Unqueued DEF CudaInv, OrderInv

\* A command that starts overwrites the event in the buffer.
LEMMA TipFlows ==
  ASSUME CudaInv, Guest(Tip), Sending', DriverTypeOK'
  PROVE  OrderInv' /\ ChannelStep
  <1>old. DriverTypeOK /\ CudaTypeOK /\ MaxEvents \in Nat
    BY Assumptions DEF CudaInv, DriverTypeOK
  <1>same. UNCHANGED <<queue, trying, posted, events, buf>> /\ drv' = "first"
    BY DEF Guest, Tip, eventVars
  <1>buf. buf = <<>> /\ buf' = <<>>
    BY <1>same DEF Sending
  <1>new. inChip' = {} /\ inDriver' = {} /\ inDriver = {} /\ inQueue' = inQueue
    BY <1>same, <1>buf DEF Sending, inChip, inDriver, inQueue
  <1>order. OrderInv'
    BY <1>new, <1>same DEF OrderInv, CudaInv
  <1>lost. CASE inChip # {}
    <2>n. PICK n : inChip = {n}
      BY <1>lost DEF inChip
    <2>num. n \in 1 .. posted /\ n \in 1 .. MaxEvents /\ \A k \in inQueue : n < k
      BY <2>n, <1>old DEF CudaInv, OrderInv, CudaTypeOK
    <2>not. n \notin inQueue
      BY <2>num
    <2> QED  BY <1>same, <1>new, <1>order, <2>n, <2>num, <2>not
             DEF ChannelStep, Channel!Next, Channel!Lose, Transit
  <1>none. CASE inChip = {}
    <2> QED  BY <1>none, <1>new, <1>same, <1>order, Same DEF Transit
  <1> QED  BY <1>lost, <1>none

\* The event becomes the driver's with its first byte and is received at the end of its
\* packet.
LEMMA ShiftFlows ==
  ASSUME CudaInv, Guest(Shift), DriverTypeOK'
  PROVE  OrderInv' /\ ChannelStep
  <1>old. DriverTypeOK /\ CudaTypeOK /\ ShapeInv /\ OrderInv /\ MaxEvents \in Nat
          /\ left \in Nat /\ pos \in Nat /\ posted \in 0 .. MaxEvents
    BY Assumptions DEF CudaInv, DriverTypeOK, CudaTypeOK
  <1>same. UNCHANGED <<queue, trying, posted, data, state>>
    BY DEF Guest, Shift, eventVars, cuda_write_SR, cuda_read_SR
  <1>sending. CASE drv \in {"first", "sending"}
    <2>new. state = "reading" /\ buf' = buf /\ events' = events /\ drv' = drv
      BY <1>sending, <1>old DEF ShapeInv, Sending, Guest, Shift, Finished
    <2>sets. inChip = {} /\ inChip' = {} /\ inDriver' = inDriver
      BY <2>new, <1>same DEF inChip, inDriver
    <2> QED  BY <2>sets, <2>new, <1>same, <1>sending, Unqueued
  <1>none. CASE drv \in {"idle", "awaiting"}
    <2>rest. state = "idle"
      BY <1>none, <1>old DEF ShapeInv, Rest, Resting
    <2>new. UNCHANGED <<buf, events, drv, left, pos>>
      BY <1>none, <2>rest DEF Guest, Shift, Finished, cuda_read_SR
    <2>sets. inChip' = inChip /\ inDriver' = inDriver
      BY <2>new, <1>same DEF inChip, inDriver
    <2> QED  BY <2>sets, <2>new, <1>same, <1>none, Unqueued
  <1>reading. CASE drv = "reading"
    <2>rest. state = "writing" /\ left >= 1 /\ at = "shift"
      BY <1>reading, <1>old DEF ShapeInv, Reading, Guest, Shift
    <2>read. PICK p \in Outgoing : Holds(p) /\ HasRead(p, pos) /\ Wanted(p)
      BY <1>reading, <1>old DEF ShapeInv, Reading
    <2>byte. data[pos] = <<p, pos>> /\ left # 0
      BY <2>read, <2>rest, <1>old, PacketFacts, Assumptions DEF Holds
    <2>new. /\ buf' = Append(buf, <<p, pos>>) /\ events' = events /\ drv' = drv
            /\ pos' = pos + 1 /\ left' = left - 1
      BY <1>reading, <2>rest, <2>byte DEF Guest, Shift, Finished, cuda_read_SR, shifted
    <2>now. /\ inChip = IF p.kind = "event" THEN {p.n} ELSE {}
            /\ inDriver = IF pos # 0 /\ p.kind = "event" THEN {p.n} ELSE {}
      BY <2>read, <2>rest, <2>byte, <1>old, ChipEvent, DriverEvent
    <2>num. pos + 1 \in Nat /\ pos + 1 # 0 /\ left - 1 \in Nat /\ (left - 1) + (pos + 1) = left + pos
      BY <1>old, <2>rest
    <2>chip. inChip' = {} \/ inChip' = inChip
      <3>len. Length(p) \in Nat /\ left + pos = Length(p)
        BY <2>read, PacketFacts, Assumptions DEF Holds
      <3>in. left - 1 # 0 => pos + 1 \in 0 .. Length(p) - 1
        BY <3>len, <1>old, <2>rest
      <3>byte. left - 1 # 0 => data[pos + 1] = <<p, pos + 1>>
        BY <3>in, <2>read DEF Holds
      <3>state. state' # "reading" /\ state # "reading"
        BY <1>same, <2>rest
      <3>last. left - 1 = 0 => inChip' = {}
        BY <2>new DEF inChip
      <3>more. ASSUME left - 1 # 0
               PROVE  inChip' = IF p.kind = "event" THEN {p.n} ELSE {}
        <4>at. data'[pos'] = <<p, pos + 1>>
          BY <3>more, <3>byte, <2>new, <1>same
        <4>left. left' # 0
          BY <3>more, <2>new
        <4>first. data'[pos'][1] = p
          BY <4>at
        <4> QED  BY <4>first, <4>left, <3>state DEF inChip
      <3> QED  BY <3>last, <3>more, <2>now
    <2>driver. inDriver' = inChip
      <3>buf. buf' = [i \in 1 .. pos + 1 |-> <<p, i - 1>>]
        BY <2>read, <2>new, <1>old, ReadOn
      <3>len. 1 \in 1 .. pos + 1
        BY <2>num
      <3>some. buf'[1] = <<p, 0>> /\ DOMAIN buf' = 1 .. pos + 1 /\ buf' # <<>>
        BY <3>buf, <3>len
      <3> QED  BY <3>some, <2>now DEF inDriver
    <2> QED  BY <2>now, <2>chip, <2>driver, <2>new, <1>same, <1>reading, Unqueued
  <1>done. CASE drv = "read_done"
    <2>rest. state = "idle" /\ at = "shift"
      BY <1>done, <1>old DEF ShapeInv, Rest, Resting, Guest, Shift
    <2>read. PICK p \in Outgoing : HasRead(p, Length(p)) /\ Wanted(p)
      BY <1>done, <2>rest, <1>old DEF ShapeInv, ReadDone
    <2>p. Length(p) \in Nat /\ Length(p) # 0 /\ (p.kind = "event" => p.n \in 1 .. MaxEvents)
          /\ buf[1] = <<p, 0>>
      BY <2>read, PacketFacts, EventRead, Assumptions, <1>old DEF DriverTypeOK
    <2>now. inDriver = IF p.kind = "event" THEN {p.n} ELSE {}
      BY <2>read, <2>p, DriverEvent
    <2>new. /\ buf' = <<>> /\ UNCHANGED <<left, pos>>
            /\ events' = IF ~reply THEN Append(events, p.n) ELSE events
      BY <1>done, <2>rest, <2>p DEF Guest, Shift, cuda_read_SR
    <2>sets. inDriver' = {} /\ inChip' = inChip /\ inQueue' = inQueue
      BY <2>new, <1>same DEF inChip, inDriver, inQueue
    <2>reply. CASE reply
      <3> inDriver = {}
        BY <2>reply, <2>read, <2>now DEF Wanted, Reply
      <3> QED  BY <2>reply, <2>sets, <2>new, <1>same, Unqueued
    <2>event. CASE ~reply
      <3>driver. inDriver = {p.n} /\ p.n \in 1 .. MaxEvents
        BY <2>event, <2>read, <2>now, <2>p DEF Wanted
      <3>first. \A k \in inQueue \cup inChip : p.n < k
        BY <3>driver, <1>done, <1>old DEF OrderInv
      <3>int. inQueue \cup inChip \subseteq Int /\ p.n \in Int
        <4>queue. inQueue \subseteq Int
          BY <1>old DEF inQueue, OrderInv, CudaTypeOK
        <4>chip. inChip \subseteq 1 .. posted
          BY <1>old DEF OrderInv
        <4> QED  BY <4>queue, <4>chip, <3>driver
      <3>not. p.n \notin inQueue \cup inChip /\ \A k \in inQueue \cup inChip : p.n <= k
        BY <3>first, <3>int
      <3>order. OrderInv'
        <4> drv' \in {"idle", "read_done"}
          BY <1>done DEF Guest, Shift
        <4> QED  BY <1>old, <2>sets, <1>same DEF OrderInv
      <3>receive. Channel!Receive(p.n)
        BY <3>driver, <3>not, <3>int, <2>sets, <2>new, <2>event, <1>same DEF Channel!Receive
      <3> QED  BY <3>order, <3>receive, <3>driver DEF ChannelStep, Channel!Next
    <2> QED  BY <2>reply, <2>event
  <1> QED  BY <1>sending, <1>none, <1>reading, <1>done, <1>old DEF DriverTypeOK

\* Writes of register B move no event.
LEMMA WriteFlows ==
  ASSUME CudaInv, Guest(Write), DriverTypeOK', ShapeInv'
  PROVE  OrderInv' /\ ChannelStep
  <1>old. DriverTypeOK /\ CudaTypeOK /\ ShapeInv /\ OrderInv /\ at = "writeB"
    BY DEF CudaInv, DriverTypeOK, Guest, Write
  <1>same. UNCHANGED <<queue, trying, posted, events>>
    BY DEF Guest, Write, eventVars
  <1>start. CASE Resting
    <2>buf. buf = <<>> /\ state = "idle"
      BY <1>start, <1>old DEF ShapeInv, Rest, Idle, Awaiting, ReadDone, Resting
    <2>write. cuda_write_B([seen EXCEPT !.tip = FALSE]) /\ drv' = "reading" /\ buf' = <<>>
      BY <1>start DEF Guest, Write, Resting
    <2>rB. rB.tip /\ ~srOut /\ seen = rB /\ rB \in RegB
      BY <1>start, <1>old DEF ShapeInv, Rest, CudaTypeOK, RegB
    <2>tip. ~[seen EXCEPT !.tip = FALSE].tip
      BY <2>rB DEF RegB
    <2>new. UNCHANGED <<pos, data, left>> /\ state' \in {"writing", "idle"}
      BY <2>write, <2>rB, <2>tip, <2>buf DEF cuda_write_B, TransferStart, TransferEnd, TransferByte
    <2>sets. inChip' = inChip /\ inDriver' = inDriver
      BY <2>buf, <2>write, <2>new DEF inChip, inDriver
    <2> QED  BY <2>sets, <2>write, <1>same, Unqueued
  <1>send. CASE drv \in {"first", "sending"}
    <2>rest. state = "reading" /\ buf = <<>>
      BY <1>send, <1>old DEF ShapeInv, Sending
    <2>new. buf' = buf /\ drv' \in {"sending", "awaiting"}
      BY <1>send DEF Guest, Write
    <2>chip. inChip = {} /\ inChip' = {}
      <3>now. inChip = {}
        BY <2>rest DEF inChip
      <3>byte. CASE drv' = "sending"
        <4> state' = "reading"
          BY <3>byte DEF ShapeInv, Sending
        <4> QED  BY <3>now DEF inChip
      <3>last. CASE drv' = "awaiting"
        <4> left' = 0 \/ (\E p \in Outgoing : Holds(p)' /\ p = Reply(req'))
          BY <3>last DEF ShapeInv, Rest, Resting, Due
        <4>rest. pos' = 0 /\ left' \in Nat
          BY <3>last DEF ShapeInv, Rest, Resting, DriverTypeOK, CudaTypeOK
        <4>none. ASSUME NEW p \in Outgoing, Holds(p)', p = Reply(req')
                 PROVE  inChip' = {}
          <5>byte. data'[0] = <<p, 0>>
            BY <4>none, PacketFacts, Assumptions DEF Holds
          <5> QED  BY <4>none, <4>rest, <5>byte DEF inChip, Reply
        <4>zero. left' = 0 => inChip' = {}
          BY DEF inChip
        <4> QED  BY <4>none, <4>zero, <3>now
      <3> QED  BY <3>now, <3>byte, <3>last, <2>new
    <2>sets. inDriver' = inDriver
      BY <2>new DEF inDriver
    <2> QED  BY <2>chip, <2>sets, <2>new, <1>same, Unqueued
  <1>read. CASE drv = "reading"
    <2>rest. state = "writing" /\ ~rB.tip /\ (status.treq <=> left <= 0) /\ seen = rB /\ rB \in RegB
             /\ left \in Nat
      BY <1>read, <1>old DEF ShapeInv, Reading, CudaTypeOK, RegB
    <2>buf. buf' = buf /\ inDriver' = inDriver
      BY <1>read DEF Guest, Write, inDriver
    <2>more. CASE ~status.treq
      <3>write. cuda_write_B([seen EXCEPT !.tack = ~@]) /\ drv' = "reading"
        BY <1>read, <2>more DEF Guest, Write, Pulse
      <3>tip. [seen EXCEPT !.tack = ~@].tip = rB.tip
        BY <2>rest DEF RegB
      <3>new. UNCHANGED <<state, left, pos, data>>
        BY <3>write, <3>tip, <2>rest DEF cuda_write_B, TransferStart, TransferEnd, TransferByte
      <3>chip. inChip' = inChip
        BY <3>new DEF inChip
      <3> QED  BY <3>chip, <3>write, <2>buf, <1>same, Unqueued
    <2>last. CASE status.treq
      <3>write. drv' = "read_done" /\ left = 0
        BY <1>read, <2>last, <2>rest DEF Guest, Write
      <3>left. left' = 0
        <4>b. cuda_write_B([seen EXCEPT !.tack = TRUE, !.tip = TRUE])
          BY <1>read, <2>last DEF Guest, Write, Release
        <4>tip. [seen EXCEPT !.tack = TRUE, !.tip = TRUE].tip
          BY <2>rest DEF RegB
        <4> QED  BY <4>b, <4>tip, <2>rest DEF cuda_write_B, TransferStart, TransferEnd, TransferByte
      <3>chip. inChip' = {} /\ inChip = {}
        BY <3>left, <3>write DEF inChip
      <3> QED  BY <3>chip, <2>buf, <1>same, Unqueued
    <2> QED  BY <2>more, <2>last
  <1> QED  BY <1>start, <1>send, <1>read, <1>old DEF DriverTypeOK, Resting

\* cudaEventHandler posts an event behind all others.
LEMMA PostFlows ==
  ASSUME CudaInv, Host(cudaEventHandler)
  PROVE  OrderInv' /\ ChannelStep
  <1>old. OrderInv /\ queue \in Seq(1 .. MaxEvents) /\ posted \in 0 .. MaxEvents /\ MaxEvents \in Nat
          /\ trying \in 0 .. MaxEvents
    BY Assumptions DEF CudaInv, DriverTypeOK, CudaTypeOK
  <1>new. /\ posted < MaxEvents /\ posted' = posted + 1 /\ queue' = Append(queue, posted + 1)
          /\ UNCHANGED <<trying, events, drv>>
    BY DEF Host, cudaEventHandler
  <1>sets. inChip' = inChip /\ inDriver' = inDriver
    BY DEF Host, cudaEventHandler, chipVars, inChip, inDriver
  <1>seq. /\ Len(queue) \in Nat /\ Len(queue') = Len(queue) + 1
          /\ \A i \in 1 .. Len(queue) : queue'[i] = queue[i]
          /\ queue'[Len(queue) + 1] = posted + 1
    BY <1>old, <1>new
  <1>num. posted + 1 \in Nat /\ 1 .. posted \subseteq 1 .. posted + 1 /\ posted + 1 \in 1 .. posted + 1
          /\ \A k \in 1 .. posted : k < posted + 1
    BY <1>old
  <1>queue. inQueue' = inQueue \cup {posted + 1}
    <2>ids. {queue'[i] : i \in 1 .. Len(queue')} = {queue[i] : i \in 1 .. Len(queue)} \cup {posted + 1}
      <3>r. 1 .. Len(queue) + 1 = 1 .. Len(queue) \cup {Len(queue) + 1}
        BY <1>seq
      <3> QED  BY <3>r, <1>seq
    <2> QED  BY <2>ids, <1>new DEF inQueue
  <1>order. OrderInv'
    <2>range. \A i \in 1 .. Len(queue') : queue'[i] \in 1 .. posted'
      <3> SUFFICES ASSUME NEW i \in 1 .. Len(queue) + 1 PROVE queue'[i] \in 1 .. posted + 1
        BY <1>seq, <1>new
      <3>old. CASE i \in 1 .. Len(queue)
        BY <3>old, <1>old, <1>seq, <1>num DEF OrderInv
      <3>last. CASE i = Len(queue) + 1
        BY <3>last, <1>seq, <1>num
      <3> QED  BY <3>old, <3>last, <1>seq
    <2>inc. \A i, j \in 1 .. Len(queue') : i < j => queue'[i] < queue'[j]
      <3> SUFFICES ASSUME NEW i \in 1 .. Len(queue) + 1, NEW j \in 1 .. Len(queue) + 1, i < j
                   PROVE  queue'[i] < queue'[j]
        BY <1>seq
      <3>i. i \in 1 .. Len(queue)
        BY <1>seq
      <3>old. CASE j \in 1 .. Len(queue)
        BY <3>old, <3>i, <1>old, <1>seq DEF OrderInv
      <3>last. CASE j = Len(queue) + 1
        BY <3>last, <3>i, <1>seq, <1>num, <1>old DEF OrderInv
      <3> QED  BY <3>old, <3>last, <1>seq
    <2>trying. trying' # 0 => trying' <= posted' /\ \A i \in 1 .. Len(queue') : trying' < queue'[i]
      <3>a. trying # 0 => trying <= posted + 1 /\ trying < posted + 1
        BY <1>old DEF OrderInv
      <3>b. \A i \in 1 .. Len(queue) + 1 : i \in 1 .. Len(queue) \/ i = Len(queue) + 1
        BY <1>seq
      <3> QED  BY <3>a, <3>b, <1>old, <1>seq, <1>new DEF OrderInv
    <2>ahead. \A e \in inChip' \cup inDriver' : e \in 1 .. posted' /\ \A k \in inQueue' : e < k
      BY <1>old, <1>queue, <1>sets, <1>new, <1>num DEF OrderInv
    <2> QED  BY <2>range, <2>inc, <2>trying, <2>ahead, <1>sets, <1>new, <1>old DEF OrderInv
  <1>step. Channel!Post
    BY <1>queue, <1>sets, <1>new DEF Channel!Post
  <1> QED  BY <1>order, <1>step DEF ChannelStep, Channel!Next

\* The thread takes the oldest event of the queue.
LEMMA deQueueFlows ==
  ASSUME CudaInv, Host(deQueue)
  PROVE  OrderInv' /\ ChannelStep
  <1>old. OrderInv /\ queue \in Seq(1 .. MaxEvents) /\ MaxEvents \in Nat
    BY Assumptions DEF CudaInv, DriverTypeOK, CudaTypeOK
  <1>same. UNCHANGED <<posted, events, drv, data, pos, left, state, buf>> /\ trying = 0
    BY DEF Host, deQueue, chipVars
  <1>sets. inChip' = inChip /\ inDriver' = inDriver
    BY <1>same DEF inChip, inDriver
  <1>none. CASE queue = <<>>
    <2> UNCHANGED <<queue, trying>>
      BY <1>none DEF Host, deQueue
    <2> QED  BY <1>same, <1>sets, <1>old, Unqueued DEF OrderInv
  <1>some. CASE queue # <<>>
    <2>new. trying' = Head(queue) /\ queue' = Tail(queue)
      BY <1>some DEF Host, deQueue
    <2>seq. /\ Len(queue) \in Nat \ {0} /\ Len(queue') = Len(queue) - 1 /\ trying' = queue[1]
            /\ \A i \in 1 .. Len(queue) - 1 : queue'[i] = queue[i + 1]
      BY <2>new, <1>some, <1>old
    <2>first. trying' \in 1 .. posted /\ trying' # 0 /\ 1 \in 1 .. Len(queue)
      <3> 1 \in 1 .. Len(queue)
        BY <2>seq
      <3> QED  BY <2>seq, <1>old DEF OrderInv
    <2>next. \A i \in 1 .. Len(queue) - 1 : i + 1 \in 1 .. Len(queue) /\ 1 < i + 1
      BY <2>seq
    <2>queue. inQueue' = inQueue
      <3>ids. {queue'[i] : i \in 1 .. Len(queue')} \cup {trying'} = {queue[i] : i \in 1 .. Len(queue)}
        <4>split. \A i \in 1 .. Len(queue) : i = 1 \/ (i - 1 \in 1 .. Len(queue) - 1 /\ (i - 1) + 1 = i)
          BY <2>seq
        <4>in. \A i \in 1 .. Len(queue) :
                 queue[i] = trying' \/ \E k \in 1 .. Len(queue) - 1 : queue'[k] = queue[i]
          BY <4>split, <2>seq
        <4>out. \A k \in 1 .. Len(queue) - 1 : \E i \in 1 .. Len(queue) : queue'[k] = queue[i]
          BY <2>seq, <2>next
        <4> QED  BY <4>in, <4>out, <2>seq, <2>first
      <3> QED  BY <3>ids, <1>same, <2>first DEF inQueue
    <2>order. OrderInv'
      <3>range. \A i \in 1 .. Len(queue') : queue'[i] \in 1 .. posted /\ trying' < queue'[i]
        BY <2>seq, <2>next, <2>first, <1>old DEF OrderInv
      <3>inc. \A i, j \in 1 .. Len(queue') : i < j => queue'[i] < queue'[j]
        <4> \A i, j \in 1 .. Len(queue) - 1 : i < j => i + 1 < j + 1
          BY <2>seq
        <4> QED  BY <2>seq, <2>next, <1>old DEF OrderInv
      <3>trying. trying' <= posted
        BY <2>first
      <3> QED  BY <3>range, <3>inc, <3>trying, <2>queue, <1>sets, <1>same, <1>old DEF OrderInv
    <2>step. Transit' = Transit
      BY <2>queue, <1>sets DEF Transit
    <2> QED  BY <2>order, <2>step, <1>same, Same
  <1> QED  BY <1>none, <1>some

\* the thread's event leaves it
LEMMA Untried ==
  ASSUME CudaInv, trying # 0, trying' = 0, queue' = queue
  PROVE  inQueue = inQueue' \cup {trying} /\ \A k \in inQueue' : trying < k
  BY DEF inQueue, CudaInv, OrderInv

\* The thread's event moves into the buffer of the chip.
LEMMA TryFlows ==
  ASSUME CudaInv, Host(tryProcessCudaEvent)
  PROVE  OrderInv' /\ ChannelStep
  <1>old. OrderInv /\ CudaTypeOK /\ rB \in RegB /\ trying \in 1 .. MaxEvents /\ MaxEvents \in Nat
          /\ left = 0 /\ state = "idle"
    BY Assumptions DEF CudaInv, DriverTypeOK, CudaTypeOK, RegB, Host, tryProcessCudaEvent
  <1>same. UNCHANGED <<posted, events, drv, queue, state, buf>> /\ trying' = 0
    BY DEF Host, tryProcessCudaEvent
  <1>packet. PICK p \in Outgoing : p = Event(trying)
    BY <1>old DEF Outgoing
  <1>sent. left' # 0 /\ pos' = 0 /\ data'[0] = <<p, 0>>
    BY <1>packet, <1>old, SendPacket DEF Host, tryProcessCudaEvent
  <1>chip. inChip = {} /\ inChip' = {trying}
    <2>first. data'[pos'][1] = Event(trying)
      BY <1>sent, <1>packet
    <2> QED  BY <2>first, <1>sent, <1>old, <1>same DEF inChip, Event
  <1>queue. inQueue = inQueue' \cup {trying} /\ \A k \in inQueue' : trying < k
    BY <1>old, <1>same, Untried
  <1>driver. inDriver' = inDriver
    BY <1>same DEF inDriver
  <1>order. OrderInv'
    <2>mine. trying \in 1 .. posted
      BY <1>old DEF OrderInv
    <2>ahead. \A e \in inChip' \cup inDriver' : e \in 1 .. posted' /\ \A k \in inQueue' : e < k
      BY <2>mine, <1>chip, <1>queue, <1>driver, <1>same, <1>old DEF OrderInv
    <2>before. \A e \in inDriver', k \in inChip' : e < k
      BY <1>chip, <1>queue, <1>driver, <1>old DEF OrderInv
    <2> QED  BY <2>ahead, <2>before, <1>same, <1>old DEF OrderInv
  <1>step. Transit' = Transit
    BY <1>chip, <1>queue, <1>driver DEF Transit
  <1> QED  BY <1>order, <1>step, <1>same, Same

\* The time-out loses the thread's event.
LEMMA TimeOutFlows ==
  ASSUME CudaInv, Host(TimeOut)
  PROVE  OrderInv' /\ ChannelStep
  <1>old. OrderInv /\ trying \in 1 .. MaxEvents /\ MaxEvents \in Nat /\ posted \in 0 .. MaxEvents
    BY Assumptions DEF CudaInv, DriverTypeOK, CudaTypeOK, Host, TimeOut
  <1>same. UNCHANGED <<posted, events, drv, queue, data, pos, left, state, buf>> /\ trying' = 0
    BY DEF Host, TimeOut, chipVars
  <1>sets. inChip' = inChip /\ inDriver' = inDriver
    BY <1>same DEF inChip, inDriver
  <1>queue. inQueue = inQueue' \cup {trying} /\ \A k \in inQueue' : trying < k
    BY <1>old, <1>same, Untried
  <1>order. OrderInv'
    BY <1>same, <1>sets, <1>queue, <1>old DEF OrderInv
  <1>not. trying \notin inQueue' \cup inChip \cup inDriver
    <2>queue. trying \notin inQueue'
      BY <1>queue, <1>old
    <2>ahead. \A e \in inChip \cup inDriver : e \in 1 .. posted /\ e < trying
      BY <1>queue, <1>old DEF OrderInv
    <2> QED  BY <2>queue, <2>ahead, <1>old
  <1>step. Channel!Lose(trying)
    BY <1>queue, <1>sets, <1>not, <1>same DEF Channel!Lose
  <1> QED  BY <1>order, <1>step, <1>old DEF ChannelStep, Channel!Next

-----------------------------------------------------------------------------
\* The invariant holds at first, and no event is in transit.
LEMMA CudaStart == Init => CudaInv /\ Channel!Init
  <1> SUFFICES ASSUME Init PROVE CudaInv /\ Channel!Init
    OBVIOUS
  <1> USE DEF Init, CudaInit
  <1>sets. inChip = {} /\ inDriver = {} /\ inQueue = {}
    BY DEF inChip, inDriver, inQueue
  <1>empty. <<>> \in Seq(Bytes) /\ <<>> \in Seq(1 .. MaxEvents) /\ Len(queue) = 0 /\ <<>> \in Bytes
    BY DEF Bytes
  <1>types. DriverTypeOK
    BY <1>empty, Assumptions DEF DriverTypeOK, CudaTypeOK
  <1>shape. ShapeInv
    BY DEF ShapeInv, Rest, Resting, Idle, Awaiting, ReadDone, Sending, Reading
  <1>order. OrderInv
    BY <1>sets, <1>empty DEF OrderInv
  <1> QED  BY <1>types, <1>shape, <1>order, <1>sets DEF CudaInv, Channel!Init

\* Every step keeps the invariant and is a step of the channel.
LEMMA CudaStep == CudaInv /\ [Next]_vars => CudaInv' /\ ChannelStep
  <1> SUFFICES ASSUME CudaInv, [Next]_vars PROVE CudaInv' /\ ChannelStep
    OBVIOUS
  <1>request. ASSUME Guest(\E c \in Commands : Request(c)) PROVE CudaInv' /\ ChannelStep
    <2> PICK c \in Commands : Guest(Request(c))
      BY <1>request DEF Guest
    <2> QED  BY <1>request, RequestKeeps, QuietFlows DEF CudaInv
  <1>driver. ASSUME Guest(Driver) PROVE CudaInv' /\ ChannelStep
    <2>quiet. ASSUME Guest(Start) \/ Guest(Load) \/ Guest(ReadB) \/ Guest(Enter)
              PROVE  CudaInv' /\ ChannelStep
      BY <2>quiet, StartKeeps, LoadKeeps, ReadBKeeps, EnterKeeps, QuietFlows DEF CudaInv
    <2>tip. ASSUME Guest(Tip) PROVE CudaInv' /\ ChannelStep
      <3>keeps. DriverTypeOK' /\ ShapeInv'
        BY <2>tip, TipKeeps
      <3> Sending'
        BY <3>keeps DEF ShapeInv
      <3> QED  BY <2>tip, <3>keeps, TipFlows DEF CudaInv
    <2>shift. ASSUME Guest(Shift) PROVE CudaInv' /\ ChannelStep
      <3>drv. drv \in {"idle", "first", "sending", "awaiting", "reading", "read_done"}
        BY DEF CudaInv, DriverTypeOK
      <3>keeps. DriverTypeOK' /\ ShapeInv'
        BY <2>shift, <3>drv, ShiftOut, ShiftNone, ShiftEnd, ShiftIn
      <3> QED  BY <2>shift, <3>keeps, ShiftFlows DEF CudaInv
    <2>write. ASSUME Guest(Write) PROVE CudaInv' /\ ChannelStep
      <3>drv. Resting \/ drv \in {"first", "sending"} \/ drv = "reading"
        BY DEF CudaInv, DriverTypeOK, Resting
      <3>last. drv = "first" => More
        BY Assumptions DEF CudaInv, ShapeInv, Sending, DriverTypeOK, More
      <3>keeps. DriverTypeOK' /\ ShapeInv'
        BY <2>write, <3>drv, <3>last, WriteStart, WriteByte, WriteLast, WriteRead
      <3> QED  BY <2>write, <3>keeps, WriteFlows DEF CudaInv
    <2>which. \/ Guest(Start) \/ Guest(Load) \/ Guest(ReadB) \/ Guest(Enter)
              \/ Guest(Tip) \/ Guest(Shift) \/ Guest(Write)
      BY <1>driver DEF Guest, Driver
    <2> QED  BY <2>quiet, <2>tip, <2>shift, <2>write, <2>which
  <1>handler. ASSUME Host(cudaEventHandler) PROVE CudaInv' /\ ChannelStep
    BY <1>handler, HostKeeps, PostFlows DEF CudaInv
  <1>loop. ASSUME Host(LoopStart) PROVE CudaInv' /\ ChannelStep
    BY <1>loop, HostKeeps, QuietFlows DEF CudaInv
  <1>thread. ASSUME Host(EventThread) PROVE CudaInv' /\ ChannelStep
    <2>which. Host(deQueue) \/ Host(tryProcessCudaEvent) \/ Host(TimeOut)
      BY <1>thread DEF Host, EventThread
    <2> QED  BY <2>which, HostKeeps, TryKeeps, deQueueFlows, TryFlows, TimeOutFlows DEF CudaInv
  <1>stay. ASSUME UNCHANGED vars PROVE CudaInv' /\ ChannelStep
    <2>same. /\ UNCHANGED <<chipVars, drv, at, status, seen, req, done, index, buf, reply, events, raced>>
             /\ UNCHANGED <<posted, queue, loop, trying>>
      BY <1>stay DEF vars, eventVars, driverVars
    <2>shape. ShapeInv'
      BY <2>same, ShapeOfChip DEF CudaInv
    <2>types. DriverTypeOK'
      BY <2>same DEF CudaInv, DriverTypeOK, CudaTypeOK, chipVars
    <2>sets. inChip' = inChip /\ inDriver' = inDriver
      BY <2>same DEF inChip, inDriver, chipVars
    <2>flows. OrderInv' /\ ChannelStep
      BY <2>same, <2>sets, Unqueued DEF CudaInv, OrderInv
    <2> QED  BY <2>shape, <2>types, <2>flows DEF CudaInv
  <1> QED  BY <1>request, <1>driver, <1>handler, <1>loop, <1>thread, <1>stay DEF Next

\* It holds of every behaviour.
LEMMA CudaInvariant == Spec => []CudaInv
  <1>start. Init => CudaInv
    BY CudaStart
  <1>step. CudaInv /\ [Next]_vars => CudaInv'
    BY CudaStep
  <1> QED  BY <1>start, <1>step, PTL DEF Spec

-----------------------------------------------------------------------------
(***************************************************************************)
(* What the driver takes for a complete packet is one whole packet, and    *)
(* the one it waits for, although cuda_send_packet of the event thread and *)
(* the commands of the guest use the one buffer.                           *)
(***************************************************************************)
THEOREM PacketsAreWhole == Spec => []WholePackets
  <1>now. CudaInv => WholePackets
    <2> SUFFICES ASSUME CudaInv, drv = "read_done", at \in {"out", "shift"}
                 PROVE  /\ buf # <<>>
                        /\ buf = [i \in 1 .. Length(buf[1][1]) |-> <<buf[1][1], i - 1>>]
                        /\ IF reply THEN buf[1][1] = Reply(req) ELSE buf[1][1].kind = "event"
      BY DEF WholePackets, CudaInv
    <2>read. PICK p \in Outgoing : HasRead(p, Length(p)) /\ Wanted(p)
      BY DEF CudaInv, ShapeInv, ReadDone
    <2>first. buf # <<>> /\ buf[1][1] = p
      BY <2>read, EventRead DEF CudaInv, DriverTypeOK
    <2> QED  BY <2>read, <2>first DEF HasRead, Wanted
  <1> QED  BY CudaInvariant, <1>now, PTL

(***************************************************************************)
(* Whenever the driver has something to do between two of its runs, SR_INT *)
(* says so, unless an event came between its two reads; while bytes of a   *)
(* packet go either way the interrupt comes with it.                       *)
(***************************************************************************)
THEOREM GuestIsTold == Spec => []Told
  <1>now. CudaInv => Told
    BY DEF CudaInv, DriverTypeOK, ShapeInv, Idle, Awaiting, ReadDone, Sending, Reading, Told
  <1> QED  BY CudaInvariant, <1>now, PTL

(***************************************************************************)
(* gCUDAEvents, the event thread, the buffer of the chip and the driver    *)
(* implement the channel of EventChannel, for any number of events.        *)
(***************************************************************************)
THEOREM CudaImplementsChannel == Spec => ImplementsChannel
  <1>start. Init => Channel!Init
    BY CudaStart
  <1>step. CudaInv /\ [Next]_vars => [Channel!Next]_(Channel!vars)
    BY CudaStep DEF ChannelStep
  <1> QED  BY CudaInvariant, <1>start, <1>step, PTL DEF Spec, ImplementsChannel, Channel!Spec

\* Channel!InOrder alone is not inductive: it needs that everything received was
\* posted before everything still in transit.
Typed ==
    /\ posted \in Nat
    /\ Transit \subseteq 1 .. posted
    /\ events \in Seq(1 .. posted)

Older == \A i \in 1 .. Len(events), k \in Transit : events[i] < k

ChannelInv == Typed /\ Older /\ Channel!InOrder

\* Each step of the channel keeps its invariant.
LEMMA PostKeeps == ASSUME ChannelInv, Channel!Post PROVE ChannelInv'
  <1> USE DEF ChannelInv, Typed, Older, Channel!InOrder
  <1>new. /\ posted' = posted + 1 /\ Transit' = Transit \cup {posted + 1} /\ events' = events
    BY DEF Channel!Post, Transit
  <1>type. Typed'
    BY <1>new
  <1>older. Older'
    <2> SUFFICES ASSUME NEW i \in 1 .. Len(events), NEW k \in Transit \cup {posted + 1}
                 PROVE  events[i] < k
      BY <1>new
    <2>a. events[i] \in 1 .. posted
      OBVIOUS
    <2> QED  BY <2>a
  <1>order. Channel!InOrder'
    BY <1>new
  <1> QED  BY <1>type, <1>older, <1>order

\* A lost event leaves the order of the others.
LEMMA LoseKeeps == ASSUME ChannelInv, NEW n, Channel!Lose(n) PROVE ChannelInv'
  <1>new. posted' = posted /\ Transit' \subseteq Transit /\ events' = events
    BY DEF Channel!Lose, Transit
  <1> QED  BY <1>new DEF ChannelInv, Typed, Older, Channel!InOrder

\* The oldest event in transit is newer than all received.
LEMMA ReceiveKeeps == ASSUME ChannelInv, NEW n, Channel!Receive(n) PROVE ChannelInv'
  <1> USE DEF ChannelInv, Typed, Older, Channel!InOrder
  <1>new. /\ posted' = posted /\ Transit' = Transit \ {n} /\ events' = Append(events, n)
          /\ n \in Transit /\ \A k \in Transit : n <= k
    BY DEF Channel!Receive, Transit
  <1>n. n \in 1 .. posted
    BY <1>new
  <1>len. /\ Len(events') = Len(events) + 1
          /\ \A i \in 1 .. Len(events) : events'[i] = events[i]
          /\ events'[Len(events) + 1] = n
    BY <1>n, <1>new
  <1>each. \A i \in 1 .. Len(events') : i \in 1 .. Len(events) \/ i = Len(events) + 1
    BY <1>len
  <1>type. Typed'
    BY <1>n, <1>new
  <1>less. \A k \in Transit' : n < k
    BY <1>new
  <1>older. Older'
    BY <1>len, <1>less, <1>each, <1>new
  <1>order. Channel!InOrder'
    <2>a. \A i \in 1 .. Len(events') : events'[i] \in 1 .. posted
      BY <1>each, <1>len, <1>n
    <2>b. ASSUME NEW i \in 1 .. Len(events'), NEW j \in 1 .. Len(events'), i < j
          PROVE  events'[i] < events'[j]
      <3>i. i \in 1 .. Len(events)
        BY <2>b, <1>len
      <3> QED  BY <3>i, <2>b, <1>each, <1>len, <1>new
    <2> QED  BY <2>a, <2>b, <1>new
  <1> QED  BY <1>type, <1>older, <1>order

(***************************************************************************)
(* Whatever implements the channel shows the guest the events in the order *)
(* they were caused, none twice.                                           *)
(***************************************************************************)
THEOREM ChannelInOrder == Channel!Spec => []Channel!InOrder
  <1>init. Channel!Init => ChannelInv
    <2> SUFFICES ASSUME Channel!Init PROVE ChannelInv
      OBVIOUS
    <2>new. posted = 0 /\ Transit = {} /\ events = <<>>
      BY DEF Channel!Init, Transit
    <2> QED  BY <2>new DEF ChannelInv, Typed, Older, Channel!InOrder
  <1>next. ChannelInv /\ [Channel!Next]_(Channel!vars) => ChannelInv'
    <2> SUFFICES ASSUME ChannelInv, [Channel!Next]_(Channel!vars) PROVE ChannelInv'
      OBVIOUS
    <2>stay. CASE UNCHANGED Channel!vars
      <3> Transit' = Transit /\ posted' = posted /\ events' = events
        BY <2>stay DEF Channel!vars, Transit
      <3> QED  BY DEF ChannelInv, Typed, Older, Channel!InOrder
    <2>move. CASE Channel!Next
      BY <2>move, PostKeeps, LoseKeeps, ReceiveKeeps DEF Channel!Next
    <2> QED  BY <2>stay, <2>move
  <1>inv. ChannelInv => Channel!InOrder
    BY DEF ChannelInv
  <1> QED  BY <1>init, <1>next, <1>inv, PTL DEF Channel!Spec

(***************************************************************************)
(* The guest sees keyboard and mouse events in the order in which          *)
(* cudaEventHandler got them, none twice and none made up.                 *)
(***************************************************************************)
THEOREM GuestSeesOrder == Spec => []Channel!InOrder
  <1>a. Spec => Channel!Spec
    BY CudaImplementsChannel DEF ImplementsChannel
  <1> QED  BY <1>a, ChannelInOrder, PTL
=============================================================================
