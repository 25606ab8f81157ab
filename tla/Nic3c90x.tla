------------------------------ MODULE Nic3c90x ------------------------------
(***************************************************************************)
(* The 3c90x network card (io/3c90x/3c90x.cc): the receive thread, which   *)
(* takes a packet from the tunnel and uploads it into the guest's ring of  *)
(* UPDs, the download of the guest's list of DPDs, and the interrupts.     *)
(*                                                                         *)
(* Every register access and every turn of the receive thread holds mLock. *)
(* The guest's memory has no lock, so an upload is three steps: the data,  *)
(* the status of the UPD, and the rest of rxUPD.                           *)
(*                                                                         *)
(* The guest is a driver that acknowledges what it sees in IntStatus and   *)
(* then looks at its ring, gives UPDs back with UpUnstall, and appends     *)
(* frames to the download list while it is stalled.  It may get one        *)
(* descriptor at a time wrong; after a wrong DPD it sends nothing more     *)
(* until it has reset the card.                                            *)
(***************************************************************************)
EXTENDS Integers, Sequences, FiniteSets

CONSTANTS
    Upds,           \* the number of UPDs in the ring
    Dpds,           \* the number of DPDs
    MaxPackets,     \* bound: packets that arrive
    MaxFrames,      \* bound: DPDs the driver queues
    MaxResets       \* bound: resets of the card

ASSUME NicAssumption ==
    /\ {Upds, Dpds} \subseteq Nat \ {0}
    /\ {MaxPackets, MaxFrames, MaxResets} \subseteq Nat

Sources == {"rxComplete", "upComplete", "dnComplete"}

\* What can be wrong with a UPD: a fragment that does not fit or is not in
\* memory; a UPD that cannot be read, or asks for what rxUPD does not support.
UpdFlaws == {"fragment", "unsupported"}
\* ... and with a DPD: a fragment; a type that is not implemented; the DPD
\* itself is not in memory.
DpdFlaws == {"fragment", "type", "unreadable"}

VARIABLES
    intStatus,      \* mIntStatus: sources and "latch"
    indEnable, intEnable,   \* IndicationEnable, InterruptEnable
    rxEnabled, upStalled, dnStalled,
    rxPacket,       \* the packet in mRxPacket, 0 if mRxPacketSize is 0
    upListPtr, dnListPtr,   \* a descriptor, or 0
    irq,            \* IO_PIC_IRQ_ETHERNET0 is pending in the PIC
    up,             \* the upload under way: its next step and its thread
    dn,             \* checkDnWork is in its loop
    upd, dpd,       \* the guest's descriptors
    badUpd, badDpd, \* the slot of the wrong UPD, the frame of the wrong DPD (0 if none), and how
    upErrors,       \* UPDs whose status has UPS_upError
    wire,           \* packets that have arrived
    at,             \* what the driver does next
    status,         \* IntStatus as the driver read it
    cur, dirty,     \* UPDs it has looked at, and given back
    batch,          \* DPDs it has queued since it stalled the download
    resets,
    accepted, delivered, queued, sent       \* history

nicVars == <<intStatus, indEnable, intEnable, rxEnabled, upStalled, dnStalled, rxPacket,
             upListPtr, dnListPtr, irq, up, dn>>
memory == <<upd, dpd, badUpd, badDpd, upErrors>>
driverVars == <<at, status, cur, dirty, batch, resets>>
history == <<accepted, delivered, queued, sent>>
vars == <<nicVars, memory, wire, driverVars, history>>

NoUpload == [step |-> "none", by |-> "none"]
Unused == [packet |-> 0, complete |-> FALSE]
Empty == [next |-> 0, frame |-> 0, empty |-> TRUE]
NoFlaw == [which |-> 0, how |-> "none"]

NicTypeOK ==
    /\ intStatus \subseteq Sources \cup {"latch"}
    /\ indEnable \subseteq Sources /\ intEnable \subseteq Sources
    /\ {rxEnabled, upStalled, dnStalled, irq, dn} \subseteq BOOLEAN
    /\ rxPacket \in 0 .. MaxPackets /\ wire \in 0 .. MaxPackets
    /\ upListPtr \in 0 .. Upds /\ dnListPtr \in 0 .. Dpds
    /\ up \in [step : {"data", "status", "indicate"}, by : {"thread", "cpu"}] \cup {NoUpload}
    /\ upd \in [1 .. Upds -> [packet : 0 .. MaxPackets, complete : BOOLEAN]]
    /\ dpd \in [1 .. Dpds -> [next : 0 .. Dpds, frame : 0 .. MaxFrames, empty : BOOLEAN]]
    /\ badUpd \in [which : 1 .. Upds, how : UpdFlaws] \cup {NoFlaw}
    /\ badDpd \in [which : 1 .. MaxFrames, how : DpdFlaws] \cup {NoFlaw}
    /\ upErrors \subseteq 1 .. Upds
    /\ at \in {"open", "indication", "intr", "enable", "out", "status", "ack", "rx", "refill",
               "unstall", "tx", "link", "list", "send"}
    /\ status \subseteq Sources \cup {"latch"}
    /\ cur \in Nat /\ dirty \in 0 .. cur
    /\ batch \in 0 .. Dpds /\ resets \in 0 .. MaxResets
    /\ accepted \in Seq(1 .. MaxPackets) /\ delivered \in Seq(1 .. MaxPackets)
    /\ queued \in Seq(1 .. MaxFrames) /\ sent \in Seq(1 .. MaxFrames)

-----------------------------------------------------------------------------
\* mLock is free
Unlocked == up = NoUpload /\ ~dn

indicate(s) == intStatus \cup (indEnable \cap s)

\* maybeRaiseIntr
maybeRaiseIntr(ints) ==
    LET raise == indEnable \cap intEnable \cap ints # {} IN
      /\ intStatus' = IF raise THEN ints \cup {"latch"} ELSE ints
      /\ irq' = (irq \/ raise)

Wrong(bad, n, how) == bad = [which |-> n, how |-> how]

\* faulty variant: a UPD that is still in use is taken
MutCheckUpWork(p, stalled, ptr, thread) ==
    /\ rxPacket' = p
    /\ upListPtr' = ptr
    /\ upStalled' = stalled
    /\ up' = IF rxEnabled /\ ~stalled /\ p # 0 /\ ptr # 0
             THEN [step |-> "data", by |-> thread] ELSE NoUpload

\* checkUpWork, to the point where rxUPD begins to write, with the packet
\* held, the stall and the list pointer as they are by then; the packet stays
\* held if the UPD cannot be read or is not supported
checkUpWork(p, stalled, ptr, thread) ==
    LET work == /\ rxEnabled /\ ~stalled /\ p # 0 /\ ptr # 0
                /\ ~Wrong(badUpd, ptr, "unsupported")
        full == work /\ upd[ptr].complete IN
      /\ rxPacket' = p
      /\ upListPtr' = ptr
      /\ upStalled' = (stalled \/ full)
      /\ up' = IF work /\ ~full THEN [step |-> "data", by |-> thread] ELSE NoUpload

\* the rest of rxUPD; a wrong fragment ends the data, and the UPD is completed
\* nevertheless, with UPS_upError
UploadData ==
    /\ up.step = "data"
    /\ upd' = [upd EXCEPT ![upListPtr].packet = rxPacket]
    /\ up' = [up EXCEPT !.step = "status"]
    /\ UNCHANGED <<intStatus, indEnable, intEnable, rxEnabled, upStalled, dnStalled, rxPacket,
                   upListPtr, dnListPtr, irq, dn, dpd, badUpd, badDpd, upErrors, wire, driverVars,
                   history>>

UploadStatus ==
    /\ up.step = "status"
    /\ upd' = [upd EXCEPT ![upListPtr].complete = TRUE]
    /\ upErrors' = IF Wrong(badUpd, upListPtr, "fragment") THEN upErrors \cup {upListPtr}
                   ELSE upErrors
    /\ rxPacket' = 0
    /\ up' = [up EXCEPT !.step = "indicate"]
    /\ UNCHANGED <<intStatus, indEnable, intEnable, rxEnabled, upStalled, dnStalled,
                   upListPtr, dnListPtr, irq, dn, dpd, badUpd, badDpd, wire, driverVars, history>>

\* faulty variant: the interrupt is raised before the source is indicated
MutUploadIndicate ==
    /\ up.step = "indicate"
    /\ upListPtr' = (upListPtr % Upds) + 1
    /\ irq' = (irq \/ indEnable \cap intEnable \cap intStatus # {})
    /\ intStatus' = indicate({"upComplete"})
    /\ up' = NoUpload
    /\ UNCHANGED <<indEnable, intEnable, rxEnabled, upStalled, dnStalled, rxPacket, dnListPtr,
                   dn, memory, wire, driverVars, history>>

UploadIndicate ==
    /\ up.step = "indicate"
    /\ upListPtr' = (upListPtr % Upds) + 1
    /\ maybeRaiseIntr(indicate({"upComplete"}))
    /\ up' = NoUpload
    /\ UNCHANGED <<indEnable, intEnable, rxEnabled, upStalled, dnStalled, rxPacket, dnListPtr,
                   dn, memory, wire, driverVars, history>>

Upload == UploadData \/ UploadStatus \/ UploadIndicate

\* a turn of handleRxQueue: a packet is waiting in the tunnel, and stays there
\* while the last one is not uploaded; passes: passesRxFilter
handleRxQueue(passes) ==
    /\ Unlocked
    /\ wire < MaxPackets
    /\ IF rxPacket # 0
       THEN /\ checkUpWork(rxPacket, upStalled, upListPtr, "thread")
            /\ UNCHANGED <<intStatus, irq, wire, accepted>>
       ELSE /\ wire' = wire + 1
            /\ LET kept == rxEnabled /\ passes IN
                 /\ checkUpWork(IF kept THEN wire' ELSE 0, upStalled, upListPtr, "thread")
                 /\ accepted' = IF kept THEN Append(accepted, wire') ELSE accepted
            /\ IF rxEnabled
               THEN LET ints == indicate({"rxComplete"})
                        raise == indEnable \cap intEnable \cap ints # {} IN
                      /\ irq' = (irq \/ raise)
                      /\ intStatus' = (ints \cup IF raise THEN {"latch"} ELSE {}) \ {"rxComplete"}
               ELSE UNCHANGED <<intStatus, irq>>
    /\ UNCHANGED <<indEnable, intEnable, rxEnabled, dnStalled, dnListPtr, dn, memory,
                   driverVars, delivered, queued, sent>>

\* a turn of the loop of checkDnWork, with txDPD0, which returns at a wrong
\* fragment and leaves DnListPtr where it was
checkDnWork ==
    /\ dn
    /\ LET d == dpd[dnListPtr]
           wrong(how) == Wrong(badDpd, d.frame, how) IN
         IF dnStalled \/ dnListPtr = 0 \/ wrong("unreadable")
         THEN dn' = FALSE /\ UNCHANGED <<dnListPtr, intStatus, irq, sent>>
         ELSE /\ UNCHANGED dn
              /\ dnListPtr' = IF wrong("type") THEN 0
                              ELSE IF wrong("fragment") THEN dnListPtr ELSE d.next
              /\ IF d.empty \/ wrong("type") \/ wrong("fragment")
                 THEN UNCHANGED <<intStatus, irq, sent>>
                 ELSE /\ sent' = Append(sent, d.frame)
                      /\ maybeRaiseIntr(indicate({"dnComplete"}))
    /\ UNCHANGED <<indEnable, intEnable, rxEnabled, upStalled, dnStalled, rxPacket, upListPtr,
                   up, memory, wire, driverVars, accepted, delivered, queued>>

-----------------------------------------------------------------------------
(* The driver's accesses to registers ...                                  *)

writeUpListPtr(ptr) ==
    /\ checkUpWork(rxPacket, upStalled, ptr, "cpu")
    /\ UNCHANGED <<intStatus, indEnable, intEnable, rxEnabled, dnStalled, dnListPtr, irq, dn>>

\* faulty variant: the pointer is always taken
MutWriteDnListPtr(ptr) ==
    /\ dnListPtr' = ptr
    /\ dn' = TRUE
    /\ UNCHANGED <<intStatus, indEnable, intEnable, rxEnabled, upStalled, dnStalled, rxPacket,
                   upListPtr, irq, up>>

\* the pointer is only taken if the list is empty
writeDnListPtr(ptr) ==
    /\ dnListPtr' = IF dnListPtr = 0 THEN ptr ELSE dnListPtr
    /\ dn' = TRUE
    /\ UNCHANGED <<intStatus, indEnable, intEnable, rxEnabled, upStalled, dnStalled, rxPacket,
                   upListPtr, irq, up>>

\* faulty variant: the packet that is held is not looked at
MutUpStall(b) ==
    /\ upStalled' = b
    /\ UNCHANGED <<intStatus, indEnable, intEnable, rxEnabled, dnStalled, rxPacket, upListPtr,
                   dnListPtr, irq, up, dn>>

CmdUpStall(b) ==
    /\ checkUpWork(rxPacket, b, upListPtr, "cpu")
    /\ UNCHANGED <<intStatus, indEnable, intEnable, rxEnabled, dnStalled, dnListPtr, irq, dn>>

CmdDnStall(b) ==
    /\ dnStalled' = b
    /\ dn' = TRUE
    /\ UNCHANGED <<intStatus, indEnable, intEnable, rxEnabled, upStalled, rxPacket, upListPtr,
                   dnListPtr, irq, up>>

CmdAckIntr(s) ==
    /\ intStatus' = intStatus \ s
    /\ UNCHANGED <<indEnable, intEnable, rxEnabled, upStalled, dnStalled, rxPacket, upListPtr,
                   dnListPtr, irq, up, dn>>

CmdSetIndicationEnable(s) ==
    /\ indEnable' = s
    /\ UNCHANGED <<intStatus, intEnable, rxEnabled, upStalled, dnStalled, rxPacket, upListPtr,
                   dnListPtr, irq, up, dn>>

CmdSetIntrEnb(s) ==
    /\ intEnable' = s
    /\ UNCHANGED <<intStatus, indEnable, rxEnabled, upStalled, dnStalled, rxPacket, upListPtr,
                   dnListPtr, irq, up, dn>>

CmdRxEnable ==
    /\ rxEnabled' = TRUE
    /\ UNCHANGED <<intStatus, indEnable, intEnable, upStalled, dnStalled, rxPacket, upListPtr,
                   dnListPtr, irq, up, dn>>

totalReset ==
    /\ intStatus' = {} /\ indEnable' = {} /\ intEnable' = {}
    /\ rxEnabled' = FALSE /\ upStalled' = FALSE /\ dnStalled' = FALSE
    /\ rxPacket' = 0 /\ upListPtr' = 0 /\ dnListPtr' = 0
    /\ UNCHANGED <<irq, up, dn>>

-----------------------------------------------------------------------------
(* ... and what it does with them.                                         *)

Access(pc, A, next) ==
    /\ at = pc /\ Unlocked
    /\ A
    /\ at' = next

Open ==
    /\ \/ Access("open", writeUpListPtr(1), "indication")
       \/ Access("indication", CmdSetIndicationEnable(Sources), "intr")
       \/ Access("intr", CmdSetIntrEnb({"upComplete", "dnComplete"}), "enable")
       \/ Access("enable", CmdRxEnable, "out")
    /\ UNCHANGED <<memory, wire, status, cur, dirty, batch, resets, history>>

\* the guest takes the interrupt
Enter ==
    /\ at = "out" /\ Unlocked /\ irq
    /\ irq' = FALSE
    /\ at' = "status"
    /\ UNCHANGED <<intStatus, indEnable, intEnable, rxEnabled, upStalled, dnStalled, rxPacket,
                   upListPtr, dnListPtr, up, dn, memory, wire, status, cur, dirty, batch, resets,
                   history>>

ReadStatus ==
    /\ at = "status" /\ Unlocked
    /\ IF intStatus \cap Sources = {}
       THEN at' = "out" /\ UNCHANGED status
       ELSE at' = "ack" /\ status' = intStatus
    /\ UNCHANGED <<nicVars, memory, wire, cur, dirty, batch, resets, history>>

Acknowledge ==
    /\ Access("ack", CmdAckIntr(status), "rx")
    /\ status' = {}
    /\ UNCHANGED <<memory, wire, cur, dirty, batch, resets, history>>

Slot(n) == (n % Upds) + 1

\* the driver looks at its ring, without any lock; it knows how many of the
\* UPDs there are still not given back
Look ==
    /\ at = "rx" /\ up.by # "cpu"
    /\ IF cur - dirty < Upds /\ upd[Slot(cur)].complete
       THEN /\ delivered' = Append(delivered, upd[Slot(cur)].packet)
            /\ cur' = cur + 1
            /\ UNCHANGED at
       ELSE /\ at' = "refill"
            /\ UNCHANGED <<cur, delivered>>
    /\ UNCHANGED <<nicVars, memory, wire, status, dirty, batch, resets, accepted, queued, sent>>

\* a UPD is given back, as good as new or wrong
Refill(flaw) ==
    /\ at = "refill" /\ up.by # "cpu"
    /\ IF dirty < cur
       THEN /\ upd' = [upd EXCEPT ![Slot(dirty)] = Unused]
            /\ upErrors' = upErrors \ {Slot(dirty)}
            /\ flaw # NoFlaw => /\ flaw.which = Slot(dirty) /\ badUpd.which \in {0, Slot(dirty)}
                               /\ badDpd = NoFlaw
            /\ badUpd' = IF flaw = NoFlaw /\ badUpd.which # Slot(dirty) THEN badUpd ELSE flaw
            /\ dirty' = dirty + 1
            /\ at' = "unstall"
       ELSE /\ at' = "status" /\ flaw = NoFlaw
            /\ UNCHANGED <<upd, badUpd, upErrors, dirty>>
    /\ UNCHANGED <<nicVars, dpd, badDpd, wire, status, cur, batch, resets, history>>

Unstall ==
    /\ Access("unstall", CmdUpStall(FALSE), "refill")
    /\ UNCHANGED <<memory, wire, status, cur, dirty, batch, resets, history>>

\* frames: stall the download, append some, go on
StallDn ==
    /\ Len(queued) < MaxFrames /\ badDpd = NoFlaw
    /\ Access("out", CmdDnStall(TRUE), "tx")
    /\ batch' = 0
    /\ UNCHANGED <<memory, wire, status, cur, dirty, resets, history>>

\* a new last DPD, linked behind the one before it
Queue(empty, how) ==
    /\ at = "tx" /\ Unlocked
    /\ batch < Dpds /\ Len(queued) < MaxFrames
    /\ LET n == Len(queued) + 1
           slot(k) == (k % Dpds) + 1
           new == [next |-> 0, frame |-> n, empty |-> empty] IN
         /\ queued' = Append(queued, n)
         /\ dpd' = IF batch = 0 THEN [dpd EXCEPT ![slot(n)] = new]
                   ELSE [dpd EXCEPT ![slot(n)] = new, ![slot(n - 1)].next = slot(n)]
         /\ how # "none" => badUpd = NoFlaw /\ badDpd = NoFlaw
         /\ badDpd' = IF how = "none" THEN badDpd ELSE [which |-> n, how |-> how]
    /\ batch' = batch + 1
    /\ at' = "list"
    /\ UNCHANGED <<nicVars, upd, badUpd, upErrors, wire, status, cur, dirty, resets, accepted, delivered, sent>>

WriteList ==
    /\ Access("list", writeDnListPtr((Len(queued) % Dpds) + 1), "tx")
    /\ UNCHANGED <<memory, wire, status, cur, dirty, batch, resets, history>>

UnstallDn ==
    /\ batch > 0
    /\ Access("tx", CmdDnStall(FALSE), "out")
    /\ UNCHANGED <<memory, wire, status, cur, dirty, batch, resets, history>>

\* the driver starts the card anew; what was on its way is given up
Reset ==
    /\ resets < MaxResets
    /\ Access("out", totalReset, "open")
    /\ resets' = resets + 1
    /\ upd' = [i \in 1 .. Upds |-> Unused] /\ badUpd' = NoFlaw /\ upErrors' = {}
    /\ dpd' = [i \in 1 .. Dpds |-> Empty] /\ badDpd' = NoFlaw
    /\ cur' = 0 /\ dirty' = 0 /\ batch' = 0
    /\ accepted' = <<>> /\ delivered' = <<>>
    /\ UNCHANGED <<wire, status, queued, sent>>

Driver ==
    \/ Open \/ Enter \/ ReadStatus \/ Acknowledge \/ Look \/ Unstall
    \/ \E flaw \in [which : 1 .. Upds, how : UpdFlaws] \cup {NoFlaw} : Refill(flaw)
    \/ \E empty \in BOOLEAN, how \in DpdFlaws \cup {"none"} :
         (how = "fragment" => ~empty) /\ Queue(empty, how)
    \/ WriteList \/ UnstallDn

Init ==
    /\ intStatus = {} /\ indEnable = {} /\ intEnable = {}
    /\ rxEnabled = FALSE /\ upStalled = FALSE /\ dnStalled = FALSE
    /\ rxPacket = 0 /\ upListPtr = 0 /\ dnListPtr = 0
    /\ irq = FALSE /\ up = NoUpload /\ dn = FALSE
    /\ upd = [i \in 1 .. Upds |-> Unused] /\ badUpd = NoFlaw /\ upErrors = {}
    /\ dpd = [i \in 1 .. Dpds |-> Empty] /\ badDpd = NoFlaw
    /\ wire = 0
    /\ at = "open" /\ status = {} /\ cur = 0 /\ dirty = 0 /\ batch = 0 /\ resets = 0
    /\ accepted = <<>> /\ delivered = <<>> /\ queued = <<>> /\ sent = <<>>

Next ==
    \/ \E passes \in BOOLEAN : handleRxQueue(passes)
    \/ Upload
    \/ checkDnWork
    \/ Driver
    \/ StallDn
    \/ Reset

\* The functions of the card run to their end, and the guest runs its driver.
Spec == Init /\ [][Next]_vars /\ WF_vars(Upload) /\ WF_vars(checkDnWork) /\ WF_vars(Driver)

-----------------------------------------------------------------------------
\* complete UPDs the driver has not looked at, and the packet not yet there
Unseen == Cardinality({i \in 1 .. Upds : upd[i].complete}) - (cur - dirty)
InRing == [i \in 1 .. Unseen |-> upd[Slot(cur + i - 1)].packet]
Held == IF rxPacket = 0 THEN <<>> ELSE <<rxPacket>>

(***************************************************************************)
(* Every packet that passes the filter reaches the guest once and in       *)
(* order: it is delivered, complete in the ring, or held in mRxPacket.  A  *)
(* ring that is full only makes the card wait; it does not lose the packet *)
(* it holds, although a comment in rxUPD says so.  The UPD holds the       *)
(* packet whole, or has UPS_upError, and that only if the driver gave it   *)
(* with a fragment that cannot be written: the packet is lost then.        *)
(***************************************************************************)
NothingLost ==
    /\ NicTypeOK
    /\ accepted = delivered \o InRing \o Held
    /\ upErrors = {i \in 1 .. Upds : upd[i].complete /\ Wrong(badUpd, i, "fragment")}

(***************************************************************************)
(* Whenever the ring holds a packet that the guest has not seen, and the   *)
(* card and the driver rest, the interrupt is pending.                     *)
(***************************************************************************)
GuestTold == at = "out" /\ Unlocked /\ Unseen > 0 => irq

(***************************************************************************)
(* Frames leave in the order the driver queues them, each once, and when   *)
(* the driver has ended a batch and the card rests none is left behind,    *)
(* although a write to DnListPtr is ignored while the list is not empty.   *)
(* A wrong DPD is not sent, and holds up only what comes after it.         *)
(***************************************************************************)
FramesInOrder ==
    /\ \A i, j \in 1 .. Len(sent) : i < j => sent[i] < sent[j]
    /\ \A i \in 1 .. Len(sent) : badDpd # NoFlaw => sent[i] < badDpd.which
    /\ at = "out" /\ Unlocked =>
         \A d \in 1 .. Dpds : ~dpd[d].empty /\ (badDpd # NoFlaw => dpd[d].frame < badDpd.which)
           => \E i \in 1 .. Len(sent) : sent[i] = dpd[d].frame

\* The card waits for a UPD it does not support, or checkDnWork comes back to
\* a wrong fragment for ever, with mLock held.
Stuck ==
    \/ badUpd.how = "unsupported" /\ badUpd.which = upListPtr
    \/ dn /\ dnListPtr # 0 /\ Wrong(badDpd, dpd[dnListPtr].frame, "fragment")

(***************************************************************************)
(* Every packet accepted is delivered in the end, or given up by a reset:  *)
(* a stall of the upload ends when the driver gives a UPD back.  Only a    *)
(* wrong descriptor can hold it up.                                        *)
(***************************************************************************)
PacketsArrive ==
    \A n \in 1 .. MaxPackets :
      (\E i \in 1 .. Len(accepted) : accepted[i] = n)
        ~> \/ \E i \in 1 .. Len(delivered) : delivered[i] = n
           \/ \A i \in 1 .. Len(accepted) : accepted[i] # n
           \/ Stuck
=============================================================================
