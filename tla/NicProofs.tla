------------------------------ MODULE NicProofs ------------------------------
(***************************************************************************)
(* The three promises of the 3c90x model for any sizes of the rings and    *)
(* any numbers of packets, frames and resets: NothingLost, GuestTold and   *)
(* FramesInOrder, from one inductive invariant, NicInv.  Its receiving     *)
(* half counts the uploads and says which UPDs they are in; its sending    *)
(* half says which frames of the driver's batch have left.                 *)
(***************************************************************************)
EXTENDS Nic3c90x, FiniteSetTheorems, TLAPS

-----------------------------------------------------------------------------
(* Counting around a ring of U slots.                                      *)

\* The remainder of a number written as a multiple and a rest ...
LEMMA Remainder ==
  ASSUME NEW U \in Nat \ {0}, NEW q \in Nat, NEW r \in 0 .. (U - 1)
  PROVE  (q * U + r) % U = r
  OBVIOUS

\* ... and every number can be written so.
LEMMA Divided ==
  ASSUME NEW U \in Nat \ {0}, NEW a \in Nat
  PROVE  \E q \in Nat : \E r \in 0 .. (U - 1) : a = q * U + r /\ a % U = r
  <1>rem. a % U = a - U * (a \div U)
    OBVIOUS
  <1>types. a \div U \in Nat /\ a % U \in 0 .. (U - 1)
    OBVIOUS
  <1>comm. U * (a \div U) = (a \div U) * U
    BY <1>types
  <1>sum. a = (a \div U) * U + (a % U)
    BY <1>rem, <1>types, <1>comm
  <1> QED  BY <1>types, <1>sum

\* A slot is one of the ring.
LEMMA InRange ==
  ASSUME NEW U \in Nat \ {0}, NEW a \in Nat
  PROVE  (a % U) + 1 \in 1 .. U
  OBVIOUS

\* The remainder of the next number.
LEMMA NextRemainder ==
  ASSUME NEW U \in Nat \ {0}, NEW a \in Nat
  PROVE  (a + 1) % U = IF a % U = U - 1 THEN 0 ELSE (a % U) + 1
  <1>split. PICK q \in Nat, r \in 0 .. (U - 1) : a = q * U + r /\ a % U = r
    BY Divided
  <1>last. CASE r = U - 1
    <2>sum. a + 1 = (q + 1) * U + 0
      BY <1>split, <1>last
    <2> QED  BY <1>split, <1>last, <2>sum, Remainder
  <1>inner. CASE r # U - 1
    <2>sum. a + 1 = q * U + (r + 1)
      BY <1>split, <1>inner
    <2> QED  BY <1>split, <1>inner, <2>sum, Remainder
  <1> QED  BY <1>last, <1>inner

\* What is behind the slot of a is the slot of a + 1.
LEMMA NextSlot ==
  ASSUME NEW U \in Nat \ {0}, NEW a \in Nat
  PROVE  ((a % U) + 1) % U = (a + 1) % U
  <1>range. a % U \in 0 .. (U - 1)
    OBVIOUS
  <1>twice. \A r \in 0 .. (U - 1) : r % U = r
    OBVIOUS
  <1>small. \A r \in 0 .. (U - 1) : (r + 1) % U = IF r = U - 1 THEN 0 ELSE r + 1
    <2> TAKE r \in 0 .. (U - 1)
    <2>nat. r \in Nat
      OBVIOUS
    <2> QED  BY <2>nat, <1>twice, NextRemainder
  <1> QED  BY <1>small, <1>range, NextRemainder

\* Two numbers less than a turn apart have different slots ...
LEMMA SlotsApart ==
  ASSUME NEW U \in Nat \ {0}, NEW a \in Nat, NEW b \in Nat, a < b, b < a + U
  PROVE  a % U # b % U
  <1> SUFFICES ASSUME a % U = b % U PROVE FALSE
    OBVIOUS
  <1>a. PICK q \in Nat, r \in 0 .. (U - 1) : a = q * U + r /\ a % U = r
    BY Divided
  <1>b. PICK p \in Nat, t \in 0 .. (U - 1) : b = p * U + t /\ b % U = t
    BY Divided
  <1>diff. p * U - q * U = (p - q) * U
    OBVIOUS
  <1>between. 0 < (p - q) * U /\ (p - q) * U < U
    BY <1>a, <1>b, <1>diff
  <1>low. \A d \in Int : d <= 0 => d * U <= 0
    OBVIOUS
  <1>high. \A d \in Int : d >= 1 => d * U >= U
    OBVIOUS
  <1>one. p - q \in Int /\ (p - q <= 0 \/ p - q >= 1)
    OBVIOUS
  <1> QED  BY <1>between, <1>low, <1>high, <1>one

\* ... a turn leads back to the same slot ...
LEMMA Wraps ==
  ASSUME NEW U \in Nat \ {0}, NEW a \in Nat
  PROVE  (a + U) % U = a % U
  <1>split. PICK q \in Nat, r \in 0 .. (U - 1) : a = q * U + r /\ a % U = r
    BY Divided
  <1>sum. a + U = (q + 1) * U + r
    BY <1>split
  <1> QED  BY <1>split, <1>sum, Remainder

\* ... and a turn visits all of them.
LEMMA WindowCovers ==
  ASSUME NEW U \in Nat \ {0}, NEW a \in Nat, NEW r \in 0 .. (U - 1)
  PROVE  \E k \in a .. (a + U - 1) : k % U = r
  <1>split. PICK q \in Nat, t \in 0 .. (U - 1) : a = q * U + t /\ a % U = t
    BY Divided
  <1>above. CASE r >= t
    <2>k. q * U + r \in a .. (a + U - 1)
      BY <1>split, <1>above
    <2> QED  BY <2>k, Remainder
  <1>below. CASE r < t
    <2>sum. (q + 1) * U + r = q * U + U + r
      OBVIOUS
    <2>k. (q + 1) * U + r \in a .. (a + U - 1)
      BY <1>split, <1>below, <2>sum
    <2>rem. ((q + 1) * U + r) % U = r
      BY Remainder
    <2> QED  BY <2>k, <2>rem
  <1> QED  BY <1>above, <1>below

\* The same for the slots of the two rings.
LEMMA UpdSlots ==
  /\ \A k \in Nat : Slot(k) \in 1 .. Upds
  /\ \A k \in Nat : Slot(k + Upds) = Slot(k)
  /\ \A k \in Nat : (Slot(k) % Upds) + 1 = Slot(k + 1)
  /\ \A j, k \in Nat : j < k /\ k < j + Upds => Slot(j) # Slot(k)
  /\ \A j \in Nat : \A i \in 1 .. Upds : \E k \in j .. (j + Upds - 1) : Slot(k) = i
  <1>size. Upds \in Nat \ {0}
    BY NicAssumption
  <1>range. \A k \in Nat : Slot(k) \in 1 .. Upds
    BY <1>size, InRange DEF Slot
  <1>wrap. \A k \in Nat : Slot(k + Upds) = Slot(k)
    BY <1>size, Wraps DEF Slot
  <1>next. \A k \in Nat : (Slot(k) % Upds) + 1 = Slot(k + 1)
    <2> TAKE k \in Nat
    <2>mod. ((k % Upds) + 1) % Upds = (k + 1) % Upds
      BY <1>size, NextSlot
    <2> QED  BY <2>mod DEF Slot
  <1>apart. \A j, k \in Nat : j < k /\ k < j + Upds => Slot(j) # Slot(k)
    <2> SUFFICES ASSUME NEW j \in Nat, NEW k \in Nat, j < k, k < j + Upds
                 PROVE  Slot(j) # Slot(k)
      OBVIOUS
    <2>mod. j % Upds # k % Upds
      BY <1>size, SlotsApart
    <2>types. j % Upds \in Int /\ k % Upds \in Int
      BY <1>size
    <2> QED  BY <2>mod, <2>types DEF Slot
  <1>cover. \A j \in Nat : \A i \in 1 .. Upds : \E k \in j .. (j + Upds - 1) : Slot(k) = i
    <2> TAKE j \in Nat
    <2> TAKE i \in 1 .. Upds
    <2>low. i - 1 \in 0 .. (Upds - 1)
      BY <1>size
    <2>k. PICK k \in j .. (j + Upds - 1) : k % Upds = i - 1
      BY <1>size, <2>low, WindowCovers
    <2>i. Slot(k) = i
      BY <2>k DEF Slot
    <2> QED  BY <2>k, <2>i
  <1> QED  BY <1>range, <1>wrap, <1>next, <1>apart, <1>cover

\* What Append does.
LEMMA AppendFacts ==
  ASSUME NEW S, NEW s \in Seq(S), NEW x \in S
  PROVE  /\ Append(s, x) \in Seq(S)
         /\ Len(Append(s, x)) = Len(s) + 1 /\ Len(s) \in Nat
         /\ \A k \in 1 .. Len(s) : Append(s, x)[k] = s[k]
         /\ Append(s, x)[Len(s) + 1] = x
  OBVIOUS

-----------------------------------------------------------------------------
UpSteps == [step : {"data", "status", "indicate"}, by : {"thread", "cpu"}] \cup {NoUpload}
Upd == [packet : 0 .. MaxPackets, complete : BOOLEAN]

\* what the driver may choose for a descriptor
UpdFlaw == [which : 1 .. Upds, how : UpdFlaws] \cup {NoFlaw}
DpdHow == DpdFlaws \cup {"none"}

\* how many packets have been uploaded since the card was reset
Uploaded == IF rxPacket = 0 THEN Len(accepted) ELSE Len(accepted) - 1

RxTypes ==
    /\ rxPacket \in 0 .. MaxPackets
    /\ wire \in 0 .. MaxPackets
    /\ upListPtr \in 0 .. Upds
    /\ up \in UpSteps
    /\ upd \in [1 .. Upds -> Upd]
    /\ cur \in Nat
    /\ dirty \in 0 .. cur
    /\ accepted \in Seq(1 .. MaxPackets)
    /\ delivered \in Seq(1 .. MaxPackets)

\* the ring holds the packets uploaded and not given back, and no other
Ring ==
    /\ Len(delivered) = cur /\ cur <= Uploaded /\ Uploaded <= dirty + Upds
    /\ \A i \in 1 .. cur : delivered[i] = accepted[i]
    /\ \A k \in dirty .. (Uploaded - 1) : upd[Slot(k)].complete
    /\ \A k \in cur .. (Uploaded - 1) : upd[Slot(k)].packet = accepted[k + 1]
    /\ \A k \in Uploaded .. (dirty + Upds - 1) : ~upd[Slot(k)].complete

\* the packet held is the last one accepted, and upListPtr is where it goes
Uploading ==
    /\ rxPacket # 0 => Len(accepted) > 0 /\ accepted[Len(accepted)] = rxPacket
    /\ up.step \in {"data", "status"} =>
         rxPacket # 0 /\ Uploaded < dirty + Upds /\ upListPtr = Slot(Uploaded)
    /\ up.step = "status" => upd[upListPtr].packet = rxPacket
    /\ up.step = "indicate" => rxPacket = 0 /\ Uploaded > 0 /\ upListPtr = Slot(Uploaded - 1)
    /\ up = NoUpload => upListPtr = IF at = "open" THEN 0 ELSE Slot(Uploaded)

RxInv == RxTypes /\ Ring /\ Uploading

Opening == at \in {"open", "indication", "intr", "enable"}

\* while the driver opens the card nothing is received; then it is told of uploads
Opened ==
    /\ Opening =>
         rxEnabled = FALSE /\ accepted = <<>> /\ rxPacket = 0 /\ up = NoUpload /\ cur = 0
    /\ at \notin {"open", "indication"} => indEnable = Sources
    /\ at \notin {"open", "indication", "intr"} => "upComplete" \in intEnable

-----------------------------------------------------------------------------
Numbers ==
    /\ Uploaded \in Nat
    /\ Uploaded <= Len(accepted)
    /\ Len(accepted) \in Nat
    /\ Upds \in Nat \ {0}
    /\ MaxPackets \in Nat
    /\ cur \in Nat /\ dirty \in Nat /\ dirty <= cur /\ cur <= Uploaded
    /\ Uploaded <= dirty + Upds

\* The counts of the ring are numbers, and in this order.
LEMMA UploadedType ==
  ASSUME RxInv
  PROVE  Numbers
  <1>size. Upds \in Nat \ {0} /\ MaxPackets \in Nat
    BY NicAssumption
  <1>len. Len(accepted) \in Nat
    BY DEF RxInv, RxTypes
  <1>up. Uploaded \in Nat /\ Uploaded <= Len(accepted)
    BY <1>len DEF RxInv, Uploading, Uploaded
  <1> QED  BY <1>size, <1>len, <1>up DEF RxInv, RxTypes, Ring, Numbers

\* What the other parts do does not touch the ring.
LEMMA RxKept ==
  ASSUME RxInv, (at = "open") <=> (at' = "open"),
         UNCHANGED <<rxPacket, upListPtr, up, upd, cur, dirty, accepted, delivered>>,
         wire' \in 0 .. MaxPackets
  PROVE  RxInv' /\ Uploaded' = Uploaded
  <1>types. RxTypes'
    BY DEF RxInv, RxTypes
  <1>n. Uploaded' = Uploaded
    BY DEF Uploaded
  <1>ring. Ring'
    BY <1>n DEF RxInv, Ring, Slot
  <1>load. Uploading'
    BY <1>n DEF RxInv, Uploading, Slot
  <1> QED  BY <1>types, <1>ring, <1>load, <1>n DEF RxInv

\* If the ring is full, the slot where the next packet goes is complete.
LEMMA FullRing ==
  ASSUME RxInv, ~upd[Slot(Uploaded)].complete
  PROVE  Uploaded < dirty + Upds
  <1>nums. Numbers
    BY UploadedType
  <1> USE <1>nums DEF Numbers
  <1> SUFFICES ASSUME Uploaded = dirty + Upds PROVE FALSE
    OBVIOUS
  <1>same. Slot(Uploaded) = Slot(dirty)
    BY UpdSlots
  <1>there. dirty \in dirty .. (Uploaded - 1)
    OBVIOUS
  <1>set. upd[Slot(dirty)].complete
    BY <1>there DEF RxInv, Ring
  <1> QED  BY <1>same, <1>set

\* checkUpWork, with the packet held or one just accepted: it starts an upload only
\* into a UPD that the ring does not hold.
LEMMA CheckUpKeeps ==
  ASSUME RxInv, up = NoUpload, at # "open", at' # "open", NEW stalled,
         NEW p \in 0 .. MaxPackets, NEW thread \in {"thread", "cpu"},
         checkUpWork(p, stalled, upListPtr, thread),
         \/ p = rxPacket /\ accepted' = accepted
         \/ p # 0 /\ rxPacket = 0 /\ accepted' = Append(accepted, p),
         wire' \in 0 .. MaxPackets,
         UNCHANGED <<upd, cur, dirty, delivered>>
  PROVE  RxInv' /\ Uploaded' = Uploaded
  <1>nums. Numbers
    BY UploadedType
  <1> USE <1>nums DEF Numbers
  <1>acc. /\ accepted' \in Seq(1 .. MaxPackets)
          /\ \A k \in 1 .. Len(accepted) : accepted'[k] = accepted[k]
          /\ Len(accepted) <= Len(accepted') /\ Len(accepted') \in Nat
    <2>seq. accepted \in Seq(1 .. MaxPackets)
      BY DEF RxInv, RxTypes
    <2>same. CASE accepted' = accepted
      BY <2>seq, <2>same
    <2>more. CASE p # 0 /\ accepted' = Append(accepted, p)
      <3>p. p \in 1 .. MaxPackets
        BY <2>more
      <3> QED  BY <2>seq, <2>more, <3>p, AppendFacts
    <2> QED  BY <2>same, <2>more
  <1>n. Uploaded' = Uploaded
    BY DEF Uploaded, checkUpWork, RxInv, RxTypes
  <1>ptr. upListPtr = Slot(Uploaded) /\ upListPtr' = upListPtr /\ rxPacket' = p
    BY DEF RxInv, Uploading, checkUpWork
  <1>up. \/ up' = NoUpload
         \/ up' = [step |-> "data", by |-> thread] /\ p # 0 /\ ~upd[upListPtr].complete
    BY DEF checkUpWork
  <1>types. RxTypes'
    <2>step. up' \in UpSteps
      BY <1>up DEF UpSteps
    <2> QED  BY <1>acc, <1>ptr, <2>step DEF RxInv, RxTypes
  <1>ring. Ring'
    <2>old. \A i \in 1 .. cur : delivered'[i] = accepted'[i]
      <3> SUFFICES ASSUME NEW i \in 1 .. cur PROVE delivered[i] = accepted'[i]
        OBVIOUS
      <3>i. i \in 1 .. Len(accepted)
        OBVIOUS
      <3> QED  BY <3>i, <1>acc DEF RxInv, Ring
    <2>new. \A k \in cur .. (Uploaded - 1) : upd[Slot(k)].packet = accepted'[k + 1]
      BY <1>acc DEF RxInv, Ring
    <2> QED  BY <1>n, <2>old, <2>new DEF RxInv, Ring, Slot
  <1>load. Uploading'
    <2>last. rxPacket' # 0 => Len(accepted') > 0 /\ accepted'[Len(accepted')] = rxPacket'
      BY <1>ptr DEF RxInv, Uploading, RxTypes
    <2>idle. CASE up' = NoUpload
      BY <2>idle, <2>last, <1>n, <1>ptr DEF NoUpload, Uploading, Slot
    <2>go. CASE up' = [step |-> "data", by |-> thread] /\ p # 0 /\ ~upd[upListPtr].complete
      <3>room. Uploaded < dirty + Upds
        BY <2>go, <1>ptr, FullRing
      <3>step. up'.step = "data"
        BY <2>go
      <3>busy. up' # NoUpload
        BY <3>step DEF NoUpload
      <3> QED  BY <2>go, <2>last, <3>room, <3>step, <3>busy, <1>n, <1>ptr DEF Uploading, Slot
    <2> QED  BY <1>up, <2>idle, <2>go
  <1> QED  BY <1>types, <1>ring, <1>load, <1>n DEF RxInv

\* A turn of the receive thread.
LEMMA RxQueueKeeps ==
  ASSUME RxInv, Opened, NEW passes \in BOOLEAN, handleRxQueue(passes)
  PROVE  RxInv' /\ Uploaded' = Uploaded
  <1>nums. Numbers
    BY UploadedType
  <1> USE <1>nums DEF Numbers
  <1>un. up = NoUpload /\ wire \in 0 .. MaxPackets /\ wire < MaxPackets /\ at' = at
         /\ UNCHANGED <<upd, cur, dirty, delivered>>
    BY DEF handleRxQueue, Unlocked, memory, driverVars, RxInv, RxTypes
  <1>held. CASE rxPacket # 0
    <2>check. /\ checkUpWork(rxPacket, upStalled, upListPtr, "thread")
              /\ wire' = wire /\ accepted' = accepted
      BY <1>held DEF handleRxQueue
    <2>at. at # "open"
      BY <1>held DEF Opened, Opening
    <2>p. rxPacket \in 0 .. MaxPackets
      BY DEF RxInv, RxTypes
    <2> QED  BY <1>un, <2>check, <2>at, <2>p, CheckUpKeeps
  <1>free. CASE rxPacket = 0
    <2>wire. wire' = wire + 1 /\ wire' \in 1 .. MaxPackets
      BY <1>free, <1>un DEF handleRxQueue
    <2>kept. CASE rxEnabled /\ passes
      <3>check. /\ checkUpWork(wire', upStalled, upListPtr, "thread")
                /\ accepted' = Append(accepted, wire')
        BY <1>free, <2>kept DEF handleRxQueue
      <3>at. at # "open"
        BY <2>kept DEF Opened, Opening
      <3>w. wire' \in 0 .. MaxPackets /\ wire' # 0
        BY <2>wire
      <3> QED  BY <1>free, <1>un, <3>check, <3>at, <3>w, CheckUpKeeps
    <2>dropped. CASE ~(rxEnabled /\ passes)
      <3>check. /\ checkUpWork(0, upStalled, upListPtr, "thread")
                /\ accepted' = accepted
        BY <1>free, <2>dropped DEF handleRxQueue
      <3>same. rxPacket' = rxPacket /\ upListPtr' = upListPtr /\ up' = up
        BY <1>free, <1>un, <3>check DEF checkUpWork
      <3>w. wire' \in 0 .. MaxPackets
        BY <2>wire
      <3> QED  BY <1>un, <3>check, <3>same, <3>w, RxKept
    <2> QED  BY <2>kept, <2>dropped
  <1> QED  BY <1>held, <1>free

\* What is written to a UPD is one.
LEMMA UpdTypes ==
  ASSUME RxInv, NEW i \in 1 .. Upds
  PROVE  /\ upd[i] \in Upd /\ DOMAIN upd = 1 .. Upds
         /\ \A x \in 0 .. MaxPackets : [upd EXCEPT ![i].packet = x] \in [1 .. Upds -> Upd]
         /\ [upd EXCEPT ![i].complete = TRUE] \in [1 .. Upds -> Upd]
         /\ [upd EXCEPT ![i] = Unused] \in [1 .. Upds -> Upd]
  <1>fun. upd \in [1 .. Upds -> Upd] /\ 0 \in 0 .. MaxPackets
    BY NicAssumption DEF RxInv, RxTypes
  <1>rec. /\ upd[i] \in Upd /\ Unused \in Upd
          /\ \A x \in 0 .. MaxPackets : [upd[i] EXCEPT !.packet = x] \in Upd
          /\ [upd[i] EXCEPT !.complete = TRUE] \in Upd
    BY <1>fun DEF Upd, Unused
  <1>any. \A v \in Upd : [upd EXCEPT ![i] = v] \in [1 .. Upds -> Upd]
    BY <1>fun
  <1>dom. DOMAIN upd = 1 .. Upds
    BY <1>fun
  <1>data. \A x \in 0 .. MaxPackets : [upd EXCEPT ![i].packet = x] \in [1 .. Upds -> Upd]
    BY <1>rec, <1>any
  <1>comp. [upd EXCEPT ![i].complete = TRUE] \in [1 .. Upds -> Upd]
    BY <1>rec, <1>any
  <1> QED  BY <1>rec, <1>any, <1>dom, <1>data, <1>comp

\* The next step of an upload is one.
LEMMA UpTypes ==
  ASSUME RxInv, NEW s \in {"data", "status", "indicate"}, up.step \in {"data", "status", "indicate"}
  PROVE  /\ [up EXCEPT !.step = s] \in UpSteps
         /\ [up EXCEPT !.step = s].step = s
         /\ [up EXCEPT !.step = s] # NoUpload
  <1>none. up # NoUpload
    BY DEF NoUpload
  <1>up. up \in [step : {"data", "status", "indicate"}, by : {"thread", "cpu"}]
    BY <1>none DEF RxInv, RxTypes, UpSteps
  <1>new. /\ [up EXCEPT !.step = s] \in [step : {"data", "status", "indicate"}, by : {"thread", "cpu"}]
          /\ [up EXCEPT !.step = s].step = s
    BY <1>up
  <1> QED  BY <1>new DEF UpSteps, NoUpload

\* A slot of the ring other than the one that is uploaded to.
LEMMA OtherSlots ==
  ASSUME RxInv, Uploaded < dirty + Upds
  PROVE  \A k \in dirty .. (dirty + Upds - 1) : k # Uploaded => Slot(k) # Slot(Uploaded)
  <1>nums. Numbers
    BY UploadedType
  <1> USE <1>nums DEF Numbers
  <1> TAKE k \in dirty .. (dirty + Upds - 1)
  <1>nat. k \in Nat
    OBVIOUS
  <1>less. k < Uploaded => Uploaded < k + Upds
    OBVIOUS
  <1>more. k > Uploaded => k < Uploaded + Upds
    OBVIOUS
  <1>apart. \A i, j \in Nat : i < j /\ j < i + Upds => Slot(i) # Slot(j)
    BY UpdSlots
  <1>below. CASE k < Uploaded
    BY <1>below, <1>nat, <1>less, <1>apart
  <1>above. CASE k > Uploaded
    BY <1>above, <1>nat, <1>more, <1>apart
  <1> QED  BY <1>nat, <1>below, <1>above

\* The data go into the UPD behind those uploaded.
LEMMA UploadDataKeeps ==
  ASSUME RxInv, UploadData
  PROVE  RxInv' /\ Uploaded' = Uploaded
  <1>nums. Numbers
    BY UploadedType
  <1> USE <1>nums DEF Numbers
  <1>un. /\ up' = [up EXCEPT !.step = "status"] /\ at' = at
         /\ UNCHANGED <<rxPacket, upListPtr, cur, dirty, accepted, delivered, wire>>
         /\ upd' = [upd EXCEPT ![upListPtr].packet = rxPacket]
    BY DEF UploadData, driverVars, history
  <1>now. /\ up.step = "data" /\ rxPacket # 0 /\ Uploaded < dirty + Upds
          /\ upListPtr = Slot(Uploaded) /\ rxPacket \in 0 .. MaxPackets
    BY DEF UploadData, RxInv, Uploading, RxTypes
  <1>slot. Slot(Uploaded) \in 1 .. Upds
    BY UpdSlots
  <1>up. up' \in UpSteps /\ up'.step = "status" /\ up' # NoUpload
    BY <1>un, <1>now, UpTypes
  <1>types. RxTypes'
    BY <1>un, <1>now, <1>slot, <1>up, UpdTypes DEF RxInv, RxTypes
  <1>n. Uploaded' = Uploaded
    BY <1>un DEF Uploaded
  <1>upd. /\ \A i \in 1 .. Upds : upd'[i].complete = upd[i].complete
          /\ \A i \in 1 .. Upds : i # Slot(Uploaded) => upd'[i] = upd[i]
          /\ upd'[Slot(Uploaded)].packet = rxPacket
    BY <1>un, <1>now, <1>slot, UpdTypes DEF Upd
  <1>ring. Ring'
    <2>range. \A k \in Nat : Slot(k) \in 1 .. Upds
      BY UpdSlots
    <2>comp. \A k \in Nat : upd'[Slot(k)].complete = upd[Slot(k)].complete
      BY <2>range, <1>upd
    <2>full. \A k \in dirty .. (Uploaded - 1) : upd'[Slot(k)].complete
      <3> TAKE k \in dirty .. (Uploaded - 1)
      <3>old. k \in Nat /\ upd[Slot(k)].complete
        BY DEF RxInv, Ring
      <3> QED  BY <3>old, <2>comp
    <2>free. \A k \in Uploaded .. (dirty + Upds - 1) : ~upd'[Slot(k)].complete
      BY <2>comp DEF RxInv, Ring
    <2>data. \A k \in cur .. (Uploaded - 1) : upd'[Slot(k)].packet = accepted[k + 1]
      <3> TAKE k \in cur .. (Uploaded - 1)
      <3>k. k \in dirty .. (dirty + Upds - 1) /\ k # Uploaded /\ k \in Nat
        BY <1>now
      <3>other. Slot(k) # Slot(Uploaded)
        BY <3>k, <1>now, OtherSlots
      <3> QED  BY <3>k, <3>other, <2>range, <1>upd DEF RxInv, Ring
    <2> QED  BY <1>un, <1>n, <2>full, <2>free, <2>data DEF RxInv, Ring, Slot
  <1>load. Uploading'
    BY <1>un, <1>n, <1>now, <1>up, <1>upd DEF RxInv, Uploading, Slot
  <1> QED  BY <1>types, <1>ring, <1>load, <1>n DEF RxInv

\* With its status the UPD is one of those uploaded.
LEMMA UploadStatusKeeps ==
  ASSUME RxInv, UploadStatus
  PROVE  RxInv' /\ Uploaded' = Uploaded + 1
  <1>nums. Numbers
    BY UploadedType
  <1> USE <1>nums DEF Numbers
  <1>un. /\ up' = [up EXCEPT !.step = "indicate"] /\ at' = at /\ rxPacket' = 0
         /\ UNCHANGED <<upListPtr, cur, dirty, accepted, delivered, wire>>
         /\ upd' = [upd EXCEPT ![upListPtr].complete = TRUE]
    BY DEF UploadStatus, driverVars, history
  <1>now. /\ up.step = "status" /\ rxPacket # 0 /\ Uploaded < dirty + Upds
          /\ upListPtr = Slot(Uploaded) /\ upd[Slot(Uploaded)].packet = rxPacket
          /\ accepted[Len(accepted)] = rxPacket
    BY DEF UploadStatus, RxInv, Uploading
  <1>slot. Slot(Uploaded) \in 1 .. Upds
    BY UpdSlots
  <1>up. up' \in UpSteps /\ up'.step = "indicate" /\ up' # NoUpload
    BY <1>un, <1>now, UpTypes
  <1>types. RxTypes'
    BY <1>un, <1>now, <1>slot, <1>up, UpdTypes DEF RxInv, RxTypes
  <1>n. Uploaded' = Uploaded + 1 /\ Len(accepted) = Uploaded + 1
    BY <1>un, <1>now DEF Uploaded
  <1>upd. /\ \A i \in 1 .. Upds : upd'[i].packet = upd[i].packet
          /\ \A i \in 1 .. Upds : i # Slot(Uploaded) => upd'[i] = upd[i]
          /\ upd'[Slot(Uploaded)].complete
    BY <1>un, <1>now, <1>slot, UpdTypes DEF Upd
  <1>ring. Ring'
    <2>range. \A k \in Nat : Slot(k) \in 1 .. Upds
      BY UpdSlots
    <2>same. \A k \in dirty .. (dirty + Upds - 1) : k # Uploaded => upd'[Slot(k)] = upd[Slot(k)]
      <3> SUFFICES ASSUME NEW k \in dirty .. (dirty + Upds - 1), k # Uploaded
                   PROVE  upd'[Slot(k)] = upd[Slot(k)]
        OBVIOUS
      <3>other. Slot(k) # Slot(Uploaded)
        BY <1>now, OtherSlots
      <3>nat. k \in Nat
        OBVIOUS
      <3> QED  BY <3>nat, <3>other, <2>range, <1>upd
    <2>full. \A k \in dirty .. Uploaded : upd'[Slot(k)].complete
      <3> TAKE k \in dirty .. Uploaded
      <3>this. CASE k = Uploaded
        BY <3>this, <1>upd
      <3>before. CASE k # Uploaded
        <4>k. k \in dirty .. (Uploaded - 1) /\ k \in dirty .. (dirty + Upds - 1)
          BY <3>before, <1>now
        <4> QED  BY <4>k, <3>before, <2>same DEF RxInv, Ring
      <3> QED  BY <3>this, <3>before
    <2>free. \A k \in (Uploaded + 1) .. (dirty + Upds - 1) : ~upd'[Slot(k)].complete
      <3> TAKE k \in (Uploaded + 1) .. (dirty + Upds - 1)
      <3>k. k \in Uploaded .. (dirty + Upds - 1) /\ k \in dirty .. (dirty + Upds - 1) /\ k # Uploaded
        OBVIOUS
      <3> QED  BY <3>k, <2>same DEF RxInv, Ring
    <2>data. \A k \in cur .. Uploaded : upd'[Slot(k)].packet = accepted[k + 1]
      <3> TAKE k \in cur .. Uploaded
      <3>k. k \in Nat
        OBVIOUS
      <3>nat. upd'[Slot(k)].packet = upd[Slot(k)].packet
        BY <3>k, <2>range, <1>upd
      <3>this. CASE k = Uploaded
        BY <3>this, <3>nat, <1>now, <1>n
      <3>before. CASE k # Uploaded
        <4>k. k \in cur .. (Uploaded - 1)
          BY <3>before
        <4> QED  BY <4>k, <3>nat DEF RxInv, Ring
      <3> QED  BY <3>this, <3>before
    <2>size. cur <= Uploaded + 1 /\ Uploaded + 1 <= dirty + Upds /\ (Uploaded + 1) - 1 = Uploaded
      BY <1>now
    <2> QED  BY <1>un, <1>n, <2>full, <2>free, <2>data, <2>size DEF RxInv, Ring, Slot
  <1>load. Uploading'
    <2>less. (Uploaded + 1) - 1 = Uploaded /\ Uploaded + 1 > 0
      OBVIOUS
    <2> QED  BY <1>un, <1>n, <1>now, <1>up, <2>less DEF Uploading, Slot
  <1> QED  BY <1>types, <1>ring, <1>load, <1>n DEF RxInv

\* The list pointer moves on to the next slot.
LEMMA UploadIndicateKeeps ==
  ASSUME RxInv, Opened, UploadIndicate
  PROVE  RxInv' /\ Uploaded' = Uploaded
  <1>nums. Numbers
    BY UploadedType
  <1> USE <1>nums DEF Numbers
  <1>un. /\ up' = NoUpload /\ at' = at /\ upListPtr' = (upListPtr % Upds) + 1
         /\ UNCHANGED <<rxPacket, upd, cur, dirty, accepted, delivered, wire>>
    BY DEF UploadIndicate, driverVars, history, memory
  <1>now. /\ up.step = "indicate" /\ rxPacket = 0 /\ Uploaded - 1 \in Nat
          /\ upListPtr = Slot(Uploaded - 1)
    BY DEF UploadIndicate, RxInv, Uploading
  <1>ptr. upListPtr' = Slot(Uploaded)
    <2>next. (Slot(Uploaded - 1) % Upds) + 1 = Slot((Uploaded - 1) + 1)
      BY <1>now, UpdSlots
    <2>sum. (Uploaded - 1) + 1 = Uploaded
      OBVIOUS
    <2> QED  BY <1>un, <1>now, <2>next, <2>sum
  <1>at. at # "open"
    BY <1>now DEF Opened, Opening, NoUpload
  <1>n. Uploaded' = Uploaded
    BY <1>un DEF Uploaded
  <1>types. RxTypes'
    <2>up. NoUpload \in UpSteps
      BY DEF UpSteps
    <2>range. Slot(Uploaded) \in 0 .. Upds
      BY UpdSlots
    <2> QED  BY <1>un, <1>ptr, <2>up, <2>range DEF RxInv, RxTypes
  <1>ring. Ring'
    BY <1>n, <1>un DEF RxInv, Ring, Slot
  <1>load. Uploading'
    BY <1>un, <1>n, <1>now, <1>ptr, <1>at DEF Uploading, NoUpload, Slot
  <1> QED  BY <1>types, <1>ring, <1>load, <1>n DEF RxInv

\* The driver takes a packet only where one was uploaded, and stops only when it has
\* taken all.
LEMMA LookKeeps ==
  ASSUME RxInv, Look
  PROVE  /\ RxInv'
         /\ \/ at' = "refill" /\ cur' = cur /\ (Uploaded = cur)
            \/ at' = at
         /\ Uploaded' = Uploaded
  <1>nums. Numbers
    BY UploadedType
  <1> USE <1>nums DEF Numbers
  <1>un. UNCHANGED <<rxPacket, upListPtr, up, upd, dirty, accepted, wire>> /\ at = "rx"
    BY DEF Look, nicVars, memory
  <1>n. Uploaded' = Uploaded
    BY <1>un DEF Uploaded
  <1>one. CASE cur - dirty < Upds /\ upd[Slot(cur)].complete
    <2>act. delivered' = Append(delivered, upd[Slot(cur)].packet) /\ cur' = cur + 1 /\ at' = at
      BY <1>one DEF Look
    <2>more. cur < Uploaded
      <3> SUFFICES ASSUME cur = Uploaded PROVE FALSE
        OBVIOUS
      <3>free. cur \in Uploaded .. (dirty + Upds - 1)
        BY <1>one
      <3> QED  BY <3>free, <1>one DEF RxInv, Ring
    <2>packet. upd[Slot(cur)].packet = accepted[cur + 1] /\ accepted[cur + 1] \in 1 .. MaxPackets
      <3>there. cur \in cur .. (Uploaded - 1) /\ cur + 1 \in 1 .. Len(accepted)
        BY <2>more
      <3> QED  BY <3>there DEF RxInv, Ring, RxTypes
    <2>del. /\ delivered \in Seq(1 .. MaxPackets) /\ Len(delivered) = cur
            /\ delivered' = Append(delivered, accepted[cur + 1])
      BY <2>act, <2>packet DEF RxInv, RxTypes, Ring
    <2>len. /\ delivered' \in Seq(1 .. MaxPackets) /\ Len(delivered') = cur + 1
            /\ \A k \in 1 .. cur : delivered'[k] = delivered[k]
            /\ delivered'[cur + 1] = accepted[cur + 1]
      BY <2>del, <2>packet, AppendFacts
    <2>types. RxTypes'
      <3>cur. cur + 1 \in Nat /\ dirty \in 0 .. (cur + 1)
        OBVIOUS
      <3> QED  BY <1>un, <2>act, <2>len, <3>cur DEF RxInv, RxTypes
    <2>ring. Ring'
      <3>old. \A i \in 1 .. (cur + 1) : delivered'[i] = accepted[i]
        <4> TAKE i \in 1 .. (cur + 1)
        <4>last. CASE i = cur + 1
          BY <4>last, <2>len
        <4>first. CASE i # cur + 1
          <5>i. i \in 1 .. cur
            BY <4>first
          <5> QED  BY <5>i, <2>len DEF RxInv, Ring
        <4> QED  BY <4>last, <4>first
      <3>data. \A k \in (cur + 1) .. (Uploaded - 1) : upd[Slot(k)].packet = accepted[k + 1]
        <4> TAKE k \in (cur + 1) .. (Uploaded - 1)
        <4>k. k \in cur .. (Uploaded - 1)
          OBVIOUS
        <4> QED  BY <4>k DEF RxInv, Ring
      <3>size. cur + 1 <= Uploaded
        BY <2>more
      <3> QED  BY <1>un, <1>n, <2>act, <2>len, <3>old, <3>data, <3>size DEF RxInv, Ring, Slot
    <2>load. Uploading'
      BY <1>un, <1>n, <2>act DEF RxInv, Uploading, Slot
    <2> QED  BY <1>n, <2>act, <2>types, <2>ring, <2>load DEF RxInv
  <1>none. CASE ~(cur - dirty < Upds /\ upd[Slot(cur)].complete)
    <2>act. at' = "refill" /\ cur' = cur /\ delivered' = delivered
      BY <1>none DEF Look
    <2>all. Uploaded = cur
      <3> SUFFICES ASSUME cur < Uploaded PROVE FALSE
        OBVIOUS
      <3>there. cur \in dirty .. (Uploaded - 1) /\ cur - dirty < Upds
        OBVIOUS
      <3> QED  BY <3>there, <1>none DEF RxInv, Ring
    <2>wire. wire' \in 0 .. MaxPackets
      BY <1>un DEF RxInv, RxTypes
    <2>keep. RxInv'
      BY <1>un, <2>act, <2>wire, RxKept
    <2> QED  BY <1>n, <2>act, <2>all, <2>keep
  <1> QED  BY <1>one, <1>none

\* A UPD given back is the one behind the ring, and never the one being uploaded to.
LEMMA RefillKeeps ==
  ASSUME RxInv, NEW flaw, Refill(flaw)
  PROVE  RxInv' /\ Uploaded' = Uploaded
  <1>nums. Numbers
    BY UploadedType
  <1> USE <1>nums DEF Numbers
  <1>un. /\ UNCHANGED <<rxPacket, upListPtr, up, cur, accepted, delivered, wire>>
         /\ at = "refill" /\ at' # "open"
    BY DEF Refill, nicVars, history
  <1>n. Uploaded' = Uploaded
    BY <1>un DEF Uploaded
  <1>one. CASE dirty < cur
    <2>act. dirty' = dirty + 1 /\ upd' = [upd EXCEPT ![Slot(dirty)] = Unused]
      BY <1>one DEF Refill
    <2>range. \A k \in Nat : Slot(k) \in 1 .. Upds
      BY UpdSlots
    <2>upd. /\ \A i \in 1 .. Upds : i # Slot(dirty) => upd'[i] = upd[i]
            /\ upd'[Slot(dirty)] = Unused
      BY <2>act, <2>range, UpdTypes
    <2>same. \A k \in (dirty + 1) .. (dirty + Upds - 1) : upd'[Slot(k)] = upd[Slot(k)]
      <3> TAKE k \in (dirty + 1) .. (dirty + Upds - 1)
      <3>k. k \in Nat /\ dirty < k /\ k < dirty + Upds
        OBVIOUS
      <3>apart. Slot(dirty) # Slot(k)
        BY <3>k, UpdSlots
      <3> QED  BY <3>k, <3>apart, <2>range, <2>upd
    <2>types. RxTypes'
      <3>up. upd' \in [1 .. Upds -> Upd]
        BY <2>act, <2>range, UpdTypes
      <3>dirty. dirty + 1 \in 0 .. cur
        BY <1>one
      <3> QED  BY <1>un, <2>act, <3>up, <3>dirty DEF RxInv, RxTypes
    <2>ring. Ring'
      <3>full. \A k \in (dirty + 1) .. (Uploaded - 1) : upd'[Slot(k)].complete
        <4> TAKE k \in (dirty + 1) .. (Uploaded - 1)
        <4>k. k \in dirty .. (Uploaded - 1) /\ k \in (dirty + 1) .. (dirty + Upds - 1)
          OBVIOUS
        <4> QED  BY <4>k, <2>same DEF RxInv, Ring
      <3>data. \A k \in cur .. (Uploaded - 1) : upd'[Slot(k)].packet = accepted[k + 1]
        <4> TAKE k \in cur .. (Uploaded - 1)
        <4>k. k \in (dirty + 1) .. (dirty + Upds - 1)
          BY <1>one
        <4> QED  BY <4>k, <2>same DEF RxInv, Ring
      <3>free. \A k \in Uploaded .. (dirty + 1 + Upds - 1) : ~upd'[Slot(k)].complete
        <4> TAKE k \in Uploaded .. (dirty + 1 + Upds - 1)
        <4>last. CASE k = dirty + Upds
          <5>slot. Slot(k) = Slot(dirty)
            BY <4>last, UpdSlots
          <5> QED  BY <5>slot, <2>upd DEF Unused
        <4>others. CASE k # dirty + Upds
          <5>k. k \in Uploaded .. (dirty + Upds - 1) /\ k \in (dirty + 1) .. (dirty + Upds - 1)
            BY <4>others, <1>one
          <5> QED  BY <5>k, <2>same DEF RxInv, Ring
        <4> QED  BY <4>last, <4>others
      <3>size. Uploaded <= dirty + 1 + Upds
        OBVIOUS
      <3> QED  BY <1>un, <1>n, <2>act, <3>full, <3>data, <3>free, <3>size DEF RxInv, Ring, Slot
    <2>load. Uploading'
      <3>more. Uploaded < dirty + Upds => Uploaded < dirty + 1 + Upds
        OBVIOUS
      <3>packet. up.step = "status" => upd'[Slot(Uploaded)].packet = rxPacket
        <4> SUFFICES ASSUME up.step = "status" PROVE upd'[Slot(Uploaded)].packet = rxPacket
          OBVIOUS
        <4>now. /\ Uploaded < dirty + Upds /\ upListPtr = Slot(Uploaded)
                /\ upd[upListPtr].packet = rxPacket
          BY DEF RxInv, Uploading
        <4>k. Uploaded \in (dirty + 1) .. (dirty + Upds - 1)
          BY <4>now, <1>one
        <4> QED  BY <4>now, <4>k, <2>same
      <3>ptr. up.step = "status" => upListPtr = Slot(Uploaded)
        BY DEF RxInv, Uploading
      <3> QED  BY <1>un, <1>n, <2>act, <3>more, <3>packet, <3>ptr DEF RxInv, Uploading, Slot
    <2> QED  BY <2>types, <2>ring, <2>load, <1>n DEF RxInv
  <1>none. CASE ~(dirty < cur)
    <2>act. upd' = upd /\ dirty' = dirty
      BY <1>none DEF Refill
    <2>wire. wire' \in 0 .. MaxPackets
      BY <1>un DEF RxInv, RxTypes
    <2> QED  BY <1>un, <2>act, <2>wire, RxKept
  <1> QED  BY <1>one, <1>none

\* The packet held is looked at when the driver has given a UPD back.
LEMMA UnstallKeeps ==
  ASSUME RxInv, Unstall
  PROVE  RxInv' /\ Uploaded' = Uploaded
  <1>check. /\ checkUpWork(rxPacket, FALSE, upListPtr, "cpu")
            /\ up = NoUpload /\ at = "unstall" /\ at' = "refill"
            /\ UNCHANGED <<upd, cur, dirty, accepted, delivered, wire>>
    BY DEF Unstall, Access, CmdUpStall, Unlocked, memory, history
  <1>p. rxPacket \in 0 .. MaxPackets /\ wire' \in 0 .. MaxPackets
    BY <1>check DEF RxInv, RxTypes
  <1> QED  BY <1>check, <1>p, CheckUpKeeps

\* the ring as the driver makes it, before the card knows of it
Fresh ==
    /\ rxPacket = 0 /\ accepted = <<>> /\ delivered = <<>> /\ cur = 0 /\ dirty = 0
    /\ upd = [i \in 1 .. Upds |-> Unused]
    /\ up = NoUpload
    /\ wire \in 0 .. MaxPackets
    /\ upListPtr = IF at = "open" THEN 0 ELSE 1

\* An empty ring.
LEMMA FreshRing == Fresh => RxInv
  <1> SUFFICES ASSUME Fresh PROVE RxInv
    OBVIOUS
  <1>size. Upds \in Nat \ {0} /\ MaxPackets \in Nat
    BY NicAssumption
  <1>n. Uploaded = 0
    BY DEF Fresh, Uploaded
  <1>slot. Slot(0) = 1 /\ \A k \in Nat : Slot(k) \in 1 .. Upds
    <2>zero. 0 % Upds = 0
      BY <1>size
    <2> QED  BY <2>zero, UpdSlots DEF Slot
  <1>types. RxTypes
    BY <1>size DEF Fresh, RxTypes, UpSteps, Upd, Unused
  <1>ring. Ring
    <2>free. \A k \in 0 .. (Upds - 1) : ~upd[Slot(k)].complete
      BY <1>slot DEF Fresh, Unused
    <2> QED  BY <1>size, <1>n, <2>free DEF Fresh, Ring
  <1>load. Uploading
    BY <1>n, <1>slot DEF Fresh, Uploading, NoUpload
  <1> QED  BY <1>types, <1>ring, <1>load DEF RxInv

\* The access with which the driver gives the ring to the card.
LEMMA FirstKeeps ==
  ASSUME RxInv, Opened, Access("open", writeUpListPtr(1), "indication"),
         UNCHANGED <<upd, cur, dirty, accepted, delivered, wire>>
  PROVE  RxInv' /\ Uploaded' = Uploaded
  <1>nums. Numbers
    BY UploadedType
  <1> USE <1>nums DEF Numbers
  <1>now. at = "open" /\ up = NoUpload /\ rxPacket = 0 /\ accepted = <<>>
    BY DEF Access, Opened, Opening, Unlocked
  <1>act. at' = "indication" /\ up' = NoUpload /\ rxPacket' = 0 /\ upListPtr' = 1
    BY <1>now DEF Access, writeUpListPtr, checkUpWork
  <1>n. Uploaded' = 0 /\ Uploaded = 0
    BY <1>now, <1>act DEF Uploaded
  <1>slot. Slot(0) = 1
    <2>zero. 0 % Upds = 0
      OBVIOUS
    <2> QED  BY <2>zero DEF Slot
  <1>types. RxTypes'
    BY <1>now, <1>act DEF RxInv, RxTypes
  <1>ring. Ring'
    BY <1>n DEF RxInv, Ring, Slot
  <1>load. Uploading'
    BY <1>n, <1>slot, <1>act DEF Uploading, NoUpload, Slot
  <1> QED  BY <1>types, <1>ring, <1>load, <1>n DEF RxInv

\* An upload that the driver has not looked at is indicated in IntStatus, unless the
\* driver is about to look, and its interrupt is pending if the driver does nothing.
Telling ==
    Uploaded > cur /\ up.step # "indicate" =>
      /\ at \in {"out", "tx", "list", "status", "refill", "unstall"} => "upComplete" \in intStatus
      /\ at \in {"out", "tx", "list"} => irq

TellInv == RxInv /\ Opened /\ Telling

\* Steps that neither receive nor acknowledge.
LEMMA QuietSteps ==
  ASSUME TellInv,
         UNCHANGED <<rxPacket, upListPtr, up, upd, cur, dirty, accepted, delivered>>,
         UNCHANGED <<rxEnabled, indEnable, intEnable>>,
         wire' \in 0 .. MaxPackets,
         "upComplete" \in intStatus => "upComplete" \in intStatus',
         \/ at' = at /\ (irq => irq')
         \/ at \in {"out", "tx", "list"} /\ at' \in {"out", "tx", "list"} /\ (irq => irq')
         \/ at = "out" /\ at' = "status"
  PROVE  TellInv'
  <1>rx. RxInv' /\ Uploaded' = Uploaded
    BY RxKept DEF TellInv
  <1>open. Opened'
    BY DEF TellInv, Opened, Opening
  <1>tell. Telling'
    BY <1>rx DEF TellInv, Telling
  <1> QED  BY <1>rx, <1>open, <1>tell DEF TellInv

\* Every step of the system, for the receiving half.
LEMMA TellStep ==
  ASSUME TellInv, [Next]_vars
  PROVE  TellInv'
  <1>inv. RxInv /\ Opened /\ Telling /\ wire \in 0 .. MaxPackets
    BY DEF TellInv, RxInv, RxTypes
  <1>queue. ASSUME NEW passes \in BOOLEAN, handleRxQueue(passes) PROVE TellInv'
    <2>rx. RxInv' /\ Uploaded' = Uploaded
      BY <1>inv, <1>queue, RxQueueKeeps
    <2>un. /\ UNCHANGED <<at, cur, rxEnabled, indEnable, intEnable>>
           /\ up = NoUpload
           /\ "upComplete" \in intStatus => "upComplete" \in intStatus'
           /\ irq => irq'
      BY <1>queue DEF handleRxQueue, driverVars, Unlocked, indicate
    <2>open. Opened'
      <3>opening. CASE Opening
        <4>shut. /\ rxEnabled = FALSE /\ rxPacket = 0 /\ accepted = <<>> /\ cur = 0
          BY <3>opening, <1>inv DEF Opened
        <4>kept. rxPacket' = 0 /\ accepted' = <<>> /\ up' = NoUpload
          BY <4>shut, <1>queue DEF handleRxQueue, checkUpWork
        <4> QED  BY <4>shut, <4>kept, <2>un, <3>opening, <1>inv DEF Opened, Opening
      <3>opened. CASE ~Opening
        BY <3>opened, <2>un, <1>inv DEF Opened, Opening
      <3> QED  BY <3>opening, <3>opened
    <2>tell. Telling'
      <3>step. up.step # "indicate"
        BY <2>un DEF NoUpload
      <3> QED  BY <3>step, <2>rx, <2>un, <1>inv DEF Telling
    <2> QED  BY <2>rx, <2>open, <2>tell DEF TellInv
  <1>data. CASE UploadData
    <2>rx. RxInv' /\ Uploaded' = Uploaded
      BY <1>inv, <1>data, UploadDataKeeps
    <2>un. /\ UNCHANGED <<at, cur, rxEnabled, indEnable, intEnable, intStatus, irq>>
           /\ up.step = "data"
      BY <1>data DEF UploadData, driverVars
    <2>open. Opened'
      BY <2>un, <1>inv DEF Opened, Opening, NoUpload
    <2>tell. Telling'
      BY <2>rx, <2>un, <1>inv DEF Telling
    <2> QED  BY <2>rx, <2>open, <2>tell DEF TellInv
  <1>status. CASE UploadStatus
    <2>rx. RxInv'
      BY <1>inv, <1>status, UploadStatusKeeps
    <2>un. /\ UNCHANGED <<at, cur, rxEnabled, indEnable, intEnable, intStatus, irq>>
           /\ up.step = "status" /\ up' = [up EXCEPT !.step = "indicate"]
      BY <1>status DEF UploadStatus, driverVars
    <2>open. Opened'
      BY <2>un, <1>inv DEF Opened, Opening, NoUpload
    <2>tell. Telling'
      <3>step. up'.step = "indicate"
        BY <2>un, <1>inv, UpTypes
      <3> QED  BY <3>step DEF Telling
    <2> QED  BY <2>rx, <2>open, <2>tell DEF TellInv
  <1>indicate. CASE UploadIndicate
    <2>rx. RxInv'
      BY <1>inv, <1>indicate, UploadIndicateKeeps
    <2>un. /\ UNCHANGED <<at, cur, rxEnabled, indEnable, intEnable>>
           /\ up.step = "indicate" /\ maybeRaiseIntr(indicate({"upComplete"}))
      BY <1>indicate DEF UploadIndicate, driverVars
    <2>opened. ~Opening /\ indEnable = Sources /\ "upComplete" \in intEnable
      BY <2>un, <1>inv DEF Opened, Opening, NoUpload
    <2>open. Opened'
      BY <2>un, <2>opened DEF Opened, Opening
    <2>source. "upComplete" \in indEnable \cap intEnable \cap indicate({"upComplete"})
      BY <2>opened DEF indicate, Sources
    <2>raised. "upComplete" \in intStatus' /\ irq'
      BY <2>un, <2>source DEF maybeRaiseIntr
    <2>tell. Telling'
      BY <2>raised DEF Telling
    <2> QED  BY <2>rx, <2>open, <2>tell DEF TellInv
  <1>down. CASE checkDnWork
    <2>un. /\ UNCHANGED <<rxPacket, upListPtr, up, upd, cur, dirty, accepted, delivered>>
           /\ UNCHANGED <<rxEnabled, indEnable, intEnable, wire, at>>
           /\ intStatus \subseteq intStatus' /\ (irq => irq')
      BY <1>down DEF checkDnWork, memory, driverVars, maybeRaiseIntr, indicate
    <2> QED  BY <2>un, <1>inv, QuietSteps
  <1>open. CASE Open
    <2>un. UNCHANGED <<upd, cur, dirty, accepted, delivered, wire>>
      BY <1>open DEF Open, memory, history
    <2>first. CASE Access("open", writeUpListPtr(1), "indication")
      <3>rx. RxInv' /\ Uploaded' = Uploaded
        BY <2>first, <2>un, <1>inv, FirstKeeps
      <3>now. at = "open" /\ at' = "indication" /\ rxEnabled' = rxEnabled
              /\ checkUpWork(rxPacket, upStalled, 1, "cpu")
        BY <2>first DEF Access, writeUpListPtr
      <3>shut. rxEnabled = FALSE /\ accepted = <<>> /\ rxPacket = 0 /\ cur = 0
        BY <3>now, <1>inv DEF Opened, Opening
      <3>open. Opened'
        BY <3>now, <3>shut, <2>un DEF Opened, Opening, checkUpWork
      <3>tell. Telling'
        BY <3>now DEF Telling
      <3> QED  BY <3>rx, <3>open, <3>tell DEF TellInv
    <2>others. CASE \/ Access("indication", CmdSetIndicationEnable(Sources), "intr")
                    \/ Access("intr", CmdSetIntrEnb({"upComplete", "dnComplete"}), "enable")
                    \/ Access("enable", CmdRxEnable, "out")
      <3>opening. Opening /\ at # "open" /\ at' # "open" /\ UNCHANGED <<rxPacket, upListPtr, up>>
        BY <2>others DEF Access, Opening, CmdSetIndicationEnable, CmdSetIntrEnb, CmdRxEnable
      <3>shut. rxEnabled = FALSE /\ accepted = <<>> /\ rxPacket = 0 /\ cur = 0 /\ up = NoUpload
        BY <3>opening, <1>inv DEF Opened
      <3>rx. RxInv' /\ Uploaded' = Uploaded
        BY <3>opening, <2>un, <1>inv, RxKept
      <3>n. Uploaded' = cur'
        BY <3>rx, <3>shut, <2>un DEF Uploaded
      <3>tell. Telling'
        BY <3>n, <3>shut, <2>un DEF Telling
      <3>open. Opened'
        BY <2>others, <3>shut, <2>un, <1>inv
        DEF Opened, Opening, Access, CmdSetIndicationEnable, CmdSetIntrEnb, CmdRxEnable
      <3> QED  BY <3>rx, <3>open, <3>tell DEF TellInv
    <2> QED  BY <1>open, <2>first, <2>others DEF Open
  <1>enter. CASE Enter
    <2>un. /\ UNCHANGED <<rxPacket, upListPtr, up, upd, cur, dirty, accepted, delivered>>
           /\ UNCHANGED <<rxEnabled, indEnable, intEnable, wire, intStatus>>
           /\ at = "out" /\ at' = "status"
      BY <1>enter DEF Enter, memory, history
    <2> QED  BY <2>un, <1>inv, QuietSteps
  <1>read. CASE ReadStatus
    <2>un. /\ UNCHANGED <<rxPacket, upListPtr, up, upd, cur, dirty, accepted, delivered>>
           /\ UNCHANGED <<rxEnabled, indEnable, intEnable, wire, intStatus>>
           /\ at = "status" /\ up = NoUpload
           /\ at' = IF intStatus \cap Sources = {} THEN "out" ELSE "ack"
      BY <1>read DEF ReadStatus, nicVars, memory, history, Unlocked
    <2>rx. RxInv' /\ Uploaded' = Uploaded
      BY <2>un, <1>inv, RxKept
    <2>open. Opened'
      BY <2>un, <1>inv DEF Opened, Opening
    <2>tell. Telling'
      BY <2>rx, <2>un, <1>inv DEF Telling, Sources, NoUpload
    <2> QED  BY <2>rx, <2>open, <2>tell DEF TellInv
  <1>ack. CASE Acknowledge
    <2>un. /\ UNCHANGED <<rxPacket, upListPtr, up, upd, cur, dirty, accepted, delivered>>
           /\ UNCHANGED <<rxEnabled, indEnable, intEnable, wire>>
           /\ at = "ack" /\ at' = "rx"
      BY <1>ack DEF Acknowledge, Access, CmdAckIntr, memory, history
    <2>rx. RxInv' /\ Uploaded' = Uploaded
      BY <2>un, <1>inv, RxKept
    <2>open. Opened'
      BY <2>un, <1>inv DEF Opened, Opening
    <2>tell. Telling'
      BY <2>un DEF Telling
    <2> QED  BY <2>rx, <2>open, <2>tell DEF TellInv
  <1>look. CASE Look
    <2>rx. /\ RxInv' /\ Uploaded' = Uploaded
           /\ \/ at' = "refill" /\ cur' = cur /\ Uploaded = cur
              \/ at' = at
      BY <1>inv, <1>look, LookKeeps
    <2>un. UNCHANGED <<rxEnabled, indEnable, intEnable>> /\ at = "rx"
      BY <1>look DEF Look, nicVars
    <2>open. Opened'
      BY <2>un, <2>rx, <1>inv DEF Opened, Opening
    <2>nat. cur \in Nat
      BY <1>inv DEF RxInv, RxTypes
    <2>tell. Telling'
      BY <2>un, <2>rx, <2>nat DEF Telling
    <2> QED  BY <2>rx, <2>open, <2>tell DEF TellInv
  <1>refill. CASE \E flaw \in UpdFlaw : Refill(flaw)
    <2>rx. RxInv' /\ Uploaded' = Uploaded
      BY <1>inv, <1>refill, RefillKeeps
    <2>un. /\ UNCHANGED <<rxEnabled, indEnable, intEnable, intStatus, up, cur>>
           /\ at = "refill" /\ at' \in {"unstall", "status"}
      BY <1>refill DEF Refill, nicVars
    <2>open. Opened'
      BY <2>un, <2>rx, <1>inv DEF Opened, Opening
    <2>tell. Telling'
      BY <2>un, <2>rx, <1>inv DEF Telling
    <2> QED  BY <2>rx, <2>open, <2>tell DEF TellInv
  <1>unstall. CASE Unstall
    <2>rx. RxInv' /\ Uploaded' = Uploaded
      BY <1>inv, <1>unstall, UnstallKeeps
    <2>un. /\ UNCHANGED <<rxEnabled, indEnable, intEnable, intStatus, cur>>
           /\ at = "unstall" /\ at' = "refill" /\ up = NoUpload
      BY <1>unstall DEF Unstall, Access, CmdUpStall, Unlocked
    <2>open. Opened'
      BY <2>un, <2>rx, <1>inv DEF Opened, Opening
    <2>tell. Telling'
      BY <2>un, <2>rx, <1>inv DEF Telling, NoUpload
    <2> QED  BY <2>rx, <2>open, <2>tell DEF TellInv
  <1>frames. CASE (\E empty \in BOOLEAN, how \in DpdHow : Queue(empty, how)) \/ WriteList \/ UnstallDn \/ StallDn
    <2>un. /\ UNCHANGED <<rxPacket, upListPtr, up, upd, cur, dirty, accepted, delivered>>
           /\ UNCHANGED <<rxEnabled, indEnable, intEnable, wire, intStatus, irq>>
           /\ at \in {"out", "tx", "list"} /\ at' \in {"out", "tx", "list"}
      BY <1>frames DEF Queue, WriteList, UnstallDn, StallDn, Access, writeDnListPtr, CmdDnStall,
                       nicVars, memory, history
    <2> QED  BY <2>un, <1>inv, QuietSteps
  <1>reset. CASE Reset
    <2>fresh. Fresh' /\ at' = "open" /\ rxEnabled' = FALSE
      BY <1>reset, <1>inv DEF Reset, Access, totalReset, Unlocked, Fresh
    <2>rx. RxInv'
      BY <2>fresh, FreshRing, PTL
    <2>open. Opened'
      BY <2>fresh DEF Fresh, Opened, Opening
    <2>tell. Telling'
      BY <2>fresh DEF Telling
    <2> QED  BY <2>rx, <2>open, <2>tell DEF TellInv
  <1>idle. CASE UNCHANGED vars
    BY <1>idle, <1>inv, QuietSteps DEF vars, nicVars, memory, driverVars, history
  <1> QED  BY <1>queue, <1>data, <1>status, <1>indicate, <1>down, <1>open, <1>enter, <1>read,
              <1>ack, <1>look, <1>refill, <1>unstall, <1>frames, <1>reset, <1>idle
           DEF Next, Upload, Driver, UpdFlaw, DpdHow

-----------------------------------------------------------------------------
(* The download.                                                           *)

Dpd == [next : 0 .. Dpds, frame : 0 .. MaxFrames, empty : BOOLEAN]

\* where the driver puts its frame k
DSlot(k) == (k % Dpds) + 1

Frames == Len(queued)
First == Frames - batch + 1

DpdFlaw == [which : 1 .. MaxFrames, how : DpdFlaws] \cup {NoFlaw}

\* the frame of the wrong DPD
Flawed == badDpd # NoFlaw
BadFrame == badDpd.which

DnTypes ==
    /\ dnListPtr \in 0 .. Dpds
    /\ dpd \in [1 .. Dpds -> Dpd]
    /\ batch \in 0 .. Dpds
    /\ queued \in Seq(1 .. MaxFrames)
    /\ sent \in Seq(1 .. MaxFrames)
    /\ Frames <= MaxFrames
    /\ badDpd \in DpdFlaw

\* the frames below k have left, those from k on have not
SentBelow(s, d, k) ==
    /\ \A i \in 1 .. Len(s) : s[i] < k
    /\ \A n \in 1 .. Dpds : ~d[n].empty /\ d[n].frame < k =>
          \E i \in 1 .. Len(s) : s[i] = d[n].frame

\* each DPD in use holds a frame in its slot, and those of the batch are linked
Batch ==
    /\ batch <= Frames
    /\ \A i, j \in 1 .. Len(sent) : i < j => sent[i] < sent[j]
    /\ \A d \in 1 .. Dpds : ~dpd[d].empty =>
          dpd[d].frame \in 1 .. Frames /\ d = DSlot(dpd[d].frame)
    /\ \A k \in First .. Frames :
          /\ dpd[DSlot(k)].frame = k
          /\ dpd[DSlot(k)].next = IF k = Frames THEN 0 ELSE DSlot(k + 1)
    /\ Flawed => BadFrame \in First .. Frames

\* the card has come to frame k, or stays at the wrong DPD, which is frame k
Reached(k) ==
    /\ SentBelow(sent, dpd, k)
    /\ Flawed => k <= BadFrame
    /\ \/ dnListPtr = IF k = Frames + 1 THEN 0 ELSE DSlot(k)
       \/ dnListPtr = 0 /\ Flawed /\ k = BadFrame
    /\ ~dn => dnListPtr = 0 \/ (Flawed /\ k = BadFrame)

\* what the card still has to send is the rest of the batch
Download ==
    IF at \in {"tx", "list"}
    THEN /\ dnStalled
         /\ SentBelow(sent, dpd, First)
         /\ dnListPtr = IF batch = (IF at = "list" THEN 1 ELSE 0) THEN 0 ELSE DSlot(First)
         /\ at = "list" => batch > 0
    ELSE /\ ~dnStalled
         /\ \E k \in First .. (Frames + 1) : Reached(k)

DnInv == DnTypes /\ Batch /\ Download

DnNumbers ==
    /\ Dpds \in Nat \ {0} /\ MaxFrames \in Nat
    /\ Frames \in 0 .. MaxFrames /\ batch \in Nat /\ batch <= Dpds /\ batch <= Frames
    /\ First = Frames - batch + 1 /\ First \in Nat \ {0}

\* The counts of the download.
LEMMA DnNums == ASSUME DnInv PROVE DnNumbers
  <1>size. Dpds \in Nat \ {0} /\ MaxFrames \in Nat
    BY NicAssumption
  <1>len. Len(queued) \in Nat
    BY DEF DnInv, DnTypes
  <1> QED  BY <1>size, <1>len DEF DnInv, DnTypes, Batch, DnNumbers, Frames, First

\* The slots of the DPDs.
LEMMA DpdSlots ==
  /\ \A k \in Nat : DSlot(k) \in 1 .. Dpds
  /\ \A j, k \in Nat : j < k /\ k < j + Dpds => DSlot(j) # DSlot(k)
  <1>size. Dpds \in Nat \ {0}
    BY NicAssumption
  <1>range. \A k \in Nat : DSlot(k) \in 1 .. Dpds
    BY <1>size, InRange DEF DSlot
  <1>apart. \A j, k \in Nat : j < k /\ k < j + Dpds => DSlot(j) # DSlot(k)
    <2> SUFFICES ASSUME NEW j \in Nat, NEW k \in Nat, j < k, k < j + Dpds
                 PROVE  DSlot(j) # DSlot(k)
      OBVIOUS
    <2>mod. j % Dpds # k % Dpds
      BY <1>size, SlotsApart
    <2>types. j % Dpds \in Int /\ k % Dpds \in Int
      BY <1>size
    <2> QED  BY <2>mod, <2>types DEF DSlot
  <1> QED  BY <1>range, <1>apart

\* What the receiving side does does not touch the download.
LEMMA DnKept ==
  ASSUME DnInv, UNCHANGED <<dnListPtr, dpd, badDpd, batch, queued, sent, dn, dnStalled>>,
         \/ at' = at
         \/ at \notin {"tx", "list"} /\ at' \notin {"tx", "list"}
  PROVE  DnInv'
  <1>same. Frames' = Frames /\ First' = First
    BY DEF Frames, First
  <1>types. DnTypes'
    BY <1>same DEF DnInv, DnTypes
  <1>batch. Batch'
    BY <1>same DEF DnInv, Batch, DSlot, Flawed, BadFrame
  <1>down. Download'
    BY <1>same DEF DnInv, Download, Reached, DSlot, Flawed, BadFrame
  <1> QED  BY <1>types, <1>batch, <1>down DEF DnInv

\* A new batch begins where the card has sent all that was queued.
LEMMA StallKeeps ==
  ASSUME DnInv, StallDn
  PROVE  DnInv'
  <1>nums. DnNumbers
    BY DnNums
  <1> USE <1>nums DEF DnNumbers
  <1>now. /\ at = "out" /\ ~dn /\ at' = "tx" /\ dnStalled' = TRUE /\ batch' = 0
          /\ UNCHANGED <<dnListPtr, dpd, badDpd, queued, sent>>
          /\ ~Flawed /\ ~Flawed'
    BY DEF StallDn, Access, CmdDnStall, Unlocked, memory, history, Flawed
  <1>size. Frames' = Frames /\ First' = Frames + 1
    BY <1>now DEF Frames, First
  <1>k. PICK k \in First .. (Frames + 1) : Reached(k)
    BY <1>now DEF DnInv, Download
  <1>empty. dnListPtr = 0
    BY <1>k, <1>now DEF Reached
  <1>all. SentBelow(sent, dpd, Frames + 1)
    <2>ptr. SentBelow(sent, dpd, k) /\ dnListPtr = IF k = Frames + 1 THEN 0 ELSE DSlot(k)
      BY <1>k, <1>now DEF Reached
    <2>slot. k \in Nat /\ DSlot(k) # 0
      BY DpdSlots
    <2> QED  BY <2>ptr, <2>slot, <1>empty
  <1>types. DnTypes'
    BY <1>now, <1>size DEF DnInv, DnTypes
  <1>batch. Batch'
    BY <1>now, <1>size DEF DnInv, Batch, DSlot
  <1>down. Download'
    BY <1>now, <1>size, <1>empty, <1>all DEF Download
  <1> QED  BY <1>types, <1>batch, <1>down DEF DnInv

\* The list pointer is taken for the first DPD of the batch, and ignored for others.
LEMMA WriteListKeeps ==
  ASSUME DnInv, WriteList
  PROVE  DnInv'
  <1>nums. DnNumbers
    BY DnNums
  <1> USE <1>nums DEF DnNumbers
  <1>now. /\ at = "list" /\ at' = "tx" /\ UNCHANGED <<dpd, badDpd, queued, sent, batch, dnStalled>>
          /\ dnListPtr' = IF dnListPtr = 0 THEN DSlot(Frames) ELSE dnListPtr
    BY DEF WriteList, Access, writeDnListPtr, memory, history, DSlot, Frames
  <1>size. Frames' = Frames /\ First' = First
    BY <1>now DEF Frames, First
  <1>slots. DSlot(Frames) \in 1 .. Dpds /\ DSlot(First) \in 1 .. Dpds
    BY DpdSlots
  <1>old. /\ dnStalled /\ batch > 0 /\ SentBelow(sent, dpd, First)
          /\ dnListPtr = IF batch = 1 THEN 0 ELSE DSlot(First)
    BY <1>now DEF DnInv, Download
  <1>ptr. dnListPtr' = DSlot(First)
    <2>one. CASE batch = 1
      <3>first. First = Frames
        BY <2>one
      <3> QED  BY <2>one, <3>first, <1>old, <1>now
    <2>more. CASE batch # 1
      BY <2>more, <1>old, <1>now, <1>slots
    <2> QED  BY <2>one, <2>more
  <1>types. DnTypes'
    BY <1>now, <1>size, <1>ptr, <1>slots DEF DnInv, DnTypes
  <1>batch. Batch'
    BY <1>now, <1>size DEF DnInv, Batch, DSlot, Flawed, BadFrame
  <1>down. Download'
    BY <1>now, <1>size, <1>ptr, <1>old DEF Download, DSlot
  <1> QED  BY <1>types, <1>batch, <1>down DEF DnInv

\* The card has the whole batch before it.
LEMMA UnstallDnKeeps ==
  ASSUME DnInv, UnstallDn
  PROVE  DnInv'
  <1>nums. DnNumbers
    BY DnNums
  <1> USE <1>nums DEF DnNumbers
  <1>now. /\ at = "tx" /\ at' = "out" /\ UNCHANGED <<dpd, badDpd, queued, sent, batch, dnListPtr>>
          /\ dnStalled' = FALSE /\ dn' = TRUE /\ batch > 0
    BY DEF UnstallDn, Access, CmdDnStall, memory, history
  <1>size. Frames' = Frames /\ First' = First
    BY <1>now DEF Frames, First
  <1>old. SentBelow(sent, dpd, First) /\ dnListPtr = DSlot(First)
    BY <1>now DEF DnInv, Download
  <1>types. DnTypes'
    BY <1>now, <1>size DEF DnInv, DnTypes
  <1>batch. Batch'
    BY <1>now, <1>size DEF DnInv, Batch, DSlot, Flawed, BadFrame
  <1>down. Download'
    <2>k. First \in First .. (Frames + 1) /\ First # Frames + 1
      BY <1>now
    <2>bad. Flawed => First <= BadFrame
      BY DEF DnInv, Batch
    <2>there. Reached(First)'
      BY <1>now, <1>size, <1>old, <2>k, <2>bad DEF Reached, DSlot, Flawed, BadFrame
    <2> QED  BY <1>now, <1>size, <2>k, <2>there DEF Download
  <1> QED  BY <1>types, <1>batch, <1>down DEF DnInv

\* A turn of the loop sends the first frame that has not left, and no other.
LEMMA GoodDpdKeeps ==
  ASSUME DnInv, checkDnWork, ~(dnStalled \/ dnListPtr = 0), at \notin {"tx", "list"},
         NEW k \in First .. Frames, k \in Nat, k \in 1 .. MaxFrames, dnListPtr = DSlot(k),
         k + 1 \in First .. (Frames + 1), (k + 1 = Frames + 1) <=> (k = Frames),
         SentBelow(sent, dpd, k), Flawed => k <= BadFrame,
         dpd[DSlot(k)].frame = k, dpd[DSlot(k)].next = IF k = Frames THEN 0 ELSE DSlot(k + 1),
         \A how \in DpdFlaws : ~Wrong(badDpd, dpd[dnListPtr].frame, how)
  PROVE  DnInv'
  <1>nums. DnNumbers
    BY DnNums
  <1> USE <1>nums DEF DnNumbers
  <1>here. ~dnStalled /\ dnListPtr # 0
    OBVIOUS
  <1>out. at \notin {"tx", "list"}
    OBVIOUS
  <1>in. /\ k \in First .. Frames /\ k \in Nat /\ k \in 1 .. MaxFrames /\ dnListPtr = DSlot(k)
         /\ k + 1 \in First .. (Frames + 1) /\ (k + 1 = Frames + 1) <=> (k = Frames)
    OBVIOUS
  <1>below. SentBelow(sent, dpd, k)
    OBVIOUS
  <1>d. /\ dpd[DSlot(k)].frame = k
        /\ dpd[DSlot(k)].next = IF k = Frames THEN 0 ELSE DSlot(k + 1)
    OBVIOUS
  <1>un. UNCHANGED <<dpd, badDpd, queued, batch, dnStalled, at>>
    BY DEF checkDnWork, memory, driverVars
  <1>size. Frames' = Frames /\ First' = First
    BY <1>un DEF Frames, First
  <1>bad. Flawed' = Flawed /\ BadFrame' = BadFrame
    BY <1>un DEF Flawed, BadFrame
  <1>later. Flawed => k + 1 <= BadFrame
    <2> SUFFICES ASSUME Flawed PROVE k + 1 <= BadFrame
      OBVIOUS
    <2>flaw. badDpd \in [which : 1 .. MaxFrames, how : DpdFlaws]
      BY DEF Flawed, DnInv, DnTypes, DpdFlaw
    <2>frame. BadFrame \in 1 .. MaxFrames /\ badDpd.how \in DpdFlaws
      BY <2>flaw DEF BadFrame
    <2>eq. badDpd = [which |-> BadFrame, how |-> badDpd.how]
      BY <2>flaw DEF BadFrame
    <2>not. BadFrame # k
      BY <2>eq, <2>frame, <1>d, <1>in DEF Wrong
    <2> QED  BY <2>not, <2>frame, <1>in
  <1>act. /\ dnListPtr' = dpd[dnListPtr].next /\ dn' = dn /\ dn
          /\ sent' = IF dpd[dnListPtr].empty THEN sent ELSE Append(sent, dpd[dnListPtr].frame)
    BY <1>here DEF checkDnWork, DpdFlaws
  <1>slots. DSlot(k) \in 1 .. Dpds /\ DSlot(k + 1) \in 1 .. Dpds
    BY <1>in, DpdSlots
  <1>seq. sent \in Seq(1 .. MaxFrames) /\ Len(sent) \in Nat
    BY DEF DnInv, DnTypes
  <1>ptr. dnListPtr' \in 0 .. Dpds /\ dnListPtr' = IF k + 1 = Frames + 1 THEN 0 ELSE DSlot(k + 1)
    BY <1>act, <1>in, <1>d, <1>slots
  <1>none. CASE dpd[DSlot(k)].empty
    <2>same. sent' = sent
      BY <1>none, <1>act, <1>in
    <2>below. SentBelow(sent', dpd', k + 1)
      <3>low. \A i \in 1 .. Len(sent) : sent[i] < k + 1
        <4>less. \A i \in 1 .. Len(sent) : sent[i] < k /\ sent[i] \in Nat
          BY <1>below, <1>seq DEF SentBelow
        <4> QED  BY <4>less, <1>in
      <3>there. ASSUME NEW n \in 1 .. Dpds, ~dpd[n].empty, dpd[n].frame < k + 1
                PROVE  \E i \in 1 .. Len(sent) : sent[i] = dpd[n].frame
        <4>frame. dpd[n].frame \in 1 .. Frames /\ n = DSlot(dpd[n].frame)
          BY <3>there DEF DnInv, Batch
        <4>not. dpd[n].frame # k
          BY <4>frame, <3>there, <1>none
        <4>less. dpd[n].frame < k
          BY <4>frame, <4>not, <3>there, <1>in
        <4> QED  BY <4>less, <3>there, <1>below DEF SentBelow
      <3> QED  BY <3>low, <3>there, <2>same, <1>un DEF SentBelow
    <2>types. DnTypes'
      BY <1>un, <1>size, <2>same, <1>ptr DEF DnInv, DnTypes
    <2>batch. Batch'
      BY <1>un, <1>size, <2>same DEF DnInv, Batch, DSlot, Flawed, BadFrame
    <2>there. Reached(k + 1)'
      BY <1>un, <1>size, <1>bad, <1>later, <2>below, <1>ptr, <1>act DEF Reached, DSlot
    <2>down. Download'
      BY <1>un, <1>size, <2>there, <1>in, <1>out, <1>here DEF Download
    <2> QED  BY <2>types, <2>batch, <2>down DEF DnInv
  <1>frame. CASE ~dpd[DSlot(k)].empty
    <2>sent. sent' = Append(sent, k)
      BY <1>frame, <1>act, <1>in, <1>d
    <2>new. /\ sent' \in Seq(1 .. MaxFrames) /\ Len(sent') = Len(sent) + 1
            /\ \A i \in 1 .. Len(sent) : sent'[i] = sent[i] /\ sent[i] \in Nat /\ sent[i] < k
            /\ sent'[Len(sent) + 1] = k
      <3>app. /\ sent' \in Seq(1 .. MaxFrames) /\ Len(sent') = Len(sent) + 1
              /\ \A i \in 1 .. Len(sent) : sent'[i] = sent[i]
              /\ sent'[Len(sent) + 1] = k
        BY <2>sent, <1>seq, <1>in, AppendFacts
      <3>old. \A i \in 1 .. Len(sent) : sent[i] \in Nat /\ sent[i] < k
        BY <1>seq, <1>below DEF SentBelow
      <3> QED  BY <3>app, <3>old
    <2>split. \A i \in 1 .. Len(sent') : i \in 1 .. Len(sent) \/ i = Len(sent) + 1
      BY <2>new, <1>seq
    <2>below. SentBelow(sent', dpd', k + 1)
      <3>low. \A i \in 1 .. Len(sent') : sent'[i] < k + 1
        <4> TAKE i \in 1 .. Len(sent')
        <4>old. CASE i \in 1 .. Len(sent)
          <5>less. sent'[i] = sent[i] /\ sent[i] \in Nat /\ sent[i] < k
            BY <4>old, <2>new
          <5> QED  BY <5>less, <1>in
        <4>last. CASE i = Len(sent) + 1
          BY <4>last, <2>new, <1>in
        <4> QED  BY <4>old, <4>last, <2>split
      <3>there. ASSUME NEW n \in 1 .. Dpds, ~dpd[n].empty, dpd[n].frame < k + 1
                PROVE  \E i \in 1 .. Len(sent') : sent'[i] = dpd[n].frame
        <4>frame. dpd[n].frame \in 1 .. Frames
          BY <3>there DEF DnInv, Batch
        <4>this. CASE dpd[n].frame = k
          <5>last. Len(sent) + 1 \in 1 .. Len(sent')
            BY <2>new, <1>seq
          <5> QED  BY <5>last, <4>this, <2>new
        <4>before. CASE dpd[n].frame # k
          <5>less. dpd[n].frame < k
            BY <4>frame, <4>before, <3>there, <1>in
          <5>i. PICK i \in 1 .. Len(sent) : sent[i] = dpd[n].frame
            BY <5>less, <3>there, <1>below DEF SentBelow
          <5>in. i \in 1 .. Len(sent')
            BY <2>new, <1>seq
          <5> QED  BY <5>i, <5>in, <2>new
        <4> QED  BY <4>this, <4>before
      <3> QED  BY <3>low, <3>there, <1>un DEF SentBelow
    <2>types. DnTypes'
      BY <1>un, <1>size, <2>new, <1>ptr DEF DnInv, DnTypes
    <2>batch. Batch'
      <3>order. \A i, j \in 1 .. Len(sent') : i < j => sent'[i] < sent'[j]
        <4> SUFFICES ASSUME NEW i \in 1 .. Len(sent'), NEW j \in 1 .. Len(sent'), i < j
                     PROVE  sent'[i] < sent'[j]
          OBVIOUS
        <4>i. i \in 1 .. Len(sent)
          BY <2>new, <1>seq
        <4>inner. CASE j \in 1 .. Len(sent)
          BY <4>i, <4>inner, <2>new DEF DnInv, Batch
        <4>last. CASE j = Len(sent) + 1
          BY <4>i, <4>last, <2>new
        <4> QED  BY <4>inner, <4>last, <2>split
      <3> QED  BY <1>un, <1>size, <3>order DEF DnInv, Batch, DSlot, Flawed, BadFrame
    <2>there. Reached(k + 1)'
      BY <1>un, <1>size, <1>bad, <1>later, <2>below, <1>ptr, <1>act DEF Reached, DSlot
    <2>down. Download'
      BY <1>un, <1>size, <2>there, <1>in, <1>out, <1>here DEF Download
    <2> QED  BY <2>types, <2>batch, <2>down DEF DnInv
  <1> QED  BY <1>none, <1>frame

\* A turn of the loop sends that frame, or stays at a wrong DPD, or gives the list up.
LEMMA CheckDnKeeps ==
  ASSUME DnInv, checkDnWork
  PROVE  DnInv'
  <1>nums. DnNumbers
    BY DnNums
  <1> USE <1>nums DEF DnNumbers
  <1> DEFINE wrong(how) == Wrong(badDpd, dpd[dnListPtr].frame, how)
  <1>un. UNCHANGED <<dpd, badDpd, queued, batch, dnStalled, at>> /\ dn
    BY DEF checkDnWork, memory, driverVars
  <1>size. Frames' = Frames /\ First' = First
    BY <1>un DEF Frames, First
  <1>bad. Flawed' = Flawed /\ BadFrame' = BadFrame
    BY <1>un DEF Flawed, BadFrame
  <1>keep. ASSUME sent' = sent, dnListPtr' \in 0 .. Dpds, Download' PROVE DnInv'
    <2>types. DnTypes'
      BY <1>un, <1>size, <1>keep DEF DnInv, DnTypes
    <2>batch. Batch'
      BY <1>un, <1>size, <1>bad, <1>keep DEF DnInv, Batch, DSlot
    <2> QED  BY <2>types, <2>batch, <1>keep DEF DnInv
  <1>type. dnListPtr \in 0 .. Dpds
    BY DEF DnInv, DnTypes
  <1>stop. CASE dnStalled \/ dnListPtr = 0
    <2>act. dn' = FALSE /\ UNCHANGED <<dnListPtr, sent>>
      BY <1>stop DEF checkDnWork
    <2>stalled. CASE at \in {"tx", "list"}
      <3>down. Download'
        BY <1>un, <1>size, <2>act, <2>stalled DEF DnInv, Download, DSlot
      <3> QED  BY <3>down, <2>act, <1>type, <1>keep
    <2>rest. CASE at \notin {"tx", "list"}
      <3>k. PICK k \in First .. (Frames + 1) : Reached(k)
        BY <2>rest DEF DnInv, Download
      <3>ptr. dnListPtr = 0 /\ ~dnStalled
        BY <2>rest, <1>stop DEF DnInv, Download
      <3>there. Reached(k)'
        BY <3>k, <3>ptr, <2>act, <1>un, <1>size, <1>bad DEF Reached, DSlot
      <3>down. Download'
        BY <3>there, <3>ptr, <2>rest, <1>un, <1>size DEF Download
      <3> QED  BY <3>down, <2>act, <1>type, <1>keep
    <2> QED  BY <2>stalled, <2>rest
  <1>go. CASE ~(dnStalled \/ dnListPtr = 0)
    <2>out. at \notin {"tx", "list"}
      BY <1>go DEF DnInv, Download
    <2>k. PICK k \in First .. (Frames + 1) : Reached(k)
      BY <2>out DEF DnInv, Download
    <2>in. /\ k \in First .. Frames /\ k \in Nat /\ k \in 1 .. MaxFrames /\ dnListPtr = DSlot(k)
           /\ k + 1 \in First .. (Frames + 1) /\ (k + 1 = Frames + 1) <=> (k = Frames)
      BY <2>k, <1>go DEF Reached
    <2>below. SentBelow(sent, dpd, k) /\ (Flawed => k <= BadFrame)
      BY <2>k DEF Reached
    <2>d. /\ dpd[DSlot(k)].frame = k
          /\ dpd[DSlot(k)].next = IF k = Frames THEN 0 ELSE DSlot(k + 1)
      BY <2>in DEF DnInv, Batch
    <2>this. ASSUME NEW how, wrong(how), how \in DpdFlaws PROVE Flawed /\ k = BadFrame
      <3>bad. badDpd = [which |-> k, how |-> how]
        BY <2>this, <2>in, <2>d DEF Wrong
      <3>not. "none" \notin DpdFlaws
        BY DEF DpdFlaws
      <3> QED  BY <3>bad, <3>not, <2>this DEF Flawed, BadFrame, NoFlaw
    <2>unreadable. CASE wrong("unreadable")
      <3>act. dn' = FALSE /\ UNCHANGED <<dnListPtr, sent>>
        BY <2>unreadable DEF checkDnWork
      <3>k. Flawed /\ k = BadFrame
        BY <2>unreadable, <2>this DEF DpdFlaws
      <3>there. Reached(k)'
        BY <3>act, <3>k, <2>k, <1>un, <1>size, <1>bad DEF Reached, DSlot
      <3>down. Download'
        BY <3>there, <2>k, <2>out, <1>go, <1>un, <1>size DEF Download
      <3> QED  BY <3>down, <3>act, <1>type, <1>keep
    <2>type. CASE wrong("type") /\ ~wrong("unreadable")
      <3>act. dn' = dn /\ dnListPtr' = 0 /\ sent' = sent
        BY <2>type, <1>go DEF checkDnWork
      <3>k. Flawed /\ k = BadFrame
        BY <2>type, <2>this DEF DpdFlaws
      <3>there. Reached(k)'
        BY <3>act, <3>k, <2>below, <1>un, <1>size, <1>bad DEF Reached, DSlot
      <3>down. Download'
        BY <3>there, <2>k, <2>out, <1>go, <1>un, <1>size DEF Download
      <3>ptr. dnListPtr' \in 0 .. Dpds
        BY <3>act
      <3> QED  BY <3>down, <3>act, <3>ptr, <1>keep
    <2>fragment. CASE wrong("fragment") /\ ~wrong("type") /\ ~wrong("unreadable")
      <3>act. dn' = dn /\ dnListPtr' = dnListPtr /\ sent' = sent
        BY <2>fragment, <1>go DEF checkDnWork
      <3>there. Reached(k)'
        BY <3>act, <2>k, <1>un, <1>size, <1>bad DEF Reached, DSlot
      <3>down. Download'
        BY <3>there, <2>k, <2>out, <1>go, <1>un, <1>size DEF Download
      <3> QED  BY <3>down, <3>act, <1>type, <1>keep
    <2>good. CASE \A how \in DpdFlaws : ~wrong(how)
      BY <2>good, <2>in, <2>below, <2>d, <2>out, <1>go, GoodDpdKeeps
    <2> QED  BY <2>unreadable, <2>type, <2>fragment, <2>good DEF DpdFlaws
  <1> QED  BY <1>stop, <1>go

\* The driver links a DPD behind the batch; the DPD is none of the batch.
LEMMA QueueKeeps ==
  ASSUME DnInv, NEW empty \in BOOLEAN, NEW how \in DpdHow, Queue(empty, how)
  PROVE  DnInv'
  <1>nums. DnNumbers
    BY DnNums
  <1> USE <1>nums DEF DnNumbers
  <1> DEFINE n == Frames + 1
             new == [next |-> 0, frame |-> n, empty |-> empty]
  <1>now. /\ at = "tx" /\ at' = "list" /\ batch < Dpds /\ Frames < MaxFrames
          /\ UNCHANGED <<sent, dnListPtr, dnStalled>>
          /\ batch' = batch + 1 /\ queued' = Append(queued, n)
          /\ dpd' = IF batch = 0 THEN [dpd EXCEPT ![DSlot(n)] = new]
                    ELSE [dpd EXCEPT ![DSlot(n)] = new, ![DSlot(n - 1)].next = DSlot(n)]
    BY DEF Queue, nicVars, DSlot, Frames
  <1>n. n \in 1 .. MaxFrames /\ n - 1 = Frames /\ n \in Nat /\ First <= n
    BY <1>now
  <1>slots. DSlot(n) \in 1 .. Dpds /\ DSlot(Frames) \in 1 .. Dpds
    BY <1>n, DpdSlots
  <1>queued. queued' \in Seq(1 .. MaxFrames) /\ Len(queued') = n
    <2>seq. queued \in Seq(1 .. MaxFrames)
      BY DEF DnInv, DnTypes
    <2> QED  BY <2>seq, <1>now, <1>n, AppendFacts DEF Frames
  <1>size. Frames' = n /\ First' = First
    BY <1>queued, <1>now, <1>n DEF Frames, First
  <1>bad. /\ badDpd' \in DpdFlaw
          /\ Flawed' => BadFrame' \in First .. n
    <2>same. CASE badDpd' = badDpd
      <3>old. badDpd \in DpdFlaw /\ (Flawed => BadFrame \in First .. Frames)
        BY DEF DnInv, DnTypes, Batch
      <3>wide. BadFrame \in First .. Frames => BadFrame \in First .. n
        BY <1>n
      <3> QED  BY <2>same, <3>old, <3>wide DEF Flawed, BadFrame
    <2>new. CASE badDpd' = [which |-> n, how |-> how] /\ how \in DpdFlaws
      <3>in. n \in First .. n
        BY <1>n
      <3> QED  BY <2>new, <3>in, <1>n DEF DpdFlaw, Flawed, BadFrame
    <2> QED  BY <2>same, <2>new DEF Queue, Frames, DpdHow
  <1>dom. dpd \in [1 .. Dpds -> Dpd]
    BY DEF DnInv, DnTypes
  <1>newtype. new \in Dpd
    BY <1>n DEF Dpd
  <1>apart. batch # 0 => DSlot(Frames) # DSlot(n)
    <2> SUFFICES ASSUME batch # 0 PROVE DSlot(Frames) # DSlot(n)
      OBVIOUS
    <2>less. Frames \in Nat /\ Frames < n /\ n < Frames + Dpds
      BY <1>now
    <2> QED  BY <2>less, <1>n, DpdSlots
  <1>one. [dpd EXCEPT ![DSlot(n)] = new] \in [1 .. Dpds -> Dpd]
    BY <1>dom, <1>newtype, <1>slots
  <1>dpd. /\ dpd' \in [1 .. Dpds -> Dpd]
          /\ dpd'[DSlot(n)] = new
          /\ \A i \in 1 .. Dpds : i # DSlot(n) => /\ dpd'[i].frame = dpd[i].frame
                                                 /\ dpd'[i].empty = dpd[i].empty
          /\ \A i \in 1 .. Dpds : i # DSlot(n) /\ i # DSlot(Frames) => dpd'[i] = dpd[i]
          /\ batch # 0 => dpd'[DSlot(Frames)].next = DSlot(n)
    <2>first. CASE batch = 0
      <3>eq. dpd' = [dpd EXCEPT ![DSlot(n)] = new]
        BY <2>first, <1>now
      <3> QED  BY <3>eq, <2>first, <1>one, <1>dom, <1>slots
    <2>more. CASE batch # 0
      <3> DEFINE mid == [dpd EXCEPT ![DSlot(n)] = new]
                 old == [dpd[DSlot(Frames)] EXCEPT !.next = DSlot(n)]
      <3>mid. mid \in [1 .. Dpds -> Dpd] /\ mid[DSlot(Frames)] = dpd[DSlot(Frames)]
        BY <1>one, <1>dom, <1>slots, <1>apart, <2>more
      <3>old. /\ old \in Dpd /\ old.next = DSlot(n) /\ old.frame = dpd[DSlot(Frames)].frame
              /\ old.empty = dpd[DSlot(Frames)].empty
        BY <1>dom, <1>slots DEF Dpd
      <3>eq. dpd' = [mid EXCEPT ![DSlot(Frames)] = old]
        BY <2>more, <1>now, <1>n, <3>mid
      <3>at. dpd'[DSlot(Frames)] = old /\ dpd' \in [1 .. Dpds -> Dpd]
        BY <3>eq, <3>mid, <3>old, <1>slots
      <3>rest. \A i \in 1 .. Dpds : i # DSlot(Frames) => dpd'[i] = mid[i]
        BY <3>eq, <3>mid
      <3>midrest. mid[DSlot(n)] = new /\ \A i \in 1 .. Dpds : i # DSlot(n) => mid[i] = dpd[i]
        BY <1>dom, <1>slots
      <3> HIDE DEF mid, old, new
      <3> QED  BY <3>at, <3>old, <3>rest, <3>midrest, <1>apart, <2>more, <1>slots
    <2> QED  BY <2>first, <2>more
  <1> HIDE DEF n
  <1>new. dpd'[DSlot(n)].frame = n /\ dpd'[DSlot(n)].next = 0
    BY <1>dpd
  <1>types. DnTypes'
    <2>fit. batch' \in 0 .. Dpds /\ Frames' <= MaxFrames /\ sent' = sent /\ dnListPtr' = dnListPtr
      BY <1>now, <1>n, <1>size
    <2> QED  BY <2>fit, <1>queued, <1>dpd, <1>bad DEF DnInv, DnTypes
  <1>batch. Batch'
    <2>held. \A i \in 1 .. Dpds : ~dpd'[i].empty =>
                dpd'[i].frame \in 1 .. n /\ i = DSlot(dpd'[i].frame)
      <3> SUFFICES ASSUME NEW i \in 1 .. Dpds, ~dpd'[i].empty
                   PROVE  dpd'[i].frame \in 1 .. n /\ i = DSlot(dpd'[i].frame)
        OBVIOUS
      <3>this. CASE i = DSlot(n)
        <4>in. n \in 1 .. n
          BY <1>n
        <4> QED  BY <3>this, <4>in, <1>new
      <3>other. CASE i # DSlot(n)
        <4>old. dpd'[i].frame = dpd[i].frame /\ ~dpd[i].empty
          BY <3>other, <1>dpd
        <4>range. dpd[i].frame \in 1 .. Frames /\ i = DSlot(dpd[i].frame)
          BY <4>old DEF DnInv, Batch
        <4>more. dpd[i].frame \in 1 .. n
          BY <4>range, <1>n
        <4> QED  BY <4>old, <4>range, <4>more
      <3> QED  BY <3>this, <3>other
    <2>links. \A k \in First .. n : /\ dpd'[DSlot(k)].frame = k
                                   /\ dpd'[DSlot(k)].next = IF k = n THEN 0 ELSE DSlot(k + 1)
      <3> TAKE k \in First .. n
      <3>last. CASE k = n
        BY <3>last, <1>new
      <3>before. CASE k # n
        <4>k. k \in First .. Frames /\ k \in Nat /\ k < n /\ n < k + Dpds
          BY <3>before, <1>n, <1>now
        <4>slot. DSlot(k) # DSlot(n) /\ DSlot(k) \in 1 .. Dpds
          BY <4>k, <1>n, DpdSlots
        <4>old. /\ dpd[DSlot(k)].frame = k
                /\ dpd[DSlot(k)].next = IF k = Frames THEN 0 ELSE DSlot(k + 1)
          BY <4>k DEF DnInv, Batch
        <4>frame. dpd'[DSlot(k)].frame = k
          BY <4>slot, <4>old, <1>dpd
        <4>tail. CASE k = Frames
          <5>some. batch # 0 /\ k + 1 = n
            BY <4>tail, <4>k, <1>n
          <5> QED  BY <5>some, <4>tail, <4>frame, <3>before, <1>dpd
        <4>inner. CASE k # Frames
          <5>less. k < Frames /\ Frames < k + Dpds /\ Frames \in Nat
            BY <4>inner, <4>k, <1>n
          <5>apart. DSlot(k) # DSlot(Frames)
            BY <5>less, <4>k, DpdSlots
          <5>same. dpd'[DSlot(k)] = dpd[DSlot(k)]
            BY <5>apart, <4>slot, <1>dpd
          <5> QED  BY <5>same, <4>old, <4>inner, <3>before
        <4> QED  BY <4>tail, <4>inner
      <3> QED  BY <3>last, <3>before
    <2>fit. batch + 1 <= n
      BY <1>n
    <2> QED  BY <1>now, <1>size, <1>bad, <2>held, <2>links, <2>fit DEF DnInv, Batch, DSlot
  <1>down. Download'
    <2>old. /\ dnStalled /\ SentBelow(sent, dpd, First)
            /\ dnListPtr = IF batch = 0 THEN 0 ELSE DSlot(First)
      BY <1>now DEF DnInv, Download
    <2>there. ASSUME NEW i \in 1 .. Dpds, ~dpd'[i].empty, dpd'[i].frame < First
              PROVE  \E j \in 1 .. Len(sent) : sent[j] = dpd'[i].frame
      <3>other. i # DSlot(n)
        BY <2>there, <1>new, <1>n
      <3>same. dpd'[i].frame = dpd[i].frame /\ ~dpd[i].empty
        BY <3>other, <2>there, <1>dpd
      <3> QED  BY <3>same, <2>there, <2>old DEF SentBelow
    <2>below. SentBelow(sent', dpd', First)
      BY <2>old, <2>there, <1>now DEF SentBelow
    <2>one. (batch + 1 = 1) <=> (batch = 0)
      OBVIOUS
    <2>some. batch + 1 > 0
      OBVIOUS
    <2> QED  BY <1>now, <1>size, <2>old, <2>below, <2>one, <2>some DEF Download, DSlot
  <1> QED  BY <1>types, <1>batch, <1>down DEF DnInv

\* After a reset the list is empty, and frames are numbered as before.
LEMMA DnResetKeeps ==
  ASSUME DnInv, Reset
  PROVE  DnInv'
  <1>nums. DnNumbers
    BY DnNums
  <1> USE <1>nums DEF DnNumbers
  <1>now. /\ at = "out" /\ at' = "open" /\ ~dn /\ dn' = dn /\ dnStalled' = FALSE /\ dnListPtr' = 0
          /\ dpd' = [i \in 1 .. Dpds |-> Empty] /\ badDpd' = NoFlaw /\ batch' = 0
          /\ UNCHANGED <<queued, sent>>
    BY DEF Reset, Access, totalReset, Unlocked
  <1>size. Frames' = Frames /\ First' = Frames + 1
    BY <1>now DEF Frames, First
  <1>good. ~Flawed'
    BY <1>now DEF Flawed
  <1>dpd. dpd' \in [1 .. Dpds -> Dpd] /\ \A d \in 1 .. Dpds : dpd'[d].empty
    BY <1>now DEF Dpd, Empty
  <1>types. DnTypes'
    <2>fit. 0 \in 0 .. Dpds /\ NoFlaw \in DpdFlaw
      BY DEF DpdFlaw
    <2>old. queued \in Seq(1 .. MaxFrames) /\ sent \in Seq(1 .. MaxFrames) /\ Frames <= MaxFrames
      BY DEF DnInv, DnTypes
    <2> QED  BY <2>fit, <2>old, <1>now, <1>size, <1>dpd DEF DnTypes
  <1>batch. Batch'
    BY <1>now, <1>size, <1>dpd, <1>good DEF DnInv, Batch
  <1>below. SentBelow(sent', dpd', Frames + 1)
    <2>k. PICK k \in First .. (Frames + 1) : Reached(k)
      BY <1>now DEF DnInv, Download
    <2>less. \A i \in 1 .. Len(sent) : sent[i] < k
      BY <2>k DEF Reached, SentBelow
    <2>nat. \A i \in 1 .. Len(sent) : sent[i] \in Nat
      BY DEF DnInv, DnTypes
    <2>more. \A i \in 1 .. Len(sent) : sent[i] < Frames + 1
      BY <2>less, <2>nat
    <2> QED  BY <2>more, <1>now, <1>dpd DEF SentBelow
  <1>down. Download'
    <2>there. Reached(Frames + 1)'
      BY <1>now, <1>size, <1>good, <1>below DEF Reached
    <2>in. Frames + 1 \in First' .. (Frames + 1)'
      BY <1>size
    <2> QED  BY <1>now, <1>size, <2>there, <2>in DEF Download
  <1> QED  BY <1>types, <1>batch, <1>down DEF DnInv

\* Every step of the system, for the sending half.
LEMMA DnStep ==
  ASSUME DnInv, [Next]_vars
  PROVE  DnInv'
  <1>receive. CASE (\E passes \in BOOLEAN : handleRxQueue(passes)) \/ Upload \/ Open \/ Enter
                   \/ ReadStatus \/ Acknowledge \/ Look \/ (\E flaw \in UpdFlaw : Refill(flaw))
                   \/ Unstall \/ UNCHANGED vars
    <2>un. UNCHANGED <<dnListPtr, dpd, badDpd, batch, queued, sent, dn, dnStalled>>
      BY <1>receive
      DEF handleRxQueue, Upload, UploadData, UploadStatus, UploadIndicate, Open, Enter, ReadStatus,
          Acknowledge, Look, Refill, Unstall, Access, writeUpListPtr, CmdSetIndicationEnable,
          CmdSetIntrEnb, CmdRxEnable, CmdAckIntr, CmdUpStall, memory, driverVars, history, nicVars, vars
    <2>at. \/ at' = at
           \/ at \notin {"tx", "list"} /\ at' \notin {"tx", "list"}
      BY <1>receive
      DEF handleRxQueue, Upload, UploadData, UploadStatus, UploadIndicate, Open, Enter, ReadStatus,
          Acknowledge, Look, Refill, Unstall, Access, driverVars, vars
    <2> QED  BY <2>un, <2>at, DnKept
  <1> QED  BY <1>receive, CheckDnKeeps, StallKeeps, QueueKeeps, WriteListKeeps, UnstallDnKeeps,
              DnResetKeeps
           DEF Next, Driver, UpdFlaw, DpdHow

-----------------------------------------------------------------------------
(* The status of the UPDs.                                                 *)

\* the UPDs in error are the complete ones with a wrong fragment
ErrInv ==
    /\ badUpd \in UpdFlaw
    /\ upErrors = {i \in 1 .. Upds : upd[i].complete /\ Wrong(badUpd, i, "fragment")}

\* Only rxUPD completes a UPD, and only the driver makes it anew.
LEMMA ErrStep ==
  ASSUME ErrInv, RxInv, [Next]_vars
  PROVE  ErrInv'
  <1>data. CASE UploadData
    <2>un. /\ UNCHANGED <<badUpd, upErrors>> /\ upd' = [upd EXCEPT ![upListPtr].packet = rxPacket]
           /\ up.step = "data"
      BY <1>data DEF UploadData
    <2>type. upd \in [1 .. Upds -> Upd]
      BY DEF RxInv, RxTypes
    <2>same. \A i \in 1 .. Upds : upd'[i].complete = upd[i].complete
      BY <2>un, <2>type DEF Upd
    <2> QED  BY <2>un, <2>same DEF ErrInv, Wrong
  <1>status. CASE UploadStatus
    <2>un. /\ UNCHANGED badUpd /\ upd' = [upd EXCEPT ![upListPtr].complete = TRUE]
           /\ upErrors' = IF Wrong(badUpd, upListPtr, "fragment") THEN upErrors \cup {upListPtr}
                          ELSE upErrors
           /\ up.step = "status"
      BY <1>status DEF UploadStatus
    <2>type. upd \in [1 .. Upds -> Upd]
      BY DEF RxInv, RxTypes
    <2>ptr. upListPtr \in 1 .. Upds
      BY <2>un, UploadedType, UpdSlots DEF RxInv, Uploading, Numbers
    <2>same. /\ \A i \in 1 .. Upds : i # upListPtr => upd'[i] = upd[i]
             /\ upd'[upListPtr].complete
      BY <2>un, <2>type, <2>ptr DEF Upd
    <2> QED  BY <2>un, <2>same, <2>ptr DEF ErrInv, Wrong
  <1>refill. ASSUME NEW flaw \in UpdFlaw, Refill(flaw) PROVE ErrInv'
    <2>none. CASE ~(dirty < cur)
      BY <1>refill, <2>none DEF Refill, ErrInv, Wrong
    <2>one. CASE dirty < cur
      <3> DEFINE s == Slot(dirty)
      <3>act. /\ upd' = [upd EXCEPT ![s] = Unused] /\ upErrors' = upErrors \ {s}
              /\ flaw # NoFlaw => flaw.which = s /\ badUpd.which \in {0, s}
              /\ badUpd' = IF flaw = NoFlaw /\ badUpd.which # s THEN badUpd ELSE flaw
        BY <1>refill, <2>one DEF Refill
      <3>s. s \in 1 .. Upds
        BY UploadedType, UpdSlots DEF Numbers
      <3> HIDE DEF s
      <3>type. upd \in [1 .. Upds -> Upd]
        BY DEF RxInv, RxTypes
      <3>same. /\ \A i \in 1 .. Upds : i # s => upd'[i] = upd[i]
               /\ ~upd'[s].complete
        BY <3>act, <3>type, <3>s DEF Unused
      <3>bad. \A i \in 1 .. Upds : i # s =>
                (Wrong(badUpd', i, "fragment") <=> Wrong(badUpd, i, "fragment"))
        <4> SUFFICES ASSUME NEW i \in 1 .. Upds, i # s
                     PROVE  Wrong(badUpd', i, "fragment") <=> Wrong(badUpd, i, "fragment")
          OBVIOUS
        <4>nought. i # 0
          BY NicAssumption
        <4>kept. CASE flaw = NoFlaw /\ badUpd.which # s
          BY <4>kept, <3>act
        <4>mended. CASE flaw = NoFlaw /\ badUpd.which = s
          BY <4>mended, <4>nought, <3>act DEF Wrong, NoFlaw
        <4>wrong. CASE flaw # NoFlaw
          <5>new. badUpd' = flaw /\ flaw.which = s /\ badUpd.which \in {0, s}
            BY <4>wrong, <3>act
          <5> QED  BY <5>new, <4>nought DEF Wrong
        <4> QED  BY <4>kept, <4>mended, <4>wrong
      <3>flaw. badUpd' \in UpdFlaw
        BY <3>act DEF ErrInv
      <3>mem. \A i \in 1 .. Upds :
                i \in upErrors' <=> upd'[i].complete /\ Wrong(badUpd', i, "fragment")
        BY <3>act, <3>same, <3>bad DEF ErrInv
      <3>sub. upErrors' \subseteq 1 .. Upds
        BY <3>act DEF ErrInv
      <3> QED  BY <3>flaw, <3>mem, <3>sub DEF ErrInv
    <2> QED  BY <2>none, <2>one
  <1>reset. CASE Reset
    <2>now. badUpd' = NoFlaw /\ upErrors' = {} /\ upd' = [i \in 1 .. Upds |-> Unused]
      BY <1>reset DEF Reset
    <2> QED  BY <2>now DEF ErrInv, UpdFlaw, Unused
  <1>other. CASE UNCHANGED <<upd, badUpd, upErrors>>
    BY <1>other DEF ErrInv, Wrong
  <1>rest. \/ UploadData \/ UploadStatus \/ (\E flaw \in UpdFlaw : Refill(flaw)) \/ Reset
           \/ UNCHANGED <<upd, badUpd, upErrors>>
    BY DEF Next, Driver, Upload, handleRxQueue, UploadIndicate, checkDnWork, Open, Enter, ReadStatus,
           Acknowledge, Look, Unstall, Queue, WriteList, UnstallDn, StallDn, memory, vars, UpdFlaw
  <1> QED  BY <1>data, <1>status, <1>refill, <1>reset, <1>other, <1>rest

-----------------------------------------------------------------------------
\* the registers and the state of the driver
RegTypes ==
    /\ intStatus \subseteq Sources \cup {"latch"}
    /\ indEnable \subseteq Sources /\ intEnable \subseteq Sources
    /\ rxEnabled \in BOOLEAN /\ upStalled \in BOOLEAN /\ dnStalled \in BOOLEAN
    /\ irq \in BOOLEAN /\ dn \in BOOLEAN
    /\ at \in {"open", "indication", "intr", "enable", "out", "status", "ack", "rx", "refill",
               "unstall", "tx", "link", "list", "send"}
    /\ status \subseteq Sources \cup {"latch"}
    /\ resets \in 0 .. MaxResets

\* The inductive invariant: nothing of it follows from the properties, which say nothing
\* of which slots are complete, where the list pointers are, or what IntStatus shows.
NicInv == RegTypes /\ TellInv /\ DnInv /\ ErrInv

\* Its parts give the type invariant.
LEMMA TypesOK ==
  ASSUME NicInv
  PROVE  NicTypeOK
  <1>bools. {rxEnabled, upStalled, dnStalled, irq, dn} \subseteq BOOLEAN
    BY DEF NicInv, RegTypes
  <1>errors. upErrors \subseteq 1 .. Upds
    BY DEF NicInv, ErrInv
  <1> QED  BY <1>bools, <1>errors DEF NicInv, RegTypes, TellInv, RxInv, RxTypes, UpSteps, Upd,
                           DnInv, DnTypes, Dpd, DpdFlaw, ErrInv, UpdFlaw, NicTypeOK

\* Every step keeps the types of the registers and of the driver.
LEMMA RegStep ==
  ASSUME RegTypes, [Next]_vars
  PROVE  RegTypes'
  <1>size. MaxResets \in Nat
    BY NicAssumption
  <1>queue. ASSUME NEW passes \in BOOLEAN, handleRxQueue(passes) PROVE RegTypes'
    BY <1>queue DEF RegTypes, handleRxQueue, checkUpWork, indicate, driverVars, Sources
  <1>upload. CASE Upload
    BY <1>upload DEF RegTypes, Upload, UploadData, UploadStatus, UploadIndicate, maybeRaiseIntr,
                     indicate, driverVars, Sources
  <1>down. CASE checkDnWork
    BY <1>down DEF RegTypes, checkDnWork, maybeRaiseIntr, indicate, driverVars, Sources
  <1>open. CASE Open
    BY <1>open DEF RegTypes, Open, Access, writeUpListPtr, checkUpWork, CmdSetIndicationEnable,
                   CmdSetIntrEnb, CmdRxEnable, Sources
  <1>intr. CASE Enter \/ ReadStatus \/ Acknowledge
    BY <1>intr DEF RegTypes, Enter, ReadStatus, Acknowledge, Access, CmdAckIntr, nicVars
  <1>ring. CASE Look \/ (\E flaw \in UpdFlaw : Refill(flaw)) \/ Unstall
    BY <1>ring DEF RegTypes, Look, Refill, Unstall, Access, CmdUpStall, checkUpWork, nicVars
  <1>frames. CASE (\E empty \in BOOLEAN, how \in DpdHow : Queue(empty, how)) \/ WriteList \/ UnstallDn \/ StallDn
    BY <1>frames DEF RegTypes, Queue, WriteList, UnstallDn, StallDn, Access, writeDnListPtr,
                     CmdDnStall, nicVars
  <1>reset. CASE Reset
    <2>now. /\ intStatus' = {} /\ indEnable' = {} /\ intEnable' = {} /\ rxEnabled' = FALSE
            /\ upStalled' = FALSE /\ dnStalled' = FALSE /\ at' = "open"
            /\ UNCHANGED <<irq, dn, status>>
      BY <1>reset DEF Reset, Access, totalReset
    <2>resets. resets' \in 0 .. MaxResets
      BY <1>reset, <1>size DEF RegTypes, Reset
    <2> QED  BY <2>now, <2>resets DEF RegTypes
  <1>idle. CASE UNCHANGED vars
    BY <1>idle DEF RegTypes, vars, nicVars, driverVars
  <1> QED  BY <1>queue, <1>upload, <1>down, <1>open, <1>intr, <1>ring, <1>frames, <1>reset, <1>idle
           DEF Next, Driver, UpdFlaw, DpdHow

\* The invariant holds at first ...
LEMMA InitKeeps == Init => NicInv
  <1> SUFFICES ASSUME Init PROVE NicInv
    OBVIOUS
  <1>size. {Upds, Dpds} \subseteq Nat \ {0} /\ {MaxPackets, MaxFrames, MaxResets} \subseteq Nat
    BY NicAssumption
  <1>regs. RegTypes
    <2>resets. resets \in 0 .. MaxResets
      BY <1>size DEF Init
    <2> QED  BY <2>resets DEF Init, RegTypes
  <1>fresh. RxInv
    BY <1>size, FreshRing DEF Init, Fresh
  <1>tell. TellInv
    BY <1>fresh DEF Init, TellInv, Opened, Opening, Telling
  <1>sizes. Frames = 0 /\ First = 1
    BY DEF Init, Frames, First
  <1>dpd. \A d \in 1 .. Dpds : dpd[d].empty /\ dpd[d] \in Dpd
    BY <1>size DEF Init, Dpd, Empty
  <1>types. DnTypes
    BY <1>size, <1>sizes, <1>dpd DEF Init, DnTypes, DpdFlaw
  <1>batch. Batch
    BY <1>sizes, <1>dpd DEF Init, Batch, Flawed
  <1>down. Download
    <2>below. SentBelow(sent, dpd, 1)
      BY <1>dpd DEF Init, SentBelow
    <2>k. 1 \in First .. (Frames + 1) /\ 1 = Frames + 1
      BY <1>sizes
    <2>there. Reached(1)
      BY <2>below, <2>k DEF Init, Reached, Flawed
    <2> QED  BY <2>there, <2>k DEF Init, Download
  <1>errors. ErrInv
    BY DEF Init, ErrInv, UpdFlaw, Unused
  <1> QED  BY <1>regs, <1>tell, <1>types, <1>batch, <1>down, <1>errors DEF NicInv, DnInv

\* ... and always.
LEMMA NicInvariant == Spec => []NicInv
  <1>step. NicInv /\ [Next]_vars => NicInv'
    BY RegStep, TellStep, DnStep, ErrStep DEF NicInv, TellInv
  <1> QED  BY InitKeeps, <1>step, PTL DEF Spec

-----------------------------------------------------------------------------
\* The complete UPDs are those uploaded and not given back.
LEMMA CountRing ==
  ASSUME RxInv
  PROVE  Unseen = Uploaded - cur
  <1>nums. Numbers
    BY UploadedType
  <1> USE <1>nums DEF Numbers
  <1> DEFINE window == dirty .. (Uploaded - 1)
             full == {i \in 1 .. Upds : upd[i].complete}
             f == [k \in window |-> Slot(k)]
  <1>range. \A k \in Nat : Slot(k) \in 1 .. Upds
    BY UpdSlots
  <1>into. f \in [window -> full]
    <2> SUFFICES ASSUME NEW k \in window PROVE Slot(k) \in full
      OBVIOUS
    <2>nat. k \in Nat
      OBVIOUS
    <2> QED  BY <2>nat, <1>range DEF RxInv, Ring
  <1>once. \A a, b \in window : f[a] = f[b] => a = b
    <2> SUFFICES ASSUME NEW a \in window, NEW b \in window, a # b PROVE Slot(a) # Slot(b)
      OBVIOUS
    <2>nat. a \in Nat /\ b \in Nat /\ a < b + Upds /\ b < a + Upds /\ (a < b \/ b < a)
      OBVIOUS
    <2>apart. \A j, k \in Nat : j < k /\ k < j + Upds => Slot(j) # Slot(k)
      BY UpdSlots
    <2> QED  BY <2>nat, <2>apart
  <1>onto. \A i \in full : \E k \in window : f[k] = i
    <2> SUFFICES ASSUME NEW i \in 1 .. Upds, upd[i].complete PROVE \E k \in window : Slot(k) = i
      OBVIOUS
    <2>k. PICK k \in dirty .. (dirty + Upds - 1) : Slot(k) = i
      BY UpdSlots
    <2>in. k \in window
      <3> SUFFICES ASSUME k \notin window PROVE FALSE
        OBVIOUS
      <3>free. k \in Uploaded .. (dirty + Upds - 1)
        OBVIOUS
      <3> QED  BY <3>free, <2>k DEF RxInv, Ring
    <2> QED  BY <2>k, <2>in
  <1>bij. ExistsBijection(window, full)
    <2>bij. f \in Bijection(window, full)
      BY <1>into, <1>once, <1>onto DEF Bijection, Injection, Surjection, IsInjective
    <2> QED  BY <2>bij DEF ExistsBijection
  <1>window. IsFiniteSet(window) /\ Cardinality(window) = Uploaded - dirty
    <2>int. dirty \in Int /\ Uploaded - 1 \in Int
      OBVIOUS
    <2>fin. /\ IsFiniteSet(window)
            /\ Cardinality(window) = IF dirty > Uploaded - 1 THEN 0 ELSE (Uploaded - 1) - dirty + 1
      BY <2>int, FS_Interval
    <2> QED  BY <2>fin
  <1>count. Cardinality(full) = Uploaded - dirty
    BY <1>bij, <1>window, FS_Bijection
  <1> HIDE DEF full
  <1>unseen. Unseen = Cardinality(full) - (cur - dirty)
    BY DEF Unseen, full
  <1> QED  BY <1>unseen, <1>count

\* What concatenation does.
LEMMA ConcatFacts ==
  ASSUME NEW S, NEW s \in Seq(S), NEW t \in Seq(S)
  PROVE  /\ s \o t \in Seq(S)
         /\ Len(s \o t) = Len(s) + Len(t) /\ Len(s) \in Nat /\ Len(t) \in Nat
         /\ \A i \in 1 .. Len(s) : (s \o t)[i] = s[i]
         /\ \A i \in 1 .. Len(t) : (s \o t)[Len(s) + i] = t[i]
  OBVIOUS

\* Sequences of the same elements are the same.
LEMMA SameSequence ==
  ASSUME NEW S, NEW s \in Seq(S), NEW t \in Seq(S), Len(s) = Len(t),
         \A i \in 1 .. Len(s) : s[i] = t[i]
  PROVE  s = t
  OBVIOUS

\* A function on 1 .. n is a sequence.
LEMMA FunctionIsSequence ==
  ASSUME NEW S, NEW n \in Nat, NEW f \in [1 .. n -> S]
  PROVE  f \in Seq(S) /\ Len(f) = n
  OBVIOUS

\* What was accepted is what was delivered, the ring, and the packet held.
LEMMA RingIsRest ==
  ASSUME RxInv
  PROVE  accepted = delivered \o InRing \o Held
  <1>nums. Numbers
    BY UploadedType
  <1> USE <1>nums DEF Numbers
  <1>unseen. Unseen = Uploaded - cur /\ Unseen \in Nat
    BY CountRing
  <1>seqs. /\ accepted \in Seq(1 .. MaxPackets) /\ delivered \in Seq(1 .. MaxPackets)
           /\ Len(delivered) = cur
    BY DEF RxInv, RxTypes, Ring
  <1>packets. \A i \in 1 .. (Uploaded - cur) :
                /\ upd[Slot(cur + i - 1)].packet = accepted[cur + i]
                /\ accepted[cur + i] \in 1 .. MaxPackets
    <2> TAKE i \in 1 .. (Uploaded - cur)
    <2>k. cur + i - 1 \in cur .. (Uploaded - 1) /\ (cur + i - 1) + 1 = cur + i
          /\ cur + i \in 1 .. Len(accepted)
      OBVIOUS
    <2>type. accepted[cur + i] \in 1 .. MaxPackets
      BY <2>k, <1>seqs
    <2>data. upd[Slot(cur + i - 1)].packet = accepted[(cur + i - 1) + 1]
      BY <2>k DEF RxInv, Ring
    <2> QED  BY <2>k, <2>type, <2>data
  <1>ring. /\ InRing \in Seq(1 .. MaxPackets) /\ Len(InRing) = Uploaded - cur
           /\ \A i \in 1 .. (Uploaded - cur) : InRing[i] = accepted[cur + i]
    <2>nat. Uploaded - cur \in Nat
      OBVIOUS
    <2>fun. InRing = [i \in 1 .. (Uploaded - cur) |-> upd[Slot(cur + i - 1)].packet]
      BY <1>unseen DEF InRing
    <2>at. \A i \in 1 .. (Uploaded - cur) : InRing[i] = accepted[cur + i]
      BY <2>fun, <1>packets
    <2>type. InRing \in [1 .. (Uploaded - cur) -> 1 .. MaxPackets]
      BY <2>fun, <1>packets
    <2> QED  BY <2>nat, <2>at, <2>type, FunctionIsSequence
  <1>two. /\ delivered \o InRing \in Seq(1 .. MaxPackets) /\ Len(delivered \o InRing) = Uploaded
          /\ \A i \in 1 .. Uploaded : (delivered \o InRing)[i] = accepted[i]
    <2>cat. /\ delivered \o InRing \in Seq(1 .. MaxPackets)
            /\ Len(delivered \o InRing) = cur + (Uploaded - cur)
            /\ \A i \in 1 .. cur : (delivered \o InRing)[i] = delivered[i]
            /\ \A i \in 1 .. (Uploaded - cur) : (delivered \o InRing)[cur + i] = InRing[i]
      <3>types. delivered \in Seq(1 .. MaxPackets) /\ InRing \in Seq(1 .. MaxPackets)
        BY <1>seqs, <1>ring
      <3>facts. /\ delivered \o InRing \in Seq(1 .. MaxPackets)
                /\ Len(delivered \o InRing) = Len(delivered) + Len(InRing)
                /\ \A i \in 1 .. Len(delivered) : (delivered \o InRing)[i] = delivered[i]
                /\ \A i \in 1 .. Len(InRing) : (delivered \o InRing)[Len(delivered) + i] = InRing[i]
        BY <3>types, ConcatFacts
      <3> QED  BY <3>facts, <1>seqs, <1>ring
    <2>at. ASSUME NEW i \in 1 .. Uploaded PROVE (delivered \o InRing)[i] = accepted[i]
      <3>seen. CASE i \in 1 .. cur
        BY <3>seen, <2>cat DEF RxInv, Ring
      <3>unseen. CASE i \notin 1 .. cur
        <4>k. i - cur \in 1 .. (Uploaded - cur) /\ cur + (i - cur) = i
          BY <3>unseen
        <4>cat. (delivered \o InRing)[cur + (i - cur)] = InRing[i - cur]
          BY <4>k, <2>cat
        <4>ring. InRing[i - cur] = accepted[cur + (i - cur)]
          BY <4>k, <1>ring
        <4> QED  BY <4>k, <4>cat, <4>ring
      <3> QED  BY <3>seen, <3>unseen
    <2> QED  BY <2>cat, <2>at
  <1> DEFINE all == delivered \o InRing
  <1> HIDE DEF all
  <1>all. /\ all \in Seq(1 .. MaxPackets) /\ Len(all) = Uploaded
          /\ \A i \in 1 .. Uploaded : all[i] = accepted[i]
    BY <1>two DEF all
  <1>none. CASE rxPacket = 0
    <2>len. Len(accepted) = Uploaded /\ Held = <<>>
      BY <1>none DEF Uploaded, Held
    <2>empty. <<>> \in Seq(1 .. MaxPackets) /\ Len(<<>>) = 0
      OBVIOUS
    <2>cat. /\ all \o <<>> \in Seq(1 .. MaxPackets) /\ Len(all \o <<>>) = Uploaded
            /\ \A i \in 1 .. Uploaded : (all \o <<>>)[i] = all[i]
      BY <2>empty, <1>all, ConcatFacts
    <2>same. accepted = all \o <<>>
      BY <2>len, <2>cat, <1>all, <1>seqs, SameSequence
    <2> QED  BY <2>same, <2>len DEF all
  <1>one. CASE rxPacket # 0
    <2>len. Len(accepted) = Uploaded + 1 /\ Held = <<rxPacket>>
            /\ accepted[Uploaded + 1] = rxPacket /\ rxPacket \in 1 .. MaxPackets
      BY <1>one DEF Uploaded, Held, RxInv, RxTypes, Uploading
    <2>single. /\ <<rxPacket>> \in Seq(1 .. MaxPackets) /\ Len(<<rxPacket>>) = 1
               /\ <<rxPacket>>[1] = rxPacket
      BY <2>len
    <2>cat. /\ all \o <<rxPacket>> \in Seq(1 .. MaxPackets)
            /\ Len(all \o <<rxPacket>>) = Uploaded + 1
            /\ \A i \in 1 .. Uploaded : (all \o <<rxPacket>>)[i] = all[i]
            /\ (all \o <<rxPacket>>)[Uploaded + 1] = rxPacket
      BY <2>single, <1>all, ConcatFacts
    <2>at. \A i \in 1 .. Len(accepted) : accepted[i] = (all \o <<rxPacket>>)[i]
      <3> TAKE i \in 1 .. Len(accepted)
      <3>split. i \in 1 .. Uploaded \/ i = Uploaded + 1
        BY <2>len
      <3> QED  BY <3>split, <2>len, <2>cat, <1>all
    <2>same. accepted = all \o <<rxPacket>>
      BY <2>len, <2>cat, <2>at, <1>seqs, SameSequence
    <2> QED  BY <2>same, <2>len DEF all
  <1> QED  BY <1>none, <1>one

(***************************************************************************)
(* NothingLost: every packet that handleRxQueue accepts is delivered once, *)
(* in order, or still in the ring or in mRxPacket, for rings of any size;  *)
(* its UPD is in error only if the driver made a fragment of it wrong.     *)
(***************************************************************************)
THEOREM NicLosesNothing == Spec => []NothingLost
  <1>now. NicInv => NothingLost
    BY TypesOK, RingIsRest DEF NicInv, TellInv, ErrInv, NothingLost
  <1> QED  BY NicInvariant, <1>now, PTL

(***************************************************************************)
(* GuestTold: no upload is left without its interrupt when card and driver *)
(* rest, although the driver acknowledges before it looks at the ring.     *)
(***************************************************************************)
THEOREM NicTellsGuest == Spec => []GuestTold
  <1>now. NicInv => GuestTold
    <2> SUFFICES ASSUME NicInv, at = "out", Unlocked, Unseen > 0 PROVE irq
      BY DEF GuestTold
    <2>inv. RxInv /\ Telling
      BY DEF NicInv, TellInv
    <2>nums. Uploaded \in Nat /\ cur \in Nat
      BY <2>inv, UploadedType DEF Numbers
    <2>more. Uploaded > cur
      BY <2>inv, <2>nums, CountRing
    <2> QED  BY <2>inv, <2>more DEF Telling, Unlocked, NoUpload
  <1> QED  BY NicInvariant, <1>now, PTL

(***************************************************************************)
(* FramesInOrder: txDPD0 sends the frames in the order the driver queued   *)
(* them, each once, and none of a finished batch is left behind, unless it *)
(* is or follows a wrong DPD.                                              *)
(***************************************************************************)
THEOREM NicFramesInOrder == Spec => []FramesInOrder
  <1>now. NicInv => FramesInOrder
    <2> SUFFICES ASSUME NicInv PROVE FramesInOrder
      OBVIOUS
    <2>inv. DnInv
      BY DEF NicInv
    <2>nums. DnNumbers
      BY <2>inv, DnNums
    <2>order. \A i, j \in 1 .. Len(sent) : i < j => sent[i] < sent[j]
      BY <2>inv DEF DnInv, Batch
    <2>seq. sent \in Seq(1 .. MaxFrames)
      BY <2>inv DEF DnInv, DnTypes
    <2>nat. \A i \in 1 .. Len(sent) : sent[i] \in Nat
      BY <2>seq, <2>nums DEF DnNumbers
    <2>bad. Flawed => BadFrame \in First .. Frames
      BY <2>inv DEF DnInv, Batch
    <2>before. ASSUME Flawed, NEW i \in 1 .. Len(sent) PROVE sent[i] < BadFrame
      <3>batch. CASE at \in {"tx", "list"}
        <4>less. sent[i] < First
          BY <3>batch, <2>inv DEF DnInv, Download, SentBelow
        <4> QED  BY <4>less, <2>before, <2>bad, <2>nat, <2>nums DEF DnNumbers
      <3>sending. CASE at \notin {"tx", "list"}
        <4>k. PICK k \in First .. (Frames + 1) : Reached(k)
          BY <3>sending, <2>inv DEF DnInv, Download
        <4>less. sent[i] < k /\ k <= BadFrame
          BY <4>k, <2>before DEF Reached, SentBelow
        <4> QED  BY <4>less, <2>before, <2>bad, <2>nat, <2>nums DEF DnNumbers
      <3> QED  BY <3>batch, <3>sending
    <2>rest. ASSUME at = "out", Unlocked, NEW d \in 1 .. Dpds, ~dpd[d].empty,
                    Flawed => dpd[d].frame < BadFrame
             PROVE  \E i \in 1 .. Len(sent) : sent[i] = dpd[d].frame
      <3>k. PICK k \in First .. (Frames + 1) : Reached(k)
        BY <2>rest, <2>inv DEF DnInv, Download
      <3>zero. dnListPtr = 0 \/ (Flawed /\ k = BadFrame)
        BY <3>k, <2>rest DEF Reached, Unlocked
      <3>slot. k \in Nat /\ DSlot(k) # 0
        BY <2>nums, DpdSlots DEF DnNumbers
      <3>frame. dpd[d].frame \in 1 .. Frames
        BY <2>rest, <2>inv DEF DnInv, Batch
      <3>end. k = Frames + 1 \/ (Flawed /\ k = BadFrame)
        BY <3>k, <3>zero, <3>slot DEF Reached
      <3>less. dpd[d].frame < k
        BY <3>end, <3>frame, <2>rest, <2>nums DEF DnNumbers
      <3> QED  BY <3>k, <3>less, <2>rest DEF Reached, SentBelow
    <2> QED  BY <2>order, <2>before, <2>rest DEF FramesInOrder, Flawed, BadFrame
  <1> QED  BY NicInvariant, <1>now, PTL
=============================================================================
