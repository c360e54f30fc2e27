------------------------------ MODULE GroupAck ------------------------------
(***************************************************************************)
(* The group acknowledgements of lr-wpan-mac.cc, legacy and enhanced: the  *)
(* devices of a coordinator send data frames in their GTSs; the coordinator*)
(* marks each one in a bitmap and broadcasts the bitmap in a slot of its   *)
(* own; a device that hears it looks up the packets it remembers, confirms *)
(* the marked ones to its higher layer and forgets all of them.            *)
(*                                                                         *)
(* The legacy bitmap has a bit for each index of the coordinator's         *)
(* allocation table, which the sender looks up by slot number.  The        *)
(* enhanced one has 64 bits; coordinator and sender each compute the bit   *)
(* of a packet with the same hash of address + sequence number and the     *)
(* same probing, but each against the bits it has set itself.              *)
(*                                                                         *)
(* Any data frame may get lost, and any device may miss a group ACK.  A    *)
(* bitmap is the set of its one bits.                                      *)
(***************************************************************************)
EXTENDS Integers, Sequences, FiniteSets

CONSTANTS
  Devices,      \* the senders
  Coord,        \* the coordinator that receives and acknowledges
  Addr,         \* m_shortAddress of each device as a number
  Hash,         \* Hash64 of the decimal address + sequence number, mod 61
  Cells,        \* the coordinator's GTSs in the order of time, cyclically
  GackSlots,    \* GetGACK1SlotID and GetGACK2SlotID of m_legacyGroupAck
  Policies,     \* the values of m_groupAckPolicy
  Bitmaps,      \* what the uninitialised m_enhancedGACKBitmap may hold
  MaxSeq,       \* bound: sequence numbers of data frames
  NONE

BitmapSize == 64                 \* width of m_enhancedGACKBitmap
LegacySize == 16                 \* width of m_legacyGackBitmap
EnhancedGackSlots == {6, 14}     \* ENHANCED_GROUP_ACK_FIRST/SECOND_SLOT

ASSUME GroupAckConstants ==
  /\ Coord \notin Devices
  /\ Addr \in [Devices -> Nat]
  /\ \A d \in Devices : Addr[d] .. Addr[d] + MaxSeq \subseteq DOMAIN Hash
  /\ \A s \in DOMAIN Hash : Hash[s] \in 0..60
  /\ Cells \in Seq([slot : 0..14, idx : 0..LegacySize - 1, dev : Devices \cup {NONE}])
  /\ Cells # <<>>
  /\ Policies \subseteq {"GROUP_ACK_LEGACY", "GROUP_ACK_ENHANCED"}
  /\ Bitmaps \subseteq SUBSET (0..BitmapSize - 1)
  /\ MaxSeq \in Nat

VARIABLES
  policy,       \* m_groupAckPolicy of the whole PAN
  shiftWraps,   \* how the build shifts by 64 or more: modulo 64, or to zero
  cell,         \* the GTS that runs, an index of Cells
  gack,         \* the group ACK of this slot: "none", "scheduled" or "air"
  frame,        \* the bitmap in the group ACK on the air
  seq,          \* m_macDsn of each device
  buffer,       \* m_groupAckPktBuffer (seq), m_legacyGackGTSIdxBuffer (slot)
  bitmap,       \* m_enhancedGACKBitmap of every MAC
  legacyBitmap, \* m_legacyGackBitmap of the coordinator
  \* history
  marked,       \* the packets marked in the coordinator's bitmap by their reception
  received,     \* all packets the coordinator has received
  confirmed,    \* the packets confirmed with SUCCESS to the higher layers
  clean         \* the MACs that have reset their m_enhancedGACKBitmap

coordVars == <<cell, gack, frame, legacyBitmap, marked>>
history == <<received, confirmed, clean>>
vars == <<policy, shiftWraps, coordVars, seq, buffer, bitmap, history>>

Nodes == Devices \cup {Coord}
Packets == [dev : Devices, seq : 0..MaxSeq, slot : 0..14, idx : 0..LegacySize - 1]

-----------------------------------------------------------------------------
(* The bit of a packet *)

\* Faulty variant of Shift: the bitmap has no last bit.
ShiftWide(key) == {key}

\* (uint64_t)1 << key.  From 64 on the shift is undefined.
Shift(key) ==
  IF key < BitmapSize THEN {key}
  ELSE IF shiftWraps THEN {key % BitmapSize} ELSE {}

IsHashTableKeyCollision(bits, key) == Shift(key) \cap bits # {}

\* The keys that DoQuadraticProb tries one after the other: 1, 4, 9, ... is added,
\* so the n-th key is larger by the sum of the first n squares.
Probe(key, n) == key + ((n * (n + 1) * (2 * n + 1)) \div 6)

\* The first 119 sums of squares have all residues modulo 64: when no key up to
\* there is free, all bits are set and the recursion never ends.
MaxProbes == 119
ProbingEnds(bits, key) ==
  ~(\A n \in 0..MaxProbes : IsHashTableKeyCollision(bits, Probe(key, n)))

\* The first key tried that is free.
DoQuadraticProb(bits, key) ==
  Probe(key, CHOOSE n \in 0..MaxProbes :
               /\ ~IsHashTableKeyCollision(bits, Probe(key, n))
               /\ \A m \in 0..n - 1 : IsHashTableKeyCollision(bits, Probe(key, m)))

\* Faulty variant of CheckCollision: a key that is taken is used again.
NoProbing(bits, key) == key

CheckCollision(bits, key) ==
  IF IsHashTableKeyCollision(bits, key) THEN DoQuadraticProb(bits, key) ELSE key

GenerateHashTableKey(bits, d, n) == CheckCollision(bits, Hash[Addr[d] + n])

\* The call returns.
Returns(bits, d, n) == ProbingEnds(bits, Hash[Addr[d] + n])

-----------------------------------------------------------------------------
(* A slot begins *)

IsGackCell(i) ==
  /\ Cells[i].dev = NONE
  /\ Cells[i].slot \in IF policy = "GROUP_ACK_LEGACY" THEN GackSlots
                       ELSE EnhancedGackSlots

\* EndGTS aborts what is on the air, and StartGTS opens the next cell.  The
\* 3 ms after which the group ACK is sent are shorter than a slot (superframe
\* order 2 and above).
StartGTS ==
  /\ gack # "scheduled"
  /\ cell' = (cell % Len(Cells)) + 1
  /\ gack' = IF IsGackCell(cell') THEN "scheduled" ELSE "none"
  /\ frame' = {}
  /\ UNCHANGED <<policy, shiftWraps, legacyBitmap, marked, seq, buffer, bitmap, history>>

-----------------------------------------------------------------------------
(* Data frames *)

\* PdDataConfirm at the sender: it remembers the packet until a group ACK.
Remember(p) == buffer' = [buffer EXCEPT ![p.dev] = Append(@, p)]

\* PdDataIndication at the coordinator: the packet gets its bit.
Mark(p) ==
  /\ IF policy = "GROUP_ACK_ENHANCED"
     THEN /\ Returns(bitmap[Coord], p.dev, p.seq)
          /\ bitmap' = [bitmap EXCEPT ![Coord] =
                          @ \cup Shift(GenerateHashTableKey(@, p.dev, p.seq))]
          /\ UNCHANGED legacyBitmap
     ELSE /\ legacyBitmap' = legacyBitmap \cup {p.idx}
          /\ UNCHANGED bitmap
  /\ marked' = marked \cup {p}
  /\ received' = received \cup {p}

SendData(delivered) ==
  LET d == Cells[cell].dev
      p == [dev |-> d, seq |-> seq[d], slot |-> Cells[cell].slot, idx |-> Cells[cell].idx]
  IN /\ d # NONE
     /\ seq[d] < MaxSeq
     /\ seq' = [seq EXCEPT ![d] = @ + 1]
     /\ Remember(p)
     /\ IF delivered THEN Mark(p)
        ELSE UNCHANGED <<bitmap, legacyBitmap, marked, received>>
     /\ UNCHANGED <<policy, shiftWraps, cell, gack, frame, confirmed, clean>>

-----------------------------------------------------------------------------
(* The group ACK *)

\* SendEnhancedGroupAck, SendLegacyGroupAck.
SendGroupAck ==
  /\ gack = "scheduled"
  /\ gack' = "air"
  /\ frame' = IF policy = "GROUP_ACK_ENHANCED" THEN bitmap[Coord] ELSE legacyBitmap
  /\ UNCHANGED <<policy, shiftWraps, cell, legacyBitmap, marked, seq, buffer, bitmap,
                 history>>

\* The loop over m_groupAckPktBuffer: the bits of the sender and of the group ACK
\* after its first i packets, and whether the last one found its bit.
LookupLoop(d) ==
  LET after[i \in 0..Len(buffer[d])] ==
        IF i = 0 THEN [own |-> bitmap[d], acks |-> frame, hit |-> FALSE]
        ELSE LET bit == Shift(GenerateHashTableKey(after[i - 1].own, d, buffer[d][i].seq))
             IN [own  |-> after[i - 1].own \cup bit,
                 acks |-> after[i - 1].acks \ bit,
                 hit  |-> after[i - 1].acks \cap bit # {}]
  IN after

LookupEnds(d) ==
  \A i \in DOMAIN buffer[d] : Returns(LookupLoop(d)[i - 1].own, d, buffer[d][i].seq)

EnhancedLookup(d) ==
  {buffer[d][i] : i \in {j \in DOMAIN buffer[d] : LookupLoop(d)[j].hit}}

\* The loop over m_legacyGackGTSIdxBuffer.
LegacyLookup(d) == {buffer[d][i] : i \in {j \in DOMAIN buffer[d] : buffer[d][j].slot \in frame}}

\* Faulty variant of Lookup: the loop ends one packet early.
LookupMissesLast(d) ==
  {p \in IF policy = "GROUP_ACK_ENHANCED" THEN EnhancedLookup(d) ELSE LegacyLookup(d) :
     p # buffer[d][Len(buffer[d])]}

Lookup(d) == IF policy = "GROUP_ACK_ENHANCED" THEN EnhancedLookup(d) ELSE LegacyLookup(d)

\* A device that hears a group ACK with no bit set returns early.
Forgets(heard) == IF frame = {} THEN {} ELSE heard

\* Faulty variant of BufferAfter: the buffer is not reset.
BufferKept(heard) == buffer
BufferAfter(heard) == [d \in Devices |-> IF d \in Forgets(heard) THEN <<>> ELSE buffer[d]]

\* The end of the transmission: PdDataConfirm at the coordinator, which resets
\* its bitmap, and PdDataIndication at the devices that heard the frame.
GroupAckSent(heard) ==
  LET resets == IF policy = "GROUP_ACK_ENHANCED" THEN Forgets(heard) \cup {Coord} ELSE {}
  IN /\ gack = "air"
     /\ policy = "GROUP_ACK_ENHANCED" => \A d \in Forgets(heard) : LookupEnds(d)
     /\ gack' = "none"
     /\ frame' = {}
     /\ confirmed' = confirmed \cup UNION {Lookup(d) : d \in Forgets(heard)}
     /\ buffer' = BufferAfter(heard)
     /\ bitmap' = [n \in Nodes |-> IF n \in resets THEN {} ELSE bitmap[n]]
     /\ clean' = clean \cup resets
     /\ legacyBitmap' = IF policy = "GROUP_ACK_LEGACY" THEN {} ELSE legacyBitmap
     /\ marked' = {}
     /\ UNCHANGED <<policy, shiftWraps, cell, seq, received>>

-----------------------------------------------------------------------------
Init ==
  /\ policy \in Policies
  /\ shiftWraps \in BOOLEAN
  /\ cell = 1 /\ gack = "none" /\ frame = {}
  /\ seq = [d \in Devices |-> 0]
  /\ buffer = [d \in Devices |-> <<>>]
  /\ bitmap \in [Nodes -> Bitmaps]
  /\ legacyBitmap = {}
  /\ marked = {} /\ received = {} /\ confirmed = {} /\ clean = {}

Next ==
  \/ StartGTS
  \/ \E delivered \in BOOLEAN : SendData(delivered)
  \/ SendGroupAck
  \/ \E heard \in SUBSET Devices : GroupAckSent(heard)

Spec == Init /\ [][Next]_vars

-----------------------------------------------------------------------------
(* Properties *)

\* Every variable has a value of its type; in particular no bit beyond the 64
\* of m_enhancedGACKBitmap is ever set, whatever the shift by 64 or more does.
TypeOK ==
  /\ policy \in Policies
  /\ shiftWraps \in BOOLEAN
  /\ cell \in DOMAIN Cells
  /\ gack \in {"none", "scheduled", "air"}
  /\ frame \subseteq 0..BitmapSize - 1
  /\ seq \in [Devices -> 0..MaxSeq]
  /\ buffer \in [Devices -> Seq(Packets)]
  /\ bitmap \in [Nodes -> SUBSET (0..BitmapSize - 1)]
  /\ legacyBitmap \subseteq 0..LegacySize - 1
  /\ marked \subseteq received /\ received \subseteq Packets
  /\ confirmed \subseteq Packets
  /\ clean \subseteq Nodes

Buffered(d) == {buffer[d][i] : i \in DOMAIN buffer[d]}

\* The bit that the coordinator sets for a packet alone in its bitmap, and the
\* one that the sender looks up for it.
CoordBit(p) == IF policy = "GROUP_ACK_ENHANCED" THEN Hash[Addr[p.dev] + p.seq] ELSE p.idx
SenderBit(p) == IF policy = "GROUP_ACK_ENHANCED" THEN Hash[Addr[p.dev] + p.seq] ELSE p.slot

\* Neither bitmap holds what it held before its first reset, both sides mean
\* the same bit, and no two packets share it.
NoCollision(d) ==
  LET ps == marked \cup Buffered(d)
  IN /\ policy = "GROUP_ACK_ENHANCED" => {Coord, d} \subseteq clean
     /\ \A p \in ps : CoordBit(p) = SenderBit(p)
     /\ \A p, q \in ps : p # q => CoordBit(p) # CoordBit(q)

\* Where no two packets collide, a device that evaluates a group ACK confirms
\* exactly those of its packets that the coordinator has marked since its last
\* group ACK: lost frames, missed group ACKs and packets left in the buffer by
\* earlier rounds change nothing (PdDataIndication, lr-wpan-mac.cc:2651-2765).
ExactWithoutCollision ==
  [][\A d \in Devices :
       /\ buffer[d] # <<>> /\ buffer'[d] = <<>>
       /\ NoCollision(d)
       => {p \in confirmed' \ confirmed : p.dev = d} = Buffered(d) \cap marked]_vars

\* Probing gives every packet a bit of its own: after the coordinator's first
\* reset the bitmap has as many bits as packets were marked.  A build that
\* shifts modulo 64 keeps this even when the key leaves the bitmap
\* (CheckCollision, DoQuadraticProb, lr-wpan-mac.cc:3638-3664).
BitPerPacket ==
  policy = "GROUP_ACK_ENHANCED" /\ shiftWraps /\ Coord \in clean =>
    Cardinality(bitmap[Coord]) = Cardinality(marked)

\* A packet that was confirmed is in no buffer any more, so that no later group
\* ACK confirms it again (ResetEnhancedGroupAckBuffer, ResetLegacyGroupAckBuffer).
ConfirmedOnce == \A d \in Devices : Buffered(d) \cap confirmed = {}

\* A packet confirmed with SUCCESS was received by the coordinator, as a key
\* that is unique to the packet would make sure (lr-wpan-mac.cc:3614).
ConfirmedWasReceived == confirmed \subseteq received
=============================================================================
