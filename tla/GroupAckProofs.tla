---------------------------- MODULE GroupAckProofs ----------------------------
(***************************************************************************)
(* Proofs about the group acknowledgements, for any devices, addresses,    *)
(* hash, cells and initial bitmaps.                                        *)
(***************************************************************************)
EXTENDS GroupAck, FiniteSetTheorems, SequenceTheorems, WellFoundedInduction, TLAPS

-----------------------------------------------------------------------------
(* Least elements, the form of induction used here *)

\* A nonempty set of natural numbers has a least element.
LEMMA LeastNat ==
  ASSUME NEW T, T \subseteq Nat, T # {}
  PROVE  \E x \in T : \A y \in T : x <= y
<1> DEFINE R == OpToRel(<, Nat)
<1>1. IsWellFoundedOn(R, Nat)
  BY NatLessThanWellFounded
<1> HIDE DEF R
<1>2. PICK x \in T : \A y \in T : ~(<<y, x>> \in R)
  BY <1>1, WFMin
<1>3. \A y \in T : ~(y < x)
  <2>1. SUFFICES ASSUME NEW y \in T, y < x PROVE FALSE
    OBVIOUS
  <2>2. <<y, x>> \in R
    BY <2>1 DEF R, OpToRel
  <2> QED
    BY <1>2, <2>2
<1> QED
  BY <1>2, <1>3

-----------------------------------------------------------------------------
(* Probing *)

\* Each key that is tried adds the next square, as in DoQuadraticProb's recursion.
LEMMA ProbeStep ==
  ASSUME NEW key \in Nat, NEW n \in Nat
  PROVE  /\ Probe(key, 0) = key
         /\ Probe(key, n) \in Nat
         /\ Probe(key, n + 1) = Probe(key, n) + (n + 1) * (n + 1)
<1> DEFINE a == n * (n + 1) * (2 * n + 1)
           b == (n + 1) * ((n + 1) + 1) * (2 * (n + 1) + 1)
           q == (n + 1) * (n + 1)
<1>1. a \in Nat /\ b \in Nat /\ q \in Nat /\ b = a + 6 * q
  OBVIOUS
<1>2. Probe(key, n) = key + (a \div 6) /\ Probe(key, n + 1) = key + (b \div 6)
  BY DEF Probe
<1> HIDE DEF a, b, q
<1>3. b \div 6 = (a \div 6) + q /\ a \div 6 \in Nat
  BY <1>1
<1>4. Probe(key, 0) = key
  BY DEF Probe
<1> QED
  BY <1>1, <1>2, <1>3, <1>4 DEF q

\* A key that probing returns is free.
LEMMA ProbingFindsFree ==
  ASSUME NEW bits, NEW key \in Nat, ProbingEnds(bits, key)
  PROVE  /\ CheckCollision(bits, key) \in Nat
         /\ ~IsHashTableKeyCollision(bits, CheckCollision(bits, key))
<1> DEFINE Free(n) == ~IsHashTableKeyCollision(bits, Probe(key, n))
           T == {n \in 0..MaxProbes : Free(n)}
<1>1. T # {} /\ T \subseteq Nat
  BY DEF ProbingEnds
<1>2. PICK n \in T : \A m \in T : n <= m
  BY <1>1, LeastNat
<1>3. n \in 0..MaxProbes /\ Free(n) /\ \A m \in 0..n - 1 : ~Free(m)
  BY <1>2 DEF MaxProbes
<1>4. \E k \in 0..MaxProbes : /\ Free(k)
                              /\ DoQuadraticProb(bits, key) = Probe(key, k)
  BY <1>3 DEF DoQuadraticProb
<1>5. ~IsHashTableKeyCollision(bits, DoQuadraticProb(bits, key)) /\ DoQuadraticProb(bits, key) \in Nat
  BY <1>4, ProbeStep
<1> QED
  BY <1>5 DEF CheckCollision

\* (uint64_t)1 << key stays within the 64 bits; it is one bit if the key does, or
\* if the build shifts modulo 64.
LEMMA ShiftOneBit ==
  ASSUME NEW key \in Nat
  PROVE  /\ Shift(key) \subseteq 0..BitmapSize - 1
         /\ key < BitmapSize => Shift(key) = {key}
         /\ shiftWraps => \E b \in 0..BitmapSize - 1 : Shift(key) = {b}
<1>1. key % 64 \in 0..63
  OBVIOUS
<1> QED
  BY <1>1 DEF Shift, BitmapSize

-----------------------------------------------------------------------------
(* The loop over m_groupAckPktBuffer *)

LoopStart(d) == [own |-> bitmap[d], acks |-> frame, hit |-> FALSE]
LoopBody(d, s, i) ==
  LET bit == Shift(GenerateHashTableKey(s.own, d, buffer[d][i].seq))
  IN [own |-> s.own \cup bit, acks |-> s.acks \ bit, hit |-> s.acks \cap bit # {}]

\* g holds the states of the first n turns of the loop.
IsLoop(g, d, n) ==
  g = [i \in 0..n |-> IF i = 0 THEN LoopStart(d) ELSE LoopBody(d, g[i - 1], i)]

\* The loop has a state after each turn.
LEMMA LoopExists ==
  ASSUME NEW d, NEW n \in Nat
  PROVE  \E g : IsLoop(g, d, n)
<1> DEFINE T == {m \in Nat : ~\E g : IsLoop(g, d, m)}
<1>1. SUFFICES ASSUME T # {} PROVE FALSE
  OBVIOUS
<1>2. PICK m \in T : \A k \in T : m <= k
  BY <1>1, LeastNat
<1>3. CASE m = 0
  <2> DEFINE g == [i \in 0..0 |-> LoopStart(d)]
  <2>1. IsLoop(g, d, 0)
    BY DEF IsLoop
  <2> QED
    BY <1>2, <1>3, <2>1
<1>4. CASE m # 0
  <2>1. m \in Nat /\ m - 1 \in Nat /\ m - 1 \notin T
    BY <1>2, <1>4
  <2>2. PICK g : IsLoop(g, d, m - 1)
    BY <2>1
  <2> DEFINE h == [i \in 0..m |-> IF i < m THEN g[i] ELSE LoopBody(d, g[m - 1], m)]
             e == [i \in 0..m |-> IF i = 0 THEN LoopStart(d) ELSE LoopBody(d, h[i - 1], i)]
  <2>3. \A i \in 0..m - 1 : g[i] = IF i = 0 THEN LoopStart(d) ELSE LoopBody(d, g[i - 1], i)
    BY <2>2 DEF IsLoop
  <2>4. \A i \in 0..m - 1 : h[i] = g[i]
    BY <2>1
  <2>5. ASSUME NEW i \in 0..m PROVE h[i] = e[i]
    <3>1. CASE i = 0
      BY <1>4, <2>1, <2>3, <3>1
    <3>2. CASE i # 0 /\ i < m
      <4>1. i \in 0..m - 1 /\ i - 1 \in 0..m - 1
        BY <2>1, <3>2
      <4>2. h[i] = LoopBody(d, g[i - 1], i) /\ g[i - 1] = h[i - 1]
        BY <2>3, <2>4, <3>2, <4>1
      <4>3. e[i] = LoopBody(d, h[i - 1], i)
        BY <3>2
      <4> HIDE DEF h, e
      <4> QED
        BY <4>2, <4>3
    <3>3. CASE i = m
      <4>1. m - 1 \in 0..m - 1 /\ ~(m < m) /\ m \in 0..m
        BY <2>1
      <4>2. h[m] = LoopBody(d, g[m - 1], m) /\ g[m - 1] = h[m - 1]
        BY <2>4, <4>1
      <4>3. e[m] = LoopBody(d, h[m - 1], m)
        BY <1>4, <4>1
      <4> HIDE DEF h, e
      <4> QED
        BY <3>3, <4>2, <4>3
    <3> QED
      BY <2>1, <3>1, <3>2, <3>3
  <2>6. h = e
    BY <2>5
  <2>7. IsLoop(h, d, m)
    BY <2>6 DEF IsLoop
  <2> QED
    BY <1>2, <2>7
<1> QED
  BY <1>2, <1>3, <1>4

\* What the loop computes, turn by turn.
LEMMA LoopUnfolds ==
  ASSUME NEW d, Len(buffer[d]) \in Nat
  PROVE  /\ LookupLoop(d)[0] = LoopStart(d)
         /\ \A i \in 1..Len(buffer[d]) :
              LookupLoop(d)[i] = LoopBody(d, LookupLoop(d)[i - 1], i)
<1> DEFINE n == Len(buffer[d])
           f == LookupLoop(d)
<1>1. f = CHOOSE g : IsLoop(g, d, n)
  BY DEF LookupLoop, IsLoop, LoopStart, LoopBody
<1>2. IsLoop(f, d, n)
  BY <1>1, LoopExists
<1> HIDE DEF f
<1>3. \A i \in 0..n : f[i] = IF i = 0 THEN LoopStart(d) ELSE LoopBody(d, f[i - 1], i)
  BY <1>2 DEF IsLoop
<1> QED
  BY <1>3 DEF f

-----------------------------------------------------------------------------
(* The invariant *)

\* Sequence numbers grow: a packet is older than the next one of its device, and
\* a buffer is in the order of sending.
Sequenced ==
  /\ \A d \in Devices : \A i \in 1..Len(buffer[d]) :
       /\ buffer[d][i].dev = d /\ buffer[d][i].seq < seq[d]
       /\ \A j \in 1..i - 1 : buffer[d][j].seq < buffer[d][i].seq
  /\ \A p \in received \cup confirmed : p.seq < seq[p.dev]

\* A group ACK belongs to a cell in which no device sends, so that its bitmap is
\* still the coordinator's when it has been sent.
GackInItsCell ==
  /\ gack # "none" => Cells[cell].dev = NONE
  /\ gack = "air" =>
       frame = IF policy = "GROUP_ACK_ENHANCED" THEN bitmap[Coord] ELSE legacyBitmap

\* The legacy bitmap has exactly the indices of the marked packets.
LegacyMarks == policy = "GROUP_ACK_LEGACY" => legacyBitmap = {p.idx : p \in marked}

Apart(ps) == \A p, q \in ps : p # q => CoordBit(p) # CoordBit(q)

\* Once reset, the enhanced bitmap has exactly the bits of the marked packets, if
\* these do not collide; and a sender's own bitmap is empty between group ACKs.
EnhancedMarks ==
  policy = "GROUP_ACK_ENHANCED" =>
    /\ Coord \in clean /\ Apart(marked) => bitmap[Coord] = {CoordBit(p) : p \in marked}
    /\ \A d \in Devices \cap clean : bitmap[d] = {}

GackInv ==
  /\ TypeOK
  /\ Sequenced
  /\ ConfirmedOnce
  /\ IsFiniteSet(marked) /\ BitPerPacket
  /\ GackInItsCell
  /\ LegacyMarks
  /\ EnhancedMarks

-----------------------------------------------------------------------------
(* The cells and the packets *)

LEMMA CellTypes ==
  ASSUME NEW i \in DOMAIN Cells
  PROVE  /\ Len(Cells) \in Nat /\ DOMAIN Cells = 1..Len(Cells)
         /\ Cells[i].slot \in 0..14 /\ Cells[i].idx \in 0..LegacySize - 1
         /\ Cells[i].dev \in Devices \cup {NONE}
<1> DEFINE S == [slot : 0..14, idx : 0..LegacySize - 1, dev : Devices \cup {NONE}]
<1>1. Cells \in Seq(S)
  BY GroupAckConstants
<1>2. \A c \in S : /\ c.slot \in 0..14 /\ c.idx \in 0..LegacySize - 1
                  /\ c.dev \in Devices \cup {NONE}
  OBVIOUS
<1> HIDE DEF S
<1>3. Len(Cells) \in Nat /\ DOMAIN Cells = 1..Len(Cells) /\ Cells[i] \in S
  BY <1>1
<1> QED
  BY <1>2, <1>3

\* The hash of a packet is a bit of the bitmap.
LEMMA HashOfPacket ==
  ASSUME NEW p \in Packets
  PROVE  Hash[Addr[p.dev] + p.seq] \in 0..60
<1>1. p.dev \in Devices /\ p.seq \in 0..MaxSeq /\ Addr[p.dev] \in Nat /\ MaxSeq \in Nat
  BY GroupAckConstants DEF Packets
<1>2. Addr[p.dev] + p.seq \in Addr[p.dev] .. Addr[p.dev] + MaxSeq
  BY <1>1
<1> QED
  BY <1>1, <1>2, GroupAckConstants

\* The bit that a packet gets is a new one.
LEMMA NewBit ==
  ASSUME NEW p \in Packets, NEW bits, Returns(bits, p.dev, p.seq)
  PROVE  LET bit == Shift(GenerateHashTableKey(bits, p.dev, p.seq))
         IN /\ bit \subseteq 0..BitmapSize - 1 /\ bit \cap bits = {}
            /\ shiftWraps => \E b \in 0..BitmapSize - 1 : bit = {b}
<1> DEFINE hash == Hash[Addr[p.dev] + p.seq]
           key == CheckCollision(bits, hash)
<1>1. hash \in Nat /\ ProbingEnds(bits, hash)
  BY HashOfPacket DEF Returns
<1> HIDE DEF hash
<1>2. key \in Nat /\ ~IsHashTableKeyCollision(bits, key)
  BY <1>1, ProbingFindsFree
<1> HIDE DEF key
<1>3. /\ Shift(key) \subseteq 0..BitmapSize - 1 /\ Shift(key) \cap bits = {}
      /\ shiftWraps => \E b \in 0..BitmapSize - 1 : Shift(key) = {b}
  BY <1>2, ShiftOneBit DEF IsHashTableKeyCollision
<1> QED
  BY <1>3 DEF GenerateHashTableKey, hash, key

\* Without a collision it is the bit of the hash.
LEMMA BitOfHash ==
  ASSUME NEW p \in Packets, NEW bits, Hash[Addr[p.dev] + p.seq] \notin bits
  PROVE  Shift(GenerateHashTableKey(bits, p.dev, p.seq)) = {Hash[Addr[p.dev] + p.seq]}
<1> DEFINE hash == Hash[Addr[p.dev] + p.seq]
<1>1. hash \in 0..60 /\ hash \notin bits
  BY HashOfPacket
<1> HIDE DEF hash
<1>2. Shift(hash) = {hash}
  BY <1>1, ShiftOneBit DEF BitmapSize
<1>3. CheckCollision(bits, hash) = hash
  BY <1>1, <1>2 DEF CheckCollision, IsHashTableKeyCollision
<1> QED
  BY <1>2, <1>3 DEF GenerateHashTableKey, hash

-----------------------------------------------------------------------------
(* Each action keeps the invariant *)

LEMMA StartGTSInv ==
  ASSUME GackInv, StartGTS
  PROVE  GackInv'
<1> USE DEF StartGTS, history
<1>1. cell' \in DOMAIN Cells
  <2>1. Len(Cells) \in Nat \ {0} /\ DOMAIN Cells = 1..Len(Cells) /\ cell \in 1..Len(Cells)
    BY CellTypes, GroupAckConstants DEF GackInv, TypeOK
  <2> DEFINE n == Len(Cells)
  <2>2. (cell % n) + 1 \in 1..n
    <3> HIDE DEF n
    <3>1. n \in Nat \ {0} /\ cell \in 1..n
      BY <2>1 DEF n
    <3> QED
      BY <3>1
  <2> QED
    BY <2>1, <2>2
<1>2. TypeOK'
  BY <1>1 DEF GackInv, TypeOK
<1>3. GackInItsCell'
  BY DEF GackInItsCell, IsGackCell
<1>4. Sequenced' /\ ConfirmedOnce'
  BY DEF GackInv, Sequenced, ConfirmedOnce, Buffered
<1>5. IsFiniteSet(marked)' /\ BitPerPacket'
  BY DEF GackInv, BitPerPacket
<1>6. LegacyMarks' /\ EnhancedMarks'
  BY DEF GackInv, LegacyMarks, EnhancedMarks, Apart, CoordBit
<1> QED
  BY <1>2, <1>3, <1>4, <1>5, <1>6 DEF GackInv

LEMMA SendGroupAckInv ==
  ASSUME GackInv, SendGroupAck
  PROVE  GackInv'
<1> USE DEF SendGroupAck, history
<1>1. TypeOK'
  <2>1. bitmap[Coord] \subseteq 0..BitmapSize - 1 /\ legacyBitmap \subseteq 0..BitmapSize - 1
    <3>1. bitmap[Coord] \subseteq 0..BitmapSize - 1 /\ legacyBitmap \subseteq 0..LegacySize - 1
      BY DEF GackInv, TypeOK, Nodes
    <3>2. 0..LegacySize - 1 \subseteq 0..BitmapSize - 1
      BY DEF LegacySize, BitmapSize
    <3> QED
      BY <3>1, <3>2
  <2>2. frame' \subseteq 0..BitmapSize - 1
    BY <2>1
  <2> QED
    BY <2>2 DEF GackInv, TypeOK
<1>2. GackInItsCell'
  BY DEF GackInv, GackInItsCell
<1>3. Sequenced' /\ ConfirmedOnce'
  BY DEF GackInv, Sequenced, ConfirmedOnce, Buffered
<1>4. IsFiniteSet(marked)' /\ BitPerPacket'
  BY DEF GackInv, BitPerPacket
<1>5. LegacyMarks' /\ EnhancedMarks'
  BY DEF GackInv, LegacyMarks, EnhancedMarks, Apart, CoordBit
<1> QED
  BY <1>1, <1>2, <1>3, <1>4, <1>5 DEF GackInv

\* The packet that SendData sends is new.
LEMMA NewPacket ==
  ASSUME GackInv, NEW delivered, SendData(delivered)
  PROVE  \E p \in Packets :
           /\ Cells[cell].dev # NONE /\ p.seq = seq[p.dev] /\ p.seq < MaxSeq
           /\ p \notin received /\ p \notin confirmed
           /\ seq' = [seq EXCEPT ![p.dev] = @ + 1]
           /\ Remember(p)
           /\ \/ Mark(p)
              \/ UNCHANGED <<bitmap, legacyBitmap, marked, received>>
           /\ UNCHANGED <<policy, shiftWraps, cell, gack, frame, confirmed, clean>>
<1> DEFINE d == Cells[cell].dev
           p == [dev |-> d, seq |-> seq[d], slot |-> Cells[cell].slot, idx |-> Cells[cell].idx]
<1>1. d \in Devices /\ seq[d] \in 0..MaxSeq
  BY CellTypes DEF SendData, GackInv, TypeOK
<1>2. p \in Packets
  <2>1. Cells[cell].slot \in 0..14 /\ Cells[cell].idx \in 0..LegacySize - 1
    BY CellTypes DEF GackInv, TypeOK
  <2> QED
    BY <1>1, <2>1 DEF Packets
<1>3. p \notin received /\ p \notin confirmed
  <2>1. SUFFICES ASSUME p \in received \cup confirmed PROVE FALSE
    OBVIOUS
  <2>2. p.seq < seq[p.dev]
    BY <2>1 DEF GackInv, Sequenced
  <2> QED
    BY <1>1, <2>2, GroupAckConstants
<1>4. p.dev = d /\ p.seq = seq[d]
  OBVIOUS
<1>5. /\ d # NONE /\ seq[d] < MaxSeq /\ seq' = [seq EXCEPT ![d] = @ + 1]
      /\ Remember(p)
      /\ \/ Mark(p)
         \/ UNCHANGED <<bitmap, legacyBitmap, marked, received>>
      /\ UNCHANGED <<policy, shiftWraps, cell, gack, frame, confirmed, clean>>
  BY DEF SendData
<1> HIDE DEF p
<1> QED
  BY <1>2, <1>3, <1>4, <1>5

\* The buffers after SendData.
LEMMA RememberBuffer ==
  ASSUME GackInv, NEW p \in Packets, Remember(p), p.seq = seq[p.dev], p.seq < MaxSeq,
         p \notin confirmed,
         seq' = [seq EXCEPT ![p.dev] = @ + 1],
         UNCHANGED confirmed,
         received' = received \/ received' = received \cup {p}
  PROVE  /\ buffer' \in [Devices -> Seq(Packets)]
         /\ seq' \in [Devices -> 0..MaxSeq]
         /\ Sequenced' /\ ConfirmedOnce'
         /\ \A d \in Devices : buffer'[d] = <<>> => buffer[d] = <<>>
<1> DEFINE d == p.dev
           n == Len(buffer[d])
<1>1. /\ d \in Devices /\ buffer \in [Devices -> Seq(Packets)] /\ seq \in [Devices -> Nat]
      /\ seq \in [Devices -> 0..MaxSeq] /\ buffer[d] \in Seq(Packets) /\ MaxSeq \in Nat
  <2>1. d \in Devices /\ MaxSeq \in Nat
    BY GroupAckConstants DEF Packets
  <2>2. buffer \in [Devices -> Seq(Packets)] /\ seq \in [Devices -> 0..MaxSeq]
    BY DEF GackInv, TypeOK
  <2> QED
    BY <2>1, <2>2
<1>2. buffer' = [buffer EXCEPT ![d] = Append(buffer[d], p)]
  BY DEF Remember
<1> HIDE DEF d
<1>3. /\ buffer'[d] = Append(buffer[d], p) /\ n \in Nat
      /\ buffer'[d] \in Seq(Packets) /\ Len(buffer'[d]) = n + 1
      /\ \A i \in 1..n : buffer'[d][i] = buffer[d][i]
      /\ buffer'[d][n + 1] = p
  BY <1>1, <1>2, AppendProperties
<1>4. \A e \in Devices \ {d} : buffer'[e] = buffer[e] /\ seq'[e] = seq[e]
  BY <1>1, <1>2 DEF d
<1>5. seq'[d] = seq[d] + 1 /\ seq[d] \in Nat /\ seq[d] < MaxSeq /\ p.seq = seq[d]
  BY <1>1 DEF d
<1>6. buffer' \in [Devices -> Seq(Packets)]
  BY <1>1, <1>2, <1>3
<1>7. seq' \in [Devices -> 0..MaxSeq]
  BY <1>1, <1>5 DEF d
<1>8. Sequenced'
  <2>1. ASSUME NEW e \in Devices, NEW i \in 1..Len(buffer'[e])
        PROVE  /\ buffer'[e][i].dev = e /\ buffer'[e][i].seq < seq'[e]
               /\ \A j \in 1..i - 1 : buffer'[e][j].seq < buffer'[e][i].seq
    <3>1. CASE e # d
      BY <1>4, <2>1, <3>1 DEF GackInv, Sequenced
    <3>2. CASE e = d /\ i # n + 1
      <4>1. i \in 1..n /\ \A j \in 1..i - 1 : j \in 1..n
        BY <1>3, <2>1, <3>2
      <4>2. /\ buffer[d][i].dev = d /\ buffer[d][i].seq < seq[d]
            /\ \A j \in 1..i - 1 : buffer[d][j].seq < buffer[d][i].seq
        BY <1>1, <4>1 DEF GackInv, Sequenced
      <4>3. buffer[d][i] \in Packets
        BY <1>1, <4>1
      <4>4. buffer[d][i].seq \in Nat
        BY <4>3, <1>1 DEF Packets
      <4>5. buffer[d][i].seq < seq'[d]
        BY <1>5, <4>2, <4>4
      <4> QED
        BY <1>3, <3>2, <4>1, <4>2, <4>5
    <3>3. CASE e = d /\ i = n + 1
      <4>1. \A j \in 1..i - 1 : j \in 1..n
        BY <1>3, <3>3
      <4>2. \A j \in 1..n : buffer[d][j].seq < seq[d]
        BY <1>1 DEF GackInv, Sequenced
      <4>3. buffer'[d][i] = p /\ p.dev = d /\ p.seq < seq'[d]
        BY <1>3, <1>5, <3>3 DEF d
      <4> QED
        BY <1>3, <1>5, <3>3, <4>1, <4>2, <4>3
    <3> QED
      BY <3>1, <3>2, <3>3
  <2>2. ASSUME NEW q \in received' \cup confirmed' PROVE q.seq < seq'[q.dev]
    <3>1. q = p \/ q \in received \cup confirmed
      OBVIOUS
    <3>2. CASE q = p
      BY <1>5, <3>2 DEF d
    <3>3. CASE q \in received \cup confirmed
      <4>1. q.seq < seq[q.dev]
        BY <3>3 DEF GackInv, Sequenced
      <4>2. q.dev \in Devices /\ q.seq \in Nat
        BY <3>3, GroupAckConstants DEF GackInv, TypeOK, Packets
      <4> QED
        BY <1>4, <1>5, <4>1, <4>2
    <3> QED
      BY <3>1, <3>2, <3>3
  <2> QED
    BY <2>1, <2>2 DEF Sequenced
<1>9. ConfirmedOnce'
  <2>1. SUFFICES ASSUME NEW e \in Devices, NEW i \in DOMAIN buffer'[e]
                 PROVE  buffer'[e][i] \notin confirmed
    BY DEF ConfirmedOnce, Buffered
  <2>2. i \in 1..Len(buffer'[e])
    BY <1>6
  <2>3. CASE e # d
    BY <1>4, <2>1, <2>3 DEF GackInv, ConfirmedOnce, Buffered
  <2>4. CASE e = d /\ i # n + 1
    <3>1. i \in 1..n /\ i \in DOMAIN buffer[d] /\ buffer'[d][i] = buffer[d][i]
      BY <1>1, <1>3, <2>2, <2>4
    <3> QED
      BY <1>1, <2>4, <3>1 DEF GackInv, ConfirmedOnce, Buffered
  <2>5. CASE e = d /\ i = n + 1
    BY <1>3, <2>5
  <2> QED
    BY <2>3, <2>4, <2>5
<1>10. \A e \in Devices : buffer'[e] = <<>> => buffer[e] = <<>>
  <2>1. buffer'[d] # <<>>
    BY <1>3
  <2> QED
    BY <1>4, <2>1
<1> QED
  BY <1>6, <1>7, <1>8, <1>9, <1>10

\* The coordinator's bitmaps after SendData.
LEMMA MarkBitmaps ==
  ASSUME GackInv, NEW p \in Packets, p \notin received, Mark(p),
         UNCHANGED <<policy, shiftWraps, clean>>
  PROVE  /\ bitmap' \in [Nodes -> SUBSET (0..BitmapSize - 1)]
         /\ legacyBitmap' \subseteq 0..LegacySize - 1
         /\ marked' \subseteq received' /\ received' \subseteq Packets
         /\ IsFiniteSet(marked') /\ BitPerPacket'
         /\ LegacyMarks' /\ EnhancedMarks'
<1>1. /\ marked' = marked \cup {p} /\ received' = received \cup {p} /\ p \notin marked
      /\ marked \subseteq Packets
      /\ marked' \subseteq received' /\ received' \subseteq Packets
  BY DEF Mark, GackInv, TypeOK
<1>2. IsFiniteSet(marked') /\ Cardinality(marked') = Cardinality(marked) + 1
  BY <1>1, FS_AddElement DEF GackInv
<1>3. CASE policy = "GROUP_ACK_ENHANCED"
  <2> DEFINE old == bitmap[Coord]
             bit == Shift(GenerateHashTableKey(old, p.dev, p.seq))
  <2>1. /\ UNCHANGED legacyBitmap
        /\ bitmap' = [bitmap EXCEPT ![Coord] = old \cup bit]
        /\ Returns(old, p.dev, p.seq)
    BY <1>3 DEF Mark
  <2>2. /\ bitmap \in [Nodes -> SUBSET (0..BitmapSize - 1)] /\ Coord \in Nodes
        /\ old \in SUBSET (0..BitmapSize - 1)
    BY DEF GackInv, TypeOK, Nodes
  <2>3. /\ bit \subseteq 0..BitmapSize - 1 /\ bit \cap old = {}
        /\ shiftWraps => \E b \in 0..BitmapSize - 1 : bit = {b}
    BY <2>1, NewBit
  <2>4. Apart(marked') /\ Coord \in clean =>
          /\ Apart(marked) /\ old = {CoordBit(q) : q \in marked}
          /\ bit = {CoordBit(p)}
    <3>1. SUFFICES ASSUME Apart(marked'), Coord \in clean
                   PROVE  /\ Apart(marked) /\ old = {CoordBit(q) : q \in marked}
                          /\ bit = {CoordBit(p)}
      OBVIOUS
    <3>2. Apart(marked) /\ old = {CoordBit(q) : q \in marked}
      BY <1>1, <1>3, <3>1 DEF Apart, GackInv, EnhancedMarks
    <3>3. CoordBit(p) \notin old
      BY <1>1, <3>1, <3>2 DEF Apart
    <3>4. CoordBit(p) = Hash[Addr[p.dev] + p.seq]
      BY <1>3 DEF CoordBit
    <3> QED
      BY <3>2, <3>3, <3>4, BitOfHash
  <2> HIDE DEF old, bit
  <2>5. bitmap' \in [Nodes -> SUBSET (0..BitmapSize - 1)] /\ bitmap'[Coord] = old \cup bit
    BY <2>1, <2>2, <2>3
  <2>6. BitPerPacket'
    <3>1. SUFFICES ASSUME shiftWraps, Coord \in clean
                   PROVE  Cardinality(old \cup bit) = Cardinality(marked')
      BY <2>5 DEF BitPerPacket
    <3>2. PICK b : bit = {b} /\ b \notin old
      BY <2>3, <3>1
    <3>3. IsFiniteSet(old)
      <4>1. IsFiniteSet(0..BitmapSize - 1)
        <5>1. BitmapSize - 1 \in Int /\ 0 \in Int
          BY DEF BitmapSize
        <5> QED
          BY <5>1, FS_Interval
      <4> QED
        BY <2>2, <4>1, FS_Subset
    <3>4. Cardinality(old \cup {b}) = Cardinality(old) + 1
      BY <3>2, <3>3, FS_AddElement
    <3>5. Cardinality(old) = Cardinality(marked)
      BY <1>3, <3>1 DEF GackInv, BitPerPacket, old
    <3> QED
      BY <1>2, <3>2, <3>4, <3>5
  <2>7. EnhancedMarks'
    <3>1. \A q : CoordBit(q)' = CoordBit(q)
      BY DEF CoordBit
    <3>2. Apart(marked)' <=> Apart(marked')
      BY <3>1 DEF Apart
    <3>3. Coord \in clean /\ Apart(marked') =>
            bitmap'[Coord] = {CoordBit(q) : q \in marked'}
      BY <1>1, <2>4, <2>5
    <3>4. \A e \in Devices \cap clean : bitmap'[e] = {}
      BY <1>3, <2>1, <2>2, GroupAckConstants DEF GackInv, EnhancedMarks, Nodes
    <3> QED
      BY <3>1, <3>2, <3>3, <3>4 DEF EnhancedMarks
  <2> QED
    BY <1>1, <1>2, <1>3, <2>1, <2>5, <2>6, <2>7 DEF LegacyMarks, GackInv, TypeOK
<1>4. CASE policy # "GROUP_ACK_ENHANCED"
  <2>1. legacyBitmap' = legacyBitmap \cup {p.idx} /\ UNCHANGED bitmap
    BY <1>4 DEF Mark
  <2>2. legacyBitmap' \subseteq 0..LegacySize - 1
    BY <2>1 DEF GackInv, TypeOK, Packets
  <2>3. LegacyMarks'
    BY <1>1, <2>1 DEF LegacyMarks, GackInv
  <2> QED
    BY <1>1, <1>2, <1>4, <2>1, <2>2, <2>3 DEF GackInv, TypeOK, BitPerPacket, EnhancedMarks
<1> QED
  BY <1>3, <1>4

LEMMA SendDataInv ==
  ASSUME GackInv, NEW delivered, SendData(delivered)
  PROVE  GackInv' /\ \A d \in Devices : buffer'[d] = <<>> => buffer[d] = <<>>
<1>1. PICK p \in Packets :
           /\ Cells[cell].dev # NONE /\ p.seq = seq[p.dev] /\ p.seq < MaxSeq
           /\ p \notin received /\ p \notin confirmed
           /\ seq' = [seq EXCEPT ![p.dev] = @ + 1]
           /\ Remember(p)
           /\ \/ Mark(p)
              \/ UNCHANGED <<bitmap, legacyBitmap, marked, received>>
           /\ UNCHANGED <<policy, shiftWraps, cell, gack, frame, confirmed, clean>>
  BY NewPacket
<1>2. received' = received \/ received' = received \cup {p}
  BY <1>1 DEF Mark
<1>3. /\ buffer' \in [Devices -> Seq(Packets)]
      /\ seq' \in [Devices -> 0..MaxSeq]
      /\ Sequenced' /\ ConfirmedOnce'
      /\ \A d \in Devices : buffer'[d] = <<>> => buffer[d] = <<>>
  BY <1>1, <1>2, RememberBuffer
<1>4. /\ bitmap' \in [Nodes -> SUBSET (0..BitmapSize - 1)]
      /\ legacyBitmap' \subseteq 0..LegacySize - 1
      /\ marked' \subseteq received' /\ received' \subseteq Packets
      /\ IsFiniteSet(marked') /\ BitPerPacket'
      /\ LegacyMarks' /\ EnhancedMarks'
  <2>1. CASE Mark(p)
    BY <1>1, <2>1, MarkBitmaps
  <2>2. CASE UNCHANGED <<bitmap, legacyBitmap, marked, received>>
    BY <1>1, <2>2
    DEF GackInv, TypeOK, BitPerPacket, LegacyMarks, EnhancedMarks, Apart, CoordBit
  <2> QED
    BY <1>1, <2>1, <2>2
<1>5. TypeOK'
  BY <1>1, <1>3, <1>4 DEF GackInv, TypeOK
<1>6. GackInItsCell'
  BY <1>1 DEF GackInv, GackInItsCell, TypeOK
<1> QED
  BY <1>3, <1>4, <1>5, <1>6 DEF GackInv

\* A device confirms packets of its own buffer only.
LEMMA LookupBuffered ==
  ASSUME NEW d
  PROVE  Lookup(d) \subseteq Buffered(d)
BY DEF Lookup, EnhancedLookup, LegacyLookup, Buffered

\* After a group ACK: the buffers of the devices that heard it are empty, and
\* nothing that was confirmed is left in another.
LEMMA GroupAckBuffers ==
  ASSUME GackInv, NEW heard \in SUBSET Devices, GroupAckSent(heard)
  PROVE  /\ buffer' \in [Devices -> Seq(Packets)]
         /\ confirmed' \subseteq Packets
         /\ Sequenced' /\ ConfirmedOnce'
<1>1. /\ buffer' = [d \in Devices |-> IF d \in Forgets(heard) THEN <<>> ELSE buffer[d]]
      /\ confirmed' = confirmed \cup UNION {Lookup(d) : d \in Forgets(heard)}
      /\ UNCHANGED <<seq, received>>
  BY DEF GroupAckSent, BufferAfter
<1>2. Forgets(heard) \subseteq Devices
  BY DEF Forgets
<1>3. buffer \in [Devices -> Seq(Packets)] /\ confirmed \subseteq Packets
  BY DEF GackInv, TypeOK
<1>4. ASSUME NEW d \in Devices, NEW p \in Buffered(d)
      PROVE  p \in Packets /\ p.dev = d /\ p.seq < seq[d]
  <2>1. PICK i \in DOMAIN buffer[d] : p = buffer[d][i]
    BY <1>4 DEF Buffered
  <2>2. i \in 1..Len(buffer[d]) /\ buffer[d][i] \in Packets
    BY <1>3, <2>1
  <2> QED
    BY <2>1, <2>2 DEF GackInv, Sequenced
<1>5. \A p \in confirmed' \ confirmed :
        \E d \in Forgets(heard) : d \in Devices /\ p \in Buffered(d)
  BY <1>1, <1>2, LookupBuffered
<1>6. buffer' \in [Devices -> Seq(Packets)] /\ confirmed' \subseteq Packets
  BY <1>1, <1>3, <1>4, <1>5
<1>7. Sequenced'
  <2>1. ASSUME NEW d \in Devices, NEW i \in 1..Len(buffer'[d])
        PROVE  /\ buffer'[d][i].dev = d /\ buffer'[d][i].seq < seq'[d]
               /\ \A j \in 1..i - 1 : buffer'[d][j].seq < buffer'[d][i].seq
    <3>1. buffer'[d] = buffer[d]
      BY <1>1, <2>1
    <3> QED
      BY <1>1, <2>1, <3>1 DEF GackInv, Sequenced
  <2>2. ASSUME NEW p \in received' \cup confirmed' PROVE p.seq < seq'[p.dev]
    <3>1. CASE p \in received \cup confirmed
      BY <1>1, <3>1 DEF GackInv, Sequenced
    <3>2. CASE p \in confirmed' \ confirmed
      BY <1>1, <1>4, <1>5, <3>2
    <3> QED
      BY <1>1, <3>1, <3>2
  <2> QED
    BY <2>1, <2>2 DEF Sequenced
<1>8. ConfirmedOnce'
  <2>1. SUFFICES ASSUME NEW e \in Devices, NEW i \in DOMAIN buffer'[e],
                        buffer'[e][i] \in confirmed'
                 PROVE  FALSE
    BY DEF ConfirmedOnce, Buffered
  <2>2. e \notin Forgets(heard) /\ buffer'[e] = buffer[e] /\ buffer[e][i] \in Buffered(e)
    BY <1>1, <2>1 DEF Buffered
  <2>3. CASE buffer[e][i] \in confirmed
    BY <2>2, <2>3 DEF GackInv, ConfirmedOnce
  <2>4. CASE buffer[e][i] \in confirmed' \ confirmed
    <3>1. PICK d \in Forgets(heard) : d \in Devices /\ buffer[e][i] \in Buffered(d)
      BY <1>5, <2>4
    <3> QED
      BY <1>4, <2>2, <3>1
  <2> QED
    BY <2>1, <2>2, <2>3, <2>4
<1> QED
  BY <1>6, <1>7, <1>8

LEMMA GroupAckSentInv ==
  ASSUME GackInv, NEW heard \in SUBSET Devices, GroupAckSent(heard)
  PROVE  GackInv'
<1> DEFINE resets == IF policy = "GROUP_ACK_ENHANCED" THEN Forgets(heard) \cup {Coord} ELSE {}
<1>1. /\ gack' = "none" /\ frame' = {} /\ marked' = {}
      /\ bitmap' = [n \in Nodes |-> IF n \in resets THEN {} ELSE bitmap[n]]
      /\ clean' = clean \cup resets
      /\ legacyBitmap' = IF policy = "GROUP_ACK_LEGACY" THEN {} ELSE legacyBitmap
      /\ UNCHANGED <<policy, shiftWraps, cell, seq, received>>
  BY DEF GroupAckSent
<1>2. resets \subseteq Nodes /\ (policy = "GROUP_ACK_ENHANCED" => Coord \in resets)
  BY DEF Forgets, Nodes
<1> HIDE DEF resets
<1>3. /\ buffer' \in [Devices -> Seq(Packets)]
      /\ confirmed' \subseteq Packets
      /\ Sequenced' /\ ConfirmedOnce'
  BY GroupAckBuffers
<1>4. bitmap' \in [Nodes -> SUBSET (0..BitmapSize - 1)]
  BY <1>1 DEF GackInv, TypeOK
<1>5. TypeOK'
  BY <1>1, <1>2, <1>3, <1>4 DEF GackInv, TypeOK
<1>6. GackInItsCell' /\ LegacyMarks'
  BY <1>1 DEF GackInItsCell, LegacyMarks
<1>7. IsFiniteSet(marked') /\ Cardinality(marked') = 0 /\ Cardinality({}) = 0
  BY <1>1, FS_EmptySet
<1>8. policy = "GROUP_ACK_ENHANCED" => bitmap'[Coord] = {}
  BY <1>1, <1>2
<1>9. BitPerPacket'
  BY <1>1, <1>7, <1>8 DEF BitPerPacket
<1>10. EnhancedMarks'
  <2>1. SUFFICES ASSUME policy = "GROUP_ACK_ENHANCED"
                 PROVE  /\ bitmap'[Coord] = {}
                        /\ \A d \in Devices \cap clean' : bitmap'[d] = {}
    BY <1>1 DEF EnhancedMarks
  <2>2. \A d \in Devices \cap clean : bitmap[d] = {}
    BY <2>1 DEF GackInv, EnhancedMarks
  <2> QED
    BY <1>1, <1>8, <2>1, <2>2 DEF Nodes
<1> QED
  BY <1>3, <1>5, <1>6, <1>7, <1>9, <1>10 DEF GackInv

-----------------------------------------------------------------------------
(* The lookup without collisions *)

\* Each turn of the loop looks up the bit of the packet's hash in the bitmap of
\* the group ACK as it was received: the bits taken off it before are others.
LEMMA LoopWithoutCollision ==
  ASSUME GackInv, policy = "GROUP_ACK_ENHANCED", NEW d \in Devices, NoCollision(d)
  PROVE  \A i \in 1..Len(buffer[d]) :
           LookupLoop(d)[i].hit <=> CoordBit(buffer[d][i]) \in frame
<1> DEFINE n == Len(buffer[d])
           L == LookupLoop(d)
           Own(i) == {CoordBit(buffer[d][j]) : j \in 1..i}
           Good(i) == L[i].own = Own(i) /\ L[i].acks = frame \ Own(i)
<1>1. n \in Nat /\ \A i \in 1..n : buffer[d][i] \in Packets /\ buffer[d][i] \in Buffered(d)
  <2>1. buffer[d] \in Seq(Packets)
    BY DEF GackInv, TypeOK
  <2> QED
    BY <2>1 DEF Buffered
<1>2. /\ L[0] = LoopStart(d)
      /\ \A i \in 1..n : L[i] = LoopBody(d, L[i - 1], i)
  BY <1>1, LoopUnfolds
<1> HIDE DEF L
<1>3. ASSUME NEW i \in 1..n, Good(i - 1)
      PROVE  Good(i) /\ (L[i].hit <=> CoordBit(buffer[d][i]) \in frame)
  <2> DEFINE p == buffer[d][i]
             bit == Shift(GenerateHashTableKey(L[i - 1].own, d, p.seq))
  <2>1. p \in Packets /\ p.dev = d /\ CoordBit(p) = Hash[Addr[d] + p.seq]
    BY <1>1 DEF CoordBit, GackInv, Sequenced
  <2>2. CoordBit(p) \notin Own(i - 1)
    <3>1. SUFFICES ASSUME NEW j \in 1..i - 1 PROVE CoordBit(buffer[d][j]) # CoordBit(p)
      OBVIOUS
    <3>2. j \in 1..n /\ buffer[d][j].seq < p.seq
      BY <1>1, <3>1 DEF GackInv, Sequenced
    <3>3. buffer[d][j] # p
      <4>1. p.seq \in Nat
        BY <2>1, GroupAckConstants DEF Packets
      <4> HIDE DEF p
      <4> QED
        BY <3>2, <4>1
    <3> QED
      BY <1>1, <3>2, <3>3 DEF NoCollision
  <2>3. bit = {CoordBit(p)}
    <3>1. Hash[Addr[p.dev] + p.seq] \notin L[i - 1].own
      BY <1>3, <2>1, <2>2
    <3>2. Shift(GenerateHashTableKey(L[i - 1].own, p.dev, p.seq)) = {Hash[Addr[p.dev] + p.seq]}
      BY <2>1, <3>1, BitOfHash
    <3> QED
      BY <2>1, <3>2
  <2>4. L[i] = [own |-> L[i - 1].own \cup bit, acks |-> L[i - 1].acks \ bit,
                hit |-> L[i - 1].acks \cap bit # {}]
    BY <1>2 DEF LoopBody
  <2>5. Own(i) = Own(i - 1) \cup {CoordBit(p)}
    <3>1. 1..i = (1..i - 1) \cup {i}
      BY <1>1
    <3> QED
      BY <3>1
  <2>6. L[i - 1].own = Own(i - 1) /\ L[i - 1].acks = frame \ Own(i - 1)
    BY <1>3
  <2>7. /\ L[i].own = L[i - 1].own \cup bit /\ L[i].acks = L[i - 1].acks \ bit
        /\ L[i].hit = (L[i - 1].acks \cap bit # {})
    BY <2>4
  <2> HIDE DEF bit, p, Own
  <2>8. Good(i)
    BY <2>3, <2>5, <2>6, <2>7
  <2>9. L[i].hit <=> CoordBit(p) \in frame
    BY <2>2, <2>3, <2>6, <2>7
  <2> QED
    BY <2>8, <2>9 DEF p
<1>4. Good(0)
  <2>1. bitmap[d] = {}
    BY DEF NoCollision, GackInv, EnhancedMarks
  <2>2. Own(0) = {}
    OBVIOUS
  <2> QED
    BY <1>2, <2>1, <2>2 DEF LoopStart
<1> DEFINE T == {i \in 0..n : ~Good(i)}
<1>5. T = {}
  <2>1. SUFFICES ASSUME T # {} PROVE FALSE
    OBVIOUS
  <2>2. PICK i \in T : \A j \in T : i <= j
    <3> HIDE DEF Good
    <3>1. T \subseteq Nat
      BY <1>1
    <3> HIDE DEF T
    <3> QED
      BY <2>1, <3>1, LeastNat
  <2>3. i \in 1..n /\ i - 1 \in 0..n /\ ~(i <= i - 1)
    BY <1>1, <1>4, <2>2
  <2>4. Good(i - 1)
    BY <2>2, <2>3
  <2> QED
    BY <1>3, <2>2, <2>3, <2>4
<1>6. \A i \in 1..n : Good(i - 1)
  <2>1. \A i \in 1..n : i - 1 \in 0..n
    BY <1>1
  <2> QED
    BY <1>5, <2>1
<1> QED
  BY <1>3, <1>6 DEF L

\* Then a device finds exactly the marked ones of the packets it remembers.
LEMMA LookupExact ==
  ASSUME GackInv, gack = "air", NEW d \in Devices, NoCollision(d)
  PROVE  Lookup(d) = Buffered(d) \cap marked
<1>1. \A p \in Buffered(d) \cup marked, q \in Buffered(d) \cup marked :
        /\ CoordBit(p) = SenderBit(p)
        /\ CoordBit(p) = CoordBit(q) => p = q
  BY DEF NoCollision
<1>2. frame = {CoordBit(q) : q \in marked}
  <2>1. CASE policy = "GROUP_ACK_ENHANCED"
    <3>1. Coord \in clean /\ Apart(marked)
      BY <2>1 DEF NoCollision, Apart
    <3> QED
      BY <2>1, <3>1 DEF GackInv, GackInItsCell, EnhancedMarks
  <2>2. CASE policy # "GROUP_ACK_ENHANCED"
    <3>1. policy = "GROUP_ACK_LEGACY"
      BY <2>2, GroupAckConstants DEF GackInv, TypeOK
    <3>2. frame = {q.idx : q \in marked}
      BY <2>2, <3>1 DEF GackInv, GackInItsCell, LegacyMarks
    <3> QED
      BY <2>2, <3>2 DEF CoordBit
  <2> QED
    BY <2>1, <2>2
<1>3. \A p \in Buffered(d) : CoordBit(p) \in frame <=> p \in marked
  BY <1>1, <1>2
<1>4. DOMAIN buffer[d] = 1..Len(buffer[d])
  BY DEF GackInv, TypeOK
<1>5. Lookup(d) = {p \in Buffered(d) : CoordBit(p) \in frame}
  <2>1. CASE policy = "GROUP_ACK_ENHANCED"
    <3>1. \A i \in DOMAIN buffer[d] :
            LookupLoop(d)[i].hit <=> CoordBit(buffer[d][i]) \in frame
      BY <1>4, <2>1, LoopWithoutCollision
    <3> QED
      BY <2>1, <3>1 DEF Lookup, EnhancedLookup, Buffered
  <2>2. CASE policy # "GROUP_ACK_ENHANCED"
    <3>1. \A i \in DOMAIN buffer[d] : buffer[d][i] \in Buffered(d)
      BY DEF Buffered
    <3>2. \A i \in DOMAIN buffer[d] : buffer[d][i].slot = CoordBit(buffer[d][i])
      BY <1>1, <2>2, <3>1 DEF SenderBit
    <3> QED
      BY <2>2, <3>2 DEF Lookup, LegacyLookup, Buffered
  <2> QED
    BY <2>1, <2>2
<1> QED
  BY <1>3, <1>5

-----------------------------------------------------------------------------
(* The theorems *)

LEMMA InitInv == Init => GackInv
<1>1. SUFFICES ASSUME Init PROVE GackInv
  OBVIOUS
<1>2. /\ cell = 1 /\ gack = "none" /\ frame = {} /\ legacyBitmap = {}
      /\ marked = {} /\ received = {} /\ confirmed = {} /\ clean = {}
      /\ seq = [d \in Devices |-> 0] /\ buffer = [d \in Devices |-> <<>>]
  BY <1>1 DEF Init
<1>3. TypeOK
  <2>1. cell \in DOMAIN Cells
    BY <1>2, GroupAckConstants
  <2>2. bitmap \in [Nodes -> SUBSET (0..BitmapSize - 1)]
    BY <1>1, GroupAckConstants DEF Init
  <2>3. seq \in [Devices -> 0..MaxSeq] /\ buffer \in [Devices -> Seq(Packets)]
    BY <1>2, GroupAckConstants
  <2> QED
    BY <1>1, <1>2, <2>1, <2>2, <2>3 DEF Init, TypeOK
<1>4. Sequenced /\ ConfirmedOnce
  BY <1>2 DEF Sequenced, ConfirmedOnce
<1>5. IsFiniteSet(marked) /\ BitPerPacket
  BY <1>2, FS_EmptySet DEF BitPerPacket
<1>6. GackInItsCell /\ LegacyMarks /\ EnhancedMarks
  BY <1>2 DEF GackInItsCell, LegacyMarks, EnhancedMarks
<1> QED
  BY <1>3, <1>4, <1>5, <1>6 DEF GackInv

LEMMA NextInv == GackInv /\ [Next]_vars => GackInv'
<1>1. SUFFICES ASSUME GackInv, [Next]_vars PROVE GackInv'
  OBVIOUS
<1>2. CASE UNCHANGED vars
  <2>1. /\ UNCHANGED <<policy, shiftWraps, cell, gack, frame, legacyBitmap, marked>>
        /\ UNCHANGED <<seq, buffer, bitmap, received, confirmed, clean>>
    BY <1>2 DEF vars, coordVars, history
  <2>2. TypeOK' /\ Sequenced' /\ ConfirmedOnce' /\ GackInItsCell'
    BY <1>1, <2>1 DEF GackInv, TypeOK, Sequenced, ConfirmedOnce, Buffered, GackInItsCell
  <2>3. IsFiniteSet(marked)' /\ BitPerPacket' /\ LegacyMarks' /\ EnhancedMarks'
    BY <1>1, <2>1 DEF GackInv, BitPerPacket, LegacyMarks, EnhancedMarks, Apart, CoordBit
  <2> QED
    BY <2>2, <2>3 DEF GackInv
<1> QED
  BY <1>1, <1>2, StartGTSInv, SendDataInv, SendGroupAckInv, GroupAckSentInv DEF Next

\* The invariant holds in every behaviour: whatever frames and group ACKs are
\* lost, whatever the bitmaps hold before their first reset.
THEOREM GackInvariant == Spec => []GackInv
BY InitInv, NextInv, PTL DEF Spec

\* No bit beyond the 64 of m_enhancedGACKBitmap is set by the shifts, and buffers
\* and histories hold packets that exist.
THEOREM GackTypes == Spec => []TypeOK
<1>1. GackInv => TypeOK
  BY DEF GackInv
<1> QED
  BY <1>1, GackInvariant, PTL

\* In a build that shifts modulo 64, CheckCollision gives every packet a bit of
\* its own, for any hash and any number of packets.
THEOREM GackBitPerPacket == Spec => []BitPerPacket
<1>1. GackInv => BitPerPacket
  BY DEF GackInv
<1> QED
  BY <1>1, GackInvariant, PTL

\* The loops of PdDataIndication confirm no packet a second time.
THEOREM GackConfirmedOnce == Spec => []ConfirmedOnce
<1>1. GackInv => ConfirmedOnce
  BY DEF GackInv
<1> QED
  BY <1>1, GackInvariant, PTL

\* Only a group ACK that a device heard empties its buffer.
LEMMA EmptiedByGroupAck ==
  ASSUME GackInv, Next, NEW d \in Devices, buffer[d] # <<>>, buffer'[d] = <<>>
  PROVE  \E heard \in SUBSET Devices : GroupAckSent(heard) /\ d \in Forgets(heard)
<1>1. PICK heard \in SUBSET Devices : GroupAckSent(heard)
  BY SendDataInv DEF Next, StartGTS, SendGroupAck
<1>2. d \in Forgets(heard)
  BY <1>1 DEF GroupAckSent, BufferAfter
<1> QED
  BY <1>1, <1>2

\* Where no two packets share a bit, a device confirms exactly those of its
\* packets that the coordinator marked since its last group ACK: for any number
\* of devices, lost frames, missed group ACKs and packets left over from earlier
\* rounds, and for the legacy and the enhanced lookup.
THEOREM GackExactWithoutCollision == Spec => ExactWithoutCollision
<1> DEFINE Exact(d) ==
             /\ buffer[d] # <<>> /\ buffer'[d] = <<>>
             /\ NoCollision(d)
             => {p \in confirmed' \ confirmed : p.dev = d} = Buffered(d) \cap marked
<1>1. GackInv /\ [Next]_vars => [\A d \in Devices : Exact(d)]_vars
  <2>1. SUFFICES ASSUME GackInv, Next, NEW d \in Devices, buffer[d] # <<>>,
                        buffer'[d] = <<>>, NoCollision(d)
                 PROVE  {p \in confirmed' \ confirmed : p.dev = d} = Buffered(d) \cap marked
    OBVIOUS
  <2>2. PICK heard \in SUBSET Devices : GroupAckSent(heard) /\ d \in Forgets(heard)
    BY <2>1, EmptiedByGroupAck
  <2>3. /\ gack = "air" /\ Forgets(heard) \subseteq Devices
        /\ confirmed' = confirmed \cup UNION {Lookup(e) : e \in Forgets(heard)}
    BY <2>2 DEF GroupAckSent, Forgets
  <2>4. \A e \in Devices : \A p \in Lookup(e) : p.dev = e
    <3>1. SUFFICES ASSUME NEW e \in Devices, NEW p \in Buffered(e) PROVE p.dev = e
      BY LookupBuffered
    <3>2. PICK i \in DOMAIN buffer[e] : p = buffer[e][i]
      BY <3>1 DEF Buffered
    <3>3. i \in 1..Len(buffer[e])
      BY <2>1 DEF GackInv, TypeOK
    <3> QED
      BY <2>1, <3>2, <3>3 DEF GackInv, Sequenced
  <2>5. Lookup(d) \cap confirmed = {}
    BY <2>1, LookupBuffered DEF GackInv, ConfirmedOnce
  <2>6. {p \in confirmed' \ confirmed : p.dev = d} = Lookup(d)
    BY <2>2, <2>3, <2>4, <2>5
  <2> QED
    BY <2>1, <2>3, <2>6, LookupExact
<1> QED
  BY <1>1, GackInvariant, PTL DEF Spec, ExactWithoutCollision
=============================================================================
