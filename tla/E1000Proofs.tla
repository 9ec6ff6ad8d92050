---------------------------- MODULE E1000Proofs -----------------------------
(***************************************************************************)
(* Proofs about E1000 for rings of any size and any number of frames.      *)
(*                                                                         *)
(* Frames are numbered, so that both orders are a matter of what stands    *)
(* where: SentInv says which frame each descriptor between the card's head *)
(* and the driver's tail holds, and that none of them is done; since the   *)
(* driver looks at DD before it fills a descriptor, no frame is written    *)
(* over, not even when the ring is full.  ReceivedInv says where a frame   *)
(* may lie; FirstTurn adds that DD means "a frame has come here" until the *)
(* driver has been through the ring once, after which it says nothing.     *)
(***************************************************************************)
EXTENDS E1000, SequenceTheorems, TLAPS

\* The frames that the card has been told of.
Told == IF call = "transmit" THEN Len(accepted) - 1 ELSE Len(accepted)
\* The frames that the driver has moved on from.
Passed == IF call = "receive" THEN Len(delivered) - 1 ELSE Len(delivered)

\* The sequence of the first n frames.
First(n) == [k \in 1..n |-> k]

SentInv ==
    /\ accepted \in Seq(Nat) /\ accepted = First(Len(accepted))
    /\ onwire \in Seq(Nat) /\ onwire = First(Len(onwire))
    /\ call = "transmit" => Len(accepted) > 0
    /\ Len(onwire) <= Told /\ Len(accepted) <= Len(onwire) + TXDESCS
    /\ tdt = Told % TXDESCS /\ tdh = Len(onwire) % TXDESCS
    /\ DOMAIN tx_desc_array = 0..TXDESCS - 1
    /\ \A k \in Len(onwire)..(Len(accepted) - 1) :
          /\ tx_desc_array[k % TXDESCS].frame = k + 1
          /\ ~tx_desc_array[k % TXDESCS].dd

ReceivedInv ==
    /\ arrived \in Seq(Nat) /\ arrived = First(Len(arrived))
    /\ delivered \in Seq(Nat)
    /\ call = "receive" => Len(delivered) > 0
    /\ next = Passed % RXDESCS /\ rdh = Len(arrived) % RXDESCS
    /\ rdt = (Passed + RXDESCS - 1) % RXDESCS
    /\ DOMAIN rx_desc_array = 0..RXDESCS - 1
    /\ \A i \in 0..RXDESCS - 1 : rx_desc_array[i].dd =>
          /\ rx_desc_array[i].frame \in 1..Len(arrived)
          /\ (rx_desc_array[i].frame - 1) % RXDESCS = i
    /\ \A n \in 1..Len(delivered) :
          /\ delivered[n] \in 1..Len(arrived)
          /\ (delivered[n] - 1) % RXDESCS = (n - 1) % RXDESCS

FirstTurn ==
    /\ delivered = First(Len(delivered)) /\ Len(delivered) <= Len(arrived)
    /\ Len(arrived) <= Passed + RXDESCS - 1
    /\ \A i \in 0..RXDESCS - 1 : rx_desc_array[i].dd =>
          /\ i < Len(arrived)
          /\ i >= Passed => rx_desc_array[i].frame = i + 1

FirstTurnInv == Len(delivered) <= RXDESCS => FirstTurn

-----------------------------------------------------------------------------
(* Rings and sequences.                                                    *)

\* Two frames that are less than a turn apart have different descriptors.
LEMMA Places ==
  ASSUME NEW S \in Nat, S > 0, NEW a \in Nat, NEW b \in Nat, a < b, b < a + S
  PROVE  a % S # b % S
<1> DEFINE q1 == a \div S
           q2 == b \div S
<1>1. /\ q1 \in Int /\ a = S * q1 + (a % S)
      /\ q2 \in Int /\ b = S * q2 + (b % S)
  OBVIOUS
<1> SUFFICES ASSUME a % S = b % S PROVE FALSE
  OBVIOUS
<1> HIDE DEF q1, q2
<1>2. a % S \in Int
  OBVIOUS
<1>3. b - a = S * q2 - S * q1
  BY <1>1, <1>2
<1>4. S * q2 - S * q1 = S * (q2 - q1)
  BY <1>1
<1>5. PICK k \in Int : b - a = S * k
  BY <1>1, <1>3, <1>4
<1>6. k <= 0 => S * k <= 0
  OBVIOUS
<1>7. k >= 1 => S * k >= S
  OBVIOUS
<1>8. b - a > 0 /\ b - a < S
  OBVIOUS
<1>9. S * k \in Int
  OBVIOUS
<1> QED  BY <1>5, <1>6, <1>7, <1>8, <1>9

\* The register after the next frame, and that every frame has a descriptor.
LEMMA Onward ==
  ASSUME NEW S \in Nat, S > 0, NEW a \in Nat
  PROVE  /\ a % S \in 0..S - 1
         /\ ((a % S) + 1) % S = (a + 1) % S
         /\ a < S => a % S = a
<1>1. a % S \in 0..S - 1
  OBVIOUS
<1>2. a < S => a % S = a
  OBVIOUS
<1>3. ((a % S) + 1) % S = (a + 1) % S
  <2> DEFINE q == a \div S
             r == a % S
  <2>1. q \in Int /\ a = S * q + r /\ r \in 0..S - 1
    OBVIOUS
  <2> HIDE DEF q, r
  <2>2. CASE r + 1 < S
    <3>1. a + 1 = S * q + (r + 1)
      BY <2>1
    <3>2. (r + 1) % S = r + 1
      BY <2>1, <2>2
    <3>3. (S * q + (r + 1)) % S = r + 1
      BY <2>1, <2>2
    <3> QED  BY <3>1, <3>2, <3>3 DEF r
  <2>3. CASE r + 1 = S
    <3>1. a + 1 = S * (q + 1)
      BY <2>1, <2>3
    <3>2. (S * (q + 1)) % S = 0
      BY <2>1
    <3>3. S % S = 0
      OBVIOUS
    <3> QED  BY <2>3, <3>1, <3>2, <3>3 DEF r
  <2> QED  BY <2>1, <2>2, <2>3
<1> QED  BY <1>1, <1>2, <1>3

\* A turn later it is the same descriptor again.
LEMMA Turn ==
  ASSUME NEW S \in Nat, S > 0, NEW a \in Nat
  PROVE  (a + S) % S = a % S
<1> DEFINE q == a \div S
           r == a % S
<1>1. q \in Int /\ a = S * q + r /\ r \in 0..S - 1
  OBVIOUS
<1> HIDE DEF q, r
<1>2. a + S = S * (q + 1) + r
  BY <1>1
<1>3. (S * (q + 1) + r) % S = r
  BY <1>1
<1> QED  BY <1>2, <1>3 DEF r

\* First(n) is a sequence of n frames and grows by the next one.
LEMMA FirstFacts ==
  ASSUME NEW n \in Nat
  PROVE  /\ First(n) \in Seq(Nat) /\ Len(First(n)) = n
         /\ Append(First(n), n + 1) = First(n + 1)
<1>1. \A a \in Nat : First(a) \in Seq(Nat) /\ Len(First(a)) = a
  <2> SUFFICES ASSUME NEW a \in Nat
               PROVE  First(a) \in Seq(Nat) /\ Len(First(a)) = a
    OBVIOUS
  <2>1. First(a) \in [1..a -> Nat]
    BY DEF First
  <2>2. First(a) \in Seq(Nat)
    BY <2>1, SeqDef
  <2>3. DOMAIN First(a) = 1..a
    BY DEF First
  <2> QED  BY <2>2, <2>3, LenProperties
<1>2. \A a \in Nat : \A k \in 1..a : First(a)[k] = k
  BY DEF First
<1> DEFINE s == First(n)
           t == First(n + 1)
<1>3. /\ s \in Seq(Nat) /\ Len(s) = n /\ \A k \in 1..n : s[k] = k
      /\ t \in Seq(Nat) /\ Len(t) = n + 1 /\ \A k \in 1..(n + 1) : t[k] = k
  BY <1>1, <1>2
<1> HIDE DEF s, t
<1>4. /\ Append(s, n + 1) \in Seq(Nat) /\ Len(Append(s, n + 1)) = n + 1
      /\ \A k \in 1..n : Append(s, n + 1)[k] = s[k]
      /\ Append(s, n + 1)[n + 1] = n + 1
  BY <1>3, AppendProperties
<1>5. \A k \in 1..(n + 1) : Append(s, n + 1)[k] = t[k]
  BY <1>3, <1>4
<1>6. Append(s, n + 1) = t
  BY <1>3, <1>4, <1>5, SeqEqual
<1> QED  BY <1>1, <1>6 DEF s, t

\* Fewer of the first frames come before more of them.
LEMMA FirstIsPrefix ==
  ASSUME NEW a \in Nat, NEW b \in Nat, a <= b
  PROVE  IsPrefix(First(a), First(b))
<1> DEFINE s == First(a)
           t == First(b)
<1>1. s \in Seq(Nat) /\ Len(s) = a /\ t \in Seq(Nat) /\ Len(t) = b
  BY FirstFacts
<1>2. /\ \A k \in 1..a : s[k] = k
      /\ \A k \in 1..b : t[k] = k
  BY DEF First
<1> HIDE DEF s, t
<1>3. SubSeq(s, 1, a) = [k \in 1..a |-> s[k]] /\ SubSeq(t, 1, a) = [k \in 1..a |-> t[k]]
  BY <1>1, SubSeqProperties
<1>4. SubSeq(s, 1, a) = SubSeq(t, 1, a)
  BY <1>2, <1>3
<1> QED  BY <1>1, <1>4 DEF IsPrefix, s, t

-----------------------------------------------------------------------------
(* The ring that sends.                                                    *)

LEMMA SentInit == Init => SentInv
<1> SUFFICES ASSUME Init PROVE SentInv
  OBVIOUS
<1>1. First(0) = <<>> /\ First(0) \in Seq(Nat) /\ Len(First(0)) = 0
  <2>1. First(0) \in Seq(Nat) /\ Len(First(0)) = 0
    BY FirstFacts
  <2>2. First(0) = <<>>
    BY <2>1, EmptySeq
  <2> QED  BY <2>1, <2>2
<1>2. accepted = First(0) /\ onwire = First(0) /\ call # "transmit"
  BY <1>1, E1000Assumption DEF Init
<1>3. Len(accepted) = 0 /\ Len(onwire) = 0 /\ Told = 0
  BY <1>1, <1>2 DEF Told
<1>4. tdt = 0 % TXDESCS /\ tdh = 0 % TXDESCS /\ DOMAIN tx_desc_array = 0..TXDESCS - 1
  BY E1000Assumption, Onward DEF Init
<1> QED  BY <1>1, <1>2, <1>3, <1>4, E1000Assumption DEF SentInv

\* A frame goes into the descriptor at the tail, which none of the frames that
\* still have to be sent is in.
LEMMA TransmitSent == SentInv /\ e1000_transmit => SentInv'
<1> SUFFICES ASSUME SentInv, e1000_transmit PROVE SentInv'
  OBVIOUS
<1> DEFINE A == Len(accepted)
           W == Len(onwire)
<1>1. /\ A \in Nat /\ W \in Nat /\ W <= A /\ A <= W + TXDESCS
      /\ TXDESCS \in Nat /\ TXDESCS > 1 /\ Told = A /\ tdt = A % TXDESCS
      /\ call # "transmit" /\ A + 1 \in Nat
  <2>1. call # "transmit"
    BY E1000Assumption DEF e1000_transmit
  <2>2. A \in Nat /\ W \in Nat /\ A <= W + TXDESCS
    BY LenProperties DEF SentInv
  <2>3. Told = A
    BY <2>1 DEF Told
  <2>4. W <= A /\ tdt = A % TXDESCS
    BY <2>3 DEF SentInv
  <2>5. TXDESCS \in Nat /\ TXDESCS > 1
    BY E1000Assumption
  <2> QED  BY <2>1, <2>2, <2>3, <2>4, <2>5
<1>2. /\ accepted' = First(A + 1) /\ accepted' \in Seq(Nat) /\ Len(accepted') = A + 1
      /\ call' = "transmit" /\ Told' = A
  <2>1. accepted' = First(A + 1)
    BY <1>1, FirstFacts DEF SentInv, e1000_transmit
  <2>2. Len(accepted') = A + 1 /\ accepted' \in Seq(Nat) /\ call' = "transmit"
    BY <1>1, <2>1, FirstFacts DEF e1000_transmit
  <2>3. (A + 1) - 1 = A
    BY <1>1
  <2> QED  BY <2>1, <2>2, <2>3 DEF Told
<1>3. /\ tx_desc_array' = [tx_desc_array EXCEPT ![tdt] = [dd |-> FALSE, frame |-> A + 1]]
      /\ UNCHANGED <<tdh, tdt, onwire>>
  BY DEF e1000_transmit
<1>4. A < W + TXDESCS
  <2>1. tx_desc_array[A % TXDESCS].dd
    BY <1>1 DEF e1000_transmit
  <2>2. SUFFICES ASSUME A = W + TXDESCS PROVE FALSE
    BY <1>1
  <2>3. W \in W..(A - 1)
    BY <1>1, <2>2
  <2>4. ~tx_desc_array[W % TXDESCS].dd
    BY <2>3 DEF SentInv
  <2>5. A % TXDESCS = W % TXDESCS
    <3> DEFINE w == W
    <3>1. w \in Nat /\ TXDESCS \in Nat /\ TXDESCS > 0 /\ A = w + TXDESCS
      BY <1>1, <2>2
    <3> HIDE DEF w
    <3>2. (w + TXDESCS) % TXDESCS = w % TXDESCS
      BY <3>1, Turn
    <3> QED  BY <3>1, <3>2 DEF w
  <2> QED  BY <2>1, <2>4, <2>5
<1>5. ASSUME NEW k \in W..A
      PROVE  /\ tx_desc_array'[k % TXDESCS].frame = k + 1
             /\ ~tx_desc_array'[k % TXDESCS].dd
  <2>1. k \in Nat /\ k % TXDESCS \in 0..TXDESCS - 1
    BY <1>1, Onward
  <2>2. CASE k = A
    BY <1>1, <1>3, <2>1, <2>2 DEF SentInv
  <2>3. CASE k < A
    <3>1. k % TXDESCS # A % TXDESCS
      <4>1. A < k + TXDESCS /\ TXDESCS > 0
        BY <1>1, <1>4, <2>1
      <4> QED  BY <1>1, <2>1, <2>3, <4>1, Places
    <3>2. tx_desc_array'[k % TXDESCS] = tx_desc_array[k % TXDESCS]
      BY <1>1, <1>3, <2>1, <3>1 DEF SentInv
    <3>3. k \in W..(A - 1)
      BY <1>1, <2>3
    <3>4. tx_desc_array[k % TXDESCS].frame = k + 1 /\ ~tx_desc_array[k % TXDESCS].dd
      BY <3>3 DEF SentInv
    <3> QED  BY <3>2, <3>4
  <2> QED  BY <1>1, <2>2, <2>3
<1>6. DOMAIN tx_desc_array' = 0..TXDESCS - 1
  BY <1>3 DEF SentInv
<1>7. (A + 1) - 1 = A /\ A + 1 > 0 /\ A + 1 <= W + TXDESCS /\ W <= A
  BY <1>1, <1>4
<1> QED  BY <1>1, <1>2, <1>3, <1>5, <1>6, <1>7 DEF SentInv

\* The tail moves on, over the frame that was put there.
LEMMA TailSent == SentInv /\ TransmitTail => SentInv'
<1> SUFFICES ASSUME SentInv, TransmitTail PROVE SentInv'
  OBVIOUS
<1> DEFINE A == Len(accepted)
<1>1. /\ A \in Nat /\ A > 0 /\ Len(onwire) \in Nat /\ TXDESCS \in Nat /\ TXDESCS > 0
      /\ Told = A - 1 /\ tdt = (A - 1) % TXDESCS
  BY E1000Assumption, LenProperties DEF SentInv, TransmitTail, Told
<1>2. ((A - 1) + 1) = A /\ A - 1 \in Nat
  BY <1>1
<1>3. tdt' = A % TXDESCS
  BY <1>1, <1>2, Onward DEF TransmitTail
<1>4. /\ call' # "transmit" /\ Told' = A
      /\ UNCHANGED <<tx_desc_array, tdh, accepted, onwire>>
  BY E1000Assumption DEF TransmitTail, Told
<1>5. Len(onwire) <= A
  BY <1>1 DEF SentInv
<1> QED  BY <1>3, <1>4, <1>5 DEF SentInv

\* The card sends the next frame: the ring is not empty, so there is one.
LEMMA CardSent == SentInv /\ CardSend => SentInv'
<1> SUFFICES ASSUME SentInv, CardSend PROVE SentInv'
  OBVIOUS
<1> DEFINE A == Len(accepted)
           W == Len(onwire)
<1>1. /\ A \in Nat /\ W \in Nat /\ TXDESCS \in Nat /\ TXDESCS > 1
      /\ Told \in Int /\ W <= Told /\ Told <= A /\ A <= W + TXDESCS
  BY E1000Assumption, LenProperties DEF SentInv, Told
<1>2. W < Told
  BY <1>1 DEF SentInv, CardSend
<1>3. W \in W..(A - 1) /\ W + 1 \in Nat
  BY <1>1, <1>2
<1>4. tx_desc_array[tdh].frame = W + 1
  BY <1>3 DEF SentInv
<1>5. /\ onwire' = First(W + 1) /\ onwire' \in Seq(Nat) /\ Len(onwire') = W + 1
  <2>1. onwire' = First(W + 1)
    BY <1>1, <1>4, FirstFacts DEF SentInv, CardSend
  <2> QED  BY <1>3, <2>1, FirstFacts
<1>6. tdh' = (W + 1) % TXDESCS
  <2>1. tdh = W % TXDESCS /\ tdh' = (tdh + 1) % TXDESCS
    BY DEF SentInv, CardSend
  <2> QED  BY <1>1, <2>1, Onward
<1>7. Told' = Told /\ UNCHANGED <<tdt, accepted, call>>
  BY DEF CardSend, Told
<1>8. DOMAIN tx_desc_array' = 0..TXDESCS - 1
  BY DEF SentInv, CardSend
<1>9. ASSUME NEW k \in (W + 1)..(A - 1)
      PROVE  /\ tx_desc_array'[k % TXDESCS].frame = k + 1
             /\ ~tx_desc_array'[k % TXDESCS].dd
  <2>1. k \in Nat /\ k % TXDESCS \in 0..TXDESCS - 1 /\ W < k /\ k < W + TXDESCS
    BY <1>1, Onward
  <2>2. W % TXDESCS # k % TXDESCS
    <3> DEFINE w == W
    <3>1. w \in Nat /\ TXDESCS \in Nat /\ TXDESCS > 0 /\ w < k /\ k < w + TXDESCS /\ k \in Nat
      BY <1>1, <2>1
    <3> HIDE DEF w
    <3>2. w % TXDESCS # k % TXDESCS
      BY <3>1, Places
    <3> QED  BY <3>2 DEF w
  <2>3. tx_desc_array'[k % TXDESCS] = tx_desc_array[k % TXDESCS]
    BY <2>1, <2>2 DEF SentInv, CardSend
  <2>4. k \in W..(A - 1)
    BY <1>1
  <2> QED  BY <2>3, <2>4 DEF SentInv
<1>10. W + 1 <= Told /\ A <= W + 1 + TXDESCS
  BY <1>1, <1>2
<1> QED  BY <1>1, <1>5, <1>6, <1>7, <1>8, <1>9, <1>10 DEF SentInv

\* No step upsets the order of the frames that are sent.
LEMMA SentNext == SentInv /\ [Next]_vars => SentInv'
<1> SUFFICES ASSUME SentInv, [Next]_vars PROVE SentInv'
  OBVIOUS
<1>1. CASE e1000_transmit
  BY <1>1, TransmitSent
<1>2. CASE TransmitTail
  BY <1>2, TailSent
<1>3. CASE CardSend
  BY <1>3, CardSent
<1>4. ASSUME UNCHANGED tx, call # "transmit", call' # "transmit"
      PROVE  SentInv'
  BY <1>4 DEF SentInv, Told, tx
<1>5. ASSUME UNCHANGED <<tx, call>> PROVE SentInv'
  BY <1>5 DEF SentInv, Told, tx
<1>6. CASE e1000_receive
  BY <1>4, <1>6, E1000Assumption DEF e1000_receive
<1>7. CASE ReceiveTail
  BY <1>4, <1>7, E1000Assumption DEF ReceiveTail
<1>8. CASE CardReceive
  BY <1>5, <1>8 DEF CardReceive
<1>9. CASE UNCHANGED vars
  BY <1>5, <1>9 DEF vars
<1> QED  BY <1>1, <1>2, <1>3, <1>6, <1>7, <1>8, <1>9 DEF Next

\* The frames on the wire are the first of those the driver took, in order.
THEOREM SentInOrder == Spec => []IsPrefix(onwire, accepted)
<1>1. SentInv => IsPrefix(onwire, accepted)
  <2> SUFFICES ASSUME SentInv PROVE IsPrefix(onwire, accepted)
    OBVIOUS
  <2>1. /\ Len(onwire) \in Nat /\ Len(accepted) \in Nat /\ Len(onwire) <= Len(accepted)
        /\ onwire = First(Len(onwire)) /\ accepted = First(Len(accepted))
    BY LenProperties DEF SentInv, Told
  <2> QED  BY <2>1, FirstIsPrefix
<1> QED  BY <1>1, SentInit, SentNext, PTL DEF Spec

-----------------------------------------------------------------------------
(* The ring that receives.                                                 *)

\* What the two registers and the driver's static variable stand for.
LEMMA ReceivedFacts ==
  ASSUME ReceivedInv
  PROVE  /\ Len(delivered) \in Nat /\ Len(arrived) \in Nat
         /\ RXDESCS \in Nat /\ RXDESCS > 1 /\ Passed \in Nat
         /\ Passed <= Len(delivered) /\ Len(delivered) <= Passed + 1
         /\ call = "receive" => Passed = Len(delivered) - 1
         /\ call # "receive" => Passed = Len(delivered)
  BY E1000Assumption, LenProperties DEF ReceivedInv, Passed

LEMMA ReceivedInit == Init => ReceivedInv /\ FirstTurnInv
<1> SUFFICES ASSUME Init PROVE ReceivedInv /\ FirstTurnInv
  OBVIOUS
<1>1. First(0) = <<>> /\ First(0) \in Seq(Nat) /\ Len(First(0)) = 0
  <2>1. First(0) \in Seq(Nat) /\ Len(First(0)) = 0
    BY FirstFacts
  <2>2. First(0) = <<>>
    BY <2>1, EmptySeq
  <2> QED  BY <2>1, <2>2
<1>2. arrived = First(0) /\ delivered = First(0) /\ call # "receive"
  BY <1>1, E1000Assumption DEF Init
<1>3. Len(arrived) = 0 /\ Len(delivered) = 0 /\ Passed = 0
  BY <1>1, <1>2 DEF Passed
<1>4. next = 0 % RXDESCS /\ rdh = 0 % RXDESCS /\ DOMAIN rx_desc_array = 0..RXDESCS - 1
  BY E1000Assumption, Onward DEF Init
<1>5. rdt = (RXDESCS - 1) % RXDESCS
  <2>1. rdt = RXDESCS - 1 /\ RXDESCS - 1 \in Nat /\ RXDESCS - 1 < RXDESCS /\ RXDESCS \in Nat /\ RXDESCS > 0
    BY E1000Assumption DEF Init
  <2> QED  BY <2>1, Onward
<1>6. \A i \in 0..RXDESCS - 1 : ~rx_desc_array[i].dd
  BY DEF Init
<1>7. RXDESCS \in Nat /\ RXDESCS > 1 /\ 0 + RXDESCS - 1 = RXDESCS - 1 /\ 0 <= 0 + RXDESCS - 1
  BY E1000Assumption
<1>8. ReceivedInv
  BY <1>1, <1>2, <1>3, <1>4, <1>5, <1>6, <1>7 DEF ReceivedInv
<1>9. FirstTurn
  BY <1>2, <1>3, <1>6, <1>7 DEF FirstTurn
<1> QED  BY <1>8, <1>9 DEF FirstTurnInv

\* The driver hands out what the next descriptor holds.  In the first turn it looks
\* done only if the next frame has come.
LEMMA ReceiveReceived ==
  ASSUME ReceivedInv, FirstTurnInv, e1000_receive
  PROVE  ReceivedInv' /\ FirstTurnInv'
<1> DEFINE D == Len(delivered)
           R == Len(arrived)
<1>1. /\ D \in Nat /\ R \in Nat /\ RXDESCS \in Nat /\ RXDESCS > 1
      /\ call # "receive" /\ Passed = D
  BY ReceivedFacts, E1000Assumption DEF e1000_receive
<1>2. /\ next = D % RXDESCS /\ next \in 0..RXDESCS - 1
      /\ rx_desc_array[next].dd
  <2>1. next = D % RXDESCS
    <3>1. next = Passed % RXDESCS
      BY DEF ReceivedInv
    <3> QED  BY <1>1, <3>1
  <2>2. D % RXDESCS \in 0..RXDESCS - 1
    <3> DEFINE d == D
    <3>1. d \in Nat /\ RXDESCS \in Nat /\ RXDESCS > 0
      BY <1>1
    <3> HIDE DEF d
    <3>2. d % RXDESCS \in 0..RXDESCS - 1
      BY <3>1, Onward
    <3> QED  BY <3>2 DEF d
  <2> QED  BY <2>1, <2>2 DEF e1000_receive
<1>3. PICK f : f = rx_desc_array[next].frame
  OBVIOUS
<1>4. f \in 1..R /\ (f - 1) % RXDESCS = D % RXDESCS /\ f \in Nat
  <2>1. \A i \in 0..RXDESCS - 1 : rx_desc_array[i].dd =>
           /\ rx_desc_array[i].frame \in 1..R
           /\ (rx_desc_array[i].frame - 1) % RXDESCS = i
    BY DEF ReceivedInv
  <2>2. f \in 1..R /\ (f - 1) % RXDESCS = next
    BY <1>2, <1>3, <2>1
  <2> QED  BY <1>1, <1>2, <2>2
<1>5. /\ delivered' = Append(delivered, f) /\ delivered' \in Seq(Nat)
      /\ Len(delivered') = D + 1 /\ delivered'[D + 1] = f
      /\ \A n \in 1..D : delivered'[n] = delivered[n]
  <2>1. delivered' = Append(delivered, f) /\ delivered \in Seq(Nat)
    BY <1>3 DEF e1000_receive, ReceivedInv
  <2> QED  BY <1>4, <2>1, AppendProperties
<1>6. /\ call' = "receive"
      /\ UNCHANGED <<rx_desc_array, rdh, rdt, next, arrived>>
  BY DEF e1000_receive
<1>7. Passed' = D /\ (D + 1) - 1 = D /\ D + 1 > 0
  BY <1>1, <1>5, <1>6 DEF Passed
<1>8. ASSUME NEW n \in 1..(D + 1)
      PROVE  /\ delivered'[n] \in 1..R
             /\ (delivered'[n] - 1) % RXDESCS = (n - 1) % RXDESCS
  <2>1. CASE n \in 1..D
    BY <1>5, <2>1 DEF ReceivedInv
  <2>2. CASE n = D + 1
    BY <1>4, <1>5, <1>7, <2>2
  <2> QED  BY <1>1, <2>1, <2>2
<1>9. ReceivedInv'
  BY <1>1, <1>5, <1>6, <1>7, <1>8 DEF ReceivedInv
<1>10. ASSUME D + 1 <= RXDESCS PROVE FirstTurn'
  <2>1. FirstTurn /\ D < RXDESCS
    BY <1>1, <1>10 DEF FirstTurnInv
  <2>2. next = D /\ D \in 0..RXDESCS - 1
    <3> DEFINE d == D
    <3>1. d \in Nat /\ d < RXDESCS /\ RXDESCS \in Nat /\ RXDESCS > 0 /\ next = d % RXDESCS
      BY <1>1, <1>2, <2>1
    <3> HIDE DEF d
    <3>2. next = d /\ d \in 0..RXDESCS - 1
      BY <3>1, Onward
    <3> QED  BY <3>2 DEF d
  <2>3. D < R /\ f = D + 1
    <3>1. \A i \in 0..RXDESCS - 1 : rx_desc_array[i].dd =>
             i < R /\ (i >= Passed => rx_desc_array[i].frame = i + 1)
      BY <2>1 DEF FirstTurn
    <3>2. next \in 0..RXDESCS - 1 /\ next >= Passed
      BY <1>1, <2>2
    <3> QED  BY <1>2, <1>3, <2>2, <3>1, <3>2
  <2>4. delivered' = First(D + 1)
    <3> DEFINE d == D
    <3>1. d \in Nat /\ f = d + 1 /\ delivered = First(d) /\ delivered' = Append(delivered, f)
      BY <1>1, <1>5, <2>1, <2>3 DEF FirstTurn
    <3> HIDE DEF d
    <3>2. delivered' = First(d + 1)
      BY <3>1, FirstFacts, ZenonT(20)
    <3> QED  BY <3>2 DEF d
  <2>5. D + 1 <= R /\ R <= D + RXDESCS - 1
    BY <1>1, <2>1, <2>3 DEF FirstTurn
  <2> QED  BY <1>1, <1>5, <1>6, <1>7, <2>1, <2>4, <2>5 DEF FirstTurn
<1> QED  BY <1>5, <1>9, <1>10 DEF FirstTurnInv

\* The driver moves on to the next descriptor.
LEMMA TailReceived ==
  ASSUME ReceivedInv, FirstTurnInv, ReceiveTail
  PROVE  ReceivedInv' /\ FirstTurnInv'
<1> DEFINE D == Len(delivered)
<1>1. /\ D \in Nat /\ D > 0 /\ RXDESCS \in Nat /\ RXDESCS > 1 /\ Passed = D - 1
      /\ Len(arrived) \in Nat /\ D - 1 \in Nat
  BY ReceivedFacts DEF ReceivedInv, ReceiveTail
<1>2. /\ call' # "receive" /\ Passed' = D
      /\ UNCHANGED <<rx_desc_array, rdh, arrived, delivered>>
  BY E1000Assumption DEF ReceiveTail, Passed
<1>3. next' = D % RXDESCS
  <2>1. next = (D - 1) % RXDESCS /\ next' = (next + 1) % RXDESCS
    BY <1>1 DEF ReceivedInv, ReceiveTail
  <2>2. (D - 1) + 1 = D
    BY <1>1
  <2> QED  BY <1>1, <2>1, <2>2, Onward
<1>4. rdt' = (D + RXDESCS - 1) % RXDESCS
  <2> DEFINE t == (D - 1) + RXDESCS - 1
  <2>1. rdt = t % RXDESCS /\ rdt' = (rdt + 1) % RXDESCS
    BY <1>1 DEF ReceivedInv, ReceiveTail
  <2>2. t \in Nat /\ t + 1 = D + RXDESCS - 1 /\ RXDESCS \in Nat /\ RXDESCS > 0
    BY <1>1
  <2> HIDE DEF t
  <2>3. ((t % RXDESCS) + 1) % RXDESCS = (t + 1) % RXDESCS
    BY ONLY <2>2, Onward
  <2> QED  BY <2>1, <2>2, <2>3
<1>5. ReceivedInv'
  BY <1>2, <1>3, <1>4 DEF ReceivedInv
<1>6. ASSUME FirstTurn PROVE FirstTurn'
  <2>1. Len(arrived) <= D + RXDESCS - 1
    BY <1>1, <1>6 DEF FirstTurn
  <2>2. \A i \in 0..RXDESCS - 1 : i >= D => i >= D - 1
    BY <1>1
  <2> QED  BY <1>1, <1>2, <1>6, <2>1, <2>2 DEF FirstTurn
<1> QED  BY <1>2, <1>5, <1>6 DEF FirstTurnInv

\* A frame comes into the descriptor at the head.  In the first turn that is one
\* that no other has been in, or one that the driver has passed.
LEMMA CardReceived ==
  ASSUME ReceivedInv, FirstTurnInv, CardReceive
  PROVE  ReceivedInv' /\ FirstTurnInv'
<1> DEFINE R == Len(arrived)
<1>1. /\ R \in Nat /\ Len(delivered) \in Nat /\ RXDESCS \in Nat /\ RXDESCS > 1
      /\ Passed \in Nat /\ Passed <= Len(delivered) /\ R + 1 \in Nat
  BY ReceivedFacts
<1>2. rdh = R % RXDESCS /\ rdh \in 0..RXDESCS - 1
  <2> DEFINE a == R
  <2>1. a \in Nat /\ RXDESCS \in Nat /\ RXDESCS > 0 /\ rdh = a % RXDESCS
    BY <1>1 DEF ReceivedInv
  <2> HIDE DEF a
  <2>2. rdh = a % RXDESCS /\ rdh \in 0..RXDESCS - 1
    BY <2>1, Onward
  <2> QED  BY <2>2 DEF a
<1>3. arrived' = First(R + 1) /\ arrived' \in Seq(Nat) /\ Len(arrived') = R + 1
  <2> DEFINE m == R
  <2>1. m \in Nat /\ arrived = First(m) /\ arrived' = Append(arrived, m + 1)
    BY <1>1 DEF ReceivedInv, CardReceive
  <2> HIDE DEF m
  <2>2. arrived' = First(m + 1)
    BY <2>1, FirstFacts, ZenonT(20)
  <2>3. m + 1 \in Nat
    BY <2>1
  <2>4. First(m + 1) \in Seq(Nat) /\ Len(First(m + 1)) = m + 1
    BY <2>3, FirstFacts
  <2> QED  BY <2>2, <2>4 DEF m
<1>4. /\ rx_desc_array' = [rx_desc_array EXCEPT ![rdh] = [dd |-> TRUE, frame |-> R + 1]]
      /\ UNCHANGED <<rdt, next, delivered, call>>
  BY DEF CardReceive
<1>5. rdh' = (R + 1) % RXDESCS
  <2>1. rdh = R % RXDESCS /\ rdh' = (rdh + 1) % RXDESCS
    BY DEF ReceivedInv, CardReceive
  <2> QED  BY <1>1, <2>1, Onward
<1>6. Passed' = Passed /\ DOMAIN rx_desc_array' = 0..RXDESCS - 1
  BY <1>4 DEF ReceivedInv, Passed
<1>7. ASSUME NEW i \in 0..RXDESCS - 1, rx_desc_array'[i].dd
      PROVE  /\ rx_desc_array'[i].frame \in 1..(R + 1)
             /\ (rx_desc_array'[i].frame - 1) % RXDESCS = i
  <2>1. CASE i = rdh
    <3>1. rx_desc_array'[i].frame = R + 1
      BY <1>2, <1>4, <2>1 DEF ReceivedInv
    <3>2. (R + 1) - 1 = R
      BY <1>1
    <3> QED  BY <1>1, <1>2, <2>1, <3>1, <3>2
  <2>2. CASE i # rdh
    <3>1. rx_desc_array'[i] = rx_desc_array[i]
      BY <1>2, <1>4, <2>2 DEF ReceivedInv
    <3>2. rx_desc_array[i].frame \in 1..R /\ (rx_desc_array[i].frame - 1) % RXDESCS = i
      BY <1>7, <3>1 DEF ReceivedInv
    <3> QED  BY <1>1, <3>1, <3>2
  <2> QED  BY <2>1, <2>2
<1>8. \A n \in 1..Len(delivered) : delivered[n] \in 1..(R + 1)
  BY <1>1 DEF ReceivedInv
<1>9. ReceivedInv'
  BY <1>3, <1>4, <1>5, <1>6, <1>7, <1>8 DEF ReceivedInv
<1>10. ASSUME Len(delivered) <= RXDESCS PROVE FirstTurn'
  <2>1. FirstTurn
    BY <1>10 DEF FirstTurnInv
  <2>2. R < Passed + RXDESCS - 1
    <3>1. R # Passed + RXDESCS - 1
      BY DEF ReceivedInv, CardReceive
    <3> QED  BY <1>1, <2>1, <3>1 DEF FirstTurn
  <2>3. ASSUME NEW i \in 0..RXDESCS - 1, rx_desc_array'[i].dd
        PROVE  i < R + 1 /\ (i >= Passed => rx_desc_array'[i].frame = i + 1)
    <3>1. CASE i # rdh
      <4>1. rx_desc_array'[i] = rx_desc_array[i]
        BY <1>2, <1>4, <3>1 DEF ReceivedInv
      <4> QED  BY <1>1, <2>1, <2>3, <4>1 DEF FirstTurn
    <3>2. CASE i = rdh
      <4>1. rx_desc_array'[i].frame = R + 1
        BY <1>2, <1>4, <3>2 DEF ReceivedInv
      <4> DEFINE a == R
      <4>2. /\ a \in Nat /\ RXDESCS \in Nat /\ RXDESCS > 0 /\ i = a % RXDESCS /\ i \in Nat
            /\ a < Passed + RXDESCS - 1 /\ Passed \in Nat /\ Passed <= RXDESCS
        BY <1>1, <1>2, <1>10, <2>2, <3>2
      <4> HIDE DEF a
      <4>3. CASE a < RXDESCS
        <5>1. i = a
          BY <4>2, <4>3, Onward
        <5> QED  BY <4>1, <4>2, <5>1 DEF a
      <4>4. CASE a >= RXDESCS
        <5>1. PICK b \in Nat : a = b + RXDESCS
          <6>1. a - RXDESCS \in Nat /\ a = (a - RXDESCS) + RXDESCS
            BY <4>2, <4>4
          <6> QED  BY <6>1
        <5>2. b < Passed - 1 /\ b < RXDESCS
          BY <4>2, <5>1
        <5>3. (b + RXDESCS) % RXDESCS = b % RXDESCS /\ b % RXDESCS = b
          BY <4>2, <5>1, <5>2, Turn, Onward
        <5>4. i = b
          BY <4>2, <5>1, <5>3
        <5>5. i < Passed /\ i < a + 1
          BY <4>2, <5>1, <5>2, <5>4
        <5> QED  BY <4>2, <5>5 DEF a
      <4> QED  BY <4>2, <4>3, <4>4
    <3> QED  BY <3>1, <3>2
  <2>4. Len(delivered) <= R + 1 /\ R + 1 <= Passed + RXDESCS - 1
    BY <1>1, <2>1, <2>2 DEF FirstTurn
  <2> QED  BY <1>3, <1>4, <1>6, <2>1, <2>3, <2>4 DEF FirstTurn
<1> QED  BY <1>4, <1>9, <1>10 DEF FirstTurnInv

\* No step upsets what is known of the frames that are received.
LEMMA ReceivedNext ==
  ASSUME ReceivedInv, FirstTurnInv, [Next]_vars
  PROVE  ReceivedInv' /\ FirstTurnInv'
<1>1. CASE e1000_receive
  BY <1>1, ReceiveReceived
<1>2. CASE ReceiveTail
  BY <1>2, TailReceived
<1>3. CASE CardReceive
  BY <1>3, CardReceived
<1>4. ASSUME UNCHANGED rx, call # "receive", call' # "receive"
      PROVE  ReceivedInv' /\ FirstTurnInv'
  BY <1>4 DEF ReceivedInv, FirstTurnInv, FirstTurn, Passed, rx
<1>5. ASSUME UNCHANGED <<rx, call>> PROVE ReceivedInv' /\ FirstTurnInv'
  BY <1>5 DEF ReceivedInv, FirstTurnInv, FirstTurn, Passed, rx
<1>6. CASE e1000_transmit
  BY <1>4, <1>6, E1000Assumption DEF e1000_transmit
<1>7. CASE TransmitTail
  BY <1>4, <1>7, E1000Assumption DEF TransmitTail
<1>8. CASE CardSend
  BY <1>5, <1>8 DEF CardSend
<1>9. CASE UNCHANGED vars
  BY <1>5, <1>9 DEF vars
<1> QED  BY <1>1, <1>2, <1>3, <1>6, <1>7, <1>8, <1>9 DEF Next

\* Frames are sent as they were taken in every turn of the ring.  In the first turn
\* of the other they are handed out as they came, and later at least each one
\* is a frame that came.
THEOREM FramesCorrect == Spec => []FramesInOrder
<1>1. ReceivedInv /\ FirstTurnInv =>
        /\ Len(delivered) <= RXDESCS => ReceivedInOrder
        /\ \A n \in 1..Len(delivered) :
              /\ delivered[n] \in 1..Len(arrived)
              /\ (delivered[n] - 1) % RXDESCS = (n - 1) % RXDESCS
  <2> SUFFICES ASSUME ReceivedInv, FirstTurnInv
               PROVE  Len(delivered) <= RXDESCS => ReceivedInOrder
    BY DEF ReceivedInv
  <2> SUFFICES ASSUME FirstTurn PROVE ReceivedInOrder
    BY DEF FirstTurnInv
  <2>1. /\ Len(delivered) \in Nat /\ Len(arrived) \in Nat /\ Len(delivered) <= Len(arrived)
        /\ delivered = First(Len(delivered)) /\ arrived = First(Len(arrived))
    BY LenProperties DEF ReceivedInv, FirstTurn
  <2> QED  BY <2>1, FirstIsPrefix DEF ReceivedInOrder
<1>2. ReceivedInv /\ FirstTurnInv /\ [Next]_vars => ReceivedInv' /\ FirstTurnInv'
  BY ReceivedNext
<1>3. ReceivedInv /\ FirstTurnInv /\ IsPrefix(onwire, accepted) => FramesInOrder
  BY <1>1 DEF FramesInOrder
<1>4. Spec => [](ReceivedInv /\ FirstTurnInv)
  BY <1>2, ReceivedInit, PTL DEF Spec
<1> QED  BY <1>3, <1>4, SentInOrder, PTL
=============================================================================
