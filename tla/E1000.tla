------------------------------- MODULE E1000 -------------------------------
(***************************************************************************)
(* kern/e1000.c: the two rings of descriptors that the driver and the      *)
(* network card share.  The card takes frames to send, and puts frames     *)
(* that come, at the head of a ring; the driver works at the tail.  A      *)
(* descriptor's DD bit tells the driver that the card is done with it.     *)
(* The kernel lock makes one call of the driver exclude the next; the card *)
(* runs beside it, so the last step of a call, the write to the tail       *)
(* register that hands the descriptor over, is a step of its own.          *)
(*                                                                         *)
(* The actions of the card are external, from its manual as far as the     *)
(* driver relies on it.                                                    *)
(***************************************************************************)
EXTENDS Integers, SequencesExt

CONSTANTS
    TXDESCS, RXDESCS,
    MaxSent, MaxReceived,       \* bounds: calls of the driver that succeed
    None

ASSUME E1000Assumption ==
    /\ TXDESCS \in Nat \ {0, 1} /\ RXDESCS \in Nat \ {0, 1}
    /\ MaxSent \in Nat /\ MaxReceived \in Nat
    /\ None \notin {"transmit", "receive"}

VARIABLES
    tx_desc_array, tdh, tdt,            \* of each descriptor [dd, frame]
    rx_desc_array, rdh, rdt, next,
    call,                               \* the call of the driver under way
    accepted, onwire,                   \* history: the frames taken from
    arrived, delivered                  \* programs and sent, stored and handed out

tx   == <<tx_desc_array, tdh, tdt, accepted, onwire>>
rx   == <<rx_desc_array, rdh, rdt, next, arrived, delivered>>
vars == <<tx, rx, call>>

\* The driver clears no status when it sets up the receive ring.
Init ==
    /\ tx_desc_array = [i \in 0..TXDESCS - 1 |-> [dd |-> TRUE, frame |-> None]]
    /\ tdh = 0 /\ tdt = 0
    /\ rx_desc_array = [i \in 0..RXDESCS - 1 |-> [dd |-> FALSE, frame |-> None]]
    /\ rdh = 0 /\ rdt = RXDESCS - 1 /\ next = 0
    /\ call = None
    /\ accepted = <<>> /\ onwire = <<>> /\ arrived = <<>> /\ delivered = <<>>

-----------------------------------------------------------------------------
(* The driver. *)

\* Mutant: the card is told before the frame is there.
e1000_transmit_early ==
    /\ call = None /\ tx_desc_array[tdt].dd
    /\ Len(accepted) < MaxSent
    /\ tdt' = (tdt + 1) % TXDESCS
    /\ accepted' = Append(accepted, Len(accepted) + 1)
    /\ call' = "transmit"
    /\ UNCHANGED <<tx_desc_array, tdh, onwire, rx>>

\* A full ring is told from the DD bit of the descriptor at the tail, and the
\* caller tries again.
e1000_transmit ==
    /\ call = None /\ tx_desc_array[tdt].dd
    /\ Len(accepted) < MaxSent
    /\ \E f \in {Len(accepted) + 1} :
         /\ tx_desc_array' = [tx_desc_array EXCEPT ![tdt] = [dd |-> FALSE, frame |-> f]]
         /\ accepted' = Append(accepted, f)
    /\ call' = "transmit"
    /\ UNCHANGED <<tdh, tdt, onwire, rx>>

\* Mutant: the tail register is moved on from a tail that has moved.
TransmitTailTwice ==
    /\ call = "transmit"
    /\ tdt' = (tdt + 2) % TXDESCS
    /\ call' = None
    /\ UNCHANGED <<tx_desc_array, tdh, accepted, onwire, rx>>

TransmitTail ==
    /\ call = "transmit"
    /\ tdt' = (tdt + 1) % TXDESCS
    /\ call' = None
    /\ UNCHANGED <<tx_desc_array, tdh, accepted, onwire, rx>>

\* An empty ring is told from the DD bit of the next descriptor.
e1000_receive ==
    /\ call = None /\ rx_desc_array[next].dd
    /\ Len(delivered) < MaxReceived
    /\ delivered' = Append(delivered, rx_desc_array[next].frame)
    /\ call' = "receive"
    /\ UNCHANGED <<tx, rx_desc_array, rdh, rdt, next, arrived>>

ReceiveTail ==
    /\ call = "receive"
    /\ rdt' = (rdt + 1) % RXDESCS
    /\ next' = (next + 1) % RXDESCS
    /\ call' = None
    /\ UNCHANGED <<tx, rx_desc_array, rdh, arrived, delivered>>

-----------------------------------------------------------------------------
(* The card.  A ring whose head has met its tail is empty for it.  Frames  *)
(* that come when no descriptor is free are lost.                          *)

CardSend ==
    /\ tdh # tdt
    /\ onwire' = Append(onwire, tx_desc_array[tdh].frame)
    /\ tx_desc_array' = [tx_desc_array EXCEPT ![tdh].dd = TRUE]
    /\ tdh' = (tdh + 1) % TXDESCS
    /\ UNCHANGED <<tdt, accepted, rx, call>>

CardReceive ==
    /\ rdh # rdt /\ Len(arrived) < MaxReceived
    /\ \E f \in {Len(arrived) + 1} :
         /\ rx_desc_array' = [rx_desc_array EXCEPT ![rdh] = [dd |-> TRUE, frame |-> f]]
         /\ arrived' = Append(arrived, f)
    /\ rdh' = (rdh + 1) % RXDESCS
    /\ UNCHANGED <<tx, rdt, next, delivered, call>>

Next == \/ e1000_transmit \/ TransmitTail
        \/ e1000_receive \/ ReceiveTail
        \/ CardSend \/ CardReceive

Spec == Init /\ [][Next]_vars /\ WF_vars(CardSend) /\ WF_vars(TransmitTail \/ ReceiveTail)

-----------------------------------------------------------------------------
(* Properties. *)

\* A frame the driver hands out is the next one that came, each once and whole
\* ("simply tell client to retry" when there is none, kern/e1000.c).
ReceivedInOrder == IsPrefix(delivered, arrived)

\* What goes over the wire is in order, each frame once and whole, while the
\* driver fills a descriptor, even the last free one, and the card works on others
\* (e1000_transmit).  What the driver hands out is in order for one turn of the
\* receive ring, however many frames come meanwhile; from then on it may be a frame
\* again that was handed out a turn ago, but never one that did not come to this
\* place of the ring (e1000_receive).
FramesInOrder ==
    /\ IsPrefix(onwire, accepted)
    /\ Len(delivered) <= RXDESCS => ReceivedInOrder
    /\ \A n \in 1..Len(delivered) :
          /\ delivered[n] \in 1..Len(arrived)
          /\ (delivered[n] - 1) % RXDESCS = (n - 1) % RXDESCS

\* The driver has filled every descriptor: the tail has met the head, and the card
\* takes the full ring for an empty one.
Jammed == call = None /\ tdh = tdt /\ Len(accepted) - Len(onwire) = TXDESCS

\* A frame the driver has accepted goes over the wire, or the ring is full: no
\* other order of the driver's and the card's steps stops the two
\* (e1000_transmit, which keeps no descriptor free).
FramesAreSent == \A n \in 1..MaxSent : Len(accepted) >= n ~> Len(onwire) >= n \/ Jammed
=============================================================================
