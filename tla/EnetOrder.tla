----------------------------- MODULE EnetOrder -----------------------------
(***************************************************************************)
(* What a channel of an ENet connection promises its user (enet.h): packets*)
(* arrive in the order they were sent, each at most once; no sequenced     *)
(* packet arrives before a reliable one sent earlier; an unsequenced one   *)
(* may arrive at any time, once.                                           *)
(***************************************************************************)
EXTENDS Naturals, Sequences

VARIABLES sent,   \* how each packet is carried, in the order sent
          last,   \* the last sequenced packet that arrived
          loose   \* the unsequenced packets that arrived

OrderInit == sent = <<>> /\ last = 0 /\ loose = {}

SendPacket(kind) == sent' = Append(sent, kind) /\ UNCHANGED <<last, loose>>

Arrive(i) ==
  /\ i > last /\ sent[i] # "unsequenced"
  /\ \A j \in last + 1 .. i - 1 : sent[j] # "reliable"
  /\ last' = i /\ UNCHANGED <<sent, loose>>

ArriveLoose(i) ==
  /\ sent[i] = "unsequenced" /\ i \notin loose
  /\ loose' = loose \cup {i} /\ UNCHANGED <<sent, last>>

OrderNext ==
  \/ \E kind \in {"reliable", "unreliable", "unsequenced"} : SendPacket(kind)
  \/ \E i \in 1 .. Len(sent) : Arrive(i) \/ ArriveLoose(i)

OrderSpec == OrderInit /\ [][OrderNext]_<<sent, last, loose>>
=============================================================================
