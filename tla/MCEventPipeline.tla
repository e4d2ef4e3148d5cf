-------------------------- MODULE MCEventPipeline --------------------------
(***************************************************************************)
(* Instances of EventPipeline for TLC: one auction whose last command is a *)
(* bid that reaches the Buy Now threshold, so that a bid, a purchase and a *)
(* close share version 3; the event of version 2 never arrives.            *)
(***************************************************************************)
EXTENDS EventPipeline, TLC

CONSTANTS t1, a1, i1, i2, first, threshold, buy, close, m1, m2, m3, m4, m5, m6, v1, v2

Event(type, vsn, value) ==
    [type |-> type, tenant |-> t1, auction |-> a1, version |-> vsn, value |-> value]

MCEnvelope ==
    [e \in EventId |->
        CASE e = first     -> Event("BidAccepted", 1, v1)
          [] e = threshold -> Event("BidAccepted", 3, v2)
          [] e = buy       -> Event("AuctionPurchased", 3, v2)
          [] e = close     -> Event("AuctionClosed", 3, v1)]

(* The purchase is published twice, and one message does not parse. *)
MCEventOf ==
    [m \in Message |->
        CASE m = m1 -> first
          [] m = m2 -> buy
          [] m = m3 -> buy
          [] m = m4 -> close
          [] m = m5 -> threshold
          [] OTHER -> None]

(* What the convergence of the state is proved under holds of these events. *)
ASSUME CoherentAssumption == CoherentEnvelopes

InstanceSymmetry == Permutations(Instance)

=============================================================================
