--------------------------- MODULE LiveFeedState ---------------------------
(***************************************************************************)
(* The auction state the live feed keeps in Redis, shared by every         *)
(* instance of the service (src/infrastructure/cache/redis-state.ts).      *)
(*                                                                         *)
(* Each event costs one run of the accept script.  Redis runs a script     *)
(* without interleaving, so AcceptEvent is one atomic step.                *)
(***************************************************************************)
EXTENDS Naturals

CONSTANTS
    Tenant,         \* tenant ids
    Auction,        \* auction ids
    EventId,        \* ids of the auction events the Bidding Service publishes
    Value,          \* a bid (bidder and amount) or an outcome (winner and price)
    None,           \* an absent value, key or hash field
    Envelope,       \* the validated envelope published under each event id
    CanExpire       \* may a processed-event key reach its TTL?

EventType == {"BidAccepted", "AuctionClosed", "WinnerSelected",
              "AuctionPurchased", "AuctionCancelled"}

(* What validateLiveFeedEnvelope lets through: versions are positive, and  *)
(* only a close (no bids) or a cancellation may carry no value.            *)
ValidEnvelope ==
    {env \in [type : EventType, tenant : Tenant, auction : Auction,
              version : Nat \ {0}, value : Value \union {None}] :
        env.value = None => env.type \in {"AuctionClosed", "AuctionCancelled"}}

ASSUME EnvelopeAssumption == Envelope \in [EventId -> ValidEnvelope]
ASSUME NoneAssumption == None \notin Tenant \union Value \union EventId
ASSUME CanExpireAssumption == CanExpire \in BOOLEAN

VARIABLES
    processed,      \* event ids whose processed-event key exists
    version,        \* (tenant, auction) -> highest accepted version, 0 if absent
    projection,     \* (tenant, auction) -> the projection hash
    auctionTenant   \* auction -> the tenant mapping key

redisVars == <<processed, version, projection, auctionTenant>>

Key == Tenant \X Auction
KeyOf(e) == <<Envelope[e].tenant, Envelope[e].auction>>
VersionOf(e) == Envelope[e].version

(* The fields of the hash; aggregateVersion 0 stands for a missing hash    *)
(* and purchased for the presence of purchasedAtUtc.                       *)
Projection ==
    [aggregateVersion : Nat,
     status           : {"none", "Closed", "Cancelled"},
     currentBid       : Value \union {None},
     final            : Value \union {None},
     purchased        : BOOLEAN]

EmptyProjection ==
    [aggregateVersion |-> 0, status |-> "none", currentBid |-> None,
     final |-> None, purchased |-> FALSE]

StateTypeOK ==
    /\ processed \subseteq EventId
    /\ version \in [Key -> Nat]
    /\ projection \in [Key -> Projection]
    /\ auctionTenant \in [Auction -> Tenant \union {None}]

StateInit ==
    /\ processed = {}
    /\ version = [k \in Key |-> 0]
    /\ projection = [k \in Key |-> EmptyProjection]
    /\ auctionTenant = [a \in Auction |-> None]

-----------------------------------------------------------------------------
(* The accept script                                                       *)

AcceptanceStatus == {"duplicate", "stale", "same-version", "gap", "accepted"}

(* Mistakes the properties must notice: no deduplication, a late event let *)
(* through, a sibling at the current version taken for a stale event.      *)
AcceptanceWithoutDedup(e) ==
    LET current == version[KeyOf(e)] IN
    CASE VersionOf(e) < current -> "stale"
      [] VersionOf(e) = current -> "same-version"
      [] OTHER -> "accepted"

AcceptanceWithoutStale(e) ==
    IF e \in processed THEN "duplicate" ELSE "accepted"

AcceptanceWithoutSiblings(e) ==
    CASE e \in processed -> "duplicate"
      [] e \notin processed /\ VersionOf(e) <= version[KeyOf(e)] -> "stale"
      [] OTHER -> "accepted"

(* The first element of the script's reply. *)
Acceptance(e) ==
    LET current == version[KeyOf(e)] IN
    IF e \in processed THEN "duplicate"
    ELSE IF VersionOf(e) < current THEN "stale"
    ELSE IF VersionOf(e) = current THEN "same-version"
    ELSE IF current # 0 /\ VersionOf(e) > current + 1 THEN "gap"
    ELSE "accepted"

(* The replies after which the processor broadcasts the event. *)
Applied == {"same-version", "gap", "accepted"}

(* A mistake: the outcome is overwritten although a purchase is recorded. *)
SetsOutcomeAlways(p, env) ==
    \/ env.type \in {"WinnerSelected", "AuctionPurchased"}
    \/ env.type = "AuctionClosed" /\ env.value # None

(* Once a purchase is recorded, no later event touches the outcome.        *)
SetsOutcome(p, env) ==
    /\ ~p.purchased
    /\ \/ env.type \in {"WinnerSelected", "AuctionPurchased"}
       \/ env.type = "AuctionClosed" /\ env.value # None

NewStatus(p, env) ==
    IF env.type = "AuctionCancelled" THEN "Cancelled"
    ELSE IF \/ env.type = "AuctionClosed"
            \/ env.type \in {"WinnerSelected", "AuctionPurchased"} /\ ~p.purchased
      THEN "Closed"
    ELSE p.status

(* A mistake: an event of a later writer leaves the purchase out. *)
ProjectedWithoutPurchase(p, env) ==
    [aggregateVersion |-> env.version,
     status     |-> NewStatus(p, env),
     currentBid |-> IF env.type = "BidAccepted" THEN env.value ELSE p.currentBid,
     final      |-> IF SetsOutcome(p, env) THEN env.value ELSE p.final,
     purchased  |-> env.type = "AuctionPurchased"]

(* The HSETs of the script, the same ones in both of its write branches. *)
Projected(p, env) ==
    [aggregateVersion |-> env.version,
     status     |-> NewStatus(p, env),
     currentBid |-> IF env.type = "BidAccepted" THEN env.value ELSE p.currentBid,
     final      |-> IF SetsOutcome(p, env) THEN env.value ELSE p.final,
     purchased  |-> p.purchased \/ env.type = "AuctionPurchased"]

(* Every event seen for the first time is remembered, a stale one too. *)
Remember(e) ==
    /\ processed' = processed \union {e}
    /\ auctionTenant' = [auctionTenant EXCEPT ![Envelope[e].auction] = Envelope[e].tenant]

AcceptEvent(e) ==
    \/ /\ Acceptance(e) = "duplicate"
       /\ UNCHANGED redisVars
    \/ /\ Acceptance(e) = "stale"
       /\ Remember(e)
       /\ UNCHANGED <<version, projection>>
    \/ /\ Acceptance(e) \in Applied
       /\ Remember(e)
       /\ version' = [version EXCEPT ![KeyOf(e)] = VersionOf(e)]
       /\ projection' = [projection EXCEPT ![KeyOf(e)] = Projected(@, Envelope[e])]

(* The processed-event key of e reaches its time to live. *)
Expire(e) ==
    /\ CanExpire
    /\ e \in processed
    /\ processed' = processed \ {e}
    /\ UNCHANGED <<version, projection, auctionTenant>>

=============================================================================
