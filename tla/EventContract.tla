--------------------------- MODULE EventContract ---------------------------
(***************************************************************************)
(* Which message bodies are events, what of an event is kept, and how it   *)
(* is told to the sockets and to Redis (src/domain/events.ts).             *)
(*                                                                         *)
(* A JSON value is a tuple whose first component says what it is:          *)
(* <<"object", fields>>, <<"null">>, <<"other">> (an array, a boolean),    *)
(* <<"number", n>>, <<"fraction", n>> for n + 1/2, <<"infinite">> (1e999), *)
(* or a string: <<"uuid", id>>, <<"date", s>>, <<"text", s>>, <<"blank">>. *)
(* <<"undefined">> is the value of a field that is not there.              *)
(***************************************************************************)
EXTENDS Integers, Functions

CONSTANTS
    Bodies          \* bodies that a message may have

IsRecord(v) == v[1] = "object"
Field(v, f) == IF f \in DOMAIN v[2] THEN v[2][f] ELSE <<"undefined">>

IsUuid(v) == v[1] = "uuid"
IsIsoDate(v) == v[1] = "date"
IsString(v) == v[1] \in {"uuid", "date", "text", "blank"}
IsText(v) == IsString(v) /\ v[1] # "blank"
IsPositiveInteger(v) == v[1] = "number" /\ v[2] > 0

(* A mistake: any finite number is an amount. *)
IsNumber(v) == v[1] \in {"number", "fraction"}

IsValidAmount(v) == v[1] \in {"number", "fraction"} /\ v[2] >= 0

(* What each payload must hold; "?" marks a field that may be null.        *)
BidAcceptedPayload ==
    [bidId |-> "uuid", tenantId |-> "uuid", auctionId |-> "aggregate",
     bidderId |-> "text", amount |-> "amount", auctionVersion |-> "version"]

AuctionClosedPayload ==
    [tenantId |-> "uuid", auctionId |-> "aggregate", closedAtUtc |-> "date",
     finalBidAmount |-> "amount?", finalBidderId |-> "text?", auctionVersion |-> "version"]

WinnerSelectedPayload ==
    [tenantId |-> "uuid", auctionId |-> "aggregate", winningBidId |-> "uuid",
     winnerId |-> "text", amount |-> "amount", selectedAtUtc |-> "date",
     auctionVersion |-> "version"]

AuctionPurchasedPayload ==
    [tenantId |-> "uuid", auctionId |-> "aggregate", bidderId |-> "text",
     finalPrice |-> "price", purchasedAtUtc |-> "date", auctionVersion |-> "version"]

AuctionCancelledPayload == [tenantId |-> "uuid", auctionId |-> "aggregate"]

TenantStatusChangedPayload ==
    [eventId |-> "event", tenantId |-> "aggregate", previousStatus |-> "status",
     currentStatus |-> "status", tenantVersion |-> "version", occurredAtUtc |-> "occurrence"]

PayloadContract ==
    [BidAccepted |-> BidAcceptedPayload, AuctionClosed |-> AuctionClosedPayload,
     WinnerSelected |-> WinnerSelectedPayload, AuctionPurchased |-> AuctionPurchasedPayload,
     AuctionCancelled |-> AuctionCancelledPayload,
     TenantStatusChanged |-> TenantStatusChangedPayload]

IntegrationEventType == DOMAIN PayloadContract

(* Fields that must equal a field of the envelope, which is itself valid.  *)
Linked == [aggregate |-> "aggregateId", version |-> "aggregateVersion",
           event |-> "eventId", occurrence |-> "occurredAtUtc"]

Statuses == {<<"text", s>> : s \in {"Active", "Suspended", "Disabled"}}

(* Does payload field v of envelope m have this shape? *)
Conforms(v, shape, m) ==
    CASE shape \in DOMAIN Linked -> v = Field(m, Linked[shape])
      [] shape = "uuid"    -> IsUuid(v)
      [] shape = "text"    -> IsText(v)
      [] shape = "text?"   -> v = <<"null">> \/ IsText(v)
      [] shape = "date"    -> IsIsoDate(v)
      [] shape = "amount"  -> IsValidAmount(v)
      [] shape = "amount?" -> v = <<"null">> \/ IsValidAmount(v)
      [] shape = "price"   -> IsValidAmount(v) /\ v # <<"number", 0>>
      [] shape = "status"  -> v \in Statuses

ValidBaseEnvelope(m) ==
    /\ IsRecord(m)
    /\ IsUuid(Field(m, "eventId"))
    /\ IsText(Field(m, "eventType"))
    /\ IsIsoDate(Field(m, "occurredAtUtc"))
    /\ Field(m, "aggregateType") \in {<<"text", "Auction">>, <<"text", "Tenant">>}
    /\ IsUuid(Field(m, "aggregateId"))
    /\ IsPositiveInteger(Field(m, "aggregateVersion"))
    /\ IsString(Field(m, "correlationId")) \/ Field(m, "correlationId") = <<"null">>

AggregateOf(type) == IF type = "TenantStatusChanged" THEN "Tenant" ELSE "Auction"

AuctionTypes == {type \in IntegrationEventType : AggregateOf(type) = "Auction"}

(* The body is accepted; if not, the message goes to the dead letters. *)
IsLiveFeedEnvelope(m) ==
    /\ ValidBaseEnvelope(m)
    /\ IsRecord(Field(m, "payload"))
    /\ \E type \in IntegrationEventType :
         /\ Field(m, "eventType") = <<"text", type>>
         /\ Field(m, "aggregateType") = <<"text", AggregateOf(type)>>
         /\ \A f \in DOMAIN PayloadContract[type] :
              Conforms(Field(Field(m, "payload"), f), PayloadContract[type][f], m)

(* The validated envelope: nothing that the contract does not name is kept. *)
ValidateLiveFeedEnvelope(m) ==
    LET type == Field(m, "eventType")[2] IN
    [eventId |-> Field(m, "eventId"), eventType |-> type,
     occurredAtUtc |-> Field(m, "occurredAtUtc"), aggregateType |-> AggregateOf(type),
     aggregateId |-> Field(m, "aggregateId"), aggregateVersion |-> Field(m, "aggregateVersion"),
     correlationId |-> Field(m, "correlationId"),
     payload |-> Restrict(Field(m, "payload")[2], DOMAIN PayloadContract[type])]

-----------------------------------------------------------------------------
(* The fields of a payload and some more *)
Extended(payload, more) ==
    [f \in DOMAIN payload \union DOMAIN more |-> IF f \in DOMAIN more THEN more[f] ELSE payload[f]]

(* What the room of the auction is told besides the payload *)
Besides(envelope) ==
    CASE envelope.eventType = "AuctionClosed" -> [correlationId |-> envelope.correlationId]
      [] envelope.eventType = "AuctionCancelled" ->
           [correlationId |-> envelope.correlationId, occurredAtUtc |-> envelope.occurredAtUtc,
            status |-> <<"text", "Cancelled">>, auctionVersion |-> envelope.aggregateVersion]
      [] OTHER ->
           [correlationId |-> envelope.correlationId, occurredAtUtc |-> envelope.occurredAtUtc]

ToSocketPayload(envelope) == Extended(envelope.payload, Besides(envelope))

(* What the accept script is given: "" is no value.                        *)
Text(v) == IF v = <<"null">> THEN <<"">> ELSE v

ProjectionArguments(envelope) ==
    LET p == envelope.payload  type == envelope.eventType  none == <<"">>
        Arguments(bidder, amount, winner, price, purchasedAt) ==
          [currentBidderId |-> bidder, currentBidAmount |-> amount,
           finalWinnerId |-> winner, finalPrice |-> price, purchasedAtUtc |-> purchasedAt]
    IN CASE type = "BidAccepted" -> Arguments(p.bidderId, p.amount, none, none, none)
         [] type = "AuctionClosed" ->
              Arguments(none, none, Text(p.finalBidderId), Text(p.finalBidAmount), none)
         [] type = "WinnerSelected" -> Arguments(none, none, p.winnerId, p.amount, none)
         [] type = "AuctionCancelled" -> Arguments(none, none, none, none, none)
         [] type = "AuctionPurchased" ->
              Arguments(none, none, p.bidderId, p.finalPrice, p.purchasedAtUtc)

-----------------------------------------------------------------------------
(* JSON, as JSON.parse returns it *)
IsValue(v) ==
    /\ v[1] \in {"object", "null", "other", "number", "fraction", "infinite",
                 "uuid", "date", "text", "blank", "undefined"}
    /\ v = IF v[1] \in {"null", "other", "infinite", "blank", "undefined"} THEN <<v[1]>> ELSE <<v[1], v[2]>>
    /\ v[1] \in {"number", "fraction"} => v[2] \in Int

IsBody(m) ==
    /\ IsValue(m)
    /\ IsRecord(m) =>
         /\ \A f \in DOMAIN m[2] : IsValue(m[2][f])
         /\ "payload" \in DOMAIN m[2] /\ IsRecord(m[2].payload) =>
              \A f \in DOMAIN m[2].payload[2] : IsValue(m[2].payload[2][f])

ASSUME BodiesAssumption == \A m \in Bodies : IsBody(m)

-----------------------------------------------------------------------------
(* What the state in Redis relies on *)

(* The envelope as LiveFeedState knows it.  The script writes a winner only *)
(* with a price, so that an event without one has no value.                *)
Digest(envelope) ==
    LET arguments == ProjectionArguments(envelope)
        Pair(who, amount) == IF amount = <<"">> THEN <<>> ELSE <<who, amount>> IN
    [type |-> envelope.eventType,
     tenant |-> envelope.payload.tenantId[2],
     auction |-> envelope.aggregateId[2],
     version |-> envelope.aggregateVersion[2],
     value |-> IF envelope.eventType = "BidAccepted"
                 THEN Pair(arguments.currentBidderId, arguments.currentBidAmount)
                 ELSE Pair(arguments.finalWinnerId, arguments.finalPrice)]

(* An accepted auction event has everything that the script, the room and  *)
(* the projection need, under one auction and one version everywhere.      *)
IsSound(m) ==
    LET envelope == ValidateLiveFeedEnvelope(m)
        told == ToSocketPayload(envelope)
        stored == ProjectionArguments(envelope)
        digest == Digest(envelope)
        Amounts == {"amount", "finalBidAmount", "finalPrice"}
    IN
    /\ digest.version \in Nat \ {0}
    /\ digest.value = <<>> => digest.type \in {"AuctionClosed", "AuctionCancelled"}
    /\ told.auctionId = <<"uuid", digest.auction>> /\ told.tenantId = <<"uuid", digest.tenant>>
    /\ told.auctionVersion = <<"number", digest.version>>
    /\ \A f \in DOMAIN told : told[f][1] \notin {"undefined", "other", "infinite", "object"}
    /\ \A f \in DOMAIN told \intersect Amounts :
         \/ told[f] = <<"null">> /\ stored.finalPrice = <<"">>
         \/ told[f][2] >= 0 /\ told[f] \in {stored.currentBidAmount, stored.finalPrice}
    /\ digest.value # <<>> =>
         \E f \in {"bidderId", "winnerId", "finalBidderId"} \intersect DOMAIN told :
            Text(told[f]) = digest.value[1]

BodiesAreSound ==
    \A m \in Bodies :
        IsLiveFeedEnvelope(m) /\ Field(m, "eventType")[2] \in AuctionTypes => IsSound(m)
=============================================================================
