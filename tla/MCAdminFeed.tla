---------------------------- MODULE MCAdminFeed ----------------------------
(***************************************************************************)
(* A bid of one tenant, a purchase of another that is put on the queue     *)
(* twice, and a body that is no event; a dashboard and the chart of the    *)
(* second tenant.  Besides, bodies with every one or two fields altered,   *)
(* and searches with every parameter varied.                               *)
(***************************************************************************)
EXTENDS AdminFeed, TLC

CONSTANTS page, chart, i1, i2

Example(type, shape) ==
    CASE shape = "uuid" -> <<"uuid", IF type = "AuctionPurchased" THEN "t2" ELSE "t1">>
      [] shape \in {"text", "text?"} -> <<"text", "someone">>
      [] shape = "date" -> <<"date", "later">>
      [] shape \in {"amount", "amount?", "price"} -> <<"number", 1>>
      [] shape = "status" -> <<"text", "Disabled">>

(* The message of the Bidding Service for an event of this type. *)
Published(type, id, aggregate, vsn) ==
    LET envelope ==
          [eventId |-> <<"uuid", id>>, eventType |-> <<"text", type>>,
           occurredAtUtc |-> <<"date", "now">>,
           aggregateType |-> <<"text", AggregateOf(type)>>,
           aggregateId |-> <<"uuid", aggregate>>, aggregateVersion |-> <<"number", vsn>>,
           correlationId |-> <<"null">>]
        payload ==
          [f \in DOMAIN PayloadContract[type] |->
             LET shape == PayloadContract[type][f] IN
             IF shape \in DOMAIN Linked THEN envelope[Linked[shape]] ELSE Example(type, shape)]
    IN <<"object", [payload |-> <<"object", payload>>] @@ envelope>>

MCBody ==
    [m \in Message |->
        CASE m = "bid" -> Published("BidAccepted", "bid", "a1", 1)
          [] m \in {"purchase", "again"} -> Published("AuctionPurchased", "buy", "a2", 2)
          [] m = "close" -> Published("AuctionClosed", "close", "a1", 2)
          [] m = "bad" -> Published("AuctionPurchased", "bad", "a1", 0)]

MCEnvelope ==
    [e \in EventId |->
        LET m == CHOOSE m \in Message : IsLiveFeedEnvelope(Body[m]) /\ IdOf(m) = e
            d == Digest(ValidateLiveFeedEnvelope(Body[m]))
        IN [d EXCEPT !.value = IF @ = <<>> THEN None ELSE @]]

MCValue == {<<<<"text", "someone">>, <<"number", 1>>>>}
MCScope == [w \in Watcher |-> IF w \in Page THEN None ELSE "t2"]

-----------------------------------------------------------------------------
InstanceSymmetry == Permutations(Instance)

Altered ==
    {<<"undefined">>, <<"null">>, <<"other">>, <<"blank">>, <<"infinite">>,
     <<"number", -1>>, <<"number", 0>>, <<"number", 2>>, <<"number", 3>>, <<"fraction", 0>>,
     <<"fraction", -1>>, <<"uuid", "a1">>, <<"uuid", "t2">>, <<"date", "now">>, <<"text", "Auction">>,
     <<"object", <<>>>>}

AlsoAltered ==
    {<<"null">>, <<"number", 3>>, <<"uuid", "t2">>, <<"text", "Auction">>}

(* One field of a body set to v; it is taken out if v is not defined.      *)
Set(object, f, v) ==
    <<"object", IF v = <<"undefined">> THEN Restrict(object[2], DOMAIN object[2] \ {f})
                ELSE [x \in {f} |-> v] @@ object[2]>>

Alter(m, place, v) ==
    IF place[1] = "envelope" THEN Set(m, place[2], v)
    ELSE Set(m, "payload", Set(Field(m, "payload"), place[2], v))

(* An amount may be there as well where the contract does not name one. *)
Places(type) ==
    {"envelope"} \X {"eventId", "eventType", "occurredAtUtc", "aggregateType", "aggregateId",
                     "aggregateVersion", "correlationId"}
    \union {"payload"} \X (DOMAIN PayloadContract[type] \union {"amount"})

Alterations ==
    UNION {{<<Published(type, "e", "a1", 2), p, q>> : p, q \in Places(type)} : type \in AuctionTypes}

AlteredBodies ==
    {Alter(Alter(x[1], x[2], v), x[3], w) : x \in Alterations, v \in Altered, w \in AlsoAltered}

(* A close of an auction without bids *)
WithoutBids(p) == Alter(Published("AuctionClosed", "e", "a1", 2), <<"payload", p>>, <<"null">>)

MCBodies == Range(MCBody) \union AlteredBodies

(* Every message that the Bidding Service publishes is accepted. *)
ASSUME PublishedAssumption ==
    /\ \A type \in IntegrationEventType : IsLiveFeedEnvelope(Published(type, "e", "a1", 2))
    /\ \A p \in {"finalBidAmount", "finalBidderId"} : IsLiveFeedEnvelope(WithoutBids(p))

-----------------------------------------------------------------------------
MCSearches ==
    LET times == {<<"undefined">>, <<"empty">>, <<"blank">>} \union {<<"time", t>> : t \in 0 .. 6}
        limits == {<<"undefined">>, <<"text", "x">>} \union {<<"digits", n>> : n \in 0 .. 5}
        texts == {<<"undefined">>, <<"blank">>, <<"long", "x">>, <<"other">>, <<"text", "a1">>,
                  <<"uuid", "t1">>, <<"text", "stale">>}
        plain == [c \in Criteria |-> <<"empty">>]
        Search(from, to, limit, criteria) == [from |-> from, to |-> to, limit |-> limit] @@ criteria
    IN {Search(f, t, l, plain) : f, t \in times, l \in limits}
       \union {Search(<<"time", 2>>, <<"undefined">>, <<"digits", 3>>,
                      [plain EXCEPT ![c] = v, ![d] = w]) :
                  c, d \in Criteria, v, w \in texts}

Row(n, at, auction, tenant, outcome) ==
    [id |-> n, processedAt |-> at, auctionId |-> <<"text", auction>>, tenantId |-> <<"uuid", tenant>>,
     eventType |-> <<"text", "BidAccepted">>, outcome |-> <<"text", outcome>>]

MCTable == {Row(1, 1, "a1", "t1", "applied"), Row(2, 3, "a1", "t1", "stale"),
            Row(3, 3, "a2", "t2", "applied"), Row(4, 2, "a1", "t1", "ignored"),
            Row(5, 4, "a1", "t2", "applied"), Row(6, 6, "a2", "t1", "applied")}

=============================================================================
