---------------------------- MODULE AuctionFeed ----------------------------
(***************************************************************************)
(* What the live feed promises the clients of one instance: it announces   *)
(* published events, none of them twice over all instances, and never an   *)
(* older version of an auction after a newer one.  It does not promise to  *)
(* announce every event.  Broker, Redis and failures are not visible here. *)
(***************************************************************************)
EXTENDS Naturals, Sequences

CONSTANTS
    Instance,       \* instances of the service
    EventId,        \* ids of the published events
    KeyOf(_),       \* the auction of an event
    VersionOf(_)    \* its version

VARIABLE feed       \* per instance, the events it announced, in order

FeedInit == feed = [i \in Instance |-> <<>>]

Announced(e) == \E i \in Instance : \E n \in 1 .. Len(feed[i]) : feed[i][n] = e

Announce(i, e) ==
    /\ ~Announced(e)
    /\ \A n \in 1 .. Len(feed[i]) :
         KeyOf(feed[i][n]) = KeyOf(e) => VersionOf(feed[i][n]) <= VersionOf(e)
    /\ feed' = [feed EXCEPT ![i] = Append(@, e)]

FeedNext == \E i \in Instance, e \in EventId : Announce(i, e)

FeedSpec == FeedInit /\ [][FeedNext]_feed

=============================================================================
