------------------------------- MODULE MCVenue -------------------------------
(***************************************************************************)
(* The continuous market, part by part: the venue, whose publisher follows *)
(* every report of the order book, and the way of what a publisher sent to *)
(* a replica.  The instances give both parts the same prices and nothing   *)
(* else: a behaviour is one of one part.                                   *)
(***************************************************************************)
EXTENDS Venue, Feed

VARIABLE part

marketVars == <<part, venueVars, channelVars>>

MarketInit ==
    /\ VenueInit /\ FeedInit
    /\ part \in {"venue", "channel"}
    /\ part = "venue" => ~preserve

VenueStep == part = "venue" /\ VenueNext /\ UNCHANGED <<part, channelVars>>

ChannelStep == part = "channel" /\ FeedNext /\ UNCHANGED <<part, venueVars>>

\* The fairness is the channel's; no command of the venue has to come.
MarketSpec ==
    /\ MarketInit /\ [][VenueStep \/ ChannelStep]_marketVars
    /\ ChannelFairness

MarketView == <<part, VenueView, channelVars>>

=============================================================================
