------------------------------ MODULE MCFeeds ------------------------------
(***************************************************************************)
(* What a caller is told by the explorer's stream: the event feed with its *)
(* catch-ups, and the connection that carries it.  Which one is at work is *)
(* chosen at the start; the other rests, since the feed sees of the        *)
(* connection only that it drops and comes back.                           *)
(***************************************************************************)
EXTENDS EventFeed, FeedConnection, TLC

VARIABLE part

TwoSubs == <<"actions", "address">>

-----------------------------------------------------------------------------
feedsVars == <<part, vars, connVars>>

FeedsInit ==
    /\ part \in {"feed", "connection"}
    /\ Init /\ (part # "feed" => log[1].sub = "actions")
    /\ ConnInit

FeedWorks == part = "feed" /\ UNCHANGED <<part, connVars>>
ConnectionWorks == part = "connection" /\ UNCHANGED <<part, vars>>

FeedsNext ==
    \/ FeedWorks /\ Next
    \/ ConnectionWorks /\ ConnNext

\* What each is owed; of the one at rest nothing is enabled.
FairFeeds == FeedsInit /\ [][FeedsNext]_feedsVars /\ Fairness /\ ConnFairness
=============================================================================
