------------------------------ MODULE MCFeeds ------------------------------
(* The three feeds share no state but the clock, so a behaviour is about   *)
(* one of them, chosen at the start.                                       *)
EXTENDS Feeds

CONSTANT Feeders    \* the feeds this run looks at

VARIABLE feed

MCBooks == {{"stock", "bond"}, {"fund"}}
MCHoldings == [stock |-> "tech", bond |-> "loans"]
MCSectorEtf == [tech |-> "fund"]
MCMoves == [stock |-> 2, bond |-> -1, fund |-> 1]

MCVars == <<feedVars, feed>>
MCInit == FeedsInit /\ feed \in Feeders

MCNext ==
  /\ UNCHANGED feed
  /\ \/ feed = "prices" /\ PricesNext
     \/ feed = "news" /\ NewsNext
     \/ feed = "macro" /\ MacroNext
     \/ Tick

\* Time passes, the tile is asked for again and again, and a fetch ends.
Fairness ==
  /\ WF_MCVars(feed = "macro" /\ UNCHANGED feed /\ Tick)
  /\ \A t \in Readers : /\ WF_MCVars(feed = "macro" /\ UNCHANGED feed /\ AskMacro(t))
                        /\ WF_MCVars(feed = "macro" /\ UNCHANGED feed /\ MacroAssembled(t))

MCSpec == MCInit /\ [][MCNext]_MCVars /\ Fairness

MacroRecoversIfAsked == feed = "macro" => MacroRecovers
=============================================================================
