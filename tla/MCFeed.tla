------------------------------- MODULE MCFeed -------------------------------
(* Nobody online and as many calls as MaxCalls; or a browser in front of two *)
(* games, where pages and calls together are at most Together.               *)
EXTENDS Feed

CONSTANT Together

ASSUME MCAssumption == Together \in Nat

\* Calls that are never made have no key to tell apart.
Bounded ==
  visits' > 0 =>
    /\ made' + visits' <= Together
    /\ \A c \in Calls : c >= Together => key[c] = CHOOSE g \in Keys : TRUE

MCSpec == FeedInit /\ [][FeedNext /\ Bounded]_feedVars /\ FeedFairness
=============================================================================
