------------------------------ MODULE MCTweets ------------------------------
EXTENDS Tweets

CONSTANTS old1, old2

\* A rule to be decided, and one in force that may be retired: the text changes.
MCBook0 == <<"proposed", "adopted">>

\* Two old rows of one rule event, with the texts for one and for two rules in force.
MCLegacyItem == [k \in LegacyKeys |-> <<"adopted", 1>>]
MCLegacyText == [k \in LegacyKeys |-> IF k = old1 THEN 1 ELSE 2]
=============================================================================
