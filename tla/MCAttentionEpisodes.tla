------------------------ MODULE MCAttentionEpisodes ------------------------
\* Two operator channels and three autonomous tasks on a coordinator with two
\* Job episodes: every lane can fill up and every refusal can happen.
EXTENDS AttentionEpisodes, TLC

CONSTANTS o1, o2, a1, a2, a3

MCOperators == {o1, o2}
MCAutonomous == {a1, a2, a3}
=============================================================================
