--------------------------- MODULE MCMakerRunner ---------------------------
(* Two makers on an andon card and another card.                           *)
EXTENDS MakerRunner, TLC

CONSTANTS a1, b1

(* The other card has the better priority; an andon card still comes first.*)
MCRank == [c \in Card |-> IF c = a1 THEN 2 ELSE 1]

(* Makers are alike; sound for the safety runs only.                       *)
MakersAlike == Permutations(Station)
=============================================================================
