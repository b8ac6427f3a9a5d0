--------------------------- MODULE MCSourceReview ---------------------------
(* An instance of SourceReview for TLC.                                        *)
EXTENDS SourceReview, TLC

CONSTANT Aliases   \* all candidates share one feed address, or none do

MCSame == [c \in Candidate |-> IF Aliases THEN Candidate ELSE {c}]
MCPolicy ==
  {[version |-> 1, enabled |-> TRUE, engine |-> "external_agent", skip |-> TRUE],
   [version |-> 1, enabled |-> TRUE, engine |-> "jev", skip |-> FALSE],
   [version |-> 1, enabled |-> FALSE, engine |-> "external_agent", skip |-> TRUE]}
MCSymmetry == Permutations(Candidate)
=============================================================================
