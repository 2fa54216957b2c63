--------------------------- MODULE MCCampaignPurge ---------------------------
(* Deletions, campaigns and sessions are told apart by nothing but names.   *)
EXTENDS CampaignPurge, TLC

Symmetry == Permutations(Deleters) \cup Permutations(Campaigns) \cup Permutations(Sessions)
=============================================================================
