---------------------------- MODULE MCProposals ----------------------------
(* Instances of Proposals for TLC: proposals, reviewers and extraction jobs *)
(* are interchangeable.                                                     *)
EXTENDS Proposals, TLC

Symmetry == Permutations(ProposalIds) \cup Permutations(Reviewers)
                \cup Permutations(Extractions)
=============================================================================
