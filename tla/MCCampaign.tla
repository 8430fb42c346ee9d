----------------------------- MODULE MCCampaign -----------------------------
(* Small instances of Campaign: interchangeable values, for safety runs. *)
EXTENDS Campaign, TLC

CONSTANTS p1, p2

OnePackage == <<p1>>
TwoPackages == <<p1, p2>>

Symmetry ==
    Permutations(Campaigns) \cup Permutations(Sources)
        \cup Permutations(Rests) \cup Permutations(Tools)
=============================================================================
