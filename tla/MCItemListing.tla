--------------------------- MODULE MCItemListing ---------------------------
\* Items for TLC: two from before and one that is put, whose graph is a fork.
EXTENDS ItemListing, TLC

CONSTANTS o1, o2, p

AllItems == {o1, o2, p}
OldItems == {o1, o2}
PutItems == {p}
AllSteps == 1..3
Fork == <<0, 1, 1>>
Sizes == {2}

\* The items from before are alike.
Alike == Permutations(OldItems)
=============================================================================
