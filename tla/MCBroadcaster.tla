--------------------------- MODULE MCBroadcaster ---------------------------
(* Small instances of Broadcaster for TLC. *)
EXTENDS Broadcaster, TLC

CONSTANTS s1, s2

TwoSubs == {s1, s2}
SubsSymmetry == Permutations(TwoSubs)

Sample(flag, types) == [keyframe |-> flag, nals |-> types]

\* A delta, a bare IDR and a keyframe with half of its parameter sets.
ThreeSamples == {Sample(FALSE, <<"slice">>), Sample(FALSE, <<"idr">>),
                 Sample(TRUE, <<"sps", "slice">>)}

\* A delta and a bare IDR.
TwoSamples == {Sample(FALSE, <<"slice">>), Sample(FALSE, <<"idr">>)}
=============================================================================
