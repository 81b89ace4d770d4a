-------------------------- MODULE MCSharedResource --------------------------
(***************************************************************************)
(* Instances of SharedResource for TLC.                                    *)
(***************************************************************************)
EXTENDS SharedResource, TLC

CONSTANTS t1, t2, t3, i1, i2

ThreeThreads == {t1, t2, t3}
TwoThreads   == {t1, t2}
TwoIds       == {i1, i2}

\* Threads and ids are interchangeable: no action names one.
Symmetry == Permutations(ThreeThreads) \cup Permutations(TwoIds)
=============================================================================
