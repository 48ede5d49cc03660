---------------------------- MODULE MCStreamLock ----------------------------
(* Three threads and three streams, copied into each other in one direction, *)
(* and one into itself.                                                      *)
EXTENDS StreamLock, TLC

CONSTANTS t1, t2, t3, s1, s2, s3

ThreeThreads == {t1, t2, t3}
ThreeStreams == {s1, s2, s3}

Downwards == {<<s1, s2>>, <<s1, s3>>, <<s2, s3>>, <<s2, s2>>}
Age == [s \in ThreeStreams |-> IF s = s1 THEN 2 ELSE IF s = s2 THEN 1 ELSE 0]

Symmetry == Permutations(Threads)
=============================================================================
