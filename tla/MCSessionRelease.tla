-------------------------- MODULE MCSessionRelease --------------------------
EXTENDS SessionRelease, TLC

CONSTANTS p1, p2, t1, t2

OneProc    == {p1}
TwoProcs   == {p1, p2}
OneThread  == {t1}
TwoThreads == {t1, t2}

\* Two threads of one process, or one thread in each of two.
InOneProc   == [t \in TwoThreads |-> p1]
OneEach     == [t \in TwoThreads |-> IF t = t1 THEN p1 ELSE p2]
AloneInProc == [t \in OneThread |-> p1]

\* Threads of one process are interchangeable; across two, a process comes with its thread.
ThreadSymmetry  == Permutations(TwoThreads)
ProcessSymmetry == {f \in Permutations(TwoProcs \cup TwoThreads) :
                       f[p1] \in TwoProcs /\ (f[p1] = p1 <=> f[t1] = t1)}

Fast    == {3}
=============================================================================
