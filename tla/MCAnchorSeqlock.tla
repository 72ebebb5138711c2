--------------------------- MODULE MCAnchorSeqlock ---------------------------
EXTENDS AnchorSeqlock, TLC

CONSTANTS r1, r2

OneReader  == {r1}
TwoReaders == {r1, r2}
ReaderSymmetry == Permutations(TwoReaders)

FrozenAndFast == {0, 3}
MCJumpTargets == {2, 9}
OneTarget     == {2}
MCJumpShifts  == {-4, 6}
NoJumps       == {}

WallOnly == {"wall"}
Duration == {"quit", "qpc"}
=============================================================================
