-------------------------- MODULE MCFairinoHardware --------------------------
EXTENDS FairinoHardware, TLC
CONSTANTS p, q

MCPositions == {p, q}
PositionSymmetry == Permutations({p, q})
=============================================================================
