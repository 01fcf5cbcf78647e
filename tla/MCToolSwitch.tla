---------------------------- MODULE MCToolSwitch ----------------------------
EXTENDS ToolSwitch, TLC

CONSTANTS a1, a2

Symmetry == Permutations({a1, a2})
=============================================================================
