---------------------------- MODULE MCHttpSession ----------------------------
EXTENDS HttpSession, TLC
ConnSymmetry == Permutations(Conns)
=============================================================================
