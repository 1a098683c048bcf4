--------------------------- MODULE MCCorrelation ---------------------------
(* Correlation instantiated for TLC.  int and long are 16 bits wide, which
   keeps the keys of reqIds 101, 102, ... (0x101, 0x102, ...) well inside
   the range where the conversions are exact, as they are at 32 bits. *)
EXTENDS Correlation, TLC

CONSTANTS c1, c2

OneCaller  == {c1}
TwoCallers == {c1, c2}

CallerSymmetry == Permutations(TwoCallers)
=============================================================================
