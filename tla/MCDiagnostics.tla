--------------------------- MODULE MCDiagnostics ---------------------------
(* A request of each kind, and samples that are negative, equal and apart. *)
EXTENDS Diagnostics
SamplesVal == {-2, 0, 1, 3}
=============================================================================
