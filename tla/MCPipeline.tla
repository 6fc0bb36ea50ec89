----------------------------- MODULE MCPipeline -----------------------------
(* Pipeline with small constants for TLC. *)
EXTENDS Pipeline

\* A comb of each delay; a filter that tells its two ends apart; samples with a
\* mean, so that the integrators overflow soon.
OneOfEach == <<1, 1>>
Asymmetric == <<1, -2, 5>>
SomeValues == <<31, -7, 24, 15, -3, 30, 9>>

=============================================================================
