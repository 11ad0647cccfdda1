--------------------------- MODULE MCPasvPorts ---------------------------
(* Instances of PasvPorts for TLC. *)
EXTENDS PasvPorts, TLC

CONSTANTS s1, s2, s3

=============================================================================
