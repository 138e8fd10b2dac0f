--------------------------- MODULE MCRiskStreaming ---------------------------
(***************************************************************************)
(* An instance of RiskStreaming for TLC.                                   *)
(***************************************************************************)
EXTENDS RiskStreaming

Unparseable == {2}

=============================================================================
