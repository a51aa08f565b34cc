---------------------------- MODULE MCReasonRetry ----------------------------
(* ReasonRetry with the delays of reason.py. *)
EXTENDS ReasonRetry

MCStandardDelays == <<0, 2, 4, 8>>
MCSoftDelays == <<0, 15, 30, 60>>
=============================================================================
