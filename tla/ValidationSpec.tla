--------------------------- MODULE ValidationSpec ---------------------------
(***************************************************************************)
(* What Attestation::validate_data promises its caller: one verdict on the *)
(* layout and the data it is called with, the one ValidateData gives.      *)
(***************************************************************************)
EXTENDS DataValidation

VARIABLES layout, data, result

Decide ==
  /\ result = "running"
  /\ result' = ValidateData(layout, data)
  /\ UNCHANGED <<layout, data>>

Spec ==
  /\ result = "running"
  /\ [][Decide]_<<layout, data, result>>
  /\ WF_<<layout, data, result>>(Decide)

=============================================================================
