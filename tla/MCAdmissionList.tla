-------------------------- MODULE MCAdmissionList --------------------------
(* A bounded instance of AdmissionList for TLC.                            *)
EXTENDS AdmissionList

(* Weight 3 over a batch of 2 gives a minimum weight of 1.  The estimates  *)
(* are one below that minimum, one that shares the device with a minimal   *)
(* request only, and one over the budget that can only run alone; two      *)
(* minimal requests leave weight but no slot for a third.                  *)
MinimalMediumOversized == {0, 2, 4}
=============================================================================
