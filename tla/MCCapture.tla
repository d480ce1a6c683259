------------------------------ MODULE MCCapture -----------------------------
(***************************************************************************)
(* The inputs and failures of the run of Capture.                          *)
(***************************************************************************)
EXTENDS Capture

CaptureInputs  == {"Probes", "Clear", "Settings", "Keyring", "Pause", "Backend", "Stop"}
StorageFailure == {"storage"}
=============================================================================
