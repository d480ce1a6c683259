------------------------------ MODULE MCEngine ------------------------------
(***************************************************************************)
(* The item, inputs and failures of the runs of Engine.                    *)
(***************************************************************************)
EXTENDS Engine

CONSTANT i1

SessionInputs == {"Probes", "Screen", "Keyring", "Pause", "Unlock", "Stop", "Reset",
                  "Backend"}
ShelfInputs   == {"Probes", "Screen", "Unlock", "Delete", "Pin", "Clear", "Settings",
                  "Search", "Restore"}
RetryInputs   == {"Probes", "Pause", "Unlock"}
AllFailures   == {"keyring", "storage", "reader", "clipboard"}
=============================================================================
