-------------------------------- MODULE Gate --------------------------------
(***************************************************************************)
(* The fail-closed privacy gate that every thread of ClipLedge shares      *)
(* (src/security.rs, struct Gate): five independent flags and an epoch     *)
(* that outdates whatever was started under an older one.  The gate is a   *)
(* bundle of SeqCst atomics; a module that EXTENDS this one shares it.     *)
(*                                                                         *)
(* eligible() and accepts() load their atomics one after the other and are *)
(* taken here as one reading of the gate.                                  *)
(***************************************************************************)
EXTENDS Naturals

VARIABLES
  paused,     \* the user paused capture
  locked,     \* the screen is locked, or not yet known to be unlocked
  key_ready,  \* history is open: the key was read and the database opened
  capacity,   \* no storage error is outstanding
  backend,    \* the X11 thread runs
  epoch       \* privacy generation

gateVars == <<paused, locked, key_ready, capacity, backend, epoch>>

GateTypeOK ==
  /\ paused \in BOOLEAN /\ locked \in BOOLEAN /\ key_ready \in BOOLEAN
  /\ capacity \in BOOLEAN /\ backend \in BOOLEAN
  /\ epoch \in Nat

\* Whether a new capture may begin or be committed.
eligible ==
  /\ ~paused
  /\ ~locked
  /\ key_ready
  /\ capacity
  /\ backend

\* Mutant of accepts: the epoch is not compared.
acceptsAnyEpoch(e) == eligible

\* Whether a job of generation e still belongs to the active privacy state.
accepts(e) == eligible /\ epoch = e

\* Mutant of invalidate: fetch_sub for fetch_add.
invalidateDown == epoch' = epoch - 1

\* Outdate every operation in flight.
invalidate == epoch' = epoch + 1
=============================================================================
