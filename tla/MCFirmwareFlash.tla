-------------------------- MODULE MCFirmwareFlash --------------------------
(***************************************************************************)
(* FirmwareFlash for TLC, and what the repository says of a flash that the *)
(* code does not keep.                                                     *)
(***************************************************************************)
EXTENDS FirmwareFlash

\* Two images with different EEPROM formats.
TwoVersions == {"hm1", "hm3"}
TwoFormats  == [v \in TwoVersions |-> IF v = "hm1" THEN 1 ELSE 3]

\* The daemon idles the cooker "so a mid-flash reset can't drive a fire": when
\* the flash is over for the daemon and nothing of it is left to do, the board
\* does not drive the pit because the updater reset it.
NoFireAfterFlash ==
  status.state \in {"success", "error"} /\ timers = {} /\ helper.at = "idle" /\ ~noticed
  => board.lit # "reset"

=============================================================================
