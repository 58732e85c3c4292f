--------------------------- MODULE MCPitControl ---------------------------
(***************************************************************************)
(* PitControl for TLC, and what the repository says of the pit's command   *)
(* where the code does something else.                                     *)
(***************************************************************************)
EXTENDS PitControl

\* The second of two stages shuts the fan.
ShutdownStages == {2}

\* The power-up policy is "decided once on the first status after the daemon
\* starts" and "later setpoints are the user's business": after that status it
\* never idles the stage a cook program has set since.
PowerupSparesUser ==
  [][powerup = "later" /\ powerup' = "idled" => board.cmd.by # "program"]_vars

\* shutdown_system idles the cooker "so the blower stops" before the host goes:
\* neither a program nor a tuner drives the board when it does.
ShutdownIdles ==
  [][PowerOff /\ ~up'
     => board.mode = "off" \/ board.cmd.by \notin {"program", "tuner"}]_vars

=============================================================================
