--------------------------- MODULE MCHostUpdate ---------------------------
(***************************************************************************)
(* HostUpdate for TLC, and what the repository says of an update that the  *)
(* helper does not keep.                                                   *)
(***************************************************************************)
EXTENDS HostUpdate

\* The release that runs, one to go to, one that dies, one that is mute.
GoodReleases == {"v1", "v2"}
DeadReleases == {"v3"}
MuteReleases == {"v4"}

AllFaults == {"copy", "kill", "power"}

\* deploy/hm-update: "an interrupted copy never leaves a half-populated live dir":
\* whatever was interrupted before, no installed part is a copy that was cut short.
NeverHalfPopulated == \A part \in Part : live[part] # Torn

\* deploy/hm-update: "a bad release cannot leave the device unreachable": when no
\* run is on the way and none is asked for, the service can come up.
NeverUnreachable == helper.at = "idle" /\ request = 0 => Answers(live.code)

=============================================================================
