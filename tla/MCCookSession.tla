--------------------------- MODULE MCCookSession ---------------------------
(***************************************************************************)
(* CookSession for TLC, and what the repository says of sessions where the *)
(* code does something else.                                               *)
(***************************************************************************)
EXTENDS CookSession

\* A session that opened because a cook was on (test_sessions.py: "Pit off, but
\* a targeted food probe is plugged in: that is a cook") is not one "in which
\* no cook ever ran": once it has samples the pruner leaves it alone.
CooksAreKept ==
  [][\A s \in Id : PruneDelete(s) /\ sessions[s].cook
                   => sessions[s].last = "none"]_vars

\* A session is closed after an idle gap (store.py), so two samples of one
\* session are never further apart than that.
GapEndsCook ==
  [][StatusInSession /\ silence > IdleGap
     => sessions[session_id].last = "none"]_vars

\* _session_completed is "True once the current session's cook completed".
CompletedIsKnown ==
  session_id # None /\ sessions[session_id].done => session_completed

=============================================================================
