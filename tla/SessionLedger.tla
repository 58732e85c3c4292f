--------------------------- MODULE SessionLedger ---------------------------
(***************************************************************************)
(* What the list of cooks promises its reader, whatever the daemon, its    *)
(* threads and its crashes do: a session is opened once, under the next    *)
(* number; once it has ended it never opens again; it may be marked        *)
(* complete once, while it is open; and a session that was removed never   *)
(* comes back.                                                             *)
(***************************************************************************)
EXTENDS Naturals

CONSTANT Id   \* session ids, an interval of the naturals from 1

VARIABLES
  state,      \* each session: "unused", "open", "ended" or "gone"
  completed   \* the sessions marked complete

cooks == <<state, completed>>

Init ==
  /\ \E first \in {"unused", "open", "ended"} :
       state = [s \in Id |-> IF s = 1 THEN first ELSE "unused"]
  /\ completed = {}

IsNext(s) == state[s] = "unused" /\ \A i \in Id : i < s => state[i] # "unused"

Begin(s) ==
  /\ IsNext(s)
  /\ state' = [state EXCEPT ![s] = "open"]
  /\ UNCHANGED completed

End(s) ==
  /\ state[s] = "open"
  /\ state' = [state EXCEPT ![s] = "ended"]
  /\ UNCHANGED completed

\* The silence that ends one cook is noticed when the next one begins.
Turnover(s, t) ==
  /\ state[s] = "open"
  /\ IsNext(t)
  /\ state' = [state EXCEPT ![s] = "ended", ![t] = "open"]
  /\ UNCHANGED completed

Complete(s) ==
  /\ state[s] = "open"
  /\ s \notin completed
  /\ completed' = completed \cup {s}
  /\ UNCHANGED state

Remove(s) ==
  /\ state[s] \in {"open", "ended"}
  /\ state' = [state EXCEPT ![s] = "gone"]
  /\ completed' = completed \ {s}

Next ==
  \/ \E s \in Id : Begin(s) \/ End(s) \/ Complete(s) \/ Remove(s)
  \/ \E s, t \in Id : Turnover(s, t)

Spec == Init /\ [][Next]_cooks

=============================================================================
