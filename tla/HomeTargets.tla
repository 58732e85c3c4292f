---------------------------- MODULE HomeTargets ----------------------------
(***************************************************************************)
(* Probe targets set from Home Assistant.  A write arrives on the client's *)
(* thread, which puts together all thresholds from the last alarm line and *)
(* has the event loop send them.  The board answers a change with a new    *)
(* alarm line.  The app and the web page set one threshold alone.          *)
(***************************************************************************)
EXTENDS Sequences, Naturals

CONSTANTS
  Probes,     \* the probes with a target
  Values,     \* the thresholds
  MaxCalls    \* bound: callbacks that wait for the event loop

HomeTargetsConstants == Values # {} /\ MaxCalls \in Nat \ {0}

VARIABLES
  alarms,     \* the thresholds on the board
  known,      \* state.alarms
  calls       \* the call_soon_threadsafe callbacks, in order

homeTargetsVars == <<alarms, known, calls>>

Thresholds == [Probes -> Values]

TypeOK ==
  /\ alarms \in Thresholds
  /\ known \in Thresholds
  /\ calls \in Seq([to : Probes, all : Thresholds])
  /\ Len(calls) <= MaxCalls

Init ==
  /\ \E v \in Values : alarms = [p \in Probes |-> v]
  /\ known = alarms
  /\ calls = <<>>

\* mqtt_set_target: "Preserve the other thresholds"
Written(p, v) == [known EXCEPT ![p] = v]

HomeWrites(p, v) ==
  /\ Len(calls) < MaxCalls
  /\ calls' = Append(calls, [to |-> p, all |-> Written(p, v)])
  /\ UNCHANGED <<alarms, known>>

\* the event loop sends set_alarms with every threshold; the line may be lost
LoopSends ==
  /\ calls # <<>>
  /\ alarms' \in {Head(calls).all, alarms}
  /\ calls' = Tail(calls)
  /\ UNCHANGED known

\* POST /api/alarms, a guided cook: one threshold, the others left alone
UserSets(p, v) ==
  /\ alarms' = [alarms EXCEPT ![p] = v]
  /\ UNCHANGED <<known, calls>>

\* the alarm line that follows a change
AlarmLine ==
  /\ known' = alarms
  /\ UNCHANGED <<alarms, calls>>

Next ==
  \/ \E p \in Probes, v \in Values : HomeWrites(p, v) \/ UserSets(p, v)
  \/ LoopSends
  \/ AlarmLine

Spec == Init /\ [][Next]_homeTargetsVars

-----------------------------------------------------------------------------
(* Properties.                                                             *)

\* "Preserve the other thresholds" (service.py:2408): what Home Assistant sends
\* for one probe leaves the targets of the others as they are.  The code sends
\* what the last alarm line said of them when the write was made, and reverts
\* what the user, or a write before it, has changed since.
Preserves(call) == \A p \in Probes \ {call.to} : alarms'[p] = alarms[p]

OthersPreserved == [][LoopSends => Preserves(Head(calls))]_homeTargetsVars

=============================================================================
