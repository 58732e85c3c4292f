----------------------------- MODULE MqttBridge -----------------------------
(***************************************************************************)
(* The bridge to Home Assistant: its connection and the entities it        *)
(* announces.  Two threads publish: the client's network thread, which     *)
(* announces all entities when the broker accepts the connection, and the  *)
(* event loop, which announces them again when the board's unit changes.   *)
(* A publication is one message after the other, so the two interleave.    *)
(*                                                                         *)
(* paho and the broker are external: the client reconnects by itself once  *)
(* its loop was started, and a message sent without a session is lost.     *)
(***************************************************************************)
EXTENDS Integers

CONSTANTS
  Units,      \* what the board may report
  Entities    \* how many discovery topics there are

MqttBridgeConstants == Units # {} /\ Entities \in Nat \ {0}

VARIABLES
  broker,     \* the broker is reachable
  session,    \* none, asked for, or accepted
  bridge,     \* self.mqtt: is there one, its loop was started, _connected, unit
  announcing, \* of each thread: the unit and the next topic, 0 when it is idle
  retained,   \* the unit each topic holds at the broker
  raced       \* history: the loop announced while the network thread did

mqttBridgeVars == <<broker, session, bridge, announcing, retained, raced>>

Threads == {"network", "loop"}

NoBridge(u) == [made |-> FALSE, loop |-> FALSE, connected |-> FALSE, unit |-> u]
IdleThread(u) == [unit |-> u, next |-> 0]

TypeOK ==
  /\ broker \in BOOLEAN
  /\ session \in {"none", "asked", "open"}
  /\ bridge \in [made : BOOLEAN, loop : BOOLEAN, connected : BOOLEAN, unit : Units]
  /\ announcing \in [Threads -> [unit : Units, next : 0 .. Entities]]
  /\ retained \in [1 .. Entities -> Units \cup {"none"}]
  /\ raced \in BOOLEAN

Init ==
  /\ broker \in BOOLEAN
  /\ session = "none"
  /\ \E u \in Units : /\ bridge = NoBridge(u)
                      /\ announcing = [t \in Threads |-> IdleThread(u)]
  /\ retained = [e \in 1 .. Entities |-> "none"]
  /\ raced = FALSE

Idle(t) == announcing[t].next = 0

-----------------------------------------------------------------------------
(* The event loop.                                                         *)

\* _build_and_connect_bridge: the old bridge is closed, and the network thread
\* joined. connect() raises when the broker cannot be reached: the loop of the
\* client is then never started.
Reconfigure ==
  /\ Idle("loop") /\ Idle("network")
  /\ \E enabled \in BOOLEAN, u \in Units :
       /\ bridge' = [made |-> enabled, loop |-> enabled /\ broker,
                     connected |-> FALSE, unit |-> u]
       /\ session' = IF enabled /\ broker THEN "asked" ELSE "none"
  /\ UNCHANGED <<broker, announcing, retained, raced>>

\* Variant: a new unit is announced only by the next connection
NewUnitWaits == FALSE

\* "entity units follow the board's unit", if _connected says so
Announces == bridge.connected

\* publish_state on a status line
Line(u) ==
  /\ bridge.made
  /\ Idle("loop")
  /\ u # bridge.unit
  /\ bridge' = [bridge EXCEPT !.unit = u]
  /\ announcing' = IF Announces
                   THEN [announcing EXCEPT !["loop"] = [unit |-> u, next |-> 1]]
                   ELSE announcing
  /\ raced' = (raced \/ ~Idle("network"))
  /\ UNCHANGED <<broker, session, retained>>

-----------------------------------------------------------------------------
(* The network thread.                                                     *)

\* the client's loop asks again after a loss
Retries ==
  /\ bridge.loop
  /\ broker
  /\ session = "none"
  /\ Idle("network")
  /\ session' = "asked"
  /\ UNCHANGED <<broker, bridge, announcing, retained, raced>>

\* _on_connect: the flag, the subscriptions, and all entities with the unit of now
OnConnect ==
  /\ session = "asked"
  /\ Idle("network")
  /\ session' = "open"
  /\ bridge' = [bridge EXCEPT !.connected = TRUE]
  /\ announcing' = [announcing EXCEPT !["network"] = [unit |-> bridge.unit, next |-> 1]]
  /\ raced' = FALSE
  /\ UNCHANGED <<broker, retained>>

\* _on_connect with a failure: bad credentials
Refused ==
  /\ session = "asked"
  /\ session' = "none"
  /\ bridge' = [bridge EXCEPT !.connected = FALSE]
  /\ UNCHANGED <<broker, announcing, retained, raced>>

\* publish_discovery, one topic
Publish(t) ==
  /\ ~Idle(t)
  /\ LET job == announcing[t]
     IN  /\ retained' = IF session = "open" THEN [retained EXCEPT ![job.next] = job.unit]
                        ELSE retained
         /\ announcing' = [announcing EXCEPT
                             ![t].next = IF job.next = Entities THEN 0 ELSE job.next + 1]
  /\ UNCHANGED <<broker, session, bridge, raced>>

\* The connection or the broker goes away: _connected keeps its value.
ConnectionDrops ==
  /\ session # "none"
  /\ session' = "none"
  /\ broker' \in BOOLEAN
  /\ UNCHANGED <<bridge, announcing, retained, raced>>

BrokerReturns ==
  /\ ~broker
  /\ broker' = TRUE
  /\ UNCHANGED <<session, bridge, announcing, retained, raced>>

Next ==
  \/ Reconfigure
  \/ \E u \in Units : Line(u)
  \/ Retries
  \/ OnConnect
  \/ Refused
  \/ \E t \in Threads : Publish(t)
  \/ ConnectionDrops
  \/ BrokerReturns

\* both threads run
Spec ==
  /\ Init /\ [][Next]_mqttBridgeVars
  /\ \A t \in Threads : WF_mqttBridgeVars(Publish(t))

-----------------------------------------------------------------------------
(* Properties.                                                             *)

\* Once a session lasts and the board's unit stays, every entity has that unit,
\* over drops, refusals and reconnections in the middle of an announcement;
\* unless the unit had changed while the network thread was announcing the old.
UnitsFollow ==
  \A u \in Units :
    <>[](session = "open" /\ bridge.unit = u /\ ~raced)
      => <>[](\A e \in 1 .. Entities : retained[e] = u)

=============================================================================
