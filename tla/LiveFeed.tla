------------------------------ MODULE LiveFeed ------------------------------
(***************************************************************************)
(* The live clients.  Every WebSocket reader has a bounded queue; a        *)
(* broadcast that finds it full drops its oldest message.  On shutdown a   *)
(* sentinel is put in every queue, and a reader that takes it closes.      *)
(* Messages are numbered in the order of their broadcast.                  *)
(***************************************************************************)
EXTENDS Integers, Sequences

CONSTANTS
  Readers,      \* the clients
  Cap,          \* maxsize of a queue
  MaxMessages,  \* bound: broadcasts before the shutdown
  MaxLate       \* bound: broadcasts after it, by timers and by what runs in
                \* executors; the serial line is closed

LiveFeedConstants ==
  /\ Cap \in Nat \ {0, 1} /\ MaxMessages \in Nat /\ MaxLate \in Nat
  /\ MaxLate < Cap

Sentinel == 0

VARIABLES
  queue,      \* subscribers: the queue of each reader
  reader,     \* not connected, waiting in q.get(), in send_json
  shown,      \* history: the last message a client was sent
  count,      \* the messages broadcast so far
  late,       \* those of them after stop()
  stopped     \* stop() has run

liveFeedVars == <<queue, reader, shown, count, late, stopped>>

Most == MaxMessages + MaxLate

TypeOK ==
  /\ queue \in [Readers -> Seq(0 .. Most)]
  /\ \A r \in Readers : Len(queue[r]) <= Cap
  /\ reader \in [Readers -> {"gone", "waits", "sends"}]
  /\ shown \in [Readers -> 0 .. Most]
  /\ count \in 0 .. Most
  /\ late \in 0 .. MaxLate
  /\ stopped \in BOOLEAN

Init ==
  /\ queue = [r \in Readers |-> <<>>]
  /\ reader = [r \in Readers |-> "gone"]
  /\ shown = [r \in Readers |-> 0]
  /\ count = 0
  /\ late = 0
  /\ stopped = FALSE

Subscribed == {r \in Readers : reader[r] # "gone"}

-----------------------------------------------------------------------------

\* subscribe(), and the state of now; the server takes no client after stop
Subscribe(r) ==
  /\ ~stopped
  /\ reader[r] = "gone"
  /\ queue' = [queue EXCEPT ![r] = <<>>]
  /\ reader' = [reader EXCEPT ![r] = "sends"]
  /\ shown' = [shown EXCEPT ![r] = count]
  /\ UNCHANGED <<count, late, stopped>>

\* Variant: a full queue keeps what it has
DropsNewest(q, m) == IF Len(q) < Cap THEN Append(q, m) ELSE q

\* Variant: the queue has no bound
Grows(q, m) == Append(q, m)

\* put_nowait; "Slow client: drop its oldest message to make room."
Put(q, m) == IF Len(q) < Cap THEN Append(q, m) ELSE Append(Tail(q), m)

\* _broadcast
Broadcast ==
  /\ IF stopped THEN late < MaxLate ELSE count < MaxMessages
  /\ count' = count + 1
  /\ late' = IF stopped THEN late + 1 ELSE late
  /\ queue' = [r \in Readers |-> IF r \in Subscribed THEN Put(queue[r], count')
                                 ELSE queue[r]]
  /\ UNCHANGED <<reader, shown, stopped>>

\* q.get() returns: the sentinel ends the reader, a message is sent.
Take(r) ==
  /\ reader[r] = "waits"
  /\ queue[r] # <<>>
  /\ IF Head(queue[r]) = Sentinel
     THEN /\ reader' = [reader EXCEPT ![r] = "gone"]
          /\ queue' = [queue EXCEPT ![r] = <<>>]
          /\ UNCHANGED shown
     ELSE /\ reader' = [reader EXCEPT ![r] = "sends"]
          /\ queue' = [queue EXCEPT ![r] = Tail(@)]
          /\ shown' = [shown EXCEPT ![r] = Head(queue[r])]
  /\ UNCHANGED <<count, late, stopped>>

Sent(r) ==
  /\ reader[r] = "sends"
  /\ reader' = [reader EXCEPT ![r] = "waits"]
  /\ UNCHANGED <<queue, shown, count, late, stopped>>

\* A client that went away is found out by the next send: unsubscribe().
SendFails(r) ==
  /\ reader[r] = "sends"
  /\ reader' = [reader EXCEPT ![r] = "gone"]
  /\ queue' = [queue EXCEPT ![r] = <<>>]
  /\ UNCHANGED <<shown, count, late, stopped>>

\* Variant: a full queue gets no sentinel
IfRoom(q) == IF Len(q) < Cap THEN Append(q, Sentinel) ELSE q

\* "the sentinel must get through"
PutSentinel(q) == Put(q, Sentinel)

\* stop(), on the event loop
Stop ==
  /\ ~stopped
  /\ stopped' = TRUE
  /\ queue' = [r \in Readers |-> IF r \in Subscribed THEN PutSentinel(queue[r])
                                 ELSE queue[r]]
  /\ UNCHANGED <<reader, shown, count, late>>

Next ==
  \/ \E r \in Readers : Subscribe(r) \/ Take(r) \/ Sent(r) \/ SendFails(r)
  \/ Broadcast
  \/ Stop

\* A reader is a task of the event loop: it takes what is there, and its send ends.
Spec ==
  /\ Init /\ [][Next]_liveFeedVars
  /\ \A r \in Readers : WF_liveFeedVars(Take(r)) /\ WF_liveFeedVars(Sent(r) \/ SendFails(r))

-----------------------------------------------------------------------------
(* Properties.                                                             *)

\* However slow a client is, what waits for it is in order and newer than what
\* it was sent, and the newest message is among the two.
NewestIsKept ==
  \A r \in Subscribed :
    LET q    == queue[r]
        news == {i \in DOMAIN q : q[i] # Sentinel}
    IN  /\ \A i, j \in news : i < j => q[i] < q[j]
        /\ \A i \in news : shown[r] < q[i] /\ q[i] <= count
        /\ count = shown[r] \/ \E i \in news : q[i] = count

\* "The sentinel lets each reader exit": every reader ends after a shutdown.
ReadersEnd == \A r \in Readers : stopped ~> reader[r] = "gone"

-----------------------------------------------------------------------------
(* What the properties rest on.                                            *)

\* The bounds of the broadcasts.
CountsFit ==
  /\ count <= MaxMessages + late
  /\ ~stopped => late = 0

\* Before the shutdown no queue holds a sentinel.
SentinelsEnd ==
  ~stopped => \A r \in Readers : \A i \in DOMAIN queue[r] : queue[r][i] # Sentinel

=============================================================================
