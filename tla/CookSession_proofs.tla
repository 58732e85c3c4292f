------------------------ MODULE CookSession_proofs ------------------------
(***************************************************************************)
(* Proofs about CookSession, for every number of sessions and every idle   *)
(* gap: its type invariant, the inductive invariant IInv, and the safety   *)
(* properties that follow from it.                                         *)
(***************************************************************************)
EXTENDS CookSession, WellFoundedInduction, TLAPS

-----------------------------------------------------------------------------
(* What the statements on the tables do to each row.                       *)

\* None is not a session id.
LEMMA NoneIsNoId == None \notin Id
BY NoneAssumption DEF Id

\* A blank row is a row.
LEMMA BlankType == ASSUME NEW st \in {"unused", "open", "ended", "gone"}
                   PROVE  Blank(st) \in Row
BY DEF Blank, Row, SampleKind

\* close_session ends an open row and changes nothing else.
LEMMA CloseRowFacts ==
  ASSUME NEW t \in [Id -> Row], NEW s \in Id
  PROVE  /\ CloseRow(t, s) \in [Id -> Row]
         /\ CloseRow(t, s)[s] = [t[s] EXCEPT !.st = IF @ = "open" THEN "ended" ELSE @]
         /\ \A i \in Id \ {s} : CloseRow(t, s)[i] = t[i]
BY DEF CloseRow, Row

\* close_session changes only the state of its row.
LEMMA CloseRowFields ==
  ASSUME NEW t \in [Id -> Row], NEW s \in Id
  PROVE  /\ \A i \in Id : CloseRow(t, s)[i].done = t[i].done
         /\ \A i \in Id \ {s} : CloseRow(t, s)[i].st = t[i].st
         /\ CloseRow(t, s)[s].st = IF t[s].st = "open" THEN "ended" ELSE t[s].st
<1>1. /\ CloseRow(t, s)[s] = [t[s] EXCEPT !.st = IF @ = "open" THEN "ended" ELSE @]
      /\ \A i \in Id \ {s} : CloseRow(t, s)[i] = t[i]
  BY CloseRowFacts
<1>2. t[s] \in Row
  OBVIOUS
<1>3. /\ CloseRow(t, s)[s].st = IF t[s].st = "open" THEN "ended" ELSE t[s].st
      /\ CloseRow(t, s)[s].done = t[s].done
  BY <1>1, <1>2 DEF Row
<1> QED  BY <1>1, <1>3

\* start_session writes one row.
LEMMA OpenRowFacts ==
  ASSUME NEW t \in [Id -> Row], NEW s \in Id
  PROVE  /\ OpenRow(t, s) \in [Id -> Row]
         /\ OpenRow(t, s)[s].st = "open"
         /\ ~OpenRow(t, s)[s].done
         /\ ~OpenRow(t, s)[s].stuck
         /\ \A i \in Id \ {s} : OpenRow(t, s)[i] = t[i]
BY BlankType DEF OpenRow, Blank, Row, SampleKind

\* delete_session removes a row that exists and leaves any other alone.
LEMMA DeleteRowFacts ==
  ASSUME NEW t \in [Id -> Row], NEW s \in Id
  PROVE  /\ DeleteRow(t, s) \in [Id -> Row]
         /\ Exists(t, s) => DeleteRow(t, s)[s] = Blank("gone")
         /\ ~Exists(t, s) => DeleteRow(t, s)[s] = t[s]
         /\ \A i \in Id \ {s} : DeleteRow(t, s)[i] = t[i]
BY BlankType DEF DeleteRow

\* A row only gains evidence: it is neither opened nor closed, only the named
\* row changes, and only if it exists.
Gains(t, u, s) ==
  /\ u \in [Id -> Row]
  /\ \A i \in Id : /\ u[i].st = t[i].st /\ u[i].stuck = t[i].stuck
                   /\ t[i].done => u[i].done
  /\ \A i \in Id : (i # s \/ ~Exists(t, i)) => u[i] = t[i]

\* An insert only adds evidence to its own row.
LEMMA InsertSampleFacts ==
  ASSUME NEW t \in [Id -> Row], NEW s \in Id \cup {None}, NEW active \in BOOLEAN
  PROVE  /\ Gains(t, InsertSample(t, s, active), s)
         /\ \A i \in Id : InsertSample(t, s, active)[i].done = t[i].done
BY NoneIsNoId DEF InsertSample, Gains, Exists, Row, SampleKind

\* A timeline event only adds evidence to its own row.
LEMMA AddEventFacts ==
  ASSUME NEW t \in [Id -> Row], NEW s \in Id \cup {None}
  PROVE  /\ Gains(t, AddEvent(t, s), s)
         /\ \A i \in Id : AddEvent(t, s)[i].done = t[i].done
         /\ \A i \in Id : AddEvent(t, s)[i].fired = t[i].fired
BY NoneIsNoId DEF AddEvent, Gains, Exists, Row, SampleKind

\* mark_completed only adds evidence to its own row.
LEMMA MarkCompletedFacts ==
  ASSUME NEW t \in [Id -> Row], NEW s \in Id
  PROVE  Gains(t, MarkCompleted(t, s), s)
BY DEF MarkCompleted, Gains, Exists, Row, SampleKind

\* The handler of a status line, once the session is settled.
LEMMA RecordFacts ==
  ASSUME NEW t \in [Id -> Row], NEW sid \in Id \cup {None},
         NEW fresh \in BOOLEAN, NEW active \in BOOLEAN,
         cookdone \in BOOLEAN, session_completed \in BOOLEAN,
         Record(t, sid, fresh, active)
  PROVE  /\ Gains(t, sessions', sid)
         /\ sid # None /\ sessions'[sid].done /\ ~t[sid].done => cookdone'
         /\ ~fresh /\ cookdone => cookdone'
         /\ fresh => ~cookdone'
         /\ cookdone' \in BOOLEAN /\ session_completed' \in BOOLEAN
         /\ silence' = 0 /\ last_sample_age' = 0
         /\ UNCHANGED <<up, halting, deleting>>
<1>1. PICK event, complete, stored, marked \in BOOLEAN :
        LET t1 == IF stored THEN InsertSample(t, sid, active) ELSE t
            t2 == IF event \/ complete THEN AddEvent(t1, sid) ELSE t1
        IN /\ complete => /\ sid # None /\ ~fresh
                          /\ ~cookdone /\ last_sample_age # None
           /\ sessions' = IF complete /\ marked THEN MarkCompleted(t2, sid) ELSE t2
           /\ silence' = 0
           /\ last_sample_age' = 0
           /\ cookdone' = (~fresh /\ (cookdone \/ complete))
           /\ session_completed' = (~fresh /\ (session_completed \/ complete))
           /\ UNCHANGED <<up, halting, deleting>>
  BY DEF Record
<1> DEFINE t1 == IF stored THEN InsertSample(t, sid, active) ELSE t
           t2 == IF event \/ complete THEN AddEvent(t1, sid) ELSE t1
<1>2. Gains(t, t1, sid) /\ \A i \in Id : t1[i].done = t[i].done
  <2>1. CASE stored  BY <2>1, InsertSampleFacts
  <2>2. CASE ~stored  BY <2>2 DEF Gains
  <2> QED  BY <2>1, <2>2
<1>3. t1 \in [Id -> Row]
  BY <1>2 DEF Gains
<1> HIDE DEF t1
<1>4. Gains(t1, t2, sid) /\ \A i \in Id : t2[i].done = t1[i].done
  BY <1>3, AddEventFacts DEF Gains
<1>5. t2 \in [Id -> Row]
  BY <1>4 DEF Gains
<1> HIDE DEF t2
<1>6. sessions' = IF complete /\ marked THEN MarkCompleted(t2, sid) ELSE t2
  BY <1>1 DEF t1, t2
<1>7. Gains(t2, sessions', sid)
  <2>1. CASE complete /\ marked
    <3>1. sid \in Id  BY <2>1, <1>1
    <3> QED  BY <2>1, <3>1, <1>5, <1>6, MarkCompletedFacts
  <2>2. CASE ~(complete /\ marked)
    BY <2>2, <1>5, <1>6 DEF Gains
  <2> QED  BY <2>1, <2>2
<1>8. Gains(t, sessions', sid)
  BY <1>2, <1>4, <1>7 DEF Gains, Exists
<1>9. ASSUME sid # None, sessions'[sid].done, ~t[sid].done PROVE cookdone'
  <2>1. ~t2[sid].done  BY <1>9, <1>2, <1>4
  <2>2. complete  BY <2>1, <1>6, <1>9
  <2> QED  BY <2>2, <1>1
<1>10. /\ ~fresh /\ cookdone => cookdone'
       /\ fresh => ~cookdone'
       /\ cookdone' \in BOOLEAN /\ session_completed' \in BOOLEAN
       /\ silence' = 0 /\ last_sample_age' = 0
       /\ UNCHANGED <<up, halting, deleting>>
  BY <1>1
<1> QED  BY <1>8, <1>9, <1>10


-----------------------------------------------------------------------------
(* Type correctness.                                                       *)

PruneType == [req : SUBSET (Id \cup {None}), rows : SUBSET Id,
              victims : SUBSET Id, failed : SUBSET Id]

\* The parts of the pruner's record keep their types.
LEMMA PruneTypeFacts ==
  ASSUME NEW a \in SUBSET (Id \cup {None}), NEW b \in SUBSET Id,
         NEW c \in SUBSET Id, NEW d \in SUBSET Id
  PROVE  [req |-> a, rows |-> b, victims |-> c, failed |-> d] \in PruneType
BY DEF PruneType

\* A daemon that died has well-typed memory.
LEMMA DieType ==
  ASSUME Die
  PROVE  /\ up' \in BOOLEAN
         /\ session_id' \in Id \cup {None}
         /\ last_sample_age' \in Age \cup {None}
         /\ cookdone' \in BOOLEAN
         /\ session_completed' \in BOOLEAN
         /\ halting' \in BOOLEAN
         /\ prune' \in PruneType
         /\ deleting' \in Id \cup {None}
<1>1. prune' \in PruneType  BY PruneTypeFacts DEF Die, NoPrune
<1> QED  BY <1>1 DEF Die

\* Among the open rows there is a newest one.
LEMMA NewestOpenExists ==
  OpenIds # {} => \E s \in OpenIds : \A o \in OpenIds : o <= s
<1> SUFFICES ASSUME OpenIds # {}
             PROVE  \E s \in OpenIds : \A o \in OpenIds : o <= s
  OBVIOUS
<1> DEFINE Left == {n \in Nat : \E s \in OpenIds : n = MaxId - s}
<1>1. Left \subseteq Nat /\ Left # {}
  <2>1. PICK s \in OpenIds : TRUE
    OBVIOUS
  <2>2. MaxId - s \in Nat  BY BoundsAssumption DEF OpenIds, Id
  <2>3. MaxId - s \in Left  BY <2>2
  <2> QED  BY <2>3
<1>2. \E n \in Left : \A m \in Left : <<m, n>> \notin OpToRel(<, Nat)
  <2> HIDE DEF Left
  <2> QED  BY <1>1, WFMin, NatLessThanWellFounded, Zenon
<1>3. PICK n \in Left : \A m \in Left : ~(m < n)
  BY <1>1, <1>2, Zenon DEF OpToRel
<1>4. PICK s \in OpenIds : n = MaxId - s
  OBVIOUS
<1>5. ASSUME NEW o \in OpenIds PROVE (MaxId - o) \in Left
  <2>1. MaxId - o \in Nat  BY BoundsAssumption DEF OpenIds, Id
  <2> QED  BY <2>1
<1>6. \A o \in OpenIds : ~(MaxId - o < MaxId - s)
  BY <1>3, <1>4, <1>5
<1> QED
  BY <1>6, BoundsAssumption DEF OpenIds, Id

\* open_session finds the newest open row, if there is one.
LEMMA OpenSessionFacts ==
  /\ OpenIds = {} => OpenSession = None
  /\ OpenIds # {} => /\ OpenSession \in OpenIds
                     /\ \A o \in OpenIds : o <= OpenSession
BY NewestOpenExists DEF OpenSession

\* An age that grows stays an age.
LEMMA AgeFacts == /\ 0 \in Age
                  /\ \A a \in Age : Older(a) \in Age
                  /\ \A a \in Age \cup {None} : Older(a) \in Age \cup {None}
BY BoundsAssumption, NoneAssumption DEF Age, Older

\* The handler of a status line, seen as a change of types only.
RecordTyped ==
  /\ sessions' \in [Id -> Row]
  /\ silence' \in Age
  /\ last_sample_age' \in Age \cup {None}
  /\ cookdone' \in BOOLEAN
  /\ session_completed' \in BOOLEAN
  /\ up' \in BOOLEAN
  /\ halting' \in BOOLEAN
  /\ deleting' \in Id \cup {None}

\* The handler of a status line keeps the types.
LEMMA RecordType ==
  ASSUME TypeOK, NEW t \in [Id -> Row], NEW sid \in Id \cup {None},
         NEW fresh \in BOOLEAN, NEW active \in BOOLEAN,
         Record(t, sid, fresh, active)
  PROVE  RecordTyped
<1>1. cookdone \in BOOLEAN /\ session_completed \in BOOLEAN
  BY DEF TypeOK
<1>2. /\ Gains(t, sessions', sid)
      /\ cookdone' \in BOOLEAN /\ session_completed' \in BOOLEAN
      /\ silence' = 0 /\ last_sample_age' = 0
      /\ UNCHANGED <<up, halting, deleting>>
  BY <1>1, RecordFacts
<1> QED  BY <1>2, AgeFacts DEF Gains, TypeOK, RecordTyped

\* Every step keeps every variable in its type.
LEMMA TypeStep == TypeOK /\ [Next]_vars => TypeOK'
<1> SUFFICES ASSUME TypeOK, [Next]_vars
             PROVE  TypeOK'
  OBVIOUS
<1>0. prune \in PruneType /\ next_id \in Nat /\ sessions \in [Id -> Row]
  BY DEF TypeOK, PruneType
<1>a. ASSUME NEW r \in SUBSET (Id \cup {None}) PROVE [prune EXCEPT !.req = r] \in PruneType
  BY <1>0 DEF PruneType
<1>1. CASE Start
  <2>1. OpenSession \in Id \cup {None}
    BY OpenSessionFacts DEF OpenIds
  <2>2. sessions' \in [Id -> Row]
    BY <1>1, <2>1, CloseRowFacts DEF Start, TypeOK
  <2>3. prune' \in PruneType
    BY <1>1, <2>1, <1>a DEF Start
  <2>4. cookdone' \in BOOLEAN
    BY <1>1, <2>1 DEF Start, AlreadyComplete, TypeOK, Row
  <2> QED  BY <1>1, <2>1, <2>2, <2>3, <2>4 DEF Start, TypeOK, PruneType
<1>2. CASE Stop
  BY <1>2, DieType DEF Stop, TypeOK, store, PruneType
<1>3. CASE StatusInSession
  <2>1. PICK active \in BOOLEAN : Record(sessions, session_id, FALSE, active)
    BY <1>3 DEF StatusInSession
  <2>2. session_id \in Id \cup {None}
    BY DEF TypeOK
  <2>3. RecordTyped
    BY <1>0, <2>1, <2>2, RecordType, Zenon
  <2> QED  BY <1>3, <2>3 DEF StatusInSession, TypeOK, RecordTyped
<1>4. CASE StatusIdle
  <2>1. RecordTyped
    BY <1>0, <1>4, RecordType, Zenon DEF StatusIdle
  <2> QED  BY <1>4, <2>1 DEF StatusIdle, TypeOK, RecordTyped
<1>5. CASE StatusOpens
  <2>1. next_id \in Id /\ next_id' \in 1 .. (MaxId + 1)
    BY <1>5, <1>0, BoundsAssumption DEF StatusOpens, TypeOK, Id
  <2>2. OpenRow(sessions, next_id) \in [Id -> Row]
    BY <1>0, <2>1, OpenRowFacts
  <2>3. PICK active \in BOOLEAN :
          Record(OpenRow(sessions, next_id), next_id, TRUE, active)
    BY <1>5 DEF StatusOpens
  <2>4. RecordTyped
    BY <2>1, <2>2, <2>3, RecordType, Zenon
  <2> QED  BY <1>5, <2>1, <2>4 DEF StatusOpens, TypeOK, RecordTyped
<1>6. CASE StatusAfterGap
  <2>1. session_id \in Id
    BY <1>6 DEF StatusAfterGap, Stale, TypeOK
  <2> DEFINE closed == CloseRow(sessions, session_id)
  <2>2. closed \in [Id -> Row]
    BY <1>0, <2>1, CloseRowFacts
  <2>3. prune' \in PruneType
    BY <1>6, <1>0 DEF StatusAfterGap, PruneType
  <2>4. PICK active \in BOOLEAN, thermo \in BOOLEAN :
          IF CookIsActive(active, thermo)
          THEN /\ next_id <= MaxId
               /\ session_id' = next_id
               /\ next_id' = next_id + 1
               /\ Record(OpenRow(closed, next_id), next_id, TRUE, active)
          ELSE /\ session_id' = None
               /\ UNCHANGED next_id
               /\ Record(closed, None, FALSE, active)
    BY <1>6 DEF StatusAfterGap
  <2> HIDE DEF closed
  <2>5. CASE CookIsActive(active, thermo)
    <3>1. next_id \in Id /\ next_id' \in 1 .. (MaxId + 1)
      BY <2>4, <2>5, <1>0, BoundsAssumption DEF TypeOK, Id
    <3>2. OpenRow(closed, next_id) \in [Id -> Row]
      BY <2>2, <3>1, OpenRowFacts
    <3>3. RecordTyped
      BY <2>4, <2>5, <3>1, <3>2, RecordType, Zenon
    <3> QED  BY <2>3, <2>4, <2>5, <3>1, <3>3 DEF TypeOK, PruneType, RecordTyped
  <2>6. CASE ~CookIsActive(active, thermo)
    <3>1. RecordTyped
      BY <2>2, <2>4, <2>6, RecordType, Zenon
    <3> QED  BY <2>3, <2>4, <2>6, <3>1 DEF TypeOK, PruneType, RecordTyped
  <2> QED  BY <2>5, <2>6
<1>7. CASE CrashInHandler
  <2> DEFINE closed == IF Stale THEN CloseRow(sessions, session_id) ELSE sessions
  <2>1. closed \in [Id -> Row]
    BY <1>0, CloseRowFacts DEF Stale, TypeOK
  <2>2. \/ sessions' = closed /\ next_id' = next_id
        \/ /\ next_id <= MaxId
           /\ sessions' = OpenRow(closed, next_id)
           /\ next_id' = next_id + 1
    BY <1>7 DEF CrashInHandler
  <2> HIDE DEF closed
  <2>3. sessions' \in [Id -> Row] /\ next_id' \in 1 .. (MaxId + 1)
    <3>1. CASE sessions' = closed /\ next_id' = next_id
      BY <2>1, <3>1 DEF TypeOK
    <3>2. CASE /\ next_id <= MaxId
               /\ sessions' = OpenRow(closed, next_id)
               /\ next_id' = next_id + 1
      <4>1. next_id \in Id /\ next_id' \in 1 .. (MaxId + 1)
        BY <1>0, <3>2, BoundsAssumption DEF TypeOK, Id
      <4> QED  BY <2>1, <3>2, <4>1, OpenRowFacts
    <3> QED  BY <2>2, <3>1, <3>2
  <2> QED  BY <1>7, <2>3, DieType DEF CrashInHandler, TypeOK, PruneType
<1>8. CASE FinishCook
  <2>1. session_id \in Id
    BY <1>8 DEF FinishCook, TypeOK
  <2>2. MarkCompleted(sessions, session_id) \in [Id -> Row]
    BY <1>0, <2>1, MarkCompletedFacts DEF Gains
  <2>3. sessions' \in [Id -> Row]
    BY <1>8, <1>0, <2>1, <2>2, AddEventFacts DEF FinishCook, Gains
  <2> QED  BY <1>8, <2>3 DEF FinishCook, TypeOK
<1>9. CASE ShutdownSystem
  <2>1. sessions' \in [Id -> Row]
    <3>1. CASE session_id = None
      BY <1>9, <1>0, <3>1 DEF ShutdownSystem
    <3>2. CASE session_id # None
      <4>1. session_id \in Id
        BY <3>2 DEF TypeOK
      <4>2. \/ sessions' = CloseRow(sessions, session_id)
            \/ sessions' = [sessions EXCEPT ![session_id].stuck =
                              sessions[session_id].st = "open"]
        BY <1>9, <3>2 DEF ShutdownSystem
      <4>3. CASE sessions' = CloseRow(sessions, session_id)
        BY <4>1, <4>3, <1>0, CloseRowFacts
      <4>4. CASE sessions' = [sessions EXCEPT ![session_id].stuck =
                                sessions[session_id].st = "open"]
        BY <4>1, <4>4, <1>0 DEF Row
      <4> QED  BY <4>2, <4>3, <4>4
    <3> QED  BY <3>1, <3>2
  <2> QED  BY <1>9, <2>1 DEF ShutdownSystem, TypeOK
<1>10. CASE PowerOff
  BY <1>10, DieType DEF PowerOff, TypeOK, store, memory, PruneType
<1>11. CASE DeleteReturns
  BY <1>11 DEF DeleteReturns, TypeOK, store
<1>12. ASSUME NEW s \in Id, DeleteSession(s) \/ AddNote(s) \/ CleanupDb(s)
       PROVE  TypeOK'
  <2>1. CASE DeleteSession(s)
    BY <2>1, DeleteRowFacts DEF DeleteSession, TypeOK, memory
  <2>2. CASE AddNote(s)
    BY <2>2, AddEventFacts DEF AddNote, Gains, TypeOK, memory
  <2>3. CASE CleanupDb(s)
    <3>1. sessions' \in [Id -> Row]
      <4>1. PICK fired \in BOOLEAN, last \in SampleKind :
              sessions' = [sessions EXCEPT ![s].fired = fired, ![s].last = last]
        BY <2>3 DEF CleanupDb
      <4>2. [sessions[s] EXCEPT !.fired = fired, !.last = last] \in Row
        BY <1>0 DEF Row
      <4> QED  BY <4>1, <4>2, <1>0
    <3> QED  BY <2>3, <3>1 DEF CleanupDb, TypeOK, memory
  <2> QED  BY <1>12, <2>1, <2>2, <2>3
<1>13. ASSUME NEW keep \in Id \cup {None}, PruneList(keep)
       PROVE  TypeOK'
  <2>1. prune' \in PruneType
    BY <1>13, <1>0 DEF PruneList, PruneType, Listed, EndedIds
  <2> QED  BY <1>13, <2>1 DEF PruneList, TypeOK, store, memory, PruneType
<1>14. ASSUME NEW s \in Id, PruneCheck(s) \/ PruneDelete(s)
       PROVE  TypeOK'
  <2>1. CASE PruneCheck(s)
    <3>1. prune' \in PruneType
      BY <2>1, <1>0 DEF PruneCheck, PruneType
    <3> QED  BY <2>1, <3>1 DEF PruneCheck, TypeOK, store, memory, PruneType
  <2>2. CASE PruneDelete(s)
    <3>1. prune' \in PruneType
      BY <2>2, <1>0 DEF PruneDelete, PruneType
    <3>2. sessions' \in [Id -> Row]
      BY <2>2, <1>0, DeleteRowFacts DEF PruneDelete
    <3> QED  BY <2>2, <3>1, <3>2 DEF PruneDelete, TypeOK, memory, PruneType
  <2> QED  BY <1>14, <2>1, <2>2
<1>17. CASE PruneFails
  <2>1. prune' \in PruneType
    <3>1. CASE \E keep \in prune.req :
                 prune' = [prune EXCEPT !.req    = @ \ {keep},
                                        !.failed = @ \cup Listed(keep)]
      BY <3>1, <1>0 DEF PruneType, Listed, EndedIds
    <3>2. CASE \E left \in SUBSET (prune.rows \cup prune.victims) \ {{}} :
                 prune' = [prune EXCEPT !.rows    = @ \ left,
                                        !.victims = @ \ left,
                                        !.failed  = @ \cup left]
      BY <3>2, <1>0 DEF PruneType
    <3> QED  BY <1>17, <3>1, <3>2 DEF PruneFails
  <2> QED  BY <1>17, <2>1 DEF PruneFails, TypeOK, store, memory, PruneType
<1>15. CASE TimePasses
  BY <1>15, AgeFacts DEF TimePasses, TypeOK
<1>16. CASE UNCHANGED vars
  BY <1>16 DEF vars, store, memory, TypeOK
<1> QED
  BY <1>1, <1>2, <1>3, <1>4, <1>5, <1>6, <1>7, <1>8, <1>9, <1>10, <1>11,
     <1>12, <1>13, <1>14, <1>15, <1>16, <1>17 DEF Next

\* Every variable has its type at the start.
LEMMA TypeInit == Init => TypeOK
<1> SUFFICES ASSUME Init PROVE TypeOK
  OBVIOUS
<1>1. ASSUME NEW r \in FirstRow PROVE r \in Row
  <2>1. CASE r = Blank("unused")  BY <2>1, BlankType
  <2>2. CASE r = [Blank("ended") EXCEPT !.last = "idle"]
    BY <2>2 DEF Blank, Row, SampleKind
  <2>3. CASE r = [Blank("open") EXCEPT !.last = "idle"]
    BY <2>3 DEF Blank, Row, SampleKind
  <2>4. CASE r = [Blank("open") EXCEPT !.last = "active", !.fired = TRUE, !.cook = TRUE]
    BY <2>4 DEF Blank, Row, SampleKind
  <2> QED  BY <2>1, <2>2, <2>3, <2>4 DEF FirstRow
<1>2. sessions \in [Id -> Row] /\ next_id \in 1 .. (MaxId + 1)
  BY <1>1, BlankType, BoundsAssumption DEF Init
<1>3. prune \in PruneType
  BY PruneTypeFacts DEF Init, NoPrune
<1> QED  BY <1>2, <1>3, AgeFacts DEF Init, TypeOK, PruneType

\* Every variable of the session keeper has its type in every behaviour.
THEOREM TypeCorrect == Spec => []TypeOK
<1>1. Init => TypeOK                  BY TypeInit
<1>2. TypeOK /\ [Next]_vars => TypeOK'  BY TypeStep
<1> QED  BY <1>1, <1>2, PTL DEF Spec

-----------------------------------------------------------------------------
(* The inductive invariant.  Each lemma is about one way a step changes    *)
(* the table of sessions.                                                  *)

\* The inductive invariant, conjunct by conjunct.
LEMMA IInvParts ==
  ASSUME IInv
  PROVE  /\ sessions \in [Id -> Row] /\ session_id \in Id \cup {None}
         /\ next_id \in Nat /\ deleting \in Id \cup {None}
         /\ up \in BOOLEAN /\ cookdone \in BOOLEAN /\ session_completed \in BOOLEAN
         /\ prune \in PruneType
         /\ prune.rows \subseteq Id /\ prune.victims \subseteq Id
BY DEF IInv, TypeOK, PruneType

\* No session opens or closes.
LEMMA StatesKept ==
  ASSUME IInv, TypeOK',
         \A i \in Id : /\ sessions'[i].st = sessions[i].st
                       /\ sessions'[i].stuck = sessions[i].stuck,
         UNCHANGED <<next_id, up, session_id, deleting>>
  PROVE  IdsInOrder' /\ NewestIsOpen' /\ DeletingIsGone' /\ CurrentIsOpen'
<1> USE IInvParts DEF IInv
<1>1. OpenIds' = OpenIds
  BY DEF OpenIds
<1>2. OpenIds \subseteq Id
  BY DEF OpenIds
<1>3. IdsInOrder'      BY DEF IdsInOrder
<1>4. NewestIsOpen'    BY <1>1, <1>2 DEF NewestIsOpen
<1>5. DeletingIsGone'  BY DEF DeletingIsGone
<1>6. CurrentIsOpen'   BY <1>1, <1>2 DEF CurrentIsOpen
<1> QED  BY <1>3, <1>4, <1>5, <1>6

\* Only the current session gains evidence.
LEMMA CurrentGains ==
  ASSUME IInv, TypeOK',
         Gains(sessions, sessions', session_id),
         session_id # None /\ sessions'[session_id].done => cookdone',
         UNCHANGED <<next_id, up, session_id, deleting, prune>>
  PROVE  IInv'
<1>1. IdsInOrder' /\ NewestIsOpen' /\ DeletingIsGone' /\ CurrentIsOpen'
  BY StatesKept DEF Gains
<1>2. CompletedIsLatched'
  BY DEF CompletedIsLatched
<1>3. PrunerHoldsEnded'
  BY IInvParts DEF IInv, PrunerHoldsEnded, Gains
<1>4. VictimsAreEmpty'
  <2> SUFFICES ASSUME NEW s \in prune.victims
               PROVE  ~sessions'[s].fired /\ ~sessions'[s].done
    BY DEF VictimsAreEmpty
  <2>1. s \in Id /\ sessions[s].st \in {"ended", "gone"}
    BY IInvParts DEF IInv, PrunerHoldsEnded
  <2>2. s # session_id \/ ~Exists(sessions, s)
    BY <2>1, NoneIsNoId DEF IInv, CurrentIsOpen, Exists
  <2>3. sessions'[s] = sessions[s]
    BY <2>1, <2>2 DEF Gains
  <2> QED  BY <2>3 DEF IInv, VictimsAreEmpty
<1> QED  BY <1>1, <1>2, <1>3, <1>4 DEF IInv

\* Rows may end, or be marked stuck; they change in no other way.
Ends(t, u) ==
  /\ u \in [Id -> Row]
  /\ \A i \in Id : /\ u[i].done  = t[i].done
                   /\ u[i].fired = t[i].fired
                   /\ \/ u[i].st = t[i].st
                      \/ t[i].st = "open" /\ u[i].st = "ended"

\* Once the current session is closed every open row left is a stuck one.
LEMMA CloseCurrent ==
  ASSUME IInv, up
  PROVE  LET t == IF session_id # None THEN CloseRow(sessions, session_id)
                  ELSE sessions
         IN Ends(sessions, t) /\ \A i \in Id : t[i].st = "open" => t[i].stuck
<1> USE IInvParts
<1>1. CASE session_id = None
  BY <1>1, NoneIsNoId DEF Ends, IInv, CurrentIsOpen, OpenIds
<1>2. CASE session_id # None
  <2>1. session_id \in Id  BY <1>2
  <2> DEFINE t == CloseRow(sessions, session_id)
  <2>2. /\ t \in [Id -> Row]
        /\ t[session_id] = [sessions[session_id] EXCEPT !.st = IF @ = "open" THEN "ended" ELSE @]
        /\ \A i \in Id \ {session_id} : t[i] = sessions[i]
    BY <2>1, CloseRowFacts
  <2> HIDE DEF t
  <2>3. /\ t[session_id].st = IF sessions[session_id].st = "open" THEN "ended"
                              ELSE sessions[session_id].st
        /\ t[session_id].stuck = sessions[session_id].stuck
        /\ t[session_id].done = sessions[session_id].done
        /\ t[session_id].fired = sessions[session_id].fired
    BY <2>1, <2>2 DEF Row
  <2>4. Ends(sessions, t)
    BY <2>2, <2>3 DEF Ends
  <2>5. \A i \in Id : t[i].st = "open" => t[i].stuck
    BY <2>2, <2>3 DEF IInv, CurrentIsOpen, OpenIds
  <2> QED  BY <1>2, <2>4, <2>5 DEF t
<1> QED  BY <1>1, <1>2

\* The current session, if any, is closed and no other takes its place.
LEMMA NoCurrent ==
  ASSUME IInv, TypeOK', NEW t, Ends(sessions, t),
         \A i \in Id : t[i].st = "open" => t[i].stuck,
         Gains(t, sessions', None),
         session_id' = None, next_id' = next_id,
         deleting' \in {deleting, None},
         prune'.rows \subseteq prune.rows, prune'.victims \subseteq prune.victims
  PROVE  IInv'
<1> USE IInvParts DEF IInv
<1>1. \A i \in Id : sessions'[i] = t[i]
  BY NoneIsNoId DEF Gains
<1>2. OpenIds' \subseteq OpenIds /\ \A i \in OpenIds' : i \in Id /\ sessions'[i].stuck
  BY <1>1 DEF OpenIds, Ends
<1>3. IdsInOrder'
  BY <1>1 DEF IdsInOrder, Ends
<1>4. NewestIsOpen'  BY <1>2 DEF NewestIsOpen
<1>5. DeletingIsGone'
  BY <1>1, NoneIsNoId DEF DeletingIsGone, Ends
<1>6. CurrentIsOpen'  BY <1>2 DEF CurrentIsOpen
<1>7. CompletedIsLatched'  BY DEF CompletedIsLatched
<1>8. PrunerHoldsEnded'
  BY <1>1 DEF PrunerHoldsEnded, Ends
<1>9. VictimsAreEmpty'
  BY <1>1 DEF VictimsAreEmpty, Ends
<1> QED  BY <1>3, <1>4, <1>5, <1>6, <1>7, <1>8, <1>9

\* The current session, if any, is closed and the next one opens.
LEMMA NextOpens ==
  ASSUME IInv, TypeOK', NEW t, Ends(sessions, t),
         \A i \in Id : t[i].st = "open" => t[i].stuck,
         next_id \in Id, next_id' = next_id + 1,
         Gains(OpenRow(t, next_id), sessions', next_id),
         session_id' = IF up' THEN next_id ELSE None,
         up' /\ sessions'[next_id].done => cookdone',
         deleting' \in {deleting, None},
         prune'.rows \subseteq prune.rows, prune'.victims \subseteq prune.victims
  PROVE  IInv'
<1> USE IInvParts DEF IInv
<1>0. t \in [Id -> Row]  BY DEF Ends
<1>1. /\ OpenRow(t, next_id)[next_id].st = "open"
      /\ ~OpenRow(t, next_id)[next_id].stuck
      /\ \A i \in Id \ {next_id} : OpenRow(t, next_id)[i] = t[i]
  BY <1>0, OpenRowFacts
<1>2. /\ sessions'[next_id].st = "open"
      /\ ~sessions'[next_id].stuck
      /\ \A i \in Id \ {next_id} : sessions'[i] = t[i]
  BY <1>1 DEF Gains
<1>3. sessions[next_id].st = "unused"
  BY DEF IdsInOrder, Id
<1>4. \A i \in Id : sessions[i].st # "unused" => i < next_id
  BY BoundsAssumption DEF IdsInOrder, Id
<1>5. \A i \in OpenIds' : /\ i \in Id /\ i <= next_id
                          /\ i # next_id => sessions'[i].stuck
  <2> SUFFICES ASSUME NEW i \in OpenIds'
               PROVE  i \in Id /\ i <= next_id /\ (i # next_id => sessions'[i].stuck)
    OBVIOUS
  <2>1. i \in Id /\ sessions'[i].st = "open"
    BY DEF OpenIds
  <2>2. CASE i = next_id
    BY <2>1, <2>2
  <2>3. CASE i # next_id
    <3>1. t[i].st = "open" /\ t[i].stuck /\ sessions'[i] = t[i]
      BY <1>2, <2>1, <2>3
    <3>2. sessions[i].st = "open"
      BY <2>1, <3>1 DEF Ends
    <3>3. i < next_id
      BY <1>4, <2>1, <3>2
    <3> QED  BY <2>1, <3>1, <3>3 DEF Id
  <2> QED  BY <2>2, <2>3
<1>6. IdsInOrder'
  <2> SUFFICES ASSUME NEW i \in Id
               PROVE  sessions'[i].st = "unused" <=> i >= next_id + 1
    BY DEF IdsInOrder
  <2>1. CASE i = next_id
    BY <1>2, <2>1
  <2>2. CASE i # next_id
    <3>1. sessions'[i].st = "unused" <=> sessions[i].st = "unused"
      BY <1>2, <2>2 DEF Ends
    <3>2. sessions[i].st = "unused" <=> i >= next_id
      BY DEF IdsInOrder
    <3> QED  BY <2>2, <3>1, <3>2 DEF Id
  <2> QED  BY <2>1, <2>2
<1>7. NewestIsOpen'
  BY <1>5 DEF NewestIsOpen
<1>8. DeletingIsGone'
  <2>1. CASE deleting' = None
    BY <2>1 DEF DeletingIsGone
  <2>2. CASE deleting' # None
    <3>1. deleting' \in Id /\ deleting' = deleting /\ sessions[deleting].st = "gone"
      BY <2>2 DEF DeletingIsGone
    <3>2. deleting # next_id
      BY <3>1, <1>3
    <3> QED  BY <1>2, <3>1, <3>2 DEF DeletingIsGone, Ends
  <2> QED  BY <2>1, <2>2
<1>9. CurrentIsOpen'
  <2>1. session_id' # None => sessions'[session_id'].st = "open"
    BY <1>2
  <2>2. \A s \in OpenIds' : up' => s = session_id' \/ sessions'[s].stuck
    BY <1>5
  <2>3. \A s, i \in OpenIds' : s # i => sessions'[s].stuck \/ sessions'[i].stuck
    BY <1>5
  <2> QED  BY <2>1, <2>2, <2>3 DEF CurrentIsOpen
<1>10. CompletedIsLatched'
  BY DEF CompletedIsLatched
<1>11. PrunerHoldsEnded'
  BY <1>2, <1>3 DEF PrunerHoldsEnded, Ends
<1>12. VictimsAreEmpty'
  BY <1>2, <1>3 DEF VictimsAreEmpty, PrunerHoldsEnded, Ends
<1> QED  BY <1>6, <1>7, <1>8, <1>9, <1>10, <1>11, <1>12

\* A row that exists is deleted.
LEMMA Deletes ==
  ASSUME IInv, TypeOK', NEW s \in Id,
         sessions' = DeleteRow(sessions, s),
         UNCHANGED <<next_id, up, session_id, cookdone>>,
         \/ deleting = None /\ deleting' = s /\ Exists(sessions, s)
         \/ deleting' = deleting /\ (s # session_id \/ ~Exists(sessions, s)),
         prune'.rows \subseteq prune.rows, prune'.victims \subseteq prune.victims
  PROVE  IInv'
<1> USE IInvParts DEF IInv
<1>1. /\ Exists(sessions, s) => sessions'[s] = Blank("gone")
      /\ ~Exists(sessions, s) => sessions'[s] = sessions[s]
      /\ \A i \in Id \ {s} : sessions'[i] = sessions[i]
  BY DeleteRowFacts
<1>2. /\ Blank("gone").st = "gone" /\ ~Blank("gone").done
      /\ ~Blank("gone").fired
  BY DEF Blank
<1>3. OpenIds' = OpenIds \ {s} /\ OpenIds \subseteq Id
  BY <1>1, <1>2 DEF OpenIds, Exists
<1>4. IdsInOrder'
  BY <1>1, <1>2 DEF IdsInOrder, Exists
<1>5. NewestIsOpen'
  BY <1>1, <1>3 DEF NewestIsOpen
<1>6. DeletingIsGone'
  BY <1>1, <1>2, NoneIsNoId DEF DeletingIsGone, Exists
<1>7. CurrentIsOpen'
  <2>1. \A i \in OpenIds' : up' => i = session_id' \/ sessions'[i].stuck
    BY <1>1, <1>3 DEF CurrentIsOpen
  <2>2. \A i, j \in OpenIds' : i # j => sessions'[i].stuck \/ sessions'[j].stuck
    BY <1>1, <1>3 DEF CurrentIsOpen
  <2>3. session_id' # None =>
          \/ sessions'[session_id'].st = "open"
          \/ sessions'[session_id'].st = "gone" /\ deleting' = session_id'
    BY <1>1, <1>2, NoneIsNoId DEF CurrentIsOpen
  <2> QED  BY <2>1, <2>2, <2>3 DEF CurrentIsOpen
<1>8. CompletedIsLatched'
  BY <1>1, <1>2, NoneIsNoId DEF CompletedIsLatched
<1>9. PrunerHoldsEnded'
  BY <1>1, <1>2 DEF PrunerHoldsEnded
<1>10. VictimsAreEmpty'
  BY <1>1, <1>2 DEF VictimsAreEmpty
<1> QED  BY <1>4, <1>5, <1>6, <1>7, <1>8, <1>9, <1>10

\* A start resumes the newest open session or closes it; any other open
\* session is a stuck one.
LEMMA StartKeeps ==
  ASSUME IInv, TypeOK', Start
  PROVE  IInv'
<1> USE IInvParts DEF IInv
<1> DEFINE existing == OpenSession
           resume == existing # None /\ sessions[existing].last = "active"
<1>1. /\ ~up /\ up'
      /\ sessions' = IF existing # None /\ ~resume
                     THEN CloseRow(sessions, existing) ELSE sessions
      /\ session_id' = IF resume THEN existing ELSE None
      /\ cookdone' = AlreadyComplete(existing)
      /\ prune'.rows = prune.rows /\ prune'.victims = prune.victims
      /\ UNCHANGED <<next_id, deleting>>
  BY DEF Start, PruneType
<1>2. existing # None => /\ existing \in OpenIds /\ existing \in Id
                         /\ sessions[existing].st = "open"
                         /\ \A o \in OpenIds : o # existing => sessions[o].stuck
  <2> SUFFICES ASSUME existing # None
               PROVE  /\ existing \in OpenIds /\ existing \in Id
                      /\ sessions[existing].st = "open"
                      /\ \A o \in OpenIds : o # existing => sessions[o].stuck
    OBVIOUS
  <2>1. existing \in OpenIds /\ \A o \in OpenIds : o <= existing
    BY OpenSessionFacts
  <2>2. OpenIds \subseteq Id
    BY DEF OpenIds
  <2>3. ASSUME NEW o \in OpenIds, ~sessions[o].stuck PROVE o = existing
    BY <2>1, <2>2, <2>3 DEF NewestIsOpen, Id
  <2> QED  BY <2>1, <2>2, <2>3 DEF OpenIds
<1>3. existing = None => OpenIds = {}
  BY OpenSessionFacts, NoneIsNoId DEF OpenIds
<1> HIDE DEF existing
<1>4. CASE resume
  <2>1. /\ sessions' = sessions /\ session_id' = existing
        /\ cookdone' = AlreadyComplete(existing)
    BY <1>1, <1>4
  <2>2. OpenIds' = OpenIds
    BY <2>1 DEF OpenIds
  <2>3. IdsInOrder' /\ NewestIsOpen' /\ DeletingIsGone'
    BY <1>1, <2>1, <2>2 DEF IdsInOrder, NewestIsOpen, DeletingIsGone
  <2>4. CurrentIsOpen'
    BY <1>1, <1>2, <1>4, <2>1, <2>2 DEF CurrentIsOpen
  <2>5. CompletedIsLatched'
    BY <2>1 DEF CompletedIsLatched, AlreadyComplete
  <2>6. PrunerHoldsEnded' /\ VictimsAreEmpty'
    BY <1>1, <2>1 DEF PrunerHoldsEnded, VictimsAreEmpty
  <2> QED  BY <2>3, <2>4, <2>5, <2>6
<1>5. CASE ~resume
  <2>1. Ends(sessions, sessions') /\ \A i \in Id : sessions'[i].st = "open" => sessions'[i].stuck
    <3>1. CASE existing = None
      BY <1>1, <1>3, <3>1 DEF Ends, OpenIds
    <3>2. CASE existing # None
      <4>1. /\ sessions' \in [Id -> Row]
            /\ sessions'[existing] = [sessions[existing] EXCEPT !.st = IF @ = "open" THEN "ended" ELSE @]
            /\ \A i \in Id \ {existing} : sessions'[i] = sessions[i]
        BY <1>1, <1>2, <1>5, <3>2, CloseRowFacts
      <4>2. /\ sessions'[existing].st = "ended"
            /\ sessions'[existing].stuck = sessions[existing].stuck
            /\ sessions'[existing].done = sessions[existing].done
            /\ sessions'[existing].fired = sessions[existing].fired
        BY <1>2, <3>2, <4>1 DEF Row
      <4>3. Ends(sessions, sessions')
        BY <1>2, <3>2, <4>1, <4>2 DEF Ends
      <4> QED  BY <1>2, <3>2, <4>1, <4>2, <4>3 DEF OpenIds
    <3> QED  BY <3>1, <3>2
  <2>2. Gains(sessions', sessions', None)
    BY <2>1 DEF Gains, Ends
  <2> QED  BY <1>1, <1>5, <2>1, <2>2, NoCurrent
<1> QED  BY <1>4, <1>5

\* The process dies and the table stays as it is: Stop and PowerOff.
LEMMA DieKeeps ==
  ASSUME IInv, TypeOK', Die, UNCHANGED store
  PROVE  IInv'
<1> USE IInvParts, NoneIsNoId DEF IInv, Die, NoPrune, store
<1>1. OpenIds' = OpenIds
  BY DEF OpenIds
<1>2. IdsInOrder' /\ NewestIsOpen'  BY <1>1 DEF IdsInOrder, NewestIsOpen
<1>3. CurrentIsOpen'  BY <1>1 DEF CurrentIsOpen
<1>4. DeletingIsGone' /\ CompletedIsLatched' /\ PrunerHoldsEnded' /\ VictimsAreEmpty'
  BY DEF DeletingIsGone, CompletedIsLatched, PrunerHoldsEnded, VictimsAreEmpty
<1> QED  BY <1>2, <1>3, <1>4

\* The loop forgets a session whose rows are gone.
LEMMA ForgetKeeps ==
  ASSUME IInv, TypeOK', DeleteReturns
  PROVE  IInv'
<1> USE IInvParts DEF IInv
<1>1. /\ up /\ deleting # None /\ deleting' = None
      /\ session_id' = IF session_id = deleting THEN None ELSE session_id
      /\ UNCHANGED <<sessions, next_id, up, cookdone, prune>>
  BY DEF DeleteReturns, store
<1>2. OpenIds' = OpenIds /\ OpenIds \subseteq Id
  BY <1>1 DEF OpenIds
<1>3. IdsInOrder' /\ NewestIsOpen' /\ DeletingIsGone'
  BY <1>1, <1>2 DEF IdsInOrder, NewestIsOpen, DeletingIsGone
<1>4. CurrentIsOpen'
  <2>1. deleting \notin OpenIds
    BY <1>1 DEF DeletingIsGone, OpenIds
  <2>2. session_id' # None => sessions'[session_id'].st = "open"
    BY <1>1 DEF CurrentIsOpen
  <2> QED  BY <1>1, <1>2, <2>1, <2>2 DEF CurrentIsOpen
<1>5. CompletedIsLatched' /\ PrunerHoldsEnded' /\ VictimsAreEmpty'
  BY <1>1 DEF CompletedIsLatched, PrunerHoldsEnded, VictimsAreEmpty
<1> QED  BY <1>3, <1>4, <1>5

\* A note is written on any session that exists.
LEMMA NoteKeeps ==
  ASSUME IInv, TypeOK', NEW s \in Id, AddNote(s)
  PROVE  IInv'
<1> USE IInvParts DEF IInv
<1>1. /\ sessions' = AddEvent(sessions, s)
      /\ UNCHANGED <<next_id, up, session_id, cookdone, prune, deleting>>
  BY DEF AddNote, memory
<1>2. \A i \in Id : /\ sessions'[i].st = sessions[i].st
                    /\ sessions'[i].stuck = sessions[i].stuck
                    /\ sessions'[i].done = sessions[i].done
                    /\ sessions'[i].fired = sessions[i].fired
  BY <1>1, AddEventFacts DEF Gains
<1>3. IdsInOrder' /\ NewestIsOpen' /\ DeletingIsGone' /\ CurrentIsOpen'
  BY <1>1, <1>2, StatesKept
<1>4. CompletedIsLatched' /\ PrunerHoldsEnded' /\ VictimsAreEmpty'
  BY <1>1, <1>2 DEF CompletedIsLatched, PrunerHoldsEnded, VictimsAreEmpty
<1> QED  BY <1>3, <1>4

\* Retention and thinning take evidence away from a session, never add any.
LEMMA CleanupKeeps ==
  ASSUME IInv, TypeOK', NEW s \in Id, CleanupDb(s)
  PROVE  IInv'
<1> USE IInvParts DEF IInv
<1>1. /\ \E fired \in BOOLEAN, last \in SampleKind :
           /\ fired => sessions[s].fired
           /\ sessions' = [sessions EXCEPT ![s].fired = fired, ![s].last = last]
      /\ UNCHANGED <<next_id, up, session_id, cookdone, prune, deleting>>
  BY DEF CleanupDb, memory
<1>2. \A i \in Id : /\ sessions'[i].st = sessions[i].st
                    /\ sessions'[i].stuck = sessions[i].stuck
                    /\ sessions'[i].done = sessions[i].done
                    /\ sessions'[i].fired => sessions[i].fired
  BY <1>1 DEF Row
<1>3. IdsInOrder' /\ NewestIsOpen' /\ DeletingIsGone' /\ CurrentIsOpen'
  BY <1>1, <1>2, StatesKept
<1>4. CompletedIsLatched' /\ PrunerHoldsEnded' /\ VictimsAreEmpty'
  BY <1>1, <1>2 DEF CompletedIsLatched, PrunerHoldsEnded, VictimsAreEmpty
<1> QED  BY <1>3, <1>4

\* The pruner lists rows that have ended ...
LEMMA PrunerLists ==
  ASSUME IInv, TypeOK', UNCHANGED <<store, memory, up, deleting>>,
         NEW more \in SUBSET EndedIds,
         prune'.rows = prune.rows \cup more, prune'.victims = prune.victims
  PROVE  IInv'
<1> USE IInvParts DEF IInv, store, memory
<1>1. IdsInOrder' /\ NewestIsOpen' /\ DeletingIsGone' /\ CurrentIsOpen'
  BY StatesKept
<1>2. CompletedIsLatched' /\ PrunerHoldsEnded' /\ VictimsAreEmpty'
  BY DEF CompletedIsLatched, PrunerHoldsEnded, VictimsAreEmpty, EndedIds
<1> QED  BY <1>1, <1>2

\* ... lets go of what it holds when the store fails it ...
LEMMA PrunerLetsGo ==
  ASSUME IInv, TypeOK', UNCHANGED <<store, memory, up, deleting>>,
         prune'.rows \subseteq prune.rows, prune'.victims \subseteq prune.victims
  PROVE  IInv'
<1> USE IInvParts DEF IInv, store, memory
<1>1. IdsInOrder' /\ NewestIsOpen' /\ DeletingIsGone' /\ CurrentIsOpen'
  BY StatesKept
<1>2. CompletedIsLatched' /\ PrunerHoldsEnded' /\ VictimsAreEmpty'
  BY DEF CompletedIsLatched, PrunerHoldsEnded, VictimsAreEmpty
<1> QED  BY <1>1, <1>2

\* ... and picks victims among them that have no activity.
LEMMA PrunerChecks ==
  ASSUME IInv, TypeOK', UNCHANGED <<store, memory, up, deleting>>,
         NEW s \in prune.rows, prune'.rows = prune.rows \ {s},
         prune'.victims = IF HasActivity(sessions, s) THEN prune.victims
                          ELSE prune.victims \cup {s}
  PROVE  IInv'
<1> USE IInvParts DEF IInv, store, memory
<1>1. IdsInOrder' /\ NewestIsOpen' /\ DeletingIsGone' /\ CurrentIsOpen'
  BY StatesKept
<1>2. CompletedIsLatched' /\ PrunerHoldsEnded'
  BY DEF CompletedIsLatched, PrunerHoldsEnded
<1>3. VictimsAreEmpty'
  BY DEF VictimsAreEmpty, HasActivity
<1> QED  BY <1>1, <1>2, <1>3

\* A step that changes nothing keeps the invariant.
LEMMA NothingKeeps ==
  ASSUME IInv, TypeOK',
         UNCHANGED <<sessions, next_id, up, session_id, cookdone, prune, deleting>>
  PROVE  IInv'
<1>1. Gains(sessions, sessions', session_id)
  BY IInvParts DEF Gains
<1> QED  BY <1>1, CurrentGains DEF IInv, CompletedIsLatched

\* The rest of the handler of a status line, seen as a change of the table.
RecordKeeps(t, sid, fresh) ==
  /\ Gains(t, sessions', sid)
  /\ sid # None /\ sessions'[sid].done /\ ~t[sid].done => cookdone'
  /\ ~fresh /\ cookdone => cookdone'
  /\ fresh => ~cookdone'
  /\ UNCHANGED <<up, halting, deleting>>

\* The table after a status line only gains evidence.
LEMMA RecordTable ==
  ASSUME IInv, NEW t \in [Id -> Row], NEW sid \in Id \cup {None},
         NEW fresh \in BOOLEAN, NEW active \in BOOLEAN,
         Record(t, sid, fresh, active)
  PROVE  RecordKeeps(t, sid, fresh)
<1>1. cookdone \in BOOLEAN /\ session_completed \in BOOLEAN
  BY IInvParts
<1> QED  BY <1>1, RecordFacts DEF RecordKeeps

\* finish_cook completes the current session.
LEMMA FinishGains ==
  ASSUME IInv, FinishCook
  PROVE  Gains(sessions, sessions', session_id)
<1>i. sessions \in [Id -> Row] /\ session_id \in Id
  BY IInvParts DEF FinishCook
<1>1. PICK marked \in BOOLEAN :
        sessions' = AddEvent(IF marked THEN MarkCompleted(sessions, session_id)
                             ELSE sessions, session_id)
  BY DEF FinishCook
<1> DEFINE t == IF marked THEN MarkCompleted(sessions, session_id) ELSE sessions
<1>2. Gains(sessions, t, session_id)
  <2>1. CASE marked  BY <2>1, <1>i, MarkCompletedFacts
  <2>2. CASE ~marked  BY <2>2, <1>i DEF Gains
  <2> QED  BY <2>1, <2>2
<1> HIDE DEF t
<1>3. t \in [Id -> Row] /\ sessions' = AddEvent(t, session_id)
  BY <1>1, <1>2 DEF Gains, t
<1>4. Gains(t, sessions', session_id)
  BY <1>i, <1>3, AddEventFacts
<1> QED  BY <1>2, <1>4 DEF Gains, Exists

\* Every step keeps the inductive invariant.
LEMMA IInvStep == IInv /\ [Next]_vars => IInv'
<1> SUFFICES ASSUME IInv, [Next]_vars
             PROVE  IInv'
  OBVIOUS
<1>t. TypeOK'
  BY TypeStep DEF IInv
<1>i. /\ sessions \in [Id -> Row] /\ session_id \in Id \cup {None}
      /\ next_id \in Nat /\ prune \in PruneType
  BY IInvParts
<1>1. CASE Start
  BY <1>1, <1>t, StartKeeps
<1>2. CASE Stop
  BY <1>2, <1>t, DieKeeps DEF Stop
<1>3. CASE StatusInSession
  <2>1. PICK active \in BOOLEAN : Record(sessions, session_id, FALSE, active)
    BY <1>3 DEF StatusInSession
  <2>2. RecordKeeps(sessions, session_id, FALSE)
    BY <1>i, <2>1, RecordTable, Zenon
  <2>3. session_id # None /\ sessions'[session_id].done => cookdone'
    BY <2>2 DEF RecordKeeps, IInv, CompletedIsLatched
  <2> QED
    BY <1>3, <1>t, <2>2, <2>3, CurrentGains DEF StatusInSession, RecordKeeps
<1>4. CASE StatusIdle
  <2>1. RecordKeeps(sessions, None, FALSE)
    BY <1>4, <1>i, RecordTable, Zenon DEF StatusIdle
  <2> QED
    BY <1>4, <1>t, <2>1, CurrentGains DEF StatusIdle, RecordKeeps
<1>5. CASE StatusOpens
  <2>1. /\ up /\ session_id = None
        /\ next_id \in Id /\ next_id' = next_id + 1
        /\ session_id' = next_id /\ prune' = prune
    BY <1>5, <1>i, BoundsAssumption DEF StatusOpens, IInv, TypeOK, Id
  <2>2. Ends(sessions, sessions) /\ \A i \in Id : sessions[i].st = "open" => sessions[i].stuck
    BY <2>1, CloseCurrent
  <2>3. /\ OpenRow(sessions, next_id) \in [Id -> Row]
        /\ ~OpenRow(sessions, next_id)[next_id].done
    BY <1>i, <2>1, OpenRowFacts
  <2>4. PICK active \in BOOLEAN :
          Record(OpenRow(sessions, next_id), next_id, TRUE, active)
    BY <1>5 DEF StatusOpens
  <2>5. RecordKeeps(OpenRow(sessions, next_id), next_id, TRUE)
    BY <2>1, <2>3, <2>4, RecordTable, Zenon
  <2> QED
    BY <1>t, <1>i, <2>1, <2>2, <2>3, <2>5, NoneIsNoId, NextOpens DEF RecordKeeps
<1>6. CASE StatusAfterGap
  <2> DEFINE closed == CloseRow(sessions, session_id)
  <2>1. /\ up /\ session_id # None
        /\ prune'.rows = prune.rows /\ prune'.victims = prune.victims
    BY <1>6, <1>i DEF StatusAfterGap, Stale, PruneType
  <2>2. Ends(sessions, closed) /\ \A i \in Id : closed[i].st = "open" => closed[i].stuck
    BY <2>1, CloseCurrent
  <2>3. PICK active \in BOOLEAN, thermo \in BOOLEAN :
          IF CookIsActive(active, thermo)
          THEN /\ next_id <= MaxId
               /\ session_id' = next_id
               /\ next_id' = next_id + 1
               /\ Record(OpenRow(closed, next_id), next_id, TRUE, active)
          ELSE /\ session_id' = None
               /\ UNCHANGED next_id
               /\ Record(closed, None, FALSE, active)
    BY <1>6 DEF StatusAfterGap
  <2> HIDE DEF closed
  <2>4. closed \in [Id -> Row]
    BY <2>2 DEF Ends
  <2>5. CASE CookIsActive(active, thermo)
    <3>0. /\ next_id <= MaxId /\ next_id' = next_id + 1 /\ session_id' = next_id
          /\ Record(OpenRow(closed, next_id), next_id, TRUE, active)
      BY <2>3, <2>5
    <3>1. next_id \in Id
      BY <3>0, BoundsAssumption DEF IInv, TypeOK, Id
    <3>2. /\ OpenRow(closed, next_id) \in [Id -> Row]
          /\ ~OpenRow(closed, next_id)[next_id].done
      BY <2>4, <3>1, OpenRowFacts
    <3>3. RecordKeeps(OpenRow(closed, next_id), next_id, TRUE)
      BY <3>0, <3>1, <3>2, RecordTable, Zenon
    <3> QED
      BY <1>t, <2>1, <2>2, <3>0, <3>1, <3>2, <3>3, NoneIsNoId, NextOpens DEF RecordKeeps
  <2>6. CASE ~CookIsActive(active, thermo)
    <3>1. RecordKeeps(closed, None, FALSE)
      BY <2>3, <2>4, <2>6, RecordTable, Zenon
    <3> QED
      BY <1>t, <2>1, <2>2, <2>3, <2>6, <3>1, NoCurrent DEF RecordKeeps
  <2> QED  BY <2>5, <2>6
<1>7. CASE CrashInHandler
  <2> DEFINE closed == IF Stale THEN CloseRow(sessions, session_id) ELSE sessions
  <2>1. /\ up /\ ~up' /\ session_id' = None /\ deleting' = None
        /\ prune'.rows = {} /\ prune'.victims = {}
        /\ closed = IF session_id # None THEN CloseRow(sessions, session_id) ELSE sessions
        /\ \/ sessions' = closed /\ next_id' = next_id
           \/ /\ next_id <= MaxId
              /\ sessions' = OpenRow(closed, next_id)
              /\ next_id' = next_id + 1
    BY <1>7 DEF CrashInHandler, Die, NoPrune, Stale
  <2> HIDE DEF closed
  <2>2. Ends(sessions, closed) /\ \A i \in Id : closed[i].st = "open" => closed[i].stuck
    BY <2>1, CloseCurrent
  <2>3. sessions' \in [Id -> Row]
    BY <1>t DEF TypeOK
  <2>4. CASE sessions' = closed /\ next_id' = next_id
    <3>1. Gains(closed, sessions', None)
      BY <2>3, <2>4 DEF Gains
    <3> QED  BY <1>t, <2>1, <2>2, <2>4, <3>1, NoCurrent
  <2>5. CASE /\ next_id <= MaxId
             /\ sessions' = OpenRow(closed, next_id)
             /\ next_id' = next_id + 1
    <3>1. next_id \in Id
      BY <1>i, <2>5, BoundsAssumption DEF IInv, TypeOK, Id
    <3>2. Gains(OpenRow(closed, next_id), sessions', next_id)
      BY <2>3, <2>5 DEF Gains
    <3> QED  BY <1>t, <2>1, <2>2, <2>5, <3>1, <3>2, NextOpens
  <2> QED  BY <2>1, <2>4, <2>5
<1>8. CASE FinishCook
  <2>1. Gains(sessions, sessions', session_id)
    BY <1>8, FinishGains
  <2> QED  BY <1>8, <1>t, <2>1, CurrentGains DEF FinishCook
<1>9. CASE ShutdownSystem
  <2>1. /\ up /\ session_id' = None
        /\ UNCHANGED <<next_id, up, deleting, prune>>
    BY <1>9 DEF ShutdownSystem
  <2>2. Ends(sessions, sessions') /\ \A i \in Id : sessions'[i].st = "open" => sessions'[i].stuck
    <3> DEFINE closed == IF session_id # None THEN CloseRow(sessions, session_id) ELSE sessions
    <3>1. \/ sessions' = closed
          \/ /\ session_id # None
             /\ sessions' = [sessions EXCEPT ![session_id].stuck =
                               sessions[session_id].st = "open"]
      BY <1>9 DEF ShutdownSystem
    <3>2. CASE sessions' = closed
      BY <2>1, <3>2, CloseCurrent
    <3>3. CASE /\ session_id # None
               /\ sessions' = [sessions EXCEPT ![session_id].stuck =
                                 sessions[session_id].st = "open"]
      <4>1. session_id \in Id /\ sessions' \in [Id -> Row]
        BY <1>i, <1>t, <3>3 DEF TypeOK
      <4>2. /\ sessions'[session_id].st = sessions[session_id].st
            /\ sessions'[session_id].done = sessions[session_id].done
            /\ sessions'[session_id].fired = sessions[session_id].fired
            /\ sessions'[session_id].stuck = (sessions[session_id].st = "open")
            /\ \A i \in Id \ {session_id} : sessions'[i] = sessions[i]
        BY <1>i, <3>3, <4>1 DEF Row
      <4>3. Ends(sessions, sessions')
        BY <4>1, <4>2 DEF Ends
      <4>4. ASSUME NEW i \in Id, sessions'[i].st = "open" PROVE sessions'[i].stuck
        BY <2>1, <4>1, <4>2, <4>4 DEF IInv, CurrentIsOpen, OpenIds
      <4> QED  BY <4>3, <4>4
    <3> QED  BY <3>1, <3>2, <3>3
  <2>3. Gains(sessions', sessions', None)
    BY <2>2 DEF Gains, Ends
  <2> QED  BY <1>t, <2>1, <2>2, <2>3, NoCurrent
<1>10. CASE PowerOff
  <2>1. CASE Die
    BY <1>10, <2>1, <1>t, DieKeeps DEF PowerOff
  <2>2. CASE UNCHANGED <<up, memory, prune, deleting>>
    <3>1. /\ UNCHANGED <<sessions, next_id, up, session_id, cookdone, prune, deleting>>
      BY <1>10, <2>2 DEF PowerOff, store, memory
    <3>2. Gains(sessions, sessions', session_id)
      BY <3>1, <1>i DEF Gains
    <3> QED
      BY <1>t, <3>1, <3>2, CurrentGains DEF IInv, CompletedIsLatched
  <2> QED  BY <1>10, <2>1, <2>2 DEF PowerOff
<1>11. CASE DeleteReturns
  BY <1>11, <1>t, ForgetKeeps
<1>12. ASSUME NEW s \in Id, DeleteSession(s) \/ AddNote(s) \/ CleanupDb(s)
       PROVE  IInv'
  <2>1. CASE DeleteSession(s)
    BY <2>1, <1>t, Deletes DEF DeleteSession, memory
  <2>2. CASE AddNote(s)
    BY <2>2, <1>t, NoteKeeps
  <2>3. CASE CleanupDb(s)
    BY <2>3, <1>t, CleanupKeeps
  <2> QED  BY <1>12, <2>1, <2>2, <2>3
<1>13. ASSUME NEW keep \in Id \cup {None}, PruneList(keep)
       PROVE  IInv'
  <2>1. /\ prune'.rows = prune.rows \cup Listed(keep)
        /\ prune'.victims = prune.victims
    BY <1>13, <1>i DEF PruneList, PruneType
  <2>2. Listed(keep) \subseteq EndedIds
    BY DEF Listed
  <2> QED  BY <1>13, <1>t, <2>1, <2>2, PrunerLists DEF PruneList
<1>14. ASSUME NEW s \in Id, PruneCheck(s) \/ PruneDelete(s)
       PROVE  IInv'
  <2>1. CASE PruneCheck(s)
    <3>1. /\ s \in prune.rows
          /\ prune'.rows = prune.rows \ {s}
          /\ prune'.victims = IF HasActivity(sessions, s) THEN prune.victims
                              ELSE prune.victims \cup {s}
      BY <2>1, <1>i DEF PruneCheck, PruneType
    <3> QED  BY <2>1, <1>t, <3>1, PrunerChecks DEF PruneCheck
  <2>2. CASE PruneDelete(s)
    <3>1. /\ sessions' = DeleteRow(sessions, s)
          /\ s \in prune.victims
          /\ prune'.rows = prune.rows /\ prune'.victims = prune.victims \ {s}
          /\ UNCHANGED <<next_id, up, session_id, cookdone, deleting>>
      BY <2>2, <1>i DEF PruneDelete, PruneType, memory
    <3>2. s # session_id \/ ~Exists(sessions, s)
      BY <3>1, <1>i, NoneIsNoId DEF IInv, CurrentIsOpen, PrunerHoldsEnded, Exists
    <3> QED  BY <1>t, <3>1, <3>2, Deletes
  <2> QED  BY <1>14, <2>1, <2>2
<1>17. CASE PruneFails
  BY <1>17, <1>i, <1>t, PrunerLetsGo DEF PruneFails, PruneType
<1>15. CASE TimePasses
  <2>1. UNCHANGED <<sessions, next_id, up, session_id, cookdone, prune, deleting>>
    BY <1>15 DEF TimePasses
  <2> QED  BY <1>t, <2>1, NothingKeeps
<1>16. CASE UNCHANGED vars
  <2>1. UNCHANGED <<sessions, next_id, up, session_id, cookdone, prune, deleting>>
    BY <1>16 DEF vars, store, memory
  <2> QED  BY <1>t, <2>1, NothingKeeps
<1> QED
  BY <1>1, <1>2, <1>3, <1>4, <1>5, <1>6, <1>7, <1>8, <1>9, <1>10, <1>11,
     <1>12, <1>13, <1>14, <1>15, <1>16, <1>17 DEF Next

\* The inductive invariant holds at the start.
LEMMA IInvInit == Init => IInv
<1> SUFFICES ASSUME Init PROVE IInv
  OBVIOUS
<1>1. TypeOK
  BY TypeInit
<1>2. /\ next_id \in Nat /\ next_id = IF sessions[1].st = "unused" THEN 1 ELSE 2
      /\ sessions[1].st \in {"unused", "open", "ended"}
      /\ ~sessions[1].done
      /\ \A s \in Id : s # 1 => sessions[s].st = "unused"
  <2>1. 1 \in Id  BY BoundsAssumption DEF Id
  <2>2. PICK r \in FirstRow :
          /\ sessions = [s \in Id |-> IF s = 1 THEN r ELSE Blank("unused")]
          /\ next_id = IF r.st = "unused" THEN 1 ELSE 2
    BY DEF Init
  <2>3. r.st \in {"unused", "open", "ended"} /\ ~r.done
    <3>1. CASE r = Blank("unused")  BY <3>1 DEF Blank
    <3>2. CASE r = [Blank("ended") EXCEPT !.last = "idle"]  BY <3>2 DEF Blank
    <3>3. CASE r = [Blank("open") EXCEPT !.last = "idle"]  BY <3>3 DEF Blank
    <3>4. CASE r = [Blank("open") EXCEPT !.last = "active", !.fired = TRUE, !.cook = TRUE]
      BY <3>4 DEF Blank
    <3> QED  BY <3>1, <3>2, <3>3, <3>4 DEF FirstRow
  <2> QED  BY <2>1, <2>2, <2>3 DEF Blank
<1>3. OpenIds \subseteq {1}
  BY <1>2 DEF OpenIds
<1>4. ~up /\ session_id = None /\ deleting = None /\ prune.rows = {} /\ prune.victims = {}
  BY DEF Init, NoPrune
<1>5. IdsInOrder
  BY <1>2, BoundsAssumption DEF IdsInOrder, Id
<1>6. NewestIsOpen  BY <1>3 DEF NewestIsOpen
<1>7. CurrentIsOpen  BY <1>3, <1>4 DEF CurrentIsOpen
<1>8. DeletingIsGone /\ CompletedIsLatched /\ PrunerHoldsEnded /\ VictimsAreEmpty
  BY <1>4 DEF DeletingIsGone, CompletedIsLatched, PrunerHoldsEnded, VictimsAreEmpty
<1> QED  BY <1>1, <1>5, <1>6, <1>7, <1>8 DEF IInv

\* The inductive invariant holds in every behaviour.
THEOREM Inductive == Spec => []IInv
<1> QED  BY IInvInit, IInvStep, PTL DEF Spec

\* Whatever its threads and crashes do, the daemon never tags a sample with a
\* session that has ended, and at most one session that is not stuck is open.
THEOREM OneOpenCook == Spec => []CurrentIsOpen
<1>1. IInv => CurrentIsOpen  BY DEF IInv
<1> QED  BY <1>1, Inductive, PTL

\* A session whose completion is recorded never completes a second time by
\* itself, not even after a restart.
THEOREM CompletesOnce == Spec => []CompletedIsLatched
<1>1. IInv => CompletedIsLatched  BY DEF IInv
<1> QED  BY <1>1, Inductive, PTL

\* The worker thread never holds a session that is open or may open again.
THEOREM PrunerKeepsOffOpen == Spec => []PrunerHoldsEnded
<1>1. IInv => PrunerHoldsEnded  BY DEF IInv
<1> QED  BY <1>1, Inductive, PTL

\* The pruner never deletes a session that holds a set point or a completion
\* mark.
THEOREM PrunerIsSafe == Spec => PrunerSparesFires
<1>1. IInv /\ [Next]_vars =>
        [\A s \in Id : PruneDelete(s) => ~sessions[s].fired /\ ~sessions[s].done]_vars
  BY DEF IInv, VictimsAreEmpty, PruneDelete
<1> QED  BY <1>1, Inductive, PTL DEF Spec, PrunerSparesFires

-----------------------------------------------------------------------------
(* CookSession implements SessionLedger.                                   *)

Completed(t) == {s \in Id : Exists(t, s) /\ t[s].done}
States(t)    == [s \in Id |-> t[s].st]

\* What one step of CookSession may be to a reader of the list of cooks.
LedgerStep == [Ledger!Next]_(Ledger!cooks)

\* A table that looks the same is a stutter of the ledger.
LEMMA LedgerStutters ==
  ASSUME States(sessions') = States(sessions),
         Completed(sessions') = Completed(sessions)
  PROVE  LedgerStep
BY DEF LedgerStep, Ledger!cooks, States, Completed, Exists

\* Marking the open session complete is a step of the ledger.
LEMMA LedgerCompletes ==
  ASSUME NEW s \in Id, sessions[s].st = "open", ~sessions[s].done,
         States(sessions') = States(sessions),
         Completed(sessions') = Completed(sessions) \cup {s}
  PROVE  LedgerStep
<1>1. Ledger!Complete(s)
  BY DEF Ledger!Complete, States, Completed, Exists
<1> QED  BY <1>1 DEF LedgerStep, Ledger!Next

\* Ending an open session is a step of the ledger.
LEMMA LedgerEnds ==
  ASSUME NEW s \in Id, sessions[s].st = "open",
         States(sessions') = [States(sessions) EXCEPT ![s] = "ended"],
         Completed(sessions') = Completed(sessions)
  PROVE  LedgerStep
<1>1. Ledger!End(s)
  BY DEF Ledger!End, States, Completed, Exists
<1> QED  BY <1>1 DEF LedgerStep, Ledger!Next

\* Removing a session is a step of the ledger.
LEMMA LedgerRemoves ==
  ASSUME NEW s \in Id, Exists(sessions, s),
         States(sessions') = [States(sessions) EXCEPT ![s] = "gone"],
         Completed(sessions') = Completed(sessions) \ {s}
  PROVE  LedgerStep
<1>1. Ledger!Remove(s)
  BY DEF Ledger!Remove, States, Completed, Exists
<1> QED  BY <1>1 DEF LedgerStep, Ledger!Next

\* n names the next id: an operator of the abstract specification takes no
\* variable of this one as its argument.
LEMMA NextIsNext ==
  ASSUME IInv, NEW n \in Id, n = next_id
  PROVE  Ledger!IsNext(n)
<1>1. sessions[n].st = "unused"
  BY DEF IInv, IdsInOrder, Id
<1>2. \A i \in Id : i < n => sessions[i].st # "unused"
  BY DEF IInv, IdsInOrder, Id
<1> QED  BY <1>1, <1>2 DEF Ledger!IsNext

\* Opening the next session is a step of the ledger.
LEMMA LedgerBegins ==
  ASSUME IInv, NEW n \in Id, n = next_id,
         States(sessions') = [States(sessions) EXCEPT ![n] = "open"],
         Completed(sessions') = Completed(sessions)
  PROVE  LedgerStep
<1>1. Ledger!Begin(n)
  BY NextIsNext DEF Ledger!Begin, States, Completed, Exists
<1> QED  BY <1>1 DEF LedgerStep, Ledger!Next

\* Ending one session and opening the next is a step of the ledger.
LEMMA LedgerTurnsOver ==
  ASSUME IInv, NEW n \in Id, n = next_id, NEW s \in Id, sessions[s].st = "open",
         States(sessions') = [States(sessions) EXCEPT ![s] = "ended", ![n] = "open"],
         Completed(sessions') = Completed(sessions)
  PROVE  LedgerStep
<1>1. Ledger!Turnover(s, n)
  BY NextIsNext DEF Ledger!Turnover, States, Completed, Exists
<1> QED  BY <1>1 DEF LedgerStep, Ledger!Next

\* Evidence on the current session completes it or leaves the ledger alone.
LEMMA GainsImplement ==
  ASSUME IInv, Gains(sessions, sessions', session_id)
  PROVE  LedgerStep
<1> USE IInvParts, NoneIsNoId
<1>1. States(sessions') = States(sessions)
  BY DEF Gains, States
<1>2. CASE session_id # None /\ sessions[session_id].st = "open"
           /\ ~sessions[session_id].done /\ sessions'[session_id].done
  <2>1. Completed(sessions') = Completed(sessions) \cup {session_id}
    BY <1>2 DEF Gains, Completed, Exists
  <2> QED  BY <1>1, <1>2, <2>1, LedgerCompletes
<1>3. CASE ~(session_id # None /\ sessions[session_id].st = "open"
             /\ ~sessions[session_id].done /\ sessions'[session_id].done)
  <2>1. \A i \in Id : Exists(sessions, i) => sessions'[i].done = sessions[i].done
    <3> SUFFICES ASSUME NEW i \in Id, Exists(sessions, i)
                 PROVE  sessions'[i].done = sessions[i].done
      OBVIOUS
    <3>1. CASE i # session_id
      BY <3>1 DEF Gains
    <3>2. CASE i = session_id
      <4>1. sessions[i].st = "open"
        BY <3>2 DEF IInv, CurrentIsOpen, Exists
      <4>2. sessions'[i].done => sessions[i].done
        BY <1>3, <3>2, <4>1
      <4>3. /\ sessions[i].done => sessions'[i].done
            /\ sessions[i].done \in BOOLEAN /\ sessions'[i].done \in BOOLEAN
        BY DEF Gains, Row
      <4> QED  BY <4>2, <4>3
    <3> QED  BY <3>1, <3>2
  <2>2. Completed(sessions') = Completed(sessions)
    BY <2>1 DEF Gains, Completed, Exists
  <2> QED  BY <1>1, <2>2, LedgerStutters
<1> QED  BY <1>2, <1>3

\* A row that is closed ends, or had ended.
LEMMA CloseImplements ==
  ASSUME IInv, NEW s \in Id, sessions' = CloseRow(sessions, s)
  PROVE  LedgerStep
<1> USE IInvParts
<1>1. /\ \A i \in Id : sessions'[i].done = sessions[i].done
      /\ \A i \in Id \ {s} : sessions'[i].st = sessions[i].st
      /\ sessions'[s].st = IF sessions[s].st = "open" THEN "ended" ELSE sessions[s].st
  BY CloseRowFields
<1>2. Completed(sessions') = Completed(sessions)
  BY <1>1 DEF Completed, Exists
<1>3. CASE sessions[s].st = "open"
  <2>1. States(sessions') = [States(sessions) EXCEPT ![s] = "ended"]
    BY <1>1, <1>3 DEF States
  <2> QED  BY <1>2, <1>3, <2>1, LedgerEnds
<1>4. CASE sessions[s].st # "open"
  <2>1. States(sessions') = States(sessions)
    BY <1>1, <1>4 DEF States
  <2> QED  BY <1>2, <2>1, LedgerStutters
<1> QED  BY <1>3, <1>4

\* A row that is deleted is removed, or was gone.
LEMMA DeleteImplements ==
  ASSUME IInv, NEW s \in Id, sessions' = DeleteRow(sessions, s)
  PROVE  LedgerStep
<1> USE IInvParts
<1>1. /\ Exists(sessions, s) => sessions'[s].st = "gone"
      /\ ~Exists(sessions, s) => sessions'[s] = sessions[s]
      /\ \A i \in Id \ {s} : sessions'[i] = sessions[i]
  BY DeleteRowFacts DEF Blank
<1>2. CASE Exists(sessions, s)
  <2>1. States(sessions') = [States(sessions) EXCEPT ![s] = "gone"]
    BY <1>1, <1>2 DEF States
  <2>2. Completed(sessions') = Completed(sessions) \ {s}
    BY <1>1, <1>2 DEF Completed, Exists
  <2> QED  BY <1>2, <2>1, <2>2, LedgerRemoves
<1>3. CASE ~Exists(sessions, s)
  <2>1. \A i \in Id : sessions'[i] = sessions[i]
    BY <1>1, <1>3
  <2> QED  BY <2>1, LedgerStutters DEF States, Completed, Exists
<1> QED  BY <1>2, <1>3

\* The next row opens while the current one, if it is still open, ends.
LEMMA OpenImplements ==
  ASSUME IInv, next_id \in Id, NEW closed,
         closed = IF session_id # None THEN CloseRow(sessions, session_id) ELSE sessions,
         Gains(OpenRow(closed, next_id), sessions', next_id),
         ~sessions'[next_id].done
  PROVE  LedgerStep
<1> USE IInvParts, NoneIsNoId
<1>1. closed \in [Id -> Row]
  BY CloseRowFacts
<1>2. /\ sessions'[next_id].st = "open"
      /\ \A i \in Id \ {next_id} : sessions'[i] = closed[i]
  BY <1>1, OpenRowFacts DEF Gains
<1>3. sessions[next_id].st = "unused"
  BY DEF IInv, IdsInOrder, Id
<1>4. CASE session_id # None /\ sessions[session_id].st = "open"
  <2>1. /\ \A i \in Id : closed[i].done = sessions[i].done
        /\ \A i \in Id \ {session_id} : closed[i].st = sessions[i].st
        /\ closed[session_id].st = "ended"
    BY <1>4, CloseRowFields
  <2>2. States(sessions') =
          [States(sessions) EXCEPT ![session_id] = "ended", ![next_id] = "open"]
    BY <1>2, <1>3, <1>4, <2>1 DEF States
  <2>3. Completed(sessions') = Completed(sessions)
    BY <1>2, <1>3, <1>4, <2>1 DEF Completed, Exists
  <2> QED  BY <1>4, <2>2, <2>3, LedgerTurnsOver
<1>5. CASE ~(session_id # None /\ sessions[session_id].st = "open")
  <2>1. \A i \in Id : closed[i].st = sessions[i].st /\ closed[i].done = sessions[i].done
    BY <1>5, CloseRowFields
  <2>2. States(sessions') = [States(sessions) EXCEPT ![next_id] = "open"]
    BY <1>2, <2>1 DEF States
  <2>3. Completed(sessions') = Completed(sessions)
    BY <1>2, <1>3, <2>1 DEF Completed, Exists
  <2> QED  BY <2>2, <2>3, LedgerBegins
<1> QED  BY <1>4, <1>5

\* Rows whose state and completion stay as they were.
LEMMA SameImplements ==
  ASSUME \A i \in Id : /\ sessions'[i].st = sessions[i].st
                       /\ sessions'[i].done = sessions[i].done
  PROVE  LedgerStep
BY LedgerStutters DEF States, Completed, Exists

\* Every initial table is an initial ledger.
LEMMA LedgerInit == Init => Ledger!Init
<1> SUFFICES ASSUME Init PROVE Ledger!Init
  OBVIOUS
<1>1. PICK r \in FirstRow :
        sessions = [s \in Id |-> IF s = 1 THEN r ELSE Blank("unused")]
  BY DEF Init
<1>2. r.st \in {"unused", "open", "ended"} /\ ~r.done
  <2>1. CASE r = Blank("unused")  BY <2>1 DEF Blank
  <2>2. CASE r = [Blank("ended") EXCEPT !.last = "idle"]  BY <2>2 DEF Blank
  <2>3. CASE r = [Blank("open") EXCEPT !.last = "idle"]  BY <2>3 DEF Blank
  <2>4. CASE r = [Blank("open") EXCEPT !.last = "active", !.fired = TRUE, !.cook = TRUE]
    BY <2>4 DEF Blank
  <2> QED  BY <2>1, <2>2, <2>3, <2>4 DEF FirstRow
<1>3. [s \in Id |-> sessions[s].st] = [s \in Id |-> IF s = 1 THEN r.st ELSE "unused"]
  BY <1>1 DEF Blank
<1>4. {s \in Id : Exists(sessions, s) /\ sessions[s].done} = {}
  BY <1>1, <1>2 DEF Blank
<1> QED  BY <1>2, <1>3, <1>4 DEF Ledger!Init

\* Every step of the daemon, its threads and its crashes is a step of the
\* ledger or leaves it alone.
LEMMA LedgerNext == IInv /\ [Next]_vars => LedgerStep
<1> SUFFICES ASSUME IInv, [Next]_vars
             PROVE  LedgerStep
  OBVIOUS
<1>i. /\ sessions \in [Id -> Row] /\ session_id \in Id \cup {None}
      /\ next_id \in Nat
  BY IInvParts
<1>t. sessions' \in [Id -> Row]
  BY TypeStep DEF IInv, TypeOK
<1>s. sessions' = sessions => LedgerStep
  BY SameImplements
<1>1. CASE Start
  <2>1. \/ sessions' = sessions
        \/ OpenSession # None /\ sessions' = CloseRow(sessions, OpenSession)
    BY <1>1 DEF Start
  <2>2. OpenSession # None => OpenSession \in Id
    BY OpenSessionFacts DEF OpenIds
  <2> QED  BY <1>s, <2>1, <2>2, CloseImplements
<1>2. CASE Stop
  BY <1>2, <1>s DEF Stop, store
<1>3. CASE StatusInSession
  <2>1. PICK active \in BOOLEAN : Record(sessions, session_id, FALSE, active)
    BY <1>3 DEF StatusInSession
  <2>2. RecordKeeps(sessions, session_id, FALSE)
    BY <1>i, <2>1, RecordTable, Zenon
  <2> QED  BY <2>2, GainsImplement DEF RecordKeeps
<1>4. CASE StatusIdle
  <2>1. RecordKeeps(sessions, None, FALSE)
    BY <1>4, <1>i, RecordTable, Zenon DEF StatusIdle
  <2> QED  BY <1>4, <2>1, GainsImplement DEF RecordKeeps, StatusIdle
<1>5. CASE StatusOpens
  <2>1. session_id = None /\ next_id \in Id
    BY <1>5, <1>i, BoundsAssumption DEF StatusOpens, IInv, TypeOK, Id
  <2>2. OpenRow(sessions, next_id) \in [Id -> Row] /\ ~OpenRow(sessions, next_id)[next_id].done
    BY <1>i, <2>1, OpenRowFacts
  <2>3. PICK active \in BOOLEAN :
          Record(OpenRow(sessions, next_id), next_id, TRUE, active)
    BY <1>5 DEF StatusOpens
  <2>4. RecordKeeps(OpenRow(sessions, next_id), next_id, TRUE)
    BY <2>1, <2>2, <2>3, RecordTable, Zenon
  <2>5. ~sessions'[next_id].done
    BY <2>1, <2>2, <2>4, NoneIsNoId DEF RecordKeeps
  <2> QED  BY <2>1, <2>4, <2>5, OpenImplements DEF RecordKeeps
<1>6. CASE StatusAfterGap
  <2> DEFINE closed == CloseRow(sessions, session_id)
  <2>1. session_id # None /\ session_id \in Id
    BY <1>6, <1>i DEF StatusAfterGap, Stale
  <2>2. PICK active \in BOOLEAN, thermo \in BOOLEAN :
          IF CookIsActive(active, thermo)
          THEN /\ next_id <= MaxId
               /\ session_id' = next_id
               /\ next_id' = next_id + 1
               /\ Record(OpenRow(closed, next_id), next_id, TRUE, active)
          ELSE /\ session_id' = None
               /\ UNCHANGED next_id
               /\ Record(closed, None, FALSE, active)
    BY <1>6 DEF StatusAfterGap
  <2>3. closed = CloseRow(sessions, session_id) /\ closed \in [Id -> Row]
    BY <1>i, <2>1, CloseRowFacts
  <2> HIDE DEF closed
  <2>4. CASE CookIsActive(active, thermo)
    <3>1. next_id <= MaxId /\ Record(OpenRow(closed, next_id), next_id, TRUE, active)
      BY <2>2, <2>4
    <3>2. next_id \in Id
      BY <3>1, BoundsAssumption DEF IInv, TypeOK, Id
    <3>3. OpenRow(closed, next_id) \in [Id -> Row] /\ ~OpenRow(closed, next_id)[next_id].done
      BY <2>3, <3>2, OpenRowFacts
    <3>4. RecordKeeps(OpenRow(closed, next_id), next_id, TRUE)
      BY <3>1, <3>2, <3>3, RecordTable, Zenon
    <3>5. ~sessions'[next_id].done
      BY <3>2, <3>3, <3>4, NoneIsNoId DEF RecordKeeps
    <3> QED  BY <2>1, <2>3, <3>2, <3>4, <3>5, OpenImplements DEF RecordKeeps
  <2>5. CASE ~CookIsActive(active, thermo)
    <3>1. RecordKeeps(closed, None, FALSE)
      BY <2>2, <2>3, <2>5, RecordTable, Zenon
    <3>2. \A i \in Id : sessions'[i] = closed[i]
      BY <3>1, NoneIsNoId DEF RecordKeeps, Gains
    <3>3. sessions' = closed
      BY <1>t, <2>3, <3>2
    <3> QED  BY <2>1, <2>3, <3>3, CloseImplements
  <2> QED  BY <2>4, <2>5
<1>7. CASE CrashInHandler
  <2> DEFINE closed == IF session_id # None THEN CloseRow(sessions, session_id) ELSE sessions
  <2>1. \/ sessions' = closed
        \/ next_id <= MaxId /\ sessions' = OpenRow(closed, next_id)
    BY <1>7 DEF CrashInHandler, Stale
  <2>2. CASE sessions' = closed
    BY <1>i, <1>s, <2>2, CloseImplements
  <2>3. CASE next_id <= MaxId /\ sessions' = OpenRow(closed, next_id)
    <3>1. next_id \in Id
      BY <2>3, BoundsAssumption DEF IInv, TypeOK, Id
    <3>2. closed \in [Id -> Row]
      BY <1>i, CloseRowFacts
    <3>3. Gains(OpenRow(closed, next_id), sessions', next_id)
      BY <1>t, <2>3 DEF Gains
    <3>4. ~sessions'[next_id].done
      BY <2>3, <3>1, <3>2, OpenRowFacts
    <3> QED  BY <3>1, <3>3, <3>4, OpenImplements
  <2> QED  BY <2>1, <2>2, <2>3
<1>8. CASE FinishCook
  <2>1. Gains(sessions, sessions', session_id)
    BY <1>8, FinishGains
  <2> QED  BY <2>1, GainsImplement
<1>9. CASE ShutdownSystem
  <2>1. \/ sessions' = sessions
        \/ session_id # None /\ sessions' = CloseRow(sessions, session_id)
        \/ /\ session_id # None
           /\ sessions' = [sessions EXCEPT ![session_id].stuck =
                             sessions[session_id].st = "open"]
    BY <1>9 DEF ShutdownSystem
  <2>2. CASE session_id # None /\ sessions' = CloseRow(sessions, session_id)
    BY <1>i, <2>2, CloseImplements
  <2>3. CASE /\ session_id # None
             /\ sessions' = [sessions EXCEPT ![session_id].stuck =
                               sessions[session_id].st = "open"]
    <3>1. \A i \in Id : /\ sessions'[i].st = sessions[i].st
                        /\ sessions'[i].done = sessions[i].done
      BY <1>i, <2>3 DEF Row
    <3> QED  BY <3>1, SameImplements
  <2> QED  BY <1>s, <2>1, <2>2, <2>3
<1>10. CASE PowerOff
  BY <1>10, <1>s DEF PowerOff, store
<1>11. CASE DeleteReturns
  BY <1>11, <1>s DEF DeleteReturns, store
<1>12. ASSUME NEW s \in Id, DeleteSession(s) \/ AddNote(s) \/ CleanupDb(s)
       PROVE  LedgerStep
  <2>1. CASE DeleteSession(s)
    BY <2>1, DeleteImplements DEF DeleteSession
  <2>2. CASE AddNote(s)
    <3>1. \A i \in Id : /\ sessions'[i].st = sessions[i].st
                        /\ sessions'[i].done = sessions[i].done
      BY <2>2, <1>i, AddEventFacts DEF AddNote, Gains
    <3> QED  BY <3>1, SameImplements
  <2>3. CASE CleanupDb(s)
    <3>1. \A i \in Id : /\ sessions'[i].st = sessions[i].st
                        /\ sessions'[i].done = sessions[i].done
      BY <2>3, <1>i DEF CleanupDb, Row
    <3> QED  BY <3>1, SameImplements
  <2> QED  BY <1>12, <2>1, <2>2, <2>3
<1>13. ASSUME NEW keep \in Id \cup {None}, PruneList(keep)
       PROVE  LedgerStep
  BY <1>13, <1>s DEF PruneList, store
<1>14. ASSUME NEW s \in Id, PruneCheck(s) \/ PruneDelete(s)
       PROVE  LedgerStep
  BY <1>14, <1>s, DeleteImplements DEF PruneCheck, PruneDelete, store
<1>17. CASE PruneFails
  BY <1>17, <1>s DEF PruneFails, store
<1>15. CASE TimePasses
  BY <1>15, <1>s DEF TimePasses
<1>16. CASE UNCHANGED vars
  BY <1>16, <1>s DEF vars, store
<1> QED
  BY <1>1, <1>2, <1>3, <1>4, <1>5, <1>6, <1>7, <1>8, <1>9, <1>10, <1>11,
     <1>12, <1>13, <1>14, <1>15, <1>16, <1>17 DEF Next

\* The daemon implements the ledger of cooks: ids are handed out in order, a
\* session ends once, completes at most once and only while it is open, and
\* nothing that was removed comes back.
THEOREM ImplementsLedger == Spec => KeepsLedger
<1>1. Init => Ledger!Init  BY LedgerInit
<1>2. IInv /\ [Next]_vars => [Ledger!Next]_(Ledger!cooks)
  BY LedgerNext DEF LedgerStep
<1> QED  BY <1>1, <1>2, Inductive, PTL DEF Spec, KeepsLedger, Ledger!Spec

=============================================================================
