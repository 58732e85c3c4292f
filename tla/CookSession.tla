---------------------------- MODULE CookSession ----------------------------
(***************************************************************************)
(* How heatermeterd decides what a "cook" is.  The daemon opens, resumes,  *)
(* completes and closes sessions from the stream of $HMSU status lines     *)
(* (service.py), keeps them in SQLite (store.py), and throws away, on a    *)
(* worker thread, the sessions in which nothing cooked.  The daemon may    *)
(* stop or crash between any two steps; the database survives it.          *)
(*                                                                         *)
(* Time is counted in ticks: TimePasses is silence, and ages saturate at   *)
(* MaxAge.  A status line is abstracted to what this code tests: active,   *)
(* its set_point is a number other than zero, and thermo, a food probe     *)
(* with a target reads.  What the daemon sends to the board is modelled in *)
(* PitControl; here any reading may follow any other.                      *)
(***************************************************************************)
EXTENDS Naturals

CONSTANTS
  None,      \* Python's None
  MaxId,     \* bound: session ids handed out by AUTOINCREMENT
  IdleGap,   \* SESSION_IDLE_GAP, in ticks
  MaxAge     \* where ages saturate

ASSUME BoundsAssumption ==
  /\ MaxId \in Nat \ {0}
  /\ IdleGap \in Nat
  /\ MaxAge \in Nat
  /\ IdleGap < MaxAge

ASSUME NoneAssumption == None \notin Nat

Id  == 1 .. MaxId
Age == 0 .. MaxAge

VARIABLES
  \* SQLite, survives the daemon
  sessions,          \* the sessions table with the evidence the pruner looks at
  next_id,           \* AUTOINCREMENT
  silence,           \* history: time since any run handled a status line
  \* the daemon's memory
  up,                \* the daemon runs
  session_id,
  last_sample_age,   \* now - _last_sample_ts
  cookdone,          \* CookDoneDetector.completed
  session_completed, \* _session_completed
  halting,           \* shutdown_system's grace period runs
  prune,             \* the worker thread: keeps asked for, rows listed, victims;
                     \* history: what a prune that failed since left behind
  deleting           \* DELETE /api/sessions/{id} between thread and loop

store  == <<sessions, next_id, silence>>
memory == <<session_id, last_sample_age, cookdone, session_completed>>
vars   == <<store, memory, up, halting, prune, deleting>>

-----------------------------------------------------------------------------
(* The tables.                                                             *)

SampleKind == {"none", "idle", "active"}   \* set_point of the newest sample

Row == [st     : {"unused", "open", "ended", "gone"},
        done   : BOOLEAN,     \* completed_ts is set
        fired  : BOOLEAN,     \* a stored sample carries a set point
        noted  : BOOLEAN,     \* a note, or an event that is not automatic
        last   : SampleKind,
        cook   : BOOLEAN,     \* history: opened by _cook_is_active
        stuck  : BOOLEAN]     \* history: shutdown_system failed to close it

Blank(st) == [st |-> st, done |-> FALSE, fired |-> FALSE, noted |-> FALSE,
              last |-> "none", cook |-> FALSE, stuck |-> FALSE]

Exists(t, s) == t[s].st \in {"open", "ended"}

\* Variant: the pruner forgets to look for set points
HasActivityNoFire(t, s) == t[s].done \/ t[s].noted

\* Store.session_has_activity
HasActivity(t, s) == t[s].done \/ t[s].fired \/ t[s].noted

\* Variant: a close that is never committed
CloseRowLost(t, s) == t

\* Store.close_session: WHERE ended_ts IS NULL
CloseRow(t, s) == [t EXCEPT ![s].st = IF @ = "open" THEN "ended" ELSE @]

\* Store.start_session
OpenRow(t, s) == [t EXCEPT ![s] = [Blank("open") EXCEPT !.cook = TRUE]]

\* Store.insert with a session id; the row may have been deleted meanwhile
InsertSample(t, s, active) ==
  IF s = None \/ ~Exists(t, s) THEN t
  ELSE [t EXCEPT ![s].last  = IF active THEN "active" ELSE "idle",
                 ![s].fired = @ \/ active]

\* Variant: an upsert that brings back a deleted session
MarkUpserts(t, s) == [t EXCEPT ![s].done = TRUE, ![s].st = "open"]

\* Store.mark_completed and Store.add_event touch only a row that exists
MarkCompleted(t, s) == [t EXCEPT ![s].done  = @ \/ Exists(t, s)]
AddEvent(t, s)      == IF s = None THEN t
                       ELSE [t EXCEPT ![s].noted = @ \/ Exists(t, s)]

\* Store.delete_session, and the DELETE of prune_empty_sessions
DeleteRow(t, s) == [t EXCEPT ![s] = IF Exists(t, s) THEN Blank("gone") ELSE @]

-----------------------------------------------------------------------------
(* Start-up and the ways the daemon ends.                                  *)

OpenIds  == {s \in Id : sessions[s].st = "open"}
EndedIds == {s \in Id : sessions[s].st = "ended"}

\* Store.open_session: the newest row without ended_ts
OpenSession ==
  IF OpenIds = {} THEN None
  ELSE CHOOSE s \in OpenIds : \A o \in OpenIds : o <= s

\* Variant: a start that always begins with a fresh detector
NeverComplete(existing) == FALSE

\* Variant: the row's value taken for the flag
RawComplete(existing) ==
  IF existing = None THEN None ELSE sessions[existing].done

\* A resumed session that was already completed keeps the detector latched.
AlreadyComplete(existing) == existing # None /\ sessions[existing].done

\* HeaterMeterService.start: resume an open session whose last sample had a
\* set point, close it otherwise, and hand the worker thread a prune.
Start ==
  LET existing == OpenSession
      resume   == existing # None /\ sessions[existing].last = "active"
  IN /\ ~up
     /\ up' = TRUE
     /\ sessions' = IF existing # None /\ ~resume
                    THEN CloseRow(sessions, existing) ELSE sessions
     /\ session_id' = IF resume THEN existing ELSE None
     /\ cookdone' = AlreadyComplete(existing)
     /\ prune' = [prune EXCEPT !.req = {IF resume THEN existing ELSE None}]
     /\ UNCHANGED <<next_id, silence, last_sample_age, session_completed,
                    halting, deleting>>

NoPrune == [req |-> {}, rows |-> {}, victims |-> {}, failed |-> {}]

\* The process dies with whatever its threads were doing; a new one starts
\* from the values of __init__.
Die ==
  /\ up' = FALSE
  /\ session_id' = None
  /\ last_sample_age' = None
  /\ cookdone' = FALSE
  /\ session_completed' = FALSE
  /\ halting' = FALSE
  /\ prune' = NoPrune
  /\ deleting' = None

\* service.stop, a crash between two steps of the loop, a power loss
Stop ==
  /\ up
  /\ Die
  /\ UNCHANGED store

-----------------------------------------------------------------------------
(* One $HMSU line, handled to the end on the loop thread.                  *)

\* _ensure_session: the silence that ends a session
Stale == /\ session_id # None
         /\ last_sample_age # None
         /\ last_sample_age > IdleGap

\* _cook_is_active
CookIsActive(active, thermo) == active \/ thermo

\* The rest of the handler once the session is settled.  sid is the session,
\* t the table, fresh says this very line opened the session.  event stands
\* for any timeline event of the line, complete says the detector completes
\* the cook (it needs an earlier sample of this run), stored and marked say
\* whether the guarded insert and mark_completed went through.
Record(t, sid, fresh, active) ==
  \E event, complete, stored, marked \in BOOLEAN :
    LET t1 == IF stored THEN InsertSample(t, sid, active) ELSE t
        t2 == IF event \/ complete THEN AddEvent(t1, sid) ELSE t1
    IN /\ complete => /\ sid # None /\ ~fresh
                      /\ ~cookdone /\ last_sample_age # None
       /\ sessions' = IF complete /\ marked THEN MarkCompleted(t2, sid) ELSE t2
       /\ silence' = 0
       /\ last_sample_age' = 0
       /\ cookdone' = (~fresh /\ (cookdone \/ complete))
       /\ session_completed' = (~fresh /\ (session_completed \/ complete))
       /\ UNCHANGED <<up, halting, deleting>>

\* The session goes on.
StatusInSession ==
  /\ up
  /\ session_id # None /\ ~Stale
  /\ \E active \in BOOLEAN : Record(sessions, session_id, FALSE, active)
  /\ UNCHANGED <<session_id, next_id, prune>>

\* No session and none is due: the sample is stored untagged.
StatusIdle ==
  /\ up
  /\ session_id = None
  /\ Record(sessions, None, FALSE, FALSE)
  /\ UNCHANGED <<session_id, next_id, prune>>

\* A cook is on and there is no session: open one.
StatusOpens ==
  /\ up
  /\ session_id = None
  /\ next_id <= MaxId
  /\ session_id' = next_id
  /\ next_id' = next_id + 1
  /\ \E active, thermo \in BOOLEAN :
       /\ CookIsActive(active, thermo)
       /\ Record(OpenRow(sessions, next_id), next_id, TRUE, active)
  /\ UNCHANGED prune

\* A line after a long silence closes the stale session, hands the worker
\* thread a prune and, when a cook is on, opens the next session.
StatusAfterGap ==
  LET closed == CloseRow(sessions, session_id) IN
  /\ up
  /\ Stale
  /\ prune' = [prune EXCEPT !.req = @ \cup {None}, !.failed = {}]
  /\ \E active, thermo \in BOOLEAN :
       IF CookIsActive(active, thermo)
       THEN /\ next_id <= MaxId
            /\ session_id' = next_id
            /\ next_id' = next_id + 1
            /\ Record(OpenRow(closed, next_id), next_id, TRUE, active)
       ELSE /\ session_id' = None
            /\ UNCHANGED next_id
            /\ Record(closed, None, FALSE, active)

\* A crash inside the handler: _ensure_session committed the close of a stale
\* session, or also the next session, whose first sample is never stored.
CrashInHandler ==
  LET closed == IF Stale THEN CloseRow(sessions, session_id) ELSE sessions IN
  /\ up
  /\ session_id = None \/ Stale
  /\ \/ /\ sessions' = closed
        /\ UNCHANGED next_id
     \/ /\ next_id <= MaxId
        /\ sessions' = OpenRow(closed, next_id)
        /\ next_id' = next_id + 1
  /\ Die
  /\ UNCHANGED silence

-----------------------------------------------------------------------------
(* What the user asks of the daemon.                                       *)

\* finish_cook: latch the detector first, then _on_cook_complete
FinishCook ==
  /\ up
  /\ session_id # None
  /\ \E marked \in BOOLEAN :
       sessions' = AddEvent(IF marked THEN MarkCompleted(sessions, session_id)
                            ELSE sessions, session_id)
  /\ cookdone' = TRUE
  /\ session_completed' = TRUE
  /\ UNCHANGED <<next_id, silence, up, session_id, last_sample_age, halting,
                 prune, deleting>>

\* shutdown_system: close the session (a failure is swallowed), forget it
\* either way, and let a grace period run
ShutdownSystem ==
  /\ up
  /\ \E closes \in BOOLEAN :
       sessions' = IF session_id = None THEN sessions
                   ELSE IF closes THEN CloseRow(sessions, session_id)
                   ELSE [sessions EXCEPT ![session_id].stuck =
                           sessions[session_id].st = "open"]
  /\ session_id' = None
  /\ halting' = TRUE
  /\ UNCHANGED <<next_id, silence, up, last_sample_age, cookdone,
                 session_completed, prune, deleting>>

\* The grace period ends: the power-off request is written and acted on, or
\* it was a dry run.
PowerOff ==
  /\ up /\ halting
  /\ \/ Die
     \/ /\ halting' = FALSE
        /\ UNCHANGED <<up, memory, prune, deleting>>
  /\ UNCHANGED store

\* DELETE /api/sessions/{id}: the rows go on a worker thread ...  (bound: one
\* request at a time)
DeleteSession(s) ==
  /\ up
  /\ deleting = None
  /\ Exists(sessions, s)
  /\ sessions' = DeleteRow(sessions, s)
  /\ deleting' = s
  /\ UNCHANGED <<next_id, silence, memory, up, halting, prune>>

\* ... and the loop forgets the session only when the request resumes.
DeleteReturns ==
  /\ up
  /\ deleting # None
  /\ session_id' = IF session_id = deleting THEN None ELSE session_id
  /\ deleting' = None
  /\ UNCHANGED <<store, last_sample_age, cookdone, session_completed, up,
                 halting, prune>>

\* POST /api/notes on any session, on a worker thread
AddNote(s) ==
  /\ up
  /\ Exists(sessions, s)
  /\ sessions' = AddEvent(sessions, s)
  /\ UNCHANGED <<next_id, silence, memory, up, halting, prune, deleting>>

-----------------------------------------------------------------------------
(* prune_empty_sessions on a worker thread: list the ended sessions, then  *)
(* for each one look for activity under the lock, and delete it under the  *)
(* lock taken again.  Two prunes may run at once; rows may be taken in any *)
(* order.                                                                  *)

\* Variant: the list lost its WHERE ended_ts IS NOT NULL
ListAll(keep) == {s \in Id : Exists(sessions, s)} \ {keep}

\* Variant: only the newest ended session is looked at
ListNewest(keep) == {s \in EndedIds \ {keep} : \A o \in EndedIds : o <= s}

Listed(keep) == EndedIds \ {keep}

PruneList(keep) ==
  /\ up
  /\ keep \in prune.req
  /\ prune' = [prune EXCEPT !.req = @ \ {keep}, !.rows = @ \cup Listed(keep)]
  /\ UNCHANGED <<store, memory, up, halting, deleting>>

PruneCheck(s) ==
  /\ up
  /\ s \in prune.rows
  /\ prune' = [prune EXCEPT
                 !.rows    = @ \ {s},
                 !.victims = IF HasActivity(sessions, s) THEN @ ELSE @ \cup {s}]
  /\ UNCHANGED <<store, memory, up, halting, deleting>>

PruneDelete(s) ==
  /\ up
  /\ s \in prune.victims
  /\ sessions' = DeleteRow(sessions, s)
  /\ prune' = [prune EXCEPT !.victims = @ \ {s}]
  /\ UNCHANGED <<next_id, silence, memory, up, halting, deleting>>

\* A store error ends one prune where it is, and _prune_empty_sessions swallows
\* it: the sessions that prune still held, or would have listed, are left.
PruneFails ==
  /\ up
  /\ \/ \E keep \in prune.req :
          prune' = [prune EXCEPT !.req    = @ \ {keep},
                                 !.failed = @ \cup Listed(keep)]
     \/ \E left \in SUBSET (prune.rows \cup prune.victims) \ {{}} :
          prune' = [prune EXCEPT !.rows    = @ \ left,
                                 !.victims = @ \ left,
                                 !.failed  = @ \cup left]
  /\ UNCHANGED <<store, memory, up, halting, deleting>>

\* cleanup_db: retention and thinning look at the age of a sample only, never
\* at its session.  No age is kept here, so any of a session's samples may be
\* old: its set points may go, and an older sample may become its newest.
CleanupDb(s) ==
  /\ up
  /\ Exists(sessions, s) /\ sessions[s].last # "none"
  /\ \E fired \in BOOLEAN, last \in SampleKind :
       /\ fired => sessions[s].fired
       /\ last = "active" => fired
       /\ last = "none" => ~fired
       /\ sessions' = [sessions EXCEPT ![s].fired = fired, ![s].last = last]
  /\ UNCHANGED <<next_id, silence, memory, up, halting, prune, deleting>>

-----------------------------------------------------------------------------
(* The clock.                                                              *)

Older(a) == IF a # None /\ a < MaxAge THEN a + 1 ELSE a

TimePasses ==
  /\ silence' = Older(silence)
  /\ last_sample_age' = Older(last_sample_age)
  /\ UNCHANGED <<sessions, next_id, session_id, cookdone, session_completed,
                 up, halting, prune, deleting>>

-----------------------------------------------------------------------------

\* What the database may hold: nothing, an idle session that an older daemon
\* wrapped in a "cook" (ended or still open), or a cook that was running.
FirstRow ==
  {Blank("unused"),
   [Blank("ended") EXCEPT !.last = "idle"],
   [Blank("open")  EXCEPT !.last = "idle"],
   [Blank("open")  EXCEPT !.last = "active", !.fired = TRUE, !.cook = TRUE]}

Init ==
  /\ \E r \in FirstRow :
       /\ sessions = [s \in Id |-> IF s = 1 THEN r ELSE Blank("unused")]
       /\ next_id = IF r.st = "unused" THEN 1 ELSE 2
  /\ silence = 0
  /\ up = FALSE
  /\ session_id = None
  /\ last_sample_age = None
  /\ cookdone = FALSE
  /\ session_completed = FALSE
  /\ halting = FALSE
  /\ prune = NoPrune
  /\ deleting = None

Next ==
  \/ Start
  \/ Stop
  \/ StatusInSession
  \/ StatusIdle
  \/ StatusOpens
  \/ StatusAfterGap
  \/ CrashInHandler
  \/ FinishCook
  \/ ShutdownSystem
  \/ PowerOff
  \/ DeleteReturns
  \/ \E s \in Id : DeleteSession(s) \/ AddNote(s) \/ CleanupDb(s)
  \/ \E keep \in Id \cup {None} : PruneList(keep)
  \/ \E s \in Id : PruneCheck(s) \/ PruneDelete(s)
  \/ PruneFails
  \/ TimePasses

\* The executor runs what it was given, so each of its steps is weakly fair.
PrunerFairness ==
  /\ \A keep \in Id \cup {None} : WF_vars(PruneList(keep))
  /\ \A s \in Id : WF_vars(PruneCheck(s)) /\ WF_vars(PruneDelete(s))

Spec     == Init /\ [][Next]_vars
FairSpec == Spec /\ PrunerFairness

-----------------------------------------------------------------------------
(* Correctness.                                                            *)

\* The type of every variable.
TypeOK ==
  /\ sessions \in [Id -> Row]
  /\ next_id \in 1 .. (MaxId + 1)
  /\ silence \in Age
  /\ up \in BOOLEAN
  /\ session_id \in Id \cup {None}
  /\ last_sample_age \in Age \cup {None}
  /\ cookdone \in BOOLEAN
  /\ session_completed \in BOOLEAN
  /\ halting \in BOOLEAN
  /\ prune \in [req : SUBSET (Id \cup {None}), rows : SUBSET Id,
                victims : SUBSET Id, failed : SUBSET Id]
  /\ deleting \in Id \cup {None}

\* At most one cook is open, it is the one the daemon tags samples with, and
\* the daemon never tags samples with a session that has ended: only with one
\* the user is deleting at this moment.  A session shutdown_system failed to
\* close is the one exception, and it is marked stuck.
CurrentIsOpen ==
  /\ \A s \in OpenIds : up => s = session_id \/ sessions[s].stuck
  /\ \A s, t \in OpenIds : s # t => sessions[s].stuck \/ sessions[t].stuck
  /\ session_id # None =>
       \/ sessions[session_id].st = "open"
       \/ sessions[session_id].st = "gone" /\ deleting = session_id

\* A cook recorded as complete keeps its detector latched, across restarts
\* too, so its completion (and the shut-down or keep-warm action that goes
\* with it) never fires a second time by itself.
CompletedIsLatched ==
  session_id # None /\ sessions[session_id].done => cookdone

\* What the worker thread listed or is about to delete has ended for good,
\* although sessions open, resume and close while it runs.
PrunerHoldsEnded ==
  \A s \in prune.rows \cup prune.victims : sessions[s].st \in {"ended", "gone"}

\* The pruner never deletes a session with a stored set point or a completion
\* mark, whatever happened between its check and its delete.
PrunerSparesFires ==
  [][\A s \in Id :
       PruneDelete(s) => ~sessions[s].fired /\ ~sessions[s].done]_vars

\* Every session without activity that has ended while a prune is due is
\* deleted, or written in, or outlives the daemon, unless the store fails a
\* prune that has it, which nothing repeats before the next gap or restart.
EmptySessionsGo ==
  \A s \in Id :
    /\ up /\ prune.req \ {s} # {}
    /\ sessions[s].st = "ended" /\ ~HasActivity(sessions, s)
    ~> \/ sessions[s].st = "gone" \/ HasActivity(sessions, s)
       \/ s \in prune.failed \/ ~up

\* The daemon, its threads and its crashes together keep the promise of the
\* list of cooks.
Ledger == INSTANCE SessionLedger WITH
            state     <- [s \in Id |-> sessions[s].st],
            completed <- {s \in Id : Exists(sessions, s) /\ sessions[s].done}

KeepsLedger == Ledger!Spec

-----------------------------------------------------------------------------
(* The inductive invariant behind these properties.                        *)

\* Ids are handed out in order and never twice.
IdsInOrder == \A s \in Id : sessions[s].st = "unused" <=> s >= next_id

\* An open session that is not stuck is the newest open one, so that is the
\* one Store.open_session finds after a restart.
NewestIsOpen ==
  \A s, t \in OpenIds : ~sessions[s].stuck => t <= s

\* A delete that has not returned to the loop has already removed the rows.
DeletingIsGone == deleting # None => sessions[deleting].st = "gone"

\* A victim still has no set point and no completion mark when it is deleted.
VictimsAreEmpty ==
  \A s \in prune.victims : ~sessions[s].fired /\ ~sessions[s].done

IInv ==
  /\ TypeOK
  /\ IdsInOrder
  /\ NewestIsOpen
  /\ DeletingIsGone
  /\ CurrentIsOpen
  /\ CompletedIsLatched
  /\ PrunerHoldsEnded
  /\ VictimsAreEmpty

=============================================================================
