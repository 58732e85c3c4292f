---------------------------- MODULE FlashLedger ----------------------------
(***************************************************************************)
(* What the firmware updater promises whoever asks for a flash, whatever   *)
(* daemon, helper and power do: jobs are numbered as they are asked for;   *)
(* one that waits gives way to a newer one that was handed over; each runs *)
(* at most once and one at a time; a job that is over stays as it ended;   *)
(* only a job at work touches the image, and not before it read the old    *)
(* one; a flash that goes well leaves its image, and a rollback the one    *)
(* that was there before.                                                  *)
(***************************************************************************)
EXTENDS Naturals

CONSTANTS
  Job,       \* the numbers of jobs, an interval from 1
  Version,   \* the images one may ask for
  Torn,      \* an image that was not written to its end
  NoImage

VARIABLES
  goal,     \* the image each job is to leave, NoImage for a mere backup
  stand,    \* how each job stands
  before,   \* the image each job read before it wrote
  image     \* the image of the board

ledger == <<goal, stand, before, image>>

Init ==
  /\ goal = [j \in Job |-> NoImage]
  /\ stand = [j \in Job |-> "unasked"]
  /\ before = [j \in Job |-> NoImage]
  /\ image \in Version

\* A new job takes the place of one that still waits.
Ask(j, wish) ==
  /\ stand[j] = "unasked"
  /\ \A i \in Job : i < j => stand[i] # "unasked"
  /\ goal' = [goal EXCEPT ![j] = wish]
  /\ stand' = [i \in Job |-> IF i = j THEN "waiting"
                             ELSE IF stand[i] = "waiting" THEN "lost" ELSE stand[i]]
  /\ UNCHANGED <<before, image>>

\* A job that could not be handed over is lost, and one that waits goes on waiting.
Drop(j, wish) ==
  /\ stand[j] = "unasked"
  /\ \A i \in Job : i < j => stand[i] # "unasked"
  /\ goal' = [goal EXCEPT ![j] = wish]
  /\ stand' = [stand EXCEPT ![j] = "lost"]
  /\ UNCHANGED <<before, image>>

\* Asked for: a version, a backup, or what was there before a job that went well
Wishes == Version \cup {NoImage} \cup {before[i] : i \in {k \in Job : stand[k] = "ok"}}

Begin(j) ==
  /\ stand[j] = "waiting"
  /\ \A i \in Job : stand[i] # "working"
  /\ stand' = [stand EXCEPT ![j] = "working"]
  /\ UNCHANGED <<goal, before, image>>

\* The old image is read, once.
Save(j) ==
  /\ stand[j] = "working"
  /\ before[j] = NoImage
  /\ before' = [before EXCEPT ![j] = image]
  /\ stand' = [stand EXCEPT ![j] = IF goal[j] = NoImage THEN "ok" ELSE "working"]
  /\ UNCHANGED <<goal, image>>

Writes(j) == stand[j] = "working" /\ before[j] # NoImage /\ goal[j] # NoImage

Erase(j) == Writes(j) /\ image' = Torn /\ UNCHANGED <<goal, stand, before>>

Write(j) ==
  /\ Writes(j)
  /\ image' = goal[j]
  /\ stand' = [stand EXCEPT ![j] = "ok"]
  /\ UNCHANGED <<goal, before>>

\* A job fails, or is lost with the power.
Fail(j) ==
  /\ stand[j] = "working"
  /\ \E end \in {"error", "lost"} : stand' = [stand EXCEPT ![j] = end]
  /\ UNCHANGED <<goal, before, image>>

Next ==
  \E j \in Job :
    \/ \E wish \in Wishes : Ask(j, wish) \/ Drop(j, wish)
    \/ Begin(j) \/ Save(j) \/ Erase(j) \/ Write(j) \/ Fail(j)

Spec == Init /\ [][Next]_ledger

=============================================================================
