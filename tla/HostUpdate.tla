---------------------------- MODULE HostUpdate ----------------------------
(***************************************************************************)
(* The in-software update of the host application.  The daemon guards,     *)
(* fetches the manifest and the artifact while the event loop goes on,     *)
(* and writes a request; a systemd path unit starts the root helper for    *)
(* as long as a request is there.  The helper verifies the artifact, saves *)
(* the live tree, swaps the new code and then the new frontend into place, *)
(* restarts the service and asks whether it answers; a build that does not *)
(* is rolled back.  A rollback puts the saved tree back.                   *)
(*                                                                         *)
(* A tree is the release it holds, Torn when a copy of it was cut short,   *)
(* Missing when it is not there.  Releases answer, die at once or accept   *)
(* the connection and say nothing.                                         *)
(***************************************************************************)
EXTENDS Naturals, Sequences

CONSTANTS
  Good,      \* releases that answer
  Dead,      \* releases that do not come up
  Mute,      \* releases that come up and never answer
  MaxJobs,   \* bound: requests that are made
  Faults     \* bound: those that strike, of "copy": a cp fails, "kill": systemd
             \* stops a slow helper after 240 s, "power": the host loses power

Releases == Good \cup Dead \cup Mute
Torn     == "torn"
Missing  == "missing"
Tree     == Releases \cup {Torn, Missing}
Part     == {"code", "dist"}   \* backend/heatermeterd and frontend/dist
Fault    == {"copy", "kill", "power"}

ASSUME ReleasesAssumption ==
  /\ Good # {}
  /\ Good \cap Dead = {} /\ Good \cap Mute = {} /\ Dead \cap Mute = {}
  /\ Releases \cap {Torn, Missing} = {}

ASSUME UpdateBoundsAssumption ==
  /\ MaxJobs \in Nat \ {0}
  /\ Faults \subseteq Fault

Update(r) == [action |-> "update", rel |-> r]
Rollback  == [action |-> "rollback", rel |-> Missing]
Request   == {Update(r) : r \in Releases} \cup {Rollback}

NoResult      == [job |-> 0, ok |-> FALSE]
Result(j, ok) == [job |-> j, ok |-> ok]

VARIABLES
  up,        \* the daemon runs and answers
  waiting,   \* how many start_host_update wait for the manifest or the artifact
  job,       \* self.hostupdate_job, 0 when it is None
  status,    \* self.hostupdate_status
  polls,     \* the chains of _hu_poll that go on
  asked,     \* the requests made so far, in order
  request,   \* request.json, 0 when it is not there
  result,    \* hostupdate.result.json, which is one file for all jobs
  live,      \* the installed code and frontend
  prev,      \* .hm-previous
  helper,    \* hm-update: its step, its job, and the copy it is making
  hit,       \* history: the faults that struck a helper
  was        \* history: the last run, and the live tree it found

daemon == <<up, waiting, job, status, polls>>
vars   == <<daemon, asked, request, result, live, prev, helper, hit, was>>

Idle == [at |-> "idle", job |-> 0, src |-> "new", part |-> "code", new |-> Missing]

\* Whether the tree that is installed would answer
Answers(tree) == tree \in Good

-----------------------------------------------------------------------------
(* The daemon.                                                             *)

\* Variant: the word of the result file is taken for the state
RawStatus(res) ==
  [state |-> IF res = NoResult THEN "idle" ELSE IF res.ok THEN "ok" ELSE "error",
   job   |-> res.job]

\* _load_hostupdate_boot_result: whoever left a result, it is surfaced.
BootStatus(res) ==
  [state |-> IF res = NoResult THEN "idle" ELSE IF res.ok THEN "success" ELSE "error",
   job   |-> res.job]

\* The process goes, and with it all it had in mind.
Forgets ==
  /\ waiting' = 0
  /\ job' = 0
  /\ polls' = 0

\* The process goes, and comes back if the tree answers.
Restarts(res) ==
  /\ up' = Answers(live.code)
  /\ Forgets
  /\ status' = IF up' THEN BootStatus(res) ELSE [state |-> "idle", job |-> 0]

Crash ==
  /\ up
  /\ up' = FALSE
  /\ Forgets
  /\ status' = [state |-> "idle", job |-> 0]
  /\ UNCHANGED <<asked, request, result, live, prev, helper, hit, was>>

\* systemd starts the service, on-failure and at boot.
Boot ==
  /\ ~up
  /\ Answers(live.code)
  /\ Restarts(result)
  /\ UNCHANGED <<asked, request, result, live, prev, helper, hit, was>>

\* start_host_update: no job, a channel, and a pit that does not drive, which
\* the model leaves open; then it awaits the manifest and the artifact.  The
\* state "downloading", which no guard reads, is left out.
BeginUpdate ==
  /\ up
  /\ job = 0
  /\ Len(asked) + waiting < MaxJobs
  /\ waiting' = waiting + 1
  /\ UNCHANGED <<up, job, status, polls, asked, request, result, live, prev, helper, hit, was>>

\* No manifest, not the version that was asked for, nothing newer, a failed
\* download or a wrong sha256
GiveUpUpdate ==
  /\ waiting > 0
  /\ waiting' = waiting - 1
  /\ status' \in {status, [state |-> "idle", job |-> 0]}
  /\ UNCHANGED <<up, job, polls, asked, request, result, live, prev, helper, hit, was>>

\* "Clear any stale progress/result"
ClearsStale == NoResult

\* The job is set, and the request written in the place of one that waits; or the
\* write fails, and nobody polls for the job but a chain that goes on.
Asks(req) ==
  /\ asked' = Append(asked, req)
  /\ result' = ClearsStale
  /\ job' = Len(asked')
  /\ status' = [state |-> "applying", job |-> job']
  /\ \/ request' = job' /\ polls' = polls + 1
     \/ UNCHANGED <<request, polls>>

\* The rest of start_host_update, which does not look at the guards again
AcceptUpdate(r) ==
  /\ waiting > 0
  /\ waiting' = waiting - 1
  /\ Asks(Update(r))
  /\ UNCHANGED <<up, live, prev, helper, hit, was>>

\* A rollback awaits nothing.
StartRollback ==
  /\ up
  /\ job = 0
  /\ Len(asked) + waiting < MaxJobs
  /\ Asks(Rollback)
  /\ UNCHANGED <<up, waiting, live, prev, helper, hit, was>>

\* _hu_poll, _hu_finish: the result of this job, or none after 240 s.  Any chain
\* serves, and it ends.
Poll ==
  /\ job # 0
  /\ polls > 0
  /\ job' = 0
  /\ polls' = polls - 1
  /\ \/ /\ result.job = job
        /\ status' = [state |-> IF result.ok THEN "success" ELSE "error", job |-> job]
     \/ /\ result.job # job
        /\ status' = [state |-> "error", job |-> job]
  /\ UNCHANGED <<up, waiting, asked, request, result, live, prev, helper, hit, was>>

\* _hu_poll without a job: another chain has served it.
PollEnds ==
  /\ job = 0
  /\ polls > 0
  /\ polls' = polls - 1
  /\ UNCHANGED <<up, waiting, job, status, asked, request, result, live, prev, helper, hit, was>>

\* ack_host_update, at any time
Ack ==
  /\ up
  /\ result' = NoResult
  /\ status' = [state |-> "idle", job |-> 0]
  /\ UNCHANGED <<up, waiting, job, polls, asked, request, live, prev, helper, hit, was>>

-----------------------------------------------------------------------------
(* deploy/hm-update, one run at a time.                                    *)

Asked == asked[helper.job]

HelperAt(at) == [helper EXCEPT !.at = at]

\* The copy of a part into place begins: to dst.new first.
Copying(src, part) ==
  [helper EXCEPT !.at = "copy", !.src = src, !.part = part, !.new = Torn]

\* The EXIT trap: a result, if none is there, of whatever job.
TrapResult == IF result = NoResult THEN Result(helper.job, FALSE) ELSE result

Ends ==
  /\ result' = TrapResult
  /\ helper' = Idle

\* finish, and the end of the run
Finishes(ok) ==
  /\ result' = Result(helper.job, ok)
  /\ helper' = Idle

\* hm-update.path: there is a request and no run.
HelperStarts ==
  /\ helper.at = "idle"
  /\ request # 0
  /\ request' = 0
  /\ helper' = [Idle EXCEPT !.at  = IF asked[request].action = "update"
                                    THEN "verify" ELSE "restore",
                            !.job = request]
  /\ was' = [run |-> request, tree |-> live]
  /\ UNCHANGED <<daemon, asked, result, live, prev, hit>>

\* The artifact is there, has its sha256 and holds the three files; or not.
Verify ==
  /\ helper.at = "verify"
  /\ \/ /\ helper' = HelperAt("save")
        /\ UNCHANGED result
     \/ Finishes(FALSE)
  /\ UNCHANGED <<daemon, asked, request, live, prev, hit, was>>

\* rm -rf .hm-previous, and the copy of the live code begins; one that is not
\* there cannot be copied.
Save ==
  /\ helper.at = "save"
  /\ prev' = [code |-> Torn, dist |-> Missing]
  /\ IF live.code # Missing
     THEN helper' = HelperAt("saveCode") /\ UNCHANGED result
     ELSE Ends
  /\ UNCHANGED <<daemon, asked, request, live, hit, was>>

SaveCode ==
  /\ helper.at = "saveCode"
  /\ prev' = [code |-> live.code, dist |-> IF live.dist = Missing THEN Missing ELSE Torn]
  /\ helper' = HelperAt("saveDist")
  /\ UNCHANGED <<daemon, asked, request, result, live, hit, was>>

\* Variant: the frontend is not saved
SavedCode == [prev EXCEPT !.dist = Missing]

\* the frontend is saved too
Saved == [prev EXCEPT !.dist = live.dist]

SaveDist ==
  /\ helper.at = "saveDist"
  /\ prev' = Saved
  /\ helper' = Copying("new", "code")
  /\ UNCHANGED <<daemon, asked, request, result, live, hit, was>>

\* Variant: the rollback copies from the extracted artifact again
SourceNew == IF Asked.action = "update" THEN Asked.rel ELSE prev[helper.part]

\* What swap_dir copies
Source == IF helper.src = "new" THEN Asked.rel ELSE prev[helper.part]

Copied ==
  /\ helper.at = "copy"
  /\ helper' = [helper EXCEPT !.at = "away", !.new = Source]
  /\ UNCHANGED <<daemon, asked, request, result, live, prev, hit, was>>

\* Variant: a failed copy never ends the run
GoesOn == helper.at = "copy"

\* restore_previous is only called where the shell ignores failures: after "if !"
\* and before "||", set -e is off in all it calls.
Tolerates == helper.at = "copy" /\ helper.src = "prev"

\* A cp fails.  Elsewhere set -e ends the run.
CopyFails ==
  /\ "copy" \in Faults
  /\ helper.at \in {"saveCode", "saveDist", "copy"}
  /\ IF Tolerates
     THEN helper' = HelperAt("away") /\ UNCHANGED result
     ELSE Ends
  /\ hit' = hit \cup {"copy"}
  /\ UNCHANGED <<daemon, asked, request, live, prev, was>>

\* mv dst dst.old
Away ==
  /\ helper.at = "away"
  /\ live' = [live EXCEPT ![helper.part] = Missing]
  /\ helper' = HelperAt("in")
  /\ UNCHANGED <<daemon, asked, request, result, prev, hit, was>>

\* mv dst.new dst; the frontend follows the code, unless none was saved.
In ==
  /\ helper.at = "in"
  /\ live' = [live EXCEPT ![helper.part] = helper.new]
  /\ helper' = IF helper.part = "code" /\ ~(helper.src = "prev" /\ prev.dist = Missing)
               THEN Copying(helper.src, "dist")
               ELSE HelperAt("installed")
  /\ UNCHANGED <<daemon, asked, request, result, prev, hit, was>>

\* restore_previous: there must be a saved tree.
Restore ==
  /\ helper.at = "restore"
  /\ IF prev.code # Missing
     THEN helper' = Copying("prev", "code") /\ UNCHANGED result
     ELSE IF Asked.action = "rollback"
          THEN Finishes(FALSE)
          ELSE helper' = [helper EXCEPT !.at = "installed", !.src = "prev"] /\ UNCHANGED result
  /\ UNCHANGED <<daemon, asked, request, live, prev, hit, was>>

\* Variant: success is recorded whatever the build becomes
KeepsSuccess == result

\* An update that was rolled back says so before the service is restarted.
SaysRolledBack == Result(helper.job, FALSE)

\* A new build is a success before it was restarted, one that was rolled back
\* an error, a rollback nothing yet.
Installed ==
  /\ helper.at = "installed"
  /\ result' = IF Asked.action = "rollback" THEN result
               ELSE IF helper.src = "new" THEN Result(helper.job, TRUE)
               ELSE SaysRolledBack
  /\ helper' = HelperAt("restart")
  /\ UNCHANGED <<daemon, asked, request, live, prev, hit, was>>

\* systemctl restart; after the automatic rollback that is the end.
Restart ==
  /\ helper.at = "restart"
  /\ Restarts(result)
  /\ IF Asked.action = "update" /\ helper.src = "prev"
     THEN Ends
     ELSE helper' = HelperAt("check") /\ UNCHANGED result
  /\ UNCHANGED <<asked, request, live, prev, hit, was>>

\* Variant: a new build is not asked whether it answers
NoCheck == Asked.action = "update" \/ Answers(live.code)

\* curl: the service answers
Passes == Answers(live.code)

\* restart_and_check: thirty attempts, the service answers or not; curl has no
\* time limit and waits for a mute build until systemd ends the run.
Check ==
  /\ helper.at = "check"
  /\ Passes \/ live.code \notin Mute
  /\ IF Asked.action = "rollback" THEN Finishes(Passes)
     ELSE IF Passes THEN Ends
     ELSE helper' = HelperAt("restore") /\ UNCHANGED result
  /\ UNCHANGED <<daemon, asked, request, live, prev, hit, was>>

\* TimeoutStartSec: the trap runs, nothing else.  A helper that waits for a mute
\* build is always ended so, any other only when it is slow.
Killed ==
  /\ helper.at # "idle"
  /\ "kill" \in Faults \/ (helper.at = "check" /\ live.code \in Mute)
  /\ Ends
  /\ hit' = hit \cup {"kill"}
  /\ UNCHANGED <<daemon, asked, request, live, prev, was>>

\* The host loses power; nothing is run at all.
PowerCut ==
  /\ "power" \in Faults
  /\ helper.at # "idle"
  /\ helper' = Idle
  /\ hit' = hit \cup {"power"}
  /\ up' = FALSE
  /\ Forgets
  /\ status' = [state |-> "idle", job |-> 0]
  /\ UNCHANGED <<asked, request, result, live, prev, was>>

Helper ==
  \/ HelperStarts
  \/ Verify
  \/ Save
  \/ SaveCode
  \/ SaveDist
  \/ Copied
  \/ Away
  \/ In
  \/ Restore
  \/ Installed
  \/ Restart
  \/ Check

-----------------------------------------------------------------------------

\* A good release runs; an earlier update may have left a good one to go back to.
Init ==
  /\ up = TRUE
  /\ waiting = 0
  /\ job = 0
  /\ status = [state |-> "idle", job |-> 0]
  /\ polls = 0
  /\ asked = <<>>
  /\ request = 0
  /\ result = NoResult
  /\ \E r \in Good : live = [code |-> r, dist |-> r]
  /\ \E r \in Good \cup {Missing} : prev = [code |-> r, dist |-> r]
  /\ helper = Idle
  /\ hit = {}
  /\ was = [run |-> 0, tree |-> live]

Next ==
  \/ Crash
  \/ Boot
  \/ BeginUpdate
  \/ GiveUpUpdate
  \/ \E r \in Releases : AcceptUpdate(r)
  \/ StartRollback
  \/ Poll
  \/ PollEnds
  \/ Ack
  \/ Helper
  \/ CopyFails
  \/ Killed
  \/ PowerCut

\* asyncio polls, systemd starts what answers and ends a run that hangs, and the
\* helper goes on.
Fairness ==
  /\ WF_vars(Poll)
  /\ WF_vars(Boot)
  /\ WF_vars(Helper)
  /\ WF_vars(helper.at = "check" /\ Killed)

Spec     == Init /\ [][Next]_vars
FairSpec == Spec /\ Fairness

-----------------------------------------------------------------------------
(* Correctness.                                                            *)

\* The type of every variable.
TypeOK ==
  /\ up \in BOOLEAN
  /\ waiting \in 0 .. MaxJobs
  /\ job \in 0 .. MaxJobs
  /\ status \in [state : {"idle", "applying", "success", "error"}, job : 0 .. MaxJobs]
  /\ polls \in Nat
  /\ asked \in Seq(Request)
  /\ Len(asked) <= MaxJobs
  /\ request \in 0 .. MaxJobs
  /\ result \in [job : 0 .. MaxJobs, ok : BOOLEAN]
  /\ live \in [Part -> Tree]
  /\ prev \in [Part -> Tree]
  /\ helper \in [at   : {"idle", "verify", "save", "saveCode", "saveDist", "copy", "away",
                         "in", "restore", "installed", "restart", "check"},
                 job  : 0 .. MaxJobs,
                 src  : {"new", "prev"},
                 part : Part,
                 new  : Tree]
  /\ hit \subseteq Fault
  /\ was \in [run : 0 .. MaxJobs, tree : [Part -> Tree]]

\* An update never puts a half-copied tree in place, whatever strikes it: only
\* restore_previous can, from a saved tree that is torn or by a failed copy.
UpdateNeverTears ==
  [][\A part \in Part :
       live'[part] = Torn /\ live[part] # Torn => helper.src = "prev"]_vars

\* Whatever strikes an update, at whichever step of its saving, its two swaps or
\* its automatic rollback, and after it: the tree that was installed when it began
\* is still there, code and frontend, in place or as the one to go back to.
OldTreeSurvives ==
  was.run # 0 /\ asked[was.run].action = "update"
  => live = was.tree \/ prev = was.tree

\* As long as no run of the helper was struck, what it leaves when it ends is
\* one release, code and frontend, and it answers: a build that does not come up
\* is gone again, over any sequence of updates, rollbacks and restarts.
BadReleaseIsUndone ==
  helper.at = "idle" /\ hit = {}
  => live.code = live.dist /\ Answers(live.code)

\* A success that the result file reports when the helper is over is the release
\* that is installed and answers, or one that was since replaced by a later job.
\* A failed copy does not change that; a run cut short after it recorded its
\* success does.
SuccessIsInstalled ==
  helper.at = "idle" /\ hit \subseteq {"copy"}
  /\ result.ok /\ result.job = Len(asked) /\ asked[result.job].action = "update"
  => live.code = asked[result.job].rel /\ live.dist = live.code /\ Answers(live.code)

\* The device always comes back, although a bad release took it down.
Reachable == []<>(up \/ hit # {})

-----------------------------------------------------------------------------
(* What the safety properties rest on.                                     *)

Swaps == helper.at \in {"copy", "away", "in"}
Ran   == helper.at \in {"installed", "restart", "check"}

\* The helper runs a job that was asked for; a request that waits was asked for and
\* has not run, nor has the last one; an update that waits for its artifact has room
\* for its request.
RunInOrder ==
  /\ helper.at = "idle" <=> helper.job = 0
  /\ helper.job <= Len(asked)
  /\ request # 0 => /\ request <= Len(asked)
                    /\ helper.job # request /\ helper.job # Len(asked)
                    /\ result.ok => result.job # Len(asked)
  /\ Len(asked) + waiting <= MaxJobs

\* Only an update saves the tree and installs a new one; one that was rolled back
\* is not asked whether it answers.
StepsOfAction ==
  /\ helper.at \in {"verify", "save", "saveCode", "saveDist"} => Asked.action = "update"
  /\ helper.src = "new" /\ (Swaps \/ Ran) => Asked.action = "update"
  /\ helper.src = "prev" /\ helper.at = "check" => Asked.action = "rollback"

\* What is swapped in from the artifact is the release that was asked for.
NewIsWhole ==
  helper.src = "new" =>
    /\ helper.at \in {"away", "in"} => helper.new = Asked.rel
    /\ Swaps /\ helper.part = "dist" => live.code = Asked.rel
    /\ Ran => live.code = Asked.rel /\ live.dist = Asked.rel

\* A success is of a job that was asked for and picked up; while the helper runs
\* that job, the new build was installed and is not yet known to answer.
ResultIsOfRun ==
  result.ok =>
    /\ result.job # 0 /\ result.job <= Len(asked) /\ result.job # request
    /\ result.job = helper.job =>
         /\ Asked.action = "update"
         /\ \/ helper.src = "new" /\ helper.at \in {"restart", "check"}
            \/ helper.src = "new" /\ helper.at = "restore"
            \/ helper.src = "prev" /\ (Swaps \/ helper.at = "installed")

\* After a success of the last job no other run is on the way, and once it is
\* over the release is there.
LastIsInstalled ==
  result.ok /\ result.job = Len(asked)
  => helper.job \in {0, Len(asked)} /\ SuccessIsInstalled

\* A release that answers, code and frontend
Whole(tree) == tree.code \in Good /\ tree.dist = tree.code

NoneSaved == prev.code = Missing /\ prev.dist = Missing

\* As long as no run was struck, either the live tree or the saved one is whole,
\* and a restoration has got as far as its step says.
UnstruckIsWhole ==
  hit = {} =>
    /\ helper.at \in {"idle", "verify", "save"} => Whole(live) /\ (Whole(prev) \/ NoneSaved)
    /\ helper.at \in {"saveCode", "saveDist"} => Whole(live)
    /\ helper.at = "saveDist" => prev.code = live.code
    /\ Swaps \/ Ran => Whole(prev)
    /\ Swaps /\ helper.src = "prev" =>
         /\ helper.at \in {"away", "in"} => helper.new = prev[helper.part]
         /\ helper.part = "dist" => live.code = prev.code
    /\ Ran /\ helper.src = "prev" => Whole(live)
    /\ helper.at = "restore" =>
         IF Asked.action = "rollback" THEN Whole(live) /\ (Whole(prev) \/ NoneSaved)
                                      ELSE Whole(prev)

\* The run that goes on is the one that was begun last.  An update leaves the live
\* tree alone until it is saved, and from then on the saved one.
SavedFirst ==
  /\ helper.job # 0 => was.run = helper.job
  /\ was.run <= Len(asked)
  /\ helper.job # 0 /\ Asked.action = "update" =>
       /\ helper.at \in {"verify", "save", "saveCode", "saveDist"} => live = was.tree
       /\ helper.at = "saveDist" => prev.code = live.code
       /\ Swaps \/ Ran \/ helper.at = "restore" => prev = was.tree

IInv ==
  /\ RunInOrder
  /\ StepsOfAction
  /\ NewIsWhole
  /\ ResultIsOfRun
  /\ LastIsInstalled
  /\ UnstruckIsWhole

=============================================================================
