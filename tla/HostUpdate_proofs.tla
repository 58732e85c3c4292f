------------------------ MODULE HostUpdate_proofs ------------------------
(***************************************************************************)
(* Proofs about HostUpdate, for every set of releases, of faults and every *)
(* number of jobs: its type invariant, the inductive invariant IInv, and   *)
(* the safety and action properties that follow from it.                   *)
(***************************************************************************)
EXTENDS HostUpdate, TLAPS

-----------------------------------------------------------------------------
(* What the operators return.                                              *)

\* What the helper may be
HelperSet ==
  [at   : {"idle", "verify", "save", "saveCode", "saveDist", "copy", "away",
           "in", "restore", "installed", "restart", "check"},
   job  : 0 .. MaxJobs,
   src  : {"new", "prev"},
   part : Part,
   new  : Tree]

\* A request to update names a release.
LEMMA RequestFacts ==
  ASSUME NEW r \in Request
  PROVE  /\ r.action \in {"update", "rollback"}
         /\ r.action = "update" => r.rel \in Releases
         /\ r.rel \in Tree
BY DEF Request, Update, Rollback, Tree

\* The requests one can make are requests.
LEMMA RequestsMade == Rollback \in Request /\ \A r \in Releases : Update(r) \in Request
BY DEF Request

\* The idle helper is a helper.
LEMMA IdleFacts == Idle \in HelperSet /\ Idle.at = "idle" /\ Idle.job = 0 /\ Idle.src = "new"
BY UpdateBoundsAssumption DEF Idle, HelperSet, Part, Tree

\* A pair of trees is a tree for each part.
LEMMA PairType ==
  ASSUME NEW c \in Tree, NEW d \in Tree
  PROVE  LET p == [code |-> c, dist |-> d]
         IN  p \in [Part -> Tree] /\ p.code = c /\ p.dist = d
BY DEF Part

\* No release is torn or missing.
LEMMA ReleaseIsWhole == ASSUME NEW r \in Releases PROVE r # Torn /\ r # Missing /\ r \in Tree
BY ReleasesAssumption DEF Tree

\* A release that answers is one of the good ones, which are there.
LEMMA GoodIsRelease == ASSUME NEW r \in Good PROVE r \in Releases /\ r \in Tree /\ r # Missing
BY ReleasesAssumption DEF Releases, Tree

\* A job that was asked for has its request.
LEMMA AskedFacts ==
  ASSUME TypeOK, NEW j \in 1 .. Len(asked)
  PROVE  asked[j] \in Request /\ j \in 0 .. MaxJobs
BY UpdateBoundsAssumption DEF TypeOK

\* A helper that runs has a job that was asked for, and no other request names it.
LEMMA RunFacts ==
  ASSUME TypeOK, IInv, helper.at # "idle"
  PROVE  /\ helper.job \in 1 .. Len(asked)
         /\ Asked \in Request
         /\ request # helper.job
<1>1. helper.job \in 1 .. Len(asked)
  BY DEF IInv, RunInOrder, TypeOK
<1>2. request # helper.job
  BY <1>1 DEF IInv, RunInOrder
<1> QED  BY <1>1, <1>2, AskedFacts DEF Asked

-----------------------------------------------------------------------------
(* The first states.                                                       *)

\* The types hold initially.
LEMMA InitType == Init => TypeOK
<1> SUFFICES ASSUME Init PROVE TypeOK
  OBVIOUS
<1>1. live \in [Part -> Tree] /\ prev \in [Part -> Tree]
  <2>1. PICK r \in Good, p \in Good \cup {Missing} :
          live = [code |-> r, dist |-> r] /\ prev = [code |-> p, dist |-> p]
    BY DEF Init
  <2>2. r \in Tree /\ p \in Tree
    BY GoodIsRelease DEF Tree
  <2> QED  BY <2>1, <2>2, PairType
<1>2. result \in [job : 0 .. MaxJobs, ok : BOOLEAN]
  BY UpdateBoundsAssumption DEF Init, NoResult
<1>3. status \in [state : {"idle", "applying", "success", "error"}, job : 0 .. MaxJobs]
  BY UpdateBoundsAssumption DEF Init
<1>4. asked \in Seq(Request) /\ Len(asked) <= MaxJobs
  BY UpdateBoundsAssumption DEF Init
<1>5. 0 \in 0 .. MaxJobs
  BY UpdateBoundsAssumption
<1>6. helper \in HelperSet
  BY IdleFacts DEF Init
<1> QED  BY <1>1, <1>2, <1>3, <1>4, <1>5, <1>6 DEF Init, TypeOK, HelperSet

\* The invariant holds initially.
LEMMA InitInv == Init => IInv
<1> SUFFICES ASSUME Init PROVE IInv
  OBVIOUS
<1>1. Whole(live) /\ (Whole(prev) \/ NoneSaved)
  BY DEF Init, Whole, NoneSaved
<1>2. helper = Idle /\ ~result.ok /\ asked = <<>> /\ request = 0 /\ waiting = 0
  BY DEF Init, NoResult
<1>3. RunInOrder
  BY <1>2, IdleFacts, UpdateBoundsAssumption DEF RunInOrder
<1> QED
  BY <1>1, <1>2, <1>3, IdleFacts DEF IInv, StepsOfAction, NewIsWhole, ResultIsOfRun,
     LastIsInstalled, UnstruckIsWhole, Swaps, Ran

-----------------------------------------------------------------------------
(* The daemon's steps leave the helper and the trees alone.                *)

\* A step that at most forgets the result keeps the invariant.
LEMMA QuietStep ==
  ASSUME TypeOK, IInv, UNCHANGED <<asked, request, live, prev, helper, hit, was>>,
         result' = result \/ ~result'.ok,
         Len(asked) + waiting' <= MaxJobs
  PROVE  IInv'
<1>1. Asked' = Asked
  BY DEF Asked
<1>2. RunInOrder'
  BY DEF IInv, RunInOrder
<1>3. StepsOfAction' /\ NewIsWhole' /\ UnstruckIsWhole'
  BY <1>1 DEF IInv, StepsOfAction, NewIsWhole, UnstruckIsWhole, Swaps, Ran, Whole, NoneSaved
<1>4. ResultIsOfRun' /\ LastIsInstalled'
  BY <1>1 DEF IInv, ResultIsOfRun, LastIsInstalled, SuccessIsInstalled, Swaps, Ran, Answers
<1> QED  BY <1>2, <1>3, <1>4 DEF IInv

LEMMA CrashStep == ASSUME TypeOK, IInv, Crash PROVE TypeOK' /\ IInv'
<1>1. /\ up' = FALSE /\ waiting' = 0 /\ job' = 0 /\ polls' = 0
      /\ status' = [state |-> "idle", job |-> 0]
      /\ UNCHANGED <<asked, request, result, live, prev, helper, hit, was>>
  BY DEF Crash, Forgets
<1>2. 0 \in 0 .. MaxJobs
  BY UpdateBoundsAssumption
<1>3. TypeOK'
  BY <1>1, <1>2 DEF TypeOK
<1> QED  BY <1>1, <1>3, QuietStep DEF TypeOK

\* A result of whoever left one gives a state.
LEMMA RestartsFacts ==
  ASSUME TypeOK, Restarts(result)
  PROVE  /\ up' \in BOOLEAN /\ waiting' = 0 /\ waiting' \in 0 .. MaxJobs
         /\ job' \in 0 .. MaxJobs /\ polls' \in Nat
         /\ status' \in [state : {"idle", "applying", "success", "error"},
                         job : 0 .. MaxJobs]
<1>1. 0 \in 0 .. MaxJobs
  BY UpdateBoundsAssumption
<1>2. BootStatus(result) \in [state : {"idle", "applying", "success", "error"},
                              job : 0 .. MaxJobs]
  BY DEF BootStatus, TypeOK
<1> QED  BY <1>1, <1>2 DEF Restarts, Forgets, Answers

LEMMA BootStep == ASSUME TypeOK, IInv, Boot PROVE TypeOK' /\ IInv'
<1>1. TypeOK'
  BY RestartsFacts DEF Boot, TypeOK
<1> QED  BY <1>1, RestartsFacts, QuietStep DEF Boot, TypeOK

LEMMA BeginUpdateStep == ASSUME TypeOK, IInv, BeginUpdate PROVE TypeOK' /\ IInv'
<1>1. Len(asked) + waiting' <= MaxJobs /\ waiting' \in 0 .. MaxJobs
  BY UpdateBoundsAssumption DEF BeginUpdate, TypeOK
<1>2. TypeOK'
  BY <1>1 DEF BeginUpdate, TypeOK
<1> QED  BY <1>1, <1>2, QuietStep DEF BeginUpdate

LEMMA GiveUpUpdateStep == ASSUME TypeOK, IInv, GiveUpUpdate PROVE TypeOK' /\ IInv'
<1>1. Len(asked) + waiting' <= MaxJobs /\ waiting' \in 0 .. MaxJobs
  BY UpdateBoundsAssumption DEF GiveUpUpdate, TypeOK, IInv, RunInOrder
<1>2. status' \in [state : {"idle", "applying", "success", "error"}, job : 0 .. MaxJobs]
  BY UpdateBoundsAssumption DEF GiveUpUpdate, TypeOK
<1>3. TypeOK'
  BY <1>1, <1>2 DEF GiveUpUpdate, TypeOK
<1> QED  BY <1>1, <1>3, QuietStep DEF GiveUpUpdate

LEMMA PollStep == ASSUME TypeOK, IInv, Poll PROVE TypeOK' /\ IInv'
<1>1. job' = 0 /\ 0 \in 0 .. MaxJobs
  BY UpdateBoundsAssumption DEF Poll
<1>2. status' \in [state : {"idle", "applying", "success", "error"}, job : 0 .. MaxJobs]
  BY DEF Poll, TypeOK
<1>3. polls' \in Nat
  BY DEF Poll, TypeOK
<1>4. TypeOK'
  BY <1>1, <1>2, <1>3 DEF Poll, TypeOK
<1> QED  BY <1>4, QuietStep DEF Poll, IInv, RunInOrder

LEMMA PollEndsStep == ASSUME TypeOK, IInv, PollEnds PROVE TypeOK' /\ IInv'
<1>1. polls' \in Nat
  BY DEF PollEnds, TypeOK
<1>2. TypeOK'
  BY <1>1 DEF PollEnds, TypeOK
<1> QED  BY <1>2, QuietStep DEF PollEnds, IInv, RunInOrder

LEMMA AckStep == ASSUME TypeOK, IInv, Ack PROVE TypeOK' /\ IInv'
<1>1. /\ result' \in [job : 0 .. MaxJobs, ok : BOOLEAN] /\ ~result'.ok
      /\ status' \in [state : {"idle", "applying", "success", "error"}, job : 0 .. MaxJobs]
  BY UpdateBoundsAssumption DEF Ack, NoResult
<1>2. TypeOK'
  BY <1>1 DEF Ack, TypeOK
<1> QED  BY <1>1, <1>2, QuietStep DEF Ack, IInv, RunInOrder

\* A request replaces the one that waits or cannot be written; no result is there yet.
LEMMA AsksStep ==
  ASSUME TypeOK, IInv, NEW req \in Request, Asks(req),
         Len(asked) + 1 + waiting' <= MaxJobs, waiting' \in 0 .. MaxJobs,
         UNCHANGED <<up, live, prev, helper, hit, was>>
  PROVE  TypeOK' /\ IInv'
<1> DEFINE n == Len(asked) + 1
<1>1. /\ asked' \in Seq(Request) /\ Len(asked') = n /\ n \in Nat /\ n <= MaxJobs /\ n # 0
      /\ \A j \in 1 .. Len(asked) : asked'[j] = asked[j]
  BY UpdateBoundsAssumption DEF Asks, TypeOK
<1>2. /\ job' = n /\ request' \in {n, request} /\ status' = [state |-> "applying", job |-> n]
      /\ result' = NoResult /\ polls' \in Nat
  BY <1>1 DEF Asks, ClearsStale, TypeOK
<1> HIDE DEF n
<1>3. TypeOK'
  <2>1. n \in 0 .. MaxJobs /\ 0 \in 0 .. MaxJobs
    BY <1>1, UpdateBoundsAssumption
  <2>2. result' \in [job : 0 .. MaxJobs, ok : BOOLEAN]
    BY <1>2, <2>1 DEF NoResult
  <2>3. status' \in [state : {"idle", "applying", "success", "error"}, job : 0 .. MaxJobs]
    BY <1>2, <2>1
  <2> QED  BY <1>1, <1>2, <2>1, <2>2, <2>3 DEF TypeOK
<1>4. RunInOrder'
  <2>1. helper.job <= Len(asked) /\ helper.job \in Nat /\ Len(asked) \in Nat
    BY DEF IInv, RunInOrder, TypeOK
  <2>2. helper.job # n /\ helper.job <= n
    BY <2>1 DEF n
  <2>3. n + waiting' <= MaxJobs
    BY DEF n
  <2>4. request # 0 => request <= n /\ helper.job # request
    BY DEF IInv, RunInOrder, TypeOK, n
  <2> QED  BY <1>1, <1>2, <2>2, <2>3, <2>4 DEF IInv, RunInOrder, NoResult
<1>5. helper.at # "idle" => Asked' = Asked
  BY <1>1, RunFacts DEF Asked
<1>6. StepsOfAction' /\ NewIsWhole' /\ UnstruckIsWhole'
  <2>1. CASE helper.at = "idle"
    BY <2>1 DEF IInv, StepsOfAction, NewIsWhole, UnstruckIsWhole, Swaps, Ran, Whole, NoneSaved
  <2>2. CASE helper.at # "idle"
    BY <1>5, <2>2 DEF IInv, StepsOfAction, NewIsWhole, UnstruckIsWhole, Swaps, Ran,
       Whole, NoneSaved
  <2> QED  BY <2>1, <2>2
<1>7. ResultIsOfRun' /\ LastIsInstalled'
  BY <1>2 DEF NoResult, ResultIsOfRun, LastIsInstalled
<1> QED  BY <1>3, <1>4, <1>6, <1>7 DEF IInv

LEMMA AcceptUpdateStep ==
  ASSUME TypeOK, IInv, NEW r \in Releases, AcceptUpdate(r)
  PROVE  TypeOK' /\ IInv'
<1>1. Len(asked) + 1 + waiting' <= MaxJobs /\ waiting' \in 0 .. MaxJobs
  BY UpdateBoundsAssumption DEF AcceptUpdate, TypeOK, IInv, RunInOrder
<1> QED  BY <1>1, RequestsMade, AsksStep DEF AcceptUpdate

LEMMA StartRollbackStep == ASSUME TypeOK, IInv, StartRollback PROVE TypeOK' /\ IInv'
<1>1. Len(asked) + 1 + waiting' <= MaxJobs /\ waiting' \in 0 .. MaxJobs
  BY UpdateBoundsAssumption DEF StartRollback, TypeOK
<1> QED  BY <1>1, RequestsMade, AsksStep DEF StartRollback

-----------------------------------------------------------------------------
(* The helper.                                                             *)

\* A step that takes no room leaves room for the requests that wait.
LEMMA RoomStays ==
  ASSUME TypeOK, IInv, UNCHANGED asked, waiting' <= waiting, waiting' \in 0 .. MaxJobs
  PROVE  Len(asked') + waiting' <= MaxJobs /\ Len(asked) \in Nat
<1>1. Len(asked) \in Nat /\ waiting \in Nat /\ waiting' \in Nat /\ MaxJobs \in Nat
  BY UpdateBoundsAssumption DEF TypeOK
<1>2. Len(asked) + waiting <= MaxJobs
  BY DEF IInv, RunInOrder
<1> QED  BY <1>1, <1>2

\* A run that ends leaves a result of its own job or the one that is there, and
\* whole trees if it was not struck.
LEMMA EndStep ==
  ASSUME TypeOK, IInv, UNCHANGED <<asked, request, live>>,
         NEW h \in SUBSET Fault, hit' = hit \cup h,
         waiting' <= waiting, waiting' \in 0 .. MaxJobs,
         helper.at # "idle", helper' = Idle,
         result' \in [job : 0 .. MaxJobs, ok : BOOLEAN],
         result' = result \/ ~result'.ok \/ (result'.job = helper.job /\ Asked.action # "update"),
         result'.ok /\ result'.job = helper.job /\ Asked.action = "update" /\ hit' \subseteq {"copy"}
           => live.code = Asked.rel /\ live.dist = live.code /\ Answers(live.code),
         hit' = {} => Whole(live) /\ (Whole(prev') \/ NoneSaved')
  PROVE  IInv'
<1>1. helper'.at = "idle" /\ helper'.job = 0 /\ helper'.src = "new"
  BY IdleFacts
<1>2. helper.job \in 1 .. Len(asked) /\ request # helper.job /\ helper.job # 0
  BY RunFacts
<1>3. RunInOrder'
  <2>1. request # 0 => /\ request <= Len(asked) /\ helper.job # Len(asked)
                       /\ result.ok => result.job # Len(asked)
    BY DEF IInv, RunInOrder
  <2>2. Len(asked) \in Nat /\ Len(asked) + waiting' <= MaxJobs
    BY RoomStays
  <2>3. request # 0 /\ result'.ok => result'.job # Len(asked)
    BY <2>1
  <2>4. Len(asked) # 0
    BY <1>2, <2>2
  <2> QED  BY <1>1, <2>1, <2>2, <2>3, <2>4 DEF RunInOrder
<1>4. StepsOfAction' /\ NewIsWhole'
  BY <1>1 DEF StepsOfAction, NewIsWhole, Swaps, Ran
<1>5. ResultIsOfRun'
  BY <1>1, <1>2 DEF IInv, ResultIsOfRun
<1>6. LastIsInstalled'
  <2> SUFFICES ASSUME result'.ok, result'.job = Len(asked)
               PROVE  SuccessIsInstalled'
    BY <1>1 DEF LastIsInstalled
  <2>1. CASE helper.job = Len(asked)
    BY <2>1 DEF SuccessIsInstalled, Asked, Answers
  <2>2. CASE helper.job # Len(asked)
    BY <1>2, <2>2 DEF IInv, LastIsInstalled
  <2> QED  BY <2>1, <2>2
<1>7. UnstruckIsWhole'
  BY <1>1 DEF UnstruckIsWhole, Swaps, Ran, Whole, NoneSaved
<1> QED  BY <1>3, <1>4, <1>5, <1>6, <1>7 DEF IInv

\* The result a run ends with when it wrote none
LEMMA TrapFacts ==
  ASSUME TypeOK
  PROVE  /\ TrapResult \in [job : 0 .. MaxJobs, ok : BOOLEAN]
         /\ TrapResult = result \/ ~TrapResult.ok
BY DEF TrapResult, Result, TypeOK

\* A request is picked up.
LEMMA HelperStartsStep == ASSUME TypeOK, IInv, HelperStarts PROVE TypeOK' /\ IInv'
<1>1. request \in 1 .. Len(asked) /\ (result.ok => result.job # Len(asked))
  BY DEF HelperStarts, IInv, RunInOrder, TypeOK
<1>2. asked[request] \in Request
  BY <1>1, AskedFacts
<1>3. /\ helper'.job = request /\ helper'.src = "new" /\ helper' \in HelperSet
      /\ asked[request].action = "update" => helper'.at = "verify"
      /\ asked[request].action = "rollback" => helper'.at = "restore"
  <2>1. request \in 0 .. MaxJobs
    BY DEF TypeOK
  <2> QED  BY <1>2, <2>1, IdleFacts, RequestFacts DEF HelperStarts, HelperSet
<1>4. /\ request' = 0 /\ UNCHANGED <<daemon, asked, result, live, prev, hit>>
      /\ was' = [run |-> request, tree |-> live] /\ Asked' = asked[request]
  BY <1>3 DEF HelperStarts, Asked
<1>5. TypeOK'
  <2>1. was' \in [run : 0 .. MaxJobs, tree : [Part -> Tree]]
    BY <1>4 DEF TypeOK
  <2> QED  BY <1>3, <1>4, <2>1, UpdateBoundsAssumption DEF TypeOK, daemon, HelperSet
<1>6. asked[request].action \in {"update", "rollback"}
  BY <1>2, RequestFacts
<1>7. RunInOrder'
  BY <1>1, <1>3, <1>4, <1>6 DEF IInv, RunInOrder, daemon
<1>8. StepsOfAction' /\ NewIsWhole'
  BY <1>3, <1>4, <1>6 DEF StepsOfAction, NewIsWhole, Swaps, Ran
<1>9. UnstruckIsWhole'
  <2>1. hit = {} => Whole(live) /\ (Whole(prev) \/ NoneSaved)
    BY DEF HelperStarts, IInv, UnstruckIsWhole
  <2> QED  BY <1>3, <1>4, <1>6, <2>1 DEF UnstruckIsWhole, Swaps, Ran, Whole, NoneSaved
<1>10. ResultIsOfRun' /\ LastIsInstalled'
  <2>1. result.ok => result.job # request /\ result.job # 0 /\ result.job <= Len(asked)
    BY DEF IInv, ResultIsOfRun
  <2> QED  BY <1>1, <1>3, <1>4, <2>1 DEF ResultIsOfRun, LastIsInstalled
<1> QED  BY <1>5, <1>7, <1>8, <1>9, <1>10 DEF IInv

\* What a step of a run that goes on must establish of its new state; the rest
\* of the invariant follows.
LEMMA GoOnStep ==
  ASSUME TypeOK, IInv, helper.at # "idle",
         UNCHANGED <<asked, request>>,
         waiting' <= waiting, waiting' \in 0 .. MaxJobs,
         helper'.job = helper.job, helper'.at # "idle",
         StepsOfAction', NewIsWhole', UnstruckIsWhole',
         result'.ok => result' = result \/ result'.job = helper.job,
         result'.ok /\ result'.job = helper.job =>
           /\ Asked.action = "update"
           /\ \/ helper'.src = "new" /\ helper'.at \in {"restart", "check"}
              \/ helper'.src = "new" /\ helper'.at = "restore"
              \/ helper'.src = "prev" /\ (Swaps' \/ helper'.at = "installed")
  PROVE  IInv'
<1>1. helper.job \in 1 .. Len(asked) /\ request # helper.job /\ helper.job # 0
  BY RunFacts
<1>2. RunInOrder' /\ Asked' = Asked
  BY <1>1, RoomStays DEF IInv, RunInOrder, Asked
<1>3. ResultIsOfRun'
  BY <1>1, <1>2 DEF IInv, ResultIsOfRun
<1>4. LastIsInstalled'
  BY <1>1 DEF IInv, LastIsInstalled, SuccessIsInstalled
<1> QED  BY <1>2, <1>3, <1>4 DEF IInv

\* The types that no step of a run but a restart touches
LEMMA RunTypes ==
  ASSUME TypeOK, UNCHANGED <<daemon, asked, request, was>>,
         result' \in [job : 0 .. MaxJobs, ok : BOOLEAN],
         live' \in [Part -> Tree], prev' \in [Part -> Tree],
         helper' \in HelperSet, hit' \subseteq Fault
  PROVE  TypeOK' /\ waiting' <= waiting /\ waiting' \in 0 .. MaxJobs
BY UpdateBoundsAssumption DEF TypeOK, daemon, HelperSet

\* A result of the helper's own job is a result.
LEMMA ResultFacts ==
  ASSUME TypeOK, NEW ok \in BOOLEAN
  PROVE  LET r == Result(helper.job, ok)
         IN  /\ r \in [job : 0 .. MaxJobs, ok : BOOLEAN]
             /\ r.job = helper.job /\ r.ok = ok
BY DEF TypeOK, Result

\* Where the helper goes next, with the rest of it as it was
LEMMA HelperAtFacts ==
  ASSUME TypeOK,
         NEW at \in {"save", "saveCode", "saveDist", "away", "in", "restore", "installed",
                    "restart", "check"}
  PROVE  LET h == HelperAt(at)
         IN  /\ h \in HelperSet
             /\ h.at = at /\ h.at # "idle" /\ h.job = helper.job
             /\ h.src = helper.src /\ h.part = helper.part /\ h.new = helper.new
BY DEF HelperAt, HelperSet, TypeOK

LEMMA CopyingFacts ==
  ASSUME TypeOK, NEW src \in {"new", "prev"}, NEW part \in Part
  PROVE  LET h == Copying(src, part)
         IN  /\ h \in HelperSet
             /\ h.at = "copy" /\ h.job = helper.job /\ h.src = src /\ h.part = part
BY DEF Copying, HelperSet, TypeOK, Tree

\* A run that ends by its trap before it recorded a success.
LEMMA TrapStep ==
  ASSUME TypeOK, IInv, helper.at # "idle", Ends,
         UNCHANGED <<daemon, asked, request, live, was>>,
         NEW h \in SUBSET Fault, hit' = hit \cup h,
         result.ok /\ result.job = helper.job /\ hit' \subseteq {"copy"}
           => live.code = Asked.rel /\ live.dist = live.code /\ Answers(live.code),
         prev' \in [Part -> Tree],
         hit' = {} => Whole(live) /\ (Whole(prev') \/ NoneSaved')
  PROVE  TypeOK' /\ IInv'
<1>1. /\ result' \in [job : 0 .. MaxJobs, ok : BOOLEAN]
      /\ result' = result \/ ~result'.ok
  BY TrapFacts DEF Ends
<1>2. helper' = Idle /\ Idle \in HelperSet
  BY IdleFacts DEF Ends
<1>3. hit' \subseteq Fault
  BY DEF TypeOK
<1>4. TypeOK' /\ waiting' <= waiting /\ waiting' \in 0 .. MaxJobs
  BY <1>1, <1>2, <1>3, RunTypes DEF TypeOK
<1> QED  BY <1>1, <1>2, <1>4, EndStep

\* A run that ends with a result of its own: a failure, or what a rollback came to.
LEMMA FinishStep ==
  ASSUME TypeOK, IInv, helper.at # "idle", NEW ok \in BOOLEAN, Finishes(ok),
         ok => Asked.action # "update",
         UNCHANGED <<daemon, asked, request, live, prev, hit, was>>,
         hit = {} => Whole(live) /\ (Whole(prev) \/ NoneSaved)
  PROVE  TypeOK' /\ IInv'
<1>1. /\ result' \in [job : 0 .. MaxJobs, ok : BOOLEAN]
      /\ result'.ok = ok /\ result'.job = helper.job
  BY ResultFacts DEF Finishes
<1>2. helper' = Idle /\ Idle \in HelperSet
  BY IdleFacts DEF Finishes
<1>3. TypeOK' /\ waiting' <= waiting /\ waiting' \in 0 .. MaxJobs
  BY <1>1, <1>2, RunTypes DEF TypeOK
<1>4. hit' = hit \cup {} /\ {} \in SUBSET Fault
  OBVIOUS
<1>5. hit' = {} => Whole(live) /\ (Whole(prev') \/ NoneSaved')
  BY DEF Whole, NoneSaved
<1> QED  BY <1>1, <1>2, <1>3, <1>4, <1>5, EndStep

\* The artifact is the one or is refused; nothing is touched yet.
LEMMA VerifyStep == ASSUME TypeOK, IInv, Verify PROVE TypeOK' /\ IInv'
<1>1. /\ helper.at = "verify" /\ Asked.action = "update"
      /\ UNCHANGED <<daemon, asked, request, live, prev, hit, was>>
  BY DEF Verify, IInv, StepsOfAction
<1>2. hit = {} => Whole(live) /\ (Whole(prev) \/ NoneSaved)
  BY <1>1 DEF IInv, UnstruckIsWhole
<1>3. CASE helper' = HelperAt("save") /\ result' = result
  <2>1. TypeOK' /\ waiting' <= waiting /\ waiting' \in 0 .. MaxJobs
    BY <1>1, <1>3, HelperAtFacts, RunTypes DEF TypeOK
  <2>2. /\ helper'.at = "save" /\ helper'.job = helper.job /\ helper'.src = helper.src
        /\ Asked' = Asked
    BY <1>1, <1>3, HelperAtFacts DEF Asked
  <2>3. StepsOfAction' /\ NewIsWhole' /\ UnstruckIsWhole'
    BY <1>1, <1>2, <2>2 DEF StepsOfAction, NewIsWhole, UnstruckIsWhole, Swaps, Ran, Whole,
       NoneSaved
  <2>4. ~(result.ok /\ result.job = helper.job)
    BY <1>1 DEF IInv, ResultIsOfRun, Swaps
  <2> QED  BY <1>1, <1>3, <2>1, <2>2, <2>3, <2>4, GoOnStep
<1>4. CASE Finishes(FALSE)
  BY <1>1, <1>2, <1>4, FinishStep
<1> QED  BY <1>3, <1>4 DEF Verify

\* The saved tree is given up.
LEMMA SaveStep == ASSUME TypeOK, IInv, Save PROVE TypeOK' /\ IInv'
<1>1. /\ helper.at = "save" /\ Asked.action = "update"
      /\ prev' = [code |-> Torn, dist |-> Missing]
      /\ UNCHANGED <<daemon, asked, request, live, hit, was>>
  BY DEF Save, IInv, StepsOfAction
<1>2. hit = {} => Whole(live)
  BY <1>1 DEF IInv, UnstruckIsWhole
<1>3. prev' \in [Part -> Tree]
  BY <1>1, PairType DEF Tree
<1>4. ~(result.ok /\ result.job = helper.job)
  BY <1>1 DEF IInv, ResultIsOfRun, Swaps
<1>5. CASE live.code # Missing
  <2>1. helper' = HelperAt("saveCode") /\ result' = result
    BY <1>5 DEF Save
  <2>2. TypeOK' /\ waiting' <= waiting /\ waiting' \in 0 .. MaxJobs
    BY <1>1, <1>3, <2>1, HelperAtFacts, RunTypes DEF TypeOK
  <2>3. /\ helper'.at = "saveCode" /\ helper'.job = helper.job /\ helper'.src = helper.src
        /\ Asked' = Asked
    BY <1>1, <2>1, HelperAtFacts DEF Asked
  <2>4. StepsOfAction' /\ NewIsWhole' /\ UnstruckIsWhole'
    BY <1>1, <1>2, <2>3 DEF StepsOfAction, NewIsWhole, UnstruckIsWhole, Swaps, Ran, Whole
  <2> QED  BY <1>1, <1>4, <2>1, <2>2, <2>3, <2>4, GoOnStep
<1>6. CASE live.code = Missing
  <2>1. hit # {}
    BY <1>2, <1>6, GoodIsRelease DEF Whole
  <2>2. Ends
    BY <1>6 DEF Save
  <2>3. hit' = hit \cup {} /\ {} \in SUBSET Fault
    BY <1>1
  <2> QED  BY <1>1, <1>3, <1>4, <2>1, <2>2, <2>3, TrapStep
<1> QED  BY <1>5, <1>6

\* The live code is saved.
LEMMA SaveCodeStep == ASSUME TypeOK, IInv, SaveCode PROVE TypeOK' /\ IInv'
<1>1. /\ helper.at = "saveCode" /\ Asked.action = "update"
      /\ prev' = [code |-> live.code, dist |-> IF live.dist = Missing THEN Missing ELSE Torn]
      /\ helper' = HelperAt("saveDist")
      /\ UNCHANGED <<daemon, asked, request, result, live, hit, was>>
  BY DEF SaveCode, IInv, StepsOfAction
<1>2. prev' \in [Part -> Tree] /\ prev'.code = live.code
  <2>1. live.code \in Tree  BY DEF TypeOK, Part
  <2> QED  BY <1>1, <2>1, PairType DEF Tree
<1>3. TypeOK' /\ waiting' <= waiting /\ waiting' \in 0 .. MaxJobs
  BY <1>1, <1>2, HelperAtFacts, RunTypes DEF TypeOK
<1>4. /\ helper'.at = "saveDist" /\ helper'.job = helper.job /\ helper'.src = helper.src
      /\ Asked' = Asked
  BY <1>1, HelperAtFacts DEF Asked
<1>5. hit = {} => Whole(live)
  BY <1>1 DEF IInv, UnstruckIsWhole
<1>6. StepsOfAction' /\ NewIsWhole' /\ UnstruckIsWhole'
  BY <1>1, <1>2, <1>4, <1>5 DEF StepsOfAction, NewIsWhole, UnstruckIsWhole, Swaps, Ran, Whole
<1>7. ~(result.ok /\ result.job = helper.job)
  BY <1>1 DEF IInv, ResultIsOfRun, Swaps
<1> QED  BY <1>1, <1>3, <1>4, <1>6, <1>7, GoOnStep

\* The live frontend is saved: the saved tree is the live one.
LEMMA SaveDistStep == ASSUME TypeOK, IInv, SaveDist PROVE TypeOK' /\ IInv'
<1>1. /\ helper.at = "saveDist" /\ Asked.action = "update"
      /\ prev' = [prev EXCEPT !.dist = live.dist]
      /\ helper' = Copying("new", "code")
      /\ UNCHANGED <<daemon, asked, request, result, live, hit, was>>
  BY DEF SaveDist, Saved, IInv, StepsOfAction
<1>2. prev' \in [Part -> Tree] /\ prev'.code = prev.code /\ prev'.dist = live.dist
  BY <1>1 DEF TypeOK, Part
<1>3. /\ helper' \in HelperSet /\ helper'.at = "copy" /\ helper'.job = helper.job
      /\ helper'.src = "new" /\ helper'.part = "code" /\ Asked' = Asked
  BY <1>1, CopyingFacts DEF Asked, Part
<1>4. TypeOK' /\ waiting' <= waiting /\ waiting' \in 0 .. MaxJobs
  BY <1>1, <1>2, <1>3, RunTypes DEF TypeOK
<1>5. hit = {} => Whole(prev')
  BY <1>1, <1>2 DEF IInv, UnstruckIsWhole, Whole
<1>6. StepsOfAction' /\ NewIsWhole' /\ UnstruckIsWhole'
  BY <1>1, <1>2, <1>3, <1>5 DEF StepsOfAction, NewIsWhole, UnstruckIsWhole, Swaps, Ran, Whole
<1>7. ~(result.ok /\ result.job = helper.job)
  BY <1>1 DEF IInv, ResultIsOfRun, Swaps
<1> QED  BY <1>1, <1>3, <1>4, <1>6, <1>7, GoOnStep

\* While a part is swapped, a success of the run's own was already taken back.
LEMMA SwapFacts ==
  ASSUME TypeOK, IInv, Swaps
  PROVE  /\ helper.at # "idle" /\ Asked \in Request
         /\ helper.src = "new" => Asked.action = "update" /\ Asked.rel \in Releases
         /\ result.ok /\ result.job = helper.job =>
              Asked.action = "update" /\ helper.src = "prev"
         /\ hit = {} => Whole(prev)
<1>1. helper.at # "idle" /\ ~Ran /\ helper.at \notin {"restart", "check", "restore", "installed"}
  BY DEF Swaps, Ran
<1>2. Asked \in Request
  BY <1>1, RunFacts
<1>3. helper.src = "new" => Asked.action = "update" /\ Asked.rel \in Releases
  BY <1>2, RequestFacts DEF IInv, StepsOfAction
<1> QED  BY <1>1, <1>2, <1>3 DEF IInv, ResultIsOfRun, UnstruckIsWhole

\* The copy is made: of the release that was asked for, or of the saved part.
LEMMA CopiedStep == ASSUME TypeOK, IInv, Copied PROVE TypeOK' /\ IInv'
<1>1. /\ helper.at = "copy" /\ helper' = [helper EXCEPT !.at = "away", !.new = Source]
      /\ UNCHANGED <<daemon, asked, request, result, live, prev, hit, was>> /\ Swaps
  BY DEF Copied, Swaps
<1>2. Source \in Tree
  BY <1>1, SwapFacts, RequestFacts DEF Source, TypeOK
<1>3. /\ helper' \in HelperSet /\ helper'.at = "away" /\ helper'.job = helper.job
      /\ helper'.src = helper.src /\ helper'.part = helper.part /\ helper'.new = Source
  BY <1>1, <1>2 DEF TypeOK, HelperSet
<1>4. TypeOK' /\ waiting' <= waiting /\ waiting' \in 0 .. MaxJobs
  BY <1>1, <1>3, RunTypes DEF TypeOK
<1>5. Asked' = Asked /\ Swaps' /\ ~Ran'
  BY <1>1, <1>3 DEF Asked, Swaps, Ran
<1>6. StepsOfAction'
  BY <1>1, <1>3, <1>5 DEF IInv, StepsOfAction
<1>7. NewIsWhole'
  BY <1>1, <1>3, <1>5 DEF IInv, NewIsWhole, Source
<1>8. UnstruckIsWhole'
  BY <1>1, <1>3, <1>5, SwapFacts DEF IInv, UnstruckIsWhole, Source, Whole
<1> QED  BY <1>1, <1>3, <1>4, <1>5, <1>6, <1>7, <1>8, SwapFacts, GoOnStep DEF TypeOK

\* A copy that fails ends the run, unless the saved tree is being put back.
LEMMA CopyFailsStep == ASSUME TypeOK, IInv, CopyFails PROVE TypeOK' /\ IInv'
<1>1. /\ "copy" \in Faults /\ helper.at \in {"saveCode", "saveDist", "copy"}
      /\ hit' = hit \cup {"copy"} /\ hit' # {}
      /\ UNCHANGED <<daemon, asked, request, live, prev, was>>
  BY DEF CopyFails
<1>2. CASE Tolerates
  <2>1. helper' = HelperAt("away") /\ result' = result /\ Swaps /\ helper.src = "prev"
    BY <1>2 DEF CopyFails, Tolerates, Swaps
  <2>2. hit' \subseteq Fault
    BY <1>1 DEF TypeOK, Fault
  <2>3. TypeOK' /\ waiting' <= waiting /\ waiting' \in 0 .. MaxJobs
    BY <1>1, <2>1, <2>2, HelperAtFacts, RunTypes DEF TypeOK
  <2>4. /\ helper'.at = "away" /\ helper'.job = helper.job /\ helper'.src = "prev"
        /\ Asked' = Asked /\ Swaps' /\ ~Ran'
    BY <1>1, <2>1, HelperAtFacts DEF Asked, Swaps, Ran
  <2>5. StepsOfAction' /\ NewIsWhole' /\ UnstruckIsWhole'
    BY <1>1, <2>4 DEF StepsOfAction, NewIsWhole, UnstruckIsWhole
  <2> QED  BY <1>1, <2>1, <2>3, <2>4, <2>5, SwapFacts, GoOnStep
<1>3. CASE ~Tolerates
  <2>1. Ends
    BY <1>3 DEF CopyFails
  <2>2. ~(result.ok /\ result.job = helper.job)
    BY <1>1, <1>3 DEF IInv, ResultIsOfRun, Swaps, Tolerates, TypeOK
  <2>3. {"copy"} \in SUBSET Fault /\ helper.at # "idle" /\ prev' \in [Part -> Tree]
    BY <1>1 DEF TypeOK, Fault
  <2> QED  BY <1>1, <2>1, <2>2, <2>3, TrapStep
<1> QED  BY <1>2, <1>3

\* The part is moved away; the other one stays.
LEMMA AwayStep == ASSUME TypeOK, IInv, Away PROVE TypeOK' /\ IInv'
<1>1. /\ helper.at = "away" /\ helper' = HelperAt("in") /\ Swaps
      /\ live' = [live EXCEPT ![helper.part] = Missing]
      /\ UNCHANGED <<daemon, asked, request, result, prev, hit, was>>
  BY DEF Away, Swaps
<1>2. live' \in [Part -> Tree] /\ (helper.part = "dist" => live'.code = live.code)
  BY <1>1 DEF TypeOK, Tree, Part
<1>3. TypeOK' /\ waiting' <= waiting /\ waiting' \in 0 .. MaxJobs
  BY <1>1, <1>2, HelperAtFacts, RunTypes DEF TypeOK
<1>4. /\ helper'.at = "in" /\ helper'.job = helper.job /\ helper'.src = helper.src
      /\ helper'.part = helper.part /\ helper'.new = helper.new
      /\ Asked' = Asked /\ Swaps' /\ ~Ran'
  BY <1>1, HelperAtFacts DEF Asked, Swaps, Ran
<1>5. StepsOfAction'
  BY <1>1, <1>4 DEF IInv, StepsOfAction
<1>6. NewIsWhole'
  BY <1>1, <1>2, <1>4 DEF IInv, NewIsWhole
<1>7. UnstruckIsWhole'
  BY <1>1, <1>2, <1>4, SwapFacts DEF IInv, UnstruckIsWhole, Whole
<1> QED  BY <1>1, <1>3, <1>4, <1>5, <1>6, <1>7, SwapFacts, GoOnStep

\* The part is in place; the frontend comes next, or all of it is installed.
LEMMA InStep == ASSUME TypeOK, IInv, In PROVE TypeOK' /\ IInv'
<1> DEFINE more == helper.part = "code" /\ ~(helper.src = "prev" /\ prev.dist = Missing)
<1>1. /\ helper.at = "in" /\ Swaps
      /\ helper' = IF more THEN Copying(helper.src, "dist") ELSE HelperAt("installed")
      /\ live' = [live EXCEPT ![helper.part] = helper.new]
      /\ UNCHANGED <<daemon, asked, request, result, prev, hit, was>>
  BY DEF In, Swaps
<1>2. /\ live' \in [Part -> Tree] /\ live'[helper.part] = helper.new
      /\ helper.part = "dist" => live'.code = live.code
      /\ helper.part \in {"code", "dist"} /\ helper.src \in {"new", "prev"}
  BY <1>1 DEF TypeOK, Part
<1>3. /\ helper' \in HelperSet /\ helper'.job = helper.job /\ helper'.src = helper.src
      /\ more => helper'.at = "copy" /\ helper'.part = "dist"
      /\ ~more => helper'.at = "installed"
  BY <1>1, <1>2, HelperAtFacts, CopyingFacts DEF Part
<1>4. TypeOK' /\ waiting' <= waiting /\ waiting' \in 0 .. MaxJobs
  BY <1>1, <1>2, <1>3, RunTypes DEF TypeOK
<1>5. Asked' = Asked /\ (more => Swaps' /\ ~Ran') /\ (~more => Ran' /\ ~Swaps')
  BY <1>1, <1>3 DEF Asked, Swaps, Ran
<1>6. StepsOfAction'
  BY <1>1, <1>3, <1>5, SwapFacts DEF StepsOfAction
<1>7. NewIsWhole'
  <2>1. helper.src = "new" => helper.new = Asked.rel
    BY <1>1 DEF IInv, NewIsWhole
  <2>2. helper.src = "new" /\ helper.part = "dist" => live.code = Asked.rel
    BY <1>1 DEF IInv, NewIsWhole
  <2> QED  BY <1>1, <1>2, <1>3, <1>5, <2>1, <2>2 DEF NewIsWhole
<1>8. UnstruckIsWhole'
  <2> SUFFICES ASSUME hit = {} PROVE UnstruckIsWhole'
    BY <1>1 DEF UnstruckIsWhole
  <2>1. Whole(prev) /\ prev.dist # Missing
    BY <1>1, SwapFacts, GoodIsRelease DEF Whole
  <2>2. helper.src = "prev" => helper.new = prev[helper.part]
    BY <1>1 DEF IInv, UnstruckIsWhole
  <2>3. helper.src = "prev" /\ helper.part = "dist" => live.code = prev.code
    BY <1>1 DEF IInv, UnstruckIsWhole
  <2>4. helper.src = "prev" => live'.code = prev.code
    BY <1>2, <2>2, <2>3
  <2>5. helper.src = "prev" /\ ~more => Whole(live')
    BY <1>2, <2>1, <2>2, <2>4 DEF Whole
  <2> HIDE DEF more
  <2> QED  BY <1>1, <1>3, <1>5, <2>1, <2>4, <2>5 DEF UnstruckIsWhole, Whole
<1> HIDE DEF more
<1>9. result.ok /\ result.job = helper.job => helper.src = "prev" /\ Asked.action = "update"
  BY <1>1, SwapFacts
<1> QED  BY <1>1, <1>3, <1>4, <1>5, <1>6, <1>7, <1>8, <1>9, GoOnStep

\* The saved tree is put back, if there is one.
LEMMA RestoreStep == ASSUME TypeOK, IInv, Restore PROVE TypeOK' /\ IInv'
<1>1. /\ helper.at = "restore" /\ Asked \in Request
      /\ UNCHANGED <<daemon, asked, request, live, prev, hit, was>>
  BY RunFacts DEF Restore
<1>2. hit = {} => IF Asked.action = "rollback" THEN Whole(live) /\ (Whole(prev) \/ NoneSaved)
                                              ELSE Whole(prev)
  BY <1>1 DEF IInv, UnstruckIsWhole
<1>3. result.ok /\ result.job = helper.job => Asked.action = "update"
  BY <1>1 DEF IInv, ResultIsOfRun
<1>4. CASE prev.code # Missing
  <2>1. helper' = Copying("prev", "code") /\ result' = result
    BY <1>4 DEF Restore
  <2>2. /\ helper' \in HelperSet /\ helper'.at = "copy" /\ helper'.job = helper.job
        /\ helper'.src = "prev" /\ helper'.part = "code"
        /\ Asked' = Asked /\ Swaps' /\ ~Ran'
    BY <1>1, <2>1, CopyingFacts DEF Part, Asked, Swaps, Ran
  <2>3. TypeOK' /\ waiting' <= waiting /\ waiting' \in 0 .. MaxJobs
    BY <1>1, <2>1, <2>2, RunTypes DEF TypeOK
  <2>4. hit = {} => Whole(prev)
    BY <1>2, <1>4 DEF NoneSaved
  <2>5. StepsOfAction' /\ NewIsWhole' /\ UnstruckIsWhole'
    BY <1>1, <2>2, <2>4 DEF StepsOfAction, NewIsWhole, UnstruckIsWhole, Whole
  <2> QED  BY <1>1, <1>3, <2>1, <2>2, <2>3, <2>5, GoOnStep
<1>5. CASE prev.code = Missing /\ Asked.action = "rollback"
  <2>1. Finishes(FALSE)
    BY <1>5 DEF Restore
  <2> QED  BY <1>1, <1>2, <1>5, <2>1, FinishStep
<1>6. CASE prev.code = Missing /\ Asked.action # "rollback"
  <2>1. helper' = [helper EXCEPT !.at = "installed", !.src = "prev"] /\ result' = result
    BY <1>6 DEF Restore
  <2>2. /\ helper' \in HelperSet /\ helper'.at = "installed" /\ helper'.job = helper.job
        /\ helper'.src = "prev" /\ Asked' = Asked /\ ~Swaps' /\ Ran'
    BY <1>1, <2>1 DEF Asked, Swaps, Ran, TypeOK, HelperSet
  <2>3. TypeOK' /\ waiting' <= waiting /\ waiting' \in 0 .. MaxJobs
    BY <1>1, <2>1, <2>2, RunTypes DEF TypeOK
  <2>4. hit # {}
    BY <1>2, <1>6, GoodIsRelease DEF Whole
  <2>5. StepsOfAction' /\ NewIsWhole' /\ UnstruckIsWhole'
    BY <1>1, <2>2, <2>4 DEF StepsOfAction, NewIsWhole, UnstruckIsWhole
  <2> QED  BY <1>1, <1>3, <2>1, <2>2, <2>3, <2>5, GoOnStep
<1> QED  BY <1>4, <1>5, <1>6

\* The result is recorded, a failure when the new build was taken back.
LEMMA InstalledStep == ASSUME TypeOK, IInv, Installed PROVE TypeOK' /\ IInv'
<1>1. /\ helper.at = "installed" /\ Asked \in Request /\ Ran /\ ~Swaps
      /\ helper' = HelperAt("restart")
      /\ UNCHANGED <<daemon, asked, request, live, prev, hit, was>>
  BY RunFacts DEF Installed, Ran, Swaps
<1>2. /\ helper' \in HelperSet /\ helper'.at = "restart" /\ helper'.job = helper.job
      /\ helper'.src = helper.src /\ Asked' = Asked /\ ~Swaps' /\ Ran'
  BY <1>1, HelperAtFacts DEF Asked, Swaps, Ran
<1>3. /\ result' = result \/ result'.job = helper.job
      /\ result' \in [job : 0 .. MaxJobs, ok : BOOLEAN]
  BY ResultFacts DEF Installed, SaysRolledBack, TypeOK
<1>4. result'.ok /\ result'.job = helper.job => Asked.action = "update" /\ helper.src = "new"
  <2>1. CASE Asked.action = "rollback"
    BY <1>1, <2>1 DEF Installed, IInv, ResultIsOfRun
  <2>2. CASE Asked.action = "update" /\ helper.src = "new"
    BY <2>2
  <2>3. CASE Asked.action = "update" /\ helper.src = "prev"
    BY <2>3, ResultFacts DEF Installed, SaysRolledBack
  <2> QED  BY <1>1, <2>1, <2>2, <2>3, RequestFacts DEF TypeOK
<1>5. TypeOK' /\ waiting' <= waiting /\ waiting' \in 0 .. MaxJobs
  BY <1>1, <1>2, <1>3, RunTypes DEF TypeOK
<1>6. StepsOfAction' /\ NewIsWhole' /\ UnstruckIsWhole'
  BY <1>1, <1>2 DEF IInv, StepsOfAction, NewIsWhole, UnstruckIsWhole, Whole
<1> QED  BY <1>1, <1>2, <1>3, <1>4, <1>5, <1>6, GoOnStep

\* The service is restarted; a new build and a rollback are checked next.
LEMMA RestartStep == ASSUME TypeOK, IInv, Restart PROVE TypeOK' /\ IInv'
<1>1. /\ helper.at = "restart" /\ Asked \in Request /\ Ran /\ ~Swaps
      /\ UNCHANGED <<asked, request, live, prev, hit, was>> /\ Restarts(result)
  BY RunFacts DEF Restart, Ran, Swaps
<1>2. /\ up' \in BOOLEAN /\ waiting' \in 0 .. MaxJobs /\ job' \in 0 .. MaxJobs
      /\ polls' \in Nat
      /\ status' \in [state : {"idle", "applying", "success", "error"}, job : 0 .. MaxJobs]
  BY <1>1, RestartsFacts
<1>3. waiting' <= waiting
  BY <1>1, RestartsFacts DEF TypeOK
<1>4. CASE Asked.action = "update" /\ helper.src = "prev"
  <2>1. Ends
    BY <1>4 DEF Restart
  <2>2. /\ result' \in [job : 0 .. MaxJobs, ok : BOOLEAN]
        /\ result' = result \/ ~result'.ok
        /\ helper' = Idle /\ Idle \in HelperSet
    BY <2>1, TrapFacts, IdleFacts DEF Ends
  <2>3. ~(result.ok /\ result.job = helper.job)
    BY <1>1, <1>4 DEF IInv, ResultIsOfRun
  <2>4. hit = {} => Whole(live) /\ Whole(prev)
    BY <1>1, <1>4 DEF IInv, UnstruckIsWhole
  <2>5. hit' = {} => Whole(live) /\ (Whole(prev') \/ NoneSaved')
    BY <1>1, <2>4 DEF Whole
  <2>6. TypeOK'
    BY <1>1, <1>2, <2>2 DEF TypeOK, HelperSet
  <2>7. hit' = hit \cup {} /\ {} \in SUBSET Fault
    BY <1>1
  <2> QED  BY <1>1, <1>2, <1>3, <2>2, <2>3, <2>5, <2>6, <2>7, EndStep
<1>5. CASE ~(Asked.action = "update" /\ helper.src = "prev")
  <2>1. helper' = HelperAt("check") /\ result' = result
    BY <1>5 DEF Restart
  <2>2. /\ helper' \in HelperSet /\ helper'.at = "check" /\ helper'.job = helper.job
        /\ helper'.src = helper.src /\ Asked' = Asked /\ ~Swaps' /\ Ran'
    BY <1>1, <2>1, HelperAtFacts DEF Asked, Swaps, Ran
  <2>3. TypeOK'
    BY <1>1, <1>2, <2>1, <2>2 DEF TypeOK, HelperSet
  <2>4. helper.src = "prev" => Asked.action = "rollback"
    BY <1>1, <1>5, RequestFacts
  <2>5. StepsOfAction' /\ NewIsWhole' /\ UnstruckIsWhole'
    BY <1>1, <2>2, <2>4 DEF IInv, StepsOfAction, NewIsWhole, UnstruckIsWhole, Whole
  <2>6. result.ok /\ result.job = helper.job => Asked.action = "update" /\ helper.src = "new"
    BY <1>1 DEF IInv, ResultIsOfRun
  <2> QED  BY <1>1, <1>2, <1>3, <2>1, <2>2, <2>3, <2>5, <2>6, GoOnStep
<1> QED  BY <1>4, <1>5

\* The service answers, or the new build is taken back.
LEMMA CheckStep == ASSUME TypeOK, IInv, Check PROVE TypeOK' /\ IInv'
<1>1. /\ helper.at = "check" /\ Asked \in Request /\ Ran /\ ~Swaps
      /\ UNCHANGED <<daemon, asked, request, live, prev, hit, was>>
  BY RunFacts DEF Check, Ran, Swaps
<1>2. Asked.action \in {"update", "rollback"} /\ helper.src \in {"new", "prev"}
  BY <1>1, RequestFacts DEF TypeOK
<1>3. /\ helper.src = "new" => Asked.action = "update"
      /\ helper.src = "prev" => Asked.action = "rollback"
  BY <1>1 DEF IInv, StepsOfAction
<1>4. CASE Asked.action = "rollback"
  <2>1. Finishes(Passes) /\ Passes \in BOOLEAN
    BY <1>4 DEF Check, Passes, Answers
  <2>2. hit = {} => Whole(live) /\ Whole(prev)
    BY <1>1, <1>2, <1>3, <1>4 DEF IInv, UnstruckIsWhole
  <2> QED  BY <1>1, <1>4, <2>1, <2>2, FinishStep
<1>5. CASE Asked.action = "update" /\ Passes
  <2>1. Ends
    BY <1>5 DEF Check
  <2>2. live.code = Asked.rel /\ live.dist = Asked.rel
    BY <1>1, <1>2, <1>3, <1>5 DEF IInv, NewIsWhole
  <2>3. Answers(live.code) /\ Whole(live)
    BY <1>5, <2>2 DEF Passes, Answers, Whole
  <2>4. hit' = {} => Whole(live) /\ (Whole(prev') \/ NoneSaved')
    BY <1>1, <2>3 DEF IInv, UnstruckIsWhole, Whole
  <2>5. hit' = hit \cup {} /\ {} \in SUBSET Fault /\ prev' \in [Part -> Tree]
    BY <1>1 DEF TypeOK
  <2> QED  BY <1>1, <2>1, <2>2, <2>3, <2>4, <2>5, TrapStep
<1>6. CASE Asked.action = "update" /\ ~Passes
  <2>1. helper' = HelperAt("restore") /\ result' = result
    BY <1>6 DEF Check
  <2>2. /\ helper' \in HelperSet /\ helper'.at = "restore" /\ helper'.job = helper.job
        /\ helper'.src = "new" /\ Asked' = Asked /\ ~Swaps' /\ ~Ran'
    BY <1>1, <1>2, <1>3, <1>6, <2>1, HelperAtFacts DEF Asked, Swaps, Ran
  <2>3. TypeOK' /\ waiting' <= waiting /\ waiting' \in 0 .. MaxJobs
    BY <1>1, <2>1, <2>2, RunTypes DEF TypeOK
  <2>4. StepsOfAction' /\ NewIsWhole' /\ UnstruckIsWhole'
    BY <1>1, <1>6, <2>2 DEF IInv, StepsOfAction, NewIsWhole, UnstruckIsWhole, Whole
  <2> QED  BY <1>1, <1>6, <2>1, <2>2, <2>3, <2>4, GoOnStep
<1> QED  BY <1>2, <1>4, <1>5, <1>6

\* A run that is killed leaves its result, and the trees as they are.
LEMMA KilledStep == ASSUME TypeOK, IInv, Killed PROVE TypeOK' /\ IInv'
<1>1. /\ helper.at # "idle" /\ Ends /\ hit' = hit \cup {"kill"}
      /\ UNCHANGED <<daemon, asked, request, live, prev, was>>
  BY DEF Killed
<1>2. {"kill"} \in SUBSET Fault /\ hit' # {} /\ ~(hit' \subseteq {"copy"})
      /\ prev' \in [Part -> Tree]
  BY <1>1 DEF TypeOK, Fault
<1> QED  BY <1>1, <1>2, TrapStep

\* After a power cut no run is on the way; it was struck.
LEMMA PowerCutStep == ASSUME TypeOK, IInv, PowerCut PROVE TypeOK' /\ IInv'
<1>1. /\ helper.at # "idle" /\ helper' = Idle /\ hit' = hit \cup {"power"}
      /\ up' = FALSE /\ waiting' = 0 /\ job' = 0 /\ polls' = 0
      /\ status' = [state |-> "idle", job |-> 0]
      /\ UNCHANGED <<asked, request, result, live, prev, was>>
  BY DEF PowerCut, Forgets
<1>2. {"power"} \in SUBSET Fault /\ hit' # {} /\ ~(hit' \subseteq {"copy"})
  BY <1>1 DEF Fault
<1>3. 0 \in 0 .. MaxJobs /\ 0 <= waiting
  BY UpdateBoundsAssumption DEF TypeOK
<1>4. status' \in [state : {"idle", "applying", "success", "error"}, job : 0 .. MaxJobs]
  BY <1>1, <1>3
<1>5. TypeOK'
  BY <1>1, <1>2, <1>3, <1>4, IdleFacts DEF TypeOK, HelperSet
<1>6. result' \in [job : 0 .. MaxJobs, ok : BOOLEAN]
  BY <1>1 DEF TypeOK
<1>7. waiting' <= waiting /\ waiting' \in 0 .. MaxJobs
  BY <1>1, <1>3
<1> QED  BY <1>1, <1>2, <1>5, <1>6, <1>7, EndStep

-----------------------------------------------------------------------------
(* The theorems.                                                           *)

\* Every step keeps the types and the invariant.
LEMMA NextStep == ASSUME TypeOK, IInv, [Next]_vars PROVE TypeOK' /\ IInv'
<1>1. CASE Crash  BY <1>1, CrashStep
<1>2. CASE Boot  BY <1>2, BootStep
<1>3. CASE BeginUpdate  BY <1>3, BeginUpdateStep
<1>4. CASE GiveUpUpdate  BY <1>4, GiveUpUpdateStep
<1>5. CASE \E r \in Releases : AcceptUpdate(r)  BY <1>5, AcceptUpdateStep
<1>6. CASE StartRollback  BY <1>6, StartRollbackStep
<1>7. CASE Poll \/ PollEnds  BY <1>7, PollStep, PollEndsStep
<1>8. CASE Ack  BY <1>8, AckStep
<1>9. CASE Helper
  BY <1>9, HelperStartsStep, VerifyStep, SaveStep, SaveCodeStep, SaveDistStep, CopiedStep,
     AwayStep, InStep, RestoreStep, InstalledStep, RestartStep, CheckStep DEF Helper
<1>10. CASE CopyFails  BY <1>10, CopyFailsStep
<1>11. CASE Killed  BY <1>11, KilledStep
<1>12. CASE PowerCut  BY <1>12, PowerCutStep
<1>13. CASE UNCHANGED vars
  <2>1. /\ UNCHANGED <<up, waiting, job, status, polls>>
        /\ UNCHANGED <<asked, request, result, live, prev, helper, hit, was>>
    BY <1>13 DEF vars, daemon
  <2>2. TypeOK'  BY <2>1 DEF TypeOK
  <2>3. Len(asked) + waiting' <= MaxJobs  BY <2>1 DEF IInv, RunInOrder
  <2> QED  BY <2>1, <2>2, <2>3, QuietStep
<1> QED
  BY <1>1, <1>2, <1>3, <1>4, <1>5, <1>6, <1>7, <1>8, <1>9, <1>10, <1>11, <1>12, <1>13
     DEF Next

\* The invariant that the others follow from.
THEOREM UpdateInvariant == Spec => [](TypeOK /\ IInv)
<1>1. Init => TypeOK /\ IInv
  BY InitType, InitInv
<1>2. TypeOK /\ IInv /\ [Next]_vars => (TypeOK /\ IInv)'
  BY NextStep
<1> QED  BY <1>1, <1>2, PTL DEF Spec

\* Every variable keeps its type, whatever releases and faults there are.
THEOREM TypeCorrect == Spec => []TypeOK
BY UpdateInvariant, PTL

\* As long as no run of the helper was struck, what it leaves is one release that
\* answers, over any sequence of updates, rollbacks, crashes and restarts.
THEOREM BadReleasesAreUndone == Spec => []BadReleaseIsUndone
<1>1. TypeOK /\ IInv => BadReleaseIsUndone
  BY DEF IInv, UnstruckIsWhole, BadReleaseIsUndone, Whole, Answers
<1> QED  BY <1>1, UpdateInvariant, PTL

\* A success of the last job is a release that is installed and answers, also when
\* a copy failed on the way.
THEOREM SuccessesAreInstalled == Spec => []SuccessIsInstalled
<1>1. TypeOK /\ IInv => SuccessIsInstalled
  BY DEF IInv, LastIsInstalled, SuccessIsInstalled
<1> QED  BY <1>1, UpdateInvariant, PTL

\* Only the move into place changes a part to a tree that is torn, and what an
\* update moves there is the release it was asked for.
LEMMA TearsStep ==
  ASSUME TypeOK, IInv, [Next]_vars, NEW part \in Part, live'[part] = Torn, live[part] # Torn
  PROVE  helper.src = "prev"
<1>1. CASE In
  <2>1. Swaps /\ helper.at = "in" /\ live' = [live EXCEPT ![helper.part] = helper.new]
    BY <1>1 DEF In, Swaps
  <2>2. helper.new = Torn
    BY <2>1 DEF TypeOK
  <2>3. helper.src = "new" => helper.new = Asked.rel /\ Asked.rel \in Releases
    BY <2>1, SwapFacts DEF IInv, NewIsWhole
  <2>4. helper.src # "new"
    BY <2>2, <2>3, ReleaseIsWhole
  <2> QED  BY <2>4 DEF TypeOK
<1>2. CASE Away
  <2>1. live' = [live EXCEPT ![helper.part] = Missing]
    BY <1>2 DEF Away
  <2> QED  BY <2>1 DEF TypeOK, Torn, Missing
<1>3. CASE live' = live
  BY <1>3
<1>4. CASE UNCHANGED vars
  BY <1>4 DEF vars
<1> QED
  BY <1>1, <1>2, <1>3, <1>4 DEF Next, Crash, Boot, BeginUpdate, GiveUpUpdate, AcceptUpdate,
     StartRollback, Poll, PollEnds, Ack, Helper, HelperStarts, Verify, Save, SaveCode, SaveDist, Copied,
     Restore, Installed, Restart, Check, CopyFails, Killed, PowerCut

\* An update never puts a half-copied tree in place, whatever strikes it.
THEOREM UpdatesNeverTear == Spec => UpdateNeverTears
<1>1. TypeOK /\ IInv /\ [Next]_vars
      => [\A part \in Part :
            live'[part] = Torn /\ live[part] # Torn => helper.src = "prev"]_vars
  BY TearsStep
<1> QED  BY <1>1, UpdateInvariant, PTL DEF Spec, UpdateNeverTears

-----------------------------------------------------------------------------
(* The tree an update found.                                               *)

\* While an update is on the way its tree is live or saved.
LEMMA SavedWhileRuns ==
  ASSUME TypeOK, IInv, SavedFirst, helper.at # "idle"
  PROVE  OldTreeSurvives
<1>1. helper.job # 0 /\ was.run = helper.job
  BY DEF IInv, RunInOrder, SavedFirst
<1>2. CASE asked[was.run].action = "update"
  <2>1. Asked.action = "update"
    BY <1>1, <1>2 DEF Asked
  <2>2. \/ helper.at \in {"verify", "save", "saveCode", "saveDist"}
        \/ Swaps \/ Ran \/ helper.at = "restore"
    BY DEF TypeOK, Swaps, Ran
  <2> QED  BY <1>1, <2>1, <2>2 DEF SavedFirst, OldTreeSurvives
<1>3. CASE asked[was.run].action # "update"
  BY <1>3 DEF OldTreeSurvives
<1> QED  BY <1>2, <1>3

\* A step that leaves the helper and the trees alone and at most asks for more
LEMMA SavedStays ==
  ASSUME TypeOK, IInv, SavedFirst, OldTreeSurvives, UNCHANGED <<live, prev, helper, was>>,
         asked' = asked \/ \E req \in Request : asked' = Append(asked, req)
  PROVE  SavedFirst' /\ OldTreeSurvives'
<1>1. /\ Len(asked) <= Len(asked') /\ Len(asked) \in Nat /\ Len(asked') \in Nat
      /\ \A j \in 1 .. Len(asked) : asked'[j] = asked[j]
  BY DEF TypeOK
<1>2. was.run \in 0 .. Len(asked) /\ helper.job \in 0 .. Len(asked)
  BY <1>1 DEF TypeOK, SavedFirst, IInv, RunInOrder
<1>3. /\ helper.job # 0 => Asked' = Asked
      /\ was.run # 0 => asked'[was.run] = asked[was.run]
  BY <1>1, <1>2 DEF Asked
<1>4. was.run <= Len(asked')
  BY <1>1, <1>2
<1> QED  BY <1>3, <1>4 DEF SavedFirst, OldTreeSurvives, Swaps, Ran

\* A run that ends leaves the tree where it is.
LEMMA SavedEnds ==
  ASSUME SavedFirst, OldTreeSurvives, UNCHANGED <<asked, live, prev, was>>, helper' = Idle
  PROVE  SavedFirst' /\ OldTreeSurvives'
BY IdleFacts DEF SavedFirst, OldTreeSurvives

\* A run that goes on and saves nothing: no step after the saving leads back, and
\* the live tree is as it was until then.
LEMMA SavedGoesOn ==
  ASSUME TypeOK, IInv, SavedFirst, helper.at # "idle", UNCHANGED <<asked, prev, was>>,
         helper'.job = helper.job,
         \/ /\ helper.at \in {"verify", "save"} /\ live' = live
            /\ helper'.at \in {"verify", "save"}
         \/ /\ Swaps \/ Ran \/ helper.at = "restore"
            /\ Swaps' \/ Ran' \/ helper'.at = "restore"
  PROVE  SavedFirst'
<1>1. Asked' = Asked
  BY DEF Asked
<1> QED  BY <1>1 DEF SavedFirst, Swaps, Ran

\* Every step keeps the tree an update found.
LEMMA SavedStep ==
  ASSUME TypeOK, IInv, SavedFirst, OldTreeSurvives, [Next]_vars
  PROVE  SavedFirst' /\ (helper'.at = "idle" => OldTreeSurvives')
<1>1. CASE Crash \/ Boot \/ BeginUpdate \/ GiveUpUpdate \/ Poll \/ PollEnds \/ Ack
  BY <1>1, SavedStays DEF Crash, Boot, BeginUpdate, GiveUpUpdate, Poll, PollEnds, Ack
<1>2. CASE StartRollback \/ \E r \in Releases : AcceptUpdate(r)
  BY <1>2, SavedStays, RequestsMade DEF StartRollback, AcceptUpdate, Asks
<1>3. CASE HelperStarts
  <2>1. request \in 1 .. Len(asked) /\ asked[request] \in Request
    BY <1>3, AskedFacts DEF HelperStarts, IInv, RunInOrder, TypeOK
  <2>2. /\ was' = [run |-> request, tree |-> live] /\ UNCHANGED <<asked, live, prev>>
        /\ helper'.job = request
        /\ helper'.at = IF asked[request].action = "update" THEN "verify" ELSE "restore"
    BY <1>3 DEF HelperStarts, Idle
  <2>3. Asked' = asked[request]
    BY <2>2 DEF Asked
  <2> QED  BY <2>1, <2>2, <2>3 DEF SavedFirst, Swaps, Ran
<1>4. CASE Verify
  <2>1. helper' = Idle \/ helper' = HelperAt("save")
    BY <1>4 DEF Verify, Finishes
  <2> QED  BY <1>4, <2>1, SavedEnds, SavedGoesOn, HelperAtFacts DEF Verify
<1>5. CASE Save
  <2>1. helper.at = "save" /\ UNCHANGED <<asked, live, was>> /\ Asked.action = "update"
    BY <1>5 DEF Save, IInv, StepsOfAction
  <2>2. helper.job # 0 /\ live = was.tree
    BY <2>1 DEF SavedFirst, IInv, RunInOrder
  <2>3. CASE helper' = Idle
    BY <2>1, <2>2, <2>3, IdleFacts DEF SavedFirst, OldTreeSurvives
  <2>4. CASE helper' = HelperAt("saveCode")
    <3>1. helper'.at = "saveCode" /\ helper'.job = helper.job
      BY <2>4, HelperAtFacts
    <3> QED  BY <2>1, <2>2, <3>1 DEF SavedFirst, Swaps, Ran
  <2> QED  BY <1>5, <2>3, <2>4 DEF Save, Ends
<1>6. CASE SaveCode
  <2>1. /\ helper.at = "saveCode" /\ UNCHANGED <<asked, live, was>> /\ Asked.action = "update"
        /\ prev'.code = live.code /\ helper' = HelperAt("saveDist")
    BY <1>6 DEF SaveCode, IInv, StepsOfAction
  <2>2. helper'.at = "saveDist" /\ helper'.job = helper.job
    BY <2>1, HelperAtFacts
  <2>3. helper.job # 0 /\ live = was.tree
    BY <2>1 DEF SavedFirst, IInv, RunInOrder
  <2> QED  BY <2>1, <2>2, <2>3 DEF SavedFirst, Swaps, Ran
<1>7. CASE SaveDist
  <2>1. /\ helper.at = "saveDist" /\ UNCHANGED <<asked, live, was>> /\ Asked.action = "update"
        /\ prev' = [prev EXCEPT !.dist = live.dist] /\ helper' = Copying("new", "code")
    BY <1>7 DEF SaveDist, Saved, IInv, StepsOfAction
  <2>2. helper'.at = "copy" /\ helper'.job = helper.job
    BY <2>1, CopyingFacts DEF Part
  <2>3. helper.job # 0 /\ live = was.tree /\ prev.code = live.code
    BY <2>1 DEF SavedFirst, IInv, RunInOrder
  <2>4. prev' = was.tree
    <3>1. prev \in [Part -> Tree] /\ live \in [Part -> Tree]
      BY DEF TypeOK
    <3>2. prev' \in [Part -> Tree] /\ \A part \in Part : prev'[part] = live[part]
      BY <2>1, <2>3, <3>1 DEF Part
    <3> QED  BY <2>3, <3>1, <3>2
  <2> QED  BY <2>1, <2>2, <2>3, <2>4 DEF SavedFirst, Swaps, Ran
<1>8. CASE Copied \/ Away
  <2>1. /\ helper.at \in {"copy", "away"} /\ helper'.at \in {"away", "in"}
        /\ helper'.job = helper.job /\ UNCHANGED <<asked, prev, was>>
    BY <1>8 DEF Copied, Away, HelperAt, TypeOK
  <2> QED  BY <2>1, SavedGoesOn DEF Swaps
<1>9. CASE In
  <2>1. /\ helper.at = "in" /\ UNCHANGED <<asked, prev, was>>
        /\ helper' = Copying(helper.src, "dist") \/ helper' = HelperAt("installed")
    BY <1>9 DEF In
  <2>2. helper'.at \in {"copy", "installed"} /\ helper'.job = helper.job
    BY <2>1, HelperAtFacts DEF Copying, TypeOK
  <2> QED  BY <2>1, <2>2, SavedGoesOn DEF Swaps, Ran
<1>10. CASE Restore
  <2>1. helper.at = "restore" /\ UNCHANGED <<asked, live, prev, was>>
    BY <1>10 DEF Restore
  <2>2. CASE helper' = Idle
    BY <2>1, <2>2, SavedEnds
  <2>3. CASE helper' # Idle
    <3>1. helper'.at \in {"copy", "installed"} /\ helper'.job = helper.job
      BY <1>10, <2>3 DEF Restore, Finishes, Copying, TypeOK
    <3> QED  BY <2>1, <3>1, SavedGoesOn DEF Swaps, Ran
  <2> QED  BY <2>2, <2>3
<1>11. CASE Installed \/ Restart \/ Check
  <2>1. Ran /\ helper.at # "idle" /\ UNCHANGED <<asked, live, prev, was>>
    BY <1>11 DEF Installed, Restart, Check, Ran
  <2>2. \/ helper' = Idle
        \/ \E at \in {"restart", "check", "restore"} : helper' = HelperAt(at)
    BY <1>11 DEF Installed, Restart, Check, Ends, Finishes
  <2>3. CASE helper' = Idle
    BY <2>1, <2>3, SavedEnds
  <2>4. CASE \E at \in {"restart", "check", "restore"} : helper' = HelperAt(at)
    <3>1. helper'.at \in {"restart", "check", "restore"} /\ helper'.job = helper.job
      BY <2>4, HelperAtFacts
    <3> QED  BY <2>1, <3>1, SavedGoesOn DEF Ran
  <2> QED  BY <2>2, <2>3, <2>4
<1>12. CASE CopyFails \/ Killed \/ PowerCut
  <2>1. helper.at # "idle" /\ UNCHANGED <<asked, live, prev, was>>
    BY <1>12 DEF CopyFails, Killed, PowerCut
  <2>2. CASE helper' = Idle
    BY <2>1, <2>2, SavedEnds
  <2>3. CASE helper' # Idle
    <3>1. Swaps /\ helper' = HelperAt("away")
      BY <1>12, <2>3 DEF CopyFails, Killed, PowerCut, Ends, Tolerates, Swaps
    <3>2. helper'.at = "away" /\ helper'.job = helper.job
      BY <3>1, HelperAtFacts
    <3> QED  BY <2>1, <3>1, <3>2, SavedGoesOn DEF Swaps
  <2> QED  BY <2>2, <2>3
<1>13. CASE UNCHANGED vars
  BY <1>13, SavedStays DEF vars
<1> QED
  BY <1>1, <1>2, <1>3, <1>4, <1>5, <1>6, <1>7, <1>8, <1>9, <1>10, <1>11, <1>12, <1>13
     DEF Next, Helper

\* Whatever strikes an update, and after it, the tree that was installed when it
\* began is in place or the one to go back to, code and frontend.
THEOREM OldTreesSurvive == Spec => []OldTreeSurvives
<1> DEFINE Kept == SavedFirst /\ (helper.at = "idle" => OldTreeSurvives)
<1>1. Init => Kept
  <2> SUFFICES ASSUME Init PROVE Kept
    OBVIOUS
  <2>1. helper = Idle /\ was.run = 0 /\ Len(asked) \in Nat
    BY DEF Init
  <2> QED  BY <2>1, IdleFacts DEF SavedFirst, OldTreeSurvives
<1>2. TypeOK /\ IInv /\ Kept => OldTreeSurvives
  BY SavedWhileRuns
<1>3. TypeOK /\ IInv /\ Kept /\ [Next]_vars => Kept'
  BY <1>2, SavedStep
<1> HIDE DEF Kept
<1> QED  BY <1>1, <1>2, <1>3, UpdateInvariant, PTL DEF Spec

=============================================================================
