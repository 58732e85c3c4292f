--------------------------- MODULE Plans_proofs ---------------------------
(***************************************************************************)
(* The plans of a cook, the serve time and the guided run: what a step of  *)
(* each of them keeps.  Parts_proofs takes it to the parts together.       *)
(***************************************************************************)
EXTENDS Parts, TLAPS

-----------------------------------------------------------------------------
(* ServePlan: the verdict that was told, the plan that is saved.           *)

ServePlanInv == SP!TypeOK /\ LateIsTold /\ SP!FileHasPlan

\* The bounds of a plan are numbers.
LEMMA ServePlanNumbers ==
  /\ MaxCooks \in Nat
  /\ SP!NoPlan \in SP!Plans /\ ~SP!NoPlan.on
BY PartsConstants DEF SP!ServePlanConstants, SP!NoPlan, SP!Plans

\* The first states have no plan.
LEMMA ServePlanInit == Init => ServePlanInv
<1> SUFFICES ASSUME Init PROVE ServePlanInv
  OBVIOUS
<1>1. /\ plan = SP!NoPlan /\ planFile = SP!NoPlan /\ band = "none" /\ clock = "before"
      /\ cook = [number |-> 0, open |-> FALSE] /\ heard = [push |-> "none", lost |-> FALSE]
  BY DEF Init, SP!Init
<1>2. SP!TypeOK
  BY <1>1, ServePlanNumbers DEF SP!TypeOK
<1>3. LateIsTold /\ SP!FileHasPlan
  BY <1>1, ServePlanNumbers DEF LateIsTold, SP!LateIsTold, SP!FileHasPlan
<1> QED  BY <1>2, <1>3 DEF ServePlanInv

\* A plan that is saved is no longer judged, and is in the file unless the write
\* failed.
LEMMA SaveKeeps ==
  ASSUME SP!TypeOK, NEW p \in SP!Plans, SP!Save(p),
         clock' \in {"before", "past", "stale"},
         cook' \in [number : 0 .. MaxCooks, open : BOOLEAN],
         p.on => p.of = cook.number'
  PROVE  ServePlanInv'
<1>1. plan' = p /\ band' = "none" /\ planFile' \in {p, planFile, SP!NoPlan}
      /\ heard' \in [push : {"none"}, lost : BOOLEAN] /\ (~heard'.lost => planFile' = p)
  <2>1. CASE planFile' = p /\ heard' = [push |-> "none", lost |-> FALSE]
    BY <2>1 DEF SP!Save
  <2>2. CASE planFile' \in {planFile, SP!NoPlan} /\ heard' = [push |-> "none", lost |-> TRUE]
    BY <2>2 DEF SP!Save
  <2> QED  BY <2>1, <2>2 DEF SP!Save
<1>2. SP!TypeOK'
  BY <1>1, ServePlanNumbers DEF SP!TypeOK
<1>3. LateIsTold' /\ SP!FileHasPlan'
  BY <1>1, ServePlanNumbers DEF LateIsTold, SP!LateIsTold, SP!FileHasPlan
<1> QED  BY <1>2, <1>3 DEF ServePlanInv

\* What may be said of a plan.
LEMMA VerdictIsKnown ==
  ASSUME NEW f, NEW now \in {"before", "past", "stale"}
  PROVE  SP!Verdict(f, now) \in SP!Bands \cup {"stale", "no_eta"}
BY DEF SP!Verdict, SP!Bands

\* A verdict that becomes late is pushed, and no other push takes its place.
LEMMA LateIsPushed ==
  ASSUME NEW prev \in SP!Bands \cup {"none"}, NEW st \in SP!Bands
  PROVE  /\ SP!Pushes(prev, st) \in {"none", "late", "at_risk", "back"}
         /\ st = "late" /\ prev # "late" => SP!Pushes(prev, st) = "late"
         /\ st = prev => SP!Pushes(prev, st) = "none"
BY DEF SP!Pushes, SP!Bands

\* Every step keeps what was told of a plan, and the plan in the file.
LEMMA ServePlanStep ==
  ASSUME ServePlanInv, [SP!Next]_servePlanVars
  PROVE  ServePlanInv'
<1> USE ServePlanNumbers
<1>0. SP!TypeOK /\ LateIsTold /\ SP!FileHasPlan
  BY DEF ServePlanInv
<1>1. CASE SP!SavePlan
  <2> PICK c \in Channels \cup {"auto"} :
         SP!Save([on |-> TRUE, channel |-> c, of |-> cook.number])
    BY <1>1 DEF SP!SavePlan
  <2>1. [on |-> TRUE, channel |-> c, of |-> cook.number] \in SP!Plans
    BY <1>0 DEF SP!TypeOK, SP!Plans
  <2> QED  BY <1>0, <1>1, <2>1, SaveKeeps DEF SP!SavePlan, SP!TypeOK
<1>2. CASE SP!ClearPlan
  BY <1>0, <1>2, SaveKeeps DEF SP!ClearPlan, SP!TypeOK
<1>3. CASE SP!OpenSession
  <2>1. clock' = clock /\ cook' \in [number : 0 .. MaxCooks, open : BOOLEAN]
    BY <1>0, <1>3 DEF SP!OpenSession, SP!TypeOK
  <2>2. CASE plan.on
    BY <1>0, <1>3, <2>1, <2>2, SaveKeeps
       DEF SP!OpenSession, SP!ClearsOld, SP!ClearIfOn, SP!TypeOK
  <2>3. CASE ~plan.on
    <3>1. plan' = plan /\ planFile' = planFile /\ band' = band /\ heard' = heard
      BY <1>3, <2>3 DEF SP!OpenSession, SP!ClearsOld, SP!ClearIfOn
    <3> QED
      BY <1>0, <2>1, <2>3, <3>1
         DEF ServePlanInv, SP!TypeOK, LateIsTold, SP!LateIsTold, SP!FileHasPlan
  <2> QED  BY <2>2, <2>3
<1>4. CASE SP!CloseSession
  BY <1>0, <1>4
     DEF SP!CloseSession, ServePlanInv, SP!TypeOK, LateIsTold, SP!LateIsTold, SP!FileHasPlan
<1>5. CASE SP!FinishCook
  <2>1. clock' = clock /\ cook' = cook
    BY <1>5 DEF SP!FinishCook
  <2>2. CASE plan.on
    BY <1>0, <1>5, <2>1, <2>2, SaveKeeps DEF SP!FinishCook, SP!ClearIfOn, SP!TypeOK
  <2>3. CASE ~plan.on
    BY <1>0, <1>5, <2>1, <2>3
       DEF SP!FinishCook, SP!ClearIfOn, ServePlanInv, SP!TypeOK, LateIsTold, SP!LateIsTold,
           SP!FileHasPlan
  <2> QED  BY <2>2, <2>3
<1>6. CASE SP!Restart
  <2>1. SP!TypeOK'
    <3>1. CASE plan' = planFile /\ heard' = [heard EXCEPT !.push = "none"]
      BY <1>0, <1>6, <3>1 DEF SP!Restart, SP!TypeOK
    <3>2. CASE plan' = SP!NoPlan /\ heard' = [push |-> "none", lost |-> TRUE]
      BY <1>0, <1>6, <3>2 DEF SP!Restart, SP!TypeOK
    <3> QED  BY <1>6, <3>1, <3>2 DEF SP!Restart
  <2>2. LateIsTold'
    BY <1>6 DEF SP!Restart, LateIsTold, SP!LateIsTold
  <2>3. SP!FileHasPlan'
    BY <1>0, <1>6 DEF SP!Restart, SP!FileHasPlan, SP!TypeOK
  <2> QED  BY <2>1, <2>2, <2>3 DEF ServePlanInv
<1>7. CASE SP!Refresh
  <2> PICK f \in [Channels -> SP!Forecasts], now \in {"before", "past", "stale"} :
         clock' = now /\ SP!Drive(f, now) /\ cook' = cook
    BY <1>7 DEF SP!Refresh
  <2> DEFINE st == SP!Verdict(f, now)
  <2>1. st \in SP!Bands \cup {"stale", "no_eta"}
    BY VerdictIsKnown
  <2>2. CASE ~plan.on \/ st = "no_eta"
    <3>1. plan' = plan /\ planFile' = planFile /\ band' = band /\ heard' = heard
      BY <2>2 DEF SP!Drive, SP!Bands
    <3> QED
      BY <1>0, <3>1 DEF ServePlanInv, SP!TypeOK, LateIsTold, SP!LateIsTold, SP!FileHasPlan
  <2>3. CASE plan.on /\ st = "stale"
    <3>1. SP!Save(SP!NoPlan)
      BY <2>3 DEF SP!Drive, SP!Bands
    <3> QED  BY <1>0, <3>1, SaveKeeps DEF SP!TypeOK
  <2>4. CASE plan.on /\ st \in SP!Bands
    <3> DEFINE push == SP!Pushes(band, st)
    <3>1. /\ band' = st /\ plan' = plan /\ planFile' = planFile
          /\ heard' = [heard EXCEPT !.push = IF push = "none" THEN @ ELSE push]
      BY <2>4 DEF SP!Drive, SP!Bands
    <3>2. /\ push \in {"none", "late", "at_risk", "back"}
          /\ st = "late" /\ band # "late" => push = "late"
          /\ st = band => push = "none"
      BY <1>0, <2>4, LateIsPushed DEF SP!TypeOK
    <3> HIDE DEF st, push
    <3>3. SP!TypeOK'
      BY <1>0, <2>4, <3>1, <3>2 DEF SP!TypeOK
    <3>4. LateIsTold' /\ SP!FileHasPlan'
      BY <1>0, <2>4, <3>1, <3>2
         DEF SP!TypeOK, LateIsTold, SP!LateIsTold, SP!FileHasPlan
    <3> QED  BY <3>3, <3>4 DEF ServePlanInv
  <2> QED  BY <2>1, <2>2, <2>3, <2>4
<1>8. CASE UNCHANGED servePlanVars
  BY <1>0, <1>8
     DEF servePlanVars, ServePlanInv, SP!TypeOK, LateIsTold, SP!LateIsTold, SP!FileHasPlan
<1> QED
  BY <1>1, <1>2, <1>3, <1>4, <1>5, <1>6, <1>7, <1>8 DEF SP!Next

\* A plan that the file has is of the last cook, and of this one if one is open.
LEMMA ServePlanGivesCook == ServePlanInv => PlanOfThisCook
BY DEF ServePlanInv, SP!FileHasPlan, PlanOfThisCook, SP!PlanOfThisCook

-----------------------------------------------------------------------------
(* Guided: every prompt once.                                              *)

GuidedInv == GU!TypeOK /\ EachPromptOnce /\ GU!DiaryIsOfRun

\* No recipe is called "none".
LEMMA RecipesAreNamed == "none" \notin Recipes /\ KeepWarm \in Nat
<1>1. "none" \notin DOMAIN GU!GuidedCooks
  BY DEF GU!GuidedCooks
<1> QED  BY <1>1, PartsConstants DEF GU!GuidedConstants

\* What is in a sequence with one more element
LEMMA RangeOfAppend ==
  ASSUME NEW S, NEW s \in Seq(S), NEW e \in S
  PROVE  GU!Range(Append(s, e)) = GU!Range(s) \cup {e}
BY DEF GU!Range

\* No milestone has the name of the keep-warm.
LEMMA WarmIsNoMilestone == "warm" \notin GU!Prompted
<1> DEFINE Other == [key : {"settle", "wrap", "probe_tender", "spritz", "glaze", "check",
                            "baste", "pull"},
                     temp : Int, stall : BOOLEAN, wrap : BOOLEAN]
<1>1. \A key \in {"settle", "wrap", "probe_tender", "spritz", "glaze", "check", "baste",
                "pull"}, temp \in Int :
        /\ GU!At(key, temp) \in Other
        /\ [GU!At(key, temp) EXCEPT !.wrap = TRUE] \in Other
  BY DEF GU!At
<1>a. \A temp \in Int : GU!Wrap(temp) \in Other
  BY <1>1 DEF GU!Wrap
<1>b. \A m \in Other : [m EXCEPT !.stall = TRUE] \in Other
  OBVIOUS
<1>c. GU!WrapAtStall \in Other
  <2>1. GU!Wrap(150) \in Other
    BY <1>a
  <2> QED  BY <1>b, <2>1 DEF GU!WrapAtStall
<1> HIDE DEF Other
<1>2. ASSUME NEW set, NEW target \in Int, NEW before \in Seq(Other)
      PROVE  GU!Recipe(set, target, before).milestones \in Seq(Other)
  <2>1. GU!Recipe(set, target, before).milestones = Append(before, GU!At("pull", target))
    BY DEF GU!Recipe
  <2>2. GU!At("pull", target) \in Other
    BY <1>1
  <2> QED  BY <2>1, <2>2
<1>3. \A c \in DOMAIN GU!GuidedCooks : GU!GuidedCooks[c].milestones \in Seq(Other)
  <2>1. /\ <<>> \in Seq(Other)
        /\ \A a \in Other : <<a>> \in Seq(Other)
        /\ \A a, b \in Other : <<a, b>> \in Seq(Other)
        /\ \A a, b, c \in Other : <<a, b, c>> \in Seq(Other)
    OBVIOUS
  <2>2. /\ GU!At("settle", 140) \in Other /\ GU!At("probe_tender", 198) \in Other
        /\ GU!At("spritz", 140) \in Other /\ GU!At("glaze", 188) \in Other
        /\ GU!At("check", 140) \in Other /\ GU!At("baste", 130) \in Other
        /\ GU!Wrap(165) \in Other
    <3>1. 130 \in Int /\ 140 \in Int /\ 165 \in Int /\ 188 \in Int /\ 198 \in Int
      OBVIOUS
    <3>2. GU!Wrap(165) \in Other
      BY <1>a, <3>1
    <3> QED  BY <1>1, <3>1, <3>2, Zenon
  <2>3. {115, 145, 160, 195, 203, 205} \subseteq Int
    OBVIOUS
  <2>4. GU!GuidedCooks.brisket_packer.milestones \in Seq(Other)
    <3>1. <<GU!At("settle", 140), GU!WrapAtStall, GU!At("probe_tender", 198)>> \in Seq(Other)
      BY <1>c, <2>1, <2>2
    <3>2. GU!GuidedCooks.brisket_packer =
            GU!Recipe(250, 203, <<GU!At("settle", 140), GU!WrapAtStall,
                                  GU!At("probe_tender", 198)>>)
      BY DEF GU!GuidedCooks
    <3> QED  BY <1>2, <2>3, <3>1, <3>2, Zenon
  <2>5. GU!GuidedCooks.pork_butt.milestones \in Seq(Other)
    <3>1. <<GU!At("spritz", 140), GU!WrapAtStall>> \in Seq(Other)
      BY <1>c, <2>1, <2>2
    <3>2. GU!GuidedCooks.pork_butt =
            GU!Recipe(250, 203, <<GU!At("spritz", 140), GU!WrapAtStall>>)
      BY DEF GU!GuidedCooks
    <3> QED  BY <1>2, <2>3, <3>1, <3>2, Zenon
  <2>6. GU!GuidedCooks.ribs_321.milestones \in Seq(Other)
    <3>1. <<GU!Wrap(165), GU!At("glaze", 188)>> \in Seq(Other)
      BY <2>1, <2>2
    <3>2. GU!GuidedCooks.ribs_321 =
            GU!Recipe(225, 195, <<GU!Wrap(165), GU!At("glaze", 188)>>)
      BY DEF GU!GuidedCooks
    <3> QED  BY <1>2, <2>3, <3>1, <3>2, Zenon
  <2>7. GU!GuidedCooks.chicken_whole.milestones \in Seq(Other)
    <3>1. <<GU!At("check", 140)>> \in Seq(Other)
      BY <1>c, <2>1, <2>2
    <3>2. GU!GuidedCooks.chicken_whole = GU!Recipe(375, 160, <<GU!At("check", 140)>>)
      BY DEF GU!GuidedCooks
    <3> QED  BY <1>2, <2>3, <3>1, <3>2, Zenon
  <2>8. GU!GuidedCooks.turkey_whole.milestones \in Seq(Other)
    <3>1. <<GU!At("baste", 130)>> \in Seq(Other)
      BY <1>c, <2>1, <2>2
    <3>2. GU!GuidedCooks.turkey_whole = GU!Recipe(325, 160, <<GU!At("baste", 130)>>)
      BY DEF GU!GuidedCooks
    <3> QED  BY <1>2, <2>3, <3>1, <3>2, Zenon
  <2>9. GU!GuidedCooks.beef_ribs.milestones \in Seq(Other)
    <3>1. <<GU!WrapAtStall>> \in Seq(Other)
      BY <1>c, <2>1, <2>2
    <3>2. GU!GuidedCooks.beef_ribs = GU!Recipe(250, 205, <<GU!WrapAtStall>>)
      BY DEF GU!GuidedCooks
    <3> QED  BY <1>2, <2>3, <3>1, <3>2, Zenon
  <2>10. GU!GuidedCooks.salmon.milestones \in Seq(Other)
    <3>1. GU!GuidedCooks.salmon = GU!Recipe(180, 145, <<>>)
      BY DEF GU!GuidedCooks
    <3> QED  BY <1>2, <2>1, <2>3, <3>1, Zenon
  <2>11. GU!GuidedCooks.reverse_sear.milestones \in Seq(Other)
    <3>1. GU!GuidedCooks.reverse_sear = GU!Recipe(225, 115, <<>>)
      BY DEF GU!GuidedCooks
    <3> QED  BY <1>2, <2>1, <2>3, <3>1, Zenon
  <2>12. DOMAIN GU!GuidedCooks =
          {"brisket_packer", "pork_butt", "ribs_321", "chicken_whole", "turkey_whole",
           "beef_ribs", "salmon", "reverse_sear"}
    BY DEF GU!GuidedCooks
  <2> QED  BY <2>4, <2>5, <2>6, <2>7, <2>8, <2>9, <2>10, <2>11, <2>12
<1>4. \A c \in Recipes : GU!GuidedCooks[c].milestones \in Seq(Other)
  BY <1>3, PartsConstants DEF GU!GuidedConstants
<1>5. \A s \in Seq(Other) : GU!Range(s) \subseteq Other
  BY DEF GU!Range
<1>6. ASSUME NEW c \in Recipes
      PROVE  "warm" \notin GU!Keys([GU!NoRun EXCEPT !.cook = c])
  <2>1. [GU!NoRun EXCEPT !.cook = c].cook = c
    BY DEF GU!NoRun
  <2>2. GU!Milestones([GU!NoRun EXCEPT !.cook = c]) \subseteq Other
    BY <1>4, <1>5, <2>1 DEF GU!Milestones
  <2>3. \A m \in Other : m.key # "warm"
    BY DEF Other
  <2> QED  BY <2>2, <2>3 DEF GU!Keys
<1> QED  BY <1>6 DEF GU!Prompted

\* The first states have no run.
LEMMA GuidedInit == Init => GuidedInv
<1> SUFFICES ASSUME Init PROVE GuidedInv
  OBVIOUS
<1>1. /\ run = GU!NoRun /\ keepWarm = FALSE /\ sets = 0 /\ diary = <<>>
      /\ meat = [temp |-> GU!None, stalled |-> FALSE]
  BY DEF Init, GU!Init
<1>2. GU!TypeOK
  <2>1. keepWarm \in BOOLEAN
    BY <1>1
  <2>2. meat \in [temp : GU!Temps \cup {GU!None}, stalled : BOOLEAN]
    BY <1>1
  <2>3. diary \in Seq(SUBSET (GU!Prompted \cup {"warm"}))
    BY <1>1
  <2> QED  BY <1>1, <2>1, <2>2, <2>3 DEF GU!TypeOK
<1>3. EachPromptOnce /\ GU!DiaryIsOfRun
  BY <1>1 DEF EachPromptOnce, GU!EachPromptOnce, GU!DiaryIsOfRun, GU!NoRun
<1> QED  BY <1>2, <1>3 DEF GuidedInv

\* The prompts of a recipe, whoever runs it
LEMMA KeysOfCook ==
  ASSUME NEW r, r.cook \in Recipes
  PROVE  GU!Keys(r) \subseteq GU!Prompted
<1>1. GU!Keys([GU!NoRun EXCEPT !.cook = r.cook]) = GU!Keys(r)
  BY DEF GU!Keys, GU!Milestones, GU!NoRun
<1> QED  BY <1>1 DEF GU!Prompted

\* A line that prompts says what no line said before, and nothing comes after a pull.
LEMMA DiaryGrows ==
  ASSUME EachPromptOnce, GU!DiaryIsOfRun, diary \in Seq(SUBSET (GU!Prompted \cup {"warm"})),
         ~run.done, NEW news, news \cap run.fired = {}, news \subseteq GU!Prompted,
         NEW page, page \in {news, news \cup {"warm"}}, "warm" \in page => "pull" \in news,
         diary' = Append(diary, page),
         run'.fired = run.fired \cup news, run' # GU!NoRun,
         "pull" \in run'.fired => run'.done
  PROVE  EachPromptOnce' /\ GU!DiaryIsOfRun'
<1>1. /\ \A i, j \in DOMAIN diary : i # j => diary[i] \cap diary[j] = {}
      /\ \A i \in DOMAIN diary : "pull" \in diary[i] => i = Len(diary)
      /\ \A i \in DOMAIN diary : "warm" \in diary[i] => "pull" \in diary[i]
  BY DEF EachPromptOnce, GU!EachPromptOnce
<1>2. /\ \A i \in DOMAIN diary : diary[i] \ {"warm"} \subseteq run.fired
      /\ "pull" \notin run.fired
  BY DEF GU!DiaryIsOfRun
<1>3. \A i \in DOMAIN diary : "pull" \notin diary[i] /\ "warm" \notin diary[i]
  BY <1>1, <1>2
<1>4. \A i \in DOMAIN diary : diary[i] \cap page = {}
  BY <1>2, <1>3
<1>5. /\ DOMAIN diary = 1 .. Len(diary) /\ Len(diary) \in Nat
      /\ DOMAIN diary' = 1 .. Len(diary) + 1 /\ Len(diary') = Len(diary) + 1
      /\ \A i \in DOMAIN diary : diary'[i] = diary[i]
      /\ diary'[Len(diary) + 1] = page
  OBVIOUS
<1>6. EachPromptOnce'
  <2>1. \A i, j \in DOMAIN diary' : i # j => diary'[i] \cap diary'[j] = {}
    <3> SUFFICES ASSUME NEW i \in DOMAIN diary', NEW j \in DOMAIN diary', i # j
                 PROVE  diary'[i] \cap diary'[j] = {}
      OBVIOUS
    <3>1. CASE i \in DOMAIN diary /\ j \in DOMAIN diary
      BY <1>1, <1>5, <3>1
    <3>2. CASE i \in DOMAIN diary /\ j = Len(diary) + 1
      BY <1>4, <1>5, <3>2
    <3>3. CASE i = Len(diary) + 1 /\ j \in DOMAIN diary
      BY <1>4, <1>5, <3>3
    <3> QED  BY <1>5, <3>1, <3>2, <3>3
  <2>2. \A i \in DOMAIN diary' : "pull" \in diary'[i] => i = Len(diary')
    BY <1>3, <1>5
  <2>3. \A i \in DOMAIN diary' : "warm" \in diary'[i] => "pull" \in diary'[i]
    BY <1>3, <1>5
  <2> QED  BY <2>1, <2>2, <2>3 DEF EachPromptOnce, GU!EachPromptOnce
<1>7. \A i \in DOMAIN diary' : diary'[i] \ {"warm"} \subseteq run'.fired
  BY <1>2, <1>5
<1> QED  BY <1>6, <1>7 DEF GU!DiaryIsOfRun

\* With no line that prompted, there is nothing to repeat.
LEMMA DiaryIsEmpty ==
  ASSUME diary' = <<>>, "pull" \in run'.fired => run'.done
  PROVE  EachPromptOnce' /\ GU!DiaryIsOfRun'
BY DEF EachPromptOnce, GU!EachPromptOnce, GU!DiaryIsOfRun

\* Every step keeps the diary of the run.
LEMMA GuidedStep ==
  ASSUME GuidedInv, [GU!Next]_guidedVars
  PROVE  GuidedInv'
<1> USE RecipesAreNamed
<1> DEFINE Runs == [cook : Recipes, fired : SUBSET GU!Prompted, wrapPending : BOOLEAN,
                    wrapped : BOOLEAN, done : BOOLEAN]
<1>0. GU!TypeOK /\ EachPromptOnce /\ GU!DiaryIsOfRun
  BY DEF GuidedInv
<1>a. run # GU!NoRun => run \in Runs /\ run.fired \subseteq GU!Keys(run)
  BY <1>0 DEF GU!TypeOK
<1>1. ASSUME NEW c \in Recipes, NEW warm \in BOOLEAN, GU!Start(c, warm)
      PROVE  GuidedInv'
  <2> DEFINE r == [GU!NoRun EXCEPT !.cook = c]
  <2>1. run' = r /\ keepWarm' = warm /\ sets' = GU!GuidedCooks[c].set /\ diary' = <<>>
        /\ meat' = meat
    BY <1>1 DEF GU!Start
  <2>2. r \in Runs /\ r.fired = {}
    BY DEF GU!NoRun
  <2> HIDE DEF r
  <2>3. GU!TypeOK'
    BY <1>0, <2>1, <2>2 DEF GU!TypeOK
  <2> QED  BY <2>1, <2>2, <2>3, DiaryIsEmpty DEF GuidedInv
<1>2. ASSUME NEW c \in Recipes, GU!StartFails(c)
      PROVE  GuidedInv'
  BY <1>0, <1>2
     DEF GU!StartFails, GuidedInv, GU!TypeOK, EachPromptOnce, GU!EachPromptOnce, GU!DiaryIsOfRun
<1>3. CASE GU!Stop
  <2>1. run' = GU!NoRun /\ diary' = <<>> /\ GU!NoRun.fired = {}
    BY <1>3 DEF GU!Stop, GU!NoRun
  <2>2. GU!TypeOK'
    BY <1>0, <1>3, <2>1 DEF GU!TypeOK, GU!Stop
  <2> QED  BY <2>1, <2>2, DiaryIsEmpty DEF GuidedInv
<1>4. CASE GU!ConfirmWrap
  <2>1. run # GU!NoRun
    BY <1>4 DEF GU!ConfirmWrap, GU!WrapWaits, GU!NoRun
  <2>2. /\ run' = [run EXCEPT !.wrapPending = FALSE, !.wrapped = TRUE]
        /\ keepWarm' = keepWarm /\ meat' = meat /\ sets' = sets /\ diary' = diary
    BY <1>4 DEF GU!ConfirmWrap
  <2>3. run' \in Runs /\ run'.fired = run.fired /\ run'.done = run.done
        /\ run'.cook = run.cook
    BY <1>a, <2>1, <2>2
  <2>4. GU!Keys(run') = GU!Keys(run)
    BY <2>3 DEF GU!Keys, GU!Milestones
  <2>5. GU!TypeOK'
    BY <1>0, <1>a, <2>1, <2>2, <2>3, <2>4 DEF GU!TypeOK
  <2>6. run' # GU!NoRun
    BY <2>3 DEF GU!NoRun
  <2>7. EachPromptOnce' /\ GU!DiaryIsOfRun'
    BY <1>0, <2>2, <2>3, <2>6 DEF EachPromptOnce, GU!EachPromptOnce, GU!DiaryIsOfRun
  <2> QED  BY <2>5, <2>7 DEF GuidedInv
<1>5. CASE GU!Sample
  <2> PICK t \in GU!Temps \cup {GU!None}, stalled \in BOOLEAN :
         /\ meat' = [temp |-> t, stalled |-> stalled]
         /\ IF GU!Drives THEN GU!Prompts(t, stalled) ELSE UNCHANGED <<run, sets, diary>>
         /\ UNCHANGED keepWarm
    BY <1>5 DEF GU!Sample
  <2>1. meat' \in [temp : GU!Temps \cup {GU!None}, stalled : BOOLEAN]
    OBVIOUS
  <2>2. CASE ~GU!Drives
    BY <1>0, <2>1, <2>2
       DEF GuidedInv, GU!TypeOK, EachPromptOnce, GU!EachPromptOnce, GU!DiaryIsOfRun
  <2>3. CASE GU!Drives
    <3>1. run # GU!NoRun /\ ~run.done /\ run \in Runs /\ run.fired \subseteq GU!Keys(run)
      BY <1>a, <2>3 DEF GU!Drives
    <3> DEFINE now  == GU!Firing(t, stalled)
               news == {m.key : m \in now}
               warm == "pull" \in news /\ keepWarm
               page == news \cup (IF warm THEN {"warm"} ELSE {})
               pending == run.wrapPending \/ \E m \in now : m.wrap
               done    == run.done \/ "pull" \in news
    <3>2. /\ run' = [run EXCEPT !.fired = @ \cup news, !.wrapPending = pending, !.done = done]
          /\ sets' = IF warm THEN KeepWarm ELSE sets
          /\ diary' = IF now = {} THEN diary ELSE Append(diary, page)
      BY <2>3 DEF GU!Prompts
    <3>3. news \subseteq GU!Keys(run) /\ news \cap run.fired = {}
      BY DEF GU!Firing, GU!Keys
    <3>4. GU!Keys(run) \subseteq GU!Prompted
      BY <3>1, KeysOfCook
    <3>5. page \in {news, news \cup {"warm"}} /\ ("warm" \in page => "pull" \in news)
      BY <3>3, <3>4, WarmIsNoMilestone
    <3>6. pending \in BOOLEAN /\ done \in BOOLEAN /\ ("pull" \in news => done)
          /\ (run.done => done)
      OBVIOUS
    <3>7. now = {} => news = {}
      OBVIOUS
    <3> HIDE DEF now, news, warm, page, pending, done
    <3>8. /\ run' \in Runs /\ run'.cook = run.cook /\ run'.fired = run.fired \cup news
          /\ run'.done = done
      BY <3>1, <3>2, <3>3, <3>4, <3>6
    <3>9. GU!Keys(run') = GU!Keys(run) /\ run' # GU!NoRun
      BY <3>8 DEF GU!Keys, GU!Milestones, GU!NoRun
    <3>10. diary' \in Seq(SUBSET (GU!Prompted \cup {"warm"}))
      BY <1>0, <3>2, <3>3, <3>4, <3>5 DEF GU!TypeOK
    <3>11. GU!TypeOK'
      BY <1>0, <2>1, <3>1, <3>2, <3>3, <3>8, <3>9, <3>10 DEF GU!TypeOK
    <3>12. "pull" \in run'.fired => run'.done
      BY <1>0, <3>6, <3>8 DEF GU!DiaryIsOfRun
    <3>13. EachPromptOnce' /\ GU!DiaryIsOfRun'
      <4>1. CASE now = {}
        BY <1>0, <3>1, <3>2, <3>7, <3>8, <3>9, <3>12, <4>1
           DEF EachPromptOnce, GU!EachPromptOnce, GU!DiaryIsOfRun
      <4>2. CASE now # {}
        <5>1. diary \in Seq(SUBSET (GU!Prompted \cup {"warm"}))
          BY <1>0 DEF GU!TypeOK
        <5>2. diary' = Append(diary, page)
          BY <3>2, <4>2
        <5>3. news \subseteq GU!Prompted
          BY <3>3, <3>4
        <5> QED  BY <1>0, <3>1, <3>3, <3>5, <3>8, <3>9, <3>12, <5>1, <5>2, <5>3, DiaryGrows
      <4> QED  BY <4>1, <4>2
    <3> QED  BY <3>11, <3>13 DEF GuidedInv
  <2> QED  BY <2>2, <2>3
<1>6. CASE GU!Restart
  <2>1. run' = GU!NoRun /\ diary' = <<>> /\ GU!NoRun.fired = {}
    BY <1>6 DEF GU!Restart, GU!NoRun
  <2>2. GU!TypeOK'
    <3>1. keepWarm' \in BOOLEAN
      BY <1>6 DEF GU!Restart
    <3>2. diary' \in Seq(SUBSET (GU!Prompted \cup {"warm"}))
      BY <2>1
    <3>3. meat' = meat /\ sets' = sets
      BY <1>6 DEF GU!Restart
    <3> QED  BY <1>0, <2>1, <3>1, <3>2, <3>3 DEF GU!TypeOK
  <2> QED  BY <2>1, <2>2, DiaryIsEmpty DEF GuidedInv
<1>7. CASE UNCHANGED guidedVars
  BY <1>0, <1>7
     DEF guidedVars, GuidedInv, GU!TypeOK, EachPromptOnce, GU!EachPromptOnce, GU!DiaryIsOfRun
<1> QED
  BY <1>1, <1>2, <1>3, <1>4, <1>5, <1>6, <1>7 DEF GU!Next

=============================================================================
