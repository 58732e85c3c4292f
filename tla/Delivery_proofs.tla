-------------------------- MODULE Delivery_proofs --------------------------
(***************************************************************************)
(* What the service sends out and takes in: pushes, the bridge to Home     *)
(* Assistant and its writes, live clients and device tokens.  What a step  *)
(* of each of them keeps.  Parts_proofs takes it to the parts together.    *)
(***************************************************************************)
EXTENDS Parts, TLAPS

-----------------------------------------------------------------------------
(* AlarmNotify: no page for a blip.                                        *)

AlarmNotifyInv == AN!TypeOK /\ AN!RecordsAreLived

\* What a step must not do: push an alarm that did not ring for the debounce time,
\* or one that was pushed and is not to be repeated.
PagesAreLived ==
  "alarm" \in sent'.what =>
    ring'.lines > Debounce /\ (Repeat = 0 => "ntfy" \notin ring.told)

\* The times are numbers, and none of them is "never".
LEMMA AlarmNotifyNumbers ==
  /\ Debounce \in Nat /\ Repeat \in Nat /\ DarkTimeout \in Nat \ {0}
  /\ AN!None = -1
BY PartsConstants DEF AN!AlarmNotifyConstants, AN!None

\* An age, a line later
LEMMA OlderFacts ==
  ASSUME NEW most \in Nat, NEW age \in AN!None .. most
  PROVE  /\ AN!Older(age, most) \in AN!None .. most
         /\ AN!Older(age, most) = AN!None <=> age = AN!None
         /\ age # AN!None => AN!Older(age, most) <= age + 1
BY AlarmNotifyNumbers DEF AN!Older

\* The pushes there are
Pushes == [what : SUBSET {"alarm", "eta", "offline", "back"}, to : SUBSET AN!PushChannels]

\* A push goes to channels that are configured.
LEMMA PushIsOne ==
  ASSUME AN!TypeOK, NEW what \in SUBSET {"alarm", "eta", "offline", "back"}
  PROVE  AN!Push(what) \in Pushes /\ AN!Push(what).what = what
<1>1. (IF what = {} THEN {} ELSE fitted) \in SUBSET AN!PushChannels
  BY DEF AN!TypeOK
<1> QED  BY <1>1 DEF AN!Push, Pushes

\* The first states have no record of a ring.
LEMMA AlarmNotifyInit == Init => AlarmNotifyInv
<1> SUFFICES ASSUME Init PROVE AlarmNotifyInv
  OBVIOUS
<1> USE AlarmNotifyNumbers
<1>1. /\ alarm = [ringing |-> FALSE, since |-> AN!None, last |-> AN!None]
      /\ eta = FALSE /\ quiet = AN!None /\ dark = FALSE /\ fitted \in SUBSET AN!PushChannels
      /\ sent = AN!Nothing /\ ring = AN!NoRing /\ offline = FALSE
  BY DEF Init, AN!Init
<1>2. sent \in Pushes
  BY <1>1 DEF AN!Nothing, Pushes
<1>3. ring \in [lines : 0 .. Debounce + 1, all : SUBSET AN!PushChannels, told : SUBSET AN!PushChannels]
  BY <1>1 DEF AN!NoRing
<1>4. alarm \in [ringing : BOOLEAN, since : AN!None .. Debounce, last : AN!None .. Repeat]
  BY <1>1
<1>5. eta \in BOOLEAN /\ dark \in BOOLEAN /\ offline \in BOOLEAN
  BY <1>1
<1>6. quiet \in AN!None .. DarkTimeout + 1
  BY <1>1
<1>7. AN!TypeOK
  BY <1>1, <1>2, <1>3, <1>4, <1>5, <1>6 DEF AN!TypeOK, Pushes
<1>8. AN!RecordsAreLived
  BY <1>1 DEF AN!RecordsAreLived, AN!NoRing
<1> QED  BY <1>7, <1>8 DEF AlarmNotifyInv

\* A line of a ring counts for the record and for the history alike, and pushes only
\* what outlasted the debounce time.
LEMMA RingFacts ==
  ASSUME AlarmNotifyInv, NEW ringing \in BOOLEAN, NEW lines, NEW news,
         lines = IF AN!Hears THEN AN!Longer(ring.lines, Debounce + 1) ELSE 0,
         news = IF ~AN!Hears THEN {}
                ELSE ring.told \cup (IF AN!Pages(ringing) THEN fitted ELSE {})
  PROVE  /\ AN!Notified(ringing) \in [since : AN!None .. Debounce, last : AN!None .. Repeat]
         /\ ~ringing => AN!Notified(ringing) = AN!NoRecord
         /\ AN!Notified(ringing).since # AN!None => lines > AN!Notified(ringing).since
         /\ AN!Notified(ringing).last # AN!None => lines > Debounce
         /\ ringing /\ "ntfy" \in news => AN!Notified(ringing).last # AN!None
         /\ AN!Pages(ringing) => /\ ringing /\ lines > Debounce
                                 /\ Repeat = 0 => "ntfy" \notin ring.told
<1> USE AlarmNotifyNumbers
<1> DEFINE rec == AN!Rings(AN!Rec(alarm))
           due == AN!PageDue(AN!Rec(alarm), rec)
<1>1. /\ alarm.since \in AN!None .. Debounce /\ alarm.last \in AN!None .. Repeat
      /\ ring.lines \in 0 .. Debounce + 1
      /\ alarm.since # AN!None => ring.lines > alarm.since
      /\ alarm.last # AN!None => ring.lines > Debounce
      /\ "ntfy" \in ring.told => alarm.last # AN!None
  BY DEF AlarmNotifyInv, AN!TypeOK, AN!RecordsAreLived
<1>2. /\ rec.since = IF alarm.since = AN!None THEN 0 ELSE AN!Older(alarm.since, Debounce)
      /\ rec.last = AN!Older(alarm.last, Repeat)
      /\ rec = [since |-> rec.since, last |-> rec.last]
  BY DEF AN!Rings, AN!Rec
<1>3. /\ rec.since \in 0 .. Debounce /\ rec.last \in AN!None .. Repeat
      /\ rec.last = AN!None <=> alarm.last = AN!None
      /\ alarm.since # AN!None => rec.since <= alarm.since + 1
      /\ alarm.since = AN!None => rec.since = 0
  BY <1>1, <1>2, OlderFacts
<1>4. due <=> /\ alarm.since # AN!None
              /\ IF rec.last = AN!None THEN rec.since >= Debounce
                 ELSE Repeat > 0 /\ rec.last >= Repeat
  BY DEF AN!PageDue, AN!Rec
<1>5. /\ AN!Notified(ringing) = IF ~(AN!Hears /\ ringing) THEN AN!NoRecord
                                ELSE IF due THEN [rec EXCEPT !.last = 0] ELSE rec
      /\ AN!Pages(ringing) <=> AN!Hears /\ ringing /\ due
  BY DEF AN!Notified, AN!Pages, AN!Keeps
<1> HIDE DEF rec, due
<1>6. AN!Hears => /\ lines \in 0 .. Debounce + 1 /\ lines > 0
                  /\ lines >= ring.lines
                  /\ lines = ring.lines + 1 \/ lines = Debounce + 1
  BY <1>1 DEF AN!Longer
<1>7. AN!Hears => lines > rec.since
  BY <1>1, <1>3, <1>6
<1>8. AN!Hears /\ due => lines > Debounce
  BY <1>1, <1>3, <1>4, <1>6, <1>7
<1>9. CASE ~(AN!Hears /\ ringing)
  BY <1>5, <1>9 DEF AN!NoRecord
<1>10. CASE AN!Hears /\ ringing /\ due
  <2>1. AN!Notified(ringing) = [since |-> rec.since, last |-> 0]
    BY <1>2, <1>5, <1>10
  <2>2. AN!Notified(ringing).since = rec.since /\ AN!Notified(ringing).last = 0
    BY <2>1
  <2>3. 0 \in AN!None .. Repeat /\ rec.since \in AN!None .. Debounce
    BY <1>3
  <2>4. AN!Notified(ringing) \in [since : AN!None .. Debounce, last : AN!None .. Repeat]
    BY <2>1, <2>3
  <2>5. Repeat = 0 => "ntfy" \notin ring.told
    BY <1>1, <1>3, <1>4, <1>10
  <2> QED  BY <1>5, <1>7, <1>8, <1>10, <2>2, <2>4, <2>5
<1>11. CASE AN!Hears /\ ringing /\ ~due
  <2>1. AN!Notified(ringing) = [since |-> rec.since, last |-> rec.last]
    BY <1>2, <1>5, <1>11
  <2>2. news = ring.told
    BY <1>5, <1>11
  <2>3. AN!Notified(ringing).since = rec.since /\ AN!Notified(ringing).last = rec.last
    BY <2>1
  <2>4. rec.since \in AN!None .. Debounce
    BY <1>3
  <2>5. AN!Notified(ringing) \in [since : AN!None .. Debounce, last : AN!None .. Repeat]
    BY <1>3, <2>1, <2>4
  <2>6. rec.last # AN!None => lines > Debounce
    BY <1>1, <1>3, <1>6, <1>11
  <2> QED  BY <1>1, <1>3, <1>5, <1>7, <1>11, <2>2, <2>3, <2>5, <2>6
<1> QED  BY <1>9, <1>10, <1>11

\* Every step keeps the records and their history together, and pushes an alarm only
\* when it is due.
LEMMA AlarmNotifyStep ==
  ASSUME AlarmNotifyInv, [AN!Next]_alarmNotifyVars
  PROVE  AlarmNotifyInv' /\ (PagesAreLived \/ UNCHANGED alarmNotifyVars)
<1> DEFINE Records == [ringing : BOOLEAN, since : AN!None .. Debounce, last : AN!None .. Repeat]
           Rings == [lines : 0 .. Debounce + 1, all : SUBSET AN!PushChannels,
                     told : SUBSET AN!PushChannels]
<1>0. AN!TypeOK /\ AN!RecordsAreLived
  BY DEF AlarmNotifyInv
<1>a. AN!Nothing \in Pushes /\ "alarm" \notin AN!Nothing.what
  BY DEF AN!Nothing, Pushes
<1>b. AN!NoRing \in Rings /\ AN!NoRing.told = {}
  BY AlarmNotifyNumbers DEF AN!NoRing
<1>1. CASE AN!Sample
  <2> PICK ringing \in BOOLEAN, where \in {"near", "close", "far"} :
         LET what == (IF dark THEN {"back"} ELSE {})
                     \cup (IF AN!Pages(ringing) THEN {"alarm"} ELSE {})
                     \cup (IF AN!EtaPages(where) THEN {"eta"} ELSE {})
         IN  /\ quiet' = 0
             /\ dark' = AN!Back
             /\ alarm' = [ringing |-> ringing, since |-> AN!Notified(ringing).since,
                          last |-> AN!Notified(ringing).last]
             /\ eta' = IF AN!Hears THEN AN!EtaTold(where) ELSE eta
             /\ sent' = AN!Push(what)
             /\ ring' = IF ~ringing THEN AN!NoRing
                        ELSE [lines |-> IF AN!Hears
                                        THEN AN!Longer(ring.lines, Debounce + 1) ELSE 0,
                              all   |-> ring.all \cap fitted,
                              told  |-> IF ~AN!Hears THEN {}
                                        ELSE ring.told \cup
                                             (IF AN!Pages(ringing) THEN fitted ELSE {})]
             /\ offline' = FALSE
             /\ UNCHANGED fitted
    BY <1>1 DEF AN!Sample
  <2> DEFINE what  == (IF dark THEN {"back"} ELSE {})
                      \cup (IF AN!Pages(ringing) THEN {"alarm"} ELSE {})
                      \cup (IF AN!EtaPages(where) THEN {"eta"} ELSE {})
             lines == IF AN!Hears THEN AN!Longer(ring.lines, Debounce + 1) ELSE 0
             news  == IF ~AN!Hears THEN {}
                      ELSE ring.told \cup (IF AN!Pages(ringing) THEN fitted ELSE {})
             rec   == AN!Notified(ringing)
  <2>1. /\ rec \in [since : AN!None .. Debounce, last : AN!None .. Repeat]
        /\ ~ringing => rec = AN!NoRecord
        /\ rec.since # AN!None => lines > rec.since
        /\ rec.last # AN!None => lines > Debounce
        /\ ringing /\ "ntfy" \in news => rec.last # AN!None
        /\ AN!Pages(ringing) => /\ ringing /\ lines > Debounce
                                /\ Repeat = 0 => "ntfy" \notin ring.told
    BY RingFacts
  <2>2. what \in SUBSET {"alarm", "eta", "offline", "back"}
        /\ ("alarm" \in what <=> AN!Pages(ringing))
    OBVIOUS
  <2>3. sent' \in Pushes /\ sent'.what = what
    BY <1>0, <2>2, PushIsOne
  <2>4. lines \in 0 .. Debounce + 1
    BY <1>0, AlarmNotifyNumbers DEF AN!TypeOK, AN!Longer
  <2>5. news \in SUBSET AN!PushChannels /\ ring.all \cap fitted \in SUBSET AN!PushChannels
    BY <1>0 DEF AN!TypeOK
  <2>6. /\ alarm' = [ringing |-> ringing, since |-> rec.since, last |-> rec.last]
        /\ ring' = IF ~ringing THEN AN!NoRing
                   ELSE [lines |-> lines, all |-> ring.all \cap fitted, told |-> news]
    OBVIOUS
  <2> HIDE DEF what, lines, news, rec
  <2>7. alarm' \in Records /\ alarm'.since = rec.since /\ alarm'.last = rec.last
    BY <2>1, <2>6
  <2>8. ring' \in Rings /\ (ringing => ring'.lines = lines /\ ring'.told = news)
    BY <1>b, <2>4, <2>5, <2>6
  <2>9. eta' \in BOOLEAN
    BY <1>0 DEF AN!TypeOK, AN!EtaTold
  <2>10. dark' \in BOOLEAN /\ offline' \in BOOLEAN
    BY DEF AN!Back
  <2>11. AN!TypeOK'
    <3>1. quiet' = 0 /\ fitted' = fitted
      OBVIOUS
    <3>2. quiet' \in AN!None .. DarkTimeout + 1
      BY <3>1, AlarmNotifyNumbers
    <3> QED  BY <1>0, <2>3, <2>7, <2>8, <2>9, <2>10, <3>1, <3>2 DEF AN!TypeOK, Pushes
  <2>12. AN!RecordsAreLived'
    <3>1. CASE ringing
      BY <2>1, <2>7, <2>8, <3>1 DEF AN!RecordsAreLived
    <3>2. CASE ~ringing
      BY <1>b, <2>1, <2>6, <2>7, <3>2 DEF AN!RecordsAreLived, AN!NoRecord
    <3> QED  BY <3>1, <3>2
  <2>13. PagesAreLived
    BY <2>1, <2>2, <2>3, <2>8 DEF PagesAreLived
  <2> QED  BY <2>11, <2>12, <2>13 DEF AlarmNotifyInv
<1>2. CASE AN!Silence
  <2>1. /\ quiet' = AN!Older(quiet, DarkTimeout + 1) /\ sent' = AN!Nothing
        /\ alarm' = alarm /\ eta' = eta /\ dark' = dark /\ fitted' = fitted /\ ring' = ring
        /\ offline' = offline
    BY <1>2 DEF AN!Silence
  <2>2. DarkTimeout + 1 \in Nat /\ quiet' \in AN!None .. DarkTimeout + 1
    BY <1>0, <2>1, AlarmNotifyNumbers, OlderFacts DEF AN!TypeOK
  <2>3. AN!TypeOK'
    BY <1>0, <1>a, <2>1, <2>2 DEF AN!TypeOK, Pushes
  <2>4. AN!RecordsAreLived'
    BY <1>0, <2>1 DEF AN!RecordsAreLived
  <2> QED  BY <1>a, <2>1, <2>3, <2>4 DEF AlarmNotifyInv, PagesAreLived
<1>3. CASE AN!Watchdog
  <2>1. /\ sent' = AN!Push({"offline"})
        /\ alarm' = alarm /\ eta' = eta /\ quiet' = quiet /\ fitted' = fitted /\ ring' = ring
    BY <1>3 DEF AN!Watchdog
  <2>2. dark' \in BOOLEAN /\ offline' \in BOOLEAN
    BY <1>3 DEF AN!Watchdog
  <2>3. sent' \in Pushes /\ sent'.what = {"offline"}
    BY <1>0, <2>1, PushIsOne
  <2>4. AN!TypeOK'
    BY <1>0, <2>1, <2>2, <2>3 DEF AN!TypeOK, Pushes
  <2>5. AN!RecordsAreLived'
    BY <1>0, <2>1 DEF AN!RecordsAreLived
  <2> QED  BY <2>3, <2>4, <2>5 DEF AlarmNotifyInv, PagesAreLived
<1>4. CASE AN!Configure
  <2>1. /\ fitted' \in SUBSET AN!PushChannels /\ sent' = AN!Nothing
        /\ ring' = [ring EXCEPT !.all = @ \cap fitted']
        /\ alarm' = alarm /\ eta' = eta /\ quiet' = quiet /\ dark' = dark
        /\ offline' = offline
    BY <1>4 DEF AN!Configure
  <2>2. ring \in Rings
    BY <1>0 DEF AN!TypeOK
  <2>3. ring' \in Rings /\ ring'.lines = ring.lines /\ ring'.told = ring.told
    BY <2>1, <2>2
  <2>4. AN!TypeOK'
    BY <1>0, <1>a, <2>1, <2>3 DEF AN!TypeOK, Pushes
  <2>5. AN!RecordsAreLived'
    BY <1>0, <2>1, <2>3 DEF AN!RecordsAreLived
  <2> QED  BY <1>a, <2>1, <2>4, <2>5 DEF AlarmNotifyInv, PagesAreLived
<1>5. CASE AN!Restart
  <2>1. /\ alarm' = [alarm EXCEPT !.since = AN!None, !.last = AN!None]
        /\ quiet' = AN!None /\ sent' = AN!Nothing /\ ring' = AN!NoRing /\ fitted' = fitted
    BY <1>5 DEF AN!Restart
  <2>2. eta' \in BOOLEAN /\ dark' \in BOOLEAN /\ offline' \in BOOLEAN
    BY <1>5 DEF AN!Restart
  <2>3. AN!None \in AN!None .. Debounce /\ AN!None \in AN!None .. Repeat
        /\ AN!None \in AN!None .. DarkTimeout + 1
    BY AlarmNotifyNumbers
  <2>4. alarm \in Records
    BY <1>0 DEF AN!TypeOK
  <2>5. alarm' \in Records /\ alarm'.since = AN!None /\ alarm'.last = AN!None
    BY <2>1, <2>3, <2>4
  <2>6. AN!TypeOK'
    BY <1>0, <1>a, <1>b, <2>1, <2>2, <2>3, <2>5 DEF AN!TypeOK, Pushes
  <2>7. AN!RecordsAreLived'
    BY <1>b, <2>1, <2>5 DEF AN!RecordsAreLived
  <2> QED  BY <1>a, <2>1, <2>6, <2>7 DEF AlarmNotifyInv, PagesAreLived
<1>6. CASE UNCHANGED alarmNotifyVars
  BY <1>0, <1>6 DEF alarmNotifyVars, AlarmNotifyInv, AN!TypeOK, AN!RecordsAreLived
<1> QED
  BY <1>1, <1>2, <1>3, <1>4, <1>5, <1>6 DEF AN!Next

-----------------------------------------------------------------------------
(* HomeTargets: the types.                                                 *)

HomeTargetsInv == HT!TypeOK

\* A write that waits
Calls == [to : TargetProbes, all : HT!Thresholds]

\* The first states have nothing that waits.
LEMMA HomeTargetsInit == Init => HomeTargetsInv
BY PartsConstants
   DEF Init, HT!Init, HomeTargetsInv, HT!TypeOK, HT!Thresholds,
       HT!HomeTargetsConstants

\* Every step keeps the types.
LEMMA HomeTargetsStep ==
  ASSUME HomeTargetsInv, [HT!Next]_homeTargetsVars
  PROVE  HomeTargetsInv'
<1> USE DEF HomeTargetsInv, HT!TypeOK
<1>0. /\ alarms \in HT!Thresholds /\ known \in HT!Thresholds
      /\ calls \in Seq(Calls) /\ Len(calls) <= MaxCalls
      /\ MaxCalls \in Nat \ {0}
  BY PartsConstants DEF Calls, HT!HomeTargetsConstants
<1>1. ASSUME NEW p \in TargetProbes, NEW v \in Values, HT!HomeWrites(p, v)
      PROVE  HomeTargetsInv'
  <2> DEFINE call == [to |-> p, all |-> HT!Written(p, v)]
  <2>1. /\ Len(calls) < MaxCalls /\ calls' = Append(calls, call)
        /\ alarms' = alarms /\ known' = known
    BY <1>1 DEF HT!HomeWrites
  <2>2. call \in Calls
    BY <1>0 DEF HT!Written, HT!Thresholds, Calls
  <2> HIDE DEF call
  <2>3. calls' \in Seq(Calls) /\ Len(calls') <= MaxCalls
    BY <1>0, <2>1, <2>2
  <2> QED  BY <1>0, <2>1, <2>3 DEF Calls
<1>2. ASSUME NEW p \in TargetProbes, NEW v \in Values, HT!UserSets(p, v)
      PROVE  HomeTargetsInv'
  BY <1>0, <1>2 DEF HT!UserSets, HT!Thresholds
<1>3. ASSUME HT!LoopSends
      PROVE  HomeTargetsInv'
  <2>1. /\ calls # <<>> /\ alarms' \in {Head(calls).all, alarms} /\ known' = known
        /\ calls' = Tail(calls)
    BY <1>3 DEF HT!LoopSends
  <2>2. Tail(calls) \in Seq(Calls) /\ Len(Tail(calls)) <= MaxCalls /\ Head(calls) \in Calls
    BY <1>0, <2>1
  <2>3. alarms' \in HT!Thresholds
    BY <1>0, <2>1, <2>2 DEF Calls
  <2> QED  BY <1>0, <2>1, <2>2, <2>3 DEF Calls
<1>4. ASSUME HT!AlarmLine
      PROVE  HomeTargetsInv'
  BY <1>4 DEF HT!AlarmLine
<1>5. ASSUME UNCHANGED homeTargetsVars
      PROVE  HomeTargetsInv'
  BY <1>5 DEF homeTargetsVars
<1> QED
  BY <1>1, <1>2, <1>3, <1>4, <1>5 DEF HT!Next

-----------------------------------------------------------------------------
(* LiveFeed: a slow client keeps the newest message.                       *)

LiveFeedInv == LF!TypeOK /\ LF!CountsFit /\ LF!SentinelsEnd /\ NewestIsKept

\* The bounds are numbers, and a queue has room for two.
LEMMA LiveFeedNumbers ==
  /\ Cap \in Nat /\ Cap >= 2 /\ MaxMessages \in Nat /\ MaxLate \in Nat
  /\ LF!Sentinel = 0 /\ LF!Most = MaxMessages + MaxLate
BY PartsConstants DEF LF!LiveFeedConstants, LF!Sentinel, LF!Most

\* What waits for a reader, against what it was sent and what was broadcast
Waits(q, last, newest) ==
  /\ \A i, j \in DOMAIN q : i < j /\ q[i] # 0 /\ q[j] # 0 => q[i] < q[j]
  /\ \A i \in DOMAIN q : q[i] # 0 => last < q[i] /\ q[i] <= newest
  /\ newest = last \/ \E i \in DOMAIN q : q[i] # 0 /\ q[i] = newest

\* NewestIsKept, reader by reader
LEMMA NewestByReader ==
  /\ NewestIsKept <=>
       \A r \in Readers : reader[r] # "gone" => Waits(queue[r], shown[r], count)
  /\ NewestIsKept' <=>
       \A r \in Readers : reader'[r] # "gone" => Waits(queue'[r], shown'[r], count')
BY DEF NewestIsKept, LF!NewestIsKept, LF!Subscribed, LF!Sentinel, Waits

\* How many messages a full queue drops for a new one
Dropped(q) == IF Len(q) < Cap THEN 0 ELSE 1

\* A message that is put comes last, behind all of the others or all but the oldest.
LEMMA PutFacts ==
  ASSUME NEW S, NEW q \in Seq(S), Len(q) <= Cap, NEW m \in S
  PROVE  /\ LF!Put(q, m) \in Seq(S) /\ Len(LF!Put(q, m)) <= Cap
         /\ Dropped(q) \in {0, 1} /\ Len(q) \in Nat /\ (Dropped(q) = 1 => Len(q) = Cap)
         /\ Len(LF!Put(q, m)) = Len(q) + 1 - Dropped(q)
         /\ LF!Put(q, m)[Len(q) + 1 - Dropped(q)] = m
         /\ \A i \in 1 .. Len(q) - Dropped(q) : LF!Put(q, m)[i] = q[i + Dropped(q)]
<1> USE LiveFeedNumbers
<1>1. CASE Len(q) < Cap
  <2>1. LF!Put(q, m) = Append(q, m)
    BY <1>1 DEF LF!Put
  <2> QED  BY <1>1, <2>1 DEF Dropped
<1>2. CASE Len(q) >= Cap
  <2>1. LF!Put(q, m) = Append(Tail(q), m) /\ Len(q) = Cap /\ q # <<>>
    BY <1>2 DEF LF!Put
  <2>2. Tail(q) \in Seq(S) /\ Len(Tail(q)) = Len(q) - 1
        /\ \A i \in 1 .. Len(q) - 1 : Tail(q)[i] = q[i + 1]
    BY <2>1
  <2> QED  BY <1>2, <2>1, <2>2 DEF Dropped
<1> QED  BY <1>1, <1>2

\* A new message is the newest of what waits.
LEMMA PutKeepsNewest ==
  ASSUME NEW q \in Seq(Nat), Len(q) <= Cap, NEW last \in Nat, NEW newest \in Nat,
         Waits(q, last, newest)
  PROVE  Waits(LF!Put(q, newest + 1), last, newest + 1)
<1> DEFINE p == LF!Put(q, newest + 1)
           d == Dropped(q)
<1>0. newest + 1 \in Nat
  OBVIOUS
<1>1. /\ p \in Seq(Nat) /\ Len(p) = Len(q) + 1 - d
      /\ p[Len(q) + 1 - d] = newest + 1
      /\ \A i \in 1 .. Len(q) - d : p[i] = q[i + d]
      /\ d \in {0, 1} /\ Len(q) \in Nat /\ (d = 1 => Len(q) = Cap)
  BY <1>0, PutFacts
<1>2. \A i, j \in DOMAIN q : i < j /\ q[i] # 0 /\ q[j] # 0 => q[i] < q[j]
  BY DEF Waits
<1>3. last <= newest /\ \A i \in DOMAIN q : q[i] # 0 => last < q[i] /\ q[i] <= newest
  BY DEF Waits
<1> HIDE DEF p, d
<1>4. DOMAIN p = 1 .. Len(q) + 1 - d /\ DOMAIN q = 1 .. Len(q)
  BY <1>1
<1>5. d \in Nat /\ Len(q) \in Nat
  BY <1>1
<1>6. ASSUME NEW i \in DOMAIN p
      PROVE  \/ i = Len(q) + 1 - d /\ p[i] = newest + 1
             \/ i \in 1 .. Len(q) - d /\ i + d \in DOMAIN q /\ p[i] = q[i + d]
  <2>1. CASE i = Len(q) + 1 - d
    BY <1>1, <2>1
  <2>2. CASE i # Len(q) + 1 - d
    <3>1. i \in 1 .. Len(q) - d
      BY <1>1, <1>4, <2>2
    <3>2. i + d \in 1 .. Len(q)
      BY <1>5, <3>1
    <3> QED  BY <1>1, <1>4, <3>1, <3>2
  <2> QED  BY <2>1, <2>2
<1>7. \A i, j \in DOMAIN p : i < j /\ p[i] # 0 /\ p[j] # 0 => p[i] < p[j]
  <2> SUFFICES ASSUME NEW i \in DOMAIN p, NEW j \in DOMAIN p, i < j, p[i] # 0, p[j] # 0
               PROVE  p[i] < p[j]
    OBVIOUS
  <2>1. i \in 1 .. Len(q) - d /\ i + d \in DOMAIN q /\ p[i] = q[i + d]
    BY <1>1, <1>6
  <2>2. CASE j = Len(q) + 1 - d /\ p[j] = newest + 1
    BY <1>3, <2>1, <2>2
  <2>3. CASE j \in 1 .. Len(q) - d /\ j + d \in DOMAIN q /\ p[j] = q[j + d]
    BY <1>1, <1>2, <2>1, <2>3
  <2> QED  BY <1>6, <2>2, <2>3
<1>8. \A i \in DOMAIN p : p[i] # 0 => last < p[i] /\ p[i] <= newest + 1
  BY <1>3, <1>6
<1>9. \E i \in DOMAIN p : p[i] # 0 /\ p[i] = newest + 1
  BY <1>1, LiveFeedNumbers
<1> QED  BY <1>7, <1>8, <1>9 DEF Waits, p

\* The sentinel takes the place of the oldest message, never of the newest: a full
\* queue has two.
LEMMA SentinelKeepsNewest ==
  ASSUME NEW q \in Seq(Nat), Len(q) <= Cap, NEW last \in Nat, NEW newest \in Nat,
         Waits(q, last, newest), \A i \in DOMAIN q : q[i] # 0
  PROVE  Waits(LF!PutSentinel(q), last, newest)
<1> DEFINE p == LF!Put(q, LF!Sentinel)
           d == Dropped(q)
<1>0. LF!Sentinel \in Nat
  BY LiveFeedNumbers
<1>1. /\ p \in Seq(Nat) /\ Len(p) = Len(q) + 1 - d
      /\ p[Len(q) + 1 - d] = 0
      /\ \A i \in 1 .. Len(q) - d : p[i] = q[i + d]
      /\ d \in {0, 1} /\ Len(q) \in Nat /\ (d = 1 => Len(q) = Cap)
  BY <1>0, PutFacts, LiveFeedNumbers
<1>2. \A i, j \in DOMAIN q : i < j => q[i] < q[j]
  BY DEF Waits
<1>3. \A i \in DOMAIN q : last < q[i] /\ q[i] <= newest
  BY DEF Waits
<1> HIDE DEF p, d
<1>4. DOMAIN p = 1 .. Len(q) + 1 - d /\ DOMAIN q = 1 .. Len(q)
  BY <1>1
<1>5. d \in Nat /\ Len(q) \in Nat
  BY <1>1
<1>6. ASSUME NEW i \in DOMAIN p, p[i] # 0
      PROVE  i \in 1 .. Len(q) - d /\ i + d \in DOMAIN q /\ p[i] = q[i + d]
  <2>1. i # Len(q) + 1 - d
    BY <1>1, <1>6
  <2>2. i \in 1 .. Len(q) - d
    BY <1>1, <1>4, <2>1
  <2>3. i + d \in 1 .. Len(q)
    BY <1>5, <2>2
  <2> QED  BY <1>1, <1>4, <2>2, <2>3
<1>7. \A i, j \in DOMAIN p : i < j /\ p[i] # 0 /\ p[j] # 0 => p[i] < p[j]
  <2> SUFFICES ASSUME NEW i \in DOMAIN p, NEW j \in DOMAIN p, i < j, p[i] # 0, p[j] # 0
               PROVE  p[i] < p[j]
    OBVIOUS
  <2>1. i + d \in DOMAIN q /\ p[i] = q[i + d] /\ j + d \in DOMAIN q /\ p[j] = q[j + d]
    BY <1>6
  <2> QED  BY <1>1, <1>2, <2>1
<1>8. \A i \in DOMAIN p : p[i] # 0 => last < p[i] /\ p[i] <= newest
  BY <1>3, <1>6
<1>9. newest = last \/ \E i \in DOMAIN p : p[i] # 0 /\ p[i] = newest
  <2> SUFFICES ASSUME newest # last
               PROVE  \E i \in DOMAIN p : p[i] # 0 /\ p[i] = newest
    OBVIOUS
  <2> PICK k \in DOMAIN q : q[k] # 0 /\ q[k] = newest
    BY DEF Waits
  <2>1. d = 1 => k # 1
    <3> SUFFICES ASSUME d = 1, k = 1 PROVE FALSE
      OBVIOUS
    <3>1. 2 \in DOMAIN q
      BY <1>1, LiveFeedNumbers
    <3> QED  BY <1>2, <1>3, <3>1
  <2>2. k - d \in 1 .. Len(q) - d
    BY <1>1, <2>1
  <2>3. k - d \in DOMAIN p /\ p[k - d] = q[k]
    BY <1>1, <1>4, <2>2
  <2> QED  BY <2>3
<1> QED  BY <1>7, <1>8, <1>9 DEF Waits, p, LF!PutSentinel

\* A reader that takes a message has it, and the newer ones wait.
LEMMA TakeKeepsNewest ==
  ASSUME NEW q \in Seq(Nat), q # <<>>, NEW last \in Nat, NEW newest \in Nat,
         Waits(q, last, newest), Head(q) # 0
  PROVE  Waits(Tail(q), Head(q), newest)
<1> DEFINE p == Tail(q)
<1>1. p \in Seq(Nat) /\ Len(p) = Len(q) - 1 /\ Len(q) >= 1 /\ Head(q) = q[1]
      /\ \A i \in 1 .. Len(q) - 1 : p[i] = q[i + 1]
  OBVIOUS
<1>2. \A i, j \in DOMAIN q : i < j /\ q[i] # 0 /\ q[j] # 0 => q[i] < q[j]
  BY DEF Waits
<1>3. \A i \in DOMAIN q : q[i] # 0 => last < q[i] /\ q[i] <= newest
  BY DEF Waits
<1> HIDE DEF p
<1>4. DOMAIN p = 1 .. Len(q) - 1 /\ DOMAIN q = 1 .. Len(q) /\ Len(q) \in Nat
  BY <1>1
<1>5. ASSUME NEW i \in DOMAIN p
      PROVE  i + 1 \in DOMAIN q /\ p[i] = q[i + 1] /\ i \in Nat /\ i >= 1
  BY <1>1, <1>4
<1>6. \A i, j \in DOMAIN p : i < j /\ p[i] # 0 /\ p[j] # 0 => p[i] < p[j]
  BY <1>2, <1>5
<1>7. \A i \in DOMAIN p : p[i] # 0 => Head(q) < p[i] /\ p[i] <= newest
  <2> SUFFICES ASSUME NEW i \in DOMAIN p, p[i] # 0
               PROVE  Head(q) < p[i] /\ p[i] <= newest
    OBVIOUS
  <2>1. 1 \in DOMAIN q /\ i + 1 \in DOMAIN q /\ p[i] = q[i + 1] /\ 1 < i + 1
    BY <1>1, <1>5, <1>4
  <2> QED  BY <1>1, <1>2, <1>3, <2>1
<1>8. newest = Head(q) \/ \E i \in DOMAIN p : p[i] # 0 /\ p[i] = newest
  <2>1. newest # last
    <3>1. 1 \in DOMAIN q /\ q[1] \in Nat
      BY <1>1, <1>4
    <3>2. last < q[1] /\ q[1] <= newest
      BY <1>1, <1>3, <3>1
    <3> QED  BY <3>1, <3>2
  <2> PICK k \in DOMAIN q : q[k] # 0 /\ q[k] = newest
    BY <2>1 DEF Waits
  <2>2. k # 1 => k - 1 \in DOMAIN p /\ p[k - 1] = q[k]
    <3> SUFFICES ASSUME k # 1 PROVE k - 1 \in DOMAIN p /\ p[k - 1] = q[k]
      OBVIOUS
    <3>1. k \in 2 .. Len(q) /\ k - 1 \in 1 .. Len(q) - 1
      BY <1>4
    <3> QED  BY <1>1, <1>4, <3>1
  <2> QED  BY <1>1, <1>4, <2>2
<1> QED  BY <1>6, <1>7, <1>8 DEF Waits, p

\* The first states have no readers.
LEMMA LiveFeedInit == Init => LiveFeedInv
<1> SUFFICES ASSUME Init PROVE LiveFeedInv
  OBVIOUS
<1> USE LiveFeedNumbers
<1>1. /\ queue = [r \in Readers |-> <<>>] /\ reader = [r \in Readers |-> "gone"]
      /\ shown = [r \in Readers |-> 0] /\ count = 0 /\ late = 0
  BY DEF Init, LF!Init
<1>2. stopped \in BOOLEAN
  BY DEF Init, LF!Init
<1>3. LF!TypeOK
  <2>1. <<>> \in Seq(0 .. LF!Most)
    OBVIOUS
  <2> QED  BY <1>1, <1>2, <2>1 DEF LF!TypeOK
<1>4. LF!CountsFit /\ LF!SentinelsEnd
  BY <1>1 DEF LF!CountsFit, LF!SentinelsEnd
<1>5. NewestIsKept
  BY <1>1, NewestByReader
<1> QED  BY <1>3, <1>4, <1>5 DEF LiveFeedInv

\* Every step keeps the queues.
LEMMA LiveFeedStep ==
  ASSUME LiveFeedInv, [LF!Next]_liveFeedVars
  PROVE  LiveFeedInv'
<1> USE LiveFeedNumbers
<1> DEFINE Queues == Seq(0 .. LF!Most)
<1>0. /\ queue \in [Readers -> Queues] /\ \A r \in Readers : Len(queue[r]) <= Cap
      /\ reader \in [Readers -> {"gone", "waits", "sends"}]
      /\ shown \in [Readers -> 0 .. LF!Most]
      /\ count \in 0 .. LF!Most /\ late \in 0 .. MaxLate /\ stopped \in BOOLEAN
  BY DEF LiveFeedInv, LF!TypeOK
<1>a. LF!CountsFit /\ LF!SentinelsEnd
  BY DEF LiveFeedInv
<1>b. \A r \in Readers : reader[r] # "gone" => Waits(queue[r], shown[r], count)
  BY NewestByReader DEF LiveFeedInv
<1>c. \A r \in Readers : queue[r] \in Seq(Nat) /\ shown[r] \in Nat /\ count \in Nat
  BY <1>0
<1>1. ASSUME NEW r \in Readers, LF!Subscribe(r)
      PROVE  LiveFeedInv'
  <2>1. /\ queue' = [queue EXCEPT ![r] = <<>>] /\ reader' = [reader EXCEPT ![r] = "sends"]
        /\ shown' = [shown EXCEPT ![r] = count]
        /\ count' = count /\ late' = late /\ stopped' = stopped
    BY <1>1 DEF LF!Subscribe
  <2>2. <<>> \in Queues /\ Len(<<>>) = 0 /\ \A i \in DOMAIN <<>> : FALSE
    OBVIOUS
  <2>3. LF!TypeOK'
    BY <1>0, <2>1, <2>2 DEF LF!TypeOK
  <2>4. LF!CountsFit' /\ LF!SentinelsEnd'
    BY <1>0, <1>a, <2>1, <2>2 DEF LF!CountsFit, LF!SentinelsEnd
  <2>5. Waits(<<>>, count, count)
    BY <2>2 DEF Waits
  <2>6. NewestIsKept'
    BY <1>0, <1>b, <2>1, <2>5, NewestByReader
  <2> QED  BY <2>3, <2>4, <2>6 DEF LiveFeedInv
<1>2. ASSUME NEW r \in Readers, LF!Take(r)
      PROVE  LiveFeedInv'
  <2>1. reader[r] = "waits" /\ queue[r] # <<>>
        /\ count' = count /\ late' = late /\ stopped' = stopped
    BY <1>2 DEF LF!Take
  <2>2. CASE Head(queue[r]) = 0
    <3>1. reader' = [reader EXCEPT ![r] = "gone"] /\ queue' = [queue EXCEPT ![r] = <<>>]
          /\ shown' = shown
      BY <1>2, <2>2 DEF LF!Take
    <3>2. <<>> \in Queues /\ Len(<<>>) = 0 /\ \A i \in DOMAIN <<>> : FALSE
      OBVIOUS
    <3>3. LF!TypeOK'
      BY <1>0, <2>1, <3>1, <3>2 DEF LF!TypeOK
    <3>4. LF!CountsFit' /\ LF!SentinelsEnd'
      BY <1>0, <1>a, <2>1, <3>1, <3>2 DEF LF!CountsFit, LF!SentinelsEnd
    <3>5. NewestIsKept'
      BY <1>0, <1>b, <2>1, <3>1, NewestByReader
    <3> QED  BY <3>3, <3>4, <3>5 DEF LiveFeedInv
  <2>3. CASE Head(queue[r]) # 0
    <3>1. /\ reader' = [reader EXCEPT ![r] = "sends"]
          /\ queue' = [queue EXCEPT ![r] = Tail(queue[r])]
          /\ shown' = [shown EXCEPT ![r] = Head(queue[r])]
      BY <1>2, <2>3 DEF LF!Take
    <3>2. /\ Tail(queue[r]) \in Queues /\ Len(Tail(queue[r])) <= Cap
          /\ Head(queue[r]) \in 0 .. LF!Most
          /\ \A i \in DOMAIN Tail(queue[r]) :
               i + 1 \in DOMAIN queue[r] /\ Tail(queue[r])[i] = queue[r][i + 1]
      BY <1>0, <2>1
    <3>3. LF!TypeOK'
      BY <1>0, <2>1, <3>1, <3>2 DEF LF!TypeOK
    <3>4. LF!CountsFit' /\ LF!SentinelsEnd'
      BY <1>0, <1>a, <2>1, <3>1, <3>2 DEF LF!CountsFit, LF!SentinelsEnd
    <3>5. Waits(Tail(queue[r]), Head(queue[r]), count)
      BY <1>b, <1>c, <2>1, <2>3, TakeKeepsNewest
    <3>6. NewestIsKept'
      BY <1>0, <1>b, <2>1, <3>1, <3>5, NewestByReader
    <3> QED  BY <3>3, <3>4, <3>6 DEF LiveFeedInv
  <2> QED  BY <2>2, <2>3
<1>3. ASSUME NEW r \in Readers, LF!Sent(r)
      PROVE  LiveFeedInv'
  <2>1. /\ reader[r] = "sends" /\ reader' = [reader EXCEPT ![r] = "waits"]
        /\ queue' = queue /\ shown' = shown
        /\ count' = count /\ late' = late /\ stopped' = stopped
    BY <1>3 DEF LF!Sent
  <2>2. LF!TypeOK' /\ LF!CountsFit' /\ LF!SentinelsEnd'
    BY <1>0, <1>a, <2>1 DEF LF!TypeOK, LF!CountsFit, LF!SentinelsEnd
  <2>3. NewestIsKept'
    BY <1>0, <1>b, <2>1, NewestByReader
  <2> QED  BY <2>2, <2>3 DEF LiveFeedInv
<1>4. ASSUME NEW r \in Readers, LF!SendFails(r)
      PROVE  LiveFeedInv'
  <2>1. /\ reader' = [reader EXCEPT ![r] = "gone"] /\ queue' = [queue EXCEPT ![r] = <<>>]
        /\ shown' = shown /\ count' = count /\ late' = late /\ stopped' = stopped
    BY <1>4 DEF LF!SendFails
  <2>2. <<>> \in Queues /\ Len(<<>>) = 0 /\ \A i \in DOMAIN <<>> : FALSE
    OBVIOUS
  <2>3. LF!TypeOK'
    BY <1>0, <2>1, <2>2 DEF LF!TypeOK
  <2>4. LF!CountsFit' /\ LF!SentinelsEnd'
    BY <1>0, <1>a, <2>1, <2>2 DEF LF!CountsFit, LF!SentinelsEnd
  <2>5. NewestIsKept'
    BY <1>0, <1>b, <2>1, NewestByReader
  <2> QED  BY <2>3, <2>4, <2>5 DEF LiveFeedInv
<1>5. ASSUME LF!Broadcast
      PROVE  LiveFeedInv'
  <2>1. /\ IF stopped THEN late < MaxLate ELSE count < MaxMessages
        /\ count' = count + 1 /\ late' = (IF stopped THEN late + 1 ELSE late)
        /\ reader' = reader /\ shown' = shown /\ stopped' = stopped
        /\ queue' = [r \in Readers |-> IF reader[r] # "gone" THEN LF!Put(queue[r], count + 1)
                                       ELSE queue[r]]
    BY <1>5 DEF LF!Broadcast, LF!Subscribed
  <2>2. LF!CountsFit' /\ count' \in 0 .. LF!Most /\ late' \in 0 .. MaxLate
    BY <1>0, <1>a, <2>1 DEF LF!CountsFit
  <2>3. \A r \in Readers : /\ LF!Put(queue[r], count + 1) \in Queues
                           /\ Len(LF!Put(queue[r], count + 1)) <= Cap
    BY <1>0, <2>1, <2>2, PutFacts
  <2>4. LF!TypeOK'
    BY <1>0, <2>1, <2>2, <2>3 DEF LF!TypeOK
  <2>5. LF!SentinelsEnd'
    <3> SUFFICES ASSUME ~stopped, NEW r \in Readers, NEW i \in DOMAIN queue'[r]
                 PROVE  queue'[r][i] # 0
      BY <2>1 DEF LF!SentinelsEnd
    <3>1. \A k \in DOMAIN queue[r] : queue[r][k] # 0
      BY <1>a DEF LF!SentinelsEnd
    <3>2. CASE reader[r] = "gone"
      BY <2>1, <3>1, <3>2
    <3>3. CASE reader[r] # "gone"
      <4> DEFINE q == queue[r]
                 p == LF!Put(q, count + 1)
                 d == Dropped(q)
      <4>1. queue'[r] = p /\ q \in Seq(Nat) /\ Len(q) <= Cap /\ count + 1 \in Nat
        BY <1>0, <1>c, <2>1, <3>3
      <4> HIDE DEF q
      <4>2. /\ p \in Seq(Nat) /\ Len(p) = Len(q) + 1 - d
            /\ p[Len(q) + 1 - d] = count + 1
            /\ \A k \in 1 .. Len(q) - d : p[k] = q[k + d]
            /\ d \in {0, 1} /\ Len(q) \in Nat
        BY <4>1, PutFacts
      <4> HIDE DEF q, p, d
      <4>3. i \in 1 .. Len(q) + 1 - d
        BY <4>1, <4>2
      <4>4. CASE i = Len(q) + 1 - d
        BY <1>0, <4>1, <4>2, <4>4
      <4>5. CASE i # Len(q) + 1 - d
        <5>1. i \in 1 .. Len(q) - d /\ i + d \in DOMAIN q
          BY <4>1, <4>2, <4>3, <4>5
        <5>2. p[i] = q[i + d] /\ q[i + d] # 0
          BY <3>1, <4>2, <5>1 DEF q
        <5> QED  BY <4>1, <5>2
      <4> QED  BY <4>4, <4>5
    <3> QED  BY <3>2, <3>3
  <2>6. NewestIsKept'
    <3>1. \A r \in Readers : reader[r] # "gone" =>
            Waits(LF!Put(queue[r], count + 1), shown[r], count + 1)
      BY <1>0, <1>b, <1>c, PutKeepsNewest
    <3> QED  BY <2>1, <3>1, NewestByReader
  <2> QED  BY <2>2, <2>4, <2>5, <2>6 DEF LiveFeedInv
<1>6. ASSUME LF!Stop
      PROVE  LiveFeedInv'
  <2>1. /\ ~stopped /\ stopped' /\ stopped' \in BOOLEAN
        /\ reader' = reader /\ shown' = shown /\ count' = count /\ late' = late
        /\ queue' = [r \in Readers |-> IF reader[r] # "gone" THEN LF!PutSentinel(queue[r])
                                       ELSE queue[r]]
    BY <1>6 DEF LF!Stop, LF!Subscribed
  <2>2. \A r \in Readers : LF!PutSentinel(queue[r]) \in Queues
                           /\ Len(LF!PutSentinel(queue[r])) <= Cap
    BY <1>0, PutFacts DEF LF!PutSentinel
  <2>3. LF!TypeOK'
    BY <1>0, <2>1, <2>2 DEF LF!TypeOK
  <2>4. LF!CountsFit' /\ LF!SentinelsEnd'
    BY <1>a, <2>1 DEF LF!CountsFit, LF!SentinelsEnd
  <2>5. NewestIsKept'
    <3>1. \A r \in Readers : reader[r] # "gone" =>
            Waits(LF!PutSentinel(queue[r]), shown[r], count)
      BY <1>0, <1>a, <1>b, <1>c, <2>1, SentinelKeepsNewest DEF LF!SentinelsEnd
    <3> QED  BY <2>1, <3>1, NewestByReader
  <2> QED  BY <2>3, <2>4, <2>5 DEF LiveFeedInv
<1>7. ASSUME UNCHANGED liveFeedVars
      PROVE  LiveFeedInv'
  <2>1. queue' = queue /\ reader' = reader /\ shown' = shown /\ count' = count
        /\ late' = late /\ stopped' = stopped
    BY <1>7 DEF liveFeedVars
  <2>2. LF!TypeOK' /\ LF!CountsFit' /\ LF!SentinelsEnd'
    BY <1>0, <1>a, <2>1 DEF LF!TypeOK, LF!CountsFit, LF!SentinelsEnd
  <2>3. NewestIsKept'
    BY <1>b, <2>1, NewestByReader
  <2> QED  BY <2>2, <2>3 DEF LiveFeedInv
<1> QED
  BY <1>1, <1>2, <1>3, <1>4, <1>5, <1>6, <1>7 DEF LF!Next

-----------------------------------------------------------------------------
(* ApnsPush: no device is lost that can be reached.                        *)

ApnsPushInv == AP!TypeOK /\ AP!DeadAreGone /\ AP!FileIsCurrent /\ ReachableIsKept

\* The registry has room.
LEMMA ApnsPushNumbers == MaxTokens \in Nat /\ MaxTokens >= 1
BY PartsConstants DEF AP!ApnsPushConstants

\* A sequence of tokens, each once
Lists(most) == {s \in Seq(Tokens) : Len(s) <= most /\ AP!IsInjective(s)}

\* What is removed by its place: all others stay, in their order.
LEMMA RemoveAtFacts ==
  ASSUME NEW s \in Seq(Tokens), AP!IsInjective(s), NEW i \in DOMAIN s
  PROVE  /\ AP!RemoveAt(s, i) \in Seq(Tokens)
         /\ Len(AP!RemoveAt(s, i)) = Len(s) - 1
         /\ AP!IsInjective(AP!RemoveAt(s, i))
         /\ AP!ToSet(AP!RemoveAt(s, i)) = AP!ToSet(s) \ {s[i]}
<1> DEFINE p == AP!RemoveAt(s, i)
<1>1. /\ DOMAIN s = 1 .. Len(s) /\ Len(s) \in Nat /\ i \in 1 .. Len(s)
      /\ \A k \in DOMAIN s : s[k] \in Tokens
  OBVIOUS
<1>2. /\ SubSeq(s, 1, i - 1) \in Seq(Tokens) /\ Len(SubSeq(s, 1, i - 1)) = i - 1
      /\ \A k \in 1 .. i - 1 : SubSeq(s, 1, i - 1)[k] = s[k]
  BY <1>1
<1>3. /\ SubSeq(s, i + 1, Len(s)) \in Seq(Tokens)
      /\ Len(SubSeq(s, i + 1, Len(s))) = Len(s) - i
      /\ \A k \in 1 .. Len(s) - i : SubSeq(s, i + 1, Len(s))[k] = s[k + i]
  BY <1>1
<1>4. p = SubSeq(s, 1, i - 1) \o SubSeq(s, i + 1, Len(s))
  BY DEF AP!RemoveAt
<1>5. p \in Seq(Tokens) /\ Len(p) = Len(s) - 1 /\ DOMAIN p = 1 .. Len(s) - 1
  BY <1>1, <1>2, <1>3, <1>4
<1>6. \A k \in 1 .. i - 1 : p[k] = s[k]
  BY <1>1, <1>2, <1>3, <1>4
<1>7. \A k \in i .. Len(s) - 1 : p[k] = s[k + 1]
  BY <1>1, <1>2, <1>3, <1>4
<1> HIDE DEF p
<1>8. \A j, k \in DOMAIN s : s[j] = s[k] => j = k
  BY DEF AP!IsInjective
<1>9. AP!IsInjective(p)
  <2> SUFFICES ASSUME NEW j \in DOMAIN p, NEW k \in DOMAIN p, p[j] = p[k]
               PROVE  j = k
    BY DEF AP!IsInjective
  <2>1. ASSUME NEW n \in DOMAIN p
        PROVE  \/ n \in 1 .. i - 1 /\ n \in DOMAIN s /\ p[n] = s[n]
               \/ n \in i .. Len(s) - 1 /\ n + 1 \in DOMAIN s /\ p[n] = s[n + 1]
    <3>1. n \in 1 .. i - 1 \/ n \in i .. Len(s) - 1
      BY <1>1, <1>5
    <3>2. n \in DOMAIN s /\ n + 1 \in DOMAIN s
      BY <1>1, <1>5
    <3> QED  BY <1>6, <1>7, <3>1, <3>2
  <2>2. PICK a \in {j, j + 1} : a \in DOMAIN s /\ p[j] = s[a]
                               /\ (a = j <=> j < i)
    BY <1>1, <1>5, <2>1
  <2>3. PICK b \in {k, k + 1} : b \in DOMAIN s /\ p[k] = s[b]
                               /\ (b = k <=> k < i)
    BY <1>1, <1>5, <2>1
  <2>4. a = b
    BY <1>8, <2>2, <2>3
  <2> QED  BY <1>1, <1>5, <2>2, <2>3, <2>4
<1>10. AP!ToSet(p) = AP!ToSet(s) \ {s[i]}
  <2>1. ASSUME NEW k \in DOMAIN p
        PROVE  p[k] \in AP!ToSet(s) \ {s[i]}
    <3>1. CASE k \in 1 .. i - 1
      BY <1>1, <1>6, <1>8, <3>1 DEF AP!ToSet
    <3>2. CASE k \in i .. Len(s) - 1
      BY <1>1, <1>7, <1>8, <3>2 DEF AP!ToSet
    <3> QED  BY <1>1, <1>5, <3>1, <3>2
  <2>2. ASSUME NEW k \in DOMAIN s, k # i
        PROVE  s[k] \in AP!ToSet(p)
    <3>1. CASE k < i
      <4>1. k \in 1 .. i - 1 /\ k \in DOMAIN p
        BY <1>1, <1>5, <3>1
      <4> QED  BY <1>6, <4>1 DEF AP!ToSet
    <3>2. CASE k > i
      <4>1. k - 1 \in i .. Len(s) - 1 /\ k - 1 \in DOMAIN p /\ k = k - 1 + 1
        BY <1>1, <1>5, <3>2
      <4> QED  BY <1>7, <4>1 DEF AP!ToSet
    <3> QED  BY <1>1, <2>2, <3>1, <3>2
  <2> QED  BY <2>1, <2>2 DEF AP!ToSet
<1> QED  BY <1>5, <1>9, <1>10 DEF p

\* Without a token the registry has the others.
LEMMA WithoutFacts ==
  ASSUME AP!TypeOK, NEW t \in Tokens
  PROVE  /\ AP!Without(t) \in Lists(MaxTokens)
         /\ AP!ToSet(AP!Without(t)) = AP!ToSet(registry) \ {t}
<1>1. registry \in Seq(Tokens) /\ Len(registry) <= MaxTokens /\ AP!IsInjective(registry)
  BY DEF AP!TypeOK
<1>2. CASE t \notin AP!ToSet(registry)
  BY <1>1, <1>2 DEF AP!Without, Lists
<1>3. CASE t \in AP!ToSet(registry)
  <2> DEFINE i == CHOOSE i \in DOMAIN registry : registry[i] = t
  <2>1. i \in DOMAIN registry /\ registry[i] = t
    BY <1>3 DEF AP!ToSet
  <2>2. AP!Without(t) = AP!RemoveAt(registry, i)
    BY <1>3 DEF AP!Without
  <2> HIDE DEF i
  <2>3. /\ AP!RemoveAt(registry, i) \in Seq(Tokens)
        /\ Len(AP!RemoveAt(registry, i)) = Len(registry) - 1
        /\ AP!IsInjective(AP!RemoveAt(registry, i))
        /\ AP!ToSet(AP!RemoveAt(registry, i)) = AP!ToSet(registry) \ {registry[i]}
    BY <1>1, <2>1, RemoveAtFacts
  <2>4. Len(registry) - 1 <= MaxTokens
    BY <1>1, ApnsPushNumbers
  <2> QED  BY <2>1, <2>2, <2>3, <2>4 DEF Lists
<1> QED  BY <1>2, <1>3

\* A token that registers is in the registry, at the cost of the oldest at most.
LEMMA RegisteredFacts ==
  ASSUME AP!TypeOK, NEW t \in Tokens
  PROVE  AP!Registered(t) \in Lists(MaxTokens) /\ t \in AP!ToSet(AP!Registered(t))
<1> USE ApnsPushNumbers
<1> DEFINE w   == AP!Without(t)
           all == Append(w, t)
<1>1. w \in Seq(Tokens) /\ Len(w) <= MaxTokens /\ AP!IsInjective(w) /\ t \notin AP!ToSet(w)
  BY WithoutFacts DEF Lists
<1>2. AP!Registered(t) = IF Len(all) > MaxTokens THEN Tail(all) ELSE all
  BY DEF AP!Registered
<1> HIDE DEF w
<1>3. all \in Seq(Tokens) /\ Len(all) = Len(w) + 1 /\ all[Len(w) + 1] = t
      /\ (\A k \in 1 .. Len(w) : all[k] = w[k]) /\ Len(w) \in Nat
      /\ DOMAIN w = 1 .. Len(w) /\ DOMAIN all = 1 .. Len(w) + 1
  BY <1>1
<1> HIDE DEF all
<1>4. \A k \in 1 .. Len(w) : w[k] # t
  BY <1>1, <1>3 DEF AP!ToSet
<1>5. \A j, k \in 1 .. Len(w) : w[j] = w[k] => j = k
  BY <1>1, <1>3 DEF AP!IsInjective
<1>6. \A j, k \in DOMAIN all : all[j] = all[k] => j = k
  <2> SUFFICES ASSUME NEW j \in DOMAIN all, NEW k \in DOMAIN all, all[j] = all[k]
               PROVE  j = k
    OBVIOUS
  <2>1. CASE j \in 1 .. Len(w) /\ k \in 1 .. Len(w)
    BY <1>3, <1>5, <2>1
  <2>2. CASE j \in 1 .. Len(w) /\ k = Len(w) + 1
    BY <1>3, <1>4, <2>2
  <2>3. CASE j = Len(w) + 1 /\ k \in 1 .. Len(w)
    BY <1>3, <1>4, <2>3
  <2> QED  BY <1>3, <2>1, <2>2, <2>3
<1>7. CASE Len(all) <= MaxTokens
  <2>1. AP!Registered(t) = all
    BY <1>2, <1>3, <1>7
  <2>2. Len(w) + 1 \in DOMAIN all
    BY <1>3
  <2> QED  BY <1>3, <1>6, <1>7, <2>1, <2>2 DEF Lists, AP!ToSet, AP!IsInjective
<1>8. CASE Len(all) > MaxTokens
  <2> DEFINE p == Tail(all)
  <2>1. AP!Registered(t) = p
    BY <1>2, <1>8
  <2>2. p \in Seq(Tokens) /\ Len(p) = Len(w) /\ DOMAIN p = 1 .. Len(w)
        /\ \A k \in 1 .. Len(w) : p[k] = all[k + 1]
    BY <1>3
  <2> HIDE DEF p
  <2>3. Len(w) = MaxTokens /\ Len(w) \in DOMAIN p /\ p[Len(w)] = t
    <3>1. Len(w) = MaxTokens
      BY <1>1, <1>3, <1>8
    <3>2. Len(w) \in 1 .. Len(w)
      BY <3>1
    <3> QED  BY <1>3, <2>2, <3>1, <3>2
  <2>4. AP!IsInjective(p)
    <3> SUFFICES ASSUME NEW j \in DOMAIN p, NEW k \in DOMAIN p, p[j] = p[k]
                 PROVE  j = k
      BY DEF AP!IsInjective
    <3>1. j + 1 \in DOMAIN all /\ k + 1 \in DOMAIN all /\ all[j + 1] = all[k + 1]
      BY <1>3, <2>2
    <3>2. j + 1 = k + 1
      BY <1>6, <3>1
    <3> QED  BY <1>3, <2>2, <3>2
  <2> QED  BY <2>1, <2>2, <2>3, <2>4 DEF Lists, AP!ToSet
<1> QED  BY <1>3, <1>7, <1>8

\* A push that runs, and what the file may hold
Batch    == [runs : BOOLEAN, left : Seq(Tokens), dead : SUBSET Tokens]
PushFile == [tokens : Lists(MaxTokens), on : BOOLEAN]

\* The type invariant in these words.
LEMMA ApnsPushTypes ==
  AP!TypeOK <=> /\ registry \in Lists(MaxTokens) /\ sender \in BOOLEAN
                /\ pushFile \in PushFile /\ unsaved \in BOOLEAN
                /\ installed \subseteq Tokens /\ batch \in [Batches -> Batch]
                /\ prunes \subseteq Tokens /\ wanted \subseteq Tokens
                /\ returned \subseteq Tokens
<1>1. pushFile \in PushFile
      <=> /\ pushFile \in [tokens : Seq(Tokens), on : BOOLEAN]
          /\ Len(pushFile.tokens) <= MaxTokens /\ AP!IsInjective(pushFile.tokens)
  BY DEF PushFile, Lists
<1> QED  BY <1>1 DEF AP!TypeOK, Lists, Batch

\* An empty registry has room.
LEMMA NothingIsAList == <<>> \in Lists(MaxTokens)
BY ApnsPushNumbers DEF Lists, AP!IsInjective

\* The first states have no registered device.
LEMMA ApnsPushInit == Init => ApnsPushInv
<1> SUFFICES ASSUME Init PROVE ApnsPushInv
  OBVIOUS
<1>1. /\ registry = <<>> /\ installed = {} /\ prunes = {} /\ wanted = {} /\ returned = {}
      /\ sender = FALSE /\ unsaved = FALSE /\ pushFile = AP!NoFile
      /\ batch = [b \in Batches |-> AP!NoBatch]
  BY DEF Init, AP!Init
<1>2. AP!NoBatch \in Batch /\ AP!NoBatch.dead = {}
  BY DEF AP!NoBatch, Batch
<1>3. AP!NoFile \in PushFile /\ AP!NoFile = [tokens |-> registry, on |-> sender]
  BY <1>1, NothingIsAList DEF AP!NoFile, PushFile
<1>4. AP!TypeOK
  BY <1>1, <1>2, <1>3, NothingIsAList, ApnsPushTypes
<1>5. AP!DeadAreGone /\ AP!FileIsCurrent /\ ReachableIsKept
  BY <1>1, <1>2, <1>3
     DEF AP!DeadAreGone, AP!FileIsCurrent, ReachableIsKept, AP!ReachableIsKept
<1> QED  BY <1>4, <1>5 DEF ApnsPushInv

\* Every step keeps the devices that can be reached.
LEMMA ApnsPushStep ==
  ASSUME ApnsPushInv, [AP!Next]_apnsPushVars
  PROVE  ApnsPushInv'
<1>0. /\ registry \in Lists(MaxTokens) /\ sender \in BOOLEAN /\ pushFile \in PushFile
      /\ unsaved \in BOOLEAN /\ installed \subseteq Tokens
      /\ batch \in [Batches -> Batch] /\ prunes \subseteq Tokens
      /\ wanted \subseteq Tokens /\ returned \subseteq Tokens
  BY ApnsPushTypes DEF ApnsPushInv
<1>a. /\ prunes \cap installed \subseteq returned
      /\ \A b \in Batches : batch[b].dead \cap installed \subseteq returned
      /\ unsaved \/ pushFile = [tokens |-> registry, on |-> sender]
      /\ (wanted \cap installed) \ returned \subseteq AP!ToSet(registry)
  BY DEF ApnsPushInv, AP!DeadAreGone, AP!FileIsCurrent, ReachableIsKept, AP!ReachableIsKept
<1>b. AP!TypeOK
  BY DEF ApnsPushInv
<1>c. AP!NoBatch \in Batch /\ AP!NoBatch.dead = {}
  BY DEF AP!NoBatch, Batch
<1>d. ASSUME registry' \in Lists(MaxTokens), sender' \in BOOLEAN, pushFile' \in PushFile,
             unsaved' \in BOOLEAN, installed' \subseteq Tokens,
             batch' \in [Batches -> Batch], prunes' \subseteq Tokens,
             wanted' \subseteq Tokens, returned' \subseteq Tokens,
             prunes' \cap installed' \subseteq returned',
             \A b \in Batches : batch'[b].dead \cap installed' \subseteq returned',
             unsaved' \/ pushFile' = [tokens |-> registry', on |-> sender'],
             (wanted' \cap installed') \ returned' \subseteq AP!ToSet(registry')
      PROVE  ApnsPushInv'
  <2>1. /\ pushFile' \in [tokens : Seq(Tokens), on : BOOLEAN]
        /\ Len(pushFile'.tokens) <= MaxTokens /\ AP!IsInjective(pushFile'.tokens)
    BY <1>d DEF PushFile, Lists
  <2>2. AP!TypeOK'
    BY <1>d, <2>1 DEF AP!TypeOK, Lists, Batch
  <2> QED
    BY <1>d, <2>2
       DEF ApnsPushInv, AP!DeadAreGone, AP!FileIsCurrent, ReachableIsKept, AP!ReachableIsKept
<1>e. ASSUME registry' \in Lists(MaxTokens), sender' \in BOOLEAN, AP!Save(registry', sender')
      PROVE  /\ pushFile' \in PushFile /\ unsaved' \in BOOLEAN
             /\ unsaved' \/ pushFile' = [tokens |-> registry', on |-> sender']
  <2>1. AP!NoFile \in PushFile
    BY NothingIsAList DEF AP!NoFile, PushFile
  <2>2. [tokens |-> registry', on |-> sender'] \in PushFile
    BY <1>e DEF PushFile
  <2> QED  BY <1>0, <1>e, <2>1, <2>2 DEF AP!Save
<1>1. ASSUME NEW t \in Tokens, AP!Register(t)
      PROVE  ApnsPushInv'
  <2>1. /\ registry' = AP!Registered(t) /\ AP!Save(registry', sender') /\ sender' = sender
        /\ installed' = installed \cup {t} /\ batch' = batch /\ prunes' = prunes
        /\ wanted' = (wanted \cup {t}) \ (AP!ToSet(registry) \ AP!ToSet(AP!Registered(t)))
        /\ returned' = IF AP!Condemned(t) THEN returned \cup {t} ELSE returned \ {t}
    BY <1>1 DEF AP!Register, AP!Save
  <2>2. registry' \in Lists(MaxTokens) /\ t \in AP!ToSet(registry')
    BY <1>b, <2>1, RegisteredFacts
  <2>3. /\ pushFile' \in PushFile /\ unsaved' \in BOOLEAN
        /\ unsaved' \/ pushFile' = [tokens |-> registry', on |-> sender']
    BY <1>0, <1>e, <2>1, <2>2
  <2>4. (wanted' \cap installed') \ returned' \subseteq AP!ToSet(registry')
    BY <1>a, <2>1, <2>2
  <2>5. /\ prunes' \cap installed' \subseteq returned'
        /\ \A b \in Batches : batch'[b].dead \cap installed' \subseteq returned'
    BY <1>a, <2>1 DEF AP!Condemned
  <2> QED  BY <1>0, <1>d, <2>1, <2>2, <2>3, <2>4, <2>5
<1>2. ASSUME NEW t \in Tokens, AP!RemoveToken(t)
      PROVE  ApnsPushInv'
  <2>1. /\ registry' = AP!Without(t) /\ AP!Save(registry', sender') /\ sender' = sender
        /\ wanted' = wanted \ {t} /\ installed' = installed /\ batch' = batch
        /\ prunes' = prunes /\ returned' = returned
    BY <1>2 DEF AP!RemoveToken, AP!Save
  <2>2. registry' \in Lists(MaxTokens) /\ AP!ToSet(registry') = AP!ToSet(registry) \ {t}
    BY <1>b, <2>1, WithoutFacts
  <2>3. /\ pushFile' \in PushFile /\ unsaved' \in BOOLEAN
        /\ unsaved' \/ pushFile' = [tokens |-> registry', on |-> sender']
    BY <1>0, <1>e, <2>1, <2>2
  <2> QED  BY <1>0, <1>a, <1>d, <2>1, <2>2, <2>3
<1>3. ASSUME NEW t \in Tokens, AP!Prune(t)
      PROVE  ApnsPushInv'
  <2>1. /\ t \in prunes /\ prunes' = prunes \ {t} /\ registry' = AP!Without(t)
        /\ AP!Save(registry', sender') /\ sender' = sender /\ installed' = installed
        /\ batch' = batch /\ wanted' = wanted /\ returned' = returned
    BY <1>3 DEF AP!Prune, AP!Save
  <2>2. registry' \in Lists(MaxTokens) /\ AP!ToSet(registry') = AP!ToSet(registry) \ {t}
    BY <1>b, <2>1, WithoutFacts
  <2>3. /\ pushFile' \in PushFile /\ unsaved' \in BOOLEAN
        /\ unsaved' \/ pushFile' = [tokens |-> registry', on |-> sender']
    BY <1>0, <1>e, <2>1, <2>2
  <2>4. t \notin installed \/ t \in returned
    BY <1>a, <2>1
  <2> QED  BY <1>0, <1>a, <1>d, <2>1, <2>2, <2>3, <2>4
<1>4. ASSUME NEW t \in Tokens, AP!Uninstall(t)
      PROVE  ApnsPushInv'
  <2>1. /\ installed' = installed \ {t} /\ UNCHANGED AP!registryVars
        /\ batch' = batch /\ prunes' = prunes /\ wanted' = wanted /\ returned' = returned
    BY <1>4 DEF AP!Uninstall
  <2> QED  BY <1>0, <1>a, <1>d, <2>1 DEF AP!registryVars
<1>5. ASSUME NEW b \in Batches, AP!Push(b)
      PROVE  ApnsPushInv'
  <2> DEFINE job == [runs |-> TRUE, left |-> registry, dead |-> {}]
  <2>1. /\ batch' = [batch EXCEPT ![b] = job] /\ UNCHANGED AP!registryVars
        /\ installed' = installed /\ prunes' = prunes /\ wanted' = wanted
        /\ returned' = returned
    BY <1>5 DEF AP!Push
  <2>2. job \in Batch /\ job.dead = {}
    BY <1>0 DEF Lists, Batch
  <2> HIDE DEF job
  <2> QED  BY <1>0, <1>a, <1>d, <2>1, <2>2 DEF AP!registryVars
<1>6. ASSUME NEW b \in Batches, NEW answered \in BOOLEAN, AP!Send(b, answered)
      PROVE  ApnsPushInv'
  <2> DEFINE t   == Head(batch[b].left)
             all == IF AP!Unregistered(t, answered) THEN batch[b].dead \cup {t}
                    ELSE batch[b].dead
             job == [batch[b] EXCEPT !.left = Tail(@), !.dead = all]
  <2>1. /\ batch[b].left # <<>> /\ batch' = [batch EXCEPT ![b] = job]
        /\ UNCHANGED AP!registryVars /\ installed' = installed /\ prunes' = prunes
        /\ wanted' = wanted /\ returned' = returned
    BY <1>6 DEF AP!Send
  <2>2. batch[b] \in Batch
    BY <1>0
  <2>3. t \in Tokens /\ Tail(batch[b].left) \in Seq(Tokens)
    BY <2>1, <2>2 DEF Batch
  <2>4. all \in SUBSET Tokens /\ all \cap installed \subseteq returned
    BY <1>a, <2>2, <2>3 DEF AP!Unregistered, Batch
  <2> HIDE DEF all
  <2>5. job \in Batch /\ job.dead = all
    BY <2>2, <2>3, <2>4 DEF Batch
  <2> HIDE DEF job
  <2> QED  BY <1>0, <1>a, <1>d, <2>1, <2>4, <2>5 DEF AP!registryVars
<1>7. ASSUME NEW b \in Batches, AP!SigningFails(b)
      PROVE  ApnsPushInv'
  <2>1. /\ batch' = [batch EXCEPT ![b] = AP!NoBatch] /\ UNCHANGED AP!registryVars
        /\ installed' = installed /\ prunes' = prunes /\ wanted' = wanted
        /\ returned' = returned
    BY <1>7 DEF AP!SigningFails
  <2> QED  BY <1>0, <1>a, <1>c, <1>d, <2>1 DEF AP!registryVars
<1>8. ASSUME NEW b \in Batches, AP!BatchEnds(b)
      PROVE  ApnsPushInv'
  <2>1. /\ batch' = [batch EXCEPT ![b] = AP!NoBatch] /\ prunes' = prunes \cup batch[b].dead
        /\ UNCHANGED AP!registryVars /\ installed' = installed /\ wanted' = wanted
        /\ returned' = returned
    BY <1>8 DEF AP!BatchEnds
  <2>2. batch[b] \in Batch /\ batch[b].dead \cap installed \subseteq returned
    BY <1>0, <1>a
  <2>3. prunes' \subseteq Tokens /\ prunes' \cap installed \subseteq returned
    BY <1>0, <1>a, <2>1, <2>2 DEF Batch
  <2> QED  BY <1>0, <1>a, <1>c, <1>d, <2>1, <2>3 DEF AP!registryVars
<1>9. ASSUME AP!Configure
      PROVE  ApnsPushInv'
  <2>1. /\ sender' = ~sender /\ registry' = registry /\ AP!Save(registry', sender')
        /\ installed' = installed /\ batch' = batch /\ prunes' = prunes
        /\ wanted' = wanted /\ returned' = returned
    BY <1>9 DEF AP!Configure, AP!Save
  <2>2. /\ pushFile' \in PushFile /\ unsaved' \in BOOLEAN
        /\ unsaved' \/ pushFile' = [tokens |-> registry', on |-> sender']
    BY <1>0, <1>e, <2>1
  <2> QED  BY <1>0, <1>a, <1>d, <2>1, <2>2
<1>10. ASSUME AP!Restart
       PROVE  ApnsPushInv'
  <2> PICK reads \in BOOLEAN :
         LET loaded == IF reads THEN pushFile ELSE AP!NoFile
         IN  /\ registry' = loaded.tokens
             /\ sender' = loaded.on
             /\ wanted' = IF reads /\ ~unsaved THEN wanted
                          ELSE wanted \cap AP!ToSet(loaded.tokens)
             /\ unsaved' = ~reads
    BY <1>10 DEF AP!Restart
  <2>1. /\ batch' = [b \in Batches |-> AP!NoBatch] /\ prunes' = {}
        /\ pushFile' = pushFile /\ installed' = installed /\ returned' = returned
    BY <1>10 DEF AP!Restart
  <2>2. AP!NoFile \in PushFile
    BY NothingIsAList DEF AP!NoFile, PushFile
  <2>3. /\ registry' \in Lists(MaxTokens) /\ sender' \in BOOLEAN /\ unsaved' \in BOOLEAN
        /\ wanted' \subseteq wanted
    BY <1>0, <2>2 DEF PushFile
  <2>4. unsaved' \/ pushFile' = [tokens |-> registry', on |-> sender']
    BY <1>0, <2>1 DEF PushFile
  <2>5. (wanted' \cap installed') \ returned' \subseteq AP!ToSet(registry')
    <3>1. CASE reads /\ ~unsaved
      <4>1. registry' = registry /\ wanted' = wanted
        BY <1>a, <3>1
      <4> QED  BY <1>a, <2>1, <4>1
    <3>2. CASE ~(reads /\ ~unsaved)
      BY <3>2
    <3> QED  BY <3>1, <3>2
  <2> QED  BY <1>0, <1>c, <1>d, <2>1, <2>3, <2>4, <2>5
<1>11. ASSUME UNCHANGED apnsPushVars
       PROVE  ApnsPushInv'
  BY <1>0, <1>a, <1>d, <1>11 DEF apnsPushVars
<1> QED
  BY <1>1, <1>2, <1>3, <1>4, <1>5, <1>6, <1>7, <1>8, <1>9, <1>10, <1>11 DEF AP!Next

-----------------------------------------------------------------------------
(* MqttBridge: the types.                                                  *)

\* What the bridge and a thread of it are
BridgeStates == [made : BOOLEAN, loop : BOOLEAN, connected : BOOLEAN, unit : Units]
Jobs         == [unit : Units, next : 0 .. Entities]

\* The entities are counted from one.
LEMMA MqttBridgeNumbers == Entities \in Nat /\ Entities >= 1
BY PartsConstants DEF MQ!MqttBridgeConstants

\* The first states have the types.
LEMMA MqttBridgeInit == Init => MQ!TypeOK
<1> SUFFICES ASSUME Init PROVE MQ!TypeOK
  OBVIOUS
<1> USE MqttBridgeNumbers
<1>1. broker \in BOOLEAN /\ session = "none" /\ retained = [e \in 1 .. Entities |-> "none"]
  BY DEF Init, MQ!Init
<1>2. raced \in BOOLEAN
  BY DEF Init, MQ!Init
<1> PICK u \in Units : /\ bridge = MQ!NoBridge(u)
                       /\ announcing = [t \in MQ!Threads |-> MQ!IdleThread(u)]
  BY DEF Init, MQ!Init
<1>3. MQ!NoBridge(u) \in BridgeStates /\ MQ!IdleThread(u) \in Jobs
  BY DEF MQ!NoBridge, MQ!IdleThread, BridgeStates, Jobs
<1> QED  BY <1>1, <1>2, <1>3 DEF MQ!TypeOK, BridgeStates, Jobs

\* Every step keeps the types.
LEMMA MqttBridgeStep ==
  ASSUME MQ!TypeOK, [MQ!Next]_mqttBridgeVars
  PROVE  MQ!TypeOK'
<1> USE MqttBridgeNumbers
<1>0. /\ broker \in BOOLEAN /\ session \in {"none", "asked", "open"} /\ bridge \in BridgeStates
      /\ announcing \in [MQ!Threads -> Jobs] /\ raced \in BOOLEAN
      /\ retained \in [1 .. Entities -> Units \cup {"none"}]
  BY DEF MQ!TypeOK, BridgeStates, Jobs
<1>a. ASSUME broker' \in BOOLEAN, session' \in {"none", "asked", "open"},
             bridge' \in BridgeStates, announcing' \in [MQ!Threads -> Jobs],
             raced' \in BOOLEAN, retained' \in [1 .. Entities -> Units \cup {"none"}]
      PROVE  MQ!TypeOK'
  BY <1>a DEF MQ!TypeOK, BridgeStates, Jobs
<1>1. CASE MQ!Reconfigure
  <2> PICK enabled \in BOOLEAN, u \in Units :
        /\ bridge' = [made |-> enabled, loop |-> enabled /\ broker,
                      connected |-> FALSE, unit |-> u]
        /\ session' = IF enabled /\ broker THEN "asked" ELSE "none"
    BY <1>1 DEF MQ!Reconfigure
  <2>1. bridge' \in BridgeStates
    BY DEF BridgeStates
  <2>2. session' \in {"none", "asked", "open"}
    OBVIOUS
  <2>3. broker' = broker /\ announcing' = announcing /\ retained' = retained /\ raced' = raced
    BY <1>1 DEF MQ!Reconfigure
  <2> QED  BY <1>0, <1>a, <2>1, <2>2, <2>3
<1>2. ASSUME NEW u \in Units, MQ!Line(u)
      PROVE  MQ!TypeOK'
  <2> DEFINE job == [unit |-> u, next |-> 1]
  <2>1. /\ bridge' = [bridge EXCEPT !.unit = u]
        /\ announcing' \in {announcing, [announcing EXCEPT !["loop"] = job]}
        /\ broker' = broker /\ session' = session /\ retained' = retained
    BY <1>2 DEF MQ!Line
  <2>2. raced' \in BOOLEAN
    BY <1>2 DEF MQ!Line
  <2>3. job \in Jobs
    BY DEF Jobs
  <2> HIDE DEF job
  <2>4. announcing' \in [MQ!Threads -> Jobs]
    BY <1>0, <2>1, <2>3
  <2>5. bridge' \in BridgeStates
    BY <1>0, <2>1 DEF BridgeStates
  <2> QED  BY <1>0, <1>a, <2>1, <2>2, <2>4, <2>5
<1>3. CASE MQ!Retries
  BY <1>0, <1>3, <1>a DEF MQ!Retries
<1>4. CASE MQ!OnConnect
  <2> DEFINE job == [unit |-> bridge.unit, next |-> 1]
  <2>1. /\ session' = "open" /\ broker' = broker /\ retained' = retained
        /\ announcing' = [announcing EXCEPT !["network"] = job]
    BY <1>4 DEF MQ!OnConnect
  <2>2. raced' \in BOOLEAN
    BY <1>4 DEF MQ!OnConnect
  <2>3. bridge' \in BridgeStates
    BY <1>0, <1>4 DEF MQ!OnConnect, BridgeStates
  <2>4. job \in Jobs
    BY <1>0 DEF Jobs, BridgeStates
  <2> HIDE DEF job
  <2> QED  BY <1>0, <1>a, <2>1, <2>2, <2>3, <2>4
<1>5. CASE MQ!Refused
  <2>1. session' = "none" /\ broker' = broker /\ announcing' = announcing
        /\ retained' = retained /\ raced' = raced
    BY <1>5 DEF MQ!Refused
  <2>2. bridge' \in BridgeStates
    BY <1>0, <1>5 DEF MQ!Refused, BridgeStates
  <2> QED  BY <1>0, <1>a, <2>1, <2>2
<1>6. ASSUME NEW t \in MQ!Threads, MQ!Publish(t)
      PROVE  MQ!TypeOK'
  <2> DEFINE job  == announcing[t]
             next == IF job.next = Entities THEN 0 ELSE job.next + 1
  <2>1. /\ retained' \in {retained, [retained EXCEPT ![job.next] = job.unit]}
        /\ announcing' = [announcing EXCEPT ![t].next = next]
        /\ broker' = broker /\ session' = session /\ bridge' = bridge /\ raced' = raced
    BY <1>6 DEF MQ!Publish
  <2>2. job \in Jobs /\ next \in 0 .. Entities
    BY <1>0 DEF Jobs
  <2>3. retained' \in [1 .. Entities -> Units \cup {"none"}]
    BY <1>0, <2>1, <2>2 DEF Jobs
  <2>4. [job EXCEPT !.next = next] \in Jobs
    <3> HIDE DEF job, next
    <3> QED  BY <2>2 DEF Jobs
  <2>5. announcing' = [announcing EXCEPT ![t] = [job EXCEPT !.next = next]]
    BY <2>1
  <2> HIDE DEF job, next
  <2>6. announcing' \in [MQ!Threads -> Jobs]
    BY <1>0, <2>4, <2>5
  <2> QED  BY <1>0, <1>a, <2>1, <2>3, <2>6
<1>7. CASE MQ!ConnectionDrops
  BY <1>0, <1>7, <1>a DEF MQ!ConnectionDrops
<1>8. CASE MQ!BrokerReturns
  <2>1. broker' \in BOOLEAN
    BY <1>8 DEF MQ!BrokerReturns
  <2> QED  BY <1>0, <1>8, <1>a, <2>1 DEF MQ!BrokerReturns
<1>9. CASE UNCHANGED mqttBridgeVars
  BY <1>0, <1>9, <1>a DEF mqttBridgeVars
<1> QED
  BY <1>1, <1>2, <1>3, <1>4, <1>5, <1>6, <1>7, <1>8, <1>9 DEF MQ!Next

=============================================================================
