------------------------- MODULE Detectors_proofs -------------------------
(***************************************************************************)
(* The detectors on the status line: what a step of each of them keeps.    *)
(* Parts_proofs takes it to the parts together.                            *)
(***************************************************************************)
EXTENDS Parts, TLAPS

-----------------------------------------------------------------------------
(* ProbeWatch: the badge and the watcher.                                  *)

\* The first states have the types, and no badge.
LEMMA ProbeWatchInit == Init => PW!TypeOK /\ BadgeTellsPresence
<1> SUFFICES ASSUME Init PROVE PW!TypeOK /\ BadgeTellsPresence
  OBVIOUS
<1>1. channel = PW!Unseen /\ health = "none" /\ reading = "blank"
      /\ watching = [enabled |-> TRUE, stall |-> TRUE]
  BY DEF Init, PW!Init
<1>2. BadgeTellsPresence
  BY <1>1 DEF BadgeTellsPresence, PW!BadgeTellsPresence, PW!Unseen
<1> QED
  BY <1>1, <1>2, PartsConstants DEF PW!TypeOK, PW!Unseen, PW!ProbeWatchConstants, PW!None,
     PW!Readings, PW!Plausible

\* An age that grows stays below its bound.
LEMMA ProbeWatchAge ==
  ASSUME NEW most \in Nat, NEW age \in PW!None .. most
  PROVE  PW!Older(age, most) \in PW!None .. most /\ (age # PW!None => PW!Older(age, most) # PW!None)
BY DEF PW!Older, PW!None

\* What the watcher remembers of a channel
WatchedChannel ==
  [seen : BOOLEAN, present : BOOLEAN, missing : PW!None .. Dropout, fault : BOOLEAN,
   window : PW!None .. Window, stalled : BOOLEAN]

\* A blank line makes a channel that is there go, or leaves it as it was.
LEMMA BlankFacts ==
  ASSUME NEW c \in WatchedChannel, PW!TypeOK
  PROVE  /\ PW!Blank(c) \in WatchedChannel
         /\ PW!Blank(c).seen = c.seen
         /\ PW!Blank(c).present = (c.present /\ ~(watching.enabled /\ PW!Drops(c)))
<1>1. /\ [c EXCEPT !.window = PW!None] \in WatchedChannel
      /\ [c EXCEPT !.window = PW!None].seen = c.seen
      /\ [c EXCEPT !.window = PW!None].present = c.present
  BY PartsConstants DEF WatchedChannel, PW!None, PW!ProbeWatchConstants
<1>2. CASE ~(watching.enabled /\ c.seen /\ c.present)
  BY <1>1, <1>2 DEF PW!Blank, PW!Drops, WatchedChannel
<1>3. CASE watching.enabled /\ c.seen /\ c.present
  <2> DEFINE m == IF c.missing = PW!None THEN 0 ELSE PW!Older(c.missing, Dropout)
  <2>1. m \in PW!None .. Dropout
    BY ProbeWatchAge, PartsConstants DEF WatchedChannel, PW!None, PW!ProbeWatchConstants
  <2>2. PW!Drops(c) \in BOOLEAN
    BY <1>3 DEF PW!Drops
  <2>3. PW!Blank(c) = [[c EXCEPT !.window = PW!None] EXCEPT !.missing = m,
                                                            !.present = ~PW!Drops(c)]
    BY <1>3 DEF PW!Blank
  <2> HIDE DEF m
  <2> QED  BY <1>1, <1>3, <2>1, <2>2, <2>3 DEF WatchedChannel
<1> QED  BY <1>2, <1>3

\* A reading of any kind brings the channel back.
LEMMA BackFacts ==
  ASSUME NEW c \in WatchedChannel, PW!TypeOK, NEW r, NEW rate
  PROVE  /\ PW!Garbage(c) \in WatchedChannel /\ PW!Garbage(c).seen /\ PW!Garbage(c).present
         /\ PW!Good(c, r, rate) \in WatchedChannel
         /\ PW!Good(c, r, rate).seen /\ PW!Good(c, r, rate).present
<1> DEFINE t == c.stalled /\ ~PW!Returns(c)
           b == [PW!Back(c) EXCEPT !.fault = FALSE]
           w == IF c.window = PW!None THEN 0 ELSE PW!Older(c.window, Window)
           s == IF w >= Window /\ PW!StallEdges(b, r, rate) THEN ~b.stalled ELSE b.stalled
<1>1. PW!None \in PW!None .. Dropout /\ PW!None \in PW!None .. Window
  BY PartsConstants DEF PW!None, PW!ProbeWatchConstants
<1>2. t \in BOOLEAN
  BY DEF WatchedChannel
<1>3. PW!Back(c) = [c EXCEPT !.seen = TRUE, !.present = TRUE, !.missing = PW!None, !.stalled = t]
  BY DEF PW!Back, WatchedChannel
<1>4. PW!Back(c) \in WatchedChannel /\ PW!Back(c).seen /\ PW!Back(c).present
  <2> HIDE DEF t
  <2> QED  BY <1>1, <1>2, <1>3 DEF WatchedChannel
<1>5. PW!Garbage(c) \in WatchedChannel /\ PW!Garbage(c).seen /\ PW!Garbage(c).present
  <2> DEFINE g == PW!Back(c)
  <2>1. g \in WatchedChannel /\ g.seen /\ g.present
    BY <1>4
  <2>2. PW!Garbage(c) = [g EXCEPT !.fault = TRUE, !.window = PW!None]
    BY DEF PW!Garbage
  <2> HIDE DEF g
  <2> QED  BY <1>1, <2>1, <2>2 DEF WatchedChannel
<1>6. b \in WatchedChannel /\ b.seen /\ b.present
  <2> DEFINE g == PW!Back(c)
  <2>1. g \in WatchedChannel /\ g.seen /\ g.present
    BY <1>4
  <2>2. b = [g EXCEPT !.fault = FALSE]
    OBVIOUS
  <2> HIDE DEF g, b
  <2> QED  BY <2>1, <2>2 DEF WatchedChannel
<1>7. w \in PW!None .. Window
  BY ProbeWatchAge, PartsConstants DEF WatchedChannel, PW!None, PW!ProbeWatchConstants
<1>8. s \in BOOLEAN
  <2> HIDE DEF b, w
  <2> QED  BY <1>6 DEF WatchedChannel
<1>9. PW!Good(c, r, rate) = IF ~watching.stall THEN [b EXCEPT !.window = PW!None]
                            ELSE [b EXCEPT !.window = w, !.stalled = s]
  BY DEF PW!Good
<1> HIDE DEF b, w, s
<1>10. /\ PW!Good(c, r, rate) \in WatchedChannel
       /\ PW!Good(c, r, rate).seen /\ PW!Good(c, r, rate).present
  <2>1. CASE watching.stall
    BY <1>6, <1>7, <1>8, <1>9, <2>1 DEF WatchedChannel
  <2>2. CASE ~watching.stall
    BY <1>1, <1>6, <1>9, <2>2 DEF WatchedChannel
  <2> QED  BY <2>1, <2>2
<1> QED  BY <1>5, <1>10

\* Every step keeps the types, and the badge and the watcher together.
LEMMA ProbeWatchStep ==
  ASSUME PW!TypeOK, BadgeTellsPresence, [PW!Next]_probeWatchVars
  PROVE  PW!TypeOK' /\ BadgeTellsPresence'
<1>1. channel \in WatchedChannel
  BY DEF PW!TypeOK, WatchedChannel
<1>2. health = "disconnected" <=> channel.seen /\ ~channel.present
  BY DEF BadgeTellsPresence, PW!BadgeTellsPresence
<1>3. ASSUME NEW r \in PW!Readings, PW!Says(r) PROVE PW!TypeOK' /\ BadgeTellsPresence'
  <2>1. PICK rate : PW!Watch(r, rate)
    BY <1>3 DEF PW!Says
  <2>2. reading' = r /\ watching' = watching
    BY <1>3 DEF PW!Says
  <2>3. CASE ~(watching.enabled \/ watching.stall)
    <3>1. channel' = channel /\ health' = health
      BY <2>1, <2>3 DEF PW!Watch
    <3> QED
      BY <1>2, <1>3, <2>2, <3>1 DEF PW!TypeOK, BadgeTellsPresence, PW!BadgeTellsPresence
  <2>4. CASE watching.enabled \/ watching.stall
    <3>1. channel' = PW!Updated(r, rate) /\ health' = PW!Badge(r)
      BY <2>1, <2>4 DEF PW!Watch
    <3>2. /\ r = "blank" => channel' = PW!Blank(channel)
          /\ r = "garbage" => channel' = PW!Garbage(channel)
          /\ r \in PW!Plausible => channel' = PW!Good(channel, r, rate)
      BY <3>1 DEF PW!Updated, PW!Plausible
    <3>3. channel' \in WatchedChannel
      <4>1. r = "blank" \/ r = "garbage" \/ r \in PW!Plausible
        BY <1>3 DEF PW!Readings
      <4>2. CASE r = "blank"
        BY <1>1, <3>2, <4>2, BlankFacts
      <4>3. CASE r = "garbage"
        BY <1>1, <3>2, <4>3, BackFacts
      <4>4. CASE r \in PW!Plausible
        BY <1>1, <3>2, <4>4, BackFacts
      <4> QED  BY <4>1, <4>2, <4>3, <4>4
    <3>4. health' \in {"none", "ok", "disconnected", "fault"}
      BY <3>1 DEF PW!Badge, PW!TypeOK
    <3>5. health' = "disconnected" <=> channel'.seen /\ ~channel'.present
      <4>1. CASE r = "blank"
        BY <1>1, <1>2, <3>1, <3>2, <4>1, BlankFacts
           DEF PW!Badge, PW!Drops, PW!Returns, WatchedChannel
      <4>2. CASE r # "blank"
        <5>1. channel'.seen /\ channel'.present
          BY <1>1, <1>3, <3>2, <4>2, BackFacts DEF PW!Readings
        <5>2. health' # "disconnected"
          BY <1>2, <3>1, <4>2 DEF PW!Badge, PW!Returns
        <5> QED  BY <5>1, <5>2
      <4> QED  BY <4>1, <4>2
    <3> QED
      BY <1>3, <2>2, <3>3, <3>4, <3>5
         DEF PW!TypeOK, WatchedChannel, BadgeTellsPresence, PW!BadgeTellsPresence
  <2> QED  BY <2>3, <2>4
<1>4. CASE PW!SaveConfig
  BY <1>2, <1>4 DEF PW!SaveConfig, PW!TypeOK, BadgeTellsPresence, PW!BadgeTellsPresence
<1>5. CASE PW!NewOrFinishedCook
  <2>1. channel' = PW!Unseen /\ health' = "none" /\ UNCHANGED <<reading, watching>>
    BY <1>5 DEF PW!NewOrFinishedCook, PW!Forgets
  <2>2. BadgeTellsPresence'
    BY <2>1 DEF BadgeTellsPresence, PW!BadgeTellsPresence, PW!Unseen
  <2> QED
    BY <2>1, <2>2, PartsConstants DEF PW!TypeOK, PW!Unseen, PW!ProbeWatchConstants, PW!None
<1>6. CASE UNCHANGED probeWatchVars
  BY <1>6 DEF probeWatchVars, PW!TypeOK, BadgeTellsPresence, PW!BadgeTellsPresence
<1> QED  BY <1>3, <1>4, <1>5, <1>6 DEF PW!Next, PW!Sample

-----------------------------------------------------------------------------
(* PitGuard: the warnings and the history of the lines.                    *)

\* What the guard remembers
Guards ==
  [armed : BOOLEAN, inLid : BOOLEAN, grace : 0 .. LidGrace \cup {PG!None},
   low : 0 .. LowDwell \cup {PG!None}, lowTold : BOOLEAN,
   peg : 0 .. FireDwell \cup {PG!None}, fireTold : BOOLEAN,
   high : 0 .. HighDwell \cup {PG!None}, highTold : BOOLEAN]

\* The constants, spelled out: None is no age.
LEMMA PitGuardNumbers ==
  /\ PG!None = -99
  /\ LowDwell \in Nat \ {0} /\ FireDwell \in Nat \ {0} /\ HighDwell \in Nat \ {0}
  /\ LidGrace \in Nat /\ LowBand \in Nat
  /\ PG!MostLow \in Nat /\ PG!MostLow > LowDwell /\ PG!MostLow > FireDwell
<1>1. LowDwell \in Nat \ {0} /\ FireDwell \in Nat \ {0} /\ HighDwell \in Nat \ {0}
  BY PartsConstants DEF PG!PitGuardConstants
<1>2. LidGrace \in Nat /\ LowBand \in Nat
  BY PartsConstants DEF PG!PitGuardConstants
<1> QED  BY <1>1, <1>2 DEF PG!None, PG!MostLow

\* A fresh guard has no timer, and knows of no lid window.
LEMMA FreshGuard == PG!Fresh \in Guards
BY PitGuardNumbers DEF PG!Fresh, Guards

\* What is there of the guard once the ages, the set point and the lid are seen to.
Seen(p, normal) ==
  PG!Recovered(PG!Lidded(PG!Armed(PG!Rearmed(PG!Aged(guard), p), p, normal), p), p)

\* The timers go on or stop; the lid is the line's; a grace time goes on, starts
\* with the end of a lid window, or ends.
LEMMA SeenFacts ==
  ASSUME guard \in Guards, NEW p \in PG!Lines, NEW normal \in BOOLEAN
  PROVE  /\ Seen(p, normal) \in Guards
         /\ Seen(p, normal).low \in {PG!None, PG!Older(guard.low, LowDwell)}
         /\ Seen(p, normal).peg \in {PG!None, PG!Older(guard.peg, FireDwell)}
         /\ p.lid => Seen(p, normal).low = PG!None /\ Seen(p, normal).peg = PG!None
         /\ Seen(p, normal).lowTold = PG!Rearmed(guard, p).lowTold
         /\ Seen(p, normal).fireTold = PG!Rearmed(guard, p).fireTold
         /\ Seen(p, normal).inLid = p.lid
         /\ Seen(p, normal).grace # PG!None =>
              /\ ~p.lid /\ ~(p.gap # PG!None /\ p.gap >= -LowBand)
              /\ \/ guard.inLid /\ Seen(p, normal).grace = LidGrace
                 \/ /\ guard.grace # PG!None
                    /\ Seen(p, normal).grace =
                         (IF guard.grace = 0 THEN 0 ELSE guard.grace - 1)
         /\ Seen(p, normal).grace = PG!None =>
              \/ p.lid \/ (p.gap # PG!None /\ p.gap >= -LowBand)
              \/ guard.grace = PG!None /\ ~guard.inLid
<1> DEFINE g1 == PG!Aged(guard)
           g2 == PG!Rearmed(g1, p)
           g3 == PG!Armed(g2, p, normal)
           g4 == PG!Lidded(g3, p)
           g5 == PG!Recovered(g4, p)
<1>1. /\ g1 \in Guards
      /\ g1.low = PG!Older(guard.low, LowDwell) /\ g1.peg = PG!Older(guard.peg, FireDwell)
      /\ g1.lowTold = guard.lowTold /\ g1.fireTold = guard.fireTold
      /\ g1.inLid = guard.inLid
      /\ g1.grace = IF guard.grace = PG!None \/ guard.grace = 0 THEN guard.grace
                    ELSE guard.grace - 1
  <2> DEFINE gr == IF guard.grace = PG!None \/ guard.grace = 0 THEN guard.grace
                   ELSE guard.grace - 1
             lo == PG!Older(guard.low, LowDwell)
             pe == PG!Older(guard.peg, FireDwell)
             hi == PG!Older(guard.high, HighDwell)
  <2>1. gr \in 0 .. LidGrace \cup {PG!None}
    BY PitGuardNumbers DEF Guards
  <2>2. lo \in 0 .. LowDwell \cup {PG!None}
    BY PitGuardNumbers DEF Guards, PG!Older
  <2>3. pe \in 0 .. FireDwell \cup {PG!None}
    BY PitGuardNumbers DEF Guards, PG!Older
  <2>4. hi \in 0 .. HighDwell \cup {PG!None}
    BY PitGuardNumbers DEF Guards, PG!Older
  <2>5. g1 = [guard EXCEPT !.low = lo, !.peg = pe, !.high = hi, !.grace = gr]
    BY DEF PG!Aged, Guards
  <2> HIDE DEF gr, lo, pe, hi, g1
  <2>6. /\ g1 \in Guards /\ g1.low = lo /\ g1.peg = pe /\ g1.grace = gr
        /\ g1.lowTold = guard.lowTold /\ g1.fireTold = guard.fireTold
        /\ g1.inLid = guard.inLid
    BY <2>1, <2>2, <2>3, <2>4, <2>5 DEF Guards
  <2> QED  BY <2>6 DEF gr, lo, pe
<1> HIDE DEF g1
<1>2. /\ g2 \in Guards
      /\ g2.low \in {PG!None, g1.low} /\ g2.peg \in {PG!None, g1.peg}
      /\ g2.lowTold = (g1.lowTold /\ ~p.bump) /\ g2.fireTold = (g1.fireTold /\ ~p.bump)
      /\ g2.inLid = g1.inLid /\ g2.grace = g1.grace
  BY <1>1 DEF PG!Rearmed, Guards
<1> HIDE DEF g2
<1>3. /\ g3 \in Guards /\ g3.low = g2.low /\ g3.peg = g2.peg
      /\ g3.lowTold = g2.lowTold /\ g3.fireTold = g2.fireTold
      /\ g3.inLid = g2.inLid /\ g3.grace = g2.grace
  BY <1>2 DEF PG!Armed, Guards
<1> HIDE DEF g3
<1>4. /\ g4 \in Guards
      /\ g4.low \in {PG!None, g3.low} /\ g4.peg \in {PG!None, g3.peg}
      /\ p.lid => g4.low = PG!None /\ g4.peg = PG!None
      /\ g4.lowTold = g3.lowTold /\ g4.fireTold = g3.fireTold
      /\ g4.inLid = p.lid
      /\ g4.grace = IF p.lid THEN PG!None ELSE IF g3.inLid THEN LidGrace ELSE g3.grace
  <2>1. p.lid \in BOOLEAN
    BY DEF PG!Lines
  <2>2. CASE p.lid
    BY <1>3, <2>2 DEF PG!Lidded, Guards
  <2>3. CASE ~p.lid /\ g3.inLid
    <3>1. LidGrace \in 0 .. LidGrace \cup {PG!None}
      BY PitGuardNumbers
    <3>2. g4 = [g3 EXCEPT !.inLid = FALSE, !.grace = LidGrace]
      BY <2>3 DEF PG!Lidded
    <3> QED  BY <1>3, <2>1, <2>3, <3>1, <3>2 DEF Guards
  <2>4. CASE ~p.lid /\ ~g3.inLid
    BY <1>3, <2>1, <2>4 DEF PG!Lidded, Guards
  <2> QED  BY <2>2, <2>3, <2>4
<1> HIDE DEF g4
<1>5. /\ g5 \in Guards /\ g5.low = g4.low /\ g5.peg = g4.peg
      /\ g5.lowTold = g4.lowTold /\ g5.fireTold = g4.fireTold
      /\ g5.inLid = g4.inLid
      /\ g5.grace = IF p.gap # PG!None /\ p.gap >= -LowBand THEN PG!None ELSE g4.grace
  BY <1>4 DEF PG!Recovered, Guards
<1>6. Seen(p, normal) = g5
  BY DEF Seen, g4, g3, g2, g1
<1> HIDE DEF g5
<1>7. /\ PG!Rearmed(guard, p).lowTold = (guard.lowTold /\ ~p.bump)
      /\ PG!Rearmed(guard, p).fireTold = (guard.fireTold /\ ~p.bump)
  BY DEF PG!Rearmed, Guards
<1>8. guard.grace \in 0 .. LidGrace \cup {PG!None} /\ PG!None = -99 /\ LidGrace \in Nat
  BY PitGuardNumbers DEF Guards
<1> QED
  BY <1>1, <1>2, <1>3, <1>4, <1>5, <1>6, <1>7, <1>8

\* A dip starts a timer, or lets it go on; a warning needs the whole dwell.
LEMMA LowSideFacts ==
  ASSUME NEW g \in Guards, NEW p \in PG!Lines, p.gap # PG!None
  PROVE  /\ PG!LowSide(g, p) \in Guards
         /\ PG!LowSide(g, p).grace = g.grace /\ PG!LowSide(g, p).inLid = g.inLid
         /\ PG!LowSide(g, p).low # PG!None =>
              /\ PG!Low(p) /\ ~PG!Suppressed(g, p)
              /\ PG!LowSide(g, p).low = PG!Starts(g.low)
         /\ PG!LowSide(g, p).peg # PG!None =>
              /\ PG!Low(p) /\ ~PG!Suppressed(g, p) /\ p.full
              /\ PG!LowSide(g, p).peg = PG!Starts(g.peg)
         /\ PG!LowSide(g, p).lowTold => \/ g.lowTold
                                        \/ PG!LowSide(g, p).low = LowDwell
         /\ PG!LowSide(g, p).fireTold => \/ g.fireTold
                                         \/ PG!LowSide(g, p).peg = FireDwell
<1> DEFINE near == ~PG!Low(p) /\ p.gap >= -Half
           calm == [g EXCEPT !.low = PG!None, !.peg = PG!None,
                             !.lowTold = @ /\ ~near, !.fireTold = @ /\ ~near]
           since == PG!Starts(g.low)
           lowWarned == g.lowTold \/ since >= LowDwell
           warned == [g EXCEPT !.low = since, !.lowTold = lowWarned]
           peg == IF ~p.full THEN PG!None ELSE IF lowWarned THEN PG!Starts(g.peg) ELSE g.peg
           burnt == PG!Pegged(warned, p)
           fireWarned == g.fireTold \/ (lowWarned /\ p.full /\ peg >= FireDwell)
<1>1. PG!None = -99 /\ PG!None \in 0 .. LowDwell \cup {PG!None}
      /\ PG!None \in 0 .. FireDwell \cup {PG!None}
  BY PitGuardNumbers
<1>2. since \in 0 .. LowDwell
  BY PitGuardNumbers DEF PG!Starts, Guards
<1>3. lowWarned \in BOOLEAN
  BY DEF Guards
<1>4. peg \in 0 .. FireDwell \cup {PG!None}
  BY PitGuardNumbers DEF PG!Starts, Guards
<1>5. p.full \in BOOLEAN /\ p.lid \in BOOLEAN
  BY DEF PG!Lines
<1>6. CASE PG!Suppressed(g, p) \/ ~PG!Low(p)
  <2>1. PG!LowSide(g, p) = calm
    BY <1>6 DEF PG!LowSide
  <2> DEFINE lowStill == g.lowTold /\ ~near
             fireStill == g.fireTold /\ ~near
  <2>2. lowStill \in BOOLEAN /\ fireStill \in BOOLEAN
    BY DEF Guards
  <2>3. calm = [g EXCEPT !.low = PG!None, !.peg = PG!None,
                         !.lowTold = lowStill, !.fireTold = fireStill]
    OBVIOUS
  <2>4. (lowStill => g.lowTold) /\ (fireStill => g.fireTold)
    OBVIOUS
  <2> HIDE DEF lowStill, fireStill, calm
  <2>5. calm \in Guards
    <3> DEFINE reset == [g EXCEPT !.low = PG!None, !.peg = PG!None]
    <3>1. reset \in Guards
      BY DEF Guards
    <3>2. calm = [reset EXCEPT !.lowTold = lowStill, !.fireTold = fireStill]
      BY <2>3 DEF Guards
    <3> HIDE DEF reset
    <3> QED  BY <2>2, <3>1, <3>2 DEF Guards
  <2>6. /\ calm.grace = g.grace /\ calm.inLid = g.inLid
        /\ calm.low = PG!None /\ calm.peg = PG!None
        /\ calm.lowTold = lowStill /\ calm.fireTold = fireStill
    BY <2>3 DEF Guards
  <2> QED  BY <2>1, <2>4, <2>5, <2>6
<1>7. CASE ~PG!Suppressed(g, p) /\ PG!Low(p)
  <2> HIDE DEF since
  <2>1. warned \in Guards /\ warned.peg = g.peg /\ warned.lowTold = lowWarned
        /\ warned.low = since /\ warned.fireTold = g.fireTold
        /\ warned.grace = g.grace /\ warned.inLid = g.inLid
    <3> HIDE DEF lowWarned
    <3> QED  BY <1>2, <1>3 DEF Guards
  <2>2. burnt = [warned EXCEPT !.peg = peg]
    BY <2>1 DEF PG!Pegged, Guards
  <2> HIDE DEF warned, lowWarned, peg, burnt
  <2>3. burnt \in Guards /\ burnt.peg = peg /\ burnt.low = since
        /\ burnt.lowTold = lowWarned /\ burnt.fireTold = g.fireTold
        /\ burnt.grace = g.grace /\ burnt.inLid = g.inLid
    BY <1>4, <2>1, <2>2 DEF Guards
  <2>4. PG!LowSide(g, p) = [burnt EXCEPT !.fireTold = fireWarned]
    BY <1>7, <2>3 DEF PG!LowSide, burnt, warned, since, lowWarned, Guards
  <2>5. fireWarned \in BOOLEAN
    BY <1>3, <1>5 DEF Guards
  <2> HIDE DEF fireWarned
  <2>6. PG!LowSide(g, p) \in Guards
        /\ PG!LowSide(g, p).fireTold = fireWarned /\ PG!LowSide(g, p).low = since
        /\ PG!LowSide(g, p).peg = peg /\ PG!LowSide(g, p).lowTold = lowWarned
        /\ PG!LowSide(g, p).grace = g.grace /\ PG!LowSide(g, p).inLid = g.inLid
    BY <2>3, <2>4, <2>5 DEF Guards
  <2>7. lowWarned => g.lowTold \/ since = LowDwell
    BY <1>2, PitGuardNumbers DEF lowWarned
  <2>8. fireWarned => g.fireTold \/ peg = FireDwell
    BY <1>4, PitGuardNumbers DEF fireWarned
  <2>9. peg # PG!None => p.full /\ peg = PG!Starts(g.peg)
    BY <1>1 DEF peg, PG!Starts, Guards
  <2> QED
    BY <1>7, <2>6, <2>7, <2>8, <2>9 DEF since
<1> QED  BY <1>6, <1>7

\* The high side is apart from the low one.
LEMMA HighSideFacts ==
  ASSUME NEW g \in Guards, NEW p \in PG!Lines
  PROVE  /\ PG!HighSide(g, p) \in Guards
         /\ PG!HighSide(g, p).grace = g.grace /\ PG!HighSide(g, p).inLid = g.inLid
         /\ PG!HighSide(g, p).low = g.low /\ PG!HighSide(g, p).peg = g.peg
         /\ PG!HighSide(g, p).lowTold = g.lowTold
         /\ PG!HighSide(g, p).fireTold = g.fireTold
<1> DEFINE since == PG!Starts(g.high)
           hot == g.highTold \/ (g.high # PG!None /\ g.high >= HighDwell)
           still == g.highTold /\ p.gap > HighHalf
<1>1. since \in 0 .. HighDwell \cup {PG!None} /\ PG!None \in 0 .. HighDwell \cup {PG!None}
  BY PitGuardNumbers DEF PG!Starts, Guards
<1>2. hot \in BOOLEAN /\ still \in BOOLEAN
  BY DEF Guards
<1>3. PG!HighSide(g, p) = IF p.gap >= HighMargin THEN [g EXCEPT !.high = since, !.highTold = hot]
                          ELSE [g EXCEPT !.high = PG!None, !.highTold = still]
  BY DEF PG!HighSide
<1> HIDE DEF since, hot, still
<1> QED  BY <1>1, <1>2, <1>3 DEF Guards

\* The history, by its fields
Past == [low : 0 .. PG!MostLow, full : 0 .. FireDwell + 1, shut : 0 .. LidGrace]

\* A line adds one to what it does not contradict.
LEMMA SinceFacts ==
  ASSUME past \in Past, NEW p \in PG!Lines
  PROVE  /\ PG!Since(p) \in Past
         /\ PG!Looks(p) /\ ~p.lid /\ (p.gap = PG!None \/ PG!Low(p)) =>
              PG!Since(p).low = PG!Longer(past.low, PG!MostLow)
         /\ PG!Looks(p) /\ ~p.lid /\ (p.gap = PG!None \/ p.full) =>
              PG!Since(p).full = PG!Longer(past.full, FireDwell + 1)
         /\ ~PG!Looks(p) => PG!Since(p).shut = LidGrace
         /\ ~p.lid /\ p.gap # PG!None /\ p.gap >= -LowBand => PG!Since(p).shut = LidGrace
         /\ ~p.lid => PG!Since(p).shut \in {LidGrace, past.shut + 1}
<1> DEFINE l == IF PG!Looks(p) /\ ~p.lid /\ (p.gap = PG!None \/ PG!Low(p))
                THEN PG!Longer(past.low, PG!MostLow) ELSE 0
           f == IF PG!Looks(p) /\ ~p.lid /\ (p.gap = PG!None \/ p.full)
                THEN PG!Longer(past.full, FireDwell + 1) ELSE 0
           s == IF ~PG!Looks(p) THEN LidGrace
                ELSE IF p.lid THEN 0
                ELSE IF p.gap # PG!None /\ p.gap >= -LowBand THEN LidGrace
                ELSE PG!Longer(past.shut, LidGrace)
<1>1. PG!Since(p) = [low |-> l, full |-> f, shut |-> s]
  BY DEF PG!Since
<1>2. l \in 0 .. PG!MostLow
  BY PitGuardNumbers DEF Past, PG!Longer
<1>3. f \in 0 .. FireDwell + 1
  BY PitGuardNumbers DEF Past, PG!Longer
<1>4. s \in 0 .. LidGrace /\ (~p.lid => s \in {LidGrace, past.shut + 1})
  BY PitGuardNumbers DEF Past, PG!Longer
<1>5. PG!Since(p).low = l /\ PG!Since(p).full = f /\ PG!Since(p).shut = s
  BY <1>1
<1>6. PG!Since(p) \in Past
  <2> HIDE DEF l, f, s
  <2> QED  BY <1>1, <1>2, <1>3, <1>4 DEF Past
<1>7. /\ ~PG!Looks(p) => s = LidGrace
      /\ ~p.lid /\ p.gap # PG!None /\ p.gap >= -LowBand => s = LidGrace
  OBVIOUS
<1> HIDE DEF s
<1> QED  BY <1>4, <1>5, <1>6, <1>7

\* What a line makes of a guard that looks: a timer is new or a line older, it
\* runs only while the line does not contradict it, and a new warning has its dwell.
LEMMA GuardFacts ==
  ASSUME guard \in Guards, NEW p \in PG!Lines, NEW normal \in BOOLEAN, PG!Looks(p),
         NEW h, h = PG!Updated(guard, p, normal)
  PROVE  /\ h \in Guards
         /\ h.inLid = p.lid /\ h.grace = Seen(p, normal).grace
         /\ h.low # PG!None =>
              /\ ~p.lid /\ (p.gap = PG!None \/ PG!Low(p))
              /\ h.low = 0 \/ (guard.low # PG!None /\ h.low = PG!Older(guard.low, LowDwell))
         /\ h.peg # PG!None =>
              /\ ~p.lid /\ (p.gap = PG!None \/ (PG!Low(p) /\ p.full))
              /\ h.peg = 0 \/ (guard.peg # PG!None /\ h.peg = PG!Older(guard.peg, FireDwell))
         /\ ~PG!Rearmed(guard, p).lowTold /\ h.lowTold =>
              h.low = LowDwell /\ ~p.lid /\ (h.grace = PG!None \/ h.grace = 0)
         /\ ~PG!Rearmed(guard, p).fireTold /\ h.fireTold => h.peg = FireDwell
<1> DEFINE s == Seen(p, normal)
<1>1. s \in Guards /\ s.inLid = p.lid
      /\ s.lowTold = PG!Rearmed(guard, p).lowTold /\ s.fireTold = PG!Rearmed(guard, p).fireTold
      /\ (p.lid => s.low = PG!None /\ s.peg = PG!None)
  BY SeenFacts
<1>2. s.low \in {PG!None, PG!Older(guard.low, LowDwell)}
      /\ s.peg \in {PG!None, PG!Older(guard.peg, FireDwell)}
  BY SeenFacts
<1>3. /\ PG!Older(PG!None, LowDwell) = PG!None /\ PG!Older(PG!None, FireDwell) = PG!None
      /\ PG!None # 0 /\ PG!None # LowDwell /\ PG!None # FireDwell
  BY PitGuardNumbers DEF PG!Older
<1>4. h = IF p.gap = PG!None THEN s ELSE PG!HighSide(PG!LowSide(s, p), p)
  BY DEF PG!Updated, PG!Looks, Seen
<1> HIDE DEF s
<1>5. CASE p.gap = PG!None
  <2>1. h = s
    BY <1>4, <1>5
  <2> QED  BY <1>1, <1>2, <1>3, <1>5, <2>1 DEF s
<1>6. CASE p.gap # PG!None
  <2> DEFINE d == PG!LowSide(s, p)
  <2>1. /\ d \in Guards /\ d.grace = s.grace /\ d.inLid = s.inLid
        /\ d.low # PG!None => PG!Low(p) /\ ~PG!Suppressed(s, p) /\ d.low = PG!Starts(s.low)
        /\ d.peg # PG!None =>
             PG!Low(p) /\ ~PG!Suppressed(s, p) /\ p.full /\ d.peg = PG!Starts(s.peg)
        /\ d.lowTold => s.lowTold \/ d.low = LowDwell
        /\ d.fireTold => s.fireTold \/ d.peg = FireDwell
    BY <1>1, <1>6, LowSideFacts
  <2> HIDE DEF d
  <2>2. /\ h \in Guards /\ h.grace = d.grace /\ h.inLid = d.inLid /\ h.low = d.low
        /\ h.peg = d.peg /\ h.lowTold = d.lowTold /\ h.fireTold = d.fireTold
    BY <1>4, <1>6, <2>1, HighSideFacts DEF d
  <2>3. ~PG!Suppressed(s, p) => ~p.lid /\ (s.grace = PG!None \/ s.grace = 0)
    BY <1>1, PitGuardNumbers DEF PG!Suppressed, Guards
  <2>4. h.low # PG!None =>
          h.low = 0 \/ (guard.low # PG!None /\ h.low = PG!Older(guard.low, LowDwell))
    BY <1>2, <1>3, <2>1, <2>2 DEF PG!Starts
  <2>5. h.peg # PG!None =>
          h.peg = 0 \/ (guard.peg # PG!None /\ h.peg = PG!Older(guard.peg, FireDwell))
    BY <1>2, <1>3, <2>1, <2>2 DEF PG!Starts
  <2> QED  BY <1>1, <1>3, <2>1, <2>2, <2>3, <2>4, <2>5 DEF s
<1> QED  BY <1>5, <1>6

\* The invariant of the guard
PitGuardInv == PG!TypeOK /\ PG!TimersAreLived /\ PG!LidIsKnown /\ AlertsAreSustained

\* At first nothing is timed and nothing told.
LEMMA PitGuardInit == Init => PitGuardInv
<1> SUFFICES ASSUME Init PROVE PitGuardInv
  OBVIOUS
<1>1. /\ pit = [on |-> FALSE, gap |-> PG!None, lid |-> FALSE, full |-> FALSE, bump |-> FALSE]
      /\ guard = PG!Fresh /\ guardOn = TRUE /\ told = {}
      /\ past = [low |-> 0, full |-> 0, shut |-> LidGrace]
  BY DEF Init, PG!Init
<1>2. guard \in Guards
  BY <1>1, FreshGuard
<1>3. PG!TypeOK
  BY <1>1, <1>2, PitGuardNumbers DEF PG!TypeOK, Guards
<1>4. PG!TimersAreLived /\ PG!LidIsKnown
  BY <1>1, PitGuardNumbers DEF PG!TimersAreLived, PG!LidIsKnown, PG!Fresh
<1>5. AlertsAreSustained
  BY <1>1 DEF AlertsAreSustained, PG!AlertsAreSustained
<1> QED  BY <1>3, <1>4, <1>5 DEF PitGuardInv

\* Every step keeps it: a timer is younger than the history by a line at least.
LEMMA PitGuardStep == PitGuardInv /\ [PG!Next]_pitGuardVars => PitGuardInv'
<1> SUFFICES ASSUME PitGuardInv, [PG!Next]_pitGuardVars PROVE PitGuardInv'
  OBVIOUS
<1> USE DEF PitGuardInv
<1>1. guard \in Guards /\ past \in Past /\ guardOn \in BOOLEAN /\ pit \in PG!Lines
  BY DEF PG!TypeOK, Guards, Past, PG!Lines
<1>2. ASSUME guard' \in Guards, past' \in Past, guardOn' \in BOOLEAN, pit' \in PG!Lines,
             told' \subseteq {"pit_low", "fire_dying", "overtemp"}
      PROVE  PG!TypeOK'
  BY <1>2 DEF PG!TypeOK, Guards, Past, PG!Lines
<1>3. ASSUME NEW p \in PG!Lines, PG!Says(p) PROVE PitGuardInv'
  <2>1. PICK normal \in BOOLEAN : guard' = PG!Updated(guard, p, normal)
    BY <1>3 DEF PG!Says
  <2>2. /\ pit' = p /\ past' = PG!Since(p) /\ guardOn' = guardOn
        /\ told' = IF p.on /\ guardOn THEN PG!Events(PG!Rearmed(guard, p), guard') ELSE {}
    BY <1>3 DEF PG!Says
  <2>3. past' \in Past
    BY <1>1, <2>2, SinceFacts
  <2>4. told' \subseteq {"pit_low", "fire_dying", "overtemp"}
    BY <2>2 DEF PG!Events
  <2>5. CASE ~PG!Looks(p)
    <3>1. guard' = PG!Fresh /\ told' = {} /\ past'.shut = LidGrace
      BY <1>1, <2>1, <2>2, <2>5, SinceFacts DEF PG!Updated, PG!Looks
    <3>2. PG!TypeOK'
      BY <1>1, <1>2, <2>2, <2>3, <2>4, <3>1, FreshGuard
    <3>3. PG!TimersAreLived' /\ PG!LidIsKnown'
      BY <3>1, PitGuardNumbers DEF PG!TimersAreLived, PG!LidIsKnown, PG!Fresh
    <3>4. AlertsAreSustained'
      BY <3>1 DEF AlertsAreSustained, PG!AlertsAreSustained
    <3> QED  BY <3>2, <3>3, <3>4
  <2>6. CASE PG!Looks(p)
    <3>1. /\ guard' \in Guards
          /\ guard'.inLid = p.lid /\ guard'.grace = Seen(p, normal).grace
          /\ guard'.low # PG!None =>
               /\ ~p.lid /\ (p.gap = PG!None \/ PG!Low(p))
               /\ guard'.low = 0 \/ (guard.low # PG!None /\ guard'.low = PG!Older(guard.low, LowDwell))
          /\ guard'.peg # PG!None =>
               /\ ~p.lid /\ (p.gap = PG!None \/ (PG!Low(p) /\ p.full))
               /\ guard'.peg = 0 \/ (guard.peg # PG!None /\ guard'.peg = PG!Older(guard.peg, FireDwell))
      BY <1>1, <2>1, <2>6, GuardFacts
    <3>2. /\ "pit_low" \in told' =>
               guard'.low = LowDwell /\ ~p.lid /\ (guard'.grace = PG!None \/ guard'.grace = 0)
          /\ "fire_dying" \in told' => guard'.peg = FireDwell
      <4>1. /\ "pit_low" \in told' => ~PG!Rearmed(guard, p).lowTold /\ guard'.lowTold
            /\ "fire_dying" \in told' => ~PG!Rearmed(guard, p).fireTold /\ guard'.fireTold
        BY <2>2 DEF PG!Events
      <4> QED  BY <1>1, <2>1, <2>6, <4>1, GuardFacts
    <3>3. PG!TypeOK'
      BY <1>1, <1>2, <2>2, <2>3, <2>4, <3>1
    <3>4. guard'.low # PG!None => past'.low > guard'.low
      <4> SUFFICES ASSUME guard'.low # PG!None PROVE past'.low > guard'.low
        OBVIOUS
      <4>1. past'.low = PG!Longer(past.low, PG!MostLow)
        BY <1>1, <2>2, <2>6, <3>1, SinceFacts
      <4>2. past.low \in 0 .. PG!MostLow /\ guard.low \in 0 .. LowDwell \cup {PG!None}
        BY <1>1 DEF Past, Guards
      <4>3. guard.low # PG!None => past.low > guard.low
        BY DEF PG!TimersAreLived
      <4> QED
        BY <3>1, <4>1, <4>2, <4>3, PitGuardNumbers DEF PG!Longer, PG!Older
    <3>5. guard'.peg # PG!None => past'.low > guard'.peg /\ past'.full > guard'.peg
      <4> SUFFICES ASSUME guard'.peg # PG!None
                   PROVE  past'.low > guard'.peg /\ past'.full > guard'.peg
        OBVIOUS
      <4>1. /\ past'.low = PG!Longer(past.low, PG!MostLow)
            /\ past'.full = PG!Longer(past.full, FireDwell + 1)
        BY <1>1, <2>2, <2>6, <3>1, SinceFacts
      <4>2. /\ past.low \in 0 .. PG!MostLow /\ past.full \in 0 .. FireDwell + 1
            /\ guard.peg \in 0 .. FireDwell \cup {PG!None}
        BY <1>1 DEF Past, Guards
      <4>3. guard.peg # PG!None => past.low > guard.peg /\ past.full > guard.peg
        BY DEF PG!TimersAreLived
      <4> QED
        BY <3>1, <4>1, <4>2, <4>3, PitGuardNumbers DEF PG!Longer, PG!Older
    <3>6. PG!LidIsKnown'
      <4>1. past.shut \in 0 .. LidGrace /\ past'.shut \in 0 .. LidGrace
            /\ guard.grace \in 0 .. LidGrace \cup {PG!None}
        BY <1>1, <2>3 DEF Past, Guards
      <4>2. guard'.grace # PG!None => past'.shut + guard'.grace >= LidGrace
        <5> SUFFICES ASSUME guard'.grace # PG!None
                     PROVE  past'.shut + guard'.grace >= LidGrace
          OBVIOUS
        <5>1. /\ ~p.lid
              /\ \/ guard'.grace = LidGrace
                 \/ /\ guard.grace # PG!None
                    /\ guard'.grace = (IF guard.grace = 0 THEN 0 ELSE guard.grace - 1)
          BY <1>1, <3>1, SeenFacts
        <5>2. past'.shut \in {LidGrace, past.shut + 1}
          BY <1>1, <2>2, <5>1, SinceFacts
        <5>3. guard.grace # PG!None => past.shut + guard.grace >= LidGrace
          BY DEF PG!LidIsKnown
        <5>4. guard'.grace \in 0 .. LidGrace
          BY <3>1 DEF Guards
        <5> QED  BY <4>1, <5>1, <5>2, <5>3, <5>4, PitGuardNumbers
      <4>3. guard'.grace = PG!None /\ ~guard'.inLid => past'.shut >= LidGrace
        <5> SUFFICES ASSUME guard'.grace = PG!None, ~guard'.inLid
                     PROVE  past'.shut >= LidGrace
          OBVIOUS
        <5>1. /\ ~p.lid
              /\ \/ p.gap # PG!None /\ p.gap >= -LowBand
                 \/ guard.grace = PG!None /\ ~guard.inLid
          BY <1>1, <3>1, SeenFacts
        <5>2. /\ past'.shut \in {LidGrace, past.shut + 1}
              /\ p.gap # PG!None /\ p.gap >= -LowBand => past'.shut = LidGrace
          BY <1>1, <2>2, <5>1, SinceFacts
        <5>3. guard.grace = PG!None /\ ~guard.inLid => past.shut >= LidGrace
          BY DEF PG!LidIsKnown
        <5> QED  BY <4>1, <5>1, <5>2, <5>3, PitGuardNumbers
      <4> QED  BY <4>2, <4>3 DEF PG!LidIsKnown
    <3>7. PG!TimersAreLived'
      BY <3>4, <3>5 DEF PG!TimersAreLived
    <3>8. AlertsAreSustained'
      <4>1. "pit_low" \in told' => past'.low > LowDwell /\ past'.shut >= LidGrace
        <5> SUFFICES ASSUME "pit_low" \in told'
                     PROVE  past'.low > LowDwell /\ past'.shut >= LidGrace
          OBVIOUS
        <5>1. past'.low > LowDwell
          BY <3>2, <3>4, PitGuardNumbers
        <5>2. past'.shut \in 0 .. LidGrace
          BY <2>3 DEF Past
        <5>3. past'.shut >= LidGrace
          BY <3>1, <3>2, <3>6, <5>2, PitGuardNumbers DEF PG!LidIsKnown
        <5> QED  BY <5>1, <5>3
      <4>2. "fire_dying" \in told' => past'.low > FireDwell /\ past'.full > FireDwell
        BY <3>2, <3>5, PitGuardNumbers
      <4> QED  BY <4>1, <4>2 DEF AlertsAreSustained, PG!AlertsAreSustained
    <3> QED  BY <3>3, <3>6, <3>7, <3>8
  <2> QED  BY <2>5, <2>6
<1>4. CASE PG!SaveConfig
  <2>1. UNCHANGED <<pit, guard, past>> /\ guardOn' = ~guardOn /\ told' = {}
    BY <1>4 DEF PG!SaveConfig
  <2>2. PG!TypeOK'
    BY <1>1, <1>2, <2>1
  <2>3. PG!TimersAreLived' /\ PG!LidIsKnown'
    BY <2>1 DEF PG!TimersAreLived, PG!LidIsKnown
  <2> QED  BY <2>1, <2>2, <2>3 DEF AlertsAreSustained, PG!AlertsAreSustained
<1>5. CASE PG!Restart
  <2>1. /\ guard' = PG!Fresh /\ past' = [low |-> 0, full |-> 0, shut |-> LidGrace]
        /\ told' = {} /\ UNCHANGED <<pit, guardOn>>
    BY <1>5 DEF PG!Restart
  <2>2. guard' \in Guards /\ past' \in Past
    BY <2>1, FreshGuard, PitGuardNumbers DEF Past
  <2>3. PG!TypeOK'
    BY <1>1, <1>2, <2>1, <2>2
  <2>4. PG!TimersAreLived' /\ PG!LidIsKnown'
    BY <2>1, PitGuardNumbers DEF PG!TimersAreLived, PG!LidIsKnown, PG!Fresh
  <2> QED  BY <2>1, <2>3, <2>4 DEF AlertsAreSustained, PG!AlertsAreSustained
<1>6. CASE UNCHANGED pitGuardVars
  BY <1>6 DEF pitGuardVars, PG!TypeOK, PG!TimersAreLived, PG!LidIsKnown,
              AlertsAreSustained, PG!AlertsAreSustained
<1> QED  BY <1>3, <1>4, <1>5, <1>6 DEF PG!Next, PG!Sample

-----------------------------------------------------------------------------
(* LidRecovery: the cancels and the markers of a lid window.               *)

\* What the detector and the history hold
Dets    == [armed : LR!None .. MinArmed, low : LR!None .. TopPit]
LidWins == [lines : 0 .. MinArmed + 1, low : LR!None .. TopPit, markers : 0 .. LidWindow,
            stood : 0 .. LidWindow, rise : LR!None .. TopPit, clean : BOOLEAN]

\* The constants, spelled out.
LEMMA LidNumbers ==
  /\ LR!None = -1
  /\ TopPit \in Nat /\ Delta \in Nat /\ MinArmed \in Nat /\ LidWindow \in Nat \ {0}
BY PartsConstants DEF LR!LidRecoveryConstants, LR!None

\* The invariant of the lid recovery
LidRecoveryInv ==
  /\ LR!TypeOK
  /\ LR!CountsFit
  /\ LR!MarkersArePaid
  /\ LR!SeesThisWindow
  /\ LR!CancelFollowsDip

\* A marker is paid for, so there is one and one for each stand-down.
LEMMA LidRecoveryGivesMarkers == LidRecoveryInv => CancelsRightly
<1> SUFFICES ASSUME LidRecoveryInv PROVE CancelsRightly
  OBVIOUS
<1>1. window.markers \in 0 .. LidWindow /\ window.stood \in 0 .. LidWindow
  BY DEF LidRecoveryInv, LR!TypeOK
<1>2. window.markers <= window.stood + (IF marked THEN 1 ELSE 0)
  BY DEF LidRecoveryInv, LR!MarkersArePaid
<1>3. LR!OneMarkerPerWindow
  BY <1>1, <1>2, LidNumbers DEF LR!OneMarkerPerWindow
<1> QED  BY <1>3 DEF LidRecoveryInv, CancelsRightly

\* A window that has not begun fits whatever the detector is, if it is idle.
LEMMA NoWindowFacts ==
  ASSUME NEW on \in BOOLEAN
  PROVE  /\ LR!NoWindow(on) \in LidWins
         /\ LR!NoWindow(on).lines = 0 /\ LR!NoWindow(on).low = LR!None
         /\ LR!NoWindow(on).markers = 0 /\ LR!NoWindow(on).stood = 0
         /\ LR!NoWindow(on).rise = LR!None /\ LR!NoWindow(on).clean = on
<1>1. LR!None \in LR!None .. TopPit /\ 0 \in 0 .. MinArmed + 1 /\ 0 \in 0 .. LidWindow
  BY LidNumbers
<1>2. LR!NoWindow(on) = [lines |-> 0, low |-> LR!None, markers |-> 0, stood |-> 0,
                         rise |-> LR!None, clean |-> on]
  BY DEF LR!NoWindow
<1> QED  BY <1>1, <1>2 DEF LidWins

\* A window of which nothing is known has not begun.
LEMMA ShutFacts ==
  ASSUME NEW w \in LidWins, w.lines = 0, w.low = LR!None, w.markers = 0, w.stood = 0,
         w.rise = LR!None
  PROVE  w = LR!NoWindow(w.clean)
BY DEF LR!NoWindow, LidWins

\* At first no window is open.
LEMMA LidRecoveryInit == Init => LidRecoveryInv
<1> SUFFICES ASSUME Init PROVE LidRecoveryInv
  OBVIOUS
<1>1. /\ lid = 0 /\ cancel = FALSE /\ det = LR!IdleDet /\ lidOn = TRUE /\ marked = FALSE
      /\ window = LR!NoWindow(TRUE)
  BY DEF Init, LR!Init
<1>2. window \in LidWins /\ window.lines = 0 /\ window.low = LR!None /\ window.markers = 0
      /\ window.stood = 0 /\ window.rise = LR!None /\ window.clean = TRUE
  <2>1. TRUE \in BOOLEAN
    OBVIOUS
  <2> QED  BY <1>1, <2>1, NoWindowFacts
<1>3. det.armed = LR!None /\ det.low = LR!None /\ det \in Dets
  BY <1>1, LidNumbers DEF LR!IdleDet, Dets
<1>4. LR!TypeOK
  BY <1>1, <1>2, <1>3, LidNumbers DEF LR!TypeOK, LidWins, Dets
<1>5. LR!CountsFit
  <2>1. window.clean
    BY <1>2
  <2>2. window = LR!NoWindow(window.clean)
    BY <1>1, <2>1
  <2>3. lid = 0
    BY <1>1
  <2> QED  BY <2>2, <2>3 DEF LR!CountsFit
<1>6. LR!MarkersArePaid /\ LR!SeesThisWindow /\ LR!CancelFollowsDip
  <2>1. LR!MarkersArePaid
    <3>1. ~marked
      BY <1>1
    <3> QED  BY <1>2, <3>1 DEF LR!MarkersArePaid
  <2>2. LR!SeesThisWindow
    BY <1>3 DEF LR!SeesThisWindow
  <2>3. LR!CancelFollowsDip
    BY <1>2 DEF LR!CancelFollowsDip
  <2> QED  BY <2>1, <2>2, <2>3
<1> QED  BY <1>4, <1>5, <1>6 DEF LidRecoveryInv

\* The lowest pit is no higher than any of the two.
LEMMA LowestPit ==
  ASSUME NEW low \in LR!None .. TopPit, NEW t \in LR!None .. TopPit
  PROVE  /\ LR!Lowest(low, t) \in LR!None .. TopPit
         /\ t # LR!None => LR!Lowest(low, t) # LR!None /\ LR!Lowest(low, t) <= t
         /\ low # LR!None => LR!Lowest(low, t) # LR!None /\ LR!Lowest(low, t) <= low
         /\ LR!Lowest(low, t) \in {low, t}
BY LidNumbers DEF LR!Lowest, LR!Smaller

\* A detector that follows a line is armed by it or a line older, and knows of no
\* pit but its own and the line's; one that is idle after an open window climbed.
LEMMA FollowingFacts ==
  ASSUME det \in Dets, NEW t \in LR!None .. TopPit, NEW open \in BOOLEAN
  PROVE  /\ LR!Following(t, open) \in Dets
         /\ ~open => LR!Following(t, open) = LR!IdleDet
         /\ LR!Armed(det, t) \in Dets
         /\ LR!Armed(det, t).armed =
              IF det.armed = LR!None THEN 0 ELSE LR!Smaller(MinArmed, det.armed + 1)
         /\ LR!Armed(det, t).low =
              IF det.armed = LR!None THEN t ELSE LR!Lowest(det.low, t)
         /\ LR!Following(t, open) \in {LR!IdleDet, LR!Armed(det, t)}
         /\ open /\ LR!Following(t, open) = LR!IdleDet => LR!Recovers(t, open)
<1> DEFINE d == LR!Armed(det, t)
           a == IF det.armed = LR!None THEN 0 ELSE LR!Smaller(MinArmed, det.armed + 1)
           l == IF det.armed = LR!None THEN t ELSE LR!Lowest(det.low, t)
<1>1. det.low \in LR!None .. TopPit /\ det.armed \in LR!None .. MinArmed
  BY DEF Dets
<1>2. a \in 0 .. MinArmed
  BY <1>1, LidNumbers DEF LR!Smaller
<1>3. l \in LR!None .. TopPit
  BY <1>1, LowestPit
<1>4. d = [armed |-> a, low |-> l]
  BY DEF LR!Armed
<1>5. LR!IdleDet \in Dets /\ a \in LR!None .. MinArmed
  BY <1>2, LidNumbers DEF LR!IdleDet, Dets
<1>6. d.armed = a /\ d.low = l
  BY <1>4
<1>7. d \in Dets
  <2> HIDE DEF a, l
  <2> QED  BY <1>3, <1>4, <1>5 DEF Dets
<1>8. d # LR!IdleDet
  BY <1>2, <1>6, LidNumbers DEF LR!IdleDet
<1>9. LR!Following(t, open) = IF ~open THEN LR!IdleDet
                              ELSE IF LR!Climbed(d, t) THEN LR!IdleDet ELSE d
  BY DEF LR!Following, LR!StandsDown
<1>10. LR!Recovers(t, open) <=> open /\ LR!Climbed(d, t)
  BY DEF LR!Recovers
<1> HIDE DEF d
<1> QED  BY <1>5, <1>6, <1>7, <1>8, <1>9, <1>10 DEF d

\* A line in an open window: its counts go on by one, its lowest pit is the lowest.
LEMMA WindowLine ==
  ASSUME LidRecoveryInv, NEW t \in LR!None .. TopPit, NEW b \in LR!Board, b.lid > 0,
         NEW rise \in LR!None .. TopPit, NEW mark \in 0 .. 1, NEW stand \in 0 .. 1,
         window' = [window EXCEPT
                !.lines   = LR!Smaller(MinArmed + 1, @ + 1),
                !.low     = LR!Lowest(@, t),
                !.markers = @ + mark,
                !.stood   = @ + stand,
                !.rise    = rise]
  PROVE  /\ window' \in LidWins
         /\ window'.lines = LR!Smaller(MinArmed + 1, window.lines + 1)
         /\ window'.low = LR!Lowest(window.low, t)
         /\ window'.markers = window.markers + mark /\ window'.stood = window.stood + stand
         /\ window'.rise = rise
         /\ window'.clean = window.clean
         /\ window'.markers + b.lid <= LidWindow + 1 /\ window'.stood + b.lid <= LidWindow + 1
<1> DEFINE n == LR!Smaller(MinArmed + 1, window.lines + 1)
           l == LR!Lowest(window.low, t)
           m == window.markers + mark
           s == window.stood + stand
<1>1. window \in LidWins /\ lid \in 0 .. LidWindow
  BY DEF LidRecoveryInv, LR!TypeOK, LidWins
<1>2. /\ window.lines \in 0 .. MinArmed + 1 /\ window.low \in LR!None .. TopPit
      /\ window.markers \in 0 .. LidWindow /\ window.stood \in 0 .. LidWindow
  BY <1>1 DEF LidWins
<1>3. n \in 0 .. MinArmed + 1
  BY <1>2, LidNumbers DEF LR!Smaller
<1>4. l \in LR!None .. TopPit
  BY <1>2, LowestPit
<1>5. m + b.lid <= LidWindow + 1 /\ s + b.lid <= LidWindow + 1 /\ b.lid \in 1 .. LidWindow
  <2>1. CASE lid = 0
    <3>1. window.markers = 0 /\ window.stood = 0
      BY <2>1 DEF LidRecoveryInv, LR!CountsFit, LR!NoWindow
    <3>2. b.lid = LidWindow
      BY <2>1 DEF LR!Board, LR!BoardAt
    <3> QED  BY <3>1, <3>2, LidNumbers
  <2>2. CASE lid # 0
    <3>1. window.markers + lid <= LidWindow + 1 /\ window.stood + lid <= LidWindow + 1
      BY <1>1, <2>2, LidNumbers DEF LidRecoveryInv, LR!CountsFit
    <3>2. b.lid = lid - 1
      BY <2>2 DEF LR!Board, LR!BoardAt
    <3> QED  BY <1>1, <1>2, <3>1, <3>2, LidNumbers
  <2> QED  BY <2>1, <2>2
<1>6. m \in 0 .. LidWindow /\ s \in 0 .. LidWindow
  BY <1>2, <1>5, LidNumbers
<1>7. window' = [window EXCEPT !.lines = n, !.low = l, !.markers = m, !.stood = s, !.rise = rise]
  BY <1>1 DEF LidWins
<1> HIDE DEF n, l, m, s
<1>8. /\ window' \in LidWins
      /\ window'.lines = n /\ window'.low = l /\ window'.markers = m /\ window'.stood = s /\ window'.rise = rise
      /\ window'.clean = window.clean
  BY <1>1, <1>3, <1>4, <1>6, <1>7 DEF LidWins
<1> QED  BY <1>5, <1>8 DEF n, l, m, s

\* Every step keeps the invariant of the lid recovery.
LEMMA LidRecoveryStep == LidRecoveryInv /\ [LR!Next]_lidRecoveryVars => LidRecoveryInv'
<1> SUFFICES ASSUME LidRecoveryInv, [LR!Next]_lidRecoveryVars PROVE LidRecoveryInv'
  OBVIOUS
<1>1. /\ lid \in 0 .. LidWindow /\ cancel \in BOOLEAN /\ det \in Dets /\ lidOn \in BOOLEAN
      /\ marked \in BOOLEAN /\ window \in LidWins
  BY DEF LidRecoveryInv, LR!TypeOK, Dets, LidWins
<1>2. /\ window.markers <= window.stood + (IF marked THEN 1 ELSE 0)
      /\ det.armed = LR!None => det.low = LR!None
      /\ window.clean /\ det.armed # LR!None => window.lines > det.armed
      /\ window.clean /\ det.low # LR!None =>
           window.low # LR!None /\ window.low <= det.low
  BY DEF LidRecoveryInv, LR!MarkersArePaid, LR!SeesThisWindow
<1>3. lid = 0 => window = LR!NoWindow(window.clean)
  BY DEF LidRecoveryInv, LR!CountsFit
<1>4. ASSUME lid' \in 0 .. LidWindow, cancel' \in BOOLEAN, det' \in Dets, lidOn' \in BOOLEAN,
             marked' \in BOOLEAN, window' \in LidWins
      PROVE  LR!TypeOK'
  BY <1>4 DEF LR!TypeOK, Dets, LidWins
<1>5. CASE LR!Sample
  <2>1. PICK t \in LR!None .. TopPit, b \in LR!Board :
          LET open == b.lid > 0
              acts == lidOn /\ LR!Cancels(t, open)
              was  == IF lid = 0 THEN LR!NoWindow(window.clean) ELSE window
          IN  /\ lid' = b.lid
              /\ cancel' = (b.cancel \/ acts)
              /\ det' = IF lidOn THEN LR!Following(t, open) ELSE det
              /\ marked' = (acts \/ (marked /\ ~(lidOn /\ LR!Unmarks(det'))))
              /\ window' = IF ~open THEN LR!NoWindow(lidOn)
                           ELSE [was EXCEPT
                                   !.lines   = LR!Smaller(MinArmed + 1, @ + 1),
                                   !.low     = LR!Lowest(@, t),
                                   !.markers = @ + (IF acts /\ ~marked THEN 1 ELSE 0),
                                   !.stood   = @ + (IF lidOn /\ LR!Recovers(t, open) /\ ~acts
                                                    THEN 1 ELSE 0),
                                   !.rise    = IF acts THEN t - LR!Lowest(was.low, t)
                                               ELSE LR!None]
              /\ UNCHANGED lidOn
    BY <1>5 DEF LR!Sample
  <2> DEFINE open == b.lid > 0
             acts == lidOn /\ LR!Cancels(t, open)
             recovers == LR!Recovers(t, open)
             mark == IF acts /\ ~marked THEN 1 ELSE 0
             stand == IF lidOn /\ recovers /\ ~acts THEN 1 ELSE 0
             rise == IF acts THEN t - LR!Lowest(window.low, t) ELSE LR!None
  <2>2. b.lid \in 0 .. LidWindow
    <3>1. CASE lid = 0
      <4>1. b.lid \in {0, LidWindow}
        BY <3>1 DEF LR!Board, LR!BoardAt
      <4> QED  BY <4>1, LidNumbers
    <3>2. CASE lid # 0
      <4>1. b.lid \in {lid - 1, 0}
        BY <3>2 DEF LR!Board, LR!BoardAt
      <4> QED  BY <1>1, <3>2, <4>1, LidNumbers
    <3> QED  BY <3>1, <3>2
  <2>3. /\ lid' = b.lid /\ lidOn' = lidOn /\ cancel' = (b.cancel \/ acts)
        /\ det' = IF lidOn THEN LR!Following(t, open) ELSE det
        /\ marked' = (acts \/ (marked /\ ~(lidOn /\ det' = LR!IdleDet)))
    BY <2>1 DEF LR!Unmarks
  <2>4. open \in BOOLEAN /\ acts \in BOOLEAN /\ mark \in 0 .. 1 /\ stand \in 0 .. 1
    OBVIOUS
  <2>5. acts => recovers /\ lidOn
    BY DEF LR!Cancels
  <2>6. recovers => open /\ t # LR!None /\ LR!Climbed(LR!Armed(det, t), t)
    BY DEF LR!Recovers, LR!Climbed
  <2>7. /\ LR!Following(t, open) \in Dets
        /\ ~open => LR!Following(t, open) = LR!IdleDet
        /\ LR!Armed(det, t) \in Dets
        /\ LR!Armed(det, t).armed =
             (IF det.armed = LR!None THEN 0 ELSE LR!Smaller(MinArmed, det.armed + 1))
        /\ LR!Armed(det, t).low = (IF det.armed = LR!None THEN t ELSE LR!Lowest(det.low, t))
        /\ LR!Following(t, open) \in {LR!IdleDet, LR!Armed(det, t)}
        /\ open /\ LR!Following(t, open) = LR!IdleDet => recovers
    BY <1>1, <2>4, FollowingFacts
  <2>8. LR!IdleDet.armed = LR!None /\ LR!IdleDet.low = LR!None
    BY DEF LR!IdleDet
  <2>9. det' \in Dets /\ marked' \in BOOLEAN /\ cancel' \in BOOLEAN
    BY <1>1, <2>2, <2>3, <2>4, <2>7
  <2>10. open => window' = [window EXCEPT
                              !.lines   = LR!Smaller(MinArmed + 1, @ + 1),
                              !.low     = LR!Lowest(@, t),
                              !.markers = @ + mark,
                              !.stood   = @ + stand,
                              !.rise    = rise]
    BY <1>3, <2>1
  <2>11. ~open => window' = LR!NoWindow(lidOn)
    BY <2>1
  <2> HIDE DEF open, acts, recovers, mark, stand, rise
  <2>12. CASE ~open
    <3>1. window' = LR!NoWindow(lidOn)
      BY <2>11, <2>12
    <3>2. /\ window' \in LidWins
          /\ window'.lines = 0 /\ window'.low = LR!None /\ window'.markers = 0
          /\ window'.stood = 0 /\ window'.rise = LR!None /\ window'.clean = lidOn
      BY <1>1, <3>1, NoWindowFacts
    <3>3. lid' = 0
      BY <2>2, <2>3, <2>12 DEF open
    <3>4. LR!TypeOK'
      BY <1>1, <1>4, <2>2, <2>3, <2>9, <3>2
    <3>5. LR!CountsFit'
      <4>1. window' = LR!NoWindow(window'.clean)
        BY <3>1, <3>2
      <4> QED  BY <3>3, <4>1 DEF LR!CountsFit
    <3>6. LR!MarkersArePaid'
      BY <2>9, <3>2 DEF LR!MarkersArePaid
    <3>7. LR!SeesThisWindow'
      <4>1. CASE lidOn
        BY <2>3, <2>7, <2>8, <2>12, <4>1 DEF LR!SeesThisWindow
      <4>2. CASE ~lidOn
        BY <1>2, <2>3, <3>2, <4>2 DEF LR!SeesThisWindow
      <4> QED  BY <4>1, <4>2
    <3>8. LR!CancelFollowsDip'
      BY <3>2 DEF LR!CancelFollowsDip
    <3> QED  BY <3>4, <3>5, <3>6, <3>7, <3>8 DEF LidRecoveryInv
  <2>13. CASE open
    <3>1. /\ window' \in LidWins
          /\ window'.lines = LR!Smaller(MinArmed + 1, window.lines + 1)
          /\ window'.low = LR!Lowest(window.low, t)
          /\ window'.markers = window.markers + mark /\ window'.stood = window.stood + stand
          /\ window'.rise = rise
          /\ window'.clean = window.clean
          /\ window'.markers + b.lid <= LidWindow + 1 /\ window'.stood + b.lid <= LidWindow + 1
      <4>1. window.low \in LR!None .. TopPit
        BY <1>1 DEF LidWins
      <4>2. rise \in LR!None .. TopPit
        <5>1. CASE acts
          <6>1. t # LR!None /\ rise = t - LR!Lowest(window.low, t)
            BY <2>5, <2>6, <5>1 DEF rise
          <6>2. LR!Lowest(window.low, t) \in LR!None .. TopPit
                /\ LR!Lowest(window.low, t) # LR!None /\ LR!Lowest(window.low, t) <= t
            BY <4>1, <6>1, LowestPit
          <6> QED  BY <6>1, <6>2, LidNumbers
        <5>2. CASE ~acts
          BY <5>2, LidNumbers DEF rise
        <5> QED  BY <5>1, <5>2
      <4>3. b.lid > 0 /\ mark \in 0 .. 1 /\ stand \in 0 .. 1
        BY <2>4, <2>13 DEF open
      <4>4. window' = [window EXCEPT
                         !.lines   = LR!Smaller(MinArmed + 1, @ + 1),
                         !.low     = LR!Lowest(@, t),
                         !.markers = @ + mark,
                         !.stood   = @ + stand,
                         !.rise    = rise]
        BY <2>10, <2>13
      <4> QED  BY <4>2, <4>3, <4>4, WindowLine
    <3>2. LR!TypeOK'
      BY <1>1, <1>4, <2>2, <2>3, <2>9, <3>1
    <3>3. LR!CountsFit'
      BY <2>3, <2>13, <3>1, <2>2 DEF LR!CountsFit, open
    <3>4. LR!MarkersArePaid'
      <4>1. window.markers \in 0 .. LidWindow /\ window.stood \in 0 .. LidWindow
        BY <1>1 DEF LidWins
      <4>2. window'.markers = window.markers + mark /\ window'.stood = window.stood + stand
        BY <3>1
      <4>3. CASE acts
        <5>1. marked' /\ window.markers + mark <= window.stood + 1 /\ stand = 0
          <6>1. marked' /\ stand = 0
            BY <2>3, <4>3 DEF stand
          <6>2. CASE marked
            <7>1. mark = 0 /\ window.markers <= window.stood + 1
              BY <1>2, <6>2 DEF mark
            <7> QED  BY <4>1, <6>1, <7>1
          <6>3. CASE ~marked
            <7>1. mark = 1 /\ window.markers <= window.stood + 0
              BY <1>2, <4>3, <6>3 DEF mark
            <7> QED  BY <4>1, <6>1, <7>1
          <6> QED  BY <6>2, <6>3
        <5> QED  BY <4>1, <4>2, <5>1 DEF LR!MarkersArePaid
      <4>4. CASE ~acts /\ (~marked \/ marked')
        BY <1>2, <2>3, <4>1, <4>2, <4>4 DEF LR!MarkersArePaid, mark, stand
      <4>5. CASE ~acts /\ marked /\ ~marked'
        <5>1. lidOn /\ recovers
          BY <2>3, <2>7, <2>13, <4>5
        <5> QED  BY <1>2, <4>1, <4>2, <4>5, <5>1 DEF LR!MarkersArePaid, mark, stand
      <4> QED  BY <2>9, <4>3, <4>4, <4>5
    <3>5. LR!SeesThisWindow' /\ LR!CancelFollowsDip'
      <4>1. /\ det.armed \in LR!None .. MinArmed /\ det.low \in LR!None .. TopPit
            /\ window.lines \in 0 .. MinArmed + 1 /\ window.low \in LR!None .. TopPit
        BY <1>1 DEF Dets, LidWins
      <4> DEFINE d == LR!Armed(det, t)
      <4>2. /\ d.armed = (IF det.armed = LR!None THEN 0 ELSE LR!Smaller(MinArmed, det.armed + 1))
            /\ d.low = (IF det.armed = LR!None THEN t ELSE LR!Lowest(det.low, t))
            /\ d \in Dets
        BY <2>7
      <4> HIDE DEF d
      <4>3. window.clean => window'.lines > d.armed
        BY <1>2, <3>1, <4>1, <4>2, LidNumbers DEF LR!Smaller
      <4>4. /\ window'.low \in LR!None .. TopPit
            /\ t # LR!None => window'.low # LR!None /\ window'.low <= t
            /\ window.low # LR!None => window'.low # LR!None /\ window'.low <= window.low
        <5>1. window'.low = LR!Lowest(window.low, t)
          BY <3>1
        <5>2. /\ LR!Lowest(window.low, t) \in LR!None .. TopPit
              /\ t # LR!None =>
                   LR!Lowest(window.low, t) # LR!None /\ LR!Lowest(window.low, t) <= t
              /\ window.low # LR!None =>
                   LR!Lowest(window.low, t) # LR!None /\ LR!Lowest(window.low, t) <= window.low
          BY <4>1, LowestPit
        <5> QED  BY <5>1, <5>2
      <4>5. d.low \in {t, det.low} /\ d.low \in LR!None .. TopPit
            /\ (det.armed = LR!None => d.low = t) /\ d.armed # LR!None
        <5>1. det.armed # LR!None => d.low \in {t, det.low}
          BY <4>1, <4>2, LowestPit
        <5>2. d.armed # LR!None
          BY <4>1, <4>2, LidNumbers DEF LR!Smaller
        <5> QED  BY <4>2, <5>1, <5>2 DEF Dets
      <4>6. window.clean /\ d.low # LR!None => window'.low # LR!None /\ window'.low <= d.low
        BY <1>2, <4>1, <4>4, <4>5, LidNumbers
      <4>7. det' \in {LR!IdleDet, d, det}
        BY <2>3, <2>7 DEF d
      <4>8. LR!SeesThisWindow'
        <5>1. CASE det' = LR!IdleDet
          BY <2>8, <5>1 DEF LR!SeesThisWindow
        <5>2. CASE det' = d
          BY <3>1, <4>3, <4>5, <4>6, <5>2 DEF LR!SeesThisWindow
        <5>3. CASE det' = det
          <6>1. window.clean /\ det.armed # LR!None => window'.lines > det.armed
            BY <1>2, <3>1, <4>1, LidNumbers DEF LR!Smaller
          <6>2. window.clean /\ det.low # LR!None =>
                  window'.low # LR!None /\ window'.low <= det.low
            BY <1>2, <4>1, <4>4, LidNumbers
          <6> QED  BY <1>2, <3>1, <5>3, <6>1, <6>2 DEF LR!SeesThisWindow
        <5> QED  BY <4>7, <5>1, <5>2, <5>3
      <4>9. LR!CancelFollowsDip'
        <5> SUFFICES ASSUME window'.rise # LR!None, window'.clean
                     PROVE  window'.lines > MinArmed /\ window'.rise >= Delta
          BY DEF LR!CancelFollowsDip
        <5>1. acts
          BY <3>1 DEF rise
        <5>2. t # LR!None /\ d.low # LR!None /\ d.armed >= MinArmed /\ t - d.low >= Delta
          BY <2>5, <2>6, <5>1 DEF LR!Climbed, d
        <5>3. window'.lines > d.armed /\ window'.low <= d.low /\ d.armed \in LR!None .. MinArmed
          BY <3>1, <4>2, <4>3, <4>6, <5>2 DEF Dets
        <5>4. window'.rise = t - window'.low
          BY <3>1, <5>1 DEF rise
        <5>5. window'.lines \in 0 .. MinArmed + 1
          BY <3>1 DEF LidWins
        <5> QED  BY <4>4, <4>5, <5>2, <5>3, <5>4, <5>5, LidNumbers
      <4> QED  BY <4>8, <4>9
    <3> QED  BY <3>2, <3>3, <3>4, <3>5 DEF LidRecoveryInv
  <2> QED  BY <2>12, <2>13
<1>6. CASE LR!SaveConfig
  <2>1. UNCHANGED <<lid, cancel, det, marked, window>> /\ lidOn' = ~lidOn
    BY <1>6 DEF LR!SaveConfig
  <2>2. LR!TypeOK'
    BY <1>1, <1>4, <2>1
  <2>3. LR!CountsFit' /\ LR!MarkersArePaid' /\ LR!SeesThisWindow' /\ LR!CancelFollowsDip'
    BY <2>1 DEF LidRecoveryInv, LR!CountsFit, LR!MarkersArePaid, LR!SeesThisWindow,
                LR!CancelFollowsDip
  <2> QED  BY <2>2, <2>3 DEF LidRecoveryInv
<1>7. CASE LR!Restart
  <2>1. /\ det' = LR!IdleDet /\ marked' = FALSE /\ UNCHANGED <<lid, cancel, lidOn>>
        /\ window' = [window EXCEPT !.clean = FALSE, !.markers = 0, !.stood = 0,
                                    !.rise = LR!None]
    BY <1>7 DEF LR!Restart
  <2>2. 0 \in 0 .. LidWindow /\ LR!None \in LR!None .. TopPit
    BY LidNumbers
  <2>3. /\ window' \in LidWins /\ ~window'.clean /\ window'.markers = 0 /\ window'.stood = 0
        /\ window'.rise = LR!None /\ window'.lines = window.lines /\ window'.low = window.low
    BY <1>1, <2>1, <2>2 DEF LidWins
  <2>4. det' \in Dets
    BY <2>1, LidNumbers DEF LR!IdleDet, Dets
  <2>5. LR!TypeOK'
    BY <1>1, <1>4, <2>1, <2>3, <2>4
  <2>6. LR!CountsFit'
    <3>1. lid = 0 => window.lines = 0 /\ window.low = LR!None
      BY <1>3 DEF LR!NoWindow
    <3>2. lid = 0 => window' = LR!NoWindow(window'.clean)
      BY <2>3, <3>1, ShutFacts
    <3>3. lid' = lid /\ lid \in 0 .. LidWindow
      BY <1>1, <2>1
    <3>4. lid' = 0 => window' = LR!NoWindow(window'.clean)
      BY <3>2, <3>3
    <3>5. lid' > 0 => window'.markers + lid' <= LidWindow + 1
                      /\ window'.stood + lid' <= LidWindow + 1
      BY <2>3, <3>3, LidNumbers
    <3> QED  BY <3>4, <3>5 DEF LR!CountsFit
  <2>7. LR!MarkersArePaid'
    BY <2>3 DEF LR!MarkersArePaid
  <2>8. LR!SeesThisWindow' /\ LR!CancelFollowsDip'
    BY <2>1, <2>3 DEF LR!SeesThisWindow, LR!CancelFollowsDip, LR!IdleDet
  <2> QED  BY <2>5, <2>6, <2>7, <2>8 DEF LidRecoveryInv
<1>8. CASE UNCHANGED lidRecoveryVars
  BY <1>8 DEF lidRecoveryVars, LidRecoveryInv, LR!TypeOK, LR!CountsFit, LR!MarkersArePaid,
              LR!SeesThisWindow, LR!CancelFollowsDip
<1> QED  BY <1>5, <1>6, <1>7, <1>8 DEF LR!Next

-----------------------------------------------------------------------------
(* CookDone: no probe in food is found done.                               *)

\* A probe in the world, and what the detector keeps of it
Foods   == [place : {"food", "air", "unplugged"}, heat : 0 .. Top, inFor : 0 .. Lag,
            target : Targets \cup {CD!None}]
Watches == [reached : BOOLEAN, out : CD!None .. Grace, low : CD!None .. Top, done : BOOLEAN]

\* The constants, spelled out.
LEMMA CookDoneNumbers ==
  /\ CD!None = -1
  /\ Top \in Nat /\ Drop \in Nat \ {0} /\ Rise \in Nat /\ Band \in Nat
  /\ Grace \in Nat \ {0} /\ Lag \in Nat /\ Rise < Lag
  /\ Targets \subseteq 1 .. Top
BY PartsConstants DEF CD!CookDoneConstants, CD!None

\* Food warms by one, while the probe is new in it at least, up to the top.
LEMMA LaterFacts ==
  ASSUME NEW f \in Foods, NEW g \in CD!Later(f)
  PROVE  /\ g \in Foods /\ g.place = f.place /\ g.target = f.target
         /\ f.place = "food" =>
              /\ g.inFor = CD!Smaller(Lag, f.inFor + 1)
              /\ \/ g.heat = CD!Smaller(Top, f.heat + 1)
                 \/ f.inFor >= Lag /\ g.heat = CD!Smaller(Top, f.heat)
<1>1. f.heat \in 0 .. Top /\ f.inFor \in 0 .. Lag /\ f.place \in {"food", "air", "unplugged"}
  BY DEF Foods
<1>2. CASE f.place = "food"
  <2>1. PICK h \in (IF f.inFor < Lag THEN {f.heat + 1} ELSE {f.heat, f.heat + 1}) :
          g = [f EXCEPT !.heat = CD!Smaller(Top, h), !.inFor = CD!Smaller(Lag, f.inFor + 1)]
    BY <1>2 DEF CD!Later
  <2> DEFINE k == CD!Smaller(Top, h)
             n == CD!Smaller(Lag, f.inFor + 1)
  <2>2. h = f.heat + 1 \/ (h = f.heat /\ f.inFor >= Lag)
    BY <1>1, CookDoneNumbers
  <2>3. k \in 0 .. Top /\ n \in 0 .. Lag
    BY <1>1, <2>2, CookDoneNumbers DEF CD!Smaller
  <2>4. g = [f EXCEPT !.heat = k, !.inFor = n]
    BY <2>1
  <2> HIDE DEF k, n
  <2>5. g \in Foods /\ g.place = f.place /\ g.target = f.target /\ g.heat = k /\ g.inFor = n
    BY <2>3, <2>4 DEF Foods
  <2> QED  BY <2>2, <2>5 DEF k, n
<1>3. CASE f.place = "air"
  <2>1. PICK h \in {x \in {f.heat - 1, f.heat - 2} : x >= 0} \cup
                   (IF f.heat = 0 THEN {0} ELSE {}) :
          g = [f EXCEPT !.heat = h]
    BY <1>3 DEF CD!Later
  <2>2. h \in 0 .. Top
    BY <1>1, <2>1, CookDoneNumbers
  <2> QED  BY <1>3, <2>1, <2>2 DEF Foods
<1>4. CASE f.place = "unplugged"
  BY <1>4 DEF CD!Later
<1> QED  BY <1>1, <1>2, <1>3, <1>4

\* The lowest of two readings
LEMMA LowestReading ==
  ASSUME NEW low \in CD!None .. Top, NEW t \in CD!None .. Top
  PROVE  /\ CD!Lowest(low, t) \in CD!None .. Top
         /\ t # CD!None => CD!Lowest(low, t) # CD!None /\ CD!Lowest(low, t) <= t
         /\ low # CD!None => CD!Lowest(low, t) # CD!None /\ CD!Lowest(low, t) <= low
BY CookDoneNumbers DEF CD!Lowest, CD!Smaller

\* A probe is a candidate once it reached its target; a candidate that stays one,
\* or is found done, did not rise off the lowest of its readings.
LEMMA UpdateFacts ==
  ASSUME NEW w \in Watches, NEW t \in CD!None .. Top, NEW goal, NEW amb,
         w.out # CD!None => w.reached,
         NEW u, u = CD!Update(w, t, goal, amb)
  PROVE  /\ u \in Watches
         /\ u.out # CD!None => u.reached
         /\ u.done /\ ~w.done => w.out # CD!None /\ u.out # CD!None
         /\ u.out # CD!None /\ w.out = CD!None => u.low = t
         /\ u.out # CD!None /\ w.out # CD!None /\ ~w.done =>
              u.low = CD!Lowest(w.low, t) /\ ~CD!Reinserted(CD!Lowest(w.low, t), t, goal)
<1> DEFINE hit == w.reached \/ t >= goal
           r == [w EXCEPT !.reached = hit]
           low == CD!Lowest(w.low, t)
           out == CD!Smaller(Grace, w.out + 1)
           ends == out >= Grace
<1>1. hit \in BOOLEAN /\ ends \in BOOLEAN
  BY DEF Watches
<1>2. low \in CD!None .. Top
  BY LowestReading DEF Watches
<1>3. /\ r \in Watches /\ r.reached = hit /\ r.out = w.out /\ r.low = w.low
      /\ r.done = w.done
  <2> HIDE DEF hit
  <2> QED  BY <1>1 DEF Watches
<1>4. w.out \in CD!None .. Grace /\ CD!None \in CD!None .. Grace /\ 0 \in CD!None .. Grace
      /\ CD!None \in CD!None .. Top /\ CD!None # 0
  BY CookDoneNumbers DEF Watches
<1> HIDE DEF low, ends
<1>5. u = IF w.done \/ ~r.reached THEN r
          ELSE IF w.out = CD!None THEN CD!Pulled(r, t, goal, amb)
          ELSE IF CD!Reinserted(low, t, goal) THEN [r EXCEPT !.out = CD!None, !.low = CD!None]
          ELSE CD!StillOut(r, low)
  BY DEF CD!Update, low
<1>6. CASE w.done \/ ~r.reached
  BY <1>3, <1>5, <1>6
<1> HIDE DEF r, hit
<1>7. CASE ~w.done /\ r.reached /\ w.out = CD!None
  <2>1. CASE CD!Arms(t, goal, amb)
    <3>1. u = [r EXCEPT !.out = 0, !.low = t]
      BY <1>5, <1>7, <2>1 DEF CD!Pulled
    <3>2. u \in Watches /\ u.low = t /\ u.done = w.done /\ u.reached = r.reached
      BY <1>3, <1>4, <3>1 DEF Watches
    <3> QED  BY <1>3, <1>7, <3>2
  <2>2. CASE ~CD!Arms(t, goal, amb)
    <3>1. u = r
      BY <1>5, <1>7, <2>2 DEF CD!Pulled
    <3> QED  BY <1>3, <1>7, <3>1
  <2> QED  BY <2>1, <2>2
<1>8. CASE ~w.done /\ r.reached /\ w.out # CD!None /\ CD!Reinserted(low, t, goal)
  <2>1. u = [r EXCEPT !.out = CD!None, !.low = CD!None]
    BY <1>5, <1>8
  <2>2. u \in Watches /\ u.out = CD!None /\ u.done = w.done
    BY <1>3, <1>4, <2>1 DEF Watches
  <2> QED  BY <1>8, <2>2
<1>9. CASE ~w.done /\ r.reached /\ w.out # CD!None /\ ~CD!Reinserted(low, t, goal)
  <2>1. u = [r EXCEPT !.out = out, !.low = low, !.done = ends]
    BY <1>3, <1>5, <1>9 DEF CD!StillOut, ends
  <2>2. out \in 0 .. Grace
    BY <1>4, <1>9, CookDoneNumbers DEF CD!Smaller
  <2>3. out \in CD!None .. Grace /\ out # CD!None
    BY <2>2, CookDoneNumbers
  <2> HIDE DEF out
  <2>4. u \in Watches /\ u.low = low /\ u.reached = r.reached
    BY <1>1, <1>2, <1>3, <2>1, <2>3 DEF Watches
  <2>5. u.out = out
    BY <1>3, <2>1 DEF Watches
  <2> QED  BY <1>9, <2>3, <2>4, <2>5 DEF low
<1> QED  BY <1>6, <1>7, <1>8, <1>9

\* The invariant of the completion detector
CookDoneInv == CD!TypeOK /\ CD!CandidatesReached /\ CD!RisesInFood

\* At first there is no candidate.
LEMMA CookDoneInit == Init => CookDoneInv
<1> SUFFICES ASSUME Init PROVE CookDoneInv
  OBVIOUS
<1>1. /\ food = [p \in Probes |-> [place |-> "food", heat |-> 0, inFor |-> Lag,
                                   target |-> CD!None]]
      /\ unseen = {} /\ watch = [p \in Probes |-> CD!Fresh]
      /\ doneCfg = TRUE /\ completed = FALSE
  BY DEF Init, CD!Init
<1>2. [place |-> "food", heat |-> 0, inFor |-> Lag, target |-> CD!None] \in Foods
  <2>1. 0 \in 0 .. Top /\ Lag \in 0 .. Lag
    BY CookDoneNumbers
  <2> QED  BY <2>1 DEF Foods
<1>3. CD!Fresh \in Watches /\ CD!Fresh.out = CD!None
  BY CookDoneNumbers DEF CD!Fresh, Watches
<1>4. CD!TypeOK
  <2>1. food \in [Probes -> Foods] /\ watch \in [Probes -> Watches]
    BY <1>1, <1>2, <1>3
  <2> QED  BY <1>1, <2>1 DEF CD!TypeOK, Foods, Watches
<1>5. CD!CandidatesReached /\ CD!RisesInFood
  BY <1>1, <1>3 DEF CD!CandidatesReached, CD!RisesInFood
<1> QED  BY <1>4, <1>5 DEF CookDoneInv

\* No probe that was pulled and is warm in food again is found done.
FindsNoneInFood ==
  \A p \in Probes :
    ~watch[p].done /\ watch'[p].done /\ p \notin unseen'
      => ~(food'[p].place = "food" /\ food'[p].inFor >= Lag)

\* Every step keeps the invariant, and finds no such probe done.
LEMMA CookDoneStep ==
  CookDoneInv /\ [CD!Next]_cookDoneVars => CookDoneInv' /\ FindsNoneInFood
<1> SUFFICES ASSUME CookDoneInv, [CD!Next]_cookDoneVars
             PROVE  CookDoneInv' /\ FindsNoneInFood
  OBVIOUS
<1>1. /\ food \in [Probes -> Foods] /\ unseen \subseteq Probes
      /\ watch \in [Probes -> Watches] /\ doneCfg \in BOOLEAN /\ completed \in BOOLEAN
  BY DEF CookDoneInv, CD!TypeOK, Foods, Watches
<1>2. \A p \in Probes : watch[p].out # CD!None => watch[p].reached
  BY DEF CookDoneInv, CD!CandidatesReached
<1>3. \A p \in Probes \ unseen :
        watch[p].out # CD!None /\ ~watch[p].done =>
          /\ watch[p].low # CD!None
          /\ food[p].place = "food" /\ food[p].inFor > 0 =>
               food[p].heat = Top \/ food[p].heat - watch[p].low >= food[p].inFor - 1
  BY DEF CookDoneInv, CD!RisesInFood
<1>4. ASSUME food' \in [Probes -> Foods], unseen' \subseteq Probes,
             watch' \in [Probes -> Watches], doneCfg' \in BOOLEAN, completed' \in BOOLEAN
      PROVE  CD!TypeOK'
  BY <1>4 DEF CD!TypeOK, Foods, Watches
<1>5. CASE CD!Sample
  <2>1. PICK f \in [Probes -> UNION {CD!Later(food[p]) : p \in Probes}], amb \in Ambients :
          /\ \A p \in Probes : f[p] \in CD!Later(food[p])
          /\ LET looks == IF doneCfg THEN CD!Participating(f) ELSE {}
                 w     == [p \in Probes |->
                             IF p \in looks
                             THEN CD!Update(watch[p], CD!Reading(f[p]), f[p].target, amb)
                             ELSE watch[p]]
             IN  /\ food' = f
                 /\ watch' = w
                 /\ unseen' = {p \in Probes :
                                 /\ w[p].out # CD!None
                                 /\ \/ p \in unseen \/ p \notin looks
                                    \/ CD!Reading(f[p]) = CD!None
                                    \/ watch[p].out = CD!None /\ f[p].place = "food"}
                 /\ completed' = (completed \/ (doneCfg /\ CD!Completes(f, w)))
          /\ UNCHANGED doneCfg
    BY <1>5 DEF CD!Sample
  <2> DEFINE looks == IF doneCfg THEN CD!Participating(f) ELSE {}
  <2>2. /\ food' = f /\ doneCfg' = doneCfg
        /\ watch' = [p \in Probes |->
                       IF p \in looks
                       THEN CD!Update(watch[p], CD!Reading(f[p]), f[p].target, amb)
                       ELSE watch[p]]
        /\ unseen' = {p \in Probes :
                        /\ watch'[p].out # CD!None
                        /\ \/ p \in unseen \/ p \notin looks
                           \/ CD!Reading(f[p]) = CD!None
                           \/ watch[p].out = CD!None /\ f[p].place = "food"}
        /\ completed' \in BOOLEAN
    BY <2>1
  <2>3. \A p \in Probes :
          /\ f[p] \in Foods /\ f[p].place = food[p].place
          /\ food[p].place = "food" =>
               /\ f[p].inFor = CD!Smaller(Lag, food[p].inFor + 1)
               /\ \/ f[p].heat = CD!Smaller(Top, food[p].heat + 1)
                  \/ food[p].inFor >= Lag /\ f[p].heat = CD!Smaller(Top, food[p].heat)
    BY <1>1, <2>1, LaterFacts
  <2>4. looks \subseteq {p \in Probes : f[p].target # CD!None}
    BY DEF CD!Participating
  <2> HIDE DEF looks
  <2>5. ASSUME NEW p \in Probes
        PROVE  /\ watch'[p] \in Watches
               /\ watch'[p].out # CD!None => watch'[p].reached
               /\ p \in looks /\ watch'[p].done /\ ~watch[p].done =>
                    watch[p].out # CD!None /\ watch'[p].out # CD!None
               /\ p \in looks /\ watch'[p].out # CD!None /\ watch[p].out = CD!None =>
                    watch'[p].low = CD!Reading(f[p])
               /\ p \in looks /\ watch'[p].out # CD!None /\ watch[p].out # CD!None
                  /\ ~watch[p].done =>
                    /\ watch'[p].low = CD!Lowest(watch[p].low, CD!Reading(f[p]))
                    /\ ~CD!Reinserted(watch'[p].low, CD!Reading(f[p]), f[p].target)
    <3>1. watch[p] \in Watches /\ (watch[p].out # CD!None => watch[p].reached)
      BY <1>1, <1>2, <2>5
    <3>2. CASE p \notin looks
      BY <2>2, <2>5, <3>1, <3>2
    <3>3. CASE p \in looks
      <4>1. watch'[p] = CD!Update(watch[p], CD!Reading(f[p]), f[p].target, amb)
        BY <2>2, <2>5, <3>3
      <4>2. CD!Reading(f[p]) \in CD!None .. Top
        <5>1. f[p].heat \in 0 .. Top
          BY <2>3, <2>5 DEF Foods
        <5> QED  BY <5>1, CookDoneNumbers DEF CD!Reading
      <4> QED  BY <3>1, <3>3, <4>1, <4>2, UpdateFacts
    <3> QED  BY <3>2, <3>3
  <2>6. CD!TypeOK'
    <3>1. food' \in [Probes -> Foods]
      BY <2>2, <2>3
    <3>2. watch' \in [Probes -> Watches]
      BY <2>2, <2>5
    <3> QED  BY <1>1, <1>4, <2>2, <3>1, <3>2
  <2>7. CD!CandidatesReached'
    BY <2>5 DEF CD!CandidatesReached
  <2>8. ASSUME NEW p \in Probes \ unseen', watch'[p].out # CD!None, ~watch[p].done
        PROVE  /\ p \in looks /\ CD!Reading(f[p]) = f[p].heat
               /\ watch'[p].low # CD!None /\ watch'[p].low <= f[p].heat
               /\ f[p].place = "food" /\ f[p].inFor > 0 =>
                    /\ watch[p].out # CD!None
                    /\ f[p].heat = Top \/ f[p].heat - watch'[p].low >= f[p].inFor - 1
    <3>1. /\ p \in Probes /\ p \in looks /\ p \notin unseen
          /\ CD!Reading(f[p]) # CD!None
          /\ watch[p].out = CD!None => f[p].place # "food"
      BY <2>2, <2>8
    <3>2. CD!Reading(f[p]) = f[p].heat
      BY <3>1 DEF CD!Reading
    <3>3. /\ f[p].heat \in 0 .. Top /\ f[p].inFor \in 0 .. Lag
          /\ food[p].heat \in 0 .. Top /\ food[p].inFor \in 0 .. Lag
          /\ watch[p].low \in CD!None .. Top
      BY <1>1, <2>3, <3>1 DEF Foods, Watches
    <3>4. CASE watch[p].out = CD!None
      <4>1. watch'[p].low = f[p].heat
        BY <2>5, <2>8, <3>1, <3>2, <3>4
      <4> QED  BY <3>1, <3>2, <3>3, <3>4, <4>1, CookDoneNumbers
    <3>5. CASE watch[p].out # CD!None
      <4>1. watch'[p].low = CD!Lowest(watch[p].low, f[p].heat)
        BY <2>5, <2>8, <3>1, <3>2, <3>5
      <4>2. /\ f[p].heat \in CD!None .. Top /\ f[p].heat # CD!None
        BY <3>3, CookDoneNumbers
      <4>3. /\ watch[p].low # CD!None
            /\ food[p].place = "food" /\ food[p].inFor > 0 =>
                 food[p].heat = Top \/ food[p].heat - watch[p].low >= food[p].inFor - 1
        BY <1>3, <2>8, <3>1, <3>5
      <4>4. /\ watch'[p].low \in CD!None .. Top /\ watch'[p].low # CD!None
            /\ watch'[p].low <= f[p].heat /\ watch'[p].low <= watch[p].low
        BY <3>3, <4>1, <4>2, <4>3, LowestReading
      <4>5. ASSUME f[p].place = "food", f[p].inFor > 0
            PROVE  f[p].heat = Top \/ f[p].heat - watch'[p].low >= f[p].inFor - 1
        <5>1. /\ food[p].place = "food"
              /\ f[p].inFor = CD!Smaller(Lag, food[p].inFor + 1)
              /\ \/ f[p].heat = CD!Smaller(Top, food[p].heat + 1)
                 \/ food[p].inFor >= Lag /\ f[p].heat = CD!Smaller(Top, food[p].heat)
          BY <2>3, <3>1, <4>5
        <5>2. CASE food[p].inFor = 0
          BY <3>3, <4>4, <4>5, <5>1, <5>2, CookDoneNumbers DEF CD!Smaller
        <5>3. CASE food[p].inFor > 0
          BY <3>3, <4>3, <4>4, <4>5, <5>1, <5>3, CookDoneNumbers DEF CD!Smaller
        <5> QED  BY <3>3, <5>2, <5>3
      <4> QED  BY <3>1, <3>2, <3>5, <4>4, <4>5
    <3> QED  BY <3>4, <3>5
  <2>9. CD!RisesInFood'
    <3> SUFFICES ASSUME NEW p \in Probes \ unseen', watch'[p].out # CD!None, ~watch'[p].done
                 PROVE  /\ watch'[p].low # CD!None
                        /\ food'[p].place = "food" /\ food'[p].inFor > 0 =>
                             \/ food'[p].heat = Top
                             \/ food'[p].heat - watch'[p].low >= food'[p].inFor - 1
      BY DEF CD!RisesInFood
    <3>1. ~watch[p].done
      <4>1. watch[p].done => watch'[p].done
        BY <1>1, <2>2 DEF CD!Update, Watches
      <4> QED  BY <4>1
    <3> QED  BY <2>2, <2>8, <3>1
  <2>10. FindsNoneInFood
    <3> SUFFICES ASSUME NEW p \in Probes, ~watch[p].done, watch'[p].done, p \notin unseen',
                        food'[p].place = "food", food'[p].inFor >= Lag
                 PROVE  FALSE
      BY DEF FindsNoneInFood
    <3>1. p \in looks
      BY <2>2
    <3>2. watch[p].out # CD!None /\ watch'[p].out # CD!None
      BY <2>5, <3>1
    <3>3. /\ CD!Reading(f[p]) = f[p].heat
          /\ watch'[p].low # CD!None /\ watch'[p].low <= f[p].heat
          /\ f[p].place = "food" /\ f[p].inFor > 0 =>
               f[p].heat = Top \/ f[p].heat - watch'[p].low >= f[p].inFor - 1
      BY <2>8, <3>2
    <3>4. ~CD!Reinserted(watch'[p].low, f[p].heat, f[p].target)
      BY <2>5, <3>1, <3>2, <3>3
    <3>5. /\ f[p].heat \in 0 .. Top /\ f[p].inFor \in 0 .. Lag /\ f[p].target \in 1 .. Top
          /\ watch'[p].low \in CD!None .. Top
      <4>1. f[p].target # CD!None
        BY <2>4, <3>1
      <4> QED  BY <2>3, <2>5, <4>1, CookDoneNumbers DEF Foods, Watches
    <3>6. f[p].heat - watch'[p].low < Rise /\ f[p].heat <= f[p].target - Drop
      BY <3>4, <3>5, CookDoneNumbers DEF CD!Reinserted
    <3>7. f[p].place = "food" /\ f[p].inFor >= Lag
      BY <2>2
    <3> QED  BY <3>3, <3>5, <3>6, <3>7, CookDoneNumbers
  <2> QED  BY <2>6, <2>7, <2>9, <2>10 DEF CookDoneInv
<1>6. ASSUME NEW p \in Probes, NEW place \in {"food", "air", "unplugged"}, CD!Move(p, place)
      PROVE  CookDoneInv' /\ FindsNoneInFood
  <2> DEFINE h == IF place = "unplugged" THEN 0 ELSE food[p].heat
             g == [food[p] EXCEPT !.place = place, !.inFor = 0, !.heat = h]
  <2>1. food' = [food EXCEPT ![p] = g] /\ UNCHANGED <<unseen, watch, doneCfg, completed>>
    BY <1>1, <1>6 DEF CD!Move, Foods
  <2>2. h \in 0 .. Top /\ 0 \in 0 .. Lag
    BY <1>1, CookDoneNumbers DEF Foods
  <2> HIDE DEF h
  <2>3. g \in Foods /\ g.inFor = 0
    BY <1>1, <2>2 DEF Foods
  <2> HIDE DEF g
  <2>4. food' \in [Probes -> Foods]
    BY <1>1, <2>1, <2>3
  <2>5. CD!TypeOK'
    BY <1>1, <1>4, <2>1, <2>4
  <2>6. CD!CandidatesReached'
    BY <1>2, <2>1 DEF CD!CandidatesReached
  <2>7. CD!RisesInFood'
    <3> SUFFICES ASSUME NEW q \in Probes \ unseen, watch[q].out # CD!None, ~watch[q].done
                 PROVE  /\ watch[q].low # CD!None
                        /\ food'[q].place = "food" /\ food'[q].inFor > 0 =>
                             \/ food'[q].heat = Top
                             \/ food'[q].heat - watch[q].low >= food'[q].inFor - 1
      BY <2>1 DEF CD!RisesInFood
    <3>1. CASE q = p
      <4>1. food'[q].inFor = 0
        BY <1>1, <2>1, <2>3, <3>1
      <4> QED  BY <1>3, <4>1
    <3>2. CASE q # p
      <4>1. food'[q] = food[q]
        BY <1>1, <2>1, <3>2
      <4> QED  BY <1>3, <4>1
    <3> QED  BY <3>1, <3>2
  <2> QED  BY <2>1, <2>5, <2>6, <2>7 DEF CookDoneInv, FindsNoneInFood
<1>7. ASSUME NEW p \in Probes, NEW goal \in Targets \cup {CD!None}, CD!SetTarget(p, goal)
      PROVE  CookDoneInv' /\ FindsNoneInFood
  <2> DEFINE g == [food[p] EXCEPT !.target = goal]
  <2>1. food' = [food EXCEPT ![p] = g] /\ UNCHANGED <<unseen, watch, doneCfg, completed>>
    BY <1>7 DEF CD!SetTarget
  <2>2. /\ g \in Foods /\ g.place = food[p].place /\ g.heat = food[p].heat
        /\ g.inFor = food[p].inFor
    BY <1>1, <1>7 DEF Foods
  <2> HIDE DEF g
  <2>3. food' \in [Probes -> Foods]
    BY <1>1, <2>1, <2>2
  <2>4. \A q \in Probes : /\ food'[q].place = food[q].place /\ food'[q].heat = food[q].heat
                          /\ food'[q].inFor = food[q].inFor
    BY <1>1, <2>1, <2>2
  <2>5. CD!TypeOK'
    BY <1>1, <1>4, <2>1, <2>3
  <2>6. CD!CandidatesReached' /\ CD!RisesInFood'
    BY <1>2, <1>3, <2>1, <2>4 DEF CD!CandidatesReached, CD!RisesInFood
  <2> QED  BY <2>1, <2>5, <2>6 DEF CookDoneInv, FindsNoneInFood
<1>8. CASE CD!SaveConfig \/ CD!Finish
  <2>1. UNCHANGED <<food, unseen, watch>> /\ doneCfg' \in BOOLEAN /\ completed' \in BOOLEAN
    BY <1>1, <1>8 DEF CD!SaveConfig, CD!Finish
  <2>2. CD!TypeOK'
    BY <1>1, <1>4, <2>1
  <2>3. CD!CandidatesReached' /\ CD!RisesInFood'
    BY <2>1 DEF CookDoneInv, CD!CandidatesReached, CD!RisesInFood
  <2> QED  BY <2>1, <2>2, <2>3 DEF CookDoneInv, FindsNoneInFood
<1>9. CASE CD!NewCook \/ CD!Restart
  <2>1. /\ watch' = [p \in Probes |-> CD!Fresh] /\ unseen' = {} /\ food' = food
        /\ doneCfg' \in BOOLEAN /\ completed' \in BOOLEAN
    BY <1>1, <1>9 DEF CD!NewCook, CD!Restart
  <2>2. CD!Fresh \in Watches /\ CD!Fresh.out = CD!None /\ ~CD!Fresh.done
    BY CookDoneNumbers DEF CD!Fresh, Watches
  <2>3. watch' \in [Probes -> Watches]
    BY <2>1, <2>2
  <2>4. CD!TypeOK'
    BY <1>1, <1>4, <2>1, <2>3
  <2>5. CD!CandidatesReached' /\ CD!RisesInFood' /\ FindsNoneInFood
    BY <2>1, <2>2 DEF CD!CandidatesReached, CD!RisesInFood, FindsNoneInFood
  <2> QED  BY <2>4, <2>5 DEF CookDoneInv
<1>10. CASE UNCHANGED cookDoneVars
  BY <1>10 DEF cookDoneVars, CookDoneInv, CD!TypeOK, CD!CandidatesReached, CD!RisesInFood,
               FindsNoneInFood
<1> QED  BY <1>5, <1>6, <1>7, <1>8, <1>9, <1>10 DEF CD!Next

=============================================================================
