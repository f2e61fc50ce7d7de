-------------------------- MODULE TxWatchdogProofs --------------------------
(***************************************************************************)
(* What txWatchdog() promises, for every width of the clock and every      *)
(* setting of the timeouts: stamps stay values of millis(), and a reboot   *)
(* is earned by silence on the way out.                                    *)
(*                                                                         *)
(* CureIsEarned is about what has happened, and the code only has stamps.  *)
(* The inductive invariant says how the two hang together: a running       *)
(* episode is no older than the silence on the way out (or than the pass   *)
(* that will end it), it is younger than TX_WEDGE_MS, and the stamp of the *)
(* last line is the true one unless demo mode made it, before the episode. *)
(***************************************************************************)
EXTENDS TxWatchdog, TLAPS

\* now | 1 may be ahead of now by one.
Ahead == wedgeSinceMs = clock + 1

EpisodeIsYoung ==
    wedgeSinceMs = 0 \/ Ahead \/ Behind(clock, wedgeSinceMs) < TX_WEDGE_MS

EpisodeIsSilence ==
    \/ txProgressed \/ wedgeSinceMs = 0 \/ Ahead
    \/ Behind(clock, wedgeSinceMs) <= sinceByte

StampIsHeard ==
    \/ sinceMsg = Half
    \/ sinceMsg = Behind(clock, lastMsgMs)
    \/ /\ sinceMsg >= Behind(clock, lastMsgMs)
       /\ \/ wedgeSinceMs = 0 \/ Ahead
          \/ Behind(clock, wedgeSinceMs) <= Behind(clock, lastMsgMs)

IInv == TypeOK /\ EpisodeIsYoung /\ EpisodeIsSilence /\ StampIsHeard

----------------------------------------------------------------------------
\* Lemmas on the clock

\* A time that has come later by one unit or none.
LEMMA LaterType ==
    ASSUME NEW now \in Millis, NEW dt \in {0, 1}
    PROVE  Later(now, dt) \in Millis
  BY ClockAssumption DEF Later, Millis

\* The gap to a stamp grows with the time, until it is a whole range.
LEMMA BehindLater ==
    ASSUME NEW now \in Millis, NEW since \in Millis, NEW dt \in {0, 1}
    PROVE  /\ Behind(now, since) \in Millis
           /\ Behind(now, since) + dt < 2 * Half =>
                 Behind(Later(now, dt), since) = Behind(now, since) + dt
  BY ClockAssumption DEF Behind, Later, Millis

\* now | 1 is a value of millis(), not the sentinel, and never more than one ahead.
LEMMA OrOneType ==
    ASSUME NEW now \in Millis
    PROVE  /\ OrOne(now) \in Millis \ {0}
           /\ OrOne(now) = now \/ OrOne(now) = now + 1
  BY ClockAssumption DEF OrOne, Millis

\* A stamp one ahead of the time has not elapsed, and neither has the time itself.
LEMMA NotElapsed ==
    ASSUME NEW now \in Millis, NEW since \in Millis,
           NEW ms \in 1 .. Half - 1, since = now \/ since = now + 1
    PROVE  /\ ~elapsed(now, since, ms)
           /\ since = now => Behind(now, since) = 0
  BY ClockAssumption DEF elapsed, Behind, Millis

----------------------------------------------------------------------------
\* What holds of a reboot that is due

\* A due reboot ends the episode there was, without progress and out of demo
\* mode, TX_WEDGE_MS old or more.
LEMMA OverdueEpisode ==
    ASSUME IInv, NEW line \in Line, NEW dt \in {0, 1}, Overdue(line, Later(clock, dt))
    PROVE  /\ ~txProgressed /\ ~DemoAfter(line) /\ wedgeSinceMs # 0 /\ ~Ahead
           /\ Behind(clock, wedgeSinceMs) + dt >= TX_WEDGE_MS
           /\ ~elapsed(Later(clock, dt), ReadAfter(line), NO_HOST_MS)
<1> DEFINE now == Later(clock, dt)
<1>1. now \in Millis /\ clock \in Millis /\ wedgeSinceMs \in Millis
  BY LaterType DEF IInv, TypeOK
<1>2. ~elapsed(now, OrOne(now), TX_WEDGE_MS)
  BY <1>1, OrOneType, NotElapsed, ClockAssumption
<1>3. /\ ~txProgressed /\ ~DemoAfter(line) /\ wedgeSinceMs # 0
      /\ ~elapsed(now, MsgAfter(line, now), NO_HOST_MS)
      /\ elapsed(now, wedgeSinceMs, TX_WEDGE_MS)
  BY <1>2 DEF Overdue, episode
<1>4. MsgAfter(line, now) = ReadAfter(line)
  BY <1>3 DEF MsgAfter, DemoCounts
<1>5. ~Ahead
  <2> SUFFICES ASSUME Ahead
               PROVE  FALSE
    OBVIOUS
  <2>1. wedgeSinceMs = now \/ wedgeSinceMs = now + 1
    BY <1>1, ClockAssumption DEF Ahead, Later, Millis
  <2> QED
    BY <2>1, <1>1, <1>3, NotElapsed, ClockAssumption
<1>6. Behind(clock, wedgeSinceMs) + dt >= TX_WEDGE_MS
  <2>1. Behind(clock, wedgeSinceMs) < TX_WEDGE_MS
    BY <1>3, <1>5 DEF IInv, EpisodeIsYoung
  <2>2. /\ Behind(clock, wedgeSinceMs) \in Millis
        /\ Behind(clock, wedgeSinceMs) + dt < 2 * Half =>
              Behind(now, wedgeSinceMs) = Behind(clock, wedgeSinceMs) + dt
    BY <1>1, BehindLater
  <2> QED
    BY <2>1, <2>2, <1>3, ClockAssumption DEF elapsed, Millis
<1> QED
  BY <1>3, <1>4, <1>5, <1>6

\* The invariant says what the property says of every line the pass may read.
LEMMA InvariantEarnsCure ==
    ASSUME IInv
    PROVE  CureIsEarned
<1> SUFFICES ASSUME NEW line \in Line, NEW dt \in {0, 1}, Overdue(line, Later(clock, dt))
             PROVE  /\ sinceByte + dt >= TX_WEDGE_MS
                    /\ HeardAfter(line, dt) < NO_HOST_MS \/ HeardAfter(line, dt) = Half
  BY DEF CureIsEarned
<1> DEFINE now == Later(clock, dt)
           age == Behind(clock, lastMsgMs)
           wedged == Behind(clock, wedgeSinceMs)
<1>1. /\ ~txProgressed /\ wedgeSinceMs # 0 /\ ~Ahead
      /\ wedged + dt >= TX_WEDGE_MS
      /\ ~elapsed(now, ReadAfter(line), NO_HOST_MS)
  BY OverdueEpisode
<1>2. /\ clock \in Millis /\ lastMsgMs \in Millis /\ sinceMsg \in 0 .. Half
      /\ sinceByte \in Nat
  BY ClockAssumption DEF IInv, TypeOK
<1>3. wedged <= sinceByte
  BY <1>1 DEF IInv, EpisodeIsSilence
<1>4. wedged \in Millis /\ age \in Millis
  BY <1>2, BehindLater DEF IInv, TypeOK
<1>5. sinceByte + dt >= TX_WEDGE_MS
  BY <1>1, <1>2, <1>3, <1>4, ClockAssumption DEF Millis
<1>6. CASE Heard(line)
  <2>1. Behind(now, clock) = dt
    BY <1>2, BehindLater, ClockAssumption DEF Behind, Millis
  <2>2. dt < NO_HOST_MS
    BY <1>1, <1>6, <2>1, ClockAssumption DEF ReadAfter, elapsed
  <2>3. HeardAfter(line, dt) = dt \/ HeardAfter(line, dt) = Half
    BY <1>6, ClockAssumption DEF HeardAfter, Longer
  <2> QED
    BY <1>5, <2>2, <2>3
<1>7. CASE ~Heard(line)
  <2> SUFFICES ASSUME sinceMsg + dt < Half
               PROVE  sinceMsg + dt < NO_HOST_MS
    BY <1>2, <1>5, <1>7, ClockAssumption DEF HeardAfter, Longer
  <2>1. /\ sinceMsg >= age
        /\ sinceMsg = age \/ wedged <= age
    BY <1>1, <1>2, <1>4, ClockAssumption DEF IInv, StampIsHeard, Millis
  <2>2. age + dt < 2 * Half => Behind(now, lastMsgMs) = age + dt
    BY <1>2, BehindLater
  <2>3. age + dt < NO_HOST_MS
    BY <1>1, <1>2, <1>4, <1>7, <2>1, <2>2, ClockAssumption DEF ReadAfter, elapsed, Millis
  <2>4. ~(wedged <= age)
    BY <1>1, <1>4, <2>3, ClockAssumption, WedgeAssumption DEF Millis
  <2> QED
    BY <2>1, <2>3, <2>4
<1> QED
  BY <1>6, <1>7

----------------------------------------------------------------------------
\* The invariant is inductive

\* Where the counters start.
LEMMA ZeroType ==
    0 \in Millis /\ 0 \in 0 .. TX_WEDGE_MS /\ Half \in 0 .. Half
  BY ClockAssumption DEF Millis

LEMMA InitInv == Init => IInv
<1> SUFFICES ASSUME Init
             PROVE  IInv
  OBVIOUS
<1>1. TypeOK
  BY ZeroType DEF Init, TypeOK
<1>2. EpisodeIsYoung /\ EpisodeIsSilence /\ StampIsHeard
  BY DEF Init, EpisodeIsYoung, EpisodeIsSilence, StampIsHeard
<1> QED
  BY <1>1, <1>2 DEF IInv

\* Every boot starts without an episode, and the host's silence goes on.
LEMMA BootInv ==
    ASSUME IInv, NEW name \in {"power", "sw", "wdt"}, NEW marked \in BOOLEAN,
           NEW why \in {"power", "cure", "hang"}, Boot(name, marked, why),
           sinceMsg' \in 0 .. Half
    PROVE  IInv'
<1>1. TypeOK'
  BY ZeroType DEF Boot, TypeOK
<1>2. EpisodeIsYoung' /\ EpisodeIsSilence'
  BY DEF Boot, EpisodeIsYoung, EpisodeIsSilence
<1>3. StampIsHeard'
  BY ClockAssumption DEF Boot, StampIsHeard, Behind
<1> QED
  BY <1>1, <1>2, <1>3 DEF IInv

\* What the expressions of a pass range over.
LEMMA PassType ==
    ASSUME TypeOK, NEW line \in Line, NEW dt \in {0, 1}
    PROVE  /\ Later(clock, dt) \in Millis
           /\ MsgAfter(line, Later(clock, dt)) \in Millis
           /\ episode(line, Later(clock, dt)) \in Millis
           /\ DemoAfter(line) \in BOOLEAN
           /\ NoHostAfter(line, Later(clock, dt)) \in BOOLEAN
           /\ HeardAfter(line, dt) \in 0 .. Half
<1> DEFINE now == Later(clock, dt)
<1>1. now \in Millis
  BY LaterType DEF TypeOK
<1>2. ReadAfter(line) \in Millis
  BY DEF TypeOK, ReadAfter
<1>3. MsgAfter(line, now) \in Millis
  BY <1>1, <1>2 DEF MsgAfter
<1>4. 0 \in Millis
  BY ClockAssumption DEF Millis
<1>5. episode(line, now) \in Millis
  BY <1>1, <1>4, OrOneType DEF TypeOK, episode
<1>6. DemoAfter(line) \in BOOLEAN
  BY DEF TypeOK, DemoAfter
<1>7. NoHostAfter(line, now) \in BOOLEAN
  BY DEF NoHostAfter
<1>8. HeardAfter(line, dt) \in 0 .. Half
  BY ClockAssumption DEF TypeOK, HeardAfter, Longer
<1> QED
  BY <1>1, <1>3, <1>5, <1>6, <1>7, <1>8

LEMMA PassTypeOK ==
    ASSUME TypeOK, NEW line \in Line, NEW dt \in {0, 1},
           NEW waiting \in BOOLEAN, Pass(line, dt, waiting)
    PROVE  TypeOK'
<1>1. {clock', lastMsgMs', lastHbMs', wedgeSinceMs'} \subseteq Millis
  BY PassType DEF Pass, TypeOK
<1>2. {demoMode', showingNoHost'} \subseteq BOOLEAN /\ sinceMsg' \in 0 .. Half
  BY PassType DEF Pass
<1>3. txProgressed' \in BOOLEAN /\ queued' \in BOOLEAN
  BY DEF Pass, Pump
<1>4. panel' \in {"nohost", "rows", "version"}
  BY DEF Pass, PanelAfter, TypeOK
<1>5. sinceByte' \in 0 .. TX_WEDGE_MS
  <2>1. sinceByte' = 0 \/ sinceByte' = Longer(sinceByte, dt, TX_WEDGE_MS)
    BY DEF Pass, Pump
  <2> QED
    BY <2>1, ClockAssumption DEF Longer, TypeOK
<1> QED
  BY <1>1, <1>2, <1>3, <1>4, <1>5 DEF Pass, TypeOK

\* The episode after a pass that did not reboot: none, one that starts ahead,
\* one that starts now, or the one there was, a little older.
LEMMA EpisodeAfterPass ==
    ASSUME IInv, NEW line \in Line, NEW dt \in {0, 1}, ~Overdue(line, Later(clock, dt)),
           episode(line, Later(clock, dt)) # 0,
           episode(line, Later(clock, dt)) # Later(clock, dt) + 1
    PROVE  /\ ~DemoAfter(line)
           /\ Behind(Later(clock, dt), episode(line, Later(clock, dt))) < TX_WEDGE_MS
           /\ \/ Behind(Later(clock, dt), episode(line, Later(clock, dt))) = 0
              \/ /\ episode(line, Later(clock, dt)) = wedgeSinceMs
                 /\ ~txProgressed /\ wedgeSinceMs # 0 /\ ~Ahead
                 /\ Behind(Later(clock, dt), wedgeSinceMs)
                       = Behind(clock, wedgeSinceMs) + dt
<1> DEFINE now == Later(clock, dt)
           e == episode(line, now)
<1>1. now \in Millis /\ clock \in Millis /\ wedgeSinceMs \in Millis
  BY LaterType DEF IInv, TypeOK
<1>2. /\ ~txProgressed /\ ~DemoAfter(line)
      /\ \/ e = OrOne(now)
         \/ e = wedgeSinceMs /\ wedgeSinceMs # 0
  BY DEF episode
<1>3. ~elapsed(now, e, TX_WEDGE_MS)
  BY DEF Overdue
<1>4. CASE e = now
  BY <1>1, <1>2, <1>4, NotElapsed, ClockAssumption
<1>5. CASE e # now
  <2>1. e = wedgeSinceMs /\ wedgeSinceMs # 0
    BY <1>1, <1>2, <1>5, OrOneType
  <2>2. ~Ahead
    BY <1>1, <1>5, <2>1, ClockAssumption DEF Ahead, Later, Millis
  <2>3. Behind(clock, wedgeSinceMs) < TX_WEDGE_MS
    BY <2>1, <2>2 DEF IInv, EpisodeIsYoung
  <2>4. /\ Behind(clock, wedgeSinceMs) \in Millis
        /\ Behind(clock, wedgeSinceMs) + dt < 2 * Half =>
              Behind(now, wedgeSinceMs) = Behind(clock, wedgeSinceMs) + dt
    BY <1>1, BehindLater
  <2>5. Behind(now, wedgeSinceMs) = Behind(clock, wedgeSinceMs) + dt
    BY <2>3, <2>4, ClockAssumption DEF Millis
  <2>6. Behind(now, wedgeSinceMs) < TX_WEDGE_MS
    BY <1>3, <2>1, <2>3, <2>4, <2>5, ClockAssumption DEF elapsed, Millis
  <2> QED
    BY <1>2, <2>1, <2>2, <2>5, <2>6
<1> QED
  BY <1>4, <1>5

LEMMA PassInv ==
    ASSUME IInv, NEW line \in Line, NEW dt \in {0, 1},
           NEW waiting \in BOOLEAN, Pass(line, dt, waiting)
    PROVE  IInv'
<1> DEFINE now == Later(clock, dt)
           e == episode(line, now)
           age == Behind(clock, lastMsgMs)
           wedged == Behind(clock, wedgeSinceMs)
<1>1. TypeOK'
  BY PassTypeOK DEF IInv
<1>2. /\ clock' = now /\ wedgeSinceMs' = e /\ lastMsgMs' = MsgAfter(line, now)
      /\ sinceMsg' = HeardAfter(line, dt)
      /\ ~Overdue(line, now)
  BY DEF Pass
<1>3. /\ clock \in Millis /\ lastMsgMs \in Millis /\ wedgeSinceMs \in Millis
      /\ sinceMsg \in 0 .. Half /\ sinceByte \in 0 .. TX_WEDGE_MS
  BY DEF IInv, TypeOK
<1>4. wedged \in Millis /\ age \in Millis
  BY <1>3, BehindLater
<1>5. EpisodeIsYoung'
  BY <1>2, EpisodeAfterPass DEF EpisodeIsYoung, Ahead
<1>6. EpisodeIsSilence'
  <2> SUFFICES ASSUME ~txProgressed', e # 0, e # now + 1
               PROVE  Behind(now, e) <= sinceByte'
    BY <1>2 DEF EpisodeIsSilence, Ahead
  <2>1. sinceByte' = Longer(sinceByte, dt, TX_WEDGE_MS)
    BY DEF Pass, Pump
  <2>2. CASE Behind(now, e) = 0
    BY <1>3, <2>1, <2>2, ClockAssumption DEF Longer
  <2>3. CASE /\ ~txProgressed /\ wedgeSinceMs # 0 /\ ~Ahead
             /\ Behind(now, e) = wedged + dt
    <3>1. wedged <= sinceByte
      BY <2>3 DEF IInv, EpisodeIsSilence
    <3>2. Behind(now, e) < TX_WEDGE_MS
      BY <1>2, EpisodeAfterPass
    <3> QED
      BY <1>3, <1>4, <2>1, <2>3, <3>1, <3>2, ClockAssumption DEF Longer, Millis
  <2> QED
    BY <1>2, <2>2, <2>3, EpisodeAfterPass
<1>7. StampIsHeard'
  <2>1. CASE DemoCounts(line, now)
    <3>1. lastMsgMs' = now /\ Behind(now, now) = 0 /\ sinceMsg' \in 0 .. Half
      BY <1>1, <1>2, <2>1, NotElapsed, ClockAssumption DEF MsgAfter, TypeOK
    <3>2. e = 0
      BY <2>1 DEF DemoCounts, episode
    <3> QED
      BY <1>2, <3>1, <3>2 DEF StampIsHeard
  <2>2. CASE ~DemoCounts(line, now) /\ Heard(line)
    <3>1. lastMsgMs' = clock /\ sinceMsg' = dt
      BY <1>2, <2>2, ClockAssumption DEF MsgAfter, ReadAfter, HeardAfter, Longer
    <3>2. Behind(now, clock) = dt
      BY <1>3, ClockAssumption DEF Later, Behind, Millis
    <3> QED
      BY <1>2, <3>1, <3>2 DEF StampIsHeard
  <2>3. CASE ~DemoCounts(line, now) /\ ~Heard(line)
    <3> SUFFICES ASSUME sinceMsg + dt < Half
                 PROVE  StampIsHeard'
      BY <1>2, <1>3, <2>3, ClockAssumption DEF HeardAfter, Longer, StampIsHeard
    <3>1. lastMsgMs' = lastMsgMs /\ sinceMsg' = sinceMsg + dt
      BY <1>2, <2>3 DEF MsgAfter, ReadAfter, HeardAfter, Longer
    <3>2. /\ sinceMsg >= age
          /\ sinceMsg = age \/ wedgeSinceMs = 0 \/ Ahead \/ wedged <= age
      BY <1>3, <1>4, ClockAssumption DEF IInv, StampIsHeard, Millis
    <3>3. age + dt < 2 * Half => Behind(now, lastMsgMs) = age + dt
      BY <1>3, BehindLater
    <3>4. Behind(now, lastMsgMs) = age + dt
      BY <1>3, <1>4, <3>2, <3>3, ClockAssumption DEF Millis
    <3>5. CASE sinceMsg = age
      BY <1>2, <3>1, <3>4, <3>5 DEF StampIsHeard
    <3>6. CASE e = 0 \/ e = now + 1 \/ Behind(now, e) = 0
      BY <1>2, <1>3, <1>4, <3>1, <3>2, <3>4, <3>6 DEF StampIsHeard, Ahead, Millis
    <3>7. CASE /\ wedgeSinceMs # 0 /\ ~Ahead /\ wedged <= age
               /\ Behind(now, e) = wedged + dt
      BY <1>2, <1>3, <1>4, <3>1, <3>2, <3>4, <3>7 DEF StampIsHeard, Millis
    <3> QED
      BY <1>2, <3>2, <3>5, <3>6, <3>7, EpisodeAfterPass
  <2> QED
    BY <2>1, <2>2, <2>3
<1> QED
  BY <1>1, <1>5, <1>6, <1>7 DEF IInv

LEMMA NextInv == IInv /\ [Next]_vars => IInv'
<1> SUFFICES ASSUME IInv, [Next]_vars
             PROVE  IInv'
  OBVIOUS
<1>1. ASSUME NEW marked \in BOOLEAN, NEW why \in {"power", "cure", "hang"},
             Reset(marked, why), sinceMsg' \in 0 .. Half
      PROVE  IInv'
  <2>1. resetReason(marked) \in {"power", "sw", "wdt"} /\ markRead(marked) \in BOOLEAN
    BY DEF resetReason, markRead
  <2>2. Boot(resetReason(marked), markRead(marked), why)
    BY <1>1 DEF Reset
  <2> QED
    BY <1>1, <2>1, <2>2, BootInv
<1>2. ASSUME NEW dt \in {0, 1}, Loop(dt)
      PROVE  IInv'
  <2>1. ASSUME NEW line \in Line, NEW waiting \in BOOLEAN, Pass(line, dt, waiting)
        PROVE  IInv'
    BY <2>1, PassInv
  <2>2. ASSUME NEW line \in Line, Cure(line, dt)
        PROVE  IInv'
    <3>1. sinceMsg' \in 0 .. Half
      BY <2>2, PassType DEF Cure, IInv
    <3> QED
      BY <1>1, <2>2, <3>1 DEF Cure
  <2> QED
    BY <1>2, <2>1, <2>2 DEF Loop
<1>3. CASE LoopHangs
  <2>1. sinceMsg' \in 0 .. Half /\ mark \in BOOLEAN
    BY <1>3, ClockAssumption DEF LoopHangs, Longer, IInv, TypeOK
  <2> QED
    BY <1>1, <1>3, <2>1 DEF LoopHangs
<1>4. CASE PowerCycle
  <2>1. sinceMsg' \in 0 .. Half /\ Boot("power", FALSE, "power")
    BY <1>4, ZeroType DEF PowerCycle
  <2> QED
    BY <2>1, BootInv
<1>5. CASE UNCHANGED vars
  BY <1>5 DEF vars, stamps, IInv, TypeOK, EpisodeIsYoung, EpisodeIsSilence,
              StampIsHeard, Ahead
<1> QED
  BY <1>2, <1>3, <1>4, <1>5 DEF Next

----------------------------------------------------------------------------
\* Every stamp txWatchdog() and loop() keep is a value of millis(), at every
\* width of the clock: now | 1 does not leave its range.
THEOREM TypeCorrect == Spec => []TypeOK
<1>1. IInv => TypeOK
  BY DEF IInv
<1> QED
  BY <1>1, InitInv, NextInv, PTL DEF Spec

\* A reboot by txWatchdog() is earned, at every width of the clock and every
\* setting with NO_HOST_MS <= TX_WEDGE_MS: not a byte has left for that long,
\* and the host is being heard or was last heard half a clock's range ago.
THEOREM CuresAreEarned == Spec => []CureIsEarned
<1>1. IInv => CureIsEarned
  BY InvariantEarnsCure
<1> QED
  BY <1>1, InitInv, NextInv, PTL DEF Spec

\* A boot takes the mark it finds, so no boot finds one that an earlier cure
\* left, and the reason it reports is its own (resetReason).
THEOREM ReasonsAreTold == Spec => []ReasonTold
<1> DEFINE Told == ReasonTold /\ mark = FALSE
<1>1. Init => Told
  BY DEF Init, ReasonTold
<1>2. Told /\ [Next]_vars => Told'
  <2> SUFFICES ASSUME Told, [Next]_vars
               PROVE  Told'
    OBVIOUS
  <2>1. ASSUME NEW dt \in {0, 1}, NEW line, Cure(line, dt)
        PROVE  Told'
    BY <2>1 DEF Cure, Reset, Boot, resetReason, markRead, ReasonTold
  <2>2. ASSUME NEW dt \in {0, 1}, NEW line, NEW waiting, Pass(line, dt, waiting)
        PROVE  Told'
    BY <2>2 DEF Pass, ReasonTold
  <2>3. CASE LoopHangs
    BY <2>3 DEF LoopHangs, Reset, Boot, resetReason, markRead, ReasonTold
  <2>4. CASE PowerCycle
    BY <2>4 DEF PowerCycle, Boot, ReasonTold
  <2>5. CASE UNCHANGED vars
    BY <2>5 DEF vars, ReasonTold
  <2> QED
    BY <2>1, <2>2, <2>3, <2>4, <2>5 DEF Next, Loop
<1> QED
  BY <1>1, <1>2, PTL DEF Spec
=============================================================================
