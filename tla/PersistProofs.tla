---------------------------- MODULE PersistProofs ----------------------------
(***************************************************************************)
(* The session table across crashes, restarts and reboots, for any number  *)
(* of sessions, any thresholds and any throttle of saves.                  *)
(*                                                                         *)
(* The rows of the file and those a stopped daemon has still to save are   *)
(* Good, as the rows of the table are (SessionStoreProofs): writing and    *)
(* reading keep a row Good, since a count that is dropped takes turn_over  *)
(* with it.  GoneOK is the argument about reboots: what the machine took   *)
(* with it is in no table that is served or still to be saved, and in the  *)
(* file only as long as the uptime says that the file is of before it; a   *)
(* daemon that does not know the boot time takes from it what it restores. *)
(***************************************************************************)
EXTENDS Persist, SessionStoreProofs

TableOK(table) ==
    /\ DOMAIN table \subseteq Sid
    /\ table = [sid \in DOMAIN table |-> table[sid]]
    /\ \A sid \in DOMAIN table : Good(table[sid])

FileOK == TableOK(file) /\ \A sid \in DOMAIN file : file[sid].state # "end"

LeavingOK == \A table \in leaving : TableOK(table)

AsksOK ==
    /\ \A sid \in fileAsks : sid \in DOMAIN file /\ Calling(file[sid])
    /\ \A sid \in owed : sid \in DOMAIN sessions /\ Calling(sessions[sid])

GoneOK ==
    /\ gone \subseteq Sid
    /\ gone \cap DOMAIN sessions = {}
    /\ ~rebooted => gone \cap DOMAIN file = {}
    /\ \A table \in leaving : gone \cap DOMAIN table = {}

ClockOK == {up, rebooted, moved} \subseteq BOOLEAN /\ sinceSave \in 0 .. SAVE_EVERY_S

PInv == IInv /\ FileOK /\ LeavingOK /\ AsksOK /\ GoneOK /\ ClockOK

----------------------------------------------------------------------------
\* Tables

LEMMA TableOfRows == IInv => TableOK(sessions)
BY DEF IInv, TableOK

\* What is put in the place of the table, before anything is shown of it.
LEMMA TableKeeps ==
    ASSUME TableOK(sessions'), published' = FALSE
    PROVE  IInv'
BY DEF IInv, TableOK, PublishedIsSettled

LEMMA NoTableOK == TableOK(NoTable) /\ DOMAIN NoTable = {}
BY DEF TableOK, NoTable

LEMMA RememberedGood ==
    ASSUME NEW s, Good(s)
    PROVE  /\ Good(Remembered(s)) /\ Remembered(s).state = s.state
           /\ Calling(s) => Calling(Remembered(s))
<1> DEFINE t == Remembered(s)
<1>1. s \in Row /\ s.last_event \in Age /\ s.state_since \in Age /\ s.last_event <= s.state_since
  BY DEF Good, Row, StampsOK
<1>2. /\ t \in Row /\ t.state = s.state /\ t.state_since = s.state_since
      /\ t.last_event = s.last_event /\ t.bg_seen = Horizon /\ t.turn_over = FALSE
      /\ t.idle_held = s.idle_held
  BY <1>1, Ages DEF Remembered, Row
<1>3. s.last_event <= Horizon /\ RungOK(s)
  BY <1>1, Thresholds DEF Age, Good
<1> HIDE DEF t
<1>4. TurnOK(t) /\ StampsOK(t) /\ RungOK(t)
  BY <1>1, <1>2, <1>3 DEF TurnOK, StampsOK, RungOK
<1>5. Calling(s) => Calling(t)
  BY <1>2 DEF Calling
<1> QED
  BY <1>2, <1>4, <1>5 DEF Good, t

LEMMA WrittenOK ==
    ASSUME NEW table, TableOK(table)
    PROVE  /\ TableOK(Written(table))
           /\ DOMAIN Written(table) \subseteq DOMAIN table
           /\ \A sid \in DOMAIN Written(table) : Written(table)[sid].state # "end"
           /\ \A sid \in Asking(table) : /\ sid \in DOMAIN Written(table)
                                         /\ Calling(Written(table)[sid])
<1>1. /\ DOMAIN Written(table) = {k \in DOMAIN table : table[k].state # "end"}
      /\ \A sid \in DOMAIN Written(table) : Written(table)[sid] = Remembered(table[sid])
      /\ Written(table) = [sid \in DOMAIN Written(table) |-> Written(table)[sid]]
  BY DEF Written
<1>2. \A sid \in DOMAIN table : Good(table[sid])
  BY DEF TableOK
<1>3. \A sid \in Asking(table) : /\ sid \in DOMAIN Written(table)
                                 /\ Calling(table[sid])
  BY <1>1 DEF Asking, Asks, Calling
<1>4. \A sid \in DOMAIN Written(table) : /\ Good(Written(table)[sid])
                                         /\ Written(table)[sid].state # "end"
  BY <1>1, <1>2, RememberedGood
<1>5. TableOK(Written(table))
  BY <1>1, <1>4 DEF TableOK
<1> QED
  BY <1>1, <1>2, <1>3, <1>4, <1>5, RememberedGood

\* Saving a table of which nothing is gone.
LEMMA SaveKeeps ==
    ASSUME PInv, NEW table, TableOK(table), gone \cap DOMAIN table = {}, Save(table)
    PROVE  /\ FileOK' /\ rebooted' \in BOOLEAN
           /\ \A sid \in fileAsks' : sid \in DOMAIN file' /\ Calling(file'[sid])
           /\ ~rebooted' => gone \cap DOMAIN file' = {}
<1>1. CASE file' = Written(table) /\ rebooted' = FALSE /\ fileAsks' = Asking(table)
  BY <1>1, WrittenOK DEF FileOK
<1>2. CASE UNCHANGED disk
  BY <1>2 DEF disk, PInv, FileOK, AsksOK, GoneOK, ClockOK
<1> QED
  BY <1>1, <1>2 DEF Save

----------------------------------------------------------------------------
\* Every action keeps the invariant

LEMMA ServeKeeps == ASSUME PInv, Serve PROVE PInv'
<1>1. PICK h \in FromMain : Heeded(h)
  BY DEF Serve
<1>2. h \in Header /\ "idle_prompt" \in Notice
  BY DEF FromMain, Notice, ATTENTION_NOTIFICATIONS
<1>3. Hook
  BY <1>1, <1>2 DEF Heeded, Hook
<1>4. IInv'
  BY <1>3, NextKeeps DEF PInv, Next
<1>5. UNCHANGED <<up, disk, sinceSave, leaving>> /\ leaving = {} /\ moved' \in BOOLEAN
  BY DEF Serve
<1>6. owed' = owed \cap Untouched /\ gone' = gone \ DOMAIN sessions'
  BY DEF Serve
<1>7. AsksOK'
  BY <1>5, <1>6 DEF PInv, AsksOK, Untouched, disk
<1>8. GoneOK'
  BY <1>5, <1>6 DEF PInv, GoneOK, disk
<1> QED
  BY <1>4, <1>5, <1>7, <1>8 DEF PInv, FileOK, LeavingOK, ClockOK, disk

LEMMA PassKeeps == ASSUME PInv, Pass PROVE PInv'
<1>1. /\ Tick /\ moved' = FALSE /\ owed' = owed \cap DOMAIN sessions'
      /\ UNCHANGED <<up, leaving, gone>>
  BY DEF Pass
<1>2. IInv'
  BY <1>1, NextKeeps DEF PInv, Next
<1>3. \A sid \in DOMAIN sessions' : /\ sid \in DOMAIN sessions /\ ~Dropped(sessions[sid])
                                    /\ sessions'[sid] = Settled(sessions[sid])
  BY <1>1 DEF Tick
<1>4. \A sid \in owed' : sid \in DOMAIN sessions' /\ Calling(sessions'[sid])
  BY <1>1, <1>3, SettledCalls DEF PInv, AsksOK, IInv
<1>5. gone \cap DOMAIN sessions' = {}
  BY <1>3 DEF PInv, GoneOK
<1>6. TableOK(sessions')
  BY <1>2 DEF IInv, TableOK
<1>7. /\ FileOK' /\ rebooted' \in BOOLEAN
      /\ \A sid \in fileAsks' : sid \in DOMAIN file' /\ Calling(file'[sid])
      /\ ~rebooted' => gone \cap DOMAIN file' = {}
  <2>1. CASE Save(sessions')
    BY <1>5, <1>6, <2>1, SaveKeeps
  <2>2. CASE UNCHANGED disk
    BY <2>2 DEF disk, PInv, FileOK, AsksOK, GoneOK, ClockOK
  <2> QED
    BY <2>1, <2>2 DEF Pass
<1>8. sinceSave' \in 0 .. SAVE_EVERY_S
  BY SaveAssumption DEF Pass, PInv, ClockOK
<1> QED
  BY <1>1, <1>2, <1>4, <1>5, <1>7, <1>8 DEF PInv, LeavingOK, AsksOK, GoneOK, ClockOK

LEMMA TimePassesKeeps == ASSUME PInv, TimePasses PROVE PInv'
<1>1. /\ leaving = {} /\ Advance /\ file' = AgedTable(file)
      /\ moved' = movedWithTime
      /\ UNCHANGED <<up, rebooted, leaving, fileAsks, owed, gone>>
  BY DEF TimePasses
<1>2. IInv'
  BY <1>1, NextKeeps DEF PInv, Next
<1>3. /\ DOMAIN sessions' = DOMAIN sessions
      /\ \A sid \in DOMAIN sessions : sessions'[sid] = Aged(sessions[sid])
  BY <1>1 DEF Advance
<1>4. /\ DOMAIN file' = DOMAIN file /\ file' = [sid \in DOMAIN file' |-> file'[sid]]
      /\ \A sid \in DOMAIN file : file'[sid] = Aged(file[sid])
  BY <1>1 DEF AgedTable
<1>5. \A s : Good(s) => Good(Aged(s)) /\ Aged(s).state = s.state
                        /\ (Calling(s) => Calling(Aged(s)))
  <2> SUFFICES ASSUME NEW s, Good(s)
               PROVE  Good(Aged(s)) /\ Aged(s).state = s.state /\ (Calling(s) => Calling(Aged(s)))
    OBVIOUS
  <2>1. s \in Row
    BY DEF Good
  <2> QED
    BY <2>1, AgedGood, AgedCalls DEF Aged, Row
<1>6. FileOK'
  BY <1>4, <1>5 DEF PInv, FileOK, TableOK
<1>7. AsksOK'
  BY <1>1, <1>3, <1>4, <1>5 DEF PInv, AsksOK, FileOK, TableOK, IInv
<1>8. GoneOK' /\ LeavingOK'
  BY <1>1, <1>3, <1>4 DEF PInv, GoneOK, LeavingOK
<1>9. ClockOK'
  <2>1. sinceSave' \in 0 .. SAVE_EVERY_S
    BY SaveAssumption DEF TimePasses, PInv, ClockOK
  <2>2. movedWithTime \in BOOLEAN
    BY DEF movedWithTime, PInv, ClockOK
  <2> QED
    BY <1>1, <2>1, <2>2 DEF PInv, ClockOK
<1> QED
  BY <1>2, <1>6, <1>7, <1>8, <1>9 DEF PInv

\* A daemon that is no more owes nothing and shows nothing.
LEMMA DownKeeps ==
    ASSUME PInv, Down
    PROVE  /\ IInv' /\ DOMAIN sessions' = {} /\ owed' = {}
           /\ up' \in BOOLEAN /\ moved' \in BOOLEAN /\ sinceSave' \in 0 .. SAVE_EVERY_S
<1>1. sessions' = NoTable /\ published' = FALSE
  BY DEF Down
<1>2. IInv' /\ DOMAIN sessions' = {}
  BY <1>1, NoTableOK, TableKeeps
<1>3. sinceSave' \in 0 .. SAVE_EVERY_S
  BY SaveAssumption DEF Down
<1> QED
  BY <1>2, <1>3 DEF Down

LEMMA CrashKeeps == ASSUME PInv, Crash PROVE PInv'
<1>1. Down /\ UNCHANGED <<disk, leaving, gone>>
  BY DEF Crash
<1>2. AsksOK' /\ GoneOK' /\ ClockOK'
  BY <1>1, DownKeeps DEF PInv, AsksOK, GoneOK, ClockOK, disk
<1>3. FileOK' /\ LeavingOK'
  BY <1>1 DEF PInv, FileOK, LeavingOK, disk
<1> QED
  BY <1>1, <1>2, <1>3, DownKeeps DEF PInv

LEMMA StopsKeeps == ASSUME PInv, Stops PROVE PInv'
<1>1. Down /\ leaving' = {sessions} /\ UNCHANGED <<disk, gone>>
  BY DEF Stops
<1>2. AsksOK' /\ GoneOK' /\ ClockOK'
  BY <1>1, DownKeeps DEF PInv, AsksOK, GoneOK, ClockOK, disk
<1>3. FileOK' /\ LeavingOK'
  BY <1>1, TableOfRows DEF PInv, FileOK, LeavingOK, disk
<1> QED
  BY <1>1, <1>2, <1>3, DownKeeps DEF PInv

LEMMA StopSavesKeeps == ASSUME PInv, StopSaves PROVE PInv'
<1>1. leaving' = {} /\ UNCHANGED <<vars, up, sinceSave, moved, owed, gone>>
  BY DEF StopSaves
<1>2. PICK table \in leaving : Save(table)
  BY DEF StopSaves
<1>3. TableOK(table) /\ gone \cap DOMAIN table = {}
  BY DEF PInv, LeavingOK, GoneOK
<1>4. /\ FileOK' /\ rebooted' \in BOOLEAN
      /\ \A sid \in fileAsks' : sid \in DOMAIN file' /\ Calling(file'[sid])
      /\ ~rebooted' => gone \cap DOMAIN file' = {}
  BY <1>2, <1>3, SaveKeeps
<1>5. IInv'
  BY <1>1, NextKeeps DEF PInv
<1>6. AsksOK' /\ GoneOK' /\ ClockOK'
  BY <1>1, <1>4 DEF PInv, AsksOK, GoneOK, ClockOK, vars
<1> QED
  BY <1>1, <1>4, <1>5, <1>6 DEF PInv, LeavingOK

LEMMA StartsKeeps == ASSUME PInv, NEW known \in BOOLEAN, Starts(known) PROVE PInv'
<1>1. /\ up' = TRUE /\ sessions' = Loaded(known) /\ published' = FALSE
      /\ owed' = fileAsks \cap DOMAIN Loaded(known)
      /\ gone' = IF known THEN gone ELSE gone \ DOMAIN Loaded(known)
      /\ UNCHANGED <<disk, sinceSave, moved, leaving>>
  BY DEF Starts
<1>2. /\ DOMAIN Loaded(known) \subseteq DOMAIN file
      /\ known /\ rebooted => DOMAIN Loaded(known) = {}
      /\ \A sid \in DOMAIN Loaded(known) : Loaded(known)[sid] = file[sid]
      /\ Loaded(known) = [sid \in DOMAIN Loaded(known) |-> Loaded(known)[sid]]
  BY DEF Loaded
<1>3. TableOK(Loaded(known))
  BY <1>2 DEF PInv, FileOK, TableOK
<1>4. IInv'
  BY <1>1, <1>3, TableKeeps
<1>5. AsksOK'
  BY <1>1, <1>2 DEF PInv, AsksOK, disk
<1>6. GoneOK'
  <2>1. /\ gone \subseteq Sid /\ (~rebooted => gone \cap DOMAIN file = {})
        /\ \A table \in leaving : gone \cap DOMAIN table = {}
    BY DEF PInv, GoneOK
  <2>2. gone' \subseteq gone
    BY <1>1
  <2>3. gone' \cap DOMAIN sessions' = {}
    BY <1>1, <1>2, <2>1
  <2> QED
    BY <1>1, <2>1, <2>2, <2>3 DEF GoneOK, disk
<1> QED
  BY <1>1, <1>4, <1>5, <1>6 DEF PInv, FileOK, LeavingOK, ClockOK, disk

LEMMA RebootsKeeps == ASSUME PInv, NEW resets \in BOOLEAN, Reboots(resets) PROVE PInv'
<1>1. /\ leaving = {} /\ up' = FALSE /\ sessions' = NoTable /\ published' = FALSE
      /\ sinceSave' = SAVE_EVERY_S /\ moved' = TRUE /\ rebooted' = (rebooted \/ resets)
      /\ owed' = {}
      /\ gone' = IF resets THEN gone \cup DOMAIN sessions \cup DOMAIN file ELSE gone
      /\ UNCHANGED <<file, fileAsks, leaving>>
  BY DEF Reboots
<1>2. IInv' /\ DOMAIN sessions' = {}
  BY <1>1, NoTableOK, TableKeeps
<1>3. gone' \subseteq Sid
  BY <1>1 DEF PInv, GoneOK, FileOK, TableOK, IInv
<1>4. GoneOK'
  <2>1. ~rebooted' => ~rebooted /\ gone' = gone
    BY <1>1
  <2>2. ~rebooted => gone \cap DOMAIN file = {}
    BY DEF PInv, GoneOK
  <2> QED
    BY <1>1, <1>2, <1>3, <2>1, <2>2 DEF GoneOK
<1>5. FileOK' /\ LeavingOK' /\ AsksOK'
  BY <1>1 DEF PInv, FileOK, LeavingOK, AsksOK
<1>6. ClockOK'
  <2>1. SAVE_EVERY_S \in 0 .. SAVE_EVERY_S
    BY SaveAssumption
  <2> QED
    BY <1>1, <2>1 DEF PInv, ClockOK
<1> QED
  BY <1>2, <1>4, <1>5, <1>6 DEF PInv

LEMMA PersistKeeps == PInv /\ [PersistNext]_pvars => PInv'
<1> SUFFICES ASSUME PInv, [PersistNext]_pvars PROVE PInv'
  OBVIOUS
<1>1. ASSUME UNCHANGED pvars PROVE PInv'
  <2>1. IInv'
    BY <1>1, NextKeeps DEF PInv, pvars
  <2> QED
    BY <1>1, <2>1 DEF pvars, vars, disk, PInv, FileOK, LeavingOK, AsksOK, GoneOK, ClockOK
<1> QED
  BY <1>1, ServeKeeps, PassKeeps, TimePassesKeeps, CrashKeeps, StopsKeeps, StopSavesKeeps,
     StartsKeeps, RebootsKeeps DEF PersistNext

LEMMA PersistBegins == PersistInit => PInv
<1> SUFFICES ASSUME PersistInit PROVE PInv
  OBVIOUS
<1>1. IInv
  BY InitEstablishes DEF PersistInit
<1>2. DOMAIN file = {} /\ FileOK
  BY NoTableOK DEF PersistInit, FileOK
<1>3. ClockOK
  <2>1. SAVE_EVERY_S \in 0 .. SAVE_EVERY_S
    BY SaveAssumption
  <2> QED
    BY <2>1 DEF PersistInit, ClockOK
<1> QED
  BY <1>1, <1>2, <1>3 DEF PersistInit, PInv, LeavingOK, AsksOK, GoneOK

LEMMA PersistInvariance == PersistSpec => []PInv
BY PersistBegins, PersistKeeps, PTL DEF PersistSpec

----------------------------------------------------------------------------
\* The theorems

\* The table, the file and what is about to be written are well typed, and no row of
\* the file has ended (save, load).
THEOREM PersistTypeCorrect == PersistSpec => []PersistTypeOK
<1>1. PInv => TypeOK
  BY DEF PInv, IInv, TypeOK, Good
<1>2. \A table : TableOK(table) => DOMAIN table \subseteq Sid /\ table \in [DOMAIN table -> Row]
  BY DEF TableOK, Good
<1>3. PInv => fileAsks \cup owed \cup gone \subseteq Sid
  BY DEF PInv, AsksOK, GoneOK, FileOK, TableOK, IInv
<1>4. PInv => PersistTypeOK
  BY <1>1, <1>2, <1>3 DEF PersistTypeOK, PInv, FileOK, LeavingOK, ClockOK
<1> QED
  BY <1>4, PersistInvariance, PTL

\* A session that was asking when the file was saved asks after it is read, through
\* any number of restarts, until something is heard of it (_FIELDS, load, tick).
THEOREM RestartsSilenceNobody == PersistSpec => []AskSurvives
<1>1. PInv => AskSurvives
  BY DEF PInv, AsksOK, AskSurvives, Asks, Calling
<1> QED
  BY <1>1, PersistInvariance, PTL

\* No session of before a boot that the uptime tells of is shown after it, however
\* restarts, saves and boots interleave, until something is heard of it or a daemon
\* that did not know the boot time restores it (load, boot_time).
THEOREM NothingSurvivesASeenBoot == PersistSpec => []SeenBootForgets
<1>1. PInv => SeenBootForgets
  BY DEF PInv, GoneOK, SeenBootForgets
<1> QED
  BY <1>1, PersistInvariance, PTL
=============================================================================
