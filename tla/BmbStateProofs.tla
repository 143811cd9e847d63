---------------------------- MODULE BmbStateProofs ----------------------------
(***************************************************************************)
(* Proofs about BmbState, for every capacity, clock range and set of       *)
(* counts: the walk finds the most recent entry until the ring is full,    *)
(* the counts of days that have begun do not change until then, and the    *)
(* account implements CheckerSchedule with no condition at all.            *)
(***************************************************************************)
EXTENDS BmbState, NumberLemmas

-----------------------------------------------------------------------------
(* The invariant.                                                          *)

\* The first round of the ring: the slots are written in order, with
\* increasing periods.
FirstRound ==
    pushes <= Capacity =>
        /\ current_index = IF pushes = Capacity THEN 0 ELSE pushes
        /\ \A s \in Slots : data[s] # Empty <=> s < pushes
        /\ \A r, s \in Slots : r < s /\ s < pushes => data[r].period < data[s].period

IInv == TypeOK /\ FirstRound

LEMMA SlotSucc ==
  ASSUME NEW i \in Slots
  PROVE  (i + 1) % Capacity = IF i + 1 = Capacity THEN 0 ELSE i + 1
BY BmbAssumption DEF Slots

LEMMA TypeInit == Init => TypeOK
BY BmbAssumption DEF Init, TypeOK, Periods, Slots, Entries, Empty

(***************************************************************************)
(* The walk visits every slot, and only slots.                             *)
(***************************************************************************)
LEMMA WalkSlots ==
  ASSUME TypeOK
  PROVE  /\ \A i \in Slots : WalkSlot(i) \in Slots
         /\ \A s \in Slots : \E i \in Slots : WalkSlot(i) = s
<1>. USE BmbAssumption DEF TypeOK, Slots, WalkSlot
<1>1. ASSUME NEW i \in Slots
      PROVE  WalkSlot(i) \in Slots
  OBVIOUS
<1>2. ASSUME NEW s \in Slots
      PROVE  \E i \in Slots : WalkSlot(i) = s
  <2>1. CASE s <= current_index
    <3>1. current_index - s \in Slots /\ WalkSlot(current_index - s) = s
      BY <2>1
    <3>. QED
      BY <3>1
  <2>2. CASE s > current_index
    <3>1. /\ Capacity + current_index - s \in Slots
          /\ WalkSlot(Capacity + current_index - s) = s
      BY <2>2
    <3>. QED
      BY <3>1
  <2>. QED
    BY <2>1, <2>2
<1>. QED
  BY <1>1, <1>2

(***************************************************************************)
(* What a lookup returns: None when no written entry is at or before the   *)
(* target, and otherwise the count of the first hit of the walk.           *)
(***************************************************************************)
LEMMA LookupResult ==
  ASSUME TypeOK, NEW t \in Periods
  PROVE  LET past == {s \in NonDefault : data[s].period <= t}
             c    == get_checker_count_for_period(t)
         IN  \/ past = {} /\ c = None
             \/ \E i \in Hits(t) : /\ \A j \in Hits(t) : i <= j
                                   /\ WalkSlot(i) \in past
                                   /\ c = data[WalkSlot(i)].count
<1>. DEFINE past == {s \in NonDefault : data[s].period <= t}
            c    == get_checker_count_for_period(t)
<1>1. \A i \in Hits(t) : i \in Slots /\ WalkSlot(i) \in past
  BY WalkSlots DEF Hits, NonDefault
<1>2. \A s \in past : \E i \in Hits(t) : WalkSlot(i) = s
  BY WalkSlots DEF Hits, NonDefault
<1>3. CASE Hits(t) = {}
  BY <1>2, <1>3 DEF get_checker_count_for_period
<1>4. CASE Hits(t) # {}
  <2>1. Hits(t) \subseteq Nat
    BY <1>1 DEF Slots
  <2>2. \E i \in Hits(t) : \A j \in Hits(t) : i <= j
    BY <2>1, <1>4, NatMin
  <2>. DEFINE first == CHOOSE i \in Hits(t) : \A j \in Hits(t) : i <= j
  <2>3. first \in Hits(t) /\ \A j \in Hits(t) : first <= j
    BY <2>2
  <2>4. c = data[WalkSlot(first)].count
    BY <1>4 DEF get_checker_count_for_period
  <2>. HIDE DEF first
  <2>. QED
    BY <2>3, <2>4, <1>1
<1>. QED
  BY <1>3, <1>4

LEMMA LookupTyped ==
  ASSUME TypeOK, NEW t \in Periods
  PROVE  get_checker_count_for_period(t) \in Counts \cup {None}
<1>1. \A s \in NonDefault : data[s].count \in Counts
  BY DEF NonDefault, TypeOK, Entries
<1>. QED
  BY <1>1, LookupResult

(***************************************************************************)
(* Until the ring is full, slots later in the array are newer, the walk    *)
(* meets them first, and so the first hit is the newest entry of the past. *)
(***************************************************************************)
LEMMA FirstRoundWalk ==
  ASSUME IInv, pushes < Capacity, NEW t \in Periods
  PROVE  MostRecentCount(t, get_checker_count_for_period(t))
<1>. USE BmbAssumption DEF IInv
<1>. DEFINE past == {s \in NonDefault : data[s].period <= t}
            c    == get_checker_count_for_period(t)
<1>1. CASE past = {} /\ c = None
  BY <1>1 DEF MostRecentCount
<1>2. CASE \E i \in Hits(t) : /\ \A j \in Hits(t) : i <= j
                              /\ WalkSlot(i) \in past
                              /\ c = data[WalkSlot(i)].count
  <2>1. PICK i \in Hits(t) : /\ \A j \in Hits(t) : i <= j
                             /\ WalkSlot(i) \in past
                             /\ c = data[WalkSlot(i)].count
    BY <1>2
  <2>2. \A s \in past : s \in Slots /\ s < pushes
    BY DEF NonDefault, FirstRound, TypeOK
  <2>3. \A j \in Hits(t) : j \in Slots /\ WalkSlot(j) \in past
    BY WalkSlots DEF Hits, NonDefault
  <2>4. \A j \in Hits(t) : WalkSlot(j) = pushes - j
    BY <2>2, <2>3 DEF WalkSlot, FirstRound, TypeOK, Slots
  <2>5. \A s \in past : \E j \in Hits(t) : WalkSlot(j) = s
    BY WalkSlots DEF Hits, NonDefault
  <2>6. \A s \in past : s <= WalkSlot(i)
    BY <2>1, <2>3, <2>4, <2>5 DEF Slots, TypeOK
  <2>7. \A s \in past : data[s].period \in Nat
    BY DEF NonDefault, TypeOK, Entries, Periods
  <2>8. \A s \in past : data[s].period <= data[WalkSlot(i)].period
    <3>1. ASSUME NEW s \in past
          PROVE  data[s].period <= data[WalkSlot(i)].period
      <4>1. s = WalkSlot(i) \/ s < WalkSlot(i)
        BY <2>1, <2>2, <2>6 DEF Slots
      <4>2. WalkSlot(i) \in Slots /\ WalkSlot(i) < pushes /\ s \in Slots
        BY <2>1, <2>2
      <4>3. s < WalkSlot(i) => data[s].period < data[WalkSlot(i)].period
        BY <4>2 DEF FirstRound, TypeOK
      <4>. QED
        BY <4>1, <4>3, <2>1, <2>7
    <3>. QED
      BY <3>1
  <2>. QED
    BY <2>1, <2>8 DEF MostRecentCount
<1>. QED
  BY <1>1, <1>2, LookupResult

(***************************************************************************)
(* Until the ring is full the admin's check is exact: AfterLastEntry looks *)
(* at the newest entry.                                                    *)
(***************************************************************************)
LEMMA AfterLastIsAfterAll ==
  ASSUME IInv, pushes <= Capacity, NEW p \in Periods, AfterLastEntry(p)
  PROVE  \A s \in NonDefault : data[s].period < p
<1>. USE BmbAssumption DEF IInv, FirstRound
<1>1. ASSUME NEW s \in NonDefault
      PROVE  data[s].period < p
  <2>1. NonDefault = {r \in Slots : r < pushes}
    BY DEF NonDefault
  <2>2. pushes # 0 /\ pushes - 1 \in NonDefault
    BY <1>1, <2>1 DEF Slots, TypeOK
  <2>3. \A r \in NonDefault : r <= pushes - 1
    BY <2>1 DEF Slots, TypeOK
  <2>4. data[pushes - 1].period < p
    BY <2>2, <2>3 DEF AfterLastEntry, NonDefault
  <2>5. s = pushes - 1 \/ data[s].period < data[pushes - 1].period
    BY <2>1, <2>2, <2>3 DEF Slots, TypeOK
  <2>6. data[s].period \in Nat /\ data[pushes - 1].period \in Nat
    BY <2>2 DEF TypeOK, Entries, Periods, NonDefault
  <2>. QED
    BY <2>4, <2>5, <2>6 DEF Periods
<1>. QED
  BY <1>1

-----------------------------------------------------------------------------
(* The invariant is inductive.                                             *)

LEMMA InitIInv == Init => IInv
<1>. SUFFICES ASSUME Init PROVE IInv
  OBVIOUS
<1>1. TypeOK
  BY TypeInit
<1>2. FirstRound
  BY BmbAssumption DEF Init, FirstRound, Slots
<1>. QED
  BY <1>1, <1>2 DEF IInv

LEMMA ActivateType ==
  ASSUME TypeOK, NEW p \in Periods, NEW c \in Counts, ActivateCheckerLicenses(p, c)
  PROVE  /\ TypeOK'
         /\ pushes' = pushes + 1
         /\ data'[current_index] = [period |-> p, count |-> c]
         /\ data'[current_index] # Empty
         /\ \A s \in Slots \ {current_index} : data'[s] = data[s]
         /\ current_index' = IF current_index + 1 = Capacity THEN 0 ELSE current_index + 1
<1>. USE BmbAssumption DEF ActivateCheckerLicenses, AfterToday, add_period_entry, next_index, TypeOK
<1>1. current_index' = IF current_index + 1 = Capacity THEN 0 ELSE current_index + 1
  BY SlotSucc
<1>2. current_index' \in Slots
  BY <1>1 DEF Slots
<1>3. [period |-> p, count |-> c] \in Entries
  BY DEF Entries
<1>4. data' \in [Slots -> Entries \cup {Empty}]
  BY <1>3
<1>5. [period |-> p, count |-> c] # Empty
  <2>1. p # 0
    BY DEF Periods
  <2>. QED
    BY <2>1 DEF Empty
<1>. QED
  BY <1>1, <1>2, <1>4, <1>5

LEMMA ActivateFirstRound ==
  ASSUME IInv, NEW p \in Periods, NEW c \in Counts, ActivateCheckerLicenses(p, c)
  PROVE  FirstRound'
<1>. USE BmbAssumption
<1>0. /\ pushes' = pushes + 1
      /\ data'[current_index] = [period |-> p, count |-> c]
      /\ data'[current_index] # Empty
      /\ \A s \in Slots \ {current_index} : data'[s] = data[s]
      /\ current_index' = IF current_index + 1 = Capacity THEN 0 ELSE current_index + 1
  BY ActivateType DEF IInv
<1>1. SUFFICES ASSUME pushes + 1 <= Capacity PROVE FirstRound'
  BY <1>0 DEF FirstRound
<1>2. pushes < Capacity /\ current_index = pushes /\ pushes \in Nat
  BY <1>1 DEF IInv, FirstRound, TypeOK
<1>3. \A s \in Slots : data'[s] # Empty <=> s < pushes + 1
  <2>1. ASSUME NEW s \in Slots
        PROVE  data'[s] # Empty <=> s < pushes + 1
    <3>1. CASE s = pushes
      BY <3>1, <1>2, <1>0 DEF IInv
    <3>2. CASE s # pushes
      <4>1. data'[s] = data[s]
        BY <3>2, <1>2, <1>0 DEF IInv
      <4>2. data[s] # Empty <=> s < pushes
        BY <1>2 DEF IInv, FirstRound
      <4>. QED
        BY <4>1, <4>2, <3>2, <1>2 DEF Slots
    <3>. QED
      BY <3>1, <3>2
  <2>. QED
    BY <2>1
<1>4. \A s \in NonDefault : data[s].period < p
  BY <1>2, AfterLastIsAfterAll DEF ActivateCheckerLicenses
<1>5. ASSUME NEW r \in Slots, NEW s \in Slots, r < s, s < pushes + 1
      PROVE  data'[r].period < data'[s].period
  <2>1. CASE s = pushes
    <3>1. r \in NonDefault /\ data'[r] = data[r]
      BY <2>1, <1>2, <1>5, <1>0 DEF IInv, FirstRound, NonDefault, Slots
    <3>2. data'[s].period = p
      BY <2>1, <1>2, <1>0 DEF IInv
    <3>. QED
      BY <3>1, <3>2, <1>4
  <2>2. CASE s < pushes
    <3>1. data'[r] = data[r] /\ data'[s] = data[s]
      BY <2>2, <1>2, <1>5, <1>0 DEF IInv, Slots
    <3>. QED
      BY <3>1, <2>2, <1>2, <1>5 DEF IInv, FirstRound
  <2>. QED
    BY <2>1, <2>2, <1>2, <1>5 DEF Slots
<1>. QED
  BY <1>2, <1>3, <1>5, <1>0 DEF FirstRound

LEMMA NextIInv == IInv /\ [Next]_vars => IInv'
<1>. SUFFICES ASSUME IInv, [Next]_vars PROVE IInv'
  OBVIOUS
<1>. USE BmbAssumption
<1>1. CASE AdvancePeriod
  BY <1>1 DEF AdvancePeriod, IInv, TypeOK, FirstRound, Periods
<1>2. ASSUME NEW p \in Periods, NEW c \in Counts, ActivateCheckerLicenses(p, c)
      PROVE  IInv'
  BY <1>2, ActivateType, ActivateFirstRound DEF IInv
<1>3. ASSUME NEW t \in Periods, LookUp(t)
      PROVE  IInv'
  BY <1>3, LookupTyped DEF LookUp, IInv, TypeOK, FirstRound
<1>4. CASE UNCHANGED vars
  BY <1>4 DEF vars, IInv, TypeOK, FirstRound
<1>. QED
  BY <1>1, <1>2, <1>3, <1>4 DEF Next

(***************************************************************************)
(* The account is well formed, and its first round is written in order of  *)
(* period.                                                                 *)
(***************************************************************************)
THEOREM RingInvariant == Spec => []IInv
BY InitIInv, NextIInv, PTL DEF Spec

(***************************************************************************)
(* The variables stay in their types.                                      *)
(***************************************************************************)
THEOREM TypeCorrect == Spec => []TypeOK
<1>1. IInv => TypeOK
  BY DEF IInv
<1>. QED
  BY <1>1, RingInvariant, PTL

-----------------------------------------------------------------------------
(* The safety properties.                                                  *)

(***************************************************************************)
(* Until the ring is full, every lookup finds the most recent entry at or  *)
(* before its target.                                                      *)
(***************************************************************************)
THEOREM LookupCorrect == Spec => []LookupMostRecent
<1>1. IInv => LookupMostRecent
  BY FirstRoundWalk DEF LookupMostRecent, WalkFindsMostRecent
<1>. QED
  BY <1>1, RingInvariant, PTL

(***************************************************************************)
(* Up to the activation that follows the first full round, every           *)
(* activation is for a later day than every entry of the ring.             *)
(***************************************************************************)
THEOREM EntriesIncreaseHolds == Spec => EntriesIncrease
<1>1. ASSUME IInv, [Next]_vars, pushes <= Capacity, pushes' # pushes
      PROVE  \A s \in NonDefault : data'[current_index].period > data[s].period
  <2>1. PICK p \in Periods, c \in Counts : ActivateCheckerLicenses(p, c)
    BY <1>1 DEF Next, vars, AdvancePeriod, LookUp
  <2>2. \A s \in NonDefault : data[s].period < p
    BY <1>1, <2>1, AfterLastIsAfterAll DEF ActivateCheckerLicenses
  <2>3. data'[current_index] = [period |-> p, count |-> c]
    BY <1>1, <2>1, ActivateType DEF IInv
  <2>4. \A s \in NonDefault : data[s].period \in Nat
    BY <1>1 DEF NonDefault, IInv, TypeOK, Entries, Periods
  <2>. QED
    BY <2>2, <2>3, <2>4 DEF Periods
<1>2. IInv /\ [Next]_vars => [pushes <= Capacity => NewEntryIsLatest]_vars
  BY <1>1 DEF NewEntryIsLatest
<1>. QED
  BY <1>2, RingInvariant, PTL DEF Spec, EntriesIncrease

(***************************************************************************)
(* Two answers that are both the most recent count of the same past agree, *)
(* because periods differ in the first round.                              *)
(***************************************************************************)
LEMMA MostRecentUnique ==
  ASSUME IInv, pushes < Capacity, NEW t \in Periods, NEW c, NEW d,
         MostRecentCount(t, c), MostRecentCount(t, d)
  PROVE  c = d
<1>. USE BmbAssumption DEF IInv
<1>. DEFINE past == {s \in NonDefault : data[s].period <= t}
<1>1. CASE past = {}
  BY <1>1 DEF MostRecentCount
<1>2. CASE past # {}
  <2>1. PICK r \in past : data[r].count = c /\ \A q \in past : data[q].period <= data[r].period
    BY <1>2 DEF MostRecentCount
  <2>2. PICK s \in past : data[s].count = d /\ \A q \in past : data[q].period <= data[s].period
    BY <1>2 DEF MostRecentCount
  <2>3. data[r].period = data[s].period
    BY <2>1, <2>2 DEF NonDefault, TypeOK, Entries, Periods
  <2>4. r \in Slots /\ s \in Slots /\ r < pushes /\ s < pushes
    BY DEF NonDefault, FirstRound, TypeOK
  <2>5. r = s
    <3>1. CASE r < s
      BY <3>1, <2>3, <2>4 DEF FirstRound, TypeOK, Entries, Periods, NonDefault
    <3>2. CASE s < r
      BY <3>2, <2>3, <2>4 DEF FirstRound, TypeOK, Entries, Periods, NonDefault
    <3>. QED
      BY <3>1, <3>2, <2>4 DEF Slots
  <2>. QED
    BY <2>1, <2>2, <2>5
<1>. QED
  BY <1>1, <1>2

(***************************************************************************)
(* Until the ring is full, no step changes the count of a day that has     *)
(* begun: the count a proof was collected under is the count it is paid    *)
(* under.                                                                  *)
(***************************************************************************)
THEOREM StartedPeriodsFixedHolds == Spec => StartedPeriodsFixed
<1>1. IInv /\ pushes < Capacity => WalkFindsMostRecent
  BY FirstRoundWalk DEF WalkFindsMostRecent
<1>2. (IInv /\ pushes < Capacity => WalkFindsMostRecent)'
  BY <1>1, PTL
<1>3. ASSUME IInv, IInv', [Next]_vars, pushes' < Capacity, NEW t \in 0..period
      PROVE  get_checker_count_for_period(t)' = get_checker_count_for_period(t)
  <2>. USE BmbAssumption
  <2>1. t \in Periods
    BY <1>3 DEF IInv, TypeOK, Periods
  <2>2. CASE UNCHANGED ring
    BY <2>2 DEF ring, get_checker_count_for_period, Hits, WalkSlot
  <2>3. ASSUME NEW p \in Periods, NEW c \in Counts, ActivateCheckerLicenses(p, c)
        PROVE  get_checker_count_for_period(t)' = get_checker_count_for_period(t)
    <3>1. /\ pushes' = pushes + 1
          /\ data'[current_index] = [period |-> p, count |-> c]
          /\ \A s \in Slots \ {current_index} : data'[s] = data[s]
      BY <1>3, <2>3, ActivateType DEF IInv
    <3>2. pushes < Capacity
      BY <1>3, <3>1 DEF IInv, TypeOK
    <3>3. data[current_index] = Empty /\ current_index \in Slots
      BY <1>3, <3>2 DEF IInv, TypeOK, FirstRound
    <3>4. p > t
      BY <1>3, <2>3 DEF ActivateCheckerLicenses, AfterToday, IInv, TypeOK, Periods
    <3>. DEFINE past == {s \in NonDefault : data[s].period <= t}
    <3>5. current_index \notin past /\ current_index \notin past'
      BY <3>1, <3>3, <3>4, <2>1 DEF NonDefault, Periods
    <3>6. past' = past /\ \A s \in past : data'[s] = data[s]
      BY <3>1, <3>5 DEF NonDefault
    <3>7. MostRecentCount(t, get_checker_count_for_period(t))
      BY <1>3, <2>1, <3>2, <1>1 DEF WalkFindsMostRecent
    <3>8. ASSUME NEW d, MostRecentCount(t, d)'
          PROVE  MostRecentCount(t, d)
      BY <3>6, <3>8 DEF MostRecentCount
    <3>9. MostRecentCount(t, get_checker_count_for_period(t))'
      BY <1>3, <1>2, <2>1 DEF WalkFindsMostRecent, Periods
    <3>10. PICK d : d = get_checker_count_for_period(t)' /\ MostRecentCount(t, d)'
      BY <3>9
    <3>. QED
      BY <1>3, <2>1, <3>2, <3>7, <3>8, <3>10, MostRecentUnique
  <2>. QED
    BY <1>3, <2>2, <2>3 DEF Next, vars, ring, AdvancePeriod, LookUp
<1>4. IInv /\ IInv' /\ [Next]_vars
      => [pushes' < Capacity =>
            \A t \in 0..period :
               get_checker_count_for_period(t)' = get_checker_count_for_period(t)]_vars
  BY <1>3
<1>. QED
  BY <1>4, RingInvariant, PTL DEF Spec, StartedPeriodsFixed

-----------------------------------------------------------------------------
(* The account implements the abstract schedule.                           *)

LEMMA RetainedAfterActivate ==
  ASSUME IInv, NEW p \in Periods, NEW c \in Counts, ActivateCheckerLicenses(p, c)
  PROVE  Schedule!Announce(p, c)
<1>. USE BmbAssumption
<1>. DEFINE new  == [period |-> p, count |-> c]
            lost == RetainedEntries \ RetainedEntries'
<1>1. /\ pushes' = pushes + 1
      /\ current_index \in Slots
      /\ data'[current_index] = new
      /\ data'[current_index] # Empty
      /\ \A s \in Slots \ {current_index} : data'[s] = data[s]
  BY ActivateType DEF IInv, TypeOK
<1>2. p > period /\ UNCHANGED <<period, answer>>
  BY DEF ActivateCheckerLicenses, AfterToday
<1>3. pushes <= Capacity => \A e \in RetainedEntries : e.period < p
  BY AfterLastIsAfterAll DEF ActivateCheckerLicenses, RetainedEntries
<1>4. new \in RetainedEntries' /\ RetainedEntries' \subseteq RetainedEntries \cup {new}
  BY <1>1 DEF RetainedEntries, NonDefault
<1>5. RetainedEntries' = (RetainedEntries \ lost) \cup {new}
  BY <1>4
<1>6. \A e \in lost : e = data[current_index] /\ e # Empty
  BY <1>1 DEF RetainedEntries, NonDefault
<1>7. pushes < Capacity => lost = {}
  BY <1>1, <1>6 DEF IInv, FirstRound, TypeOK
<1>8. \E l \in SUBSET RetainedEntries :
         /\ \A e, f \in l : e = f
         /\ pushes < Capacity => l = {}
         /\ RetainedEntries' = (RetainedEntries \ l) \cup {new}
  BY <1>5, <1>6, <1>7
<1>. QED
  BY <1>1, <1>2, <1>3, <1>8 DEF Schedule!Announce

LEMMA AnswerIsPromised ==
  ASSUME IInv, NEW t \in Periods
  PROVE  get_checker_count_for_period(t) \in Schedule!Answers(t)
<1>. USE BmbAssumption
<1>. DEFINE past == {s \in NonDefault : data[s].period <= t}
            c    == get_checker_count_for_period(t)
            P    == Schedule!Past(RetainedEntries, t)
<1>1. P = {data[s] : s \in past}
  BY DEF Schedule!Past, RetainedEntries
<1>2. CASE past = {} /\ c = None
  BY <1>1, <1>2 DEF Schedule!Answers
<1>3. CASE \E i \in Hits(t) : /\ \A j \in Hits(t) : i <= j
                              /\ WalkSlot(i) \in past
                              /\ c = data[WalkSlot(i)].count
  <2>1. P # {}
    <3>1. past # {}
      BY <1>3
    <3>. HIDE DEF past, P
    <3>. QED
      BY <1>1, <3>1
  <2>2. CASE pushes < Capacity
    <3>1. MostRecentCount(t, c)
      BY <2>2, FirstRoundWalk
    <3>2. PICK s \in past : data[s].count = c /\ \A r \in past : data[r].period <= data[s].period
      BY <3>1, <1>3 DEF MostRecentCount
    <3>3. data[s] \in Schedule!Latest(P)
      BY <3>2, <1>1 DEF Schedule!Latest
    <3>. QED
      BY <3>2, <3>3, <2>1, <2>2 DEF Schedule!Answers
  <2>3. CASE ~(pushes < Capacity)
    <3>1. PICK s \in past : data[s].count = c
      BY <1>3
    <3>2. data[s] \in P
      BY <1>1
    <3>. QED
      BY <3>1, <3>2, <2>1, <2>3 DEF Schedule!Answers
  <2>. QED
    BY <2>2, <2>3
<1>. QED
  BY <1>2, <1>3, LookupResult DEF IInv

(***************************************************************************)
(* The ring buffer implements the promise of CheckerSchedule in every      *)
(* behaviour, however often it is written round.                           *)
(***************************************************************************)
THEOREM RingImplementsSchedule == Spec => RefinesSchedule
<1>. USE BmbAssumption
<1>1. Init => Schedule!Init
  BY DEF Init, Schedule!Init, RetainedEntries, NonDefault, Periods, Schedule!Periods
<1>2. IInv /\ [Next]_vars => [Schedule!Next]_(Schedule!vars)
  <2>. SUFFICES ASSUME IInv, [Next]_vars PROVE [Schedule!Next]_(Schedule!vars)
    OBVIOUS
  <2>1. CASE AdvancePeriod
    BY <2>1 DEF AdvancePeriod, Schedule!Next, Schedule!DayPasses, RetainedEntries, NonDefault
  <2>2. ASSUME NEW p \in Periods, NEW c \in Counts, ActivateCheckerLicenses(p, c)
        PROVE  Schedule!Next
    BY <2>2, RetainedAfterActivate DEF Schedule!Next, Periods, Schedule!Periods
  <2>3. ASSUME NEW t \in Periods, LookUp(t)
        PROVE  Schedule!Next
    <3>1. Schedule!Ask(t)
      BY <2>3, AnswerIsPromised DEF LookUp, Schedule!Ask, RetainedEntries, NonDefault
    <3>. QED
      BY <3>1 DEF Schedule!Next, Periods, Schedule!Periods
  <2>4. CASE UNCHANGED vars
    BY <2>4 DEF vars, Schedule!vars, RetainedEntries, NonDefault
  <2>. QED
    BY <2>1, <2>2, <2>3, <2>4 DEF Next
<1>. QED
  BY <1>1, <1>2, RingInvariant, PTL DEF Spec, RefinesSchedule, Schedule!Spec
=============================================================================
