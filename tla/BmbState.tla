------------------------------- MODULE BmbState -------------------------------
(***************************************************************************)
(* The BMBState account: a ring buffer of (period, checker count) entries  *)
(* that the licence administrator appends to and that the program, the     *)
(* workers and the checkers search for the count of a day.                 *)
(*                                                                         *)
(* An entry is the pair a u64 word encodes; Empty is what the word 0       *)
(* decodes to.  The account is created by the first activation, in the     *)
(* same transaction as its first entry, so "the account does not exist" is *)
(* "every slot is Empty".                                                  *)
(***************************************************************************)
EXTENDS Naturals

CONSTANTS Capacity,     \* slots of the ring buffer (16 in the program)
          MaxPeriod,    \* bound: the last day the clock reaches
          Counts,       \* bound: the checker counts an administrator activates
          MaxPushes,    \* bound: activations explored
          None          \* Option::None of a lookup

ASSUME BmbAssumption == /\ Capacity \in Nat \ {0, 1}
                        /\ MaxPeriod \in Nat
                        /\ Counts \subseteq Nat
                        /\ MaxPushes \in Nat
                        /\ None \notin Nat

VARIABLES period,         \* get_current_period(): days since the genesis day
          data,           \* RingBuffer.data
          current_index,  \* RingBuffer.current_index, the next slot to write
          pushes,         \* how many activations have succeeded
          answer          \* the last lookup somebody made

ring == <<data, current_index>>
vars == <<period, data, current_index, pushes, answer>>

Periods == 0..MaxPeriod
Slots   == 0..(Capacity - 1)
Entries == [period : Periods, count : Counts]
Empty   == [period |-> 0, count |-> 0]

TypeOK == /\ period \in Periods
          /\ data \in [Slots -> Entries \cup {Empty}]
          /\ current_index \in Slots
          /\ pushes \in 0..MaxPushes
          /\ answer \in [target : Periods, count : Counts \cup {None}]

-----------------------------------------------------------------------------
(* Reading the ring.                                                       *)

NonDefault == {s \in Slots : data[s] # Empty}

\* A faulty walk: oldest slot first.
WalkSlot_Forward(i) == (current_index + i) % Capacity

\* The slot visited at step i of the walk back from the write position.
WalkSlot(i) == IF current_index >= i THEN current_index - i
                                     ELSE Capacity + current_index - i

\* A faulty search: it misses an announcement that starts on the day itself.
Hits_Strict(target) == {i \in Slots : /\ data[WalkSlot(i)] # Empty
                                      /\ data[WalkSlot(i)].period < target}

\* The steps of the walk that find a written entry at or before the target.
Hits(target) == {i \in Slots : /\ data[WalkSlot(i)] # Empty
                               /\ data[WalkSlot(i)].period <= target}

\* The walk returns the count of its first hit.
get_checker_count_for_period(target) ==
    IF Hits(target) = {}
    THEN None
    ELSE LET first == CHOOSE i \in Hits(target) : \A j \in Hits(target) : i <= j
         IN  data[WalkSlot(first)].count

\* A faulty check: it compares with the first written slot.
AfterLastEntry_First(p) ==
    \A s \in NonDefault :
        (\A r \in NonDefault : s <= r) => p > data[s].period

\* get_all_entries().last(): the written slot with the highest array index,
\* which the admin instruction compares a new period with.
AfterLastEntry(p) ==
    \A s \in NonDefault :
        (\A r \in NonDefault : r <= s) => p > data[s].period

-----------------------------------------------------------------------------

Init == /\ period \in Periods
        /\ data = [s \in Slots |-> Empty]
        /\ current_index = 0
        /\ pushes = 0
        /\ answer = [target |-> period, count |-> None]

\* The chain's clock reaches the next day.
AdvancePeriod == /\ period < MaxPeriod
                 /\ period' = period + 1
                 /\ UNCHANGED <<data, current_index, pushes, answer>>

\* A faulty index: it runs off the array.
next_index_NoWrap == current_index + 1

next_index == (current_index + 1) % Capacity

add_period_entry(p, c) ==
    /\ data' = [data EXCEPT ![current_index] = [period |-> p, count |-> c]]
    /\ current_index' = next_index

\* A faulty check: today's count can be changed during the day.
AfterToday_OrToday(p) == p >= period

AfterToday(p) == p > period

\* The ActivateCheckerLicenses instruction, signed by the administrator.
ActivateCheckerLicenses(p, c) ==
    /\ pushes < MaxPushes
    /\ AfterToday(p)
    /\ AfterLastEntry(p)
    /\ add_period_entry(p, c)
    /\ pushes' = pushes + 1
    /\ UNCHANGED <<period, answer>>

\* Somebody reads the account and looks a day up: the program for the day of a
\* proof, a worker or a checker for today, a client for any day.
LookUp(target) ==
    /\ answer' = [target |-> target, count |-> get_checker_count_for_period(target)]
    /\ UNCHANGED <<period, data, current_index, pushes>>

Next == \/ AdvancePeriod
        \/ \E p \in Periods, c \in Counts : ActivateCheckerLicenses(p, c)
        \/ \E t \in Periods : LookUp(t)

Spec == Init /\ [][Next]_vars

-----------------------------------------------------------------------------
(* Properties.  The ring answers exactly while it has an unwritten slot at  *)
(* the write position, that is while pushes < Capacity.                     *)

\* c is the count of the newest written entry at or before the target.
MostRecentCount(target, c) ==
    LET past == {s \in NonDefault : data[s].period <= target}
    IN  IF past = {}
        THEN c = None
        ELSE \E s \in past : /\ data[s].count = c
                             /\ \A r \in past : data[r].period <= data[s].period

\* The claim of the comment on get_checker_count_for_period: for every day the
\* walk returns the count of the most recent entry at or before that day.
WalkFindsMostRecent ==
    \A t \in Periods : MostRecentCount(t, get_checker_count_for_period(t))

\* The claim holds until the ring is full.
LookupMostRecent == pushes < Capacity => WalkFindsMostRecent

\* The claim of the comment in process_activate_checker_licenses: a successful
\* activation is for a later day than every entry of the ring.
NewEntryIsLatest ==
    pushes' # pushes =>
        \A s \in NonDefault : data'[current_index].period > data[s].period

EntriesAlwaysIncrease == [][NewEntryIsLatest]_vars

\* The claim holds up to and including the activation that follows the first
\* full round of the ring.
EntriesIncrease == [][pushes <= Capacity => NewEntryIsLatest]_vars

\* Rewards of a day are paid the next day, with a second lookup of a count that
\* the checkers and the worker looked up during the day.  No activation may
\* change the answer for a day that has begun.
StartedPeriodsFixed ==
    [][pushes' < Capacity =>
         \A t \in 0..period :
             get_checker_count_for_period(t)' = get_checker_count_for_period(t)]_vars

\* The account implements the promise of CheckerSchedule: the entries retained
\* are those in the written slots, in no order.
RetainedEntries == {data[s] : s \in NonDefault}

Schedule == INSTANCE CheckerSchedule WITH
                Retain <- Capacity, schedule <- RetainedEntries, announced <- pushes

RefinesSchedule == Schedule!Spec
=============================================================================
