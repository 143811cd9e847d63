--------------------------- MODULE CheckerSchedule ---------------------------
(***************************************************************************)
(* What the on-chain checker schedule promises, with no ring buffer in it. *)
(* The administrator announces, for days that have not begun, how many     *)
(* checker licences are active from that day on; everybody else asks for   *)
(* the count of a day.                                                     *)
(*                                                                         *)
(* The promise has two regimes.  Until Retain announcements have been made *)
(* the schedule behaves as its comments say: announced days increase and a *)
(* lookup answers with the most recent announcement at or before the day.  *)
(* From then on one earlier announcement may be forgotten per new one, and *)
(* a lookup only answers with SOME retained announcement that is not in    *)
(* the future of the day asked about.                                      *)
(***************************************************************************)
EXTENDS Naturals

CONSTANTS MaxPeriod,    \* the last day the clock reaches
          Counts,       \* the checker counts an administrator may announce
          Retain,       \* announcements the schedule answers exactly for
          None          \* the answer when no announcement applies

VARIABLES period,       \* today
          schedule,     \* the announcements retained
          announced,    \* how many announcements were ever made
          answer        \* the last lookup: the day asked about and the count

vars == <<period, schedule, announced, answer>>

Periods == 0..MaxPeriod
Entries == [period : Periods, count : Counts]

Past(entries, target) == {e \in entries : e.period <= target}

Latest(entries) == {e \in entries : \A f \in entries : f.period <= e.period}

\* The counts a lookup of "target" may return.
Answers(target) ==
    LET past  == Past(schedule, target)
        exact == IF announced < Retain THEN Latest(past) ELSE past
    IN  IF past = {} THEN {None} ELSE {e.count : e \in exact}

-----------------------------------------------------------------------------

Init == /\ period \in Periods
        /\ schedule = {}
        /\ announced = 0
        /\ answer = [target |-> period, count |-> None]

DayPasses == /\ period < MaxPeriod
             /\ period' = period + 1
             /\ UNCHANGED <<schedule, announced, answer>>

Announce(p, c) ==
    /\ p > period
    /\ announced <= Retain => \A e \in schedule : e.period < p
    /\ \E lost \in SUBSET schedule :
          /\ \A e, f \in lost : e = f
          /\ announced < Retain => lost = {}
          /\ schedule' = (schedule \ lost) \cup {[period |-> p, count |-> c]}
    /\ announced' = announced + 1
    /\ UNCHANGED <<period, answer>>

Ask(target) == /\ answer' \in {[target |-> target, count |-> c] : c \in Answers(target)}
               /\ UNCHANGED <<period, schedule, announced>>

Next == \/ DayPasses
        \/ \E p \in Periods, c \in Counts : Announce(p, c)
        \/ \E t \in Periods : Ask(t)

Spec == Init /\ [][Next]_vars
=============================================================================
