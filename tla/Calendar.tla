-------------------------------- MODULE Calendar --------------------------------
(***************************************************************************)
(* The reward of a day: get_month_from_period turns a period, counted in   *)
(* days from 2025-06-01, into a month by integer arithmetic on civil       *)
(* dates; get_checker_reward looks the month up in a falling table.        *)
(*                                                                         *)
(* The domain of both is small enough to check all of it: the ASSUMEs at   *)
(* the end compare them with a plain calendar for every u16 period.        *)
(***************************************************************************)
EXTENDS Naturals

AllPeriods == 0..65535

\* Years begin on the first of March here, so that a leap day ends its year.  Days
\* are counted from 0000-03-01; there are none before it among the periods.
get_month_from_period(p) ==
    LET z   == 20240 + p + 719468
        era == z \div 146097
        doe == z - era * 146097
        yoe == (doe - doe \div 1460 + doe \div 36524 - doe \div 146096) \div 365
        doy == doe - (365 * yoe + yoe \div 4 - yoe \div 100)
        mp  == (5 * doy + 2) \div 153
        m   == IF mp < 10 THEN mp + 3 ELSE mp - 9
        y   == yoe + era * 400 + (IF m <= 2 THEN 1 ELSE 0)
    IN  y * 12 + m - (2025 * 12 + 6)

MonthReward(month) ==
    CASE month <= 11      -> 1000 - 50 * month
      [] month \in 12..17 -> 400
      [] month \in 18..23 -> 350
      [] month \in 24..29 -> 300
      [] month \in 30..35 -> 250
      [] month \in 36..41 -> 200
      [] month \in 42..47 -> 175
      [] month \in 48..53 -> 150
      [] month \in 54..59 -> 125
      [] OTHER            -> 100

get_checker_reward(p) == MonthReward(get_month_from_period(p))

-----------------------------------------------------------------------------
(* The calendar as people keep it.                                         *)

LeapYear(y) == y % 4 = 0 /\ (y % 100 # 0 \/ y % 400 = 0)

\* The days of the month with an index counted from June 2025.
DaysIn(month) ==
    LET m == ((month + 5) % 12) + 1
        y == 2025 + (month + 5) \div 12
    IN  CASE m \in {4, 6, 9, 11} -> 30
          [] m = 2               -> IF LeapYear(y) THEN 29 ELSE 28
          [] OTHER               -> 31

\* The first of a month; day 0 is one.
FirstOfMonth(p) == p = 0 \/ get_month_from_period(p) # get_month_from_period(p - 1)

\* The arithmetic agrees with the calendar on every day that a u16 can count, that is
\* until 2204, with two turns of a century that skip a leap day: the count of months
\* starts at 0, and each month has its length and is followed by the next.
ASSUME MonthsAgree ==
    /\ get_month_from_period(0) = 0
    /\ \A p \in AllPeriods : FirstOfMonth(p) =>
          LET month == get_month_from_period(p)
              days  == DaysIn(month)
          IN  /\ \A d \in 1..(days - 1) : get_month_from_period(p + d) = month
              /\ get_month_from_period(p + days) = month + 1

\* The reward of a later day is never higher, and never zero: a balance of zero means
\* that nothing is due.
ASSUME RewardNeverRises ==
    /\ \A p \in AllPeriods \ {65535} : get_checker_reward(p + 1) <= get_checker_reward(p)
    /\ \A p \in AllPeriods : get_checker_reward(p) \in 100..1000
=============================================================================
