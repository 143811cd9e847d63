--------------------------- MODULE CheckerNodeProofs ---------------------------
(***************************************************************************)
(* Proofs about the checker's service, for every set of workers, every     *)
(* BRAND function, every length of a day and all thresholds and intervals  *)
(* in the order CheckerAssumption states.                                  *)
(*                                                                         *)
(* The invariant ties each session to the loop and to the clock.  Task and *)
(* Placed say which day the loop works on and that nothing of a later day, *)
(* or of a day whose discovery has not begun, exists; that while all       *)
(* documents of a day are usable, what still runs of it belongs to the     *)
(* task in hand.  Timely bounds a session by its own cutoff and, as long   *)
(* as the task's timers still stand over it, by the end of its day.        *)
(***************************************************************************)
EXTENDS CheckerNode, NumberLemmas

Entry == [pc : {"none", "fetch", "pending", "bad", "wait", "check", "post", "ended"},
          cutoff : 0..LastTick,
          due : Nat,
          sampled : BOOLEAN]

Discovering == pc \in {"discover", "pause"}

-----------------------------------------------------------------------------
(* The inductive invariant.                                                *)

\* The loop, its day and its abort timer, which is never due late.
Task ==
    /\ currentPeriod = period /\ period <= Today
    /\ pc \in Busy => period \in Days
    /\ \A d \in closed : d <= period
    /\ pc \in Busy \ {"closing"} => period \notin closed
    /\ Discovering => /\ abortAt >= End(period) - PERIOD_SKIP_THRESHOLD
                      /\ abortAt <= now \/ abortAt = End(period) - PERIOD_SKIP_THRESHOLD
    /\ pc = "health" => abortAt <= now \/ abortAt = End(period) - HEALTH_ABORT_THRESHOLD

\* What may be known of a worker on a day, depending on the place of the loop.
Placed(s) ==
    /\ s[2] > period => entry[s].pc = "none"
    /\ s[2] = period /\ pc \in {"settle", "retry", "read", "list"} => entry[s].pc = "none"
    /\ s[2] = period /\ Discovering => entry[s].pc # "bad"
    /\ entry[s].pc = "pending" => s[2] = period /\ Discovering
    /\ DocumentsUsable(s[2]) /\ entry[s].pc = "fetch" => s[2] = period /\ pc = "discover"
    /\ DocumentsUsable(s[2]) /\ Running(entry[s])
          => /\ s[2] = period
             /\ Discovering \/ (pc = "health" /\ s \in awaited)

\* A session against the clock: e is what is known of session s, or of day d.
OwnTime(e, s) ==
    /\ e.pc = "wait" => now <= e.due /\ e.due <= e.cutoff
    /\ e.pc \in {"wait", "check"} => e.cutoff <= End(s[2]) - MIN_EARLY /\ s[2] \notin aborted
    /\ e.pc = "post" /\ s[1] \notin Trickling => now <= e.due

DayTime(e, d) ==
    /\ e.pc \in {"wait", "check"} => now <= End(d) - HEALTH_ABORT_THRESHOLD
    /\ e.pc = "post" => e.due < End(d)

Timely(s) == /\ OwnTime(entry[s], s)
             /\ DocumentsUsable(s[2]) => DayTime(entry[s], s[2])

\* While the discovery runs each eligible worker has a fetch, a further round or a
\* session.
Measured == Discovering => \A w \in eligible : entry[<<w, period>>].pc # "none"

IInv == /\ TypeOK
        /\ Task
        /\ Measured
        /\ EligibleMeasured
        /\ \A s \in Sessions : Placed(s)
        /\ \A s \in Sessions : Timely(s)

-----------------------------------------------------------------------------
(* The constants and the days.                                             *)

LEMMA Thresholds ==
    /\ DayTicks \in Nat \ {0} /\ MaxDay \in Nat \ {0}
    /\ RETRY_INTERVAL \in Nat /\ MAX_DELAY \in Nat /\ PostTime \in Nat
    /\ MIN_INTERVAL \in Nat \ {0} /\ MAX_INTERVAL \in Nat
    /\ MIN_EARLY \in Nat /\ MAX_EARLY \in Nat
    /\ PERIOD_END_THRESHOLD \in Nat /\ PERIOD_SKIP_THRESHOLD \in Nat
    /\ HEALTH_ABORT_THRESHOLD \in Nat
    /\ PostTime < HEALTH_ABORT_THRESHOLD
    /\ HEALTH_ABORT_THRESHOLD <= MIN_EARLY
    /\ MIN_EARLY <= PERIOD_SKIP_THRESHOLD
    /\ PERIOD_SKIP_THRESHOLD < DayTicks
BY CheckerAssumption

LEMMA LastTickType == LastTick \in Nat
<1>1. 1 <= MaxDay /\ 1 <= DayTicks
  BY Thresholds
<1>2. DayTicks * 1 <= DayTicks * MaxDay
  BY <1>1, Thresholds, MulMono
<1>3. MaxDay * DayTicks = DayTicks * MaxDay /\ MaxDay * DayTicks \in Nat
  BY Thresholds
<1>. QED
  BY <1>1, <1>2, <1>3, Thresholds DEF LastTick, End

LEMMA DayEnds ==
  ASSUME NEW d \in Days
  PROVE  /\ End(d) \in Nat
         /\ DayTicks <= End(d)
         /\ End(d) <= LastTick + 1
<1>1. d \in Nat /\ 1 <= d /\ d <= MaxDay
  BY Thresholds DEF Days
<1>2. DayTicks * 1 <= DayTicks * d /\ DayTicks * d <= DayTicks * MaxDay
  BY <1>1, Thresholds, MulMono
<1>3. /\ d * DayTicks = DayTicks * d /\ d * DayTicks \in Nat
      /\ MaxDay * DayTicks = DayTicks * MaxDay /\ MaxDay * DayTicks \in Nat
  BY <1>1, Thresholds
<1>. QED
  BY <1>2, <1>3, Thresholds DEF LastTick, End

LEMMA TodayIsDay ==
  ASSUME now \in 0..LastTick
  PROVE  /\ Today \in Days
         /\ now < End(Today)
<1>. DEFINE q == now \div DayTicks
<1>0. now \in Nat /\ now <= LastTick
  BY LastTickType
<1>1. q \in Nat /\ DayTicks * q <= now /\ now < DayTicks * q + DayTicks
  BY <1>0, Thresholds, DivBound
<1>. HIDE DEF q
<1>2. now < MaxDay * DayTicks
  BY <1>0, Thresholds DEF LastTick, End
<1>3. q < MaxDay
  <2>1. CASE MaxDay <= q
    <3>1. DayTicks * MaxDay <= DayTicks * q
      BY <1>1, <2>1, Thresholds, MulMono
    <3>2. MaxDay * DayTicks = DayTicks * MaxDay /\ MaxDay * DayTicks \in Nat /\ DayTicks * q \in Nat
      BY <1>1, Thresholds
    <3>. QED
      BY <1>0, <1>1, <1>2, <3>1, <3>2
  <2>. QED
    BY <2>1, <1>1, Thresholds
<1>4. Today = q + 1
  BY DEF Today, q
<1>5. (q + 1) * DayTicks = DayTicks * q + DayTicks
  BY <1>1, Thresholds
<1>. QED
  BY <1>1, <1>3, <1>4, <1>5, Thresholds DEF Days, End

-----------------------------------------------------------------------------
(* The operators the sessions are built from.                              *)

LEMMA CutoffBounds ==
  ASSUME now \in 0..LastTick, NEW d \in Days, NEW c \in Cutoffs(d)
  PROVE  c \in 0..LastTick /\ c <= End(d) - MIN_EARLY
<1>1. PICK early \in MIN_EARLY..MAX_EARLY :
         c = Earlier(End(d) - MIN_EARLY, Later(End(d) - early, now + MIN_INTERVAL))
  BY DEF Cutoffs
<1>2. early \in Int /\ now \in Nat
  BY <1>1, Thresholds, LastTickType
<1>3. End(d) \in Nat /\ DayTicks <= End(d) /\ End(d) <= LastTick + 1
  BY DayEnds
<1>4. 1 <= MIN_EARLY /\ MIN_EARLY <= DayTicks
  BY Thresholds
<1>5. now + MIN_INTERVAL \in Nat /\ End(d) - early \in Int
  BY <1>2, <1>3, Thresholds
<1>. DEFINE run == Later(End(d) - early, now + MIN_INTERVAL)
<1>6. run \in Nat
  BY <1>5 DEF Later
<1>. HIDE DEF run
<1>7. c = Earlier(End(d) - MIN_EARLY, run)
  BY <1>1 DEF run
<1>. QED
  BY <1>3, <1>4, <1>6, <1>7, Thresholds, LastTickType DEF Earlier

LEMMA UnknownEntry ==
    /\ Unknown \in Entry /\ Unknown.pc = "none"
    /\ Ended \in Entry /\ Ended.pc = "ended"
    /\ [Unknown EXCEPT !.pc = "fetch"] \in Entry
    /\ [Unknown EXCEPT !.pc = "fetch"].pc = "fetch"
    /\ [Unknown EXCEPT !.pc = "pending"] \in Entry
    /\ [Unknown EXCEPT !.pc = "pending"].pc = "pending"
    /\ [Unknown EXCEPT !.pc = "bad"] \in Entry
    /\ [Unknown EXCEPT !.pc = "bad"].pc = "bad"
<1>1. 0 \in 0..LastTick
  BY LastTickType
<1>. QED
  BY <1>1 DEF Unknown, Ended, Entry

LEMMA FinishResult ==
  ASSUME now \in 0..LastTick, NEW e \in Entry, NEW d
  PROVE  /\ Finish(e, d) \in Entry
         /\ Finish(e, d).pc \in {"post", "ended"}
         /\ Finish(e, d).pc = "post" => Finish(e, d).due = now + PostTime
<1>1. now + PostTime \in Nat
  BY Thresholds, LastTickType
<1>2. CASE e.sampled /\ d \notin closed
  <2>. DEFINE f == [e EXCEPT !.pc = "post", !.due = now + PostTime]
  <2>1. f \in Entry /\ f.pc = "post" /\ f.due = now + PostTime
    BY <1>1 DEF Entry
  <2>2. Finish(e, d) = f
    BY <1>2 DEF Finish
  <2>. QED
    BY <2>1, <2>2
<1>3. CASE ~(e.sampled /\ d \notin closed)
  BY <1>3, UnknownEntry DEF Finish
<1>. QED
  BY <1>2, <1>3

LEMMA SampledEntry ==
  ASSUME NEW e \in Entry
  PROVE  Sampled(e) \in Entry /\ Sampled(e).cutoff = e.cutoff
BY DEF Sampled, Entry

(***************************************************************************)
(* After a check the session sleeps, within its cutoff, or posts at once.  *)
(***************************************************************************)
LEMMA AfterCheckResult ==
  ASSUME now \in 0..LastTick, NEW e \in Entry, NEW d, NEW f \in AfterCheck(e, d)
  PROVE  /\ f \in Entry
         /\ f.pc \in {"wait", "post", "ended"}
         /\ f.pc = "wait" => /\ now <= f.due /\ f.due <= f.cutoff
                             /\ f.cutoff = e.cutoff /\ now < f.cutoff
         /\ f.pc = "post" => f.due = now + PostTime /\ ~(now < e.cutoff)
<1>1. CASE now < e.cutoff
  <2>1. PICK i \in MIN_INTERVAL..MAX_INTERVAL :
           f = [e EXCEPT !.pc = "wait", !.due = Earlier(now + i, e.cutoff)]
    BY <1>1 DEF AfterCheck
  <2>2. e.cutoff \in Nat /\ now \in Nat /\ i \in Nat
    BY Thresholds, LastTickType DEF Entry
  <2>. DEFINE next == Earlier(now + i, e.cutoff)
  <2>3. next \in Nat /\ now <= next /\ next <= e.cutoff
    BY <1>1, <2>2 DEF Earlier
  <2>. HIDE DEF next
  <2>4. f = [e EXCEPT !.pc = "wait", !.due = next]
    BY <2>1 DEF next
  <2>5. f \in Entry /\ f.pc = "wait" /\ f.due = next /\ f.cutoff = e.cutoff
    BY <2>3, <2>4 DEF Entry
  <2>. QED
    BY <1>1, <2>3, <2>5
<1>2. CASE ~(now < e.cutoff)
  <2>1. f = Finish(e, d)
    BY <1>2 DEF AfterCheck
  <2>2. f \in Entry /\ f.pc \in {"post", "ended"} /\ (f.pc = "post" => f.due = now + PostTime)
    BY <2>1, FinishResult
  <2>. QED
    BY <1>2, <2>2
<1>. QED
  BY <1>1, <1>2

LEMMA CheckingResult ==
  ASSUME now \in 0..LastTick, NEW e \in Entry, NEW d, NEW f \in Checking(e, d)
  PROVE  /\ f \in Entry
         /\ f.pc \in {"wait", "check", "post", "ended"}
         /\ f.pc \in {"wait", "check"} => f.cutoff = e.cutoff
         /\ f.pc = "wait" => now <= f.due /\ f.due <= f.cutoff
         /\ f.pc = "post" => f.due = now + PostTime /\ ~(now < e.cutoff)
<1>1. CASE d \in closed
  <2>. DEFINE g == Sampled(e)
  <2>1. g \in Entry /\ g.cutoff = e.cutoff
    BY SampledEntry
  <2>2. f \in AfterCheck(g, d)
    BY <1>1 DEF Checking
  <2>. HIDE DEF g
  <2>3. /\ f \in Entry
        /\ f.pc \in {"wait", "post", "ended"}
        /\ f.pc = "wait" => now <= f.due /\ f.due <= f.cutoff /\ f.cutoff = g.cutoff
        /\ f.pc = "post" => f.due = now + PostTime /\ ~(now < g.cutoff)
    BY <2>1, <2>2, AfterCheckResult
  <2>. QED
    BY <2>1, <2>3
<1>2. CASE d \notin closed
  <2>1. f = [e EXCEPT !.pc = "check"]
    BY <1>2 DEF Checking
  <2>2. f \in Entry /\ f.pc = "check" /\ f.cutoff = e.cutoff
    BY <2>1 DEF Entry
  <2>. QED
    BY <2>2
<1>. QED
  BY <1>1, <1>2

(***************************************************************************)
(* A session that begins has checked nothing: it is over, or it waits or   *)
(* checks before a cutoff half an hour from the end of its day.            *)
(***************************************************************************)
LEMMA StartedResult ==
  ASSUME now \in 0..LastTick, NEW d \in Days, NEW f \in Started(d)
  PROVE  /\ f \in Entry
         /\ f.pc \in {"wait", "check", "ended"}
         /\ f.pc \in {"wait", "check"} => /\ now < f.cutoff
                                          /\ f.cutoff <= End(d) - MIN_EARLY
                                          /\ d \notin aborted
         /\ f.pc = "wait" => now <= f.due /\ f.due <= f.cutoff
<1>1. CASE f = Ended
  BY <1>1, UnknownEntry
<1>2. ASSUME f # Ended
      PROVE  \E c \in Cutoffs(d) :
                f \in LET e == [Unknown EXCEPT !.cutoff = c]
                      IN  IF now < c /\ d \notin aborted THEN Checking(e, d)
                                                          ELSE {Finish(e, d)}
  BY <1>2 DEF Started
<1>3. CASE f # Ended
  <2>1. PICK c \in Cutoffs(d) :
                f \in LET e == [Unknown EXCEPT !.cutoff = c]
                      IN  IF now < c /\ d \notin aborted THEN Checking(e, d)
                                                          ELSE {Finish(e, d)}
    BY <1>2, <1>3
  <2>. DEFINE e == [Unknown EXCEPT !.cutoff = c]
  <2>2. c \in 0..LastTick /\ c <= End(d) - MIN_EARLY
    BY CutoffBounds
  <2>3. e \in Entry /\ e.cutoff = c /\ e.sampled = FALSE
    BY <2>2, UnknownEntry DEF Unknown, Entry
  <2>4. f \in IF now < c /\ d \notin aborted THEN Checking(e, d) ELSE {Finish(e, d)}
    BY <2>1
  <2>. HIDE DEF e
  <2>5. CASE now < c /\ d \notin aborted
    <3>1. f \in Checking(e, d)
      BY <2>4, <2>5
    <3>2. /\ f \in Entry
          /\ f.pc \in {"wait", "check", "post", "ended"}
          /\ f.pc \in {"wait", "check"} => f.cutoff = e.cutoff
          /\ f.pc = "wait" => now <= f.due /\ f.due <= f.cutoff
          /\ f.pc = "post" => f.due = now + PostTime /\ ~(now < e.cutoff)
      BY <2>3, <3>1, CheckingResult
    <3>. QED
      BY <2>2, <2>3, <2>5, <3>2
  <2>6. CASE ~(now < c /\ d \notin aborted)
    <3>1. f = Finish(e, d)
      BY <2>4, <2>6
    <3>. QED
      BY <2>3, <3>1, UnknownEntry DEF Finish
  <2>. QED
    BY <2>5, <2>6
<1>. QED
  BY <1>1, <1>3

-----------------------------------------------------------------------------
(* Steps that leave the sessions alone.                                    *)

LEMMA SessionParts ==
  ASSUME NEW s \in Sessions
  PROVE  /\ s[1] \in Workers /\ s[2] \in Days /\ s = <<s[1], s[2]>>
         /\ s[2] \in Nat \ {0} /\ s[2] <= MaxDay
         /\ \A w \in Workers : <<w, s[2]>> \in Sessions
BY Thresholds DEF Sessions, Days

LEMMA EntryType ==
  ASSUME TypeOK
  PROVE  /\ entry \in [Sessions -> Entry]
         /\ now \in 0..LastTick /\ now \in Nat
         /\ currentPeriod \in Nat /\ period \in Nat /\ period <= MaxDay
         /\ due \in Nat /\ abortAt \in Nat
BY Thresholds, LastTickType DEF TypeOK, Entry

\* No step but Exit forgets that a document was unusable.
BadStays == \A s \in Sessions : entry[s].pc = "bad" => entry'[s].pc = "bad"

LEMMA UsableBefore ==
  ASSUME BadStays, NEW s \in Sessions, DocumentsUsable(s[2])'
  PROVE  DocumentsUsable(s[2])
BY SessionParts DEF BadStays, DocumentsUsable

\* A session that a step does not touch, at the same time, is as timely as before.
LEMMA TimelySame ==
  ASSUME NEW s \in Sessions, Timely(s), BadStays,
         entry'[s] = entry[s], UNCHANGED <<now, aborted>>
  PROVE  Timely(s)'
<1>1. DocumentsUsable(s[2])' => DocumentsUsable(s[2])
  BY UsableBefore
<1>. QED
  BY <1>1 DEF Timely, OwnTime, DayTime

\* Between two tasks nothing of a usable day runs.
LEMMA NothingRuns ==
  ASSUME NEW s \in Sessions, Placed(s), DocumentsUsable(s[2]),
         ~Discovering, pc # "health"
  PROVE  entry[s].pc \notin {"fetch", "pending"} /\ ~Running(entry[s])
BY DEF Placed, Discovering

(***************************************************************************)
(* The loop moves between places that have no task, or to the next day.    *)
(***************************************************************************)
LEMMA IdleKeeps ==
  ASSUME IInv, UNCHANGED <<now, entry, aborted>>, TypeOK', Task',
         ~Discovering, ~Discovering', pc' # "health",
         pc = "health" => ~AwaitedRunning,
         \/ period' = period /\ (pc' \in {"settle", "retry", "read", "list"} =>
                                 pc \in {"settle", "retry", "read", "list"})
         \/ period' > period
  PROVE  IInv'
<1>1. BadStays
  BY DEF BadStays
<1>2. ASSUME NEW s \in Sessions
      PROVE  Timely(s)'
  BY <1>1, TimelySame DEF IInv
<1>3. ASSUME NEW s \in Sessions
      PROVE  Placed(s)'
  <2>1. DocumentsUsable(s[2])' => DocumentsUsable(s[2])
    BY <1>1, UsableBefore
  <2>2. Placed(s)
    BY DEF IInv
  <2>3. s[2] \in Nat /\ period \in Nat /\ period' \in Nat
    BY SessionParts, EntryType, Thresholds DEF IInv, TypeOK
  <2>4. entry'[s] = entry[s]
    OBVIOUS
  <2>5. DocumentsUsable(s[2]) => ~Running(entry[s]) /\ entry[s].pc # "fetch"
    BY <2>2 DEF AwaitedRunning, Placed, Discovering
  <2>6. entry[s].pc # "pending"
    BY <2>2 DEF Placed
  <2>7. s[2] > period' => entry[s].pc = "none"
    BY <2>2, <2>3 DEF Placed
  <2>8. s[2] = period' /\ pc' \in {"settle", "retry", "read", "list"} => entry[s].pc = "none"
    BY <2>2, <2>3 DEF Placed
  <2>. QED
    BY <2>1, <2>4, <2>5, <2>6, <2>7, <2>8 DEF Placed, Running
<1>4. Measured' /\ EligibleMeasured'
  BY DEF Measured, EligibleMeasured
<1>. QED
  BY <1>2, <1>3, <1>4 DEF IInv

LEMMA StartKeeps ==
  ASSUME IInv, Start
  PROVE  IInv'
<1>1. TypeOK' /\ Task'
  BY DEF Start, IInv, TypeOK, Task, Discovering, Busy, health, Today
<1>. QED
  BY <1>1, IdleKeeps, EntryType DEF Start, health, Discovering, IInv

LEMMA CheckKeeps ==
  ASSUME IInv, Check
  PROVE  IInv'
<1>1. Today \in Days /\ Today \in Nat /\ Today <= MaxDay /\ End(Today) \in Nat
  BY TodayIsDay, DayEnds, Thresholds DEF IInv, TypeOK, Days
<1>2. Today' = Today /\ UNCHANGED <<now, entry, awaited, aborted, closed, left, eligible,
                                    abortAt, restarts>>
  BY DEF Check, health, Today
<1>3. pc = "check" /\ currentPeriod = period /\ period <= Today /\ period \in Nat
  BY EntryType DEF Check, IInv, Task
<1>4. \A d \in closed : d \in Nat /\ d <= period
  BY Thresholds DEF IInv, Task, TypeOK, Days
<1>5. CASE Today # currentPeriod
  <2>1. /\ currentPeriod' = Today /\ period' = Today
        /\ pc' \in {"check", "settle", "read"}
        /\ due' \in Nat
    <3>1. now \in Nat /\ due \in Nat /\ MAX_DELAY \in Nat
      BY EntryType, Thresholds DEF IInv
    <3>. QED
      BY <1>3, <1>5, <3>1 DEF Check
  <2>2. TypeOK'
    BY <1>1, <1>2, <2>1 DEF IInv, TypeOK, Busy
  <2>3. \A d \in closed : d < Today
    BY <1>1, <1>3, <1>4, <1>5
  <2>4. Today \notin closed /\ \A d \in closed : d <= Today
    BY <1>1, <1>4, <2>3
  <2>5. Task'
    BY <1>1, <1>2, <2>1, <2>4 DEF Task, Discovering, Busy
  <2>. QED
    BY <1>1, <1>2, <1>3, <1>5, <2>1, <2>2, <2>5, IdleKeeps DEF Discovering
<1>6. CASE Today = currentPeriod
  <2>1. pc' = "sleep" /\ due' = End(Today) /\ UNCHANGED <<currentPeriod, period>>
    BY <1>6 DEF Check
  <2>2. TypeOK'
    BY <1>1, <1>2, <2>1 DEF IInv, TypeOK, Busy
  <2>3. Task'
    BY <1>2, <1>3, <1>4, <2>1 DEF Task, Discovering, Busy
  <2>. QED
    BY <1>2, <1>3, <2>1, <2>2, <2>3, IdleKeeps DEF Discovering
<1>. QED
  BY <1>5, <1>6

LEMMA DelayOverKeeps ==
  ASSUME IInv, DelayOver
  PROVE  IInv'
<1>1. TypeOK' /\ Task'
  BY DEF DelayOver, IInv, TypeOK, Task, Discovering, Busy, health, Today
<1>. QED
  BY <1>1, IdleKeeps DEF DelayOver, health, Discovering

LEMMA WakeKeeps ==
  ASSUME IInv, Wake
  PROVE  IInv'
<1>1. TypeOK' /\ Task'
  BY DEF Wake, IInv, TypeOK, Task, Discovering, Busy, health, Today
<1>. QED
  BY <1>1, IdleKeeps DEF Wake, health, Discovering

LEMMA GiveUpResult ==
  ASSUME TypeOK, GiveUp
  PROVE  pc' \in {"retry", "check"} /\ due' \in Nat
BY EntryType DEF GiveUp

LEMMA ReadStateKeeps ==
  ASSUME IInv, ReadState
  PROVE  IInv'
<1>1. /\ pc = "read" /\ pc' \in {"list", "retry", "check"}
      /\ due' \in Nat /\ left' \subseteq Workers /\ eligible' \subseteq Workers
      /\ UNCHANGED <<now, currentPeriod, period, abortAt, entry, awaited, aborted, closed,
                     restarts>>
  BY GiveUpResult, EntryType DEF ReadState, IInv, TypeOK, health
<1>2. TypeOK' /\ Task'
  BY <1>1 DEF IInv, TypeOK, Task, Discovering, Busy, Today
<1>. QED
  BY <1>1, <1>2, IdleKeeps DEF Discovering

LEMMA CloseManagerKeeps ==
  ASSUME IInv, CloseManager
  PROVE  IInv'
<1>1. /\ pc = "health" /\ pc' = "closing" /\ ~AwaitedRunning
      /\ awaited' = {} /\ closed' = closed \cup {period}
      /\ UNCHANGED <<now, currentPeriod, period, due, abortAt, left, eligible,
                     entry, aborted, restarts>>
  BY DEF CloseManager
<1>2. period \in Days /\ period \in Nat
  BY <1>1, EntryType DEF IInv, Task, Busy
<1>3. TypeOK'
  BY <1>1, <1>2 DEF IInv, TypeOK, Busy
<1>4. \A d \in closed' : d <= period
  BY <1>1, <1>2 DEF IInv, Task
<1>5. Task'
  BY <1>1, <1>2, <1>4 DEF IInv, Task, Discovering, Busy, Today
<1>. QED
  BY <1>1, <1>3, <1>5, IdleKeeps DEF Discovering

LEMMA ManagerClosedKeeps ==
  ASSUME IInv, ManagerClosed
  PROVE  IInv'
<1>1. TypeOK' /\ Task'
  BY DEF ManagerClosed, IInv, TypeOK, Task, Discovering, Busy, health, Today
<1>. QED
  BY <1>1, IdleKeeps DEF ManagerClosed, health, Discovering

(***************************************************************************)
(* The process ends: what it knew is gone.                                 *)
(***************************************************************************)
LEMMA FreshHolds ==
  ASSUME TypeOK', now \in 0..LastTick, now' = now, pc' \in {"down", "check"},
         currentPeriod' = 0, period' = 0,
         entry' = [s \in Sessions |-> Unknown], closed' = {}
  PROVE  IInv'
<1>0. 0 <= Today'
  BY TodayIsDay, Thresholds DEF Today, Days
<1>1. Task'
  BY <1>0 DEF Task, Discovering, Busy
<1>2. \A s \in Sessions : Placed(s)' /\ Timely(s)'
  BY UnknownEntry DEF Placed, Timely, OwnTime, DayTime, Running, Discovering
<1>3. Measured' /\ EligibleMeasured'
  BY DEF Measured, EligibleMeasured, Discovering
<1>. QED
  BY <1>1, <1>2, <1>3 DEF IInv

LEMMA ExitKeeps ==
  ASSUME IInv, Exit
  PROVE  IInv'
<1>1. TypeOK'
  <2>1. restarts' \in 0..MaxRestarts
    BY CheckerAssumption DEF IInv, TypeOK, Exit
  <2>2. entry' \in [Sessions -> Entry]
    BY UnknownEntry DEF Exit
  <2>. QED
    BY <2>1, <2>2, Thresholds, LastTickType DEF IInv, TypeOK, Exit, Entry, Busy
<1>. QED
  BY <1>1, FreshHolds DEF IInv, TypeOK, Exit

-----------------------------------------------------------------------------
(* Time goes on.  What runs on a usable day belongs to the task in hand,   *)
(* whose abort timer would have fired before the session could be late.    *)

LEMMA TickTimely ==
  ASSUME IInv, Tick, NEW s \in Sessions
  PROVE  Timely(s)'
<1>1. /\ Quiet /\ now' = now + 1
      /\ UNCHANGED <<pc, period, abortAt, entry, awaited, aborted>>
  BY DEF Tick, loop, health
<1>2. Timely(s) /\ Placed(s) /\ Task
  BY DEF IInv
<1>3. /\ s[2] \in Days /\ s[2] \in Nat
      /\ End(s[2]) \in Nat /\ DayTicks <= End(s[2])
      /\ now \in Nat /\ abortAt \in Nat
  BY SessionParts, DayEnds, EntryType DEF IInv
<1>4. entry[s] \in Entry /\ entry[s].due \in Nat /\ entry[s].cutoff \in Nat
  BY EntryType, LastTickType DEF IInv, Entry
<1>5. OnTimer(s) => now + 1 <= entry[s].due
  BY <1>1, <1>3, <1>4 DEF Quiet, OnTimer
<1>6. OwnTime(entry[s], s)'
  BY <1>1, <1>2, <1>5 DEF Timely, OwnTime, OnTimer
<1>7. ASSUME DocumentsUsable(s[2]), entry[s].pc \in {"wait", "check"}
      PROVE  now + 1 <= End(s[2]) - HEALTH_ABORT_THRESHOLD
  <2>1. s[2] = period /\ (Discovering \/ (pc = "health" /\ s \in awaited)) /\ Running(entry[s])
    BY <1>2, <1>7 DEF Placed, Running
  <2>2. s[2] \notin aborted
    BY <1>2, <1>7 DEF Timely, OwnTime
  <2>3. CASE Discovering
    <3>1. now < abortAt
      BY <1>1, <2>3 DEF Quiet, Discovering
    <3>2. abortAt = End(s[2]) - PERIOD_SKIP_THRESHOLD
      BY <1>2, <1>3, <2>1, <2>3, <3>1 DEF Task
    <3>. QED
      BY <1>3, <3>1, <3>2, Thresholds
  <2>4. CASE pc = "health" /\ s \in awaited
    <3>1. AwaitedRunning /\ ~MayAbortHealth
      BY <1>1, <2>4 DEF Quiet
    <3>2. now < abortAt
      BY <1>3, <2>1, <2>2, <2>4, <3>1 DEF MayAbortHealth
    <3>3. abortAt = End(s[2]) - HEALTH_ABORT_THRESHOLD
      BY <1>2, <1>3, <2>1, <2>4, <3>2 DEF Task
    <3>. QED
      BY <1>3, <3>2, <3>3, Thresholds
  <2>. QED
    BY <2>1, <2>3, <2>4
<1>8. DocumentsUsable(s[2])' => DayTime(entry[s], s[2])'
  <2>1. DocumentsUsable(s[2])' => DocumentsUsable(s[2])
    BY <1>1 DEF DocumentsUsable
  <2>2. DocumentsUsable(s[2]) => DayTime(entry[s], s[2])
    BY <1>2 DEF Timely
  <2>. QED
    BY <1>1, <1>7, <2>1, <2>2 DEF DayTime
<1>. QED
  BY <1>6, <1>8 DEF Timely

LEMMA TickKeeps ==
  ASSUME IInv, Tick
  PROVE  IInv'
<1>1. /\ now < LastTick /\ now' = now + 1
      /\ UNCHANGED <<pc, currentPeriod, period, due, abortAt, left, eligible, entry,
                     awaited, aborted, closed, restarts>>
  BY DEF Tick, loop, health
<1>2. now \in Nat /\ now' \in Nat /\ now <= now' /\ now' \in 0..LastTick
      /\ period \in Nat /\ abortAt \in Nat
  BY <1>1, EntryType, LastTickType DEF IInv
<1>3. TypeOK'
  BY <1>1, <1>2 DEF IInv, TypeOK
<1>4. period <= Today'
  <2>1. now \div DayTicks <= now' \div DayTicks
    BY <1>2, Thresholds, DivMono
  <2>2. now \div DayTicks \in Nat /\ now' \div DayTicks \in Nat
    BY <1>2, Thresholds, DivBound
  <2>3. Today' = now' \div DayTicks + 1 /\ Today = now \div DayTicks + 1
    BY DEF Today
  <2>4. period <= Today
    BY DEF IInv, Task
  <2>. QED
    BY <1>2, <2>1, <2>2, <2>3, <2>4
<1>5. Task'
  <2>1. abortAt <= now => abortAt <= now'
    BY <1>2
  <2>. QED
    BY <1>1, <1>4, <2>1 DEF IInv, Task, Discovering
<1>6. Measured'
  BY <1>1 DEF IInv, Measured, Discovering
<1>7. EligibleMeasured'
  <2>1. ASSUME pc = "health", now' < End(period) - PERIOD_SKIP_THRESHOLD
        PROVE  now < End(period) - PERIOD_SKIP_THRESHOLD
    <3>1. period \in Days
      BY <2>1 DEF IInv, Task, Busy
    <3>2. End(period) \in Nat
      BY <3>1, DayEnds
    <3>. QED
      BY <1>2, <2>1, <3>2, Thresholds
  <2>. QED
    BY <1>1, <2>1 DEF IInv, EligibleMeasured, DocumentsUsable, End
<1>8. ASSUME NEW s \in Sessions
      PROVE  Placed(s)'
  BY <1>1 DEF IInv, Placed, Discovering, DocumentsUsable
<1>. QED
  BY <1>3, <1>5, <1>6, <1>7, <1>8, TickTimely DEF IInv

-----------------------------------------------------------------------------
(* One session takes a step: f is what is known of it afterwards.          *)

Progress(s, f) ==
    /\ f \in Entry
    /\ entry[s].pc \in {"fetch", "wait", "check", "post"}
    /\ f.pc \in {"none", "pending", "wait", "check", "post", "ended"}
    /\ f.pc = "pending" => InRound(s[2])
    /\ f.pc = "none" => entry[s].pc = "fetch" /\ ~InRound(s[2])
    /\ OwnTime(f, s)
    /\ DocumentsUsable(s[2]) => DayTime(f, s[2])

LEMMA ProgressKeeps ==
  ASSUME IInv, NEW s \in Sessions, NEW f, Progress(s, f),
         entry' = [entry EXCEPT ![s] = f],
         UNCHANGED <<now, loop, health, restarts>>
  PROVE  IInv'
<1>1. UNCHANGED <<now, pc, currentPeriod, period, due, abortAt, left, eligible,
                  awaited, aborted, closed, restarts>>
  BY DEF loop, health
<1>2. /\ entry' \in [Sessions -> Entry]
      /\ entry'[s] = f
      /\ \A r \in Sessions : r # s => entry'[r] = entry[r]
  BY EntryType DEF Progress, IInv
<1>3. BadStays
  BY <1>2 DEF BadStays, Progress
<1>4. Placed(s) /\ Timely(s) /\ Task
  BY DEF IInv
<1>5. DocumentsUsable(s[2])' => DocumentsUsable(s[2])
  BY <1>3, UsableBefore
<1>6. s[2] \in Nat /\ period \in Nat
  BY SessionParts, EntryType DEF IInv
<1>7. Discovering => DocumentsUsable(period) \/ s[2] # period
  <2>1. ASSUME Discovering, s[2] = period, NEW w \in Workers
        PROVE  entry[<<w, period>>].pc # "bad"
    <3>1. <<w, period>> \in Sessions
      BY <2>1, SessionParts
    <3>2. Placed(<<w, period>>)
      BY <3>1 DEF IInv
    <3>. QED
      BY <2>1, <3>2 DEF Placed
  <2>. QED
    BY <2>1 DEF DocumentsUsable
<1>8. TypeOK'
  BY <1>1, <1>2 DEF IInv, TypeOK, Entry
<1>9. Task'
  BY <1>1 DEF IInv, Task, Discovering, Today
<1>10. ASSUME NEW r \in Sessions
       PROVE  Timely(r)'
  <2>1. CASE r = s
    <3>1. OwnTime(entry[s], s)'
      BY <1>1, <1>2 DEF Progress, OwnTime
    <3>2. DocumentsUsable(s[2])' => DayTime(entry[s], s[2])'
      BY <1>1, <1>2, <1>5 DEF Progress, DayTime
    <3>. QED
      BY <2>1, <3>1, <3>2 DEF Timely
  <2>2. CASE r # s
    BY <1>1, <1>2, <1>3, <2>2, TimelySame DEF IInv
  <2>. QED
    BY <2>1, <2>2
<1>11. ASSUME NEW r \in Sessions
       PROVE  Placed(r)'
  <2>1. CASE r # s
    <3>1. DocumentsUsable(r[2])' => DocumentsUsable(r[2])
      BY <1>3, UsableBefore
    <3>2. Placed(r) /\ entry'[r] = entry[r]
      BY <1>2, <2>1 DEF IInv
    <3>. QED
      BY <1>1, <3>1, <3>2 DEF Placed, Discovering
  <2>2. CASE r = s
    <3>1. ~(s[2] > period) /\ ~(s[2] = period /\ pc \in {"settle", "retry", "read", "list"})
      BY <1>4 DEF Placed, Progress
    <3>2. f.pc = "pending" => s[2] = period /\ Discovering
      BY DEF Progress, InRound, Discovering
    <3>3. DocumentsUsable(s[2]) => /\ s[2] = period
                                   /\ Discovering \/ (pc = "health" /\ s \in awaited)
      BY <1>4 DEF Placed, Progress, Running, Discovering
    <3>4. f.pc # "bad" /\ f.pc # "fetch"
      BY DEF Progress
    <3>. QED
      BY <1>1, <1>2, <1>5, <2>2, <3>1, <3>2, <3>3, <3>4 DEF Placed, Discovering
  <2>. QED
    BY <2>1, <2>2
<1>12. Measured'
  <2>1. ASSUME Discovering, NEW w \in eligible
        PROVE  entry'[<<w, period>>].pc # "none"
    <3>1. <<w, period>> \in Sessions /\ entry[<<w, period>>].pc # "none"
      BY <2>1 DEF IInv, Task, Measured, TypeOK, Discovering, Busy, Sessions
    <3>2. CASE <<w, period>> # s
      BY <1>2, <3>1, <3>2
    <3>3. CASE <<w, period>> = s
      <4>1. s[2] = period
        BY <3>3
      <4>2. DocumentsUsable(s[2])
        BY <1>7, <2>1, <4>1
      <4>3. entry[s].pc = "fetch" => InRound(s[2])
        BY <1>4, <4>2 DEF Placed, InRound
      <4>4. f.pc # "none"
        BY <4>3 DEF Progress
      <4>. QED
        BY <1>2, <3>3, <4>4
    <3>. QED
      BY <3>2, <3>3
  <2>. QED
    BY <1>1, <2>1 DEF Measured, Discovering
<1>13. EligibleMeasured'
  <2>1. ASSUME pc = "health", now < End(period) - PERIOD_SKIP_THRESHOLD,
               DocumentsUsable(period)', NEW w \in eligible
        PROVE  entry'[<<w, period>>].pc \in {"wait", "check", "post", "ended"}
    <3>1. <<w, period>> \in Sessions /\ <<w, period>>[2] = period
      BY <2>1 DEF IInv, Task, TypeOK, Busy, Sessions
    <3>2. DocumentsUsable(period)
      BY <1>1, <1>3, <2>1, <3>1 DEF BadStays, DocumentsUsable, Sessions
    <3>3. entry[<<w, period>>].pc \in {"wait", "check", "post", "ended"}
      BY <2>1, <3>2 DEF IInv, EligibleMeasured
    <3>4. CASE <<w, period>> # s
      BY <1>2, <3>1, <3>3, <3>4
    <3>5. CASE <<w, period>> = s
      <4>1. pc # "discover" /\ entry[s].pc # "fetch"
        BY <2>1, <3>3, <3>5
      <4>2. f.pc \in {"wait", "check", "post", "ended"}
        BY <4>1 DEF Progress, InRound
      <4>. QED
        BY <1>2, <3>5, <4>2
    <3>. QED
      BY <3>4, <3>5
  <2>. QED
    BY <1>1, <2>1 DEF EligibleMeasured, End
<1>. QED
  BY <1>8, <1>9, <1>10, <1>11, <1>12, <1>13 DEF IInv

\* What the steps of a session that waits or checks leave it as.
LEMMA SessionFacts ==
  ASSUME IInv, NEW s \in Sessions
  PROVE  /\ entry[s] \in Entry /\ now \in 0..LastTick /\ now \in Nat
         /\ s[2] \in Days /\ End(s[2]) \in Nat
         /\ entry[s].cutoff \in Nat /\ entry[s].due \in Nat
         /\ Timely(s) /\ Placed(s)
BY SessionParts, DayEnds, EntryType, LastTickType DEF IInv, Entry

(***************************************************************************)
(* A posting that begins half an hour before midnight at the latest, or    *)
(* when the second timer fires, ends on its day.                           *)
(***************************************************************************)
LEMMA PostTimely ==
  ASSUME IInv, NEW s \in Sessions, NEW f \in Entry,
         f.pc \in {"post", "ended"}, f.pc = "post" => f.due = now + PostTime,
         entry[s].pc \in {"wait", "check"}
  PROVE  OwnTime(f, s) /\ (DocumentsUsable(s[2]) => DayTime(f, s[2]))
<1>1. now \in Nat /\ End(s[2]) \in Nat /\ Timely(s)
  BY SessionFacts
<1>2. DocumentsUsable(s[2]) => now <= End(s[2]) - HEALTH_ABORT_THRESHOLD
  BY <1>1 DEF Timely, DayTime
<1>3. now <= now + PostTime
  BY <1>1, Thresholds
<1>4. DocumentsUsable(s[2]) => now + PostTime < End(s[2])
  BY <1>1, <1>2, Thresholds
<1>. QED
  BY <1>3, <1>4 DEF OwnTime, DayTime

\* A check goes on, or another is begun or waited for, under the same cutoff.
LEMMA ResumeTimely ==
  ASSUME IInv, NEW s \in Sessions, NEW f \in Entry,
         entry[s].pc \in {"wait", "check"}, f.pc \in {"wait", "check"},
         f.cutoff = entry[s].cutoff,
         f.pc = "wait" => now <= f.due /\ f.due <= f.cutoff
  PROVE  OwnTime(f, s) /\ (DocumentsUsable(s[2]) => DayTime(f, s[2]))
<1>1. Timely(s)
  BY SessionFacts
<1>2. entry[s].cutoff <= End(s[2]) - MIN_EARLY /\ s[2] \notin aborted
  BY <1>1 DEF Timely, OwnTime
<1>3. DocumentsUsable(s[2]) => now <= End(s[2]) - HEALTH_ABORT_THRESHOLD
  BY <1>1 DEF Timely, DayTime
<1>. QED
  BY <1>2, <1>3 DEF OwnTime, DayTime

LEMMA CheckDoneKeeps ==
  ASSUME IInv, NEW s \in Sessions, CheckDone(s)
  PROVE  IInv'
<1>. DEFINE e == Sampled(entry[s])
<1>1. entry[s].pc = "check" /\ UNCHANGED <<now, loop, health, restarts>>
  BY DEF CheckDone
<1>2. e \in Entry /\ e.cutoff = entry[s].cutoff /\ now \in 0..LastTick
  BY SessionFacts, SampledEntry
<1>3. PICK f \in AfterCheck(e, s[2]) : entry' = [entry EXCEPT ![s] = f]
  BY DEF CheckDone
<1>. HIDE DEF e
<1>4. /\ f \in Entry
      /\ f.pc \in {"wait", "post", "ended"}
      /\ f.pc = "wait" => now <= f.due /\ f.due <= f.cutoff /\ f.cutoff = e.cutoff
      /\ f.pc = "post" => f.due = now + PostTime
  BY <1>2, <1>3, AfterCheckResult
<1>5. OwnTime(f, s) /\ (DocumentsUsable(s[2]) => DayTime(f, s[2]))
  <2>1. CASE f.pc = "wait"
    BY <1>1, <1>2, <1>4, <2>1, ResumeTimely
  <2>2. CASE f.pc # "wait"
    BY <1>1, <1>4, <2>2, PostTimely
  <2>. QED
    BY <2>1, <2>2
<1>6. Progress(s, f)
  BY <1>1, <1>4, <1>5 DEF Progress
<1>. QED
  BY <1>1, <1>3, <1>6, ProgressKeeps

LEMMA NextCheckKeeps ==
  ASSUME IInv, NEW s \in Sessions, NextCheck(s)
  PROVE  IInv'
<1>1. entry[s].pc = "wait" /\ UNCHANGED <<now, loop, health, restarts>>
  BY DEF NextCheck
<1>2. entry[s] \in Entry /\ now \in 0..LastTick
  BY SessionFacts
<1>3. PICK f \in Checking(entry[s], s[2]) : entry' = [entry EXCEPT ![s] = f]
  BY DEF NextCheck
<1>4. /\ f \in Entry
      /\ f.pc \in {"wait", "check", "post", "ended"}
      /\ f.pc \in {"wait", "check"} => f.cutoff = entry[s].cutoff
      /\ f.pc = "wait" => now <= f.due /\ f.due <= f.cutoff
      /\ f.pc = "post" => f.due = now + PostTime
  BY <1>2, <1>3, CheckingResult
<1>5. OwnTime(f, s) /\ (DocumentsUsable(s[2]) => DayTime(f, s[2]))
  <2>1. CASE f.pc \in {"wait", "check"}
    BY <1>1, <1>4, <2>1, ResumeTimely
  <2>2. CASE f.pc \notin {"wait", "check"}
    BY <1>1, <1>4, <2>2, PostTimely
  <2>. QED
    BY <2>1, <2>2
<1>6. Progress(s, f)
  BY <1>1, <1>4, <1>5 DEF Progress
<1>. QED
  BY <1>1, <1>3, <1>6, ProgressKeeps

LEMMA PostDoneKeeps ==
  ASSUME IInv, NEW s \in Sessions, PostDone(s)
  PROVE  IInv'
<1>1. Progress(s, Ended)
  BY UnknownEntry DEF PostDone, Progress, OwnTime, DayTime
<1>. QED
  BY <1>1, ProgressKeeps DEF PostDone

\* A fetch is answered with a document, or without.
LEMMA AnsweredKeeps ==
  ASSUME IInv, NEW s \in Sessions, entry[s].pc = "fetch",
         NEW f \in Started(s[2]) \cup {NotResolved(s[2])},
         entry' = [entry EXCEPT ![s] = f],
         UNCHANGED <<now, loop, health, restarts>>
  PROVE  IInv'
<1>1. s[2] \in Days /\ now \in 0..LastTick /\ now \in Nat /\ End(s[2]) \in Nat
  BY SessionFacts
<1>2. CASE f \in Started(s[2])
  <2>1. /\ f \in Entry
        /\ f.pc \in {"wait", "check", "ended"}
        /\ f.pc \in {"wait", "check"} => /\ now < f.cutoff
                                         /\ f.cutoff <= End(s[2]) - MIN_EARLY
                                         /\ s[2] \notin aborted
        /\ f.pc = "wait" => now <= f.due /\ f.due <= f.cutoff
    BY <1>1, <1>2, StartedResult
  <2>2. f.cutoff \in Nat
    BY <2>1, LastTickType DEF Entry
  <2>3. f.pc \in {"wait", "check"} => now <= End(s[2]) - HEALTH_ABORT_THRESHOLD
    BY <1>1, <2>1, <2>2, Thresholds
  <2>4. Progress(s, f)
    BY <2>1, <2>3 DEF Progress, OwnTime, DayTime
  <2>. QED
    BY <2>4, ProgressKeeps
<1>3. CASE f = NotResolved(s[2])
  <2>1. /\ f \in Entry /\ f.pc \in {"none", "pending"}
        /\ f.pc = "pending" => InRound(s[2])
        /\ f.pc = "none" => ~InRound(s[2])
    BY <1>3, UnknownEntry DEF NotResolved
  <2>2. Progress(s, f)
    BY <2>1 DEF Progress, OwnTime, DayTime
  <2>. QED
    BY <2>2, ProgressKeeps
<1>. QED
  BY <1>2, <1>3

-----------------------------------------------------------------------------
(* The discovery ends: entries is what is known of the workers then, as it *)
(* was but for fetches that are abandoned or brought an unusable document. *)

Abandoned(entries) ==
    /\ entries \in [Sessions -> Entry]
    /\ \A s \in Sessions :
          \/ entries[s] = entry[s] /\ (s[2] = period => entry[s].pc # "fetch")
          \/ entries[s] = entry[s] /\ \E r \in Sessions : r[2] = period /\ entries[r].pc = "bad"
          \/ s[2] = period /\ entry[s].pc = "fetch" /\ entries[s].pc \in {"none", "bad"}

LEMMA AwaitKeeps ==
  ASSUME IInv, Discovering, NEW entries, Abandoned(entries), Await(entries),
         now < End(period) - PERIOD_SKIP_THRESHOLD =>
            \/ \E r \in Sessions : r[2] = period /\ entries[r].pc = "bad"
            \/ entries = entry /\ OfTask("pending") = {}
  PROVE  IInv'
<1>1. /\ pc' = "health" /\ abortAt' = Later(now, HealthAbortAt)
      /\ UNCHANGED <<now, currentPeriod, period, due, left, eligible, aborted, closed, restarts>>
  BY DEF Await
<1>2. /\ entry' \in [Sessions -> Entry]
      /\ \A s \in Sessions :
            entry'[s] = IF s[2] = period /\ entries[s].pc = "pending" THEN Unknown ELSE entries[s]
  <2>1. entry' = [s \in Sessions |-> IF s[2] = period /\ entries[s].pc = "pending"
                                     THEN Unknown ELSE entries[s]]
    BY DEF Await
  <2>. QED
    BY <2>1, UnknownEntry DEF Abandoned
<1>3. awaited' = {s \in Sessions : s[2] = period /\ Running(entry'[s])}
  <2>. DEFINE kept == [s \in Sessions |-> IF s[2] = period /\ entries[s].pc = "pending"
                                          THEN Unknown ELSE entries[s]]
  <2>1. entry' = kept /\ awaited' = Snapshot(kept)
    BY DEF Await
  <2>. HIDE DEF kept
  <2>. QED
    BY <2>1 DEF Snapshot
<1>4. period \in Days /\ period \in Nat /\ End(period) \in Nat /\ DayTicks <= End(period)
      /\ End(period) <= LastTick + 1 /\ now \in Nat /\ now \in 0..LastTick
  BY DayEnds, EntryType DEF IInv, Task, Discovering, Busy
<1>5. abortAt' \in 0..LastTick
      /\ (abortAt' <= now \/ abortAt' = End(period) - HEALTH_ABORT_THRESHOLD)
  <2>. DEFINE at == End(period) - HEALTH_ABORT_THRESHOLD
  <2>1. at \in Nat /\ at <= LastTick
    BY <1>4, Thresholds, LastTickType
  <2>2. abortAt' = Later(now, at)
    BY <1>1 DEF HealthAbortAt
  <2>. HIDE DEF at
  <2>3. abortAt' \in 0..LastTick /\ (abortAt' <= now \/ abortAt' = at)
    BY <1>4, <2>1, <2>2, LastTickType DEF Later
  <2>. QED
    BY <2>3 DEF at
<1>6. TypeOK'
  BY <1>1, <1>2, <1>3, <1>5 DEF IInv, TypeOK, Entry, Busy
<1>7. Task'
  BY <1>1, <1>5 DEF IInv, Task, Discovering, Busy, Today, End
<1>8. BadStays
  BY <1>2 DEF BadStays, Abandoned
<1>9. ASSUME NEW s \in Sessions
      PROVE  \/ entry'[s] = entry[s]
             \/ entry'[s].pc \in {"none", "bad"}
  BY <1>2, UnknownEntry DEF Abandoned
<1>10. ASSUME NEW s \in Sessions
       PROVE  Timely(s)'
  <2>1. CASE entry'[s] = entry[s]
    BY <1>1, <1>8, <2>1, TimelySame DEF IInv
  <2>2. CASE entry'[s].pc \in {"none", "bad"}
    BY <2>2 DEF Timely, OwnTime, DayTime
  <2>. QED
    BY <1>9, <2>1, <2>2
<1>11. ASSUME \A w \in Workers : entry'[<<w, period>>].pc # "bad"
       PROVE  ~\E r \in Sessions : r[2] = period /\ entries[r].pc = "bad"
  <2>1. ASSUME NEW r \in Sessions, r[2] = period, entries[r].pc = "bad"
        PROVE  FALSE
    <3>1. entry'[r].pc = "bad"
      BY <1>2, <2>1
    <3>2. r = <<r[1], period>> /\ r[1] \in Workers
      BY <2>1, SessionParts
    <3>. QED
      BY <1>11, <3>1, <3>2
  <2>. QED
    BY <2>1
<1>12. ASSUME NEW s \in Sessions
       PROVE  Placed(s)'
  <2>1. DocumentsUsable(s[2])' => DocumentsUsable(s[2])
    BY <1>8, UsableBefore
  <2>2. Placed(s) /\ s[2] \in Nat
    BY SessionParts DEF IInv
  <2>3. s[2] > period => entry'[s].pc = "none"
    BY <1>2, <1>4, <2>2, UnknownEntry DEF Placed, Abandoned
  <2>4. entry'[s].pc # "pending"
    BY <1>2, <2>2, UnknownEntry DEF Placed, Abandoned
  <2>5. DocumentsUsable(s[2])' => entry'[s].pc # "fetch"
    <3>1. ASSUME DocumentsUsable(s[2])', entry'[s].pc = "fetch"
          PROVE  FALSE
      <4>1. entry'[s] = entry[s] /\ entries[s] = entry[s]
        BY <1>2, <3>1, UnknownEntry DEF Abandoned
      <4>2. s[2] = period
        BY <2>1, <2>2, <3>1, <4>1 DEF Placed
      <4>. QED
        BY <1>11, <3>1, <4>1, <4>2 DEF Abandoned, DocumentsUsable
    <3>. QED
      BY <3>1
  <2>6. DocumentsUsable(s[2])' /\ Running(entry'[s]) => s[2] = period /\ s \in awaited'
    <3>1. Running(entry'[s]) => entry'[s] = entry[s]
      BY <1>9 DEF Running
    <3>. QED
      BY <1>3, <2>1, <2>2, <3>1 DEF Placed
  <2>. QED
    BY <1>1, <2>3, <2>4, <2>5, <2>6 DEF Placed, Discovering
<1>13. Measured'
  BY <1>1 DEF Measured, Discovering
<1>14. EligibleMeasured'
  <2>1. ASSUME now < End(period) - PERIOD_SKIP_THRESHOLD,
               DocumentsUsable(period)', NEW w \in eligible
        PROVE  entry'[<<w, period>>].pc \in {"wait", "check", "post", "ended"}
    <3>. DEFINE s == <<w, period>>
    <3>1. s \in Sessions /\ s[2] = period
      BY <1>4, <2>1 DEF IInv, TypeOK, Sessions
    <3>2. ~\E r \in Sessions : r[2] = period /\ entries[r].pc = "bad"
      BY <1>1, <1>11, <2>1 DEF DocumentsUsable
    <3>3. entries = entry /\ OfTask("pending") = {}
      BY <2>1, <3>2
    <3>4. entry[s].pc # "none"
      BY <2>1 DEF IInv, Measured
    <3>5. entry[s].pc \notin {"fetch", "bad", "pending"}
      BY <3>1, <3>2, <3>3 DEF Abandoned, OfTask
    <3>6. entry[s] \in Entry
      BY <3>1, SessionFacts
    <3>7. entry'[s] = entry[s]
      BY <1>2, <3>1, <3>3, <3>5
    <3>. QED
      BY <3>4, <3>5, <3>6, <3>7 DEF Entry
  <2>. QED
    BY <1>1, <2>1 DEF EligibleMeasured, End
<1>. QED
  BY <1>6, <1>7, <1>10, <1>12, <1>13, <1>14 DEF IInv

LEMMA FetchedKeeps ==
  ASSUME IInv, NEW s \in Sessions, Fetched(s)
  PROVE  IInv'
<1>. DEFINE unusable == [Unknown EXCEPT !.pc = "bad"]
            bad == [entry EXCEPT ![s] = unusable]
<1>0. entry \in [Sessions -> Entry] /\ entry[s].pc = "fetch"
      /\ unusable \in Entry /\ unusable.pc = "bad"
  BY EntryType, UnknownEntry DEF Fetched, IInv
<1>1. CASE /\ \E e \in Started(s[2]) \cup {NotResolved(s[2])} :
                 entry' = [entry EXCEPT ![s] = e]
           /\ UNCHANGED <<now, loop, health, restarts>>
  BY <1>0, <1>1, AnsweredKeeps
<1>2. CASE InRound(s[2]) /\ Await(bad)
  <2>1. Discovering /\ s[2] = period
    BY <1>2 DEF InRound, Discovering
  <2>. HIDE DEF unusable
  <2>2. bad \in [Sessions -> Entry] /\ bad[s].pc = "bad"
        /\ \A r \in Sessions : r # s => bad[r] = entry[r]
    BY <1>0
  <2>3. Await(bad)
    BY <1>2
  <2>. HIDE DEF bad
  <2>4. Abandoned(bad)
    BY <1>0, <2>1, <2>2 DEF Abandoned
  <2>. QED
    BY <2>1, <2>2, <2>3, <2>4, AwaitKeeps
<1>3. CASE ~InRound(s[2]) /\ entry' = bad /\ UNCHANGED <<now, loop, health, restarts>>
  <2>0. UNCHANGED <<now, pc, currentPeriod, period, due, abortAt, left, eligible,
                    awaited, aborted, closed, restarts>>
    BY <1>3 DEF loop, health
  <2>. HIDE DEF unusable
  <2>1. entry' \in [Sessions -> Entry] /\ entry'[s].pc = "bad"
        /\ \A r \in Sessions : r # s => entry'[r] = entry[r]
    BY <1>0, <1>3
  <2>. HIDE DEF bad
  <2>2. BadStays
    BY <1>0, <2>1 DEF BadStays
  <2>3. TypeOK' /\ Task'
    BY <2>0, <2>1 DEF IInv, TypeOK, Entry, Task, Discovering, Today
  <2>4. s[1] \in Workers /\ s = <<s[1], s[2]>> /\ s[2] \in Nat /\ period \in Nat
        /\ Placed(s)
    BY SessionParts, EntryType DEF IInv
  <2>5. ~DocumentsUsable(s[2])'
    BY <2>1, <2>4 DEF DocumentsUsable
  <2>6. Discovering => s[2] # period
    <3>1. ASSUME Discovering, s[2] = period
          PROVE  FALSE
      <4>1. ~DocumentsUsable(s[2])
        BY <1>0, <1>3, <2>4, <3>1 DEF Placed, InRound
      <4>2. PICK w \in Workers : entry[<<w, s[2]>>].pc = "bad"
        BY <4>1 DEF DocumentsUsable
      <4>3. <<w, s[2]>> \in Sessions
        BY SessionParts
      <4>4. Placed(<<w, s[2]>>)
        BY <4>3 DEF IInv
      <4>. QED
        BY <3>1, <4>2, <4>4 DEF Placed
    <3>. QED
      BY <3>1
  <2>7. ASSUME NEW r \in Sessions
        PROVE  Placed(r)' /\ Timely(r)'
    <3>1. CASE r = s
      <4>1. Placed(s)'
        BY <1>0, <2>0, <2>1, <2>4, <2>5, <2>6 DEF Placed, Discovering
      <4>2. Timely(s)'
        BY <2>1 DEF Timely, OwnTime, DayTime
      <4>. QED
        BY <3>1, <4>1, <4>2
    <3>2. CASE r # s
      <4>1. entry'[r] = entry[r]
        BY <2>1, <3>2
      <4>2. DocumentsUsable(r[2])' => DocumentsUsable(r[2])
        BY <2>2, UsableBefore
      <4>3. Placed(r) /\ Timely(r)
        BY DEF IInv
      <4>4. Placed(r)'
        BY <2>0, <4>1, <4>2, <4>3 DEF Placed, Discovering
      <4>5. Timely(r)'
        BY <2>0, <2>2, <4>1, <4>3, TimelySame
      <4>. QED
        BY <4>4, <4>5
    <3>. QED
      BY <3>1, <3>2
  <2>8. Measured'
    <3>1. ASSUME Discovering, NEW w \in eligible
          PROVE  entry'[<<w, period>>].pc # "none"
      <4>1. <<w, period>> \in Sessions /\ <<w, period>> # s
        BY <2>6, <3>1 DEF IInv, Task, TypeOK, Discovering, Busy, Sessions
      <4>. QED
        BY <2>1, <3>1, <4>1 DEF IInv, Measured
    <3>. QED
      BY <2>0, <3>1 DEF Measured, Discovering
  <2>9. EligibleMeasured'
    <3>1. ASSUME pc = "health", now < End(period) - PERIOD_SKIP_THRESHOLD,
                 DocumentsUsable(period)', NEW w \in eligible
          PROVE  entry'[<<w, period>>].pc \in {"wait", "check", "post", "ended"}
      <4>1. <<w, period>> \in Sessions /\ <<w, period>>[2] = period
        BY <3>1 DEF IInv, Task, TypeOK, Busy, Sessions
      <4>2. DocumentsUsable(period)
        BY <2>0, <2>2, <3>1, <4>1 DEF BadStays, DocumentsUsable, Sessions
      <4>3. entry[<<w, period>>].pc \in {"wait", "check", "post", "ended"}
        BY <3>1, <4>2 DEF IInv, EligibleMeasured
      <4>4. <<w, period>> # s
        BY <1>0, <4>3
      <4>. QED
        BY <2>1, <4>1, <4>3, <4>4
    <3>. QED
      BY <2>0, <3>1 DEF EligibleMeasured, End
  <2>. QED
    BY <2>3, <2>7, <2>8, <2>9 DEF IInv
<1>. QED
  BY <1>1, <1>2, <1>3 DEF Fetched

LEMMA AbortDiscoveryKeeps ==
  ASSUME IInv, AbortDiscovery
  PROVE  IInv'
<1>. DEFINE entries == [s \in Sessions |-> IF s \in OfTask("fetch") THEN Unknown ELSE entry[s]]
<1>1. Discovering /\ now >= abortAt /\ Await(entries)
  BY DEF AbortDiscovery, Discovering
<1>2. ~(now < End(period) - PERIOD_SKIP_THRESHOLD)
  <2>1. period \in Days
    BY <1>1 DEF IInv, Task, Discovering, Busy
  <2>2. End(period) \in Nat
    BY <2>1, DayEnds
  <2>. QED
    BY <1>1, <2>2, EntryType, Thresholds DEF IInv, Task
<1>3. Abandoned(entries)
  <2>1. entries \in [Sessions -> Entry]
    BY EntryType, UnknownEntry DEF IInv
  <2>2. ASSUME NEW s \in Sessions
        PROVE  \/ entries[s] = entry[s] /\ (s[2] = period => entry[s].pc # "fetch")
               \/ s[2] = period /\ entry[s].pc = "fetch" /\ entries[s].pc \in {"none", "bad"}
    BY UnknownEntry DEF OfTask
  <2>. HIDE DEF entries
  <2>. QED
    BY <2>1, <2>2 DEF Abandoned
<1>. HIDE DEF entries
<1>. QED
  BY <1>1, <1>2, <1>3, AwaitKeeps

LEMMA RoundOverKeeps ==
  ASSUME IInv, RoundOver
  PROVE  IInv'
<1>1. CASE OfTask("pending") = {}
  <2>1. Discovering /\ Await(entry)
    BY <1>1 DEF RoundOver, Discovering
  <2>2. Abandoned(entry)
    BY EntryType DEF RoundOver, Abandoned, OfTask, IInv
  <2>. QED
    BY <1>1, <2>1, <2>2, AwaitKeeps
<1>2. CASE OfTask("pending") # {}
  <2>1. /\ pc = "discover" /\ pc' = "pause" /\ OfTask("fetch") = {}
        /\ due' = now + RETRY_INTERVAL
        /\ UNCHANGED <<now, currentPeriod, period, abortAt, left, eligible, entry,
                       awaited, aborted, closed, restarts>>
    BY <1>2 DEF RoundOver, health
  <2>2. due' \in Nat
    BY <2>1, EntryType, Thresholds DEF IInv
  <2>3. TypeOK' /\ Task'
    BY <2>1, <2>2 DEF IInv, TypeOK, Task, Discovering, Busy, Today
  <2>4. BadStays
    BY <2>1 DEF BadStays
  <2>5. ASSUME NEW s \in Sessions
        PROVE  Placed(s)' /\ Timely(s)'
    <3>1. Placed(s) /\ Timely(s) /\ entry'[s] = entry[s]
      BY <2>1 DEF IInv
    <3>2. DocumentsUsable(s[2])' => DocumentsUsable(s[2])
      BY <2>4, UsableBefore
    <3>3. ~(s[2] = period /\ entry[s].pc = "fetch")
      BY <2>1 DEF OfTask
    <3>4. Placed(s)'
      BY <2>1, <3>1, <3>2, <3>3 DEF Placed, Discovering
    <3>. QED
      BY <2>1, <2>4, <3>1, <3>4, TimelySame
  <2>6. Measured' /\ EligibleMeasured'
    BY <2>1 DEF IInv, Measured, EligibleMeasured, Discovering
  <2>. QED
    BY <2>3, <2>5, <2>6 DEF IInv
<1>. QED
  BY <1>1, <1>2

-----------------------------------------------------------------------------
(* A round begins.                                                         *)

LEMMA FetchingKeeps ==
  ASSUME IInv, TypeOK', Task', pc \in {"list", "pause"}, pc' = "discover",
         UNCHANGED <<now, period, awaited, aborted, closed>>,
         NEW batch, entry' = Fetching(batch),
         \A s \in Sessions \cap batch : s[2] = period /\ entry[s].pc \in {"none", "pending"},
         OfTask("pending") \subseteq batch,
         \A w \in eligible' : <<w, period>> \in batch \/ entry[<<w, period>>].pc # "none"
  PROVE  IInv'
<1>. DEFINE fetch == [Unknown EXCEPT !.pc = "fetch"]
<1>1. fetch.pc = "fetch"
  BY UnknownEntry
<1>2. \A s \in Sessions : entry'[s] = IF s \in batch THEN fetch ELSE entry[s]
  BY DEF Fetching
<1>. HIDE DEF fetch
<1>3. BadStays
  BY <1>1, <1>2 DEF BadStays
<1>4. ASSUME NEW s \in Sessions
      PROVE  Placed(s)' /\ Timely(s)'
  <2>1. Placed(s) /\ Timely(s) /\ s[2] \in Nat /\ period \in Nat
    BY SessionParts, EntryType DEF IInv
  <2>2. DocumentsUsable(s[2])' => DocumentsUsable(s[2])
    BY <1>3, UsableBefore
  <2>3. CASE s \in batch
    <3>1. entry'[s].pc = "fetch" /\ s[2] = period
      BY <1>1, <1>2, <2>3
    <3>2. Timely(s)'
      BY <3>1 DEF Timely, OwnTime, DayTime
    <3>3. Placed(s)'
      BY <2>1, <3>1 DEF Placed, Running, Discovering
    <3>. QED
      BY <3>2, <3>3
  <2>4. CASE s \notin batch
    <3>1. entry'[s] = entry[s]
      BY <1>2, <2>4
    <3>2. Timely(s)'
      BY <1>3, <2>1, <3>1, TimelySame
    <3>3. entry[s].pc # "pending"
      BY <2>1, <2>4 DEF Placed, OfTask
    <3>4. s[2] = period => entry[s].pc # "bad"
      BY <2>1 DEF Placed, Discovering
    <3>5. Placed(s)'
      BY <2>1, <2>2, <3>1, <3>3, <3>4 DEF Placed, Discovering
    <3>. QED
      BY <3>2, <3>5
  <2>. QED
    BY <2>3, <2>4
<1>5. Measured'
  <2>1. ASSUME NEW w \in eligible'
        PROVE  entry'[<<w, period>>].pc # "none"
    <3>1. <<w, period>> \in Sessions
      BY <2>1 DEF IInv, TypeOK, Task, Busy, Sessions
    <3>. QED
      BY <1>1, <1>2, <3>1
  <2>. QED
    BY <2>1 DEF Measured
<1>6. EligibleMeasured'
  BY DEF EligibleMeasured
<1>. QED
  BY <1>4, <1>5, <1>6 DEF IInv

LEMMA FetchingType ==
  ASSUME TypeOK, NEW batch
  PROVE  Fetching(batch) \in [Sessions -> Entry]
<1>1. entry \in [Sessions -> Entry]
  BY EntryType
<1>. QED
  BY <1>1, UnknownEntry DEF Fetching

LEMMA ListAccountsKeeps ==
  ASSUME IInv, ListAccounts
  PROVE  IInv'
<1>1. /\ pc = "list"
      /\ UNCHANGED <<now, currentPeriod, period, awaited, aborted, closed, restarts>>
  BY DEF ListAccounts, health
<1>2. CASE /\ GiveUp
           /\ UNCHANGED <<left, eligible, entry, abortAt>>
  <2>1. pc' \in {"retry", "check"} /\ due' \in Nat
    BY <1>2, GiveUpResult DEF IInv
  <2>2. TypeOK' /\ Task'
    BY <1>1, <1>2, <2>1 DEF IInv, TypeOK, Task, Discovering, Busy, Today
  <2>. QED
    BY <1>1, <1>2, <2>1, <2>2, IdleKeeps DEF Discovering
<1>3. ASSUME NEW page \in SUBSET left \ {{}}, NEW active \in SUBSET Workers,
             active \subseteq page,
             left' = left \ page,
             eligible' = eligible \cup eligibleWorkers(active),
             IF left' = {} /\ eligible' # {}
             THEN /\ pc' = "discover"
                  /\ entry' = Fetching({<<w, period>> : w \in eligible'})
                  /\ abortAt' = Later(now, End(period) - PERIOD_SKIP_THRESHOLD)
             ELSE /\ pc' = IF left' = {} THEN "check" ELSE "list"
                  /\ UNCHANGED <<entry, abortAt>>,
             UNCHANGED due
      PROVE  IInv'
  <2>1. left' \subseteq Workers /\ eligible' \subseteq Workers
    BY <1>3 DEF eligibleWorkers, IInv, TypeOK
  <2>2. CASE ~(left' = {} /\ eligible' # {})
    <3>1. pc' \in {"check", "list"} /\ UNCHANGED <<entry, abortAt>>
      BY <1>3, <2>2
    <3>2. TypeOK' /\ Task'
      BY <1>1, <1>3, <2>1, <3>1 DEF IInv, TypeOK, Task, Discovering, Busy, Today
    <3>. QED
      BY <1>1, <3>1, <3>2, IdleKeeps DEF Discovering
  <2>3. CASE left' = {} /\ eligible' # {}
    <3>. DEFINE batch == {<<w, period>> : w \in eligible'}
    <3>1. /\ pc' = "discover" /\ entry' = Fetching(batch)
          /\ abortAt' = Later(now, End(period) - PERIOD_SKIP_THRESHOLD)
      BY <1>3, <2>3
    <3>2. /\ period \in Days /\ End(period) \in Nat /\ DayTicks <= End(period)
          /\ End(period) <= LastTick + 1 /\ now \in Nat /\ now \in 0..LastTick
      BY <1>1, DayEnds, EntryType DEF IInv, Task, Busy
    <3>3. /\ abortAt' \in 0..LastTick
          /\ abortAt' >= End(period) - PERIOD_SKIP_THRESHOLD
          /\ abortAt' <= now \/ abortAt' = End(period) - PERIOD_SKIP_THRESHOLD
      <4>. DEFINE at == End(period) - PERIOD_SKIP_THRESHOLD
      <4>1. at \in Nat /\ at <= LastTick
        BY <3>2, Thresholds, LastTickType
      <4>2. abortAt' = Later(now, at)
        BY <3>1
      <4>. HIDE DEF at
      <4>3. abortAt' \in 0..LastTick /\ abortAt' >= at /\ (abortAt' <= now \/ abortAt' = at)
        BY <3>2, <4>1, <4>2, LastTickType DEF Later
      <4>. QED
        BY <4>3 DEF at
    <3>4. entry' \in [Sessions -> Entry]
      BY <3>1, FetchingType DEF IInv
    <3>5. TypeOK'
      BY <1>1, <1>3, <2>1, <3>1, <3>3, <3>4 DEF IInv, TypeOK, Entry, Busy
    <3>6. Task'
      BY <1>1, <3>1, <3>3 DEF IInv, Task, Discovering, Busy, Today, End
    <3>7. ASSUME NEW s \in Sessions, s[2] = period
          PROVE  entry[s].pc = "none"
      BY <1>1, <3>7 DEF IInv, Placed
    <3>8. \A s \in Sessions \cap batch : s[2] = period /\ entry[s].pc \in {"none", "pending"}
      BY <3>7
    <3>9. OfTask("pending") \subseteq batch
      BY <3>7 DEF OfTask
    <3>10. \A w \in eligible' : <<w, period>> \in batch
      OBVIOUS
    <3>. HIDE DEF batch
    <3>. QED
      BY <1>1, <3>1, <3>5, <3>6, <3>8, <3>9, <3>10, FetchingKeeps
  <2>. QED
    BY <2>2, <2>3
<1>. QED
  BY <1>2, <1>3 DEF ListAccounts

LEMMA NextRoundKeeps ==
  ASSUME IInv, NextRound
  PROVE  IInv'
<1>1. /\ pc = "pause" /\ pc' = "discover" /\ entry' = Fetching(Batch)
      /\ UNCHANGED <<now, currentPeriod, period, due, abortAt, left, eligible,
                     awaited, aborted, closed, restarts>>
  BY DEF NextRound, health
<1>2. entry' \in [Sessions -> Entry]
  BY <1>1, FetchingType DEF IInv
<1>3. TypeOK'
  BY <1>1, <1>2 DEF IInv, TypeOK, Entry, Busy
<1>4. Task'
  BY <1>1 DEF IInv, Task, Discovering, Busy, Today
<1>5. \A s \in Sessions \cap Batch : s[2] = period /\ entry[s].pc \in {"none", "pending"}
  BY DEF Batch, OfTask
<1>6. OfTask("pending") \subseteq Batch
  BY DEF Batch
<1>7. \A w \in eligible' : entry[<<w, period>>].pc # "none"
  BY <1>1 DEF IInv, Measured, Discovering
<1>. QED
  BY <1>1, <1>3, <1>4, <1>5, <1>6, <1>7, FetchingKeeps

-----------------------------------------------------------------------------
(* The second timer.                                                       *)

LEMMA AbortHealthKeeps ==
  ASSUME IInv, AbortHealth
  PROVE  IInv'
<1>1. /\ pc = "health" /\ aborted' = aborted \cup {period}
      /\ UNCHANGED <<now, pc, currentPeriod, period, due, abortAt, left, eligible,
                     awaited, closed, restarts>>
  BY DEF AbortHealth, MayAbortHealth, loop
<1>2. period \in Days /\ now \in 0..LastTick
  BY <1>1, EntryType DEF IInv, Task, Busy
<1>3. ASSUME NEW s \in Sessions
      PROVE  /\ entry'[s] \in Entry
             /\ \/ /\ entry'[s] = entry[s]
                   /\ s[2] # period \/ entry[s].pc \notin {"wait", "check"}
                \/ /\ entry[s].pc \in {"wait", "check"}
                   /\ s[2] = period
                   /\ entry'[s].pc \in {"post", "ended"}
                   /\ entry'[s].pc = "post" => entry'[s].due = now + PostTime
  <2>1. entry'[s] = IF s[2] # period THEN entry[s]
                    ELSE CASE entry[s].pc = "wait"  -> Finish(entry[s], period)
                           [] entry[s].pc = "check" -> Finish(Sampled(entry[s]), period)
                           [] OTHER -> entry[s]
    BY DEF AbortHealth
  <2>2. entry[s] \in Entry /\ Sampled(entry[s]) \in Entry
    BY SessionFacts, SampledEntry
  <2>3. CASE s[2] # period
    BY <2>1, <2>2, <2>3
  <2>4. CASE s[2] = period /\ entry[s].pc = "wait"
    <3>1. entry'[s] = Finish(entry[s], period)
      BY <2>1, <2>4
    <3>. QED
      BY <1>2, <2>2, <2>4, <3>1, FinishResult
  <2>5. CASE s[2] = period /\ entry[s].pc = "check"
    <3>1. entry'[s] = Finish(Sampled(entry[s]), period)
      BY <2>1, <2>5
    <3>. QED
      BY <1>2, <2>2, <2>5, <3>1, FinishResult
  <2>6. CASE s[2] = period /\ entry[s].pc \notin {"wait", "check"}
    <3>1. entry'[s] = entry[s]
      BY <2>1, <2>6
    <3>. QED
      BY <2>2, <2>6, <3>1
  <2>. QED
    BY <2>3, <2>4, <2>5, <2>6
<1>4. entry' \in [Sessions -> Entry]
  <2>1. entry' = [s \in Sessions |-> entry'[s]]
    BY DEF AbortHealth
  <2>. QED
    BY <1>3, <2>1
<1>5. TypeOK'
  BY <1>1, <1>2, <1>4 DEF IInv, TypeOK, Entry
<1>6. Task'
  BY <1>1 DEF IInv, Task, Discovering, Busy, Today
<1>7. BadStays
  BY <1>3 DEF BadStays
<1>8. ASSUME NEW s \in Sessions
      PROVE  Placed(s)'
  <2>1. DocumentsUsable(s[2])' => DocumentsUsable(s[2])
    BY <1>7, UsableBefore
  <2>2. Placed(s) /\ s[2] \in Nat /\ period \in Nat
    BY SessionParts, EntryType DEF IInv
  <2>3. CASE entry'[s] = entry[s]
    BY <1>1, <2>1, <2>2, <2>3 DEF Placed, Discovering
  <2>4. CASE entry[s].pc \in {"wait", "check"} /\ s[2] = period
             /\ entry'[s].pc \in {"post", "ended"}
    <3>1. Running(entry[s])
      BY <2>4 DEF Running
    <3>. QED
      BY <1>1, <2>1, <2>2, <2>4, <3>1 DEF Placed, Discovering
  <2>. QED
    BY <1>3, <2>3, <2>4
<1>9. ASSUME NEW s \in Sessions
      PROVE  Timely(s)'
  <2>1. DocumentsUsable(s[2])' => DocumentsUsable(s[2])
    BY <1>7, UsableBefore
  <2>2. CASE entry'[s] = entry[s] /\ (s[2] # period \/ entry[s].pc \notin {"wait", "check"})
    <3>1. Timely(s)
      BY DEF IInv
    <3>. QED
      BY <1>1, <2>1, <2>2, <3>1 DEF Timely, OwnTime, DayTime
  <2>3. CASE entry[s].pc \in {"wait", "check"} /\ entry'[s].pc \in {"post", "ended"}
             /\ (entry'[s].pc = "post" => entry'[s].due = now + PostTime)
    <3>. DEFINE f == entry'[s]
    <3>1. f \in Entry
      BY <1>3
    <3>2. f.pc \in {"post", "ended"} /\ (f.pc = "post" => f.due = now + PostTime)
      BY <2>3
    <3>. HIDE DEF f
    <3>3. OwnTime(f, s) /\ (DocumentsUsable(s[2]) => DayTime(f, s[2]))
      BY <2>3, <3>1, <3>2, PostTimely
    <3>4. OwnTime(entry[s], s)'
      BY <1>1, <3>2, <3>3 DEF OwnTime, f
    <3>5. DocumentsUsable(s[2])' => DayTime(entry[s], s[2])'
      BY <2>1, <3>2, <3>3 DEF DayTime, f
    <3>. QED
      BY <3>4, <3>5 DEF Timely
  <2>. QED
    BY <1>3, <2>2, <2>3
<1>10. Measured'
  BY <1>1 DEF Measured, Discovering
<1>11. EligibleMeasured'
  <2>1. ASSUME now < End(period) - PERIOD_SKIP_THRESHOLD,
               DocumentsUsable(period)', NEW w \in eligible
        PROVE  entry'[<<w, period>>].pc \in {"wait", "check", "post", "ended"}
    <3>1. <<w, period>> \in Sessions
      BY <1>2, <2>1 DEF IInv, TypeOK, Sessions
    <3>2. DocumentsUsable(period)
      BY <1>1, <1>2, <1>7, <2>1 DEF BadStays, DocumentsUsable, Sessions
    <3>3. entry[<<w, period>>].pc \in {"wait", "check", "post", "ended"}
      BY <1>1, <2>1, <3>2 DEF IInv, EligibleMeasured
    <3>. QED
      BY <1>3, <3>1, <3>3
  <2>. QED
    BY <1>1, <2>1 DEF EligibleMeasured, End
<1>. QED
  BY <1>5, <1>6, <1>8, <1>9, <1>10, <1>11 DEF IInv

-----------------------------------------------------------------------------
(* The theorems.                                                           *)

LEMMA InitHolds == Init => IInv
<1>. SUFFICES ASSUME Init PROVE IInv
  OBVIOUS
<1>1. now \in 0..LastTick
  <2>1. DayTicks <= LastTick + 1
    <3>1. MaxDay \in Days
      BY Thresholds DEF Days
    <3>. QED
      BY <3>1, DayEnds, LastTickType, Thresholds DEF LastTick
  <2>. QED
    BY <2>1, Thresholds, LastTickType DEF Init
<1>2. entry \in [Sessions -> Entry]
  BY UnknownEntry DEF Init
<1>3. TypeOK
  BY <1>1, <1>2, Thresholds, LastTickType, CheckerAssumption DEF Init, TypeOK, Entry, Busy
<1>4. Task
  BY <1>1, TodayIsDay, Thresholds DEF Init, Task, Discovering, Busy, Days
<1>5. Measured /\ EligibleMeasured
  BY DEF Init, Measured, EligibleMeasured, Discovering
<1>6. \A s \in Sessions : Placed(s) /\ Timely(s)
  BY UnknownEntry DEF Init, Placed, Timely, OwnTime, DayTime, Running, Discovering
<1>. QED
  BY <1>3, <1>4, <1>5, <1>6 DEF IInv

LEMMA StutterKeeps ==
  ASSUME IInv, UNCHANGED vars
  PROVE  IInv'
BY DEF vars, loop, health, IInv, TypeOK, Task, Measured, EligibleMeasured, Placed, Timely,
       OwnTime, DayTime, Discovering, Today, End, DocumentsUsable

LEMMA StepKeeps == IInv /\ [Next]_vars => IInv'
<1>. SUFFICES ASSUME IInv, [Next]_vars PROVE IInv'
  OBVIOUS
<1>1. CASE Tick
  BY <1>1, TickKeeps
<1>2. CASE Exit \/ Start
  BY <1>2, ExitKeeps, StartKeeps
<1>3. CASE Loop
  BY <1>3, CheckKeeps, DelayOverKeeps, WakeKeeps, ReadStateKeeps, ListAccountsKeeps,
     RoundOverKeeps, NextRoundKeeps, AbortDiscoveryKeeps, AbortHealthKeeps,
     CloseManagerKeeps, ManagerClosedKeeps DEF Loop
<1>4. ASSUME NEW s \in Sessions, Session(s)
      PROVE  IInv'
  BY <1>4, FetchedKeeps, CheckDoneKeeps, NextCheckKeeps, PostDoneKeeps DEF Session
<1>5. CASE UNCHANGED vars
  BY <1>5, StutterKeeps
<1>. QED
  BY <1>1, <1>2, <1>3, <1>4, <1>5 DEF Next

(***************************************************************************)
(* The loop, the two abort timers and the sessions stay in step: Task,     *)
(* Placed, Timely and Measured hold in every reachable state of            *)
(* CheckerService and of the session managers it creates.                  *)
(***************************************************************************)
THEOREM ServiceInvariant == Spec => []IInv
BY InitHolds, StepKeeps, PTL DEF Spec

(***************************************************************************)
(* Type correctness: a session's cutoff, the abort timers and the loop's   *)
(* day stay within the days there are, whatever the thresholds.            *)
(***************************************************************************)
THEOREM TypeCorrect == Spec => []TypeOK
<1>1. IInv => TypeOK
  BY DEF IInv
<1>. QED
  BY <1>1, ServiceInvariant, PTL

(***************************************************************************)
(* SessionsAwaited: a manager's agent is closed by CloseManager alone, when*)
(* nothing of the awaited sessions runs; on a usable day what runs belongs *)
(* to the task in hand, whose day is not closed.                           *)
(***************************************************************************)
THEOREM SessionsAwaitedHolds == Spec => []SessionsAwaited
<1>1. IInv => SessionsAwaited
  <2>. SUFFICES ASSUME IInv, NEW s \in Sessions, s[2] \in closed, DocumentsUsable(s[2]),
                       Running(entry[s])
                PROVE  FALSE
    BY DEF SessionsAwaited
  <2>1. s[2] = period /\ pc \in Busy \ {"closing"}
    BY DEF IInv, Placed, Discovering, Busy
  <2>. QED
    BY <2>1 DEF IInv, Task
<1>. QED
  BY <1>1, ServiceInvariant, PTL

(***************************************************************************)
(* PostsInTime: a worker that answers in full has been posted to within    *)
(* PostTime of the last check or of the second abort, both at least        *)
(* HEALTH_ABORT_THRESHOLD from midnight.                                   *)
(***************************************************************************)
THEOREM PostsInTimeHolds == Spec => []PostsInTime
<1>1. IInv => PostsInTime
  <2>. SUFFICES ASSUME IInv, NEW s \in Sessions, entry[s].pc = "post",
                       s[1] \notin Trickling, DocumentsUsable(s[2])
                PROVE  now < End(s[2])
    BY DEF PostsInTime
  <2>1. now <= entry[s].due /\ entry[s].due < End(s[2])
    BY SessionFacts DEF Timely, OwnTime, DayTime
  <2>2. now \in Nat /\ entry[s].due \in Nat /\ End(s[2]) \in Nat
    BY SessionFacts
  <2>. QED
    BY <2>1, <2>2
<1>. QED
  BY <1>1, ServiceInvariant, PTL

(***************************************************************************)
(* EligibleMeasured: before the last hour resolveWorkers returns only when *)
(* no fetch and no worker is left to retry.                                *)
(***************************************************************************)
THEOREM EligibleMeasuredHolds == Spec => []EligibleMeasured
<1>1. IInv => EligibleMeasured
  BY DEF IInv
<1>. QED
  BY <1>1, ServiceInvariant, PTL

\* A step that begins a check: NextCheck, or Fetched when the session starts.
LEMMA CheckBegins ==
  ASSUME IInv, Next, NEW s \in Sessions, entry[s].pc # "check", entry'[s].pc = "check"
  PROVE  now <= End(s[2]) - MIN_EARLY
<1>0. now \in 0..LastTick /\ now \in Nat /\ End(s[2]) \in Nat /\ s[2] \in Days
      /\ entry \in [Sessions -> Entry]
  BY SessionFacts, EntryType DEF IInv
<1>1. CASE \E r \in Sessions : Session(r)
  <2>1. PICK r \in Sessions : Session(r)
    BY <1>1
  <2>2. ASSUME NEW f, entry' = [entry EXCEPT ![r] = f]
        PROVE  r = s /\ f.pc = "check"
    BY <1>0, <2>2
  <2>3. CASE Fetched(r)
    <3>1. CASE \E e \in Started(r[2]) \cup {NotResolved(r[2])} : entry' = [entry EXCEPT ![r] = e]
      <4>1. PICK e \in Started(r[2]) \cup {NotResolved(r[2])} : entry' = [entry EXCEPT ![r] = e]
        BY <3>1
      <4>2. r = s /\ e.pc = "check"
        BY <2>2, <4>1
      <4>3. e \in Started(s[2])
        BY <4>1, <4>2, UnknownEntry DEF NotResolved
      <4>4. e \in Entry /\ now < e.cutoff /\ e.cutoff <= End(s[2]) - MIN_EARLY
        BY <1>0, <4>2, <4>3, StartedResult
      <4>5. e.cutoff \in Nat
        BY <4>4, LastTickType DEF Entry
      <4>. QED
        BY <1>0, <4>4, <4>5, Thresholds
    <3>2. CASE InRound(r[2]) /\ Await([entry EXCEPT ![r] = [Unknown EXCEPT !.pc = "bad"]])
      BY <1>0, <3>2, UnknownEntry DEF Await
    <3>3. CASE entry' = [entry EXCEPT ![r] = [Unknown EXCEPT !.pc = "bad"]]
      BY <1>0, <3>3, UnknownEntry
    <3>. QED
      BY <2>3, <3>1, <3>2, <3>3 DEF Fetched
  <2>4. CASE CheckDone(r)
    <3>1. PICK e \in AfterCheck(Sampled(entry[r]), r[2]) : entry' = [entry EXCEPT ![r] = e]
      BY <2>4 DEF CheckDone
    <3>2. r = s
      BY <2>2, <3>1
    <3>. QED
      BY <2>4, <3>2 DEF CheckDone
  <2>5. CASE NextCheck(r)
    <3>1. PICK e \in Checking(entry[r], r[2]) : entry' = [entry EXCEPT ![r] = e]
      BY <2>5 DEF NextCheck
    <3>2. r = s
      BY <2>2, <3>1
    <3>3. /\ now <= entry[s].due /\ entry[s].due <= entry[s].cutoff
          /\ entry[s].cutoff <= End(s[2]) - MIN_EARLY
          /\ entry[s].due \in Nat /\ entry[s].cutoff \in Nat
      BY <2>5, <3>2, SessionFacts DEF NextCheck, Timely, OwnTime
    <3>. QED
      BY <1>0, <3>3, Thresholds
  <2>6. CASE PostDone(r)
    <3>1. Ended.pc = "check"
      BY <2>2, <2>6 DEF PostDone
    <3>. QED
      BY <3>1, UnknownEntry
  <2>. QED
    BY <2>1, <2>3, <2>4, <2>5, <2>6 DEF Session
<1>2. CASE Exit
  BY <1>2, UnknownEntry DEF Exit
<1>3. CASE ListAccounts \/ NextRound
  BY <1>3, UnknownEntry DEF ListAccounts, NextRound, Fetching
<1>4. CASE RoundOver
  BY <1>4, UnknownEntry DEF RoundOver, Await
<1>5. CASE AbortDiscovery
  BY <1>5, UnknownEntry DEF AbortDiscovery, Await
<1>6. CASE AbortHealth
  <2>1. entry[s] \in Entry /\ Sampled(entry[s]) \in Entry
    BY SessionFacts, SampledEntry
  <2>2. Finish(entry[s], period).pc # "check" /\ Finish(Sampled(entry[s]), period).pc # "check"
    BY <1>0, <2>1, FinishResult
  <2>3. entry'[s] \in {entry[s], Finish(entry[s], period), Finish(Sampled(entry[s]), period)}
    BY <1>6 DEF AbortHealth
  <2>. QED
    BY <2>2, <2>3
<1>7. CASE \/ Tick \/ Start \/ Check \/ DelayOver \/ Wake \/ ReadState
           \/ CloseManager \/ ManagerClosed
  BY <1>7 DEF Tick, Start, Check, DelayOver, Wake, ReadState, CloseManager, ManagerClosed
<1>. QED
  BY <1>1, <1>2, <1>3, <1>4, <1>5, <1>6, <1>7 DEF Next, Loop

(***************************************************************************)
(* ChecksStopEarly: a check begins before the cutoff of its session, which *)
(* calculateSessionCutoff puts MIN_EARLY before midnight at the latest,    *)
(* also when the discovery ended without the session being awaited.        *)
(***************************************************************************)
THEOREM ChecksStopEarlyHolds == Spec => ChecksStopEarly
<1>. DEFINE P == \A s \in Sessions : entry[s].pc # "check" /\ entry'[s].pc = "check"
                    => now <= End(s[2]) - MIN_EARLY
<1>1. IInv /\ [Next]_vars => [P]_vars
  BY CheckBegins
<1>2. Spec => [][P]_vars
  BY <1>1, ServiceInvariant, PTL DEF Spec
<1>. QED
  BY <1>2 DEF ChecksStopEarly

\* A step that begins a fetch: ListAccounts or NextRound.
LEMMA FetchBegins ==
  ASSUME IInv, Next, NEW s \in Sessions, entry[s].pc # "fetch", entry'[s].pc = "fetch"
  PROVE  entry[s].pc \in {"none", "pending"}
<1>0. now \in 0..LastTick /\ entry \in [Sessions -> Entry] /\ entry[s] \in Entry /\ Placed(s)
  BY SessionFacts, EntryType DEF IInv
<1>1. CASE \E r \in Sessions : Session(r)
  <2>1. PICK r \in Sessions : Session(r)
    BY <1>1
  <2>2. ASSUME NEW f, entry' = [entry EXCEPT ![r] = f]
        PROVE  r = s /\ f.pc = "fetch"
    BY <1>0, <2>2
  <2>3. CASE Fetched(r)
    <3>1. ASSUME NEW e, entry' = [entry EXCEPT ![r] = e] \/
                        Await([entry EXCEPT ![r] = e])
          PROVE  r = s
      BY <1>0, <3>1, UnknownEntry DEF Await
    <3>2. r = s
      BY <2>3, <3>1 DEF Fetched
    <3>. QED
      BY <2>3, <3>2 DEF Fetched
  <2>4. CASE CheckDone(r)
    <3>1. PICK e \in AfterCheck(Sampled(entry[r]), r[2]) : entry' = [entry EXCEPT ![r] = e]
      BY <2>4 DEF CheckDone
    <3>2. Sampled(entry[r]) \in Entry
      BY <1>0, SampledEntry
    <3>3. e.pc # "fetch"
      BY <1>0, <3>2, AfterCheckResult
    <3>. QED
      BY <2>2, <3>1, <3>3
  <2>5. CASE NextCheck(r)
    <3>1. PICK e \in Checking(entry[r], r[2]) : entry' = [entry EXCEPT ![r] = e]
      BY <2>5 DEF NextCheck
    <3>2. e.pc # "fetch"
      BY <1>0, <3>1, CheckingResult
    <3>. QED
      BY <2>2, <3>1, <3>2
  <2>6. CASE PostDone(r)
    <3>1. Ended.pc = "fetch"
      BY <2>2, <2>6 DEF PostDone
    <3>. QED
      BY <3>1, UnknownEntry
  <2>. QED
    BY <2>1, <2>3, <2>4, <2>5, <2>6 DEF Session
<1>2. CASE Exit
  BY <1>2, UnknownEntry DEF Exit
<1>3. CASE ListAccounts
  <2>1. pc = "list" /\ entry' # entry
    BY <1>3 DEF ListAccounts
  <2>2. entry' = Fetching({<<w, period>> : w \in eligible'})
    BY <1>3, <2>1 DEF ListAccounts
  <2>3. s[2] = period
    BY <2>2 DEF Fetching
  <2>. QED
    BY <1>0, <2>1, <2>3 DEF Placed
<1>4. CASE NextRound
  BY <1>4 DEF NextRound, Fetching, Batch, OfTask
<1>5. CASE RoundOver \/ AbortDiscovery
  BY <1>5, UnknownEntry DEF RoundOver, AbortDiscovery, Await
<1>6. CASE AbortHealth
  <2>1. Sampled(entry[s]) \in Entry
    BY <1>0, SampledEntry
  <2>2. Finish(entry[s], period).pc # "fetch" /\ Finish(Sampled(entry[s]), period).pc # "fetch"
    BY <1>0, <2>1, FinishResult
  <2>3. entry'[s] \in {entry[s], Finish(entry[s], period), Finish(Sampled(entry[s]), period)}
    BY <1>6 DEF AbortHealth
  <2>. QED
    BY <2>2, <2>3
<1>7. CASE \/ Tick \/ Start \/ Check \/ DelayOver \/ Wake \/ ReadState
           \/ CloseManager \/ ManagerClosed
  BY <1>7 DEF Tick, Start, Check, DelayOver, Wake, ReadState, CloseManager, ManagerClosed
<1>. QED
  BY <1>1, <1>2, <1>3, <1>4, <1>5, <1>6, <1>7 DEF Next, Loop

(***************************************************************************)
(* MeasuredOnce: a round fetches for workers of whom nothing is known that *)
(* day, or whom an earlier round left pending.                             *)
(***************************************************************************)
THEOREM MeasuredOnceHolds == Spec => MeasuredOnce
<1>. DEFINE P == \A s \in Sessions : entry[s].pc # "fetch" /\ entry'[s].pc = "fetch"
                    => entry[s].pc \in {"none", "pending"}
<1>1. IInv /\ [Next]_vars => [P]_vars
  BY FetchBegins
<1>2. Spec => [][P]_vars
  BY <1>1, ServiceInvariant, PTL DEF Spec
<1>. QED
  BY <1>2 DEF MeasuredOnce
=============================================================================
