------------------------- MODULE ProofCollectionProofs -------------------------
(***************************************************************************)
(* Proofs about ProofCollection, for every number of licences, sessions,   *)
(* attempts and days: a receipt means a stored proof, a listing misses no  *)
(* receipt issued before it began, and the bucket changes only by posts    *)
(* that arrived on the day of their proof and before what they replace.    *)
(*                                                                         *)
(* The argument rests on two facts that no handler checks: an object, once *)
(* written, is never removed, and a session keeps its day.  So what a      *)
(* handler found when it asked for the object still bounds what it does    *)
(* when it writes, and a page that was read stays valid.                   *)
(***************************************************************************)
EXTENDS ProofCollection, TLAPS

\* A session that has begun posts a proof of some day, and only those that have begun.
SessionsBegun == /\ \A s \in Sessions : session[s].pc # "idle" => session[s].period \in Days
                 /\ \A s \in Sessions, a \in Attempts :
                       request[<<s, a>>].pc # "none" => session[s].pc # "idle"

\* What a handler noted when the post arrived, and what it knows.
HandlersKnow ==
    \A s \in Sessions, a \in Attempts :
        LET r == request[<<s, a>>]
        IN  /\ r.pc \in {"head", "put"} => r.arrived = session[s].period
            /\ r.pc = "head" /\ r.late => Stored(s)
            /\ r.pc = "put" => ~r.late
            /\ r.pc = "ok" => Stored(s)

\* What the listing owes is in the bucket, and read or still to come.
ListingComplete ==
    listing.pc = "reading" =>
        /\ listing.period \in Days
        /\ \A c \in listing.owed : /\ objects[<<listing.period, c>>] # None
                                   /\ c \in listing.left \cup listing.keys \cup listing.got

IInv == /\ TypeOK
        /\ SessionsBegun
        /\ HandlersKnow
        /\ ReceiptsAreStored
        /\ ListingComplete

\* An object is written by a handler at its last step only.
Written(s, a) == /\ request[<<s, a>>].pc = "put"
                 /\ objects' = [objects EXCEPT ![Key(s)] = s[2]]

-----------------------------------------------------------------------------

LEMMA Constants == /\ MaxPeriod \in Nat \ {0}
                   /\ MaxRetries \in Nat \ {0}
                   /\ 1 \in Days /\ Days \subseteq 0..MaxPeriod
                   /\ 1 \in Attempts
                   /\ None \notin Runs
BY CollectionAssumption DEF Days, Attempts, Runs

LEMMA SessionKey ==
  ASSUME NEW s \in Sessions
  PROVE  s[1] \in Checkers /\ s[2] \in Runs /\ s = <<s[1], s[2]>>
BY DEF Sessions

LEMMA InitIInv == Init => IInv
<1>. SUFFICES ASSUME Init PROVE IInv
  OBVIOUS
<1>. USE Constants DEF Init
<1>1. TypeOK
  BY DEF TypeOK, Replies
<1>2. SessionsBegun
  BY DEF SessionsBegun, Requests
<1>3. HandlersKnow
  BY DEF HandlersKnow, Requests
<1>4. ReceiptsAreStored
  BY DEF ReceiptsAreStored
<1>5. ListingComplete
  BY DEF ListingComplete
<1>. QED
  BY <1>1, <1>2, <1>3, <1>4, <1>5 DEF IInv

\* The retry of an attempt that threw.
LEMMA AttemptFailsType ==
  ASSUME TypeOK, NEW s \in Sessions, session[s].pc # "idle", AttemptFails(s)
  PROVE  /\ session' \in [Sessions -> [pc : {"idle", "waiting", "backoff", "done", "failed"},
                                       period : 0..MaxPeriod, attempt : Attempts]]
         /\ \A t \in Sessions : /\ session'[t].period = session[t].period
                                /\ session'[t].pc = "idle" <=> session[t].pc = "idle"
                                /\ session'[t].pc = "done" => session[t].pc = "done"
<1>1. session[s] \in [pc : {"idle", "waiting", "backoff", "done", "failed"},
                     period : 0..MaxPeriod, attempt : Attempts]
  BY DEF TypeOK
<1>2. CASE RetriesLeft(s)
  <2>1. session[s].attempt + 1 \in Attempts
    BY <1>1, <1>2, Constants DEF RetriesLeft, Attempts
  <2>2. session' = [session EXCEPT ![s].pc = "backoff", ![s].attempt = session[s].attempt + 1]
    BY <1>2 DEF AttemptFails
  <2>. DEFINE q == [session[s] EXCEPT !.pc = "backoff", !.attempt = session[s].attempt + 1]
  <2>3. /\ q \in [pc : {"idle", "waiting", "backoff", "done", "failed"},
                  period : 0..MaxPeriod, attempt : Attempts]
        /\ q.period = session[s].period /\ q.pc = "backoff"
    BY <1>1, <2>1
  <2>4. session' = [session EXCEPT ![s] = q]
    BY <2>2
  <2>. HIDE DEF q
  <2>. QED
    BY <2>3, <2>4 DEF TypeOK
<1>3. CASE ~RetriesLeft(s)
  <2>1. session' = [session EXCEPT ![s].pc = "failed"]
    BY <1>3 DEF AttemptFails
  <2>. QED
    BY <2>1 DEF TypeOK
<1>. QED
  BY <1>2, <1>3

-----------------------------------------------------------------------------
(* What a step does to sessions, to the bucket and to the types.            *)

\* A session keeps its day and does not begin anew; it ends well only on a 200.
LEMMA SessionSteps ==
  ASSUME TypeOK, [Next]_vars
  PROVE  \A s \in Sessions :
            /\ session[s].pc # "idle" => /\ session'[s].pc # "idle"
                                         /\ session'[s].period = session[s].period
            /\ session'[s].pc # "idle" => session[s].pc # "idle" \/ session'[s].period \in Days
            /\ session'[s].pc = "done" /\ session[s].pc # "done" =>
                  \E a \in Attempts : request[<<s, a>>].pc = "ok"
<1>. DEFINE Goal == \A t \in Sessions :
            /\ session[t].pc # "idle" => /\ session'[t].pc # "idle"
                                         /\ session'[t].period = session[t].period
            /\ session'[t].pc # "idle" => session[t].pc # "idle" \/ session'[t].period \in Days
            /\ session'[t].pc = "done" /\ session[t].pc # "done" =>
                  \E a \in Attempts : request[<<t, a>>].pc = "ok"
<1>1. CASE UNCHANGED session
  BY <1>1
<1>2. ASSUME NEW s \in Sessions, NEW p \in Days, StartSession(s, p)
      PROVE  Goal
  BY <1>2 DEF StartSession, TypeOK
<1>3. ASSUME NEW s \in Sessions, AttemptFails(s), session[s].pc # "idle"
      PROVE  Goal
  BY <1>3, AttemptFailsType
<1>4. ASSUME NEW s \in Sessions, Send(s)
      PROVE  Goal
  <2>1. CASE Receive(s)
    <3>1. CASE AttemptFails(s)
      BY <1>3, <2>1, <3>1 DEF Receive
    <3>2. CASE /\ request[<<s, session[s].attempt>>].pc = "ok"
               /\ session' = [session EXCEPT ![s].pc = "done"]
      <4>1. session[s].attempt \in Attempts
        BY DEF TypeOK
      <4>. QED
        BY <2>1, <3>2, <4>1 DEF Receive, TypeOK
    <3>. QED
      BY <2>1, <3>1, <3>2 DEF Receive
  <2>2. CASE Timeout(s)
    BY <1>3, <2>2 DEF Timeout
  <2>3. CASE Resend(s)
    BY <2>3 DEF Resend, TypeOK
  <2>. QED
    BY <1>4, <2>1, <2>2, <2>3 DEF Send
<1>. QED
  BY <1>1, <1>2, <1>4 DEF Next, AdvancePeriod, Handle, Arrive, HeadObject, PutObject,
                          List, StartListing, ListPage, GetObject, vars

\* The bucket changes only where a handler writes.
LEMMA BucketSteps ==
  ASSUME [Next]_vars
  PROVE  \/ UNCHANGED objects
         \/ \E s \in Sessions, a \in Attempts : Written(s, a)
BY DEF Next, AdvancePeriod, StartSession, Send, Receive, Timeout, Resend, Handle, Arrive,
       HeadObject, PutObject, Write, Written, List, StartListing, ListPage, GetObject, vars

\* An object that is there stays there, perhaps with another content.
LEMMA ObjectsStay ==
  ASSUME TypeOK, SessionsBegun, [Next]_vars
  PROVE  /\ objects' \in [Days \X Checkers -> Runs \cup {None}]
         /\ \A k \in Days \X Checkers : objects[k] # None => objects'[k] # None
<1>1. CASE UNCHANGED objects
  BY <1>1 DEF TypeOK
<1>2. ASSUME NEW s \in Sessions, NEW a \in Attempts, Written(s, a)
      PROVE  /\ objects' \in [Days \X Checkers -> Runs \cup {None}]
             /\ \A k \in Days \X Checkers : objects[k] # None => objects'[k] # None
  <2>1. Key(s) \in Days \X Checkers /\ s[2] \in Runs
    BY <1>2, SessionKey DEF SessionsBegun, Written, Key
  <2>. QED
    BY <1>2, <2>1, Constants DEF Written, TypeOK
<1>. QED
  BY <1>1, <1>2, BucketSteps

\* The proof of a session that has begun stays stored.
LEMMA StoredStays ==
  ASSUME IInv, [Next]_vars, NEW s \in Sessions, session[s].pc # "idle", Stored(s)
  PROVE  Stored(s)'
<1>1. Key(s) \in Days \X Checkers
  BY SessionKey DEF IInv, SessionsBegun, Key
<1>2. Key(s)' = Key(s)
  BY SessionSteps DEF Key, IInv
<1>. QED
  BY <1>1, <1>2, ObjectsStay DEF Stored, IInv

RequestRecords == [pc : {"none", "sent", "head", "put"} \cup Replies,
                   arrived : 0..MaxPeriod, late : BOOLEAN]

\* What one step makes of a post: from r to q.
PostStep(s, a) ==
    LET r == request[<<s, a>>]
        q == request'[<<s, a>>]
    IN  \/ q = r
        \/ q.pc = "sent" /\ session'[s].pc # "idle"
        \/ /\ r.pc = "sent" /\ q.pc = "head"
           /\ q.arrived = session[s].period
           /\ q.late => Stored(s)
           /\ UNCHANGED <<session, objects>>
        \/ r.pc # "none" /\ q.pc = "refused"
        \/ /\ r.pc = "head" /\ q.pc = "put"
           /\ q.arrived = r.arrived /\ q.late = r.late
           /\ ~Stored(s)
           /\ UNCHANGED <<session, objects>>
        \/ /\ r.pc = "put" /\ q.pc = "ok"
           /\ Written(s, a)
           /\ UNCHANGED session

\* A step that replaces one post.
LEMMA OnePost ==
  ASSUME TypeOK, NEW s \in Sessions, NEW a \in Attempts, NEW q \in RequestRecords,
         request' = [request EXCEPT ![<<s, a>>] = q]
  PROVE  /\ request' \in [Requests -> RequestRecords]
         /\ request'[<<s, a>>] = q
         /\ PostStep(s, a) => \A t \in Sessions, b \in Attempts : PostStep(t, b)
<1>1. /\ request' \in [Requests -> RequestRecords]
      /\ request'[<<s, a>>] = q
      /\ \A t \in Sessions, b \in Attempts :
            <<t, b>> # <<s, a>> => request'[<<t, b>>] = request[<<t, b>>]
  BY DEF TypeOK, Requests, RequestRecords
<1>2. ASSUME PostStep(s, a), NEW t \in Sessions, NEW b \in Attempts
      PROVE  PostStep(t, b)
  <2>1. CASE t = s /\ b = a
    BY <1>2, <2>1
  <2>2. CASE ~(t = s /\ b = a)
    <3>1. request'[<<t, b>>] = request[<<t, b>>]
      BY <1>1, <2>2
    <3>. QED
      BY <3>1 DEF PostStep
  <2>. QED
    BY <2>1, <2>2
<1>. QED
  BY <1>1, <1>2

LEMMA PostSteps ==
  ASSUME TypeOK, [Next]_vars
  PROVE  /\ request' \in [Requests -> RequestRecords]
         /\ \A s \in Sessions, a \in Attempts : PostStep(s, a)
<1>. DEFINE Goal == /\ request' \in [Requests -> RequestRecords]
                    /\ \A s \in Sessions, a \in Attempts : PostStep(s, a)
<1>0. /\ request \in [Requests -> RequestRecords]
      /\ \A s \in Sessions, a \in Attempts : request[<<s, a>>] \in RequestRecords
      /\ clock \in 0..MaxPeriod
  BY Constants DEF TypeOK, Requests, RequestRecords
<1>1. CASE UNCHANGED request
  BY <1>0, <1>1 DEF PostStep
<1>2. ASSUME NEW s \in Sessions, NEW a \in Attempts,
             request' = [request EXCEPT ![<<s, a>>].pc = "sent"], session'[s].pc # "idle"
      PROVE  Goal
  <2>. DEFINE q == [request[<<s, a>>] EXCEPT !.pc = "sent"]
  <2>1. q \in RequestRecords /\ q.pc = "sent"
    BY <1>0 DEF RequestRecords
  <2>2. request' = [request EXCEPT ![<<s, a>>] = q]
    BY <1>2
  <2>. HIDE DEF q
  <2>3. request'[<<s, a>>] = q
    BY <2>1, <2>2, OnePost
  <2>4. PostStep(s, a)
    BY <1>2, <2>1, <2>3 DEF PostStep
  <2>. QED
    BY <2>1, <2>2, <2>4, OnePost
<1>3. ASSUME NEW s \in Sessions, NEW a \in Attempts, request[<<s, a>>].pc # "none",
             Reply(s, a, "refused")
      PROVE  Goal
  <2>. DEFINE q == [pc |-> "refused", arrived |-> 0, late |-> FALSE]
  <2>1. q \in RequestRecords /\ q.pc = "refused"
    BY Constants DEF RequestRecords, Replies
  <2>2. request' = [request EXCEPT ![<<s, a>>] = q]
    BY <1>3 DEF Reply
  <2>. HIDE DEF q
  <2>3. request'[<<s, a>>] = q
    BY <2>1, <2>2, OnePost
  <2>4. PostStep(s, a)
    BY <1>3, <2>1, <2>3 DEF PostStep
  <2>. QED
    BY <2>1, <2>2, <2>4, OnePost
<1>4. ASSUME NEW s \in Sessions, NEW a \in Attempts, Arrive(s, a)
      PROVE  Goal
  <2>1. CASE Reply(s, a, "refused")
    BY <1>3, <1>4, <2>1 DEF Arrive
  <2>2. CASE ~Reply(s, a, "refused")
    <3>. DEFINE q == [pc |-> "head", arrived |-> clock, late |-> Stored(s)]
    <3>1. request' = [request EXCEPT ![<<s, a>>] = q] /\ PeriodValid(s)
      BY <1>4, <2>2 DEF Arrive
    <3>2. q \in RequestRecords /\ q.pc = "head" /\ q.arrived = clock /\ (q.late => Stored(s))
      BY <1>0 DEF RequestRecords, Stored
    <3>. HIDE DEF q
    <3>3. request'[<<s, a>>] = q
      BY <3>1, <3>2, OnePost
    <3>4. PostStep(s, a)
      BY <1>4, <3>1, <3>2, <3>3 DEF PostStep, Arrive, PeriodValid
    <3>. QED
      BY <3>1, <3>2, <3>4, OnePost
  <2>. QED
    BY <2>1, <2>2
<1>5. ASSUME NEW s \in Sessions, NEW a \in Attempts, HeadObject(s, a)
      PROVE  Goal
  <2>1. CASE Reply(s, a, "refused")
    BY <1>3, <1>5, <2>1 DEF HeadObject
  <2>2. CASE ~Reply(s, a, "refused")
    <3>. DEFINE q == [request[<<s, a>>] EXCEPT !.pc = "put"]
    <3>1. request' = [request EXCEPT ![<<s, a>>] = q] /\ ~Stored(s)
      BY <1>5, <2>2 DEF HeadObject, Absent
    <3>2. /\ q \in RequestRecords /\ q.pc = "put"
          /\ q.arrived = request[<<s, a>>].arrived /\ q.late = request[<<s, a>>].late
      BY <1>0 DEF RequestRecords
    <3>. HIDE DEF q
    <3>3. request'[<<s, a>>] = q
      BY <3>1, <3>2, OnePost
    <3>4. PostStep(s, a)
      BY <1>5, <3>1, <3>2, <3>3 DEF PostStep, HeadObject
    <3>. QED
      BY <3>1, <3>2, <3>4, OnePost
  <2>. QED
    BY <2>1, <2>2
<1>6. ASSUME NEW s \in Sessions, NEW a \in Attempts, PutObject(s, a)
      PROVE  Goal
  <2>1. CASE Reply(s, a, "refused")
    BY <1>3, <1>6, <2>1 DEF PutObject
  <2>2. CASE ~Reply(s, a, "refused")
    <3>. DEFINE q == [pc |-> "ok", arrived |-> 0, late |-> FALSE]
    <3>1. request' = [request EXCEPT ![<<s, a>>] = q] /\ Written(s, a)
      BY <1>6, <2>2 DEF PutObject, Reply, Write, Written
    <3>2. q \in RequestRecords /\ q.pc = "ok"
      BY Constants DEF RequestRecords, Replies
    <3>. HIDE DEF q
    <3>3. request'[<<s, a>>] = q
      BY <3>1, <3>2, OnePost
    <3>4. PostStep(s, a)
      BY <1>6, <3>1, <3>2, <3>3 DEF PostStep, PutObject, Written
    <3>. QED
      BY <3>1, <3>2, <3>4, OnePost
  <2>. QED
    BY <2>1, <2>2
<1>7. ASSUME NEW s \in Sessions, NEW p \in Days, StartSession(s, p)
      PROVE  Goal
  BY <1>2, <1>7, Constants DEF StartSession, TypeOK
<1>8. ASSUME NEW s \in Sessions, Resend(s)
      PROVE  Goal
  <2>1. session[s].attempt \in Attempts /\ session'[s].pc # "idle"
    BY <1>8 DEF Resend, TypeOK
  <2>. QED
    BY <1>2, <1>8, <2>1 DEF Resend
<1>. QED
  BY <1>1, <1>4, <1>5, <1>6, <1>7, <1>8
  DEF Next, AdvancePeriod, Send, Receive, Timeout, Handle, List, StartListing, ListPage,
      GetObject, vars

-----------------------------------------------------------------------------
(* Every conjunct of the invariant is preserved.                           *)

Listings == [pc : {"idle", "reading"}, period : 0..MaxPeriod,
             left : SUBSET Checkers, keys : SUBSET Checkers,
             got : SUBSET Checkers, owed : SUBSET Checkers]

LEMMA NextTypeOK == IInv /\ [Next]_vars => TypeOK'
<1>. SUFFICES ASSUME IInv, [Next]_vars PROVE TypeOK'
  OBVIOUS
<1>. USE Constants
<1>0. TypeOK /\ SessionsBegun
  BY DEF IInv
<1>1. clock' \in Days
  <2>1. CASE UNCHANGED clock
    BY <1>0, <2>1 DEF TypeOK
  <2>2. CASE AdvancePeriod
    <3>1. clock \in Days /\ clock < MaxPeriod /\ clock' = clock + 1
      BY <1>0, <2>2 DEF AdvancePeriod, TypeOK
    <3>. QED
      BY <3>1 DEF Days
  <2>. QED
    BY <2>1, <2>2 DEF Next, StartSession, Send, Receive, Timeout, Resend, Handle, Arrive,
       HeadObject, PutObject, List, StartListing, ListPage, GetObject, vars
<1>2. session' \in [Sessions -> [pc : {"idle", "waiting", "backoff", "done", "failed"},
                                 period : 0..MaxPeriod, attempt : Attempts]]
  <2>. DEFINE Typed == session' \in [Sessions -> [pc : {"idle", "waiting", "backoff", "done", "failed"},
                                 period : 0..MaxPeriod, attempt : Attempts]]
  <2>1. CASE UNCHANGED session
    BY <1>0, <2>1 DEF TypeOK
  <2>2. ASSUME NEW s \in Sessions, NEW p \in Days, StartSession(s, p)
        PROVE  Typed
    <3>. DEFINE q == [session[s] EXCEPT !.pc = "waiting", !.period = p]
    <3>0. session[s] \in [pc : {"idle", "waiting", "backoff", "done", "failed"},
                          period : 0..MaxPeriod, attempt : Attempts]
      BY <1>0 DEF TypeOK
    <3>1. q \in [pc : {"idle", "waiting", "backoff", "done", "failed"},
                 period : 0..MaxPeriod, attempt : Attempts]
      BY <3>0
    <3>2. session' = [session EXCEPT ![s] = q]
      BY <2>2 DEF StartSession
    <3>. QED
      BY <1>0, <3>1, <3>2 DEF TypeOK
  <2>3. ASSUME NEW s \in Sessions, Send(s)
        PROVE  Typed
    <3>1. CASE session[s].pc # "idle" /\ AttemptFails(s)
      BY <1>0, <3>1, AttemptFailsType
    <3>2. CASE session' = [session EXCEPT ![s].pc = "done"]
      BY <1>0, <3>2 DEF TypeOK
    <3>3. CASE session' = [session EXCEPT ![s].pc = "waiting"]
      BY <1>0, <3>3 DEF TypeOK
    <3>. QED
      BY <2>3, <3>1, <3>2, <3>3 DEF Send, Receive, Timeout, Resend
  <2>. QED
    BY <2>1, <2>2, <2>3 DEF Next, AdvancePeriod, Handle, Arrive, HeadObject, PutObject,
                            List, StartListing, ListPage, GetObject, vars
<1>3. request' \in [Requests -> RequestRecords]
  BY <1>0, PostSteps
<1>4. objects' \in [Days \X Checkers -> Runs \cup {None}]
  BY <1>0, ObjectsStay
<1>5. listing' \in Listings
  <2>. DEFINE Typed == listing' \in Listings
  <2>. USE DEF Listings
  <2>1. CASE UNCHANGED listing
    BY <1>0, <2>1 DEF TypeOK
  <2>2. ASSUME NEW p \in Days, StartListing(p)
        PROVE  Typed
    BY <1>0, <2>2 DEF StartListing, Receipted, TypeOK
  <2>3. ASSUME NEW page \in SUBSET Checkers, ListPage(page)
        PROVE  Typed
    BY <1>0, <2>3 DEF ListPage, AfterPage, TypeOK
  <2>4. ASSUME NEW c \in Checkers, GetObject(c)
        PROVE  Typed
    <3>1. CASE listing' = [listing EXCEPT !.keys = @ \ {c}, !.got = @ \cup {c}]
      BY <1>0, <2>4, <3>1 DEF TypeOK
    <3>2. CASE listing' = [pc |-> "idle", period |-> 0, left |-> {}, keys |-> {},
                           got |-> {}, owed |-> {}]
      BY <3>2
    <3>. QED
      BY <2>4, <3>1, <3>2 DEF GetObject
  <2>. QED
    BY <2>1, <2>2, <2>3, <2>4 DEF Next, AdvancePeriod, StartSession, Send, Receive, Timeout,
       Resend, Handle, Arrive, HeadObject, PutObject, List, vars
<1>. QED
  BY <1>1, <1>2, <1>3, <1>4, <1>5 DEF TypeOK, RequestRecords, Listings

LEMMA NextSessionsBegun == IInv /\ [Next]_vars => SessionsBegun'
<1>. SUFFICES ASSUME IInv, [Next]_vars PROVE SessionsBegun'
  OBVIOUS
<1>0. TypeOK /\ SessionsBegun
  BY DEF IInv
<1>1. ASSUME NEW s \in Sessions, session'[s].pc # "idle"
      PROVE  session'[s].period \in Days
  BY <1>0, <1>1, SessionSteps DEF SessionsBegun
<1>2. ASSUME NEW s \in Sessions, NEW a \in Attempts, request'[<<s, a>>].pc # "none"
      PROVE  session'[s].pc # "idle"
  <2>1. PostStep(s, a)
    BY <1>0, PostSteps
  <2>2. CASE request[<<s, a>>].pc # "none"
    BY <1>0, <2>2, SessionSteps DEF SessionsBegun
  <2>3. CASE request[<<s, a>>].pc = "none"
    BY <1>2, <2>1, <2>3 DEF PostStep
  <2>. QED
    BY <2>2, <2>3
<1>. QED
  BY <1>1, <1>2 DEF SessionsBegun

\* What a handler writes is there.
LEMMA WrittenIsStored ==
  ASSUME IInv, [Next]_vars, NEW s \in Sessions, NEW a \in Attempts, Written(s, a)
  PROVE  Stored(s)'
<1>1. session[s].pc # "idle"
  BY DEF IInv, SessionsBegun, Written
<1>2. Key(s) \in Days \X Checkers /\ s[2] \in Runs
  BY <1>1, SessionKey DEF IInv, SessionsBegun, Key
<1>3. Key(s)' = Key(s)
  BY <1>1, SessionSteps DEF Key, IInv
<1>4. objects'[Key(s)] = s[2]
  BY <1>2 DEF Written, IInv, TypeOK
<1>. QED
  BY <1>2, <1>3, <1>4, Constants DEF Stored

LEMMA NextHandlersKnow == IInv /\ [Next]_vars => HandlersKnow'
<1>. SUFFICES ASSUME IInv, [Next]_vars, NEW s \in Sessions, NEW a \in Attempts
              PROVE  LET r == request'[<<s, a>>]
                     IN  /\ r.pc \in {"head", "put"} => r.arrived = session'[s].period
                         /\ r.pc = "head" /\ r.late => Stored(s)'
                         /\ r.pc = "put" => ~r.late
                         /\ r.pc = "ok" => Stored(s)'
  BY DEF HandlersKnow
<1>. DEFINE r == request[<<s, a>>]
            q == request'[<<s, a>>]
<1>0. TypeOK /\ SessionsBegun /\ HandlersKnow
  BY DEF IInv
<1>1. /\ r.pc \in {"head", "put"} => r.arrived = session[s].period
      /\ r.pc = "head" /\ r.late => Stored(s)
      /\ r.pc = "put" => ~r.late
      /\ r.pc = "ok" => Stored(s)
      /\ r.pc # "none" => session[s].pc # "idle"
  BY <1>0 DEF HandlersKnow, SessionsBegun
<1>2. session[s].pc # "idle" => session'[s].period = session[s].period
  BY <1>0, SessionSteps
<1>3. session[s].pc # "idle" /\ Stored(s) => Stored(s)'
  BY StoredStays
<1>4. Written(s, a) => Stored(s)'
  BY WrittenIsStored
<1>5. PostStep(s, a)
  BY <1>0, PostSteps
<1>. QED
  BY <1>1, <1>2, <1>3, <1>4, <1>5 DEF PostStep

LEMMA NextReceiptsAreStored == IInv /\ [Next]_vars => ReceiptsAreStored'
<1>. SUFFICES ASSUME IInv, [Next]_vars, NEW s \in Sessions, session'[s].pc = "done"
              PROVE  Stored(s)'
  BY DEF ReceiptsAreStored
<1>1. CASE session[s].pc = "done"
  BY <1>1, StoredStays DEF IInv, ReceiptsAreStored
<1>2. CASE session[s].pc # "done"
  <2>1. PICK a \in Attempts : request[<<s, a>>].pc = "ok"
    BY <1>2, SessionSteps DEF IInv
  <2>2. session[s].pc # "idle" /\ Stored(s)
    BY <2>1 DEF IInv, HandlersKnow, SessionsBegun
  <2>. QED
    BY <2>2, StoredStays
<1>. QED
  BY <1>1, <1>2

LEMMA NextListingComplete == IInv /\ [Next]_vars => ListingComplete'
<1>. SUFFICES ASSUME IInv, [Next]_vars PROVE ListingComplete'
  OBVIOUS
<1>0. TypeOK /\ SessionsBegun /\ ReceiptsAreStored /\ ListingComplete
  BY DEF IInv
<1>1. \A p \in Days, c \in Checkers : objects[<<p, c>>] # None => objects'[<<p, c>>] # None
  BY <1>0, ObjectsStay
<1>2. CASE UNCHANGED listing
  BY <1>0, <1>1, <1>2 DEF ListingComplete, TypeOK
<1>3. ASSUME NEW p \in Days, StartListing(p)
      PROVE  ListingComplete'
  <2>1. /\ listing'.period = p /\ listing'.owed = Receipted(p)
        /\ listing'.left = Checkers /\ objects' = objects
    BY <1>0, <1>3 DEF StartListing, TypeOK
  <2>2. ASSUME NEW c \in Receipted(p)
        PROVE  c \in Checkers /\ objects[<<p, c>>] # None
    <3>1. PICK n \in Runs : session[<<c, n>>].pc = "done" /\ session[<<c, n>>].period = p
      BY DEF Receipted
    <3>2. c \in Checkers /\ <<c, n>> \in Sessions
      BY DEF Receipted, Sessions
    <3>3. Stored(<<c, n>>)
      BY <1>0, <3>1, <3>2 DEF ReceiptsAreStored
    <3>. QED
      BY <3>1, <3>2, <3>3 DEF Stored, Key
  <2>. QED
    BY <2>1, <2>2 DEF ListingComplete
<1>4. ASSUME NEW page \in SUBSET Checkers, ListPage(page)
      PROVE  ListingComplete'
  <2>1. /\ listing'.pc = listing.pc /\ listing'.period = listing.period
        /\ listing'.owed = listing.owed /\ listing'.got = listing.got
        /\ listing'.left = listing.left \ page
        /\ listing'.keys = {c \in page : objects[<<listing.period, c>>] # None}
        /\ listing.pc = "reading" /\ listing.keys = {} /\ objects' = objects
    BY <1>0, <1>4 DEF ListPage, AfterPage, TypeOK
  <2>. QED
    BY <1>0, <2>1 DEF ListingComplete
<1>5. ASSUME NEW c \in Checkers, GetObject(c)
      PROVE  ListingComplete'
  <2>1. CASE listing' = [listing EXCEPT !.keys = @ \ {c}, !.got = @ \cup {c}]
    <3>1. /\ listing'.pc = listing.pc /\ listing'.period = listing.period
          /\ listing'.owed = listing.owed /\ listing'.left = listing.left
          /\ listing'.keys = listing.keys \ {c} /\ listing'.got = listing.got \cup {c}
          /\ objects' = objects
      BY <1>0, <1>5, <2>1 DEF GetObject, TypeOK
    <3>. QED
      BY <1>0, <3>1 DEF ListingComplete
  <2>2. CASE listing' = [pc |-> "idle", period |-> 0, left |-> {}, keys |-> {},
                         got |-> {}, owed |-> {}]
    BY <2>2 DEF ListingComplete
  <2>. QED
    BY <1>5, <2>1, <2>2 DEF GetObject
<1>. QED
  BY <1>2, <1>3, <1>4, <1>5 DEF Next, AdvancePeriod, StartSession, Send, Receive, Timeout,
     Resend, Handle, Arrive, HeadObject, PutObject, List, vars

LEMMA NextIInv == IInv /\ [Next]_vars => IInv'
BY NextTypeOK, NextSessionsBegun, NextHandlersKnow, NextReceiptsAreStored,
   NextListingComplete DEF IInv

-----------------------------------------------------------------------------
(* The theorems.                                                           *)

\* The inductive invariant: what a handler knows stays true between its steps.
THEOREM CollectionInvariant == Spec => []IInv
<1>. QED
  BY InitIInv, NextIInv, PTL DEF Spec

\* The state keeps its shape.
THEOREM TypeCorrect == Spec => []TypeOK
<1>1. IInv => TypeOK
  BY DEF IInv
<1>. QED
  BY <1>1, CollectionInvariant, PTL

\* Whatever is lost, retried or answered late, a 200 means the bucket has the proof.
THEOREM ReceiptsAreStoredHolds == Spec => []ReceiptsAreStored
<1>1. IInv => ReceiptsAreStored
  BY DEF IInv
<1>. QED
  BY <1>1, CollectionInvariant, PTL

\* A finished listing, however it was paged and whatever was written meanwhile, has
\* the proof of every licence that held a receipt of the day when it began.
THEOREM ReceiptsAggregatedHolds == Spec => []ReceiptsAggregated
<1>1. IInv => ReceiptsAggregated
  BY DEF IInv, ListingComplete, ReceiptsAggregated, Listed
<1>. QED
  BY <1>1, CollectionInvariant, PTL

\* The bucket changes only by a post of the object's day that began before what it
\* replaces was there.
THEOREM WritesAreTimelyHolds == Spec => WritesAreTimely
<1>. DEFINE Timely ==
       \A d \in Days, c \in Checkers : objects'[<<d, c>>] # objects[<<d, c>>] =>
         \E n \in Runs, a \in Attempts :
             LET r == request[<<<<c, n>>, a>>]
             IN  /\ r.pc = "put"
                 /\ r.arrived = d
                 /\ objects[<<d, c>>] # None => ~r.late
<1>1. ASSUME IInv, [Next]_vars PROVE Timely
  <2>. SUFFICES ASSUME NEW d \in Days, NEW c \in Checkers,
                       objects'[<<d, c>>] # objects[<<d, c>>]
                PROVE  \E n \in Runs, a \in Attempts :
                          LET r == request[<<<<c, n>>, a>>]
                          IN  /\ r.pc = "put"
                              /\ r.arrived = d
                              /\ objects[<<d, c>>] # None => ~r.late
    OBVIOUS
  <2>1. PICK s \in Sessions, a \in Attempts : Written(s, a)
    BY <1>1, BucketSteps
  <2>2. Key(s) = <<d, c>>
    BY <1>1, <2>1 DEF Written, IInv, TypeOK
  <2>3. session[s].period = d /\ s = <<c, s[2]>> /\ s[2] \in Runs
    BY <2>2, SessionKey DEF Key
  <2>4. /\ request[<<s, a>>].pc = "put"
        /\ request[<<s, a>>].arrived = d
        /\ ~request[<<s, a>>].late
    BY <1>1, <2>1, <2>3 DEF Written, IInv, HandlersKnow
  <2>. QED
    BY <2>3, <2>4
<1>2. IInv /\ [Next]_vars => [Timely]_vars
  BY <1>1
<1>. QED
  BY <1>2, CollectionInvariant, PTL DEF Spec, WritesAreTimely
================================================================================
