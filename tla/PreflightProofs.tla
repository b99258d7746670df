---------------------------- MODULE PreflightProofs ----------------------------
(***************************************************************************)
(* Proofs about Preflight, for any plan of lanes, any reach of failures and  *)
(* any number of faults: no event is ever out of place, an executor that     *)
(* finds the run not admitted always has a check to make, and work starts    *)
(* on checked targets only.                                                  *)
(*                                                                         *)
(* The argument: what an executor knows of the record when it read it last   *)
(* (Knows) is true as long as its revision is, for every append of another   *)
(* takes its freshness away; and each check it counts as restored passed     *)
(* and stays passed, for nobody else starts checks (RestoredPassed).         *)
(***************************************************************************)
EXTENDS Preflight, TLAPS

(* A check, or a place for one.                                             *)
CheckShape == [lane : LaneIds \cup {0}, target : Targets \cup {"none"}, context : Nat]

(* The type of a record.                                                    *)
RecordShape ==
  [latest : [Checks -> Outcomes \cup {"none"}], spent : SUBSET Checks, answered : SUBSET Checks,
   excluded : SUBSET Targets, retired : SUBSET Targets, open : Checks \cup {NoCheck},
   unresolved : BOOLEAN,
   paused : BOOLEAN, failed : BOOLEAN, admitted : BOOLEAN, valid : BOOLEAN]

(* A check is one of a lane and of a target of that lane.                   *)
LEMMA ChecksHaveLanes ==
  ASSUME NEW c \in Checks
  PROVE  /\ c.lane \in LaneIds /\ c.target \in TargetsOf(c.lane) /\ c \in CheckShape
         /\ IsLive(c) \/ c \in StaticChecks(c.lane, c.target)
         /\ IsLive(c) => c = LiveCheck(c.lane, c.target)
<1>0. PICK l \in LaneIds : \E t \in TargetsOf(l) : c \in StaticChecks(l, t) \cup {LiveCheck(l, t)}
  BY DEF Checks
<1>1. PICK t \in TargetsOf(l) : c \in StaticChecks(l, t) \cup {LiveCheck(l, t)}
  BY <1>0
<1>2. Lanes[l].contexts \in Nat
  BY LanesAreDeclared
<1>3. t \in Targets
  BY DEF Targets
<1>4. CASE c = LiveCheck(l, t)
  BY <1>1, <1>3, <1>4 DEF LiveCheck, CheckShape, IsLive
<1>5. CASE c \in StaticChecks(l, t)
  <2>1. PICK n \in 1..Lanes[l].contexts : c = [lane |-> l, target |-> t, context |-> n]
    BY <1>5 DEF StaticChecks
  <2>2. n \in Nat /\ n # 0
    BY <1>2
  <2>3. QED
    BY <1>1, <1>3, <1>5, <2>1, <2>2 DEF CheckShape, IsLive
<1>6. QED
  BY <1>1, <1>4, <1>5

(* The static checks of a target on a lane are checks of the plan.          *)
LEMMA StaticChecksAreChecks ==
  ASSUME NEW l \in LaneIds, NEW t \in TargetsOf(l), NEW c \in StaticChecks(l, t)
  PROVE  c \in Checks /\ ~IsLive(c) /\ c.lane = l /\ c.target = t
<1>1. Lanes[l].contexts \in Nat
  BY LanesAreDeclared
<1>2. PICK n \in 1..Lanes[l].contexts : c = [lane |-> l, target |-> t, context |-> n]
  BY DEF StaticChecks
<1>3. QED
  BY <1>1, <1>2 DEF Checks, IsLive

(* The absence of a check is no check of the plan.                          *)
LEMMA NoCheckIsLive == IsLive(NoCheck) /\ NoCheck \in CheckShape /\ NoCheck \notin Checks
<1>1. NoCheck \notin Checks
  BY ChecksHaveLanes, LanesAreDeclared DEF NoCheck
<1>2. QED
  BY <1>1 DEF IsLive, NoCheck, CheckShape

(* What the fold makes of each event it accepts.                            *)

(* The fold of an event that is accepted is its application, with the       *)
(* admission that follows from it.                                          *)
LEMMA FoldKeeps ==
  ASSUME NEW r, NEW ev, ev.type \in {"started", "finished", "resumed", "failed"}, Accepts(r, ev),
         NEW s, s = Apply(r, ev), s \in RecordShape
  PROVE  LET f == Fold(r, ev) IN
         /\ f \in RecordShape
         /\ f.latest = s.latest /\ f.spent = s.spent /\ f.answered = s.answered
         /\ f.excluded = s.excluded /\ f.retired = s.retired /\ f.open = s.open
         /\ f.paused = s.paused /\ f.failed = s.failed /\ f.valid = s.valid
         /\ f.unresolved = s.unresolved
         /\ f.admitted = (s.admitted \/ (~s.failed /\ s.open = NoCheck /\ ~s.paused /\ Ready(s)))
<1> DEFINE b == s.admitted \/ (~s.failed /\ s.open = NoCheck /\ ~s.paused /\ Ready(s))
<1>1. Fold(r, ev) = [s EXCEPT !.admitted = b]
  BY DEF Fold
<1>2. b \in BOOLEAN
  OBVIOUS
<1> HIDE DEF b
<1>3. QED
  <2>1. [s EXCEPT !.admitted = b] \in RecordShape
    BY <1>2 DEF RecordShape
  <2>2. [s EXCEPT !.admitted = b].admitted = b
    BY DEF RecordShape
  <2>3. QED
    BY <1>1, <2>1, <2>2 DEF b, RecordShape

(* The types of the fields of a record.                                     *)
LEMMA EventsOfARecord ==
  ASSUME NEW r \in RecordShape
  PROVE  /\ r.open \in Checks \cup {NoCheck} /\ r.latest \in [Checks -> Outcomes \cup {"none"}]
         /\ r.spent \subseteq Checks /\ r.excluded \subseteq Targets /\ r.retired \subseteq Targets
         /\ r.paused \in BOOLEAN /\ r.failed \in BOOLEAN /\ r.admitted \in BOOLEAN
         /\ r.valid \in BOOLEAN /\ r.unresolved \in BOOLEAN /\ r.answered \subseteq Checks
BY DEF RecordShape

(* What the start of a check makes of a record.                             *)
LEMMA FoldedStart ==
  ASSUME NEW r \in RecordShape, NEW c \in Checks, Accepts(r, Start(c))
  PROVE  LET f == Fold(r, Start(c)) IN
         /\ f \in RecordShape
         /\ f.latest = r.latest /\ f.spent = r.spent /\ f.answered = r.answered
         /\ f.excluded = r.excluded /\ f.retired = r.retired /\ f.open = c
         /\ f.paused = r.paused /\ f.failed = r.failed /\ f.valid = r.valid
         /\ f.unresolved = r.unresolved
         /\ r.admitted => f.admitted
         /\ Ready(f) /\ ~f.failed /\ f.open = NoCheck /\ ~f.paused => f.admitted
<1> DEFINE ev == Start(c)
           s == [r EXCEPT !.open = c]
<1>1. ev.type = "started" /\ ev.check = c
  BY DEF Start
<1>2. Apply(r, ev) = s
  BY <1>1 DEF Apply
<1>3. /\ s \in RecordShape
      /\ s.latest = r.latest /\ s.spent = r.spent /\ s.answered = r.answered
      /\ s.excluded = r.excluded /\ s.retired = r.retired /\ s.open = c
      /\ s.paused = r.paused /\ s.failed = r.failed /\ s.valid = r.valid /\ s.admitted = r.admitted
      /\ s.unresolved = r.unresolved
  BY DEF RecordShape
<1> DEFINE f == Fold(r, ev)
<1> HIDE DEF s
<1>4. /\ f \in RecordShape
      /\ f.latest = s.latest /\ f.spent = s.spent /\ f.answered = s.answered
      /\ f.excluded = s.excluded /\ f.retired = s.retired /\ f.open = s.open
      /\ f.paused = s.paused /\ f.failed = s.failed /\ f.valid = s.valid
      /\ f.unresolved = s.unresolved
      /\ f.admitted = (s.admitted \/ (~s.failed /\ s.open = NoCheck /\ ~s.paused /\ Ready(s)))
  BY <1>1, <1>2, <1>3, FoldKeeps
<1> HIDE DEF f, ev
<1>5. Ready(f) <=> Ready(s)
  BY <1>4 DEF Ready, Covered, Eligible, Checked, Answered
<1>6. f.admitted = (s.admitted \/ (~s.failed /\ s.open = NoCheck /\ ~s.paused /\ Ready(s)))
  BY <1>4
<1>7. r.admitted => f.admitted
  BY <1>3, <1>6
<1>8. Ready(f) /\ ~f.failed /\ f.open = NoCheck /\ ~f.paused => f.admitted
  BY <1>4, <1>5, <1>6
<1>9. QED
  BY <1>3, <1>4, <1>7, <1>8 DEF f, ev

(* What the end of a check makes of a record.                               *)
LEMMA FoldedFinish ==
  ASSUME NEW r \in RecordShape, NEW c \in Checks, NEW o \in Outcomes, NEW x \in SUBSET Targets,
         Accepts(r, Finish(c, o, x))
  PROVE  LET f == Fold(r, Finish(c, o, x)) IN
         /\ f \in RecordShape
         /\ f.latest = [r.latest EXCEPT ![c] = o]
         /\ f.spent = IF o \in {"failed", "dead", "interrupted", "recording-failed"}
                      THEN r.spent \cup {c} ELSE r.spent \ {c}
         /\ f.excluded = r.excluded \cup x /\ f.retired = r.retired /\ f.open = NoCheck
         /\ f.paused = (o \in {"failed", "interrupted", "recording-failed"})
         /\ f.failed = r.failed /\ f.valid = r.valid
         /\ f.unresolved = (r.unresolved \/ (o = "dead" /\ x = {}))
         /\ r.admitted => f.admitted
         /\ Ready(f) /\ ~f.failed /\ f.open = NoCheck /\ ~f.paused => f.admitted
<1> DEFINE ev == Finish(c, o, x)
           s == Apply(r, ev)
<1>1. ev.type = "finished" /\ ev.check = c /\ ev.outcome = o /\ ev.reach = x
  BY DEF Finish
<1> HIDE DEF ev
<1>2. s = [r EXCEPT
           !.open = NoCheck,
           !.latest[c] = o,
           !.answered = IF o = "succeeded" THEN @ \union {c} ELSE @,
           !.excluded = @ \union x,
           !.unresolved = @ \/ (o = "dead" /\ x = {}),
           !.spent = IF o \in {"failed", "dead", "interrupted", "recording-failed"}
                     THEN @ \union {c} ELSE @ \ {c},
           !.paused = o \in {"failed", "interrupted", "recording-failed"}]
  BY <1>1 DEF Apply
<1>3. /\ s.latest = [r.latest EXCEPT ![c] = o]
      /\ s.spent = IF o \in {"failed", "dead", "interrupted", "recording-failed"}
                   THEN r.spent \cup {c} ELSE r.spent \ {c}
      /\ s.answered = IF o = "succeeded" THEN r.answered \cup {c} ELSE r.answered
      /\ s.excluded = r.excluded \cup x /\ s.retired = r.retired /\ s.open = NoCheck
      /\ s.paused = (o \in {"failed", "interrupted", "recording-failed"})
      /\ s.failed = r.failed /\ s.valid = r.valid /\ s.admitted = r.admitted
      /\ s.unresolved = (r.unresolved \/ (o = "dead" /\ x = {}))
  BY <1>2, Zenon DEF RecordShape
<1>4. s \in RecordShape
  <2> DEFINE la == [r.latest EXCEPT ![c] = o]
             sp == IF o \in {"failed", "dead", "interrupted", "recording-failed"}
                   THEN r.spent \cup {c} ELSE r.spent \ {c}
             an == IF o = "succeeded" THEN r.answered \cup {c} ELSE r.answered
             pa == o \in {"failed", "interrupted", "recording-failed"}
             ex == r.excluded \cup x
             un == r.unresolved \/ (o = "dead" /\ x = {})
  <2>1. /\ la \in [Checks -> Outcomes \cup {"none"}] /\ sp \in SUBSET Checks /\ an \in SUBSET Checks
        /\ pa \in BOOLEAN /\ ex \in SUBSET Targets /\ un \in BOOLEAN
    BY EventsOfARecord
  <2>2. s = [r EXCEPT !.open = NoCheck, !.latest = la, !.answered = an, !.excluded = ex,
                      !.unresolved = un, !.spent = sp, !.paused = pa]
    BY <1>2, Zenon DEF RecordShape
  <2> HIDE DEF la, sp, an, pa, ex, un, s
  <2>3. QED
    BY <2>1, <2>2 DEF RecordShape
<1> DEFINE f == Fold(r, ev)
<1> HIDE DEF s
<1>5. /\ f \in RecordShape
      /\ f.latest = s.latest /\ f.spent = s.spent /\ f.answered = s.answered
      /\ f.excluded = s.excluded /\ f.retired = s.retired /\ f.open = s.open
      /\ f.paused = s.paused /\ f.failed = s.failed /\ f.valid = s.valid
      /\ f.unresolved = s.unresolved
      /\ f.admitted = (s.admitted \/ (~s.failed /\ s.open = NoCheck /\ ~s.paused /\ Ready(s)))
  BY <1>1, <1>4, FoldKeeps DEF s, ev
<1> HIDE DEF f
<1>6. Ready(f) <=> Ready(s)
  BY <1>5 DEF Ready, Covered, Eligible, Checked, Answered
<1>7. f.admitted = (s.admitted \/ (~s.failed /\ s.open = NoCheck /\ ~s.paused /\ Ready(s)))
  BY <1>5
<1>8. r.admitted => f.admitted
  BY <1>3, <1>7
<1>9. Ready(f) /\ ~f.failed /\ f.open = NoCheck /\ ~f.paused => f.admitted
  BY <1>5, <1>6, <1>7
<1>10. QED
  BY <1>3, <1>5, <1>8, <1>9 DEF f, ev

(* What a resume makes of a record.                                         *)
LEMMA FoldedResume ==
  ASSUME NEW r \in RecordShape, Accepts(r, Event("resumed"))
  PROVE  LET f == Fold(r, Event("resumed")) IN
         /\ f \in RecordShape
         /\ f.latest = r.latest /\ f.spent = {} /\ f.answered = r.answered
         /\ f.excluded = r.excluded /\ f.retired = r.retired /\ f.open = r.open
         /\ f.paused = FALSE /\ f.failed = r.failed /\ f.valid = r.valid
         /\ f.unresolved = r.unresolved
         /\ r.admitted => f.admitted
         /\ Ready(f) /\ ~f.failed /\ f.open = NoCheck /\ ~f.paused => f.admitted
<1> DEFINE ev == Event("resumed")
           s == [r EXCEPT !.paused = FALSE, !.spent = {}]
<1>1. ev.type = "resumed"
  BY DEF Event
<1>2. Apply(r, ev) = s
  BY <1>1 DEF Apply
<1>3. /\ s \in RecordShape /\ s.admitted = r.admitted
      /\ s.latest = r.latest /\ s.spent = {} /\ s.answered = r.answered
      /\ s.excluded = r.excluded /\ s.retired = r.retired /\ s.open = r.open
      /\ s.paused = FALSE /\ s.failed = r.failed /\ s.valid = r.valid
      /\ s.unresolved = r.unresolved
  BY DEF RecordShape
<1> DEFINE f == Fold(r, ev)
<1> HIDE DEF s
<1>4. /\ f \in RecordShape
      /\ f.latest = s.latest /\ f.spent = s.spent /\ f.answered = s.answered
      /\ f.excluded = s.excluded /\ f.retired = s.retired /\ f.open = s.open
      /\ f.paused = s.paused /\ f.failed = s.failed /\ f.valid = s.valid
      /\ f.unresolved = s.unresolved
      /\ f.admitted = (s.admitted \/ (~s.failed /\ s.open = NoCheck /\ ~s.paused /\ Ready(s)))
  BY <1>1, <1>2, <1>3, FoldKeeps
<1> HIDE DEF f, ev
<1>5. Ready(f) <=> Ready(s)
  BY <1>4 DEF Ready, Covered, Eligible, Checked, Answered
<1>6. f.admitted = (s.admitted \/ (~s.failed /\ s.open = NoCheck /\ ~s.paused /\ Ready(s)))
  BY <1>4
<1>7. r.admitted => f.admitted
  BY <1>3, <1>6
<1>8. Ready(f) /\ ~f.failed /\ f.open = NoCheck /\ ~f.paused => f.admitted
  BY <1>4, <1>5, <1>6
<1>9. QED
  BY <1>3, <1>4, <1>7, <1>8 DEF f, ev

(* What the failure of the run makes of a record.                           *)
LEMMA FoldedFailure ==
  ASSUME NEW r \in RecordShape, NEW l, Accepts(r, FailedOn(l))
  PROVE  LET f == Fold(r, FailedOn(l)) IN
         /\ f \in RecordShape
         /\ f.latest = r.latest /\ f.spent = r.spent /\ f.answered = r.answered
         /\ f.excluded = r.excluded /\ f.retired = r.retired /\ f.open = r.open
         /\ f.paused = r.paused /\ f.failed = TRUE /\ f.valid = r.valid
         /\ f.unresolved = r.unresolved
         /\ r.admitted => f.admitted
         /\ Ready(f) /\ ~f.failed /\ f.open = NoCheck /\ ~f.paused => f.admitted
<1> DEFINE ev == FailedOn(l)
           s == [r EXCEPT !.failed = TRUE]
<1>1. ev.type = "failed"
  BY DEF FailedOn, Event
<1>2. Apply(r, ev) = s
  BY <1>1 DEF Apply
<1>3. /\ s \in RecordShape /\ s.admitted = r.admitted
      /\ s.latest = r.latest /\ s.spent = r.spent /\ s.answered = r.answered
      /\ s.excluded = r.excluded /\ s.retired = r.retired /\ s.open = r.open
      /\ s.paused = r.paused /\ s.failed = TRUE /\ s.valid = r.valid
      /\ s.unresolved = r.unresolved
  BY DEF RecordShape
<1> DEFINE f == Fold(r, ev)
<1> HIDE DEF s
<1>4. /\ f \in RecordShape
      /\ f.latest = s.latest /\ f.spent = s.spent /\ f.answered = s.answered
      /\ f.excluded = s.excluded /\ f.retired = s.retired /\ f.open = s.open
      /\ f.paused = s.paused /\ f.failed = s.failed /\ f.valid = s.valid
      /\ f.unresolved = s.unresolved
      /\ f.admitted = (s.admitted \/ (~s.failed /\ s.open = NoCheck /\ ~s.paused /\ Ready(s)))
  BY <1>1, <1>2, <1>3, FoldKeeps
<1> HIDE DEF f, ev
<1>5. Ready(f) <=> Ready(s)
  BY <1>4 DEF Ready, Covered, Eligible, Checked, Answered
<1>6. f.admitted = (s.admitted \/ (~s.failed /\ s.open = NoCheck /\ ~s.paused /\ Ready(s)))
  BY <1>4
<1>7. r.admitted => f.admitted
  BY <1>3, <1>6
<1>8. Ready(f) /\ ~f.failed /\ f.open = NoCheck /\ ~f.paused => f.admitted
  BY <1>4, <1>5, <1>6
<1>9. QED
  BY <1>3, <1>4, <1>7, <1>8 DEF f, ev

(* What the events of nodes make of a record.                               *)
LEMMA FoldedOthers ==
  ASSUME NEW r \in RecordShape, NEW x \in SUBSET Targets
  PROVE  /\ Fold(r, Event("node")) = r
         /\ Fold(r, Retired(x)) =
              [r EXCEPT !.retired = r.retired \cup x, !.unresolved = r.unresolved \/ x = {}]
         /\ Fold(r, Retired(x)) \in RecordShape
<1>1. Fold(r, Event("node")) = r
  BY DEF Event, Fold, Apply
<1>2. Retired(x).type = "retired" /\ Retired(x).reach = x
  BY DEF Event, Retired
<1>3. Fold(r, Retired(x)) =
        [r EXCEPT !.retired = r.retired \cup x, !.unresolved = r.unresolved \/ x = {}]
  BY <1>2 DEF Fold, Apply
<1>4. [r EXCEPT !.retired = r.retired \cup x, !.unresolved = r.unresolved \/ x = {}] \in RecordShape
  BY DEF RecordShape
<1>5. QED
  BY <1>1, <1>3, <1>4

-----------------------------------------------------------------------------
(* The invariant.                                                           *)

(* A record the fold accepts to go on with.                                 *)
RecordHolds(r) ==
  /\ r \in RecordShape
  /\ r.valid
  /\ r.open # NoCheck => ~r.paused /\ ~r.failed
  /\ r.paused => ~r.failed
  /\ ~r.paused /\ ~r.unresolved => \A c \in r.spent : c.target \in r.excluded /\ r.latest[c] # "none"
  /\ ~r.admitted => r.retired = {}
  /\ Ready(r) /\ r.open = NoCheck /\ ~r.failed /\ ~r.paused => r.admitted

Places == {"off", "idle", "top", "start", "probing", "dead", "admitted", "work", "working", "resume"}

(* The type of the executor.                                                *)
ExecutorShape ==
  [pc : Places, todo : CheckShape, route : SUBSET Targets, fresh : BOOLEAN, restored : SUBSET Checks]

(* What the executor counts as restored is a static check that passed, and  *)
(* is not made again.                                                       *)
RestoredPassed ==
  \A c \in exec.restored :
    ~IsLive(c) /\ rec.latest[c] \in {"admitted", "unsupported"} /\ rec.open # c

(* The targets of T can be used on the lane.                                *)
AllChecked(l, T) ==
  \A t \in T : Checked(rec, l, t) /\ t \notin rec.excluded \cup rec.retired

(* What an executor that is at the revision of the stream relies on.        *)
Knows ==
  /\ exec.pc = "start" =>
       exec.todo \in Checks /\ exec.todo \notin exec.restored /\ Accepts(rec, Start(exec.todo))
  /\ exec.pc = "probing" => exec.todo \in Checks /\ rec.open = exec.todo
  /\ exec.pc = "dead" => Accepts(rec, FailedOn(exec.todo.lane))
  /\ exec.pc = "admitted" =>
       /\ rec.admitted /\ ~rec.unresolved
       /\ \A l \in LaneIds : AllChecked(l, {t \in TargetsOf(l) : ~Unavailable(l, t)})
  /\ exec.pc \in {"work", "working"} =>
       rec.admitted /\ ~rec.unresolved /\ AllChecked(exec.todo.lane, exec.route)
  /\ exec.pc = "resume" => rec.paused

(* What a reader at the revision of the stream relies on.                   *)
ReaderKnows ==
  /\ reader \in [closing : BOOLEAN, fresh : BOOLEAN]
  /\ reader.closing /\ reader.fresh => rec.open # NoCheck

IInv ==
  /\ RecordHolds(rec)
  /\ exec \in ExecutorShape
  /\ RestoredPassed
  /\ exec.fresh => Knows
  /\ ReaderKnows

-----------------------------------------------------------------------------
(* The record under each event.                                             *)

(* A check that may start keeps the record sound.                           *)
LEMMA StartKeepsRecord ==
  ASSUME NEW r, RecordHolds(r), NEW c \in Checks, Accepts(r, Start(c))
  PROVE  RecordHolds(Fold(r, Start(c)))
<1> DEFINE f == Fold(r, Start(c))
<1>1. r \in RecordShape
  BY DEF RecordHolds
<1>2. ~r.failed /\ ~r.paused
  BY DEF Accepts, Start
<1>3. /\ f \in RecordShape
      /\ f.latest = r.latest /\ f.spent = r.spent
      /\ f.excluded = r.excluded /\ f.retired = r.retired
      /\ f.paused = r.paused /\ f.failed = r.failed /\ f.valid = r.valid
      /\ f.unresolved = r.unresolved
      /\ r.admitted => f.admitted
      /\ Ready(f) /\ ~f.failed /\ f.open = NoCheck /\ ~f.paused => f.admitted
  BY <1>1, FoldedStart
<1> HIDE DEF f
<1>4. QED
  BY <1>2, <1>3 DEF RecordHolds, f

(* The end of the open check keeps the record sound: what failed without a  *)
(* pause is excluded.                                                       *)
LEMMA FinishKeepsRecord ==
  ASSUME NEW r, RecordHolds(r), NEW c \in Checks, NEW o \in Outcomes, NEW x \in SUBSET Targets,
         Accepts(r, Finish(c, o, x)), o = "dead" => x = {} \/ c.target \in x
  PROVE  RecordHolds(Fold(r, Finish(c, o, x)))
<1> DEFINE f == Fold(r, Finish(c, o, x))
<1>1. r \in RecordShape
  BY DEF RecordHolds
<1>2. ~r.failed /\ ~r.paused
  BY DEF Accepts, Finish
<1>3. /\ f \in RecordShape
      /\ f.latest = [r.latest EXCEPT ![c] = o]
      /\ f.spent = IF o \in {"failed", "dead", "interrupted", "recording-failed"}
                   THEN r.spent \cup {c} ELSE r.spent \ {c}
      /\ f.excluded = r.excluded \cup x /\ f.retired = r.retired /\ f.open = NoCheck
      /\ f.paused = (o \in {"failed", "interrupted", "recording-failed"})
      /\ f.failed = r.failed /\ f.valid = r.valid
      /\ f.unresolved = (r.unresolved \/ (o = "dead" /\ x = {}))
      /\ r.admitted => f.admitted
      /\ Ready(f) /\ ~f.failed /\ f.open = NoCheck /\ ~f.paused => f.admitted
  BY <1>1, FoldedFinish
<1>4. o # "none"
  BY DEF Outcomes
<1> HIDE DEF f
<1>5. ASSUME ~f.paused, ~f.unresolved, NEW d \in f.spent
      PROVE  d.target \in f.excluded /\ f.latest[d] # "none"
  <2>1. r.latest \in [Checks -> Outcomes \cup {"none"}] /\ r.spent \subseteq Checks
    BY <1>1, EventsOfARecord
  <2>2. CASE d = c
    <3>1. o = "dead"
      BY <1>3, <1>5, <2>2 DEF Outcomes
    <3>2. c.target \in x
      BY <1>3, <1>5, <3>1
    <3>3. QED
      BY <1>3, <1>4, <2>1, <2>2, <3>2
  <2>3. CASE d # c
    <3>1. d \in r.spent /\ ~r.unresolved
      BY <1>3, <1>5, <2>3
    <3>2. QED
      BY <1>2, <1>3, <2>1, <2>3, <3>1 DEF RecordHolds
  <2>4. QED
    BY <2>2, <2>3
<1>6. QED
  BY <1>2, <1>3, <1>5 DEF RecordHolds, f

(* The end of a check closes it and sets its outcome.                       *)
LEMMA FinishCloses ==
  ASSUME NEW r \in RecordShape, NEW c \in Checks, NEW o \in Outcomes, NEW x \in SUBSET Targets,
         Accepts(r, Finish(c, o, x))
  PROVE  /\ Fold(r, Finish(c, o, x)).open = NoCheck
         /\ Fold(r, Finish(c, o, x)).latest = [r.latest EXCEPT ![c] = o]
<1> DEFINE f == Fold(r, Finish(c, o, x))
<1>1. /\ f \in RecordShape
      /\ f.latest = [r.latest EXCEPT ![c] = o]
      /\ f.spent = IF o \in {"failed", "dead", "interrupted", "recording-failed"}
                   THEN r.spent \cup {c} ELSE r.spent \ {c}
      /\ f.excluded = r.excluded \cup x /\ f.retired = r.retired /\ f.open = NoCheck
      /\ f.paused = (o \in {"failed", "interrupted", "recording-failed"})
      /\ f.failed = r.failed /\ f.valid = r.valid
      /\ f.unresolved = (r.unresolved \/ (o = "dead" /\ x = {}))
      /\ r.admitted => f.admitted
      /\ Ready(f) /\ ~f.failed /\ f.open = NoCheck /\ ~f.paused => f.admitted
  BY FoldedFinish
<1>2. QED
  BY <1>1

(* A resume of an open pause keeps the record sound.                        *)
LEMMA ResumeKeepsRecord ==
  ASSUME NEW r, RecordHolds(r), Accepts(r, Event("resumed"))
  PROVE  RecordHolds(Fold(r, Event("resumed")))
<1> DEFINE f == Fold(r, Event("resumed"))
<1>1. r \in RecordShape
  BY DEF RecordHolds
<1>2. ~r.failed /\ r.paused
  BY DEF Accepts, Event
<1>3. /\ f \in RecordShape /\ f.spent = {} /\ f.retired = r.retired
      /\ f.paused = FALSE /\ f.failed = r.failed /\ f.valid = r.valid
      /\ f.unresolved = r.unresolved
      /\ r.admitted => f.admitted
      /\ Ready(f) /\ ~f.failed /\ f.open = NoCheck /\ ~f.paused => f.admitted
  BY <1>1, FoldedResume
<1> HIDE DEF f
<1>4. QED
  BY <1>2, <1>3 DEF RecordHolds, f

(* The failure of a run with a dead lane keeps the record sound.            *)
LEMMA FailureKeepsRecord ==
  ASSUME NEW r, RecordHolds(r), NEW l, Accepts(r, FailedOn(l))
  PROVE  RecordHolds(Fold(r, FailedOn(l)))
<1> DEFINE f == Fold(r, FailedOn(l))
<1>1. r \in RecordShape
  BY DEF RecordHolds
<1>2. r.open = NoCheck /\ ~r.paused
  BY DEF Accepts, FailedOn, Event
<1>3. /\ f \in RecordShape
      /\ f.latest = r.latest /\ f.spent = r.spent /\ f.open = r.open
      /\ f.excluded = r.excluded /\ f.retired = r.retired
      /\ f.paused = r.paused /\ f.failed = TRUE /\ f.valid = r.valid
      /\ f.unresolved = r.unresolved
      /\ r.admitted => f.admitted
  BY <1>1, FoldedFailure
<1> HIDE DEF f
<1>4. QED
  BY <1>2, <1>3 DEF RecordHolds, f

(* The retirement of targets by a node keeps the record of an admitted run  *)
(* sound.                                                                   *)
LEMMA RetirementKeepsRecord ==
  ASSUME NEW r, RecordHolds(r), NEW x \in SUBSET Targets, r.admitted
  PROVE  RecordHolds(Fold(r, Retired(x)))
<1> DEFINE f == [r EXCEPT !.retired = r.retired \cup x, !.unresolved = r.unresolved \/ x = {}]
<1>1. r \in RecordShape
  BY DEF RecordHolds
<1>2. Fold(r, Retired(x)) = f /\ f \in RecordShape
  BY <1>1, FoldedOthers
<1>3. /\ f.latest = r.latest /\ f.spent = r.spent /\ f.open = r.open
      /\ f.excluded = r.excluded /\ f.admitted = r.admitted
      /\ f.paused = r.paused /\ f.failed = r.failed /\ f.valid = r.valid
      /\ f.unresolved = (r.unresolved \/ x = {})
  BY <1>1 DEF RecordShape
<1> HIDE DEF f
<1>4. QED
  BY <1>2, <1>3 DEF RecordHolds

-----------------------------------------------------------------------------
(* The steps.                                                               *)

(* An executor at rest, or at the top of its loop, remembers what it restored.*)
LEMMA Resting ==
  ASSUME exec \in ExecutorShape
  PROVE  /\ Idle \in ExecutorShape /\ Idle.fresh = FALSE /\ Idle.restored = exec.restored
         /\ Top \in ExecutorShape /\ Top.fresh = FALSE /\ Top.restored = exec.restored
<1>1. NoExecutor \in ExecutorShape /\ NoExecutor.fresh = FALSE
  BY NoCheckIsLive DEF NoExecutor, ExecutorShape, Places
<1>2. Idle \in ExecutorShape /\ Idle.fresh = FALSE /\ Idle.restored = exec.restored
  BY <1>1 DEF Idle, ExecutorShape, Places
<1>3. Top \in ExecutorShape /\ Top.fresh = FALSE /\ Top.restored = exec.restored
  BY <1>2 DEF Top, ExecutorShape, Places
<1>4. QED
  BY <1>2, <1>3

(* An executor that forgets what it read keeps the invariant.               *)
LEMMA ForgettingIsSafe ==
  ASSUME IInv, exec' \in ExecutorShape, ~exec'.fresh, exec'.restored \subseteq exec.restored,
         UNCHANGED <<rec, reader>>
  PROVE  IInv'
<1>1. RestoredPassed'
  BY DEF IInv, RestoredPassed
<1>2. QED
  BY <1>1 DEF IInv, ReaderKnows

(* A new executor keeps the invariant.                                      *)
LEMMA CreateKeeps ==
  ASSUME IInv, Create
  PROVE  IInv'
<1>1. /\ exec' = [pc |-> "idle", todo |-> NoCheck, route |-> {}, fresh |-> FALSE, restored |-> {}]
      /\ UNCHANGED <<rec, reader>>
  BY DEF Create, NoExecutor
<1>2. exec' \in ExecutorShape /\ ~exec'.fresh /\ exec'.restored = {}
  BY <1>1, NoCheckIsLive DEF ExecutorShape, Places
<1>3. QED
  BY <1>1, <1>2, ForgettingIsSafe

(* The death of the process keeps the invariant.                            *)
LEMMA CrashKeeps ==
  ASSUME IInv, Crash
  PROVE  IInv'
<1>1. /\ exec' = [pc |-> "off", todo |-> NoCheck, route |-> {}, fresh |-> FALSE, restored |-> {}]
      /\ UNCHANGED <<rec, reader>>
  BY DEF Crash, NoExecutor
<1>2. exec' \in ExecutorShape /\ ~exec'.fresh /\ exec'.restored = {}
  BY <1>1, NoCheckIsLive DEF ExecutorShape, Places
<1>3. QED
  BY <1>1, <1>2, ForgettingIsSafe

(* The start of run keeps the invariant.                                    *)
LEMMA RunKeeps ==
  ASSUME IInv, Run
  PROVE  IInv'
BY Resting, ForgettingIsSafe DEF IInv, Run

(* An operation that gives up keeps the invariant.                          *)
LEMMA GiveUpKeeps ==
  ASSUME IInv, GiveUp
  PROVE  IInv'
BY Resting, ForgettingIsSafe DEF IInv, GiveUp

(* An executor that read the record now, and nothing else changed.          *)
LEMMA KnowingIsSafe ==
  ASSUME IInv, exec' \in ExecutorShape, Knows', exec'.restored = exec.restored,
         UNCHANGED <<rec, reader>>
  PROVE  IInv'
<1>1. RestoredPassed'
  BY DEF IInv, RestoredPassed
<1>2. QED
  BY <1>1 DEF IInv, ReaderKnows

(* An executor that goes on with a record it has read is well formed.       *)
LEMMA AtIsShaped ==
  ASSUME exec \in ExecutorShape, NEW pc \in Places
  PROVE  /\ At(pc) \in ExecutorShape /\ At(pc).pc = pc
         /\ At(pc).restored = exec.restored /\ At(pc).route = exec.route /\ At(pc).todo = exec.todo
BY DEF At, ExecutorShape

(* A static check that is due may be started.                               *)
LEMMA DueMayStart ==
  ASSUME IInv, ~Ended, NEW c \in AllDue
  PROVE  c \in Checks /\ c \notin exec.restored /\ Accepts(rec, Start(c))
<1>1. PICK d \in Checks : c \in DueChecks(d.lane, d.target)
  BY DEF AllDue
<1>2. d.lane \in LaneIds /\ d.target \in TargetsOf(d.lane)
  BY ChecksHaveLanes
<1>3. c \in Checks /\ ~IsLive(c) /\ c.target = d.target /\ c \notin exec.restored
  BY <1>1, <1>2, StaticChecksAreChecks DEF DueChecks
<1>4. c \notin rec.spent
  <2>1. SUFFICES ASSUME c \in rec.spent PROVE FALSE
    OBVIOUS
  <2>2. c.target \in rec.excluded /\ rec.latest[c] # "none"
    BY <2>1 DEF IInv, RecordHolds, Ended, Reads
  <2>3. QED
    BY <1>1, <1>3, <2>2 DEF DueChecks, Unavailable
<1>5. QED
  BY <1>3, <1>4 DEF Ended, Accepts, Start

(* When nothing is due, an available target passed its checks, and every    *)
(* check of the plan was made.                                              *)
LEMMA NothingDue ==
  ASSUME IInv, AllDue = {}
  PROVE  /\ \A l \in LaneIds : AllChecked(l, {t \in TargetsOf(l) : ~Unavailable(l, t)})
         /\ ~rec.admitted => Covered(rec)
<1>1. ASSUME NEW l \in LaneIds, NEW t \in TargetsOf(l), NEW c \in StaticChecks(l, t)
      PROVE  ((rec.admitted \/ rec.latest[c] # "none") /\ Unavailable(l, t)) \/ c \in exec.restored
  <2>1. c \in Checks /\ c.lane = l /\ c.target = t
    BY <1>1, StaticChecksAreChecks
  <2>2. c \notin DueChecks(l, t)
    BY <2>1 DEF AllDue
  <2>3. QED
    BY <2>2 DEF DueChecks
<1>2. ASSUME NEW l \in LaneIds, NEW t \in TargetsOf(l), ~Unavailable(l, t)
      PROVE  Checked(rec, l, t) /\ t \notin rec.excluded \cup rec.retired
  <2>1. ASSUME NEW c \in StaticChecks(l, t)
        PROVE  rec.latest[c] = "admitted" \/ (rec.latest[c] = "unsupported" /\ ~Lanes[l].block)
    <3>1. rec.latest[c] \in {"admitted", "unsupported"}
      BY <1>1, <1>2, <2>1 DEF IInv, RestoredPassed
    <3>2. QED
      BY <1>2, <2>1, <3>1 DEF Unavailable, Blocked
  <2>2. QED
    BY <1>2, <2>1 DEF Checked, Unavailable
<1>3. ASSUME ~rec.admitted, NEW l \in LaneIds, NEW t \in TargetsOf(l), NEW c \in StaticChecks(l, t)
      PROVE  rec.latest[c] # "none"
  BY <1>1, <1>3 DEF IInv, RestoredPassed
<1>4. QED
  BY <1>2, <1>3 DEF AllChecked, Covered

(* A live check that is due may be started.                                 *)
LEMMA LiveMayBeStarted ==
  ASSUME IInv, ~Ended, AllDue = {}, ~rec.admitted, NEW c \in LiveDue
  PROVE  c \in Checks /\ c \notin exec.restored /\ Accepts(rec, Start(c))
<1>1. /\ c \in Checks /\ IsLive(c) /\ Lanes[c.lane].live
      /\ \A t \in TargetsOf(c.lane) :
           Answered(rec, c.lane, t) => Unavailable(c.lane, t) \/ ~Checked(rec, c.lane, t)
      /\ ~Unavailable(c.lane, c.target) /\ Checked(rec, c.lane, c.target)
      /\ ~Answered(rec, c.lane, c.target)
  BY DEF LiveDue
<1>2. rec.retired = {}
  BY DEF IInv, RecordHolds
<1>3. Covered(rec)
  BY NothingDue
<1>4. ASSUME NEW t \in TargetsOf(c.lane), Answered(rec, c.lane, t)
      PROVE  t # c.target /\ ~Eligible(rec, c.lane, t)
  BY <1>1, <1>2, <1>4 DEF Unavailable, Eligible, Checked, Blocked
<1>5. LiveMayStart(rec, c)
  BY <1>1, <1>3, <1>4 DEF LiveMayStart, Eligible, Unavailable
<1>6. c \notin rec.spent
  <2>1. SUFFICES ASSUME c \in rec.spent PROVE FALSE
    OBVIOUS
  <2>2. c.target \in rec.excluded
    BY <2>1 DEF IInv, RecordHolds, Ended, Reads
  <2>3. QED
    BY <1>1, <2>2 DEF Unavailable
<1>7. c \notin exec.restored
  BY <1>1 DEF IInv, RestoredPassed
<1>8. QED
  BY <1>1, <1>5, <1>6, <1>7 DEF Ended, Accepts, Start

(* Each decision of the loop of admitBeforeWork keeps the invariant.        *)
LEMMA ReadKeeps ==
  ASSUME IInv, Read
  PROVE  IInv'
<1>0. exec \in ExecutorShape /\ UNCHANGED <<rec, reader>> /\ exec.pc = "top"
  BY DEF IInv, Read
<1>1. CASE exec' = Idle
  BY <1>0, <1>1, Resting, ForgettingIsSafe
<1>2. ASSUME ~Ended, NEW l \in DeadLanes, exec' = [At("dead") EXCEPT !.todo.lane = l]
      PROVE  IInv'
  <2>1. At("dead") \in ExecutorShape /\ At("dead").restored = exec.restored /\ At("dead").pc = "dead"
    BY <1>0, AtIsShaped DEF Places
  <2>2. l \in LaneIds /\ AllDead(rec, l)
    BY <1>2 DEF DeadLanes
  <2>3. exec' \in ExecutorShape /\ exec'.restored = exec.restored /\ exec'.pc = "dead" /\ exec'.todo.lane = l
    <3> DEFINE e == At("dead")
    <3>1. e \in ExecutorShape /\ e.restored = exec.restored /\ e.pc = "dead" /\ e.todo \in CheckShape
      BY <2>1 DEF ExecutorShape
    <3> DEFINE todo == [e.todo EXCEPT !.lane = l]
    <3>2. todo \in CheckShape /\ todo.lane = l
      BY <2>2, <3>1 DEF CheckShape
    <3>3. exec' = [e EXCEPT !.todo = todo]
      BY <1>2, <3>1, Zenon DEF ExecutorShape
    <3> HIDE DEF e, todo
    <3>4. QED
      BY <3>1, <3>2, <3>3 DEF ExecutorShape
  <2>4. Accepts(rec, FailedOn(l))
    <3>1. FailedOn(l).type = "failed" /\ FailedOn(l).check.lane = l
      BY DEF FailedOn, Event, NoCheck
    <3>2. QED
      BY <1>2, <2>2, <3>1 DEF Accepts, Ended
  <2>5. Knows'
    BY <1>0, <2>3, <2>4 DEF Knows
  <2>6. QED
    BY <1>0, <2>3, <2>5, KnowingIsSafe
<1>3. ASSUME NEW c \in Checks, c \notin exec.restored, Accepts(rec, Start(c)),
             exec' = [At("start") EXCEPT !.todo = c]
      PROVE  IInv'
  <2>1. At("start") \in ExecutorShape /\ At("start").restored = exec.restored /\ At("start").pc = "start"
    BY <1>0, AtIsShaped DEF Places
  <2>2. c \in CheckShape
    BY ChecksHaveLanes
  <2>3. exec' \in ExecutorShape /\ exec'.restored = exec.restored /\ exec'.pc = "start" /\ exec'.todo = c
    BY <1>3, <2>1, <2>2 DEF ExecutorShape
  <2>4. Knows'
    BY <1>0, <1>3, <2>3 DEF Knows
  <2>5. QED
    BY <1>0, <2>3, <2>4, KnowingIsSafe
<1>4. ASSUME AllDue = {}, rec.admitted, ~rec.unresolved, exec' = At("admitted")
      PROVE  IInv'
  <2>1. exec' \in ExecutorShape /\ exec'.restored = exec.restored /\ exec'.pc = "admitted"
    BY <1>0, <1>4, AtIsShaped DEF Places
  <2>2. \A l \in LaneIds : AllChecked(l, {t \in TargetsOf(l) : ~Unavailable(l, t)})
    BY <1>4, NothingDue
  <2>3. Knows'
    BY <1>0, <1>4, <2>1, <2>2 DEF Knows, AllChecked, Unavailable
  <2>4. QED
    BY <1>0, <2>1, <2>3, KnowingIsSafe
<1>5. QED
  BY <1>1, <1>2, <1>3, <1>4, DueMayStart, LiveMayBeStarted DEF Read, Ended, Reads

(* An append that is refused.                                               *)
LEMMA RefusedAppendIsSafe ==
  ASSUME IInv, NEW ev, NEW then, ExecutorAppends(ev, then), ~exec.fresh
  PROVE  IInv'
BY Resting, ForgettingIsSafe DEF IInv, ExecutorAppends

(* An append that is taken: the reader has to read again.                   *)
LEMMA TakenAppendIsSafe ==
  ASSUME IInv, reader' = [reader EXCEPT !.fresh = FALSE], RecordHolds(rec'),
         exec' \in ExecutorShape, RestoredPassed', exec'.fresh => Knows'
  PROVE  IInv'
BY DEF IInv, ReaderKnows

(* The append of the start of a check keeps the invariant.                  *)
LEMMA StartCheckKeeps ==
  ASSUME IInv, StartCheck
  PROVE  IInv'
<1>1. CASE ~exec.fresh
  BY <1>1, RefusedAppendIsSafe DEF StartCheck
<1>2. CASE exec.fresh
  <2>1. /\ exec.pc = "start" /\ rec' = Fold(rec, Start(exec.todo))
        /\ exec' = [exec EXCEPT !.pc = "probing"] /\ reader' = [reader EXCEPT !.fresh = FALSE]
    BY <1>2 DEF StartCheck, ExecutorAppends
  <2>2. exec.todo \in Checks /\ exec.todo \notin exec.restored /\ Accepts(rec, Start(exec.todo))
    BY <1>2, <2>1 DEF IInv, Knows
  <2>3. RecordHolds(rec')
    BY <2>1, <2>2, StartKeepsRecord DEF IInv
  <2>4. rec'.open = exec.todo /\ rec'.latest = rec.latest
    BY <2>1, <2>2, FoldedStart DEF IInv, RecordHolds
  <2>5. /\ exec' \in ExecutorShape /\ exec'.pc = "probing"
        /\ exec'.restored = exec.restored /\ exec'.todo = exec.todo
    BY <2>1 DEF IInv, ExecutorShape, Places
  <2>6. RestoredPassed'
    BY <2>2, <2>4, <2>5 DEF IInv, RestoredPassed
  <2>7. Knows'
    BY <2>2, <2>4, <2>5 DEF Knows
  <2>8. QED
    BY <2>1, <2>3, <2>5, <2>6, <2>7, TakenAppendIsSafe
<1>3. QED
  BY <1>1, <1>2

(* The append of the end of a check keeps the invariant.                    *)
LEMMA FinishCheckKeeps ==
  ASSUME IInv, FinishCheck
  PROVE  IInv'
<1>1. PICK o, x : /\ o \in Outcomes
                  /\ AppendProbeOutcome(o, x)
                  /\ o = "dead" => x \in Reach[exec.todo.target]
                  /\ o # "dead" => x = {}
                  /\ ~(o \in {"admitted", "unsupported"} /\ IsLive(exec.todo))
  BY DEF FinishCheck, Outcomes
<1>2. CASE ~exec.fresh
  BY <1>1, <1>2, RefusedAppendIsSafe DEF AppendProbeOutcome
<1>3. CASE exec.fresh
  <2> DEFINE c == exec.todo
  <2>1. /\ exec.pc = "probing" /\ rec' = Fold(rec, Finish(c, o, x))
        /\ exec' = [Top EXCEPT !.restored = RestoredAfter(o)] /\ reader' = [reader EXCEPT !.fresh = FALSE]
    BY <1>1, <1>3 DEF FinishCheck, AppendProbeOutcome, ExecutorAppends
  <2>2. c \in Checks /\ rec.open = c
    BY <1>3, <2>1 DEF IInv, Knows
  <2>3. ~rec.paused /\ ~rec.failed
    BY <2>2, NoCheckIsLive DEF IInv, RecordHolds
  <2>4. Accepts(rec, Finish(c, o, x))
    BY <2>2, <2>3 DEF Accepts, Finish
  <2>5. c.target \in Targets
    BY <2>2, ChecksHaveLanes DEF Targets
  <2>6. o \in Outcomes /\ x \in SUBSET Targets /\ (o = "dead" => x = {} \/ c.target \in x)
    BY <1>1, <2>5, ReachIsDeclared
  <2>7. RecordHolds(rec')
    BY <2>1, <2>2, <2>4, <2>6, FinishKeepsRecord DEF IInv
  <2>0. rec \in RecordShape
    BY DEF IInv, RecordHolds
  <2>8. /\ rec'.open = NoCheck /\ rec'.latest = [rec.latest EXCEPT ![c] = o]
        /\ rec.latest \in [Checks -> Outcomes \cup {"none"}]
    <3> DEFINE f == Fold(rec, Finish(c, o, x))
    <3>1. f.open = NoCheck /\ f.latest = [rec.latest EXCEPT ![c] = o]
      BY <2>0, <2>2, <2>4, <2>6, FinishCloses
    <3> HIDE DEF c
    <3>2. QED
      BY <2>0, <2>1, <3>1, EventsOfARecord
  <2>9. /\ RestoredAfter(o) \subseteq exec.restored \cup {c}
        /\ c \in RestoredAfter(o) => ~IsLive(c) /\ o \in {"admitted", "unsupported"}
    BY <2>2 DEF RestoredAfter, IInv, RestoredPassed
  <2>10. exec' \in ExecutorShape /\ ~exec'.fresh /\ exec'.restored = RestoredAfter(o)
    <3>1. Top \in ExecutorShape /\ ~Top.fresh
      BY Resting DEF IInv
    <3>2. RestoredAfter(o) \in SUBSET Checks
      BY <2>2, <2>9 DEF IInv, ExecutorShape
    <3>3. QED
      BY <2>1, <3>1, <3>2 DEF ExecutorShape
  <2>11. RestoredPassed'
    <3>1. ASSUME NEW d \in RestoredAfter(o)
          PROVE  ~IsLive(d) /\ rec'.latest[d] \in {"admitted", "unsupported"} /\ d # NoCheck
      <4>1. CASE d = c
        BY <2>2, <2>8, <2>9, <3>1, <4>1, NoCheckIsLive
      <4>2. CASE d # c
        <5>1. d \in exec.restored /\ d \in Checks
          BY <2>9, <3>1, <4>2 DEF IInv, ExecutorShape
        <5>2. QED
          BY <2>8, <4>2, <5>1, NoCheckIsLive DEF IInv, RestoredPassed
      <4>3. QED
        BY <4>1, <4>2
    <3>2. QED
      BY <2>8, <2>10, <3>1 DEF RestoredPassed, IsLive
  <2>12. QED
    BY <2>1, <2>7, <2>10, <2>11, TakenAppendIsSafe
<1>4. QED
  BY <1>2, <1>3

(* The append of the failure of the run keeps the invariant.                *)
LEMMA FailRunKeeps ==
  ASSUME IInv, FailRun
  PROVE  IInv'
<1>1. CASE ~exec.fresh
  BY <1>1, RefusedAppendIsSafe DEF FailRun
<1>2. CASE exec.fresh
  <2>1. /\ exec.pc = "dead" /\ rec' = Fold(rec, FailedOn(exec.todo.lane))
        /\ exec' = Top /\ reader' = [reader EXCEPT !.fresh = FALSE]
    BY <1>2 DEF FailRun, ExecutorAppends
  <2>2. Accepts(rec, FailedOn(exec.todo.lane))
    BY <1>2, <2>1 DEF IInv, Knows
  <2>3. RecordHolds(rec') /\ rec'.open = rec.open /\ rec'.latest = rec.latest
    <3>1. RecordHolds(rec) /\ rec \in RecordShape
      BY DEF IInv, RecordHolds
    <3>2. RecordHolds(rec')
      BY <2>1, <2>2, <3>1, FailureKeepsRecord
    <3>3. QED
      BY <2>1, <2>2, <3>1, <3>2, FoldedFailure
  <2>4. exec' \in ExecutorShape /\ ~exec'.fresh /\ exec'.restored = exec.restored
    BY <2>1, Resting DEF IInv
  <2>5. RestoredPassed'
    BY <2>3, <2>4 DEF IInv, RestoredPassed
  <2>6. QED
    BY <2>1, <2>3, <2>4, <2>5, TakenAppendIsSafe
<1>3. QED
  BY <1>1, <1>2

(* The append of a resume keeps the invariant.                              *)
LEMMA AppendResumeKeeps ==
  ASSUME IInv, AppendResume
  PROVE  IInv'
<1>1. CASE ~exec.fresh
  BY <1>1, RefusedAppendIsSafe DEF AppendResume
<1>2. CASE exec.fresh
  <2>1. /\ exec.pc = "resume" /\ rec' = Fold(rec, Event("resumed"))
        /\ exec' = Top /\ reader' = [reader EXCEPT !.fresh = FALSE]
    BY <1>2 DEF AppendResume, ExecutorAppends
  <2>2. Accepts(rec, Event("resumed"))
    BY <1>2, <2>1 DEF IInv, RecordHolds, Knows, Accepts, Event
  <2>3. RecordHolds(rec') /\ rec'.open = rec.open /\ rec'.latest = rec.latest
    BY <2>1, <2>2, ResumeKeepsRecord, FoldedResume DEF IInv, RecordHolds
  <2>4. exec' \in ExecutorShape /\ ~exec'.fresh /\ exec'.restored = exec.restored
    BY <2>1, Resting DEF IInv
  <2>5. RestoredPassed'
    BY <2>3, <2>4 DEF IInv, RestoredPassed
  <2>6. QED
    BY <2>1, <2>3, <2>4, <2>5, TakenAppendIsSafe
<1>3. QED
  BY <1>1, <1>2

(* The choice of a route keeps the invariant.                               *)
LEMMA PrepareKeeps ==
  ASSUME IInv, Prepare
  PROVE  IInv'
<1>0. exec.pc = "admitted" /\ UNCHANGED <<rec, reader>> /\ exec \in ExecutorShape
  BY DEF Prepare, IInv
<1>1. CASE exec' = Idle
  BY <1>0, <1>1, Resting, ForgettingIsSafe
<1>2. ASSUME NEW l \in LaneIds, exec' = [exec EXCEPT !.pc = "work", !.todo.lane = l, !.route = Route(l)]
      PROVE  IInv'
  <2>1. ASSUME NEW t \in Route(l)
        PROVE  t \in TargetsOf(l) /\ ~Unavailable(l, t)
    BY <2>1 DEF Route, TargetsOf, ToSet
  <2> DEFINE todo == [exec.todo EXCEPT !.lane = l]
             route == Route(l)
  <2>2. todo \in CheckShape /\ todo.lane = l /\ route \in SUBSET Targets
    BY <1>0, <2>1 DEF ExecutorShape, CheckShape, Targets
  <2>3. exec' = [exec EXCEPT !.pc = "work", !.todo = todo, !.route = route]
    BY <1>0, <1>2, Zenon DEF ExecutorShape
  <2> HIDE DEF todo, route
  <2>4. /\ exec' \in ExecutorShape /\ exec'.pc = "work" /\ exec'.todo = todo /\ exec'.route = route
        /\ exec'.fresh = exec.fresh /\ exec'.restored = exec.restored
    BY <1>0, <2>2, <2>3 DEF ExecutorShape, Places
  <2>5. CASE ~exec.fresh
    BY <1>0, <2>4, <2>5, ForgettingIsSafe
  <2>6. CASE exec.fresh
    <3>1. rec.admitted /\ ~rec.unresolved /\ AllChecked(l, {t \in TargetsOf(l) : ~Unavailable(l, t)})
      BY <1>0, <2>6 DEF IInv, Knows
    <3>2. AllChecked(l, route)
      BY <2>1, <3>1 DEF AllChecked, route
    <3>3. Knows'
      BY <1>0, <2>2, <2>4, <3>1, <3>2 DEF Knows, AllChecked
    <3>4. QED
      BY <1>0, <2>4, <3>3, KnowingIsSafe
  <2>7. QED
    BY <2>5, <2>6
<1>3. QED
  BY <1>1, <1>2 DEF Prepare

(* The dispatch of a node keeps the invariant.                              *)
LEMMA DispatchKeeps ==
  ASSUME IInv, Dispatch
  PROVE  IInv'
<1>1. CASE ~exec.fresh
  BY <1>1, Resting, ForgettingIsSafe DEF Dispatch, IInv
<1>2. CASE exec.fresh
  <2>1. /\ exec.pc = "work" /\ rec' = Fold(rec, Event("node"))
        /\ exec' = [exec EXCEPT !.pc = "working"] /\ reader' = [reader EXCEPT !.fresh = FALSE]
    BY <1>2 DEF Dispatch, ExecutorAppends
  <2>2. rec' = rec
    BY <2>1, FoldedOthers DEF IInv, RecordHolds
  <2>3. /\ exec' \in ExecutorShape /\ exec'.pc = "working" /\ exec'.restored = exec.restored
        /\ exec'.todo = exec.todo /\ exec'.route = exec.route
    BY <2>1 DEF IInv, ExecutorShape, Places
  <2>4. RestoredPassed'
    BY <2>2, <2>3 DEF IInv, RestoredPassed
  <2>5. Knows'
    BY <1>2, <2>1, <2>2, <2>3 DEF IInv, Knows, AllChecked
  <2>6. QED
    BY <2>1, <2>2, <2>3, <2>4, <2>5, TakenAppendIsSafe DEF IInv
<1>3. QED
  BY <1>1, <1>2

(* The end of a node keeps the invariant.                                   *)
LEMMA SettleKeeps ==
  ASSUME IInv, Settle
  PROVE  IInv'
<1>1. CASE ~exec.fresh
  BY <1>1, RefusedAppendIsSafe DEF Settle
<1>2. CASE exec.fresh
  <2>1. exec' = Top /\ reader' = [reader EXCEPT !.fresh = FALSE] /\ exec.pc = "working"
    BY <1>2 DEF Settle, ExecutorAppends
  <2>2. rec.admitted /\ rec \in RecordShape
    BY <1>2, <2>1 DEF IInv, Knows, RecordHolds
  <2>3. rec' = Fold(rec, Event("node"))
        \/ \E x \in SUBSET Targets : rec' = Fold(rec, Retired(x))
    BY <1>2, ReachIsDeclared DEF Settle, ExecutorAppends, IInv, ExecutorShape
  <2>4. RecordHolds(rec') /\ rec'.open = rec.open /\ rec'.latest = rec.latest
    <3>1. CASE rec' = Fold(rec, Event("node"))
      BY <2>2, <3>1, FoldedOthers DEF IInv
    <3>2. ASSUME NEW x \in SUBSET Targets, rec' = Fold(rec, Retired(x))
          PROVE  RecordHolds(rec') /\ rec'.open = rec.open /\ rec'.latest = rec.latest
      <4>1. RecordHolds(rec')
        BY <2>2, <3>2, RetirementKeepsRecord DEF IInv
      <4>2. rec' = [rec EXCEPT !.retired = rec.retired \cup x, !.unresolved = rec.unresolved \/ x = {}]
        BY <2>2, <3>2, FoldedOthers
      <4>3. QED
        BY <2>2, <4>1, <4>2 DEF RecordShape
    <3>3. QED
      BY <2>3, <3>1, <3>2
  <2>5. exec' \in ExecutorShape /\ ~exec'.fresh /\ exec'.restored = exec.restored
    BY <2>1, Resting DEF IInv
  <2>6. RestoredPassed'
    BY <2>4, <2>5 DEF IInv, RestoredPassed
  <2>7. QED
    BY <2>1, <2>4, <2>5, <2>6, TakenAppendIsSafe
<1>3. QED
  BY <1>1, <1>2

(* The read of resume keeps the invariant.                                  *)
LEMMA ResumePreflightKeeps ==
  ASSUME IInv, ResumePreflight
  PROVE  IInv'
<1>1. /\ exec.pc = "idle" /\ rec.paused /\ exec' = At("resume") /\ UNCHANGED <<rec, reader>>
      /\ exec \in ExecutorShape
  BY DEF ResumePreflight, IInv
<1>2. exec' \in ExecutorShape /\ exec'.pc = "resume" /\ exec'.restored = exec.restored
  BY <1>1, AtIsShaped DEF Places
<1>3. Knows'
  BY <1>1, <1>2 DEF Knows
<1>4. QED
  BY <1>1, <1>2, <1>3, KnowingIsSafe

(* The read of interruptRunPreflight keeps the invariant.                   *)
LEMMA LoadKeeps ==
  ASSUME IInv, Load
  PROVE  IInv'
<1>1. UNCHANGED <<rec, exec>> /\ ReaderKnows'
  BY DEF IInv, Load, ReaderKnows
<1>2. QED
  BY <1>1 DEF IInv, RestoredPassed, Knows, AllChecked, Unavailable

(* The append of interruptRunPreflight keeps the invariant: the owner of the*)
(* check, dead or not, can append no more.                                  *)
LEMMA InterruptKeeps ==
  ASSUME IInv, Interrupt
  PROVE  IInv'
<1>0. ReaderKnows'
  BY DEF Interrupt, ReaderKnows
<1>1. CASE ~reader.fresh
  BY <1>0, <1>1 DEF Interrupt, IInv, RestoredPassed, Knows, AllChecked, Unavailable
<1>2. CASE reader.fresh
  <2> DEFINE c == rec.open
  <2>1. /\ rec' = Fold(rec, Finish(c, "interrupted", {})) /\ exec' = [exec EXCEPT !.fresh = FALSE]
        /\ c # NoCheck
    BY <1>2 DEF Interrupt, IInv, ReaderKnows
  <2>2. c \in Checks /\ ~rec.paused /\ ~rec.failed /\ rec \in RecordShape
    BY <2>1, EventsOfARecord DEF IInv, RecordHolds
  <2>3. Accepts(rec, Finish(c, "interrupted", {}))
    BY <2>2 DEF Accepts, Finish
  <2>4. "interrupted" \in Outcomes /\ {} \in SUBSET Targets
    BY DEF Outcomes
  <2>5. /\ RecordHolds(rec')
        /\ rec'.open = NoCheck /\ rec'.latest = [rec.latest EXCEPT ![c] = "interrupted"]
        /\ rec.latest \in [Checks -> Outcomes \cup {"none"}]
    <3> HIDE DEF c
    <3>1. RecordHolds(rec)
      BY DEF IInv
    <3>2. RecordHolds(rec')
      BY <2>1, <2>2, <2>3, <2>4, <3>1, FinishKeepsRecord
    <3> DEFINE f == Fold(rec, Finish(c, "interrupted", {}))
    <3>3. f.open = NoCheck /\ f.latest = [rec.latest EXCEPT ![c] = "interrupted"]
      BY <2>2, <2>3, <2>4, FinishCloses
    <3>4. QED
      BY <2>1, <2>2, <3>2, <3>3, EventsOfARecord
  <2>6. exec' \in ExecutorShape /\ ~exec'.fresh /\ exec'.restored = exec.restored
    BY <2>1 DEF IInv, ExecutorShape
  <2>7. RestoredPassed'
    <3>1. ASSUME NEW d \in exec.restored
          PROVE  ~IsLive(d) /\ rec'.latest[d] \in {"admitted", "unsupported"} /\ d # NoCheck
      <4>1. d # c /\ d \in Checks
        BY <3>1 DEF IInv, RestoredPassed, ExecutorShape
      <4>2. QED
        BY <2>5, <3>1, <4>1, NoCheckIsLive DEF IInv, RestoredPassed
    <3>2. QED
      BY <2>5, <2>6, <3>1 DEF RestoredPassed, IsLive
  <2>8. QED
    BY <1>0, <2>5, <2>6, <2>7 DEF IInv
<1>3. QED
  BY <1>1, <1>2

(* The invariant holds at first.                                            *)
LEMMA InitKeeps ==
  ASSUME Init
  PROVE  IInv
<1>1. EmptyRecord \in RecordShape
  BY DEF EmptyRecord, RecordShape
<1>2. Ready(EmptyRecord) \in BOOLEAN
  BY DEF Ready
<1> DEFINE e == EmptyRecord
           b == Ready(e)
<1>3. /\ rec = [e EXCEPT !.admitted = b] /\ e \in RecordShape /\ b \in BOOLEAN
      /\ e.valid /\ e.open = NoCheck /\ ~e.paused /\ e.spent = {} /\ e.retired = {}
  BY <1>1, <1>2 DEF Init, EmptyRecord
<1> HIDE DEF e, b
<1>4. /\ rec \in RecordShape /\ rec.valid /\ rec.open = NoCheck /\ ~rec.paused
      /\ rec.spent = {} /\ rec.retired = {} /\ rec.admitted = b
      /\ rec.latest = e.latest /\ rec.answered = e.answered /\ rec.excluded = e.excluded
  BY <1>3 DEF RecordShape
<1>5. Ready(rec) <=> b
  BY <1>4 DEF b, Ready, Covered, Eligible, Checked, Answered
<1>6. RecordHolds(rec)
  BY <1>4, <1>5 DEF RecordHolds
<1>7. exec \in ExecutorShape /\ ~exec.fresh /\ exec.restored = {}
  BY NoCheckIsLive DEF Init, NoExecutor, ExecutorShape, Places
<1>8. QED
  BY <1>6, <1>7 DEF Init, IInv, RestoredPassed, ReaderKnows

(* Every step keeps the invariant.                                          *)
LEMMA StepKeeps ==
  ASSUME IInv, [Next]_vars
  PROVE  IInv'
<1>1. CASE UNCHANGED vars
  BY <1>1 DEF vars, IInv, ReaderKnows, RestoredPassed, Knows, AllChecked, Unavailable
<1>2. CASE Next
  BY <1>2, CreateKeeps, RunKeeps, ReadKeeps, GiveUpKeeps, StartCheckKeeps, FinishCheckKeeps,
     FailRunKeeps, PrepareKeeps, DispatchKeeps, SettleKeeps, ResumePreflightKeeps,
     AppendResumeKeeps, CrashKeeps, LoadKeeps, InterruptKeeps DEF Next
<1>3. QED
  BY <1>1, <1>2

(* The invariant always holds.                                              *)
THEOREM PreflightInvariant == Spec => []IInv
BY InitKeeps, StepKeeps, PTL DEF Spec

(* No event that loadRunPreflight refuses as out of place is ever recorded.  *)
THEOREM StreamAlwaysFolds == Spec => []PreflightFolds
<1>1. IInv => PreflightFolds
  BY DEF IInv, RecordHolds, PreflightFolds
<1>2. QED
  BY <1>1, PreflightInvariant, PTL

(* Work always starts on a route of targets that passed all their checks.   *)
THEOREM WorkAlwaysChecked == Spec => []WorkIsChecked
<1>1. IInv => WorkIsChecked
  BY DEF IInv, Knows, RecordHolds, AllChecked, WorkIsChecked, Reads
<1>2. QED
  BY <1>1, PreflightInvariant, PTL

(* A run that is not admitted, with no lane dead and no static check due, has*)
(* a live check due: the lane that is not ready has a target that can be asked.*)
LEMMA SomethingIsDue ==
  ASSUME IInv, ~Ended, DeadLanes = {}, AllDue = {}, ~rec.admitted
  PROVE  LiveDue # {}
<1>1. rec.retired = {} /\ ~Ready(rec)
  BY DEF IInv, RecordHolds, Ended
<1>2. Covered(rec) /\ \A l \in LaneIds : AllChecked(l, {t \in TargetsOf(l) : ~Unavailable(l, t)})
  BY NothingDue
<1>3. PICK l \in LaneIds :
        \A t \in TargetsOf(l) : ~(Eligible(rec, l, t) /\ (Lanes[l].live => Answered(rec, l, t)))
  BY <1>1, <1>2 DEF Ready
<1>4. PICK t \in TargetsOf(l) : ~(t \in rec.excluded \/ Blocked(rec, l, t))
  BY DEF DeadLanes, AllDead
<1>5. ~Unavailable(l, t)
  BY <1>1, <1>4 DEF Unavailable
<1>6. Checked(rec, l, t) /\ Eligible(rec, l, t)
  BY <1>2, <1>4, <1>5 DEF AllChecked, Eligible
<1>7. Lanes[l].live /\ ~Answered(rec, l, t)
  BY <1>3, <1>6
<1>8. ASSUME NEW u \in TargetsOf(l), Answered(rec, l, u)
      PROVE  Unavailable(l, u) \/ ~Checked(rec, l, u)
  BY <1>3, <1>8 DEF Eligible, Unavailable
<1> DEFINE c == LiveCheck(l, t)
<1>9. c \in Checks /\ IsLive(c) /\ c.lane = l /\ c.target = t
  BY DEF Checks, LiveCheck, IsLive
<1>10. c \in LiveDue
  BY <1>5, <1>6, <1>7, <1>8, <1>9 DEF LiveDue
<1>11. QED
  BY <1>10

(* An executor never finds the run without a permitted check and not        *)
(* admitted.                                                                *)
THEOREM ExecutorNeverStuck == Spec => []NeverStuck
<1>1. IInv => NeverStuck
  BY SomethingIsDue DEF NeverStuck
<1>2. QED
  BY <1>1, PreflightInvariant, PTL
================================================================================
