------------------------------- MODULE Adaptation --------------------------------
(*****************************************************************************)
(* How a team tunes itself: the scrum master's boundary closes a sprint,     *)
(* appends its record to sprints.jsonl, derives signals from the records     *)
(* and from live.jsonl, moves the knobs of adaptation.json and opens the     *)
(* next sprint with them.  The product owner judges stories meanwhile, and   *)
(* the process may stop between any two files.                               *)
(*                                                                           *)
(* Ceremonies models the same boundary story by story beside the team; here  *)
(* closing and planning are one step each, and the interest is in what the   *)
(* files say afterwards.  The log is a set of events stamped with the sprint *)
(* in whose window they fall (0: between two sprints).                       *)
(*****************************************************************************)
EXTENDS Integers, Sequences, FiniteSets, FiniteSetsExt

CONSTANTS
  Stories,
  Points,                       \* story -> its story points
  Criteria,                     \* the stories that carry acceptance_criteria
  Hours,                        \* the times from activation to closing
  SprintHours,                  \* how long a sprint lasts
  Delivery,                     \* how many delivery agents the team starts
  DefaultVelocity, MinVelocity, MaxVelocity,
  DefaultRetries, MinRetries, MaxRetries,
  DefaultDuration, MinDuration, MaxDuration,
  Missing,                      \* no adaptation.json, or an unreadable one
  MaxRejects,                   \* bound: rejections of one story
  MaxSprints,                   \* bound: sprints opened in a behaviour
  MaxReopens,                   \* bound: the customer's rejections
  MaxFaults                     \* bound: stops and failed writes together

ASSUME AdaptationAssumption ==
  /\ IsFiniteSet(Stories)
  /\ Points \in [Stories -> Nat]
  /\ Hours \subseteq Nat \ {0} /\ SprintHours \in Nat \ {0}
  /\ Delivery \in Nat
  /\ MinVelocity \in Nat /\ MaxVelocity \in Nat /\ MinRetries \in Nat \ {0}
  /\ MaxRetries \in Nat /\ MinDuration \in Nat /\ MaxDuration \in Nat
  /\ DefaultVelocity \in MinVelocity .. MaxVelocity
  /\ DefaultRetries \in MinRetries .. MaxRetries
  /\ DefaultDuration \in MinDuration .. MaxDuration
  /\ MaxRejects \in Nat /\ MaxSprints \in Nat /\ MaxReopens \in Nat /\ MaxFaults \in Nat

Knobs == [velocity : Nat, retries : Nat, duration : Nat, version : Nat]

ASSUME MissingAssumption == Missing \notin Knobs

VARIABLES
  state,     \* story -> its column
  attempts,  \* story -> Story.attempts
  assigned,  \* story -> Story.sprint_number
  hours,     \* story -> closed_at - activated_at, 0 while one is missing
  closedIn,  \* story -> the sprint in whose window its last transition to done,
             \* which goes to the board's audit file, falls
  live,      \* the events of live.jsonl about a story's verdicts
  number,    \* current_sprint.txt
  files,     \* sprints/<n>.json
  history,   \* sprints.jsonl
  params,    \* workspace.adaptive_params
  disk,      \* adaptation.json; Missing when absent or unreadable
  phase,     \* how far the boundary's thread is
  unsaved,   \* the last write of adaptation.json failed
  stops, failures, reopens

bounds == <<stops, failures, reopens>>
storyVars == <<state, attempts, hours, closedIn, live>>
sprintVars == <<number, files, history, assigned>>
knobVars == <<params, disk, unsaved>>
vars == <<storyVars, sprintVars, knobVars, phase, bounds>>

Columns == {"ready", "pending", "done", "blocked"}
Phases == {"idle", "append", "adapt", "open", "mark"}

(* SprintRecord and Sprint, without their times and token counts. *)
Bands == {"none", "No Delivery", "Needs Improvement", "Good", "Excellent", "Verify Data"}
SprintFiles == [open : BOOLEAN, backlog : SUBSET Stories, done : SUBSET Stories,
                band : Bands]
Records == [num : 1 .. MaxSprints, done : Nat, created : Nat, reason : {"scheduled"}]
NoFile == [open |-> FALSE, backlog |-> {}, done |-> {}, band |-> "none"]
Events == [action : {"story_ac_retry", "transition"}, story : Stories,
           sprint : 0 .. MaxSprints, nth : Nat]

Defaults == [velocity |-> DefaultVelocity, retries |-> DefaultRetries,
             duration |-> DefaultDuration, version |-> 1]

-----------------------------------------------------------------------------
(* Signals *)

Ceiling(a, b) == IF a >= b THEN a ELSE b
Floor(a, b) == IF a <= b THEN a ELSE b

(* completion_ratio of a record, as a fraction. *)
Top(r) == IF r.created = 0 THEN 0 ELSE r.done
Bottom(r) == IF r.created = 0 THEN 1 ELSE r.created

(* The last `lookback' records. *)
Lookback == 3
Recent(h) == {k \in DOMAIN h : k > Len(h) - Lookback}

(* avg_completion >= p/100, and <= p/100: the ratios of at most three records *)
(* are brought to one denominator.                                           *)
Ratios(h) ==
  LET n == Len(h)
      top(k) == IF k \in DOMAIN h THEN Top(h[k]) ELSE 0
      bottom(k) == IF k \in DOMAIN h THEN Bottom(h[k]) ELSE 1
  IN [top |-> top(n) * (bottom(n - 1) * bottom(n - 2))
              + top(n - 1) * (bottom(n) * bottom(n - 2))
              + top(n - 2) * (bottom(n) * bottom(n - 1)),
      bottom |-> bottom(n) * (bottom(n - 1) * bottom(n - 2))]

SprintsSeen(h) == Floor(Len(h), Lookback)

OverDelivered(h) == 100 * Ratios(h).top >= 110 * (SprintsSeen(h) * Ratios(h).bottom)
UnderDelivered(h) == 100 * Ratios(h).top <= 50 * (SprintsSeen(h) * Ratios(h).bottom)

(* signals_from_history reads both counts from live.jsonl. *)
RetriesStarted(h) ==
  Cardinality({e \in live : e.action = "story_ac_retry"
                            /\ \E k \in Recent(h) : h[k].num = e.sprint})

Retried(n) == {e.story : e \in {v \in live : v.action = "story_ac_retry" /\ v.sprint = n}}

AcceptedInLog(n) ==
  {e.story : e \in {v \in live : v.action = "transition" /\ v.sprint = n}}

RetriesSucceeded(h) ==
  Cardinality(UNION {{<<k, s>> : s \in Retried(h[k].num) \cap AcceptedInLog(h[k].num)}
                     : k \in Recent(h)})

(* Mutant of CapStops: a sprint that ran its time counts as capped, too. *)
AnyStops(h) == Cardinality({k \in Recent(h) : h[k].reason \in {"story_cap", "scheduled"}})

CapStops(h) == Cardinality({k \in Recent(h) : h[k].reason = "story_cap"})
ShortStops(h) ==
  Cardinality({k \in Recent(h) : h[k].reason = "scheduled"
                                 /\ 2 * Top(h[k]) < Bottom(h[k])})

-----------------------------------------------------------------------------
(* Proposals *)

Up(v) == (12 * v + 5) \div 10      \* int(round(v * 1.20))
Down(v) == (8 * v + 5) \div 10     \* int(round(v * 0.80))

(* Mutant of Clamp: only the upper bound. *)
ClampHigh(v, low, high) == Floor(high, v)

Clamp(v, low, high) == Ceiling(low, Floor(high, v))

NewVelocity(h) ==
  CASE OverDelivered(h) -> Clamp(Up(params.velocity), MinVelocity, MaxVelocity)
    [] ~OverDelivered(h) /\ UnderDelivered(h) /\ SprintsSeen(h) >= 2
         -> Clamp(Down(params.velocity), MinVelocity, MaxVelocity)
    [] OTHER -> params.velocity

NewRetries(h) ==
  LET started == RetriesStarted(h)
      succeeded == RetriesSucceeded(h)
  IN CASE started >= 3 /\ 100 * succeeded > 60 * started
            -> Clamp(params.retries + 1, MinRetries, MaxRetries)
       [] started >= 3 /\ 100 * succeeded < 20 * started
            -> Clamp(params.retries - 1, MinRetries, MaxRetries)
       [] OTHER -> params.retries

NewDuration(h) ==
  CASE CapStops(h) >= 2 -> Clamp(Up(params.duration), MinDuration, MaxDuration)
    [] CapStops(h) < 2 /\ ShortStops(h) >= 2
         -> Clamp(Down(params.duration), MinDuration, MaxDuration)
    [] OTHER -> params.duration

(* What propose_adaptations and apply_proposals make of the knobs. *)
Adapted(h) ==
  LET tuned == [params EXCEPT !.velocity = NewVelocity(h), !.retries = NewRetries(h),
                              !.duration = NewDuration(h)]
  IN IF h = <<>> \/ tuned = params THEN params
     ELSE [tuned EXCEPT !.version = params.version + 1]

-----------------------------------------------------------------------------
(* Sprint Process Efficiency *)

Sum(f, S) == MapThenSumSet(LAMBDA s : f[s], S)

FinalCommit(scored) == Sum(Points, scored)

(* Mutant of Measurable: closed_at alone is trusted. *)
MeasurableOnce(s, commit) == commit > 0 /\ hours[s] > 0

Measurable(s, commit) == state[s] = "done" /\ commit > 0 /\ hours[s] > 0

(* A sprint of duration d has SPE = d * Efficiency.top / Efficiency.bottom:   *)
(* the sum of points^2 / hours over the measurable stories, over commit^2.    *)
Efficiency(committed) ==
  LET scored == {s \in committed : state[s] # "blocked"}
      commit == FinalCommit(scored)
      counted == {s \in scored : Measurable(s, commit)}
      common == FoldSet(LAMBDA s, n : n * hours[s], 1, counted)
      term == [s \in counted |-> Points[s] * Points[s] * (common \div hours[s])]
  IN [top |-> Sum(term, counted),
      bottom |-> IF commit = 0 THEN 1 ELSE commit * commit * common]

(* spe_band: the interpretation of SPE = SprintHours * top / bottom. *)
Band(e) ==
  LET spe == 100 * SprintHours * e.top
  IN CASE spe <= 0 -> "No Delivery"
       [] 0 < spe /\ spe < 25 * e.bottom -> "Needs Improvement"
       [] 25 * e.bottom <= spe /\ spe < 50 * e.bottom -> "Good"
       [] 50 * e.bottom <= spe /\ spe <= 80 * e.bottom -> "Excellent"
       [] OTHER -> "Verify Data"

-----------------------------------------------------------------------------
(* The process starts, with nothing on disk, and starts again. *)

(* The heuristic of the command line replaces a velocity that still has its   *)
(* default value, and saves the knobs; otherwise nothing is written.  It is   *)
(* not clamped: a large team starts above MaxVelocity.                        *)
Heuristic == Ceiling(DefaultVelocity, 2 * Delivery)
Seeded(p) == p.velocity = DefaultVelocity /\ Heuristic > DefaultVelocity

Boot(stored) ==
  LET loaded == IF stored = Missing THEN Defaults ELSE stored
      seeded == [loaded EXCEPT !.velocity = Heuristic]
  IN IF Seeded(loaded) THEN [params |-> seeded, disk |-> seeded]
     ELSE [params |-> loaded, disk |-> stored]

Init ==
  /\ state = [s \in Stories |-> "ready"]
  /\ attempts = [s \in Stories |-> 0]
  /\ assigned = [s \in Stories |-> 0]
  /\ hours = [s \in Stories |-> 0]
  /\ closedIn = [s \in Stories |-> 0]
  /\ live = {}
  /\ number = 0
  /\ files = [n \in 1 .. MaxSprints |-> NoFile]
  /\ history = <<>>
  /\ params = Boot(Missing).params /\ disk = Boot(Missing).disk /\ unsaved = FALSE
  /\ phase = "idle"
  /\ stops = 0 /\ failures = 0 /\ reopens = 0

(* The process stops anywhere and is started again for the same team: what is *)
(* in files stays, the boundary's thread does not.                            *)
Restart ==
  /\ stops + failures < MaxFaults
  /\ stops' = stops + 1
  /\ phase' = "idle"
  /\ params' = Boot(disk).params /\ disk' = Boot(disk).disk /\ unsaved' = FALSE
  /\ UNCHANGED <<storyVars, assigned, number, files, history, failures, reopens>>

-----------------------------------------------------------------------------
(* The stories *)

Window == IF number > 0 /\ files[number].open THEN number ELSE 0

(* An agent claims a ready story of the current sprint and hands it in. *)
HandIn(s) ==
  /\ state[s] = "ready"
  /\ number \in {0, assigned[s]}
  /\ state' = [state EXCEPT ![s] = "pending"]
  /\ UNCHANGED <<attempts, hours, closedIn, live, sprintVars, knobVars, phase, bounds>>

(* closed_at is stamped the first time only. *)
Accept(s) ==
  /\ state[s] = "pending"
  /\ state' = [state EXCEPT ![s] = "done"]
  /\ \E h \in Hours : hours' = [hours EXCEPT ![s] = IF @ = 0 THEN h ELSE @]
  /\ closedIn' = [closedIn EXCEPT ![s] = Window]
  /\ UNCHANGED <<attempts, live, sprintVars, knobVars, phase, bounds>>

(* An AC verdict: back to ready while max_ac_retries allows, else blocked. *)
RejectCriteria(s) ==
  /\ s \in Criteria
  /\ state[s] = "pending" /\ attempts[s] < MaxRejects
  /\ attempts' = [attempts EXCEPT ![s] = @ + 1]
  /\ IF attempts[s] + 1 <= params.retries
       THEN /\ state' = [state EXCEPT ![s] = "ready"]
            /\ live' = live \cup {[action |-> "story_ac_retry", story |-> s,
                                   sprint |-> Window, nth |-> attempts[s]]}
       ELSE /\ state' = [state EXCEPT ![s] = "blocked"]
            /\ UNCHANGED live
  /\ UNCHANGED <<hours, closedIn, sprintVars, knobVars, phase, bounds>>

(* The customer rejects a done story; its closed_at stays. *)
CustomerRejects(s) ==
  /\ state[s] = "done" /\ reopens < MaxReopens
  /\ state' = [state EXCEPT ![s] = "blocked"]
  /\ reopens' = reopens + 1
  /\ UNCHANGED <<attempts, hours, closedIn, live, sprintVars, knobVars, phase, stops, failures>>

(* Replan sends a blocked story back. *)
Unblock(s) ==
  /\ state[s] = "blocked"
  /\ state' = [state EXCEPT ![s] = "ready"]
  /\ UNCHANGED <<attempts, hours, closedIn, live, sprintVars, knobVars, phase, bounds>>

-----------------------------------------------------------------------------
(* The boundary *)

(* The sprint file of a closed sprint; unfinished stories lose its number. *)
Closed(f) ==
  [f EXCEPT !.open = FALSE,
            !.done = {s \in f.backlog : state[s] = "done"},
            !.band = Band(Efficiency(f.backlog))]

RolledOver(backlog) ==
  [s \in Stories |-> IF s \in backlog /\ state[s] # "done" THEN 0 ELSE assigned[s]]

(* Mutant of CloseSprint: a sprint that is closed already is closed again. *)
CloseSprintAgain ==
  /\ phase = "idle" /\ number < MaxSprints
  /\ IF number > 0
       THEN /\ files' = [files EXCEPT ![number] = Closed(@)]
            /\ assigned' = RolledOver(files[number].backlog)
            /\ phase' = "append"
       ELSE phase' = "adapt" /\ UNCHANGED <<files, assigned>>
  /\ UNCHANGED <<storyVars, number, history, knobVars, bounds>>

CloseSprint ==
  /\ phase = "idle" /\ number < MaxSprints
  /\ IF number > 0 /\ files[number].open
       THEN /\ files' = [files EXCEPT ![number] = Closed(@)]
            /\ assigned' = RolledOver(files[number].backlog)
            /\ phase' = "append"
       ELSE phase' = "adapt" /\ UNCHANGED <<files, assigned>>
  /\ UNCHANGED <<storyVars, number, history, knobVars, bounds>>

(* append_record; an exception is swallowed and the record is missing. *)
AppendRecord ==
  /\ phase = "append"
  /\ phase' = "adapt"
  /\ \/ history' = Append(history,
            [num |-> number, done |-> Cardinality(files[number].done),
             created |-> Cardinality(files[number].backlog), reason |-> "scheduled"])
        /\ UNCHANGED failures
     \/ /\ stops + failures < MaxFaults /\ failures' = failures + 1
        /\ UNCHANGED history
  /\ UNCHANGED <<storyVars, number, files, assigned, knobVars, stops, reopens>>

(* run_adaptation_pass.  The knobs change in memory before they are written;  *)
(* a write that fails leaves them changed, the file old or unreadable, and    *)
(* the boundary goes on with what is in memory.                               *)
Adapt ==
  /\ phase = "adapt"
  /\ phase' = "open"
  /\ params' = Adapted(history)
  /\ \/ /\ params' = params
        /\ UNCHANGED <<disk, unsaved, failures>>
     \/ /\ params' # params
        /\ disk' = params' /\ unsaved' = FALSE
        /\ UNCHANGED failures
     \/ /\ params' # params /\ stops + failures < MaxFaults
        /\ disk' \in {disk, Missing} /\ unsaved' = TRUE
        /\ failures' = failures + 1
  /\ UNCHANGED <<storyVars, sprintVars, stops, reopens>>

(* open_sprint picks up to velocity_target ready stories without a sprint, by *)
(* a priority that is a choice here, numbers them and writes the sprint file; *)
(* the marker is written last.                                                *)
OpenSprint ==
  /\ phase = "open"
  /\ LET candidates == {s \in Stories : state[s] = "ready" /\ assigned[s] = 0} IN
     \E picked \in SUBSET candidates :
       /\ Cardinality(picked) = Floor(Cardinality(candidates), params.velocity)
       /\ assigned' = [s \in Stories |-> IF s \in picked THEN number + 1 ELSE assigned[s]]
       /\ files' = [files EXCEPT ![number + 1] =
                      [open |-> TRUE, backlog |-> picked, done |-> {}, band |-> "none"]]
  /\ phase' = "mark"
  /\ UNCHANGED <<storyVars, number, history, knobVars, bounds>>

MarkSprint ==
  /\ phase = "mark"
  /\ number' = number + 1
  /\ phase' = "idle"
  /\ UNCHANGED <<storyVars, assigned, files, history, knobVars, bounds>>

Boundary ==
  CloseSprint \/ AppendRecord \/ Adapt \/ OpenSprint \/ MarkSprint

Judgement(s) ==
  HandIn(s) \/ Accept(s) \/ RejectCriteria(s) \/ CustomerRejects(s) \/ Unblock(s)

Next == Boundary \/ Restart \/ \E s \in Stories : Judgement(s)

Spec == Init /\ [][Next]_vars

-----------------------------------------------------------------------------
(* Properties *)

(* The variables have their types. *)
TypeOK ==
  /\ state \in [Stories -> Columns]
  /\ attempts \in [Stories -> Nat]
  /\ assigned \in [Stories -> 0 .. MaxSprints]
  /\ hours \in [Stories -> Hours \cup {0}]
  /\ closedIn \in [Stories -> 0 .. MaxSprints]
  /\ live \subseteq Events
  /\ number \in 0 .. MaxSprints
  /\ files \in [1 .. MaxSprints -> SprintFiles]
  /\ history \in Seq(Records)
  /\ params \in Knobs
  /\ disk \in Knobs \cup {Missing}
  /\ unsaved \in BOOLEAN
  /\ phase \in Phases
  /\ stops \in 0 .. MaxFaults /\ failures \in 0 .. MaxFaults /\ reopens \in 0 .. MaxReopens

InBounds(p) ==
  /\ p.velocity \in MinVelocity .. MaxVelocity \/ p.velocity = Heuristic
  /\ p.retries \in MinRetries .. MaxRetries
  /\ p.duration \in MinDuration .. MaxDuration

(* Whatever the sprints signal, however often the team is stopped and seeded  *)
(* again, and whatever a failed write leaves behind, the knobs in memory and  *)
(* on disk stay inside _BOUNDS (team_adaptation.py:48), with one exception:   *)
(* the velocity may be the one the command line seeds, which it does not      *)
(* clamp (cli.py:361-365).  No other velocity outside the bounds is reached.  *)
KnobsInBounds == InBounds(params) /\ (disk # Missing => InBounds(disk))

(* sprints.jsonl and the sprint files tell the same story: at most one record *)
(* per sprint, in order, of a sprint that is closed, with the counts of its   *)
(* file, through stops between the two writes (sprints.py:205-231).           *)
HistoryMatchesFiles ==
  /\ \A j, k \in DOMAIN history : j < k => history[j].num < history[k].num
  /\ \A k \in DOMAIN history :
       LET r == history[k]
       IN /\ ~files[r.num].open
          /\ r.done = Cardinality(files[r.num].done)
          /\ r.created = Cardinality(files[r.num].backlog)

(* A restart finds the tuning of before: while the boundary is not writing    *)
(* and the last write succeeded, memory and adaptation.json agree, or nothing *)
(* was ever tuned (team_adaptation.py:262-268, cli.py:357-367).               *)
TuningIsSaved ==
  unsaved \/ disk = params \/ (disk = Missing /\ params = Defaults)

(* A sprint reads "No Delivery" exactly when no story with points reached     *)
(* done in it: a story the customer reopened does not count with its old      *)
(* closed_at (spe.py:66-76 beside sprints.py:175).                            *)
EfficiencyFollowsDelivery ==
  \A n \in 1 .. MaxSprints :
    files[n].band # "none" =>
      (files[n].band = "No Delivery" <=> \A s \in files[n].done : Points[s] = 0)

(* While the process runs no knob is ever raised, whatever the sprints say:   *)
(* stories_done is a part of committed_backlog, no sprint stops at a story    *)
(* cap, and no accepted retry is found in live.jsonl                          *)
(* (team_adaptation.py:162, 186, 206).                                        *)
KnobsOnlyFall ==
  [][stops' = stops =>
       /\ params'.velocity <= params.velocity
       /\ params'.retries <= params.retries
       /\ params'.duration <= params.duration]_vars

(* Once closed, a sprint's file never changes again, through any stop of the  *)
(* boundary that follows (sprints.py:158).                                    *)
ClosedSprintsAreFinal ==
  [][\A n \in 1 .. MaxSprints :
       files[n].band # "none" => files'[n] = files[n]]_vars

(* "max_ac_retries - up if AC retries mostly succeed, down if they mostly     *)
(* exhaust" (team_adaptation.py:16): the cap is not lowered when every story  *)
(* that was retried in the sprints looked at was accepted in the same sprint. *)
GoodRetriesAreKept ==
  [][params'.retries < params.retries =>
       \E k \in Recent(history) :
         \E s \in Retried(history[k].num) : closedIn[s] # history[k].num]_vars
=============================================================================
