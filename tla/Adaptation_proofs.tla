---------------------------- MODULE Adaptation_proofs ----------------------------
(*****************************************************************************)
(* Proofs about a team that tunes itself, for any stories, bounds of the     *)
(* knobs and number of sprints, stops and failed writes.                     *)
(*****************************************************************************)
EXTENDS Adaptation, FiniteFolds, FiniteSetTheorems, TLAPS

-----------------------------------------------------------------------------
(* Numbers *)

(* What clamp returns lies between its bounds, whatever it is given. *)
LEMMA ClampInRange ==
  ASSUME NEW v \in Int, NEW low \in Nat, NEW high \in Nat, low <= high
  PROVE  Clamp(v, low, high) \in low .. high
BY DEF Clamp, Ceiling, Floor

(* Clamping something smaller than a value above the lower bound gives        *)
(* nothing larger.                                                           *)
LEMMA ClampFalls ==
  ASSUME NEW v \in Int, NEW low \in Nat, NEW high \in Nat,
         NEW old \in Nat, low <= old, v <= old
  PROVE  Clamp(v, low, high) <= old
BY DEF Clamp, Ceiling, Floor

LEMMA DownFalls ==
  ASSUME NEW v \in Nat
  PROVE  Down(v) \in Nat /\ Down(v) <= v
BY DEF Down

LEMMA UpType ==
  ASSUME NEW v \in Nat
  PROVE  Up(v) \in Nat
BY DEF Up

LEMMA ProductMonotone ==
  ASSUME NEW a \in Nat, NEW b \in Nat, NEW c \in Nat, a <= b
  PROVE  a * c <= b * c
<1>1. PICK d \in Nat : b = a + d
  <2>1. b - a \in Nat
    OBVIOUS
  <2> QED
    BY <2>1
<1>2. b * c = a * c + d * c
  BY <1>1
<1>3. d * c \in Nat /\ a * c \in Nat
  OBVIOUS
<1> QED
  BY <1>2, <1>3

-----------------------------------------------------------------------------
(* Types *)

(* What the assumptions say of the numbers alone. *)
LEMMA Constants ==
  /\ MinVelocity \in Nat /\ MaxVelocity \in Nat /\ DefaultVelocity \in Nat
  /\ MinVelocity <= DefaultVelocity /\ DefaultVelocity <= MaxVelocity
  /\ MinRetries \in Nat /\ MaxRetries \in Nat /\ DefaultRetries \in Nat
  /\ MinRetries <= DefaultRetries /\ DefaultRetries <= MaxRetries
  /\ MinDuration \in Nat /\ MaxDuration \in Nat /\ DefaultDuration \in Nat
  /\ MinDuration <= DefaultDuration /\ DefaultDuration <= MaxDuration
  /\ MinVelocity <= MaxVelocity /\ MinRetries <= MaxRetries /\ MinDuration <= MaxDuration
  /\ Delivery \in Nat
  /\ MaxSprints \in Nat /\ MaxFaults \in Nat /\ MaxReopens \in Nat
BY AdaptationAssumption

(* Knobs inside their bounds, but for the seeded velocity, are knobs. *)
Velocities == MinVelocity .. MaxVelocity \cup {Heuristic}

LEMMA VelocitiesFacts ==
  /\ Heuristic \in Nat /\ MinVelocity <= Heuristic
  /\ Velocities \subseteq Nat
  /\ \A v \in Velocities : MinVelocity <= v
BY Constants DEF Velocities, Heuristic, Ceiling

BoundedKnobs ==
  [velocity : Velocities, retries : MinRetries .. MaxRetries,
   duration : MinDuration .. MaxDuration, version : Nat]

LEMMA BoundedKnobsFacts ==
  /\ BoundedKnobs \subseteq Knobs
  /\ Defaults \in BoundedKnobs
  /\ \A p \in BoundedKnobs : InBounds(p)
BY Constants, VelocitiesFacts DEF BoundedKnobs, Velocities, Knobs, Defaults, InBounds

(* A start, the first or a later one, leaves the knobs as they were or gives  *)
(* them the heuristic's velocity.                                             *)
LEMMA BootInBounds ==
  ASSUME NEW stored \in BoundedKnobs \cup {Missing}
  PROVE  /\ Boot(stored).params \in BoundedKnobs
         /\ Boot(stored).disk \in BoundedKnobs \cup {Missing}
         /\ \/ Boot(stored).disk = Boot(stored).params
            \/ Boot(stored).disk = Missing /\ Boot(stored).params = Defaults
<1> DEFINE loaded == IF stored = Missing THEN Defaults ELSE stored
           seeded == [loaded EXCEPT !.velocity = Heuristic]
<1>1. loaded \in BoundedKnobs
  BY BoundedKnobsFacts
<1>2. Heuristic \in Velocities
  BY DEF Velocities
<1>3. seeded \in BoundedKnobs
  <2> HIDE DEF loaded
  <2> QED
    BY <1>1, <1>2 DEF BoundedKnobs
<1>4. CASE Seeded(loaded)
  <2>1. Boot(stored) = [params |-> seeded, disk |-> seeded]
    BY <1>4 DEF Boot
  <2> HIDE DEF loaded, seeded
  <2> QED
    BY <1>3, <2>1
<1>5. CASE ~Seeded(loaded)
  <2>1. Boot(stored) = [params |-> loaded, disk |-> stored]
    BY <1>5 DEF Boot
  <2>2. stored = loaded \/ (stored = Missing /\ loaded = Defaults)
    OBVIOUS
  <2> HIDE DEF loaded, seeded
  <2> QED
    BY <1>1, <2>1, <2>2
<1> QED
  BY <1>4, <1>5

(* Whatever the sprints say, the proposed knobs are in bounds. *)
LEMMA AdaptedInBounds ==
  ASSUME params \in BoundedKnobs, NEW h
  PROVE  Adapted(h) \in BoundedKnobs
<1>1. /\ params.velocity \in Velocities /\ params.velocity \in Nat
      /\ params.retries \in MinRetries .. MaxRetries
      /\ params.duration \in MinDuration .. MaxDuration
      /\ params.version \in Nat
  BY VelocitiesFacts DEF BoundedKnobs
<1>2. NewVelocity(h) \in Velocities
  <2>1. Up(params.velocity) \in Int /\ Down(params.velocity) \in Int
    BY <1>1, Constants, UpType, DownFalls
  <2>2. /\ Clamp(Up(params.velocity), MinVelocity, MaxVelocity) \in MinVelocity .. MaxVelocity
        /\ Clamp(Down(params.velocity), MinVelocity, MaxVelocity) \in MinVelocity .. MaxVelocity
    BY <2>1, Constants, ClampInRange
  <2>3. MinVelocity .. MaxVelocity \subseteq Velocities
    BY DEF Velocities
  <2> QED
    BY <1>1, <2>2, <2>3, Zenon DEF NewVelocity
<1>3. NewRetries(h) \in MinRetries .. MaxRetries
  <2>1. params.retries + 1 \in Int /\ params.retries - 1 \in Int
    BY <1>1, Constants
  <2>2. /\ Clamp(params.retries + 1, MinRetries, MaxRetries) \in MinRetries .. MaxRetries
        /\ Clamp(params.retries - 1, MinRetries, MaxRetries) \in MinRetries .. MaxRetries
    BY <2>1, Constants, ClampInRange
  <2> QED
    BY <1>1, <2>2, Zenon DEF NewRetries
<1>4. NewDuration(h) \in MinDuration .. MaxDuration
  <2>1. Up(params.duration) \in Int /\ Down(params.duration) \in Int
    BY <1>1, Constants, UpType, DownFalls
  <2>2. /\ Clamp(Up(params.duration), MinDuration, MaxDuration) \in MinDuration .. MaxDuration
        /\ Clamp(Down(params.duration), MinDuration, MaxDuration) \in MinDuration .. MaxDuration
    BY <2>1, Constants, ClampInRange
  <2> QED
    BY <1>1, <2>2, Zenon DEF NewDuration
<1> DEFINE tuned == [params EXCEPT !.velocity = NewVelocity(h), !.retries = NewRetries(h),
                                   !.duration = NewDuration(h)]
<1>5. tuned \in BoundedKnobs
  BY <1>2, <1>3, <1>4 DEF BoundedKnobs
<1>6. [tuned EXCEPT !.version = params.version + 1] \in BoundedKnobs
  <2> HIDE DEF tuned
  <2> QED
    BY <1>1, <1>5 DEF BoundedKnobs
<1>7. \/ Adapted(h) = params
      \/ Adapted(h) = [tuned EXCEPT !.version = params.version + 1]
  BY Zenon DEF Adapted
<1> HIDE DEF tuned
<1> QED
  BY <1>6, <1>7

LEMMA CountOfStories ==
  ASSUME NEW S \in SUBSET Stories
  PROVE  IsFiniteSet(S) /\ Cardinality(S) \in Nat
<1>1. IsFiniteSet(Stories)
  BY AdaptationAssumption
<1>2. IsFiniteSet(S)
  BY <1>1, FS_Subset
<1> QED
  BY <1>2, FS_CardinalityType

LEMMA BandType ==
  ASSUME NEW e
  PROVE  Band(e) \in Bands
BY Zenon DEF Band, Bands

LEMMA ClosedType ==
  ASSUME NEW f \in SprintFiles
  PROVE  /\ Closed(f) \in SprintFiles
         /\ ~Closed(f).open /\ Closed(f).done \subseteq Closed(f).backlog
<1>1. Band(Efficiency(f.backlog)) \in Bands
  BY BandType
<1>2. {s \in f.backlog : state[s] = "done"} \subseteq f.backlog
  OBVIOUS
<1> QED
  BY <1>1, <1>2 DEF Closed, SprintFiles

-----------------------------------------------------------------------------
(* The types are inductive with two facts more: the knobs are in bounds, and  *)
(* a boundary under way has a next sprint to open and, before its record is   *)
(* appended, a sprint it has closed.                                         *)
TypeInv ==
  /\ TypeOK
  /\ params \in BoundedKnobs
  /\ disk \in BoundedKnobs \cup {Missing}
  /\ phase # "idle" => number < MaxSprints
  /\ phase = "append" => number > 0

LEMMA TypeInvInit == Init => TypeInv
<1> SUFFICES ASSUME Init PROVE TypeInv
  OBVIOUS
<1>1. /\ params \in BoundedKnobs
      /\ disk \in BoundedKnobs \cup {Missing}
  BY BootInBounds DEF Init
<1>2. params \in Knobs /\ disk \in Knobs \cup {Missing}
  BY <1>1, BoundedKnobsFacts
<1>3. /\ state \in [Stories -> Columns]
      /\ attempts \in [Stories -> Nat]
      /\ hours \in [Stories -> Hours \cup {0}]
  BY DEF Init, Columns
<1>4. /\ assigned \in [Stories -> 0 .. MaxSprints]
      /\ closedIn \in [Stories -> 0 .. MaxSprints]
      /\ number \in 0 .. MaxSprints
  BY Constants DEF Init
<1>5. files \in [1 .. MaxSprints -> SprintFiles]
  <2>1. NoFile \in SprintFiles
    BY DEF NoFile, SprintFiles, Bands
  <2> QED
    BY <2>1 DEF Init
<1>6. live \subseteq Events
  BY DEF Init
<1>7. history \in Seq(Records)
  <2>1. history = <<>>
    BY DEF Init
  <2> QED
    BY <2>1
<1>8. unsaved \in BOOLEAN
  BY Zenon DEF Init
<1>9. /\ phase = "idle" /\ phase \in Phases
      /\ stops \in 0 .. MaxFaults /\ failures \in 0 .. MaxFaults
      /\ reopens \in 0 .. MaxReopens
  BY Constants DEF Init, Phases
<1> QED
  BY <1>1, <1>2, <1>3, <1>4, <1>5, <1>6, <1>7, <1>8, <1>9 DEF TypeInv, TypeOK

LEMMA RestartTyped ==
  ASSUME TypeInv, Restart
  PROVE  TypeInv'
<1>1. /\ params' \in BoundedKnobs
      /\ disk' \in BoundedKnobs \cup {Missing}
  BY BootInBounds DEF TypeInv, Restart
<1>2. params' \in Knobs /\ disk' \in Knobs \cup {Missing}
  BY <1>1, BoundedKnobsFacts
<1>3. stops' \in 0 .. MaxFaults
  BY Constants DEF TypeInv, TypeOK, Restart
<1> QED
  BY <1>1, <1>2, <1>3 DEF TypeInv, TypeOK, Restart, storyVars, Phases

LEMMA JudgementTyped ==
  ASSUME TypeInv, NEW s \in Stories, Judgement(s)
  PROVE  TypeInv'
<1>1. CASE HandIn(s)
  BY <1>1 DEF HandIn, TypeInv, TypeOK, Columns, sprintVars, knobVars, bounds
<1>w. Window \in 0 .. MaxSprints
  BY Constants DEF Window, TypeInv, TypeOK
<1>2. CASE Accept(s)
  BY <1>2, <1>w DEF Accept, TypeInv, TypeOK, Columns, sprintVars, knobVars, bounds
<1>3. CASE RejectCriteria(s)
  <2>1. attempts[s] \in Nat
    BY DEF TypeInv, TypeOK
  <2>2. [action |-> "story_ac_retry", story |-> s, sprint |-> Window, nth |-> attempts[s]]
          \in Events
    BY <1>w, <2>1 DEF Events
  <2>3. live' \subseteq Events
    BY <1>3, <2>2 DEF RejectCriteria, TypeInv, TypeOK
  <2>4. attempts' \in [Stories -> Nat]
    BY <1>3, <2>1 DEF RejectCriteria, TypeInv, TypeOK
  <2>5. state' \in [Stories -> Columns]
    <3>1. PICK column \in Columns : state' = [state EXCEPT ![s] = column]
      BY <1>3, Zenon DEF RejectCriteria, Columns
    <3> QED
      BY <3>1 DEF TypeInv, TypeOK
  <2> QED
    BY <1>3, <2>3, <2>4, <2>5
    DEF RejectCriteria, TypeInv, TypeOK, sprintVars, knobVars, bounds
<1>4. CASE CustomerRejects(s)
  BY <1>4, Constants
  DEF CustomerRejects, TypeInv, TypeOK, Columns, sprintVars, knobVars
<1>5. CASE Unblock(s)
  BY <1>5 DEF Unblock, TypeInv, TypeOK, Columns, sprintVars, knobVars, bounds
<1> QED
  BY <1>1, <1>2, <1>3, <1>4, <1>5 DEF Judgement

LEMMA BoundaryTyped ==
  ASSUME TypeInv, Boundary
  PROVE  TypeInv'
<1>1. CASE CloseSprint
  <2>1. CASE number > 0 /\ files[number].open
    <3>1. number \in 1 .. MaxSprints
      BY <2>1, Constants DEF TypeInv, TypeOK
    <3>2. files[number] \in SprintFiles
      BY <3>1 DEF TypeInv, TypeOK
    <3>3. Closed(files[number]) \in SprintFiles
      BY <3>2, ClosedType
    <3>4. files' \in [1 .. MaxSprints -> SprintFiles]
      BY <1>1, <2>1, <3>1, <3>3 DEF CloseSprint, TypeInv, TypeOK
    <3>5. assigned' \in [Stories -> 0 .. MaxSprints]
      BY <1>1, <2>1, Constants DEF CloseSprint, RolledOver, TypeInv, TypeOK
    <3> QED
      BY <1>1, <2>1, <3>1, <3>4, <3>5
      DEF CloseSprint, TypeInv, TypeOK, storyVars, knobVars, bounds, Phases
  <2>2. CASE ~(number > 0 /\ files[number].open)
    BY <1>1, <2>2
    DEF CloseSprint, TypeInv, TypeOK, storyVars, knobVars, bounds, Phases
  <2> QED
    BY <2>1, <2>2
<1>2. CASE AppendRecord
  <2>1. number \in 1 .. MaxSprints
    BY <1>2, Constants DEF AppendRecord, TypeInv, TypeOK
  <2>2. /\ files[number].done \in SUBSET Stories
        /\ files[number].backlog \in SUBSET Stories
    BY <2>1 DEF TypeInv, TypeOK, SprintFiles
  <2>3. [num |-> number, done |-> Cardinality(files[number].done),
         created |-> Cardinality(files[number].backlog), reason |-> "scheduled"] \in Records
    BY <2>1, <2>2, CountOfStories DEF Records
  <2>4. history' \in Seq(Records)
    <3>1. history \in Seq(Records)
      BY DEF TypeInv, TypeOK
    <3>2. PICK r \in Records : history' = history \/ history' = Append(history, r)
      BY <1>2, <2>3, Zenon DEF AppendRecord
    <3> QED
      BY <3>1, <3>2
  <2>5. failures' \in 0 .. MaxFaults
    BY <1>2, Constants DEF AppendRecord, TypeInv, TypeOK
  <2> QED
    BY <1>2, <2>4, <2>5 DEF AppendRecord, TypeInv, TypeOK, storyVars, knobVars, Phases
<1>3. CASE Adapt
  <2>1. params' \in BoundedKnobs
    BY <1>3, AdaptedInBounds DEF Adapt, TypeInv
  <2>2. disk' \in BoundedKnobs \cup {Missing}
    BY <1>3, <2>1 DEF Adapt, TypeInv
  <2>3. params' \in Knobs /\ disk' \in Knobs \cup {Missing}
    BY <2>1, <2>2, BoundedKnobsFacts
  <2>4. failures' \in 0 .. MaxFaults
    BY <1>3, Constants DEF Adapt, TypeInv, TypeOK
  <2>5. unsaved' \in BOOLEAN
    BY <1>3, Zenon DEF Adapt, TypeInv, TypeOK
  <2> QED
    BY <1>3, <2>1, <2>2, <2>3, <2>4, <2>5
    DEF Adapt, TypeInv, TypeOK, storyVars, sprintVars, Phases
<1>4. CASE OpenSprint
  <2>1. number + 1 \in 1 .. MaxSprints
    BY <1>4, Constants DEF OpenSprint, TypeInv, TypeOK
  <2>2. PICK picked \in SUBSET Stories :
          /\ assigned' = [s \in Stories |-> IF s \in picked THEN number + 1 ELSE assigned[s]]
          /\ files' = [files EXCEPT ![number + 1] =
                         [open |-> TRUE, backlog |-> picked, done |-> {}, band |-> "none"]]
    BY <1>4 DEF OpenSprint
  <2>3. [open |-> TRUE, backlog |-> picked, done |-> {}, band |-> "none"] \in SprintFiles
    BY DEF SprintFiles, Bands
  <2>4. files' \in [1 .. MaxSprints -> SprintFiles]
    BY <2>1, <2>2, <2>3 DEF TypeInv, TypeOK
  <2>5. assigned' \in [Stories -> 0 .. MaxSprints]
    BY <2>1, <2>2 DEF TypeInv, TypeOK
  <2> QED
    BY <1>4, <2>4, <2>5
    DEF OpenSprint, TypeInv, TypeOK, storyVars, knobVars, bounds, Phases
<1>5. CASE MarkSprint
  BY <1>5, Constants
  DEF MarkSprint, TypeInv, TypeOK, storyVars, knobVars, bounds, Phases
<1> QED
  BY <1>1, <1>2, <1>3, <1>4, <1>5 DEF Boundary

LEMMA TypeInvStep ==
  ASSUME TypeInv, [Next]_vars
  PROVE  TypeInv'
<1>1. CASE Next
  BY <1>1, BoundaryTyped, RestartTyped, JudgementTyped DEF Next
<1>2. CASE UNCHANGED vars
  BY <1>2
  DEF vars, storyVars, sprintVars, knobVars, bounds, TypeInv, TypeOK
<1> QED
  BY <1>1, <1>2

(* The types and bounds hold in every reachable state. *)
THEOREM TypeInvariance == Spec => []TypeInv
BY TypeInvInit, TypeInvStep, PTL DEF Spec

(* The variables of the tuning team keep their types. *)
THEOREM TypeCorrect == Spec => []TypeOK
<1>1. TypeInv => TypeOK
  BY DEF TypeInv
<1> QED
  BY <1>1, TypeInvariance, PTL

(* KnobsInBounds for any limits that contain the defaults, a team of any size,*)
(* any sprints and any number of stops and failed writes.               *)
THEOREM KnobsStayInBounds == Spec => []KnobsInBounds
<1>1. TypeInv => KnobsInBounds
  BY BoundedKnobsFacts DEF TypeInv, KnobsInBounds
<1> QED
  BY <1>1, TypeInvariance, PTL

(* TuningIsSaved: only a failed write lets memory and the file disagree. *)
THEOREM TuningSurvivesRestart == Spec => []TuningIsSaved
<1>1. Init => TuningIsSaved
  BY BootInBounds DEF Init, TuningIsSaved
<1>2. ASSUME TypeInv, TuningIsSaved, [Next]_vars
      PROVE  TuningIsSaved'
  <2>1. CASE Restart
    BY <1>2, <2>1, BootInBounds DEF Restart, TuningIsSaved, TypeInv
  <2>2. CASE Adapt
    BY <1>2, <2>2 DEF Adapt, TuningIsSaved
  <2>3. CASE UNCHANGED knobVars
    BY <1>2, <2>3 DEF knobVars, TuningIsSaved
  <2>4. Restart \/ Adapt \/ UNCHANGED knobVars
    BY <1>2
    DEF Next, vars, Boundary, CloseSprint, AppendRecord, OpenSprint, MarkSprint,
        Judgement, HandIn, Accept, RejectCriteria, CustomerRejects, Unblock
  <2> QED
    BY <2>1, <2>2, <2>3, <2>4
<1> QED
  BY <1>1, <1>2, TypeInvariance, PTL DEF Spec

-----------------------------------------------------------------------------
(* The sprint files and the history.  A record is never of a later sprint     *)
(* than the current one, and of the current one only when its file is closed  *)
(* and its record is not still to be appended; a file with a band is closed   *)
(* and not of a later sprint, which a boundary cut short would write again.   *)
FileInv ==
  /\ \A n \in 1 .. MaxSprints :
       /\ files[n].done \subseteq files[n].backlog
       /\ files[n].band # "none" => n <= number /\ ~files[n].open
  /\ phase = "append" => ~files[number].open
  /\ \A k \in DOMAIN history :
       /\ history[k].num <= number
       /\ history[k].num = number => ~files[number].open /\ phase # "append"
  /\ HistoryMatchesFiles

LEMMA HistoryTyped ==
  ASSUME TypeOK, NEW k \in DOMAIN history
  PROVE  history[k] \in Records /\ history[k].num \in 1 .. MaxSprints
<1>1. history[k] \in Records
  BY DEF TypeOK
<1> QED
  BY <1>1 DEF Records

LEMMA FileInvInit == Init => FileInv
BY DEF Init, NoFile, FileInv, HistoryMatchesFiles

(* A step that leaves the sprints alone, and is not about to append a record  *)
(* unless one was, keeps what is said of them.                               *)
LEMMA FileInvUnmoved ==
  ASSUME FileInv, UNCHANGED <<number, files, history>>, phase' \in {phase, "idle", "open"}
  PROVE  FileInv'
BY DEF FileInv, HistoryMatchesFiles

LEMMA CloseSprintFiles ==
  ASSUME TypeInv, FileInv, CloseSprint
  PROVE  /\ FileInv'
         /\ \A n \in 1 .. MaxSprints : files[n].band # "none" => files'[n] = files[n]
<1>1. CASE number > 0 /\ files[number].open
  <2>1. number \in 1 .. MaxSprints
    BY <1>1, Constants DEF TypeInv, TypeOK
  <2>2. files[number] \in SprintFiles /\ files \in [1 .. MaxSprints -> SprintFiles]
    BY <2>1 DEF TypeInv, TypeOK
  <2>3. /\ files' = [files EXCEPT ![number] = Closed(files[number])]
        /\ phase' = "append" /\ number' = number /\ history' = history
    BY <1>1 DEF CloseSprint
  <2>4. \A n \in 1 .. MaxSprints : n # number => files'[n] = files[n]
    BY <2>2, <2>3
  <2>5. files'[number] = Closed(files[number])
    BY <2>1, <2>2, <2>3
  <2>6. /\ ~files'[number].open
        /\ files'[number].done \subseteq files'[number].backlog
    BY <2>2, <2>5, ClosedType
  <2>7. \A k \in DOMAIN history : history[k].num # number
    BY <1>1 DEF FileInv
  <2>8. \A n \in 1 .. MaxSprints : files[n].band # "none" => n # number
    BY <1>1 DEF FileInv
  <2>9. HistoryMatchesFiles'
    BY <2>3, <2>4, <2>7, HistoryTyped DEF FileInv, HistoryMatchesFiles, TypeInv
  <2>10. FileInv'
    BY <2>1, <2>3, <2>4, <2>6, <2>7, <2>9 DEF FileInv
  <2> QED
    BY <2>4, <2>8, <2>10
<1>2. CASE ~(number > 0 /\ files[number].open)
  <2>1. UNCHANGED <<number, files, history>> /\ phase' = "adapt"
    BY <1>2 DEF CloseSprint
  <2> QED
    BY <2>1 DEF FileInv, HistoryMatchesFiles
<1> QED
  BY <1>1, <1>2

LEMMA AppendRecordFiles ==
  ASSUME TypeInv, FileInv, AppendRecord
  PROVE  FileInv'
<1>1. number \in 1 .. MaxSprints
  BY Constants DEF AppendRecord, TypeInv, TypeOK
<1> DEFINE r == [num |-> number, done |-> Cardinality(files[number].done),
                 created |-> Cardinality(files[number].backlog), reason |-> "scheduled"]
<1>2. /\ phase = "append" /\ phase' = "adapt"
      /\ UNCHANGED <<number, files>>
      /\ history' = history \/ history' = Append(history, r)
  BY DEF AppendRecord
<1>3. CASE history' = history
  BY <1>2, <1>3 DEF FileInv, HistoryMatchesFiles
<1>4. CASE history' = Append(history, r)
  <2>1. history \in Seq(Records)
    BY DEF TypeInv, TypeOK
  <2>2. DOMAIN history = 1 .. Len(history) /\ Len(history) \in Nat
    BY <2>1
  <2>3. /\ DOMAIN history' = 1 .. Len(history) + 1
        /\ \A k \in 1 .. Len(history) : history'[k] = history[k]
        /\ history'[Len(history) + 1] = r
    <3> HIDE DEF r
    <3> QED
      BY <1>4, <2>1
  <2>4. \A k \in 1 .. Len(history) : history[k].num \in Nat /\ history[k].num < number
    BY <1>1, <1>2, <2>2, HistoryTyped DEF FileInv, TypeInv
  <2>5. ~files[number].open
    BY <1>2 DEF FileInv
  <2>6. /\ r.num = number /\ r.done = Cardinality(files[number].done)
        /\ r.created = Cardinality(files[number].backlog)
    OBVIOUS
  <2> HIDE DEF r
  <2>7. HistoryMatchesFiles'
    <3>1. ASSUME NEW j \in DOMAIN history', NEW k \in DOMAIN history', j < k
          PROVE  history'[j].num < history'[k].num
      <4>1. j \in 1 .. Len(history)
        BY <2>2, <2>3, <3>1
      <4>2. CASE k \in 1 .. Len(history)
        BY <2>2, <2>3, <3>1, <4>1, <4>2 DEF FileInv, HistoryMatchesFiles
      <4>3. CASE k = Len(history) + 1
        BY <2>3, <2>4, <2>6, <4>1, <4>3
      <4> QED
        BY <2>2, <2>3, <4>2, <4>3
    <3>2. ASSUME NEW k \in DOMAIN history'
          PROVE  /\ ~files[history'[k].num].open
                 /\ history'[k].done = Cardinality(files[history'[k].num].done)
                 /\ history'[k].created = Cardinality(files[history'[k].num].backlog)
      <4>1. CASE k \in 1 .. Len(history)
        BY <2>2, <2>3, <4>1 DEF FileInv, HistoryMatchesFiles
      <4>2. CASE k = Len(history) + 1
        BY <2>3, <2>5, <2>6, <4>2
      <4> QED
        BY <2>2, <2>3, <4>1, <4>2
    <3> QED
      BY <1>2, <3>1, <3>2 DEF HistoryMatchesFiles
  <2>8. \A k \in DOMAIN history' :
          /\ history'[k].num <= number
          /\ history'[k].num = number => ~files[number].open
    BY <1>1, <2>2, <2>3, <2>4, <2>5, <2>6
  <2> QED
    BY <1>2, <2>5, <2>7, <2>8 DEF FileInv
<1> QED
  BY <1>2, <1>3, <1>4

LEMMA OpenSprintFiles ==
  ASSUME TypeInv, FileInv, OpenSprint
  PROVE  /\ FileInv'
         /\ \A n \in 1 .. MaxSprints : files[n].band # "none" => files'[n] = files[n]
<1>1. number \in Nat /\ number + 1 \in 1 .. MaxSprints
  BY Constants DEF OpenSprint, TypeInv, TypeOK
<1>2. PICK picked \in SUBSET Stories :
        files' = [files EXCEPT ![number + 1] =
                    [open |-> TRUE, backlog |-> picked, done |-> {}, band |-> "none"]]
  BY DEF OpenSprint
<1>3. phase' = "mark" /\ number' = number /\ history' = history
  BY DEF OpenSprint
<1>4. \A n \in 1 .. MaxSprints : n # number + 1 => files'[n] = files[n]
  BY <1>2 DEF TypeInv, TypeOK
<1>5. files'[number + 1] = [open |-> TRUE, backlog |-> picked, done |-> {}, band |-> "none"]
  BY <1>1, <1>2 DEF TypeInv, TypeOK
<1>6. /\ files'[number + 1].band = "none"
      /\ files'[number + 1].done \subseteq files'[number + 1].backlog
  BY <1>5
<1>7. \A n \in 1 .. MaxSprints : files[n].band # "none" => n # number + 1
  BY <1>1 DEF FileInv
<1>8. \A k \in DOMAIN history :
        history[k].num \in 1 .. MaxSprints /\ history[k].num # number + 1
  BY <1>1, HistoryTyped DEF FileInv, TypeInv
<1>9. HistoryMatchesFiles'
  BY <1>3, <1>4, <1>8 DEF FileInv, HistoryMatchesFiles
<1>10. \A k \in DOMAIN history : history[k].num = number => files'[number] = files[number]
  BY <1>1, <1>4, <1>8
<1>11. \A n \in 1 .. MaxSprints :
         /\ files'[n].done \subseteq files'[n].backlog
         /\ files'[n].band # "none" => n <= number /\ ~files'[n].open
  BY <1>4, <1>6 DEF FileInv
<1>12. \A k \in DOMAIN history :
         history[k].num <= number /\ (history[k].num = number => ~files'[number].open)
  BY <1>10 DEF FileInv
<1>13. FileInv'
  BY <1>3, <1>9, <1>11, <1>12 DEF FileInv
<1> QED
  BY <1>4, <1>7, <1>13

LEMMA MarkSprintFiles ==
  ASSUME TypeInv, FileInv, MarkSprint
  PROVE  FileInv'
<1>1. number \in Nat
  BY Constants DEF TypeInv, TypeOK
<1>2. number' = number + 1 /\ phase' = "idle" /\ UNCHANGED <<files, history>>
  BY DEF MarkSprint
<1>3. \A k \in DOMAIN history :
        history[k].num \in Nat /\ history[k].num <= number + 1 /\ history[k].num # number + 1
  BY <1>1, HistoryTyped DEF FileInv, TypeInv
<1>4. \A n \in 1 .. MaxSprints : n <= number => n <= number + 1
  BY <1>1
<1>5. HistoryMatchesFiles'
  BY <1>2 DEF FileInv, HistoryMatchesFiles
<1> QED
  BY <1>2, <1>3, <1>4, <1>5 DEF FileInv

(* Every step keeps the invariant and every closed sprint's file. *)
LEMMA FileInvStep ==
  ASSUME TypeInv, FileInv, [Next]_vars
  PROVE  /\ FileInv'
         /\ \A n \in 1 .. MaxSprints : files[n].band # "none" => files'[n] = files[n]
<1>1. CASE CloseSprint
  BY <1>1, CloseSprintFiles
<1>2. CASE AppendRecord
  BY <1>2, AppendRecordFiles DEF AppendRecord
<1>3. CASE OpenSprint
  BY <1>3, OpenSprintFiles
<1>4. CASE MarkSprint
  BY <1>4, MarkSprintFiles DEF MarkSprint
<1>5. CASE UNCHANGED <<number, files, history>> /\ phase' \in {phase, "idle", "open"}
  BY <1>5, FileInvUnmoved
<1>6. \/ CloseSprint \/ AppendRecord \/ OpenSprint \/ MarkSprint
      \/ (UNCHANGED <<number, files, history>> /\ phase' \in {phase, "idle", "open"})
  BY Zenon
  DEF Next, vars, storyVars, sprintVars, Boundary, Adapt, Restart,
      Judgement, HandIn, Accept, RejectCriteria, CustomerRejects, Unblock
<1> QED
  BY <1>1, <1>2, <1>3, <1>4, <1>5, <1>6

(* HistoryMatchesFiles for any number of sprints, through stops between any   *)
(* two writes of a boundary and records that could not be appended.           *)
THEOREM HistoryIsTrue == Spec => []HistoryMatchesFiles
<1>1. TypeInv /\ FileInv /\ [Next]_vars => FileInv'
  BY FileInvStep
<1>2. FileInv => HistoryMatchesFiles
  BY DEF FileInv
<1> QED
  BY <1>1, <1>2, FileInvInit, TypeInvariance, PTL DEF Spec

(* ClosedSprintsAreFinal: no boundary, whole or cut short, writes the file of *)
(* a closed sprint again.                                                    *)
THEOREM ClosedStayClosed == Spec => ClosedSprintsAreFinal
<1>1. TypeInv /\ FileInv /\ [Next]_vars => FileInv'
  BY FileInvStep
<1>2. TypeInv /\ FileInv /\ [Next]_vars =>
        [\A n \in 1 .. MaxSprints : files[n].band # "none" => files'[n] = files[n]]_vars
  BY FileInvStep
<1> QED
  BY <1>1, <1>2, FileInvInit, TypeInvariance, PTL DEF Spec, ClosedSprintsAreFinal

-----------------------------------------------------------------------------
(* Why no knob ever rises *)

(* No record delivers more than its backlog, every record ends as scheduled,  *)
(* and the log holds retries only.                                           *)
NothingRises ==
  /\ \A k \in DOMAIN history : history[k].done <= history[k].created
  /\ IsFiniteSet(live)
  /\ \A e \in live : e.action = "story_ac_retry"

LEMMA NothingRisesInit == Init => NothingRises
<1> SUFFICES ASSUME Init PROVE NothingRises
  OBVIOUS
<1>1. history = <<>> /\ live = {}
  BY DEF Init
<1> QED
  BY <1>1, FS_EmptySet DEF NothingRises

LEMMA NothingRisesStep ==
  ASSUME TypeInv, FileInv, NothingRises, [Next]_vars
  PROVE  NothingRises'
<1>1. CASE AppendRecord
  <2>1. number \in 1 .. MaxSprints
    BY <1>1, Constants DEF AppendRecord, TypeInv, TypeOK
  <2>2. /\ files[number].done \in SUBSET Stories
        /\ files[number].backlog \in SUBSET Stories
        /\ files[number].done \subseteq files[number].backlog
    BY <2>1 DEF TypeInv, TypeOK, SprintFiles, FileInv
  <2>3. Cardinality(files[number].done) <= Cardinality(files[number].backlog)
    BY <2>2, CountOfStories, FS_Subset
  <2> DEFINE r == [num |-> number, done |-> Cardinality(files[number].done),
                   created |-> Cardinality(files[number].backlog), reason |-> "scheduled"]
  <2>4. r.done <= r.created
    BY <2>3
  <2>5. history' = history \/ history' = Append(history, r)
    BY <1>1 DEF AppendRecord
  <2> HIDE DEF r
  <2>6. history \in Seq(Records)
    BY DEF TypeInv, TypeOK
  <2>7. \A k \in DOMAIN history' : history'[k].done <= history'[k].created
    BY <2>4, <2>5, <2>6 DEF NothingRises
  <2>8. live' = live
    BY <1>1 DEF AppendRecord, storyVars
  <2> QED
    BY <2>7, <2>8 DEF NothingRises
<1>2. CASE \E s \in Stories : RejectCriteria(s)
  <2>1. PICK s \in Stories : RejectCriteria(s)
    BY <1>2
  <2> DEFINE e == [action |-> "story_ac_retry", story |-> s, sprint |-> Window,
                   nth |-> attempts[s]]
  <2>2. live' = live \/ live' = live \cup {e}
    BY <2>1 DEF RejectCriteria
  <2>3. e.action = "story_ac_retry"
    OBVIOUS
  <2> HIDE DEF e
  <2>4. IsFiniteSet(live')
    BY <2>2, FS_AddElement DEF NothingRises
  <2>5. \A v \in live' : v.action = "story_ac_retry"
    BY <2>2, <2>3 DEF NothingRises
  <2>6. history' = history
    BY <2>1 DEF RejectCriteria, sprintVars
  <2> QED
    BY <2>4, <2>5, <2>6 DEF NothingRises
<1>3. CASE UNCHANGED <<history, live>>
  BY <1>3 DEF NothingRises
<1>4. \/ AppendRecord \/ \E s \in Stories : RejectCriteria(s)
      \/ UNCHANGED <<history, live>>
  BY Zenon
  DEF Next, vars, storyVars, sprintVars, Boundary, CloseSprint, Adapt, OpenSprint,
      MarkSprint, Restart, Judgement, HandIn, Accept, CustomerRejects, Unblock
<1> QED
  BY <1>1, <1>2, <1>3, <1>4

LEMMA ProductPositive ==
  ASSUME NEW a \in Nat, NEW b \in Nat, 1 <= a, 1 <= b
  PROVE  a * b \in Nat /\ 1 <= a * b
<1>1. 1 * b <= a * b
  BY ProductMonotone
<1> QED
  BY <1>1

LEMMA ProductOfNats ==
  ASSUME NEW a \in Nat, NEW b \in Nat
  PROVE  a * b \in Nat /\ 0 * b = 0
OBVIOUS

(* The sum of at most three ratios, each at most one, over their common       *)
(* denominator p.                                                            *)
LEMMA SumOfRatios ==
  ASSUME NEW t1 \in Nat, NEW t2 \in Nat, NEW t3 \in Nat,
         NEW b1 \in Nat, NEW b2 \in Nat, NEW b3 \in Nat,
         t1 <= b1, t2 <= b2, t3 <= b3
  PROVE  /\ t1 * (b2 * b3) <= b1 * (b2 * b3)
         /\ t2 * (b1 * b3) <= b1 * (b2 * b3)
         /\ t3 * (b1 * b2) <= b1 * (b2 * b3)
<1>1. b2 * b3 \in Nat /\ b1 * b3 \in Nat /\ b1 * b2 \in Nat
  OBVIOUS
<1>2. /\ t1 * (b2 * b3) <= b1 * (b2 * b3)
      /\ t2 * (b1 * b3) <= b2 * (b1 * b3)
      /\ t3 * (b1 * b2) <= b3 * (b1 * b2)
  BY <1>1, ProductMonotone
<1>3. b2 * (b1 * b3) = b1 * (b2 * b3) /\ b3 * (b1 * b2) = b1 * (b2 * b3)
  OBVIOUS
<1> QED
  BY <1>2, <1>3

(* Sprints never over-deliver: the average of their ratios is at most one. *)
LEMMA NeverOverDelivered ==
  ASSUME TypeInv, NothingRises, history # <<>>
  PROVE  ~OverDelivered(history)
<1> DEFINE n == Len(history)
           t(k) == IF k \in DOMAIN history THEN Top(history[k]) ELSE 0
           b(k) == IF k \in DOMAIN history THEN Bottom(history[k]) ELSE 1
           p == b(n) * (b(n - 1) * b(n - 2))
           x == t(n) * (b(n - 1) * b(n - 2))
           y == t(n - 1) * (b(n) * b(n - 2))
           z == t(n - 2) * (b(n) * b(n - 1))
<1>1. history \in Seq(Records) /\ n \in Nat /\ n >= 1 /\ DOMAIN history = 1 .. n
  BY DEF TypeInv, TypeOK
<1>2. \A k \in DOMAIN history :
        history[k].done \in Nat /\ history[k].created \in Nat
        /\ history[k].done <= history[k].created
  BY HistoryTyped DEF TypeInv, Records, NothingRises
<1>3. ASSUME NEW k \in Int
      PROVE  t(k) \in Nat /\ b(k) \in Nat /\ 1 <= b(k) /\ t(k) <= b(k)
  BY <1>2 DEF Top, Bottom
<1>4. (n < 2 => t(n - 1) = 0) /\ (n < 3 => t(n - 2) = 0)
  BY <1>1
<1>5. Ratios(history).top = x + y + z /\ Ratios(history).bottom = p
  BY DEF Ratios
<1> HIDE DEF t, b
<1>6. n \in Int /\ n - 1 \in Int /\ n - 2 \in Int
  BY <1>1
<1>7. x <= p /\ y <= p /\ z <= p
  BY <1>3, <1>6, SumOfRatios
<1>8. p \in Nat /\ 1 <= p
  <2>1. b(n - 1) * b(n - 2) \in Nat /\ 1 <= b(n - 1) * b(n - 2)
    BY <1>3, <1>6, ProductPositive
  <2> QED
    BY <1>3, <1>6, <2>1, ProductPositive
<1>9. /\ b(n - 1) * b(n - 2) \in Nat /\ b(n) * b(n - 2) \in Nat
      /\ b(n) * b(n - 1) \in Nat
  BY <1>3, <1>6, ProductOfNats
<1>10. /\ x \in Nat /\ y \in Nat /\ z \in Nat
       /\ n < 2 => y = 0
       /\ n < 3 => z = 0
  BY <1>3, <1>4, <1>6, <1>9, ProductOfNats
<1> HIDE DEF x, y, z, p
<1>11. x + y + z <= SprintsSeen(history) * p /\ SprintsSeen(history) \in {1, 2, 3}
  <2>1. CASE n = 1
    BY <1>7, <1>8, <1>10, <2>1 DEF SprintsSeen, Floor, Lookback
  <2>2. CASE n = 2
    BY <1>7, <1>8, <1>10, <2>2 DEF SprintsSeen, Floor, Lookback
  <2>3. CASE n >= 3
    <3>1. SprintsSeen(history) = 3
      BY <1>1, <2>3 DEF SprintsSeen, Floor, Lookback
    <3> QED
      BY <1>7, <1>8, <1>10, <3>1
  <2> QED
    BY <1>1, <2>1, <2>2, <2>3
<1>12. 100 * (x + y + z) < 110 * (SprintsSeen(history) * p)
  BY <1>8, <1>10, <1>11
<1> QED
  BY <1>5, <1>8, <1>10, <1>11, <1>12 DEF OverDelivered

(* No accepted retry is ever seen, so that the retry cap is not raised. *)
LEMMA RetriesFall ==
  ASSUME TypeInv, NothingRises
  PROVE  NewRetries(history) <= params.retries
<1>1. params.retries \in MinRetries .. MaxRetries
  BY DEF TypeInv, BoundedKnobs
<1>2. RetriesSucceeded(history) = 0
  <2>1. \A m : AcceptedInLog(m) = {}
    BY DEF AcceptedInLog, NothingRises
  <2>2. UNION {{<<k, s>> : s \in Retried(history[k].num) \cap AcceptedInLog(history[k].num)}
               : k \in Recent(history)} = {}
    BY <2>1
  <2> QED
    BY <2>2, FS_EmptySet DEF RetriesSucceeded
<1>3. RetriesStarted(history) \in Nat
  <2> DEFINE S == {e \in live : e.action = "story_ac_retry"
                                /\ \E k \in Recent(history) : history[k].num = e.sprint}
  <2>1. IsFiniteSet(live) /\ S \subseteq live
    BY DEF NothingRises
  <2>2. IsFiniteSet(S)
    BY <2>1, FS_Subset
  <2>3. Cardinality(S) \in Nat
    BY <2>2, FS_CardinalityType
  <2> QED
    BY <2>3 DEF RetriesStarted
<1>4. ~(RetriesStarted(history) >= 3
        /\ 100 * RetriesSucceeded(history) > 60 * RetriesStarted(history))
  BY <1>2, <1>3
<1>5. Clamp(params.retries - 1, MinRetries, MaxRetries) <= params.retries
  BY <1>1, Constants, ClampFalls
<1>6. \/ NewRetries(history) = params.retries
      \/ NewRetries(history) = Clamp(params.retries - 1, MinRetries, MaxRetries)
  BY <1>4, Zenon DEF NewRetries
<1> QED
  BY <1>1, <1>5, <1>6, Constants

(* No sprint ends at a story cap, so that the duration is not raised. *)
LEMMA DurationFalls ==
  ASSUME TypeInv
  PROVE  NewDuration(history) <= params.duration
<1>1. params.duration \in MinDuration .. MaxDuration /\ params.duration \in Nat
  BY Constants DEF TypeInv, BoundedKnobs
<1>2. CapStops(history) = 0
  <2>1. \A k \in DOMAIN history : history[k].reason = "scheduled"
    BY HistoryTyped DEF TypeInv, Records
  <2>2. {k \in Recent(history) : history[k].reason = "story_cap"} = {}
    BY <2>1 DEF Recent
  <2> QED
    BY <2>2, FS_EmptySet DEF CapStops
<1>3. ~(CapStops(history) >= 2)
  BY <1>2
<1>4. Clamp(Down(params.duration), MinDuration, MaxDuration) <= params.duration
  BY <1>1, Constants, DownFalls, ClampFalls
<1>5. \/ NewDuration(history) = params.duration
      \/ NewDuration(history) = Clamp(Down(params.duration), MinDuration, MaxDuration)
  BY <1>3, Zenon DEF NewDuration
<1> QED
  BY <1>1, <1>4, <1>5

LEMMA VelocityFalls ==
  ASSUME TypeInv, NothingRises, history # <<>>
  PROVE  NewVelocity(history) <= params.velocity
<1>1. MinVelocity <= params.velocity /\ params.velocity \in Nat
  BY VelocitiesFacts DEF TypeInv, BoundedKnobs
<1>2. Clamp(Down(params.velocity), MinVelocity, MaxVelocity) <= params.velocity
  BY <1>1, Constants, DownFalls, ClampFalls
<1>3. \/ NewVelocity(history) = params.velocity
      \/ NewVelocity(history) = Clamp(Down(params.velocity), MinVelocity, MaxVelocity)
  BY NeverOverDelivered, Zenon DEF NewVelocity
<1> QED
  BY <1>1, <1>2, <1>3

(* KnobsOnlyFall for any stories, points, limits and number of sprints: only  *)
(* a start of the process can raise a knob.                                  *)
THEOREM KnobsNeverRise == Spec => KnobsOnlyFall
<1>1. TypeInv /\ FileInv /\ [Next]_vars => FileInv'
  BY FileInvStep
<1>2. TypeInv /\ FileInv /\ NothingRises /\ [Next]_vars => NothingRises'
  BY NothingRisesStep
<1>3. ASSUME TypeInv, NothingRises, [Next]_vars, stops' = stops
      PROVE  /\ params'.velocity <= params.velocity
             /\ params'.retries <= params.retries
             /\ params'.duration <= params.duration
  <2>1. /\ params.velocity \in Nat /\ params.retries \in Nat
        /\ params.duration \in Nat /\ params \in BoundedKnobs /\ stops \in Nat
    <3>1. params \in BoundedKnobs /\ stops \in 0 .. MaxFaults
      BY <1>3 DEF TypeInv, TypeOK
    <3>2. params.velocity \in Velocities
      BY <3>1 DEF BoundedKnobs
    <3>3. /\ params.velocity \in Nat /\ params.retries \in MinRetries .. MaxRetries
          /\ params.duration \in MinDuration .. MaxDuration
      BY <3>1, <3>2, VelocitiesFacts DEF BoundedKnobs
    <3>4. params.retries \in Nat /\ params.duration \in Nat
      BY <3>3, Constants
    <3> QED
      BY <3>1, <3>3, <3>4, Constants
  <2>2. CASE Adapt
    <3> DEFINE tuned == [params EXCEPT !.velocity = NewVelocity(history),
                                       !.retries = NewRetries(history),
                                       !.duration = NewDuration(history)]
    <3>1. \/ params' = params
          \/ (history # <<>> /\ params' = [tuned EXCEPT !.version = params.version + 1])
      BY <2>2, Zenon DEF Adapt, Adapted
    <3>2. CASE params' = params
      BY <2>1, <3>2
    <3>3. CASE history # <<>> /\ params' = [tuned EXCEPT !.version = params.version + 1]
      <4>1. /\ params'.velocity = NewVelocity(history)
            /\ params'.retries = NewRetries(history)
            /\ params'.duration = NewDuration(history)
        BY <2>1, <3>3 DEF BoundedKnobs
      <4> QED
        BY <1>3, <3>3, <4>1, VelocityFalls, RetriesFall, DurationFalls
    <3> QED
      BY <3>1, <3>2, <3>3
  <2>3. CASE params' = params
    BY <2>1, <2>3
  <2>4. ~Restart
    BY <1>3, <2>1 DEF Restart
  <2>5. Adapt \/ params' = params
    BY <1>3, <2>4, Zenon
    DEF Next, vars, knobVars, Boundary, CloseSprint, AppendRecord, OpenSprint, MarkSprint,
        Judgement, HandIn, Accept, RejectCriteria, CustomerRejects, Unblock
  <2> QED
    BY <2>2, <2>3, <2>5
<1>4. TypeInv /\ NothingRises /\ [Next]_vars =>
        [stops' = stops =>
           /\ params'.velocity <= params.velocity
           /\ params'.retries <= params.retries
           /\ params'.duration <= params.duration]_vars
  BY <1>3
<1> QED
  BY <1>1, <1>2, <1>4, FileInvInit, NothingRisesInit, TypeInvariance, PTL
  DEF Spec, KnobsOnlyFall

-----------------------------------------------------------------------------
(* The efficiency of a sprint *)

LEMMA SumIsTotal ==
  ASSUME NEW f, NEW S
  PROVE  Sum(f, S) = Total(f, S)
BY DEF Sum, Total

(* Whoever accepts a story has been given time for it: a done story has both  *)
(* of its times, and activation lies before closing.                         *)
DoneTakesTime == \A s \in Stories : state[s] = "done" => hours[s] \in Hours

(* A factor of a product of positive numbers goes into it at least once. *)
LEMMA Quotient ==
  ASSUME NEW n \in Nat, NEW d \in Nat \ {0}, d <= n
  PROVE  n \div d \in Nat \ {0}
<1>a. n \div d \in Int /\ n % d \in 0 .. d - 1
  OBVIOUS
<1>b. n = d * (n \div d) + (n % d)
  OBVIOUS
<1>1. n = d * (n \div d) + (n % d) /\ n % d \in 0 .. d - 1 /\ n \div d \in Int
  BY <1>a, <1>b
<1> DEFINE q == n \div d  r == n % d
<1>2. n = d * q + r /\ r \in 0 .. d - 1 /\ q \in Int
  BY <1>1
<1> HIDE DEF q, r
<1>3. ASSUME q <= 0 PROVE FALSE
  <2>1. d * q <= 0
    BY <1>2, <1>3
  <2> QED
    BY <1>2, <2>1
<1>4. q \in Nat \ {0}
  BY <1>2, <1>3
<1> QED
  BY <1>4 DEF q

LEMMA ProductOfThree ==
  ASSUME NEW a \in Nat, NEW b \in Nat \ {0}
  PROVE  a * a * b \in Nat /\ (a * a * b = 0 <=> a = 0)
<1>1. a * a \in Nat /\ (a * a = 0 <=> a = 0)
  OBVIOUS
<1> DEFINE c == a * a
<1>2. c \in Nat /\ (c = 0 <=> a = 0)
  BY <1>1
<1> HIDE DEF c
<1>3. c * b \in Nat /\ (c * b = 0 <=> c = 0)
  BY <1>2
<1>4. a * a * b = c * b
  BY DEF c
<1> QED
  BY <1>2, <1>3, <1>4

(* What spe_band returns is "No Delivery" exactly when nothing was earned.    *)
LEMMA BandOfNothing ==
  ASSUME NEW e, e.top \in Nat, e.bottom \in Nat \ {0}
  PROVE  Band(e) = "No Delivery" <=> e.top = 0
<1> DEFINE spe == 100 * SprintHours * e.top
<1>1. SprintHours \in Nat \ {0}
  BY AdaptationAssumption
<1>2. spe \in Nat /\ (spe = 0 <=> e.top = 0)
  <2> DEFINE h == 100 * SprintHours
  <2>1. h \in Nat \ {0}
    BY <1>1
  <2>2. spe = h * e.top
    OBVIOUS
  <2> HIDE DEF h
  <2> QED
    BY <2>1, <2>2
<1>3. Band(e) = CASE spe <= 0 -> "No Delivery"
                  [] 0 < spe /\ spe < 25 * e.bottom -> "Needs Improvement"
                  [] 25 * e.bottom <= spe /\ spe < 50 * e.bottom -> "Good"
                  [] 50 * e.bottom <= spe /\ spe <= 80 * e.bottom -> "Excellent"
                  [] OTHER -> "Verify Data"
  BY DEF Band
<1> DEFINE b == e.bottom
<1>b. b \in Nat \ {0}
  OBVIOUS
<1> HIDE DEF spe, b
<1>4. CASE spe = 0
  <2>1. /\ spe <= 0 /\ ~(0 < spe /\ spe < 25 * b) /\ ~(25 * b <= spe /\ spe < 50 * b)
        /\ ~(50 * b <= spe /\ spe <= 80 * b)
    BY <1>b, <1>4
  <2> QED
    BY <1>2, <1>3, <1>4, <2>1, Zenon DEF b
<1>5. CASE spe # 0
  <2>1. ~(spe <= 0)
    BY <1>2, <1>5
  <2>2. Band(e) \in {"Needs Improvement", "Good", "Excellent", "Verify Data"}
    BY <1>3, <2>1, Zenon DEF b
  <2> QED
    BY <1>2, <1>5, <2>2
<1> QED
  BY <1>4, <1>5

LEMMA EfficiencyOfDelivery ==
  ASSUME TypeInv, DoneTakesTime, NEW committed \in SUBSET Stories
  PROVE  LET e == Efficiency(committed)
         IN /\ e.top \in Nat /\ e.bottom \in Nat \ {0}
            /\ e.top = 0 <=> \A s \in committed : state[s] = "done" => Points[s] = 0
<1> DEFINE scored == {s \in committed : state[s] # "blocked"}
           commit == FinalCommit(scored)
           counted == {s \in scored : Measurable(s, commit)}
           common == FoldSet(LAMBDA s, n : n * hours[s], 1, counted)
           term == [s \in counted |-> Points[s] * Points[s] * (common \div hours[s])]
<1>0. \A s \in Stories : Points[s] \in Nat
  BY AdaptationAssumption
<1>1. IsFiniteSet(scored) /\ IsFiniteSet(counted)
  BY CountOfStories
<1>2. commit = Total(Points, scored)
  BY SumIsTotal DEF FinalCommit
<1>3. commit \in Nat /\ (commit = 0 <=> \A s \in scored : Points[s] = 0)
  <2>1. IsFiniteSet(scored) /\ \A s \in scored : Points[s] \in Nat
    BY <1>0, <1>1
  <2> HIDE DEF scored
  <2>2. Total(Points, scored) \in Nat
    BY <2>1, TotalRemove
  <2>3. Total(Points, scored) = 0 <=> \A s \in scored : Points[s] = 0
    BY <2>1, TotalZero
  <2> QED
    BY <1>2, <2>2, <2>3
<1>4. /\ \A s \in counted : /\ s \in committed /\ state[s] = "done"
                            /\ hours[s] \in Nat \ {0} /\ Points[s] \in Nat
      /\ commit > 0 => \A s \in committed : state[s] = "done" => s \in counted
  <2>1. \A s \in Stories : state[s] = "done" => hours[s] \in Nat \ {0} /\ hours[s] > 0
    <3>1. \A h \in Hours : h \in Nat \ {0} /\ h > 0
      <4>1. Hours \subseteq Nat \ {0}
        BY AdaptationAssumption
      <4> QED
        BY <4>1
    <3> QED
      BY <3>1 DEF DoneTakesTime
  <2> HIDE DEF commit
  <2> QED
    BY <1>0, <2>1 DEF Measurable
<1>5. common = Product(hours, counted)
  BY DEF Product
<1>e. Efficiency(committed) = [top |-> Sum(term, counted),
                               bottom |-> IF commit = 0 THEN 1 ELSE commit * commit * common]
  BY DEF Efficiency
<1>d. \A s \in committed : state[s] = "done" => s \in scored
  OBVIOUS
<1> HIDE DEF counted, common, scored, commit
<1>6. common \in Nat \ {0} /\ \A s \in counted : hours[s] <= common
  BY <1>1, <1>4, <1>5, ProductBounds
<1>7. \A s \in counted : term[s] \in Nat /\ (term[s] = 0 <=> Points[s] = 0)
  <2> SUFFICES ASSUME NEW s \in counted
               PROVE  term[s] \in Nat /\ (term[s] = 0 <=> Points[s] = 0)
    OBVIOUS
  <2>1. common \div hours[s] \in Nat \ {0}
    BY <1>4, <1>6, Quotient
  <2>2. term[s] = Points[s] * Points[s] * (common \div hours[s])
    OBVIOUS
  <2> QED
    BY <1>4, <2>1, <2>2, ProductOfThree
<1> HIDE DEF term
<1> DEFINE top == Sum(term, counted)
           bottom == IF commit = 0 THEN 1 ELSE commit * commit * common
<1>8. top \in Nat /\ (top = 0 <=> \A s \in counted : Points[s] = 0)
  <2>1. IsFiniteSet(counted) /\ \A s \in counted : term[s] \in Nat
    BY <1>1, <1>7
  <2>2. Total(term, counted) \in Nat
    BY <2>1, TotalRemove
  <2>3. Total(term, counted) = 0 <=> \A s \in counted : term[s] = 0
    BY <2>1, TotalZero
  <2> QED
    BY <1>7, <2>2, <2>3, SumIsTotal
<1>9. bottom \in Nat \ {0}
  <2>1. CASE commit = 0
    BY <2>1
  <2>2. CASE commit # 0
    BY <1>3, <1>6, <2>2, ProductOfThree
  <2> QED
    BY <2>1, <2>2
<1>10. top = 0 <=> \A s \in committed : state[s] = "done" => Points[s] = 0
  <2>1. CASE commit = 0
    BY <1>3, <1>4, <1>8, <1>d, <2>1
  <2>2. CASE commit > 0
    BY <1>4, <1>8, <2>2
  <2> QED
    BY <1>3, <2>1, <2>2
<1> HIDE DEF top, bottom
<1>11. Efficiency(committed).top = top /\ Efficiency(committed).bottom = bottom
  BY <1>e DEF top, bottom
<1> QED
  BY <1>8, <1>9, <1>10, <1>11

LEMMA EfficiencyStep ==
  ASSUME TypeInv, DoneTakesTime, EfficiencyFollowsDelivery, [Next]_vars
  PROVE  DoneTakesTime' /\ EfficiencyFollowsDelivery'
<1>1. DoneTakesTime'
  <2>1. CASE \E s \in Stories : Accept(s)
    <3>1. PICK s \in Stories, h \in Hours :
            state' = [state EXCEPT ![s] = "done"] /\ hours' = [hours EXCEPT ![s] = IF @ = 0 THEN h ELSE @]
      BY <2>1 DEF Accept
    <3>2. \A r \in Stories : r # s => state'[r] = state[r] /\ hours'[r] = hours[r]
      BY <3>1 DEF TypeInv, TypeOK
    <3>3. hours'[s] \in Hours
      BY <3>1 DEF TypeInv, TypeOK
    <3> QED
      BY <3>2, <3>3 DEF DoneTakesTime
  <2>2. CASE \E s \in Stories : HandIn(s) \/ RejectCriteria(s) \/ CustomerRejects(s) \/ Unblock(s)
    <3>1. PICK s \in Stories, column \in {"pending", "ready", "blocked"} :
            state' = [state EXCEPT ![s] = column] /\ hours' = hours
      BY <2>2, Zenon DEF HandIn, RejectCriteria, CustomerRejects, Unblock
    <3>2. \A r \in Stories : state'[r] = "done" => state[r] = "done"
      BY <3>1 DEF TypeInv, TypeOK
    <3> QED
      BY <3>1, <3>2 DEF DoneTakesTime
  <2>3. CASE UNCHANGED <<state, hours>>
    BY <2>3 DEF DoneTakesTime
  <2>4. Boundary \/ Restart \/ UNCHANGED vars => UNCHANGED <<state, hours>>
    BY DEF Boundary, CloseSprint, AppendRecord, Adapt, OpenSprint, MarkSprint, Restart,
           vars, storyVars
  <2> QED
    BY <2>1, <2>2, <2>3, <2>4 DEF Next, Judgement
<1>2. EfficiencyFollowsDelivery'
  <2>1. CASE UNCHANGED files
    BY <2>1 DEF EfficiencyFollowsDelivery
  <2>2. ASSUME NEW n \in 1 .. MaxSprints, NEW f, files' = [files EXCEPT ![n] = f],
               f.band # "none" => (f.band = "No Delivery" <=> \A s \in f.done : Points[s] = 0)
        PROVE  EfficiencyFollowsDelivery'
    <3>1. \A m \in 1 .. MaxSprints : files'[m] = IF m = n THEN f ELSE files[m]
      BY <2>2 DEF TypeInv, TypeOK
    <3> QED
      BY <2>2, <3>1 DEF EfficiencyFollowsDelivery
  <2>3. CASE CloseSprint
    <3>1. CASE number > 0 /\ files[number].open
      <4>1. number \in 1 .. MaxSprints /\ files[number] \in SprintFiles
        BY <3>1, Constants DEF TypeInv, TypeOK
      <4> DEFINE f == files[number]
      <4>2. f.backlog \in SUBSET Stories
        BY <4>1 DEF SprintFiles
      <4>3. /\ Closed(f).done = {s \in f.backlog : state[s] = "done"}
            /\ Closed(f).band = Band(Efficiency(f.backlog))
        BY <4>1 DEF Closed, SprintFiles
      <4>4. Closed(f).band = "No Delivery" <=> \A s \in Closed(f).done : Points[s] = 0
        <5> DEFINE e == Efficiency(f.backlog)
        <5>1. /\ e.top \in Nat /\ e.bottom \in Nat \ {0}
              /\ e.top = 0 <=> \A s \in f.backlog : state[s] = "done" => Points[s] = 0
          BY <4>2, EfficiencyOfDelivery
        <5> HIDE DEF e
        <5>2. Band(e) = "No Delivery" <=> e.top = 0
          BY <5>1, BandOfNothing
        <5> QED
          BY <4>3, <5>1, <5>2 DEF e
      <4>5. files' = [files EXCEPT ![number] = Closed(f)]
        BY <2>3, <3>1 DEF CloseSprint
      <4> HIDE DEF f
      <4> QED
        BY <2>2, <4>1, <4>4, <4>5
    <3>2. CASE ~(number > 0 /\ files[number].open)
      BY <2>1, <2>3, <3>2 DEF CloseSprint
    <3> QED
      BY <3>1, <3>2
  <2>4. CASE OpenSprint
    <3>1. number + 1 \in 1 .. MaxSprints
      BY <2>4, Constants DEF OpenSprint, TypeInv, TypeOK
    <3>2. PICK picked : files' = [files EXCEPT ![number + 1] =
                          [open |-> TRUE, backlog |-> picked, done |-> {}, band |-> "none"]]
      BY <2>4 DEF OpenSprint
    <3> QED
      BY <2>2, <3>1, <3>2
  <2>5. CloseSprint \/ OpenSprint \/ UNCHANGED files
    BY DEF Next, vars, sprintVars, Boundary, AppendRecord, Adapt, MarkSprint, Restart,
           Judgement, HandIn, Accept, RejectCriteria, CustomerRejects, Unblock
  <2> QED
    BY <2>1, <2>3, <2>4, <2>5
<1> QED
  BY <1>1, <1>2

(* EfficiencyFollowsDelivery for any stories, points, hours and any number of *)
(* sprints: the sums and the product of the measure cannot round a delivery   *)
(* away, and a story without points is no delivery.                          *)
THEOREM DeliveryIsMeasured == Spec => []EfficiencyFollowsDelivery
<1>1. Init => DoneTakesTime /\ EfficiencyFollowsDelivery
  <2> SUFFICES ASSUME Init PROVE DoneTakesTime /\ EfficiencyFollowsDelivery
    OBVIOUS
  <2>1. \A s \in Stories : state[s] # "done"
    BY DEF Init
  <2>2. \A n \in 1 .. MaxSprints : files[n].band = "none"
    BY DEF Init, NoFile
  <2> QED
    BY <2>1, <2>2 DEF DoneTakesTime, EfficiencyFollowsDelivery
<1>2. TypeInv /\ DoneTakesTime /\ EfficiencyFollowsDelivery /\ [Next]_vars
        => DoneTakesTime' /\ EfficiencyFollowsDelivery'
  BY EfficiencyStep
<1> QED
  BY <1>1, <1>2, TypeInvariance, PTL DEF Spec
=============================================================================
