----------------------------- MODULE Executors_proofs ----------------------------
(*****************************************************************************)
(* Proofs about the results of the executors and the verdicts on them, for   *)
(* any stories, graders and numbers of runs and commits.                     *)
(*****************************************************************************)
EXTENDS Executors, TLAPS

(* What a commit, or the worktree, may contain. *)
Contents == [files : SUBSET (Nat \cup Stories), cites : SUBSET Architecture]

Manners == {"none", "own", "wip", "stub", "unrecorded"}
States == {"ready", "review", "pending_acceptance", "done", "blocked"}

(* The invariant.  A story that is not back in ready has a commit of its own; *)
(* while an executor runs, its story is ready and every reported commit is    *)
(* at or below its baseline, so that a head beyond it is new.                *)
ExecInv ==
  /\ kind \in Kinds
  /\ phase \in {"idle", "working", "returned", "failed", "decision"}
  /\ story \in Stories \cup {None}
  /\ n \in 0 .. MaxRuns /\ base \in Nat
  /\ history \in Seq(Contents) /\ dirty \in Contents
  /\ sha \in [Stories -> Nat] /\ how \in [Stories -> Manners]
  /\ state \in [Stories -> States]
  /\ phase = "idle" <=> story = None
  /\ base <= Tip
  /\ merged \in Nat /\ merged <= Tip
  /\ phase = "decision" => Tip # base /\ story \in Architecture
  /\ phase # "idle" => state[story] = "ready" /\ \A s \in Stories : sha[s] <= base
  /\ \A s \in Stories : sha[s] <= Tip
  /\ \A s, t \in Stories : s # t /\ sha[s] # 0 => sha[s] # sha[t]
  /\ \A s \in Stories :
       state[s] \in {"review", "pending_acceptance", "done"} => sha[s] # 0

LEMMA InitInv == Init => ExecInv
<1> SUFFICES ASSUME Init PROVE ExecInv
  OBVIOUS
<1>1. history = <<>> /\ history \in Seq(Contents) /\ Tip = 0
  BY DEF Init, Tip
<1>2. dirty \in Contents
  BY DEF Init, Clean, Contents
<1>3. 0 \in 0 .. MaxRuns
  BY ExecutorsAssumption
<1> QED
  BY <1>1, <1>2, <1>3 DEF Init, ExecInv, Manners, States

-----------------------------------------------------------------------------
(* The branch *)

(* What a branch grows by a commit. *)
LEMMA Appended ==
  ASSUME NEW h \in Seq(Contents), NEW c \in Contents
  PROVE  /\ Append(h, c) \in Seq(Contents)
         /\ Len(Append(h, c)) = Len(h) + 1
         /\ \A i \in 1 .. Len(h) : Append(h, c)[i] = h[i]
         /\ Append(h, c)[Len(h) + 1] = c
OBVIOUS

(* A successful result keeps the invariant when its commit is beyond the      *)
(* baseline.                                                                 *)
LEMMA SucceedsKeeps ==
  ASSUME ExecInv, phase # "idle",
         NEW c \in Nat, NEW m \in Manners, Succeeds(c, m),
         base < c, c <= Tip', Tip <= Tip', UNCHANGED <<kind, n>>,
         history' \in Seq(Contents), dirty' \in Contents
  PROVE  ExecInv'
<1>1. story \in Stories
  BY DEF ExecInv
<1>2. Tip \in Nat /\ Tip' \in Nat
  BY DEF ExecInv, Tip
<1>3. /\ \A s \in Stories : sha'[s] = IF s = story THEN c ELSE sha[s]
      /\ sha' \in [Stories -> Nat] /\ how' \in [Stories -> Manners]
  BY <1>1 DEF Succeeds, ExecInv
<1>4. /\ state' \in [Stories -> States]
      /\ \A s \in Stories \ {story} : state'[s] = state[s]
  BY <1>1 DEF Succeeds, ExecInv, States
<1>5. \A s \in Stories : sha[s] \in Nat /\ sha[s] <= base /\ base \in Nat
  BY DEF ExecInv
<1>6. \A s \in Stories : sha'[s] <= Tip'
  BY <1>2, <1>3, <1>5
<1>7. \A s, t \in Stories : s # t /\ sha'[s] # 0 => sha'[s] # sha'[t]
  BY <1>3, <1>5 DEF ExecInv
<1>8. \A s \in Stories :
        state'[s] \in {"review", "pending_acceptance", "done"} => sha'[s] # 0
  BY <1>3, <1>4, <1>5 DEF ExecInv
<1>9. /\ phase' = "idle" /\ story' = None /\ base' = 0
      /\ merged' = merged /\ merged \in Nat /\ merged <= Tip'
  BY <1>2 DEF Succeeds, ExecInv
<1> QED
  BY <1>2, <1>3, <1>4, <1>6, <1>7, <1>8, <1>9 DEF ExecInv

(* So does a failed one. *)
LEMMA FailsKeeps ==
  ASSUME ExecInv, Fails, Tip <= Tip', UNCHANGED <<kind, n>>,
         history' \in Seq(Contents), dirty' \in Contents
  PROVE  ExecInv'
<1>1. Tip \in Nat /\ Tip' \in Nat
  BY DEF ExecInv, Tip
<1>2. /\ \A s \in Stories : sha[s] \in Nat /\ sha[s] <= Tip'
      /\ merged \in Nat /\ merged <= Tip'
  BY <1>1 DEF ExecInv
<1> QED
  BY <1>1, <1>2 DEF Fails, ExecInv

(* And what the agent does to its worktree. *)
LEMMA AgentKeeps ==
  ASSUME ExecInv, phase = "working", phase' \in {"working", "returned", "failed"},
         Tip <= Tip', UNCHANGED <<kind, story, n, base, sha, how, state, merged>>,
         history' \in Seq(Contents), dirty' \in Contents
  PROVE  ExecInv'
<1>1. Tip \in Nat /\ Tip' \in Nat
  BY DEF ExecInv, Tip
<1>2. \A s \in Stories : sha[s] \in Nat /\ sha[s] <= Tip'
  BY <1>1 DEF ExecInv
<1>3. base <= Tip' /\ merged \in Nat /\ merged <= Tip'
  BY <1>1 DEF ExecInv
<1> QED
  BY <1>1, <1>2, <1>3 DEF ExecInv

LEMMA CommitAllGrows ==
  ASSUME ExecInv, CommitAll
  PROVE  /\ history' \in Seq(Contents) /\ dirty' \in Contents
         /\ Tip' = Tip + 1
<1>1. Clean \in Contents
  BY DEF Clean, Contents
<1> QED
  BY <1>1, Appended DEF CommitAll, ExecInv, Tip

-----------------------------------------------------------------------------
(* One lemma for each kind of step *)

LEMMA AgentStep ==
  ASSUME ExecInv, Writes \/ Commits \/ Ends
  PROVE  ExecInv'
<1>0. Tip \in Nat
  BY DEF ExecInv, Tip
<1>1. CASE Writes
  <2>1. dirty' \in Contents
    <3>n. n \in Nat
      BY ExecutorsAssumption DEF ExecInv
    <3>1. CASE dirty' = [dirty EXCEPT !.files = @ \cup {n}]
      BY <3>n, <3>1 DEF ExecInv, Contents
    <3>2. CASE story \in Architecture /\ dirty' = [dirty EXCEPT !.cites = @ \cup {story}]
      BY <3>2 DEF ExecInv, Contents
    <3> QED
      BY <1>1, <3>1, <3>2 DEF Writes
  <2>2. /\ phase = "working" /\ history' = history /\ Tip' = Tip
        /\ phase' = phase
        /\ UNCHANGED <<kind, story, n, base, sha, how, state, merged>>
    BY <1>1 DEF Writes, Tip
  <2>3. history' \in Seq(Contents)
    BY <2>2 DEF ExecInv
  <2> QED
    BY <1>0, <2>1, <2>2, <2>3, AgentKeeps
<1>2. CASE Commits
  <2>1. history' \in Seq(Contents) /\ dirty' \in Contents /\ Tip' = Tip + 1
    BY <1>2, CommitAllGrows DEF Commits
  <2>2. /\ phase = "working" /\ phase' = phase
        /\ UNCHANGED <<kind, story, n, base, sha, how, state, merged>>
    BY <1>2 DEF Commits
  <2> QED
    BY <1>0, <2>1, <2>2, AgentKeeps
<1>3. CASE Ends
  <2>1. /\ phase = "working" /\ phase' \in {"working", "returned", "failed"}
        /\ UNCHANGED <<kind, story, n, base, history, dirty, sha, how, state, merged>>
    BY <1>3, Zenon DEF Ends
  <2>2. history' \in Seq(Contents) /\ dirty' \in Contents /\ Tip' = Tip
    BY <2>1 DEF ExecInv, Tip
  <2> QED
    BY <1>0, <2>1, <2>2, AgentKeeps
<1> QED
  BY <1>1, <1>2, <1>3

LEMMA ResultStep ==
  ASSUME ExecInv, Raises \/ CliResult \/ WipCommit \/ SpawnResult
  PROVE  ExecInv'
<1>0. /\ Tip \in Nat /\ base \in Nat /\ base <= Tip
      /\ {"own", "wip", "stub", "unrecorded"} \subseteq Manners
      /\ history \in Seq(Contents) /\ dirty \in Contents
  BY DEF ExecInv, Tip, Manners
<1>1. CASE UNCHANGED <<kind, n, history, dirty>> /\ Fails
  BY <1>0, <1>1, FailsKeeps DEF Tip
<1>2. CASE /\ UNCHANGED <<kind, n, history, dirty>> /\ phase # "idle"
           /\ Advanced /\ Succeeds(Tip, "own")
  <2>1. Tip' = Tip /\ base < Tip
    BY <1>0, <1>2 DEF Advanced, Tip
  <2> QED
    BY <1>0, <1>2, <2>1, SucceedsKeeps
<1>3. CASE /\ UNCHANGED <<kind, n>> /\ phase # "idle"
           /\ CommitAll /\ Succeeds(Tip + 1, "wip")
  <2>1. history' \in Seq(Contents) /\ dirty' \in Contents /\ Tip' = Tip + 1
    BY <1>3, CommitAllGrows
  <2>2. base < Tip + 1 /\ Tip + 1 \in Nat
    BY <1>0
  <2> QED
    BY <1>0, <1>3, <2>1, <2>2, SucceedsKeeps
<1>4. CASE SpawnResult /\ story \in Architecture
  <2>1. /\ phase' = "decision" /\ phase = "returned" /\ Tip # base
        /\ UNCHANGED <<kind, story, n, base, history, dirty, sha, how, state, merged>>
    BY <1>4 DEF SpawnResult, Advanced
  <2>2. Tip' = Tip
    BY <2>1 DEF Tip
  <2> QED
    BY <1>4, <2>1, <2>2 DEF ExecInv
<1>5. \/ UNCHANGED <<kind, n, history, dirty>> /\ Fails
      \/ /\ UNCHANGED <<kind, n, history, dirty>> /\ phase # "idle"
         /\ Advanced /\ Succeeds(Tip, "own")
      \/ /\ UNCHANGED <<kind, n>> /\ phase # "idle"
         /\ CommitAll /\ Succeeds(Tip + 1, "wip")
      \/ SpawnResult /\ story \in Architecture
  BY DEF Raises, CliResult, WipCommit, SpawnResult
<1> QED
  BY <1>1, <1>2, <1>3, <1>4, <1>5

LEMMA DecisionStep ==
  ASSUME ExecInv, EnsureDecision
  PROVE  ExecInv'
<1> DEFINE stub == [files |-> {}, cites |-> dirty.cites \cup {story}]
<1>1. /\ Tip \in Nat /\ base \in Nat /\ base < Tip /\ story \in Architecture
      /\ phase # "idle" /\ UNCHANGED <<kind, n>>
      /\ {"own", "wip", "stub", "unrecorded"} \subseteq Manners
      /\ history \in Seq(Contents) /\ dirty \in Contents
  BY DEF EnsureDecision, ExecInv, Tip, Manners
<1>2. stub \in Contents
  BY <1>1 DEF Contents
<1>3. /\ [dirty EXCEPT !.cites = {}] \in Contents
      /\ [dirty EXCEPT !.cites = @ \cup {story}] \in Contents
  BY <1>1 DEF Contents
<1>4. ASSUME NEW m \in {"own", "unrecorded"},
             UNCHANGED <<history, dirty>>, Succeeds(Tip, m)
      PROVE  ExecInv'
  <2>1. Tip' = Tip /\ m \in Manners
    BY <1>1, <1>4 DEF Tip
  <2> QED
    BY <1>1, <1>4, <2>1, SucceedsKeeps
<1>5. CASE /\ history' = Append(history, stub) /\ dirty' = [dirty EXCEPT !.cites = {}]
           /\ Succeeds(Tip + 1, "stub")
  <2> HIDE DEF stub
  <2>1. Tip' = Tip + 1 /\ history' \in Seq(Contents)
    BY <1>1, <1>2, <1>5, Appended DEF Tip
  <2>2. base < Tip + 1 /\ Tip + 1 \in Nat /\ Tip <= Tip' /\ Tip + 1 <= Tip'
    BY <1>1, <2>1
  <2>3. dirty' \in Contents /\ Succeeds(Tip + 1, "stub")
    BY <1>3, <1>5
  <2> QED
    BY <1>1, <2>1, <2>2, <2>3, SucceedsKeeps
<1>6. CASE /\ dirty' = [dirty EXCEPT !.cites = @ \cup {story}] /\ UNCHANGED history
           /\ Succeeds(Tip, "unrecorded")
  <2>1. Tip' = Tip
    BY <1>6 DEF Tip
  <2>2. dirty' \in Contents /\ history' \in Seq(Contents) /\ Succeeds(Tip, "unrecorded")
    BY <1>1, <1>3, <1>6
  <2>3. Tip <= Tip'
    BY <1>1, <2>1
  <2> QED
    BY <1>1, <2>2, <2>3, SucceedsKeeps
<1> QED
  BY <1>4, <1>5, <1>6, Zenon DEF EnsureDecision

LEMMA MockStep ==
  ASSUME ExecInv, Mock
  PROVE  ExecInv'
<1>1. /\ Tip \in Nat /\ base \in Nat /\ base <= Tip /\ story \in Stories
      /\ phase # "idle" /\ UNCHANGED <<kind, n>>
      /\ "own" \in Manners
      /\ history \in Seq(Contents) /\ dirty \in Contents
  BY DEF Mock, ExecInv, Tip, Manners
<1>2. PICK left \in Contents :
        \/ history' = Append(history, left) /\ dirty' = Clean /\ Succeeds(Tip + 1, "own")
        \/ Fails /\ dirty' = left /\ UNCHANGED history
  <2> DEFINE files == IF \E i \in 1 .. Tip : story \in history[i].files THEN {} ELSE {story}
             left == [files |-> dirty.files \cup files,
                      cites |-> dirty.cites \cup ({story} \cap Architecture)]
  <2>1. files \subseteq Stories
    BY <1>1
  <2> HIDE DEF files
  <2>2. left \in Contents
    BY <1>1, <2>1 DEF Contents
  <2>3. \/ history' = Append(history, left) /\ dirty' = Clean /\ Succeeds(Tip + 1, "own")
        \/ Fails /\ dirty' = left /\ UNCHANGED history
    BY DEF Mock, files
  <2> HIDE DEF left
  <2> QED
    BY <2>2, <2>3
<1>3. CASE history' = Append(history, left) /\ dirty' = Clean /\ Succeeds(Tip + 1, "own")
  <2>1. Tip' = Tip + 1 /\ history' \in Seq(Contents)
    BY <1>1, <1>2, <1>3, Appended DEF Tip
  <2>2. base < Tip + 1 /\ Tip + 1 \in Nat
    BY <1>1
  <2>3. dirty' \in Contents
    BY <1>3 DEF Clean, Contents
  <2> QED
    BY <1>1, <1>3, <2>1, <2>2, <2>3, SucceedsKeeps
<1>4. CASE Fails /\ dirty' = left /\ UNCHANGED history
  <2>1. Tip' = Tip
    BY <1>4 DEF Tip
  <2> QED
    BY <1>1, <1>2, <1>4, <2>1, FailsKeeps
<1> QED
  BY <1>2, <1>3, <1>4

LEMMA StoryStep ==
  ASSUME ExecInv, NEW s \in Stories, Begin(s) \/ Merge(s) \/ BlockUndone(s) \/ Grade(s)
  PROVE  ExecInv'
<1>1. CASE Begin(s)
  <2>1. n' \in 0 .. MaxRuns
    BY <1>1, ExecutorsAssumption DEF Begin, ExecInv
  <2>2. Tip' = Tip /\ Tip \in Nat /\ s # None
    BY <1>1, ExecutorsAssumption DEF Begin, ExecInv, Tip
  <2> QED
    BY <1>1, <2>1, <2>2 DEF Begin, ExecInv
<1>2. CASE BlockUndone(s)
  <2>1. Tip' = Tip
    BY <1>2 DEF BlockUndone, Tip
  <2> QED
    BY <1>2, <2>1 DEF BlockUndone, ExecInv, States
<1>3. CASE Grade(s)
  <2>1. Tip' = Tip /\ Tip \in Nat
    BY <1>3 DEF Grade, ExecInv, Tip
  <2>2. /\ state[s] = "pending_acceptance"
        /\ phase # "idle" => story # s
        /\ UNCHANGED <<kind, phase, story, n, base, history, dirty, merged>>
    BY <1>3 DEF Grade, ExecInv
  <2>3. CASE state' = [state EXCEPT ![s] = "done"] /\ UNCHANGED <<sha, how>>
    BY <2>1, <2>2, <2>3 DEF ExecInv, States
  <2>4. ASSUME NEW to \in {"ready", "blocked"}, state' = [state EXCEPT ![s] = to],
               UNCHANGED <<sha, how>>
        PROVE  ExecInv'
    BY <2>1, <2>2, <2>4 DEF ExecInv, States
  <2>5. ASSUME NEW to \in {"ready", "blocked"}, state' = [state EXCEPT ![s] = to],
               sha' = [sha EXCEPT ![s] = 0], how' = [how EXCEPT ![s] = "none"]
        PROVE  ExecInv'
    <3>1. /\ \A t \in Stories : sha'[t] = IF t = s THEN 0 ELSE sha[t]
          /\ sha' \in [Stories -> Nat] /\ how' \in [Stories -> Manners]
      BY <2>5 DEF ExecInv, Manners
    <3>2. /\ \A t \in Stories \ {s} : state'[t] = state[t]
          /\ state'[s] = to
          /\ state' \in [Stories -> States]
      BY <2>5 DEF ExecInv, States
    <3>3. \A t \in Stories : sha'[t] <= Tip'
      <4>1. \A t \in Stories : sha[t] <= Tip
        BY DEF ExecInv
      <4> QED
        BY <2>1, <3>1, <4>1
    <3>4. \A t, u \in Stories : t # u /\ sha'[t] # 0 => sha'[t] # sha'[u]
      BY <3>1 DEF ExecInv
    <3>5. \A t \in Stories :
            state'[t] \in {"review", "pending_acceptance", "done"} => sha'[t] # 0
      BY <3>1, <3>2 DEF ExecInv
    <3>6. phase # "idle" => state'[story] = "ready" /\ \A t \in Stories : sha'[t] <= base
      BY <2>2, <3>1, <3>2 DEF ExecInv
    <3> QED
      BY <2>1, <2>2, <3>1, <3>2, <3>3, <3>4, <3>5, <3>6 DEF ExecInv
  <2>6. \/ state' = [state EXCEPT ![s] = "done"] /\ UNCHANGED <<sha, how>>
        \/ \E to \in {"ready", "blocked"} :
             state' = [state EXCEPT ![s] = to] /\ UNCHANGED <<sha, how>>
        \/ \E to \in {"ready", "blocked"} :
             /\ state' = [state EXCEPT ![s] = to]
             /\ sha' = [sha EXCEPT ![s] = 0] /\ how' = [how EXCEPT ![s] = "none"]
    BY <1>3, Zenon DEF Grade, Reject
  <2> QED
    BY <2>3, <2>4, <2>5, <2>6
<1>4. CASE Merge(s)
  <2>1. Tip' = Tip /\ Tip \in Nat /\ (phase # "idle" => story # s)
    BY <1>4 DEF Merge, ExecInv, Tip
  <2> QED
    BY <1>4, <2>1 DEF Merge, ExecInv, States, Tip
<1> QED
  BY <1>1, <1>2, <1>3, <1>4

LEMMA ExecInvStep ==
  ASSUME ExecInv, [Next]_vars
  PROVE  ExecInv'
<1>1. CASE UNCHANGED vars
  BY <1>1 DEF vars, ExecInv, Tip
<1>2. CASE Next
  BY <1>2, AgentStep, ResultStep, DecisionStep, MockStep, StoryStep DEF Next
<1> QED
  BY <1>1, <1>2

THEOREM ExecInvariance == Spec => []ExecInv
BY InitInv, ExecInvStep, PTL DEF Spec

(* SuccessIsNew: whatever failed runs left in the worktree or on the branch,  *)
(* every executor reports a commit that no run reported before.               *)
THEOREM SuccessesAreNew == Spec => []SuccessIsNew
<1>1. ASSUME ExecInv PROVE SuccessIsNew
  <2>1. ASSUME NEW s \in Stories, state[s] \in {"review", "pending_acceptance", "done"}
        PROVE  sha[s] \in 1 .. Tip /\ \A t \in Stories \ {s} : sha[t] # sha[s]
    BY <1>1, <2>1 DEF ExecInv, Tip
  <2> QED
    BY <2>1 DEF SuccessIsNew
<1> QED
  BY <1>1, ExecInvariance, PTL

-----------------------------------------------------------------------------
(* What the steps do to the branch and to the worktree *)

(* Every commit is of something; the branch and the worktree together hold at *)
(* least what they held before.                                              *)
Known == Cited(Tip) \cup dirty.cites

(* The two reasons for which a story has no decision in integration. *)
Excused(s) == how[s] = "wip" \/ (how[s] = "unrecorded" /\ s \in Known)

LEMMA CitedAppend ==
  ASSUME ExecInv, NEW c \in Contents, history' = Append(history, c)
  PROVE  Cited(Tip)' = Cited(Tip) \cup c.cites
<1>1. /\ Tip \in Nat /\ Tip' = Tip + 1
      /\ \A i \in 1 .. Tip : history'[i] = history[i]
      /\ history'[Tip + 1] = c
  BY Appended DEF ExecInv, Tip
<1>2. Cited(Tip)' = UNION {history'[i].cites : i \in 1 .. Tip + 1}
  BY <1>1 DEF Cited
<1>3. 1 .. Tip + 1 = (1 .. Tip) \cup {Tip + 1}
  BY <1>1
<1>4. \A x : x \in Cited(Tip)' <=> \E i \in 1 .. Tip + 1 : x \in history'[i].cites
  BY <1>2
<1>5. \A x : x \in Cited(Tip) <=> \E i \in 1 .. Tip : x \in history[i].cites
  BY DEF Cited
<1>6. \A x : x \in Cited(Tip)' <=> x \in Cited(Tip) \/ x \in c.cites
  BY <1>1, <1>3, <1>4, <1>5
<1> QED
  BY <1>6

(* The steps that change the branch or the worktree. *)
Writing == [dirty EXCEPT !.files = @ \cup {n}]
Stub == [files |-> {}, cites |-> dirty.cites \cup {story}]
MockFiles == IF \E i \in 1 .. Tip : story \in history[i].files THEN {} ELSE {story}
Left == [files |-> dirty.files \cup MockFiles,
         cites |-> dirty.cites \cup ({story} \cap Architecture)]

LEMMA Changes ==
  ASSUME ExecInv, [Next]_vars
  PROVE  \/ UNCHANGED <<history, dirty>>
         \/ /\ UNCHANGED <<history, n>> /\ phase = "working" /\ dirty' = Writing
         \/ /\ UNCHANGED history /\ story \in Architecture
            /\ dirty' = [dirty EXCEPT !.cites = @ \cup {story}]
         \/ CommitAll
         \/ /\ phase = "decision" /\ story \in Architecture
            /\ history' = Append(history, Stub) /\ dirty' = [dirty EXCEPT !.cites = {}]
         \/ /\ story \in Stories /\ Left # Clean
            /\ history' = Append(history, Left) /\ dirty' = Clean
         \/ story \in Stories /\ UNCHANGED history /\ dirty' = Left
<1>1. CASE \E s \in Stories : Begin(s) \/ Merge(s) \/ BlockUndone(s) \/ Grade(s)
  BY <1>1 DEF Begin, Merge, BlockUndone, Grade
<1>2. CASE Writes
  BY <1>2 DEF Writes, Writing
<1>3. CASE Commits
  BY <1>3 DEF Commits
<1>4. CASE Ends \/ Raises \/ CliResult \/ SpawnResult
  BY <1>4 DEF Ends, Raises, CliResult, SpawnResult
<1>5. CASE WipCommit
  BY <1>5 DEF WipCommit
<1>6. CASE EnsureDecision
  <2>1. phase = "decision" /\ story \in Architecture
    BY <1>6 DEF EnsureDecision, ExecInv
  <2> QED
    BY <1>6, <2>1 DEF EnsureDecision, Stub
<1>7. CASE Mock
  <2>1. story \in Stories
    BY <1>7 DEF Mock, ExecInv
  <2> QED
    BY <1>7, <2>1, Zenon DEF Mock, Left, MockFiles
<1>8. CASE UNCHANGED vars
  BY <1>8 DEF vars
<1> QED
  BY <1>1, <1>2, <1>3, <1>4, <1>5, <1>6, <1>7, <1>8 DEF Next

LEMMA ChangesTyped ==
  ASSUME ExecInv, story \in Stories
  PROVE  /\ Left \in Contents
         /\ Left.cites = dirty.cites \cup ({story} \cap Architecture)
         /\ Left.files \subseteq dirty.files \cup {story}
         /\ story \in Architecture => Stub \in Contents
         /\ Stub.files = {} /\ Stub.cites = dirty.cites \cup {story}
<1>1. MockFiles \subseteq {story}
  BY DEF MockFiles
<1> QED
  BY <1>1 DEF Left, Stub, Contents, ExecInv

(* No decision that was recorded is lost. *)
LEMMA KnownGrows ==
  ASSUME ExecInv, [Next]_vars
  PROVE  Known \subseteq Known'
<1>1. CASE history' = history /\ dirty.cites \subseteq dirty'.cites
  BY <1>1 DEF Known, Cited, Tip
<1>2. ASSUME NEW c \in Contents, history' = Append(history, c), dirty.cites \subseteq c.cites
      PROVE  Known \subseteq Known'
  BY <1>2, CitedAppend DEF Known
<1>3. CASE UNCHANGED <<history, dirty>>
  BY <1>1, <1>3
<1>4. CASE UNCHANGED history /\ dirty' = Writing
  BY <1>1, <1>4 DEF Writing, ExecInv, Contents
<1>5. CASE UNCHANGED history /\ dirty' = [dirty EXCEPT !.cites = @ \cup {story}]
  BY <1>1, <1>5 DEF ExecInv, Contents
<1>6. CASE CommitAll
  BY <1>2, <1>6 DEF CommitAll, ExecInv
<1>7. CASE /\ phase = "decision" /\ story \in Architecture
           /\ history' = Append(history, Stub)
  BY <1>2, <1>7, ChangesTyped, ExecutorsAssumption
<1>8. CASE story \in Stories /\ history' = Append(history, Left)
  BY <1>2, <1>8, ChangesTyped
<1>9. CASE story \in Stories /\ UNCHANGED history /\ dirty' = Left
  BY <1>1, <1>9, ChangesTyped
<1> QED
  BY Changes, <1>3, <1>4, <1>5, <1>6, <1>7, <1>8, <1>9

(* A commit is on the branch for good. *)
LEMMA CitedStays ==
  ASSUME ExecInv, [Next]_vars
  PROVE  Cited(Tip) \subseteq Cited(Tip)' /\ \A k \in Nat : k <= Tip => Cited(k) = Cited(k)'
<1>1. CASE history' = history
  BY <1>1 DEF Cited, Tip
<1>2. ASSUME NEW c \in Contents, history' = Append(history, c)
      PROVE  /\ Cited(Tip) \subseteq Cited(Tip)'
             /\ \A k \in Nat : k <= Tip => Cited(k) = Cited(k)'
  <2>1. Tip \in Nat /\ \A i \in 1 .. Tip : history'[i] = history[i]
    BY <1>2, Appended DEF ExecInv, Tip
  <2>2. ASSUME NEW k \in Nat, k <= Tip PROVE Cited(k) = Cited(k)'
    <3>1. \A i \in 1 .. k : history'[i] = history[i]
      BY <2>1, <2>2
    <3> QED
      BY <3>1 DEF Cited
  <2> QED
    BY <1>2, <2>2, CitedAppend
<1>3. \/ history' = history
      \/ \E c \in Contents : history' = Append(history, c)
  BY Changes, ChangesTyped, ExecutorsAssumption DEF CommitAll, ExecInv
<1> QED
  BY <1>1, <1>2, <1>3

(* How an architecture story came to be without a decision.  Before its merge *)
(* the whole branch counts, and after it what was merged.                    *)
DecisionInv ==
  kind = "spawn" =>
    \A s \in Architecture :
      /\ state[s] = "review" => Excused(s) \/ s \in Cited(Tip)
      /\ state[s] = "pending_acceptance" => Excused(s) \/ s \in Cited(merged)

LEMMA ExcusedStays ==
  ASSUME ExecInv, [Next]_vars, NEW s, Excused(s), how'[s] = how[s]
  PROVE  Excused(s)'
BY KnownGrows DEF Excused

(* What the result of a run says of its own story. *)
LEMMA ResultIsExcused ==
  ASSUME ExecInv, kind = "spawn", NEW s \in Architecture, s \in Stories, s = story,
         state'[s] = "review", state[s] # "review",
         CliResult \/ WipCommit \/ SpawnResult \/ EnsureDecision \/ Mock
  PROVE  Excused(s)' \/ s \in Cited(Tip)'
<1>0. how \in [Stories -> Manners] /\ dirty \in Contents /\ Tip \in Nat
      /\ history \in Seq(Contents)
  BY DEF ExecInv, Tip
<1>1. CASE CliResult \/ Mock
  BY <1>1 DEF CliResult, Mock
<1>2. CASE WipCommit
  BY <1>0, <1>2 DEF WipCommit, Succeeds, Fails, Excused
<1>3. CASE SpawnResult
  BY <1>3 DEF SpawnResult
<1>4. CASE EnsureDecision
  <2>1. CASE /\ Recorded(story) /\ UNCHANGED <<history, dirty>>
             /\ Succeeds(Tip, IF story \in Cited(Tip) THEN "own" ELSE "unrecorded")
    <3>1. Cited(Tip)' = Cited(Tip) /\ Known' = Known /\ s \in Known
      BY <2>1 DEF Cited, Known, Tip, Recorded
    <3>2. how' = [how EXCEPT ![story] = IF story \in Cited(Tip) THEN "own" ELSE "unrecorded"]
      BY <2>1 DEF Succeeds
    <3> QED
      BY <1>0, <3>1, <3>2 DEF Excused
  <2>2. CASE history' = Append(history, Stub)
    <3>1. Stub \in Contents /\ s \in Stub.cites
      BY ChangesTyped
    <3> QED
      BY <2>2, <3>1, CitedAppend
  <2>3. CASE /\ dirty' = [dirty EXCEPT !.cites = @ \cup {story}] /\ UNCHANGED history
             /\ Succeeds(Tip, "unrecorded")
    <3>1. s \in Known'
      BY <1>0, <2>3 DEF Known, Contents
    <3>2. how'[s] = "unrecorded"
      BY <1>0, <2>3 DEF Succeeds
    <3> QED
      BY <3>1, <3>2 DEF Excused
  <2> QED
    BY <1>4, <2>1, <2>2, <2>3, Zenon DEF EnsureDecision, Stub
<1> QED
  BY <1>1, <1>2, <1>3, <1>4

LEMMA DecisionStays ==
  ASSUME ExecInv, DecisionInv, [Next]_vars
  PROVE  DecisionInv'
<1> SUFFICES ASSUME kind' = "spawn", NEW s \in Architecture
             PROVE  /\ state'[s] = "review" => Excused(s)' \/ s \in Cited(Tip)'
                    /\ state'[s] = "pending_acceptance" => Excused(s)' \/ s \in Cited(merged)'
  BY DEF DecisionInv
<1>0. /\ s \in Stories /\ story \in Stories \cup {None} /\ None \notin Stories
      /\ state \in [Stories -> States] /\ how \in [Stories -> Manners]
      /\ merged \in Nat /\ merged <= Tip /\ kind = "spawn"
  BY ExecutorsAssumption DEF ExecInv, Next, vars, Begin, Merge, BlockUndone, Grade, Writes,
     Commits, Ends, Raises, CliResult, WipCommit, SpawnResult, EnsureDecision, Mock
<1>1. Cited(Tip) \subseteq Cited(Tip)' /\ Cited(merged) = Cited(merged)
      /\ (merged' = merged => Cited(merged)' = Cited(merged))
  BY <1>0, CitedStays DEF Cited
<1>2. CASE how'[s] = how[s] /\ state'[s] = state[s] /\ merged' = merged
  BY <1>0, <1>1, <1>2, ExcusedStays DEF DecisionInv
<1>3. CASE state'[s] \notin {"review", "pending_acceptance"}
  BY <1>3
<1>4. CASE \E t \in Stories : Merge(t)
  <2>1. PICK t \in Stories : Merge(t)
    BY <1>4
  <2>2. /\ merged' = Tip /\ how' = how /\ history' = history
        /\ state' = [state EXCEPT ![t] = "pending_acceptance"] /\ state[t] = "review"
    BY <2>1 DEF Merge
  <2>3. Cited(merged)' = Cited(Tip) /\ Cited(Tip)' = Cited(Tip) /\ Tip \in Nat
    BY <2>2 DEF Cited, Tip, ExecInv
  <2>4. Cited(merged) \subseteq Cited(Tip)
    BY <1>0, <2>3 DEF Cited
  <2>5. state[s] \in {"review", "pending_acceptance"} => Excused(s) \/ s \in Cited(Tip)
    BY <1>0, <2>4 DEF DecisionInv
  <2>6. state'[s] \in {"review", "pending_acceptance"} =>
          state[s] \in {"review", "pending_acceptance"}
    BY <1>0, <2>2
  <2> QED
    BY <2>2, <2>3, <2>5, <2>6, ExcusedStays
<1>5. CASE \E t \in Stories : Begin(t) \/ BlockUndone(t) \/ Grade(t)
  <2>1. PICK t \in Stories : Begin(t) \/ BlockUndone(t) \/ Grade(t)
    BY <1>5
  <2>2. merged' = merged
    BY <2>1 DEF Begin, BlockUndone, Grade
  <2>3. CASE Begin(t)
    BY <1>2, <2>2, <2>3 DEF Begin
  <2>4. CASE BlockUndone(t)
    BY <1>0, <1>2, <1>3, <2>2, <2>4 DEF BlockUndone
  <2>5. CASE Grade(t)
    <3>1. \E to \in {"done", "ready", "blocked"} : state' = [state EXCEPT ![t] = to]
      BY <2>5, Zenon DEF Grade, Reject
    <3>2. how' = how \/ how' = [how EXCEPT ![t] = "none"]
      BY <2>5, Zenon DEF Grade, Reject
    <3> QED
      BY <1>0, <1>2, <1>3, <2>2, <3>1, <3>2
  <2> QED
    BY <2>1, <2>3, <2>4, <2>5
<1>6. CASE Writes \/ Commits \/ Ends \/ Raises \/ UNCHANGED vars
  BY <1>2, <1>6 DEF Writes, Commits, Ends, Raises, Fails, vars
<1>7. CASE CliResult \/ WipCommit \/ SpawnResult \/ EnsureDecision \/ Mock
  <2>1. /\ merged' = merged /\ phase # "idle"
        /\ \/ UNCHANGED <<how, state>>
           \/ /\ state' = [state EXCEPT ![story] = "review"]
              /\ \E m : how' = [how EXCEPT ![story] = m]
    BY <1>7, Zenon DEF CliResult, WipCommit, SpawnResult, EnsureDecision, Mock, Succeeds, Fails
  <2>2. CASE UNCHANGED <<how, state>>
    BY <1>2, <2>1, <2>2
  <2>3. CASE s # story /\ ~UNCHANGED <<how, state>>
    <3>1. how'[s] = how[s] /\ state'[s] = state[s]
      BY <1>0, <2>1, <2>3
    <3> QED
      BY <1>2, <2>1, <3>1
  <2>4. CASE s = story /\ ~UNCHANGED <<how, state>>
    <3>1. state'[s] = "review" /\ state[s] = "ready"
      BY <1>0, <2>1, <2>4 DEF ExecInv
    <3> QED
      BY <1>0, <1>7, <2>4, <3>1, ResultIsExcused
  <2> QED
    BY <2>2, <2>3, <2>4
<1> QED
  BY <1>4, <1>5, <1>6, <1>7, Zenon DEF Next

(* DecisionIsRecorded: under the spawn executor only a commit made for the    *)
(* agent, or an entry left uncommitted, is stopped by the definition of done. *)
THEOREM DecisionsStayRecorded == Spec => []DecisionIsRecorded
<1>1. Init => DecisionInv
  BY ExecutorsAssumption DEF Init, DecisionInv
<1>2. DecisionInv => DecisionIsRecorded
  BY DEF DecisionInv, DecisionIsRecorded, Undone, Excused, Known
<1> QED
  BY <1>1, <1>2, DecisionStays, ExecInvariance, PTL DEF Spec

-----------------------------------------------------------------------------
(* JudgedOnEvidence for any grader, one that contradicts itself included. *)
THEOREM JudgementsHaveEvidence == Spec => JudgedOnEvidence
<1>1. ASSUME ExecInv, [Next]_vars, NEW s \in Stories,
             state[s] = "pending_acceptance", answer' # None
      PROVE  /\ state'[s] \in {"ready", "blocked"} =>
                  \/ "UNMET" \in answer'.verdicts
                  \/ (answer'.verdicts = {} /\ ~answer'.accept)
             /\ state'[s] = "done" => "UNMET" \notin answer'.verdicts
  <2>0. state \in [Stories -> States]
    BY <1>1 DEF ExecInv
  <2>1. CASE Grade(s)
    <3>1. /\ Accepts(answer') => state' = [state EXCEPT ![s] = "done"]
          /\ ~Accepts(answer') =>
               \E to \in {"ready", "blocked"} : state' = [state EXCEPT ![s] = to]
      BY <2>1, Zenon DEF Grade, Reject
    <3>2. /\ Accepts(answer') => state'[s] = "done"
          /\ ~Accepts(answer') => state'[s] \in {"ready", "blocked"}
      BY <2>0, <3>1
    <3> QED
      BY <1>1, <3>2 DEF Accepts
  <2>2. CASE state'[s] = "pending_acceptance"
    BY <2>2
  <2>3. CASE \E t \in Stories : Begin(t) \/ Merge(t) \/ BlockUndone(t)
    BY <1>1, <2>0, <2>2, <2>3 DEF Begin, Merge, BlockUndone
  <2>4. CASE \E t \in Stories : t # s /\ Grade(t)
    <3>1. PICK t \in Stories : t # s /\ Grade(t)
      BY <2>4
    <3>2. \E to \in {"done", "ready", "blocked"} : state' = [state EXCEPT ![t] = to]
      BY <3>1, Zenon DEF Grade, Reject
    <3> QED
      BY <1>1, <2>0, <2>2, <3>1, <3>2
  <2>5. CASE \/ CliResult \/ WipCommit \/ SpawnResult \/ EnsureDecision \/ Mock \/ Raises
    <3>1. state' = state \/ (phase # "idle" /\ state' = [state EXCEPT ![story] = "review"])
      BY <2>5
      DEF CliResult, WipCommit, SpawnResult, EnsureDecision, Mock, Raises, Succeeds, Fails
    <3>2. phase # "idle" => story # s
      BY <1>1 DEF ExecInv
    <3> QED
      BY <1>1, <2>0, <2>2, <3>1, <3>2
  <2>6. CASE Writes \/ Commits \/ Ends \/ UNCHANGED vars
    BY <1>1, <2>2, <2>6 DEF Writes, Commits, Ends, vars
  <2> QED
    BY <1>1, <2>1, <2>3, <2>4, <2>5, <2>6, Zenon DEF Next
<1>2. ExecInv /\ [Next]_vars =>
        [\A s \in Stories :
           state[s] = "pending_acceptance" /\ answer' # None =>
             /\ state'[s] \in {"ready", "blocked"} =>
                  \/ "UNMET" \in answer'.verdicts
                  \/ (answer'.verdicts = {} /\ ~answer'.accept)
             /\ state'[s] = "done" => "UNMET" \notin answer'.verdicts]_vars
  BY <1>1
<1> QED
  BY <1>2, ExecInvariance, PTL DEF Spec, JudgedOnEvidence

-----------------------------------------------------------------------------
(* Types.  No commit is empty, and files are of runs that have begun. *)
Files == 1 .. n \cup Stories

FilesInv ==
  /\ \A i \in 1 .. Tip : history[i] # Clean /\ history[i].files \subseteq Files
  /\ dirty.files \subseteq Files
  /\ phase # "idle" => n \in Nat \ {0}

LEMMA FilesGrow ==
  ASSUME ExecInv, [Next]_vars
  PROVE  Files \subseteq Files' /\ (n' = n \/ n' = n + 1) /\ n \in Nat
<1>1. n \in Nat
  BY ExecutorsAssumption DEF ExecInv
<1>2. n' = n \/ n' = n + 1
  BY DEF Next, vars, Begin, Merge, BlockUndone, Grade, Writes, Commits, Ends, Raises, CliResult,
         WipCommit, SpawnResult, EnsureDecision, Mock
<1> QED
  BY <1>1, <1>2 DEF Files

LEMMA FilesStep ==
  ASSUME ExecInv, FilesInv, [Next]_vars
  PROVE  FilesInv'
<1>1. phase' # "idle" => n' \in Nat \ {0}
  <2>1. phase' # "idle" => phase # "idle" \/ n' = n + 1
    BY DEF Next, vars, Begin, Merge, BlockUndone, Grade, Writes, Commits, Ends, Raises, CliResult,
           WipCommit, SpawnResult, EnsureDecision, Mock, Succeeds, Fails
  <2> QED
    BY <2>1, FilesGrow DEF FilesInv
<1>2. ASSUME history' = history, dirty'.files \subseteq Files'
      PROVE  FilesInv'
  BY <1>1, <1>2, FilesGrow DEF FilesInv, Tip
<1>3. ASSUME NEW c \in Contents, history' = Append(history, c), c # Clean,
             c.files \subseteq Files', dirty'.files \subseteq Files'
      PROVE  FilesInv'
  <2>1. /\ Tip \in Nat /\ Tip' = Tip + 1
        /\ \A i \in 1 .. Tip : history'[i] = history[i]
        /\ history'[Tip + 1] = c
    BY <1>3, Appended DEF ExecInv, Tip
  <2>2. \A i \in 1 .. Tip' : i \in 1 .. Tip \/ i = Tip + 1
    BY <2>1
  <2>3. \A i \in 1 .. Tip' : history'[i] # Clean /\ history'[i].files \subseteq Files'
    BY <1>3, <2>1, <2>2, FilesGrow DEF FilesInv
  <2> QED
    BY <1>1, <1>3, <2>3 DEF FilesInv
<1>4. dirty.files \subseteq Files' /\ dirty \in Contents
  BY FilesGrow DEF FilesInv, ExecInv
<1>5. CASE UNCHANGED <<history, dirty>>
  BY <1>2, <1>4, <1>5
<1>6. CASE UNCHANGED <<history, n>> /\ phase = "working" /\ dirty' = Writing
  <2>1. n \in Files'
    BY <1>6, FilesGrow DEF FilesInv, Files
  <2>2. dirty'.files = dirty.files \cup {n}
    BY <1>4, <1>6 DEF Writing, Contents
  <2> QED
    BY <1>2, <1>4, <1>6, <2>1, <2>2
<1>7. CASE UNCHANGED history /\ dirty' = [dirty EXCEPT !.cites = @ \cup {story}]
  BY <1>2, <1>4, <1>7 DEF Contents
<1>8. CASE CommitAll
  BY <1>3, <1>4, <1>8 DEF CommitAll, Clean
<1>9. CASE /\ phase = "decision" /\ story \in Architecture
           /\ history' = Append(history, Stub) /\ dirty' = [dirty EXCEPT !.cites = {}]
  <2>1. story \in Stories
    BY <1>9, ExecutorsAssumption
  <2>2. /\ Stub \in Contents /\ Stub.files = {} /\ story \in Stub.cites
    BY <1>9, <2>1, ChangesTyped
  <2>3. Stub # Clean
    BY <2>2 DEF Clean
  <2>4. dirty'.files = dirty.files
    BY <1>4, <1>9 DEF Contents
  <2> QED
    BY <1>3, <1>4, <1>9, <2>2, <2>3, <2>4
<1>10. CASE story \in Stories /\ (history' = Append(history, Left) \/ dirty' = Left)
  <2>1. Left.files \subseteq Files' /\ Left \in Contents
    BY <1>4, <1>10, ChangesTyped DEF Files
  <2>2. Clean.files = {}
    BY DEF Clean
  <2>3. CASE Left # Clean /\ history' = Append(history, Left) /\ dirty' = Clean
    BY <1>3, <2>1, <2>2, <2>3
  <2>4. CASE UNCHANGED history /\ dirty' = Left
    BY <1>2, <2>1, <2>4
  <2> QED
    BY <1>10, <1>5, <1>6, <1>7, <1>8, <1>9, <2>3, <2>4, Changes
<1> QED
  BY Changes, <1>5, <1>6, <1>7, <1>8, <1>9, <1>10

(* The variables of the executors keep their types, and no commit is empty. *)
THEOREM TypeCorrect == Spec => []TypeOK
<1>1. Init => FilesInv
  BY DEF Init, FilesInv, Tip, Clean
<1>2. ExecInv /\ FilesInv /\ [Next]_vars => FilesInv'
  BY FilesStep
<1>3. ASSUME ExecInv, FilesInv PROVE TypeOK
  <2>1. Tip \in Nat /\ base \in 0 .. Tip
    BY <1>3 DEF ExecInv, Tip
  <2>2. sha \in [Stories -> 0 .. Tip]
    <3>1. \A s \in Stories : sha[s] \in 0 .. Tip
      BY <1>3, <2>1 DEF ExecInv
    <3> QED
      BY <1>3, <3>1 DEF ExecInv
  <2>3. dirty.cites \subseteq Architecture
    BY <1>3 DEF ExecInv, Contents
  <2> QED
    BY <1>3, <2>1, <2>2, <2>3 DEF TypeOK, ExecInv, FilesInv, Files, States
<1> QED
  BY <1>1, <1>2, <1>3, ExecInvariance, PTL DEF Spec
=============================================================================
