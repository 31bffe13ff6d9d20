----------------------------- MODULE Worktrees_proofs ----------------------------
(*****************************************************************************)
(* Proofs that the merge worker's git commands respect the branches, that no *)
(* commit is lost and that what is handed over is merged, for any number of  *)
(* stories, agents and executor runs.                                        *)
(*****************************************************************************)
EXTENDS Worktrees, FiniteSetTheorems, TLAPS

-----------------------------------------------------------------------------
(* Histories. *)

(* A history is a prefix of itself and of everything that grows out of it. *)
LEMMA PrefixReflexive ==
  ASSUME NEW s \in Seq(Nat)
  PROVE  IsPrefix(s, s)
BY DEF IsPrefix

LEMMA PrefixConcat ==
  ASSUME NEW s \in Seq(Nat), NEW t \in Seq(Nat)
  PROVE  IsPrefix(s, s \o t)
BY DEF IsPrefix

LEMMA PrefixAppend ==
  ASSUME NEW s \in Seq(Nat), NEW t \in Seq(Nat), NEW n \in Nat, IsPrefix(s, t)
  PROVE  IsPrefix(s, Append(t, n))
BY DEF IsPrefix

(* What a branch has beyond integration is itself a history. *)
LEMMA UnmergedType ==
  ASSUME GitTypeOK, NEW a \in Actors
  PROVE  Unmerged(a) \in Seq(Nat)
<1> DEFINE Common == {n \in 1 .. Len(branch[a]) :
                        n <= Len(integ) /\ SubSeq(branch[a], 1, n) = SubSeq(integ, 1, n)}
<1>1. branch[a] \in Seq(Nat) /\ Len(branch[a]) \in Nat
  BY DEF GitTypeOK
<1>2. IsFiniteSet(1 .. Len(branch[a]))
  BY <1>1, FS_Interval
<1>3. IsFiniteSet(Common)
  BY <1>2, FS_Subset
<1>4. Cardinality(Common) \in Nat
  BY <1>3, FS_CardinalityType
<1>5. ForkPoint(a) \in Nat
  BY <1>4 DEF ForkPoint
<1> HIDE DEF Common
<1> QED
  BY <1>1, <1>5 DEF Unmerged

-----------------------------------------------------------------------------
(* The inductive invariant.  A rebase that was done stays good: the worker is *)
(* still at the request whose branch it rebased, and nobody moves integration *)
(* or takes commits off that branch.                                         *)
WorkType == work \in [Actors -> Stories \cup {None}]

GitInv ==
  /\ GitTypeOK
  /\ MergeTypeOK
  /\ WorkType
  /\ rebased => worker.phase = "merging"
  /\ FastForwardGuaranteed

(* The invariant holds when a team starts. *)
LEMMA GitInvInit == Init => GitInv
<1> SUFFICES ASSUME Init PROVE GitInv
  OBVIOUS
<1>1. GitTypeOK
  <2>1. integ \in Seq(Nat) /\ branch \in [Actors -> Seq(Nat)]
    BY DEF Init
  <2>2. run \in [Actors -> [id : Nat, base : Seq(Nat)]]
    <3>1. <<>> \in Seq(Nat)
      OBVIOUS
    <3>2. NoRun \in [id : Nat, base : Seq(Nat)]
      BY <3>1 DEF NoRun
    <3> QED
      BY <3>2 DEF Init
  <2>3. rebased \in BOOLEAN
    BY Zenon DEF Init
  <2>4. runStory \in Seq(Stories)
    <3>1. runStory = <<>>
      BY Zenon DEF Init
    <3> QED
      BY <3>1
  <2>5. /\ late \in SUBSET (Actors \X Nat)
        /\ made \in SUBSET Nat
        /\ dropped \in SUBSET Nat
        /\ delivered \in [Stories -> Nat]
    BY DEF Init
  <2> QED
    BY <2>1, <2>2, <2>3, <2>4, <2>5 DEF GitTypeOK
<1>2. MergeTypeOK
  BY DEF Init, MergeInit, MergeTypeOK, NoRequest, WorkerPhases, Requests
<1>3. WorkType
  BY DEF Init, DeliveryInit, WorkType
<1>4. ~rebased
  BY DEF Init
<1> QED
  BY <1>1, <1>2, <1>3, <1>4 DEF GitInv, FastForwardGuaranteed

(* While the worker is not idle, it serves the request of some agent. *)
LEMMA WorkerServes ==
  ASSUME MergeTypeOK, worker.phase # "idle"
  PROVE  worker.req \in Requests /\ worker.req.actor \in Actors
BY DEF MergeTypeOK, Requests

(* The queue and the worker keep their types. *)
LEMMA MergeTypeStep ==
  ASSUME MergeTypeOK, WorkType, [Next]_vars
  PROVE  MergeTypeOK'
<1>1. CASE UNCHANGED mergeVars
  BY <1>1 DEF MergeTypeOK, mergeVars
<1>2. CASE \E a \in Actors : RunSucceeds(a)
  <2> PICK a \in Actors : RunSucceeds(a)
    BY <1>2
  <2>1. work[a] \in Stories
    BY DEF RunSucceeds, CommitLanded, WorkType
  <2> QED
    BY <2>1 DEF RunSucceeds, CommitLanded, Enqueue, MergeTypeOK, Requests
<1>3. CASE TakeRequest
  <2>1. Head(queue) \in Requests /\ Tail(queue) \in Seq(Requests)
    BY <1>3 DEF TakeRequest, Dequeue, MergeTypeOK
  <2>2. Head(queue) # NoRequest
    BY <2>1, BoardAssumption DEF Requests, NoRequest
  <2> QED
    BY <1>3, <2>1, <2>2 DEF TakeRequest, Dequeue, MergeTypeOK, WorkerPhases
<1>4. CASE RebaseConflict \/ MergeFails
  BY <1>4 DEF RebaseConflict, MergeFails, MergeConflict, WorkerIdle, MergeTypeOK, WorkerPhases
<1>5. CASE FastForward
  BY <1>5 DEF FastForward, MergeCompleted, WorkerIdle, MergeTypeOK, WorkerPhases
<1>6. CASE CollectionCheck
  BY <1>6 DEF CollectionCheck, GateOK, GateBroken, WorkerIdle, MergeTypeOK, WorkerPhases
<1>7. CASE \E a \in Actors : \E s \in Stories : StartRun(a, s)
  BY <1>1, <1>7 DEF StartRun, Pull
<1>8. CASE \E a \in Actors : \E r \in 1 .. Len(runStory) : Commit(a, r)
  BY <1>1, <1>8 DEF Commit
<1>9. CASE \E a \in Actors : RunFails(a) \/ RunTimesOut(a)
  BY <1>1, <1>9 DEF RunFails, RunTimesOut, NoCommit
<1>10. CASE Rebase \/ UNCHANGED vars
  BY <1>1, <1>10 DEF Rebase, vars
<1> QED
  BY Zenon, <1>2, <1>3, <1>4, <1>5, <1>6, <1>7, <1>8, <1>9, <1>10 DEF Next

(* The actors' stories keep their type. *)
LEMMA WorkTypeStep ==
  ASSUME WorkType, [Next]_vars
  PROVE  WorkType'
<1>1. CASE UNCHANGED deliveryVars
  BY <1>1 DEF WorkType, deliveryVars
<1>2. CASE \E a \in Actors : \/ \E s \in Stories : StartRun(a, s)
                            \/ RunSucceeds(a)
                            \/ RunFails(a)
                            \/ RunTimesOut(a)
  BY <1>2
  DEF StartRun, Pull, RunSucceeds, CommitLanded, RunFails, RunTimesOut, NoCommit, Free,
      WorkType
<1>3. CASE \E a \in Actors : \E r \in 1 .. Len(runStory) : Commit(a, r)
  BY <1>1, <1>3 DEF Commit
<1>4. CASE TakeRequest \/ Rebase \/ RebaseConflict \/ MergeFails \/ FastForward
           \/ CollectionCheck
  BY <1>1, <1>4
  DEF TakeRequest, Rebase, RebaseConflict, MergeFails, FastForward, CollectionCheck
<1>5. CASE UNCHANGED vars
  BY <1>1, <1>5 DEF vars
<1> QED
  BY <1>2, <1>3, <1>4, <1>5 DEF Next

(* The branches and the histories about them keep their types. *)
LEMMA GitTypeStep ==
  ASSUME GitTypeOK, MergeTypeOK, WorkType, [Next]_vars
  PROVE  GitTypeOK'
<1> USE DEF GitTypeOK
<1>1. CASE UNCHANGED gitVars
  BY <1>1 DEF gitVars
<1>2. CASE \E a \in Actors : \E s \in Stories : StartRun(a, s)
  BY <1>2 DEF StartRun
<1>3. CASE \E a \in Actors : \E r \in 1 .. Len(runStory) : Commit(a, r)
  BY <1>3 DEF Commit
<1>4. CASE \E a \in Actors : RunSucceeds(a)
  <2> PICK a \in Actors : RunSucceeds(a)
    BY <1>4
  <2>1. work[a] \in Stories /\ run[a].id \in Nat
    BY DEF RunSucceeds, CommitLanded, WorkType
  <2> QED
    BY <2>1 DEF RunSucceeds, NoRun
<1>5. CASE \E a \in Actors : RunFails(a)
  BY <1>5 DEF RunFails, NoRun
<1>6. CASE \E a \in Actors : RunTimesOut(a)
  BY <1>6 DEF RunTimesOut, NoRun
<1>7. CASE Rebase
  <2>1. worker.req.actor \in Actors
    BY <1>7, WorkerServes DEF Rebase
  <2>2. Unmerged(worker.req.actor) \in Seq(Nat)
    BY <2>1, UnmergedType
  <2>3. integ \o Unmerged(worker.req.actor) \in Seq(Nat)
    BY <2>2
  <2>4. branch' \in [Actors -> Seq(Nat)]
    BY <1>7, <2>1, <2>3 DEF Rebase
  <2> QED
    BY <1>7, <2>4 DEF Rebase
<1>8. CASE RebaseConflict
  <2>1. worker.req.actor \in Actors
    BY <1>8, WorkerServes DEF RebaseConflict
  <2>2. ToSet(Unmerged(worker.req.actor)) \subseteq Nat
    BY <2>1, UnmergedType DEF ToSet
  <2> QED
    BY <1>8, <2>1, <2>2 DEF RebaseConflict
<1>9. CASE FastForward
  <2>1. worker.req.actor \in Actors
    BY <1>9, WorkerServes DEF FastForward, MergeCompleted
  <2> QED
    BY <1>9, <2>1 DEF FastForward
<1>10. CASE TakeRequest \/ MergeFails \/ CollectionCheck \/ UNCHANGED vars
  BY <1>1, <1>10 DEF TakeRequest, MergeFails, CollectionCheck, vars, gitVars
<1> QED
  BY Zenon, <1>2, <1>3, <1>4, <1>5, <1>6, <1>7, <1>8, <1>9, <1>10 DEF Next

(* A rebased branch is still on top of integration when the fast-forward      *)
(* comes, whatever the agent has committed to it since.                      *)
LEMMA RebasedStep ==
  ASSUME GitInv, [Next]_vars
  PROVE  (rebased => worker.phase = "merging")' /\ FastForwardGuaranteed'
<1> USE DEF GitInv, FastForwardGuaranteed
<1>1. CASE UNCHANGED <<worker, integ, branch, rebased>>
  BY <1>1
<1>2. CASE \E a \in Actors : \E r \in 1 .. Len(runStory) : Commit(a, r)
  <2> PICK a \in Actors, r \in 1 .. Len(runStory) : Commit(a, r)
    BY <1>2
  <2>1. UNCHANGED <<worker, integ, rebased>>
    BY DEF Commit, mergeVars
  <2>2. rebased => worker.req.actor \in Actors
    BY WorkerServes
  <2>3. integ \in Seq(Nat) /\ branch \in [Actors -> Seq(Nat)] /\ r \in Nat
    BY DEF GitTypeOK
  <2>4. ASSUME rebased
        PROVE  IsPrefix(integ, branch'[worker.req.actor])
    <3>1. branch'[worker.req.actor]
            \in {branch[worker.req.actor], Append(branch[worker.req.actor], r)}
      BY <2>2, <2>3, <2>4 DEF Commit
    <3> QED
      BY <2>2, <2>3, <2>4, <3>1, PrefixAppend
  <2> QED
    BY <2>1, <2>4
<1>3. CASE Rebase
  <2>1. worker.req.actor \in Actors
    BY <1>3, WorkerServes DEF Rebase
  <2>2. integ \in Seq(Nat) /\ branch \in [Actors -> Seq(Nat)]
    BY DEF GitTypeOK
  <2>3. branch'[worker.req.actor] = integ \o Unmerged(worker.req.actor)
    BY <1>3, <2>1, <2>2 DEF Rebase
  <2>4. IsPrefix(integ, branch'[worker.req.actor])
    BY <2>1, <2>2, <2>3, UnmergedType, PrefixConcat
  <2> QED
    BY <1>3, <2>4 DEF Rebase, mergeVars
<1>4. CASE TakeRequest \/ RebaseConflict \/ MergeFails \/ FastForward \/ CollectionCheck
  <2>1. ~rebased'
    BY <1>4
    DEF TakeRequest, Dequeue, RebaseConflict, MergeFails, FastForward, CollectionCheck, GateOK,
        GateBroken, gitVars
  <2> QED
    BY <2>1
<1>5. CASE \E a \in Actors : \/ \E s \in Stories : StartRun(a, s)
                            \/ RunSucceeds(a)
                            \/ RunFails(a)
                            \/ RunTimesOut(a)
  BY <1>1, <1>5
  DEF StartRun, Pull, RunSucceeds, CommitLanded, RunFails, RunTimesOut, NoCommit, mergeVars
<1>6. CASE UNCHANGED vars
  BY <1>1, <1>6 DEF vars, mergeVars, gitVars
<1> QED
  BY Zenon, <1>2, <1>3, <1>4, <1>5, <1>6 DEF Next

(* The invariant holds of every behaviour. *)
LEMMA GitInvariant == Spec => []GitInv
<1>1. GitInv /\ [Next]_vars => GitInv'
  <2> SUFFICES ASSUME GitInv, [Next]_vars PROVE GitInv'
    OBVIOUS
  <2>1. GitTypeOK /\ MergeTypeOK /\ WorkType
    BY DEF GitInv
  <2> QED
    BY <2>1, GitTypeStep, MergeTypeStep, WorkTypeStep, RebasedStep DEF GitInv
<1> QED
  BY <1>1, GitInvInit, PTL DEF Spec

-----------------------------------------------------------------------------
(* "Fast-forward is guaranteed after a clean rebase" (_attempt_merge): however *)
(* many runs of the agent, late ones too, commit to the branch in between.    *)
THEOREM FastForwardSucceeds == Spec => []FastForwardGuaranteed
<1>1. GitInv => FastForwardGuaranteed
  BY DEF GitInv
<1> QED
  BY <1>1, GitInvariant, PTL

(* The merge worker rebases and resets the branch of the agent it serves, in  *)
(* that agent's worktree; every other branch only gets its own agent's        *)
(* commits.                                                                  *)
THEOREM OthersKeepTheirCommits == Spec => OtherBranchesAreLeft
<1> DEFINE Left == \A a \in Actors :
                     a # worker.req.actor => IsPrefix(branch[a], branch'[a])
<1>1. GitInv /\ [Next]_vars => [Left]_vars
  <2> SUFFICES ASSUME GitInv, Next,
                      NEW a \in Actors, a # worker.req.actor
               PROVE  IsPrefix(branch[a], branch'[a])
    BY Zenon
  <2>1. branch \in [Actors -> Seq(Nat)] /\ branch[a] \in Seq(Nat)
    BY DEF GitInv, GitTypeOK
  <2>2. IsPrefix(branch[a], branch[a])
    BY <2>1, PrefixReflexive
  <2>3. CASE branch'[a] = branch[a]
    BY <2>2, <2>3
  <2>4. CASE \E b \in Actors : \E r \in 1 .. Len(runStory) : Commit(b, r)
    <3> PICK b \in Actors, r \in 1 .. Len(runStory) : Commit(b, r)
      BY <2>4
    <3>1. r \in Nat
      BY DEF GitInv, GitTypeOK
    <3>2. branch'[a] \in {branch[a], Append(branch[a], r)}
      BY <2>1 DEF Commit
    <3> QED
      BY <2>1, <2>2, <3>1, <3>2, PrefixAppend
  <2>5. CASE Rebase \/ RebaseConflict
    BY <2>1, <2>3, <2>5 DEF Rebase, RebaseConflict
  <2>6. CASE ~\E b \in Actors : \E r \in 1 .. Len(runStory) : Commit(b, r)
    <3>1. Rebase \/ RebaseConflict \/ UNCHANGED branch
      BY <2>6
      DEF Next, StartRun, RunSucceeds, RunFails, RunTimesOut, TakeRequest, MergeFails, FastForward,
          CollectionCheck, gitVars
    <3> QED
      BY <2>3, <2>5, <3>1
  <2> QED
    BY <2>4, <2>6
<1> QED
  BY <1>1, GitInvariant, PTL DEF Spec, OtherBranchesAreLeft

-----------------------------------------------------------------------------
(* No commit is lost (CommitsAccounted).  The inductive invariant says where *)
(* each branch left integration: up to that point it is integration, after   *)
(* it nothing is merged.  It also says that two branches share nothing but   *)
(* what is merged, so a conflict that empties one takes nothing from another. *)
NoRepeats(h) == \A i, j \in 1 .. Len(h) : h[i] = h[j] => i = j

ForksAt(a, f) ==
  /\ f <= Len(integ)
  /\ f <= Len(branch[a])
  /\ \A i \in 1 .. f : branch[a][i] = integ[i]
  /\ \A i \in (f + 1) .. Len(branch[a]) : branch[a][i] \notin Merged

Forked(a) == \E f \in Nat : ForksAt(a, f)

AccountInv ==
  /\ NoRepeats(integ)
  /\ Merged \subseteq made
  /\ dropped \subseteq made
  /\ dropped \cap Merged = {}
  /\ made \subseteq Merged \cup dropped \cup UNION {ToSet(branch[a]) : a \in Actors}
  /\ \A a \in Actors :
       /\ NoRepeats(branch[a])
       /\ ToSet(branch[a]) \subseteq made
       /\ ToSet(branch[a]) \cap dropped = {}
       /\ Forked(a)
  /\ \A a, b \in Actors : a # b => ToSet(branch[a]) \cap ToSet(branch[b]) \subseteq Merged

(* The commits of a history, by position; of one that got longer; of two in  *)
(* a row; of one that is a prefix of another.                                *)
LEMMA InHistory ==
  ASSUME NEW h \in Seq(Nat), NEW c
  PROVE  c \in ToSet(h) <=> \E i \in 1 .. Len(h) : h[i] = c
BY DEF ToSet

LEMMA CommitsOfAppend ==
  ASSUME NEW h \in Seq(Nat), NEW c \in Nat
  PROVE  ToSet(Append(h, c)) = ToSet(h) \cup {c}
<1>1. ASSUME NEW x
      PROVE  x \in ToSet(Append(h, c)) <=> x \in ToSet(h) \/ x = c
  <2>1. Append(h, c) \in Seq(Nat) /\ Len(Append(h, c)) = Len(h) + 1
    OBVIOUS
  <2>2. \A i \in 1 .. Len(h) : Append(h, c)[i] = h[i]
    OBVIOUS
  <2>3. Append(h, c)[Len(h) + 1] = c
    OBVIOUS
  <2>4. Len(h) \in Nat
    OBVIOUS
  <2>5. \A i \in 1 .. Len(h) + 1 : i \in 1 .. Len(h) \/ i = Len(h) + 1
    BY <2>4
  <2>6. 1 .. Len(h) \subseteq 1 .. Len(h) + 1 /\ Len(h) + 1 \in 1 .. Len(h) + 1
    BY <2>4
  <2>7. x \in ToSet(Append(h, c)) <=> \E i \in 1 .. Len(h) + 1 : Append(h, c)[i] = x
    BY <2>1, InHistory
  <2>8. x \in ToSet(h) <=> \E i \in 1 .. Len(h) : h[i] = x
    BY InHistory
  <2> QED
    BY Zenon, <2>2, <2>3, <2>5, <2>6, <2>7, <2>8
<1> QED
  BY Zenon, <1>1

LEMMA CommitsOfConcat ==
  ASSUME NEW h \in Seq(Nat), NEW g \in Seq(Nat)
  PROVE  ToSet(h \o g) = ToSet(h) \cup ToSet(g)
<1>1. Len(h) \in Nat /\ Len(g) \in Nat /\ h \o g \in Seq(Nat) /\ Len(h \o g) = Len(h) + Len(g)
  OBVIOUS
<1>2. \A i \in 1 .. Len(h) : (h \o g)[i] = h[i]
  OBVIOUS
<1>3. \A i \in 1 .. Len(g) : (h \o g)[Len(h) + i] = g[i]
  OBVIOUS
<1>4. ASSUME NEW x
      PROVE  x \in ToSet(h \o g) <=> x \in ToSet(h) \/ x \in ToSet(g)
  <2>1. ASSUME x \in ToSet(h \o g) PROVE x \in ToSet(h) \/ x \in ToSet(g)
    <3>1. PICK i \in 1 .. Len(h) + Len(g) : (h \o g)[i] = x
      BY <1>1, <2>1, InHistory
    <3>2. CASE i <= Len(h)
      BY <1>1, <1>2, <3>1, <3>2, InHistory
    <3>3. CASE i > Len(h)
      <4>1. i - Len(h) \in 1 .. Len(g) /\ Len(h) + (i - Len(h)) = i
        BY <1>1, <3>3
      <4>2. g[i - Len(h)] = x
        BY <1>3, <3>1, <4>1
      <4> QED
        BY <4>1, <4>2, InHistory
    <3> QED
      BY <1>1, <3>2, <3>3
  <2>2. ASSUME x \in ToSet(h) PROVE x \in ToSet(h \o g)
    <3>1. PICK i \in 1 .. Len(h) : h[i] = x
      BY <2>2, InHistory
    <3>2. i \in 1 .. Len(h \o g) /\ (h \o g)[i] = x
      BY <1>1, <1>2, <3>1
    <3> QED
      BY <1>1, <3>2, InHistory
  <2>3. ASSUME x \in ToSet(g) PROVE x \in ToSet(h \o g)
    <3>1. PICK i \in 1 .. Len(g) : g[i] = x
      BY <2>3, InHistory
    <3>2. Len(h) + i \in 1 .. Len(h \o g) /\ (h \o g)[Len(h) + i] = x
      BY <1>1, <1>3, <3>1
    <3> QED
      BY <1>1, <3>2, InHistory
  <2> QED
    BY <2>1, <2>2, <2>3
<1> QED
  BY Zenon, <1>4

LEMMA CommitsOfPrefix ==
  ASSUME NEW h \in Seq(Nat), NEW g \in Seq(Nat), IsPrefix(h, g)
  PROVE  /\ Len(h) <= Len(g)
         /\ \A i \in 1 .. Len(h) : g[i] = h[i]
         /\ ToSet(h) \subseteq ToSet(g)
<1>1. Len(h) \in Nat /\ Len(g) \in Nat
  OBVIOUS
<1>2. Len(h) <= Len(g) /\ SubSeq(h, 1, Len(h)) = SubSeq(g, 1, Len(h))
  BY <1>1 DEF IsPrefix
<1>3. \A i \in 1 .. Len(h) : SubSeq(h, 1, Len(h))[i] = h[i] /\ SubSeq(g, 1, Len(h))[i] = g[i]
  BY <1>1, <1>2
<1>4. \A i \in 1 .. Len(h) : g[i] = h[i]
  BY <1>2, <1>3
<1>5. ASSUME NEW c \in ToSet(h) PROVE c \in ToSet(g)
  <2>1. PICK i \in 1 .. Len(h) : h[i] = c
    BY InHistory
  <2>2. i \in 1 .. Len(g) /\ g[i] = c
    BY <1>1, <1>2, <1>4, <2>1
  <2> QED
    BY <2>2, InHistory
<1> QED
  BY <1>2, <1>4, <1>5

(* What a branch has beyond integration is what follows its fork.            *)
LEMMA UnmergedFollowsTheFork ==
  ASSUME GitTypeOK, NEW a \in Actors, NEW f \in Nat, ForksAt(a, f)
  PROVE  Unmerged(a) = SubSeq(branch[a], f + 1, Len(branch[a]))
<1> DEFINE p == branch[a]
           Common == {n \in 1 .. Len(p) :
                        n <= Len(integ) /\ SubSeq(p, 1, n) = SubSeq(integ, 1, n)}
<1>1. p \in Seq(Nat) /\ integ \in Seq(Nat) /\ Len(p) \in Nat /\ Len(integ) \in Nat
  BY DEF GitTypeOK
<1>2. f <= Len(p) /\ f <= Len(integ) /\ \A i \in 1 .. f : p[i] = integ[i]
  BY DEF ForksAt
<1>3. \A i \in (f + 1) .. Len(p) : p[i] \notin Merged
  BY DEF ForksAt
<1> HIDE DEF p
<1>4. ASSUME NEW n \in 1 .. f PROVE n \in Common
  <2>1. SubSeq(p, 1, n) = SubSeq(integ, 1, n)
    BY <1>1, <1>2
  <2> QED
    BY <1>1, <1>2, <2>1
<1>5. ASSUME NEW n \in Common PROVE n <= f
  <2>1. SUFFICES ASSUME n > f PROVE FALSE
    BY <1>1
  <2>2. f + 1 \in 1 .. n /\ f + 1 <= Len(p) /\ f + 1 <= Len(integ)
    BY <1>1, <2>1
  <2>3. SubSeq(p, 1, n)[f + 1] = p[f + 1] /\ SubSeq(integ, 1, n)[f + 1] = integ[f + 1]
    BY <1>1, <2>2
  <2>4. p[f + 1] \in Merged
    BY <1>1, <2>2, <2>3, InHistory DEF Merged
  <2> QED
    BY <1>1, <1>3, <2>2, <2>4
<1>6. Common = 1 .. f
  BY <1>1, <1>4, <1>5
<1>7. Cardinality(1 .. f) = f
  BY FS_Interval
<1>8. ForkPoint(a) = f
  BY <1>6, <1>7 DEF ForkPoint, p
<1> QED
  BY <1>8 DEF Unmerged

(* It repeats nothing, it is not merged, and the rest of the branch is.      *)
LEMMA UnmergedCommits ==
  ASSUME GitTypeOK, NEW a \in Actors, Forked(a), NoRepeats(branch[a])
  PROVE  /\ NoRepeats(Unmerged(a))
         /\ ToSet(Unmerged(a)) \subseteq ToSet(branch[a])
         /\ ToSet(Unmerged(a)) \cap Merged = {}
         /\ ToSet(branch[a]) \subseteq Merged \cup ToSet(Unmerged(a))
<1> DEFINE p == branch[a]
           u == Unmerged(a)
<1>1. PICK f \in Nat : ForksAt(a, f)
  BY DEF Forked
<1>2. p \in Seq(Nat) /\ integ \in Seq(Nat) /\ Len(p) \in Nat /\ Len(integ) \in Nat
  BY DEF GitTypeOK
<1>3. f <= Len(p) /\ f <= Len(integ) /\ \A i \in 1 .. f : p[i] = integ[i]
  BY <1>1 DEF ForksAt
<1>4. \A i \in (f + 1) .. Len(p) : p[i] \notin Merged
  BY <1>1 DEF ForksAt
<1>5. u \in Seq(Nat)
  BY UnmergedType
<1>6. u = SubSeq(p, f + 1, Len(p))
  BY <1>1, UnmergedFollowsTheFork
<1>7. NoRepeats(p)
  OBVIOUS
<1> HIDE DEF p, u
<1>8. Len(u) = Len(p) - f /\ \A i \in 1 .. Len(u) : u[i] = p[f + i]
  BY <1>2, <1>3, <1>6
<1>9. NoRepeats(u)
  <2> SUFFICES ASSUME NEW i \in 1 .. Len(u), NEW j \in 1 .. Len(u), u[i] = u[j] PROVE i = j
    BY DEF NoRepeats
  <2>1. f + i \in 1 .. Len(p) /\ f + j \in 1 .. Len(p) /\ p[f + i] = p[f + j]
    BY <1>2, <1>3, <1>8
  <2>2. f + i = f + j
    BY <1>7, <2>1 DEF NoRepeats
  <2> QED
    BY <2>2
<1>10. ASSUME NEW c \in ToSet(u) PROVE c \in ToSet(p) /\ c \notin Merged
  <2>1. PICK i \in 1 .. Len(u) : u[i] = c
    BY <1>5, InHistory
  <2>2. f + i \in (f + 1) .. Len(p) /\ f + i \in 1 .. Len(p) /\ p[f + i] = c
    BY <1>2, <1>3, <1>8, <2>1
  <2> QED
    BY <1>2, <1>4, <2>2, InHistory
<1>11. ASSUME NEW c \in ToSet(p) PROVE c \in Merged \/ c \in ToSet(u)
  <2>1. PICK i \in 1 .. Len(p) : p[i] = c
    BY <1>2, InHistory
  <2>2. CASE i <= f
    <3>1. i \in 1 .. Len(integ) /\ integ[i] = c
      BY <1>2, <1>3, <2>1, <2>2
    <3> QED
      BY <1>2, <3>1, InHistory DEF Merged
  <2>3. CASE i > f
    <3>1. i - f \in 1 .. Len(u) /\ f + (i - f) = i
      BY <1>2, <1>3, <1>8, <2>3
    <3>2. u[i - f] = c
      BY <1>8, <2>1, <3>1
    <3> QED
      BY <1>5, <3>1, <3>2, InHistory
  <2> QED
    BY <2>2, <2>3
<1> QED
  BY <1>9, <1>10, <1>11 DEF p, u

(* The invariant holds when a team starts: there are no commits.             *)
LEMMA AccountInit == Init => AccountInv
<1> SUFFICES ASSUME Init PROVE AccountInv
  OBVIOUS
<1>1. integ = <<>> /\ made = {} /\ dropped = {} /\ \A a \in Actors : branch[a] = <<>>
  BY DEF Init
<1>2. \A h \in Seq(Nat) : h = <<>> => ToSet(h) = {} /\ NoRepeats(h)
  BY DEF ToSet, NoRepeats
<1>3. <<>> \in Seq(Nat)
  OBVIOUS
<1>4. Merged = {} /\ \A a \in Actors : ToSet(branch[a]) = {} /\ NoRepeats(branch[a])
  BY <1>1, <1>2, <1>3 DEF Merged
<1>5. \A a \in Actors : Forked(a)
  <2> SUFFICES ASSUME NEW a \in Actors PROVE ForksAt(a, 0)
    BY DEF Forked
  <2> QED
    BY <1>1 DEF ForksAt
<1> QED
  BY <1>1, <1>2, <1>3, <1>4, <1>5 DEF AccountInv

(* A commit is new, so it is neither merged nor on any branch yet.           *)
LEMMA AccountCommit ==
  ASSUME GitTypeOK, AccountInv, NEW a \in Actors, NEW r \in 1 .. Len(runStory), Commit(a, r)
  PROVE  AccountInv'
<1>1. /\ integ' = integ /\ dropped' = dropped /\ Merged' = Merged
      /\ made' = made \cup {r} /\ r \notin made
  BY DEF Commit, Merged
<1>2. integ \in Seq(Nat) /\ \A b \in Actors : branch[b] \in Seq(Nat)
  BY DEF GitTypeOK
<1>3. r \in Nat
  BY DEF GitTypeOK
<1>4. branch'[a] = Append(branch[a], r) /\ \A b \in Actors : b # a => branch'[b] = branch[b]
  BY DEF Commit, GitTypeOK
<1>5. /\ ToSet(branch'[a]) = ToSet(branch[a]) \cup {r}
      /\ \A b \in Actors : b # a => ToSet(branch'[b]) = ToSet(branch[b])
  BY <1>2, <1>3, <1>4, CommitsOfAppend
<1>6. r \notin Merged /\ r \notin dropped /\ \A b \in Actors : r \notin ToSet(branch[b])
  BY <1>1 DEF AccountInv
<1>7. NoRepeats(branch'[a])
  <2> DEFINE p == branch[a]
  <2>1. p \in Seq(Nat) /\ NoRepeats(p) /\ r \notin ToSet(p) /\ branch'[a] = Append(p, r)
    BY <1>2, <1>4, <1>6 DEF AccountInv
  <2> HIDE DEF p
  <2>2. \A i \in 1 .. Len(p) : p[i] # r
    BY <2>1, InHistory
  <2>3. Len(p) \in Nat /\ Len(Append(p, r)) = Len(p) + 1
    BY <2>1
  <2>4. Append(p, r)[Len(p) + 1] = r /\ \A i \in 1 .. Len(p) : Append(p, r)[i] = p[i]
    BY <1>3, <2>1
  <2>5. NoRepeats(Append(p, r))
    BY <2>1, <2>2, <2>3, <2>4 DEF NoRepeats
  <2> QED
    BY <2>1, <2>5
<1>8. Forked(a)'
  <2>1. PICK f \in Nat : ForksAt(a, f)
    BY DEF AccountInv, Forked
  <2> DEFINE p == branch[a]
  <2>2. p \in Seq(Nat) /\ Len(p) \in Nat
    BY <1>2
  <2>3. /\ f <= Len(integ) /\ f <= Len(p) /\ \A i \in 1 .. f : p[i] = integ[i]
        /\ \A i \in (f + 1) .. Len(p) : p[i] \notin Merged
    BY <2>1 DEF ForksAt
  <2> HIDE DEF p
  <2>4. Len(Append(p, r)) = Len(p) + 1 /\ Append(p, r)[Len(p) + 1] = r
        /\ \A i \in 1 .. Len(p) : Append(p, r)[i] = p[i]
    BY <1>3, <2>2
  <2>5. \A i \in 1 .. f : Append(p, r)[i] = integ[i]
    BY <2>2, <2>3, <2>4
  <2>6. \A i \in (f + 1) .. (Len(p) + 1) : Append(p, r)[i] \notin Merged
    BY <1>6, <2>2, <2>3, <2>4
  <2>7. branch'[a] = Append(p, r)
    BY <1>4 DEF p
  <2>8. f <= Len(p) + 1
    BY <2>2, <2>3
  <2>9. ForksAt(a, f)'
    BY <1>1, <2>3, <2>4, <2>5, <2>6, <2>7, <2>8 DEF ForksAt
  <2> QED
    BY <2>9 DEF Forked
<1>9. \A b \in Actors : Forked(b)'
  <2>1. \A b \in Actors : b # a => (Forked(b)' <=> Forked(b))
    BY <1>1, <1>4 DEF Forked, ForksAt
  <2> QED
    BY <1>8, <2>1 DEF AccountInv
<1>10. \A b \in Actors : /\ NoRepeats(branch'[b])
                         /\ ToSet(branch'[b]) \subseteq made'
                         /\ ToSet(branch'[b]) \cap dropped' = {}
  <2> SUFFICES ASSUME NEW b \in Actors
               PROVE  /\ NoRepeats(branch'[b])
                      /\ ToSet(branch'[b]) \subseteq made'
                      /\ ToSet(branch'[b]) \cap dropped' = {}
    OBVIOUS
  <2>1. /\ NoRepeats(branch[b])
        /\ ToSet(branch[b]) \subseteq made
        /\ ToSet(branch[b]) \cap dropped = {}
    BY DEF AccountInv
  <2>2. CASE b = a
    BY <1>1, <1>5, <1>6, <1>7, <2>1, <2>2
  <2>3. CASE b # a
    BY <1>1, <1>4, <2>1, <2>3
  <2> QED
    BY <2>2, <2>3
<1>11. \A b, c \in Actors : b # c =>
         ToSet(branch'[b]) \cap ToSet(branch'[c]) \subseteq Merged'
  BY <1>1, <1>5, <1>6 DEF AccountInv
<1>12. made' \subseteq Merged' \cup dropped' \cup UNION {ToSet(branch'[b]) : b \in Actors}
  <2> SUFFICES ASSUME NEW c \in made', c \notin Merged, c \notin dropped
               PROVE  \E b \in Actors : c \in ToSet(branch'[b])
    BY <1>1
  <2>1. CASE c = r
    BY <1>5, <2>1
  <2>2. CASE c # r
    BY <1>1, <1>5, <2>2 DEF AccountInv
  <2> QED
    BY <2>1, <2>2
<1>13. NoRepeats(integ)' /\ Merged' \subseteq made' /\ dropped' \subseteq made'
       /\ dropped' \cap Merged' = {}
  BY <1>1 DEF AccountInv, NoRepeats
<1> QED
  BY <1>9, <1>10, <1>11, <1>12, <1>13 DEF AccountInv, NoRepeats

(* A rebase puts the unmerged commits of the branch, and no others, on top   *)
(* of integration.                                                           *)
LEMMA AccountRebase ==
  ASSUME GitTypeOK, MergeTypeOK, AccountInv, Rebase
  PROVE  AccountInv'
<1>1. PICK a \in Actors : a = worker.req.actor
  BY WorkerServes DEF Rebase
<1> DEFINE u == Unmerged(a)
<1>2. /\ integ' = integ /\ dropped' = dropped /\ made' = made /\ Merged' = Merged
      /\ branch' = [branch EXCEPT ![a] = integ \o u]
  BY <1>1 DEF Rebase, Merged
<1>3. integ \in Seq(Nat) /\ u \in Seq(Nat)
  BY <1>1, UnmergedType DEF GitTypeOK
<1>4. /\ NoRepeats(u)
      /\ ToSet(u) \subseteq ToSet(branch[a])
      /\ ToSet(u) \cap Merged = {}
      /\ ToSet(branch[a]) \subseteq Merged \cup ToSet(u)
  BY <1>1, UnmergedCommits DEF AccountInv
<1>5. branch'[a] = integ \o u /\ \A b \in Actors : b # a => branch'[b] = branch[b]
  BY <1>1, <1>2 DEF GitTypeOK
<1> HIDE DEF u
<1>6. /\ ToSet(branch'[a]) = Merged \cup ToSet(u)
      /\ \A b \in Actors : b # a => ToSet(branch'[b]) = ToSet(branch[b])
  BY <1>3, <1>5, CommitsOfConcat DEF Merged
<1>7. /\ Len(integ) \in Nat /\ Len(u) \in Nat /\ Len(integ \o u) = Len(integ) + Len(u)
      /\ \A i \in 1 .. Len(integ) : (integ \o u)[i] = integ[i]
      /\ \A i \in 1 .. Len(u) : (integ \o u)[Len(integ) + i] = u[i]
  BY <1>3
<1>8. \A i \in (Len(integ) + 1) .. (Len(integ) + Len(u)) :
        /\ i - Len(integ) \in 1 .. Len(u)
        /\ (integ \o u)[i] = u[i - Len(integ)]
        /\ (integ \o u)[i] \notin Merged
  <2> SUFFICES ASSUME NEW i \in (Len(integ) + 1) .. (Len(integ) + Len(u))
               PROVE  /\ i - Len(integ) \in 1 .. Len(u)
                      /\ (integ \o u)[i] = u[i - Len(integ)]
                      /\ (integ \o u)[i] \notin Merged
    OBVIOUS
  <2>1. i - Len(integ) \in 1 .. Len(u) /\ Len(integ) + (i - Len(integ)) = i
    BY <1>7
  <2>2. (integ \o u)[i] = u[i - Len(integ)]
    BY <1>7, <2>1
  <2>3. u[i - Len(integ)] \in ToSet(u)
    BY <1>3, <2>1, InHistory
  <2> QED
    BY <1>4, <2>1, <2>2, <2>3
<1>9. NoRepeats(integ \o u)
  <2> SUFFICES ASSUME NEW i \in 1 .. Len(integ \o u), NEW j \in 1 .. Len(integ \o u),
                      (integ \o u)[i] = (integ \o u)[j]
               PROVE  i = j
    BY DEF NoRepeats
  <2>1. \A k \in 1 .. Len(integ) : (integ \o u)[k] \in Merged
    BY <1>3, <1>7, InHistory DEF Merged
  <2>2. CASE i <= Len(integ) /\ j <= Len(integ)
    <3>1. i \in 1 .. Len(integ) /\ j \in 1 .. Len(integ)
      BY <1>7, <2>2
    <3>2. integ[i] = integ[j]
      BY <1>7, <3>1
    <3> QED
      BY <3>1, <3>2 DEF AccountInv, NoRepeats
  <2>3. CASE i > Len(integ) /\ j > Len(integ)
    <3>1. i \in (Len(integ) + 1) .. (Len(integ) + Len(u))
          /\ j \in (Len(integ) + 1) .. (Len(integ) + Len(u))
      BY <1>7, <2>3
    <3>2. u[i - Len(integ)] = u[j - Len(integ)]
      BY <1>8, <3>1
    <3>3. i - Len(integ) = j - Len(integ)
      BY <1>4, <1>8, <3>1, <3>2 DEF NoRepeats
    <3> QED
      BY <1>7, <3>1, <3>3
  <2>4. CASE i <= Len(integ) /\ j > Len(integ)
    <3>1. i \in 1 .. Len(integ) /\ j \in (Len(integ) + 1) .. (Len(integ) + Len(u))
      BY <1>7, <2>4
    <3> QED
      BY <1>8, <2>1, <3>1
  <2>5. CASE i > Len(integ) /\ j <= Len(integ)
    <3>1. j \in 1 .. Len(integ) /\ i \in (Len(integ) + 1) .. (Len(integ) + Len(u))
      BY <1>7, <2>5
    <3> QED
      BY <1>8, <2>1, <3>1
  <2>6. i \in Nat /\ j \in Nat
    BY <1>7
  <2> QED
    BY <1>7, <2>2, <2>3, <2>4, <2>5, <2>6
<1>10. Forked(a)'
  <2>1. PICK f \in Nat : f = Len(integ)
    BY <1>7
  <2>2. ForksAt(a, f)'
    BY <1>2, <1>5, <1>7, <1>8, <2>1 DEF ForksAt
  <2> QED
    BY <2>2 DEF Forked
<1>11. \A b \in Actors : /\ NoRepeats(branch'[b])
                         /\ ToSet(branch'[b]) \subseteq made'
                         /\ ToSet(branch'[b]) \cap dropped' = {}
                         /\ Forked(b)'
  <2> SUFFICES ASSUME NEW b \in Actors
               PROVE  /\ NoRepeats(branch'[b])
                      /\ ToSet(branch'[b]) \subseteq made'
                      /\ ToSet(branch'[b]) \cap dropped' = {}
                      /\ Forked(b)'
    OBVIOUS
  <2>1. /\ NoRepeats(branch[b])
        /\ ToSet(branch[b]) \subseteq made
        /\ ToSet(branch[b]) \cap dropped = {}
        /\ Forked(b)
        /\ Merged \subseteq made /\ Merged \cap dropped = {}
    BY DEF AccountInv
  <2>2. CASE b = a
    BY <1>2, <1>4, <1>5, <1>6, <1>9, <1>10, <2>1, <2>2
  <2>3. CASE b # a
    <3>1. PICK f \in Nat : ForksAt(b, f)
      BY <2>1 DEF Forked
    <3>2. branch'[b] = branch[b] /\ integ' = integ /\ Merged' = Merged
      BY <1>2, <1>5, <2>3
    <3>3. ForksAt(b, f)'
      BY <3>1, <3>2 DEF ForksAt
    <3>4. Forked(b)'
      BY <3>3 DEF Forked
    <3> QED
      BY <1>2, <2>1, <3>2, <3>4
  <2> QED
    BY <2>2, <2>3
<1>12. \A b, c \in Actors : b # c =>
         ToSet(branch'[b]) \cap ToSet(branch'[c]) \subseteq Merged'
  BY <1>2, <1>4, <1>6 DEF AccountInv
<1>13. made' \subseteq Merged' \cup dropped' \cup UNION {ToSet(branch'[b]) : b \in Actors}
  <2> SUFFICES ASSUME NEW c \in made, c \notin Merged, c \notin dropped
               PROVE  \E b \in Actors : c \in ToSet(branch'[b])
    BY <1>2
  <2>1. PICK b \in Actors : c \in ToSet(branch[b])
    BY DEF AccountInv
  <2>2. c \in ToSet(branch'[b])
    BY <1>4, <1>6, <2>1
  <2> QED
    BY <2>2
<1>14. NoRepeats(integ)' /\ Merged' \subseteq made' /\ dropped' \subseteq made'
       /\ dropped' \cap Merged' = {}
  BY <1>2 DEF AccountInv, NoRepeats
<1> QED
  BY <1>11, <1>12, <1>13, <1>14 DEF AccountInv, NoRepeats

(* A conflict throws away what only the branch of its request had.           *)
LEMMA AccountConflict ==
  ASSUME GitTypeOK, MergeTypeOK, AccountInv, RebaseConflict
  PROVE  AccountInv'
<1>1. PICK a \in Actors : a = worker.req.actor
  BY WorkerServes DEF RebaseConflict
<1> DEFINE u == Unmerged(a)
<1>2. /\ integ' = integ /\ made' = made /\ Merged' = Merged
      /\ dropped' = dropped \cup ToSet(u)
      /\ branch' = [branch EXCEPT ![a] = integ]
  BY <1>1 DEF RebaseConflict, Merged
<1>3. integ \in Seq(Nat) /\ Len(integ) \in Nat
  BY DEF GitTypeOK
<1>4. /\ ToSet(u) \subseteq ToSet(branch[a])
      /\ ToSet(u) \cap Merged = {}
      /\ ToSet(branch[a]) \subseteq Merged \cup ToSet(u)
  BY <1>1, UnmergedCommits DEF AccountInv
<1>5. branch'[a] = integ /\ \A b \in Actors : b # a => branch'[b] = branch[b]
  BY <1>1, <1>2 DEF GitTypeOK
<1> HIDE DEF u
<1>6. ToSet(branch'[a]) = Merged
  BY <1>5 DEF Merged
<1>7. Forked(a)'
  <2>1. \A i \in (Len(integ) + 1) .. Len(integ) : FALSE
    BY <1>3
  <2>2. PICK f \in Nat : f = Len(integ)
    BY <1>3
  <2>3. ForksAt(a, f)'
    BY <1>2, <1>3, <1>5, <2>1, <2>2 DEF ForksAt
  <2> QED
    BY <2>3 DEF Forked
<1>8. \A b \in Actors : /\ NoRepeats(branch'[b])
                        /\ ToSet(branch'[b]) \subseteq made'
                        /\ ToSet(branch'[b]) \cap dropped' = {}
                        /\ Forked(b)'
  <2> SUFFICES ASSUME NEW b \in Actors
               PROVE  /\ NoRepeats(branch'[b])
                      /\ ToSet(branch'[b]) \subseteq made'
                      /\ ToSet(branch'[b]) \cap dropped' = {}
                      /\ Forked(b)'
    OBVIOUS
  <2>1. /\ NoRepeats(branch[b]) /\ NoRepeats(integ)
        /\ ToSet(branch[b]) \subseteq made
        /\ ToSet(branch[b]) \cap dropped = {}
        /\ Forked(b)
        /\ Merged \subseteq made /\ Merged \cap dropped = {}
        /\ b # a => ToSet(branch[a]) \cap ToSet(branch[b]) \subseteq Merged
    BY <1>1 DEF AccountInv
  <2>2. CASE b = a
    BY <1>2, <1>4, <1>5, <1>6, <1>7, <2>1, <2>2
  <2>3. CASE b # a
    <3>1. PICK f \in Nat : ForksAt(b, f)
      BY <2>1 DEF Forked
    <3>2. branch'[b] = branch[b] /\ integ' = integ /\ Merged' = Merged
      BY <1>2, <1>5, <2>3
    <3>3. ForksAt(b, f)'
      BY <3>1, <3>2 DEF ForksAt
    <3>4. Forked(b)'
      BY <3>3 DEF Forked
    <3>5. ToSet(branch[b]) \cap ToSet(u) = {}
      BY <1>4, <2>1, <2>3
    <3> QED
      BY <1>2, <2>1, <3>2, <3>4, <3>5
  <2> QED
    BY <2>2, <2>3
<1>9. \A b, c \in Actors : b # c =>
        ToSet(branch'[b]) \cap ToSet(branch'[c]) \subseteq Merged'
  BY <1>2, <1>5, <1>6 DEF AccountInv
<1>10. made' \subseteq Merged' \cup dropped' \cup UNION {ToSet(branch'[b]) : b \in Actors}
  <2> SUFFICES ASSUME NEW c \in made, c \notin Merged, c \notin dropped, c \notin ToSet(u)
               PROVE  \E b \in Actors : c \in ToSet(branch'[b])
    BY <1>2
  <2>1. PICK b \in Actors : c \in ToSet(branch[b])
    BY DEF AccountInv
  <2>2. b # a
    BY <1>4, <2>1
  <2> QED
    BY <1>5, <2>1, <2>2
<1>11. NoRepeats(integ)' /\ Merged' \subseteq made' /\ dropped' \subseteq made'
       /\ dropped' \cap Merged' = {}
  <2>1. ToSet(u) \subseteq made
    BY <1>1, <1>4 DEF AccountInv
  <2> QED
    BY <1>2, <1>4, <2>1 DEF AccountInv, NoRepeats
<1> QED
  BY <1>8, <1>9, <1>10, <1>11 DEF AccountInv, NoRepeats

(* A fast-forward merges what the branch of its request has, which no other  *)
(* branch shares and no conflict threw away.                                 *)
LEMMA AccountFastForward ==
  ASSUME GitTypeOK, MergeTypeOK, AccountInv, FastForward
  PROVE  AccountInv'
<1> DEFINE a == worker.req.actor
           p == branch[a]
<1>1. a \in Actors
  BY WorkerServes DEF FastForward, MergeCompleted
<1>2. /\ branch' = branch /\ dropped' = dropped /\ made' = made
      /\ integ' = p /\ Merged' = ToSet(p)
  BY DEF FastForward, Merged
<1>3. p \in Seq(Nat) /\ integ \in Seq(Nat) /\ Len(p) \in Nat /\ Len(integ) \in Nat
  BY <1>1 DEF GitTypeOK
<1>4. /\ Len(integ) <= Len(p)
      /\ \A i \in 1 .. Len(integ) : p[i] = integ[i]
      /\ Merged \subseteq ToSet(p)
  <2>1. IsPrefix(integ, p)
    BY DEF FastForward
  <2> QED
    BY Zenon, <1>3, <2>1, CommitsOfPrefix DEF Merged
<1>5. /\ NoRepeats(p) /\ ToSet(p) \subseteq made /\ ToSet(p) \cap dropped = {}
      /\ \A b \in Actors : b # a => ToSet(p) \cap ToSet(branch[b]) \subseteq Merged
  BY <1>1 DEF AccountInv
<1>6. branch[a] = p
  OBVIOUS
<1> HIDE DEF a, p
<1>7. ASSUME NEW b \in Actors PROVE Forked(b)'
  <2>1. PICK f \in Nat : ForksAt(b, f)
    BY DEF AccountInv, Forked
  <2>2. /\ f <= Len(integ) /\ f <= Len(branch[b])
        /\ \A i \in 1 .. f : branch[b][i] = integ[i]
        /\ \A i \in (f + 1) .. Len(branch[b]) : branch[b][i] \notin Merged
    BY <2>1 DEF ForksAt
  <2>3. branch[b] \in Seq(Nat) /\ Len(branch[b]) \in Nat
    BY DEF GitTypeOK
  <2>4. CASE b = a
    <3>1. \A i \in (Len(p) + 1) .. Len(p) : FALSE
      BY <1>3
    <3>2. PICK k \in Nat : k = Len(p)
      BY <1>3
    <3>3. ForksAt(b, k)'
      BY <1>2, <1>3, <1>6, <2>4, <3>1, <3>2 DEF ForksAt
    <3> QED
      BY <3>3 DEF Forked
  <2>5. CASE b # a
    <3>1. f <= Len(p) /\ \A i \in 1 .. f : branch[b][i] = p[i]
      BY <1>3, <1>4, <2>2
    <3>2. ASSUME NEW i \in (f + 1) .. Len(branch[b])
          PROVE  branch[b][i] \notin ToSet(p)
      <4>1. i \in 1 .. Len(branch[b])
        BY <2>3
      <4>2. branch[b][i] \in ToSet(branch[b]) /\ branch[b][i] \notin Merged
        BY <2>2, <2>3, <4>1, InHistory
      <4> QED
        BY <1>5, <2>5, <4>2
    <3>3. ForksAt(b, f)'
      BY <1>2, <2>2, <3>1, <3>2 DEF ForksAt
    <3> QED
      BY <3>3 DEF Forked
  <2> QED
    BY <2>4, <2>5
<1>8. \A b \in Actors : /\ NoRepeats(branch[b])
                        /\ ToSet(branch[b]) \subseteq made
                        /\ ToSet(branch[b]) \cap dropped = {}
  BY DEF AccountInv
<1>9. \A b, c \in Actors : b # c => ToSet(branch[b]) \cap ToSet(branch[c]) \subseteq ToSet(p)
  BY <1>4 DEF AccountInv
<1>10. made \subseteq ToSet(p) \cup dropped \cup UNION {ToSet(branch[b]) : b \in Actors}
  BY <1>4 DEF AccountInv
<1>11. dropped \subseteq made
  BY DEF AccountInv
<1> QED
  BY <1>2, <1>5, <1>7, <1>8, <1>9, <1>10, <1>11 DEF AccountInv, NoRepeats

(* The other steps touch no branch.                                          *)
LEMMA AccountStep ==
  ASSUME GitInv, AccountInv, [Next]_vars
  PROVE  AccountInv'
<1>1. GitTypeOK /\ MergeTypeOK
  BY DEF GitInv
<1>2. CASE UNCHANGED <<integ, branch, made, dropped>>
  BY <1>2 DEF AccountInv, NoRepeats, Forked, ForksAt, Merged
<1>3. CASE \E a \in Actors : \E r \in 1 .. Len(runStory) : Commit(a, r)
  BY <1>1, <1>3, AccountCommit
<1>4. CASE Rebase
  BY <1>1, <1>4, AccountRebase
<1>5. CASE RebaseConflict
  BY <1>1, <1>5, AccountConflict
<1>6. CASE FastForward
  BY <1>1, <1>6, AccountFastForward
<1>7. CASE \/ UNCHANGED vars
           \/ TakeRequest
           \/ MergeFails
           \/ CollectionCheck
           \/ \E a \in Actors : \/ \E s \in Stories : StartRun(a, s)
                                \/ RunSucceeds(a)
                                \/ RunFails(a)
                                \/ RunTimesOut(a)
  <2>1. UNCHANGED <<integ, branch, made, dropped>>
    BY <1>7
    DEF vars, gitVars, TakeRequest, MergeFails, CollectionCheck, StartRun, RunSucceeds,
        RunFails, RunTimesOut
  <2> QED
    BY <1>2, <2>1
<1> QED
  BY Zenon, <1>3, <1>4, <1>5, <1>6, <1>7 DEF Next

(* No commit is lost by the merge worker's rebases and resets or doubled on   *)
(* integration (_attempt_merge), however agents, runs that were given up on   *)
(* and the worker interleave on the branches: each commit is on integration,  *)
(* on a branch, or was thrown away by a conflict and is then not merged.      *)
THEOREM NoCommitIsLost == Spec => []CommitsAccounted
<1>1. AccountInv => CommitsAccounted
  BY DEF AccountInv, CommitsAccounted, NoRepeats
<1>2. GitInv /\ AccountInv /\ [Next]_vars => AccountInv'
  BY AccountStep
<1> QED
  BY <1>1, <1>2, AccountInit, GitInvariant, PTL DEF Spec

-----------------------------------------------------------------------------
(* What is handed over is merged (HandedOverIsMerged).  A commit that is      *)
(* merged, thrown away or on an agent's branch stays so for that agent       *)
(* (Kept): between the end of a run and the merge of its story, the commit   *)
(* can only move along.  The rest of the invariant says that run, request    *)
(* and story always mean the same agent, the story's assignee.               *)
Kept(a) == Merged \cup dropped \cup ToSet(branch[a])

OwnersInv ==
  /\ state \in [Stories -> States]
  /\ assignee \in [Stories -> Actors \cup {None}]
  /\ \A a \in Actors : work[a] # None => assignee[work[a]] = a
  /\ \A i \in 1 .. Len(queue) : assignee[queue[i].story] = queue[i].actor
  /\ worker.phase # "idle" => assignee[worker.req.story] = worker.req.actor

RunsInv ==
  /\ made \subseteq 1 .. Len(runStory)
  /\ \A l \in late : l[2] \in 1 .. Len(runStory)
  /\ \A a \in Actors : work[a] # None =>
       /\ run[a].id \in 1 .. Len(runStory)
       /\ \A b \in Actors : work[b] # None /\ run[b].id = run[a].id => b = a
       /\ \A l \in late : l[2] # run[a].id

HandoverInv ==
  /\ OwnersInv
  /\ RunsInv
  /\ \A a \in Actors : work[a] # None /\ run[a].id \in made => run[a].id \in Kept(a)
  /\ \A s \in Stories : delivered[s] # 0 =>
       \E a \in Actors : assignee[s] = a /\ delivered[s] \in Kept(a)
  /\ HandedOverIsMerged

(* The invariant holds when a team starts.                                   *)
LEMMA HandoverInit == Init => HandoverInv
<1> SUFFICES ASSUME Init PROVE HandoverInv
  OBVIOUS
<1>1. /\ state = [s \in Stories |-> "ready"]
      /\ assignee = [s \in Stories |-> None]
      /\ queue = <<>>
      /\ worker = [phase |-> "idle", req |-> NoRequest]
      /\ work = [a \in Actors |-> None]
      /\ late = {} /\ made = {} /\ delivered = [s \in Stories |-> 0]
  BY DEF Init, MergeInit, DeliveryInit
<1>2. OwnersInv
  BY <1>1 DEF OwnersInv, States
<1>3. RunsInv
  BY <1>1 DEF RunsInv
<1> QED
  BY <1>1, <1>2, <1>3 DEF HandoverInv, HandedOverIsMerged

(* No step takes a commit away from where an agent, the worker or a conflict  *)
(* has put it.                                                               *)
LEMMA CommitsAreKept ==
  ASSUME GitInv, AccountInv, [Next]_vars
  PROVE  /\ Merged \cup dropped \subseteq Merged' \cup dropped'
         /\ \A a \in Actors : Kept(a) \subseteq Kept(a)'
<1>1. GitTypeOK /\ MergeTypeOK
  BY DEF GitInv
<1>2. integ \in Seq(Nat) /\ \A a \in Actors : branch[a] \in Seq(Nat)
  BY <1>1 DEF GitTypeOK
<1>3. CASE UNCHANGED <<integ, branch, dropped>>
  BY <1>3 DEF Kept, Merged
<1>4. CASE \E b \in Actors : \E r \in 1 .. Len(runStory) : Commit(b, r)
  <2> PICK b \in Actors, r \in 1 .. Len(runStory) : Commit(b, r)
    BY <1>4
  <2>1. UNCHANGED <<integ, dropped>> /\ Merged' = Merged
    BY DEF Commit, Merged
  <2>2. r \in Nat
    BY <1>1 DEF GitTypeOK
  <2>3. \A a \in Actors : branch'[a] \in {branch[a], Append(branch[a], r)}
    BY <1>1 DEF Commit, GitTypeOK
  <2>4. ASSUME NEW a \in Actors PROVE ToSet(branch[a]) \subseteq ToSet(branch'[a])
    <3>1. branch'[a] = branch[a] \/ branch'[a] = Append(branch[a], r)
      BY <2>3
    <3>2. ToSet(Append(branch[a], r)) = ToSet(branch[a]) \cup {r}
      BY <1>2, <2>2, CommitsOfAppend
    <3> QED
      BY Zenon, <3>1, <3>2
  <2> QED
    BY <2>1, <2>4 DEF Kept
<1>5. CASE Rebase
  <2>1. PICK b \in Actors : b = worker.req.actor
    BY <1>1, <1>5, WorkerServes DEF Rebase
  <2>2. UNCHANGED <<integ, dropped>> /\ Merged' = Merged
    BY <1>5 DEF Rebase, Merged
  <2>3. branch'[b] = integ \o Unmerged(b) /\ \A a \in Actors : a # b => branch'[a] = branch[a]
    BY <1>1, <1>5, <2>1 DEF Rebase, GitTypeOK
  <2>4. ToSet(branch'[b]) = Merged \cup ToSet(Unmerged(b))
    BY <1>1, <1>2, <2>3, UnmergedType, CommitsOfConcat DEF Merged
  <2>5. ToSet(branch[b]) \subseteq Merged \cup ToSet(Unmerged(b))
    BY <1>1, UnmergedCommits DEF AccountInv
  <2>6. \A a \in Actors : ToSet(branch[a]) \subseteq Merged \cup ToSet(branch'[a])
    BY <2>3, <2>4, <2>5
  <2> QED
    BY <2>2, <2>6 DEF Kept
<1>6. CASE RebaseConflict
  <2>1. PICK b \in Actors : b = worker.req.actor
    BY <1>1, <1>6, WorkerServes DEF RebaseConflict
  <2>2. Merged' = Merged /\ dropped' = dropped \cup ToSet(Unmerged(b))
    BY <1>6, <2>1 DEF RebaseConflict, Merged
  <2>3. \A a \in Actors : a # b => branch'[a] = branch[a]
    BY <1>1, <1>6, <2>1 DEF RebaseConflict, GitTypeOK
  <2>4. ToSet(branch[b]) \subseteq Merged \cup ToSet(Unmerged(b))
    BY <1>1, UnmergedCommits DEF AccountInv
  <2>5. \A a \in Actors : ToSet(branch[a]) \subseteq Merged' \cup dropped' \cup ToSet(branch'[a])
    BY <2>2, <2>3, <2>4
  <2> QED
    BY <2>2, <2>5 DEF Kept
<1>7. CASE FastForward
  <2>1. UNCHANGED <<branch, dropped>> /\ integ' = branch[worker.req.actor]
    BY <1>7 DEF FastForward
  <2>2. worker.req.actor \in Actors
    BY <1>1, <1>7, WorkerServes DEF FastForward, MergeCompleted
  <2>3. Merged \subseteq Merged'
    BY <1>2, <1>7, <2>1, <2>2, CommitsOfPrefix DEF FastForward, Merged
  <2> QED
    BY <2>1, <2>3 DEF Kept
<1>8. CASE \/ UNCHANGED vars
           \/ TakeRequest
           \/ MergeFails
           \/ CollectionCheck
           \/ \E a \in Actors : \/ \E s \in Stories : StartRun(a, s)
                                \/ RunSucceeds(a)
                                \/ RunFails(a)
                                \/ RunTimesOut(a)
  <2>1. UNCHANGED <<integ, branch, dropped>>
    BY <1>8
    DEF vars, gitVars, TakeRequest, MergeFails, CollectionCheck, StartRun, RunSucceeds,
        RunFails, RunTimesOut
  <2> QED
    BY <1>3, <2>1
<1> QED
  BY Zenon, <1>4, <1>5, <1>6, <1>7, <1>8 DEF Next

(* Only a free story, or one of the agent's own, can be claimed: nobody who   *)
(* works on a story, waits for its merge or merges it loses it.              *)
LEMMA OwnersStep ==
  ASSUME GitInv, OwnersInv, [Next]_vars
  PROVE  OwnersInv'
<1> USE DEF OwnersInv
<1>1. MergeTypeOK /\ WorkType /\ None \notin Actors /\ None \notin Stories
  BY BoardAssumption DEF GitInv
<1>2. ASSUME NEW s, NEW to, to \in States, Move(s, to)
      PROVE  state' \in [Stories -> States]
  BY <1>2 DEF Move
<1>3. ASSUME NEW s, NEW to, to \in States, TryMove(s, to)
      PROVE  state' \in [Stories -> States]
  BY <1>2, <1>3 DEF TryMove
<1>4. {"ready", "in_progress", "review", "pending_acceptance", "blocked"} \subseteq States
  BY DEF States
<1>5. CASE UNCHANGED <<state, assignee, work, queue, worker>>
  BY <1>5
<1>6. CASE \E a \in Actors : \E s \in Stories : StartRun(a, s)
  <2> PICK a \in Actors, s \in Stories : StartRun(a, s)
    BY <1>6
  <2>1. /\ Pull(a, s, 0) /\ UNCHANGED <<queue, worker>>
        /\ work[a] = None /\ work' = [work EXCEPT ![a] = s]
        /\ assignee[s] \in {None, a} /\ assignee' = [assignee EXCEPT ![s] = a]
        /\ Move(s, "in_progress")
    BY DEF StartRun, Pull, Idle, ClaimStory, Candidates, mergeVars
  <2>2. state' \in [Stories -> States]
    BY <1>2, <1>4, <2>1
  <2>3. assignee' \in [Stories -> Actors \cup {None}]
    BY <2>1
  <2>4. \A t \in Stories : assignee[t] # None => assignee'[t] = assignee[t]
    BY <2>1
  <2>5. \A b \in Actors : work'[b] # None => assignee'[work'[b]] = b
    BY <1>1, <2>1, <2>4 DEF WorkType
  <2>6. \A i \in 1 .. Len(queue) : assignee'[queue[i].story] = queue[i].actor
    <3> SUFFICES ASSUME NEW i \in 1 .. Len(queue)
                 PROVE  assignee'[queue[i].story] = queue[i].actor
      OBVIOUS
    <3>1. queue[i] \in Requests
      BY <1>1 DEF MergeTypeOK
    <3>2. queue[i].story \in Stories /\ queue[i].actor \in Actors
      BY <3>1 DEF Requests
    <3>3. assignee[queue[i].story] = queue[i].actor
      OBVIOUS
    <3> QED
      BY <1>1, <2>4, <3>2, <3>3
  <2>7. worker.phase # "idle" => assignee'[worker.req.story] = worker.req.actor
    BY <1>1, <2>4 DEF MergeTypeOK, Requests
  <2> QED
    BY <2>1, <2>2, <2>3, <2>5, <2>6, <2>7
<1>7. CASE \E a \in Actors : RunSucceeds(a)
  <2> PICK a \in Actors : RunSucceeds(a)
    BY <1>7
  <2>1. /\ work[a] # None /\ Move(work[a], "review") /\ UNCHANGED <<assignee, worker>>
        /\ queue' = Append(queue, [story |-> work[a], actor |-> a])
        /\ work' = [work EXCEPT ![a] = None]
    BY DEF RunSucceeds, CommitLanded, Enqueue, Free
  <2>2. state' \in [Stories -> States]
    BY <1>2, <1>4, <2>1
  <2>3. \A b \in Actors : work'[b] # None => work'[b] = work[b]
    BY <1>1, <2>1 DEF WorkType
  <2>4. \A i \in 1 .. Len(queue') : assignee[queue'[i].story] = queue'[i].actor
    BY <1>1, <2>1 DEF MergeTypeOK
  <2> QED
    BY <2>1, <2>2, <2>3, <2>4
<1>8. CASE \E a \in Actors : RunFails(a) \/ RunTimesOut(a)
  <2> PICK a \in Actors, hard \in BOOLEAN : NoCommit(a, hard)
    BY <1>8 DEF RunFails, RunTimesOut
  <2>1. /\ Move(work[a], "ready") \/ TryMove(work[a], "blocked")
        /\ UNCHANGED <<assignee, queue, worker>>
        /\ work' = [work EXCEPT ![a] = None]
    BY DEF NoCommit, Free, mergeVars
  <2>2. state' \in [Stories -> States]
    BY <1>2, <1>3, <1>4, <2>1
  <2>3. \A b \in Actors : work'[b] # None => work'[b] = work[b]
    BY <1>1, <2>1 DEF WorkType
  <2> QED
    BY <2>1, <2>2, <2>3
<1>9. CASE TakeRequest
  <2>1. /\ UNCHANGED <<state, assignee, work>> /\ queue # <<>>
        /\ worker' = [phase |-> "merging", req |-> Head(queue)]
        /\ queue' = Tail(queue)
    BY <1>9 DEF TakeRequest, Dequeue, boardVars, deliveryVars
  <2>2. assignee[Head(queue).story] = Head(queue).actor
    BY <1>1, <2>1 DEF MergeTypeOK
  <2>3. \A i \in 1 .. Len(queue') : assignee[queue'[i].story] = queue'[i].actor
    BY <1>1, <2>1 DEF MergeTypeOK
  <2> QED
    BY <2>1, <2>2, <2>3
<1>10. CASE RebaseConflict \/ MergeFails
  <2>1. /\ TryMove(worker.req.story, "blocked") /\ worker'.phase = "idle"
        /\ UNCHANGED <<assignee, work, queue>>
    BY <1>10 DEF RebaseConflict, MergeFails, MergeConflict, WorkerIdle, deliveryVars
  <2>2. state' \in [Stories -> States]
    BY <1>3, <1>4, <2>1
  <2> QED
    BY <2>1, <2>2
<1>11. CASE FastForward
  <2>1. /\ TryMove(worker.req.story, "pending_acceptance") /\ worker.phase = "merging"
        /\ worker'.phase = "idle" \/ worker'.req = worker.req
        /\ UNCHANGED <<assignee, work, queue>>
    BY <1>1, <1>11 DEF FastForward, MergeCompleted, WorkerIdle, deliveryVars, MergeTypeOK
  <2>2. state' \in [Stories -> States]
    BY <1>3, <1>4, <2>1
  <2> QED
    BY <2>1, <2>2
<1>12. CASE CollectionCheck
  <2>1. /\ Move(worker.req.story, "ready") \/ UNCHANGED state
        /\ worker'.phase = "idle"
        /\ UNCHANGED <<assignee, work, queue>>
    BY <1>12
    DEF CollectionCheck, GateOK, GateBroken, WorkerIdle, deliveryVars, boardVars
  <2>2. state' \in [Stories -> States]
    BY <1>2, <1>4, <2>1
  <2> QED
    BY <2>1, <2>2
<1>13. CASE \/ UNCHANGED vars
            \/ Rebase
            \/ \E a \in Actors : \E r \in 1 .. Len(runStory) : Commit(a, r)
  BY <1>5, <1>13 DEF vars, boardVars, mergeVars, deliveryVars, Rebase, Commit
<1> QED
  BY Zenon, <1>6, <1>7, <1>8, <1>9, <1>10, <1>11, <1>12, <1>13 DEF Next

(* Executor runs are told apart, the given-up ones too, and commit only       *)
(* under their own names.                                                    *)
LEMMA RunsStep ==
  ASSUME GitInv, RunsInv, [Next]_vars
  PROVE  RunsInv'
<1> USE DEF RunsInv
<1>1. /\ GitTypeOK /\ WorkType /\ None \notin Actors /\ None \notin Stories
      /\ Len(runStory) \in Nat
  BY BoardAssumption DEF GitInv, GitTypeOK
<1>2. CASE UNCHANGED <<work, run, late, made, runStory>>
  BY <1>2
<1>3. CASE \E a \in Actors : \E s \in Stories : StartRun(a, s)
  <2> PICK a \in Actors, s \in Stories : StartRun(a, s)
    BY <1>3
  <2> DEFINE n == Len(runStory) + 1
  <2>1. /\ work' = [work EXCEPT ![a] = s] /\ UNCHANGED <<late, made>>
        /\ runStory' = Append(runStory, s)
        /\ run' = [run EXCEPT ![a] = [id |-> n, base |-> branch[a]]]
    BY DEF StartRun, Pull
  <2>2. Len(runStory') = n /\ n \in Nat /\ 1 .. Len(runStory) \subseteq 1 .. n
        /\ n \in 1 .. n /\ n \notin 1 .. Len(runStory)
    BY <1>1, <2>1 DEF GitTypeOK
  <2>3. run'[a].id = n /\ \A b \in Actors : b # a => run'[b] = run[b] /\ work'[b] = work[b]
    BY <1>1, <2>1 DEF GitTypeOK, WorkType
  <2> HIDE DEF n
  <2>4. made' \subseteq 1 .. n /\ \A l \in late' : l[2] \in 1 .. n
    BY <2>1, <2>2
  <2>5. ASSUME NEW b \in Actors, work'[b] # None
        PROVE  /\ run'[b].id \in 1 .. n
               /\ \A c \in Actors : work'[c] # None /\ run'[c].id = run'[b].id => c = b
               /\ \A l \in late' : l[2] # run'[b].id
    <3>1. CASE b = a
      BY <2>1, <2>2, <2>3, <3>1
    <3>2. CASE b # a
      BY <2>1, <2>2, <2>3, <2>5, <3>2
    <3> QED
      BY <3>1, <3>2
  <2> QED
    BY <2>2, <2>4, <2>5
<1>4. CASE \E a \in Actors : \E r \in 1 .. Len(runStory) : Commit(a, r)
  BY <1>4 DEF Commit, deliveryVars
<1>5. CASE \E a \in Actors : RunSucceeds(a) \/ RunFails(a)
  <2> PICK a \in Actors : RunSucceeds(a) \/ RunFails(a)
    BY <1>5
  <2>1. work' = [work EXCEPT ![a] = None] /\ run' = [run EXCEPT ![a] = NoRun]
        /\ UNCHANGED <<late, made, runStory>>
    BY DEF RunSucceeds, CommitLanded, RunFails, NoCommit, Free
  <2>2. \A b \in Actors : work'[b] # None => work'[b] = work[b] /\ run'[b] = run[b]
    BY <1>1, <2>1 DEF GitTypeOK, WorkType
  <2> QED
    BY <2>1, <2>2
<1>6. CASE \E a \in Actors : RunTimesOut(a)
  <2> PICK a \in Actors : RunTimesOut(a)
    BY <1>6
  <2>1. /\ work[a] # None
        /\ work' = [work EXCEPT ![a] = None] /\ run' = [run EXCEPT ![a] = NoRun]
        /\ late' = late \cup {<<a, run[a].id>>} /\ UNCHANGED <<made, runStory>>
    BY DEF RunTimesOut, NoCommit, Free
  <2>2. \A b \in Actors : work'[b] # None => b # a /\ work'[b] = work[b] /\ run'[b] = run[b]
    BY <1>1, <2>1 DEF GitTypeOK, WorkType
  <2>3. \A l \in late' : l \in late \/ l[2] = run[a].id
    BY <2>1
  <2>4. \A l \in late' : l[2] \in 1 .. Len(runStory)
    BY <2>1, <2>3
  <2>5. ASSUME NEW b \in Actors, work'[b] # None
        PROVE  \A l \in late' : l[2] # run'[b].id
    BY <2>1, <2>2, <2>3, <2>5
  <2> QED
    BY <2>1, <2>2, <2>4, <2>5
<1>7. CASE UNCHANGED vars \/ TakeRequest \/ CollectionCheck \/ Rebase \/ RebaseConflict
           \/ MergeFails \/ FastForward
  BY <1>2, <1>7
  DEF vars, gitVars, deliveryVars, TakeRequest, CollectionCheck, Rebase, RebaseConflict,
      MergeFails, FastForward
<1> QED
  BY Zenon, <1>3, <1>4, <1>5, <1>6, <1>7 DEF Next

(* The commit of a run that is going on is where its own agent can lose it    *)
(* to nobody but a conflict of its own.                                      *)
LEMMA RunsKeepCommits ==
  ASSUME GitInv, AccountInv, HandoverInv, [Next]_vars,
         NEW a \in Actors, work'[a] # None, run'[a].id \in made'
  PROVE  run'[a].id \in Kept(a)'
<1>1. /\ GitTypeOK /\ WorkType /\ RunsInv
      /\ work[a] # None /\ run[a].id \in made => run[a].id \in Kept(a)
  BY DEF GitInv, HandoverInv
<1>2. Kept(a) \subseteq Kept(a)'
  BY CommitsAreKept
<1>3. CASE work'[a] = work[a] /\ run'[a] = run[a] /\ made' = made
  BY <1>1, <1>2, <1>3
<1>4. CASE \E b \in Actors : \E s \in Stories : StartRun(b, s)
  <2> PICK b \in Actors, s \in Stories : StartRun(b, s)
    BY <1>4
  <2>1. work' = [work EXCEPT ![b] = s] /\ made' = made
        /\ run' = [run EXCEPT ![b] = [id |-> Len(runStory) + 1, base |-> branch[b]]]
    BY DEF StartRun, Pull
  <2>2. CASE b = a
    <3>1. run'[a].id = Len(runStory) + 1 /\ Len(runStory) \in Nat
      BY <1>1, <2>1, <2>2 DEF GitTypeOK
    <3>2. made \subseteq 1 .. Len(runStory)
      BY <1>1 DEF RunsInv
    <3> QED
      BY <2>1, <3>1, <3>2
  <2>3. CASE b # a
    BY <1>1, <1>3, <2>1, <2>3 DEF GitTypeOK, WorkType
  <2> QED
    BY <2>2, <2>3
<1>5. CASE \E b \in Actors : \E r \in 1 .. Len(runStory) : Commit(b, r)
  <2> PICK b \in Actors, r \in 1 .. Len(runStory) : Commit(b, r)
    BY <1>5
  <2>1. /\ work' = work /\ run' = run /\ made' = made \cup {r}
        /\ branch' = [branch EXCEPT ![b] = Append(@, r)]
        /\ (work[b] # None /\ r = run[b].id) \/ <<b, r>> \in late
    BY DEF Commit, deliveryVars
  <2>2. CASE run[a].id \in made
    BY <1>1, <1>2, <2>1, <2>2
  <2>3. CASE run[a].id \notin made
    <3>1. r = run[a].id
      BY <2>1, <2>3
    <3>2. <<b, r>> \notin late
      BY <1>1, <2>1, <3>1 DEF RunsInv
    <3>3. b = a
      BY <1>1, <2>1, <3>1, <3>2 DEF RunsInv
    <3>4. branch'[a] = Append(branch[a], r) /\ branch[a] \in Seq(Nat) /\ r \in Nat
      BY <1>1, <2>1, <3>3 DEF GitTypeOK
    <3>5. r \in ToSet(branch'[a])
      BY <3>4, CommitsOfAppend
    <3> QED
      BY <2>1, <3>1, <3>5 DEF Kept
  <2> QED
    BY <2>2, <2>3
<1>6. CASE \E b \in Actors : RunSucceeds(b) \/ RunFails(b) \/ RunTimesOut(b)
  <2> PICK b \in Actors : RunSucceeds(b) \/ RunFails(b) \/ RunTimesOut(b)
    BY <1>6
  <2>1. work' = [work EXCEPT ![b] = None] /\ run' = [run EXCEPT ![b] = NoRun] /\ made' = made
    BY DEF RunSucceeds, CommitLanded, RunFails, RunTimesOut, NoCommit, Free
  <2>2. b # a
    BY <1>1, <2>1 DEF WorkType
  <2> QED
    BY <1>1, <1>3, <2>1, <2>2 DEF GitTypeOK, WorkType
<1>7. CASE UNCHANGED vars \/ TakeRequest \/ CollectionCheck \/ Rebase \/ RebaseConflict
           \/ MergeFails \/ FastForward
  BY <1>3, <1>7
  DEF vars, gitVars, deliveryVars, TakeRequest, CollectionCheck, Rebase, RebaseConflict,
      MergeFails, FastForward
<1> QED
  BY Zenon, <1>4, <1>5, <1>6, <1>7 DEF Next

(* A story's delivered commit stays with the agent that the story belongs to. *)
LEMMA DeliveriesAreKept ==
  ASSUME GitInv, AccountInv, HandoverInv, [Next]_vars,
         NEW s \in Stories, delivered'[s] # 0
  PROVE  \E a \in Actors : assignee'[s] = a /\ delivered'[s] \in Kept(a)'
<1>1. /\ GitTypeOK /\ WorkType /\ OwnersInv /\ None \notin Actors /\ None \notin Stories
      /\ assignee \in [Stories -> Actors \cup {None}]
  BY BoardAssumption DEF GitInv, HandoverInv, OwnersInv
<1>2. CASE delivered'[s] = delivered[s]
  <2>1. PICK a \in Actors : assignee[s] = a /\ delivered[s] \in Kept(a)
    BY <1>2 DEF HandoverInv
  <2>2. delivered'[s] \in Kept(a)'
    BY <1>2, <2>1, CommitsAreKept
  <2>3. assignee'[s] = assignee[s]
    <3>1. CASE \E b \in Actors : \E t \in Stories : StartRun(b, t)
      <4> PICK b \in Actors, t \in Stories : StartRun(b, t)
        BY <3>1
      <4>1. assignee[t] \in {None, b} /\ assignee' = [assignee EXCEPT ![t] = b]
        BY DEF StartRun, Pull, ClaimStory, Candidates
      <4> QED
        BY <1>1, <2>1, <4>1
    <3>2. CASE ~\E b \in Actors : \E t \in Stories : StartRun(b, t)
      <4>1. UNCHANGED assignee
        BY <3>2
        DEF Next, vars, boardVars, Commit, RunSucceeds, CommitLanded, RunFails, RunTimesOut,
            NoCommit, TakeRequest, Dequeue, Rebase, RebaseConflict, MergeFails, MergeConflict,
            FastForward, MergeCompleted, CollectionCheck, GateOK, GateBroken
      <4> QED
        BY <4>1
    <3> QED
      BY <3>1, <3>2
  <2> QED
    BY <2>1, <2>2, <2>3
<1>3. CASE delivered'[s] # delivered[s]
  <2>1. \E b \in Actors : RunSucceeds(b)
    BY <1>3
    DEF Next, vars, gitVars, StartRun, Commit, RunFails, RunTimesOut, TakeRequest, Rebase,
        RebaseConflict, MergeFails, FastForward, CollectionCheck
  <2> PICK b \in Actors : RunSucceeds(b)
    BY <2>1
  <2>2. /\ work[b] # None /\ UNCHANGED assignee
        /\ delivered' = [delivered EXCEPT ![work[b]] =
                           IF run[b].id \in made THEN run[b].id ELSE 0]
    BY DEF RunSucceeds, CommitLanded
  <2>3. s = work[b]
    BY <1>1, <1>3, <2>2 DEF GitTypeOK
  <2>4. run[b].id \in made /\ delivered'[s] = run[b].id
    BY <1>1, <2>2, <2>3 DEF GitTypeOK
  <2>5. run[b].id \in Kept(b)
    BY <2>2, <2>4 DEF HandoverInv
  <2>6. delivered'[s] \in Kept(b)'
    BY <2>4, <2>5, CommitsAreKept
  <2>7. assignee'[s] = b
    BY <1>1, <2>2, <2>3 DEF OwnersInv
  <2> QED
    BY <2>6, <2>7
<1> QED
  BY <1>2, <1>3

(* Only the fast-forward of the story's own request hands it over, and then   *)
(* the whole branch of its assignee is on integration.                       *)
LEMMA HandedOverStep ==
  ASSUME GitInv, AccountInv, HandoverInv, [Next]_vars
  PROVE  HandedOverIsMerged'
<1> SUFFICES ASSUME NEW s \in Stories, state'[s] = "pending_acceptance", delivered'[s] # 0
             PROVE  delivered'[s] \in Merged' \cup dropped'
  BY DEF HandedOverIsMerged
<1>1. /\ GitTypeOK /\ MergeTypeOK /\ WorkType /\ OwnersInv /\ state \in [Stories -> States]
      /\ None \notin Actors /\ None \notin Stories
  BY BoardAssumption DEF GitInv, HandoverInv, OwnersInv
<1>2. Merged \cup dropped \subseteq Merged' \cup dropped'
  BY CommitsAreKept
<1>3. PICK a \in Actors : assignee'[s] = a /\ delivered'[s] \in Kept(a)'
  BY DeliveriesAreKept
<1>4. ASSUME NEW t, NEW to, Move(t, to), to # "pending_acceptance"
      PROVE  state[s] = "pending_acceptance" /\ s # t
  BY <1>1, <1>4 DEF Move
<1>5. ASSUME NEW t, NEW to, TryMove(t, to), to # "pending_acceptance"
      PROVE  state[s] = "pending_acceptance"
  BY <1>4, <1>5 DEF TryMove
<1>6. CASE state[s] = "pending_acceptance" /\ delivered'[s] = delivered[s]
  BY <1>2, <1>6 DEF HandoverInv, HandedOverIsMerged
<1>7. CASE \E b \in Actors : RunSucceeds(b)
  <2> PICK b \in Actors : RunSucceeds(b)
    BY <1>7
  <2>1. /\ Move(work[b], "review")
        /\ delivered' = [delivered EXCEPT ![work[b]] =
                           IF run[b].id \in made THEN run[b].id ELSE 0]
    BY DEF RunSucceeds, CommitLanded
  <2>2. state[s] = "pending_acceptance" /\ s # work[b]
    BY <1>4, <2>1
  <2>3. delivered'[s] = delivered[s]
    BY <1>1, <2>1, <2>2 DEF GitTypeOK
  <2> QED
    BY <1>6, <2>2, <2>3
<1>8. CASE FastForward
  <2>1. /\ TryMove(worker.req.story, "pending_acceptance")
        /\ worker.phase = "merging" /\ UNCHANGED <<assignee, branch, dropped, delivered>>
        /\ integ' = branch[worker.req.actor]
    BY <1>8 DEF FastForward, MergeCompleted
  <2>2. CASE s = worker.req.story
    <3>1. a = worker.req.actor
      BY <1>1, <1>3, <2>1, <2>2 DEF OwnersInv
    <3>2. Merged' = ToSet(branch'[a])
      BY <2>1, <3>1 DEF Merged
    <3> QED
      BY <1>3, <3>2 DEF Kept
  <2>3. CASE s # worker.req.story
    <3>1. state'[s] = state[s]
      BY <1>1, <2>1, <2>3 DEF TryMove, Move
    <3> QED
      BY <1>6, <2>1, <3>1
  <2> QED
    BY <2>2, <2>3
<1>9. CASE \E b \in Actors : \E t \in Stories : StartRun(b, t)
  <2>1. \E t \in Stories : Move(t, "in_progress")
    BY <1>9 DEF StartRun, Pull, ClaimStory
  <2>2. delivered' = delivered
    BY <1>9 DEF StartRun
  <2> QED
    BY <1>4, <1>6, <2>1, <2>2
<1>10. CASE \E b \in Actors : RunFails(b) \/ RunTimesOut(b)
  <2>1. \E t : Move(t, "ready") \/ TryMove(t, "blocked")
    BY <1>10 DEF RunFails, RunTimesOut, NoCommit
  <2>2. delivered' = delivered
    BY <1>10 DEF RunFails, RunTimesOut
  <2> QED
    BY <1>4, <1>5, <1>6, <2>1, <2>2
<1>11. CASE RebaseConflict \/ MergeFails
  <2>1. TryMove(worker.req.story, "blocked") /\ delivered' = delivered
    BY <1>11 DEF RebaseConflict, MergeFails, MergeConflict
  <2> QED
    BY <1>5, <1>6, <2>1
<1>12. CASE CollectionCheck
  <2>1. Move(worker.req.story, "ready") \/ UNCHANGED state
    BY <1>12 DEF CollectionCheck, GateOK, GateBroken, boardVars
  <2>2. delivered' = delivered
    BY <1>12 DEF CollectionCheck, gitVars
  <2> QED
    BY <1>4, <1>6, <2>1, <2>2
<1>13. CASE \/ UNCHANGED vars
            \/ TakeRequest
            \/ Rebase
            \/ \E b \in Actors : \E r \in 1 .. Len(runStory) : Commit(b, r)
  <2>1. UNCHANGED <<state, delivered>>
    BY <1>13 DEF vars, boardVars, gitVars, TakeRequest, Dequeue, Rebase, Commit
  <2> QED
    BY <1>6, <2>1
<1> QED
  BY Zenon, <1>7, <1>8, <1>9, <1>10, <1>11, <1>12, <1>13 DEF Next

(* A story that waits for acceptance has the commit of its last run on        *)
(* integration, unless a conflict threw it away (_attempt_merge): the worker  *)
(* merges what the assignee's branch holds by then, and a delivered commit    *)
(* cannot leave that branch in another way.                                  *)
THEOREM HandoversAreMerged == Spec => []HandedOverIsMerged
<1>1. GitInv /\ AccountInv /\ HandoverInv /\ [Next]_vars => HandoverInv'
  <2> SUFFICES ASSUME GitInv, AccountInv, HandoverInv, [Next]_vars PROVE HandoverInv'
    OBVIOUS
  <2>1. OwnersInv' /\ RunsInv'
    BY OwnersStep, RunsStep DEF HandoverInv
  <2> QED
    BY <2>1, RunsKeepCommits, DeliveriesAreKept, HandedOverStep DEF HandoverInv
<1>2. GitInv /\ AccountInv /\ [Next]_vars => AccountInv'
  BY AccountStep
<1>3. HandoverInv => HandedOverIsMerged
  BY DEF HandoverInv
<1> QED
  BY <1>1, <1>2, <1>3, AccountInit, HandoverInit, GitInvariant, PTL DEF Spec
=============================================================================
