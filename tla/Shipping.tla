--------------------------------- MODULE Shipping --------------------------------
(*****************************************************************************)
(* `orgos deliver' and `orgos ship' (cli.py, agile/deliver.py,               *)
(* agile/verifier.py): the spec is reconciled with the board, the built code *)
(* is tested, and the integration branch is pushed.  Each of these reads     *)
(* what is there when its turn comes, and the team may be at work meanwhile. *)
(*****************************************************************************)
EXTENDS Backlog, SequencesExt

CONSTANTS
  Within,          \* the pairs of titles the first of which is a part of the second
  Earlier,         \* the pairs of titles the first of which sorts before the second
  MaxIgnored,      \* the files that cannot be parsed a second test run ignores: 20
  MinDelivered,    \* --min-delivered-pct
  MinPassRate,     \* --min-pass-rate, in percent
  Suites           \* the built code: [installs, ends, passed, failed, unparsable]

VARIABLES
  shipping,  \* none, verify, push or open
  terms,     \* of the ship that runs: [force, verify]
  verdict,   \* its VerificationResult
  moved      \* a story that was done has been lost since its receipt

shipVars == <<shipping, terms, verdict, moved>>

NoTerms == [force |-> FALSE, verify |-> FALSE]
NoVerdict == [verified |-> FALSE, passed |-> 0, failed |-> 0]

ShipInit ==
  /\ shipping = "none"
  /\ terms = NoTerms /\ verdict = NoVerdict
  /\ moved = FALSE

-----------------------------------------------------------------------------
(* deliver.py *)

(* all_stories: by issue id, a string. *)
Before(s, t) ==
  \/ s.pos < t.pos
  \/ s.pos = t.pos /\ <<s.title, t.title>> \in Earlier
  \/ s.pos = t.pos /\ s.title = t.title /\ s.suffix < t.suffix

First(S) == CHOOSE s \in S : \A t \in S \ {s} : ~Before(t, s)

Alike(t, u) == <<t, u>> \in Within \/ <<u, t>> \in Within

(* The board's story for a declared title: the same title before a part of    *)
(* it, and only stories no earlier title has taken.                          *)
Candidates(title, taken) ==
  LET free == OnBoard \ taken
      same == {s \in free : s.title = title}
  IN IF same # {} THEN same ELSE {s \in free : Alike(s.title, title)}

(* Mutant of Match: a story may be the match of two titles. *)
MatchShared(i, title, rows) ==
  LET some == Candidates(title, {})
  IN IF some = {} THEN {} ELSE {[draft |-> i, story |-> First(some)]}

Match(i, title, rows) ==
  LET some == Candidates(title, {m.story : m \in rows})
  IN IF some = {} THEN {} ELSE {[draft |-> i, story |-> First(some)]}

(* The matches, made in the order of the spec. *)
Rows(spec) ==
  FoldLeft(LAMBDA rows, i : rows \cup Match(i, spec[i].title, rows),
           {}, [i \in DOMAIN spec |-> i])

Count(rows, where) == Cardinality({m.draft : m \in {r \in rows : r.story \in In(where)}})

(* build_report *)
BuildReport(spec) ==
  LET rows == Rows(spec)
  IN [declared |-> Len(spec),
      delivered |-> Count(rows, {"done"}),
      blocked |-> Count(rows, {"blocked"}),
      inFlight |-> Count(rows, {"draft", "refinement", "ready", "in_progress", "review",
                                "pending_acceptance"}),
      unmatched |-> Cardinality(DOMAIN spec \ {m.draft : m \in rows}),
      rows |-> rows]

(* A spec that declares nothing has delivered 0 per cent. *)
Enough(r) ==
  /\ r.declared > 0 \/ MinDelivered = 0
  /\ 100 * r.delivered >= MinDelivered * r.declared

-----------------------------------------------------------------------------
(* cli.py, _cmd_ship *)

EndShip ==
  /\ shipping' = "none"
  /\ terms' = NoTerms /\ verdict' = NoVerdict
  /\ moved' = FALSE

BeginShip(spec, t) ==
  /\ shipping = "none"
  /\ Enough(BuildReport(spec)) \/ t.force
  /\ shipping' = IF t.verify THEN "verify" ELSE "push"
  /\ terms' = t
  /\ UNCHANGED <<verdict, moved>>

(* verify_integration.  What cannot be installed, or does not end in time, is *)
(* not verified.  The first files that cannot be parsed are ignored in a      *)
(* second run, whose counts are the ones reported; with more of them than are *)
(* ignored that run has an error for each of the others, and no test.        *)
Result(suite) ==
  IF ~suite.installs \/ ~suite.ends
    THEN [verified |-> FALSE, passed |-> 0, failed |-> 0]
  ELSE IF suite.unparsable > MaxIgnored
    THEN [verified |-> TRUE, passed |-> 0, failed |-> suite.unparsable - MaxIgnored]
  ELSE [verified |-> TRUE, passed |-> suite.passed, failed |-> suite.failed]

(* When the second run does not end, the first one's counts remain: an error  *)
(* for each file.                                                            *)
FirstRun(suite) ==
  [verified |-> TRUE, passed |-> 0, failed |-> suite.unparsable]

Results(suite) ==
  {Result(suite)} \cup IF suite.installs /\ suite.ends /\ suite.unparsable > 0
                       THEN {FirstRun(suite)} ELSE {}

(* The gate lets the unverified pass; pass_rate of no test at all is 0. *)
Passes(v) ==
  v.verified =>
    /\ v.passed + v.failed > 0 \/ MinPassRate = 0
    /\ 100 * v.passed >= MinPassRate * (v.passed + v.failed)

(* Without the integration worktree nothing is verified, and that passes. *)
Verify(tree) ==
  /\ shipping = "verify"
  /\ \E v \in IF tree THEN UNION {Results(suite) : suite \in Suites} ELSE {NoVerdict} :
       \/ /\ Passes(v) \/ terms.force
          /\ shipping' = "push" /\ verdict' = v
          /\ UNCHANGED <<terms, moved>>
       \/ ~Passes(v) /\ ~terms.force /\ EndShip

(* git push, of what the branch is now; it may fail. *)
Push ==
  /\ shipping = "push"
  /\ \/ /\ shipping' = "open"
        /\ terms' = NoTerms /\ verdict' = NoVerdict /\ moved' = FALSE
     \/ EndShip

(* gh pr create; the ship ends whatever it says. *)
OpenPR == shipping = "open" /\ EndShip

(* Without the manifest or the worktree there is nothing to push. *)
PushFails == shipping = "push" /\ EndShip

(* A done story is lost under a ship that vouches for it. *)
Lost == \E s \in Ids : column[s] = "done" /\ column'[s] # "done"

(* The board changes under a ship. *)
Disturb ==
  /\ moved' = (moved \/ (shipping \in {"verify", "push"} /\ ~terms.force /\ Lost))
  /\ UNCHANGED <<shipping, terms, verdict>>

ShipTypeOK ==
  /\ shipping \in {"none", "verify", "push", "open"}
  /\ terms \in [force : BOOLEAN, verify : BOOLEAN]
  /\ verdict \in [verified : BOOLEAN, passed : Nat, failed : Nat]
  /\ moved \in BOOLEAN
=============================================================================
