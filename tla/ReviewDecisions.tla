----------------------------- MODULE ReviewDecisions -----------------------------
(***************************************************************************)
(* Deciding about one subject in the review service (packages/tribunal):   *)
(* reviewers open a build's page and approve or reject what it shows,      *)
(* runs push builds and write baselines of their own, and the sweep        *)
(* removes builds.  A decision is a dozen awaits over several tables with  *)
(* no transaction around them; every await is a step, and a decision may   *)
(* die between any two.                                                    *)
(*                                                                         *)
(* Decisions about two subjects share no row, so one subject, under one    *)
(* renderer identity, is modelled.  A candidate is one value for its       *)
(* document digest and the key of its image: documents that paint the same *)
(* pixels are not told apart from one document.  The bytes behind the keys *)
(* are ObjectLedger's subject.                                             *)
(***************************************************************************)
EXTENDS Integers, Sequences, FiniteSets

CONSTANTS
  Docs,          \* candidate documents
  Areas,         \* places of the image; a changed region is a set of them
  Builds,        \* builds a run may push
  Reviewers,     \* decisions in flight, at most one per member
  None,          \* no row, no document, no build
  Pushes,        \* what a run may report of the subject
  Versions,      \* whether a decision carries the baseline version it read
  MaxTime,       \* bound of the clock
  MaxMoves,      \* no decision starts, and no run writes, past so many
                 \* baseline writes
  MaxDecisions,  \* no decision starts past so many recorded ones
  Concurrent,    \* whether decisions and runs' own baseline writes overlap
  Repush,        \* whether a build that was pushed may be pushed again
  Sweeps,        \* whether builds expire
  Crashes        \* whether a decision may die half way

(* What a run reports of the subject.  `asks`: its verdict leaves something  *)
(* to decide, being neither unchanged nor ignored (asksRepeats).            *)
Pushed == [cand: Docs \cup {None}, regions: SUBSET Areas, truncated: BOOLEAN,
           durable: BOOLEAN, asks: BOOLEAN]

ASSUME NoneAssumption == None \notin Docs \cup Builds \cup BOOLEAN \cup Pushed
ASSUME PushAssumption == Pushes \subseteq Pushed /\ Versions \subseteq BOOLEAN
ASSUME BoundAssumption ==
  MaxTime \in Nat /\ MaxMoves \in Nat /\ MaxDecisions \in Nat
ASSUME ModeAssumption ==
  /\ Concurrent \in BOOLEAN /\ Repush \in BOOLEAN
  /\ Sweeps \in BOOLEAN /\ Crashes \in BOOLEAN

VARIABLES
  clock,      \* the wall clock of the service
  row,        \* the build's `builds` and `build_subjects` rows, or None
  at,         \* at_ms of a build: when its run says it took place
  filed,      \* the pairs <<c, b>> of builds whose rows have rowids c < b
  pushed,     \* the builds that were ever pushed
  baseline,   \* document_digest of the subject's `baselines` row, or None
  changelog,  \* the `changelog` table, by seq
  decisions,  \* the `decisions` table, by seq
  concerns,   \* the acceptance concerns, by id
  moves,      \* history: every write of the baseline, and where it came from
  req         \* the decisions in flight

builds == <<row, at, filed, pushed>>
records == <<changelog, decisions, concerns>>
vars == <<clock, builds, baseline, records, moves, req>>

Places == {"idle", "page", "identity", "describe", "clash", "repeats", "raised",
           "promote", "put", "context", "log", "record", "subject", "raise"}

Idle == [pc |-> "idle", build |-> None, what |-> None, versioned |-> FALSE,
         read |-> None, row |-> None,
         current |-> None, accepts |-> None, at |-> 0]

(* A service that may already keep a baseline of the subject.              *)
Init ==
  /\ clock = 0
  /\ row = [b \in Builds |-> None] /\ at = [b \in Builds |-> 0]
  /\ filed = {} /\ pushed = {}
  /\ baseline \in Docs \cup {None}
  /\ changelog = <<>> /\ decisions = <<>> /\ concerns = <<>> /\ moves = <<>>
  /\ req = [r \in Reviewers |-> Idle]

Present(b) == row[b] # None
Quiet == \A q \in Reviewers : req[q].pc \in {"idle", "page"}

Unfiled(b) == {p \in filed : b \notin {p[1], p[2]}}

Goto(r, pc) == req' = [req EXCEPT ![r].pc = pc]
Refuse(r) == req' = [req EXCEPT ![r] = Idle]
(* The decision takes its timestamp once the baseline check let it through. *)
Stamp(r, pc) == req' = [req EXCEPT ![r].pc = pc, ![r].at = clock]

Tick ==
  /\ clock < MaxTime
  /\ clock' = clock + 1
  /\ UNCHANGED <<builds, baseline, records, moves, req>>

-----------------------------------------------------------------------------
(* What runs do.                                                           *)

(* An ingest's batch: the build's rows replaced, `builds` under a new      *)
(* rowid; decisions, changelog and concerns are nobody's to clear here.    *)
Push(b, p, t) ==
  /\ b \notin pushed \/ Repush
  /\ row' = [row EXCEPT ![b] = p]
  /\ at' = [at EXCEPT ![b] = t]
  /\ filed' = Unfiled(b) \cup {<<c, b>> : c \in {d \in Builds \ {b} : Present(d)}}
  /\ pushed' = pushed \cup {b}
  /\ UNCHANGED <<clock, baseline, records, moves, req>>

(* A run's own baseline/put (`variance accept`), which names no regions.   *)
RunPut(d) ==
  /\ Concurrent \/ Quiet
  /\ Len(moves) < MaxMoves
  /\ baseline' = d
  /\ moves' = Append(moves, [build |-> None, doc |-> d, regions |-> {},
                             truncated |-> FALSE, at |-> clock])
  /\ UNCHANGED <<clock, builds, records, req>>

(* The sweep drops an expired build: a durable one only once it is decided. *)
SweepBuild(b) ==
  /\ Sweeps
  /\ Present(b) /\ at[b] < clock
  /\ row[b].durable => \E k \in DOMAIN decisions : decisions[k].build = b
  /\ row' = [row EXCEPT ![b] = None]
  /\ at' = [at EXCEPT ![b] = 0]
  /\ filed' = Unfiled(b)
  /\ UNCHANGED <<clock, pushed, baseline, records, moves, req>>

-----------------------------------------------------------------------------
(* decide, one action per await.                                           *)

(* The page a reviewer decides on: the subject's picture and the version   *)
(* of the baseline standing beside it.                                     *)
OpenPage(r, b) ==
  /\ req[r].pc \in {"idle", "page"} /\ Present(b)
  /\ req' = [req EXCEPT ![r] = [Idle EXCEPT !.pc = "page", !.build = b,
                !.read = baseline]]
  /\ UNCHANGED <<clock, builds, baseline, records, moves>>

(* SELECT * FROM build_subjects: what the decision goes on to use.         *)
ReadRow(r, what, versioned) ==
  LET b == req[r].build
      next == IF what = "rejected" THEN "record"
              ELSE IF versioned THEN "identity" ELSE "repeats" IN
  /\ req[r].pc = "page"
  /\ Concurrent \/ Quiet
  /\ Len(decisions) < MaxDecisions /\ Len(moves) < MaxMoves
  /\ IF Present(b)
       THEN req' = [req EXCEPT ![r].pc = next, ![r].what = what, ![r].row = row[b],
                               ![r].versioned = versioned, ![r].at = clock]
       ELSE Refuse(r)
  /\ UNCHANGED <<clock, builds, baseline, records, moves>>

(* refuseMoved: the identity, then the baseline standing now.              *)
ReadIdentity(r) ==
  /\ req[r].pc = "identity"
  /\ IF Present(req[r].build) THEN Goto(r, "describe") ELSE Refuse(r)
  /\ UNCHANGED <<clock, builds, baseline, records, moves>>

Describe(r) ==
  /\ req[r].pc = "describe"
  /\ \/ /\ baseline \in {req[r].read} \cup ({req[r].row.cand} \ {None})
        /\ Stamp(r, "repeats")
     \/ /\ baseline \notin {req[r].read} \cup ({req[r].row.cand} \ {None})
        /\ IF None \in {baseline, req[r].read}
             THEN Refuse(r)
             ELSE req' = [req EXCEPT ![r].pc = "clash", ![r].current = baseline]
  /\ UNCHANGED <<clock, builds, baseline, records, moves>>

(* clashSince: the approvals of other builds since this one ran, joined to *)
(* what their builds' rows say now.                                        *)
Since(b) ==
  {k \in DOMAIN changelog :
     Present(b) /\ changelog[k].build # b /\ changelog[k].at >= at[b]}
CutShort(k) == Present(changelog[k].build) /\ row[changelog[k].build].truncated
Promoted(k, d) == Present(changelog[k].build) /\ row[changelog[k].build].cand = d

(* Mutant: nobody asks whether an approval wrote the standing baseline.    *)
ClashesUnattributed(b, mine, current) ==
  \/ mine.truncated
  \/ \E k \in Since(b) : CutShort(k) \/ changelog[k].regions \cap mine.regions # {}

Clashes(b, mine, current) ==
  \/ \A k \in Since(b) : ~Promoted(k, current)
  \/ mine.truncated
  \/ \E k \in Since(b) : CutShort(k) \/ changelog[k].regions \cap mine.regions # {}

CheckClash(r) ==
  /\ req[r].pc = "clash"
  /\ IF Clashes(req[r].build, req[r].row, req[r].current)
       THEN Refuse(r) ELSE Stamp(r, "repeats")
  /\ UNCHANGED <<clock, builds, baseline, records, moves>>

(* rejectionAccepted: the earlier builds with the picture of a build that   *)
(* asks about it, led by the latest decision on any of them.               *)
Before(c, b) == at[c] < at[b] \/ (at[c] = at[b] /\ <<c, b>> \in filed)
Repeats(b) ==
  {c \in Builds : /\ Present(b) /\ Present(c) /\ Before(c, b) /\ row[b].asks
                  /\ row[c].cand = row[b].cand /\ row[b].cand # None}
(* Mutant: the oldest decision leads.                                      *)
LeadsOldest(k, b) ==
  /\ decisions[k].build \in Repeats(b)
  /\ \A j \in DOMAIN decisions : decisions[j].build \in Repeats(b) => k <= j
Leads(k, b) ==
  /\ decisions[k].build \in Repeats(b)
  /\ \A j \in DOMAIN decisions : decisions[j].build \in Repeats(b) => j <= k
Rejected(b) ==
  {decisions[k].build : k \in {j \in DOMAIN decisions :
                                 Leads(j, b) /\ decisions[j].what = "rejected"}}

ReadRepeats(r) ==
  /\ req[r].pc = "repeats"
  /\ \/ /\ Rejected(req[r].build) = {}
        /\ Goto(r, "promote")
     \/ \E c \in Rejected(req[r].build) :
          req' = [req EXCEPT ![r].pc = "raised", ![r].accepts = c]
  /\ UNCHANGED <<clock, builds, baseline, records, moves>>

AskRaised(r) ==
  /\ req[r].pc = "raised"
  /\ IF \E k \in DOMAIN concerns : concerns[k] = [build |-> req[r].build,
                                                  of |-> req[r].accepts]
       THEN req' = [req EXCEPT ![r].pc = "promote", ![r].accepts = None]
       ELSE Goto(r, "promote")
  /\ UNCHANGED <<clock, builds, baseline, records, moves>>

(* promote: a candidate and the build's identity, or a refusal; then the   *)
(* baseline's row, whose bytes were kept before it.                        *)
CheckCandidate(r) ==
  /\ req[r].pc = "promote"
  /\ IF req[r].row.cand # None /\ Present(req[r].build)
       THEN Goto(r, "put") ELSE Refuse(r)
  /\ UNCHANGED <<clock, builds, baseline, records, moves>>

PutBaseline(r) ==
  LET mine == req[r].row IN
  /\ req[r].pc = "put"
  /\ baseline' = mine.cand
  /\ moves' = Append(moves, [build |-> req[r].build, doc |-> mine.cand,
                             regions |-> mine.regions, truncated |-> mine.truncated,
                             at |-> req[r].at])
  /\ Goto(r, "context")
  /\ UNCHANGED <<clock, builds, records>>

(* buildContext and recordApproval.                                        *)
(* Mutant: a build that is gone is passed over.                             *)
ReadContextLenient(r) ==
  /\ req[r].pc = "context"
  /\ Goto(r, IF Present(req[r].build) THEN "log" ELSE "record")
  /\ UNCHANGED <<clock, builds, baseline, records, moves>>
ReadContext(r) ==
  /\ req[r].pc = "context"
  /\ IF Present(req[r].build) THEN Goto(r, "log") ELSE Refuse(r)
  /\ UNCHANGED <<clock, builds, baseline, records, moves>>

(* Mutants: the entry under the wrong build; the concern raised before the *)
(* decision.                                                               *)
RecordApprovalMisfiled(r) ==
  /\ req[r].pc = "log"
  /\ changelog' = Append(changelog, [build |-> req[r].accepts, at |-> req[r].at,
                                     regions |-> req[r].row.regions])
  /\ Goto(r, "record")
  /\ UNCHANGED <<clock, builds, baseline, decisions, concerns, moves>>
RecordApprovalThenRaise(r) ==
  /\ req[r].pc = "log"
  /\ changelog' = Append(changelog, [build |-> req[r].build, at |-> req[r].at,
                                     regions |-> req[r].row.regions])
  /\ Goto(r, IF req[r].accepts = None THEN "record" ELSE "subject")
  /\ UNCHANGED <<clock, builds, baseline, decisions, concerns, moves>>
RecordApproval(r) ==
  /\ req[r].pc = "log"
  /\ changelog' = Append(changelog, [build |-> req[r].build, at |-> req[r].at,
                                     regions |-> req[r].row.regions])
  /\ Goto(r, "record")
  /\ UNCHANGED <<clock, builds, baseline, decisions, concerns, moves>>

(* Mutant: one decision of a build, replaced by the next one about it.     *)
RecordDecisionOver(r) ==
  LET latest == [build |-> req[r].build, what |-> req[r].what, at |-> req[r].at]
      older == {k \in DOMAIN decisions : decisions[k].build = req[r].build} IN
  /\ req[r].pc = "record"
  /\ decisions' = IF older = {} THEN Append(decisions, latest)
                  ELSE [k \in DOMAIN decisions |->
                          IF k \in older THEN latest ELSE decisions[k]]
  /\ IF req[r].accepts = None THEN Refuse(r) ELSE Goto(r, "subject")
  /\ UNCHANGED <<clock, builds, baseline, changelog, concerns, moves>>
RecordDecision(r) ==
  /\ req[r].pc = "record"
  /\ decisions' = Append(decisions, [build |-> req[r].build, what |-> req[r].what,
                                     at |-> req[r].at])
  /\ IF req[r].accepts = None THEN Refuse(r) ELSE Goto(r, "subject")
  /\ UNCHANGED <<clock, builds, baseline, changelog, concerns, moves>>

(* raise: the subject must still be there, then the concern and its first  *)
(* step in one batch.                                                      *)
AskSubject(r) ==
  /\ req[r].pc = "subject"
  /\ IF Present(req[r].build) THEN Goto(r, "raise") ELSE Refuse(r)
  /\ UNCHANGED <<clock, builds, baseline, records, moves>>

(* Mutant: a raise that was not answered is tried again.                   *)
RaiseRetried(r) ==
  /\ req[r].pc = "raise"
  /\ concerns' = Append(concerns, [build |-> req[r].build, of |-> req[r].accepts])
  /\ Refuse(r) \/ Goto(r, "subject")
  /\ UNCHANGED <<clock, builds, baseline, changelog, decisions, moves>>
Raise(r) ==
  /\ req[r].pc = "raise"
  /\ concerns' = Append(concerns, [build |-> req[r].build, of |-> req[r].accepts])
  /\ Refuse(r)
  /\ UNCHANGED <<clock, builds, baseline, changelog, decisions, moves>>

(* The Worker dies, or a binding throws.                                   *)
Crash(r) ==
  /\ Crashes /\ req[r].pc \notin {"idle", "page"}
  /\ Refuse(r)
  /\ UNCHANGED <<clock, builds, baseline, records, moves>>

Decide(r) ==
  \/ ReadIdentity(r) \/ Describe(r) \/ CheckClash(r)
  \/ ReadRepeats(r) \/ AskRaised(r)
  \/ CheckCandidate(r) \/ PutBaseline(r)
  \/ ReadContext(r) \/ RecordApproval(r) \/ RecordDecision(r)
  \/ AskSubject(r) \/ Raise(r)

Next ==
  \/ Tick
  \/ \E b \in Builds, p \in Pushes, t \in 0..clock : Push(b, p, t)
  \/ \E d \in Docs : RunPut(d)
  \/ \E b \in Builds : SweepBuild(b)
  \/ \E r \in Reviewers :
       \/ \E b \in Builds : OpenPage(r, b)
       \/ \E what \in {"approved", "rejected"}, v \in Versions : ReadRow(r, what, v)
       \/ Decide(r) \/ Crash(r)

Spec == Init /\ [][Next]_vars

-----------------------------------------------------------------------------
(* Properties.                                                             *)

Times == 0..MaxTime
InFlight ==
  [pc: Places, build: Builds \cup {None}, what: {"approved", "rejected", None},
   versioned: BOOLEAN, read: Docs \cup {None},
   row: Pushed \cup {None}, current: Docs \cup {None}, accepts: Builds \cup {None},
   at: Times]

(* Every value has its type (review.ts, changelog.ts, concerns.ts).        *)
TypeOK ==
  /\ clock \in Times
  /\ row \in [Builds -> Pushed \cup {None}] /\ at \in [Builds -> Times]
  /\ filed \subseteq Builds \X Builds /\ pushed \subseteq Builds
  /\ baseline \in Docs \cup {None}
  /\ changelog \in Seq([build: Builds, at: Times, regions: SUBSET Areas])
  /\ decisions \in Seq([build: Builds, what: {"approved", "rejected"}, at: Times])
  /\ concerns \in Seq([build: Builds, of: Builds])
  /\ moves \in Seq([build: Builds \cup {None}, doc: Docs, regions: SUBSET Areas,
                    truncated: BOOLEAN, at: Times])
  /\ req \in [Reviewers -> InFlight]

(* An approval is never on the page without the explanation of it: its     *)
(* changelog entry, and before that its baseline, were written first, and  *)
(* no two approvals share one (review.ts: "Promotion happens before the    *)
(* decision is recorded").                                                 *)
Approvals(b) == {k \in DOMAIN decisions : decisions[k].build = b
                                          /\ decisions[k].what = "approved"}
Entries(b) == {k \in DOMAIN changelog : changelog[k].build = b}
Moved(b) == {k \in DOMAIN moves : moves[k].build = b}
ApprovalsAreExplained ==
  \A b \in Builds :
    /\ Cardinality(Approvals(b)) <= Cardinality(Entries(b))
    /\ Cardinality(Entries(b)) <= Cardinality(Moved(b))

(* However decisions overlap, a baseline an approval wrote goes unsigned    *)
(* in two ways only: its decision dies before it is recorded, or its build  *)
(* expired by the time the decision reads its context.  Any other approval  *)
(* that moved a baseline is signed or still on the way, and no later one   *)
(* takes its signature from it (decide, buildContext,                      *)
(* decisions_are_append_only).                                             *)
Writing(b) == {r \in Reviewers : req[r].pc \in {"context", "log"} /\ req[r].build = b}
Signing(b) == {r \in Reviewers : req[r].pc = "record" /\ req[r].what = "approved"
                                 /\ req[r].build = b}
Unsigned(b) == Cardinality(Moved(b))
  - (Cardinality(Approvals(b)) + Cardinality(Writing(b)) + Cardinality(Signing(b)))
GivesUp(r, b) == Crash(r) \/ (ReadContext(r) /\ ~Present(b))
PromotionsAreSigned ==
  [][\A b \in Builds : Unsigned(b)' # Unsigned(b) =>
       /\ Unsigned(b)' = Unsigned(b) + 1
       /\ \E r \in Writing(b) \cup Signing(b) : GivesUp(r, b)]_vars

(* A concern never stands for an approval that was not recorded: each one  *)
(* an approval opened follows an approval of its build and a rejection of  *)
(* the build it accepts the image of (decide, rejectionAccepted).          *)
ConcernsFollowDecisions ==
  \A k \in DOMAIN concerns : \E i, j \in DOMAIN decisions :
    /\ i < j
    /\ decisions[i].build = concerns[k].of /\ decisions[i].what = "rejected"
    /\ decisions[j].build = concerns[k].build /\ decisions[j].what = "approved"

(* Approving the same image in the same build again is the same mind, not  *)
(* a second defect: one concern per build and rejection (repeats.ts).      *)
OneConcernPerAcceptance ==
  \A i, j \in DOMAIN concerns : concerns[i] = concerns[j] => i = j

(* A picture rejected in one build and then approved in a later one leaves *)
(* the defect on record (decide: "accepting a known defect ... the concern *)
(* keeps the defect on record").                                           *)
AcceptedRejection(i, j) ==
  LET b == decisions[j].build  c == decisions[i].build IN
  /\ i < j /\ decisions[i].what = "rejected" /\ decisions[j].what = "approved"
  /\ c \in Repeats(b)
  /\ \A k \in i + 1..j - 1 : row[decisions[k].build].cand # row[b].cand
AcceptedDefectStaysOnRecord ==
  Quiet => \A i, j \in DOMAIN decisions : AcceptedRejection(i, j) =>
    \E k \in DOMAIN concerns :
      concerns[k] = [build |-> decisions[j].build, of |-> decisions[i].build]

(* An approval taken against a version replaces what the reviewer read,    *)
(* puts back its own picture, or replaces a baseline another approval      *)
(* wrote, and then no approval stamped since its build ran has changed a   *)
(* place this build changed too (refuseMoved, clashSince: "Every approval  *)
(* after the build counts, not only the one standing now").                *)
OverwritesWhatItSaw(r) ==
  LET me == req[r] IN
  (PutBaseline(r) /\ me.versioned /\ baseline \notin {me.read, me.row.cand})
  => /\ \E k \in DOMAIN moves : moves[k].build # None /\ moves[k].doc = baseline
     /\ ~me.row.truncated
     /\ \A k \in DOMAIN moves :
          moves[k].build \notin {None, me.build} /\ moves[k].at >= at[me.build]
          => ~moves[k].truncated /\ moves[k].regions \cap me.row.regions = {}
NoUnseenOverwrite == [][\A r \in Reviewers : OverwritesWhatItSaw(r)]_vars
=============================================================================
