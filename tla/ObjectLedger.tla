------------------------------ MODULE ObjectLedger ------------------------------
(***************************************************************************)
(* The bytes of the review service (packages/tribunal): the bucket that    *)
(* holds one object per picture, the ledger table `objects` that names     *)
(* every key, the tables whose rows point at keys, and the requests that   *)
(* write and collect them.  The bucket (R2) and the database (D1) share no *)
(* transaction, so every await is a step of its own and a request may die  *)
(* between any two of them.                                                *)
(*                                                                         *)
(* A picture IS its key: keys are SHA-256 digests of the bytes, so equal   *)
(* bytes written by anyone land on one object.  One project is modelled,   *)
(* every key and every row being scoped by it.                             *)
(***************************************************************************)
EXTENDS Integers, FiniteSets

CONSTANTS
  Images,       \* pictures, each named by the digest that is its object key
  Slots,        \* baseline rows: one per identity, subject and label
  Docs,         \* render cache rows: one per identity and document
  Builds,       \* builds a run may push
  Requests,     \* requests in flight, at most one per member
  None,         \* an absent row, image or build
  KeepWindows,  \* retention windows a sweep is called with
  Limit,        \* how many keys one sweep collects (1000 in `unreferenced`)
  MaxTime,      \* bound of the clock
  Overlap       \* whether a sweep may run while other requests are in flight

Rows == Slots \cup Docs

ASSUME DataAssumption ==
  /\ None \notin Images \cup Rows \cup Builds
  /\ Slots \cap Docs = {}
ASSUME BoundAssumption ==
  /\ KeepWindows \subseteq Nat
  /\ Limit \in Nat \ {0}
  /\ MaxTime \in Nat
ASSUME ModeAssumption == Overlap \in BOOLEAN

VARIABLES
  clock,      \* the wall clock of the service
  bucket,     \* the objects R2 holds
  claimed,    \* the keys with a row in the `objects` table
  touched,    \* at_ms of that row: since when nothing has wanted the key
  stored,     \* object_key of each baseline and render cache row, or None
  cachedAt,   \* at_ms of the render cache rows, which a sweep expires
  present,    \* the builds with a row in `builds`
  builtAt,    \* at_ms of a build: when its run took place, not when it arrived
  shown,      \* the keys named by a build's `build_subjects` rows
  open,       \* durable builds with a subject that still waits for a decision
  req         \* the requests in flight: where each is and what it has read

tables == <<stored, cachedAt, present, builtAt, shown, open>>
objects == <<bucket, claimed, touched>>
vars == <<clock, objects, tables, req>>

-----------------------------------------------------------------------------
(* Requests.  `pc` names the await the request stands before.              *)

Places == {"idle", "get", "claim", "put", "row", "record",
           "held", "putting", "rows",
           "builds", "drop", "select", "delete", "forget"}
Sweeping == {"builds", "drop", "select", "delete", "forget"}

Request ==
  [pc: Places, row: Rows \cup {None}, img: Images \cup {None},
   build: Builds \cup {None}, named: SUBSET Images,
   todo: SUBSET Images, expired: SUBSET Builds, at: Int]

Idle == [pc |-> "idle", row |-> None, img |-> None, build |-> None,
         named |-> {}, todo |-> {}, expired |-> {},
         at |-> 0]

(* Whether a request may start: with Overlap, whenever; without, a sweep   *)
(* starts alone and nothing starts beside it.                              *)
MayBegin(r, pc) ==
  /\ req[r].pc = "idle"
  /\ Overlap \/ \A q \in Requests :
        req[q].pc \notin (IF pc \in Sweeping THEN Places \ {"idle"} ELSE Sweeping)

Goto(r, pc) == req' = [req EXCEPT ![r].pc = pc]
Finish(r) == req' = [req EXCEPT ![r] = Idle]

Referenced == {i \in Images : (\E x \in Rows : stored[x] = i)
                              \/ (\E b \in Builds : i \in shown[b])}

Init ==
  /\ clock = 0
  /\ bucket = {} /\ claimed = {} /\ touched = [i \in Images |-> 0]
  /\ stored = [x \in Rows |-> None] /\ cachedAt = [x \in Docs |-> 0]
  /\ present = {} /\ builtAt = [b \in Builds |-> 0]
  /\ shown = [b \in Builds |-> {}] /\ open = {}
  /\ req = [r \in Requests |-> Idle]

Tick ==
  /\ clock < MaxTime
  /\ clock' = clock + 1
  /\ UNCHANGED <<objects, tables, req>>

-----------------------------------------------------------------------------
(* A baseline put and a render cache put: `keep` the bytes, then the row.  *)

RowPut(r, x, i) ==
  /\ MayBegin(r, "claim")
  /\ req' = [req EXCEPT ![r] = [Idle EXCEPT !.pc = "claim", !.row = x, !.img = i,
                                            !.at = clock]]
  /\ UNCHANGED <<clock, objects, tables>>

(* Mutant: the ledger's columns bound in the wrong order.                  *)
ClaimMisbound(r) ==
  /\ req[r].pc = "claim"
  /\ claimed' = claimed \cup {req[r].img}
  /\ touched' = [touched EXCEPT ![req[r].img] = req[r].row]
  /\ Goto(r, "put")
  /\ UNCHANGED <<clock, bucket, tables>>
(* keep, first write: the ledger row, new or touched.                      *)
Claim(r) ==
  /\ req[r].pc = "claim"
  /\ claimed' = claimed \cup {req[r].img}
  /\ touched' = [touched EXCEPT ![req[r].img] = req[r].at]
  /\ Goto(r, "put")
  /\ UNCHANGED <<clock, bucket, tables>>

(* keep, second write: the object, whether or not the bucket has it.       *)
Put(r) ==
  /\ req[r].pc = "put"
  /\ bucket' = bucket \cup {req[r].img}
  /\ Goto(r, "row")
  /\ UNCHANGED <<clock, claimed, touched, tables>>

(* The row that points at the object.  An approval goes on to record the   *)
(* decision; a run's own put and a cache entry end here.                   *)
WriteRow(r) ==
  /\ req[r].pc = "row"
  /\ stored' = [stored EXCEPT ![req[r].row] = req[r].img]
  /\ cachedAt' = IF req[r].row \in Docs THEN [cachedAt EXCEPT ![req[r].row] = req[r].at]
                                       ELSE cachedAt
  /\ IF req[r].build = None THEN Finish(r) ELSE Goto(r, "record")
  /\ UNCHANGED <<clock, objects, present, builtAt, shown, open>>

-----------------------------------------------------------------------------
(* A decision.  Approving promotes an image of the build: the object is    *)
(* read back and kept again under the baseline's row.                      *)

Approve(r, b, i, x) ==
  /\ MayBegin(r, "get")
  /\ b \in present /\ i \in shown[b]
  /\ req' = [req EXCEPT ![r] = [Idle EXCEPT !.pc = "get", !.row = x, !.img = i,
                                            !.build = b]]
  /\ UNCHANGED <<clock, objects, tables>>

(* promote refuses a candidate the bucket cannot produce.                  *)
GetCandidate(r) ==
  /\ req[r].pc = "get"
  /\ IF req[r].img \in bucket
       THEN req' = [req EXCEPT ![r].pc = "claim", ![r].at = clock]
       ELSE Finish(r)
  /\ UNCHANGED <<clock, objects, tables>>

Reject(r, b) ==
  /\ MayBegin(r, "record")
  /\ b \in present
  /\ req' = [req EXCEPT ![r] = [Idle EXCEPT !.pc = "record", !.build = b]]
  /\ UNCHANGED <<clock, objects, tables>>

(* INSERT INTO decisions.  The build may have had other subjects waiting.  *)
Record(r) ==
  /\ req[r].pc = "record"
  /\ \E more \in BOOLEAN : open' = IF more THEN open ELSE open \ {req[r].build}
  /\ Finish(r)
  /\ UNCHANGED <<clock, objects, stored, cachedAt, present, builtAt, shown>>

-----------------------------------------------------------------------------
(* An ingest: `store` the images, then the rows of the build in one batch. *)
(* Every image is sent as bytes or named by its digest.                    *)

Push(r, b, sent, digests, t) ==
  /\ MayBegin(r, "held")
  /\ sent \cap digests = {}
  /\ req' = [req EXCEPT ![r] = [Idle EXCEPT !.pc = "held", !.build = b, !.todo = sent,
                                            !.named = sent \cup digests,
                                            !.at = t]]
  /\ UNCHANGED <<clock, objects, tables>>

(* The ledger is asked which keys it holds: a digest it does not hold is   *)
(* refused before anything is written, and bytes it holds are not put.     *)
AskHeld(r) ==
  /\ req[r].pc = "held"
  /\ IF req[r].named \ req[r].todo \subseteq claimed
       THEN req' = [req EXCEPT ![r].pc = "putting", ![r].todo = req[r].todo \ claimed]
       ELSE Finish(r)
  /\ UNCHANGED <<clock, objects, tables>>

(* One of the puts that run six at a time, in any order.                   *)
PutImage(r, i) ==
  /\ req[r].pc = "putting"
  /\ i \in req[r].todo
  /\ bucket' = bucket \cup {i}
  /\ req' = [req EXCEPT ![r].todo = req[r].todo \ {i}]
  /\ UNCHANGED <<clock, claimed, touched, tables>>

(* Mutant: an update that adds no row.                                     *)
ClaimImagesHeld(r) ==
  /\ req[r].pc = "putting" /\ req[r].todo = {}
  /\ touched' = [i \in Images |-> IF i \in req[r].named THEN req[r].at ELSE touched[i]]
  /\ Goto(r, "rows")
  /\ UNCHANGED <<clock, bucket, claimed, tables>>

(* One batch claims every key of the build, at the build's own timestamp.  *)
ClaimImages(r) ==
  /\ req[r].pc = "putting" /\ req[r].todo = {}
  /\ claimed' = claimed \cup req[r].named
  /\ touched' = [i \in Images |-> IF i \in req[r].named THEN req[r].at ELSE touched[i]]
  /\ Goto(r, "rows")
  /\ UNCHANGED <<clock, bucket, tables>>

(* The batch of rows.  A pushed report may leave the build waiting for a   *)
(* decision or not: its verdicts, its retention and the decisions already  *)
(* recorded for its subjects settle that.                                  *)
IngestRows(r) ==
  LET b == req[r].build IN
  /\ req[r].pc = "rows"
  /\ present' = present \cup {b}
  /\ builtAt' = [builtAt EXCEPT ![b] = req[r].at]
  /\ shown' = [shown EXCEPT ![b] = req[r].named]
  /\ \E waits \in BOOLEAN : open' = IF waits THEN open \cup {b} ELSE open \ {b}
  /\ Finish(r)
  /\ UNCHANGED <<clock, objects, stored, cachedAt>>

-----------------------------------------------------------------------------
(* A sweep: expired builds nobody waits on, expired cache rows, then the   *)
(* keys nothing refers to.                                                 *)

SweepStart(r, keep) ==
  /\ MayBegin(r, "builds")
  /\ req' = [req EXCEPT ![r] =
       [Idle EXCEPT !.pc = "builds", !.at = clock - keep,
                    !.expired = {b \in present : builtAt[b] < clock - keep}]]
  /\ UNCHANGED <<clock, objects, tables>>

(* Mutant: nobody asks whether the build still waits.                      *)
CheckBuildBlind(r, b) ==
  /\ req[r].pc = "builds" /\ b \in req[r].expired
  /\ req' = [req EXCEPT ![r].pc = "drop", ![r].build = b]
  /\ UNCHANGED <<clock, objects, tables>>

(* The pending count of one expired build: held, or about to be dropped.   *)
CheckBuild(r, b) ==
  /\ req[r].pc = "builds" /\ b \in req[r].expired
  /\ req' = IF b \in open
              THEN [req EXCEPT ![r].expired = req[r].expired \ {b}]
              ELSE [req EXCEPT ![r].pc = "drop", ![r].build = b]
  /\ UNCHANGED <<clock, objects, tables>>

(* The nine DELETEs of one build, in one batch.                            *)
DropBuild(r) ==
  LET b == req[r].build IN
  /\ req[r].pc = "drop"
  /\ present' = present \ {b}
  /\ builtAt' = [builtAt EXCEPT ![b] = 0]
  /\ shown' = [shown EXCEPT ![b] = {}]
  /\ open' = open \ {b}
  /\ req' = [req EXCEPT ![r].pc = "builds", ![r].build = None,
                        ![r].expired = req[r].expired \ {b}]
  /\ UNCHANGED <<clock, objects, stored, cachedAt>>

DropCache(r) ==
  LET old == {x \in Docs : cachedAt[x] < req[r].at} IN
  /\ req[r].pc = "builds" /\ req[r].expired = {}
  /\ stored' = [x \in Rows |-> IF x \in old THEN None ELSE stored[x]]
  /\ cachedAt' = [x \in Docs |-> IF x \in old THEN 0 ELSE cachedAt[x]]
  /\ Goto(r, "select")
  /\ UNCHANGED <<clock, objects, present, builtAt, shown, open>>

(* Mutants: no join; the idle keys told from the others the wrong way      *)
(* round.                                                                  *)
CollectableUnjoined(cutoff) == {i \in claimed : touched[i] < cutoff}
CollectableFresh(cutoff) == {i \in claimed \ Referenced : touched[i] >= cutoff}

(* Idle keys no row names, the longest idle first, at most Limit of them.  *)
Collectable(cutoff) == {i \in claimed \ Referenced : touched[i] < cutoff}
Oldest(T, S) ==
  /\ T \subseteq S
  /\ \A i \in T, j \in S \ T : touched[i] <= touched[j]
  /\ IF Cardinality(S) <= Limit THEN T = S ELSE Cardinality(T) = Limit

Select(r) ==
  /\ req[r].pc = "select"
  /\ \E T \in SUBSET Collectable(req[r].at) :
       /\ Oldest(T, Collectable(req[r].at))
       /\ IF T = {} THEN Finish(r)
                    ELSE req' = [req EXCEPT ![r].pc = "delete", ![r].todo = T]
  /\ UNCHANGED <<clock, objects, tables>>

(* discard: the bytes first, then the ledger rows.                         *)
DeleteObjects(r) ==
  /\ req[r].pc = "delete"
  /\ bucket' = bucket \ req[r].todo
  /\ Goto(r, "forget")
  /\ UNCHANGED <<clock, claimed, touched, tables>>

ForgetKeys(r) ==
  /\ req[r].pc = "forget"
  /\ claimed' = claimed \ req[r].todo
  /\ touched' = [i \in Images |-> IF i \in req[r].todo THEN 0 ELSE touched[i]]
  /\ Finish(r)
  /\ UNCHANGED <<clock, bucket, tables>>

-----------------------------------------------------------------------------
(* The Worker dies, or a binding throws: what was written stays written.   *)
Crash(r) ==
  /\ req[r].pc # "idle"
  /\ Finish(r)
  /\ UNCHANGED <<clock, objects, tables>>

Steps(r) ==
  \/ Claim(r) \/ Put(r) \/ WriteRow(r)
  \/ GetCandidate(r) \/ Record(r)
  \/ AskHeld(r) \/ (\E i \in Images : PutImage(r, i)) \/ ClaimImages(r) \/ IngestRows(r)

SweepSteps(r) ==
  \/ (\E b \in Builds : CheckBuild(r, b)) \/ DropBuild(r) \/ DropCache(r)
  \/ Select(r) \/ DeleteObjects(r) \/ ForgetKeys(r)

Begin(r) ==
  \/ \E x \in Rows, i \in Images : RowPut(r, x, i)
  \/ \E b \in Builds, i \in Images, x \in Slots : Approve(r, b, i, x)
  \/ \E b \in Builds : Reject(r, b)
  \/ \E b \in Builds, sent, digests \in SUBSET Images, t \in 0..clock :
       Push(r, b, sent, digests, t)
  \/ \E keep \in KeepWindows : SweepStart(r, keep)

Next == Tick \/ \E r \in Requests : Begin(r) \/ Steps(r) \/ SweepSteps(r) \/ Crash(r)

Spec == Init /\ [][Next]_vars

(* A request runs on unless it dies; the clock advances; the nightly cron   *)
(* starts sweeps again and again, and a step a sweep reaches again and      *)
(* again is taken some night: no sweep is assumed to survive.               *)
Fairness ==
  /\ WF_vars(Tick)
  /\ \A r \in Requests : WF_vars(Steps(r) \/ SweepSteps(r))
  /\ SF_vars(\E r \in Requests, keep \in KeepWindows : SweepStart(r, keep))
  /\ \A r \in Requests :
       /\ SF_vars(DropCache(r)) /\ SF_vars(Select(r))
       /\ SF_vars(DeleteObjects(r)) /\ SF_vars(ForgetKeys(r))

FairSpec == Spec /\ Fairness

-----------------------------------------------------------------------------
(* Properties.                                                             *)

(* Every value has its type: keys are pictures, rows name keys, and a      *)
(* request carries what the code reads into locals (objects.ts, store.ts,  *)
(* review-write.ts, review-sweep.ts).                                      *)
TypeOK ==
  /\ clock \in 0..MaxTime
  /\ bucket \subseteq Images /\ claimed \subseteq Images
  /\ touched \in [Images -> Int]
  /\ stored \in [Rows -> Images \cup {None}]
  /\ cachedAt \in [Docs -> Int]
  /\ present \subseteq Builds /\ open \subseteq Builds
  /\ builtAt \in [Builds -> Int]
  /\ shown \in [Builds -> SUBSET Images]
  /\ req \in [Requests -> Request]

(* A baseline or cache row never points at bytes the bucket lost: such a   *)
(* baseline throws on every run until a person deletes it (store.ts).      *)
(* Holds across crashes and whatever the retention window, as long as a    *)
(* sweep runs alone.                                                       *)
StoredRowsHaveObjects == \A x \in Rows : stored[x] # None => stored[x] \in bucket

(* Every key a row names has a ledger row, so `have` says yes about it and *)
(* a later sweep can still name it (objects.ts, the ledger).               *)
ReferencedKeysAreClaimed == Referenced \subseteq claimed

(* A put that began within every retention window finds its object when it  *)
(* writes its row (objects.ts: "an object written seconds ago whose         *)
(* referencing row is still being inserted is nowhere near the result").   *)
FreshPutsKeepTheirObject ==
  [][\A r \in Requests :
       (WriteRow(r) /\ \A keep \in KeepWindows : req[r].at >= clock - keep)
       => req[r].img \in bucket]_vars

(* A key the ledger names, no row wants and no put has touched for every   *)
(* window is collected by some sweep or wanted again: what a crashed put   *)
(* or a half-finished sweep left behind does not stay forever              *)
(* (objects.ts: "now they are ordinary unreferenced rows").                *)
Forgotten(i) ==
  /\ i \in claimed \ Referenced
  /\ \A keep \in KeepWindows : touched[i] < clock - keep
UnwantedIsCollected == \A i \in Images : []<>~Forgotten(i)
=============================================================================
