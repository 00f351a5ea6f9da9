------------------------------ MODULE MCReviewQuiet ------------------------------
(***************************************************************************)
(* Two services of ReviewDecisions in which no two decisions overlap and    *)
(* nothing expires or dies, checked side by side: `service` says which one  *)
(* a behaviour is of.  In the first one picture is rejected and accepted    *)
(* time and again; in the second a chain of approvals of two pictures       *)
(* stands between a page and its decision.  Every step is a step of         *)
(* ReviewDecisions that stays within what its service is about.             *)
(***************************************************************************)
EXTENDS ReviewDecisions, TLC

CONSTANTS
  d, d1, d2,   \* pictures: of the first service, and of the second
  a, a1, a2    \* places

VARIABLE service

Report(cand, regions, asks) ==
  [cand |-> cand, regions |-> regions, truncated |-> FALSE, durable |-> TRUE,
   asks |-> asks]

(* One picture in every build, asked about or unchanged, or none kept: what *)
(* repeats are about.  Two pictures, each with its own place, of a subject  *)
(* that has a baseline.                                                    *)
Repeated == {Report(d, {a}, TRUE), Report(d, {}, FALSE), Report(None, {a}, TRUE)}
Chained == {Report(d1, {a1}, TRUE), Report(d2, {a2}, TRUE)}
Reports == Repeated \cup Chained

(* Swapping the pictures of the chain with their places changes nothing.    *)
Symmetry ==
  Permutations(Builds) \cup Permutations(Reviewers)
  \cup {d1 :> d2 @@ d2 :> d1 @@ a1 :> a2 @@ a2 :> a1}

(* A picture is unchanged from a baseline, so only where one was written.    *)
OfRepeats ==
  /\ \A b \in Builds : row[b] \in Repeated \cup {None}
  /\ \A b \in Builds : row[b] = Report(d, {}, FALSE) => moves # <<>>
  /\ baseline \in {d, None}
  /\ Cardinality({q \in Reviewers : req[q].pc # "idle"}) <= 1
  /\ \A q \in Reviewers : ~req[q].versioned
  /\ Len(moves) <= 2
OfChain ==
  /\ \A b \in Builds : row[b] \in Chained \cup {None}
  /\ baseline \in {d1, d2}
  /\ \A q \in Reviewers :
       \/ req[q].pc \in {"idle", "page"}
       \/ req[q].versioned /\ req[q].what = "approved"
Within == IF service = "repeats" THEN OfRepeats ELSE OfChain

QuietInit ==
  /\ Init
  /\ \/ service = "repeats" /\ baseline = None
     \/ service = "chain" /\ baseline \in {d1, d2}
QuietNext == Next /\ UNCHANGED service /\ Within'
QuietSpec == QuietInit /\ [][QuietNext]_<<vars, service>>
=============================================================================
