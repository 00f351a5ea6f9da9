--------------------------- MODULE ObjectLedgerRaces ---------------------------
(***************************************************************************)
(* ObjectLedger with a memory of what a sweep was overtaken by.  A sweep    *)
(* reads what it will remove in one statement and removes it in a later     *)
(* one, and nothing stops a put or an ingest in between: the two history    *)
(* variables keep what became wanted in that gap, so that the properties    *)
(* can say that a sweep harms nothing else.                                *)
(***************************************************************************)
EXTENDS ObjectLedger

VARIABLES
  late,     \* pictures a sweep chose to delete and a row came to name since
  reopened  \* builds a sweep chose to drop and that came to wait since

(* What the sweeps under way have chosen and not removed yet.              *)
Doomed == UNION {req[r].todo : r \in {q \in Requests : req[q].pc = "delete"}}
Dropping == {req[r].build : r \in {q \in Requests : req[q].pc = "drop"}}

raceVars == <<vars, late, reopened>>

RaceInit == Init /\ late = {} /\ reopened = {}

RaceNext ==
  /\ Next
  /\ late' = (late \cup (Referenced' \ Referenced)) \cap Doomed'
  /\ reopened' = (reopened \cup (open' \ open)) \cap Dropping'

RaceSpec == RaceInit /\ [][RaceNext]_raceVars

-----------------------------------------------------------------------------
(* Properties.                                                             *)

(* Beside puts, promotions and ingests, a sweep removes no bytes a          *)
(* baseline, a cache row or a build shows, but for those a row came to      *)
(* name after the sweep had chosen them (unreferenced, discard).           *)
SweepSparesReferenced ==
  [][\A i \in bucket \ bucket' : i \in Referenced => i \in late]_raceVars

(* Beside ingests and decisions, a build somebody still has to look at      *)
(* outlives its window, but for one that came to wait after the sweep had   *)
(* counted what waits in it (sweepProject).                                *)
WaitingBuildIsKept ==
  [][\A b \in present \ present' : b \in open => b \in reopened]_raceVars
=============================================================================
