------------------------- MODULE ReviewDecisionsProofs -------------------------
(***************************************************************************)
(* Proofs about ReviewDecisions, for every set of documents, places,        *)
(* builds and reviewers, every report and every bound: the types; what      *)
(* holds of a decision's records however decisions, runs and sweeps overlap *)
(* and wherever a decision dies; and what holds while decisions come one    *)
(* at a time.                                                              *)
(***************************************************************************)
EXTENDS ReviewDecisions, FiniteSetTheorems, TLAPS

Reviewing == req \in [Reviewers -> InFlight]

(* A step of one decision.                                                 *)
Others(r) == \A q \in Reviewers \ {r} : req'[q] = req[q]
SameSubject(r) ==
  /\ req'[r].build = req[r].build /\ req'[r].what = req[r].what /\ req'[r].row = req[r].row
SameDecision(r) == SameSubject(r) /\ req'[r].accepts = req[r].accepts

(* What a decision knows where it stands.                                  *)
Knows(r) ==
  LET me == req[r] IN
  /\ me.pc # "idle" => me.build \in Builds
  /\ me.pc \notin {"idle", "page"} => me.what \in {"approved", "rejected"} /\ me.row \in Pushed
  /\ me.pc \notin {"idle", "page", "record"} => me.what = "approved"
  /\ me.pc = "put" => me.row.cand # None
  /\ me.pc \in {"raised", "subject", "raise"} => me.accepts # None
  /\ me.accepts # None =>
       /\ me.what = "approved"
       /\ me.pc \notin {"idle", "page", "identity", "describe", "clash", "repeats"}

LEMMA IdleType == Idle \in InFlight
BY BoundAssumption DEF Idle, InFlight, Places, Times

LEMMA GotoFacts ==
  ASSUME Reviewing, NEW r \in Reviewers, NEW pc \in Places, Goto(r, pc)
  PROVE  Reviewing' /\ Others(r) /\ SameDecision(r) /\ req'[r].pc = pc
<1>1. [req[r] EXCEPT !.pc = pc] \in InFlight BY DEF Reviewing, InFlight
<1>2. req' = [req EXCEPT ![r] = [req[r] EXCEPT !.pc = pc]] BY DEF Goto, Reviewing
<1> QED
  BY <1>1, <1>2 DEF Reviewing, Others, SameDecision, SameSubject, InFlight

LEMMA StampFacts ==
  ASSUME Reviewing, clock \in Times, NEW r \in Reviewers, NEW pc \in Places, Stamp(r, pc)
  PROVE  Reviewing' /\ Others(r) /\ SameDecision(r) /\ req'[r].pc = pc
<1>1. [req[r] EXCEPT !.pc = pc, !.at = clock] \in InFlight BY DEF Reviewing, InFlight
<1>2. req' = [req EXCEPT ![r] = [req[r] EXCEPT !.pc = pc, !.at = clock]]
  BY DEF Stamp, Reviewing
<1> QED
  BY <1>1, <1>2 DEF Reviewing, Others, SameDecision, SameSubject, InFlight

LEMMA RefuseFacts ==
  ASSUME Reviewing, NEW r \in Reviewers, Refuse(r)
  PROVE  Reviewing' /\ Others(r) /\ req'[r].pc = "idle" /\ req'[r].accepts = None
BY IdleType DEF Refuse, Reviewing, Others, Idle

-----------------------------------------------------------------------------
(* Types.                                                                  *)

BaselineWrites == [build: Builds \cup {None}, doc: Docs, regions: SUBSET Areas,
                   truncated: BOOLEAN, at: Times]

Rest ==
  /\ clock \in Times
  /\ row \in [Builds -> Pushed \cup {None}] /\ at \in [Builds -> Times]
  /\ filed \subseteq Builds \X Builds /\ pushed \subseteq Builds
  /\ baseline \in Docs \cup {None}
  /\ changelog \in Seq([build: Builds, at: Times, regions: SUBSET Areas])
  /\ decisions \in Seq([build: Builds, what: {"approved", "rejected"}, at: Times])
  /\ concerns \in Seq([build: Builds, of: Builds])
  /\ moves \in Seq(BaselineWrites)

LEMMA TypesSplit == (TypeOK <=> Rest /\ Reviewing) /\ (TypeOK' <=> Rest' /\ Reviewing')
BY DEF TypeOK, Rest, Reviewing, BaselineWrites

KInv == TypeOK /\ \A r \in Reviewers : Knows(r)

LEMMA KnowsOthers ==
  ASSUME KInv, NEW r \in Reviewers, Others(r), Knows(r)'
  PROVE  \A q \in Reviewers : Knows(q)'
BY DEF KInv, Knows, Others

LEMMA KnowsIdle ==
  ASSUME KInv, NEW r \in Reviewers, Refuse(r) PROVE \A q \in Reviewers : Knows(q)'
<1>1. Reviewing BY TypesSplit DEF KInv
<1>2. Others(r) /\ req'[r].pc = "idle" /\ req'[r].accepts = None BY <1>1, RefuseFacts
<1>3. Knows(r)' BY <1>2 DEF Knows
<1> QED BY <1>2, <1>3, KnowsOthers

LEMMA KInit == Init => KInv
<1> SUFFICES ASSUME Init PROVE KInv OBVIOUS
<1>1. Reviewing BY IdleType DEF Init, Reviewing
<1>2. Rest BY BoundAssumption DEF Init, Rest, Times
<1>3. \A r \in Reviewers : Knows(r) BY DEF Init, Idle, Knows
<1> QED BY <1>1, <1>2, <1>3, TypesSplit DEF KInv

(* The rows of a build, replaced or removed.                               *)
LEMMA BuildsStep ==
  ASSUME KInv,
         \/ \E b \in Builds, p \in Pushes, t \in 0..clock : Push(b, p, t)
         \/ \E b \in Builds : SweepBuild(b)
  PROVE  KInv'
<1>1. UNCHANGED <<clock, baseline, records, moves, req>> BY DEF Push, SweepBuild
<1>2. Rest BY TypesSplit DEF KInv
<1>3. 0..clock \subseteq Times /\ 0 \in Times BY <1>2, BoundAssumption DEF Rest, Times
<1>4. row' \in [Builds -> Pushed \cup {None}] /\ at' \in [Builds -> Times]
  BY <1>2, <1>3, PushAssumption DEF Rest, Push, SweepBuild
<1>5. filed' \subseteq Builds \X Builds /\ pushed' \subseteq Builds
  BY <1>2 DEF Rest, Push, SweepBuild, Unfiled
<1>6. Rest' BY <1>1, <1>2, <1>4, <1>5 DEF Rest, records
<1>7. Reviewing' /\ \A r \in Reviewers : Knows(r)'
  BY <1>1, TypesSplit DEF KInv, Reviewing, Knows
<1> QED BY <1>6, <1>7, TypesSplit DEF KInv

LEMMA RunPutStep == ASSUME KInv, NEW d \in Docs, RunPut(d) PROVE KInv'
<1>1. Rest BY TypesSplit DEF KInv
<1>2. [build |-> None, doc |-> d, regions |-> {}, truncated |-> FALSE,
       at |-> clock]
        \in BaselineWrites
  BY <1>1 DEF Rest, BaselineWrites
<1>3. Rest' BY <1>1, <1>2 DEF RunPut, Rest, builds, records
<1>4. Reviewing' /\ \A r \in Reviewers : Knows(r)'
  BY TypesSplit DEF RunPut, KInv, Reviewing, Knows
<1> QED BY <1>3, <1>4, TypesSplit DEF KInv

LEMMA OpenPageStep ==
  ASSUME KInv, NEW r \in Reviewers, NEW b \in Builds, OpenPage(r, b) PROVE KInv'
<1> DEFINE new == [Idle EXCEPT !.pc = "page", !.build = b, !.read = baseline]
<1>1. Rest /\ Reviewing BY TypesSplit DEF KInv
<1>2. baseline \in Docs \cup {None} BY <1>1 DEF Rest
<1>3. new \in InFlight BY <1>2, IdleType DEF InFlight, Places
<1>4. new.pc = "page" /\ new.build = b /\ new.accepts = None BY DEF Idle
<1>5. req' = [req EXCEPT ![r] = new] BY DEF OpenPage
<1> HIDE DEF new
<1>6. Reviewing' /\ Others(r) /\ req'[r] = new BY <1>1, <1>3, <1>5 DEF Reviewing, Others
<1>7. Knows(r)' BY <1>4, <1>6 DEF Knows
<1>8. Rest' BY <1>1 DEF OpenPage, Rest, builds, records
<1> QED BY <1>6, <1>7, <1>8, KnowsOthers, TypesSplit DEF KInv

LEMMA ReadRowStep ==
  ASSUME KInv, NEW r \in Reviewers, NEW what \in {"approved", "rejected"}, NEW v \in Versions,
         ReadRow(r, what, v)
  PROVE  KInv'
<1> DEFINE next == IF what = "rejected" THEN "record" ELSE IF v THEN "identity" ELSE "repeats"
           new == [req[r] EXCEPT !.pc = next, !.what = what, !.row = row[req[r].build],
                                 !.versioned = v, !.at = clock]
<1>1. Rest /\ Reviewing BY TypesSplit DEF KInv
<1>2. Rest' BY <1>1 DEF ReadRow, Rest, builds, records
<1>3. req[r].build \in Builds /\ req[r] \in InFlight BY <1>1 DEF ReadRow, KInv, Knows, Reviewing
<1>4. CASE ~Present(req[r].build)
  <2>1. Refuse(r) BY <1>4 DEF ReadRow
  <2> QED BY <1>1, <1>2, <2>1, RefuseFacts, KnowsIdle, TypesSplit DEF KInv
<1>5. CASE Present(req[r].build)
  <2>1. req' = [req EXCEPT ![r] = new] BY <1>1, <1>5 DEF ReadRow, Reviewing
  <2>2. row[req[r].build] \in Pushed BY <1>1, <1>3, <1>5 DEF Rest, Present
  <2>3. v \in BOOLEAN /\ clock \in Times BY <1>1, PushAssumption DEF Rest
  <2>4. next \in Places BY DEF Places
  <2>5. new \in InFlight BY <1>3, <2>2, <2>3, <2>4 DEF InFlight
  <2>6. /\ new.pc = next /\ new.build = req[r].build /\ new.what = what
        /\ new.row = row[req[r].build] /\ new.accepts = req[r].accepts
    BY <1>3 DEF InFlight
  <2>7. req[r].accepts = None BY <1>1, <1>3 DEF ReadRow, KInv, Knows
  <2> HIDE DEF new
  <2>8. Reviewing' /\ Others(r) /\ req'[r] = new BY <1>1, <2>1, <2>5 DEF Reviewing, Others
  <2>9. Knows(r)' BY <1>3, <2>2, <2>6, <2>7, <2>8 DEF Knows
  <2> QED BY <1>2, <2>8, <2>9, KnowsOthers, TypesSplit DEF KInv
<1> QED BY <1>4, <1>5

(* From one await of an approval to the next.                              *)
Onward ==
  {<<"identity", "describe">>, <<"describe", "repeats">>, <<"describe", "clash">>,
   <<"clash", "repeats">>, <<"repeats", "promote">>, <<"repeats", "raised">>,
   <<"raised", "promote">>, <<"promote", "put">>, <<"put", "context">>,
   <<"context", "log">>, <<"log", "record">>, <<"record", "subject">>,
   <<"subject", "raise">>}
Stops(r) == req'[r].pc = "idle" /\ req'[r].accepts = None
GoesOn(r) ==
  /\ SameSubject(r) /\ <<req[r].pc, req'[r].pc>> \in Onward
  /\ \/ req'[r].accepts = req[r].accepts /\ req'[r].pc # "raised"
     \/ req[r].pc = "raised" /\ req'[r].accepts = None
     \/ req'[r].pc = "raised" /\ req'[r].accepts \in Rejected(req[r].build)

(* What a step of a decision does to it, and the rest it leaves typed.     *)
LEMMA DecideShape ==
  ASSUME KInv, NEW r \in Reviewers, Decide(r) \/ Crash(r)
  PROVE  /\ Reviewing' /\ Others(r) /\ (Stops(r) \/ GoesOn(r))
         /\ req'[r].pc = "put" => req[r].row.cand # None
         /\ req'[r].pc = "subject" => req[r].accepts # None
<1> DEFINE Shape == /\ Reviewing' /\ Others(r) /\ (Stops(r) \/ GoesOn(r))
                    /\ req'[r].pc = "put" => req[r].row.cand # None
                    /\ req'[r].pc = "subject" => req[r].accepts # None
<1>1. Reviewing /\ clock \in Times BY TypesSplit DEF KInv, Rest
<1>2. Refuse(r) => Shape BY <1>1, RefuseFacts DEF Stops
<1>3. ASSUME NEW pc \in Places \ {"raised"}, Goto(r, pc) \/ Stamp(r, pc),
             <<req[r].pc, pc>> \in Onward,
             pc = "put" => req[r].row.cand # None, pc = "subject" => req[r].accepts # None
      PROVE  Shape
  <2>1. Reviewing' /\ Others(r) /\ SameDecision(r) /\ req'[r].pc = pc
    BY <1>1, <1>3, GotoFacts, StampFacts
  <2> QED BY <1>3, <2>1 DEF GoesOn, SameDecision
<1>4. CASE ReadIdentity(r) \/ CheckClash(r) \/ CheckCandidate(r) \/ PutBaseline(r)
           \/ ReadContext(r) \/ RecordApproval(r) \/ RecordDecision(r) \/ AskSubject(r)
           \/ Raise(r) \/ Crash(r)
  <2>1. \/ Refuse(r)
        \/ \E pc \in Places \ {"raised"} :
             /\ Goto(r, pc) \/ Stamp(r, pc)
             /\ <<req[r].pc, pc>> \in Onward
             /\ pc = "put" => req[r].row.cand # None
             /\ pc = "subject" => req[r].accepts # None
    BY <1>4 DEF ReadIdentity, CheckClash, CheckCandidate, PutBaseline, ReadContext,
                RecordApproval, RecordDecision, AskSubject, Raise, Crash, Onward, Places
  <2> QED BY <1>2, <1>3, <2>1
<1>5. CASE Describe(r)
  <2>1. CASE Stamp(r, "repeats")
    <3>1. <<req[r].pc, "repeats">> \in Onward /\ "repeats" \in Places \ {"raised"}
      BY <1>5 DEF Describe, Onward, Places
    <3> QED BY <1>3, <2>1, <3>1
  <2>2. CASE req' = [req EXCEPT ![r].pc = "clash", ![r].current = baseline]
    <3>1. req' = [req EXCEPT ![r] = [req[r] EXCEPT !.pc = "clash", !.current = baseline]]
      BY <1>1, <2>2 DEF Reviewing
    <3>2. baseline \in Docs \cup {None} /\ "clash" \in Places
      BY TypesSplit DEF KInv, Rest, Places
    <3>3. [req[r] EXCEPT !.pc = "clash", !.current = baseline] \in InFlight
      BY <1>1, <3>2 DEF Reviewing, InFlight
    <3>4. Reviewing' /\ Others(r) /\ SameDecision(r) /\ req'[r].pc = "clash"
      BY <1>1, <3>1, <3>3 DEF Reviewing, Others, SameDecision, SameSubject, InFlight
    <3> QED BY <1>5, <3>4 DEF Describe, GoesOn, Onward, SameDecision
  <2> QED BY <1>2, <1>5, <2>1, <2>2 DEF Describe
<1>6. CASE ReadRepeats(r)
  <2>1. CASE Goto(r, "promote")
    <3>1. <<req[r].pc, "promote">> \in Onward /\ "promote" \in Places \ {"raised"}
      BY <1>6 DEF ReadRepeats, Onward, Places
    <3> QED BY <1>3, <2>1, <3>1
  <2>2. ASSUME NEW c \in Rejected(req[r].build),
               req' = [req EXCEPT ![r].pc = "raised", ![r].accepts = c]
        PROVE  Shape
    <3>1. req' = [req EXCEPT ![r] = [req[r] EXCEPT !.pc = "raised", !.accepts = c]]
      BY <1>1, <2>2 DEF Reviewing
    <3>2. c \in Builds /\ "raised" \in Places BY DEF Rejected, Leads, Repeats, Places
    <3>3. [req[r] EXCEPT !.pc = "raised", !.accepts = c] \in InFlight
      BY <1>1, <3>2 DEF Reviewing, InFlight
    <3>4. /\ Reviewing' /\ Others(r) /\ SameSubject(r) /\ req'[r].pc = "raised"
          /\ req'[r].accepts = c
      BY <1>1, <3>1, <3>3 DEF Reviewing, Others, SameSubject, InFlight
    <3> QED BY <1>6, <3>4 DEF ReadRepeats, GoesOn, Onward
  <2> QED BY <1>6, <2>1, <2>2 DEF ReadRepeats
<1>7. CASE AskRaised(r)
  <2>1. CASE Goto(r, "promote")
    <3>1. <<req[r].pc, "promote">> \in Onward /\ "promote" \in Places \ {"raised"}
      BY <1>7 DEF AskRaised, Onward, Places
    <3> QED BY <1>3, <2>1, <3>1
  <2>2. CASE req' = [req EXCEPT ![r].pc = "promote", ![r].accepts = None]
    <3>1. req' = [req EXCEPT ![r] = [req[r] EXCEPT !.pc = "promote", !.accepts = None]]
      BY <1>1, <2>2 DEF Reviewing
    <3>2. "promote" \in Places BY DEF Places
    <3>3. [req[r] EXCEPT !.pc = "promote", !.accepts = None] \in InFlight
      BY <1>1, <3>2 DEF Reviewing, InFlight
    <3>4. /\ Reviewing' /\ Others(r) /\ SameSubject(r) /\ req'[r].pc = "promote"
          /\ req'[r].accepts = None
      BY <1>1, <3>1, <3>3 DEF Reviewing, Others, SameSubject, InFlight
    <3> QED BY <1>7, <3>4 DEF AskRaised, GoesOn, Onward
  <2> QED BY <1>7, <2>1, <2>2 DEF AskRaised
<1> QED BY <1>4, <1>5, <1>6, <1>7 DEF Decide

LEMMA DecideStep == ASSUME KInv, NEW r \in Reviewers, Decide(r) \/ Crash(r) PROVE KInv'
<1>1. Reviewing' /\ Others(r) BY DecideShape
<1>2. Knows(r)'
  <2>1. CASE Stops(r) BY <2>1 DEF Stops, Knows
  <2>2. CASE GoesOn(r)
    <3>1. \A c \in Rejected(req[r].build) : c # None
      BY NoneAssumption DEF Rejected, Leads, Repeats
    <3> QED BY <2>2, <3>1, DecideShape DEF GoesOn, KInv, Knows, SameSubject, Onward
  <2> QED BY <2>1, <2>2, DecideShape
<1>3. Rest'
  <2>1. Rest /\ Reviewing /\ Knows(r) BY TypesSplit DEF KInv
  <2>2. CASE ReadIdentity(r) \/ Describe(r) \/ CheckClash(r) \/ ReadRepeats(r)
             \/ AskRaised(r) \/ CheckCandidate(r) \/ ReadContext(r) \/ AskSubject(r)
             \/ Crash(r)
    <3>1. UNCHANGED <<clock, builds, baseline, records, moves>>
      BY <2>2 DEF ReadIdentity, Describe, CheckClash, ReadRepeats, AskRaised,
                  CheckCandidate, ReadContext, AskSubject, Crash
    <3> QED BY <2>1, <3>1 DEF Rest, builds, records
  <2>3. CASE PutBaseline(r)
    <3>1. /\ req[r].row \in Pushed /\ req[r].row.cand \in Docs /\ req[r].build \in Builds
          /\ req[r].at \in Times
      BY <2>1, <2>3 DEF PutBaseline, Knows, Pushed, Reviewing, InFlight
    <3>2. [build |-> req[r].build, doc |-> req[r].row.cand,
           regions |-> req[r].row.regions, truncated |-> req[r].row.truncated,
           at |-> req[r].at]
            \in BaselineWrites
      BY <3>1 DEF Pushed, BaselineWrites
    <3> QED BY <2>1, <2>3, <3>1, <3>2 DEF PutBaseline, Rest, builds, records
  <2>4. CASE RecordApproval(r)
    <3>1. req[r].row \in Pushed /\ req[r].build \in Builds /\ req[r].at \in Times
      BY <2>1, <2>4 DEF RecordApproval, Knows, Reviewing, InFlight
    <3>2. [build |-> req[r].build, at |-> req[r].at, regions |-> req[r].row.regions]
            \in [build: Builds, at: Times, regions: SUBSET Areas]
      BY <3>1 DEF Pushed
    <3> QED BY <2>1, <2>4, <3>2 DEF RecordApproval, Rest, builds, records
  <2>5. CASE RecordDecision(r)
    <3>1. /\ req[r].build \in Builds /\ req[r].at \in Times
          /\ req[r].what \in {"approved", "rejected"}
      BY <2>1, <2>5 DEF RecordDecision, Knows, Reviewing, InFlight
    <3> QED BY <2>1, <2>5, <3>1 DEF RecordDecision, Rest, builds, records
  <2>6. CASE Raise(r)
    <3>1. req[r].build \in Builds /\ req[r].accepts \in Builds
      BY <2>1, <2>6 DEF Raise, Knows, Reviewing, InFlight
    <3> QED BY <2>1, <2>6, <3>1 DEF Raise, Rest, builds, records
  <2> QED BY <2>2, <2>3, <2>4, <2>5, <2>6 DEF Decide
<1> QED BY <1>1, <1>2, <1>3, KnowsOthers, TypesSplit DEF KInv

LEMMA KStep == ASSUME KInv, [Next]_vars PROVE KInv'
<1>1. CASE UNCHANGED vars
  BY <1>1 DEF vars, builds, records, KInv, TypeOK, Knows
<1>2. CASE Tick
  <2>1. clock' \in Times BY <1>2, BoundAssumption, TypesSplit DEF Tick, KInv, Rest, Times
  <2>2. UNCHANGED <<builds, baseline, records, moves, req>> BY <1>2 DEF Tick
  <2> QED BY <2>1, <2>2 DEF builds, records, KInv, TypeOK, Knows
<1>3. CASE \E b \in Builds, p \in Pushes, t \in 0..clock : Push(b, p, t)
  BY <1>3, BuildsStep
<1>4. CASE \E b \in Builds : SweepBuild(b) BY <1>4, BuildsStep
<1>5. CASE \E d \in Docs : RunPut(d) BY <1>5, RunPutStep
<1>6. ASSUME NEW r \in Reviewers,
             \/ \E b \in Builds : OpenPage(r, b)
             \/ \E what \in {"approved", "rejected"}, v \in Versions : ReadRow(r, what, v)
             \/ Decide(r) \/ Crash(r)
      PROVE  KInv'
  BY <1>6, OpenPageStep, ReadRowStep, DecideStep
<1> QED BY <1>1, <1>2, <1>3, <1>4, <1>5, <1>6 DEF Next

(* Every reachable state of the reviews of a subject is well typed.        *)
THEOREM ReviewTypes == Spec => []TypeOK
<1>1. Init => KInv BY KInit
<1>2. KInv /\ [Next]_vars => KInv' BY KStep
<1>3. KInv => TypeOK BY DEF KInv
<1> QED BY <1>1, <1>2, <1>3, PTL DEF Spec
-----------------------------------------------------------------------------
(* The ledger of decisions only grows.                                     *)

RejectedOnce(c) ==
  \E i \in DOMAIN decisions : decisions[i].build = c /\ decisions[i].what = "rejected"
ApprovedAfter(c, b) ==
  \E i, j \in DOMAIN decisions :
    /\ i < j
    /\ decisions[i].build = c /\ decisions[i].what = "rejected"
    /\ decisions[j].build = b /\ decisions[j].what = "approved"
Grows ==
  \A i \in DOMAIN decisions : i \in DOMAIN decisions' /\ decisions'[i] = decisions[i]

LEMMA GrowsKeeps ==
  ASSUME Grows
  PROVE  /\ \A c : RejectedOnce(c) => RejectedOnce(c)'
         /\ \A c, b : ApprovedAfter(c, b) => ApprovedAfter(c, b)'
BY DEF Grows, RejectedOnce, ApprovedAfter

LEMMA RecordGrows ==
  ASSUME KInv, NEW r \in Reviewers, RecordDecision(r)
  PROVE  /\ Grows
         /\ Len(decisions) + 1 \in DOMAIN decisions'
         /\ decisions'[Len(decisions) + 1].build = req[r].build
         /\ decisions'[Len(decisions) + 1].what = req[r].what
         /\ \A i \in DOMAIN decisions : i < Len(decisions) + 1
BY TypesSplit DEF KInv, Rest, RecordDecision, Grows

(* What a decision accepts was rejected, and is about to be raised only      *)
(* once its approval is recorded.                                          *)
Backed(r) ==
  /\ req[r].accepts # None => RejectedOnce(req[r].accepts)
  /\ req[r].pc \in {"subject", "raise"} => ApprovedAfter(req[r].accepts, req[r].build)
Followed == \A k \in DOMAIN concerns : ApprovedAfter(concerns[k].of, concerns[k].build)

LEMMA ConcernsFollowed == Followed <=> ConcernsFollowDecisions
BY DEF Followed, ConcernsFollowDecisions, ApprovedAfter

BInv == KInv /\ Followed /\ \A r \in Reviewers : Backed(r)

LEMMA BackedOthers ==
  ASSUME BInv, Grows, NEW r \in Reviewers, Others(r), Backed(r)'
  PROVE  \A q \in Reviewers : Backed(q)'
<1> SUFFICES ASSUME NEW q \in Reviewers \ {r} PROVE Backed(q)' OBVIOUS
<1>1. Backed(q) /\ req'[q] = req[q] BY DEF BInv, Others
<1> QED BY <1>1, GrowsKeeps DEF Backed

LEMMA FollowedKept == ASSUME BInv, Grows, concerns' = concerns PROVE Followed'
BY GrowsKeeps DEF BInv, Followed

LEMMA BackedShape ==
  ASSUME BInv, Grows, NEW r \in Reviewers, Stops(r) \/ GoesOn(r), req'[r].pc # "subject"
  PROVE  Backed(r)'
<1>1. Backed(r) BY DEF BInv
<1>2. CASE Stops(r) BY <1>2 DEF Stops, Backed
<1>3. CASE GoesOn(r)
  <2>1. req'[r].pc = "raise" => req[r].pc = "subject" /\ req'[r].accepts = req[r].accepts
    BY <1>3 DEF GoesOn, Onward
  <2>2. req'[r].build = req[r].build BY <1>3 DEF GoesOn, SameSubject
  <2>3. req'[r].pc \in {"subject", "raise"}
          => ApprovedAfter(req[r].accepts, req[r].build)'
    <3> SUFFICES ASSUME req'[r].pc = "raise"
                 PROVE  ApprovedAfter(req[r].accepts, req[r].build)'
      OBVIOUS
    <3> DEFINE c == req[r].accepts
               b == req[r].build
    <3>1. c' = c /\ b' = b /\ ApprovedAfter(c, b) BY <1>1, <2>1, <2>2 DEF Backed
    <3> QED BY <3>1 DEF Grows, ApprovedAfter
  <2>4. \A c \in Rejected(req[r].build) : RejectedOnce(c) BY DEF Rejected, RejectedOnce
  <2>5. req'[r].accepts # None => RejectedOnce(req'[r].accepts)
    BY <1>1, <1>3, <2>4 DEF GoesOn, Backed
  <2>6. req'[r].accepts # None => RejectedOnce(req[r].accepts)'
    BY <2>5 DEF Grows, RejectedOnce
  <2> QED BY <2>3, <2>6 DEF Backed
<1> QED BY <1>2, <1>3

LEMMA BStep == ASSUME BInv, [Next]_vars PROVE BInv'
<1>1. KInv /\ KInv' BY KStep DEF BInv
<1>2. ASSUME UNCHANGED <<decisions, concerns, req>> PROVE BInv'
  BY <1>1, <1>2 DEF BInv, Followed, Backed, RejectedOnce, ApprovedAfter
<1>3. CASE UNCHANGED vars BY <1>2, <1>3 DEF vars, records
<1>4. CASE \/ Tick \/ (\E b \in Builds, p \in Pushes, t \in 0..clock : Push(b, p, t))
           \/ (\E d \in Docs : RunPut(d)) \/ (\E b \in Builds : SweepBuild(b))
  BY <1>2, <1>4 DEF Tick, Push, RunPut, SweepBuild, records
<1>5. ASSUME NEW r \in Reviewers, UNCHANGED <<decisions, concerns>>, Others(r),
             Stops(r) \/ GoesOn(r), req'[r].pc # "subject"
      PROVE  BInv'
  <2>1. Grows BY <1>5 DEF Grows
  <2>2. Backed(r)' BY <1>5, <2>1, BackedShape
  <2> QED BY <1>1, <1>5, <2>1, <2>2, BackedOthers, FollowedKept DEF BInv
<1>6. ASSUME NEW r \in Reviewers, NEW b \in Builds, OpenPage(r, b) PROVE BInv'
  <2>1. Others(r) /\ req'[r].pc = "page" /\ req'[r].accepts = None
    BY <1>1, <1>6, TypesSplit DEF KInv, OpenPage, Reviewing, Others, Idle
  <2>2. Grows /\ UNCHANGED <<decisions, concerns>> BY <1>6 DEF OpenPage, records, Grows
  <2>3. Backed(r)' BY <2>1 DEF Backed
  <2> QED BY <1>1, <2>1, <2>2, <2>3, BackedOthers, FollowedKept DEF BInv
<1>7. ASSUME NEW r \in Reviewers, NEW what \in {"approved", "rejected"}, NEW v \in Versions,
             ReadRow(r, what, v)
      PROVE  BInv'
  <2>1. Grows /\ UNCHANGED <<decisions, concerns>> BY <1>7 DEF ReadRow, records, Grows
  <2>2. Reviewing BY <1>1, TypesSplit DEF KInv
  <2>3. CASE Refuse(r)
    <3>1. Others(r) /\ req'[r].pc = "idle" /\ req'[r].accepts = None
      BY <2>2, <2>3, RefuseFacts
    <3>2. Backed(r)' BY <3>1 DEF Backed
    <3> QED BY <1>1, <2>1, <3>1, <3>2, BackedOthers, FollowedKept DEF BInv
  <2>4. CASE ~Refuse(r)
    <3>1. /\ Others(r) /\ req'[r].pc \in {"record", "identity", "repeats"}
          /\ req'[r].accepts = req[r].accepts
      BY <1>7, <2>2, <2>4 DEF ReadRow, Reviewing, Others, InFlight
    <3>2. Backed(r)' BY <2>1, <3>1, GrowsKeeps DEF BInv, Backed
    <3> QED BY <1>1, <2>1, <3>1, <3>2, BackedOthers, FollowedKept DEF BInv
  <2> QED BY <2>3, <2>4
<1>8. ASSUME NEW r \in Reviewers, RecordDecision(r) PROVE BInv'
  <2>1. Others(r) /\ (Stops(r) \/ GoesOn(r)) /\ (req'[r].pc = "subject" => req[r].accepts # None)
    BY <1>1, <1>8, DecideShape DEF Decide
  <2>2. Grows BY <1>1, <1>8, RecordGrows
  <2>3. Backed(r)'
    <3>1. CASE req'[r].pc # "subject" BY <2>1, <2>2, <3>1, BackedShape
    <3>2. CASE req'[r].pc = "subject"
      <4>1. /\ req'[r].accepts = req[r].accepts /\ req'[r].build = req[r].build
            /\ req[r].accepts # None
        BY <2>1, <3>2, <1>8 DEF Stops, GoesOn, SameSubject, RecordDecision
      <4>2. RejectedOnce(req[r].accepts) /\ req[r].what = "approved"
        BY <1>1, <4>1 DEF BInv, Backed, KInv, Knows
      <4>3. ApprovedAfter(req[r].accepts, req[r].build)'
        <5>1. PICK i \in DOMAIN decisions :
                decisions[i].build = req[r].accepts /\ decisions[i].what = "rejected"
          BY <4>2 DEF RejectedOnce
        <5>2. /\ i \in DOMAIN decisions' /\ decisions'[i] = decisions[i]
              /\ i < Len(decisions) + 1 /\ Len(decisions) + 1 \in DOMAIN decisions'
              /\ decisions'[Len(decisions) + 1].build = req[r].build
              /\ decisions'[Len(decisions) + 1].what = "approved"
          BY <1>1, <1>8, <4>2, RecordGrows DEF Grows
        <5> QED BY <4>1, <5>1, <5>2 DEF ApprovedAfter
      <4>4. RejectedOnce(req[r].accepts)' BY <2>2, <4>1, <4>2, GrowsKeeps
      <4> QED BY <4>1, <4>3, <4>4 DEF Backed
    <3> QED BY <3>1, <3>2
  <2> QED
    BY <1>1, <1>8, <2>1, <2>2, <2>3, BackedOthers, FollowedKept DEF BInv, RecordDecision
<1>9. ASSUME NEW r \in Reviewers, Raise(r) PROVE BInv'
  <2>1. Others(r) /\ (Stops(r) \/ GoesOn(r)) BY <1>1, <1>9, DecideShape DEF Decide
  <2>2. Reviewing BY <1>1, TypesSplit DEF KInv
  <2>3. Grows /\ req'[r].pc = "idle" BY <1>9, <2>2, RefuseFacts DEF Raise, Grows
  <2>4. Backed(r)' BY <2>1, <2>3, BackedShape
  <2>5. ApprovedAfter(req[r].accepts, req[r].build)
    BY <1>9 DEF BInv, Backed, Raise
  <2>6. concerns \in Seq([build: Builds, of: Builds])
        /\ concerns' = Append(concerns, [build |-> req[r].build, of |-> req[r].accepts])
    BY <1>1, <1>9, TypesSplit DEF KInv, Rest, Raise
  <2>7. \A k \in DOMAIN concerns' :
          ApprovedAfter(concerns'[k].of, concerns'[k].build)
    BY <2>5, <2>6 DEF BInv, Followed
  <2>8. Followed' BY <2>3, <2>7, GrowsKeeps DEF Followed
  <2> QED BY <1>1, <2>1, <2>3, <2>4, <2>8, BackedOthers DEF BInv
<1>10. ASSUME NEW r \in Reviewers, Decide(r) \/ Crash(r), ~RecordDecision(r), ~Raise(r)
       PROVE  BInv'
  <2>1. Others(r) /\ (Stops(r) \/ GoesOn(r)) BY <1>1, <1>10, DecideShape
  <2>2. UNCHANGED <<decisions, concerns>>
    BY <1>10 DEF Decide, Crash, ReadIdentity, Describe, CheckClash, ReadRepeats, AskRaised,
                 CheckCandidate, PutBaseline, ReadContext, RecordApproval, AskSubject, records
  <2>3. req'[r].pc = "subject" => req[r].pc = "record" BY <2>1 DEF Stops, GoesOn, Onward
  <2>4. req[r].pc = "record" => Crash(r)
    BY <1>10 DEF Decide, ReadIdentity, Describe, CheckClash, ReadRepeats, AskRaised,
                 CheckCandidate, PutBaseline, ReadContext, RecordApproval, AskSubject
  <2>5. Reviewing BY <1>1, TypesSplit DEF KInv
  <2>6. Crash(r) => req'[r].pc = "idle" BY <2>5, RefuseFacts DEF Crash
  <2> QED BY <1>5, <2>1, <2>2, <2>3, <2>4, <2>6
<1> QED
  BY <1>3, <1>4, <1>6, <1>7, <1>8, <1>9, <1>10 DEF Next

(* A concern never stands for an approval that was not recorded: it follows *)
(* an approval of its build and a rejection of the one it accepts.         *)
THEOREM ConcernsAreFollowed == Spec => []ConcernsFollowDecisions
<1>1. Init => BInv
  <2> SUFFICES ASSUME Init PROVE BInv OBVIOUS
  <2>1. \A r \in Reviewers : Backed(r) BY DEF Init, Idle, Backed
  <2> QED BY <2>1, KInit DEF Init, BInv, Followed
<1>2. BInv /\ [Next]_vars => BInv' BY BStep
<1>3. BInv => ConcernsFollowDecisions BY ConcernsFollowed DEF BInv
<1> QED BY <1>1, <1>2, <1>3, PTL DEF Spec
-----------------------------------------------------------------------------
(* Every approval has its explanation, by counting: the decisions between  *)
(* two of the three writes make up the difference.                         *)

Explained(b) ==
  /\ IsFiniteSet(Approvals(b)) /\ IsFiniteSet(Entries(b)) /\ IsFiniteSet(Moved(b))
  /\ IsFiniteSet(Writing(b)) /\ IsFiniteSet(Signing(b))
  /\ Cardinality(Approvals(b)) + Cardinality(Signing(b)) <= Cardinality(Entries(b))
  /\ Cardinality(Entries(b)) + Cardinality(Writing(b)) <= Cardinality(Moved(b))

EInv == KInv /\ \A b \in Builds : Explained(b)

LEMMA Empty == IsFiniteSet({}) /\ Cardinality({}) = 0
BY FS_EmptySet

(* Nothing recorded of a build, nobody further on the way to record it.     *)
LEMMA NoneNearer ==
  ASSUME NEW b \in Builds, Explained(b),
         Approvals(b)' = Approvals(b), Entries(b)' = Entries(b), Moved(b)' = Moved(b),
         Writing(b)' \subseteq Writing(b), Signing(b)' \subseteq Signing(b)
  PROVE  Explained(b)'
<1>1. /\ IsFiniteSet(Writing(b)') /\ Cardinality(Writing(b)') <= Cardinality(Writing(b))
      /\ IsFiniteSet(Signing(b)') /\ Cardinality(Signing(b)') <= Cardinality(Signing(b))
  BY FS_Subset DEF Explained
<1>2. /\ Cardinality(Writing(b)) \in Nat /\ Cardinality(Writing(b)') \in Nat
      /\ Cardinality(Signing(b)) \in Nat /\ Cardinality(Signing(b)') \in Nat
      /\ Cardinality(Approvals(b)) \in Nat /\ Cardinality(Entries(b)) \in Nat
      /\ Cardinality(Moved(b)) \in Nat
  BY <1>1, FS_CardinalityType DEF Explained
<1> QED BY <1>1, <1>2 DEF Explained

(* The three tables, one row later.                                        *)
LEMMA MovedOnce ==
  ASSUME KInv, NEW e \in BaselineWrites,
         moves' = Append(moves, e)
  PROVE  /\ \A b \in Builds : Moved(b)' = IF e.build = b THEN Moved(b) \cup {Len(moves) + 1}
                                          ELSE Moved(b)
         /\ \A b \in Builds : Len(moves) + 1 \notin Moved(b)
<1>1. moves \in Seq(BaselineWrites)
  BY TypesSplit DEF KInv, Rest
<1>2. /\ DOMAIN moves = 1..Len(moves) /\ DOMAIN moves' = 1..(Len(moves) + 1)
      /\ Len(moves) \in Nat /\ moves'[Len(moves) + 1] = e
      /\ \A k \in 1..Len(moves) : moves'[k] = moves[k]
  BY <1>1
<1> QED BY <1>2 DEF Moved

LEMMA EnteredOnce ==
  ASSUME KInv, NEW e \in [build: Builds, at: Times, regions: SUBSET Areas],
         changelog' = Append(changelog, e)
  PROVE  /\ \A b \in Builds : Entries(b)' = IF e.build = b
                                            THEN Entries(b) \cup {Len(changelog) + 1}
                                            ELSE Entries(b)
         /\ \A b \in Builds : Len(changelog) + 1 \notin Entries(b)
<1>1. changelog \in Seq([build: Builds, at: Times, regions: SUBSET Areas])
  BY TypesSplit DEF KInv, Rest
<1>2. /\ DOMAIN changelog = 1..Len(changelog) /\ DOMAIN changelog' = 1..(Len(changelog) + 1)
      /\ Len(changelog) \in Nat /\ changelog'[Len(changelog) + 1] = e
      /\ \A k \in 1..Len(changelog) : changelog'[k] = changelog[k]
  BY <1>1
<1> QED BY <1>2 DEF Entries

LEMMA ApprovedOnce ==
  ASSUME KInv, NEW e \in [build: Builds, what: {"approved", "rejected"}, at: Times],
         decisions' = Append(decisions, e)
  PROVE  /\ \A b \in Builds : Approvals(b)' = IF e.build = b /\ e.what = "approved"
                                              THEN Approvals(b) \cup {Len(decisions) + 1}
                                              ELSE Approvals(b)
         /\ \A b \in Builds : Len(decisions) + 1 \notin Approvals(b)
<1>1. decisions \in Seq([build: Builds, what: {"approved", "rejected"}, at: Times])
  BY TypesSplit DEF KInv, Rest
<1>2. /\ DOMAIN decisions = 1..Len(decisions) /\ DOMAIN decisions' = 1..(Len(decisions) + 1)
      /\ Len(decisions) \in Nat /\ decisions'[Len(decisions) + 1] = e
      /\ \A k \in 1..Len(decisions) : decisions'[k] = decisions[k]
  BY <1>1
<1> QED BY <1>2 DEF Approvals

(* A decision that stands neither between the writes nor before the last,   *)
(* and one that moves from one wait to the next.                           *)
LEMMA Elsewhere ==
  ASSUME NEW r \in Reviewers, Others(r), NEW b \in Builds,
         r \in Writing(b)' => r \in Writing(b), r \in Signing(b)' => r \in Signing(b)
  PROVE  Writing(b)' \subseteq Writing(b) /\ Signing(b)' \subseteq Signing(b)
BY DEF Others, Writing, Signing

LEMMA Leaves ==
  ASSUME NEW r \in Reviewers, Others(r), NEW b \in Builds
  PROVE  /\ Writing(b)' = IF r \in Writing(b)' THEN Writing(b) \cup {r} ELSE Writing(b) \ {r}
         /\ Signing(b)' = IF r \in Signing(b)' THEN Signing(b) \cup {r} ELSE Signing(b) \ {r}
BY DEF Others, Writing, Signing

LEMMA Absent ==
  ASSUME NEW r \in Reviewers, Others(r), NEW b \in Builds
  PROVE  /\ r \notin Writing(b) /\ r \notin Writing(b)' => Writing(b)' = Writing(b)
         /\ r \notin Signing(b) /\ r \notin Signing(b)' => Signing(b)' = Signing(b)
BY DEF Others, Writing, Signing

LEMMA PutExplained ==
  ASSUME EInv, NEW r \in Reviewers, PutBaseline(r), NEW b \in Builds
  PROVE  Explained(b)' /\ Unsigned(b)' = Unsigned(b)
<1> DEFINE e == [build |-> req[r].build, doc |-> req[r].row.cand,
                 regions |-> req[r].row.regions, truncated |-> req[r].row.truncated,
                 at |-> req[r].at]
<1>1. KInv /\ Reviewing /\ Knows(r) /\ Explained(b) BY TypesSplit DEF EInv, KInv
<1>2. Others(r) /\ SameDecision(r) /\ req'[r].pc = "context"
  BY <1>1, GotoFacts DEF PutBaseline, Places
<1>3. e \in BaselineWrites
  <2>1. req[r].at \in Times BY <1>1 DEF Reviewing, InFlight
  <2> QED BY <1>1, <2>1 DEF PutBaseline, Knows, Pushed, BaselineWrites
<1>4. moves' = Append(moves, e) /\ UNCHANGED <<decisions, changelog>>
  BY DEF PutBaseline, records
<1>5. Approvals(b)' = Approvals(b) /\ Entries(b)' = Entries(b)
  BY <1>4 DEF Approvals, Entries
<1>6. r \notin Writing(b) /\ r \notin Signing(b) /\ r \notin Signing(b)'
  BY <1>2 DEF PutBaseline, Writing, Signing
<1>7. Signing(b)' = Signing(b) BY <1>2, <1>6, Absent
<1>8. CASE req[r].build = b
  <2>1. r \in Writing(b)' BY <1>2, <1>8 DEF Writing, SameDecision, SameSubject
  <2>2. Writing(b)' = Writing(b) \cup {r} BY <1>2, <2>1, Leaves
  <2>3. /\ Moved(b)' = Moved(b) \cup {Len(moves) + 1} /\ Len(moves) + 1 \notin Moved(b)
    BY <1>1, <1>3, <1>4, <1>8, MovedOnce
  <2>4. /\ IsFiniteSet(Writing(b)') /\ Cardinality(Writing(b)') = Cardinality(Writing(b)) + 1
        /\ IsFiniteSet(Moved(b)') /\ Cardinality(Moved(b)') = Cardinality(Moved(b)) + 1
    BY <1>1, <1>6, <2>2, <2>3, FS_AddElement DEF Explained
  <2>5. /\ Cardinality(Writing(b)) \in Nat /\ Cardinality(Moved(b)) \in Nat
        /\ Cardinality(Entries(b)) \in Nat /\ Cardinality(Approvals(b)) \in Nat
        /\ Cardinality(Signing(b)) \in Nat
    BY <1>1, FS_CardinalityType DEF Explained
  <2> QED BY <1>1, <1>5, <1>7, <2>4, <2>5 DEF Explained, Unsigned
<1>9. CASE req[r].build # b
  <2>1. r \notin Writing(b)' BY <1>2, <1>9 DEF Writing, SameDecision, SameSubject
  <2>2. Moved(b)' = Moved(b) BY <1>1, <1>3, <1>4, <1>9, MovedOnce
  <2>3. Writing(b)' = Writing(b) BY <1>2, <1>6, <2>1, Absent
  <2> QED BY <1>1, <1>5, <1>7, <2>2, <2>3, NoneNearer DEF Unsigned
<1> QED BY <1>8, <1>9

LEMMA LogExplained ==
  ASSUME EInv, NEW r \in Reviewers, RecordApproval(r), NEW b \in Builds
  PROVE  Explained(b)' /\ Unsigned(b)' = Unsigned(b)
<1> DEFINE e == [build |-> req[r].build, at |-> req[r].at, regions |-> req[r].row.regions]
<1>1. KInv /\ Reviewing /\ Knows(r) /\ Explained(b) BY TypesSplit DEF EInv, KInv
<1>2. Others(r) /\ SameDecision(r) /\ req'[r].pc = "record"
  BY <1>1, GotoFacts DEF RecordApproval, Places
<1>3. e \in [build: Builds, at: Times, regions: SUBSET Areas]
  <2>1. req[r].row \in Pushed /\ req[r].build \in Builds /\ req[r].at \in Times
    BY <1>1 DEF RecordApproval, Knows, Reviewing, InFlight
  <2> QED BY <2>1 DEF Pushed
<1>4. changelog' = Append(changelog, e) /\ UNCHANGED <<decisions, moves>>
  BY DEF RecordApproval
<1>5. Approvals(b)' = Approvals(b) /\ Moved(b)' = Moved(b) BY <1>4 DEF Approvals, Moved
<1>6. r \notin Signing(b) /\ r \notin Writing(b)'
  BY <1>2 DEF RecordApproval, Writing, Signing
<1>7. Writing(b)' = Writing(b) \ {r} BY <1>2, <1>6, Leaves
<1>8. CASE req[r].build = b
  <2>1. r \in Writing(b) /\ r \in Signing(b)'
    BY <1>1, <1>2, <1>8
       DEF RecordApproval, Knows, Writing, Signing, SameDecision, SameSubject
  <2>2. Signing(b)' = Signing(b) \cup {r} BY <1>2, <2>1, Leaves
  <2>3. /\ Entries(b)' = Entries(b) \cup {Len(changelog) + 1}
        /\ Len(changelog) + 1 \notin Entries(b)
    BY <1>1, <1>3, <1>4, <1>8, EnteredOnce
  <2>4. /\ IsFiniteSet(Signing(b)') /\ Cardinality(Signing(b)') = Cardinality(Signing(b)) + 1
        /\ IsFiniteSet(Entries(b)') /\ Cardinality(Entries(b)') = Cardinality(Entries(b)) + 1
    BY <1>1, <1>6, <2>2, <2>3, FS_AddElement DEF Explained
  <2>5. /\ IsFiniteSet(Writing(b)') /\ Cardinality(Writing(b)') = Cardinality(Writing(b)) - 1
    BY <1>1, <1>7, <2>1, FS_RemoveElement DEF Explained
  <2>6. /\ Cardinality(Writing(b)) \in Nat /\ Cardinality(Moved(b)) \in Nat
        /\ Cardinality(Entries(b)) \in Nat /\ Cardinality(Signing(b)) \in Nat
        /\ Cardinality(Approvals(b)) \in Nat
    BY <1>1, FS_CardinalityType DEF Explained
  <2> QED BY <1>1, <1>5, <2>4, <2>5, <2>6 DEF Explained, Unsigned
<1>9. CASE req[r].build # b
  <2>1. r \notin Writing(b) /\ r \notin Signing(b)'
    BY <1>2, <1>9 DEF Writing, Signing, SameDecision, SameSubject
  <2>2. Entries(b)' = Entries(b) BY <1>1, <1>3, <1>4, <1>9, EnteredOnce
  <2>3. Signing(b)' = Signing(b) /\ Writing(b)' = Writing(b)
    BY <1>2, <1>6, <2>1, Absent
  <2> QED BY <1>1, <1>5, <2>2, <2>3, NoneNearer DEF Unsigned
<1> QED BY <1>8, <1>9

LEMMA SignExplained ==
  ASSUME EInv, NEW r \in Reviewers, RecordDecision(r), NEW b \in Builds
  PROVE  Explained(b)' /\ Unsigned(b)' = Unsigned(b)
<1> DEFINE e == [build |-> req[r].build, what |-> req[r].what, at |-> req[r].at]
<1>1. KInv /\ Reviewing /\ Knows(r) /\ Explained(b) BY TypesSplit DEF EInv, KInv
<1>2. Others(r) /\ req'[r].pc \in {"idle", "subject"}
  BY <1>1, GotoFacts, RefuseFacts DEF RecordDecision, Places
<1>3. e \in [build: Builds, what: {"approved", "rejected"}, at: Times]
  <2>1. /\ req[r].what \in {"approved", "rejected"} /\ req[r].build \in Builds
        /\ req[r].at \in Times
    BY <1>1 DEF RecordDecision, Knows, Reviewing, InFlight
  <2> QED BY <2>1
<1>4. decisions' = Append(decisions, e) /\ UNCHANGED <<changelog, moves>>
  BY DEF RecordDecision
<1>5. Entries(b)' = Entries(b) /\ Moved(b)' = Moved(b) BY <1>4 DEF Entries, Moved
<1>6. r \notin Writing(b) /\ r \notin Writing(b)' /\ r \notin Signing(b)'
  BY <1>2 DEF RecordDecision, Writing, Signing
<1>7. Writing(b)' = Writing(b) /\ Signing(b)' = Signing(b) \ {r}
  BY <1>2, <1>6, Leaves, Absent
<1>8. CASE req[r].build = b /\ req[r].what = "approved"
  <2>1. r \in Signing(b) BY <1>8 DEF RecordDecision, Signing
  <2>2. /\ Approvals(b)' = Approvals(b) \cup {Len(decisions) + 1}
        /\ Len(decisions) + 1 \notin Approvals(b)
    BY <1>1, <1>3, <1>4, <1>8, ApprovedOnce
  <2>3. /\ IsFiniteSet(Approvals(b)')
        /\ Cardinality(Approvals(b)') = Cardinality(Approvals(b)) + 1
    BY <1>1, <2>2, FS_AddElement DEF Explained
  <2>4. IsFiniteSet(Signing(b)') /\ Cardinality(Signing(b)') = Cardinality(Signing(b)) - 1
    BY <1>1, <1>7, <2>1, FS_RemoveElement DEF Explained
  <2>5. /\ Cardinality(Signing(b)) \in Nat /\ Cardinality(Approvals(b)) \in Nat
        /\ Cardinality(Entries(b)) \in Nat /\ Cardinality(Writing(b)) \in Nat
    BY <1>1, FS_CardinalityType DEF Explained
  <2> QED BY <1>1, <1>5, <1>7, <2>3, <2>4, <2>5 DEF Explained, Unsigned
<1>9. CASE ~(req[r].build = b /\ req[r].what = "approved")
  <2>1. Approvals(b)' = Approvals(b) BY <1>1, <1>3, <1>4, <1>9, ApprovedOnce
  <2>2. r \notin Signing(b) BY <1>9 DEF Signing
  <2>3. Signing(b)' = Signing(b) BY <1>2, <1>6, <2>2, Absent
  <2> QED BY <1>1, <1>5, <1>7, <2>1, <2>3, NoneNearer DEF Unsigned
<1> QED BY <1>8, <1>9

LEMMA RunPutMoves ==
  ASSUME KInv, NEW d \in Docs, RunPut(d)
  PROVE  /\ \A b \in Builds : Moved(b)' = Moved(b)
         /\ UNCHANGED <<decisions, changelog, concerns, req>>
<1> DEFINE e == [build |-> None, doc |-> d, regions |-> {}, truncated |-> FALSE,
                at |-> clock]
<1>1. e \in BaselineWrites BY TypesSplit DEF KInv, Rest, BaselineWrites
<1>2. moves' = Append(moves, e) /\ UNCHANGED <<decisions, changelog, concerns, req>>
  BY DEF RunPut, records
<1>3. \A b \in Builds : e.build # b BY NoneAssumption
<1> QED BY <1>1, <1>2, <1>3, MovedOnce

LEMMA EStep == ASSUME EInv, [Next]_vars PROVE EInv'
<1>1. KInv /\ KInv' BY KStep DEF EInv
<1>2. ASSUME UNCHANGED <<decisions, changelog>>, \A b \in Builds : Moved(b)' = Moved(b),
             UNCHANGED req
      PROVE  EInv'
  <2> SUFFICES ASSUME NEW b \in Builds PROVE Explained(b)' BY <1>1 DEF EInv
  <2>1. /\ Approvals(b)' = Approvals(b) /\ Entries(b)' = Entries(b)
        /\ Writing(b)' = Writing(b) /\ Signing(b)' = Signing(b)
    BY <1>2 DEF Approvals, Entries, Writing, Signing
  <2> QED BY <1>2, <2>1, NoneNearer DEF EInv
<1>3. CASE \/ UNCHANGED vars \/ Tick \/ (\E b \in Builds : SweepBuild(b))
           \/ (\E b \in Builds, p \in Pushes, t \in 0..clock : Push(b, p, t))
  BY <1>2, <1>3 DEF vars, Tick, Push, SweepBuild, records, Moved
<1>4. ASSUME NEW d \in Docs, RunPut(d) PROVE EInv'
  BY <1>1, <1>2, <1>4, RunPutMoves
<1>5. ASSUME NEW r \in Reviewers, UNCHANGED <<decisions, changelog, moves>>, Others(r),
             \A b \in Builds : /\ r \in Writing(b)' => r \in Writing(b)
                               /\ r \in Signing(b)' => r \in Signing(b)
      PROVE  EInv'
  <2> SUFFICES ASSUME NEW b \in Builds PROVE Explained(b)' BY <1>1 DEF EInv
  <2>1. /\ Approvals(b)' = Approvals(b) /\ Entries(b)' = Entries(b) /\ Moved(b)' = Moved(b)
    BY <1>5 DEF Approvals, Entries, Moved
  <2>2. Writing(b)' \subseteq Writing(b) /\ Signing(b)' \subseteq Signing(b)
    BY <1>5, Elsewhere
  <2> QED BY <2>1, <2>2, NoneNearer DEF EInv
<1>6. ASSUME NEW r \in Reviewers, NEW b \in Builds, OpenPage(r, b) PROVE EInv'
  <2>1. Others(r) /\ req'[r].pc = "page"
    BY <1>1, <1>6, TypesSplit DEF KInv, OpenPage, Reviewing, Others, Idle
  <2>2. \A c \in Builds : r \notin Writing(c)' /\ r \notin Signing(c)'
    BY <2>1 DEF Writing, Signing
  <2> QED BY <1>5, <1>6, <2>1, <2>2 DEF OpenPage, records
<1>7. ASSUME NEW r \in Reviewers, NEW what \in {"approved", "rejected"}, NEW v \in Versions,
             ReadRow(r, what, v)
      PROVE  EInv'
  <2>1. Reviewing BY <1>1, TypesSplit DEF KInv
  <2>2. /\ Others(r)
        /\ \/ req'[r].pc \in {"idle", "identity", "repeats"}
           \/ req'[r].pc = "record" /\ req'[r].what = "rejected"
    <3>1. CASE Refuse(r) BY <2>1, <3>1, RefuseFacts
    <3>2. CASE ~Refuse(r) BY <1>7, <2>1, <3>2 DEF ReadRow, Reviewing, Others, InFlight
    <3> QED BY <3>1, <3>2
  <2>3. \A c \in Builds : r \notin Writing(c)' /\ r \notin Signing(c)'
    BY <2>2 DEF Writing, Signing
  <2> QED BY <1>5, <1>7, <2>2, <2>3 DEF ReadRow, records
<1>8. ASSUME NEW r \in Reviewers, PutBaseline(r) \/ RecordApproval(r) \/ RecordDecision(r)
      PROVE  EInv'
  BY <1>1, <1>8, PutExplained, LogExplained, SignExplained DEF EInv
<1>9. ASSUME NEW r \in Reviewers, Decide(r) \/ Crash(r),
             ~PutBaseline(r), ~RecordApproval(r), ~RecordDecision(r)
      PROVE  EInv'
  <2>1. Others(r) /\ (Stops(r) \/ GoesOn(r)) BY <1>1, <1>9, DecideShape
  <2>2. UNCHANGED <<decisions, changelog, moves>>
    BY <1>9 DEF Decide, Crash, ReadIdentity, Describe, CheckClash, ReadRepeats, AskRaised,
                CheckCandidate, ReadContext, AskSubject, Raise, records
  <2>3. req[r].pc \notin {"put", "log"} \/ Stops(r)
    <3>1. Crash(r) => Stops(r)
      BY <1>1, RefuseFacts, TypesSplit DEF KInv, Crash, Stops
    <3> QED BY <1>9, <3>1
        DEF Decide, ReadIdentity, Describe, CheckClash, ReadRepeats, AskRaised,
            CheckCandidate, ReadContext, AskSubject, Raise
  <2>4. \A b \in Builds : /\ r \in Writing(b)' => r \in Writing(b)
                          /\ r \in Signing(b)' => r \in Signing(b)
    <3>1. CASE Stops(r) BY <3>1 DEF Stops, Writing, Signing
    <3>2. CASE GoesOn(r) /\ req[r].pc \notin {"put", "log"}
      BY <3>2 DEF GoesOn, SameSubject, Onward, Writing, Signing
    <3> QED BY <2>1, <2>3, <3>1, <3>2
  <2> QED BY <1>5, <2>1, <2>2, <2>4
<1> QED BY <1>3, <1>4, <1>6, <1>7, <1>8, <1>9 DEF Next

LEMMA EInit == Init => EInv
<1> SUFFICES ASSUME Init PROVE EInv OBVIOUS
<1> SUFFICES ASSUME NEW b \in Builds PROVE Explained(b) BY KInit DEF EInv
<1>1. /\ Approvals(b) = {} /\ Entries(b) = {} /\ Moved(b) = {}
      /\ Writing(b) = {} /\ Signing(b) = {}
  BY DEF Init, Idle, Approvals, Entries, Moved, Writing, Signing
<1> QED BY <1>1, Empty DEF Explained

(* No approval is recorded without a changelog entry and a baseline of its  *)
(* own, wherever decisions die and however they overlap.                   *)
THEOREM ApprovalsExplained == Spec => []ApprovalsAreExplained
<1>1. Init => EInv BY EInit
<1>2. EInv /\ [Next]_vars => EInv' BY EStep
<1>3. EInv => ApprovalsAreExplained
  <2> SUFFICES ASSUME EInv, NEW b \in Builds
               PROVE  /\ Cardinality(Approvals(b)) <= Cardinality(Entries(b))
                      /\ Cardinality(Entries(b)) <= Cardinality(Moved(b))
    BY DEF ApprovalsAreExplained
  <2>1. /\ Cardinality(Writing(b)) \in Nat /\ Cardinality(Moved(b)) \in Nat
        /\ Cardinality(Entries(b)) \in Nat /\ Cardinality(Signing(b)) \in Nat
        /\ Cardinality(Approvals(b)) \in Nat
    BY FS_CardinalityType DEF EInv, Explained
  <2> QED BY <2>1 DEF EInv, Explained
<1> QED BY <1>1, <1>2, <1>3, PTL DEF Spec
-----------------------------------------------------------------------------
(* Where decisions do not overlap, at most one is between its awaits.       *)

Active(r) == req[r].pc \notin {"idle", "page"}
Solo == \A q, r \in Reviewers : Active(q) /\ Active(r) => q = r

LEMMA DecidesActive ==
  ASSUME NEW r \in Reviewers, Decide(r) \/ Crash(r) PROVE Active(r)
BY DEF Decide, Crash, Active, ReadIdentity, Describe, CheckClash, ReadRepeats, AskRaised,
       CheckCandidate, PutBaseline, ReadContext, RecordApproval, RecordDecision, AskSubject,
       Raise

(* What opening a page, and taking the row a decision goes on with, does.    *)
LEMMA OpensPage ==
  ASSUME KInv, NEW r \in Reviewers, NEW b \in Builds, OpenPage(r, b)
  PROVE  /\ Others(r) /\ req'[r].pc = "page" /\ req'[r].build = b /\ Present(b)
         /\ req'[r].accepts = None /\ ~req'[r].versioned
         /\ UNCHANGED <<clock, row, at, filed, pushed, baseline, changelog, decisions,
                        concerns, moves>>
BY TypesSplit DEF KInv, OpenPage, Reviewing, Others, Idle, builds, records

LEMMA TakesRow ==
  ASSUME KInv, NEW r \in Reviewers, NEW what \in {"approved", "rejected"}, NEW v \in Versions,
         ReadRow(r, what, v)
  PROVE  /\ Others(r) /\ req[r].pc = "page"
         /\ \/ req'[r].pc = "idle" /\ req'[r].accepts = None
            \/ /\ req'[r].build = req[r].build /\ req'[r].row = row[req[r].build]
               /\ Present(req[r].build) /\ req'[r].accepts = None
               /\ req'[r].versioned = v /\ req'[r].what = what
               /\ \/ req'[r].pc = "record" /\ what = "rejected"
                  \/ req'[r].pc = "identity"
                  \/ req'[r].pc = "repeats" /\ ~v
         /\ Concurrent \/ Quiet
         /\ UNCHANGED <<clock, row, at, filed, pushed, baseline, changelog, decisions,
                        concerns, moves>>
<1>1. Reviewing /\ Knows(r) /\ req[r] \in InFlight /\ req[r].pc = "page"
  BY TypesSplit DEF KInv, Reviewing, ReadRow
<1>2. req[r].accepts = None BY <1>1 DEF Knows
<1>3. UNCHANGED <<clock, row, at, filed, pushed, baseline, changelog, decisions,
                  concerns, moves>> /\ (Concurrent \/ Quiet)
  BY DEF ReadRow, builds, records
<1>4. CASE ~Present(req[r].build)
  <2>1. Refuse(r) BY <1>4 DEF ReadRow
  <2> QED BY <1>1, <1>3, <2>1, RefuseFacts
<1>5. CASE Present(req[r].build)
  <2> DEFINE next == IF what = "rejected" THEN "record" ELSE IF v THEN "identity" ELSE "repeats"
             new == [req[r] EXCEPT !.pc = next, !.what = what, !.row = row[req[r].build],
                                   !.versioned = v, !.at = clock]
  <2>1. req' = [req EXCEPT ![r] = new] BY <1>1, <1>5 DEF ReadRow, Reviewing
  <2>2. /\ new.pc = next /\ new.build = req[r].build /\ new.what = what
        /\ new.row = row[req[r].build] /\ new.accepts = req[r].accepts /\ new.versioned = v
    BY <1>1 DEF InFlight
  <2> HIDE DEF new
  <2>3. Others(r) /\ req'[r] = new BY <1>1, <2>1 DEF Reviewing, Others
  <2> QED BY <1>1, <1>2, <1>3, <1>5, <2>2, <2>3
<1> QED BY <1>4, <1>5

LEMMA SoloStep ==
  ASSUME KInv, ~Concurrent, Solo, [Next]_vars PROVE Solo'
<1>1. ASSUME UNCHANGED req PROVE Solo' BY <1>1 DEF Solo, Active
<1>2. CASE \/ UNCHANGED vars \/ Tick \/ (\E b \in Builds : SweepBuild(b))
           \/ (\E b \in Builds, p \in Pushes, t \in 0..clock : Push(b, p, t))
           \/ (\E d \in Docs : RunPut(d))
  BY <1>1, <1>2 DEF vars, Tick, Push, SweepBuild, RunPut
<1>3. ASSUME NEW r \in Reviewers, Others(r), Active(r) \/ ~Active(r)' \/ Quiet PROVE Solo'
  BY <1>3 DEF Solo, Active, Others, Quiet
<1>4. ASSUME NEW r \in Reviewers, NEW b \in Builds, OpenPage(r, b) PROVE Solo'
  BY <1>3, <1>4, OpensPage DEF Active
<1>5. ASSUME NEW r \in Reviewers, NEW what \in {"approved", "rejected"}, NEW v \in Versions,
             ReadRow(r, what, v)
      PROVE  Solo'
  BY <1>3, <1>5, TakesRow
<1>6. ASSUME NEW r \in Reviewers, Decide(r) \/ Crash(r) PROVE Solo'
  BY <1>3, <1>6, DecideShape, DecidesActive
<1> QED BY <1>2, <1>4, <1>5, <1>6 DEF Next

LEMMA SoloInit == Init => Solo
BY DEF Init, Solo, Active, Idle

LEMMA RestLeavesDecisions ==
  ASSUME \/ UNCHANGED vars \/ Tick \/ (\E d \in Docs : RunPut(d))
         \/ (\E b \in Builds : SweepBuild(b))
         \/ (\E b \in Builds, p \in Pushes, t \in 0..clock : Push(b, p, t))
  PROVE  UNCHANGED <<changelog, decisions, concerns, req>>
BY DEF vars, Tick, RunPut, SweepBuild, Push, records
-----------------------------------------------------------------------------
(* One concern per acceptance: what a decision found unraised stays so      *)
(* until it raises it, nobody else being under way.                        *)

Raised(b, c) == \E k \in DOMAIN concerns : concerns[k] = [build |-> b, of |-> c]
Asked == {"promote", "put", "context", "log", "record", "subject", "raise"}
Fresh(r) ==
  req[r].pc \in Asked /\ req[r].accepts # None => ~Raised(req[r].build, req[r].accepts)
OInv == KInv /\ Solo /\ OneConcernPerAcceptance /\ \A r \in Reviewers : Fresh(r)

LEMMA FreshStep ==
  ASSUME OInv, NEW r \in Reviewers, Decide(r) \/ Crash(r), ~Raise(r)
  PROVE  UNCHANGED concerns /\ Fresh(r)'
<1>1. Others(r) /\ (Stops(r) \/ GoesOn(r)) /\ Knows(r) /\ Fresh(r) /\ Reviewing
  BY DecideShape, TypesSplit DEF OInv, KInv
<1>2. UNCHANGED concerns
  BY DEF Decide, Crash, ReadIdentity, Describe, CheckClash, ReadRepeats, AskRaised,
         CheckCandidate, PutBaseline, ReadContext, RecordApproval, RecordDecision,
         AskSubject, records
<1>3. CASE Stops(r) BY <1>2, <1>3 DEF Stops, Fresh
<1>4. CASE GoesOn(r) /\ req[r].pc = "raised"
  <2> ~Crash(r) BY <1>1, <1>4, RefuseFacts DEF Crash, GoesOn, Onward
  <2>1. AskRaised(r)
    BY <1>4 DEF Decide, ReadIdentity, Describe, CheckClash, ReadRepeats, CheckCandidate,
                PutBaseline, ReadContext, RecordApproval, RecordDecision, AskSubject
  <2>2. CASE Raised(req[r].build, req[r].accepts)
    <3>1. req' = [req EXCEPT ![r].pc = "promote", ![r].accepts = None]
      BY <2>1, <2>2 DEF AskRaised, Raised
    <3>2. req'[r].accepts = None BY <1>1, <3>1 DEF Reviewing, InFlight
    <3> QED BY <1>2, <3>2 DEF Fresh
  <2>3. CASE ~Raised(req[r].build, req[r].accepts)
    <3>1. Goto(r, "promote") BY <2>1, <2>3 DEF AskRaised, Raised
    <3>2. SameDecision(r) BY <1>1, <3>1, GotoFacts DEF Places
    <3> QED BY <1>2, <2>3, <3>2 DEF Fresh, Raised, SameDecision, SameSubject
  <2> QED BY <2>2, <2>3
<1>5. CASE GoesOn(r) /\ req[r].pc # "raised"
  <2>1. req'[r].pc \in Asked => req'[r].accepts = req[r].accepts
    BY <1>5 DEF GoesOn, Asked
  <2>2. req'[r].pc \in Asked => req[r].pc \in Asked \cup {"clash", "repeats"}
    BY <1>5 DEF GoesOn, Onward, Asked
  <2>3. req[r].pc \in {"clash", "repeats"} => req[r].accepts = None BY <1>1 DEF Knows
  <2>4. req'[r].build = req[r].build BY <1>5 DEF GoesOn, SameSubject
  <2> QED BY <1>1, <1>2, <2>1, <2>2, <2>3, <2>4 DEF Fresh, Raised
<1> QED BY <1>1, <1>3, <1>4, <1>5

LEMMA RaiseOnce ==
  ASSUME OInv, NEW r \in Reviewers, Raise(r)
  PROVE  OneConcernPerAcceptance' /\ \A q \in Reviewers : Fresh(q)'
<1> DEFINE e == [build |-> req[r].build, of |-> req[r].accepts]
<1>1. Reviewing /\ Knows(r) /\ Fresh(r) /\ Active(r)
  BY TypesSplit, DecidesActive DEF OInv, KInv, Decide
<1>2. Others(r) /\ req'[r].pc = "idle" BY <1>1, RefuseFacts DEF Raise
<1>3. concerns \in Seq([build: Builds, of: Builds]) /\ concerns' = Append(concerns, e)
  BY TypesSplit DEF OInv, KInv, Rest, Raise
<1>4. \A k \in DOMAIN concerns : concerns[k] # e
  BY <1>1 DEF Raise, Knows, Fresh, Asked, Raised
<1>5. OneConcernPerAcceptance'
  BY <1>3, <1>4 DEF OInv, OneConcernPerAcceptance
<1>6. ASSUME NEW q \in Reviewers PROVE Fresh(q)'
  <2>1. CASE q = r BY <1>2, <2>1 DEF Fresh, Asked
  <2>2. CASE q # r
    <3>1. ~Active(q) BY <1>1, <2>2 DEF OInv, Solo
    <3>2. req'[q] = req[q] BY <1>2, <2>2 DEF Others
    <3> QED BY <3>1, <3>2 DEF Active, Fresh, Asked
  <2> QED BY <2>1, <2>2
<1> QED BY <1>5, <1>6

LEMMA OStep == ASSUME ~Concurrent, OInv, [Next]_vars PROVE OInv'
<1>1. KInv /\ KInv' /\ Solo' BY KStep, SoloStep DEF OInv
<1>2. ASSUME UNCHANGED <<concerns, req>> PROVE OInv'
  BY <1>1, <1>2 DEF OInv, OneConcernPerAcceptance, Fresh, Raised
<1>3. ASSUME NEW r \in Reviewers, Others(r), UNCHANGED concerns, Fresh(r)' PROVE OInv'
  BY <1>1, <1>3 DEF OInv, OneConcernPerAcceptance, Fresh, Raised, Others
<1>4. CASE \/ UNCHANGED vars \/ Tick \/ (\E d \in Docs : RunPut(d))
           \/ (\E b \in Builds : SweepBuild(b))
           \/ (\E b \in Builds, p \in Pushes, t \in 0..clock : Push(b, p, t))
  BY <1>2, <1>4, RestLeavesDecisions
<1>5. ASSUME NEW r \in Reviewers, NEW b \in Builds, OpenPage(r, b) PROVE OInv'
  <2>1. Fresh(r)' BY <1>1, <1>5, OpensPage DEF Fresh, Asked
  <2> QED BY <1>1, <1>3, <1>5, <2>1, OpensPage
<1>6. ASSUME NEW r \in Reviewers, NEW what \in {"approved", "rejected"}, NEW v \in Versions,
             ReadRow(r, what, v)
      PROVE  OInv'
  <2>1. Fresh(r)' BY <1>1, <1>6, TakesRow DEF Fresh, Asked
  <2> QED BY <1>1, <1>3, <1>6, <2>1, TakesRow
<1>7. ASSUME NEW r \in Reviewers, Decide(r) \/ Crash(r), ~Raise(r) PROVE OInv'
  BY <1>1, <1>3, <1>7, DecideShape, FreshStep
<1>8. ASSUME NEW r \in Reviewers, Raise(r) PROVE OInv'
  BY <1>1, <1>8, RaiseOnce DEF OInv
<1> QED BY <1>4, <1>5, <1>6, <1>7, <1>8 DEF Next

(* Where decisions do not overlap, approving what was already accepted in   *)
(* the same build raises no second concern, wherever decisions die.         *)
THEOREM ConcernsRaisedOnce ==
  ASSUME ~Concurrent PROVE Spec => []OneConcernPerAcceptance
<1>1. Init => OInv
  <2> SUFFICES ASSUME Init PROVE OInv OBVIOUS
  <2>1. \A r \in Reviewers : Fresh(r) BY DEF Init, Idle, Fresh, Asked
  <2> QED BY <2>1, KInit, SoloInit DEF Init, OInv, OneConcernPerAcceptance
<1>2. OInv /\ [Next]_vars => OInv' BY OStep
<1>3. OInv => OneConcernPerAcceptance BY DEF OInv
<1> QED BY <1>1, <1>2, <1>3, PTL DEF Spec
-----------------------------------------------------------------------------
(* A promotion goes unsigned only where its decision gives up: every other  *)
(* step keeps the difference between a build's baselines and the approvals  *)
(* that are recorded or on the way.                                        *)

LEMMA StepSigned ==
  ASSUME EInv, [Next]_vars, NEW b \in Builds
  PROVE  \/ Unsigned(b)' = Unsigned(b)
         \/ /\ Unsigned(b)' = Unsigned(b) + 1
            /\ \E r \in Writing(b) \cup Signing(b) : GivesUp(r, b)
<1>1. KInv /\ Explained(b) BY DEF EInv
<1>2. ASSUME UNCHANGED decisions, Moved(b)' = Moved(b),
             Writing(b)' = Writing(b), Signing(b)' = Signing(b)
      PROVE  Unsigned(b)' = Unsigned(b)
  BY <1>2 DEF Unsigned, Approvals
<1>3. ASSUME UNCHANGED req PROVE Writing(b)' = Writing(b) /\ Signing(b)' = Signing(b)
  BY <1>3 DEF Writing, Signing
<1>4. CASE \/ UNCHANGED vars \/ Tick \/ (\E c \in Builds : SweepBuild(c))
           \/ (\E c \in Builds, p \in Pushes, t \in 0..clock : Push(c, p, t))
  BY <1>2, <1>3, <1>4 DEF vars, Tick, Push, SweepBuild, records, Moved
<1>5. ASSUME NEW d \in Docs, RunPut(d) PROVE Unsigned(b)' = Unsigned(b)
  BY <1>1, <1>2, <1>3, <1>5, RunPutMoves
<1>6. ASSUME NEW r \in Reviewers, UNCHANGED <<decisions, moves>>, Others(r),
             /\ r \in Writing(b)' <=> r \in Writing(b)
             /\ r \in Signing(b)' <=> r \in Signing(b)
      PROVE  Unsigned(b)' = Unsigned(b)
  <2>1. Writing(b)' = Writing(b) /\ Signing(b)' = Signing(b)
    BY <1>6, Leaves DEF Writing, Signing
  <2> QED BY <1>2, <1>6, <2>1 DEF Moved
<1>7. ASSUME NEW r \in Reviewers, NEW c \in Builds, OpenPage(r, c)
      PROVE  Unsigned(b)' = Unsigned(b)
  <2>1. req[r].pc \in {"idle", "page"} BY <1>7 DEF OpenPage
  <2> QED BY <1>1, <1>6, <1>7, <2>1, OpensPage DEF Writing, Signing
<1>8. ASSUME NEW r \in Reviewers, NEW what \in {"approved", "rejected"}, NEW v \in Versions,
             ReadRow(r, what, v)
      PROVE  Unsigned(b)' = Unsigned(b)
  BY <1>1, <1>6, <1>8, TakesRow DEF Writing, Signing
<1>9. ASSUME NEW r \in Reviewers, PutBaseline(r) \/ RecordApproval(r) \/ RecordDecision(r)
      PROVE  Unsigned(b)' = Unsigned(b)
  BY <1>9, PutExplained, LogExplained, SignExplained
<1>10. ASSUME NEW r \in Reviewers, Crash(r) \/ (ReadContext(r) /\ ~Present(req[r].build))
       PROVE  \/ Unsigned(b)' = Unsigned(b)
              \/ /\ Unsigned(b)' = Unsigned(b) + 1
                 /\ r \in Writing(b) \cup Signing(b) /\ GivesUp(r, b)
  <2>1. Others(r) /\ req'[r].pc = "idle" /\ UNCHANGED <<decisions, moves>>
    BY <1>1, <1>10, RefuseFacts, TypesSplit DEF KInv, Crash, ReadContext, records
  <2>2. r \notin Writing(b)' /\ r \notin Signing(b)' BY <2>1 DEF Writing, Signing
  <2>3. CASE r \notin Writing(b) \cup Signing(b) BY <1>6, <2>1, <2>2, <2>3
  <2>4. CASE r \in Writing(b) \cup Signing(b)
    <3>1. req[r].build = b BY <2>4 DEF Writing, Signing
    <3>2. GivesUp(r, b) BY <1>10, <3>1 DEF GivesUp
    <3>3. /\ Writing(b)' = Writing(b) \ {r} /\ Signing(b)' = Signing(b) \ {r}
          /\ ~(r \in Writing(b) /\ r \in Signing(b))
      BY <2>1, <2>2, Leaves DEF Writing, Signing
    <3>4. \/ /\ Cardinality(Writing(b)') = Cardinality(Writing(b)) - 1
             /\ Signing(b)' = Signing(b)
          \/ /\ Cardinality(Signing(b)') = Cardinality(Signing(b)) - 1
             /\ Writing(b)' = Writing(b)
      BY <1>1, <2>4, <3>3, FS_RemoveElement DEF Explained
    <3>5. Approvals(b)' = Approvals(b) /\ Moved(b)' = Moved(b)
      BY <2>1 DEF Approvals, Moved
    <3>6. /\ Cardinality(Writing(b)) \in Nat /\ Cardinality(Moved(b)) \in Nat
          /\ Cardinality(Signing(b)) \in Nat /\ Cardinality(Approvals(b)) \in Nat
      BY <1>1, FS_CardinalityType DEF Explained
    <3>7. Unsigned(b)' = Unsigned(b) + 1 BY <3>4, <3>5, <3>6 DEF Unsigned
    <3> QED BY <2>4, <3>2, <3>7
  <2> QED BY <2>3, <2>4
<1>11. ASSUME NEW r \in Reviewers, Decide(r),
              ~PutBaseline(r), ~RecordApproval(r), ~RecordDecision(r),
              ~(ReadContext(r) /\ ~Present(req[r].build))
       PROVE  Unsigned(b)' = Unsigned(b)
  <2>1. Others(r) /\ (Stops(r) \/ GoesOn(r)) BY <1>1, <1>11, DecideShape
  <2>2. UNCHANGED <<decisions, moves>>
    BY <1>11 DEF Decide, ReadIdentity, Describe, CheckClash, ReadRepeats, AskRaised,
                 CheckCandidate, ReadContext, AskSubject, Raise, records
  <2>3. req[r].pc \notin {"put", "log", "record"}
    BY <1>11 DEF Decide, ReadIdentity, Describe, CheckClash, ReadRepeats, AskRaised,
                 CheckCandidate, ReadContext, AskSubject, Raise
  <2>4. CASE req[r].pc = "context"
    <3>1. ReadContext(r)
      BY <1>11, <2>4 DEF Decide, ReadIdentity, Describe, CheckClash, ReadRepeats, AskRaised,
                         CheckCandidate, AskSubject, Raise
    <3>2. Goto(r, "log") BY <1>11, <3>1 DEF ReadContext
    <3>3. SameDecision(r) /\ req'[r].pc = "log"
      BY <1>1, <3>2, GotoFacts, TypesSplit DEF KInv, Places
    <3> QED BY <1>6, <2>1, <2>2, <2>4, <3>3 DEF Writing, Signing, SameDecision, SameSubject
  <2>5. CASE req[r].pc # "context"
    <3>1. req'[r].pc \notin {"context", "log", "record"}
      BY <2>1, <2>3, <2>5 DEF Stops, GoesOn, Onward
    <3> QED BY <1>6, <2>1, <2>2, <2>3, <2>5, <3>1 DEF Writing, Signing
  <2> QED BY <2>4, <2>5
<1> QED BY <1>4, <1>5, <1>7, <1>8, <1>9, <1>10, <1>11 DEF Next

(* However decisions overlap, die and race pushes and sweeps, every baseline *)
(* an approval wrote is signed or on the way, but for those whose decision   *)
(* died before it was recorded or found its build gone.                     *)
THEOREM EveryPromotionSigned == Spec => PromotionsAreSigned
<1>1. Init => EInv BY EInit
<1>2. EInv /\ [Next]_vars => EInv' BY EStep
<1>3. EInv /\ [Next]_vars =>
        [\A b \in Builds : Unsigned(b)' # Unsigned(b) =>
           /\ Unsigned(b)' = Unsigned(b) + 1
           /\ \E r \in Writing(b) \cup Signing(b) : GivesUp(r, b)]_vars
  BY StepSigned
<1> QED BY <1>1, <1>2, <1>3, PTL DEF Spec, PromotionsAreSigned
-----------------------------------------------------------------------------
(* Where builds do not expire, what a reviewer looks at or decides about is  *)
(* there.                                                                  *)
Standing == \A r \in Reviewers : req[r].pc # "idle" => Present(req[r].build)

LEMMA PushPresent ==
  ASSUME KInv, NEW b \in Builds, NEW p \in Pushes, NEW t \in 0..clock, Push(b, p, t)
  PROVE  /\ row'[b] = p /\ p # None
         /\ \A c \in Builds \ {b} : row'[c] = row[c] /\ at'[c] = at[c]
BY NoneAssumption, PushAssumption, TypesSplit DEF KInv, Rest, Push

LEMMA StandingStep ==
  ASSUME ~Sweeps, KInv, Standing, [Next]_vars PROVE Standing'
<1>1. ASSUME UNCHANGED <<row, req>> PROVE Standing' BY <1>1 DEF Standing, Present
<1>2. CASE UNCHANGED vars \/ Tick \/ (\E d \in Docs : RunPut(d))
  BY <1>1, <1>2 DEF vars, Tick, RunPut, builds
<1>3. ASSUME NEW b \in Builds, NEW p \in Pushes, NEW t \in 0..clock, Push(b, p, t)
      PROVE  Standing'
  <2>1. UNCHANGED req BY <1>3 DEF Push
  <2>2. \A c \in Builds : Present(c) => Present(c)' BY <1>3, PushPresent DEF Present
  <2>3. \A r \in Reviewers : req[r].pc # "idle" => req[r].build \in Builds
    BY DEF KInv, Knows
  <2> QED BY <2>1, <2>2, <2>3 DEF Standing, Present
<1>4. ASSUME NEW r \in Reviewers, Others(r), UNCHANGED row,
             req'[r].pc # "idle" => Present(req'[r].build)
      PROVE  Standing'
  BY <1>4 DEF Standing, Others, Present
<1>5. ASSUME NEW r \in Reviewers, NEW b \in Builds, OpenPage(r, b) PROVE Standing'
  BY <1>4, <1>5, OpensPage
<1>6. ASSUME NEW r \in Reviewers, NEW what \in {"approved", "rejected"}, NEW v \in Versions,
             ReadRow(r, what, v)
      PROVE  Standing'
  BY <1>4, <1>6, TakesRow
<1>7. ASSUME NEW r \in Reviewers, Decide(r) \/ Crash(r) PROVE Standing'
  <2>1. UNCHANGED row
    BY <1>7 DEF Decide, Crash, ReadIdentity, Describe, CheckClash, ReadRepeats, AskRaised,
                CheckCandidate, PutBaseline, ReadContext, RecordApproval, RecordDecision,
                AskSubject, Raise, builds
  <2>2. Others(r) /\ (Stops(r) \/ GoesOn(r)) /\ Active(r)
    BY <1>7, DecideShape, DecidesActive
  <2>3. req'[r].pc # "idle" => Present(req'[r].build)
    BY <2>2 DEF Standing, Stops, GoesOn, SameSubject, Active
  <2> QED BY <1>4, <2>1, <2>2, <2>3
<1> QED BY <1>2, <1>3, <1>5, <1>6, <1>7 DEF Next, SweepBuild

(* Where decisions do not overlap or die, no build expires and none is      *)
(* pushed twice, what a decision goes by is what the build's row says.      *)

Calm == ~Concurrent /\ ~Repush /\ ~Sweeps /\ ~Crashes
Settled ==
  /\ \A b \in Builds : Present(b) => b \in pushed
  /\ \A r \in Reviewers : Active(r) => req[r].row = row[req[r].build]
  /\ \A k \in DOMAIN decisions : Present(decisions[k].build)
CInv == KInv /\ Solo /\ Standing /\ Settled

(* The rows of the tables have their types.                                *)
LEMMA TableRows ==
  ASSUME KInv
  PROVE  /\ \A k \in DOMAIN decisions : decisions[k].build \in Builds
         /\ \A k \in DOMAIN changelog : changelog[k].build \in Builds
         /\ \A k \in DOMAIN moves : moves[k] \in BaselineWrites
<1> DEFINE D == [build: Builds, what: {"approved", "rejected"}, at: Times]
           C == [build: Builds, at: Times, regions: SUBSET Areas]
<1>1. decisions \in Seq(D) /\ changelog \in Seq(C) /\ moves \in Seq(BaselineWrites)
  BY TypesSplit DEF KInv, Rest
<1>2. \A d \in D : d.build \in Builds OBVIOUS
<1>3. \A c \in C : c.build \in Builds OBVIOUS
<1> HIDE DEF D, C
<1>4. /\ \A k \in DOMAIN decisions : decisions[k] \in D
      /\ \A k \in DOMAIN changelog : changelog[k] \in C
      /\ \A k \in DOMAIN moves : moves[k] \in BaselineWrites
  BY <1>1
<1> QED BY <1>2, <1>3, <1>4

LEMMA CalmPush ==
  ASSUME Calm, CInv, NEW b \in Builds, NEW p \in Pushes, NEW t \in 0..clock, Push(b, p, t)
  PROVE  /\ ~Present(b)
         /\ \A c \in Builds : Present(c) =>
              c # b /\ row'[c] = row[c] /\ at'[c] = at[c] /\ Present(c)'
         /\ \A c, e \in Builds \ {b} : (c \in Repeats(e))' <=> c \in Repeats(e)
         /\ UNCHANGED <<clock, baseline, changelog, decisions, concerns, moves, req>>
<1>1. KInv /\ ~Present(b) BY DEF CInv, Settled, Calm, Push
<1>2. \A c \in Builds \ {b} : row'[c] = row[c] /\ at'[c] = at[c] BY <1>1, PushPresent
<1>3. \A c, e \in Builds \ {b} : <<c, e>> \in filed' <=> <<c, e>> \in filed
  BY DEF Push, Unfiled
<1>4. \A c, e \in Builds \ {b} : (c \in Repeats(e))' <=> c \in Repeats(e)
  BY <1>2, <1>3 DEF Repeats, Before, Present
<1>5. UNCHANGED <<clock, baseline, changelog, decisions, concerns, moves, req>>
  BY DEF Push, records
<1> QED BY <1>1, <1>2, <1>4, <1>5 DEF Present

(* Nothing else touches the rows of a build.                               *)
LEMMA RowsKept ==
  ASSUME Calm, NEW r \in Reviewers,
         \/ Decide(r) \/ Crash(r) \/ (\E b \in Builds : OpenPage(r, b))
         \/ \E what \in {"approved", "rejected"}, v \in Versions : ReadRow(r, what, v)
  PROVE  UNCHANGED <<row, at, filed, pushed>>
BY DEF Decide, Crash, ReadIdentity, Describe, CheckClash, ReadRepeats, AskRaised,
       CheckCandidate, PutBaseline, ReadContext, RecordApproval, RecordDecision,
       AskSubject, Raise, OpenPage, ReadRow, builds

LEMMA SettledStep == ASSUME Calm, CInv, [Next]_vars PROVE Settled'
<1>1. KInv /\ Standing BY DEF CInv
<1>2. ASSUME UNCHANGED <<row, pushed, req, decisions>> PROVE Settled'
  BY <1>2 DEF CInv, Settled, Active, Present
<1>3. CASE UNCHANGED vars \/ Tick \/ (\E d \in Docs : RunPut(d))
  BY <1>2, <1>3 DEF vars, Tick, RunPut, builds, records
<1>4. ASSUME NEW b \in Builds, NEW p \in Pushes, NEW t \in 0..clock, Push(b, p, t)
      PROVE  Settled'
  <2>1. \A c \in Builds : Present(c) =>
          c # b /\ row'[c] = row[c] /\ at'[c] = at[c] /\ Present(c)'
    BY <1>4, CalmPush
  <2>2. UNCHANGED <<decisions, req>> BY <1>4, CalmPush
  <2>3. \A c \in Builds : Present(c)' => c \in pushed'
    BY <1>1, <1>4, PushPresent DEF CInv, Settled, Present, Push
  <2>4. \A r \in Reviewers : Active(r) => req[r].build \in Builds /\ Present(req[r].build)
    BY <1>1 DEF KInv, Knows, Standing, Active
  <2>5. \A k \in DOMAIN decisions : decisions[k].build \in Builds
    BY <1>1, TableRows
  <2>6. ASSUME NEW r \in Reviewers, Active(r) PROVE req[r].row = row'[req[r].build]
    BY <2>1, <2>4, <2>6 DEF CInv, Settled
  <2>7. ASSUME NEW k \in DOMAIN decisions PROVE row'[decisions[k].build] # None
    BY <2>1, <2>5 DEF CInv, Settled, Present
  <2> QED BY <2>2, <2>3, <2>6, <2>7 DEF Settled, Active, Present
<1>5. ASSUME NEW r \in Reviewers, Others(r), UNCHANGED <<row, pushed, decisions>>,
             Active(r)' => req'[r].row = row[req'[r].build]
      PROVE  Settled'
  BY <1>5 DEF CInv, Settled, Active, Others, Present
<1>6. ASSUME NEW r \in Reviewers, NEW b \in Builds, OpenPage(r, b) PROVE Settled'
  BY <1>1, <1>5, <1>6, OpensPage DEF Active
<1>7. ASSUME NEW r \in Reviewers, NEW what \in {"approved", "rejected"}, NEW v \in Versions,
             ReadRow(r, what, v)
      PROVE  Settled'
  BY <1>1, <1>5, <1>7, TakesRow DEF Active
<1>8. ASSUME NEW r \in Reviewers, Decide(r) PROVE Settled'
  <2>1. Others(r) /\ (Stops(r) \/ GoesOn(r)) /\ Active(r) /\ UNCHANGED <<row, pushed>>
    BY <1>1, <1>8, DecideShape, DecidesActive, RowsKept
  <2>2. Active(r)' => req'[r].row = row[req'[r].build]
    BY <2>1 DEF Stops, GoesOn, SameSubject, CInv, Settled, Active
  <2>3. CASE UNCHANGED decisions BY <1>5, <2>1, <2>2, <2>3
  <2>4. CASE RecordDecision(r)
    <3> DEFINE e == [build |-> req[r].build, what |-> req[r].what, at |-> req[r].at]
    <3>1. decisions' = Append(decisions, e) BY <2>4 DEF RecordDecision
    <3>2. decisions \in Seq([build: Builds, what: {"approved", "rejected"}, at: Times])
      BY <1>1, TypesSplit DEF KInv, Rest
    <3>3. e.build = req[r].build OBVIOUS
    <3>4. Present(req[r].build) BY <2>1 DEF CInv, Standing, Active
    <3> HIDE DEF e
    <3>5. \A k \in DOMAIN decisions' :
            \/ k \in DOMAIN decisions /\ decisions'[k] = decisions[k]
            \/ decisions'[k] = e
      BY <3>1, <3>2
    <3>6. \A k \in DOMAIN decisions' : Present(decisions'[k].build)
      BY <3>3, <3>4, <3>5 DEF CInv, Settled
    <3> QED BY <2>1, <2>2, <3>6 DEF CInv, Settled, Active, Others, Present
  <2> QED
    BY <1>8, <2>3, <2>4 DEF Decide, ReadIdentity, Describe, CheckClash, ReadRepeats,
       AskRaised, CheckCandidate, PutBaseline, ReadContext, RecordApproval, AskSubject, Raise,
       records
<1> QED BY <1>3, <1>4, <1>6, <1>7, <1>8 DEF Next, Calm, SweepBuild, Crash

LEMMA CStep == ASSUME Calm, CInv, [Next]_vars PROVE CInv'
BY KStep, SoloStep, StandingStep, SettledStep DEF CInv, Calm

LEMMA CInit == Init => CInv
BY KInit, SoloInit DEF Init, Idle, CInv, Standing, Settled, Active, Present
-----------------------------------------------------------------------------
(* A rejected picture that a later build's approval accepts stays on         *)
(* record: while the approval is under way it carries the rejection it       *)
(* accepts, or found the concern of it raised.                              *)

(* The i-th decision rejected a picture that b repeats, and no later one     *)
(* was about that picture.                                                  *)
Open(i, b) ==
  /\ decisions[i].what = "rejected" /\ decisions[i].build \in Repeats(b)
  /\ \A k \in DOMAIN decisions : k > i => row[decisions[k].build].cand # row[b].cand
Deciding == {"promote", "put", "context", "log", "record"}
Minds(r) ==
  LET me == req[r] IN
  /\ me.pc = "raised" =>
       \A i \in DOMAIN decisions : Open(i, me.build) => me.accepts = decisions[i].build
  /\ me.pc \in Deciding /\ me.what = "approved" =>
       \A i \in DOMAIN decisions : Open(i, me.build) =>
         me.accepts = decisions[i].build \/ Raised(me.build, decisions[i].build)
Raising(r, b, c) ==
  req[r].pc \in {"subject", "raise"} /\ req[r].build = b /\ req[r].accepts = c
OnItsWay(b, c) == \E r \in Reviewers : Raising(r, b, c)
Kept ==
  \A i, j \in DOMAIN decisions : AcceptedRejection(i, j) =>
    \/ Raised(decisions[j].build, decisions[i].build)
    \/ OnItsWay(decisions[j].build, decisions[i].build)
AInv == CInv /\ Kept /\ \A r \in Reviewers : Minds(r)

LEMMA OpenFrame ==
  ASSUME UNCHANGED <<row, at, filed, decisions>>
  PROVE  /\ \A i, b : Open(i, b)' <=> Open(i, b)
         /\ \A i, j : AcceptedRejection(i, j)' <=> AcceptedRejection(i, j)
         /\ \A b : Rejected(b)' = Rejected(b)
BY DEF Open, AcceptedRejection, Rejected, Leads, Repeats, Before, Present

(* Only the last decision on a picture leads.                              *)
LEMMA OpenLeads ==
  ASSUME CInv, NEW b \in Builds, NEW i \in DOMAIN decisions, Open(i, b)
  PROVE  Rejected(b) = {decisions[i].build}
<1>1. DOMAIN decisions \subseteq Nat BY TypesSplit DEF CInv, KInv, Rest
<1>2. \A j \in DOMAIN decisions : decisions[j].build \in Repeats(b) => j <= i
  BY <1>1 DEF Open, Repeats
<1>3. Leads(i, b) BY <1>2 DEF Open, Leads
<1>4. \A j \in DOMAIN decisions : Leads(j, b) => j = i BY <1>1, <1>3 DEF Leads
<1> QED BY <1>3, <1>4 DEF Rejected, Open

LEMMA MindsStep ==
  ASSUME Calm, AInv, NEW r \in Reviewers, Decide(r), ~RecordDecision(r), ~Raise(r)
  PROVE  /\ Minds(r)' /\ Others(r) /\ UNCHANGED <<row, at, filed, decisions, concerns>>
         /\ \A b, c : Raising(r, b, c) => Raising(r, b, c)'
<1>1. Reviewing /\ Knows(r) /\ Minds(r) /\ Others(r) /\ (Stops(r) \/ GoesOn(r)) /\ Active(r)
  BY DecideShape, DecidesActive, TypesSplit DEF AInv, CInv, KInv
<1>2. UNCHANGED <<row, at, filed, decisions, concerns>>
  BY RowsKept
     DEF Decide, ReadIdentity, Describe, CheckClash, ReadRepeats, AskRaised,
         CheckCandidate, PutBaseline, ReadContext, RecordApproval, AskSubject, records
<1>3. req[r].build \in Builds /\ Present(req[r].build)
  BY <1>1 DEF AInv, CInv, Knows, Standing, Active
<1>4. CASE ReadRepeats(r)
  <2>1. req[r].pc = "repeats" BY <1>4 DEF ReadRepeats
  <2>2. \A b, c : ~Raising(r, b, c) BY <2>1 DEF Raising
  <2>3. CASE Rejected(req[r].build) = {} /\ Goto(r, "promote")
    <3>1. \A i \in DOMAIN decisions : ~Open(i, req[r].build) BY <1>3, <2>3, OpenLeads DEF AInv
    <3>2. SameDecision(r) /\ req'[r].pc = "promote" BY <1>1, <2>3, GotoFacts DEF Places
    <3>3. req'[r].build = req[r].build BY <3>2 DEF SameDecision, SameSubject
    <3>4. Minds(r)' BY <1>2, <3>1, <3>2, <3>3, OpenFrame DEF Minds, Deciding
    <3> QED BY <1>1, <1>2, <2>2, <3>4
  <2>4. ASSUME NEW c \in Rejected(req[r].build),
               req' = [req EXCEPT ![r].pc = "raised", ![r].accepts = c]
        PROVE  Minds(r)'
    <3>1. req'[r].pc = "raised" /\ req'[r].accepts = c /\ req'[r].build = req[r].build
      BY <1>1, <2>4 DEF Reviewing, InFlight
    <3>2. \A i \in DOMAIN decisions : Open(i, req[r].build) => c = decisions[i].build
      BY <1>3, <2>4, OpenLeads DEF AInv
    <3> QED BY <1>2, <3>1, <3>2, OpenFrame DEF Minds, Deciding
  <2> QED BY <1>1, <1>2, <1>4, <2>2, <2>3, <2>4 DEF ReadRepeats
<1>5. CASE AskRaised(r)
  <2>1. req[r].pc = "raised" BY <1>5 DEF AskRaised
  <2>2. \A b, c : ~Raising(r, b, c) BY <2>1 DEF Raising
  <2>3. /\ req'[r].pc = "promote" /\ req'[r].build = req[r].build
        /\ \/ req'[r].accepts = req[r].accepts
           \/ Raised(req[r].build, req[r].accepts)
    <3>1. CASE Goto(r, "promote")
      BY <1>1, <3>1, GotoFacts DEF Places, SameDecision, SameSubject
    <3>2. CASE Raised(req[r].build, req[r].accepts)
               /\ req' = [req EXCEPT ![r].pc = "promote", ![r].accepts = None]
      BY <1>1, <3>2 DEF Reviewing, InFlight
    <3> QED BY <1>5, <3>1, <3>2 DEF AskRaised, Raised
  <2>4. \A b, c : Raised(b, c)' <=> Raised(b, c) BY <1>2 DEF Raised
  <2>5. \A i \in DOMAIN decisions : Open(i, req[r].build) => req[r].accepts = decisions[i].build
    BY <1>1, <2>1 DEF Minds
  <2>6. Minds(r)' BY <1>2, <2>3, <2>4, <2>5, OpenFrame DEF Minds, Deciding
  <2> QED BY <1>1, <1>2, <2>2, <2>6
<1>6. CASE ~ReadRepeats(r) /\ ~AskRaised(r)
  <2>1. req[r].pc \notin {"record", "repeats", "raised"}
    BY <1>6 DEF Decide, ReadIdentity, Describe, CheckClash, CheckCandidate, PutBaseline,
                ReadContext, RecordApproval, AskSubject
  <2>2. req[r].pc \in {"subject", "raise"} => GoesOn(r)
    <3>1. req[r].pc \in {"subject", "raise"} => AskSubject(r)
      BY <1>6 DEF Decide, ReadIdentity, Describe, CheckClash, CheckCandidate, PutBaseline,
                  ReadContext, RecordApproval
    <3>2. AskSubject(r) => Goto(r, "raise") BY <1>3 DEF AskSubject
    <3>3. Goto(r, "raise") => req'[r].pc = "raise" BY <1>1, GotoFacts DEF Places
    <3> QED BY <1>1, <3>1, <3>2, <3>3 DEF Stops
  <2>3. CASE Stops(r)
    BY <1>1, <1>2, <2>2, <2>3 DEF Stops, GoesOn, Onward, Minds, Deciding, Raising
  <2>4. CASE GoesOn(r)
    <3>1. /\ req'[r].accepts = req[r].accepts /\ req'[r].pc # "raised"
          /\ req'[r].build = req[r].build /\ req'[r].what = req[r].what
      BY <2>1, <2>4 DEF GoesOn, SameSubject, Onward
    <3>2. /\ req'[r].pc \in Deciding => req[r].pc \in Deciding
          /\ req[r].pc \in {"subject", "raise"} => req'[r].pc \in {"subject", "raise"}
      BY <2>1, <2>4 DEF GoesOn, Onward, Deciding
    <3>3. \A b, c : Raised(b, c)' <=> Raised(b, c) BY <1>2 DEF Raised
    <3>4. Minds(r)' BY <1>1, <1>2, <3>1, <3>2, <3>3, OpenFrame DEF Minds
    <3> QED BY <1>1, <1>2, <3>1, <3>2, <3>4 DEF Raising
  <2> QED BY <1>1, <2>3, <2>4
<1> QED BY <1>4, <1>5, <1>6

LEMMA SignKeeps ==
  ASSUME Calm, AInv, NEW r \in Reviewers, RecordDecision(r)
  PROVE  Kept' /\ \A q \in Reviewers : Minds(q)'
<1> DEFINE n == Len(decisions) + 1
           e == [build |-> req[r].build, what |-> req[r].what, at |-> req[r].at]
<1>1. /\ Reviewing /\ Knows(r) /\ Minds(r) /\ Others(r) /\ Active(r)
      /\ req[r].pc = "record" /\ req[r].build \in Builds
  BY DecideShape, DecidesActive, TypesSplit
     DEF AInv, CInv, KInv, Decide, RecordDecision, Knows
<1>2. UNCHANGED <<row, at, filed, concerns>>
  BY DEF RecordDecision, builds
<1>3. /\ decisions' = Append(decisions, e)
      /\ decisions \in Seq([build: Builds, what: {"approved", "rejected"}, at: Times])
  BY TypesSplit DEF AInv, CInv, KInv, Rest, RecordDecision
<1>4. /\ DOMAIN decisions = 1..Len(decisions) /\ Len(decisions) \in Nat
      /\ DOMAIN decisions' = 1..n /\ decisions'[n] = e
      /\ \A k \in 1..Len(decisions) : decisions'[k] = decisions[k]
  BY <1>3
<1>5. req'[r].pc = IF req[r].accepts = None THEN "idle" ELSE "subject"
  BY <1>1, GotoFacts, RefuseFacts DEF RecordDecision, Places
<1>6. \A q \in Reviewers \ {r} : ~Active(q) /\ req'[q] = req[q]
  BY <1>1 DEF AInv, CInv, Solo, Others
<1>7. \A b, c : ~OnItsWay(b, c) BY <1>1, <1>6 DEF OnItsWay, Raising, Active
<1>8. \A b, c : Raised(b, c)' <=> Raised(b, c) BY <1>2 DEF Raised
<1>9. ASSUME NEW i \in DOMAIN decisions', NEW j \in DOMAIN decisions',
              AcceptedRejection(i, j)',
              NEW b, b = decisions'[j].build, NEW c, c = decisions'[i].build
       PROVE  Raised(b, c)' \/ OnItsWay(b, c)'
  <2>1. i \in DOMAIN decisions /\ decisions'[i] = decisions[i] /\ i < j
    BY <1>4, <1>9 DEF AcceptedRejection
  <2>2. CASE j \in DOMAIN decisions
    <3>1. \A k \in i + 1..j - 1 : k \in DOMAIN decisions /\ decisions'[k] = decisions[k]
      BY <1>4, <2>1, <2>2
    <3>2. decisions'[j] = decisions[j] BY <1>4, <2>2
    <3>3. AcceptedRejection(i, j)
      BY <1>2, <1>9, <2>1, <3>1, <3>2
         DEF AcceptedRejection, Repeats, Before, Present
    <3>4. Raised(b, c) BY <1>7, <1>9, <2>1, <2>2, <3>2, <3>3 DEF AInv, Kept
    <3> QED BY <1>8, <3>4
  <2>3. CASE j \notin DOMAIN decisions
    <3>1. j = n /\ decisions'[j] = e BY <1>4, <2>3
    <3>2. \A k \in DOMAIN decisions : k > i => k \in i + 1..j - 1 /\ decisions'[k] = decisions[k]
      BY <1>4, <2>1, <3>1
    <3>3. Open(i, req[r].build) /\ req[r].what = "approved"
      BY <1>2, <1>9, <2>1, <3>1, <3>2
         DEF AcceptedRejection, Open, Repeats, Before, Present
    <3>4. b = req[r].build /\ c = decisions[i].build BY <1>9, <2>1, <3>1
    <3>5. req[r].accepts = c \/ Raised(b, c)
      BY <1>1, <2>1, <3>3, <3>4 DEF Minds, Deciding
    <3>6. CASE req[r].accepts = c
      <4>1. c \in Builds BY <2>1, <3>4, TableRows DEF AInv, CInv
      <4>2. req[r].accepts # None BY <3>6, <4>1, NoneAssumption
      <4>3. Goto(r, "subject") BY <4>2 DEF RecordDecision
      <4>4. SameDecision(r) /\ req'[r].pc = "subject" BY <1>1, <4>3, GotoFacts DEF Places
      <4>5. Raising(r, b, c)' BY <3>4, <3>6, <4>4 DEF Raising, SameDecision, SameSubject
      <4> QED BY <4>5 DEF OnItsWay
    <3>7. CASE Raised(b, c) BY <1>8, <3>7
    <3> QED BY <3>5, <3>6, <3>7
  <2> QED BY <2>2, <2>3
<1>10. Kept' BY <1>9 DEF Kept, Raised, OnItsWay, Raising
<1>11. \A q \in Reviewers : Minds(q)'
  <2>1. Minds(r)' BY <1>5 DEF Minds, Deciding
  <2>2. \A q \in Reviewers \ {r} : Minds(q)' BY <1>6 DEF Minds, Deciding, Active
  <2> QED BY <2>1, <2>2
<1> QED BY <1>10, <1>11

LEMMA RaiseKeeps ==
  ASSUME Calm, AInv, NEW r \in Reviewers, Raise(r)
  PROVE  Kept' /\ \A q \in Reviewers : Minds(q)'
<1> DEFINE e == [build |-> req[r].build, of |-> req[r].accepts]
<1>1. Reviewing /\ Active(r) BY DecidesActive, TypesSplit DEF AInv, CInv, KInv, Decide
<1>2. Others(r) /\ req'[r].pc = "idle" BY <1>1, RefuseFacts DEF Raise
<1>3. UNCHANGED <<row, at, filed, decisions>> BY DEF Raise, builds
<1>4. concerns \in Seq([build: Builds, of: Builds]) /\ concerns' = Append(concerns, e)
  BY TypesSplit DEF AInv, CInv, KInv, Rest, Raise
<1>5. \A b, c : Raised(b, c) => Raised(b, c)' BY <1>4 DEF Raised
<1>6. \A b, c : Raising(r, b, c) => Raised(b, c)' BY <1>4 DEF Raising, Raised
<1>7. \A q \in Reviewers \ {r} : ~Active(q) /\ req'[q] = req[q]
  BY <1>1, <1>2 DEF AInv, CInv, Solo, Others
<1>8. \A b, c : OnItsWay(b, c) => Raised(b, c)'
  BY <1>6, <1>7 DEF OnItsWay, Raising, Active
<1>9. Kept' BY <1>3, <1>5, <1>8, OpenFrame DEF AInv, Kept
<1>10. \A q \in Reviewers : Minds(q)'
  <2>1. Minds(r)' BY <1>2 DEF Minds, Deciding
  <2>2. \A q \in Reviewers \ {r} : Minds(q)' BY <1>7 DEF Minds, Deciding, Active
  <2> QED BY <2>1, <2>2
<1> QED BY <1>9, <1>10

LEMMA AStep == ASSUME Calm, AInv, [Next]_vars PROVE AInv'
<1>1. CInv /\ CInv' BY CStep DEF AInv
<1>2. ASSUME UNCHANGED <<row, at, filed, decisions, concerns, req>> PROVE AInv'
  <2>1. Kept' BY <1>2, OpenFrame DEF AInv, Kept, Raised, OnItsWay, Raising
  <2>2. \A r \in Reviewers : Minds(r)' BY <1>2, OpenFrame DEF AInv, Minds, Raised
  <2> QED BY <1>1, <2>1, <2>2 DEF AInv
<1>3. CASE UNCHANGED vars \/ Tick \/ (\E d \in Docs : RunPut(d))
  BY <1>2, <1>3 DEF vars, Tick, RunPut, builds, records
<1>4. ASSUME NEW b \in Builds, NEW p \in Pushes, NEW t \in 0..clock, Push(b, p, t)
      PROVE  AInv'
  <2>1. UNCHANGED <<decisions, concerns, req>> BY <1>1, <1>4, CalmPush
  <2>2. \A k \in DOMAIN decisions :
          /\ decisions[k].build \in Builds \ {b}
          /\ row'[decisions[k].build] = row[decisions[k].build]
    <3>1. \A k \in DOMAIN decisions :
            decisions[k].build \in Builds /\ Present(decisions[k].build)
      BY <1>1, TableRows DEF CInv, Settled
    <3> QED BY <1>1, <1>4, <3>1, CalmPush
  <2>3. \A c, e \in Builds \ {b} : (c \in Repeats(e))' <=> c \in Repeats(e)
    BY <1>1, <1>4, CalmPush
  <2>4. ASSUME NEW i \in DOMAIN decisions, NEW j \in DOMAIN decisions,
               AcceptedRejection(i, j)'
        PROVE  AcceptedRejection(i, j)
    <3>1. decisions[i].build \in Repeats(decisions[j].build)
      <4>1. \A c, e : c = decisions[i].build /\ e = decisions[j].build => (c \in Repeats(e))'
        BY <2>1, <2>4 DEF AcceptedRejection, Repeats, Before, Present
      <4> QED BY <2>2, <2>3, <4>1
    <3>2. i < j => \A k \in i + 1..j - 1 : k \in DOMAIN decisions
      BY <1>1, TypesSplit DEF CInv, KInv, Rest
    <3> QED BY <2>1, <2>2, <2>4, <3>1, <3>2 DEF AcceptedRejection
  <2>5. Kept' BY <2>1, <2>4 DEF AInv, Kept, Raised, OnItsWay, Raising
  <2>6. ASSUME NEW e \in Builds, Present(e), NEW i \in DOMAIN decisions, Open(i, e)'
        PROVE  Open(i, e)
    <3>1. e # b /\ row'[e] = row[e] BY <1>1, <1>4, <2>6, CalmPush
    <3>2. decisions[i].build \in Repeats(e)
      <4>1. \A c : c = decisions[i].build => (c \in Repeats(e))'
        BY <2>1, <2>6 DEF Open, Repeats, Before, Present
      <4> QED BY <2>2, <2>3, <3>1, <4>1
    <3> QED BY <2>1, <2>2, <2>6, <3>1, <3>2 DEF Open
  <2>7. ASSUME NEW r \in Reviewers PROVE Minds(r)'
    <3>1. CASE Active(r)
      <4>1. req[r].build \in Builds /\ Present(req[r].build)
        BY <1>1, <3>1 DEF CInv, KInv, Knows, Standing, Active
      <4>2. \A i \in DOMAIN decisions : Open(i, req[r].build)' => Open(i, req[r].build)
        <5> DEFINE e == req[r].build
        <5>1. \A i \in DOMAIN decisions : \A c : c = e /\ Open(i, c)' => Open(i, c)
          BY <2>6, <4>1
        <5> QED BY <2>1, <5>1 DEF Open, Repeats, Before, Present
      <4> QED BY <2>1, <4>2 DEF AInv, Minds, Raised
    <3>2. CASE ~Active(r) BY <2>1, <3>2 DEF Minds, Active, Deciding
    <3> QED BY <3>1, <3>2
  <2> QED BY <1>1, <2>5, <2>7 DEF AInv
<1>5. ASSUME NEW r \in Reviewers, Others(r), Minds(r)',
             UNCHANGED <<row, at, filed, decisions, concerns>>,
             \A b, c : Raising(r, b, c) => Raising(r, b, c)'
      PROVE  AInv'
  <2>1. \A b, c : OnItsWay(b, c) => OnItsWay(b, c)'
    BY <1>5 DEF OnItsWay, Raising, Others
  <2>2. \A b, c : Raised(b, c)' <=> Raised(b, c) BY <1>5 DEF Raised
  <2>3. Kept' BY <1>5, <2>1, <2>2, OpenFrame DEF AInv, Kept, Raised, OnItsWay, Raising
  <2>4. \A q \in Reviewers : Minds(q)'
    BY <1>5, OpenFrame DEF AInv, Minds, Others, Raised
  <2> QED BY <1>1, <2>3, <2>4 DEF AInv
<1>6. ASSUME NEW r \in Reviewers, NEW b \in Builds, OpenPage(r, b) PROVE AInv'
  <2>1. req[r].pc \in {"idle", "page"} BY <1>6 DEF OpenPage
  <2>2. Others(r) /\ req'[r].pc = "page" /\ UNCHANGED <<row, at, filed, decisions, concerns>>
    BY <1>1, <1>6, OpensPage DEF CInv
  <2>3. Minds(r)' BY <2>2 DEF Minds, Deciding
  <2> QED BY <1>5, <2>1, <2>2, <2>3 DEF Raising
<1>7. ASSUME NEW r \in Reviewers, NEW what \in {"approved", "rejected"}, NEW v \in Versions,
             ReadRow(r, what, v)
      PROVE  AInv'
  <2>1. /\ Others(r) /\ req[r].pc = "page"
        /\ UNCHANGED <<row, at, filed, decisions, concerns>>
        /\ \/ req'[r].pc \in {"idle", "identity", "repeats"}
           \/ req'[r].pc = "record" /\ req'[r].what = "rejected"
    BY <1>1, <1>7, TakesRow DEF CInv
  <2>2. Minds(r)' BY <2>1 DEF Minds, Deciding
  <2> QED BY <1>5, <2>1, <2>2 DEF Raising
<1>8. ASSUME NEW r \in Reviewers, Decide(r), ~RecordDecision(r), ~Raise(r) PROVE AInv'
  BY <1>5, <1>8, MindsStep
<1>9. ASSUME NEW r \in Reviewers, RecordDecision(r) \/ Raise(r) PROVE AInv'
  BY <1>1, <1>9, SignKeeps, RaiseKeeps DEF AInv
<1> QED BY <1>3, <1>4, <1>6, <1>7, <1>8, <1>9 DEF Next, Calm, SweepBuild, Crash

(* Where decisions do not overlap or die, no build expires and none is      *)
(* pushed twice, an approval that accepts a rejected picture leaves a        *)
(* concern for it.                                                         *)
THEOREM AcceptedDefectsStay ==
  ASSUME ~Concurrent, ~Repush, ~Sweeps, ~Crashes
  PROVE  Spec => []AcceptedDefectStaysOnRecord
<1>1. Calm BY DEF Calm
<1>2. Init => AInv
  <2> SUFFICES ASSUME Init PROVE AInv OBVIOUS
  <2>1. Kept BY DEF Init, Kept
  <2>2. \A r \in Reviewers : Minds(r) BY DEF Init, Idle, Minds, Deciding
  <2> QED BY <2>1, <2>2, CInit DEF AInv
<1>3. AInv /\ [Next]_vars => AInv' BY <1>1, AStep
<1>4. AInv => AcceptedDefectStaysOnRecord
  <2>1. Quiet => \A b, c : ~OnItsWay(b, c) BY DEF Quiet, OnItsWay, Raising
  <2> QED BY <2>1 DEF AInv, Kept, AcceptedDefectStaysOnRecord, Raised
<1> QED BY <1>2, <1>3, <1>4, PTL DEF Spec
-----------------------------------------------------------------------------
(* What an approval taken against a version replaces.  Every write of the    *)
(* baseline by an approval is in the changelog, or about to be by the        *)
(* decision under way, under the time and the regions its build's row has;   *)
(* so what the check of the changelog found holds of the writes, and goes    *)
(* on to hold until the baseline is written.                               *)

Traced(w) ==
  \E e \in DOMAIN changelog :
    changelog[e] = [build |-> w.build, at |-> w.at, regions |-> w.regions]
Tracing(r, w) ==
  req[r].pc \in {"context", "log"} /\ req[r].build = w.build /\ req[r].at = w.at
FromRow(w) ==
  /\ Present(w.build)
  /\ w.regions = row[w.build].regions /\ w.truncated = row[w.build].truncated
Sourced(w) ==
  w.build # None => FromRow(w) /\ (Traced(w) \/ \E r \in Reviewers : Tracing(r, w))
Wrote(b, d) == \E k \in DOMAIN moves : moves[k].build = b /\ moves[k].doc = d
Entered ==
  \A e \in DOMAIN changelog : Wrote(changelog[e].build, row[changelog[e].build].cand)
InHand(r) == req[r].pc \in {"context", "log"} => Wrote(req[r].build, req[r].row.cand)

Seen(b, p) ==
  /\ \E k \in DOMAIN moves : moves[k].build # None /\ moves[k].doc = baseline
  /\ ~p.truncated
  /\ \A k \in DOMAIN moves :
       moves[k].build \notin {None, b} /\ moves[k].at >= at[b]
       => ~moves[k].truncated /\ moves[k].regions \cap p.regions = {}
Cleared == {"repeats", "raised", "promote", "put"}
Checked(r) ==
  LET me == req[r] IN
  /\ me.pc = "clash" => me.current = baseline
  /\ me.versioned /\ me.pc \in Cleared /\ baseline \notin {me.read, me.row.cand}
     => Seen(me.build, me.row)
AllSourced == \A k \in DOMAIN moves : Sourced(moves[k])
HInv ==
  /\ CInv /\ Entered /\ AllSourced
  /\ \A r \in Reviewers : InHand(r) /\ Checked(r)

(* What a step of a decision carries along.                                *)
LEMMA Carries ==
  ASSUME Reviewing, NEW r \in Reviewers, Decide(r)
  PROVE  \/ req'[r].pc = "idle"
         \/ /\ req'[r].read = req[r].read /\ req'[r].versioned = req[r].versioned
            /\ req[r].pc \notin {"describe", "clash"} => req'[r].at = req[r].at
<1> DEFINE Same == /\ req'[r].read = req[r].read /\ req'[r].versioned = req[r].versioned
                   /\ req[r].pc \notin {"describe", "clash"} => req'[r].at = req[r].at
<1>1. req[r] \in InFlight BY DEF Reviewing
<1>2. ASSUME NEW pc, Goto(r, pc) PROVE Same
  BY <1>1, <1>2 DEF Goto, Reviewing, InFlight
<1>3. ASSUME NEW pc, Stamp(r, pc), req[r].pc \in {"describe", "clash"} PROVE Same
  BY <1>1, <1>3 DEF Stamp, Reviewing, InFlight
<1>4. ASSUME NEW pc, NEW x,
             \/ req' = [req EXCEPT ![r].pc = pc, ![r].current = x]
             \/ req' = [req EXCEPT ![r].pc = pc, ![r].accepts = x]
      PROVE  Same
  BY <1>1, <1>4 DEF Reviewing, InFlight
<1>5. Refuse(r) => req'[r].pc = "idle" BY RefuseFacts
<1>6. \/ Refuse(r) \/ (\E pc : Goto(r, pc))
      \/ req[r].pc \in {"describe", "clash"} /\ \E pc : Stamp(r, pc)
      \/ \E pc, x : \/ req' = [req EXCEPT ![r].pc = pc, ![r].current = x]
                   \/ req' = [req EXCEPT ![r].pc = pc, ![r].accepts = x]
  BY DEF Decide, ReadIdentity, Describe, CheckClash, ReadRepeats, AskRaised,
         CheckCandidate, PutBaseline, ReadContext, RecordApproval, RecordDecision,
         AskSubject, Raise
<1> QED BY <1>2, <1>3, <1>4, <1>5, <1>6

LEMMA SeenFrame ==
  ASSUME UNCHANGED <<row, at, baseline, changelog, moves>>
  PROVE  /\ \A w : Traced(w)' <=> Traced(w)
         /\ \A w : FromRow(w)' <=> FromRow(w)
         /\ \A b, d : Wrote(b, d)' <=> Wrote(b, d)
         /\ \A b, p : Seen(b, p)' <=> Seen(b, p)
         /\ Entered' <=> Entered
BY DEF Traced, FromRow, Wrote, Seen, Present, Entered

(* What the check of the changelog found of its entries it found of the      *)
(* writes.                                                                  *)
LEMMA ClashSees ==
  ASSUME HInv, NEW r \in Reviewers, req[r].pc = "clash",
         ~Clashes(req[r].build, req[r].row, req[r].current)
  PROVE  Seen(req[r].build, req[r].row)
<1> DEFINE b == req[r].build  p == req[r].row
<1>1. /\ KInv /\ Active(r) /\ b \in Builds /\ Present(b) /\ req[r].current = baseline
  BY DEF HInv, CInv, KInv, Knows, Standing, Active, Checked
<1>2. \A q \in Reviewers : req[q].pc \notin {"context", "log"}
  BY <1>1 DEF HInv, CInv, Solo, Active
<1>3. ~p.truncated BY DEF Clashes
<1>4. \E k \in DOMAIN moves : moves[k].build # None /\ moves[k].doc = baseline
  <2>1. PICK e \in Since(b) : Promoted(e, baseline) BY <1>1 DEF Clashes
  <2>2. e \in DOMAIN changelog /\ row[changelog[e].build].cand = baseline
    BY <2>1 DEF Since, Promoted
  <2>3. changelog[e].build \in Builds BY <1>1, <2>2, TableRows
  <2> QED BY <2>2, <2>3, NoneAssumption DEF HInv, Entered, Wrote
<1>5. ASSUME NEW k \in DOMAIN moves, moves[k].build \notin {None, b}, moves[k].at >= at[b]
      PROVE  ~moves[k].truncated /\ moves[k].regions \cap p.regions = {}
  <2>1. FromRow(moves[k]) /\ Traced(moves[k])
    BY <1>2, <1>5 DEF HInv, AllSourced, Sourced, Tracing
  <2>2. PICK e \in DOMAIN changelog :
          /\ changelog[e].build = moves[k].build /\ changelog[e].at = moves[k].at
          /\ changelog[e].regions = moves[k].regions
    BY <2>1 DEF Traced
  <2>3. e \in Since(b) BY <1>1, <1>5, <2>2 DEF Since
  <2>4. ~CutShort(e) /\ changelog[e].regions \cap p.regions = {} BY <2>3 DEF Clashes
  <2>5. ~row[changelog[e].build].truncated BY <2>1, <2>2, <2>4 DEF CutShort, FromRow
  <2> QED BY <2>1, <2>2, <2>4, <2>5 DEF FromRow
<1> QED BY <1>3, <1>4, <1>5 DEF Seen

(* A step of a decision other than its two writes.                         *)
LEMMA CheckedStep ==
  ASSUME Calm, HInv, NEW r \in Reviewers, Decide(r), ~PutBaseline(r), ~RecordApproval(r)
  PROVE  /\ Others(r) /\ UNCHANGED <<row, at, baseline, changelog, moves>>
         /\ InHand(r)' /\ Checked(r)'
         /\ \A w : Tracing(r, w) => Tracing(r, w)'
<1>1. /\ KInv /\ Reviewing /\ Knows(r) /\ Others(r) /\ (Stops(r) \/ GoesOn(r)) /\ Active(r)
      /\ Present(req[r].build) /\ InHand(r) /\ Checked(r)
  BY DecideShape, DecidesActive, TypesSplit DEF HInv, CInv, KInv, Standing, Active
<1>2. UNCHANGED <<row, at, baseline, changelog, moves>>
  BY RowsKept
     DEF Decide, ReadIdentity, Describe, CheckClash, ReadRepeats, AskRaised,
         CheckCandidate, ReadContext, RecordDecision, AskSubject, Raise, records
<1>3. req[r].pc \notin {"put", "log"}
  BY DEF Decide, ReadIdentity, Describe, CheckClash, ReadRepeats, AskRaised,
         CheckCandidate, ReadContext, RecordDecision, AskSubject, Raise
<1>4. CASE req[r].pc = "context"
  <2>1. ReadContext(r)
    BY <1>4 DEF Decide, ReadIdentity, Describe, CheckClash, ReadRepeats, AskRaised,
                CheckCandidate, RecordDecision, AskSubject, Raise
  <2>2. Goto(r, "log") BY <1>1, <2>1 DEF ReadContext
  <2>3. SameDecision(r) /\ req'[r].pc = "log" BY <1>1, <2>2, GotoFacts DEF Places
  <2>4. req'[r].at = req[r].at BY <1>1, <1>4, <2>3, Carries
  <2>5. InHand(r)'
    BY <1>1, <1>2, <1>4, <2>3, SeenFrame DEF InHand, SameDecision, SameSubject
  <2>6. Checked(r)' BY <2>3 DEF Checked, Cleared
  <2>7. \A w : Tracing(r, w) => Tracing(r, w)'
    BY <2>3, <2>4 DEF Tracing, SameDecision, SameSubject
  <2> QED BY <1>1, <1>2, <2>5, <2>6, <2>7
<1>5. CASE req[r].pc # "context"
  <2>1. req'[r].pc \notin {"context", "log"} BY <1>1, <1>3, <1>5 DEF Stops, GoesOn, Onward
  <2>2. InHand(r)' /\ \A w : ~Tracing(r, w) BY <1>3, <1>5, <2>1 DEF InHand, Tracing
  <2>3. CASE Stops(r) BY <1>1, <1>2, <2>2, <2>3 DEF Stops, Checked, Cleared
  <2>4. CASE GoesOn(r) /\ req'[r].pc = "clash"
    <3>1. req[r].pc = "describe" BY <2>4 DEF GoesOn, Onward
    <3>2. Describe(r)
      BY <3>1 DEF Decide, ReadIdentity, CheckClash, ReadRepeats, AskRaised,
                  CheckCandidate, PutBaseline, ReadContext, RecordApproval, RecordDecision,
                  AskSubject, Raise
    <3> clock \in Times BY <1>1, TypesSplit DEF KInv, Rest
    <3>3. req' = [req EXCEPT ![r].pc = "clash", ![r].current = baseline]
      BY <1>1, <2>4, <3>2, RefuseFacts, StampFacts DEF Describe, Places
    <3>4. req'[r].current = baseline BY <1>1, <3>3 DEF Reviewing, InFlight
    <3> QED BY <1>1, <1>2, <2>2, <2>4, <3>4 DEF Checked, Cleared
  <2>5. CASE GoesOn(r) /\ req'[r].pc \in Cleared
    <3>1. /\ req'[r].build = req[r].build /\ req'[r].row = req[r].row
          /\ req'[r].read = req[r].read /\ req'[r].versioned = req[r].versioned
      BY <1>1, <2>5, Carries DEF GoesOn, SameSubject, Onward
    <3>2. CASE req[r].pc \in Cleared
      BY <1>1, <1>2, <2>2, <2>5, <3>1, <3>2, SeenFrame DEF Checked, Cleared
    <3>3. CASE req[r].pc = "describe"
      <4>1. Describe(r)
        BY <3>3 DEF Decide, ReadIdentity, CheckClash, ReadRepeats, AskRaised,
                    CheckCandidate, PutBaseline, ReadContext, RecordApproval, RecordDecision,
                    AskSubject, Raise
      <4>2. req'[r].pc # "clash" /\ req'[r].pc # "idle" BY <2>5 DEF Cleared
      <4>3. ~(req' = [req EXCEPT ![r].pc = "clash", ![r].current = baseline])
        BY <1>1, <4>2 DEF Reviewing, InFlight
      <4>4. baseline \in {req[r].read, req[r].row.cand}
        BY <1>1, <4>1, <4>2, <4>3, RefuseFacts DEF Describe
      <4> QED BY <1>1, <1>2, <2>2, <3>1, <4>2, <4>4 DEF Checked
    <3>4. CASE req[r].pc = "clash"
      <4>1. CheckClash(r)
        BY <3>4 DEF Decide, ReadIdentity, Describe, ReadRepeats, AskRaised,
                    CheckCandidate, PutBaseline, ReadContext, RecordApproval, RecordDecision,
                    AskSubject, Raise
      <4>2. ~Clashes(req[r].build, req[r].row, req[r].current)
        BY <1>1, <2>5, <4>1, RefuseFacts DEF CheckClash, Cleared
      <4>3. Seen(req[r].build, req[r].row) BY <3>4, <4>2, ClashSees
      <4> QED BY <1>1, <1>2, <2>2, <2>5, <3>1, <4>3, SeenFrame DEF Checked, Cleared
    <3> QED BY <2>5, <3>2, <3>3, <3>4 DEF GoesOn, Onward, Cleared
  <2>6. CASE GoesOn(r) /\ req'[r].pc \notin Cleared \cup {"clash"}
    BY <1>1, <1>2, <2>2, <2>6 DEF Checked
  <2> QED BY <1>1, <2>3, <2>4, <2>5, <2>6
<1> QED BY <1>4, <1>5

LEMMA SourcedEach ==
  ASSUME \A k \in DOMAIN moves' : \A x : x = moves'[k] => Sourced(x)' PROVE AllSourced'
BY DEF AllSourced, Sourced, FromRow, Traced, Tracing, Present

(* The baseline's write, and the changelog's.                              *)
LEMMA PutTraced ==
  ASSUME Calm, HInv, NEW r \in Reviewers, PutBaseline(r)
  PROVE  /\ Entered' /\ AllSourced'
         /\ \A q \in Reviewers : InHand(q)' /\ Checked(q)'
<1> DEFINE n == Len(moves) + 1
<1>0. PICK w : w = [build |-> req[r].build, doc |-> req[r].row.cand,
                    regions |-> req[r].row.regions, truncated |-> req[r].row.truncated,
                    at |-> req[r].at]
  OBVIOUS
<1>1. /\ KInv /\ Reviewing /\ Others(r) /\ Active(r) /\ req[r].build \in Builds
      /\ Present(req[r].build) /\ req[r].row = row[req[r].build]
  BY DecideShape, DecidesActive, TypesSplit
     DEF HInv, CInv, KInv, Knows, Standing, Settled, Active, Decide
<1>2. UNCHANGED <<row, at, changelog>> /\ moves' = Append(moves, w)
  BY <1>0 DEF PutBaseline, builds, records
<1>3. /\ SameDecision(r) /\ req'[r].pc = "context" /\ req'[r].at = req[r].at
      /\ req[r].pc = "put"
  BY <1>1, GotoFacts, Carries DEF PutBaseline, Places, Decide
<1>4. \A q \in Reviewers \ {r} : ~Active(q) /\ req'[q] = req[q]
  BY <1>1 DEF HInv, CInv, Solo, Others
<1>5. moves \in Seq(BaselineWrites) BY <1>1, TypesSplit DEF KInv, Rest
<1>6. w.build = req[r].build /\ w.doc = req[r].row.cand /\ w.at = req[r].at
      /\ w.regions = req[r].row.regions /\ w.truncated = req[r].row.truncated
  BY <1>0
<1>7. /\ n \in DOMAIN moves' /\ moves'[n] = w
      /\ \A k \in DOMAIN moves : k \in DOMAIN moves' /\ moves'[k] = moves[k]
      /\ \A k \in DOMAIN moves' : k \in DOMAIN moves \/ k = n
  BY <1>2, <1>5
<1>8. \A x : (Traced(x)' <=> Traced(x)) /\ (FromRow(x)' <=> FromRow(x))
  BY <1>2 DEF Traced, FromRow, Present
<1>9. \A x : \A q \in Reviewers : ~Tracing(q, x) BY <1>3, <1>4 DEF Tracing, Active
<1>10. \A b, d : Wrote(b, d) => Wrote(b, d)' BY <1>7 DEF Wrote
<1>11. Entered'
  BY <1>2, <1>10 DEF HInv, Entered, Wrote
<1>12. FromRow(w)' /\ Tracing(r, w)'
  BY <1>1, <1>2, <1>3, <1>6 DEF FromRow, Tracing, Present, SameDecision, SameSubject
<1>13. AllSourced'
  <2>1. ASSUME NEW k \in DOMAIN moves', NEW x, x = moves'[k] PROVE Sourced(x)'
    <3>1. CASE k = n BY <1>7, <1>12, <2>1, <3>1 DEF Sourced
    <3>2. CASE k \in DOMAIN moves
      BY <1>7, <1>8, <1>9, <2>1, <3>2 DEF HInv, AllSourced, Sourced
    <3> QED BY <1>7, <3>1, <3>2
  <2> QED BY <2>1, SourcedEach
<1>14. \A q \in Reviewers : InHand(q)' /\ Checked(q)'
  <2>1. \A q \in Reviewers \ {r} : InHand(q)' /\ Checked(q)'
    BY <1>4 DEF InHand, Checked, Active, Cleared
  <2>2. Wrote(w.build, w.doc)' BY <1>7 DEF Wrote
  <2>3. InHand(r)' BY <1>3, <1>6, <2>2 DEF InHand, Wrote, SameDecision, SameSubject
  <2>4. Checked(r)' BY <1>3 DEF Checked, Cleared
  <2> QED BY <2>1, <2>3, <2>4
<1> QED BY <1>11, <1>13, <1>14

LEMMA LogTraced ==
  ASSUME Calm, HInv, NEW r \in Reviewers, RecordApproval(r)
  PROVE  /\ Entered' /\ AllSourced'
         /\ \A q \in Reviewers : InHand(q)' /\ Checked(q)'
<1> DEFINE n == Len(changelog) + 1
           e == [build |-> req[r].build, at |-> req[r].at, regions |-> req[r].row.regions]
<1>1. /\ KInv /\ Reviewing /\ Others(r) /\ Active(r) /\ InHand(r)
      /\ req[r].row = row[req[r].build]
  BY DecideShape, DecidesActive, TypesSplit DEF HInv, CInv, KInv, Settled, Active, Decide
<1>2. UNCHANGED <<row, at, baseline, moves>> /\ changelog' = Append(changelog, e)
  BY DEF RecordApproval, builds
<1>3. req'[r].pc = "record" /\ req[r].pc = "log"
  BY <1>1, GotoFacts DEF RecordApproval, Places
<1>4. \A q \in Reviewers \ {r} : ~Active(q) /\ req'[q] = req[q]
  BY <1>1 DEF HInv, CInv, Solo, Others
<1>5. changelog \in Seq([build: Builds, at: Times, regions: SUBSET Areas])
  BY <1>1, TypesSplit DEF KInv, Rest
<1>6. e.build = req[r].build OBVIOUS
<1>7. /\ n \in DOMAIN changelog' /\ changelog'[n] = e
      /\ \A k \in DOMAIN changelog : k \in DOMAIN changelog' /\ changelog'[k] = changelog[k]
      /\ \A k \in DOMAIN changelog' : k \in DOMAIN changelog \/ k = n
  BY <1>2, <1>5
<1>8. \A x : (FromRow(x)' <=> FromRow(x)) /\ (Traced(x) => Traced(x)')
  BY <1>2, <1>7 DEF Traced, FromRow, Present
<1>9. \A b, d : Wrote(b, d)' <=> Wrote(b, d) BY <1>2 DEF Wrote
<1>10. Wrote(e.build, row[e.build].cand) BY <1>1, <1>3, <1>6 DEF InHand
<1>11. Entered'
  <2>1. ASSUME NEW k \in DOMAIN changelog', NEW b, b = changelog'[k].build
        PROVE  Wrote(b, row[b].cand)
    BY <1>7, <1>10, <2>1 DEF HInv, Entered
  <2> QED BY <1>2, <2>1 DEF Entered, Wrote
<1>12. ASSUME NEW x, FromRow(x), Tracing(r, x) PROVE Traced(x)'
  <2>1. e = [build |-> x.build, at |-> x.at, regions |-> x.regions]
    BY <1>1, <1>12 DEF FromRow, Tracing
  <2> QED BY <1>7, <2>1 DEF Traced
<1>13. AllSourced'
  <2>1. ASSUME NEW k \in DOMAIN moves', NEW x, x = moves'[k] PROVE Sourced(x)'
    <3>1. Sourced(x) BY <1>2, <2>1 DEF HInv, AllSourced
    <3>2. \A q \in Reviewers \ {r} : ~Tracing(q, x) BY <1>4 DEF Tracing, Active
    <3> QED BY <1>8, <1>12, <3>1, <3>2 DEF Sourced
  <2> QED BY <2>1, SourcedEach
<1>14. \A q \in Reviewers : InHand(q)' /\ Checked(q)'
  BY <1>3, <1>4 DEF InHand, Checked, Active, Cleared
<1> QED BY <1>11, <1>13, <1>14

(* Each write of the baseline by an approval is of a build that is there.   *)
LEMMA WritesPresent ==
  ASSUME HInv
  PROVE  /\ \A k \in DOMAIN moves : moves[k].build # None =>
              moves[k].build \in Builds /\ Present(moves[k].build)
         /\ \A e \in DOMAIN changelog :
              changelog[e].build \in Builds /\ Present(changelog[e].build)
<1>1. \A k \in DOMAIN moves : moves[k] \in BaselineWrites BY TableRows DEF HInv, CInv
<1>2. \A k \in DOMAIN moves : moves[k].build # None =>
        moves[k].build \in Builds /\ Present(moves[k].build)
  BY <1>1 DEF HInv, AllSourced, Sourced, FromRow, BaselineWrites
<1>3. \A e \in DOMAIN changelog : changelog[e].build \in Builds
  BY TableRows DEF HInv, CInv
<1> QED BY <1>2, <1>3, NoneAssumption DEF HInv, Entered, Wrote

LEMMA PushTraced ==
  ASSUME Calm, HInv, NEW b \in Builds, NEW p \in Pushes, NEW t \in 0..clock, Push(b, p, t)
  PROVE  /\ Entered' /\ AllSourced'
         /\ \A q \in Reviewers : InHand(q)' /\ Checked(q)'
<1>1. CInv /\ KInv BY DEF HInv, CInv
<1>2. /\ UNCHANGED <<baseline, changelog, moves, req>>
      /\ \A c \in Builds : Present(c) => row'[c] = row[c] /\ at'[c] = at[c] /\ Present(c)'
  BY <1>1, CalmPush
<1>3. /\ \A x : Traced(x)' <=> Traced(x)
      /\ \A x : \A q \in Reviewers : Tracing(q, x)' <=> Tracing(q, x)
      /\ \A c, d : Wrote(c, d)' <=> Wrote(c, d)
  BY <1>2 DEF Traced, Tracing, Wrote
<1>4. AllSourced'
  <2>1. ASSUME NEW k \in DOMAIN moves', NEW x, x = moves'[k] PROVE Sourced(x)'
    <3>1. Sourced(x) /\ (x.build # None => x.build \in Builds /\ Present(x.build))
      BY <1>2, <2>1, WritesPresent DEF HInv, AllSourced
    <3>2. x.build # None => FromRow(x)' BY <1>2, <3>1 DEF Sourced, FromRow, Present
    <3> QED BY <1>3, <3>1, <3>2 DEF Sourced
  <2> QED BY <2>1, SourcedEach
<1>5. Entered'
  <2>1. \A e \in DOMAIN changelog : row'[changelog[e].build] = row[changelog[e].build]
    BY <1>2, WritesPresent
  <2> QED BY <1>2, <2>1 DEF HInv, Entered, Wrote
<1>6. ASSUME NEW q \in Reviewers PROVE InHand(q)' /\ Checked(q)'
  <2>1. InHand(q)' BY <1>2, <1>3 DEF HInv, InHand, Wrote
  <2>2. CASE req[q].pc \in Cleared
    <3>1. at'[req[q].build] = at[req[q].build]
      BY <1>1, <1>2, <2>2 DEF CInv, KInv, Knows, Standing, Cleared
    <3>2. Seen(req[q].build, req[q].row) => Seen(req[q].build, req[q].row)'
      BY <1>2, <3>1 DEF Seen
    <3> QED BY <1>2, <2>1, <2>2, <3>2 DEF HInv, Checked, Cleared
  <2>3. CASE req[q].pc \notin Cleared BY <1>2, <2>1, <2>3 DEF HInv, Checked, Cleared
  <2> QED BY <2>2, <2>3
<1> QED BY <1>4, <1>5, <1>6

LEMMA RunPutTraced ==
  ASSUME Calm, HInv, NEW d \in Docs, RunPut(d)
  PROVE  /\ Entered' /\ AllSourced'
         /\ \A q \in Reviewers : InHand(q)' /\ Checked(q)'
<1>0. PICK w : w = [build |-> None, doc |-> d, regions |-> {}, truncated |-> FALSE,
                    at |-> clock]
  OBVIOUS
<1>1. /\ UNCHANGED <<row, at, changelog, req>> /\ moves' = Append(moves, w) /\ w.build = None
      /\ \A q \in Reviewers : ~Active(q)
  BY <1>0 DEF RunPut, Calm, builds, records, Quiet, Active
<1>2. moves \in Seq(BaselineWrites) BY TypesSplit DEF HInv, CInv, KInv, Rest
<1>3. /\ \A k \in DOMAIN moves : k \in DOMAIN moves' /\ moves'[k] = moves[k]
      /\ \A k \in DOMAIN moves' : k \in DOMAIN moves \/ moves'[k] = w
  BY <1>1, <1>2
<1>4. /\ \A x : Sourced(x)' <=> Sourced(x)
      /\ \A b, c : Wrote(b, c) => Wrote(b, c)'
  BY <1>1, <1>3 DEF Sourced, FromRow, Traced, Tracing, Present, Wrote
<1>5. AllSourced'
  <2>1. ASSUME NEW k \in DOMAIN moves', NEW x, x = moves'[k] PROVE Sourced(x)'
    BY <1>1, <1>3, <1>4, <2>1 DEF HInv, AllSourced, Sourced
  <2> QED BY <2>1, SourcedEach
<1>6. Entered' BY <1>1, <1>4 DEF HInv, Entered, Wrote
<1>7. \A q \in Reviewers : InHand(q)' /\ Checked(q)'
  BY <1>1 DEF InHand, Checked, Active, Cleared
<1> QED BY <1>5, <1>6, <1>7

LEMMA HStep == ASSUME Calm, HInv, [Next]_vars PROVE HInv'
<1>1. CInv /\ CInv' /\ KInv BY CStep DEF HInv, CInv
<1>2. ASSUME NEW r \in Reviewers, Others(r), InHand(r)', Checked(r)',
             UNCHANGED <<row, at, baseline, changelog, moves>>,
             \A w : Tracing(r, w) => Tracing(r, w)'
      PROVE  HInv'
  <2>1. AllSourced'
    <3>1. \A w : \A q \in Reviewers : Tracing(q, w) => Tracing(q, w)'
      BY <1>2 DEF Tracing, Others
    <3>2. ASSUME NEW k \in DOMAIN moves', NEW x, x = moves'[k] PROVE Sourced(x)'
      BY <1>2, <3>1, <3>2, SeenFrame DEF HInv, AllSourced, Sourced
    <3> QED BY <3>2, SourcedEach
  <2>2. ASSUME NEW q \in Reviewers PROVE InHand(q)' /\ Checked(q)'
    <3>1. CASE q = r BY <1>2, <3>1
    <3>2. CASE q # r
      <4>1. InHand(q) /\ Checked(q) /\ req'[q] = req[q] BY <1>2, <3>2 DEF HInv, Others
      <4> QED BY <1>2, <4>1, SeenFrame DEF InHand, Checked
    <3> QED BY <3>1, <3>2
  <2> QED BY <1>1, <1>2, <2>1, <2>2, SeenFrame DEF HInv
<1>3. CASE UNCHANGED vars \/ Tick
  <2>1. UNCHANGED <<row, at, baseline, changelog, moves, req>>
    BY <1>3 DEF vars, Tick, builds, records
  <2>2. AllSourced'
    <3>1. ASSUME NEW k \in DOMAIN moves', NEW x, x = moves'[k] PROVE Sourced(x)'
      BY <2>1, <3>1, SeenFrame DEF HInv, AllSourced, Sourced, Tracing
    <3> QED BY <3>1, SourcedEach
  <2>3. \A q \in Reviewers : InHand(q)' /\ Checked(q)'
    BY <2>1, SeenFrame DEF HInv, InHand, Checked
  <2> QED BY <1>1, <2>1, <2>2, <2>3, SeenFrame DEF HInv
<1>4. CASE \/ \E b \in Builds, p \in Pushes, t \in 0..clock : Push(b, p, t)
           \/ \E d \in Docs : RunPut(d)
  BY <1>1, <1>4, PushTraced, RunPutTraced DEF HInv
<1>5. ASSUME NEW r \in Reviewers, NEW b \in Builds, OpenPage(r, b) PROVE HInv'
  <2>1. req[r].pc \in {"idle", "page"} BY <1>5 DEF OpenPage
  <2>2. /\ Others(r) /\ req'[r].pc = "page"
        /\ UNCHANGED <<row, at, baseline, changelog, moves>>
    BY <1>1, <1>5, OpensPage
  <2>3. InHand(r)' /\ Checked(r)' BY <2>2 DEF InHand, Checked, Cleared
  <2> QED BY <1>2, <2>1, <2>2, <2>3 DEF Tracing
<1>6. ASSUME NEW r \in Reviewers, NEW what \in {"approved", "rejected"}, NEW v \in Versions,
             ReadRow(r, what, v)
      PROVE  HInv'
  <2>1. /\ Others(r) /\ req[r].pc = "page"
        /\ UNCHANGED <<row, at, baseline, changelog, moves>>
        /\ \/ req'[r].pc \in {"idle", "identity", "record"}
           \/ req'[r].pc = "repeats" /\ ~req'[r].versioned
    BY <1>1, <1>6, TakesRow
  <2>2. InHand(r)' /\ Checked(r)' BY <2>1 DEF InHand, Checked, Cleared
  <2> QED BY <1>2, <2>1, <2>2 DEF Tracing
<1>7. ASSUME NEW r \in Reviewers, PutBaseline(r) \/ RecordApproval(r) PROVE HInv'
  BY <1>1, <1>7, PutTraced, LogTraced DEF HInv
<1>8. ASSUME NEW r \in Reviewers, Decide(r), ~PutBaseline(r), ~RecordApproval(r) PROVE HInv'
  BY <1>2, <1>8, CheckedStep
<1> QED BY <1>3, <1>4, <1>5, <1>6, <1>7, <1>8 DEF Next, Calm, SweepBuild, Crash

(* Where decisions do not overlap or die, no build expires and none is       *)
(* pushed twice, an approval taken against a version never replaces a        *)
(* baseline that carries a change its reviewer could not have seen.         *)
THEOREM NoApprovalOverwritesUnseen ==
  ASSUME ~Concurrent, ~Repush, ~Sweeps, ~Crashes
  PROVE  Spec => NoUnseenOverwrite
<1>1. Calm BY DEF Calm
<1>2. Init => HInv
  <2> SUFFICES ASSUME Init PROVE HInv OBVIOUS
  <2>1. \A r \in Reviewers : InHand(r) /\ Checked(r)
    BY DEF Init, Idle, InHand, Checked, Cleared
  <2>2. Entered /\ AllSourced BY DEF Init, Entered, AllSourced
  <2> QED BY <2>1, <2>2, CInit DEF HInv
<1>3. HInv /\ [Next]_vars => HInv' BY <1>1, HStep
<1>4. HInv => \A r \in Reviewers : OverwritesWhatItSaw(r)
  <2> SUFFICES ASSUME HInv, NEW r \in Reviewers, PutBaseline(r), req[r].versioned,
                      baseline \notin {req[r].read, req[r].row.cand}
               PROVE  Seen(req[r].build, req[r].row)
    BY DEF OverwritesWhatItSaw, Seen
  <2> QED BY DEF HInv, Checked, PutBaseline, Cleared
<1>5. HInv /\ [Next]_vars => [\A r \in Reviewers : OverwritesWhatItSaw(r)]_vars BY <1>4
<1> QED BY <1>2, <1>3, <1>5, PTL DEF Spec, NoUnseenOverwrite
=============================================================================
