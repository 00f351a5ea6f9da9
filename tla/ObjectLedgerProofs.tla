-------------------------- MODULE ObjectLedgerProofs --------------------------
(***************************************************************************)
(* Proofs about ObjectLedger, for every set of pictures, rows, builds and  *)
(* requests, every retention window and every bound of the clock: the      *)
(* types; where sweeps run alone, that no stored row ever points at bytes   *)
(* the bucket lost; and beside puts, decisions and ingests, that a sweep    *)
(* takes nothing that was wanted when it chose it, but for what came to be  *)
(* wanted in the gap before the removal (ObjectLedgerRaces).               *)
(***************************************************************************)
EXTENDS ObjectLedgerRaces, TLAPS

USE DEF Rows

(* An idle request is a request.                                           *)
LEMMA IdleType == Idle \in Request
BY DEF Idle, Request, Places

(* Resetting one time of a table of times.                                 *)
LEMMA ResetType ==
  ASSUME NEW S, NEW f \in [S -> Int], NEW x
  PROVE  [f EXCEPT ![x] = 0] \in [S -> Int]
<1>1. \A y \in S : [f EXCEPT ![x] = 0][y] = IF y = x THEN 0 ELSE f[y]
  OBVIOUS
<1>2. \A y \in S : [f EXCEPT ![x] = 0][y] \in Int
  BY <1>1
<1>3. DOMAIN [f EXCEPT ![x] = 0] = S
  OBVIOUS
<1>4. [f EXCEPT ![x] = 0] = [y \in S |-> [f EXCEPT ![x] = 0][y]]
  BY <1>3
<1>5. QED BY <1>2, <1>4

(* Every step of a request leaves the requests well typed.                 *)
LEMMA RequestType ==
  ASSUME TypeOK, [Next]_vars
  PROVE  req' \in [Requests -> Request]
<1> USE DEF TypeOK
<1>0. clock \in Int /\ 0..clock \subseteq Int
  BY BoundAssumption
<1>1. ASSUME NEW r \in Requests, Finish(r) PROVE req' \in [Requests -> Request]
  BY <1>1, IdleType DEF Finish
<1>2. ASSUME NEW r \in Requests, NEW pc \in Places, Goto(r, pc)
      PROVE  req' \in [Requests -> Request]
  BY <1>2 DEF Goto, Request
<1>3. ASSUME NEW r \in Requests, Begin(r) PROVE req' \in [Requests -> Request]
  <2>1. ASSUME NEW x \in Rows, NEW i \in Images, RowPut(r, x, i)
        PROVE  req' \in [Requests -> Request]
    <3>1. [Idle EXCEPT !.pc = "claim", !.row = x, !.img = i, !.at = clock] \in Request
      BY IdleType, <1>0 DEF Request, Places
    <3>2. QED BY <2>1, <3>1 DEF RowPut
  <2>2. ASSUME NEW b \in Builds, NEW i \in Images, NEW x \in Slots, Approve(r, b, i, x)
        PROVE  req' \in [Requests -> Request]
    <3>1. [Idle EXCEPT !.pc = "get", !.row = x, !.img = i, !.build = b] \in Request
      BY IdleType DEF Request, Places
    <3>2. QED BY <2>2, <3>1 DEF Approve
  <2>3. ASSUME NEW b \in Builds, Reject(r, b) PROVE req' \in [Requests -> Request]
    <3>1. [Idle EXCEPT !.pc = "record", !.build = b] \in Request
      BY IdleType DEF Request, Places
    <3>2. QED BY <2>3, <3>1 DEF Reject
  <2>4. ASSUME NEW b \in Builds, NEW sent \in SUBSET Images, NEW digests \in SUBSET Images,
               NEW t \in 0..clock, Push(r, b, sent, digests, t)
        PROVE  req' \in [Requests -> Request]
    <3>1. [Idle EXCEPT !.pc = "held", !.build = b, !.todo = sent,
                       !.named = sent \cup digests, !.at = t] \in Request
      BY IdleType, <1>0 DEF Request, Places
    <3>2. QED BY <2>4, <3>1 DEF Push
  <2>5. ASSUME NEW keep \in KeepWindows, SweepStart(r, keep)
        PROVE  req' \in [Requests -> Request]
    <3>1. clock - keep \in Int BY BoundAssumption
    <3>2. {b \in present : builtAt[b] < clock - keep} \in SUBSET Builds OBVIOUS
    <3>3. [Idle EXCEPT !.pc = "builds", !.at = clock - keep,
                       !.expired = {b \in present : builtAt[b] < clock - keep}] \in Request
      BY <3>1, <3>2, IdleType DEF Request, Places
    <3>4. QED BY <2>5, <3>3 DEF SweepStart
  <2>6. QED BY <1>3, <2>1, <2>2, <2>3, <2>4, <2>5 DEF Begin
<1>4. ASSUME NEW r \in Requests, Steps(r) PROVE req' \in [Requests -> Request]
  <2>1. CASE Claim(r) BY <2>1, <1>2 DEF Claim, Places
  <2>2. CASE Put(r) BY <2>2, <1>2 DEF Put, Places
  <2>3. CASE WriteRow(r) BY <2>3, <1>1, <1>2 DEF WriteRow, Places
  <2>4. CASE GetCandidate(r)
    <3>1. req[r] \in Request OBVIOUS
    <3>2. [req[r] EXCEPT !.pc = "claim", !.at = clock] \in Request
      BY <3>1, <1>0 DEF Request, Places
    <3>3. Finish(r) \/ req' = [req EXCEPT ![r] = [req[r] EXCEPT !.pc = "claim", !.at = clock]]
      BY <2>4 DEF GetCandidate
    <3>4. QED BY <1>1, <3>2, <3>3
  <2>5. CASE Record(r) BY <2>5, <1>1 DEF Record
  <2>6. CASE AskHeld(r) BY <2>6, <1>1 DEF AskHeld, Request, Places
  <2>7. ASSUME NEW i \in Images, PutImage(r, i) PROVE req' \in [Requests -> Request]
    BY <2>7 DEF PutImage, Request
  <2>8. CASE ClaimImages(r) BY <2>8, <1>2 DEF ClaimImages, Places
  <2>9. CASE IngestRows(r) BY <2>9, <1>1 DEF IngestRows
  <2>10. QED BY <1>4, <2>1, <2>2, <2>3, <2>4, <2>5, <2>6, <2>7, <2>8, <2>9 DEF Steps
<1>5. ASSUME NEW r \in Requests, SweepSteps(r) PROVE req' \in [Requests -> Request]
  <2>1. ASSUME NEW b \in Builds, CheckBuild(r, b) PROVE req' \in [Requests -> Request]
    <3>1. req[r] \in Request OBVIOUS
    <3>2. [req[r] EXCEPT !.expired = req[r].expired \ {b}] \in Request
      BY <3>1 DEF Request
    <3>3. [req[r] EXCEPT !.pc = "drop", !.build = b] \in Request
      BY <3>1 DEF Request, Places
    <3>4. req' = [req EXCEPT ![r] = [req[r] EXCEPT !.expired = req[r].expired \ {b}]]
          \/ req' = [req EXCEPT ![r] = [req[r] EXCEPT !.pc = "drop", !.build = b]]
      BY <2>1 DEF CheckBuild
    <3>5. QED BY <3>2, <3>3, <3>4
  <2>2. CASE DropBuild(r)
    <3>1. req[r] \in Request OBVIOUS
    <3>2. [req[r] EXCEPT !.pc = "builds", !.build = None,
                         !.expired = req[r].expired \ {req[r].build}] \in Request
      BY <3>1 DEF Request, Places
    <3>3. QED BY <2>2, <3>2 DEF DropBuild
  <2>3. CASE DropCache(r) BY <2>3, <1>2 DEF DropCache, Places
  <2>4. CASE Select(r)
    BY <2>4, <1>1 DEF Select, Collectable, Request, Places
  <2>5. CASE DeleteObjects(r) BY <2>5, <1>2 DEF DeleteObjects, Places
  <2>6. CASE ForgetKeys(r) BY <2>6, <1>1 DEF ForgetKeys
  <2>7. QED BY <1>5, <2>1, <2>2, <2>3, <2>4, <2>5, <2>6 DEF SweepSteps
<1>6. ASSUME NEW r \in Requests, Crash(r) PROVE req' \in [Requests -> Request]
  BY <1>6, <1>1 DEF Crash
<1>7. CASE Tick BY <1>7 DEF Tick
<1>8. CASE UNCHANGED vars BY <1>8 DEF vars
<1>9. QED BY <1>3, <1>4, <1>5, <1>6, <1>7, <1>8 DEF Next

(* Where a request stands says what it has read: a put has its picture and *)
(* its row, a decision, an ingest and the removal of a build their build.  *)
Located ==
  \A r \in Requests :
    /\ req[r].pc \in {"get", "claim", "put", "row"}
         => req[r].img \in Images /\ req[r].row \in Rows
    /\ req[r].pc \in {"get", "record", "held", "putting", "rows", "drop"}
         => req[r].build \in Builds

(* A request that begins has the locals its first place needs, and touches *)
(* no table, no ledger row and no object.                                  *)
LEMMA BeginLocated ==
  ASSUME TypeOK, Located, NEW r \in Requests, Begin(r)
  PROVE  Located' /\ UNCHANGED <<clock, objects, tables>>
<1> USE DEF TypeOK
<1>1. ASSUME NEW x \in Rows, NEW i \in Images, RowPut(r, x, i)
      PROVE  Located' /\ UNCHANGED <<clock, objects, tables>>
  BY <1>1 DEF RowPut, Located, Idle
<1>2. ASSUME NEW b \in Builds, NEW i \in Images, NEW x \in Slots, Approve(r, b, i, x)
      PROVE  Located' /\ UNCHANGED <<clock, objects, tables>>
  BY <1>2 DEF Approve, Located, Idle
<1>3. ASSUME NEW b \in Builds, Reject(r, b)
      PROVE  Located' /\ UNCHANGED <<clock, objects, tables>>
  BY <1>3 DEF Reject, Located, Idle
<1>4. ASSUME NEW b \in Builds, NEW sent \in SUBSET Images, NEW digests \in SUBSET Images,
             NEW t \in 0..clock, Push(r, b, sent, digests, t)
      PROVE  Located' /\ UNCHANGED <<clock, objects, tables>>
  BY <1>4 DEF Push, Located, Idle
<1>5. ASSUME NEW keep \in KeepWindows, SweepStart(r, keep)
      PROVE  Located' /\ UNCHANGED <<clock, objects, tables>>
  BY <1>5 DEF SweepStart, Located, Idle
<1>6. QED BY <1>1, <1>2, <1>3, <1>4, <1>5 DEF Begin

(* Every step leaves the types, and what each place has read, as they are. *)
LEMMA TypeStep == TypeOK /\ Located /\ [Next]_vars => TypeOK' /\ Located'
<1> SUFFICES ASSUME TypeOK, Located, [Next]_vars PROVE TypeOK' /\ Located'
  OBVIOUS
<1> USE DEF TypeOK, objects, tables
<1>0. req' \in [Requests -> Request]
  BY RequestType
<1>1. ASSUME NEW r \in Requests, Begin(r) PROVE TypeOK' /\ Located'
  BY <1>0, <1>1, BeginLocated
<1>2. ASSUME NEW r \in Requests, Steps(r) PROVE TypeOK' /\ Located'
  <2>1. CASE Claim(r) BY <1>0, <2>1 DEF Claim, Goto, Located, Request
  <2>2. CASE Put(r) BY <1>0, <2>2 DEF Put, Goto, Located, Request
  <2>3. CASE WriteRow(r) BY <1>0, <2>3 DEF WriteRow, Goto, Finish, Idle, Located, Request
  <2>4. CASE GetCandidate(r) BY <1>0, <2>4 DEF GetCandidate, Finish, Idle, Located, Request
  <2>5. CASE Record(r) BY <1>0, <2>5 DEF Record, Finish, Idle, Located, Request
  <2>6. CASE AskHeld(r) BY <1>0, <2>6 DEF AskHeld, Finish, Idle, Located, Request
  <2>7. ASSUME NEW i \in Images, PutImage(r, i) PROVE TypeOK' /\ Located'
    BY <1>0, <2>7 DEF PutImage, Located, Request
  <2>8. CASE ClaimImages(r) BY <1>0, <2>8 DEF ClaimImages, Goto, Located, Request
  <2>9. CASE IngestRows(r) BY <1>0, <2>9 DEF IngestRows, Finish, Idle, Located, Request
  <2>10. QED BY <1>2, <2>1, <2>2, <2>3, <2>4, <2>5, <2>6, <2>7, <2>8, <2>9 DEF Steps
<1>3. ASSUME NEW r \in Requests, SweepSteps(r) PROVE TypeOK' /\ Located'
  <2>1. ASSUME NEW b \in Builds, CheckBuild(r, b) PROVE TypeOK' /\ Located'
    <3>1. TypeOK' BY <1>0, <2>1 DEF CheckBuild
    <3>2. \/ req' = [req EXCEPT ![r].expired = req[r].expired \ {b}]
          \/ req' = [req EXCEPT ![r].pc = "drop", ![r].build = b]
      BY <2>1 DEF CheckBuild
    <3>3. req[r].pc = "builds" BY <2>1 DEF CheckBuild
    <3>4. CASE req' = [req EXCEPT ![r].expired = req[r].expired \ {b}]
      <4>1. req[r] \in Request /\ req[r].pc = "builds"
        BY <3>3
      <4>2. req'[r].pc = "builds" /\ \A q \in Requests \ {r} : req'[q] = req[q]
        BY <3>4, <4>1 DEF Request
      <4>3. QED BY <3>1, <4>2 DEF Located
    <3>5. CASE req' = [req EXCEPT ![r].pc = "drop", ![r].build = b]
      BY <3>1, <3>5 DEF Located, Request
    <3>6. QED BY <3>1, <3>2, <3>4, <3>5
  <2>2. CASE DropBuild(r)
    <3>1. UNCHANGED <<clock, objects, stored, cachedAt>>
      BY <2>2 DEF DropBuild
    <3>2. present' \subseteq Builds /\ open' \subseteq Builds
      BY <2>2 DEF DropBuild
    <3>3. builtAt' \in [Builds -> Int]
      <4>1. builtAt' = [builtAt EXCEPT ![req[r].build] = 0]
        BY <2>2 DEF DropBuild
      <4>2. QED BY <4>1, ResetType
    <3>4. shown' \in [Builds -> SUBSET Images]
      BY <2>2 DEF DropBuild
    <3>5. TypeOK' BY <1>0, <3>1, <3>2, <3>3, <3>4
    <3>6. req' = [req EXCEPT ![r] = [req[r] EXCEPT !.pc = "builds", !.build = None,
                                       !.expired = req[r].expired \ {req[r].build}]]
      BY <2>2 DEF DropBuild
    <3>7. Located' BY <3>5, <3>6 DEF Located, Request
    <3>8. QED BY <3>5, <3>7
  <2>3. CASE DropCache(r) BY <1>0, <2>3 DEF DropCache, Goto, Located, Request
  <2>4. CASE Select(r)
    <3>1. CASE Finish(r) BY <1>0, <2>4, <3>1 DEF Select, Finish, Idle, Located
    <3>2. ASSUME NEW T, req' = [req EXCEPT ![r].pc = "delete", ![r].todo = T]
          PROVE  TypeOK' /\ Located'
      BY <1>0, <2>4, <3>2 DEF Select, Located, Request
    <3>3. QED BY <2>4, <3>1, <3>2 DEF Select
  <2>5. CASE DeleteObjects(r) BY <1>0, <2>5 DEF DeleteObjects, Goto, Located, Request
  <2>6. CASE ForgetKeys(r) BY <1>0, <2>6 DEF ForgetKeys, Finish, Idle, Located, Request
  <2>7. QED BY <1>3, <2>1, <2>2, <2>3, <2>4, <2>5, <2>6 DEF SweepSteps
<1>4. ASSUME NEW r \in Requests, Crash(r) PROVE TypeOK' /\ Located'
  BY <1>0, <1>4 DEF Crash, Finish, Idle, Located
<1>5. CASE Tick BY <1>0, <1>5, BoundAssumption DEF Tick, Located
<1>6. CASE UNCHANGED vars BY <1>6 DEF vars, Located
<1>7. QED BY <1>1, <1>2, <1>3, <1>4, <1>5, <1>6 DEF Next

(* Every reachable state is well typed, and a request that stands before   *)
(* an await has read what that await uses.                                 *)
THEOREM TypeCorrect == Spec => [](TypeOK /\ Located)
<1>1. Init => TypeOK /\ Located
  BY IdleType, BoundAssumption DEF Init, TypeOK, Located, Idle
<1>2. QED BY <1>1, TypeStep, PTL DEF Spec

-----------------------------------------------------------------------------
(* Where sweeps run alone.  StoredRowsHaveObjects is not inductive: a row  *)
(* is safe to write because its put has landed and nothing collected it in *)
(* between, and a sweep is safe because what it chose stays unreferenced.  *)

Alone ==
  \A r, q \in Requests : r # q /\ req[r].pc \in Sweeping => req[q].pc = "idle"
Landed ==
  \A r \in Requests :
    /\ req[r].pc \in {"put", "row"} => req[r].img \in claimed
    /\ req[r].pc = "row" => req[r].img \in bucket
    /\ req[r].pc = "rows" => req[r].named \subseteq claimed
Chosen ==
  \A r \in Requests : req[r].pc \in {"delete", "forget"}
                        => req[r].todo \cap Referenced = {}
IInv == /\ TypeOK /\ Located /\ Alone /\ Landed /\ Chosen
        /\ StoredRowsHaveObjects /\ ReferencedKeysAreClaimed

(* A step changes the place of one request.                                *)
LEMMA BeginStays ==
  ASSUME TypeOK, NEW r \in Requests, Begin(r)
  PROVE  /\ \A q \in Requests \ {r} : req'[q] = req[q]
         /\ req[r].pc = "idle"
         /\ req'[r].pc \in {"claim", "get", "record", "held", "builds"}
         /\ ~Overlap /\ req'[r].pc # "builds" =>
               \A q \in Requests : req[q].pc \notin Sweeping
         /\ ~Overlap /\ req'[r].pc = "builds" =>
               \A q \in Requests : req[q].pc = "idle"
<1> USE DEF TypeOK, MayBegin, Idle
<1> DEFINE P == /\ \A q \in Requests \ {r} : req'[q] = req[q]
                /\ req[r].pc = "idle"
                /\ req'[r].pc \in {"claim", "get", "record", "held", "builds"}
                /\ ~Overlap /\ req'[r].pc # "builds" =>
                      \A q \in Requests : req[q].pc \notin Sweeping
                /\ ~Overlap /\ req'[r].pc = "builds" =>
                      \A q \in Requests : req[q].pc = "idle"
<1>1. ASSUME NEW x \in Rows, NEW i \in Images, RowPut(r, x, i) PROVE P
  BY <1>1 DEF RowPut, Sweeping
<1>2. ASSUME NEW b \in Builds, NEW i \in Images, NEW x \in Slots, Approve(r, b, i, x) PROVE P
  BY <1>2 DEF Approve, Sweeping
<1>3. ASSUME NEW b \in Builds, Reject(r, b) PROVE P
  BY <1>3 DEF Reject, Sweeping
<1>4. ASSUME NEW b \in Builds, NEW sent \in SUBSET Images, NEW digests \in SUBSET Images,
             NEW t \in 0..clock, Push(r, b, sent, digests, t) PROVE P
  BY <1>4 DEF Push, Sweeping
<1>5. ASSUME NEW keep \in KeepWindows, SweepStart(r, keep) PROVE P
  BY <1>5 DEF SweepStart, Sweeping, Request, Places
<1>6. QED BY <1>1, <1>2, <1>3, <1>4, <1>5 DEF Begin

(* With sweeps that run alone, a request that begins keeps the invariant.  *)
LEMMA IsolatedBegin ==
  ASSUME ~Overlap, IInv, NEW r \in Requests, Begin(r)
  PROVE  Alone' /\ Landed' /\ Chosen' /\ StoredRowsHaveObjects' /\ ReferencedKeysAreClaimed'
<1> USE DEF IInv
<1>1. UNCHANGED <<clock, objects, tables>>
  BY BeginLocated
<1>2. Referenced' = Referenced
  BY <1>1 DEF Referenced, tables
<1>3. StoredRowsHaveObjects' /\ ReferencedKeysAreClaimed'
  BY <1>1, <1>2 DEF StoredRowsHaveObjects, ReferencedKeysAreClaimed, objects, tables
<1>4. Alone' BY BeginStays DEF Alone, Sweeping
<1>5. Landed' /\ Chosen'
  BY <1>1, <1>2, BeginStays DEF Landed, Chosen, objects
<1>6. QED BY <1>3, <1>4, <1>5

(* A request's own step leaves the others where they are, and keeps a put, *)
(* a decision or an ingest out of the places a sweep stands at.            *)
LEMMA StepPlaces ==
  ASSUME TypeOK, NEW r \in Requests, Steps(r)
  PROVE  /\ \A q \in Requests \ {r} : req'[q] = req[q]
         /\ req[r].pc \notin Sweeping \cup {"idle"}
         /\ req'[r].pc \notin Sweeping
<1> USE DEF TypeOK, Sweeping, Goto, Finish, Idle, Request
<1> DEFINE P == /\ \A q \in Requests \ {r} : req'[q] = req[q]
                /\ req[r].pc \notin Sweeping \cup {"idle"}
                /\ req'[r].pc \notin Sweeping
<1>1. CASE Claim(r) BY <1>1 DEF Claim
<1>2. CASE Put(r) BY <1>2 DEF Put
<1>3. CASE WriteRow(r) BY <1>3 DEF WriteRow
<1>4. CASE GetCandidate(r) BY <1>4 DEF GetCandidate
<1>5. CASE Record(r) BY <1>5 DEF Record
<1>6. CASE AskHeld(r) BY <1>6 DEF AskHeld
<1>7. ASSUME NEW i \in Images, PutImage(r, i) PROVE P
  BY <1>7 DEF PutImage
<1>8. CASE ClaimImages(r) BY <1>8 DEF ClaimImages
<1>9. CASE IngestRows(r) BY <1>9 DEF IngestRows
<1>10. QED BY <1>1, <1>2, <1>3, <1>4, <1>5, <1>6, <1>7, <1>8, <1>9 DEF Steps

(* A sweep's step moves that sweep alone, to another of its places or out. *)
LEMMA SweepPlaces ==
  ASSUME TypeOK, NEW r \in Requests, SweepSteps(r)
  PROVE  /\ \A q \in Requests \ {r} : req'[q] = req[q]
         /\ req[r].pc \in Sweeping
         /\ req'[r].pc \in Sweeping \cup {"idle"}
<1> USE DEF TypeOK, Sweeping, Goto, Finish, Idle, Request
<1> DEFINE P == /\ \A q \in Requests \ {r} : req'[q] = req[q]
                /\ req[r].pc \in Sweeping
                /\ req'[r].pc \in Sweeping \cup {"idle"}
<1>1. ASSUME NEW b \in Builds, CheckBuild(r, b) PROVE P
  BY <1>1 DEF CheckBuild
<1>2. CASE DropBuild(r) BY <1>2 DEF DropBuild
<1>3. CASE DropCache(r) BY <1>3 DEF DropCache
<1>4. CASE Select(r) BY <1>4 DEF Select
<1>5. CASE DeleteObjects(r) BY <1>5 DEF DeleteObjects
<1>6. CASE ForgetKeys(r) BY <1>6 DEF ForgetKeys
<1>7. QED BY <1>1, <1>2, <1>3, <1>4, <1>5, <1>6 DEF SweepSteps

(* Going to another await changes nothing else a request has read.         *)
LEMMA Moved ==
  ASSUME TypeOK, NEW r \in Requests, NEW pc, Goto(r, pc)
  PROVE  /\ req'[r].pc = pc
         /\ req'[r].img = req[r].img
         /\ req'[r].named = req[r].named
         /\ req'[r].todo = req[r].todo
<1>1. req[r] \in Request BY DEF TypeOK
<1>2. req'[r] = [req[r] EXCEPT !.pc = pc] BY DEF Goto, TypeOK
<1>3. QED BY <1>1, <1>2 DEF Request

(* A request that finishes is idle.                                        *)
LEMMA Finished ==
  ASSUME TypeOK, NEW r \in Requests, Finish(r)
  PROVE  req'[r].pc = "idle"
BY DEF TypeOK, Finish, Idle

(* Bytes and ledger rows only added, and rows written only for keys that   *)
(* are claimed and whose bytes are there.                                  *)
LEMMA Grown ==
  ASSUME StoredRowsHaveObjects, ReferencedKeysAreClaimed,
         bucket \subseteq bucket', claimed \subseteq claimed',
         NEW S, S \subseteq claimed',
         \A x \in Rows : stored'[x] = stored[x] \/ stored'[x] \in bucket',
         Referenced' \subseteq Referenced \cup S
  PROVE  StoredRowsHaveObjects' /\ ReferencedKeysAreClaimed'
<1>1. StoredRowsHaveObjects' BY DEF StoredRowsHaveObjects
<1>2. ReferencedKeysAreClaimed' BY DEF ReferencedKeysAreClaimed
<1>3. QED BY <1>1, <1>2

(* A step that touches neither the rows nor the bytes keeps both.          *)
LEMMA Untouched ==
  ASSUME StoredRowsHaveObjects, ReferencedKeysAreClaimed,
         UNCHANGED <<bucket, claimed, stored, shown>>
  PROVE  StoredRowsHaveObjects' /\ ReferencedKeysAreClaimed' /\ Referenced' = Referenced
<1>1. Referenced' = Referenced BY DEF Referenced
<1>2. StoredRowsHaveObjects' BY DEF StoredRowsHaveObjects
<1>3. ReferencedKeysAreClaimed' BY <1>1 DEF ReferencedKeysAreClaimed
<1>4. QED BY <1>1, <1>2, <1>3

(* A put, a decision or an ingest keeps the invariant: nobody is sweeping, *)
(* and a row is written only for a key that is claimed and whose bytes     *)
(* have landed.                                                            *)
LEMMA IsolatedSteps ==
  ASSUME IInv, NEW r \in Requests, Steps(r)
  PROVE  /\ Alone' /\ Landed' /\ Chosen'
         /\ StoredRowsHaveObjects' /\ ReferencedKeysAreClaimed'
<1> DEFINE Rest == Landed' /\ StoredRowsHaveObjects' /\ ReferencedKeysAreClaimed'
<1>1. /\ TypeOK /\ Located /\ Alone /\ Landed
      /\ StoredRowsHaveObjects /\ ReferencedKeysAreClaimed
  BY DEF IInv
<1>2. /\ \A q \in Requests : req[q].pc \notin Sweeping
      /\ \A q \in Requests \ {r} : req'[q] = req[q]
      /\ req'[r].pc \notin Sweeping
  BY <1>1, StepPlaces DEF Alone, Sweeping
<1>3. Alone' /\ Chosen'
  BY <1>1, <1>2 DEF Alone, Chosen, Sweeping
<1> SUFFICES Rest
  BY <1>3
<1>4. ASSUME claimed \subseteq claimed', bucket \subseteq bucket',
             req'[r].pc \in {"put", "row"} => req'[r].img \in claimed',
             req'[r].pc = "row" => req'[r].img \in bucket',
             req'[r].pc = "rows" => req'[r].named \subseteq claimed'
      PROVE  Landed'
  BY <1>1, <1>2, <1>4 DEF Landed
<1>5. CASE Claim(r)
  <2>1. Goto(r, "put") /\ claimed' = claimed \cup {req[r].img}
        /\ UNCHANGED <<bucket, stored, shown>>
    BY <1>5 DEF Claim, tables
  <2>2. Landed' BY <1>1, <1>4, <2>1, Moved
  <2>3. Referenced' = Referenced BY <2>1 DEF Referenced
  <2>4. QED BY <1>1, <2>1, <2>2, <2>3, Grown
<1>6. CASE Put(r)
  <2>1. Goto(r, "row") /\ bucket' = bucket \cup {req[r].img} /\ req[r].pc = "put"
        /\ UNCHANGED <<claimed, stored, shown>>
    BY <1>6 DEF Put, tables
  <2>2. req[r].img \in claimed BY <1>1, <2>1 DEF Landed
  <2>3. Landed' BY <1>1, <1>4, <2>1, <2>2, Moved
  <2>4. Referenced' = Referenced BY <2>1 DEF Referenced
  <2>5. QED BY <1>1, <2>1, <2>3, <2>4, Grown
<1>7. CASE WriteRow(r)
  <2>1. /\ req[r].pc = "row"
        /\ stored' = [stored EXCEPT ![req[r].row] = req[r].img]
        /\ UNCHANGED <<bucket, claimed, shown>>
    BY <1>7 DEF WriteRow, objects
  <2>2. req[r].img \in claimed /\ req[r].img \in bucket
    BY <1>1, <2>1 DEF Landed
  <2>3. Finish(r) \/ Goto(r, "record") BY <1>7 DEF WriteRow
  <2>4. Landed' BY <1>1, <1>4, <2>1, <2>3, Moved, Finished
  <2>5. \A x \in Rows : stored'[x] \in {stored[x], req[r].img}
    BY <1>1, <2>1 DEF TypeOK
  <2>6. Referenced' \subseteq Referenced \cup {req[r].img}
    BY <2>1, <2>5 DEF Referenced
  <2>7. StoredRowsHaveObjects' /\ ReferencedKeysAreClaimed'
    BY <1>1, <2>1, <2>2, <2>5, <2>6, Grown
  <2>8. QED BY <2>1, <2>4, <2>7
<1>8. ASSUME UNCHANGED <<bucket, claimed, stored, shown>>,
             req'[r].pc \notin {"put", "row", "rows"}
      PROVE  Rest
  BY <1>1, <1>4, <1>8, Untouched
<1>9. CASE GetCandidate(r)
  <2>1. UNCHANGED <<bucket, claimed, stored, shown>>
    BY <1>9 DEF GetCandidate, objects, tables
  <2>2. CASE Finish(r) BY <1>1, <1>8, <2>1, <2>2, Finished
  <2>3. CASE req' = [req EXCEPT ![r].pc = "claim", ![r].at = clock]
    <3>1. req[r] \in Request BY <1>1 DEF TypeOK
    <3>2. req'[r] = [req[r] EXCEPT !.pc = "claim", !.at = clock]
      BY <1>1, <2>3 DEF TypeOK
    <3>3. req'[r].pc = "claim" BY <3>1, <3>2 DEF Request
    <3>4. QED BY <1>8, <2>1, <3>3
  <2>4. QED BY <1>9, <2>2, <2>3 DEF GetCandidate
<1>10. CASE Record(r)
  <2>1. UNCHANGED <<bucket, claimed, stored, shown>> /\ Finish(r)
    BY <1>10 DEF Record, objects
  <2>2. QED BY <1>1, <1>8, <2>1, Finished
<1>11. CASE AskHeld(r)
  <2>1. UNCHANGED <<bucket, claimed, stored, shown>>
    BY <1>11 DEF AskHeld, objects, tables
  <2>2. CASE Finish(r) BY <1>1, <1>8, <2>1, <2>2, Finished
  <2>3. CASE req' = [req EXCEPT ![r].pc = "putting", ![r].todo = req[r].todo \ claimed]
    <3>1. req[r] \in Request BY <1>1 DEF TypeOK
    <3>2. req'[r] = [req[r] EXCEPT !.pc = "putting", !.todo = req[r].todo \ claimed]
      BY <1>1, <2>3 DEF TypeOK
    <3>3. req'[r].pc = "putting" BY <3>1, <3>2 DEF Request
    <3>4. QED BY <1>8, <2>1, <3>3
  <2>4. QED BY <1>11, <2>2, <2>3 DEF AskHeld
<1>12. ASSUME NEW i \in Images, PutImage(r, i) PROVE Rest
  <2>1. /\ req[r].pc = "putting" /\ bucket' = bucket \cup {i}
        /\ req' = [req EXCEPT ![r].todo = req[r].todo \ {i}]
        /\ UNCHANGED <<claimed, stored, shown>>
    BY <1>12 DEF PutImage, tables
  <2>2. req[r] \in Request BY <1>1 DEF TypeOK
  <2>3. req'[r] = [req[r] EXCEPT !.todo = req[r].todo \ {i}]
    BY <1>1, <2>1 DEF TypeOK
  <2>4. req'[r].pc = "putting" BY <2>1, <2>2, <2>3 DEF Request
  <2>5. Landed' BY <1>4, <2>1, <2>4
  <2>6. Referenced' = Referenced BY <2>1 DEF Referenced
  <2>7. QED BY <1>1, <2>1, <2>5, <2>6, Grown
<1>13. CASE ClaimImages(r)
  <2>1. /\ Goto(r, "rows") /\ claimed' = claimed \cup req[r].named
        /\ UNCHANGED <<bucket, stored, shown>>
    BY <1>13 DEF ClaimImages, tables
  <2>2. Landed' BY <1>1, <1>4, <2>1, Moved
  <2>3. Referenced' = Referenced BY <2>1 DEF Referenced
  <2>4. QED BY <1>1, <2>1, <2>2, <2>3, Grown
<1>14. CASE IngestRows(r)
  <2>1. /\ req[r].pc = "rows" /\ Finish(r)
        /\ shown' = [shown EXCEPT ![req[r].build] = req[r].named]
        /\ UNCHANGED <<bucket, claimed, stored>>
    BY <1>14 DEF IngestRows, objects
  <2>2. Landed' BY <1>1, <1>4, <2>1, Finished
  <2>3. req[r].named \subseteq claimed BY <1>1, <2>1 DEF Landed
  <2>4. \A c \in Builds : shown'[c] \subseteq shown[c] \cup req[r].named
    BY <1>1, <2>1 DEF TypeOK
  <2>5. Referenced' \subseteq Referenced \cup req[r].named
    BY <2>1, <2>4 DEF Referenced
  <2>6. QED BY <1>1, <2>1, <2>2, <2>3, <2>5, Grown
<1>15. QED
  BY <1>5, <1>6, <1>7, <1>9, <1>10, <1>11, <1>12, <1>13, <1>14 DEF Steps

(* A sweep keeps the invariant: nobody else is in flight, and what it      *)
(* deletes was referenced by nothing when it chose.                        *)
LEMMA IsolatedSweepSteps ==
  ASSUME IInv, NEW r \in Requests, SweepSteps(r)
  PROVE  /\ Alone' /\ Landed' /\ Chosen'
         /\ StoredRowsHaveObjects' /\ ReferencedKeysAreClaimed'
<1> DEFINE Rest == Chosen' /\ StoredRowsHaveObjects' /\ ReferencedKeysAreClaimed'
<1>1. /\ TypeOK /\ Located /\ Alone /\ Chosen
      /\ StoredRowsHaveObjects /\ ReferencedKeysAreClaimed
  BY DEF IInv
<1>2. /\ \A q \in Requests \ {r} : req[q].pc = "idle" /\ req'[q].pc = "idle"
      /\ req'[r].pc \in Sweeping \cup {"idle"}
  BY <1>1, SweepPlaces DEF Alone
<1>3. Alone' /\ Landed'
  BY <1>2 DEF Alone, Landed, Sweeping
<1> SUFFICES Rest
  BY <1>3
<1>4. ASSUME req'[r].pc \in {"delete", "forget"} => req'[r].todo \cap Referenced' = {}
      PROVE  Chosen'
  BY <1>2, <1>4 DEF Chosen
<1>5. ASSUME UNCHANGED <<bucket, claimed>>, Referenced' \subseteq Referenced,
             \A x \in Rows : stored'[x] = stored[x] \/ stored'[x] = None,
             req'[r].pc \notin {"delete", "forget"}
      PROVE  Rest
  <2>1. StoredRowsHaveObjects' BY <1>1, <1>5 DEF StoredRowsHaveObjects
  <2>2. ReferencedKeysAreClaimed' BY <1>1, <1>5 DEF ReferencedKeysAreClaimed
  <2>3. QED BY <1>4, <1>5, <2>1, <2>2
<1>6. ASSUME NEW b \in Builds, CheckBuild(r, b) PROVE Rest
  <2>1. UNCHANGED <<bucket, claimed, stored, shown>>
    BY <1>6 DEF CheckBuild, objects, tables
  <2>2. req[r] \in Request /\ req[r].pc = "builds" BY <1>1, <1>6 DEF CheckBuild, TypeOK
  <2>3. \/ req'[r] = [req[r] EXCEPT !.expired = req[r].expired \ {b}]
        \/ req'[r] = [req[r] EXCEPT !.pc = "drop", !.build = b]
    BY <1>1, <1>6 DEF CheckBuild, TypeOK
  <2>4. req'[r].pc \in {"builds", "drop"} BY <2>2, <2>3 DEF Request
  <2>5. Referenced' \subseteq Referenced BY <2>1 DEF Referenced
  <2>6. QED BY <1>5, <2>1, <2>4, <2>5
<1>7. CASE DropBuild(r)
  <2>1. /\ shown' = [shown EXCEPT ![req[r].build] = {}]
        /\ UNCHANGED <<bucket, claimed, stored>>
    BY <1>7 DEF DropBuild, objects
  <2>2. req[r] \in Request BY <1>1 DEF TypeOK
  <2>3. req'[r] = [req[r] EXCEPT !.pc = "builds", !.build = None,
                                 !.expired = req[r].expired \ {req[r].build}]
    BY <1>1, <1>7 DEF DropBuild, TypeOK
  <2>4. req'[r].pc = "builds" BY <2>2, <2>3 DEF Request
  <2>5. \A c \in Builds : shown'[c] \subseteq shown[c] BY <1>1, <2>1 DEF TypeOK
  <2>6. Referenced' \subseteq Referenced BY <2>1, <2>5 DEF Referenced
  <2>7. QED BY <1>5, <2>1, <2>4, <2>6
<1>8. CASE DropCache(r)
  <2>1. /\ \A x \in Rows : stored'[x] = stored[x] \/ stored'[x] = None
        /\ UNCHANGED <<bucket, claimed, shown>> /\ Goto(r, "select")
    BY <1>8 DEF DropCache, objects
  <2>2. req'[r].pc = "select" BY <1>1, <2>1, Moved
  <2>3. Referenced' \subseteq Referenced
    BY <2>1, DataAssumption DEF Referenced
  <2>4. QED BY <1>5, <2>1, <2>2, <2>3
<1>9. CASE Select(r)
  <2>1. UNCHANGED <<bucket, claimed, stored, shown>>
    BY <1>9 DEF Select, objects, tables
  <2>2. /\ StoredRowsHaveObjects' /\ ReferencedKeysAreClaimed'
        /\ Referenced' = Referenced
    BY <1>1, <2>1, Untouched
  <2>3. CASE Finish(r)
    <3>1. req'[r].pc = "idle" BY <1>1, <2>3, Finished
    <3>2. QED BY <1>4, <2>1, <2>2, <3>1
  <2>4. ASSUME NEW T \in SUBSET Collectable(req[r].at),
               req' = [req EXCEPT ![r].pc = "delete", ![r].todo = T]
        PROVE  Rest
    <3>1. req[r] \in Request BY <1>1 DEF TypeOK
    <3>2. req'[r] = [req[r] EXCEPT !.pc = "delete", !.todo = T]
      BY <1>1, <2>4 DEF TypeOK
    <3>3. req'[r].todo = T BY <3>1, <3>2 DEF Request
    <3>4. T \cap Referenced = {} BY <2>4 DEF Collectable
    <3>5. QED BY <1>4, <2>1, <2>2, <3>3, <3>4
  <2>5. QED BY <1>9, <2>3, <2>4 DEF Select
<1>10. CASE DeleteObjects(r)
  <2>1. /\ req[r].pc = "delete" /\ bucket' = bucket \ req[r].todo
        /\ Goto(r, "forget") /\ UNCHANGED <<claimed, stored, shown>>
    BY <1>10 DEF DeleteObjects, tables
  <2>2. req[r].todo \cap Referenced = {} BY <1>1, <2>1 DEF Chosen
  <2>3. req'[r].todo = req[r].todo BY <1>1, <2>1, Moved
  <2>4. Referenced' = Referenced BY <2>1 DEF Referenced
  <2>5. Chosen' BY <1>4, <2>2, <2>3, <2>4
  <2>6. \A x \in Rows : stored[x] # None => stored[x] \in Referenced
    BY <1>1 DEF Referenced, TypeOK
  <2>7. StoredRowsHaveObjects'
    BY <1>1, <2>1, <2>2, <2>6 DEF StoredRowsHaveObjects
  <2>8. ReferencedKeysAreClaimed' BY <1>1, <2>1, <2>4 DEF ReferencedKeysAreClaimed
  <2>9. QED BY <2>1, <2>2, <2>5, <2>7, <2>8
<1>11. CASE ForgetKeys(r)
  <2>1. /\ req[r].pc = "forget" /\ claimed' = claimed \ req[r].todo
        /\ Finish(r) /\ UNCHANGED <<bucket, stored, shown>>
    BY <1>11 DEF ForgetKeys, tables
  <2>2. req[r].todo \cap Referenced = {} BY <1>1, <2>1 DEF Chosen
  <2>3. Referenced' = Referenced BY <2>1 DEF Referenced
  <2>4. Chosen' BY <1>1, <1>4, <2>1, Finished
  <2>5. StoredRowsHaveObjects' BY <1>1, <2>1 DEF StoredRowsHaveObjects
  <2>6. ReferencedKeysAreClaimed'
    BY <1>1, <2>1, <2>2, <2>3 DEF ReferencedKeysAreClaimed
  <2>7. QED BY <2>1, <2>4, <2>5, <2>6
<1>12. QED
  BY <1>6, <1>7, <1>8, <1>9, <1>10, <1>11 DEF SweepSteps

(* The invariant is inductive where sweeps run alone.                      *)
LEMMA IsolatedStep ==
  ASSUME ~Overlap
  PROVE  IInv /\ [Next]_vars => IInv'
<1> SUFFICES ASSUME IInv, [Next]_vars PROVE IInv'
  OBVIOUS
<1> DEFINE Rest == /\ Alone' /\ Landed' /\ Chosen'
                   /\ StoredRowsHaveObjects' /\ ReferencedKeysAreClaimed'
<1>1. /\ TypeOK /\ Located /\ Alone /\ Landed /\ Chosen
      /\ StoredRowsHaveObjects /\ ReferencedKeysAreClaimed
  BY DEF IInv
<1>2. TypeOK' /\ Located' BY <1>1, TypeStep
<1> SUFFICES Rest
  BY <1>2 DEF IInv
<1>3. ASSUME NEW r \in Requests, Begin(r) PROVE Rest
  BY <1>3, IsolatedBegin
<1>4. ASSUME NEW r \in Requests, Steps(r) PROVE Rest
  BY <1>4, IsolatedSteps
<1>5. ASSUME NEW r \in Requests, SweepSteps(r) PROVE Rest
  BY <1>5, IsolatedSweepSteps
<1>6. ASSUME UNCHANGED <<bucket, claimed, stored, shown>>,
             \A q \in Requests : req'[q] = req[q] \/ req'[q].pc = "idle"
      PROVE  Rest
  <2>1. /\ StoredRowsHaveObjects' /\ ReferencedKeysAreClaimed'
        /\ Referenced' = Referenced
    BY <1>1, <1>6, Untouched
  <2>2. Alone' BY <1>1, <1>6 DEF Alone, Sweeping
  <2>3. Landed' BY <1>1, <1>6 DEF Landed
  <2>4. Chosen' BY <1>1, <1>6, <2>1 DEF Chosen
  <2>5. QED BY <1>6, <2>1, <2>2, <2>3, <2>4
<1>7. ASSUME NEW r \in Requests, Crash(r) PROVE Rest
  <2>1. UNCHANGED <<bucket, claimed, stored, shown>> /\ Finish(r)
    BY <1>7 DEF Crash, objects, tables
  <2>2. \A q \in Requests \ {r} : req'[q] = req[q] BY <1>1, <2>1 DEF Finish, TypeOK
  <2>3. QED BY <1>1, <1>6, <2>1, <2>2, Finished
<1>8. CASE Tick
  <2>1. UNCHANGED <<bucket, claimed, stored, shown, req>>
    BY <1>8 DEF Tick, objects, tables
  <2>2. QED BY <1>6, <2>1
<1>9. CASE UNCHANGED vars
  <2>1. UNCHANGED <<bucket, claimed, stored, shown, req>>
    BY <1>9 DEF vars, objects, tables
  <2>2. QED BY <1>6, <2>1
<1>10. QED BY <1>3, <1>4, <1>5, <1>7, <1>8, <1>9 DEF Next

(* The initial states satisfy the invariant.                               *)
LEMMA IsolatedInit == Init => IInv
<1> SUFFICES ASSUME Init PROVE IInv
  OBVIOUS
<1>1. TypeOK /\ Located
  BY IdleType, BoundAssumption DEF Init, TypeOK, Located, Idle
<1>2. \A r \in Requests : req[r].pc = "idle"
  BY DEF Init, Idle
<1>3. Alone /\ Landed /\ Chosen
  BY <1>2 DEF Alone, Landed, Chosen, Sweeping
<1>4. Referenced = {}
  BY DataAssumption DEF Init, Referenced
<1>5. StoredRowsHaveObjects /\ ReferencedKeysAreClaimed
  BY <1>4 DEF Init, StoredRowsHaveObjects, ReferencedKeysAreClaimed
<1>6. QED BY <1>1, <1>3, <1>5 DEF IInv

(* Where a sweep runs alone, a baseline or a cache row never points at     *)
(* bytes the bucket lost, whatever crashes, however long the retention     *)
(* window and however many keys one sweep collects.                        *)
THEOREM RowsKeepTheirObjects ==
  ASSUME ~Overlap
  PROVE  Spec => []StoredRowsHaveObjects
<1>1. IInv => StoredRowsHaveObjects BY DEF IInv
<1>2. IInv /\ [Next]_vars => IInv' BY IsolatedStep
<1>3. QED BY IsolatedInit, <1>1, <1>2, PTL DEF Spec

(* Where a sweep runs alone, every key a row names keeps its ledger row.   *)
THEOREM ReferencedKeysStayClaimed ==
  ASSUME ~Overlap
  PROVE  Spec => []ReferencedKeysAreClaimed
<1>1. IInv => ReferencedKeysAreClaimed BY DEF IInv
<1>2. IInv /\ [Next]_vars => IInv' BY IsolatedStep
<1>3. QED BY IsolatedInit, <1>1, <1>2, PTL DEF Spec

-----------------------------------------------------------------------------
(* Beside puts, decisions and ingests.                                     *)

(* What a sweep still holds chosen is wanted only since it chose.          *)
Overtaken == Doomed \cap Referenced \subseteq late /\ Dropping \cap open \subseteq reopened
RInv == TypeOK /\ Located /\ Overtaken

(* A picture is chosen by the selection alone, which passes over whatever   *)
(* a row names, and a build by the count alone, which passes over whatever  *)
(* waits.                                                                  *)
LEMMA ChosenUnwanted ==
  ASSUME TypeOK, Located, [Next]_vars
  PROVE  /\ (Doomed' \ Doomed) \cap Referenced' = {}
         /\ (Dropping' \ Dropping) \cap open' = {}
<1> DEFINE Rest == /\ (Doomed' \ Doomed) \cap Referenced' = {}
                   /\ (Dropping' \ Dropping) \cap open' = {}
<1>1. ASSUME NEW r \in Requests, \A q \in Requests \ {r} : req'[q] = req[q],
             req'[r].pc \notin {"delete", "drop"}
      PROVE  Rest
  BY <1>1 DEF Doomed, Dropping
<1>2. ASSUME NEW r \in Requests, Begin(r) PROVE Rest
  BY <1>1, <1>2, BeginStays
<1>3. ASSUME NEW r \in Requests, Steps(r) PROVE Rest
  BY <1>1, <1>3, StepPlaces DEF Sweeping
<1>4. ASSUME NEW r \in Requests, Crash(r) PROVE Rest
  <2>1. (\A q \in Requests \ {r} : req'[q] = req[q]) /\ req'[r].pc = "idle"
    BY <1>4, Finished DEF Crash, Finish, TypeOK
  <2> QED BY <1>1, <2>1
<1>5. ASSUME NEW r \in Requests, SweepSteps(r) PROVE Rest
  <2>1. (\A q \in Requests \ {r} : req'[q] = req[q]) /\ req[r] \in Request
    BY <1>5, SweepPlaces DEF TypeOK
  <2>2. ASSUME NEW b \in Builds, CheckBuild(r, b) PROVE Rest
    <3>1. /\ \/ req'[r] = [req[r] EXCEPT !.expired = req[r].expired \ {b}]
             \/ b \notin open /\ req'[r] = [req[r] EXCEPT !.pc = "drop", !.build = b]
          /\ req[r].pc = "builds" /\ open' = open
      BY <2>2 DEF CheckBuild, TypeOK, tables
    <3>2. \/ req'[r].pc = "builds"
          \/ b \notin open' /\ req'[r].pc = "drop" /\ req'[r].build = b
      BY <2>1, <3>1 DEF Request
    <3> QED BY <2>1, <3>2 DEF Doomed, Dropping
  <2>3. CASE Select(r)
    <3>1. Referenced' = Referenced BY <2>3 DEF Select, tables, Referenced
    <3>2. CASE Finish(r) BY <1>1, <2>1, <3>2, Finished
    <3>3. ASSUME NEW T \in SUBSET Collectable(req[r].at),
                 req' = [req EXCEPT ![r].pc = "delete", ![r].todo = T]
          PROVE  Rest
      <4>1. req'[r] = [req[r] EXCEPT !.pc = "delete", !.todo = T]
        BY <3>3 DEF TypeOK
      <4>2. req'[r].pc = "delete" /\ req'[r].todo = T BY <2>1, <4>1 DEF Request
      <4>3. T \cap Referenced' = {} BY <3>1 DEF Collectable
      <4> QED BY <2>1, <4>2, <4>3 DEF Doomed, Dropping
    <3> QED BY <2>3, <3>2, <3>3 DEF Select
  <2>4. CASE DropBuild(r)
    <3>1. req'[r].pc = "builds" BY <2>1, <2>4 DEF DropBuild, TypeOK, Request
    <3> QED BY <1>1, <2>1, <3>1
  <2>5. CASE DropCache(r) \/ DeleteObjects(r) \/ ForgetKeys(r)
    <3>1. req'[r].pc \notin {"delete", "drop"}
      BY <2>1, <2>5, Moved, Finished DEF DropCache, DeleteObjects, ForgetKeys
    <3> QED BY <1>1, <2>1, <3>1
  <2> QED BY <1>5, <2>2, <2>3, <2>4, <2>5 DEF SweepSteps
<1>6. ASSUME UNCHANGED req PROVE Rest
  <2>1. Doomed' = Doomed /\ Dropping' = Dropping BY <1>6 DEF Doomed, Dropping
  <2> QED BY <2>1
<1>7. CASE Tick \/ UNCHANGED vars BY <1>6, <1>7 DEF Tick, vars
<1> QED BY <1>2, <1>3, <1>4, <1>5, <1>7 DEF Next

(* Only a sweep removes, and only what it had chosen.                      *)
LEMMA TakesChosen ==
  ASSUME TypeOK, Located, [Next]_vars
  PROVE  bucket \ bucket' \subseteq Doomed /\ present \ present' \subseteq Dropping
<1> DEFINE Rest == bucket \ bucket' \subseteq Doomed /\ present \ present' \subseteq Dropping
<1>1. ASSUME bucket \subseteq bucket', present \subseteq present' PROVE Rest BY <1>1
<1>2. ASSUME NEW r \in Requests, Begin(r) PROVE Rest
  BY <1>1, <1>2, BeginLocated DEF objects, tables
<1>3. ASSUME NEW r \in Requests, Steps(r) PROVE Rest
  BY <1>1, <1>3 DEF Steps, Claim, Put, WriteRow, GetCandidate, Record, AskHeld, PutImage,
                    ClaimImages, IngestRows, objects, tables
<1>4. ASSUME NEW r \in Requests, SweepSteps(r) PROVE Rest
  <2>1. CASE DropBuild(r)
    <3>1. bucket' = bucket /\ present' = present \ {req[r].build} /\ req[r].pc = "drop"
      BY <2>1 DEF DropBuild, objects
    <3> QED BY <3>1 DEF Dropping
  <2>2. CASE DeleteObjects(r)
    <3>1. bucket' = bucket \ req[r].todo /\ present' = present /\ req[r].pc = "delete"
      BY <2>2 DEF DeleteObjects, tables
    <3> QED BY <3>1 DEF Doomed
  <2>3. CASE (\E b \in Builds : CheckBuild(r, b)) \/ DropCache(r) \/ Select(r) \/ ForgetKeys(r)
    BY <1>1, <2>3 DEF CheckBuild, DropCache, Select, ForgetKeys, objects, tables
  <2> QED BY <1>4, <2>1, <2>2, <2>3 DEF SweepSteps
<1>5. CASE Tick \/ UNCHANGED vars \/ (\E r \in Requests : Crash(r))
  BY <1>1, <1>5 DEF Tick, vars, Crash, objects, tables
<1> QED BY <1>2, <1>3, <1>4, <1>5 DEF Next

LEMMA RaceInitial == RaceInit => RInv
<1> SUFFICES ASSUME RaceInit PROVE RInv OBVIOUS
<1>1. TypeOK /\ Located
  BY IdleType, BoundAssumption DEF RaceInit, Init, TypeOK, Located, Idle
<1>2. Doomed = {} /\ Dropping = {} BY DEF RaceInit, Init, Idle, Doomed, Dropping
<1> QED BY <1>1, <1>2 DEF RInv, Overtaken

LEMMA RaceStep == RInv /\ [RaceNext]_raceVars => RInv'
<1> SUFFICES ASSUME RInv, [RaceNext]_raceVars PROVE RInv' OBVIOUS
<1>1. [Next]_vars BY DEF RaceNext, raceVars
<1>2. TypeOK' /\ Located' BY <1>1, TypeStep DEF RInv
<1>3. CASE RaceNext
  <2>1. /\ (Doomed' \ Doomed) \cap Referenced' = {}
        /\ (Dropping' \ Dropping) \cap open' = {}
    BY <1>1, ChosenUnwanted DEF RInv
  <2>2. Doomed' \cap Referenced' \subseteq late'
    BY <1>3, <2>1 DEF RaceNext, RInv, Overtaken
  <2>3. Dropping' \cap open' \subseteq reopened'
    BY <1>3, <2>1 DEF RaceNext, RInv, Overtaken
  <2> QED BY <1>2, <2>2, <2>3 DEF RInv, Overtaken
<1>4. CASE UNCHANGED raceVars
  <2>1. UNCHANGED <<late, reopened, req, stored, shown, open>>
    BY <1>4 DEF raceVars, vars, tables
  <2>2. Overtaken' BY <2>1 DEF RInv, Overtaken, Doomed, Dropping, Referenced
  <2> QED BY <1>2, <2>2 DEF RInv
<1> QED BY <1>3, <1>4

(* Beside puts, promotions, ingests and other sweeps, a sweep removes no    *)
(* bytes a baseline, a cache row or a build shows, but for those a row came *)
(* to name after it had chosen them.                                       *)
THEOREM SweepsSpareReferenced == RaceSpec => SweepSparesReferenced
<1>1. RInv /\ [RaceNext]_raceVars =>
        [\A i \in bucket \ bucket' : i \in Referenced => i \in late]_raceVars
  <2> SUFFICES ASSUME RInv, RaceNext, NEW i \in bucket \ bucket', i \in Referenced
               PROVE  i \in late
    OBVIOUS
  <2>1. [Next]_vars BY DEF RaceNext
  <2> QED BY <2>1, TakesChosen DEF RInv, Overtaken
<1> QED BY <1>1, RaceInitial, RaceStep, PTL DEF RaceSpec, SweepSparesReferenced

(* Beside ingests, decisions and other sweeps, a build somebody still has   *)
(* to look at outlives its window, but for one that came to wait after the  *)
(* sweep had counted what waits in it.                                     *)
THEOREM WaitingBuildsStay == RaceSpec => WaitingBuildIsKept
<1>1. RInv /\ [RaceNext]_raceVars =>
        [\A b \in present \ present' : b \in open => b \in reopened]_raceVars
  <2> SUFFICES ASSUME RInv, RaceNext, NEW b \in present \ present', b \in open
               PROVE  b \in reopened
    OBVIOUS
  <2>1. [Next]_vars BY DEF RaceNext
  <2> QED BY <2>1, TakesChosen DEF RInv, Overtaken
<1> QED BY <1>1, RaceInitial, RaceStep, PTL DEF RaceSpec, WaitingBuildIsKept
=============================================================================
