--------------------------- MODULE SharePublishProofs ---------------------------
(***************************************************************************)
(* Proofs about SharePublish, for every set of jobs, slots, formats,       *)
(* commits and offers and every history: the types, that no line names a   *)
(* blob it lacks, and, where the history is one line of commits, that what *)
(* a publish was told of a mainline stands.                                *)
(***************************************************************************)
EXTENDS SharePublish, TLAPS

(* A manifest that takes some slots from an offer is a manifest.           *)
LEMMA NextManifestType ==
  ASSUME NEW o \in Offers, NEW held \in Manifest, NEW deaf \in BOOLEAN
  PROVE  NextManifest(o, held, deaf) \in Manifest
BY OfferAssumption DEF NextManifest, Manifest, Offer

(* The blobs of a manifest are entries and images.                         *)
LEMMA NamedType ==
  ASSUME NEW m \in Manifest
  PROVE  Named(m) \in Blobs
<1> DEFINE held == {m[s] : s \in Slots} \ {None}
<1>1. held \subseteq Entry BY DEF Manifest
<1>2. UNION {e.images : e \in held} \subseteq Images BY <1>1 DEF Entry
<1>3. QED BY <1>1, <1>2 DEF Named, Blobs

(* Where a job goes from a place is a state of a job.                      *)
LEMMA AtType ==
  ASSUME NEW l \in Lines, NEW o \in Offers, NEW deaf \in BOOLEAN, NEW n \in 1..Attempts
  PROVE  At(l, o, deaf, n) \in Loading
BY DEF At, Loading

(* A job that is not idle has its line, its offer and its count of reads.  *)
LEMMA Fields ==
  ASSUME TypeOK, NEW j \in Jobs, ~Working(j, "idle")
  PROVE  /\ job[j].line \in Lines /\ job[j].offer \in Offers
         /\ job[j].deaf \in BOOLEAN /\ job[j].tries \in 1..Attempts
         /\ Working(j, "load") \/ Working(j, "store")
         /\ Working(j, "store") => job[j].saw \in LineState
<1>1. job[j] \in {Idle} \cup Loading \cup Storing BY DEF TypeOK
<1>2. CASE job[j] = Idle BY <1>2 DEF Idle, Working
<1>3. CASE job[j] \in Loading BY <1>3 DEF Loading, Working
<1>4. CASE job[j] \in Storing BY <1>4 DEF Storing, Working
<1>5. QED BY <1>1, <1>2, <1>3, <1>4

(* The ways a job goes on leave the jobs well typed.                       *)
LEMMA GoesOn ==
  ASSUME TypeOK, NEW j \in Jobs
  PROVE  /\ End(j) => job' \in [Jobs -> {Idle} \cup Loading \cup Storing]
         /\ ~Working(j, "idle") /\ Again(j)
            => job' \in [Jobs -> {Idle} \cup Loading \cup Storing]
         /\ \A l \in Lines : ~Working(j, "idle") /\ SettleOn(j, l)
            => job' \in [Jobs -> {Idle} \cup Loading \cup Storing]
<1> USE DEF TypeOK
<1>1. End(j) => job' \in [Jobs -> {Idle} \cup Loading \cup Storing]
  BY DEF End
<1>2. ASSUME ~Working(j, "idle"), Again(j)
      PROVE  job' \in [Jobs -> {Idle} \cup Loading \cup Storing]
  <2>1. job[j].tries < Attempts => job[j].tries + 1 \in 1..Attempts
    BY <1>2, Fields, BoundAssumption
  <2>2. job[j].tries < Attempts
        => At(job[j].line, job[j].offer, job[j].deaf, job[j].tries + 1) \in Loading
    BY <1>2, <2>1, Fields, AtType
  <2>3. QED BY <1>1, <1>2, <2>2 DEF Again
<1>3. ASSUME ~Working(j, "idle"), NEW l \in Lines, SettleOn(j, l)
      PROVE  job' \in [Jobs -> {Idle} \cup Loading \cup Storing]
  <2>1. job[j].offer \in Offers /\ job[j].offer.commit \in Lines
    BY <1>3, Fields, OfferAssumption DEF Offer, Lines
  <2>2. FALSE \in BOOLEAN /\ 1 \in 1..Attempts
    BY BoundAssumption
  <2>3. At(job[j].offer.commit, job[j].offer, FALSE, 1) \in Loading
    BY <2>1, <2>2, AtType
  <2>4. QED BY <1>1, <1>3, <2>3 DEF SettleOn
<1>4. QED BY <1>1, <1>2, <1>3

(* What a job does with a line leaves its write well typed.                *)
LEMMA WriteType ==
  ASSUME TypeOK, NEW j \in Jobs, Working(j, "store"), Write(j)
  PROVE  line' \in [Lines -> LineState] /\ stored' \in [Lines -> Blobs] /\ aged' \subseteq Commits
<1> DEFINE me == job[j]
           next == NextManifest(me.offer, me.saw.entries, me.deaf)
           blobs == BlobsFor(me.offer, me.saw.entries, me.deaf)
           carried == IF Prunes THEN Both(stored[me.line], Named(next)) ELSE stored[me.line]
<1>1. /\ me.line \in Lines /\ me.offer \in Offers /\ me.deaf \in BOOLEAN
      /\ me.saw.entries \in Manifest
  BY Fields DEF Working, LineState
<1>2. next \in Manifest BY <1>1, NextManifestType
<1>3. Named(next) \in Blobs /\ Named(me.saw.entries) \in Blobs
  BY <1>1, <1>2, NamedType
<1>4. stored[me.line] \in Blobs BY <1>1 DEF TypeOK
<1>5. blobs \in Blobs /\ carried \in Blobs
  BY <1>3, <1>4 DEF BlobsFor, Blobs, Without, Both
<1>6. Held(next) \in LineState /\ Either(carried, blobs) \in Blobs
  BY <1>2, <1>5 DEF Held, LineState, Either, Blobs
<1>7. line' = [line EXCEPT ![me.line] = Held(next)]
      /\ stored' = [stored EXCEPT ![me.line] = Either(carried, blobs)]
      /\ aged' = aged \ {me.line}
  BY DEF Write
<1>8. QED BY <1>6, <1>7 DEF TypeOK

(* A line that does not read as a manifest is a state of a line.           *)
LEMMA UnreadType ==
  /\ \A is \in {"absent", "garbled", "newer"} : Unread(is) \in LineState
  /\ Nothing \in Blobs
<1>1. Empty \in Manifest BY DEF Empty, Manifest
<1>2. QED BY <1>1, NamedType DEF Unread, LineState, Nothing

(* Promises are about slots, in formats, at commits.                       *)
LEMMA PromiseType ==
  ASSUME TypeOK, NEW j \in Jobs, ~Working(j, "idle")
  PROVE  Promises(j) \subseteq [slot: Slots, version: Versions, commit: Commits]
<1>1. job[j].offer \in Offer BY Fields, OfferAssumption
<1>2. \A s \in Slots : job[j].offer.entries[s] # None => job[j].offer.entries[s] \in Entry
  BY <1>1 DEF Offer, Manifest
<1>3. QED BY <1>1, <1>2 DEF Promises, Offer, Entry

(* The initial states are well typed.                                      *)
LEMMA InitType ==
  ASSUME Init
  PROVE  TypeOK
<1>1. PICK is \in {"absent", "garbled", "newer"} :
        line = [l \in Lines |-> IF l = Latest THEN Unread(is) ELSE Unread("absent")]
  BY DEF Init
<1>2. QED BY <1>1, UnreadType DEF Init, TypeOK

(* Every step leaves the types as they are.                                *)
LEMMA TypeStep ==
  ASSUME TypeOK, [Next]_vars
  PROVE  TypeOK'
<1> DEFINE Job == {Idle} \cup Loading \cup Storing
           Said == [slot: Slots, version: Versions, commit: Commits]
<1>1. ASSUME NEW j \in Jobs, NEW o \in Offers, NEW deaf \in BOOLEAN, Begin(j, o, deaf)
      PROVE  TypeOK'
  <2>1. At(Latest, o, deaf, 1) \in Loading
    BY AtType, BoundAssumption DEF Lines
  <2>2. job' \in [Jobs -> Job] BY <1>1, <2>1 DEF Begin, TypeOK
  <2>3. QED BY <1>1, <2>2 DEF Begin, TypeOK
<1>2. ASSUME NEW j \in Jobs, Load(j) PROVE TypeOK'
  <2>0. ~Working(j, "idle") BY <1>2 DEF Load, Working
  <2> DEFINE saw == line[job[j].line]
             storing == [pc |-> "store", line |-> job[j].line, offer |-> job[j].offer,
                         deaf |-> job[j].deaf, tries |-> job[j].tries, saw |-> saw]
  <2>1. saw \in LineState /\ job[j].line \in Lines BY <2>0, Fields DEF TypeOK
  <2>2. storing \in Storing BY <2>0, <2>1, Fields DEF Storing
  <2>3. \/ End(j) \/ SettleOn(j, job[j].line) \/ job' = [job EXCEPT ![j] = storing]
    BY <1>2 DEF Load
  <2>4. job' \in [Jobs -> Job]
    BY <2>0, <2>1, <2>2, <2>3, GoesOn DEF TypeOK
  <2>5. promised' \subseteq Said
    BY <1>2, <2>0, PromiseType DEF Load, Promise, TypeOK
  <2>6. QED BY <1>2, <2>4, <2>5 DEF Load, TypeOK
<1>3. ASSUME NEW j \in Jobs, Replace(j) PROVE TypeOK'
  <2>0. Working(j, "store") /\ ~Working(j, "idle") BY <1>3 DEF Replace, Working
  <2>1. line' \in [Lines -> LineState] /\ stored' \in [Lines -> Blobs] /\ aged' \subseteq Commits
    BY <1>3, <2>0, WriteType DEF Replace
  <2>2. job[j].line \in Lines BY <2>0, Fields
  <2>3. job' \in [Jobs -> Job] BY <1>3, <2>0, <2>2, GoesOn DEF Replace
  <2>4. promised' \subseteq Said
    BY <1>3, <2>0, PromiseType DEF Replace, Promise, Withdrawn, TypeOK
  <2>5. QED BY <1>3, <2>1, <2>3, <2>4 DEF Replace, TypeOK
<1>4. ASSUME NEW j \in Jobs, Refuse(j) PROVE TypeOK'
  <2>1. ~Working(j, "idle") BY <1>4 DEF Refuse, Working
  <2>2. job' \in [Jobs -> Job] BY <1>4, <2>1, GoesOn DEF Refuse
  <2>3. QED BY <1>4, <2>2 DEF Refuse, TypeOK
<1>5. ASSUME NEW j \in Jobs, Stop(j) PROVE TypeOK'
  BY <1>5, GoesOn DEF Stop, TypeOK
<1>6. CASE Upgrade
  BY <1>6, UnreadType DEF Upgrade, TypeOK, Lines
<1>7. ASSUME NEW old \in SUBSET Commits, List(old) PROVE TypeOK'
  BY <1>7 DEF List, TypeOK
<1>8. ASSUME NEW c \in Commits, Drop(c) PROVE TypeOK'
  <2>1. line' \in [Lines -> LineState] /\ stored' \in [Lines -> Blobs]
    BY <1>8, UnreadType DEF Drop, TypeOK
  <2>2. QED BY <1>8, <2>1 DEF Drop, TypeOK
<1>9. CASE GiveUp BY <1>9 DEF GiveUp, TypeOK
<1>10. CASE UNCHANGED vars BY <1>10 DEF vars, TypeOK
<1>11. QED
  BY <1>1, <1>2, <1>3, <1>4, <1>5, <1>6, <1>7, <1>8, <1>9, <1>10 DEF Next

(* Every reachable state of a share is well typed.                         *)
THEOREM PublishTypes == Spec => []TypeOK
<1>1. Init => TypeOK BY InitType
<1>2. TypeOK /\ [Next]_vars => TypeOK' BY TypeStep
<1>3. QED BY <1>1, <1>2, PTL DEF Spec

-----------------------------------------------------------------------------
(* A line that does not read as a manifest holds no entry; only the latest *)
(* is ever in a newer format, and no write is decided on one; promises are *)
(* made about a mainline that is read.                                     *)
Shapes ==
  /\ \A l \in Lines : line[l].is # "held" => line[l].entries = Empty
  /\ \A c \in Commits : line[c].is # "newer"
  /\ \A j \in Jobs : Working(j, "store") => job[j].saw.is # "newer"
  /\ promised # {} => kind = "mainline" /\ line[Latest].is \in {"held", "newer"}

(* An offer gives something.                                               *)
LEMMA OfferGives ==
  ASSUME NEW o \in Offers
  PROVE  \E s \in Slots : o.entries[s] # None
<1>1. o.entries \in Manifest /\ o.entries # Empty BY OfferAssumption DEF Offer
<1>2. ASSUME \A s \in Slots : o.entries[s] = None PROVE FALSE
  <2>1. o.entries = [s \in Slots |-> o.entries[s]] BY <1>1 DEF Manifest
  <2>2. QED BY <1>1, <1>2, <2>1 DEF Empty
<1>3. QED BY <1>2

(* A line that holds no entry keeps none of an offer's.                    *)
LEMMA EmptyYields ==
  ASSUME NEW o \in Offers, NEW deaf
  PROVE  Plan(o, Empty, deaf) # {}
BY OfferGives DEF Plan, Kept, Empty

(* A write changes the one line it is for.                                 *)
LEMMA WriteLine ==
  ASSUME TypeOK, NEW j \in Jobs, Working(j, "store"), Write(j)
  PROVE  /\ line'[job[j].line] = Held(NextManifest(job[j].offer, job[j].saw.entries, job[j].deaf))
         /\ \A l \in Lines : l # job[j].line => line'[l] = line[l] /\ stored'[l] = stored[l]
<1>1. job[j].line \in Lines BY Fields DEF Working
<1>2. QED BY <1>1 DEF Write, TypeOK

(* A job that goes on is not at a write, and the others stay where they are. *)
LEMMA LeavesStore ==
  ASSUME TypeOK, NEW j \in Jobs, NEW l, End(j) \/ Again(j) \/ SettleOn(j, l)
  PROVE  /\ ~Working(j, "store")'
         /\ \A i \in Jobs : i # j => job'[i] = job[i]
<1> USE DEF TypeOK, Working
<1>1. ASSUME End(j) PROVE ~Working(j, "store")' /\ \A i \in Jobs : i # j => job'[i] = job[i]
  BY <1>1 DEF End, Idle
<1>2. CASE Again(j) BY <1>1, <1>2 DEF Again, At
<1>3. CASE SettleOn(j, l) BY <1>1, <1>3 DEF SettleOn, At
<1>4. QED BY <1>1, <1>2, <1>3

(* Every step leaves the shapes as they are.                               *)
LEMMA ShapeStep ==
  ASSUME TypeOK, Shapes, [Next]_vars
  PROVE  Shapes'
<1>1. ASSUME NEW j \in Jobs, NEW o \in Offers, NEW deaf \in BOOLEAN, Begin(j, o, deaf)
      PROVE  Shapes'
  <2>1. \A i \in Jobs : Working(i, "store")' => job'[i] = job[i]
    BY <1>1 DEF Begin, Working, At, TypeOK
  <2>2. QED BY <1>1, <2>1 DEF Begin, Shapes, Working
<1>2. ASSUME NEW j \in Jobs, Load(j) PROVE Shapes'
  <2> DEFINE saw == line[job[j].line]
  <2>0. ~Working(j, "idle") /\ UNCHANGED <<kind, line>> BY <1>2 DEF Load, Working
  <2>1. job[j].line \in Lines /\ job[j].offer \in Offers BY <2>0, Fields
  <2> HIDE DEF saw
  <2>3. \A i \in Jobs : Working(i, "store")' => job'[i].saw.is # "newer"
    <3>1. CASE End(j) \/ SettleOn(j, job[j].line)
      <4>1. \A i \in Jobs : Working(i, "store")' => job'[i] = job[i]
        BY <3>1, LeavesStore
      <4>2. QED BY <4>1 DEF Shapes, Working
    <3>2. CASE ~(End(j) \/ SettleOn(j, job[j].line))
      <4>1. saw.is # "newer"
            /\ job' = [job EXCEPT ![j] =
                 [pc |-> "store", line |-> job[j].line, offer |-> job[j].offer,
                  deaf |-> job[j].deaf, tries |-> job[j].tries, saw |-> saw]]
        BY <1>2, <3>2 DEF Load, saw
      <4>2. QED BY <4>1 DEF Shapes, Working, TypeOK
    <3>3. QED BY <3>1, <3>2
  <2>4. promised' # {} => kind = "mainline" /\ line[Latest].is \in {"held", "newer"}
    <3>1. CASE promised' = promised BY <3>1 DEF Shapes
    <3>2. CASE promised' # promised
      <4>1. /\ saw.is # "newer" /\ Plan(job[j].offer, saw.entries, job[j].deaf) = {}
            /\ job[j].line = Latest /\ kind = "mainline"
        BY <1>2, <3>2 DEF Load, Promise, saw
      <4>2. saw.entries # Empty BY <4>1, <2>1, EmptyYields
      <4>3. saw.is = "held" BY <4>2, <2>1 DEF Shapes, saw
      <4>4. QED BY <4>1, <4>3 DEF saw
    <3>3. QED BY <3>1, <3>2
  <2>5. QED BY <2>0, <2>3, <2>4 DEF Shapes
<1>3. ASSUME NEW j \in Jobs, Replace(j) PROVE Shapes'
  <2>1. Working(j, "store") /\ Write(j) /\ kind' = kind BY <1>3 DEF Replace
  <2>2. job[j].line \in Lines BY <2>1, Fields DEF Working
  <2>3. line'[job[j].line].is = "held"
    <3>1. line'[job[j].line]
            = Held(NextManifest(job[j].offer, job[j].saw.entries, job[j].deaf))
      BY <2>1, WriteLine
    <3>2. QED BY <3>1 DEF Held
  <2>4. \A l \in Lines : l # job[j].line => line'[l] = line[l]
    BY <2>1, WriteLine
  <2>5. \A i \in Jobs : Working(i, "store")' => job'[i] = job[i]
    BY <1>3, LeavesStore DEF Replace
  <2>6. promised' # {} => kind = "mainline"
    BY <1>3 DEF Replace, Promise, Withdrawn, Shapes
  <2>7. promised' # {} => promised # {} \/ job[j].line = Latest
    BY <1>3 DEF Replace, Promise, Withdrawn
  <2>8. QED
    BY <2>1, <2>2, <2>3, <2>4, <2>5, <2>6, <2>7 DEF Shapes, Lines, Working
<1>4. ASSUME NEW j \in Jobs, Refuse(j) PROVE Shapes'
  <2>1. \A i \in Jobs : Working(i, "store")' => job'[i] = job[i]
    BY <1>4, LeavesStore DEF Refuse
  <2>2. QED BY <1>4, <2>1 DEF Refuse, Shapes, Working
<1>5. ASSUME NEW j \in Jobs, Stop(j) PROVE Shapes'
  <2>1. \A i \in Jobs : Working(i, "store")' => job'[i] = job[i]
    BY <1>5, LeavesStore DEF Stop
  <2>2. QED BY <1>5, <2>1 DEF Stop, Shapes, Working
<1>6. CASE Upgrade
  BY <1>6, NameAssumption DEF Upgrade, Shapes, Unread, TypeOK, Lines, Working
<1>7. ASSUME NEW old \in SUBSET Commits, List(old) PROVE Shapes'
  BY <1>7 DEF List, Shapes, Working
<1>8. ASSUME NEW c \in Commits, Drop(c) PROVE Shapes'
  BY <1>8, NameAssumption DEF Drop, Shapes, Unread, TypeOK, Lines, Working
<1>9. CASE GiveUp BY <1>9 DEF GiveUp, Shapes, Working
<1>10. CASE UNCHANGED vars BY <1>10 DEF vars, Shapes, Working
<1>11. QED
  BY <1>1, <1>2, <1>3, <1>4, <1>5, <1>6, <1>7, <1>8, <1>9, <1>10 DEF Next

(* The initial states have the shapes.                                     *)
LEMMA InitShapes ==
  ASSUME Init
  PROVE  Shapes
BY NameAssumption DEF Init, Shapes, Unread, Idle, Working, Lines

(* The types and the shapes hold of every reachable state.                 *)
LEMMA Reachable == Spec => [](TypeOK /\ Shapes)
<1>1. Init => TypeOK /\ Shapes BY InitType, InitShapes
<1>2. TypeOK /\ Shapes /\ [Next]_vars => (TypeOK /\ Shapes)' BY TypeStep, ShapeStep
<1>3. QED BY <1>1, <1>2, PTL DEF Spec

-----------------------------------------------------------------------------
(* Blobs.                                                                  *)

(* A line that holds no entry names no blob.                               *)
LEMMA EmptyNamesNothing == \A b : Within(Named(Empty), b) <=> Within(Nothing, b)
BY DEF Nothing

(* No blobs are within any blobs.                                          *)
LEMMA NothingIsLittle ==
  /\ Nothing.entries = {} /\ Nothing.images = {}
  /\ \A b \in Blobs : Within(Nothing, b)
<1>1. {Empty[s] : s \in Slots} \ {None} = {} BY DEF Empty
<1>2. Nothing.entries = {} /\ Nothing.images = {} BY <1>1 DEF Nothing, Named
<1>3. QED BY <1>2 DEF Within

(* What a write leaves in place is all its manifest names.                 *)
LEMMA WriteHolds ==
  ASSUME TypeOK, NamedBlobsAreHeld, NEW j \in Jobs, Working(j, "store"),
         line[job[j].line] = job[j].saw, Write(j)
  PROVE  Within(Named(line'[job[j].line].entries), stored'[job[j].line])
<1> DEFINE me == job[j]
           next == NextManifest(me.offer, me.saw.entries, me.deaf)
           blobs == BlobsFor(me.offer, me.saw.entries, me.deaf)
           carried == IF Prunes THEN Both(stored[me.line], Named(next)) ELSE stored[me.line]
<1>1. me.line \in Lines BY Fields DEF Working
<1>2. Within(Named(me.saw.entries), stored[me.line])
  BY <1>1 DEF NamedBlobsAreHeld
<1>3. line'[me.line] = Held(next) /\ stored'[me.line] = Either(carried, blobs)
  BY <1>1 DEF Write, TypeOK
<1>4. blobs = Without(Named(next), Named(me.saw.entries)) BY DEF BlobsFor
<1> HIDE DEF next, blobs
<1>5. Within(Named(next), Either(carried, blobs))
  BY <1>2, <1>4 DEF Within, Either, Both, Without
<1>6. QED BY <1>3, <1>5 DEF Held

(* Every step leaves every named blob in place.                            *)
LEMMA BlobStep ==
  ASSUME TypeOK, NamedBlobsAreHeld, [Next]_vars
  PROVE  NamedBlobsAreHeld'
<1>1. ASSUME UNCHANGED <<line, stored>> PROVE NamedBlobsAreHeld'
  BY <1>1 DEF NamedBlobsAreHeld
<1>2. ASSUME NEW j \in Jobs, Replace(j) PROVE NamedBlobsAreHeld'
  <2>1. Working(j, "store") /\ Write(j) /\ line[job[j].line] = job[j].saw
    BY <1>2 DEF Replace
  <2>2. Within(Named(line'[job[j].line].entries), stored'[job[j].line])
    BY <2>1, WriteHolds
  <2>3. \A l \in Lines : l # job[j].line => line'[l] = line[l] /\ stored'[l] = stored[l]
    BY <2>1, WriteLine
  <2>4. QED BY <2>2, <2>3 DEF NamedBlobsAreHeld
<1>3. CASE Upgrade
  <2>1. Latest \in Lines BY DEF Lines
  <2>2. line'[Latest].entries = Empty /\ stored'[Latest] \in Blobs
    BY <1>3, <2>1 DEF Upgrade, Unread, TypeOK
  <2>3. \A l \in Lines : l # Latest => line'[l] = line[l] /\ stored'[l] = stored[l]
    BY <1>3 DEF Upgrade, TypeOK
  <2>4. Within(Named(line'[Latest].entries), stored'[Latest])
    BY <2>2, NothingIsLittle, EmptyNamesNothing
  <2>5. QED BY <2>3, <2>4 DEF NamedBlobsAreHeld
<1>4. ASSUME NEW c \in Commits, Drop(c) PROVE NamedBlobsAreHeld'
  <2>1. c \in Lines BY DEF Lines
  <2>2. line'[c].entries = Empty /\ stored'[c] \in Blobs
    BY <1>4, <2>1, UnreadType DEF Drop, Unread, TypeOK
  <2>3. \A l \in Lines : l # c => line'[l] = line[l] /\ stored'[l] = stored[l]
    BY <1>4 DEF Drop, TypeOK
  <2>4. Within(Named(line'[c].entries), stored'[c])
    BY <2>2, NothingIsLittle, EmptyNamesNothing
  <2>5. QED BY <2>3, <2>4 DEF NamedBlobsAreHeld
<1>5. ASSUME NEW j \in Jobs,
             (\E o \in Offers, deaf \in BOOLEAN : Begin(j, o, deaf))
               \/ Load(j) \/ Refuse(j) \/ Stop(j)
      PROVE  NamedBlobsAreHeld'
  BY <1>1, <1>5 DEF Begin, Load, Refuse, Stop
<1>6. CASE (\E old \in SUBSET Commits : List(old)) \/ GiveUp \/ UNCHANGED vars
  BY <1>1, <1>6 DEF List, GiveUp, vars
<1>7. QED BY <1>2, <1>3, <1>4, <1>5, <1>6 DEF Next

(* Every blob a line's manifest names is in place, whoever wrote last and  *)
(* whatever a write drops.                                                 *)
THEOREM BlobsStayNamed == Spec => []NamedBlobsAreHeld
<1>1. Init => NamedBlobsAreHeld
  <2>1. SUFFICES ASSUME Init, NEW l \in Lines
                 PROVE  Within(Named(line[l].entries), stored[l])
    BY DEF NamedBlobsAreHeld
  <2>2. line[l].entries = Empty /\ stored[l] = Nothing BY <2>1 DEF Init, Unread
  <2>3. QED BY <2>2, NothingIsLittle, EmptyNamesNothing, UnreadType
<1>2. TypeOK /\ Shapes /\ NamedBlobsAreHeld /\ [Next]_vars => NamedBlobsAreHeld'
  BY BlobStep
<1>3. QED BY <1>1, <1>2, Reachable, PTL DEF Spec

-----------------------------------------------------------------------------
(* Promises.                                                               *)

(* A history without branches: of two commits one descends from the other. *)
Linear ==
  \A a, b \in Commits : a = b \/ <<a, b>> \in Older \/ <<b, a>> \in Older

(* The entry an offer gives in a slot, and the one a manifest holds.       *)
LEMMA OfferedEntry ==
  ASSUME NEW o \in Offers, NEW s \in Slots, o.entries[s] # None
  PROVE  o.entries[s] \in Entry /\ o.entries[s].commit = o.commit
BY OfferAssumption DEF Offer, Manifest

(* What is kept over an offered entry is newer than it, in format or in    *)
(* commit.                                                                 *)
LEMMA KeptStands ==
  ASSUME NEW e \in Entry, NEW held \in Entry \cup {None}, NEW deaf, Kept(held, e, deaf)
  PROVE  held # None /\ (held.version > e.version \/ <<held.commit, e.commit>> \notin Older)
<1>1. held # None /\ (held.version > e.version \/ <<e.commit, held.commit>> \in Older)
  BY DEF Kept
<1>2. e.commit \in Commits /\ held.commit \in Commits BY <1>1 DEF Entry
<1>3. QED BY <1>1, <1>2, HistoryAssumption

(* What was promised by a publish all of whose slots are kept or replaced. *)
LEMMA PromisesStand ==
  ASSUME NEW o \in Offers, NEW held \in Manifest, NEW deaf \in BOOLEAN,
         NEW s \in Slots, o.entries[s] # None
  PROVE  LET now == NextManifest(o, held, deaf)[s] IN
         now # None /\ (now.version > o.entries[s].version
                         \/ <<now.commit, o.commit>> \notin Older)
<1>1. o.entries[s] \in Entry /\ o.entries[s].commit = o.commit BY OfferedEntry
<1>2. CASE s \in Plan(o, held, deaf)
  <2>1. NextManifest(o, held, deaf)[s] = o.entries[s] BY <1>2 DEF NextManifest
  <2>2. o.commit \in Commits BY <1>1 DEF Entry
  <2>3. QED BY <1>1, <2>1, <2>2, HistoryAssumption
<1>3. CASE s \notin Plan(o, held, deaf)
  <2>1. NextManifest(o, held, deaf)[s] = held[s] BY <1>3 DEF NextManifest
  <2>2. Kept(held[s], o.entries[s], deaf) BY <1>3 DEF Plan
  <2>3. held[s] \in Entry \cup {None} BY DEF Manifest
  <2>4. held[s] # None /\ (held[s].version > o.entries[s].version
                            \/ <<held[s].commit, o.entries[s].commit>> \notin Older)
    BY <1>1, <2>2, <2>3, KeptStands
  <2>5. QED BY <1>1, <2>1, <2>4
<1>4. QED BY <1>2, <1>3

(* A promise that stood stands after a write that could tell what is newer. *)
LEMMA WriteKeepsPromise ==
  ASSUME Linear, kind = "mainline",
         NEW o \in Offers, NEW held \in Manifest, NEW deaf \in BOOLEAN,
         NEW p \in [slot: Slots, version: Versions, commit: Commits],
         Stands(p, held[p.slot]),
         o.entries[p.slot] # None => ~Unanswered(held[p.slot], o.entries[p.slot], deaf)
  PROVE  Stands(p, NextManifest(o, held, deaf)[p.slot])
<1> DEFINE s == p.slot
           old == held[s]
           new == o.entries[s]
<1>1. CASE s \notin Plan(o, held, deaf)
  BY <1>1 DEF NextManifest
<1>2. CASE s \in Plan(o, held, deaf)
  <2>1. NextManifest(o, held, deaf)[s] = new BY <1>2 DEF NextManifest
  <2>2. new # None /\ ~Kept(old, new, deaf) BY <1>2 DEF Plan
  <2>3. new \in Entry BY <2>2, OfferedEntry
  <2>4. old # None /\ old \in Entry BY DEF Stands, Manifest
  <2>5. /\ old.version \in Nat /\ new.version \in Nat /\ p.version \in Nat
        /\ old.commit \in Commits /\ new.commit \in Commits /\ p.commit \in Commits
    BY <2>3, <2>4, VersionAssumption DEF Entry
  <2>6. new.version >= old.version BY <2>2, <2>4, <2>5 DEF Kept
  <2>7. <<new.commit, old.commit>> \notin Older
    <3>1. CASE deaf
      <4>1. old.commit = new.commit
        BY <2>2, <2>4, <2>5, <2>6, <3>1 DEF Unanswered
      <4>2. QED BY <2>5, <4>1, HistoryAssumption
    <3>2. CASE ~deaf BY <2>2, <2>4, <3>2 DEF Kept
    <3>3. QED BY <3>1, <3>2
  <2>8. CASE old.version > p.version
    <3>1. new.version > p.version BY <2>5, <2>6, <2>8
    <3>2. QED BY <2>1, <2>2, <3>1 DEF Stands
  <2>9. CASE <<old.commit, p.commit>> \notin Older
    <3>1. p.commit = old.commit \/ <<p.commit, old.commit>> \in Older
      BY <2>5, <2>9 DEF Linear
    <3>2. new.commit = old.commit \/ <<old.commit, new.commit>> \in Older
      BY <2>5, <2>7 DEF Linear
    <3>3. <<new.commit, p.commit>> \notin Older
      BY <2>5, <3>1, <3>2, HistoryAssumption
    <3>4. QED BY <2>1, <2>2, <3>3 DEF Stands
  <2>10. QED BY <2>8, <2>9 DEF Stands
<1>3. QED BY <1>1, <1>2

(* A settled publish's promises stand in the manifest it made or left.     *)
LEMMA NewPromises ==
  ASSUME TypeOK, NEW j \in Jobs, ~Working(j, "idle"), NEW held \in Manifest,
         NEW p \in Promises(j)
  PROVE  Stands(p, NextManifest(job[j].offer, held, job[j].deaf)[p.slot])
<1> DEFINE o == job[j].offer
<1>1. o \in Offers /\ job[j].deaf \in BOOLEAN BY Fields
<1>2. PICK s \in Slots : /\ o.entries[s] # None
                         /\ p = [slot |-> s, version |-> o.entries[s].version,
                                 commit |-> o.commit]
  BY DEF Promises
<1>3. QED BY <1>1, <1>2, PromisesStand DEF Stands

(* Where the history is linear, every step leaves the promises standing.   *)
LEMMA StandsStep ==
  ASSUME Linear, TypeOK, Shapes, PublishedStands, [Next]_vars
  PROVE  PublishedStands'
<1>1. ASSUME line'[Latest] = line[Latest], promised' \subseteq promised
      PROVE  PublishedStands'
  BY <1>1 DEF PublishedStands
<1>2. ASSUME NEW j \in Jobs, Load(j) PROVE PublishedStands'
  <2>1. ~Working(j, "idle") /\ line' = line BY <1>2 DEF Load, Working
  <2>2. CASE promised' = promised BY <1>1, <2>1, <2>2
  <2>3. CASE promised' # promised
    <3>1. /\ Plan(job[j].offer, line[Latest].entries, job[j].deaf) = {}
          /\ promised' = Promises(j)
      BY <1>2, <2>3 DEF Load, Promise
    <3>2. line[Latest].entries \in Manifest BY DEF TypeOK, Lines, LineState
    <3>3. NextManifest(job[j].offer, line[Latest].entries, job[j].deaf)
            = line[Latest].entries
      BY <3>1, <3>2 DEF NextManifest, Manifest
    <3>4. \A p \in Promises(j) : Stands(p, line[Latest].entries[p.slot])
      BY <2>1, <3>2, <3>3, NewPromises
    <3>5. QED BY <2>1, <3>1, <3>4 DEF PublishedStands
  <2>4. QED BY <2>2, <2>3
<1>3. ASSUME NEW j \in Jobs, Replace(j) PROVE PublishedStands'
  <2> DEFINE o == job[j].offer
             held == job[j].saw.entries
             deaf == job[j].deaf
  <2>1. /\ Working(j, "store") /\ ~Working(j, "idle") /\ Write(j)
        /\ line[job[j].line] = job[j].saw
    BY <1>3 DEF Replace, Working
  <2>2. /\ job[j].line \in Lines /\ o \in Offers /\ deaf \in BOOLEAN
        /\ held \in Manifest
    BY <2>1, Fields DEF LineState
  <2>3. CASE job[j].line # Latest
    <3>1. line'[Latest] = line[Latest] BY <2>1, <2>3, WriteLine DEF Lines
    <3>2. promised' \subseteq promised
      BY <1>3, <2>3 DEF Replace, Promise, Withdrawn
    <3>3. QED BY <1>1, <3>1, <3>2
  <2>4. CASE job[j].line = Latest
    <3>1. line'[Latest] = Held(NextManifest(o, held, deaf)) BY <2>1, <2>4, WriteLine
    <3>2. line'[Latest].entries = NextManifest(o, held, deaf) BY <3>1 DEF Held
    <3>3. promised' \subseteq (promised \ Withdrawn(j)) \cup Promises(j)
      BY <1>3 DEF Replace, Promise
    <3>4. ASSUME NEW p \in promised \ Withdrawn(j)
          PROVE  Stands(p, NextManifest(o, held, deaf)[p.slot])
      <4>1. kind = "mainline" /\ line[Latest].is = "held"
        BY <2>1, <2>4, <3>4 DEF Shapes
      <4>2. Stands(p, held[p.slot]) BY <2>1, <2>4, <4>1, <3>4 DEF PublishedStands
      <4>3. o.entries[p.slot] # None => ~Unanswered(held[p.slot], o.entries[p.slot], deaf)
        BY <2>4, <3>4 DEF Withdrawn
      <4>4. p \in [slot: Slots, version: Versions, commit: Commits]
        BY <3>4 DEF TypeOK
      <4>5. QED BY <2>2, <4>1, <4>2, <4>3, <4>4, WriteKeepsPromise
    <3>5. \A p \in Promises(j) : Stands(p, NextManifest(o, held, deaf)[p.slot])
      BY <2>1, <2>2, NewPromises
    <3>6. QED BY <3>2, <3>3, <3>4, <3>5 DEF PublishedStands
  <2>5. QED BY <2>3, <2>4
<1>4. CASE Upgrade
  <2>1. line'[Latest].is = "newer" BY <1>4 DEF Upgrade, Unread, TypeOK, Lines
  <2>2. QED BY <2>1 DEF PublishedStands
<1>5. ASSUME NEW c \in Commits, Drop(c) PROVE PublishedStands'
  <2>1. line'[Latest] = line[Latest]
    BY <1>5, NameAssumption DEF Drop, TypeOK, Lines
  <2>2. QED BY <1>1, <1>5, <2>1 DEF Drop
<1>6. ASSUME NEW j \in Jobs,
             (\E o \in Offers, deaf \in BOOLEAN : Begin(j, o, deaf))
               \/ Refuse(j) \/ Stop(j)
      PROVE  PublishedStands'
  BY <1>1, <1>6 DEF Begin, Refuse, Stop
<1>7. CASE (\E old \in SUBSET Commits : List(old)) \/ GiveUp \/ UNCHANGED vars
  BY <1>1, <1>7 DEF List, GiveUp, vars
<1>8. QED BY <1>2, <1>3, <1>4, <1>5, <1>6, <1>7 DEF Next

(* Where the history is one line of commits, what a mainline publish was   *)
(* told stands, until a publish says it could not tell what is newer.      *)
THEOREM PublishesStand ==
  ASSUME Linear
  PROVE  Spec => []PublishedStands
<1>1. Init => PublishedStands BY DEF Init, PublishedStands
<1>2. TypeOK /\ Shapes /\ PublishedStands /\ [Next]_vars => PublishedStands'
  BY StandsStep
<1>3. QED BY <1>1, <1>2, Reachable, PTL DEF Spec

-----------------------------------------------------------------------------
(* What a step may do to a line.                                           *)

(* A line that reads as a manifest before and after a step changes in one  *)
(* way: by the write of a publish that loaded it as it is.                 *)
LEMMA Rewriting ==
  ASSUME TypeOK, Shapes, [Next]_vars, NEW l \in Lines, Rewritten(l)
  PROVE  \E j \in Jobs :
           /\ Writer(j, l) /\ job[j].saw = line[l]
           /\ job[j].offer \in Offers /\ job[j].deaf \in BOOLEAN
           /\ line'[l].entries = NextManifest(job[j].offer, line[l].entries, job[j].deaf)
<1>1. ASSUME NEW j \in Jobs, Replace(j)
      PROVE  /\ Writer(j, l) /\ job[j].saw = line[l]
             /\ job[j].offer \in Offers /\ job[j].deaf \in BOOLEAN
             /\ line'[l].entries = NextManifest(job[j].offer, line[l].entries, job[j].deaf)
  <2>1. /\ Working(j, "store") /\ ~Working(j, "idle") /\ Write(j)
        /\ line[job[j].line] = job[j].saw
    BY <1>1 DEF Replace, Working
  <2>2. job[j].line = l BY <2>1, WriteLine DEF Rewritten
  <2>3. ~Working(j, "store")' BY <1>1, LeavesStore DEF Replace
  <2>4. Writer(j, l) BY <2>1, <2>2, <2>3 DEF Writer, Working
  <2>5. job[j].offer \in Offers /\ job[j].deaf \in BOOLEAN BY <2>1, Fields
  <2>6. line'[l] = Held(NextManifest(job[j].offer, job[j].saw.entries, job[j].deaf))
    BY <2>1, <2>2, WriteLine
  <2>7. QED BY <2>1, <2>2, <2>4, <2>5, <2>6 DEF Held
<1>2. ASSUME NEW j \in Jobs,
             (\E o \in Offers, deaf \in BOOLEAN : Begin(j, o, deaf))
               \/ Load(j) \/ Refuse(j) \/ Stop(j)
      PROVE  FALSE
  BY <1>2 DEF Begin, Load, Refuse, Stop, Rewritten
<1>3. CASE Upgrade
  BY <1>3 DEF Upgrade, Rewritten, Unread, TypeOK
<1>4. ASSUME NEW c \in Commits, Drop(c) PROVE FALSE
  BY <1>4 DEF Drop, Rewritten, Unread, TypeOK
<1>5. CASE (\E old \in SUBSET Commits : List(old)) \/ GiveUp \/ UNCHANGED vars
  BY <1>5 DEF List, GiveUp, vars, Rewritten
<1>6. QED BY <1>1, <1>2, <1>3, <1>4, <1>5 DEF Next

(* No publish undoes what another one put in a slot it does not offer.     *)
THEOREM PublishesSpareOthers == Spec => OthersSurvive
<1>1. ASSUME TypeOK, Shapes, [Next]_vars, NEW l \in Lines, Rewritten(l), NEW s \in Slots,
             line'[l].entries[s] # line[l].entries[s]
      PROVE  \E j \in Jobs : Writer(j, l) /\ line'[l].entries[s] = job[j].offer.entries[s]
  BY <1>1, Rewriting DEF NextManifest
<1>2. TypeOK /\ Shapes /\ [Next]_vars =>
        [\A l \in Lines : Rewritten(l) => \A s \in Slots :
           line'[l].entries[s] # line[l].entries[s] =>
             \E j \in Jobs : Writer(j, l) /\ line'[l].entries[s] = job[j].offer.entries[s]]_vars
  BY <1>1
<1>3. QED BY <1>2, Reachable, PTL DEF Spec, OthersSurvive

(* No entry goes, no format falls back, no mainline entry gives way to an  *)
(* older commit's while the history answers, and a newer format is left.   *)
THEOREM NothingIsTakenBack == Spec => NothingGoesBack
<1>1. ASSUME TypeOK, Shapes, [Next]_vars, NEW l \in Lines, line[l].is = "newer"
      PROVE  line'[l].is = "newer"
  <2>1. l = Latest BY <1>1 DEF Shapes, Lines
  <2>2. ASSUME NEW j \in Jobs, Replace(j) PROVE line'[l].is = "newer"
    <3>1. Working(j, "store") /\ Write(j) /\ line[job[j].line] = job[j].saw
      BY <2>2 DEF Replace
    <3>2. job[j].line # l BY <1>1, <3>1 DEF Shapes
    <3>3. QED BY <1>1, <3>1, <3>2, WriteLine
  <2>3. ASSUME NEW c \in Commits, Drop(c) PROVE line'[l].is = "newer"
    BY <1>1, <2>1, <2>3, NameAssumption DEF Drop, TypeOK
  <2>4. CASE Upgrade BY <1>1, <2>1, <2>4 DEF Upgrade
  <2>5. ASSUME UNCHANGED line PROVE line'[l].is = "newer" BY <1>1, <2>5
  <2>6. QED
    BY <1>1, <2>2, <2>3, <2>4, <2>5
    DEF Next, Begin, Load, Refuse, Stop, List, GiveUp, vars
<1>2. ASSUME TypeOK, Shapes, [Next]_vars, NEW l \in Lines, Rewritten(l), NEW s \in Slots,
             line[l].entries[s] # None
      PROVE  LET old == line[l].entries[s]
                 new == line'[l].entries[s] IN
             /\ new # None /\ new.version >= old.version
             /\ kind = "mainline" /\ <<new.commit, old.commit>> \in Older
                => \E j \in Jobs : Writer(j, l) /\ job[j].deaf
  <2>1. PICK j \in Jobs :
          /\ Writer(j, l) /\ job[j].offer \in Offers /\ job[j].deaf \in BOOLEAN
          /\ line'[l].entries = NextManifest(job[j].offer, line[l].entries, job[j].deaf)
    BY <1>2, Rewriting
  <2> DEFINE old == line[l].entries[s]
             new == job[j].offer.entries[s]
  <2>2. old \in Entry BY <1>2 DEF TypeOK, LineState, Manifest
  <2>3. old.version \in Nat /\ old.commit \in Commits
    BY <2>2, VersionAssumption DEF Entry
  <2>4. CASE s \notin Plan(job[j].offer, line[l].entries, job[j].deaf)
    <3>1. line'[l].entries[s] = old BY <2>1, <2>4 DEF NextManifest
    <3>2. QED BY <1>2, <2>3, <3>1, HistoryAssumption
  <2>5. CASE s \in Plan(job[j].offer, line[l].entries, job[j].deaf)
    <3>1. line'[l].entries[s] = new BY <2>1, <2>5 DEF NextManifest
    <3>2. new # None /\ ~Kept(old, new, job[j].deaf) BY <2>5 DEF Plan
    <3>3. new \in Entry BY <2>1, <3>2, OfferedEntry
    <3>4. new.version \in Nat BY <3>3, VersionAssumption DEF Entry
    <3>5. new.version >= old.version BY <1>2, <2>3, <3>2, <3>4 DEF Kept
    <3>6. kind = "mainline" /\ <<new.commit, old.commit>> \in Older => job[j].deaf
      BY <1>2, <3>2 DEF Kept
    <3>7. QED BY <2>1, <3>1, <3>2, <3>5, <3>6
  <2>6. QED BY <2>4, <2>5
<1>3. TypeOK /\ Shapes /\ [Next]_vars =>
        [\A l \in Lines :
           /\ line[l].is = "newer" => line'[l].is = "newer"
           /\ Rewritten(l) => \A s \in Slots : line[l].entries[s] # None =>
                LET old == line[l].entries[s]
                    new == line'[l].entries[s] IN
                /\ new # None /\ new.version >= old.version
                /\ kind = "mainline" /\ <<new.commit, old.commit>> \in Older
                   => \E j \in Jobs : Writer(j, l) /\ job[j].deaf]_vars
  BY <1>1, <1>2
<1>4. QED BY <1>3, Reachable, PTL DEF Spec, NothingGoesBack

=============================================================================
