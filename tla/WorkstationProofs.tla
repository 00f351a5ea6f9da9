--------------------------- MODULE WorkstationProofs ---------------------------
(***************************************************************************)
(* Proofs about Workstation's parts: of the pool, for every number of       *)
(* callers, viewports and slots and however many renders there are, that    *)
(* the slots taken are the renders that hold one, that no wake-up is lost,  *)
(* that no page has two painters and that a viewport's pages are bounded by *)
(* the slots alone; of the observatory, for every suite and however many    *)
(* tests are held, that a test standing still is listed where it stands,    *)
(* that a test that ended leaves nothing behind, and that a release is      *)
(* spent by the stop it was given for; and, with the proofs about the index *)
(* and the shelf, that side by side every part keeps what it promises alone.*)
(***************************************************************************)
EXTENDS Workstation, TLAPS, SequenceTheorems, FiniteSetTheorems
-----------------------------------------------------------------------------
(* The pool.                                                               *)

(* What each place of a render says of its other fields.                    *)
LEMMA Fields ==
  ASSUME TypeOK, NEW r \in Renders
  PROVE  /\ render[r].pc = "none" => render[r] = Nothing
         /\ render[r].pc \in {"none", "waiting", "woken", "opening", "painting"}
         /\ render[r].pc \in {"waiting", "woken"} => render[r] \in Awaiting
         /\ render[r].pc = "opening" => render[r] \in Openings
         /\ render[r].pc = "painting" => render[r] \in Paintings
BY DEF TypeOK, Nothing, Awaiting, Openings, Paintings

(* The line: whoever stands in it waits, and stands in it once.             *)
InLine ==
  /\ \A i \in 1..Len(waiting) : render[waiting[i]].pc = "waiting"
  /\ \A i, j \in 1..Len(waiting) : waiting[i] = waiting[j] => i = j

(* An open that left its context open is one that failed.                   *)
LeftByFailures == \A v \in Viewports : halfOpen[v] <= failures[v]

IInv == TypeOK /\ InLine /\ SlotsAreRenders /\ NoLostWakeup /\ LeftByFailures

States == {Nothing} \cup Awaiting \cup Openings \cup Paintings

(* A page opened or a list made leaves what callers are doing well typed.   *)
LEMMA StatesGrow ==
  ASSUME Len(lists) \in Nat, Len(pages) \in Nat, Len(lists)' \in Nat, Len(pages)' \in Nat,
         Len(lists) <= Len(lists)', Len(pages) <= Len(pages)'
  PROVE  States \subseteq States'
BY DEF States, Awaiting, Openings, Paintings

(* Waking the oldest waiter.                                                *)
LEMMA Woken ==
  ASSUME TypeOK, InLine, NEW S, NEW now \in [Renders -> S], WakeOne(now),
         Awaiting \subseteq S,
         \A i \in 1..Len(waiting) : now[waiting[i]] = render[waiting[i]]
  PROVE  /\ render' \in [Renders -> S]
         /\ waiting' \in Seq(Renders)
         /\ waiting = <<>> => render' = now /\ waiting' = waiting
         /\ waiting # <<>> =>
              /\ Head(waiting) \in Renders /\ Head(waiting) = waiting[1]
              /\ render[Head(waiting)].pc = "waiting"
              /\ waiting' = Tail(waiting)
              /\ render' = [now EXCEPT ![Head(waiting)].pc = "woken"]
              /\ render'[Head(waiting)].pc = "woken"
<1>1. CASE waiting = <<>> BY <1>1 DEF WakeOne, TypeOK
<1>2. CASE waiting # <<>>
  <2>1. /\ Head(waiting) \in Renders /\ Head(waiting) = waiting[1]
        /\ waiting' = Tail(waiting) /\ waiting' \in Seq(Renders)
        /\ 1 \in 1..Len(waiting)
    <3>1. waiting \in Seq(Renders) BY DEF TypeOK
    <3>2. waiting' = Tail(waiting) BY <1>2 DEF WakeOne
    <3>3. QED BY <1>2, <3>1, <3>2, HeadTailProperties, EmptySeq
  <2>2. render[waiting[1]].pc = "waiting" /\ now[waiting[1]] = render[waiting[1]]
    BY <2>1 DEF InLine
  <2>3. now[waiting[1]] \in Awaiting BY <2>1, <2>2, Fields
  <2>4. [now[waiting[1]] EXCEPT !.pc = "woken"] \in Awaiting BY <2>3 DEF Awaiting
  <2>5. render' = [now EXCEPT ![waiting[1]] = [@ EXCEPT !.pc = "woken"]]
    BY <1>2, <2>1 DEF WakeOne
  <2>6. render'[waiting[1]] = [now[waiting[1]] EXCEPT !.pc = "woken"] BY <2>1, <2>5
  <2>7. render'[waiting[1]].pc = "woken" BY <2>3, <2>6 DEF Awaiting
  <2>8. render' \in [Renders -> S] BY <2>1, <2>4, <2>5
  <2>9. QED BY <1>2, <2>1, <2>2, <2>5, <2>7, <2>8
<1>3. QED BY <1>1, <1>2

(* Taking a slot, with an idle page or one to open.                         *)
LEMMA TakeType ==
  ASSUME TypeOK, NEW r \in Renders, NEW v \in Viewports, Take(r, v)
  PROVE  /\ leased' = leased + 1 /\ idle' = idle /\ pages' = pages
         /\ Len(lists) \in Nat /\ Len(lists)' \in Nat /\ Len(lists) <= Len(lists)'
         /\ lists' \in Seq(Seq(1..Len(pages)))
         /\ render' \in [Renders -> States']
         /\ \A s \in Renders \ {r} : render'[s] = render[s]
         /\ render'[r].pc \in {"opening", "painting"}
<1> DEFINE own == idle[v] = NoList
           free == IF own THEN Len(lists) + 1 ELSE idle[v]
           found == IF own THEN <<>> ELSE lists[free]
           P == 1..Len(pages)
<1>1. lists \in Seq(Seq(P)) /\ Len(lists) \in Nat /\ Len(pages) \in Nat BY DEF TypeOK
<1>2. ~own => free \in 1..Len(lists) BY DEF TypeOK
<1>3. found \in Seq(P) BY <1>1, <1>2, EmptySeq, ElementOfSeq
<1>4. leased' = leased + 1 /\ idle' = idle /\ pages' = pages BY DEF Take
<1> HIDE DEF P
<1>5. CASE found = <<>>
  <2>1. lists' = (IF own THEN Append(lists, <<>>) ELSE lists)
        /\ render' = [render EXCEPT ![r] = Opening(v, free)]
    BY <1>5 DEF Take
  <2>2. CASE own
    <3>1. <<>> \in Seq(P) BY EmptySeq
    <3>2. lists' \in Seq(Seq(P)) /\ Len(lists') = Len(lists) + 1
      BY <1>1, <2>1, <2>2, <3>1, AppendProperties
    <3>3. Opening(v, free) \in Openings'
      BY <1>1, <2>2, <3>2 DEF Opening, Openings
    <3>4. States \subseteq States' BY <1>1, <1>4, <3>2, StatesGrow
    <3>5. render' \in [Renders -> States'] BY <2>1, <3>3, <3>4 DEF TypeOK, States
    <3>6. QED BY <1>1, <1>4, <2>1, <3>2, <3>5 DEF TypeOK, Opening, P
  <2>3. CASE ~own
    <3>1. lists' = lists BY <2>1, <2>3
    <3>2. Opening(v, free) \in Openings' BY <1>2, <2>3, <3>1 DEF Opening, Openings
    <3>3. States \subseteq States' BY <1>1, <1>4, <3>1, StatesGrow
    <3>4. render' \in [Renders -> States'] BY <2>1, <3>2, <3>3 DEF TypeOK, States
    <3>5. QED BY <1>1, <1>4, <2>1, <3>1, <3>4 DEF TypeOK, Opening, P
  <2>4. QED BY <2>2, <2>3
<1>6. CASE found # <<>>
  <2>1. ~own BY <1>6
  <2>2. lists' = [lists EXCEPT ![free] = SubSeq(found, 1, Len(found) - 1)]
        /\ render' = [render EXCEPT ![r] = Painting(v, found[Len(found)])]
    BY <1>6, <2>1 DEF Take
  <2>3. Len(found) \in Nat \ {0} /\ \A i \in 1..Len(found) : found[i] \in P
    BY <1>3, <1>6, EmptySeq, ElementOfSeq
  <2>4. SubSeq(found, 1, Len(found) - 1) \in Seq(P)
    BY <2>3, SubSeqProperties
  <2>5. lists' \in Seq(Seq(P)) /\ Len(lists') = Len(lists)
    BY <1>1, <1>2, <2>1, <2>2, <2>4, ExceptSeq
  <2>6. Painting(v, found[Len(found)]) \in Paintings'
    BY <1>4, <2>3 DEF Painting, Paintings, P
  <2>7. States \subseteq States' BY <1>1, <1>4, <2>5, StatesGrow
  <2>8. render' \in [Renders -> States'] BY <2>2, <2>6, <2>7 DEF TypeOK, States
  <2>9. \A s \in Renders \ {r} : render'[s] = render[s] BY <2>2 DEF TypeOK
  <2>10. render'[r] = Painting(v, found[Len(found)]) BY <2>2 DEF TypeOK
  <2>11. render'[r].pc \in {"opening", "painting"} BY <2>10 DEF Painting
  <2>12. QED BY <1>1, <1>4, <2>5, <2>8, <2>9, <2>11 DEF P
<1>7. QED BY <1>5, <1>6

(* Standing in line: an acquire that finds no slot, the first time or again. *)
LEMMA WaitType ==
  ASSUME TypeOK, InLine, NEW r \in Renders, NEW v \in Viewports,
         \A i \in 1..Len(waiting) : waiting[i] # r,
         render' = [render EXCEPT ![r] = At("waiting", v)],
         waiting' = Append(waiting, r), UNCHANGED <<leased, idle, lists, pages>>
  PROVE  /\ InLine' /\ waiting' \in Seq(Renders)
         /\ render' \in [Renders -> States']
<1>1. /\ waiting \in Seq(Renders) /\ waiting' \in Seq(Renders)
      /\ Len(waiting) \in Nat /\ Len(waiting') = Len(waiting) + 1
      /\ \A i \in 1..Len(waiting) : waiting'[i] = waiting[i] /\ waiting[i] \in Renders
      /\ waiting'[Len(waiting) + 1] = r
  <2>1. waiting \in Seq(Renders) BY DEF TypeOK
  <2>2. Len(waiting) \in Nat /\ \A i \in 1..Len(waiting) : waiting[i] \in Renders
    BY <2>1, ElementOfSeq
  <2>3. QED BY <2>1, <2>2, AppendProperties
<1>2. At("waiting", v) \in Awaiting BY DEF At, Awaiting
<1>3. render' \in [Renders -> States'] /\ render'[r].pc = "waiting"
  <2>1. States' = States BY DEF States, Awaiting, Openings, Paintings
  <2>2. render' \in [Renders -> States] BY <1>2 DEF TypeOK, States
  <2>3. render'[r] = At("waiting", v) BY DEF TypeOK
  <2>4. QED BY <2>1, <2>2, <2>3 DEF At
<1>4. ASSUME NEW i \in 1..Len(waiting') PROVE render'[waiting'[i]].pc = "waiting"
  <2>1. CASE i = Len(waiting) + 1 BY <1>1, <1>3, <2>1
  <2>2. CASE i \in 1..Len(waiting)
    <3>1. waiting'[i] = waiting[i] /\ waiting[i] # r /\ render[waiting[i]].pc = "waiting"
      BY <1>1, <2>2 DEF InLine
    <3>2. render'[waiting[i]] = render[waiting[i]] BY <1>1, <2>2, <3>1 DEF TypeOK
    <3>3. QED BY <3>1, <3>2
  <2>3. QED BY <1>1, <2>1, <2>2
<1>5. ASSUME NEW i \in 1..Len(waiting'), NEW j \in 1..Len(waiting'), waiting'[i] = waiting'[j]
      PROVE  i = j
  <2>1. \A k \in 1..Len(waiting) : waiting'[k] # r BY <1>1
  <2>2. CASE i \in 1..Len(waiting) /\ j \in 1..Len(waiting)
    <3>1. waiting[i] = waiting[j] BY <1>1, <1>5, <2>2
    <3>2. QED BY <2>2, <3>1 DEF InLine
  <2>3. CASE i = Len(waiting) + 1 /\ j \in 1..Len(waiting) BY <1>1, <1>5, <2>1, <2>3
  <2>4. CASE j = Len(waiting) + 1 /\ i \in 1..Len(waiting) BY <1>1, <1>5, <2>1, <2>4
  <2>5. QED BY <1>1, <2>2, <2>3, <2>4
<1>6. QED BY <1>1, <1>3, <1>4, <1>5 DEF InLine

(* Giving a slot back.                                                      *)
LEMMA GiveBack ==
  ASSUME TypeOK, InLine, NEW r \in Renders, render[r].pc \in {"opening", "painting"},
         WakeOne([render EXCEPT ![r] = Nothing]), UNCHANGED pages, Len(lists)' = Len(lists)
  PROVE  /\ InLine' /\ waiting' \in Seq(Renders) /\ render' \in [Renders -> States']
         /\ In("opening")' \cup In("painting")' = (In("opening") \cup In("painting")) \ {r}
         /\ r \in In("opening") \cup In("painting")
         /\ waiting = <<>> => waiting' = <<>>
         /\ waiting # <<>> =>
              \E s \in Renders \ In("woken") : In("woken")' = In("woken") \cup {s}
<1> DEFINE now == [render EXCEPT ![r] = Nothing]
<1>1. waiting \in Seq(Renders) /\ Len(waiting) \in Nat
      /\ \A i \in 1..Len(waiting) : waiting[i] \in Renders /\ waiting[i] # r
  <2>1. waiting \in Seq(Renders) BY DEF TypeOK
  <2>2. Len(waiting) \in Nat /\ \A i \in 1..Len(waiting) : waiting[i] \in Renders
    BY <2>1, ElementOfSeq
  <2>3. ASSUME NEW i \in 1..Len(waiting) PROVE waiting[i] # r
    <3>1. render[waiting[i]].pc = "waiting" BY DEF InLine
    <3>2. QED BY <3>1
  <2>4. QED BY <2>1, <2>2, <2>3
<1>2. States' = States BY DEF States, Awaiting, Openings, Paintings
<1>3. now \in [Renders -> States] /\ Awaiting \subseteq States
      /\ \A i \in 1..Len(waiting) : now[waiting[i]] = render[waiting[i]]
  BY <1>1 DEF TypeOK, States
<1>4. WakeOne(now) OBVIOUS
<1> HIDE DEF now
<1>5. /\ render' \in [Renders -> States]
      /\ waiting' \in Seq(Renders)
      /\ waiting = <<>> => render' = now /\ waiting' = waiting
      /\ waiting # <<>> =>
           /\ Head(waiting) \in Renders /\ Head(waiting) = waiting[1]
           /\ render[Head(waiting)].pc = "waiting"
           /\ waiting' = Tail(waiting)
           /\ render' = [now EXCEPT ![Head(waiting)].pc = "woken"]
           /\ render'[Head(waiting)].pc = "woken"
  BY <1>3, <1>4, Woken
<1>6. \A s \in Renders \ {r} : now[s] = render[s] BY DEF now, TypeOK
<1>7. now[r] = Nothing BY DEF now, TypeOK
<1>8. CASE waiting = <<>>
  <2>1. InLine' BY <1>5, <1>8 DEF InLine
  <2>2. In("opening")' \cup In("painting")' = (In("opening") \cup In("painting")) \ {r}
    BY <1>5, <1>6, <1>7, <1>8 DEF In, Nothing
  <2>3. QED BY <1>2, <1>5, <1>8, <2>1, <2>2 DEF In
<1>9. CASE waiting # <<>>
  <2> DEFINE h == Head(waiting)
  <2>1. h # r /\ h \in Renders /\ render[h].pc = "waiting" /\ render'[h].pc = "woken"
    BY <1>5, <1>9
  <2>2. \A s \in Renders \ {r, h} : render'[s] = render[s]
    BY <1>3, <1>5, <1>6, <1>9
  <2>3. render'[r].pc = "none" BY <1>3, <1>5, <1>7, <1>9, <2>1 DEF Nothing
  <2>4. In("opening")' \cup In("painting")' = (In("opening") \cup In("painting")) \ {r}
    BY <2>1, <2>2, <2>3 DEF In
  <2>5. In("woken")' = In("woken") \cup {h} /\ h \notin In("woken")
    BY <2>1, <2>2, <2>3 DEF In
  <2>6. /\ Len(waiting') = Len(waiting) - 1
        /\ \A i \in 1..Len(waiting') : waiting'[i] = waiting[i + 1]
    BY <1>1, <1>5, <1>9, HeadTailProperties
  <2>7. Len(waiting) \in Nat \ {0} BY <1>1, <1>9, EmptySeq
  <2>8. ASSUME NEW i \in 1..Len(waiting') PROVE render'[waiting'[i]].pc = "waiting"
    <3>1. i + 1 \in 1..Len(waiting) /\ 1 \in 1..Len(waiting) /\ i + 1 # 1
      BY <2>6, <2>7
    <3>2. waiting'[i] = waiting[i + 1] /\ waiting[i + 1] # h /\ waiting[i + 1] \in Renders \ {r}
      BY <1>1, <1>5, <1>9, <2>6, <3>1 DEF InLine
    <3>3. QED BY <2>2, <3>1, <3>2 DEF InLine
  <2>9. ASSUME NEW i \in 1..Len(waiting'), NEW j \in 1..Len(waiting'), waiting'[i] = waiting'[j]
        PROVE  i = j
    <3>1. i + 1 \in 1..Len(waiting) /\ j + 1 \in 1..Len(waiting) BY <2>6, <2>7
    <3>2. i + 1 = j + 1 BY <2>6, <2>9, <3>1 DEF InLine
    <3>3. QED BY <2>6, <2>7, <3>2
  <2>10. InLine' BY <2>8, <2>9 DEF InLine
  <2>11. QED BY <1>2, <1>5, <1>9, <2>1, <2>4, <2>5, <2>10 DEF In
<1>10. QED BY <1>8, <1>9

(* Sets of renders are finite, and a member more or less is counted.        *)
LEMMA Counted ==
  ASSUME IsFiniteSet(Renders), NEW S \in SUBSET Renders, NEW r \in Renders
  PROVE  /\ Cardinality(S) \in Nat
         /\ r \notin S => Cardinality(S \cup {r}) = Cardinality(S) + 1
         /\ r \in S => Cardinality(S \ {r}) = Cardinality(S) - 1
<1>1. IsFiniteSet(S) BY FS_Subset
<1>2. QED BY <1>1, FS_AddElement, FS_RemoveElement, FS_CardinalityType

Busy == In("opening") \cup In("painting")

(* The slots and the wake-ups, from what a step does to the counts.         *)
LEMMA SlotTaken ==
  ASSUME Parameters, IInv, NEW r \in Renders, NEW v \in Viewports, Take(r, v),
         leased < Limit, render[r].pc \in {"none", "woken"}, UNCHANGED waiting,
         render[r].pc = "none" => waiting = <<>> \/ leased + Cardinality(In("woken")) >= Limit
  PROVE  SlotsAreRenders' /\ NoLostWakeup' /\ InLine'
<1>1. /\ leased' = leased + 1 /\ render'[r].pc \in {"opening", "painting"}
      /\ \A s \in Renders \ {r} : render'[s] = render[s]
  BY TakeType DEF IInv
<1>2. Busy' = Busy \cup {r} /\ r \notin Busy BY <1>1 DEF Busy, In
<1>3. In("woken")' = In("woken") \ {r} BY <1>1 DEF In
<1>4. Busy \in SUBSET Renders /\ In("woken") \in SUBSET Renders BY DEF Busy, In
<1>5. Cardinality(Busy') = Cardinality(Busy) + 1 /\ Cardinality(Busy) \in Nat
  BY <1>2, <1>4, Counted DEF Parameters
<1>6. Cardinality(In("woken")) \in Nat
      /\ Cardinality(In("woken")') \in Nat
      /\ Cardinality(In("woken")') >= Cardinality(In("woken")) - 1
  <2>1. CASE r \in In("woken")
    <3>1. Cardinality(In("woken")) \in Nat
          /\ Cardinality(In("woken") \ {r}) = Cardinality(In("woken")) - 1
      BY <1>4, <2>1, Counted DEF Parameters
    <3>2. In("woken") \ {r} \in SUBSET Renders BY <1>4
    <3>3. Cardinality(In("woken") \ {r}) \in Nat BY <3>2, Counted DEF Parameters
    <3>4. Cardinality(In("woken")') = Cardinality(In("woken") \ {r}) BY <1>3
    <3>5. QED BY <3>1, <3>3, <3>4
  <2>2. CASE r \notin In("woken")
    <3>1. In("woken")' = In("woken") BY <1>3, <2>2
    <3>2. Cardinality(In("woken")) \in Nat BY <1>4, Counted DEF Parameters
    <3>3. QED BY <3>1, <3>2
  <2>3. QED BY <2>1, <2>2
<1>8. SlotsAreRenders'
  BY <1>1, <1>5 DEF IInv, SlotsAreRenders, Busy, Parameters, TypeOK
<1>9. NoLostWakeup'
  <2>1. leased \in Nat /\ Limit \in Nat BY DEF IInv, TypeOK, Parameters
  <2>2. SUFFICES ASSUME waiting # <<>> PROVE leased' + Cardinality(In("woken")') >= Limit
    BY DEF NoLostWakeup
  <2>3. leased + Cardinality(In("woken")) >= Limit BY <2>2 DEF IInv, NoLostWakeup
  <2>4. QED BY <1>1, <1>6, <2>1, <2>3
<1>10. InLine'
  <2>1. \A i \in 1..Len(waiting) : waiting[i] \in Renders /\ waiting[i] # r
    BY ElementOfSeq DEF IInv, InLine, TypeOK
  <2>2. QED BY <1>1, <2>1 DEF IInv, InLine
<1>11. QED BY <1>8, <1>9, <1>10

LEMMA SlotGivenBack ==
  ASSUME Parameters, IInv, NEW r \in Renders, render[r].pc \in {"opening", "painting"},
         WakeOne([render EXCEPT ![r] = Nothing]), leased' = leased - 1,
         UNCHANGED pages, Len(lists)' = Len(lists)
  PROVE  SlotsAreRenders' /\ NoLostWakeup' /\ InLine' /\ leased' \in Nat
<1>1. /\ InLine' /\ Busy' = Busy \ {r} /\ r \in Busy
      /\ waiting = <<>> => waiting' = <<>>
      /\ waiting # <<>> => \E s \in Renders \ In("woken") : In("woken")' = In("woken") \cup {s}
  BY GiveBack DEF IInv, Busy
<1>2. Busy \in SUBSET Renders /\ In("woken") \in SUBSET Renders BY DEF Busy, In
<1>3. Cardinality(Busy') = Cardinality(Busy) - 1 /\ Cardinality(Busy) \in Nat
      /\ Cardinality(Busy') \in Nat
  <2>1. Busy' \in SUBSET Renders BY <1>1, <1>2
  <2>2. QED BY <1>1, <1>2, <2>1, Counted DEF Parameters
<1>4. SlotsAreRenders' /\ leased' \in Nat
  BY <1>3 DEF IInv, SlotsAreRenders, Busy, Parameters, TypeOK
<1>5. NoLostWakeup'
  <2>1. SUFFICES ASSUME waiting # <<>> PROVE leased' + Cardinality(In("woken")') >= Limit
    BY <1>1 DEF NoLostWakeup
  <2>2. PICK s \in Renders \ In("woken") : In("woken")' = In("woken") \cup {s} BY <1>1, <2>1
  <2>3. Cardinality(In("woken")') = Cardinality(In("woken")) + 1
        /\ Cardinality(In("woken")) \in Nat
    BY <1>2, <2>2, Counted DEF Parameters
  <2>4. leased + Cardinality(In("woken")) >= Limit BY <2>1 DEF IInv, NoLostWakeup
  <2>5. QED BY <2>3, <2>4 DEF IInv, TypeOK, Parameters
<1>6. QED BY <1>1, <1>4, <1>5

LEMMA InitInv == ASSUME Parameters, Init PROVE IInv
<1>1. TypeOK /\ InLine
  <2>1. /\ waiting = <<>> /\ waiting \in Seq(Renders) /\ Len(waiting) = 0
        /\ pages \in Seq(Viewports) /\ lists \in Seq(Seq(1..Len(pages)))
    BY EmptySeq DEF Init
  <2>2. TypeOK BY <2>1 DEF Init, TypeOK, Parameters
  <2>3. QED BY <2>1, <2>2 DEF InLine
<1>2. In("opening") \cup In("painting") = {} BY DEF Init, In, Nothing
<1>3. SlotsAreRenders
  <2>1. Cardinality(In("opening") \cup In("painting")) = 0 BY <1>2, FS_EmptySet
  <2>2. QED BY <2>1 DEF SlotsAreRenders, Init, Parameters
<1>4. NoLostWakeup BY DEF NoLostWakeup, Init
<1>5. LeftByFailures BY DEF LeftByFailures, Init
<1>6. QED BY <1>1, <1>3, <1>4, <1>5 DEF IInv

(* A failed open is counted, whether it leaves its context open or not.     *)
LEMMA FailuresCounted ==
  ASSUME TypeOK, LeftByFailures, NEW v \in Viewports, LeftOpen(v)
  PROVE  /\ halfOpen' \in [Viewports -> Nat] /\ failures' \in [Viewports -> Nat]
         /\ LeftByFailures'
<1>1. halfOpen \in [Viewports -> Nat] /\ failures \in [Viewports -> Nat] BY DEF TypeOK
<1>2. failures' = [failures EXCEPT ![v] = @ + 1]
      /\ (halfOpen' = halfOpen \/ halfOpen' = [halfOpen EXCEPT ![v] = @ + 1])
  BY DEF LeftOpen
<1>3. halfOpen' \in [Viewports -> Nat] /\ failures' \in [Viewports -> Nat] BY <1>1, <1>2
<1>4. ASSUME NEW w \in Viewports PROVE halfOpen'[w] <= failures'[w]
  <2>1. halfOpen[w] \in Nat /\ failures[w] \in Nat /\ halfOpen[w] <= failures[w]
    BY <1>1 DEF LeftByFailures
  <2>2. CASE w = v
    <3>1. failures'[w] = failures[w] + 1 BY <1>1, <1>2, <2>2
    <3>2. halfOpen'[w] = halfOpen[w] \/ halfOpen'[w] = halfOpen[w] + 1 BY <1>1, <1>2, <2>2
    <3>3. QED BY <2>1, <3>1, <3>2
  <2>3. CASE w # v
    <3>1. failures'[w] = failures[w] /\ halfOpen'[w] = halfOpen[w] BY <1>1, <1>2, <2>3
    <3>2. QED BY <2>1, <3>1
  <2>4. QED BY <2>2, <2>3
<1>5. QED BY <1>3, <1>4 DEF LeftByFailures

(* The loop of acquire, by a caller that is in no line.                     *)
LEMMA TakeOrWaitInv ==
  ASSUME Parameters, IInv, NEW r \in Renders, NEW v \in Viewports, TakeOrWait(r, v),
         render[r].pc \in {"none", "woken"},
         waiting' = IF leased >= Limit THEN Append(waiting, r) ELSE waiting,
         begun' \in 0..MaxRenders, UNCHANGED opens
  PROVE  IInv'
<1>1. leased \in Nat /\ Limit \in Nat /\ pages \in Seq(Viewports)
  BY DEF IInv, TypeOK, Parameters
<1>2. halfOpen' = halfOpen /\ failures' = failures /\ LeftByFailures'
  BY DEF opens, IInv, LeftByFailures
<1>3. CASE leased < Limit /\ Take(r, v)
  <2>1. waiting' = waiting BY <1>1, <1>3
  <2>2. render[r].pc = "none" => waiting = <<>> \/ leased + Cardinality(In("woken")) >= Limit
    BY DEF IInv, NoLostWakeup
  <2>3. SlotsAreRenders' /\ NoLostWakeup' /\ InLine' BY <1>3, <2>1, <2>2, SlotTaken
  <2>4. /\ leased' = leased + 1 /\ idle' = idle /\ pages' = pages
        /\ Len(lists) \in Nat /\ Len(lists)' \in Nat /\ Len(lists) <= Len(lists)'
        /\ lists' \in Seq(Seq(1..Len(pages))) /\ render' \in [Renders -> States']
    BY <1>3, TakeType DEF IInv
  <2>5. idle' \in [Viewports -> {NoList} \cup 1..Len(lists')]
    BY <2>4 DEF IInv, TypeOK
  <2>6. TypeOK' BY <1>1, <1>2, <2>1, <2>4, <2>5 DEF IInv, TypeOK, States
  <2>7. QED BY <1>2, <2>3, <2>6 DEF IInv
<1>4. CASE /\ leased >= Limit
           /\ render' = [render EXCEPT ![r] = At("waiting", v)]
           /\ UNCHANGED <<leased, idle, lists, pages>>
  <2>1. waiting' = Append(waiting, r) BY <1>4
  <2>2. \A i \in 1..Len(waiting) : waiting[i] # r BY DEF IInv, InLine
  <2>3. InLine' /\ waiting' \in Seq(Renders) /\ render' \in [Renders -> States']
    BY <1>4, <2>1, <2>2, WaitType DEF IInv
  <2>4. TypeOK' BY <1>4, <1>2, <2>3 DEF IInv, TypeOK, States
  <2>5. render'[r].pc = "waiting" /\ \A s \in Renders \ {r} : render'[s] = render[s]
    BY <1>4 DEF IInv, TypeOK, At
  <2>6. Busy' = Busy BY <2>5 DEF Busy, In
  <2>7. SlotsAreRenders' BY <1>4, <2>6 DEF IInv, SlotsAreRenders, Busy
  <2>8. In("woken")' \in SUBSET Renders BY DEF In
  <2>9. Cardinality(In("woken")') \in Nat BY <2>8, Counted DEF Parameters
  <2>10. NoLostWakeup' BY <1>1, <1>4, <2>9 DEF NoLostWakeup
  <2>11. QED BY <1>2, <2>3, <2>4, <2>7, <2>10 DEF IInv
<1>5. QED BY <1>3, <1>4 DEF TakeOrWait

LEMMA NextInv == ASSUME Parameters, IInv, [Next]_vars PROVE IInv'
<1>1. ASSUME NEW r \in Renders, Acquire(r) PROVE IInv'
  <2>1. PICK v \in Viewports : TakeOrWait(r, v) BY <1>1 DEF Acquire
  <2>2. render[r].pc = "none" /\ begun' \in 0..MaxRenders
    BY <1>1 DEF Acquire, Nothing, IInv, TypeOK, Parameters
  <2>3. QED BY <1>1, <2>1, <2>2, TakeOrWaitInv DEF Acquire
<1>2. ASSUME NEW r \in Renders, Resume(r) PROVE IInv'
  <2>1. render[r].viewport \in Viewports BY <1>2, Fields DEF Resume, IInv, Awaiting
  <2>2. QED BY <1>2, <2>1, TakeOrWaitInv DEF Resume, IInv, TypeOK
<1>3. ASSUME NEW r \in Renders, Opened(r) PROVE IInv'
  <2> DEFINE v == render[r].viewport
  <2>1. v \in Viewports /\ render[r].free \in 1..Len(lists) /\ render[r].pc = "opening"
    BY <1>3, Fields DEF Opened, IInv, Openings
  <2>2. /\ pages' \in Seq(Viewports) /\ Len(pages') = Len(pages) + 1 /\ Len(pages) \in Nat
    BY <1>3, <2>1, AppendProperties DEF Opened, IInv, TypeOK
  <2>3. 1..Len(pages) \subseteq 1..Len(pages') BY <2>2
  <2>4. \A l \in Seq(1..Len(pages)) : l \in Seq(1..Len(pages')) BY <2>3, SeqMonotonic
  <2>5. lists' = lists /\ lists \in Seq(Seq(1..Len(pages'))) /\ Len(lists) \in Nat
    <3>1. Seq(1..Len(pages)) \subseteq Seq(1..Len(pages')) BY <2>4
    <3>2. lists \in Seq(Seq(1..Len(pages))) BY DEF IInv, TypeOK
    <3>3. QED BY <1>3, <3>1, <3>2, SeqMonotonic DEF Opened
  <2>6. States \subseteq States' BY <2>2, <2>5, StatesGrow
  <2>7. Painting(v, Len(pages) + 1) \in Paintings' BY <2>1, <2>2 DEF Painting, Paintings
  <2>8. render' = [render EXCEPT ![r] = Painting(v, Len(pages) + 1)] BY <1>3 DEF Opened
  <2>9. render' \in [Renders -> States'] BY <2>6, <2>7, <2>8 DEF IInv, TypeOK, States
  <2>10. idle' \in [Viewports -> {NoList} \cup 1..Len(lists')]
    BY <1>3, <2>1, <2>5 DEF Opened, IInv, TypeOK
  <2>11. TypeOK' /\ LeftByFailures'
    <3>1. halfOpen' = halfOpen /\ failures' = failures BY <1>3 DEF Opened, opens
    <3>2. TypeOK' BY <1>3, <2>2, <2>5, <2>9, <2>10, <3>1 DEF Opened, IInv, TypeOK, States
    <3>3. QED BY <3>1, <3>2 DEF IInv, LeftByFailures
  <2>12. render'[r].pc = "painting" /\ \A s \in Renders \ {r} : render'[s] = render[s]
    BY <2>8 DEF IInv, TypeOK, Painting
  <2>13. Busy' = Busy /\ In("woken")' = In("woken") BY <2>1, <2>12 DEF Busy, In
  <2>14. SlotsAreRenders' BY <1>3, <2>13 DEF Opened, IInv, SlotsAreRenders, Busy
  <2>15. NoLostWakeup' BY <1>3, <2>13 DEF Opened, IInv, NoLostWakeup
  <2>16. \A i \in 1..Len(waiting) : waiting[i] \in Renders \ {r}
    BY <2>1, ElementOfSeq DEF IInv, InLine, TypeOK
  <2>17. InLine' BY <1>3, <2>12, <2>16 DEF Opened, IInv, InLine
  <2>18. QED BY <2>11, <2>14, <2>15, <2>17 DEF IInv
<1>4. ASSUME NEW r \in Renders, render[r].pc \in {"opening", "painting"},
             WakeOne([render EXCEPT ![r] = Nothing]), leased' = leased - 1,
             UNCHANGED <<idle, pages, begun>>, LeftByFailures',
             halfOpen' \in [Viewports -> Nat], failures' \in [Viewports -> Nat],
             Len(lists)' = Len(lists), lists' \in Seq(Seq(1..Len(pages)))
      PROVE  IInv'
  <2>1. SlotsAreRenders' /\ NoLostWakeup' /\ InLine' /\ leased' \in Nat
    BY <1>4, SlotGivenBack
  <2>2. waiting' \in Seq(Renders) /\ render' \in [Renders -> States']
    BY <1>4, GiveBack DEF IInv
  <2>3. TypeOK' BY <1>4, <2>1, <2>2 DEF IInv, TypeOK, States
  <2>4. QED BY <1>4, <2>1, <2>3 DEF IInv
<1>5. ASSUME NEW r \in Renders, OpenFails(r) PROVE IInv'
  <2>1. render[r].viewport \in Viewports BY <1>5, Fields DEF OpenFails, IInv, Openings
  <2>2. /\ halfOpen' \in [Viewports -> Nat] /\ failures' \in [Viewports -> Nat]
        /\ LeftByFailures'
    BY <1>5, <2>1, FailuresCounted DEF OpenFails, IInv
  <2>3. QED BY <1>4, <1>5, <2>2 DEF OpenFails, IInv, TypeOK
<1>6. ASSUME NEW r \in Renders, Release(r) PROVE IInv'
  <2> DEFINE at == idle[render[r].viewport]
  <2>1. render[r].page \in 1..Len(pages) /\ render[r].viewport \in Viewports
    BY <1>6, Fields DEF Release, IInv, Paintings
  <2>2. lists \in Seq(Seq(1..Len(pages))) BY DEF IInv, TypeOK
  <2>3. Len(lists') = Len(lists) /\ lists' \in Seq(Seq(1..Len(pages)))
    <3>1. CASE at = NoList BY <1>6, <2>2, <3>1 DEF Release
    <3>2. CASE at # NoList
      <4>1. at \in 1..Len(lists) BY <2>1, <3>2 DEF IInv, TypeOK
      <4>2. lists[at] \in Seq(1..Len(pages)) BY <2>2, <4>1, ElementOfSeq
      <4>3. Append(lists[at], render[r].page) \in Seq(1..Len(pages))
        BY <2>1, <4>2, AppendProperties
      <4>4. lists' = [lists EXCEPT ![at] = Append(lists[at], render[r].page)]
        BY <1>6, <3>2 DEF Release
      <4>5. QED BY <2>2, <4>1, <4>3, <4>4, ExceptSeq
    <3>3. QED BY <3>1, <3>2
  <2>4. /\ halfOpen' \in [Viewports -> Nat] /\ failures' \in [Viewports -> Nat]
        /\ LeftByFailures'
    BY <1>6 DEF Release, opens, IInv, TypeOK, LeftByFailures
  <2>5. QED BY <1>4, <1>6, <2>3, <2>4 DEF Release
<1>7. CASE UNCHANGED vars
  BY <1>7 DEF vars, opens, LeftByFailures, IInv, TypeOK, InLine, SlotsAreRenders, NoLostWakeup, In, Awaiting, Openings,
              Paintings
<1>8. QED BY <1>1, <1>2, <1>3, <1>5, <1>6, <1>7 DEF Next

THEOREM Invariant == ASSUME Parameters PROVE Spec => []IInv
BY InitInv, NextInv, PTL DEF Spec

(* Whatever acquires, opens, fails and is released: the slots taken are the *)
(* renders that hold one, and at most Limit.                                *)
THEOREM SlotsCounted == ASSUME Parameters PROVE Spec => []SlotsAreRenders
<1>1. IInv => SlotsAreRenders BY DEF IInv
<1>2. QED BY <1>1, Invariant, PTL

(* Nobody waits while a slot is free and nobody woken is about to take it.  *)
THEOREM WakeupsKept == ASSUME Parameters PROVE Spec => []NoLostWakeup
<1>1. IInv => NoLostWakeup BY DEF IInv
<1>2. QED BY <1>1, Invariant, PTL
-----------------------------------------------------------------------------
(* Pages.                                                                   *)

(* The lists and what is in them are sequences of pages.                    *)
LEMMA ListTypes ==
  ASSUME TypeOK
  PROVE  /\ Len(lists) \in Nat /\ Len(pages) \in Nat
         /\ \A l \in 1..Len(lists) :
              /\ lists[l] \in Seq(1..Len(pages)) /\ Len(lists[l]) \in Nat
              /\ DOMAIN lists[l] = 1..Len(lists[l])
              /\ \A i \in DOMAIN lists[l] : lists[l][i] \in 1..Len(pages)
BY ElementOfSeq, LenProperties DEF TypeOK

(* Nobody's page changes and no list gains or moves one: nothing to show.   *)
LEMMA PagesStay ==
  ASSUME TypeOK, OnePainterPerPage, Len(lists)' \in Nat, Len(lists) <= Len(lists)',
         In("painting")' \subseteq In("painting"),
         \A r \in In("painting")' : render'[r] = render[r],
         \A l \in 1..Len(lists)' :
              DOMAIN lists'[l] # {} => l <= Len(lists) /\ lists'[l] = lists[l]
  PROVE  OnePainterPerPage'
<1>1. Len(lists) \in Nat BY ListTypes
<1>2. \A r, s \in In("painting")' : r # s => render'[r].page # render'[s].page
  BY DEF OnePainterPerPage
<1>3. Held' \subseteq Held BY DEF Held
<1>4. \A l \in 1..Len(lists)' : \A i : i \in DOMAIN lists'[l] =>
        l \in 1..Len(lists) /\ lists'[l] = lists[l]
  BY <1>1
<1>5. \A l \in 1..Len(lists)', page \in Held' : ~Listed(l, page)'
  BY <1>3, <1>4 DEF OnePainterPerPage, Listed
<1>6. \A l, m \in 1..Len(lists)' : \A i \in DOMAIN lists'[l], j \in DOMAIN lists'[m] :
        <<l, i>> # <<m, j>> => lists'[l][i] # lists'[m][j]
  BY <1>4 DEF OnePainterPerPage
<1>7. QED BY <1>2, <1>5, <1>6 DEF OnePainterPerPage

(* A page leaves the end of its list for the render that takes it.          *)
LEMMA PageTaken ==
  ASSUME TypeOK, OnePainterPerPage, NEW r \in Renders, NEW v, NEW l \in 1..Len(lists),
         render[r].pc # "painting", lists[l] # <<>>,
         render' = [render EXCEPT ![r] = Painting(v, lists[l][Len(lists[l])])],
         lists' = [lists EXCEPT ![l] = SubSeq(lists[l], 1, Len(lists[l]) - 1)]
  PROVE  OnePainterPerPage'
<1> DEFINE n == Len(lists[l])
           p == lists[l][n]
<1>1. /\ lists \in Seq(Seq(1..Len(pages))) /\ lists[l] \in Seq(1..Len(pages))
      /\ n \in Nat \ {0} /\ DOMAIN lists[l] = 1..n
      /\ \A i \in 1..n : lists[l][i] \in 1..Len(pages)
  BY ListTypes, EmptySeq DEF TypeOK
<1>2. SubSeq(lists[l], 1, n - 1) \in Seq(1..Len(pages))
      /\ Len(SubSeq(lists[l], 1, n - 1)) = n - 1
      /\ \A i \in 1..(n - 1) : SubSeq(lists[l], 1, n - 1)[i] = lists[l][i]
  BY <1>1, SubSeqProperties
<1>3. /\ Len(lists') = Len(lists)
      /\ \A m \in 1..Len(lists) : m # l => lists'[m] = lists[m]
      /\ lists'[l] = SubSeq(lists[l], 1, n - 1)
  BY <1>1, <1>2, ExceptSeq
<1>4. DOMAIN lists'[l] = 1..(n - 1) BY <1>2, <1>3, LenProperties
<1>5. \A m \in 1..Len(lists') : \A i : i \in DOMAIN lists'[m] =>
        i \in DOMAIN lists[m] /\ lists'[m][i] = lists[m][i] /\ (m = l => i # n)
  BY <1>1, <1>2, <1>3, <1>4
<1>6. /\ In("painting")' = In("painting") \cup {r} /\ render'[r].page = p
      /\ \A s \in In("painting") : s # r /\ render'[s] = render[s]
  BY DEF In, TypeOK, Painting
<1>7. \A s \in In("painting") : render[s].page # p
  <2>1. n \in DOMAIN lists[l] BY <1>1
  <2>2. Listed(l, p) BY <2>1 DEF Listed
  <2>3. p \notin Held BY <2>2 DEF OnePainterPerPage
  <2>4. QED BY <2>3 DEF Held
<1>8. \A s, t \in In("painting")' : s # t => render'[s].page # render'[t].page
  BY <1>6, <1>7 DEF OnePainterPerPage
<1>9. Held' \subseteq Held \cup {p} BY <1>6 DEF Held
<1>10. \A m \in 1..Len(lists') : \A i : i \in DOMAIN lists'[m] => lists'[m][i] # p
  BY <1>1, <1>3, <1>5 DEF OnePainterPerPage
<1>11. \A m \in 1..Len(lists)', page \in Held' : ~Listed(m, page)'
  BY <1>3, <1>5, <1>9, <1>10 DEF OnePainterPerPage, Listed
<1>12. \A k, m \in 1..Len(lists)' : \A i \in DOMAIN lists'[k], j \in DOMAIN lists'[m] :
         <<k, i>> # <<m, j>> => lists'[k][i] # lists'[m][j]
  BY <1>3, <1>5 DEF OnePainterPerPage
<1>13. QED BY <1>8, <1>11, <1>12 DEF OnePainterPerPage

(* A page nobody else has is put at the end of a list, or of none.          *)
LEMMA PagePutBack ==
  ASSUME TypeOK, OnePainterPerPage, NEW r \in In("painting"), NEW l \in 1..Len(lists),
         render[r].page \in 1..Len(pages),
         In("painting")' = In("painting") \ {r},
         \A s \in In("painting") \ {r} : render'[s] = render[s],
         lists' = [lists EXCEPT ![l] = Append(lists[l], render[r].page)]
  PROVE  OnePainterPerPage'
<1> DEFINE n == Len(lists[l])
           p == render[r].page
<1>1. /\ lists \in Seq(Seq(1..Len(pages))) /\ lists[l] \in Seq(1..Len(pages))
      /\ n \in Nat /\ DOMAIN lists[l] = 1..n
  BY ListTypes DEF TypeOK
<1>2. /\ Append(lists[l], p) \in Seq(1..Len(pages)) /\ Len(Append(lists[l], p)) = n + 1
      /\ \A i \in 1..n : Append(lists[l], p)[i] = lists[l][i]
      /\ Append(lists[l], p)[n + 1] = p
  BY <1>1, AppendProperties
<1>3. /\ Len(lists') = Len(lists)
      /\ \A m \in 1..Len(lists) : m # l => lists'[m] = lists[m]
      /\ lists'[l] = Append(lists[l], p)
  BY <1>1, <1>2, ExceptSeq
<1>4. DOMAIN lists'[l] = 1..(n + 1) BY <1>2, <1>3, LenProperties
<1>5. \A m \in 1..Len(lists') : \A i : i \in DOMAIN lists'[m] =>
        \/ m = l /\ i = n + 1 /\ lists'[m][i] = p
        \/ i \in DOMAIN lists[m] /\ lists'[m][i] = lists[m][i]
  BY <1>1, <1>2, <1>3, <1>4
<1>6. p \in Held BY DEF Held
<1>7. \A m \in 1..Len(lists) : \A i \in DOMAIN lists[m] : lists[m][i] # p
  BY <1>6 DEF OnePainterPerPage, Listed
<1>8. Held' \subseteq Held \ {p} BY DEF Held, OnePainterPerPage
<1>9. \A s, t \in In("painting")' : s # t => render'[s].page # render'[t].page
  BY DEF OnePainterPerPage
<1>10. \A m \in 1..Len(lists)', page \in Held' : ~Listed(m, page)'
  BY <1>3, <1>5, <1>8 DEF OnePainterPerPage, Listed
<1>11. \A k, m \in 1..Len(lists)' : \A i \in DOMAIN lists'[k], j \in DOMAIN lists'[m] :
         <<k, i>> # <<m, j>> => lists'[k][i] # lists'[m][j]
  BY <1>3, <1>5, <1>7 DEF OnePainterPerPage
<1>12. QED BY <1>9, <1>10, <1>11 DEF OnePainterPerPage

(* A new page is nobody's yet.                                              *)
LEMMA PageOpened ==
  ASSUME TypeOK, OnePainterPerPage, NEW r \in Renders, NEW v, render[r].pc # "painting",
         render' = [render EXCEPT ![r] = Painting(v, Len(pages) + 1)], UNCHANGED lists
  PROVE  OnePainterPerPage'
<1> DEFINE p == Len(pages) + 1
<1>1. /\ Len(pages) \in Nat
      /\ \A l \in 1..Len(lists) : \A i \in DOMAIN lists[l] : lists[l][i] # p
  BY ListTypes
<1>2. \A s \in In("painting") : render[s].page # p BY <1>1, Fields DEF In, Paintings
<1>3. /\ In("painting")' = In("painting") \cup {r} /\ render'[r].page = p
      /\ \A s \in In("painting") : s # r /\ render'[s] = render[s]
  BY DEF In, TypeOK, Painting
<1>4. Held' \subseteq Held \cup {p} BY <1>3 DEF Held
<1> HIDE DEF p
<1>5. \A s, t \in In("painting")' : s # t => render'[s].page # render'[t].page
  BY <1>2, <1>3 DEF OnePainterPerPage
<1>6. \A m \in 1..Len(lists), page \in Held' : ~Listed(m, page)
  BY <1>1, <1>4 DEF OnePainterPerPage, Listed
<1>7. QED BY <1>5, <1>6 DEF OnePainterPerPage, Listed

LEMMA WakingPaintsNothing ==
  ASSUME TypeOK, InLine, NEW r \in Renders, render[r].pc \in {"opening", "painting"},
         WakeOne([render EXCEPT ![r] = Nothing]), UNCHANGED pages, Len(lists)' = Len(lists)
  PROVE  /\ In("painting")' = In("painting") \ {r}
         /\ \A s \in In("painting") \ {r} : render'[s] = render[s]
<1> DEFINE now == [render EXCEPT ![r] = Nothing]
<1>1. \A i \in 1..Len(waiting) : waiting[i] \in Renders /\ waiting[i] # r
  BY ElementOfSeq DEF TypeOK, InLine
<1>2. now \in [Renders -> States] /\ Awaiting \subseteq States
      /\ \A i \in 1..Len(waiting) : now[waiting[i]] = render[waiting[i]]
  BY <1>1 DEF TypeOK, States
<1>3. WakeOne(now) OBVIOUS
<1>4. \A s \in Renders \ {r} : now[s] = render[s] BY DEF TypeOK
<1>5. now[r] = Nothing BY DEF TypeOK
<1> HIDE DEF now
<1>6. /\ waiting = <<>> => render' = now
      /\ waiting # <<>> =>
           /\ Head(waiting) \in Renders /\ Head(waiting) = waiting[1]
           /\ render[Head(waiting)].pc = "waiting"
           /\ render' = [now EXCEPT ![Head(waiting)].pc = "woken"]
           /\ render'[Head(waiting)].pc = "woken"
  BY <1>2, <1>3, Woken
<1>7. CASE waiting = <<>> BY <1>4, <1>5, <1>6, <1>7 DEF In, Nothing
<1>8. CASE waiting # <<>>
  <2> DEFINE h == Head(waiting)
  <2>1. h # r /\ h \in Renders /\ render[h].pc = "waiting" /\ render'[h].pc = "woken"
    BY <1>6, <1>8
  <2>2. \A s \in Renders \ {r, h} : render'[s] = render[s] BY <1>2, <1>4, <1>6, <1>8
  <2>3. render'[r].pc = "none" BY <1>2, <1>5, <1>6, <1>8, <2>1 DEF Nothing
  <2>4. QED BY <2>1, <2>2, <2>3 DEF In
<1>9. QED BY <1>7, <1>8

LEMMA PaintersNext ==
  ASSUME Parameters, IInv, OnePainterPerPage, [Next]_vars
  PROVE  OnePainterPerPage'
<1> USE DEF IInv
<1>0. Len(lists) \in Nat /\ lists \in Seq(Seq(1..Len(pages))) BY ListTypes DEF TypeOK
<1>1. ASSUME NEW r \in Renders, NEW v \in Viewports, render[r].pc \in {"none", "woken"},
             TakeOrWait(r, v)
      PROVE  OnePainterPerPage'
  <2> DEFINE own == idle[v] = NoList
             free == IF own THEN Len(lists) + 1 ELSE idle[v]
             found == IF own THEN <<>> ELSE lists[free]
  <2>1. CASE render' = [render EXCEPT ![r] = At("waiting", v)] /\ UNCHANGED lists
    <3>1. In("painting")' = In("painting") /\ \A s \in In("painting") : render'[s] = render[s]
      BY <1>1, <2>1 DEF In, TypeOK, At
    <3>2. QED BY <1>0, <2>1, <3>1, PagesStay
  <2>2. CASE Take(r, v) /\ found = <<>>
    <3>1. /\ render' = [render EXCEPT ![r] = Opening(v, free)]
          /\ lists' = IF own THEN Append(lists, <<>>) ELSE lists
      BY <2>2 DEF Take
    <3>2. In("painting")' = In("painting") /\ \A s \in In("painting") : render'[s] = render[s]
      BY <1>1, <3>1 DEF In, TypeOK, Opening
    <3>3. CASE lists' = lists BY <1>0, <3>2, <3>3, PagesStay
    <3>4. CASE lists' = Append(lists, <<>>)
      <4>1. <<>> \in Seq(1..Len(pages)) BY EmptySeq
      <4>2. /\ Len(lists') = Len(lists) + 1 /\ lists'[Len(lists) + 1] = <<>>
            /\ \A l \in 1..Len(lists) : lists'[l] = lists[l]
        BY <1>0, <3>4, <4>1, AppendProperties
      <4>3. DOMAIN lists'[Len(lists) + 1] = {} BY <4>1, <4>2
      <4>4. QED BY <1>0, <3>2, <4>2, <4>3, PagesStay
    <3>5. QED BY <3>1, <3>3, <3>4
  <2>3. CASE Take(r, v) /\ found # <<>>
    <3>1. ~own /\ free \in 1..Len(lists) BY <2>3 DEF TypeOK
    <3>2. /\ render' = [render EXCEPT ![r] = Painting(v, lists[free][Len(lists[free])])]
          /\ lists' = [lists EXCEPT ![free] = SubSeq(lists[free], 1, Len(lists[free]) - 1)]
          /\ lists[free] # <<>>
      BY <2>3, <3>1 DEF Take
    <3>3. render[r].pc # "painting" BY <1>1
    <3> HIDE DEF free
    <3>4. QED BY <3>1, <3>2, <3>3, PageTaken
  <2>4. QED BY <1>1, <2>1, <2>2, <2>3 DEF TakeOrWait
<1>2. ASSUME NEW r \in Renders, Acquire(r) PROVE OnePainterPerPage'
  BY <1>1, <1>2 DEF Acquire, Nothing
<1>3. ASSUME NEW r \in Renders, Resume(r) PROVE OnePainterPerPage'
  <2>1. render[r].viewport \in Viewports BY <1>3, Fields DEF Resume, Awaiting
  <2>2. QED BY <1>1, <1>3, <2>1 DEF Resume
<1>4. ASSUME NEW r \in Renders, Opened(r) PROVE OnePainterPerPage'
  BY <1>4, PageOpened DEF Opened
<1>5. ASSUME NEW r \in Renders, OpenFails(r) PROVE OnePainterPerPage'
  <2>1. In("painting")' = In("painting") \ {r}
        /\ \A s \in In("painting") \ {r} : render'[s] = render[s]
    BY <1>5, WakingPaintsNothing DEF OpenFails
  <2>2. QED BY <1>0, <1>5, <2>1, PagesStay DEF OpenFails
<1>6. ASSUME NEW r \in Renders, Release(r) PROVE OnePainterPerPage'
  <2> DEFINE at == idle[render[r].viewport]
  <2>1. render[r].page \in 1..Len(pages) /\ render[r].viewport \in Viewports
        /\ r \in In("painting")
    BY <1>6, Fields DEF Release, Paintings, In
  <2>2. lists' = IF at = NoList THEN lists
                 ELSE [lists EXCEPT ![at] = Append(lists[at], render[r].page)]
    BY <1>6 DEF Release
  <2>3. Len(lists') = Len(lists)
    <3>1. at # NoList => at \in 1..Len(lists) BY <2>1 DEF TypeOK
    <3>2. \A l \in 1..Len(lists) : Append(lists[l], render[r].page) \in Seq(1..Len(pages))
      BY <2>1, AppendProperties, ListTypes
    <3>3. QED BY <1>0, <2>2, <3>1, <3>2, ExceptSeq
  <2>4. In("painting")' = In("painting") \ {r}
        /\ \A s \in In("painting") \ {r} : render'[s] = render[s]
    BY <1>6, <2>3, WakingPaintsNothing DEF Release
  <2>5. CASE at = NoList BY <1>0, <2>2, <2>4, <2>5, PagesStay
  <2>6. CASE at # NoList
    <3>1. at \in 1..Len(lists) BY <2>1, <2>6 DEF TypeOK
    <3>2. lists' = [lists EXCEPT ![at] = Append(lists[at], render[r].page)] BY <2>2, <2>6
    <3> HIDE DEF at
    <3>3. QED BY <2>1, <2>4, <3>1, <3>2, PagePutBack
  <2>7. QED BY <2>5, <2>6
<1>7. CASE UNCHANGED vars
  BY <1>7 DEF vars, OnePainterPerPage, In, Held, Listed
<1>8. QED BY <1>2, <1>3, <1>4, <1>5, <1>6, <1>7 DEF Next

(* No page has two painters, and none that is painted into is idle.         *)
THEOREM PagesApart == ASSUME Parameters PROVE Spec => []OnePainterPerPage
<1>1. Init => OnePainterPerPage
  BY EmptySeq DEF Init, OnePainterPerPage, In, Held, Listed, Nothing
<1>2. QED BY <1>1, Invariant, PaintersNext, PTL DEF Spec
-----------------------------------------------------------------------------
(* How many pages.  An acquire that finds its viewport without an idle page *)
(* opens one, and the last to be open puts its list in the map: the pages   *)
(* in the list it replaces are lost, unless an acquire still opens a page   *)
(* for that list too.  What bounds them is that each list the viewport's    *)
(* pages can still come back from needs a slot of its own: with s slots to  *)
(* spare a list holds 1 + 2 + ... + s pages at most, a list that is lost    *)
(* leaves a slot more to the others, and a page is opened only when none is *)
(* idle.                                                                    *)

(* Who opens a page of a viewport, and for which list; who paints into one; *)
(* the lists its pages can still come back from; and the pages that are in  *)
(* none of these, lost with their list.                                     *)
Opens(v) == {r \in In("opening") : render[r].viewport = v}
OpensInto(v, l) == {r \in Opens(v) : render[r].free = l}
Paints(v) == {r \in In("painting") : render[r].viewport = v}
Mine(v) == {render[r].free : r \in Opens(v)} \cup ({idle[v]} \ {NoList})
PagesOf(v) == {p \in DOMAIN pages : pages[p] = v}
InList(l) == {lists[l][i] : i \in DOMAIN lists[l]}
Painted(v) == {render[r].page : r \in Paints(v)}
Gone(v) == PagesOf(v) \ (Painted(v) \cup UNION {InList(l) : l \in Mine(v)})

(* The slots that are neither of an acquire that opens a page for list l    *)
(* nor needed by one for each of the viewport's other lists.                *)
Spare(v, l) == Limit + 1 - Cardinality(Mine(v)) - Cardinality(OpensInto(v, l))

(* Lists a viewport's pages are in.                                         *)
Pile(v, l) == Len(lists[l]) + IF l = idle[v] THEN Cardinality(Paints(v)) ELSE 0

(* No list is of two viewports.                                             *)
Apart == \A v, w \in Viewports : v # w => Mine(v) \cap Mine(w) = {}

(* Before the first page is open.                                           *)
Unset(v) ==
  PagesOf(v) = {} /\ Paints(v) = {} /\ \A l \in Mine(v) : lists[l] = <<>>

(* A list holds no more than 1 + 2 + ... pages, up to its spare slots, ...  *)
PilesFit(v) == \A l \in Mine(v) : 2 * Pile(v, l) <= Spare(v, l) * (Spare(v, l) + 1)

(* ... so that those lost are no more than those sums for each list lost.   *)
LostFit(v) ==
  LET n == Limit - Cardinality(Mine(v)) IN
  6 * Cardinality(Gone(v)) <= n * (n + 1) * (n + 2)

(* A page is opened only when no page is idle.                              *)
TotalFits(v) ==
  6 * (Cardinality(PagesOf(v)) + Cardinality(Opens(v)) - Limit)
    <= (Limit - 1) * Limit * (Limit + 1)

Bounded(v) ==
  /\ idle[v] = NoList => Unset(v)
  /\ idle[v] # NoList => PilesFit(v) /\ LostFit(v)
  /\ TotalFits(v)

(* What comes from the members of a set is no more than they are.           *)
LEMMA ImageOf ==
  ASSUME NEW S, IsFiniteSet(S), NEW f, NEW T, \A t \in T : \E x \in S : t = f[x]
  PROVE  IsFiniteSet(T) /\ Cardinality(T) <= Cardinality(S) /\ Cardinality(T) \in Nat
<1> DEFINE from == {x \in S : f[x] \in T}
           g == [x \in from |-> f[x]]
<1>1. g \in Surjection(from, T) BY DEF Surjection
<1>2. from \in SUBSET S OBVIOUS
<1> HIDE DEF from
<1>3. IsFiniteSet(from) /\ Cardinality(from) <= Cardinality(S) BY <1>2, FS_Subset
<1>4. IsFiniteSet(T) /\ Cardinality(T) <= Cardinality(from) BY <1>1, <1>3, FS_Surjection
<1>5. Cardinality(S) \in Nat /\ Cardinality(from) \in Nat /\ Cardinality(T) \in Nat
  BY <1>3, <1>4, FS_CardinalityType
<1>6. QED BY <1>3, <1>4, <1>5

LEMMA FreesOf ==
  ASSUME NEW S, IsFiniteSet(S)
  PROVE  /\ IsFiniteSet({render[r].free : r \in S})
         /\ Cardinality({render[r].free : r \in S}) <= Cardinality(S)
         /\ Cardinality({render[r].free : r \in S}) \in Nat
<1> DEFINE f == [r \in S |-> render[r].free]
           T == {render[r].free : r \in S}
<1>1. \A t \in T : \E r \in S : t = f[r] OBVIOUS
<1> HIDE DEF f, T
<1>2. IsFiniteSet(T) /\ Cardinality(T) <= Cardinality(S) /\ Cardinality(T) \in Nat
  BY <1>1, ImageOf
<1>3. QED BY <1>2 DEF T

LEMMA PagesPainted ==
  ASSUME NEW S, IsFiniteSet(S)
  PROVE  /\ IsFiniteSet({render[r].page : r \in S})
         /\ Cardinality({render[r].page : r \in S}) <= Cardinality(S)
<1> DEFINE f == [r \in S |-> render[r].page]
           T == {render[r].page : r \in S}
<1>1. \A t \in T : \E r \in S : t = f[r] OBVIOUS
<1> HIDE DEF f, T
<1>2. IsFiniteSet(T) /\ Cardinality(T) <= Cardinality(S) BY <1>1, ImageOf
<1>3. QED BY <1>2 DEF T

(* One member more at most.                                                 *)
LEMMA OneMore ==
  ASSUME NEW S, IsFiniteSet(S), NEW x
  PROVE  /\ IsFiniteSet(S \cup {x}) /\ Cardinality(S \cup {x}) <= Cardinality(S) + 1
         /\ Cardinality(S \cup {x}) \in Nat
<1>1. /\ IsFiniteSet(S \cup {x})
      /\ Cardinality(S \cup {x}) = IF x \in S THEN Cardinality(S) ELSE Cardinality(S) + 1
  BY FS_AddElement
<1>2. Cardinality(S) \in Nat BY FS_CardinalityType
<1>3. QED BY <1>1, <1>2

(* All of these sets are finite.                                            *)
LEMMA Finite ==
  ASSUME Parameters, TypeOK, NEW v \in Viewports
  PROVE  /\ Opens(v) \in SUBSET Renders /\ Paints(v) \in SUBSET Renders
         /\ IsFiniteSet(Opens(v)) /\ IsFiniteSet(Paints(v)) /\ IsFiniteSet(Mine(v))
         /\ IsFiniteSet(PagesOf(v)) /\ IsFiniteSet(Gone(v)) /\ IsFiniteSet(Painted(v))
         /\ Cardinality(Opens(v)) \in Nat /\ Cardinality(Paints(v)) \in Nat
         /\ Cardinality(Mine(v)) \in Nat /\ Cardinality(PagesOf(v)) \in Nat
         /\ Cardinality(Gone(v)) \in Nat
         /\ Cardinality(Painted(v)) <= Cardinality(Paints(v))
         /\ \A l : /\ IsFiniteSet(OpensInto(v, l)) /\ Cardinality(OpensInto(v, l)) \in Nat
                   /\ Spare(v, l) \in Int
         /\ Mine(v) \subseteq 1..Len(lists)
<1>1. Opens(v) \in SUBSET Renders /\ Paints(v) \in SUBSET Renders BY DEF Opens, Paints, In
<1>2. IsFiniteSet(Opens(v)) /\ IsFiniteSet(Paints(v)) BY <1>1, FS_Subset DEF Parameters
<1>3. IsFiniteSet({render[r].free : r \in Opens(v)}) BY <1>2, FreesOf
<1>4. IsFiniteSet({idle[v]} \ {NoList}) BY FS_Singleton, FS_Subset
<1>5. IsFiniteSet(Mine(v)) BY <1>3, <1>4, FS_Union DEF Mine
<1>6. IsFiniteSet(Painted(v)) /\ Cardinality(Painted(v)) <= Cardinality(Paints(v))
  BY <1>2, PagesPainted DEF Painted
<1>7. IsFiniteSet(PagesOf(v))
  <2>1. DOMAIN pages = 1..Len(pages) /\ Len(pages) \in Nat BY LenProperties DEF TypeOK
  <2>2. IsFiniteSet(DOMAIN pages) BY <2>1, FS_Interval
  <2>3. QED BY <2>2, FS_Subset DEF PagesOf
<1>8. IsFiniteSet(Gone(v)) BY <1>7, FS_Subset DEF Gone
<1>9. ASSUME NEW l PROVE IsFiniteSet(OpensInto(v, l))
  BY <1>2, FS_Subset DEF OpensInto
<1>10. Mine(v) \subseteq 1..Len(lists)
  <2>1. \A r \in Opens(v) : render[r].free \in 1..Len(lists)
    BY Fields DEF Opens, In, Openings
  <2>2. idle[v] = NoList \/ idle[v] \in 1..Len(lists) BY DEF TypeOK
  <2>3. QED BY <2>1, <2>2 DEF Mine
<1>11. \A l : Cardinality(OpensInto(v, l)) \in Nat BY <1>9, FS_CardinalityType
<1>12. Cardinality(Mine(v)) \in Nat BY <1>5, FS_CardinalityType
<1>13. \A l : Spare(v, l) \in Int BY <1>11, <1>12 DEF Spare, Parameters
<1>14. QED BY <1>1, <1>2, <1>5, <1>6, <1>7, <1>8, <1>9, <1>10, <1>11, <1>12, <1>13,
             FS_CardinalityType

(* Opening or painting, a caller of the viewport has one of the slots.      *)
LEMMA OfTheSlots ==
  ASSUME Parameters, TypeOK, SlotsAreRenders, NEW v \in Viewports
  PROVE  Cardinality(Opens(v)) + Cardinality(Paints(v)) <= Limit
<1>1. IsFiniteSet(Opens(v)) /\ IsFiniteSet(Paints(v)) BY Finite
<1>2. Opens(v) \cap Paints(v) = {} BY DEF Opens, Paints, In
<1>3. Cardinality(Opens(v) \cup Paints(v))
        = Cardinality(Opens(v)) + Cardinality(Paints(v)) - 0
  BY <1>1, <1>2, FS_Union, FS_EmptySet
<1>4. Busy \in SUBSET Renders BY DEF Busy, In
<1>5. IsFiniteSet(Busy) BY <1>4, FS_Subset DEF Parameters
<1>6. Opens(v) \cup Paints(v) \in SUBSET Busy BY DEF Opens, Paints, Busy
<1>7. Cardinality(Opens(v) \cup Paints(v)) <= Cardinality(Busy) BY <1>5, <1>6, FS_Subset
<1>8. Cardinality(Busy) \in Nat BY <1>5, FS_CardinalityType
<1>9. Cardinality(Busy) <= Limit BY DEF SlotsAreRenders, Busy
<1>10. QED BY <1>1, <1>3, <1>7, <1>8, <1>9, Finite DEF Parameters

(* Each of the viewport's lists but the one its map entry names has an      *)
(* acquire that opens a page for it.                                        *)
LEMMA Spread ==
  ASSUME Parameters, TypeOK, SlotsAreRenders, NEW v \in Viewports, NEW l \in Mine(v)
  PROVE  /\ l = idle[v] => Cardinality(Paints(v)) <= Spare(v, l)
         /\ -1 <= Spare(v, l)
         /\ -1 <= Limit - Cardinality(Mine(v))
<1> DEFINE rest == Opens(v) \ OpensInto(v, l)
           frees == {render[r].free : r \in rest}
<1>1. /\ IsFiniteSet(Opens(v)) /\ IsFiniteSet(OpensInto(v, l)) /\ IsFiniteSet(Mine(v))
      /\ Cardinality(Opens(v)) \in Nat /\ Cardinality(OpensInto(v, l)) \in Nat
      /\ Cardinality(Mine(v)) \in Nat /\ Cardinality(Paints(v)) \in Nat
      /\ Cardinality(Opens(v)) + Cardinality(Paints(v)) <= Limit
      /\ Limit \in Nat
  BY Finite, OfTheSlots DEF Parameters
<1>2. /\ IsFiniteSet(rest)
      /\ Cardinality(rest) = Cardinality(Opens(v)) - Cardinality(OpensInto(v, l))
  <2>1. OpensInto(v, l) = Opens(v) \cap OpensInto(v, l) BY DEF OpensInto
  <2>2. QED BY <1>1, <2>1, FS_Difference
<1>3. /\ IsFiniteSet(frees) /\ Cardinality(frees) <= Cardinality(rest)
      /\ Cardinality(frees) \in Nat /\ Cardinality(rest) \in Nat
  BY <1>2, FreesOf, FS_CardinalityType
<1>4. Mine(v) \ {l} \subseteq frees \cup {idle[v]} BY DEF Mine, OpensInto
<1>5. Cardinality(Mine(v) \ {l}) = Cardinality(Mine(v)) - 1 BY <1>1, FS_RemoveElement
<1>6. l = idle[v] => Mine(v) \ {l} \subseteq frees BY <1>4
<1>7. l = idle[v] => Cardinality(Mine(v)) - 1 <= Cardinality(frees)
  BY <1>3, <1>5, <1>6, FS_Subset
<1>8. /\ Cardinality(Mine(v)) - 1 <= Cardinality(frees) + 1
  <2> HIDE DEF frees
  <2>1. /\ IsFiniteSet(frees \cup {idle[v]})
        /\ Cardinality(frees \cup {idle[v]}) <= Cardinality(frees) + 1
        /\ Cardinality(frees \cup {idle[v]}) \in Nat
    BY <1>3, OneMore
  <2>2. Cardinality(Mine(v) \ {l}) <= Cardinality(frees \cup {idle[v]})
    BY <1>4, <2>1, FS_Subset
  <2>3. QED BY <1>1, <1>3, <1>5, <2>1, <2>2
<1>9. -1 <= Limit - Cardinality(Mine(v))
  <2> DEFINE all == {render[r].free : r \in Opens(v)}
  <2>1. Mine(v) \subseteq all \cup {idle[v]} BY DEF Mine
  <2>2. IsFiniteSet(all) /\ Cardinality(all) <= Cardinality(Opens(v))
        /\ Cardinality(all) \in Nat
    BY <1>1, FreesOf
  <2> HIDE DEF all
  <2>3. /\ IsFiniteSet(all \cup {idle[v]})
        /\ Cardinality(all \cup {idle[v]}) <= Cardinality(all) + 1
        /\ Cardinality(all \cup {idle[v]}) \in Nat
    BY <2>2, OneMore
  <2>4. Cardinality(Mine(v)) <= Cardinality(all \cup {idle[v]}) BY <2>1, <2>3, FS_Subset
  <2>5. QED BY <1>1, <2>2, <2>3, <2>4
<1>10. QED BY <1>1, <1>2, <1>3, <1>7, <1>8, <1>9 DEF Spare

(* All that is counted of a viewport, and how the counts stand together.    *)
Counts(v) ==
  /\ IsFiniteSet(Opens(v)) /\ IsFiniteSet(Paints(v)) /\ IsFiniteSet(Mine(v))
  /\ IsFiniteSet(PagesOf(v)) /\ IsFiniteSet(Gone(v))
  /\ Cardinality(Opens(v)) \in Nat /\ Cardinality(Paints(v)) \in Nat
  /\ Cardinality(Mine(v)) \in Nat /\ Cardinality(PagesOf(v)) \in Nat
  /\ Cardinality(Gone(v)) \in Nat
  /\ IsFiniteSet(Painted(v)) /\ Cardinality(Painted(v)) <= Cardinality(Paints(v))
  /\ Cardinality(Opens(v)) + Cardinality(Paints(v)) <= Limit
  /\ Mine(v) \subseteq 1..Len(lists)
  /\ \A l : /\ IsFiniteSet(OpensInto(v, l)) /\ Cardinality(OpensInto(v, l)) \in Nat
            /\ Spare(v, l) \in Int
  /\ \A l \in Mine(v) :
       /\ l = idle[v] => Cardinality(Paints(v)) <= Spare(v, l)
       /\ -1 <= Spare(v, l)
       /\ -1 <= Limit - Cardinality(Mine(v))
       /\ Len(lists[l]) \in Nat
       /\ IsFiniteSet(InList(l)) /\ Cardinality(InList(l)) <= Len(lists[l])
       /\ Cardinality(InList(l)) \in Nat /\ DOMAIN lists[l] = 1..Len(lists[l])

(* A list holds one page or more for each of its pages.                     *)
LEMMA InListBound ==
  ASSUME TypeOK, NEW l \in 1..Len(lists)
  PROVE  /\ IsFiniteSet(InList(l)) /\ Cardinality(InList(l)) <= Len(lists[l])
         /\ Cardinality(InList(l)) \in Nat /\ Len(lists[l]) \in Nat
         /\ DOMAIN lists[l] = 1..Len(lists[l])
<1>1. Len(lists[l]) \in Nat /\ DOMAIN lists[l] = 1..Len(lists[l]) BY ListTypes
<1>2. IsFiniteSet(1..Len(lists[l])) /\ Cardinality(1..Len(lists[l])) = Len(lists[l])
  <2>1. \A n \in Nat : IsFiniteSet(1..n) /\ Cardinality(1..n) = n BY FS_Interval
  <2>2. QED BY <1>1, <2>1
<1>3. \A t \in InList(l) : \E i \in 1..Len(lists[l]) : t = lists[l][i] BY <1>1 DEF InList
<1>4. /\ IsFiniteSet(InList(l)) /\ Cardinality(InList(l)) <= Cardinality(1..Len(lists[l]))
      /\ Cardinality(InList(l)) \in Nat
  BY <1>2, <1>3, ImageOf
<1>5. QED BY <1>1, <1>2, <1>4

LEMMA CountsHold ==
  ASSUME Parameters, NEW v \in Viewports
  PROVE  TypeOK /\ SlotsAreRenders => Counts(v)
<1> SUFFICES ASSUME TypeOK, SlotsAreRenders PROVE Counts(v) OBVIOUS
<1>1. Mine(v) \subseteq 1..Len(lists) BY Finite
<1>2. ASSUME NEW l \in Mine(v)
      PROVE  /\ IsFiniteSet(InList(l)) /\ Cardinality(InList(l)) <= Len(lists[l])
             /\ Cardinality(InList(l)) \in Nat /\ Len(lists[l]) \in Nat
             /\ DOMAIN lists[l] = 1..Len(lists[l])
  BY <1>1, InListBound
<1>3. QED BY <1>1, <1>2, Finite, OfTheSlots, Spread DEF Counts

LEMMA CountsNext ==
  ASSUME Parameters, NEW v \in Viewports
  PROVE  TypeOK' /\ SlotsAreRenders' => Counts(v)'
<1>1. TypeOK /\ SlotsAreRenders => Counts(v) BY CountsHold
<1>2. QED BY <1>1, PTL

(* What is in some lists is no more than each can hold.                     *)
LEMMA ListedPages ==
  ASSUME NEW M, IsFiniteSet(M), NEW k \in Nat,
         \A l \in M : Len(lists[l]) \in Nat /\ DOMAIN lists[l] = 1..Len(lists[l])
                      /\ Len(lists[l]) <= k
  PROVE  /\ IsFiniteSet(UNION {InList(l) : l \in M})
         /\ Cardinality(UNION {InList(l) : l \in M}) <= Cardinality(M) * k
         /\ Cardinality(UNION {InList(l) : l \in M}) \in Nat
<1> DEFINE S == M \X (1..k)
           T == UNION {InList(l) : l \in M}
           f == [x \in S |-> lists[x[1]][x[2]]]
<1>1. IsFiniteSet(1..k) /\ Cardinality(1..k) = k BY FS_Interval
<1>2. IsFiniteSet(S) /\ Cardinality(S) = Cardinality(M) * k BY <1>1, FS_Product
<1>3. ASSUME NEW t \in T PROVE \E x \in S : t = f[x]
  <2>1. PICK l \in M : t \in InList(l) OBVIOUS
  <2>2. PICK i \in 1..Len(lists[l]) : t = lists[l][i] BY <2>1 DEF InList
  <2>3. <<l, i>> \in S BY <2>2
  <2>4. f[<<l, i>>] = t BY <2>2, <2>3
  <2>5. QED BY <2>3, <2>4
<1> HIDE DEF S, T, f
<1>4. IsFiniteSet(T) /\ Cardinality(T) <= Cardinality(S) /\ Cardinality(T) \in Nat
  BY <1>2, <1>3, ImageOf
<1>5. QED BY <1>2, <1>4 DEF T

(* Sums of 1 to s.                                                          *)
LEMMA SumsGrow ==
  ASSUME NEW x \in Int, NEW s \in Int, NEW t \in Int, -1 <= s, s <= t, 2 * x <= s * (s + 1)
  PROVE  2 * x <= t * (t + 1)
<1>1. s * (s + 1) <= t * (t + 1)
  <2>1. t * (t + 1) - s * (s + 1) = (t - s) * (t + s + 1) OBVIOUS
  <2>2. t = s \/ t + s + 1 >= 0 OBVIOUS
  <2>3. (t - s) * (t + s + 1) >= 0 BY <2>2
  <2>4. QED BY <2>1, <2>3
<1>2. QED BY <1>1

LEMMA SumHolds ==
  ASSUME NEW x \in Nat, NEW s \in Int, x <= s
  PROVE  2 * x <= s * (s + 1)
<1>1. s * (s + 1) - 2 * s = s * (s - 1) OBVIOUS
<1>2. s * (s - 1) >= 0
  <2>1. CASE s = 0 BY <2>1
  <2>2. CASE s >= 1 BY <2>2
  <2>3. QED BY <2>1, <2>2
<1>3. QED BY <1>1, <1>2

LEMMA SumAndMore ==
  ASSUME NEW x \in Nat, NEW y \in Nat, NEW s \in Int, NEW t \in Int,
         -1 <= s, s + 1 <= t, 2 * x <= s * (s + 1), y <= t
  PROVE  2 * (x + y) <= t * (t + 1)
<1>1. 2 * x <= (t - 1) * ((t - 1) + 1) BY SumsGrow
<1>2. (t - 1) * ((t - 1) + 1) + 2 * t = t * (t + 1) OBVIOUS
<1>3. QED BY <1>1, <1>2

LEMMA SumAndOne ==
  ASSUME NEW x \in Nat, NEW s \in Nat, 2 * x <= s * (s + 1)
  PROVE  2 * (x + 1) <= (s + 1) * (s + 1 + 1)
<1>1. (s + 1) * (s + 1 + 1) = s * (s + 1) + 2 * s + 2 OBVIOUS
<1>2. QED BY <1>1

(* The sums of those sums.                                                  *)
LEMMA SumsLost ==
  ASSUME NEW g \in Nat, NEW x \in Nat, NEW n \in Int, NEW s \in Int, -1 <= n, -1 <= s, s <= n + 1,
         6 * g <= n * (n + 1) * (n + 2), 2 * x <= s * (s + 1)
  PROVE  6 * (g + x) <= (n + 1) * ((n + 1) + 1) * ((n + 1) + 2)
<1>1. 2 * x <= (n + 1) * ((n + 1) + 1) BY SumsGrow
<1>2. (n + 1) * ((n + 1) + 1) * ((n + 1) + 2)
        = n * (n + 1) * (n + 2) + 3 * ((n + 1) * ((n + 1) + 1))
  OBVIOUS
<1>3. QED BY <1>1, <1>2

LEMMA LostGrow ==
  ASSUME NEW g \in Int, NEW n \in Int, -1 <= n, 6 * g <= n * (n + 1) * (n + 2)
  PROVE  6 * g <= (n + 1) * ((n + 1) + 1) * ((n + 1) + 2)
<1>1. (n + 1) * ((n + 1) + 1) * ((n + 1) + 2)
        = n * (n + 1) * (n + 2) + 3 * ((n + 1) * (n + 2))
  OBVIOUS
<1>2. (n + 1) * (n + 2) >= 0 OBVIOUS
<1>3. QED BY <1>1, <1>2

(* Twice a sum is even.                                                     *)
LEMMA SumIsWhole ==
  ASSUME NEW n \in Int, -1 <= n
  PROVE  \E k \in Nat : 2 * k = n * (n + 1)
<1>1. PICK q \in Int : n = 2 * q \/ n = 2 * q + 1
  <2>1. CASE n = -1
    <3>1. n = 2 * (-1) + 1 BY <2>1
    <3>2. QED BY <3>1
  <2>2. CASE n \in Nat
    <3> DEFINE q == n \div 2
               r == n % 2
    <3>1. q \in Int /\ r \in 0..1 BY <2>2
    <3>2. n = 2 * q + r BY <2>2
    <3> HIDE DEF q, r
    <3>3. r = 0 \/ r = 1 BY <3>1
    <3>4. QED BY <3>1, <3>2, <3>3
  <2>3. QED BY <2>1, <2>2
<1>2. CASE n = 2 * q
  <2>1. 2 * (q * (n + 1)) = n * (n + 1) BY <1>2
  <2>2. q * (n + 1) \in Nat BY <1>2
  <2>3. QED BY <2>1, <2>2
<1>3. CASE n = 2 * q + 1
  <2>1. 2 * (n * (q + 1)) = n * (n + 1) BY <1>3
  <2>2. n * (q + 1) \in Nat BY <1>3
  <2>3. QED BY <2>1, <2>2
<1>4. QED BY <1>1, <1>2, <1>3

(* With m lists, of which all but one hold k pages at most: what they hold  *)
(* and what is lost.                                                        *)
LEMMA AllSums ==
  ASSUME NEW L \in Nat \ {0}, NEW m \in Nat \ {0}, NEW n \in Int, n = L - m, -1 <= n,
         NEW g \in Nat, 6 * g <= n * (n + 1) * (n + 2),
         NEW k \in Nat, 2 * k = n * (n + 1)
  PROVE  6 * (g + (m - 1) * k) <= (L - 1) * L * (L + 1)
<1>1. 6 * ((m - 1) * k) = 3 * (m - 1) * (n * (n + 1)) 
  <2>1. 6 * ((m - 1) * k) = 3 * (m - 1) * (2 * k) OBVIOUS
  <2>2. QED BY <2>1
<1> DEFINE a == m - 1
<1>2. a \in Nat /\ L = n + 1 + a OBVIOUS
<1>3. (L - 1) * L * (L + 1)
        = n * (n + 1) * (n + 2) + 3 * a * (n * (n + 1))
          + a * (a * a + 3 * (a * (n + 1)) + 3 * n + 2)
  BY <1>2
<1>4. a * (a * a + 3 * (a * (n + 1)) + 3 * n + 2) >= 0
  <2>1. CASE n >= 0
    <3>1. a * a >= 0 /\ a * (n + 1) >= 0 BY <1>2, <2>1
    <3>2. a * a + 3 * (a * (n + 1)) + 3 * n + 2 >= 0 BY <2>1, <3>1
    <3>3. QED BY <1>2, <3>2
  <2>2. CASE n = -1
    <3>1. a * a + 3 * (a * (n + 1)) + 3 * n + 2 = a * a - 1 BY <2>2
    <3>2. CASE a = 0 BY <3>2
    <3>3. CASE a >= 1
      <4>1. a * a - 1 >= 0 BY <1>2, <3>3
      <4>2. QED BY <1>2, <3>1, <4>1
    <3>4. QED BY <1>2, <3>2, <3>3
  <2>3. QED BY <2>1, <2>2
<1>5. QED BY <1>1, <1>3, <1>4

(* Some of the opens of a viewport go on as they were.                      *)
SameOpens(v) == Opens(v)' = Opens(v) /\ \A s \in Opens(v) : render'[s].free = render[s].free

LEMMA SameMine ==
  ASSUME NEW v, SameOpens(v), idle'[v] = idle[v]
  PROVE  Mine(v)' = Mine(v) /\ \A l : OpensInto(v, l)' = OpensInto(v, l) /\ Spare(v, l)' = Spare(v, l)
<1>1. \A l : OpensInto(v, l)' = OpensInto(v, l) BY DEF OpensInto, SameOpens
<1>2. Mine(v)' = Mine(v) BY DEF Mine, SameOpens
<1>3. QED BY <1>1, <1>2 DEF Spare

LEMMA TotalStays ==
  ASSUME Parameters, TypeOK', SlotsAreRenders', NEW v \in Viewports, Counts(v), TotalFits(v),
         Cardinality(PagesOf(v)') + Cardinality(Opens(v)')
           <= Cardinality(PagesOf(v)) + Cardinality(Opens(v))
  PROVE  TotalFits(v)'
<1>1. Cardinality(PagesOf(v)) \in Nat /\ Cardinality(Opens(v)) \in Nat BY DEF Counts
<1>2. Cardinality(PagesOf(v)') \in Nat /\ Cardinality(Opens(v)') \in Nat
  BY CountsNext DEF Counts
<1>3. Limit \in Nat /\ (Limit - 1) * Limit * (Limit + 1) \in Int BY DEF Parameters
<1>4. QED BY <1>1, <1>2, <1>3 DEF TotalFits

(* Nothing is opened yet, nor by this step.                                 *)
LEMMA StaysUnset ==
  ASSUME Parameters, TypeOK', SlotsAreRenders', NEW v \in Viewports,
         Unset(v)', idle'[v] = NoList
  PROVE  Bounded(v)'
<1>1. PagesOf(v)' = {} BY DEF Unset
<1>2. Cardinality(PagesOf(v)') = 0 BY <1>1, FS_EmptySet
<1>3. /\ Cardinality(Opens(v)') \in Nat /\ Cardinality(Paints(v)') \in Nat
      /\ Cardinality(Opens(v)') + Cardinality(Paints(v)') <= Limit
  BY CountsNext DEF Counts
<1>4. Limit \in Nat \ {0} BY DEF Parameters
<1>5. (Limit - 1) * Limit * (Limit + 1) >= 0 BY <1>4
<1>6. TotalFits(v)' BY <1>2, <1>3, <1>4, <1>5 DEF TotalFits
<1>7. QED BY <1>6 DEF Bounded

(* A page goes from its list to a render, or back.                          *)
LEMMA PageMoves ==
  ASSUME Parameters, TypeOK, TypeOK', SlotsAreRenders, SlotsAreRenders', NEW v \in Viewports,
         Bounded(v), idle[v] # NoList, idle'[v] = idle[v], SameOpens(v),
         PagesOf(v)' = PagesOf(v), Gone(v)' \subseteq Gone(v),
         Pile(v, idle[v])' = Pile(v, idle[v]),
         \A l \in Mine(v) \ {idle[v]} : lists'[l] = lists[l]
  PROVE  Bounded(v)'
<1>1. Counts(v) /\ Counts(v)' BY CountsHold, CountsNext
<1>2. Mine(v)' = Mine(v) /\ \A l : Spare(v, l)' = Spare(v, l) BY SameMine
<1>3. PilesFit(v)'
  <2>1. ASSUME NEW l \in Mine(v) PROVE Pile(v, l)' = Pile(v, l)
    <3>1. CASE l = idle[v] BY <3>1
    <3>2. CASE l # idle[v] BY <3>2 DEF Pile
    <3>3. QED BY <3>1, <3>2
  <2>2. QED BY <1>2, <2>1 DEF PilesFit, Bounded
<1>4. LostFit(v)'
  <2>1. Cardinality(Gone(v)') <= Cardinality(Gone(v)) BY <1>1, FS_Subset DEF Counts
  <2>2. Cardinality(Gone(v)') \in Nat /\ Cardinality(Gone(v)) \in Nat
        /\ Cardinality(Mine(v)) \in Nat
    BY <1>1 DEF Counts
  <2> DEFINE n == Limit - Cardinality(Mine(v))
             B == n * (n + 1) * (n + 2)
  <2>3. B \in Int BY <2>2 DEF Parameters
  <2>4. 6 * Cardinality(Gone(v)) <= B BY DEF Bounded, LostFit
  <2> HIDE DEF B
  <2>5. 6 * Cardinality(Gone(v)') <= B BY <2>1, <2>2, <2>3, <2>4
  <2>6. QED BY <1>2, <2>5 DEF LostFit, B
<1>5. TotalFits(v)'
  <2>1. TotalFits(v) /\ Cardinality(PagesOf(v)) \in Nat /\ Cardinality(Opens(v)) \in Nat
    BY <1>1 DEF Bounded, Counts
  <2>2. QED BY <1>1, <2>1, TotalStays DEF SameOpens
<1>6. QED BY <1>3, <1>4, <1>5 DEF Bounded

(* Nothing of the viewport changes.                                         *)
Same(v) ==
  /\ Opens(v)' = Opens(v) /\ Paints(v)' = Paints(v)
  /\ \A s \in Opens(v) \cup Paints(v) : render'[s] = render[s]
  /\ idle'[v] = idle[v] /\ PagesOf(v)' = PagesOf(v)
  /\ \A l \in Mine(v) : lists'[l] = lists[l]

LEMMA SameBounded == ASSUME NEW v, Same(v), Bounded(v) PROVE Bounded(v)' /\ Mine(v)' = Mine(v)
<1>1. SameOpens(v) BY DEF SameOpens, Same
<1>2. Mine(v)' = Mine(v) /\ \A l : Spare(v, l)' = Spare(v, l) BY <1>1, SameMine DEF Same
<1>3. \A l \in Mine(v) : Pile(v, l)' = Pile(v, l) BY DEF Pile, Same
<1>4. Painted(v)' = Painted(v) BY DEF Painted, Same
<1>5. \A l \in Mine(v) : InList(l)' = InList(l) BY DEF InList, Same
<1>6. UNION {InList(l)' : l \in Mine(v)} = UNION {InList(l) : l \in Mine(v)} BY <1>5
<1>7. Gone(v)' = Gone(v) BY <1>2, <1>4, <1>6 DEF Gone, Same
<1>8. PilesFit(v) => PilesFit(v)' BY <1>2, <1>3 DEF PilesFit
<1>9. LostFit(v) => LostFit(v)' BY <1>2, <1>7 DEF LostFit
<1>10. TotalFits(v) => TotalFits(v)' BY DEF TotalFits, Same
<1>11. Unset(v) => Unset(v)' BY <1>2 DEF Unset, Same
<1>12. QED BY <1>2, <1>8, <1>9, <1>10, <1>11 DEF Bounded, Same

(* What two sets hold together, and three.                                  *)
LEMMA OfTwo ==
  ASSUME NEW A, NEW B, IsFiniteSet(A), IsFiniteSet(B)
  PROVE  IsFiniteSet(A \cup B) /\ Cardinality(A \cup B) <= Cardinality(A) + Cardinality(B)
         /\ Cardinality(A \cup B) \in Nat /\ Cardinality(A) \in Nat /\ Cardinality(B) \in Nat
<1>1. IsFiniteSet(A \cup B)
      /\ Cardinality(A \cup B) = Cardinality(A) + Cardinality(B) - Cardinality(A \cap B)
  BY FS_Union
<1>2. IsFiniteSet(A \cap B) BY FS_Intersection
<1>3. QED BY <1>1, <1>2, FS_CardinalityType

LEMMA OfThree ==
  ASSUME NEW A, NEW B, NEW C, NEW D, IsFiniteSet(A), IsFiniteSet(B), IsFiniteSet(C),
         D \subseteq A \cup (B \cup C)
  PROVE  Cardinality(D) <= Cardinality(A) + Cardinality(B) + Cardinality(C)
<1> DEFINE E == B \cup C
           F == A \cup E
<1>1. IsFiniteSet(E) /\ Cardinality(E) <= Cardinality(B) + Cardinality(C)
      /\ Cardinality(E) \in Nat /\ Cardinality(B) \in Nat /\ Cardinality(C) \in Nat
  BY OfTwo
<1>2. D \subseteq F OBVIOUS
<1> HIDE DEF E
<1>3. IsFiniteSet(F) /\ Cardinality(F) <= Cardinality(A) + Cardinality(E)
      /\ Cardinality(F) \in Nat /\ Cardinality(A) \in Nat
  BY <1>1, OfTwo
<1> HIDE DEF F
<1>4. IsFiniteSet(D) /\ Cardinality(D) <= Cardinality(F) BY <1>2, <1>3, FS_Subset
<1>5. Cardinality(D) \in Nat BY <1>4, FS_CardinalityType
<1>6. QED BY <1>1, <1>3, <1>4, <1>5

(* A set with a member.                                                     *)
LEMMA NotNone ==
  ASSUME NEW S, IsFiniteSet(S), NEW x \in S
  PROVE  Cardinality(S) \in Nat \ {0}
BY FS_EmptySet, FS_CardinalityType

(* An acquire finds no idle page, and opens one for the viewport's list.    *)
LEMMA OneMoreOpens ==
  ASSUME Parameters, TypeOK, TypeOK', SlotsAreRenders, SlotsAreRenders', NEW v \in Viewports,
         NEW r, r \notin Opens(v), Bounded(v), idle[v] # NoList, idle'[v] = idle[v],
         lists[idle[v]] = <<>>, Opens(v)' = Opens(v) \cup {r},
         \A s \in Opens(v) : render'[s].free = render[s].free,
         render'[r].free = idle[v],
         Paints(v)' = Paints(v), Painted(v)' = Painted(v),
         PagesOf(v)' = PagesOf(v), lists' = lists
  PROVE  Bounded(v)'
<1> DEFINE c == idle[v]
           n == Limit - Cardinality(Mine(v))
           most == (Limit - 1) * Limit * (Limit + 1)
<1>1. Counts(v) /\ Counts(v)' BY CountsHold, CountsNext
<1>2. Mine(v)' = Mine(v) /\ c \in Mine(v) BY DEF Mine
<1>3. \A l \in Mine(v) \ {c} : OpensInto(v, l)' = OpensInto(v, l) BY DEF OpensInto
<1>4. \A l \in Mine(v) \ {c} : Spare(v, l)' = Spare(v, l) /\ Pile(v, l)' = Pile(v, l)
  BY <1>2, <1>3 DEF Spare, Pile
<1>5. Pile(v, c)' = Cardinality(Paints(v)') /\ Cardinality(Paints(v)') \in Nat
  <2>1. Len(lists[c]) = 0 OBVIOUS
  <2>2. Cardinality(Paints(v)') \in Nat BY <1>1 DEF Counts
  <2>3. QED BY <2>1, <2>2 DEF Pile
<1>6. 2 * Pile(v, c)' <= Spare(v, c)' * (Spare(v, c)' + 1)
  <2>1. Cardinality(Paints(v)') <= Spare(v, c)' /\ Spare(v, c)' \in Int BY <1>1, <1>2 DEF Counts
  <2>2. QED BY <1>5, <2>1, SumHolds
<1>7. PilesFit(v)' BY <1>2, <1>4, <1>6 DEF PilesFit, Bounded
<1>8. Gone(v)' = Gone(v) BY <1>2 DEF Gone, InList
<1>9. LostFit(v)' BY <1>2, <1>8 DEF LostFit, Bounded
<1>10. /\ -1 <= n /\ n \in Int /\ Limit \in Nat \ {0}
       /\ Cardinality(Mine(v)) \in Nat \ {0} /\ Cardinality(Gone(v)) \in Nat
       /\ Cardinality(PagesOf(v)) \in Nat /\ Cardinality(Painted(v)) <= Cardinality(Paints(v))
       /\ Cardinality(Paints(v)) \in Nat /\ Cardinality(Opens(v)') \in Nat
       /\ Cardinality(Opens(v)') + Cardinality(Paints(v)) <= Limit
  <2>1. Cardinality(Mine(v)) # 0 BY <1>1, <1>2, NotNone DEF Counts
  <2>2. QED BY <1>1, <1>2, <2>1 DEF Counts, Parameters
<1>11. PICK k \in Nat : 2 * k = n * (n + 1) BY <1>10, SumIsWhole
<1>12. ASSUME NEW l \in Mine(v) \ {c}
       PROVE  /\ Len(lists[l]) \in Nat /\ DOMAIN lists[l] = 1..Len(lists[l])
              /\ Len(lists[l]) <= k
  <2>1. Len(lists[l]) \in Nat /\ DOMAIN lists[l] = 1..Len(lists[l]) /\ -1 <= Spare(v, l)
        /\ Spare(v, l) \in Int /\ IsFiniteSet(OpensInto(v, l))
        /\ Cardinality(OpensInto(v, l)) \in Nat
    BY <1>1 DEF Counts
  <2>2. PICK s \in OpensInto(v, l) : TRUE BY DEF OpensInto, Mine
  <2>3. Cardinality(OpensInto(v, l)) >= 1 BY <2>1, <2>2, NotNone
  <2>4. Spare(v, l) <= n BY <1>10, <2>1, <2>3 DEF Spare
  <2>5. 2 * Len(lists[l]) <= Spare(v, l) * (Spare(v, l) + 1)
    <3>1. 2 * Pile(v, l) <= Spare(v, l) * (Spare(v, l) + 1) BY DEF Bounded, PilesFit
    <3>2. Pile(v, l) = Len(lists[l]) BY <2>1 DEF Pile
    <3>3. QED BY <3>1, <3>2
  <2>6. n \in Int /\ -1 <= n BY <1>10
  <2> HIDE DEF n
  <2>7. 2 * Len(lists[l]) <= n * (n + 1) 
    <3>1. Len(lists[l]) \in Int BY <2>1
    <3>2. QED BY <2>6, <2>1, <2>4, <2>5, <3>1, SumsGrow, Zenon
  <2>8. QED BY <1>11, <2>1, <2>7, <2>6
<1> DEFINE M == Mine(v) \ {c}
           inLists == UNION {InList(l) : l \in M}
<1>13. IsFiniteSet(M) /\ Cardinality(M) = Cardinality(Mine(v)) - 1
  BY <1>1, <1>2, FS_RemoveElement DEF Counts
<1>14. IsFiniteSet(inLists) /\ Cardinality(inLists) <= Cardinality(M) * k
       /\ Cardinality(inLists) \in Nat
  <2> HIDE DEF M
  <2>1. \A l \in M : /\ Len(lists[l]) \in Nat /\ DOMAIN lists[l] = 1..Len(lists[l])
                     /\ Len(lists[l]) <= k
    BY <1>12 DEF M
  <2>2. QED BY <1>13, <2>1, ListedPages
<1>15. PagesOf(v) \subseteq Gone(v) \cup (Painted(v) \cup inLists)
  <2>1. InList(c) = {} BY DEF InList
  <2>2. UNION {InList(l) : l \in Mine(v)} \subseteq inLists BY <2>1
  <2>3. QED BY <2>2 DEF Gone
<1>16. Cardinality(PagesOf(v)) <= Cardinality(Gone(v)) + Cardinality(Paints(v)) + Cardinality(inLists)
  <2>1. IsFiniteSet(Gone(v)) /\ IsFiniteSet(Painted(v)) /\ IsFiniteSet(inLists)
    BY <1>1, <1>14 DEF Counts
  <2> HIDE DEF inLists
  <2>2. Cardinality(PagesOf(v))
          <= Cardinality(Gone(v)) + Cardinality(Painted(v)) + Cardinality(inLists)
    BY <1>15, <2>1, OfThree
  <2>3. Cardinality(Painted(v)) \in Nat BY <2>1, FS_CardinalityType
  <2>4. QED BY <1>10, <1>14, <2>2, <2>3
<1>17. 6 * (Cardinality(Gone(v)) + (Cardinality(Mine(v)) - 1) * k) <= most
  BY <1>10, <1>11, AllSums DEF Bounded, LostFit
<1>18. TotalFits(v)'
  <2> DEFINE m == (Cardinality(Mine(v)) - 1) * k
  <2>1. m \in Int /\ most \in Int BY <1>10
  <2>2. Cardinality(inLists) <= m BY <1>13, <1>14
  <2>3. 6 * (Cardinality(Gone(v)) + m) <= most BY <1>17
  <2> HIDE DEF m, most, inLists
  <2>4. PICK p \in Int : p = Cardinality(PagesOf(v)) BY <1>10
  <2>5. PICK o \in Int : o = Cardinality(Opens(v)') BY <1>10
  <2>6. PICK g \in Int : g = Cardinality(Gone(v)) BY <1>10
  <2>7. PICK t \in Int : t = Cardinality(Paints(v)) BY <1>10
  <2>8. PICK i \in Int : i = Cardinality(inLists) BY <1>14
  <2>9. p <= g + t + i /\ i <= m /\ o + t <= Limit /\ 6 * (g + m) <= most
    BY <1>10, <1>16, <2>2, <2>3, <2>4, <2>5, <2>6, <2>7, <2>8
  <2>10. 6 * (p + o - Limit) <= most BY <1>10, <2>1, <2>9
  <2>11. QED BY <2>4, <2>5, <2>10 DEF TotalFits, most
<1>19. QED BY <1>7, <1>9, <1>18 DEF Bounded

(* A list that is no longer a viewport's takes with it what a list can hold.*)
LEMMA ListLost ==
  ASSUME Parameters, NEW v \in Viewports, Counts(v), Counts(v)', Bounded(v), idle[v] # NoList,
         lists' = lists, NEW d \in Mine(v), Mine(v)' = Mine(v) \/ Mine(v)' = Mine(v) \ {d},
         PagesOf(v)' \ Painted(v)' \subseteq PagesOf(v) \ Painted(v)
  PROVE  LostFit(v)'
<1> DEFINE n == Limit - Cardinality(Mine(v))
<1>1. /\ Cardinality(Gone(v)) \in Nat /\ Cardinality(Gone(v)') \in Nat
      /\ IsFiniteSet(Gone(v)) /\ IsFiniteSet(InList(d)) /\ Cardinality(InList(d)) \in Nat
      /\ Len(lists[d]) \in Nat /\ Cardinality(InList(d)) <= Len(lists[d])
      /\ Spare(v, d) \in Int /\ -1 <= Spare(v, d) /\ -1 <= n /\ n \in Int
      /\ Cardinality(OpensInto(v, d)) \in Nat /\ IsFiniteSet(Mine(v))
      /\ Cardinality(Paints(v)) \in Nat /\ Cardinality(Mine(v)) \in Nat /\ Limit \in Nat
  <2>1. Limit \in Nat BY DEF Parameters
  <2>2. /\ Cardinality(Gone(v)) \in Nat /\ Cardinality(Mine(v)) \in Nat
        /\ Cardinality(Paints(v)) \in Nat /\ IsFiniteSet(Gone(v)) /\ IsFiniteSet(Mine(v))
    BY DEF Counts
  <2>3. Cardinality(Gone(v)') \in Nat BY DEF Counts
  <2>4. /\ IsFiniteSet(InList(d)) /\ Cardinality(InList(d)) \in Nat
        /\ Len(lists[d]) \in Nat /\ Cardinality(InList(d)) <= Len(lists[d])
        /\ Spare(v, d) \in Int /\ -1 <= Spare(v, d) /\ -1 <= n
        /\ Cardinality(OpensInto(v, d)) \in Nat
    BY DEF Counts
  <2>5. n \in Int BY <2>1, <2>2
  <2> HIDE DEF n
  <2>6. QED BY <2>1, <2>2, <2>3, <2>4, <2>5
<1>2. 6 * Cardinality(Gone(v)) <= n * (n + 1) * (n + 2) BY DEF Bounded, LostFit
<1>3. n \in Int /\ -1 <= n BY <1>1
<1> HIDE DEF n
<1>4. CASE Mine(v)' = Mine(v)
  <2>1. Gone(v)' \subseteq Gone(v) BY <1>4 DEF Gone, InList
  <2>2. Cardinality(Gone(v)') <= Cardinality(Gone(v)) BY <1>1, <2>1, FS_Subset
  <2> DEFINE most == n * (n + 1) * (n + 2)
  <2>3. most \in Int BY <1>3
  <2>4. 6 * Cardinality(Gone(v)) <= most BY <1>2
  <2> HIDE DEF most
  <2>5. 6 * Cardinality(Gone(v)') <= most BY <1>1, <2>2, <2>3, <2>4
  <2>6. QED BY <1>4, <2>5 DEF LostFit, most, n
<1>5. CASE Mine(v)' = Mine(v) \ {d}
  <2>1. Gone(v)' \subseteq Gone(v) \cup InList(d) BY <1>5 DEF Gone, InList
  <2>2. Cardinality(Gone(v)') <= Cardinality(Gone(v)) + Len(lists[d])
    <3>1. /\ IsFiniteSet(Gone(v) \cup InList(d))
          /\ Cardinality(Gone(v) \cup InList(d)) <= Cardinality(Gone(v)) + Cardinality(InList(d))
          /\ Cardinality(Gone(v) \cup InList(d)) \in Nat
      BY <1>1, OfTwo
    <3>2. Cardinality(Gone(v)') <= Cardinality(Gone(v) \cup InList(d))
      BY <2>1, <3>1, FS_Subset
    <3>3. QED BY <1>1, <3>1, <3>2
  <2>3. 2 * Len(lists[d]) <= Spare(v, d) * (Spare(v, d) + 1)
    <3>1. 2 * Pile(v, d) <= Spare(v, d) * (Spare(v, d) + 1) BY DEF Bounded, PilesFit
    <3>2. Len(lists[d]) <= Pile(v, d) /\ Pile(v, d) \in Nat BY <1>1 DEF Pile
    <3> DEFINE most == Spare(v, d) * (Spare(v, d) + 1)
    <3>3. most \in Int BY <1>1
    <3>4. 2 * Pile(v, d) <= most BY <3>1
    <3> HIDE DEF most
    <3>5. 2 * Len(lists[d]) <= most BY <1>1, <3>2, <3>3, <3>4
    <3>6. QED BY <3>5 DEF most
  <2>4. Spare(v, d) <= n + 1 BY <1>1 DEF Spare, n
  <2>5. Limit - Cardinality(Mine(v)') = n + 1
    <3>1. Cardinality(Mine(v) \ {d}) = Cardinality(Mine(v)) - 1 BY <1>1, FS_RemoveElement
    <3>2. Cardinality(Mine(v)) \in Nat BY DEF Counts
    <3>3. QED BY <1>5, <3>1, <3>2 DEF Parameters, n
  <2> DEFINE most == (n + 1) * ((n + 1) + 1) * ((n + 1) + 2)
  <2>6. 6 * (Cardinality(Gone(v)) + Len(lists[d])) <= most BY <1>1, <1>2, <1>3, <2>3, <2>4, SumsLost DEF most
  <2>7. most \in Int BY <1>3
  <2> HIDE DEF most
  <2>8. 6 * Cardinality(Gone(v)') <= most BY <1>1, <2>2, <2>6, <2>7
  <2>9. QED BY <2>5, <2>8 DEF LostFit, most
<1>6. QED BY <1>4, <1>5

(* An acquire that is done with its list leaves slots to spare.             *)
LEMMA SpareGrows ==
  ASSUME Parameters, NEW v \in Viewports, Counts(v), Counts(v)',
         NEW r \in Opens(v), Opens(v)' = Opens(v) \ {r},
         \A s \in Opens(v) \ {r} : render'[s].free = render[s].free,
         Mine(v)' \subseteq Mine(v)
  PROVE  \A l : /\ Spare(v, l) <= Spare(v, l)'
                /\ l = render[r].free => Spare(v, l) + 1 <= Spare(v, l)'
<1>1. Cardinality(Mine(v)') <= Cardinality(Mine(v)) BY FS_Subset DEF Counts
<1>2. SUFFICES ASSUME NEW l
               PROVE  /\ Spare(v, l) <= Spare(v, l)'
                      /\ l = render[r].free => Spare(v, l) + 1 <= Spare(v, l)'
  OBVIOUS
<1> DEFINE A == OpensInto(v, l)
<1>3. OpensInto(v, l)' = A \ {r} BY DEF OpensInto
<1>4. l = render[r].free => r \in A BY DEF OpensInto
<1>5. IsFiniteSet(A) /\ Cardinality(A) \in Nat /\ Cardinality(OpensInto(v, l)') \in Nat
  BY DEF Counts
<1>6. Cardinality(Mine(v)) \in Nat /\ Cardinality(Mine(v)') \in Nat /\ Limit \in Nat
  BY DEF Counts, Parameters
<1>7. Spare(v, l) = Limit + 1 - Cardinality(Mine(v)) - Cardinality(A) BY DEF Spare
<1> HIDE DEF A
<1>8. Cardinality(A \ {r}) = IF r \in A THEN Cardinality(A) - 1 ELSE Cardinality(A)
  BY <1>5, FS_RemoveElement
<1>9. Spare(v, l)' = Limit + 1 - Cardinality(Mine(v)') - Cardinality(A \ {r})
  BY <1>3 DEF Spare
<1>10. QED BY <1>1, <1>4, <1>5, <1>6, <1>7, <1>8, <1>9

(* A page will not open.                                                    *)
LEMMA OpenEnds ==
  ASSUME Parameters, TypeOK, TypeOK', SlotsAreRenders, SlotsAreRenders', NEW v \in Viewports,
         Bounded(v), NEW r \in Opens(v), Opens(v)' = Opens(v) \ {r},
         \A s \in Opens(v) \ {r} : render'[s].free = render[s].free,
         idle'[v] = idle[v], lists' = lists,
         Paints(v)' = Paints(v), Painted(v)' = Painted(v), PagesOf(v)' = PagesOf(v)
  PROVE  Bounded(v)' /\ Mine(v)' \subseteq Mine(v)
<1> DEFINE l == render[r].free
<1>1. Counts(v) /\ Counts(v)' BY CountsHold, CountsNext
<1>2. l \in Mine(v) /\ (Mine(v)' = Mine(v) \/ Mine(v)' = Mine(v) \ {l})
  <2>1. {render[s].free : s \in Opens(v)}' = {render[s].free : s \in Opens(v) \ {r}} OBVIOUS
  <2>2. QED BY <2>1 DEF Mine
<1>3. CASE idle[v] = NoList
  <2>1. Unset(v)' BY <1>2, <1>3 DEF Bounded, Unset
  <2>2. QED BY <1>2, <1>3, <2>1, StaysUnset
<1>4. CASE idle[v] # NoList
  <2>1. PilesFit(v)'
    <3>1. SUFFICES ASSUME NEW m \in Mine(v)'
                   PROVE  2 * Pile(v, m)' <= Spare(v, m)' * (Spare(v, m)' + 1)
      BY DEF PilesFit
    <3>2. m \in Mine(v) /\ Pile(v, m)' = Pile(v, m) BY <1>2 DEF Pile
    <3>3. /\ Pile(v, m) \in Int /\ Spare(v, m) \in Int /\ Spare(v, m)' \in Int
          /\ -1 <= Spare(v, m)
      <4>1. Len(lists[m]) \in Nat /\ Cardinality(Paints(v)) \in Nat /\ -1 <= Spare(v, m)
            /\ Spare(v, m) \in Int
        BY <1>1, <3>2 DEF Counts
      <4>2. Spare(v, m)' \in Int BY <1>1 DEF Counts
      <4>3. QED BY <4>1, <4>2 DEF Pile
    <3>4. Spare(v, m) <= Spare(v, m)' BY <1>1, <1>2, SpareGrows
    <3>5. 2 * Pile(v, m) <= Spare(v, m) * (Spare(v, m) + 1)
      BY <1>4, <3>2 DEF Bounded, PilesFit
    <3>6. 2 * Pile(v, m) <= Spare(v, m)' * (Spare(v, m)' + 1)
      BY <3>3, <3>4, <3>5, SumsGrow, Zenon
    <3>7. QED BY <3>2, <3>6
  <2>2. LostFit(v)' BY <1>1, <1>2, <1>4, ListLost
  <2>3. TotalFits(v)'
    <3>1. Cardinality(Opens(v)') = Cardinality(Opens(v)) - 1
      BY <1>1, FS_RemoveElement DEF Counts
    <3>2. Cardinality(PagesOf(v)) \in Nat /\ Cardinality(Opens(v)) \in Nat
      BY <1>1 DEF Counts
    <3>3. Cardinality(PagesOf(v)') + Cardinality(Opens(v)')
            <= Cardinality(PagesOf(v)) + Cardinality(Opens(v))
      BY <3>1, <3>2
    <3>4. QED BY <1>1, <3>3, TotalStays DEF Bounded
  <2>4. QED BY <1>2, <1>4, <2>1, <2>2, <2>3 DEF Bounded
<1>5. QED BY <1>3, <1>4

(* A page is open, and painted into: the list its acquire has is the        *)
(* viewport's.                                                              *)
LEMMA PageOpens ==
  ASSUME Parameters, TypeOK, TypeOK', SlotsAreRenders, SlotsAreRenders', NEW v \in Viewports,
         Bounded(v), NEW r \in Opens(v), Opens(v)' = Opens(v) \ {r},
         \A s \in Opens(v) \ {r} : render'[s].free = render[s].free,
         idle'[v] = render[r].free, lists' = lists, Paints(v)' = Paints(v) \cup {r},
         NEW page, PagesOf(v)' = PagesOf(v) \cup {page}, Painted(v)' = Painted(v) \cup {page}
  PROVE  Bounded(v)' /\ Mine(v)' \subseteq Mine(v)
<1>0. PICK l, d : l = render[r].free /\ d = idle[v] OBVIOUS
<1>1. Counts(v) /\ Counts(v)' BY CountsHold, CountsNext
<1>2. l \in Mine(v) /\ l \in 1..Len(lists) BY <1>0, <1>1 DEF Mine, Counts
<1>3. l # NoList /\ l \in Mine(v)' /\ idle'[v] = l BY <1>0, <1>2 DEF Parameters, Mine, Counts
<1>4. /\ Mine(v)' = Mine(v) \/ (d \in Mine(v) /\ Mine(v)' = Mine(v) \ {d})
      /\ l = d => Mine(v)' = Mine(v)
  <2>1. {render[s].free : s \in Opens(v)}' = {render[s].free : s \in Opens(v) \ {r}} OBVIOUS
  <2> DEFINE F == {render[s].free : s \in Opens(v)}
             G == {render[s].free : s \in Opens(v) \ {r}}
  <2>2. F = G \cup {l} BY <1>0
  <2>3. Mine(v) = F \cup ({d} \ {NoList}) /\ Mine(v)' = G \cup {l} BY <1>0, <1>3, <2>1 DEF Mine
  <2> HIDE DEF F, G
  <2>4. QED BY <2>2, <2>3
<1>5. Mine(v)' \subseteq Mine(v) BY <1>4
<1>6. \A m : /\ Spare(v, m) <= Spare(v, m)'
             /\ m = l => Spare(v, m) + 1 <= Spare(v, m)'
  BY <1>0, <1>1, <1>5, SpareGrows
<1>7. ASSUME NEW m \in Mine(v)
      PROVE  /\ Spare(v, m) \in Int /\ Spare(v, m)' \in Int /\ -1 <= Spare(v, m)
             /\ Len(lists[m]) \in Nat /\ Cardinality(Paints(v)) \in Nat
             /\ Cardinality(Paints(v)') \in Nat
             /\ m = d => Cardinality(Paints(v)) <= Spare(v, m)
  <2>1. /\ Spare(v, m) \in Int /\ -1 <= Spare(v, m) /\ Len(lists[m]) \in Nat
        /\ Cardinality(Paints(v)) \in Nat
        /\ m = d => Cardinality(Paints(v)) <= Spare(v, m)
    BY <1>0, <1>1 DEF Counts
  <2>2. Spare(v, m)' \in Int /\ Cardinality(Paints(v)') \in Nat BY <1>1 DEF Counts
  <2>3. QED BY <2>1, <2>2
<1>8. Cardinality(Paints(v)') <= Spare(v, l)' BY <1>1, <1>3 DEF Counts
<1>9. Cardinality(Paints(v)') = Cardinality(Paints(v)) + 1
  <2>1. r \notin Paints(v) BY DEF Paints, Opens, In
  <2>2. QED BY <1>1, <2>1, FS_AddElement DEF Counts
<1>10. TotalFits(v)'
  <2>1. Cardinality(Opens(v)') = Cardinality(Opens(v)) - 1
    BY <1>1, FS_RemoveElement DEF Counts
  <2>2. /\ Cardinality(PagesOf(v)') <= Cardinality(PagesOf(v)) + 1
        /\ Cardinality(PagesOf(v)') \in Nat
    BY <1>1, OneMore DEF Counts
  <2>3. Cardinality(PagesOf(v)) \in Nat /\ Cardinality(Opens(v)) \in Nat
    BY <1>1 DEF Counts
  <2>4. Cardinality(PagesOf(v)') + Cardinality(Opens(v)')
          <= Cardinality(PagesOf(v)) + Cardinality(Opens(v))
    BY <2>1, <2>2, <2>3
  <2>5. QED BY <1>1, <2>4, TotalStays DEF Bounded
<1>11. \A m \in Mine(v)' :
         Pile(v, m)' = IF m = l THEN Len(lists[m]) + Cardinality(Paints(v)') ELSE Len(lists[m])
  BY <1>3, <1>5, <1>7 DEF Pile
<1>12. CASE d = NoList
  <2>1. PagesOf(v) = {} /\ \A m \in Mine(v) : lists[m] = <<>>
    BY <1>0, <1>12 DEF Bounded, Unset
  <2>2. PilesFit(v)'
    <3>1. SUFFICES ASSUME NEW m \in Mine(v)'
                   PROVE  2 * Pile(v, m)' <= Spare(v, m)' * (Spare(v, m)' + 1)
      BY DEF PilesFit
    <3>2. Len(lists[m]) = 0 BY <1>5, <2>1
    <3>3. CASE m = l
      <4>1. Pile(v, m)' = Cardinality(Paints(v)')
        <5>1. Pile(v, m)' = Len(lists[m]) + Cardinality(Paints(v)') BY <1>11, <3>3
        <5>2. Cardinality(Paints(v)') \in Nat BY <1>2, <1>7
        <5>3. QED BY <3>2, <5>1, <5>2
      <4>2. QED BY <1>5, <1>7, <1>8, <3>3, <4>1, SumHolds
    <3>4. CASE m # l
      <4>1. Pile(v, m)' = 0 BY <1>11, <3>2, <3>4
      <4>2. -1 <= Spare(v, m)' BY <1>5, <1>6, <1>7
      <4>3. PICK s \in Int : s = Spare(v, m)' BY <1>5, <1>7
      <4>4. s * (s + 1) >= 0 BY <4>2, <4>3
      <4>5. QED BY <4>1, <4>3, <4>4
    <3>5. QED BY <3>3, <3>4
  <2>3. LostFit(v)'
    <3>1. Gone(v)' = {} BY <2>1 DEF Gone
    <3>2. Cardinality(Gone(v)') = 0 BY <3>1, FS_EmptySet
    <3>3. PICK n \in Int : n = Limit - Cardinality(Mine(v)') BY <1>1 DEF Counts, Parameters
    <3>4. -1 <= n BY <1>1, <1>3, <3>3 DEF Counts
    <3>5. n * (n + 1) * (n + 2) >= 0 BY <3>4
    <3>6. QED BY <3>2, <3>3, <3>5 DEF LostFit
  <2>4. QED BY <1>3, <1>5, <1>10, <2>2, <2>3 DEF Bounded
<1>13. CASE d # NoList
  <2>1. d \in Mine(v) BY <1>0, <1>13 DEF Mine
  <2>2. ASSUME NEW m \in Mine(v)
        PROVE  2 * Pile(v, m) <= Spare(v, m) * (Spare(v, m) + 1)
    BY <1>0, <1>13 DEF Bounded, PilesFit
  <2>3. PilesFit(v)'
    <3>1. SUFFICES ASSUME NEW m \in Mine(v)'
                   PROVE  2 * Pile(v, m)' <= Spare(v, m)' * (Spare(v, m)' + 1)
      BY DEF PilesFit
    <3>2. PICK s \in Int : s = Spare(v, m) BY <1>5, <1>7
    <3>3. PICK t \in Int : t = Spare(v, m)' BY <1>5, <1>7
    <3>4. PICK x \in Nat : x = Len(lists[m]) BY <1>5, <1>7
    <3>5. PICK y \in Nat : y = Cardinality(Paints(v)') BY <1>7, <2>1
    <3>6. -1 <= s /\ s <= t /\ (m = l => s + 1 <= t) BY <1>5, <1>6, <1>7, <3>2, <3>3
    <3>7. CASE m = l /\ l = d
      <4>1. Pile(v, m) = x + y - 1 /\ Pile(v, m)' = x + y /\ y - 1 \in Nat
        <5>1. Pile(v, m) = x + Cardinality(Paints(v)) BY <1>7, <2>1, <3>4, <3>7, <1>0 DEF Pile
        <5>2. Pile(v, m)' = x + y BY <1>11, <3>4, <3>5, <3>7
        <5>3. QED BY <1>7, <1>9, <2>1, <3>5, <5>1, <5>2
      <4>2. s \in Nat BY <1>7, <2>1, <3>2, <3>7
      <4>3. 2 * (x + y - 1) <= s * (s + 1) BY <1>5, <2>2, <3>2, <4>1
      <4>4. x + y - 1 \in Nat /\ x + y - 1 + 1 = x + y BY <4>1
      <4>5. 2 * ((x + y - 1) + 1) <= (s + 1) * (s + 1 + 1) BY <4>2, <4>3, <4>4, SumAndOne
      <4>6. 2 * (x + y) <= (s + 1) * (s + 1 + 1) BY <4>4, <4>5
      <4>7. x + y \in Int /\ s + 1 \in Int /\ -1 <= s + 1 /\ s + 1 <= t
        BY <3>6, <3>7, <4>2
      <4>8. 2 * (x + y) <= t * (t + 1) BY <4>6, <4>7, SumsGrow
      <4>9. QED BY <3>3, <4>1, <4>8
    <3>8. CASE m = l /\ l # d
      <4>1. Pile(v, m) = x BY <3>4, <3>8, <1>0 DEF Pile
      <4>2. Pile(v, m)' = x + y BY <1>11, <3>4, <3>5, <3>8
      <4>3. 2 * x <= s * (s + 1) BY <1>5, <2>2, <3>2, <4>1
      <4>4. y <= t BY <1>8, <3>3, <3>5, <3>8
      <4>5. 2 * (x + y) <= t * (t + 1) BY <3>6, <3>8, <4>3, <4>4, SumAndMore
      <4>6. QED BY <3>3, <4>2, <4>5
    <3>9. CASE m # l
      <4>1. Pile(v, m)' = x BY <1>11, <3>4, <3>9
      <4>2. Pile(v, m) \in Nat /\ x <= Pile(v, m) BY <1>5, <1>7, <3>4 DEF Pile
      <4>3. PICK p \in Nat : p = Pile(v, m) BY <4>2
      <4>4. 2 * p <= s * (s + 1) BY <1>5, <2>2, <3>2, <4>3
      <4>5. 2 * p <= t * (t + 1) BY <3>6, <4>4, SumsGrow
      <4>6. 2 * x <= t * (t + 1) BY <4>2, <4>3, <4>5
      <4>7. QED BY <3>3, <4>1, <4>6
    <3>10. QED BY <3>7, <3>8, <3>9
  <2>4. LostFit(v)'
    <3>1. PagesOf(v)' \ Painted(v)' \subseteq PagesOf(v) \ Painted(v) OBVIOUS
    <3>2. QED BY <1>0, <1>1, <1>4, <1>13, <2>1, <3>1, ListLost
  <2>5. QED BY <1>3, <1>5, <1>10, <2>3, <2>4 DEF Bounded
<1>14. QED BY <1>12, <1>13

(* What callers hold of the pool, kept by every step.                       *)
PagesFit == Apart /\ \A v \in Viewports : Bounded(v)

(* What a step of caller r does to the others: one of them is woken at most.*)
Others(r) ==
  \A s \in Renders \ {r} :
    render'[s] = render[s] \/ (render[s].pc = "waiting" /\ render'[s].pc = "woken")

LEMMA OthersStay ==
  ASSUME NEW r, Others(r), NEW v
  PROVE  /\ r \in Opens(v)' => Opens(v)' = Opens(v) \cup {r}
         /\ r \notin Opens(v)' => Opens(v)' = Opens(v) \ {r}
         /\ r \in Paints(v)' => Paints(v)' = Paints(v) \cup {r}
         /\ r \notin Paints(v)' => Paints(v)' = Paints(v) \ {r}
         /\ \A s \in (Opens(v) \cup Paints(v)) \ {r} : render'[s] = render[s]
BY DEF Others, Opens, Paints, In

LEMMA Elsewhere ==
  ASSUME NEW r, Others(r), NEW w, r \notin Opens(w) \cup Paints(w),
         r \notin Opens(w)' \cup Paints(w)', idle'[w] = idle[w], PagesOf(w)' = PagesOf(w),
         \A l \in Mine(w) : lists'[l] = lists[l]
  PROVE  Same(w)
<1>1. /\ Opens(w)' = Opens(w) \ {r} /\ Paints(w)' = Paints(w) \ {r}
      /\ \A s \in (Opens(w) \cup Paints(w)) \ {r} : render'[s] = render[s]
  <2>1. r \notin Opens(w)' /\ r \notin Paints(w)' OBVIOUS
  <2>2. QED BY <2>1, OthersStay
<1>2. QED BY <1>1 DEF Same

(* A step at one viewport, that gives it no list of another.                *)
LEMMA StepAt ==
  ASSUME Parameters, TypeOK, PagesFit, NEW v \in Viewports, Bounded(v)',
         \A w \in Viewports \ {v} : Same(w),
         Mine(v)' \subseteq Mine(v) \cup {Len(lists) + 1}
  PROVE  PagesFit'
<1>1. ASSUME NEW w \in Viewports \ {v} PROVE Bounded(w)' /\ Mine(w)' = Mine(w)
  BY <1>1, SameBounded DEF PagesFit
<1>2. \A w \in Viewports : Mine(w) \subseteq 1..Len(lists) BY Finite
<1>3. Len(lists) \in Nat BY ListTypes
<1>4. \A w \in Viewports : Len(lists) + 1 \notin Mine(w) BY <1>2, <1>3
<1>5. ASSUME NEW w \in Viewports, NEW u \in Viewports, w # u
      PROVE  Mine(w)' \cap Mine(u)' = {}
  <2>1. Mine(w) \cap Mine(u) = {} BY <1>5 DEF PagesFit, Apart
  <2>2. CASE w = v BY <1>1, <1>4, <1>5, <2>1, <2>2
  <2>3. CASE u = v BY <1>1, <1>4, <1>5, <2>1, <2>3
  <2>4. CASE w # v /\ u # v BY <1>1, <2>1, <2>4
  <2>5. QED BY <2>2, <2>3, <2>4
<1>6. QED BY <1>1, <1>5 DEF PagesFit, Apart

(* An acquire that opens a page, into the viewport's list or its own.       *)
LEMMA FitOpening ==
  ASSUME Parameters, TypeOK, TypeOK', SlotsAreRenders, SlotsAreRenders', PagesFit,
         NEW r \in Renders, NEW v \in Viewports, render[r].pc \in {"none", "woken"},
         NEW free, render' = [render EXCEPT ![r] = Opening(v, free)],
         UNCHANGED <<idle, pages>>,
         \/ idle[v] = NoList /\ free = Len(lists) + 1 /\ lists' = Append(lists, <<>>)
         \/ idle[v] # NoList /\ free = idle[v] /\ lists[free] = <<>> /\ lists' = lists
  PROVE  PagesFit'
<1>1. /\ Others(r) /\ render'[r] = Opening(v, free)
      /\ render'[r].pc = "opening" /\ render'[r].viewport = v /\ render'[r].free = free
  BY DEF Others, TypeOK, Opening
<1>2. /\ \A l \in 1..Len(lists) : lists'[l] = lists[l]
      /\ idle[v] = NoList => lists'[free] = <<>>
  <2>1. <<>> \in Seq(1..Len(pages)) /\ lists \in Seq(Seq(1..Len(pages)))
    BY EmptySeq DEF TypeOK
  <2>2. CASE lists' = Append(lists, <<>>) /\ free = Len(lists) + 1
    BY <2>1, <2>2, AppendProperties
  <2>3. QED BY <2>2
<1>3. \A w : r \notin Opens(w) \cup Paints(w) BY DEF Opens, Paints, In
<1>4. Opens(v)' = Opens(v) \cup {r} /\ Paints(v)' = Paints(v)
  <2>1. r \in Opens(v)' /\ r \notin Paints(v)' BY <1>1 DEF Opens, Paints, In
  <2>2. Opens(v)' = Opens(v) \cup {r} /\ Paints(v)' = Paints(v) \ {r}
    BY <1>1, <2>1, OthersStay
  <2>3. QED BY <1>3, <2>2
<1>5. \A s \in Opens(v) \cup Paints(v) : render'[s] = render[s] BY <1>1, <1>3, OthersStay
<1>6. PagesOf(v)' = PagesOf(v) /\ Painted(v)' = Painted(v)
  BY <1>4, <1>5 DEF PagesOf, Painted
<1>7. ASSUME NEW w \in Viewports \ {v} PROVE Same(w)
  <2>1. r \notin Opens(w)' \cup Paints(w)' BY <1>1, <1>7 DEF Opens, Paints, In
  <2>2. Mine(w) \subseteq 1..Len(lists) BY Finite
  <2>3. QED BY <1>1, <1>2, <1>3, <2>1, <2>2, Elsewhere DEF PagesOf
<1>8. Mine(v)' = Mine(v) \cup {free}
  BY <1>1, <1>3, <1>4, <1>5 DEF Mine
<1>9. CASE idle[v] = NoList /\ free = Len(lists) + 1 /\ lists' = Append(lists, <<>>)
  <2>1. Unset(v) BY <1>9 DEF PagesFit, Bounded
  <2>2. lists'[free] = <<>> BY <1>2, <1>9
  <2>3. Mine(v) \subseteq 1..Len(lists) BY Finite
  <2>4. Unset(v)' BY <1>2, <1>4, <1>6, <1>8, <2>1, <2>2, <2>3 DEF Unset
  <2>5. Bounded(v)' BY <1>9, <2>4, StaysUnset
  <2>6. QED BY <1>7, <1>8, <1>9, <2>5, StepAt
<1>10. CASE idle[v] # NoList /\ free = idle[v] /\ lists[free] = <<>> /\ lists' = lists
  <2>1. free \in Mine(v) BY <1>10 DEF Mine
  <2>2. Bounded(v)'
    BY <1>1, <1>3, <1>4, <1>5, <1>6, <1>10, OneMoreOpens DEF PagesFit
  <2>3. QED BY <1>7, <1>8, <2>1, <2>2, StepAt
<1>11. QED BY <1>9, <1>10

(* A list without its last page.                                            *)
LEMMA Popped ==
  ASSUME NEW S, NEW list \in Seq(S), list # <<>>
  PROVE  /\ SubSeq(list, 1, Len(list) - 1) \in Seq(S)
         /\ Len(SubSeq(list, 1, Len(list) - 1)) = Len(list) - 1
         /\ \A i \in 1..(Len(list) - 1) : SubSeq(list, 1, Len(list) - 1)[i] = list[i]
<1>1. PICK n \in Nat : n = Len(list) - 1 /\ n + 1 = Len(list) BY EmptySeq
<1>2. \A i \in 1..n : i \in 1..Len(list) BY <1>1
<1>3. \A i \in 1..n : list[i] \in S BY <1>2, ElementOfSeq
<1>4. /\ SubSeq(list, 1, n) \in Seq(S) /\ Len(SubSeq(list, 1, n)) = n
      /\ \A i \in 1..n : SubSeq(list, 1, n)[i] = list[i]
  BY <1>3, SubSeqProperties
<1>5. QED BY <1>1, <1>4

(* An acquire that finds an idle page.                                      *)
LEMMA FitTaking ==
  ASSUME Parameters, TypeOK, TypeOK', SlotsAreRenders, SlotsAreRenders', PagesFit,
         NEW r \in Renders, NEW v \in Viewports, render[r].pc \in {"none", "woken"},
         NEW l, l = idle[v], l # NoList, lists[l] # <<>>,
         render' = [render EXCEPT ![r] = Painting(v, lists[l][Len(lists[l])])],
         lists' = [lists EXCEPT ![l] = SubSeq(lists[l], 1, Len(lists[l]) - 1)],
         UNCHANGED <<idle, pages>>
  PROVE  PagesFit'
<1> DEFINE n == Len(lists[l])
           p == lists[l][n]
<1>1. /\ Others(r) /\ render'[r] = Painting(v, p)
      /\ render'[r].pc = "painting" /\ render'[r].viewport = v /\ render'[r].page = p
  BY DEF Others, TypeOK, Painting
<1>2. l \in 1..Len(lists) /\ lists[l] \in Seq(1..Len(pages)) /\ n \in Nat \ {0}
      /\ DOMAIN lists[l] = 1..n /\ lists \in Seq(Seq(1..Len(pages)))
      /\ \A i \in 1..n : lists[l][i] \in 1..Len(pages)
  BY ListTypes, EmptySeq DEF TypeOK
<1>3. SubSeq(lists[l], 1, n - 1) \in Seq(1..Len(pages))
      /\ Len(SubSeq(lists[l], 1, n - 1)) = n - 1
      /\ \A i \in 1..(n - 1) : SubSeq(lists[l], 1, n - 1)[i] = lists[l][i]
  BY <1>2, Popped
<1>4. /\ \A m \in 1..Len(lists) : m # l => lists'[m] = lists[m]
      /\ lists'[l] = SubSeq(lists[l], 1, n - 1)
  BY <1>2, <1>3, ExceptSeq
<1>5. Len(lists'[l]) = n - 1 /\ DOMAIN lists'[l] = 1..(n - 1)
      /\ \A i \in 1..(n - 1) : lists'[l][i] = lists[l][i]
  BY <1>3, <1>4, LenProperties
<1>6. InList(l) \subseteq InList(l)' \cup {p}
  <2>1. \A i \in 1..n : i = n \/ i \in 1..(n - 1) BY <1>2
  <2>2. InList(l) = {lists[l][i] : i \in 1..n} BY <1>2 DEF InList
  <2>3. InList(l)' = {lists'[l][i] : i \in 1..(n - 1)} BY <1>5 DEF InList
  <2>4. QED BY <1>5, <2>1, <2>2, <2>3
<1>7. \A w : r \notin Opens(w) \cup Paints(w) BY DEF Opens, Paints, In
<1>8. Opens(v)' = Opens(v) /\ Paints(v)' = Paints(v) \cup {r}
  <2>1. r \notin Opens(v)' /\ r \in Paints(v)' BY <1>1 DEF Opens, Paints, In
  <2>2. Opens(v)' = Opens(v) \ {r} /\ Paints(v)' = Paints(v) \cup {r}
    BY <1>1, <2>1, OthersStay
  <2>3. QED BY <1>7, <2>2
<1>9. \A s \in Opens(v) \cup Paints(v) : render'[s] = render[s] BY <1>1, <1>7, OthersStay
<1>10. PagesOf(v)' = PagesOf(v) /\ Painted(v)' = Painted(v) \cup {p}
  BY <1>1, <1>7, <1>8, <1>9 DEF PagesOf, Painted
<1>11. l \in Mine(v) /\ Mine(v) \subseteq 1..Len(lists) BY Finite DEF Mine
<1>12. ASSUME NEW w \in Viewports \ {v} PROVE Same(w)
  <2>1. r \notin Opens(w)' \cup Paints(w)' BY <1>1, <1>12 DEF Opens, Paints, In
  <2>2. Mine(w) \subseteq 1..Len(lists) BY Finite
  <2>3. l \notin Mine(w) BY <1>11, <1>12 DEF PagesFit, Apart
  <2>4. QED BY <1>1, <1>4, <1>7, <2>1, <2>2, <2>3, Elsewhere DEF PagesOf
<1>13. SameOpens(v) BY <1>8, <1>9 DEF SameOpens
<1>14. Mine(v)' = Mine(v) BY <1>13, SameMine
<1>15. Pile(v, idle[v])' = Pile(v, idle[v])
  <2>1. r \notin Paints(v) /\ IsFiniteSet(Paints(v)) /\ Cardinality(Paints(v)) \in Nat
    BY <1>7, Finite
  <2>2. Cardinality(Paints(v)') = Cardinality(Paints(v)) + 1 BY <1>8, <2>1, FS_AddElement
  <2>3. Pile(v, idle[v]) = n + Cardinality(Paints(v)) BY DEF Pile
  <2>4. Pile(v, idle[v])' = n - 1 + Cardinality(Paints(v)') BY <1>5 DEF Pile
  <2>5. QED BY <1>2, <2>1, <2>2, <2>3, <2>4
<1>16. Gone(v)' \subseteq Gone(v)
  <2>1. ASSUME NEW m \in Mine(v) PROVE InList(m) \subseteq InList(m)' \cup {p}
    <3>1. CASE m = l BY <1>6, <3>1
    <3>2. CASE m # l
      <4>1. lists'[m] = lists[m] BY <1>4, <1>11, <3>2
      <4>2. QED BY <4>1 DEF InList
    <3>3. QED BY <3>1, <3>2
  <2>2. QED BY <1>10, <1>14, <2>1 DEF Gone
<1>17. Bounded(v)'
  <2>1. \A m \in Mine(v) \ {idle[v]} : lists'[m] = lists[m] BY <1>4, <1>11
  <2>2. QED BY <1>10, <1>13, <1>15, <1>16, <2>1, PageMoves DEF PagesFit
<1>18. QED BY <1>12, <1>14, <1>17, StepAt

(* The new page is open.                                                    *)
LEMMA FitOpened ==
  ASSUME Parameters, TypeOK, TypeOK', SlotsAreRenders, SlotsAreRenders', PagesFit,
         NEW r \in Renders, Opened(r)
  PROVE  PagesFit'
<1>0. PICK v, free, page :
        v = render[r].viewport /\ free = render[r].free /\ page = Len(pages) + 1
  OBVIOUS
<1>1. v \in Viewports /\ render[r].pc = "opening" BY <1>0, Fields DEF Opened, Openings
<1>2. /\ pages' = Append(pages, v) /\ idle' = [idle EXCEPT ![v] = free]
      /\ render' = [render EXCEPT ![r] = Painting(v, page)] /\ lists' = lists
  BY <1>0 DEF Opened
<1>3. /\ Others(r) /\ render'[r].pc = "painting" /\ render'[r].viewport = v
      /\ render'[r].page = page
  BY <1>2 DEF Others, TypeOK, Painting
<1>4. r \in Opens(v) /\ r \notin Paints(v) BY <1>0, <1>1 DEF Opens, Paints, In
<1>5. Opens(v)' = Opens(v) \ {r} /\ Paints(v)' = Paints(v) \cup {r}
  <2>1. r \notin Opens(v)' /\ r \in Paints(v)' BY <1>3 DEF Opens, Paints, In
  <2>2. QED BY <1>3, <2>1, OthersStay
<1>6. \A s \in (Opens(v) \cup Paints(v)) \ {r} : render'[s] = render[s]
  BY <1>3, OthersStay
<1>7. Painted(v)' = Painted(v) \cup {page}
  BY <1>3, <1>4, <1>5, <1>6 DEF Painted
<1>8. /\ DOMAIN pages = 1..Len(pages) /\ DOMAIN pages' = 1..page /\ page \notin DOMAIN pages
      /\ page \in Nat /\ Len(pages) \in Nat /\ page = Len(pages) + 1
      /\ pages'[page] = v /\ \A p \in DOMAIN pages : pages'[p] = pages[p]
  <2>1. pages \in Seq(Viewports) BY DEF TypeOK
  <2>2. /\ pages' \in Seq(Viewports) /\ Len(pages') = Len(pages) + 1
        /\ \A p \in 1..Len(pages) : pages'[p] = pages[p]
        /\ pages'[Len(pages) + 1] = v
    BY <1>1, <1>2, <2>1, AppendProperties
  <2>3. /\ DOMAIN pages = 1..Len(pages) /\ Len(pages) \in Nat
        /\ DOMAIN pages' = 1..Len(pages')
    BY <2>1, <2>2, LenProperties
  <2>4. QED BY <1>0, <2>2, <2>3
<1>9. DOMAIN pages' = DOMAIN pages \cup {page} BY <1>8
<1>10. PagesOf(v)' = PagesOf(v) \cup {page} BY <1>8, <1>9 DEF PagesOf
<1>11. idle'[v] = free /\ \A w \in Viewports \ {v} : idle'[w] = idle[w]
  BY <1>1, <1>2 DEF TypeOK
<1>12. ASSUME NEW w \in Viewports \ {v} PROVE Same(w)
  <2>1. r \notin Opens(w) \cup Paints(w) BY <1>0, <1>12 DEF Opens, Paints
  <2>2. r \notin Opens(w)' \cup Paints(w)' BY <1>3, <1>12 DEF Opens, Paints
  <2>3. PagesOf(w)' = PagesOf(w) BY <1>8, <1>9, <1>12 DEF PagesOf
  <2>4. QED BY <1>2, <1>3, <1>11, <2>1, <2>2, <2>3, Elsewhere
<1>13. Bounded(v)' /\ Mine(v)' \subseteq Mine(v)
  <2>1. \A s \in Opens(v) \ {r} : render'[s].free = render[s].free BY <1>6
  <2>2. idle'[v] = render[r].free BY <1>0, <1>11
  <2>3. Bounded(v) BY <1>1 DEF PagesFit
  <2>4. QED BY <1>1, <1>2, <1>4, <1>5, <1>7, <1>10, <2>1, <2>2, <2>3, PageOpens
<1>14. QED BY <1>1, <1>12, <1>13, StepAt

(* A slot given back wakes one waiter, who opens nothing and paints nothing.*)
LEMMA WakingOthers ==
  ASSUME TypeOK, InLine, NEW r \in Renders, render[r].pc \in {"opening", "painting"},
         WakeOne([render EXCEPT ![r] = Nothing])
  PROVE  Others(r) /\ \A w : r \notin Opens(w)' \cup Paints(w)'
<1> DEFINE now == [render EXCEPT ![r] = Nothing]
<1>1. \A i \in 1..Len(waiting) : waiting[i] \in Renders /\ waiting[i] # r
  BY ElementOfSeq DEF TypeOK, InLine
<1>2. now \in [Renders -> States] /\ Awaiting \subseteq States
      /\ \A i \in 1..Len(waiting) : now[waiting[i]] = render[waiting[i]]
  BY <1>1 DEF TypeOK, States
<1>3. WakeOne(now) OBVIOUS
<1>4. \A s \in Renders \ {r} : now[s] = render[s] BY DEF TypeOK
<1>5. now[r] = Nothing BY DEF TypeOK
<1> HIDE DEF now
<1>6. /\ waiting = <<>> => render' = now
      /\ waiting # <<>> =>
           /\ Head(waiting) \in Renders /\ Head(waiting) = waiting[1]
           /\ render[Head(waiting)].pc = "waiting"
           /\ render' = [now EXCEPT ![Head(waiting)].pc = "woken"]
           /\ render'[Head(waiting)].pc = "woken"
  BY <1>2, <1>3, Woken
<1>7. CASE waiting = <<>> BY <1>4, <1>5, <1>6, <1>7 DEF Others, Opens, Paints, In, Nothing
<1>8. CASE waiting # <<>>
  <2> DEFINE h == Head(waiting)
  <2>1. h # r /\ h \in Renders /\ render[h].pc = "waiting" /\ render'[h].pc = "woken"
    BY <1>6, <1>8
  <2>2. \A s \in Renders \ {r, h} : render'[s] = render[s] BY <1>2, <1>4, <1>6, <1>8
  <2>3. render'[r].pc = "none" BY <1>2, <1>5, <1>6, <1>8, <2>1 DEF Nothing
  <2>4. QED BY <2>1, <2>2, <2>3 DEF Others, Opens, Paints, In
<1>9. QED BY <1>7, <1>8

(* A page will not open.                                                    *)
LEMMA FitFails ==
  ASSUME Parameters, TypeOK, TypeOK', SlotsAreRenders, SlotsAreRenders', InLine, PagesFit,
         NEW r \in Renders, OpenFails(r)
  PROVE  PagesFit'
<1>0. PICK v : v = render[r].viewport OBVIOUS
<1>1. v \in Viewports /\ render[r].pc = "opening" BY <1>0, Fields DEF OpenFails, Openings
<1>2. Others(r) /\ \A w : r \notin Opens(w)' /\ r \notin Paints(w)'
  BY <1>1, WakingOthers DEF OpenFails
<1>3. r \in Opens(v) /\ r \notin Paints(v) BY <1>0, <1>1 DEF Opens, Paints, In
<1>4. Opens(v)' = Opens(v) \ {r} /\ Paints(v)' = Paints(v)
  <2>1. Opens(v)' = Opens(v) \ {r} /\ Paints(v)' = Paints(v) \ {r} BY <1>2, OthersStay
  <2>2. QED BY <1>3, <2>1
<1>5. \A s \in (Opens(v) \cup Paints(v)) \ {r} : render'[s] = render[s]
  BY <1>2, OthersStay
<1>6. idle' = idle /\ lists' = lists /\ pages' = pages BY DEF OpenFails
<1>7. /\ Painted(v)' = Painted(v) /\ \A w : PagesOf(w)' = PagesOf(w)
  BY <1>3, <1>4, <1>5, <1>6 DEF Painted, PagesOf
<1>8. ASSUME NEW w \in Viewports \ {v} PROVE Same(w)
  <2>1. r \notin Opens(w) \cup Paints(w) BY <1>0, <1>8 DEF Opens, Paints
  <2>2. QED BY <1>2, <1>6, <1>7, <2>1, Elsewhere
<1>9. Bounded(v)' /\ Mine(v)' \subseteq Mine(v)
  BY <1>1, <1>3, <1>4, <1>5, <1>6, <1>7, OpenEnds DEF PagesFit
<1>10. QED BY <1>1, <1>8, <1>9, StepAt

(* A page goes back to its viewport's list.                                 *)
LEMMA FitRelease ==
  ASSUME Parameters, TypeOK, TypeOK', SlotsAreRenders, SlotsAreRenders', InLine, PagesFit,
         NEW r \in Renders, Release(r)
  PROVE  PagesFit'
<1>0. PICK v, l, p : v = render[r].viewport /\ l = idle[v] /\ p = render[r].page OBVIOUS
<1>1. v \in Viewports /\ render[r].pc = "painting" /\ p \in 1..Len(pages)
  BY <1>0, Fields DEF Release, Paintings
<1>2. Others(r) /\ \A w : r \notin Opens(w)' /\ r \notin Paints(w)'
  BY <1>1, WakingOthers DEF Release
<1>3. r \notin Opens(v) /\ r \in Paints(v) BY <1>0, <1>1 DEF Opens, Paints, In
<1>4. Opens(v)' = Opens(v) /\ Paints(v)' = Paints(v) \ {r}
  <2>1. Opens(v)' = Opens(v) \ {r} /\ Paints(v)' = Paints(v) \ {r} BY <1>2, OthersStay
  <2>2. QED BY <1>3, <2>1
<1>5. \A s \in (Opens(v) \cup Paints(v)) \ {r} : render'[s] = render[s]
  BY <1>2, OthersStay
<1>6. l # NoList BY <1>0, <1>1, <1>3 DEF PagesFit, Bounded, Unset
<1>7. idle' = idle /\ pages' = pages /\ lists' = [lists EXCEPT ![l] = Append(lists[l], p)]
  BY <1>0, <1>6 DEF Release
<1>8. Painted(v) \subseteq Painted(v)' \cup {p} /\ \A w : PagesOf(w)' = PagesOf(w)
  BY <1>0, <1>4, <1>5, <1>7 DEF Painted, PagesOf
<1>9. l \in Mine(v) /\ Mine(v) \subseteq 1..Len(lists)
  BY <1>0, <1>1, <1>6, Finite DEF Mine
<1>10. /\ lists \in Seq(Seq(1..Len(pages))) /\ lists[l] \in Seq(1..Len(pages))
       /\ Len(lists[l]) \in Nat /\ DOMAIN lists[l] = 1..Len(lists[l])
  BY <1>9, ListTypes DEF TypeOK
<1>11. /\ Append(lists[l], p) \in Seq(1..Len(pages))
       /\ Len(Append(lists[l], p)) = Len(lists[l]) + 1
       /\ \A i \in 1..Len(lists[l]) : Append(lists[l], p)[i] = lists[l][i]
       /\ Append(lists[l], p)[Len(lists[l]) + 1] = p
  BY <1>1, <1>10, AppendProperties
<1>12. /\ \A m \in 1..Len(lists) : m # l => lists'[m] = lists[m]
       /\ lists'[l] = Append(lists[l], p)
  BY <1>7, <1>9, <1>10, <1>11, ExceptSeq
<1>13. DOMAIN lists'[l] = 1..(Len(lists[l]) + 1) BY <1>11, <1>12, LenProperties
<1>14. InList(l) \cup {p} \subseteq InList(l)'
  <2>1. ASSUME NEW i \in 1..Len(lists[l]) PROVE lists[l][i] \in InList(l)'
    <3>1. i \in DOMAIN lists'[l] /\ lists'[l][i] = lists[l][i]
      BY <1>10, <1>11, <1>12, <1>13
    <3>2. QED BY <3>1 DEF InList
  <2>2. p \in InList(l)'
    <3>1. Len(lists[l]) + 1 \in DOMAIN lists'[l] /\ lists'[l][Len(lists[l]) + 1] = p
      BY <1>10, <1>11, <1>12, <1>13
    <3>2. QED BY <3>1 DEF InList
  <2>3. QED BY <1>10, <2>1, <2>2 DEF InList
<1>15. ASSUME NEW w \in Viewports \ {v} PROVE Same(w)
  <2>1. r \notin Opens(w) \cup Paints(w) BY <1>0, <1>15 DEF Opens, Paints
  <2>2. Mine(w) \subseteq 1..Len(lists) BY Finite
  <2>3. l \notin Mine(w) BY <1>1, <1>9, <1>15 DEF PagesFit, Apart
  <2>4. \A m \in Mine(w) : lists'[m] = lists[m] BY <1>12, <2>2, <2>3
  <2>5. QED BY <1>2, <1>7, <1>8, <2>1, <2>4, Elsewhere
<1>16. SameOpens(v) BY <1>3, <1>4, <1>5 DEF SameOpens
<1>17. Mine(v)' = Mine(v) BY <1>7, <1>16, SameMine
<1>18. Pile(v, idle[v])' = Pile(v, idle[v])
  <2>1. IsFiniteSet(Paints(v)) /\ Cardinality(Paints(v)) \in Nat BY <1>1, Finite
  <2>2. Cardinality(Paints(v)') = Cardinality(Paints(v)) - 1
    BY <1>3, <1>4, <2>1, FS_RemoveElement
  <2>3. Pile(v, idle[v]) = Len(lists[l]) + Cardinality(Paints(v)) BY <1>0 DEF Pile
  <2>4. Pile(v, idle[v])' = Len(lists[l]) + 1 + Cardinality(Paints(v)')
    BY <1>0, <1>7, <1>11, <1>12 DEF Pile
  <2>5. Len(lists[l]) \in Nat BY <1>10
  <2>6. QED BY <2>1, <2>2, <2>3, <2>4, <2>5
<1>19. Gone(v)' \subseteq Gone(v)
  <2>1. ASSUME NEW m \in Mine(v) PROVE InList(m) \subseteq InList(m)'
    <3>1. CASE m = l BY <1>14, <3>1
    <3>2. CASE m # l
      <4>1. lists'[m] = lists[m] BY <1>9, <1>12, <3>2
      <4>2. QED BY <4>1 DEF InList
    <3>3. QED BY <3>1, <3>2
  <2>2. p \in UNION {InList(m)' : m \in Mine(v)} BY <1>9, <1>14
  <2>3. QED BY <1>8, <1>17, <2>1, <2>2 DEF Gone
<1>20. Bounded(v)'
  <2>1. \A m \in Mine(v) \ {idle[v]} : lists'[m] = lists[m] BY <1>0, <1>9, <1>12
  <2>2. QED
    BY <1>0, <1>1, <1>6, <1>7, <1>8, <1>16, <1>18, <1>19, <2>1, PageMoves DEF PagesFit
<1>21. QED BY <1>1, <1>15, <1>17, <1>20, StepAt

(* At first there is no list, no page and no caller.                        *)
LEMMA FitInit == ASSUME Parameters, Init PROVE PagesFit
<1>1. \A v \in Viewports : Opens(v) = {} /\ Paints(v) = {} /\ idle[v] = NoList
  BY DEF Init, Opens, Paints, In, Nothing
<1>2. \A v \in Viewports : Mine(v) = {} BY <1>1 DEF Mine
<1>3. \A v : PagesOf(v) = {} BY DEF PagesOf, Init
<1>4. ASSUME NEW v \in Viewports PROVE Bounded(v)
  <2>1. Unset(v) BY <1>1, <1>2, <1>3 DEF Unset
  <2>2. Cardinality(PagesOf(v)) = 0 /\ Cardinality(Opens(v)) = 0
    BY <1>1, <1>3, FS_EmptySet
  <2>3. Limit \in Nat \ {0} BY DEF Parameters
  <2>4. (Limit - 1) * Limit * (Limit + 1) >= 0 BY <2>3
  <2>5. TotalFits(v) BY <2>2, <2>3, <2>4 DEF TotalFits
  <2>6. QED BY <1>1, <2>1, <2>5 DEF Bounded
<1>5. QED BY <1>2, <1>4 DEF PagesFit, Apart

LEMMA FitNext ==
  ASSUME Parameters, IInv, PagesFit, [Next]_vars
  PROVE  PagesFit'
<1>0. TypeOK /\ TypeOK' /\ SlotsAreRenders /\ SlotsAreRenders' /\ InLine
  BY NextInv DEF IInv
<1>1. ASSUME NEW r \in Renders, NEW v \in Viewports, render[r].pc \in {"none", "woken"},
             TakeOrWait(r, v)
      PROVE  PagesFit'
  <2>0. PICK l : l = idle[v] OBVIOUS
  <2>1. CASE render' = [render EXCEPT ![r] = At("waiting", v)] /\ UNCHANGED <<idle, lists, pages>>
    <3>1. Others(r) /\ render'[r].pc = "waiting" BY <1>0, <2>1 DEF Others, TypeOK, At
    <3>2. ASSUME NEW w \in Viewports PROVE Same(w)
      <4>1. r \notin Opens(w) \cup Paints(w) BY <1>1 DEF Opens, Paints, In
      <4>2. r \notin Opens(w)' \cup Paints(w)' BY <3>1 DEF Opens, Paints, In
      <4>3. QED BY <2>1, <3>1, <4>1, <4>2, Elsewhere DEF PagesOf
    <3>3. Bounded(v)' /\ Mine(v)' = Mine(v) BY <3>2, SameBounded DEF PagesFit
    <3>4. QED BY <1>0, <3>2, <3>3, StepAt
  <2>2. CASE Take(r, v) /\ l = NoList
    <3>1. /\ render' = [render EXCEPT ![r] = Opening(v, Len(lists) + 1)]
          /\ lists' = Append(lists, <<>>) /\ UNCHANGED <<idle, pages>>
      BY <2>0, <2>2 DEF Take
    <3>2. QED BY <1>0, <1>1, <2>0, <2>2, <3>1, FitOpening
  <2>3. CASE Take(r, v) /\ l # NoList /\ lists[l] = <<>>
    <3>1. /\ render' = [render EXCEPT ![r] = Opening(v, l)]
          /\ lists' = lists /\ UNCHANGED <<idle, pages>>
      BY <2>0, <2>3 DEF Take
    <3>2. QED BY <1>0, <1>1, <2>0, <2>3, <3>1, FitOpening
  <2>4. CASE Take(r, v) /\ l # NoList /\ lists[l] # <<>>
    <3>1. /\ render' = [render EXCEPT ![r] = Painting(v, lists[l][Len(lists[l])])]
          /\ lists' = [lists EXCEPT ![l] = SubSeq(lists[l], 1, Len(lists[l]) - 1)]
          /\ UNCHANGED <<idle, pages>>
      BY <2>0, <2>4 DEF Take
    <3>2. QED BY <1>0, <1>1, <2>0, <2>4, <3>1, FitTaking
  <2>5. QED BY <1>1, <2>1, <2>2, <2>3, <2>4 DEF TakeOrWait
<1>2. ASSUME NEW r \in Renders, Acquire(r) PROVE PagesFit'
  BY <1>1, <1>2 DEF Acquire, Nothing
<1>3. ASSUME NEW r \in Renders, Resume(r) PROVE PagesFit'
  <2>1. render[r].viewport \in Viewports BY <1>0, <1>3, Fields DEF Resume, Awaiting
  <2>2. QED BY <1>1, <1>3, <2>1 DEF Resume
<1>4. ASSUME NEW r \in Renders, Opened(r) PROVE PagesFit' BY <1>0, <1>4, FitOpened
<1>5. ASSUME NEW r \in Renders, OpenFails(r) PROVE PagesFit' BY <1>0, <1>5, FitFails
<1>6. ASSUME NEW r \in Renders, Release(r) PROVE PagesFit' BY <1>0, <1>6, FitRelease
<1>7. CASE UNCHANGED vars
  <2>1. \A w \in Viewports : Same(w) BY <1>7 DEF vars, Same, Opens, Paints, In, PagesOf
  <2>2. \A w \in Viewports : Bounded(w)' /\ Mine(w)' = Mine(w)
    BY <2>1, SameBounded DEF PagesFit
  <2>3. QED BY <2>2 DEF PagesFit, Apart
<1>8. QED BY <1>2, <1>3, <1>4, <1>5, <1>6, <1>7 DEF Next

(* However many renders there are and however their opens overlap, a        *)
(* viewport has a number of contexts open that depends on the limit alone,  *)
(* and one more for each open that failed.                                  *)
THEOREM PagesBounded == ASSUME Parameters PROVE Spec => []PagesAreBounded
<1>1. IInv /\ PagesFit => PagesAreBounded
  <2>1. SUFFICES ASSUME IInv, PagesFit, NEW v \in Viewports
                 PROVE  6 * (Cardinality(PagesOf(v)) + halfOpen[v])
                          <= Limit * (Limit * Limit + 5) + 6 * failures[v]
    BY DEF PagesAreBounded, PagesOf
  <2>2. PICK p \in Nat, o \in Nat : p = Cardinality(PagesOf(v)) /\ o = Cardinality(Opens(v))
    BY <2>1, Finite DEF IInv
  <2>3. 6 * (p + o - Limit) <= (Limit - 1) * Limit * (Limit + 1)
    BY <2>1, <2>2 DEF PagesFit, Bounded, TotalFits
  <2>4. Limit \in Nat BY DEF Parameters
  <2>5. (Limit - 1) * Limit * (Limit + 1) = Limit * (Limit * Limit + 5) - 6 * Limit BY <2>4
  <2>6. PICK h \in Nat, f \in Nat : h = halfOpen[v] /\ f = failures[v] /\ h <= f
    BY <2>1 DEF IInv, TypeOK, LeftByFailures
  <2>7. PICK bound \in Int : bound = Limit * (Limit * Limit + 5) BY <2>4
  <2>8. 6 * (p + o - Limit) <= bound - 6 * Limit BY <2>3, <2>5, <2>7
  <2>9. 6 * (p + h) <= bound + 6 * f BY <2>4, <2>6, <2>8
  <2>10. QED BY <2>2, <2>6, <2>7, <2>9
<1>2. IInv => TypeOK BY DEF IInv
<1>3. QED BY <1>1, <1>2, FitInit, FitNext, Invariant, PTL DEF Spec

(* Renders never all wait: while one stands in the line, another paints, is *)
(* opening its page, or has been woken and is about to take its slot.       *)
THEOREM SomebodyMoves ==
  ASSUME Parameters
  PROVE  Spec => [](waiting # <<>> =>
                      \E r \in Renders : render[r].pc \in {"opening", "painting", "woken"})
<1>1. ASSUME IInv, waiting # <<>>
      PROVE  \E r \in Renders : render[r].pc \in {"opening", "painting", "woken"}
  <2>1. SUFFICES ASSUME In("opening") \cup In("painting") = {}, In("woken") = {}
                 PROVE  FALSE
    BY DEF In
  <2>2. leased = 0 /\ Cardinality(In("woken")) = 0
    BY <2>1, FS_EmptySet, <1>1 DEF IInv, SlotsAreRenders
  <2>3. leased + Cardinality(In("woken")) >= Limit BY <1>1 DEF IInv, NoLostWakeup
  <2>4. QED BY <2>2, <2>3 DEF Parameters
<1>2. QED BY <1>1, Invariant, PTL
-----------------------------------------------------------------------------
(* The observatory.                                                        *)

Report == [kind: {"opened", "closed"}] \cup [kind: {"waiting"}, at: Watch!Stops]
Still(t) == run[t].pc \in {"stopped", "wait"}

(* Nobody listens: nothing is held and nothing is on its way.               *)
Unheld == ~up => listed = <<>> /\ \A t \in Tests : said[t] = <<>> /\ entry[t] = Watch!New

(* The last thing a test said is where it stands, and once that has arrived *)
(* it is what is held of the test.                                          *)
LastWord(t) ==
  /\ Still(t) =>
       IF said[t] = <<>> THEN Watch!In(listed, t) => entry[t].waitingAt = run[t].stop
       ELSE said[t][Len(said[t])] = Watch!Waiting(run[t].stop)
  /\ run[t].pc = "ended" =>
       IF said[t] = <<>> THEN entry[t] = Watch!New ELSE said[t][Len(said[t])] = Watch!Closed

(* While no stop of a test expired, what is held or on its way of a stop is *)
(* of the one it stands at.                                                 *)
ThisStop(t) ==
  ~meant[t].expired =>
    /\ \A i \in 1..Len(said[t]) : said[t][i].kind = "waiting" =>
         i = Len(said[t]) /\ said[t][i].at = run[t].stop /\ Still(t)
    /\ entry[t].waitingAt # Watch!Nowhere =>
         /\ entry[t].waitingAt = run[t].stop /\ Still(t)
         /\ \A i \in 1..Len(said[t]) : said[t][i].kind # "waiting"
    /\ entry[t].releasing => entry[t].waitingAt # Watch!Nowhere /\ meant[t].stop = run[t].stop

Watched == Watch!TypeOK /\ Unheld /\ \A t \in Tests : LastWord(t) /\ ThisStop(t)

(* What is held and meant of a test, and what it says, is typed.            *)
LEMMA WatchTyped ==
  ASSUME Watch!TypeOK, NEW t \in Tests
  PROVE  /\ run[t].stop \in Watch!Stops /\ said[t] \in Seq(Report) /\ Len(said[t]) \in Nat
         /\ said[t] # <<>> => Len(said[t]) \in Nat \ {0}
         /\ \A i \in 1..Len(said[t]) : said[t][i] \in Report
         /\ entry[t] \in [waitingAt: Watch!Stops, releasing: BOOLEAN]
         /\ meant[t] \in [stop: Watch!Stops, expired: BOOLEAN]
BY ElementOfSeq, EmptySeq DEF Watch!TypeOK, Report

LEMMA ReportsTyped ==
  ASSUME Watch!Parameters, NEW n \in Watch!Stops
  PROVE  /\ Watch!Opened \in Report /\ Watch!Closed \in Report /\ Watch!Waiting(n) \in Report
         /\ Watch!Nowhere \in Watch!Stops
         /\ Watch!New \in [waitingAt: Watch!Stops, releasing: BOOLEAN]
         /\ Watch!Opened.kind = "opened" /\ Watch!Closed.kind = "closed"
         /\ Watch!Waiting(n).kind = "waiting" /\ Watch!Waiting(n).at = n
BY DEF Watch!Parameters, Watch!Stops, Report, Watch!Opened, Watch!Closed, Watch!Waiting,
       Watch!Nowhere, Watch!New

(* A report made is the last of those on their way, while somebody listens. *)
LEMMA SaysFacts ==
  ASSUME Watch!TypeOK, NEW t \in Tests, NEW report \in Report, Watch!Says(t, report)
  PROVE  /\ said' \in [Tests -> Seq(Report)]
         /\ \A s \in Tests \ {t} : said'[s] = said[s]
         /\ ~up => said'[t] = said[t]
         /\ up => /\ Len(said'[t]) = Len(said[t]) + 1 /\ said'[t] # <<>>
                  /\ said'[t][Len(said'[t])] = report
                  /\ \A i \in 1..Len(said[t]) : said'[t][i] = said[t][i]
<1>1. said \in [Tests -> Seq(Report)] BY DEF Watch!TypeOK, Report
<1>2. Append(said[t], report) \in Seq(Report)
      /\ Len(Append(said[t], report)) = Len(said[t]) + 1 /\ Append(said[t], report) # <<>>
      /\ \A i \in 1..Len(said[t]) : Append(said[t], report)[i] = said[t][i]
      /\ Append(said[t], report)[Len(said[t]) + 1] = report
  BY <1>1, AppendProperties
<1>3. QED BY <1>1, <1>2 DEF Watch!Says

(* A test nothing happens to, or that is forgotten.                         *)
LEMMA Undisturbed ==
  ASSUME NEW s \in Tests, LastWord(s), ThisStop(s),
         run'[s] = run[s], said'[s] = said[s], meant'[s] = meant[s],
         \/ entry'[s] = entry[s] /\ (Watch!In(listed, s)' => Watch!In(listed, s))
         \/ entry'[s] = Watch!New /\ ~Watch!In(listed, s)'
  PROVE  LastWord(s)' /\ ThisStop(s)'
BY DEF LastWord, ThisStop, Still, Watch!New, Watch!Nowhere

(* What a step of a test, which touches nothing of the others, must do.     *)
LEMMA OfOneTest ==
  ASSUME Watched, NEW t \in Tests, Watch!TypeOK', Unheld', UNCHANGED listed,
         \A s \in Tests \ {t} : /\ run'[s] = run[s] /\ said'[s] = said[s]
                               /\ entry'[s] = entry[s] /\ meant'[s] = meant[s],
         LastWord(t)', ThisStop(t)'
  PROVE  Watched'
<1>1. ASSUME NEW s \in Tests \ {t} PROVE LastWord(s)' /\ ThisStop(s)'
  <2>1. LastWord(s) /\ ThisStop(s) BY DEF Watched
  <2>2. Watch!In(listed, s)' => Watch!In(listed, s) BY DEF Watch!In
  <2>3. QED BY <2>1, <2>2, Undisturbed
<1>2. QED BY <1>1 DEF Watched

LEMMA OpenInv == ASSUME Watch!Parameters, Watched, NEW t \in Tests, Watch!Open(t) PROVE Watched'
<1>1. Watch!Opened \in Report /\ Watch!Opened.kind = "opened" BY DEF Report, Watch!Opened
<1>2. /\ said' \in [Tests -> Seq(Report)]
      /\ \A s \in Tests \ {t} : said'[s] = said[s]
      /\ ~up => said'[t] = said[t]
      /\ up => /\ Len(said'[t]) = Len(said[t]) + 1
               /\ said'[t][Len(said'[t])] = Watch!Opened
               /\ \A i \in 1..Len(said[t]) : said'[t][i] = said[t][i]
  BY <1>1, SaysFacts DEF Watch!Open, Watched
<1>3. run' = [run EXCEPT ![t].pc = "running"] /\ UNCHANGED <<listed, entry, up, meant>>
      /\ run[t].pc = "new"
  BY DEF Watch!Open, Watch!Goes, Watch!Observed
<1>4. Watch!TypeOK' BY <1>2, <1>3 DEF Watched, Watch!TypeOK, Report
<1>5. run'[t].pc = "running" /\ run'[t].stop = run[t].stop
      /\ \A s \in Tests \ {t} : run'[s] = run[s]
  BY <1>3 DEF Watched, Watch!TypeOK
<1>6. Unheld' BY <1>2, <1>3 DEF Watched, Unheld
<1>7. LastWord(t)' BY <1>5 DEF LastWord, Still
<1>8. ThisStop(t)'
  <2>1. LastWord(t) /\ ThisStop(t) /\ Len(said[t]) \in Nat BY WatchTyped DEF Watched
  <2>2. ~Still(t) BY <1>3 DEF Still
  <2>3. QED BY <1>1, <1>2, <1>3, <1>5, <2>1, <2>2 DEF ThisStop, Still
<1>9. QED BY <1>2, <1>3, <1>4, <1>5, <1>6, <1>7, <1>8, OfOneTest

LEMMA StopInv == ASSUME Watch!Parameters, Watched, NEW t \in Tests, Watch!Stop(t) PROVE Watched'
<1> DEFINE n == run[t].stop + 1
<1>1. n \in Watch!Stops /\ Watch!Waiting(n) \in Report /\ Watch!Waiting(n).kind = "waiting"
      /\ Watch!Waiting(n).at = n
  BY WatchTyped, ReportsTyped DEF Watch!Stop, Watched, Watch!Stops, Watch!Parameters
<1>2. /\ said' \in [Tests -> Seq(Report)]
      /\ \A s \in Tests \ {t} : said'[s] = said[s]
      /\ ~up => said'[t] = said[t]
      /\ up => /\ Len(said'[t]) = Len(said[t]) + 1 /\ said'[t] # <<>>
               /\ said'[t][Len(said'[t])] = Watch!Waiting(n)
               /\ \A i \in 1..Len(said[t]) : said'[t][i] = said[t][i]
  BY <1>1, SaysFacts DEF Watch!Stop, Watched
<1>3. /\ run' = [run EXCEPT ![t] = [pc |-> "stopped", stop |-> n]]
      /\ UNCHANGED <<listed, entry, up, meant>> /\ run[t].pc = "running"
  BY DEF Watch!Stop, Watch!Observed, Watched, Watch!TypeOK
<1> HIDE DEF n
<1>4. Watch!TypeOK' BY <1>1, <1>2, <1>3 DEF Watched, Watch!TypeOK, Report
<1>5. run'[t].pc = "stopped" /\ run'[t].stop = n
      /\ \A s \in Tests \ {t} : run'[s] = run[s]
  BY <1>3 DEF Watched, Watch!TypeOK
<1>6. Unheld' BY <1>2, <1>3 DEF Watched, Unheld
<1>7. LastWord(t)'
  <2>1. CASE up BY <1>2, <1>3, <1>5, <2>1 DEF LastWord, Still
  <2>2. CASE ~up
    <3>1. ~Watch!In(listed, t)' /\ said'[t] = <<>>
      BY <1>2, <1>3, <2>2 DEF Watched, Unheld, Watch!In
    <3>2. QED BY <1>5, <3>1 DEF LastWord, Still
  <2>3. QED BY <2>1, <2>2 DEF Watched, Watch!TypeOK
<1>8. ThisStop(t)'
  <2>1. ThisStop(t) /\ Len(said[t]) \in Nat BY WatchTyped DEF Watched
  <2>2. ~Still(t) BY <1>3 DEF Still
  <2>3. CASE meant[t].expired BY <1>3, <2>3 DEF ThisStop
  <2>4. CASE ~meant[t].expired
    <3>1. entry'[t].waitingAt = Watch!Nowhere /\ ~entry'[t].releasing
      BY <1>3, <2>1, <2>2, <2>4 DEF ThisStop
    <3>2. ASSUME NEW i \in 1..Len(said'[t]), said'[t][i].kind = "waiting"
          PROVE  i = Len(said'[t]) /\ said'[t][i].at = n
      <4>1. \A j \in 1..Len(said[t]) : said[t][j].kind # "waiting"
        BY <2>1, <2>2, <2>4 DEF ThisStop
      <4>2. QED BY <1>1, <1>2, <2>1, <3>2, <4>1 DEF Watched, Watch!TypeOK
    <3>3. QED BY <1>5, <3>1, <3>2 DEF ThisStop, Still
  <2>5. QED BY <2>3, <2>4
<1>9. QED BY <1>2, <1>3, <1>4, <1>5, <1>6, <1>7, <1>8, OfOneTest

LEMMA EndInv == ASSUME Watch!Parameters, Watched, NEW t \in Tests, Watch!End(t) PROVE Watched'
<1>1. Watch!Closed \in Report /\ Watch!Closed.kind = "closed" BY DEF Report, Watch!Closed
<1>2. /\ said' \in [Tests -> Seq(Report)]
      /\ \A s \in Tests \ {t} : said'[s] = said[s]
      /\ ~up => said'[t] = said[t]
      /\ up => /\ Len(said'[t]) = Len(said[t]) + 1 /\ said'[t] # <<>>
               /\ said'[t][Len(said'[t])] = Watch!Closed
               /\ \A i \in 1..Len(said[t]) : said'[t][i] = said[t][i]
  BY <1>1, SaysFacts DEF Watch!End, Watched
<1>3. run' = [run EXCEPT ![t].pc = "ended"] /\ UNCHANGED <<listed, entry, up, meant>>
      /\ run[t].pc = "running"
  BY DEF Watch!End, Watch!Goes, Watch!Observed
<1>4. Watch!TypeOK' BY <1>2, <1>3 DEF Watched, Watch!TypeOK, Report
<1>5. run'[t].pc = "ended" /\ run'[t].stop = run[t].stop
      /\ \A s \in Tests \ {t} : run'[s] = run[s]
  BY <1>3 DEF Watched, Watch!TypeOK
<1>6. Unheld' BY <1>2, <1>3 DEF Watched, Unheld
<1>7. LastWord(t)'
  BY <1>2, <1>3, <1>5 DEF Watched, Unheld, LastWord, Still, Watch!TypeOK
<1>8. ThisStop(t)'
  <2>1. ThisStop(t) /\ Len(said[t]) \in Nat BY WatchTyped DEF Watched
  <2>2. ~Still(t) BY <1>3 DEF Still
  <2>3. QED BY <1>1, <1>2, <1>3, <1>5, <2>1, <2>2 DEF ThisStop, Still
<1>9. QED BY <1>2, <1>3, <1>4, <1>5, <1>6, <1>7, <1>8, OfOneTest

LEMMA AskInv == ASSUME Watch!Parameters, Watched, NEW t \in Tests, Watch!Ask(t) PROVE Watched'
<1>1. run[t].pc = "stopped" /\ UNCHANGED <<said, listed, up, meant>> /\ up BY DEF Watch!Ask
<1>2. LastWord(t) /\ ThisStop(t) BY DEF Watched
<1>3. CASE entry[t].releasing
  <2>1. run' = [run EXCEPT ![t].pc = "go"] /\ entry' = [entry EXCEPT ![t] = Watch!New]
    BY <1>3 DEF Watch!Ask, Watch!Goes
  <2>2. Watch!TypeOK'
    <3>1. Watch!New \in [waitingAt: Watch!Stops, releasing: BOOLEAN]
      BY DEF Watch!New, Watch!Stops, Watch!Nowhere, Watch!Parameters
    <3>2. QED BY <1>1, <2>1, <3>1 DEF Watched, Watch!TypeOK
  <2>3. run'[t].pc = "go" /\ run'[t].stop = run[t].stop /\ entry'[t] = Watch!New
        /\ \A s \in Tests \ {t} : run'[s] = run[s] /\ entry'[s] = entry[s]
    BY <2>1 DEF Watched, Watch!TypeOK
  <2>4. Unheld' BY <1>1 DEF Unheld
  <2>5. LastWord(t)' BY <2>3 DEF LastWord, Still
  <2>6. ThisStop(t)'
    <3>1. ~meant[t].expired =>
            \A i \in 1..Len(said[t]) : said[t][i].kind # "waiting"
      BY <1>2, <1>3 DEF ThisStop
    <3>2. QED BY <1>1, <2>3, <3>1 DEF ThisStop, Watch!New
  <2>7. QED BY <1>1, <2>2, <2>3, <2>4, <2>5, <2>6, OfOneTest
<1>4. CASE ~entry[t].releasing
  <2>1. run' = [run EXCEPT ![t].pc = "wait"] /\ UNCHANGED entry
    BY <1>4 DEF Watch!Ask, Watch!Goes
  <2>2. Watch!TypeOK' BY <1>1, <2>1 DEF Watched, Watch!TypeOK
  <2>3. run'[t].pc = "wait" /\ run'[t].stop = run[t].stop
        /\ \A s \in Tests \ {t} : run'[s] = run[s]
    BY <2>1 DEF Watched, Watch!TypeOK
  <2>4. Unheld' BY <1>1 DEF Unheld
  <2>5. LastWord(t)' BY <1>1, <1>2, <2>1, <2>3 DEF LastWord, Still, Watch!In
  <2>6. ThisStop(t)' BY <1>1, <1>2, <2>1, <2>3 DEF ThisStop, Still
  <2>7. QED BY <1>1, <2>1, <2>2, <2>3, <2>4, <2>5, <2>6, OfOneTest
<1>5. QED BY <1>3, <1>4

LEMMA ToldInv == ASSUME Watch!Parameters, Watched, NEW t \in Tests, Watch!Told(t) PROVE Watched'
<1>1. UNCHANGED <<said, listed, entry, up>> BY DEF Watch!Told
<1>2. LastWord(t) /\ ThisStop(t) BY DEF Watched
<1>3. Unheld' BY <1>1 DEF Watched, Unheld
<1>4. CASE run[t].pc = "go" /\ Watch!Goes(t, "running") /\ UNCHANGED meant
  <2>1. run'[t].pc = "running" /\ run'[t].stop = run[t].stop
        /\ \A s \in Tests \ {t} : run'[s] = run[s]
    BY <1>4 DEF Watch!Goes, Watched, Watch!TypeOK
  <2>2. Watch!TypeOK' BY <1>1, <1>4 DEF Watch!Goes, Watched, Watch!TypeOK
  <2>3. LastWord(t)' BY <2>1 DEF LastWord, Still
  <2>4. ThisStop(t)' BY <1>1, <1>2, <1>4, <2>1 DEF ThisStop, Still
  <2>5. QED BY <1>1, <1>3, <1>4, <2>1, <2>2, <2>3, <2>4, OfOneTest
<1>5. CASE run[t].pc = "wait" /\ Watch!Goes(t, "stopped") /\ UNCHANGED meant
  <2>1. run'[t].pc = "stopped" /\ run'[t].stop = run[t].stop
        /\ \A s \in Tests \ {t} : run'[s] = run[s]
    BY <1>5 DEF Watch!Goes, Watched, Watch!TypeOK
  <2>2. Watch!TypeOK' BY <1>1, <1>5 DEF Watch!Goes, Watched, Watch!TypeOK
  <2>3. LastWord(t)' BY <1>1, <1>2, <1>5, <2>1 DEF LastWord, Still, Watch!In
  <2>4. ThisStop(t)' BY <1>1, <1>2, <1>5, <2>1 DEF ThisStop, Still
  <2>5. QED BY <1>1, <1>3, <1>5, <2>1, <2>2, <2>3, <2>4, OfOneTest
<1>6. CASE run[t].pc = "wait" /\ Watch!Goes(t, "running")
      /\ meant' = [meant EXCEPT ![t].expired = TRUE]
  <2>1. run'[t].pc = "running" /\ meant'[t].expired
        /\ \A s \in Tests \ {t} : run'[s] = run[s] /\ meant'[s] = meant[s]
    BY <1>6 DEF Watch!Goes, Watched, Watch!TypeOK
  <2>2. Watch!TypeOK' BY <1>1, <1>6 DEF Watch!Goes, Watched, Watch!TypeOK
  <2>3. LastWord(t)' BY <2>1 DEF LastWord, Still
  <2>4. ThisStop(t)' BY <2>1 DEF ThisStop
  <2>5. QED BY <1>1, <1>3, <2>1, <2>2, <2>3, <2>4, OfOneTest
<1>7. QED BY <1>4, <1>5, <1>6 DEF Watch!Told

LEMMA UnwatchedInv == ASSUME Watch!Parameters, Watched, NEW t \in Tests, Watch!Unwatched(t)
  PROVE Watched'
<1>1. /\ UNCHANGED <<said, listed, entry, up, meant>> /\ ~up
      /\ run' = [run EXCEPT ![t].pc = "running"]
  BY DEF Watch!Unwatched, Watch!Observed, Watch!Goes
<1>2. run'[t].pc = "running" /\ \A s \in Tests \ {t} : run'[s] = run[s]
  BY <1>1 DEF Watched, Watch!TypeOK
<1>3. Watch!TypeOK' /\ Unheld' BY <1>1 DEF Watched, Watch!TypeOK, Unheld
<1>4. said'[t] = <<>> /\ entry'[t] = Watch!New BY <1>1 DEF Watched, Unheld
<1>5. LastWord(t)' BY <1>2 DEF LastWord, Still
<1>6. ThisStop(t)' BY <1>4, EmptySeq DEF ThisStop, Watch!New
<1>7. QED BY <1>1, <1>2, <1>3, <1>5, <1>6, OfOneTest

LEMMA GoesAwayInv == ASSUME Watch!Parameters, Watched, Watch!GoesAway PROVE Watched'
<1>1. /\ ~up' /\ listed' = <<>> /\ UNCHANGED <<run, meant>>
      /\ \A t \in Tests : entry'[t] = Watch!New /\ said'[t] = <<>>
  BY DEF Watch!GoesAway, Watched, Watch!TypeOK
<1>2. Watch!TypeOK'
  <2>1. Watch!New \in [waitingAt: Watch!Stops, releasing: BOOLEAN]
    BY DEF Watch!New, Watch!Stops, Watch!Nowhere, Watch!Parameters
  <2>2. Len(<<>>) = 0 /\ <<>> \in Seq(Tests) /\ <<>> \in Seq(Report) BY EmptySeq
  <2>3. listed' \in Seq(Tests) /\ Len(listed') <= Room BY <1>1, <2>2 DEF Watch!Parameters
  <2>4. said' \in [Tests -> Seq(Report)]
        /\ entry' \in [Tests -> [waitingAt: Watch!Stops, releasing: BOOLEAN]]
    BY <2>1, <2>2 DEF Watch!GoesAway
  <2>5. QED BY <1>1, <2>3, <2>4 DEF Watched, Watch!TypeOK, Report, Watch!GoesAway
<1>3. Unheld' BY <1>1 DEF Unheld
<1>4. ASSUME NEW t \in Tests PROVE LastWord(t)' /\ ThisStop(t)'
  <2>1. ~Watch!In(listed, t)' BY <1>1, EmptySeq DEF Watch!In
  <2>2. run'[t] = run[t] /\ said'[t] = <<>> /\ entry'[t] = Watch!New BY <1>1
  <2>3. 1..Len(said'[t]) = {} BY <2>2, EmptySeq
  <2>4. QED BY <2>1, <2>2, <2>3 DEF LastWord, ThisStop, Watch!New
<1>5. QED BY <1>2, <1>3, <1>4 DEF Watched

LEMMA ReleaseInv ==
  ASSUME Watch!Parameters, Watched, NEW S \in SUBSET Tests, \A t \in S : Watch!Releasable(t),
      Watch!Release(S)
  PROVE  Watched'
<1>1. /\ UNCHANGED <<run, said, listed, up>> /\ up
      /\ \A t \in S : entry'[t] = [entry[t] EXCEPT !.releasing = TRUE]
                     /\ meant'[t] = [meant[t] EXCEPT !.stop = entry[t].waitingAt]
      /\ \A t \in Tests \ S : entry'[t] = entry[t] /\ meant'[t] = meant[t]
  BY DEF Watch!Release
<1>2. Watch!TypeOK'
  <2>1. ASSUME NEW t \in Tests
        PROVE  /\ entry'[t] \in [waitingAt: Watch!Stops, releasing: BOOLEAN]
               /\ meant'[t] \in [stop: Watch!Stops, expired: BOOLEAN]
    <3>1. /\ entry[t] \in [waitingAt: Watch!Stops, releasing: BOOLEAN]
          /\ meant[t] \in [stop: Watch!Stops, expired: BOOLEAN]
      BY WatchTyped DEF Watched
    <3>2. CASE t \in S
      <4>1. /\ entry'[t] = [entry[t] EXCEPT !.releasing = TRUE]
            /\ meant'[t] = [meant[t] EXCEPT !.stop = entry[t].waitingAt]
        BY <1>1, <3>2
      <4>2. QED BY <3>1, <4>1
    <3>3. QED BY <1>1, <3>1, <3>2
  <2>2. /\ entry' \in [Tests -> [waitingAt: Watch!Stops, releasing: BOOLEAN]]
        /\ meant' \in [Tests -> [stop: Watch!Stops, expired: BOOLEAN]]
    BY <2>1 DEF Watch!Release
  <2>3. QED BY <1>1, <2>2 DEF Watched, Watch!TypeOK
<1>3. Unheld' BY <1>1 DEF Unheld
<1>4. ASSUME NEW t \in Tests PROVE LastWord(t)' /\ ThisStop(t)'
  <2>1. LastWord(t) /\ ThisStop(t) BY DEF Watched
  <2>2. CASE t \in S
    <3>1. /\ entry'[t].waitingAt = entry[t].waitingAt /\ entry'[t].releasing
          /\ meant'[t].stop = entry[t].waitingAt /\ meant'[t].expired = meant[t].expired
          /\ entry[t].waitingAt # Watch!Nowhere
      BY <1>1, <2>2, WatchTyped DEF Watched, Watch!Releasable
    <3>2. entry[t] # Watch!New BY <3>1 DEF Watch!New
    <3>3. LastWord(t)'
      <4>1. run'[t] = run[t] /\ said'[t] = said[t] /\ Watch!In(listed, t)' = Watch!In(listed, t)
        BY <1>1 DEF Watch!In
      <4>2. Still(t) => IF said[t] = <<>> THEN Watch!In(listed, t)
                => entry[t].waitingAt = run[t].stop
                        ELSE said[t][Len(said[t])] = Watch!Waiting(run[t].stop)
        BY <2>1 DEF LastWord
      <4>3. run[t].pc = "ended" => said[t] # <<>> /\ said[t][Len(said[t])] = Watch!Closed
        BY <2>1, <3>2 DEF LastWord
      <4>4. QED BY <3>1, <4>1, <4>2, <4>3 DEF LastWord, Still
    <3>4. ThisStop(t)' BY <1>1, <2>1, <3>1 DEF ThisStop, Still
    <3>5. QED BY <3>3, <3>4
  <2>3. CASE t \notin S
    <3>1. Watch!In(listed, t)' => Watch!In(listed, t) BY <1>1 DEF Watch!In
    <3>2. QED BY <1>1, <2>1, <2>3, <3>1, Undisturbed
  <2>4. QED BY <2>2, <2>3
<1>5. QED BY <1>2, <1>3, <1>4 DEF Watched

LEMMA TookInv == ASSUME Watch!Parameters, Watched, NEW t \in Tests, Watch!Took(t) PROVE Watched'
<1> DEFINE more == IF Watch!In(listed, t) THEN listed ELSE Append(listed, t)
           kept == IF Len(more) > Room THEN Tail(more) ELSE more
           got == Watch!Reported(entry[t], Head(said[t]))
<1>1. /\ said[t] # <<>> /\ up /\ said' = [said EXCEPT ![t] = Tail(@)]
      /\ listed' = kept /\ UNCHANGED <<run, up, meant>>
      /\ entry' = [u \in Tests |-> IF Watch!In(kept, u) THEN [entry EXCEPT ![t] = got][u]
          ELSE Watch!New]
  BY DEF Watch!Took
<1>2. /\ Head(said[t]) = said[t][1] /\ said[t][1] \in Report
      /\ Tail(said[t]) \in Seq(Report) /\ Len(Tail(said[t])) = Len(said[t]) - 1
      /\ \A i \in 1..Len(Tail(said[t])) : Tail(said[t])[i] = said[t][i + 1]
      /\ Len(said[t]) \in Nat \ {0}
  BY <1>1, WatchTyped, HeadTailProperties DEF Watched
<1>3. more \in Seq(Tests) /\ Len(more) <= Room + 1 /\ more # <<>> /\ kept \in Seq(Tests)
      /\ Len(kept) <= Room
  <2>1. listed \in Seq(Tests) /\ Len(listed) \in Nat /\ Len(listed) <= Room
        /\ Room \in Nat \ {0}
    BY LenProperties DEF Watched, Watch!TypeOK, Watch!Parameters
  <2>2. CASE Watch!In(listed, t)
    <3>1. listed # <<>> BY <2>2, EmptySeq DEF Watch!In
    <3>2. QED BY <2>1, <2>2, <3>1
  <2>3. CASE ~Watch!In(listed, t)
    <3>1. more = Append(listed, t) BY <2>3
    <3>2. more \in Seq(Tests) /\ Len(more) = Len(listed) + 1 /\ more # <<>>
      BY <2>1, <3>1, AppendProperties
    <3>3. Tail(more) \in Seq(Tests) /\ Len(Tail(more)) = Len(more) - 1
      BY <3>2, HeadTailProperties
    <3>4. QED BY <2>1, <3>2, <3>3
  <2>4. QED BY <2>2, <2>3
<1>4. \A u \in Tests \ {t} : Watch!In(kept, u) => Watch!In(listed, u)
  <2>1. \A u \in Tests : Watch!In(kept, u) => Watch!In(more, u)
    <3>1. CASE Len(more) > Room
      <4>1. Len(Tail(more)) = Len(more) - 1 /\ Tail(more) \in Seq(Tests)
            /\ \A i \in 1..Len(Tail(more)) : Tail(more)[i] = more[i + 1]
        BY <1>3, HeadTailProperties
      <4>2. kept = Tail(more) BY <3>1
      <4>3. DOMAIN kept = 1..Len(kept) /\ DOMAIN more = 1..Len(more) /\ Len(more) \in Nat
        BY <1>3, LenProperties
      <4> HIDE DEF more, kept
      <4>4. QED BY <4>1, <4>2, <4>3 DEF Watch!In
    <3>2. CASE ~(Len(more) > Room) BY <3>2
    <3>3. QED BY <3>1, <3>2
  <2>2. \A u \in Tests \ {t} : Watch!In(more, u) => Watch!In(listed, u)
    <3>1. CASE Watch!In(listed, t) BY <3>1
    <3>2. CASE ~Watch!In(listed, t)
      <4>1. more = Append(listed, t) /\ listed \in Seq(Tests) BY <3>2 DEF Watched, Watch!TypeOK
      <4>2. /\ Len(more) = Len(listed) + 1 /\ more[Len(listed) + 1] = t
            /\ \A i \in 1..Len(listed) : more[i] = listed[i]
            /\ DOMAIN listed = 1..Len(listed) /\ DOMAIN more = 1..Len(more)
            /\ Len(listed) \in Nat
        BY <1>3, <4>1, AppendProperties, LenProperties
      <4> HIDE DEF more
      <4>3. QED BY <4>2 DEF Watch!In
    <3>3. QED BY <3>1, <3>2
  <2>3. QED BY <2>1, <2>2
<1> HIDE DEF more, kept
<1>5. got \in [waitingAt: Watch!Stops, releasing: BOOLEAN]
      /\ (Head(said[t]).kind = "closed" => got = Watch!New)
      /\ (Head(said[t]).kind = "opened" => got = entry[t])
      /\ (Head(said[t]).kind = "waiting" =>
            got.waitingAt = Head(said[t]).at /\ got.releasing = entry[t].releasing)
  <2>1. entry[t] \in [waitingAt: Watch!Stops, releasing: BOOLEAN] BY WatchTyped DEF Watched
  <2>2. Watch!New \in [waitingAt: Watch!Stops, releasing: BOOLEAN]
    BY DEF Watch!New, Watch!Stops, Watch!Nowhere, Watch!Parameters
  <2>3. QED BY <1>2, <2>1, <2>2 DEF Watch!Reported, Report
<1> HIDE DEF got
<1>6. /\ \A u \in Tests : Watch!In(listed, u)' = Watch!In(kept, u)
      /\ \A u \in Tests \ {t} : entry'[u] = IF Watch!In(kept, u) THEN entry[u] ELSE Watch!New
      /\ entry'[t] = IF Watch!In(kept, t) THEN got ELSE Watch!New
  BY <1>1 DEF Watch!In, Watched, Watch!TypeOK
<1>7. Watch!TypeOK'
  <2>1. Watch!New \in [waitingAt: Watch!Stops, releasing: BOOLEAN]
    BY DEF Watch!New, Watch!Stops, Watch!Nowhere, Watch!Parameters
  <2>2. entry' \in [Tests -> [waitingAt: Watch!Stops, releasing: BOOLEAN]]
    BY <1>1, <1>5, <1>6, <2>1, WatchTyped DEF Watched
  <2>3. said' \in [Tests -> Seq(Report)] BY <1>1, <1>2 DEF Watched, Watch!TypeOK, Report
  <2>4. QED BY <1>1, <1>3, <2>2, <2>3 DEF Watched, Watch!TypeOK, Report
<1>8. Unheld' BY <1>1 DEF Unheld
<1>9. ASSUME NEW u \in Tests \ {t} PROVE LastWord(u)' /\ ThisStop(u)'
  <2>1. LastWord(u) /\ ThisStop(u) BY DEF Watched
  <2>2. run'[u] = run[u] /\ said'[u] = said[u] /\ meant'[u] = meant[u]
    BY <1>1 DEF Watched, Watch!TypeOK
  <2>3. QED BY <1>4, <1>6, <2>1, <2>2, Undisturbed
<1>10. LastWord(t) /\ ThisStop(t) BY DEF Watched
<1>11. said'[t] = Tail(said[t]) /\ run'[t] = run[t] /\ meant'[t] = meant[t]
  BY <1>1 DEF Watched, Watch!TypeOK
<1>12. ASSUME Len(said[t]) = 1 PROVE LastWord(t)' /\ ThisStop(t)'
  <2>1. said'[t] = <<>> /\ 1..Len(said'[t]) = {}
    <3>1. Len(Tail(said[t])) = 0 /\ Tail(said[t]) \in Seq(Report) BY <1>2, <1>12
    <3>2. Tail(said[t]) = <<>> BY <3>1, EmptySeq
    <3>3. QED BY <1>11, <3>1, <3>2
  <2>2. LastWord(t)'
    <3>1. CASE Still(t)
      <4>1. Head(said[t]) = Watch!Waiting(run[t].stop)
        BY <1>1, <1>2, <1>10, <1>12, <3>1 DEF LastWord
      <4>2. got.waitingAt = run[t].stop BY <1>5, <4>1 DEF Watch!Waiting
      <4>3. QED BY <1>6, <1>11, <2>1, <3>1, <4>2 DEF LastWord, Still
    <3>2. CASE run[t].pc = "ended"
      <4>1. Head(said[t]) = Watch!Closed BY <1>1, <1>2, <1>10, <1>12, <3>2 DEF LastWord
      <4>2. entry'[t] = Watch!New BY <1>5, <1>6, <4>1 DEF Watch!Closed
      <4>3. QED BY <1>11, <2>1, <3>2, <4>2 DEF LastWord, Still
    <3>3. CASE ~Still(t) /\ run[t].pc # "ended" BY <1>11, <3>3 DEF LastWord, Still
    <3>4. QED BY <3>1, <3>2, <3>3
  <2>3. ThisStop(t)'
    <3>1. CASE meant[t].expired BY <1>11, <3>1 DEF ThisStop
    <3>2. CASE ~meant[t].expired
      <4>1. CASE entry'[t] = Watch!New BY <1>11, <2>1, <4>1 DEF ThisStop, Watch!New
      <4>2. CASE entry'[t] = entry[t]
        BY <1>10, <1>11, <2>1, <3>2, <4>2 DEF ThisStop, Still
      <4>3. CASE entry'[t] = got /\ Head(said[t]).kind = "waiting"
        <5>1. Head(said[t]).at = run[t].stop /\ Still(t)
          BY <1>2, <1>10, <3>2, <4>3 DEF ThisStop
        <5>2. entry[t].releasing => FALSE
          BY <1>2, <1>10, <3>2, <4>3 DEF ThisStop
        <5>3. QED BY <1>5, <1>11, <2>1, <4>3, <5>1, <5>2 DEF ThisStop, Still
      <4>4. QED BY <1>2, <1>5, <1>6, <4>1, <4>2, <4>3 DEF Report
    <3>3. QED BY <3>1, <3>2 DEF Watched, Watch!TypeOK
  <2>4. QED BY <2>2, <2>3
<1>13. ASSUME Len(said[t]) > 1 PROVE LastWord(t)' /\ ThisStop(t)'
  <2>1. /\ said'[t] # <<>> /\ Len(said'[t]) = Len(said[t]) - 1 /\ Len(said'[t]) \in Nat \ {0}
        /\ said'[t][Len(said'[t])] = said[t][Len(said[t])]
        /\ \A i \in 1..Len(said'[t]) : i + 1 \in 1..Len(said[t]) /\ said'[t][i] = said[t][i + 1]
    <3> DEFINE n == Len(said[t])
    <3>0. n \in Nat \ {0} /\ n > 1 /\ Len(Tail(said[t])) = n - 1 BY <1>2, <1>13
    <3>1. Len(Tail(said[t])) \in Nat \ {0} /\ Len(Tail(said[t])) = Len(said[t]) - 1
      <4> HIDE DEF n
      <4>1. n - 1 \in Nat \ {0} BY <3>0
      <4>2. QED BY <3>0, <4>1 DEF n
    <3>2. Tail(said[t]) # <<>> BY <3>1, EmptySeq
    <3>3. QED BY <1>2, <1>11, <3>1, <3>2
  <2>2. LastWord(t)' BY <1>1, <1>10, <1>11, <2>1 DEF LastWord, Still
  <2>3. ThisStop(t)'
    <3>1. CASE meant[t].expired BY <1>11, <3>1 DEF ThisStop
    <3>2. CASE ~meant[t].expired
      <4>1. Head(said[t]).kind # "waiting"
        BY <1>2, <1>10, <1>13, <3>2 DEF ThisStop
      <4>2. entry'[t] \in {Watch!New, entry[t]} BY <1>2, <1>5, <1>6, <4>1 DEF Report
      <4>3. \A i \in 1..Len(said'[t]) : said'[t][i].kind = "waiting" =>
              i = Len(said'[t]) /\ said'[t][i].at = run[t].stop /\ Still(t)
        BY <1>2, <1>10, <2>1, <3>2 DEF ThisStop
      <4>4. CASE entry'[t] = Watch!New BY <1>11, <4>3, <4>4 DEF ThisStop, Watch!New, Still
      <4>5. CASE entry'[t] = entry[t]
        <5>1. entry[t].waitingAt # Watch!Nowhere =>
                \A i \in 1..Len(said'[t]) : said'[t][i].kind # "waiting"
          BY <1>10, <2>1, <3>2 DEF ThisStop
        <5>2. QED BY <1>10, <1>11, <3>2, <4>3, <4>5, <5>1 DEF ThisStop, Still
      <4>6. QED BY <4>2, <4>4, <4>5
    <3>3. QED BY <3>1, <3>2 DEF Watched, Watch!TypeOK
  <2>4. QED BY <2>2, <2>3
<1>14. LastWord(t)' /\ ThisStop(t)'
  <2>1. Len(said[t]) \in Nat \ {0} BY <1>2
  <2>2. \A n \in Nat \ {0} : n = 1 \/ n > 1 OBVIOUS
  <2>3. QED BY <1>12, <1>13, <2>1, <2>2
<1>15. QED BY <1>7, <1>8, <1>9, <1>14 DEF Watched

LEMMA WatchInit == ASSUME Watch!Parameters, Watch!Init PROVE Watched
<1>1. /\ listed = <<>> /\ up
      /\ \A t \in Tests : /\ run[t] = [pc |-> "new", stop |-> Watch!Nowhere]
                          /\ said[t] = <<>> /\ entry[t] = Watch!New
  BY DEF Watch!Init
<1>2. Watch!TypeOK
  <2>1. Watch!New \in [waitingAt: Watch!Stops, releasing: BOOLEAN]
    BY DEF Watch!New, Watch!Stops, Watch!Nowhere, Watch!Parameters
  <2>2. Len(<<>>) = 0 /\ <<>> \in Seq(Tests) /\ <<>> \in Seq(Report) BY EmptySeq
  <2>3. listed \in Seq(Tests) /\ Len(listed) <= Room BY <1>1, <2>2 DEF Watch!Parameters
  <2>4. /\ said \in [Tests -> Seq(Report)]
        /\ entry \in [Tests -> [waitingAt: Watch!Stops, releasing: BOOLEAN]]
    BY <2>1, <2>2 DEF Watch!Init
  <2>5. /\ run \in [Tests -> [pc: {"new", "running", "stopped", "go", "wait", "ended"},
            stop: Watch!Stops]]
        /\ meant \in [Tests -> [stop: Watch!Stops, expired: BOOLEAN]]
    BY DEF Watch!Init, Watch!Nowhere, Watch!Stops, Watch!Parameters
  <2>6. QED BY <1>1, <2>3, <2>4, <2>5 DEF Watch!TypeOK, Report
<1>3. Unheld BY <1>1 DEF Unheld
<1>4. ASSUME NEW t \in Tests PROVE LastWord(t) /\ ThisStop(t)
  <2>1. run[t].pc = "new" /\ said[t] = <<>> /\ entry[t] = Watch!New BY <1>1
  <2>2. 1..Len(said[t]) = {} BY <2>1, EmptySeq
  <2>3. QED BY <2>1, <2>2 DEF LastWord, ThisStop, Still, Watch!New
<1>5. QED BY <1>2, <1>3, <1>4 DEF Watched

LEMMA WatchNext == ASSUME Watch!Parameters, Watched, [Watch!Next]_(Watch!vars) PROVE Watched'
<1>1. ASSUME NEW t \in Tests, Watch!Open(t) PROVE Watched' BY <1>1, OpenInv
<1>2. ASSUME NEW t \in Tests, Watch!Stop(t) PROVE Watched' BY <1>2, StopInv
<1>3. ASSUME NEW t \in Tests, Watch!End(t) PROVE Watched' BY <1>3, EndInv
<1>4. ASSUME NEW t \in Tests, Watch!Ask(t) PROVE Watched' BY <1>4, AskInv
<1>5. ASSUME NEW t \in Tests, Watch!Told(t) PROVE Watched' BY <1>5, ToldInv
<1>6. ASSUME NEW t \in Tests, Watch!Unwatched(t) PROVE Watched' BY <1>6, UnwatchedInv
<1>7. ASSUME NEW t \in Tests, Watch!Took(t) PROVE Watched' BY <1>7, TookInv
<1>8. ASSUME NEW t \in Tests, Watch!ReleaseOne(t) PROVE Watched'
  <2>1. {u \in {t} : Watch!Releasable(u)} \in SUBSET Tests OBVIOUS
  <2>2. \A u \in {u \in {t} : Watch!Releasable(u)} : Watch!Releasable(u) OBVIOUS
  <2>3. QED BY <1>8, <2>1, <2>2, ReleaseInv DEF Watch!ReleaseOne
<1>9. ASSUME Watch!ReleaseAll PROVE Watched'
  <2>1. {u \in Tests : Watch!Releasable(u)} \in SUBSET Tests OBVIOUS
  <2>2. \A u \in {u \in Tests : Watch!Releasable(u)} : Watch!Releasable(u) OBVIOUS
  <2>3. QED BY <1>9, <2>1, <2>2, ReleaseInv DEF Watch!ReleaseAll
<1>10. CASE Watch!GoesAway BY <1>10, GoesAwayInv
<1>11. CASE UNCHANGED Watch!vars
  <2>1. UNCHANGED run /\ UNCHANGED said /\ UNCHANGED listed /\ UNCHANGED entry
        /\ UNCHANGED up /\ UNCHANGED meant
    BY <1>11 DEF Watch!vars
  <2>2. Watch!TypeOK' /\ Unheld' BY <2>1 DEF Watched, Watch!TypeOK, Unheld
  <2>3. \A t \in Tests : LastWord(t)' /\ ThisStop(t)'
    BY <2>1 DEF Watched, LastWord, ThisStop, Still, Watch!In
  <2>4. QED BY <2>2, <2>3 DEF Watched
<1>12. QED
  BY <1>1, <1>2, <1>3, <1>4, <1>5, <1>6, <1>7, <1>8, <1>9, <1>10, <1>11 DEF Watch!Next

(* The inductive invariant.                                                 *)
THEOREM WatchInvariant == ASSUME Watch!Parameters PROVE Watch!Spec => []Watched
<1>1. Watch!Init => Watched BY WatchInit
<1>2. Watched /\ [Watch!Next]_(Watch!vars) => Watched' BY WatchNext
<1>3. QED BY <1>1, <1>2, PTL DEF Watch!Spec

(* A test standing still is listed where it stands (watch.ts:137-139).      *)
THEOREM StoppedListed == ASSUME Watch!Parameters PROVE Watch!Spec => []Watch!StoppedIsListed
<1>1. Watched => Watch!StoppedIsListed BY DEF Watched, LastWord, Still, Watch!StoppedIsListed
<1>2. QED BY <1>1, WatchInvariant, PTL

(* A test that ended leaves no release behind (observatory.ts:199-203).     *)
THEOREM EndedClean == ASSUME Watch!Parameters PROVE Watch!Spec => []Watch!EndedLeavesNothing
<1>1. Watched => Watch!EndedLeavesNothing BY DEF Watched, LastWord, Watch!EndedLeavesNothing
<1>2. QED BY <1>1, WatchInvariant, PTL

(* What is listed is what stands (observatory.ts:199-203, watch.ts:137-139).*)
THEOREM ListedIsTrue == ASSUME Watch!Parameters PROVE Watch!Spec => []Watch!ListsWhatStands
<1>1. Watched => Watch!ListsWhatStands
  BY DEF Watched, LastWord, Still, Watch!StoppedIsListed, Watch!EndedLeavesNothing,
         Watch!ListsWhatStands
<1>2. QED BY <1>1, WatchInvariant, PTL

(* A release is spent by the stop it was given for (observatory.ts:64-71).  *)
THEOREM ReleaseSpent == ASSUME Watch!Parameters PROVE Watch!Spec => Watch!SpentWhereGiven
<1> DEFINE Step == \A t \in Tests : Watch!Ask(t) /\ entry[t].releasing =>
                     meant[t].expired \/ meant[t].stop = run[t].stop
<1>1. Watched => Step BY DEF Watched, ThisStop
<1>2. Watched /\ [Watch!Next]_(Watch!vars) => [Step]_(Watch!vars) BY <1>1
<1>3. QED BY <1>2, WatchInvariant, PTL DEF Watch!Spec, Watch!SpentWhereGiven
-----------------------------------------------------------------------------
(* The index and the shelf: their proofs are of the same definitions.      *)

IndexProofs == INSTANCE SourceIndexProofs WITH Nothing <- NoIndex, begun <- tasks
ShelfProofs == INSTANCE BrowserShelfProofs WITH begun <- leases

LEMMA SameIndex ==
  /\ Index!Parameters <=> IndexProofs!Parameters
  /\ Index!Spec <=> IndexProofs!Spec
<1>1. Index!Parameters <=> IndexProofs!Parameters
  BY DEF Index!Parameters, IndexProofs!Parameters, Index!Content, IndexProofs!Content,
         Index!Layer, IndexProofs!Layer, Index!Chain, IndexProofs!Chain,
         Index!IsFiniteSet, IndexProofs!IsFiniteSet
<1>2. Index!Spec <=> IndexProofs!Spec
  BY DEF Index!Spec, IndexProofs!Spec, Index!Init, IndexProofs!Init, Index!vars,
         IndexProofs!vars, Index!Next, IndexProofs!Next, Index!Proceed,
         IndexProofs!Proceed, Index!Open, IndexProofs!Open, Index!OpenSeed,
         IndexProofs!OpenSeed, Index!ReadSegment, IndexProofs!ReadSegment,
         Index!DecideUpdate, IndexProofs!DecideUpdate, Index!DecideReady,
         IndexProofs!DecideReady, Index!Scan, IndexProofs!Scan, Index!DecideAppend,
         IndexProofs!DecideAppend, Index!DecideSeed, IndexProofs!DecideSeed,
         Index!Enter, IndexProofs!Enter, Index!WriteSegment, IndexProofs!WriteSegment,
         Index!WriteManifest, IndexProofs!WriteManifest, Index!RemoveSegment,
         IndexProofs!RemoveSegment, Index!Leave, IndexProofs!Leave, Index!Die,
         IndexProofs!Die, Index!Lose, IndexProofs!Lose, Index!NoTask,
         IndexProofs!NoTask, Index!Reading, IndexProofs!Reading, Index!Source,
         IndexProofs!Source, Index!Length, IndexProofs!Length, Index!Kept,
         IndexProofs!Kept, Index!Prefix, IndexProofs!Prefix, Index!Whole,
         IndexProofs!Whole, Index!HasRead, IndexProofs!HasRead, Index!Publishing,
         IndexProofs!Publishing, Index!Becomes, IndexProofs!Becomes, Index!Local,
         IndexProofs!Local, Index!Holding, IndexProofs!Holding, Index!Newest,
         IndexProofs!Newest, Index!Row, IndexProofs!Row, Index!Says, IndexProofs!Says,
         Index!Only, IndexProofs!Only, Index!Folded, IndexProofs!Folded,
         Index!Compacted, IndexProofs!Compacted, Index!Merged, IndexProofs!Merged,
         Index!Difference, IndexProofs!Difference, Index!Split, IndexProofs!Split,
         Index!Rows, IndexProofs!Rows, Index!Base, IndexProofs!Base, Index!Working,
         IndexProofs!Working, Index!Elements, IndexProofs!Elements, Index!Named,
         IndexProofs!Named, Index!SaidBy, IndexProofs!SaidBy, Index!NextChain,
         IndexProofs!NextChain, Index!Unnamed, IndexProofs!Unnamed, Index!Cardinality,
         IndexProofs!Cardinality
<1> QED BY <1>1, <1>2

LEMMA SameOfIndex ==
  /\ Index!TypeOK <=> IndexProofs!TypeOK
  /\ Index!NamedSegmentsAreStored <=> IndexProofs!NamedSegmentsAreStored
  /\ Index!NothingIsLeftBehind <=> IndexProofs!NothingIsLeftBehind
  /\ Index!IndexesAreRegisters <=> IndexProofs!IndexesAreRegisters
<1>1. Index!TypeOK <=> IndexProofs!TypeOK
  BY DEF Index!TypeOK, IndexProofs!TypeOK, Index!Content, IndexProofs!Content,
         Index!Layer, IndexProofs!Layer, Index!Chain, IndexProofs!Chain, Index!Reads,
         IndexProofs!Reads, Index!Publishes, IndexProofs!Publishes, Index!Clears,
         IndexProofs!Clears, Index!NoTask, IndexProofs!NoTask
<1>2. Index!NamedSegmentsAreStored <=> IndexProofs!NamedSegmentsAreStored
  BY DEF Index!NamedSegmentsAreStored, IndexProofs!NamedSegmentsAreStored, Index!Named,
         IndexProofs!Named, Index!Elements, IndexProofs!Elements
<1>3. Index!NothingIsLeftBehind <=> IndexProofs!NothingIsLeftBehind
  BY DEF Index!NothingIsLeftBehind, IndexProofs!NothingIsLeftBehind, Index!Named,
         IndexProofs!Named, Index!Elements, IndexProofs!Elements
<1>4. Index!IndexesAreRegisters <=> IndexProofs!IndexesAreRegisters
  BY PTL DEF Index!IndexesAreRegisters, IndexProofs!IndexesAreRegisters,
             Index!Register!Spec, IndexProofs!Register!Spec, Index!Register!Init,
             IndexProofs!Register!Init, Index!Register!Next, IndexProofs!Register!Next,
             Index!Register!Ask, IndexProofs!Register!Ask, Index!Register!Land,
             IndexProofs!Register!Land, Index!Register!Refuse,
             IndexProofs!Register!Refuse, Index!Register!Idle,
             IndexProofs!Register!Idle, Index!Register!Asks, IndexProofs!Register!Asks,
             Index!SaidBy, IndexProofs!SaidBy, Index!Content, IndexProofs!Content,
             Index!Says, IndexProofs!Says, Index!Row, IndexProofs!Row, Index!Holding,
             IndexProofs!Holding, Index!Newest, IndexProofs!Newest
<1> QED BY <1>1, <1>2, <1>3, <1>4

LEMMA SameShelf ==
  /\ Shelf!Parameters <=> ShelfProofs!Parameters
  /\ Shelf!Spec <=> ShelfProofs!Spec
<1>1. Shelf!Parameters <=> ShelfProofs!Parameters
  BY DEF Shelf!Parameters, ShelfProofs!Parameters
<1>2. Shelf!Spec <=> ShelfProofs!Spec
  BY DEF Shelf!Spec, ShelfProofs!Spec, Shelf!Init, ShelfProofs!Init, Shelf!vars,
         ShelfProofs!vars, Shelf!Next, ShelfProofs!Next, Shelf!Proceed,
         ShelfProofs!Proceed, Shelf!Settle, ShelfProofs!Settle, Shelf!None,
         ShelfProofs!None, Shelf!Gone, ShelfProofs!Gone, Shelf!Found, ShelfProofs!Found,
         Shelf!IsContext, ShelfProofs!IsContext, Shelf!WaitFor, ShelfProofs!WaitFor,
         Shelf!Lease, ShelfProofs!Lease, Shelf!Settled, ShelfProofs!Settled,
         Shelf!Threw, ShelfProofs!Threw, Shelf!Uncount, ShelfProofs!Uncount,
         Shelf!Release, ShelfProofs!Release, Shelf!Awaited, ShelfProofs!Awaited,
         Shelf!Opened, ShelfProofs!Opened, Shelf!OpenFails, ShelfProofs!OpenFails,
         Shelf!ForgetFailed, ShelfProofs!ForgetFailed, Shelf!Closed, ShelfProofs!Closed,
         Shelf!Die, ShelfProofs!Die, Shelf!ForgetDead, ShelfProofs!ForgetDead,
         Shelf!Becomes, ShelfProofs!Becomes, Shelf!LeaseBrowser,
         ShelfProofs!LeaseBrowser, Shelf!HaveBrowser, ShelfProofs!HaveBrowser,
         Shelf!LeaseContext, ShelfProofs!LeaseContext, Shelf!HaveContext,
         ShelfProofs!HaveContext, Shelf!PageOpens, ShelfProofs!PageOpens,
         Shelf!PageFails, ShelfProofs!PageFails, Shelf!Close, ShelfProofs!Close,
         Shelf!ReleaseContext, ShelfProofs!ReleaseContext, Shelf!Freed,
         ShelfProofs!Freed, Shelf!ReleaseBrowser, ShelfProofs!ReleaseBrowser,
         Shelf!Done, ShelfProofs!Done
<1> QED BY <1>1, <1>2

LEMMA SameOfShelf ==
  /\ Shelf!TypeOK <=> ShelfProofs!TypeOK
  /\ Shelf!LeasedIsNotClosed <=> ShelfProofs!LeasedIsNotClosed
  /\ Shelf!NothingIsLeftOpen <=> ShelfProofs!NothingIsLeftOpen
  /\ Shelf!OneOfAKey <=> ShelfProofs!OneOfAKey
BY DEF Shelf!TypeOK, ShelfProofs!TypeOK, Shelf!States, ShelfProofs!States, Shelf!None,
       ShelfProofs!None, Shelf!Leases, ShelfProofs!Leases, Shelf!Alive,
       ShelfProofs!Alive, Shelf!LeasedIsNotClosed, ShelfProofs!LeasedIsNotClosed,
       Shelf!NothingIsLeftOpen, ShelfProofs!NothingIsLeftOpen, Shelf!OneOfAKey,
       ShelfProofs!OneOfAKey
-----------------------------------------------------------------------------
(* Side by side.                                                           *)

(* A behaviour of one part is one of every part: the others stand still.   *)
LEMMA PartsRun == SideBySide => Index!Spec /\ Spec /\ Shelf!Spec /\ Watch!Spec
<1>1. StartOfAll => Index!Init /\ Init /\ Shelf!Init /\ Watch!Init BY DEF StartOfAll
<1>2. [StepOfOne]_allVars => /\ [Index!Next]_(Index!vars) /\ [Next]_vars
                            /\ [Shelf!Next]_(Shelf!vars) /\ [Watch!Next]_(Watch!vars)
  <2>1. /\ indexVars = Index!vars /\ shelfVars = Shelf!vars /\ watchVars = Watch!vars
        /\ indexVars' = Index!vars' /\ shelfVars' = Shelf!vars' /\ watchVars' = Watch!vars'
    BY DEF indexVars, shelfVars, watchVars, Index!vars, Shelf!vars, Watch!vars
  <2> QED BY <2>1 DEF StepOfOne, allVars
<1> QED BY <1>1, <1>2, PTL DEF SideBySide, Index!Spec, Spec, Shelf!Spec, Watch!Spec

LEMMA PartsOK ==
  ASSUME PartParameters
  PROVE  /\ IndexProofs!Parameters /\ Parameters /\ ShelfProofs!Parameters /\ Watch!Parameters
         /\ SideBySide => IndexProofs!Spec /\ Spec /\ ShelfProofs!Spec /\ Watch!Spec
<1>1. IndexProofs!Parameters /\ Parameters /\ ShelfProofs!Parameters /\ Watch!Parameters
  BY SameIndex, SameShelf DEF PartParameters
<1>2. SideBySide => IndexProofs!Spec /\ Spec /\ ShelfProofs!Spec /\ Watch!Spec
  BY PartsRun, SameIndex, SameShelf
<1> QED BY <1>1, <1>2

(* Every part stays well typed, whatever the processes, callers, browsers   *)
(* and tests are and whatever they do.                                      *)
THEOREM TypesStay == ASSUME PartParameters PROVE SideBySide => []TypesOK
<1>1. IndexProofs!Spec => []IndexProofs!TypeOK BY PartsOK, IndexProofs!IndexTypes
<1>2. Spec => []IInv BY PartsOK, Invariant
<1>3. ShelfProofs!Spec => []ShelfProofs!IInv BY PartsOK, ShelfProofs!Invariant
<1>4. Watch!Spec => []Watched BY PartsOK, WatchInvariant
<1>5. IndexProofs!TypeOK /\ IInv /\ ShelfProofs!IInv /\ Watched => TypesOK
  BY SameOfIndex, SameOfShelf DEF IInv, ShelfProofs!IInv, Watched, TypesOK
<1> QED BY <1>1, <1>2, <1>3, <1>4, <1>5, PartsOK, PTL

(* The index: a manifest names no segment a writer removed, whatever order  *)
(* they come in and whoever dies where.                                     *)
THEOREM NamedStayStored == ASSUME PartParameters PROVE SideBySide => []NamedSegmentsAreStored
<1>1. IndexProofs!Spec => []IndexProofs!NamedSegmentsAreStored
  BY PartsOK, IndexProofs!NamedStayStored
<1>2. IndexProofs!NamedSegmentsAreStored => NamedSegmentsAreStored
  BY SameOfIndex DEF NamedSegmentsAreStored, On
<1> QED BY <1>1, <1>2, PartsOK, PTL

(* The index: between publishes nothing is stored that no manifest names.   *)
THEOREM NothingLeftBehind == ASSUME PartParameters PROVE SideBySide => []NothingIsLeftBehind
<1>1. IndexProofs!Spec => []IndexProofs!NothingIsLeftBehind
  BY PartsOK, IndexProofs!NothingLeftBehind
<1>2. IndexProofs!NothingIsLeftBehind => NothingIsLeftBehind
  BY SameOfIndex DEF NothingIsLeftBehind, On
<1> QED BY <1>1, <1>2, PartsOK, PTL

(* The index: whatever lands is what its writer meant it to say, and an     *)
(* update, a readying or a seed lands only on what it read.                 *)
THEOREM IndexesRegister == ASSUME PartParameters PROVE SideBySide => IndexesAreRegisters
<1>1. IndexProofs!Spec => IndexProofs!IndexesAreRegisters
  BY PartsOK, IndexProofs!IndexesRegister
<1>2. IndexProofs!IndexesAreRegisters => IndexesAreRegisters
  BY SameOfIndex DEF IndexesAreRegisters
<1> QED BY <1>1, <1>2, PartsOK

(* The shelf: nobody holds a browser or a context another one's release is  *)
(* closing.                                                                 *)
THEOREM LeasedStandsOpen == ASSUME PartParameters PROVE SideBySide => []LeasedIsNotClosed
<1>1. ShelfProofs!Spec => []ShelfProofs!LeasedIsNotClosed
  BY PartsOK, ShelfProofs!LeasedStandsOpen
<1>2. ShelfProofs!LeasedIsNotClosed => LeasedIsNotClosed
  BY SameOfShelf DEF LeasedIsNotClosed, On
<1> QED BY <1>1, <1>2, PartsOK, PTL

(* The shelf: no browser and no context outlives its last holder.           *)
THEOREM NothingOutlives == ASSUME PartParameters PROVE SideBySide => []NothingIsLeftOpen
<1>1. ShelfProofs!Spec => []ShelfProofs!NothingIsLeftOpen
  BY PartsOK, ShelfProofs!NothingOutlives
<1>2. ShelfProofs!NothingIsLeftOpen => NothingIsLeftOpen
  BY SameOfShelf DEF NothingIsLeftOpen, On
<1> QED BY <1>1, <1>2, PartsOK, PTL

(* The shelf: one browser of a recipe and one context of a browser are      *)
(* alive at a time.                                                         *)
THEOREM OneAlive == ASSUME PartParameters PROVE SideBySide => []OneOfAKey
<1>1. ShelfProofs!Spec => []ShelfProofs!OneOfAKey
  BY PartsOK, ShelfProofs!OneAlive
<1>2. ShelfProofs!OneOfAKey => OneOfAKey
  BY SameOfShelf DEF OneOfAKey, On
<1> QED BY <1>1, <1>2, PartsOK, PTL

(* The observatory: what is listed is what the tests stand at, and a test   *)
(* that ended leaves nothing behind.                                        *)
THEOREM ListedStands == ASSUME PartParameters PROVE SideBySide => []ListsWhatStands
<1>1. Watch!Spec => []Watch!ListsWhatStands
  BY PartsOK, ListedIsTrue
<1>2. Watch!ListsWhatStands => ListsWhatStands
  BY DEF ListsWhatStands, On
<1> QED BY <1>1, <1>2, PartsOK, PTL

(* The observatory: a release is spent by the stop it was given for, but    *)
(* for a test one of whose stops expired.                                   *)
THEOREM SpentThere == ASSUME PartParameters PROVE SideBySide => SpentWhereGiven
<1>1. Watch!Spec => SpentWhereGiven BY PartsOK, ReleaseSpent DEF SpentWhereGiven
<1> QED BY <1>1, PartsOK

(* The pool: its slots are its renders, nobody waits beside a free one, a   *)
(* page is in one place, and a viewport costs a bounded number of them,     *)
(* whatever the other parts are at.                                         *)
THEOREM PoolStands ==
  ASSUME PartParameters
  PROVE  SideBySide =>
           [](SlotsAreRenders /\ NoLostWakeup /\ OnePainterPerPage /\ PagesAreBounded)
<1>1. Spec => []SlotsAreRenders BY PartsOK, SlotsCounted
<1>2. Spec => []NoLostWakeup BY PartsOK, WakeupsKept
<1>3. Spec => []OnePainterPerPage BY PartsOK, PagesApart
<1>4. Spec => []PagesAreBounded BY PartsOK, PagesBounded
<1> QED BY <1>1, <1>2, <1>3, <1>4, PartsOK, PTL
=============================================================================
