--------------------------- MODULE BrowserShelfProofs ---------------------------
(***************************************************************************)
(* Proofs about BrowserShelf, for any harnesses, renderers and recipes and  *)
(* whichever browsers die: the count of a value's holders is the number of  *)
(* its leases, so nothing leased is being closed, nothing open is nobody's, *)
(* and a key has one value alive at a time.                                *)
(***************************************************************************)
EXTENDS BrowserShelf, FiniteSetTheorems, SequenceTheorems, TLAPS

Holders(i) == {u \in Users : Leases(u, i)}

(* What a harness or renderer holds where it stands: a context only of the  *)
(* browser it holds, and nothing it has been handed is still opening.       *)
Pointed(u) ==
  LET me == user[u] IN
  /\ me.browser = None <=> me.pc \in {"none", "browser freed"}
  /\ me.context # None => me.pc \in {"context", "page", "up", "closing"}
  /\ me.pc \in {"context", "page", "closing"} => me.context # None
  /\ me.browser # None =>
       /\ values[me.browser].key \in Launches
       /\ me.pc # "browser" => values[me.browser].state # "opening"
  /\ me.context # None =>
       /\ values[me.context].key = me.browser
       /\ me.pc # "context" => values[me.context].state # "opening"

(* The leases of a value are counted; what is alive can be leased again and *)
(* is; what is being closed is nobody's any more; a closed context somebody *)
(* can still come by went with its browser.                                *)
Counted(i) == IsFiniteSet(Holders(i)) /\ values[i].holders = Cardinality(Holders(i))
Shown(i) == Alive(i) => i \in shelf /\ Holders(i) # {}
LetGo(i) == values[i].state = "closing" => i \notin shelf /\ Holders(i) = {}
WentWith(i) == IsContext(i) /\ values[values[i].key].state \in {"dead", "forgotten"}
Bereft(i) == values[i].state = "closed" /\ (i \in shelf \/ Holders(i) # {}) => WentWith(i)
Keyed(i) == IsContext(i) => values[i].key \in DOMAIN values
Sound(i) == Counted(i) /\ Shown(i) /\ LetGo(i) /\ Bereft(i) /\ Keyed(i)
Unique == \A i, j \in shelf : values[i].key = values[j].key => i = j

IInv ==
  /\ TypeOK /\ Unique /\ \A u \in Users : Pointed(u)
  /\ \A i \in DOMAIN values : Sound(i)
-----------------------------------------------------------------------------
(* Types.                                                                  *)

Value == [key: Launches \cup Nat, state: States, holders: Nat]
Places == {"none", "browser", "leased", "context", "page", "up", "closing",
           "context freed", "browser freed"}
Doing(n) == [pc: Places, browser: {None} \cup 1..n, context: {None} \cup 1..n,
             awaits: {None} \cup 1..n]

LEMMA Typed ==
  ASSUME TypeOK
  PROVE  /\ values \in Seq(Value) /\ Len(values) \in Nat /\ DOMAIN values = 1..Len(values)
         /\ shelf \subseteq 1..Len(values) /\ user \in [Users -> Doing(Len(values))]
         /\ \A i \in 1..Len(values) : values[i] \in Value
<1>1. values \in Seq(Value) BY DEF TypeOK, Value
<1>2. Len(values) \in Nat /\ DOMAIN values = 1..Len(values)
      /\ \A i \in 1..Len(values) : values[i] \in Value
  BY <1>1, LenProperties
<1> QED BY <1>1, <1>2 DEF TypeOK, Doing, Places

LEMMA TypedNext ==
  ASSUME values' \in Seq(Value), shelf' \subseteq 1..Len(values'),
         user' \in [Users -> Doing(Len(values'))],
         begun' \in 0..MaxLeases, deaths' \in 0..MaxDeaths
  PROVE  TypeOK'
<1>1. DOMAIN values' = 1..Len(values') BY LenProperties
<1> QED BY <1>1 DEF TypeOK, Value, Doing, Places

LEMMA OneValue ==
  ASSUME TypeOK, NEW i \in DOMAIN values, NEW x \in Value, values' = [values EXCEPT ![i] = x]
  PROVE  /\ values' \in Seq(Value) /\ Len(values') = Len(values)
         /\ DOMAIN values' = DOMAIN values /\ values'[i] = x
         /\ \A j \in DOMAIN values \ {i} : values'[j] = values[j]
BY Typed, ExceptSeq

LEMMA ManyValues ==
  ASSUME TypeOK, values' \in [DOMAIN values -> Value]
  PROVE  /\ values' \in Seq(Value) /\ Len(values') = Len(values)
         /\ DOMAIN values' = DOMAIN values
<1>1. Len(values) \in Nat /\ values' \in [1..Len(values) -> Value] BY Typed
<1>2. values' \in Seq(Value) /\ DOMAIN values' = 1..Len(values) BY <1>1, IsASeq
<1>3. Len(values') \in Nat /\ DOMAIN values' = 1..Len(values') BY <1>2, LenProperties
<1>4. Len(values') = Len(values) BY <1>1, <1>2, <1>3
<1> QED BY <1>2, <1>4, Typed

LEMMA KeysApart ==
  ASSUME Parameters, IInv, NEW i \in DOMAIN values
  PROVE  /\ i # None /\ i \in Nat
         /\ IsContext(i) <=> values[i].key \in Nat
         /\ i \notin Launches
BY Typed DEF Parameters, IInv, IsContext, Value, None
-----------------------------------------------------------------------------
(* What happens to values while nobody leases or gives back.                *)

Kept(j) == values'[j].key = values[j].key /\ values'[j].holders = values[j].holders
Changed(j) ==
  /\ values'[j].state = "opening" => values[j].state = "opening"
  /\ Alive(j)' => Alive(j) /\ (j \in shelf => j \in shelf')
  /\ values'[j].state = "closing" => values[j].state = "closing"
  /\ values[j].state \in {"dead", "forgotten"} => values'[j].state \in {"dead", "forgotten"}
  /\ values'[j].state = "closed" =>
       \/ values[j].state = "closed"
       \/ j \notin shelf /\ Holders(j) = {}
       \/ IsContext(j) /\ values'[values[j].key].state \in {"dead", "forgotten"}

LEMMA ValuesStep ==
  ASSUME Parameters, IInv, values' \in Seq(Value), Len(values') = Len(values),
         DOMAIN values' = DOMAIN values, UNCHANGED <<user, begun>>,
         deaths' \in 0..MaxDeaths, shelf' \subseteq shelf,
         \A j \in DOMAIN values : Kept(j) /\ Changed(j)
  PROVE  IInv'
<1>1. TypeOK' BY Typed, TypedNext DEF IInv, TypeOK
<1>2. \A j : Holders(j)' = Holders(j) BY DEF Holders, Leases
<1>3. \A u \in Users : Pointed(u)'
  <2> SUFFICES ASSUME NEW u \in Users PROVE Pointed(u)' OBVIOUS
  <2>1. Pointed(u) /\ user[u] \in Doing(Len(values)) BY Typed DEF IInv
  <2>2. /\ user[u].browser # None => user[u].browser \in DOMAIN values
        /\ user[u].context # None => user[u].context \in DOMAIN values
    BY <2>1, Typed DEF IInv, Doing
  <2> QED BY <2>1, <2>2 DEF Pointed, Kept, Changed
<1>4. Unique' BY Typed DEF IInv, Unique, Kept
<1>5. ASSUME NEW j \in DOMAIN values PROVE Sound(j)'
  <2>1. Sound(j) /\ Kept(j) /\ Changed(j) BY DEF IInv
  <2>2. Counted(j)' BY <1>2, <2>1 DEF Sound, Counted, Kept
  <2>3. Shown(j)' /\ LetGo(j)' BY <1>2, <2>1 DEF Sound, Shown, LetGo, Changed
  <2>4. Keyed(j)' BY <2>1 DEF Sound, Keyed, IsContext, Kept
  <2>5. Bereft(j)'
    <3> SUFFICES ASSUME values'[j].state = "closed", j \in shelf' \/ Holders(j)' # {}
                 PROVE  WentWith(j)'
      BY DEF Bereft
    <3>1. j \in shelf \/ Holders(j) # {} BY <1>2
    <3>2. CASE values[j].state = "closed"
      <4>1. WentWith(j) /\ values[j].key \in DOMAIN values
        BY <2>1, <3>1, <3>2 DEF Sound, Bereft, Keyed, WentWith
      <4> QED BY <2>1, <4>1 DEF WentWith, IsContext, Kept, Changed
    <3>3. CASE IsContext(j) /\ values'[values[j].key].state \in {"dead", "forgotten"}
      BY <2>1, <3>3 DEF WentWith, IsContext, Kept
    <3> QED BY <2>1, <3>1, <3>2, <3>3 DEF Changed
  <2> QED BY <2>2, <2>3, <2>4, <2>5 DEF Sound
<1> QED BY <1>1, <1>3, <1>4, <1>5 DEF IInv

(* A context somebody holds is of a browser somebody holds.                 *)
LEMMA BrowserHeld ==
  ASSUME Parameters, IInv, NEW i \in DOMAIN values, NEW j \in DOMAIN values,
         values[j].key = i, Holders(j) # {}
  PROVE  Holders(i) # {}
<1>1. PICK u \in Users : Leases(u, j) BY DEF Holders
<1>2. Pointed(u) /\ i # None /\ i \notin Launches BY KeysApart DEF IInv
<1>3. j = user[u].context BY <1>1, <1>2 DEF Leases, Pointed
<1>4. Leases(u, i) BY <1>1, <1>2, <1>3 DEF Leases, Pointed
<1> QED BY <1>4 DEF Holders

LEMMA SettleStep ==
  ASSUME Parameters, IInv, NEW i \in DOMAIN values, Settle(i) \/ Die(i)
  PROVE  IInv'
<1>1. TypeOK /\ values[i] \in Value /\ UNCHANGED <<user, begun>>
      /\ deaths \in 0..MaxDeaths /\ MaxDeaths \in Nat
  BY Typed DEF IInv, TypeOK, Parameters, Settle, Opened, OpenFails, ForgetFailed, Closed,
               ForgetDead, Die
<1> DEFINE Turned(s) == [values[i] EXCEPT !.state = s]
<1>2. \A s \in States : Turned(s) \in Value /\ Turned(s).key = values[i].key
                        /\ Turned(s).holders = values[i].holders /\ Turned(s).state = s
  BY <1>1 DEF Value
<1>3. ASSUME NEW s \in States, values' = [values EXCEPT ![i].state = s]
      PROVE  /\ values' \in Seq(Value) /\ Len(values') = Len(values)
             /\ DOMAIN values' = DOMAIN values
             /\ values'[i].state = s
             /\ \A j \in DOMAIN values : Kept(j)
             /\ \A j \in DOMAIN values \ {i} : values'[j] = values[j]
  <2>1. values' = [values EXCEPT ![i] = Turned(s)] BY <1>3
  <2>2. /\ Turned(s) \in Value /\ Turned(s).key = values[i].key
        /\ Turned(s).holders = values[i].holders /\ Turned(s).state = s
    BY <1>2
  <2> HIDE DEF Turned
  <2>3. /\ values' \in Seq(Value) /\ Len(values') = Len(values)
        /\ DOMAIN values' = DOMAIN values /\ values'[i] = Turned(s)
        /\ \A j \in DOMAIN values \ {i} : values'[j] = values[j]
    BY <1>1, <2>1, <2>2, OneValue
  <2> QED BY <2>2, <2>3 DEF Kept
<1>4. CASE Opened(i) \/ OpenFails(i)
  <2>1. PICK s \in {"open", "failed"} :
          values' = [values EXCEPT ![i].state = s]
    BY <1>4 DEF Opened, OpenFails
  <2>2. s \in States /\ values[i].state = "opening" /\ shelf' = shelf /\ deaths' = deaths
    BY <1>4, <2>1 DEF Opened, OpenFails, States
  <2>3. /\ values' \in Seq(Value) /\ Len(values') = Len(values)
        /\ DOMAIN values' = DOMAIN values /\ values'[i].state = s
        /\ \A j \in DOMAIN values : Kept(j)
        /\ \A j \in DOMAIN values \ {i} : values'[j] = values[j]
    BY <1>3, <2>1, <2>2
  <2>4. \A j \in DOMAIN values : Changed(j) BY <2>1, <2>2, <2>3 DEF Changed, Alive
  <2> QED BY <1>1, <2>2, <2>3, <2>4, ValuesStep
<1>5. CASE ForgetFailed(i)
  <2>1. \A j \in DOMAIN values : Kept(j) /\ Changed(j)
    BY <1>5 DEF ForgetFailed, Kept, Changed, Alive
  <2> QED BY <1>1, <1>5, <2>1, Typed, ValuesStep DEF ForgetFailed
<1>6. CASE ForgetDead(i)
  <2>1. /\ "forgotten" \in States /\ values[i].state = "dead"
        /\ values' = [values EXCEPT ![i].state = "forgotten"]
        /\ shelf' = shelf \ {i} /\ deaths' = deaths
    BY <1>6 DEF ForgetDead, States
  <2>2. /\ values' \in Seq(Value) /\ Len(values') = Len(values)
        /\ DOMAIN values' = DOMAIN values /\ values'[i].state = "forgotten"
        /\ \A j \in DOMAIN values : Kept(j)
        /\ \A j \in DOMAIN values \ {i} : values'[j] = values[j]
    BY <1>3, <2>1
  <2>3. \A j \in DOMAIN values : Changed(j) BY <2>1, <2>2 DEF Changed, Alive
  <2> QED BY <1>1, <2>1, <2>2, <2>3, ValuesStep
<1>7. CASE Closed(i)
  <2> DEFINE Gone1(j) == j = i \/ (values[j].key = i /\ values[j].state \in {"open", "closing"})
             x(j) == IF Gone1(j) THEN [values[j] EXCEPT !.state = "closed"] ELSE values[j]
  <2>1. values' = [j \in DOMAIN values |-> x(j)] /\ values[i].state = "closing"
        /\ shelf' = shelf /\ deaths' = deaths
    BY <1>7 DEF Closed
  <2>2. \A j \in DOMAIN values : /\ x(j) \in Value /\ x(j).key = values[j].key
                                 /\ x(j).holders = values[j].holders
                                 /\ x(j).state = IF Gone1(j) THEN "closed" ELSE values[j].state
    BY <1>1, Typed DEF Value, States
  <2>3. \A j \in DOMAIN values : Gone1(j) => j \notin shelf /\ Holders(j) = {}
    <3> SUFFICES ASSUME NEW j \in DOMAIN values, Gone1(j)
                 PROVE  j \notin shelf /\ Holders(j) = {}
      OBVIOUS
    <3>1. Holders(i) = {} /\ i \notin shelf BY <2>1 DEF IInv, Sound, LetGo
    <3>2. j # i => Holders(j) = {} BY <3>1, BrowserHeld
    <3>3. j # i => values[j].state = "closing"
      BY <3>2 DEF IInv, Sound, Shown, Alive
    <3> QED BY <3>1, <3>3 DEF IInv, Sound, LetGo
  <2> HIDE DEF x, Gone1
  <2>4. /\ values' \in Seq(Value) /\ Len(values') = Len(values)
        /\ DOMAIN values' = DOMAIN values
    <3>1. values' \in [DOMAIN values -> Value] BY <2>1, <2>2
    <3> QED BY <1>1, <3>1, ManyValues
  <2>5. \A j \in DOMAIN values : Kept(j) /\ Changed(j)
    BY <2>1, <2>2, <2>3 DEF Kept, Changed, Alive, Gone1
  <2> QED BY <1>1, <2>1, <2>4, <2>5, ValuesStep
<1>8. CASE Die(i)
  <2> DEFINE Taken(j) == values[j].key = i /\ values[j].state \in {"open", "closing"}
             x(j) == IF j = i THEN [values[j] EXCEPT !.state = "dead"]
                     ELSE IF Taken(j) THEN [values[j] EXCEPT !.state = "closed"] ELSE values[j]
  <2>1. /\ values' = [j \in DOMAIN values |-> x(j)] /\ values[i].state = "open"
        /\ shelf' = shelf /\ deaths' = deaths + 1 /\ deaths < MaxDeaths
    BY <1>8 DEF Die
  <2>2. \A j \in DOMAIN values : /\ x(j) \in Value /\ x(j).key = values[j].key
                                 /\ x(j).holders = values[j].holders
                                 /\ x(j).state = IF j = i THEN "dead"
                                                 ELSE IF Taken(j) THEN "closed"
                                                 ELSE values[j].state
    BY <1>1, Typed DEF Value, States
  <2>3. \A j \in DOMAIN values : Taken(j) => IsContext(j) BY KeysApart DEF IsContext
  <2> HIDE DEF x
  <2>4. /\ values' \in Seq(Value) /\ Len(values') = Len(values)
        /\ DOMAIN values' = DOMAIN values
    <3>1. values' \in [DOMAIN values -> Value] BY <2>1, <2>2
    <3> QED BY <1>1, <3>1, ManyValues
  <2>5. \A j \in DOMAIN values : Kept(j) /\ Changed(j)
    BY <2>1, <2>2, <2>3 DEF Kept, Changed, Alive
  <2>6. deaths' \in 0..MaxDeaths BY <1>1, <2>1
  <2> QED BY <1>1, <2>1, <2>4, <2>5, <2>6, ValuesStep
<1> QED BY <1>4, <1>5, <1>6, <1>7, <1>8 DEF Settle
-----------------------------------------------------------------------------
(* What a harness or renderer does.                                        *)

(* One of them moves, and it alone.                                        *)
LEMMA OneUser ==
  ASSUME NEW n \in Nat, user \in [Users -> Doing(Len(values))], Len(values) \in Nat,
         Len(values) <= n, NEW u \in Users, NEW x \in Doing(n),
         user' = [user EXCEPT ![u] = x]
  PROVE  /\ user' \in [Users -> Doing(n)] /\ user'[u] = x
         /\ \A q \in Users \ {u} : user'[q] = user[q]
BY DEF Doing

(* The others stand as they stood: no value changes its key or opens again. *)
LEMMA OthersPointed ==
  ASSUME IInv, NEW u \in Users, \A q \in Users \ {u} : user'[q] = user[q],
         \A j \in DOMAIN values : /\ values'[j].key = values[j].key
                                  /\ values'[j].state = "opening" => values[j].state = "opening",
         Pointed(u)'
  PROVE  \A q \in Users : Pointed(q)'
<1> SUFFICES ASSUME NEW q \in Users \ {u} PROVE Pointed(q)' OBVIOUS
<1>1. Pointed(q) /\ user[q] \in Doing(Len(values)) /\ user'[q] = user[q] BY Typed DEF IInv
<1>2. /\ user[q].browser # None => user[q].browser \in DOMAIN values
      /\ user[q].context # None => user[q].context \in DOMAIN values
  BY <1>1, Typed DEF IInv, Doing
<1> QED BY <1>1, <1>2 DEF Pointed

(* It goes on, holding what it held.                                       *)
LEMMA UserStep ==
  ASSUME Parameters, IInv, NEW u \in Users, NEW x \in Doing(Len(values)),
         user' = [user EXCEPT ![u] = x], x.browser = user[u].browser,
         x.context = user[u].context, UNCHANGED <<values, shelf>>,
         begun' \in 0..MaxLeases, deaths' \in 0..MaxDeaths, Pointed(u)'
  PROVE  IInv'
<1>1. TypeOK BY DEF IInv
<1>2. /\ user' \in [Users -> Doing(Len(values))] /\ user'[u] = x
      /\ \A q \in Users \ {u} : user'[q] = user[q]
  BY <1>1, Typed, OneUser
<1>3. \A q \in Users : user'[q].browser = user[q].browser /\ user'[q].context = user[q].context
  BY <1>2
<1>4. \A j : Holders(j)' = Holders(j) BY <1>3 DEF Holders, Leases
<1>5. TypeOK' BY <1>1, <1>2, Typed, TypedNext
<1>6. \A q \in Users : Pointed(q)' BY <1>2, OthersPointed
<1>7. \A j \in DOMAIN values' : Sound(j)'
  <2> SUFFICES ASSUME NEW j \in DOMAIN values PROVE Sound(j)' OBVIOUS
  <2>1. Sound(j) /\ Holders(j)' = Holders(j) BY <1>4 DEF IInv
  <2> QED BY <2>1
      DEF Sound, Counted, Shown, LetGo, Bereft, Keyed, WentWith, Alive, IsContext
<1>8. Unique' BY DEF IInv, Unique
<1> QED BY <1>5, <1>6, <1>7, <1>8 DEF IInv

(* It gives back one value.                                                *)
LetsGo(u, i) ==
  /\ u \in Holders(i) /\ u \notin Holders(i)'
  /\ \A j \in DOMAIN values \ {i} : u \in Holders(j)' <=> u \in Holders(j)
Lessened(i) ==
  LET last == values[i].holders = 1 IN
  /\ values'[i].key = values[i].key /\ values'[i].holders = values[i].holders - 1
  /\ values'[i].state = IF last /\ i \in shelf /\ values[i].state = "open"
                        THEN "closing" ELSE values[i].state
  /\ shelf' = shelf \/ (last /\ shelf' = shelf \ {i})
  /\ last /\ i \in shelf /\ values[i].state = "open" => shelf' = shelf \ {i}

LEMMA GiveStep ==
  ASSUME Parameters, IInv, NEW u \in Users, NEW x \in Doing(Len(values)),
         user' = [user EXCEPT ![u] = x], UNCHANGED <<begun, deaths>>,
         NEW i \in DOMAIN values, NEW y \in Value, values' = [values EXCEPT ![i] = y],
         values[i].state # "opening", LetsGo(u, i), Lessened(i), Pointed(u)'
  PROVE  IInv'
<1>1. TypeOK BY DEF IInv
<1>2. /\ user' \in [Users -> Doing(Len(values))] /\ user'[u] = x
      /\ \A q \in Users \ {u} : user'[q] = user[q]
  BY <1>1, Typed, OneUser
<1>3. /\ values' \in Seq(Value) /\ Len(values') = Len(values) /\ DOMAIN values' = DOMAIN values
      /\ \A j \in DOMAIN values \ {i} : values'[j] = values[j]
  BY <1>1, OneValue
<1>4. shelf' \subseteq shelf /\ \A j \in shelf \ {i} : j \in shelf' BY DEF Lessened
<1>5. TypeOK' BY <1>1, <1>2, <1>3, <1>4, Typed, TypedNext DEF TypeOK
<1>6. \A j \in DOMAIN values : values'[j].key = values[j].key BY <1>3 DEF Lessened
<1>7. \A j \in DOMAIN values : values'[j].state = "opening" => values[j].state = "opening"
  BY <1>3 DEF Lessened
<1>8. \A q \in Users : Pointed(q)' BY <1>2, <1>6, <1>7, OthersPointed
<1>9. Unique' BY <1>1, <1>4, <1>6, Typed DEF IInv, Unique
<1>10. /\ Holders(i)' = Holders(i) \ {u} /\ u \in Holders(i)
       /\ \A j \in DOMAIN values \ {i} : Holders(j)' = Holders(j)
  BY <1>2 DEF LetsGo, Holders, Leases
<1>11. \A j \in DOMAIN values : values[j].state \in {"dead", "forgotten", "closed"}
                                  => values'[j].state = values[j].state
  BY <1>3 DEF Lessened
<1>12. \A j \in DOMAIN values : WentWith(j) /\ Keyed(j) => WentWith(j)'
  BY <1>6, <1>11 DEF WentWith, Keyed, IsContext
<1>13. ASSUME NEW j \in DOMAIN values \ {i} PROVE Sound(j)'
  <2>1. Sound(j) /\ Holders(j)' = Holders(j) /\ values'[j] = values[j]
        /\ (j \in shelf <=> j \in shelf')
    BY <1>3, <1>4, <1>10 DEF IInv
  <2>2. Bereft(j)' BY <1>12, <2>1 DEF Sound, Bereft
  <2>3. Keyed(j)' BY <1>3, <2>1 DEF Sound, Keyed, IsContext
  <2> QED BY <2>1, <2>2, <2>3 DEF Sound, Counted, Shown, LetGo, Alive
<1>14. Sound(i)'
  <2>1. Sound(i) /\ IsFiniteSet(Holders(i)) BY DEF IInv, Sound, Counted
  <2>2. /\ IsFiniteSet(Holders(i)') /\ Cardinality(Holders(i)') = Cardinality(Holders(i)) - 1
        /\ Cardinality(Holders(i)') \in Nat
    BY <1>10, <2>1, FS_RemoveElement, FS_CardinalityType
  <2>3. Cardinality(Holders(i)') = 0 <=> Holders(i)' = {} BY <2>2, FS_EmptySet
  <2>4. values[i].holders = Cardinality(Holders(i)) BY <2>1 DEF Sound, Counted
  <2>5. Counted(i)' BY <2>2, <2>4 DEF Counted, Lessened
  <2>6. values[i].holders = 1 <=> Holders(i)' = {} BY <2>2, <2>3, <2>4
  <2>7. Shown(i)'
    <3> SUFFICES ASSUME Alive(i)' PROVE i \in shelf' /\ Holders(i)' # {} BY DEF Shown
    <3>1. values[i].state = "open" /\ ~(values[i].holders = 1 /\ i \in shelf)
      BY DEF Alive, Lessened
    <3>2. i \in shelf BY <2>1, <3>1 DEF Sound, Shown, Alive
    <3> QED BY <2>6, <3>1, <3>2 DEF Lessened
  <2>8. LetGo(i)'
    <3>1. values[i].state # "closing" BY <1>10, <2>1 DEF Sound, LetGo
    <3> QED BY <2>6, <3>1 DEF LetGo, Lessened
  <2>9. Bereft(i)'
    <3> SUFFICES ASSUME values'[i].state = "closed" PROVE WentWith(i)' BY DEF Bereft
    <3>1. values[i].state = "closed" BY DEF Lessened
    <3> QED BY <1>10, <1>12, <2>1, <3>1 DEF Sound, Bereft
  <2>10. Keyed(i)' BY <1>3, <1>6, <2>1 DEF Sound, Keyed, IsContext
  <2> QED BY <2>5, <2>7, <2>8, <2>9, <2>10 DEF Sound
<1> QED BY <1>3, <1>5, <1>8, <1>9, <1>13, <1>14 DEF IInv

(* It leases one more: of those there are, or a new one.                    *)
Takes(u, i) ==
  /\ u \notin Holders(i) /\ u \in Holders(i)'
  /\ \A j \in DOMAIN values \ {i} : u \in Holders(j)' <=> u \in Holders(j)

LEMMA ShareStep ==
  ASSUME Parameters, IInv, NEW u \in Users, NEW x \in Doing(Len(values)),
         user' = [user EXCEPT ![u] = x], begun' \in 0..MaxLeases, UNCHANGED <<shelf, deaths>>,
         NEW i \in shelf, values' = [values EXCEPT ![i].holders = @ + 1],
         Takes(u, i), Pointed(u)'
  PROVE  IInv'
<1> DEFINE y == [values[i] EXCEPT !.holders = values[i].holders + 1]
<1>1. TypeOK /\ i \in DOMAIN values BY DEF IInv, TypeOK
<1>2. /\ user' \in [Users -> Doing(Len(values))] /\ user'[u] = x
      /\ \A q \in Users \ {u} : user'[q] = user[q]
  BY <1>1, Typed, OneUser
<1>3. values[i] \in Value BY <1>1, Typed
<1>4. /\ y \in Value /\ y.key = values[i].key /\ y.state = values[i].state
      /\ y.holders = values[i].holders + 1 /\ values' = [values EXCEPT ![i] = y]
  BY <1>3 DEF Value
<1> HIDE DEF y
<1>5. /\ values' \in Seq(Value) /\ Len(values') = Len(values) /\ DOMAIN values' = DOMAIN values
      /\ values'[i] = y /\ \A j \in DOMAIN values \ {i} : values'[j] = values[j]
  BY <1>1, <1>4, OneValue
<1>6. \A j \in DOMAIN values : values'[j].key = values[j].key /\ values'[j].state = values[j].state
  BY <1>4, <1>5
<1>7. TypeOK' BY <1>1, <1>2, <1>5, Typed, TypedNext DEF TypeOK
<1>8. \A q \in Users : Pointed(q)' BY <1>2, <1>6, OthersPointed
<1>9. Unique' BY <1>1, <1>6, Typed DEF IInv, Unique
<1>10. /\ Holders(i)' = Holders(i) \cup {u} /\ u \notin Holders(i)
       /\ \A j \in DOMAIN values \ {i} : Holders(j)' = Holders(j)
  BY <1>2 DEF Takes, Holders, Leases
<1>11. \A j \in DOMAIN values : WentWith(j) /\ Keyed(j) => WentWith(j)'
  BY <1>6 DEF WentWith, Keyed, IsContext
<1>12. ASSUME NEW j \in DOMAIN values PROVE Sound(j)'
  <2>1. Sound(j) BY DEF IInv
  <2>2. Counted(j)'
    <3>1. CASE j # i BY <1>5, <1>10, <2>1, <3>1 DEF Sound, Counted
    <3>2. CASE j = i
      <4>1. IsFiniteSet(Holders(i)) /\ values[i].holders = Cardinality(Holders(i))
        BY <2>1, <3>2 DEF Sound, Counted
      <4>2. IsFiniteSet(Holders(i)') /\ Cardinality(Holders(i)') = Cardinality(Holders(i)) + 1
        BY <1>10, <4>1, FS_AddElement
      <4> QED BY <1>4, <1>5, <3>2, <4>1, <4>2 DEF Counted
    <3> QED BY <3>1, <3>2
  <2>3. Shown(j)' BY <1>6, <1>10, <2>1 DEF Sound, Shown, Alive
  <2>4. LetGo(j)' BY <1>6, <1>10, <2>1 DEF Sound, LetGo
  <2>5. Bereft(j)' BY <1>6, <1>10, <1>11, <2>1 DEF Sound, Bereft
  <2>6. Keyed(j)' BY <1>5, <1>6, <2>1 DEF Sound, Keyed, IsContext
  <2> QED BY <2>2, <2>3, <2>4, <2>5, <2>6 DEF Sound
<1> QED BY <1>5, <1>7, <1>8, <1>9, <1>12 DEF IInv

LEMMA OpenStep ==
  ASSUME Parameters, IInv, NEW u \in Users, NEW key \in Launches \cup DOMAIN values,
         NEW n \in Nat, n = Len(values) + 1,
         NEW x \in Doing(n), user' = [user EXCEPT ![u] = x],
         begun' \in 0..MaxLeases, UNCHANGED deaths, Found(key) = {},
         values' = Append(values, [key |-> key, state |-> "opening", holders |-> 1]),
         shelf' = shelf \cup {n}, Takes(u, n), Pointed(u)'
  PROVE  IInv'
<1> DEFINE y == [key |-> key, state |-> "opening", holders |-> 1]
<1>1. TypeOK /\ Len(values) \in Nat /\ DOMAIN values = 1..Len(values) BY Typed DEF IInv
<1>2. y \in Value /\ y.key = key /\ y.state = "opening" /\ y.holders = 1
  BY <1>1 DEF Value, States
<1> HIDE DEF y
<1>3. values' = Append(values, y) /\ values \in Seq(Value) BY <1>1, Typed DEF y
<1>4. /\ values' \in Seq(Value) /\ Len(values') = n /\ DOMAIN values' = DOMAIN values \cup {n}
      /\ values'[n] = y /\ n \notin DOMAIN values
      /\ \A j \in DOMAIN values : values'[j] = values[j]
  <2>1. /\ values' \in Seq(Value) /\ Len(values') = n /\ values'[n] = y
        /\ \A j \in DOMAIN values : values'[j] = values[j]
    BY <1>1, <1>2, <1>3, AppendProperties
  <2>2. DOMAIN values' = 1..n BY <2>1, LenProperties
  <2> QED BY <1>1, <2>1, <2>2
<1>5. /\ user' \in [Users -> Doing(n)] /\ user'[u] = x
      /\ \A q \in Users \ {u} : user'[q] = user[q]
  <2>1. user \in [Users -> Doing(Len(values))] /\ Len(values) <= n BY <1>1, Typed
  <2> QED BY <1>1, <2>1, OneUser
<1>6. TypeOK'
  <2>1. shelf' \subseteq 1..n BY <1>1, Typed
  <2> QED BY <1>1, <1>4, <1>5, <2>1, TypedNext DEF TypeOK
<1>7. \A q \in Users : Pointed(q)' BY <1>4, <1>5, OthersPointed
<1>8. Unique'
  <2>1. shelf \subseteq DOMAIN values BY <1>1, Typed
  <2>2. \A j \in shelf : values[j].key # key BY DEF Found
  <2> QED BY <1>2, <1>4, <2>1, <2>2 DEF IInv, Unique
<1>9. Holders(n) = {}
  <2>1. \A q \in Users : user[q] \in Doing(Len(values)) BY <1>1, Typed
  <2> QED BY <1>1, <2>1 DEF Holders, Leases, Doing, None
<1>10. /\ Holders(n)' = {u}
       /\ \A j \in DOMAIN values : Holders(j)' = Holders(j)
  BY <1>4, <1>5, <1>9 DEF Takes, Holders, Leases
<1>11. ASSUME NEW j \in DOMAIN values PROVE Sound(j)'
  <2>1. /\ Sound(j) /\ Holders(j)' = Holders(j) /\ values'[j] = values[j]
        /\ (j \in shelf <=> j \in shelf')
    BY <1>4, <1>10 DEF IInv
  <2>2. Bereft(j)'
    BY <1>4, <2>1 DEF Sound, Bereft, WentWith, IsContext, Keyed
  <2>3. Keyed(j)' BY <1>4, <2>1 DEF Sound, Keyed, IsContext
  <2> QED BY <2>1, <2>2, <2>3 DEF Sound, Counted, Shown, LetGo, Alive
<1>12. Sound(n)'
  <2>1. IsFiniteSet({u}) /\ Cardinality({u}) = 1 BY FS_Singleton
  <2>2. Keyed(n)' BY <1>2, <1>4 DEF Keyed, IsContext
  <2> QED BY <1>2, <1>4, <1>10, <2>1, <2>2
      DEF Sound, Counted, Shown, LetGo, Bereft, Alive
<1> QED BY <1>4, <1>6, <1>7, <1>8, <1>11, <1>12 DEF IInv

(* The two values a user may hold are two.                                 *)
LEMMA TwoValues ==
  ASSUME Parameters, IInv, NEW u \in Users, user[u].context # None
  PROVE  /\ user[u].context \in DOMAIN values /\ user[u].browser \in DOMAIN values
         /\ user[u].context # user[u].browser
<1>1. user[u] \in Doing(Len(values)) /\ DOMAIN values = 1..Len(values) BY Typed DEF IInv
<1>2. user[u].context \in DOMAIN values BY <1>1 DEF Doing, None
<1>3. Pointed(u) BY DEF IInv
<1>4. values[user[u].context].key = user[u].browser BY <1>3 DEF Pointed
<1>5. user[u].browser # None
  BY <1>3 DEF Pointed
<1>6. user[u].browser \in DOMAIN values BY <1>1, <1>5 DEF Doing, None
<1>7. values[user[u].browser].key \in Launches /\ user[u].browser \notin Launches
  BY <1>3, <1>5, <1>6, KeysApart DEF Pointed
<1> QED BY <1>2, <1>4, <1>6, <1>7

(* Nothing but its place changes.                                          *)
LEMMA BecomesStep ==
  ASSUME Parameters, IInv, NEW u \in Users, NEW pc \in Places, Becomes(u, pc),
         UNCHANGED <<values, shelf, begun, deaths>>,
         user[u].pc \notin {"none", "browser freed"}, pc \notin {"none", "browser freed"},
         user[u].context # None => pc \in {"page", "up", "closing"},
         user[u].context = None => pc \notin {"context", "page", "closing"},
         user[u].pc = "browser" => values[user[u].browser].state # "opening",
         user[u].pc = "context" => values[user[u].context].state # "opening"
  PROVE  IInv'
<1> DEFINE x == [user[u] EXCEPT !.pc = pc]
<1>1. user[u] \in Doing(Len(values)) /\ user \in [Users -> Doing(Len(values))]
  BY Typed DEF IInv
<1>2. /\ x \in Doing(Len(values)) /\ x.pc = pc /\ x.browser = user[u].browser
      /\ x.context = user[u].context /\ user' = [user EXCEPT ![u] = x]
  BY <1>1 DEF Doing, Becomes
<1> HIDE DEF x
<1>3. user'[u] = x BY <1>1, <1>2
<1>4. Pointed(u) BY DEF IInv
<1>5. Pointed(u)' BY <1>2, <1>3, <1>4 DEF Pointed
<1> QED BY <1>2, <1>5, UserStep DEF IInv, TypeOK

LEMMA GoneType == Gone \in Doing(Len(values)) /\ Gone.browser = None /\ Gone.context = None
BY DEF Gone, Doing, Places, None

(* It waits for the value it leased.                                       *)
Asks(u, key) ==
  \/ key \in Launches /\ user[u] = Gone
  \/ key \in DOMAIN values /\ key = user[u].browser /\ user[u].pc = "leased"

LEMMA AskStep ==
  ASSUME Parameters, IInv, NEW u \in Users, NEW key, Asks(u, key),
         NEW n \in Nat, Len(values) <= n, NEW i \in 1..n, WaitFor(u, key, i),
         i # user[u].browser, values'[i].key = key,
         \A j \in DOMAIN values : values'[j].key = values[j].key
                                  /\ values'[j].state = values[j].state
  PROVE  \E x \in Doing(n) : user' = [user EXCEPT ![u] = x] /\ Takes(u, i) /\ Pointed(u)'
<1>1. /\ user \in [Users -> Doing(Len(values))] /\ user[u] \in Doing(Len(values))
      /\ Len(values) \in Nat /\ DOMAIN values = 1..Len(values) /\ Pointed(u) /\ i # None
  BY Typed DEF IInv, None
<1>2. CASE key \in Launches /\ user[u] = Gone
  <2> DEFINE x == [Gone EXCEPT !.pc = "browser", !.browser = i]
  <2>1. /\ x \in Doing(n) /\ x.pc = "browser" /\ x.browser = i /\ x.context = None
        /\ user' = [user EXCEPT ![u] = x]
    BY <1>2 DEF Gone, Doing, Places, WaitFor
  <2> HIDE DEF x
  <2>2. user'[u] = x BY <1>1, <2>1
  <2>3. user[u].browser = None /\ user[u].context = None BY <1>2 DEF Gone
  <2>4. Takes(u, i) BY <1>1, <2>1, <2>2, <2>3, KeysApart DEF Takes, Holders, Leases
  <2>5. Pointed(u)' BY <1>1, <1>2, <2>1, <2>2 DEF Pointed
  <2> QED BY <2>1, <2>4, <2>5
<1>3. CASE key \in DOMAIN values /\ key = user[u].browser /\ user[u].pc = "leased"
  <2> DEFINE x == [user[u] EXCEPT !.pc = "context", !.context = i]
  <2>1. key \notin Launches BY <1>3, KeysApart
  <2>2. /\ x \in Doing(n) /\ x.pc = "context" /\ x.browser = user[u].browser /\ x.context = i
        /\ user' = [user EXCEPT ![u] = x]
    <3>1. user' = [user EXCEPT ![u] = x] BY <1>1, <2>1 DEF WaitFor
    <3>2. user[u].browser \in {None} \cup 1..n /\ user[u].awaits \in {None} \cup 1..n
      BY <1>1 DEF Doing
    <3>3. x \in Doing(n) BY <1>1, <3>2 DEF Doing, Places
    <3> QED BY <1>1, <3>1, <3>3 DEF Doing
  <2> HIDE DEF x
  <2>3. user'[u] = x BY <1>1, <2>2
  <2>4. user[u].context = None BY <1>1, <1>3 DEF Pointed
  <2>5. Takes(u, i) BY <1>1, <2>2, <2>3, <2>4, KeysApart DEF Takes, Holders, Leases
  <2>6. Pointed(u)' BY <1>1, <1>3, <2>2, <2>3 DEF Pointed
  <2> QED BY <2>2, <2>5, <2>6
<1> QED BY <1>2, <1>3 DEF Asks

LEMMA LeaseStep ==
  ASSUME Parameters, IInv, NEW u \in Users, NEW key, Asks(u, key), Lease(u, key),
         begun' \in 0..MaxLeases, UNCHANGED deaths
  PROVE  IInv'
<1>1. /\ TypeOK /\ Len(values) \in Nat /\ DOMAIN values = 1..Len(values) /\ Pointed(u)
      /\ user[u] \in Doing(Len(values))
  BY Typed DEF IInv
<1>2. key \in Launches \cup DOMAIN values BY DEF Asks
<1>3. ASSUME NEW i \in Found(key), values' = [values EXCEPT ![i].holders = @ + 1],
             WaitFor(u, key, i), UNCHANGED shelf
      PROVE  IInv'
  <2>1. i \in shelf /\ i \in DOMAIN values /\ values[i].key = key
    BY <1>1 DEF Found, TypeOK
  <2>2. values[i] \in Value BY <1>1, <2>1, Typed
  <2>3. \A j \in DOMAIN values : values'[j].key = values[j].key
                                 /\ values'[j].state = values[j].state
    BY <1>1, <1>3, <2>1, <2>2, Typed DEF Value
  <2>4. i # user[u].browser
    <3>1. CASE user[u] = Gone BY <2>1, <3>1, KeysApart DEF Gone
    <3>2. CASE key \in DOMAIN values /\ key = user[u].browser /\ user[u].pc = "leased"
      <4>1. key # None /\ key \notin Launches BY <3>2, KeysApart
      <4> QED BY <1>1, <2>1, <3>2, <4>1 DEF Pointed
    <3> QED BY <3>1, <3>2 DEF Asks
  <2>5. PICK x \in Doing(Len(values)) :
          user' = [user EXCEPT ![u] = x] /\ Takes(u, i) /\ Pointed(u)'
    BY <1>1, <1>3, <2>1, <2>3, <2>4, AskStep
  <2> QED BY <1>3, <2>1, <2>5, ShareStep
<1>4. CASE Found(key) = {}
  <2> DEFINE y == [key |-> key, state |-> "opening", holders |-> 1]
  <2>1. PICK n \in Nat : n = Len(values) + 1 BY <1>1
  <2>2. /\ values' = Append(values, y) /\ shelf' = shelf \cup {n} /\ WaitFor(u, key, n)
    BY <1>4, <2>1 DEF Lease
  <2>3. y \in Value /\ values \in Seq(Value) BY <1>1, <1>2, Typed DEF Value, States
  <2>4. values'[n] = y /\ \A j \in DOMAIN values : values'[j] = values[j]
    BY <1>1, <2>1, <2>2, <2>3, AppendProperties
  <2>5. n # user[u].browser /\ n \in 1..n /\ Len(values) <= n
    BY <1>1, <2>1 DEF Doing, None
  <2>6. values'[n].key = key BY <2>4
  <2>7. PICK x \in Doing(n) : user' = [user EXCEPT ![u] = x] /\ Takes(u, n) /\ Pointed(u)'
    BY <2>2, <2>4, <2>5, <2>6, AskStep
  <2> QED BY <1>2, <1>4, <2>1, <2>2, <2>7, OpenStep
<1> QED BY <1>3, <1>4 DEF Lease

(* What is given back was leased, and so counted.                           *)
LEMMA Counts ==
  ASSUME IInv, NEW i \in DOMAIN values, NEW u \in Holders(i)
  PROVE  values[i] \in Value /\ values[i].holders \in Nat /\ values[i].holders # 0
<1>1. values[i] \in Value /\ values[i].holders \in Nat BY Typed DEF IInv, Value
<1>2. IsFiniteSet(Holders(i)) /\ values[i].holders = Cardinality(Holders(i))
  BY DEF IInv, Sound, Counted
<1>3. Cardinality(Holders(i)) # 0 BY <1>2, FS_EmptySet
<1> QED BY <1>1, <1>2, <1>3

LEMMA UncountFacts ==
  ASSUME IInv, NEW i \in DOMAIN values, NEW u \in Holders(i), Uncount(i), UNCHANGED shelf,
         Threw(i)
  PROVE  \E y \in Value : values' = [values EXCEPT ![i] = y] /\ Lessened(i)
<1> DEFINE y == [values[i] EXCEPT !.holders = values[i].holders - 1]
<1>1. /\ y \in Value /\ y.key = values[i].key /\ y.state = values[i].state
      /\ y.holders = values[i].holders - 1 /\ values' = [values EXCEPT ![i] = y]
  BY Counts DEF Value, Uncount
<1> HIDE DEF y
<1>2. values'[i] = y BY <1>1
<1> QED BY <1>1, <1>2 DEF Lessened, Threw

LEMMA ReleaseFacts ==
  ASSUME IInv, NEW i \in DOMAIN values, NEW u \in Holders(i), Release(i)
  PROVE  \E y \in Value : values' = [values EXCEPT ![i] = y] /\ Lessened(i)
<1> DEFINE closes == values[i].holders = 1 /\ i \in shelf /\ values[i].state = "open"
           y == [values[i] EXCEPT !.holders = values[i].holders - 1,
                                  !.state = IF closes THEN "closing" ELSE values[i].state]
<1>1. /\ y \in Value /\ y.key = values[i].key /\ y.holders = values[i].holders - 1
      /\ y.state = IF closes THEN "closing" ELSE values[i].state
  <2>1. values[i] \in Value /\ values[i].holders - 1 \in Nat BY Counts
  <2>2. (IF closes THEN "closing" ELSE values[i].state) \in States
    BY <2>1 DEF Value, States
  <2> QED BY <2>1, <2>2 DEF Value
<1>2. values' = [values EXCEPT ![i] = y] BY DEF Release
<1> HIDE DEF y
<1>3. values'[i] = y BY <1>2
<1>4. shelf' = IF values[i].holders = 1 THEN shelf \ {i} ELSE shelf BY DEF Release
<1> QED BY <1>1, <1>2, <1>3, <1>4 DEF Lessened

(* It gives back its context, or the browser it has no context of.          *)
LEMMA GiveContext ==
  ASSUME Parameters, IInv, NEW u \in Users, NEW c, c = user[u].context, c # None,
         values[c].state # "opening", NEW y \in Value, values' = [values EXCEPT ![c] = y],
         Lessened(c), NEW w \in {None} \cup 1..Len(values),
         user' = [user EXCEPT ![u].pc = "context freed", ![u].context = None,
                              ![u].awaits = w],
         UNCHANGED <<begun, deaths>>
  PROVE  IInv'
<1> DEFINE x == [user[u] EXCEPT !.pc = "context freed", !.context = None, !.awaits = w]
           b == user[u].browser
<1>1. /\ user \in [Users -> Doing(Len(values))] /\ user[u] \in Doing(Len(values)) /\ Pointed(u)
  BY Typed DEF IInv
<1>2. /\ x \in Doing(Len(values)) /\ x.pc = "context freed" /\ x.browser = b
      /\ x.context = None /\ user' = [user EXCEPT ![u] = x]
  BY <1>1 DEF Doing, Places
<1> HIDE DEF x
<1>3. user'[u] = x BY <1>1, <1>2
<1>4. c \in DOMAIN values /\ b \in DOMAIN values /\ c # b BY TwoValues
<1>5. b # None BY <1>4, KeysApart
<1>6. values'[b] = values[b] BY <1>4
<1>7. Pointed(u)' BY <1>1, <1>2, <1>3, <1>5, <1>6 DEF Pointed
<1>8. LetsGo(u, c) BY <1>2, <1>3, <1>4 DEF LetsGo, Holders, Leases
<1> QED BY <1>2, <1>4, <1>7, <1>8, GiveStep

LEMMA GiveBrowser ==
  ASSUME Parameters, IInv, NEW u \in Users, NEW b, b = user[u].browser, b # None,
         user[u].context = None,
         values[b].state # "opening", NEW y \in Value, values' = [values EXCEPT ![b] = y],
         Lessened(b), NEW x \in Doing(Len(values)), x.pc \in {"none", "browser freed"},
         x.browser = None, x.context = None, user' = [user EXCEPT ![u] = x],
         UNCHANGED <<begun, deaths>>
  PROVE  IInv'
<1>1. /\ user \in [Users -> Doing(Len(values))] /\ user[u] \in Doing(Len(values))
      /\ DOMAIN values = 1..Len(values)
  BY Typed DEF IInv
<1>2. b \in DOMAIN values /\ user'[u] = x BY <1>1 DEF Doing, None
<1>3. Pointed(u)' BY <1>2 DEF Pointed
<1>4. LetsGo(u, b) BY <1>2 DEF LetsGo, Holders, Leases
<1> QED BY <1>2, <1>3, <1>4, GiveStep

LEMMA HaveBrowserStep == ASSUME Parameters, IInv, NEW u \in Users, HaveBrowser(u) PROVE IInv'
<1> DEFINE b == user[u].browser
<1>1. /\ Pointed(u) /\ user[u].pc = "browser" /\ Settled(b) /\ UNCHANGED <<shelf, begun, deaths>>
      /\ user[u] \in Doing(Len(values)) /\ DOMAIN values = 1..Len(values)
  BY Typed DEF IInv, HaveBrowser
<1>2. b # None /\ user[u].context = None /\ b \in DOMAIN values /\ u \in Holders(b)
  BY <1>1 DEF Pointed, Doing, None, Holders, Leases
<1>3. values[b].state # "opening" BY <1>1 DEF Settled
<1>4. CASE Threw(b)
  <2>1. Uncount(b) /\ user' = [user EXCEPT ![u] = Gone] BY <1>4 DEF HaveBrowser
  <2>2. PICK y \in Value : values' = [values EXCEPT ![b] = y] /\ Lessened(b)
    BY <1>1, <1>2, <1>4, <2>1, UncountFacts
  <2>3. Gone.pc = "none" BY DEF Gone
  <2> QED BY <1>1, <1>2, <1>3, <2>1, <2>2, <2>3, GoneType, GiveBrowser
<1>5. CASE ~Threw(b)
  <2>1. PICK pc \in {"up", "leased"} : Becomes(u, pc)
    BY <1>5 DEF HaveBrowser
  <2>2. UNCHANGED values /\ pc \in Places BY <1>5 DEF HaveBrowser, Places
  <2> QED BY <1>1, <1>2, <1>3, <2>1, <2>2, BecomesStep
<1> QED BY <1>4, <1>5

LEMMA HaveContextStep == ASSUME Parameters, IInv, NEW u \in Users, HaveContext(u) PROVE IInv'
<1> DEFINE c == user[u].context
<1>1. /\ Pointed(u) /\ user[u].pc = "context" /\ Settled(c) /\ UNCHANGED <<shelf, begun, deaths>>
      /\ user[u] \in Doing(Len(values)) /\ user \in [Users -> Doing(Len(values))]
  BY Typed DEF IInv, HaveContext
<1>2. c # None BY <1>1 DEF Pointed
<1>3. c \in DOMAIN values /\ u \in Holders(c) BY <1>2, TwoValues DEF Holders, Leases
<1>4. values[c].state # "opening" BY <1>1 DEF Settled
<1>5. CASE Threw(c)
  <2>1. /\ Uncount(c)
        /\ user' = [user EXCEPT ![u].pc = "context freed", ![u].context = None]
    BY <1>5 DEF HaveContext
  <2>2. PICK y \in Value : values' = [values EXCEPT ![c] = y] /\ Lessened(c)
    BY <1>1, <1>3, <1>5, <2>1, UncountFacts
  <2>3. user[u].awaits \in {None} \cup 1..Len(values) BY <1>1 DEF Doing
  <2>4. user' = [user EXCEPT ![u].pc = "context freed", ![u].context = None,
                             ![u].awaits = user[u].awaits]
    BY <1>1, <2>1 DEF Doing
  <2> QED BY <1>1, <1>2, <1>4, <2>2, <2>3, <2>4, GiveContext
<1>6. CASE ~Threw(c)
  <2>1. Becomes(u, "page") /\ UNCHANGED values /\ "page" \in Places
    BY <1>6 DEF HaveContext, Places
  <2> QED BY <1>1, <1>2, <1>4, <2>1, BecomesStep
<1> QED BY <1>5, <1>6

LEMMA ReleaseContextStep ==
  ASSUME Parameters, IInv, NEW u \in Users, ReleaseContext(u) PROVE IInv'
<1> DEFINE c == user[u].context
<1>1. /\ Pointed(u) /\ user[u].pc = "closing" /\ Release(c) /\ UNCHANGED <<begun, deaths>>
      /\ DOMAIN values = 1..Len(values)
  BY Typed DEF IInv, ReleaseContext
<1>2. c # None /\ values[c].state # "opening" BY <1>1 DEF Pointed
<1>3. c \in DOMAIN values /\ u \in Holders(c) BY <1>2, TwoValues DEF Holders, Leases
<1>4. PICK y \in Value : values' = [values EXCEPT ![c] = y] /\ Lessened(c)
  BY <1>1, <1>3, ReleaseFacts
<1>5. PICK w \in {None} \cup 1..Len(values) : w = Awaited(c) BY <1>1, <1>3 DEF Awaited
<1>6. user' = [user EXCEPT ![u].pc = "context freed", ![u].context = None, ![u].awaits = w]
  BY <1>5 DEF ReleaseContext
<1> QED BY <1>1, <1>2, <1>4, <1>6, GiveContext

LEMMA ReleaseBrowserStep ==
  ASSUME Parameters, IInv, NEW u \in Users, ReleaseBrowser(u) PROVE IInv'
<1> DEFINE b == user[u].browser
<1>1. /\ Pointed(u) /\ user[u].pc = "context freed" /\ Release(b) /\ UNCHANGED <<begun, deaths>>
      /\ user \in [Users -> Doing(Len(values))] /\ user[u] \in Doing(Len(values))
      /\ DOMAIN values = 1..Len(values)
  BY Typed DEF IInv, ReleaseBrowser
<1>2. b # None /\ user[u].context = None /\ values[b].state # "opening" BY <1>1 DEF Pointed
<1>3. b \in DOMAIN values /\ u \in Holders(b)
  BY <1>1, <1>2 DEF Doing, None, Holders, Leases
<1>4. PICK y \in Value : values' = [values EXCEPT ![b] = y] /\ Lessened(b)
  BY <1>1, <1>3, ReleaseFacts
<1>5. PICK w \in {None} \cup 1..Len(values) : w = Awaited(b) BY <1>1, <1>3 DEF Awaited
<1> DEFINE x == [user[u] EXCEPT !.pc = "browser freed", !.browser = None, !.awaits = w]
<1>6. /\ x \in Doing(Len(values)) /\ x.pc = "browser freed" /\ x.browser = None
      /\ x.context = None
  BY <1>1, <1>2 DEF Doing, Places
<1>7. user' = [user EXCEPT ![u] = x] BY <1>1, <1>5 DEF ReleaseBrowser
<1> HIDE DEF x
<1> QED BY <1>1, <1>2, <1>4, <1>6, <1>7, GiveBrowser

LEMMA UsersStep ==
  ASSUME Parameters, IInv, NEW u \in Users, LeaseBrowser(u) \/ Proceed(u) PROVE IInv'
<1>1. Pointed(u) BY DEF IInv
<1>2. CASE LeaseBrowser(u)
  <2>1. PICK launch \in Launches : Lease(u, launch) BY <1>2 DEF LeaseBrowser
  <2>2. Asks(u, launch) /\ UNCHANGED deaths BY <1>2 DEF LeaseBrowser, Asks
  <2>3. begun' \in 0..MaxLeases
    <3>1. begun \in 0..MaxLeases /\ MaxLeases \in Nat BY DEF IInv, TypeOK, Parameters
    <3>2. begun < MaxLeases /\ begun' = begun + 1 BY <1>2 DEF LeaseBrowser
    <3> QED BY <3>1, <3>2
  <2> QED BY <2>1, <2>2, <2>3, LeaseStep
<1>3. CASE LeaseContext(u)
  <2>1. user[u] \in Doing(Len(values)) /\ DOMAIN values = 1..Len(values)
    BY Typed DEF IInv
  <2>2. user[u].browser \in DOMAIN values
    BY <1>1, <1>3, <2>1 DEF LeaseContext, Pointed, Doing, None
  <2>3. Asks(u, user[u].browser) /\ begun' \in 0..MaxLeases /\ UNCHANGED deaths
    BY <1>3, <2>2 DEF LeaseContext, Asks, IInv, TypeOK
  <2> QED BY <1>3, <2>3, LeaseStep DEF LeaseContext
<1>4. CASE PageOpens(u) \/ PageFails(u) \/ Close(u)
  <2>1. PICK pc \in {"up", "closing", "context freed"} :
          /\ Becomes(u, pc) /\ user[u].pc \in {"page", "up"}
          /\ user[u].context # None => pc \in {"up", "closing"}
          /\ user[u].context = None => pc # "closing"
    BY <1>1, <1>4 DEF PageOpens, PageFails, Close, Pointed
  <2>2. UNCHANGED <<values, shelf, begun, deaths>> /\ pc \in Places
    BY <1>4 DEF PageOpens, PageFails, Close, Places
  <2> QED BY <2>1, <2>2, BecomesStep
<1>5. CASE Done(u)
  <2>1. /\ user' = [user EXCEPT ![u] = Gone] /\ UNCHANGED <<values, shelf, begun, deaths>>
        /\ user[u].browser = None /\ user[u].context = None
        /\ user \in [Users -> Doing(Len(values))]
    BY <1>1, <1>5, Typed DEF Done, Pointed, IInv
  <2>2. Pointed(u)' BY <2>1 DEF Pointed, Gone
  <2> QED BY <2>1, <2>2, GoneType, UserStep DEF IInv, TypeOK
<1> QED
  BY <1>2, <1>3, <1>4, <1>5, HaveBrowserStep, HaveContextStep, ReleaseContextStep,
     ReleaseBrowserStep
  DEF Proceed

LEMMA StartSound == ASSUME Parameters, Init PROVE IInv
<1>1. DOMAIN values = {} /\ Len(values) = 0 /\ values = <<>> BY DEF Init
<1>2. TypeOK BY <1>1 DEF Init, TypeOK, Gone, None, Parameters
<1>3. \A u \in Users : Pointed(u) BY DEF Init, Pointed, Gone, None
<1>4. Unique BY DEF Init, Unique
<1> QED BY <1>1, <1>2, <1>3, <1>4 DEF IInv

LEMMA NextSound == ASSUME Parameters, IInv, [Next]_vars PROVE IInv'
<1>1. CASE UNCHANGED vars
  <2>1. UNCHANGED <<values, shelf, user, begun, deaths>> BY <1>1 DEF vars
  <2>2. TypeOK' /\ Unique' BY <2>1 DEF IInv, TypeOK, Unique
  <2>3. \A u \in Users : Pointed(u)' BY <2>1 DEF IInv, Pointed
  <2>4. ASSUME NEW i \in DOMAIN values PROVE Sound(i)'
    <3>1. Sound(i) /\ Holders(i)' = Holders(i) BY <2>1 DEF IInv, Holders, Leases
    <3> QED BY <2>1, <3>1
        DEF Sound, Counted, Shown, LetGo, Bereft, Keyed, WentWith, Alive, IsContext
  <2> QED BY <2>1, <2>2, <2>3, <2>4 DEF IInv
<1>2. CASE Next BY <1>2, UsersStep, SettleStep DEF Next
<1> QED BY <1>1, <1>2
-----------------------------------------------------------------------------
(* The theorems.                                                           *)

(* The shelf's count of a value's holders is the number of its leases.      *)
THEOREM Invariant == ASSUME Parameters PROVE Spec => []IInv
<1>1. Init => IInv BY StartSound
<1>2. IInv /\ [Next]_vars => IInv' BY NextSound
<1> QED BY <1>1, <1>2, PTL DEF Spec

(* Nobody holds a browser or a context another one's release is closing.    *)
THEOREM LeasedStandsOpen == ASSUME Parameters PROVE Spec => []LeasedIsNotClosed
<1>1. IInv => LeasedIsNotClosed
  <2> SUFFICES ASSUME IInv, NEW u \in Users, NEW i \in DOMAIN values, Leases(u, i)
               PROVE  /\ values[i].state # "closing"
                      /\ values[i].state = "closed"
                           => values[user[u].browser].state \in {"dead", "forgotten"}
    BY DEF LeasedIsNotClosed
  <2>1. Sound(i) /\ Pointed(u) /\ u \in Holders(i) BY DEF IInv, Holders
  <2>2. values[i].state # "closing" BY <2>1 DEF Sound, LetGo
  <2>3. ASSUME values[i].state = "closed"
        PROVE  values[user[u].browser].state \in {"dead", "forgotten"}
    <3>1. WentWith(i) BY <2>1, <2>3 DEF Sound, Bereft
    <3>2. i = user[u].context BY <2>1, <3>1 DEF Leases, Pointed, WentWith, IsContext
    <3> QED BY <2>1, <3>1, <3>2 DEF Leases, Pointed, WentWith
  <2> QED BY <2>2, <2>3
<1> QED BY <1>1, Invariant, PTL

(* No browser and no context outlives its last holder.                     *)
THEOREM NothingOutlives == ASSUME Parameters PROVE Spec => []NothingIsLeftOpen
<1>1. IInv => NothingIsLeftOpen BY DEF IInv, Sound, Shown, Holders, NothingIsLeftOpen
<1> QED BY <1>1, Invariant, PTL

(* One browser of a recipe and one context of a browser are alive at a time. *)
THEOREM OneAlive == ASSUME Parameters PROVE Spec => []OneOfAKey
<1>1. IInv => OneOfAKey BY DEF IInv, Sound, Shown, Unique, OneOfAKey
<1> QED BY <1>1, Invariant, PTL
=============================================================================
