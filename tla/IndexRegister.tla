------------------------------ MODULE IndexRegister ------------------------------
(***************************************************************************)
(* What the source indexes promise their writers (packages/sense,           *)
(* native/src/log.rs): what one says is replaced in one step or not at all. *)
(* A writer that works against what it read (an update, a readying) swaps:  *)
(* its answer lands only while the index still says what it read.  A save   *)
(* holds a whole scan of the checkout and puts: whatever lands is what the  *)
(* scan found, never a mixture of it with what was there.                   *)
(***************************************************************************)
CONSTANTS
  Writers,   \* who publishes
  Paths,     \* the indexes
  Contents,  \* what an index may say
  Nothing    \* an index nothing was published at

VARIABLES
  says,      \* what each index says
  asked      \* what each writer has decided to publish and not published yet

Asks == [kind: {"swap", "put"}, path: Paths, from: Contents \cup {Nothing}, next: Contents]
Idle == [kind |-> "none"]

Init ==
  /\ says \in [Paths -> Contents \cup {Nothing}]
  /\ asked = [w \in Writers |-> Idle]

(* A writer read the index, then or earlier, and made up its mind.         *)
Ask(w) ==
  /\ asked[w] = Idle
  /\ asked'[w] \in Asks
  /\ asked' = [asked EXCEPT ![w] = asked'[w]]
  /\ UNCHANGED says

Land(w) ==
  /\ asked[w] # Idle
  /\ asked[w].kind = "swap" => says[asked[w].path] = asked[w].from
  /\ says' = [says EXCEPT ![asked[w].path] = asked[w].next]
  /\ asked' = [asked EXCEPT ![w] = Idle]

(* Refused because the index moved, or the writer died.                    *)
Refuse(w) ==
  /\ asked[w] # Idle
  /\ asked' = [asked EXCEPT ![w] = Idle]
  /\ UNCHANGED says

Next == \E w \in Writers : Ask(w) \/ Land(w) \/ Refuse(w)

Spec == Init /\ [][Next]_<<says, asked>>
=============================================================================
