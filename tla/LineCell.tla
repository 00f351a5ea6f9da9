-------------------------------- MODULE LineCell --------------------------------
(***************************************************************************)
(* What a share's backend promises of one line (packages/core, share):     *)
(* a manifest that is replaced only if nobody replaced it first.           *)
(* A caller loads a manifest, and later asks for a write against it; the   *)
(* write takes place in one step, while the manifest is still the one      *)
(* loaded, or not at all.                                                  *)
(***************************************************************************)
CONSTANTS
  Writers,    \* who publishes on the line
  Manifests,  \* what a line may hold
  Absent      \* a line nothing was published on

VARIABLES
  manifest,   \* what the line holds
  call        \* the call each writer has in flight, or the last one's answer

States == Manifests \cup {Absent}
Answers == {"none", "written", "refused", "lost"}
Call == [storing: BOOLEAN, expected: States, next: States, answer: Answers]

Answered(answer) == [storing |-> FALSE, expected |-> Absent, next |-> Absent,
                     answer |-> answer]

Init ==
  /\ manifest \in States
  /\ call = [w \in Writers |-> Answered("none")]

(* load, and what the caller makes of it.                                  *)
Load(w) ==
  /\ ~call[w].storing
  /\ \E next \in Manifests :
       call' = [call EXCEPT ![w] = [storing |-> TRUE, expected |-> manifest,
                                    next |-> next, answer |-> "none"]]
  /\ UNCHANGED manifest

(* store, taking place: the caller is told, or the answer is lost.         *)
Replace(w) ==
  /\ call[w].storing
  /\ manifest = call[w].expected
  /\ manifest' = call[w].next
  /\ \E answer \in {"written", "lost"} : call' = [call EXCEPT ![w] = Answered(answer)]

(* store, not taking place: a conflict or a miss.                          *)
Refuse(w) ==
  /\ call[w].storing
  /\ call' = [call EXCEPT ![w] = Answered("refused")]
  /\ UNCHANGED manifest

(* The caller dies, or is done with the answer.                            *)
Forget(w) ==
  /\ call[w] # Answered("none")
  /\ call' = [call EXCEPT ![w] = Answered("none")]
  /\ UNCHANGED manifest

(* Every step changes what its own caller waits for.                       *)
Step(w) == Load(w) \/ Replace(w) \/ Refuse(w) \/ Forget(w)

Next == \E w \in Writers : call'[w] # call[w] /\ Step(w)

Spec == Init /\ [][Next]_<<manifest, call>>
=============================================================================
