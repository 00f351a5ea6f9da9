-------------------------- MODULE MCObjectLedgerRaces --------------------------
(***************************************************************************)
(* ObjectLedgerRaces for the model checker: two services side by side, in   *)
(* which sweeps overlap everything.  One stores pictures and caches their   *)
(* documents; the other keeps builds that show no picture.  `service` says  *)
(* which one a behaviour is of; every step is a step of ObjectLedgerRaces.  *)
(***************************************************************************)
EXTENDS ObjectLedgerRaces

VARIABLE service

OfPictures == present = {} /\ \A r \in Requests : req[r].pc # "held"
OfBuilds == claimed = {} /\ \A r \in Requests : req[r].pc # "claim" /\ req[r].named = {}
Within == IF service = "pictures" THEN OfPictures ELSE OfBuilds

RacesInit == RaceInit /\ service \in {"pictures", "builds"}
RacesNext == RaceNext /\ UNCHANGED service /\ Within'
RacesSpec == RacesInit /\ [][RacesNext]_<<raceVars, service>> /\ Fairness
=============================================================================
