---------------------------- MODULE InstallOrder ----------------------------
(***************************************************************************)
(* What the installer promises about the order of its work, whatever the   *)
(* packages do: a package is made only on top of packages that are made,   *)
(* and every package but the one being worked on is on record, so that an  *)
(* installer that dies and is started again carries on from its record.    *)
(*                                                                         *)
(* CadreInstall implements this specification.                             *)
(***************************************************************************)
CONSTANTS Names,        \* the packages that have a configuration
          Deps          \* Deps[n]: the packages n is made on top of

VARIABLES made,         \* the packages made so far
          recorded      \* the packages the record on disk says are made

vars == <<made, recorded>>

TypeOK == made \subseteq Names /\ recorded \subseteq Names

Init == made = {} /\ recorded = {}

(***************************************************************************)
(* The package n is made.  Whatever was made before it is on record.       *)
(***************************************************************************)
Make(n) == /\ recorded = made
           /\ n \notin made
           /\ Deps[n] \subseteq made
           /\ made' = made \cup {n}
           /\ UNCHANGED recorded

(***************************************************************************)
(* The record is rewritten: first it is erased, then all of it written.    *)
(***************************************************************************)
Erase == recorded' = {} /\ UNCHANGED made

Record == recorded' = made /\ UNCHANGED made

(***************************************************************************)
(* The installer dies: what is made is again what the record says.         *)
(***************************************************************************)
Die == made' = recorded /\ UNCHANGED recorded

Next == (\E n \in Names : Make(n)) \/ Erase \/ Record \/ Die

Spec == Init /\ [][Next]_vars
-----------------------------------------------------------------------------
(***************************************************************************)
(* A set of packages with everything they are made on top of.              *)
(***************************************************************************)
Closed(S) == \A n \in S : Deps[n] \subseteq S

(***************************************************************************)
(* Neither the memory of the installer nor its record ever holds a package *)
(* without the packages it depends on (MakeIt/DeployFunc.py:376-382).      *)
(***************************************************************************)
DependenciesMade == Closed(made) /\ Closed(recorded)
=============================================================================
