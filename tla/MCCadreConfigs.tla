--------------------------- MODULE MCCadreConfigs ---------------------------
(***************************************************************************)
(* The installer on the configurations of the repository.  The packages of *)
(* a set "broken" fail at the first command that can fail, every time;     *)
(* everything else succeeds, and nobody interrupts the program.            *)
(***************************************************************************)
EXTENDS CadreInstall, CadreConfigs, FiniteSets, SequencesExt

ConfigNames == DOMAIN Configurations

(***************************************************************************)
(* The packages of .gitmodules whose directory is there, and empty, in a   *)
(* fresh clone: all git packages but armadillo, which moved to 10.8.       *)
(***************************************************************************)
Submodules == {n \in ConfigNames : Configurations[n].source = "git"} \ {"armadillo"}

(***************************************************************************)
(* The offline packages come with the repository; the file of arcgis is    *)
(* there if the user has put it there.                                     *)
(***************************************************************************)
Offline == {n \in ConfigNames : /\ Configurations[n].source \in {"archive", "deb"}
                                /\ ~Configurations[n].url}

MCWorlds ==
  {[tree |-> [n \in ConfigNames |-> IF n \in Submodules THEN "empty" ELSE "absent"],
    file |-> f] : f \in {Offline, Offline \ {"arcgis"}}}

(***************************************************************************)
(* The hypothesis of MadeFromSourcesAlways holds of every configuration of *)
(* the repository.                                                         *)
(***************************************************************************)
ASSUME SourcesAssumption == EachNeedsItsSources

(***************************************************************************)
(* Two orders of os.walk: one as good and one as bad as any, with every    *)
(* package before, or after, the packages that depend on it.               *)
(***************************************************************************)
Needs(n) == Configurations[n].dependencies
Level[i \in 0..Cardinality(ConfigNames)] ==
  LET below == IF i = 0 THEN {} ELSE Level[i - 1]
  IN  {n \in ConfigNames : Needs(n) \subseteq below}
Depth(n) == CHOOSE i \in 0..Cardinality(ConfigNames) :
              n \in Level[i] /\ (i > 0 => n \notin Level[i - 1])
ByDepth == FoldSet(LAMBDA n, q : SelectSeq(q, LAMBDA m : Depth(m) < Depth(n)) \o <<n>>
                                   \o SelectSeq(q, LAMBDA m : Depth(m) >= Depth(n)),
                   <<>>, ConfigNames)
MCOrders == {ByDepth, Reverse(ByDepth)}

(***************************************************************************)
(* The hypothesis of AllOthersAreMadeAlways.                               *)
(***************************************************************************)
ASSUME RanksAssumption == Ranks([n \in ConfigNames |-> Depth(n)])

BrokenSets == {{}, {"Qt", "eigen3"}} \cup {{n} : n \in ConfigNames}

VARIABLES broken,
          round         \* the number of the round, for RoundsFollowLevels

MCInit == /\ Init
          /\ broken \in BrokenSets
          /\ round = 1

CanFail == \/ stage \in Mandatory(current_name)
           \/ stage = "unpack" /\ "dpkg" \in Mandatory(current_name)
           \/ stage = "build" /\ todo # <<>> /\ Head(todo) # "enter"

Stops == stage' = "raised" \/ (stage' = "returned" /\ ~result')

Failing == \/ Stops
           \/ stage = "fetch" /\ tree'[current_name] = "empty"
           \/ stage = "checkout" /\ "checkout" \in error_log'[current_name]

FileMissing == stage = "fetch" /\ current_name \notin file /\ ~Cfg.url /\ Cfg.source # "git"

MCNext == /\ Step
          /\ UNCHANGED broken
          /\ round' = IF EndRound THEN round + 1 ELSE round
          /\ phase = "configs" => phase' = "deploy"
          /\ phase = "makeit" /\ stage \notin {"dependencies", "returned", "raised"} =>
               IF (current_name \in broken /\ CanFail) \/ FileMissing
                 THEN Stops ELSE ~Failing

MCSpec == MCInit /\ [][MCNext]_<<vars, broken, round>>
-----------------------------------------------------------------------------
(***************************************************************************)
(* What cannot be made when the packages of F cannot: F and everything     *)
(* that depends on it, directly or not.                                    *)
(***************************************************************************)
Blocked(F) ==
  LET B[i \in 0..Cardinality(Names)] ==
        LET below == IF i = 0 THEN {} ELSE B[i - 1]
        IN  F \cup {n \in Names : Config[n].dependencies \cap below # {}}
  IN  B[Cardinality(Names)]

Hopeless == Blocked(broken \cup ({"arcgis"} \ file))

(***************************************************************************)
(* Whatever the order of the configurations, the retry loop ends with      *)
(* exactly the packages made that do not depend on one that fails.         *)
(***************************************************************************)
AllThatCanBeIsMade == phase = "done" => Made = Names \ Hopeless

(***************************************************************************)
(* The loop takes no more rounds than the graph of dependencies is deep:   *)
(* each round makes at least one more level of it, in the worst order too. *)
(***************************************************************************)
RoundsFollowLevels ==
  phase = "deploy" /\ left = queue =>
    \A i \in 0..(round - 2) : Level[i] \subseteq Made \cup Hopeless
=============================================================================
