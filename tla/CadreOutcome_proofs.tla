------------------------- MODULE CadreOutcome_proofs -------------------------
(***************************************************************************)
(* Proofs of what the end of a package and the end of the program mean:    *)
(* that a made package succeeded and had its sources, that the logs agree, *)
(* and that the retry loop stops only where trying again is of no use.     *)
(***************************************************************************)
EXTENDS CadreInstall_proofs, WellFoundedInduction

(***************************************************************************)
(* makeit has reset entries or is about to look at the dependencies.       *)
(***************************************************************************)
Starting == stage \in Resetting \cup {"dependencies"}

(***************************************************************************)
(* The mandatory stages of the current package that have not run: it has   *)
(* come to "stage", and the others are in its success log.                 *)
(***************************************************************************)
Due(e) ==
  \/ Starting \/ stage \in {"apt", "raised"}
  \/ stage = "precmds" /\ e # "apt"
  \/ stage = "srcprecmds" /\ e \notin {"apt", "precmds"}
  \/ stage \in {"fetch", "checkout", "unpack"} /\ e \notin {"apt", "precmds", "srcprecmds"}
  \/ stage = "patch" /\ e \in BuildCommands \cup {"patch", "srcpostcmds", "postcmds"}
  \/ stage = "srcpostcmds" /\ e \in BuildCommands \cup {"srcpostcmds", "postcmds"}
  \/ stage = "build" /\ (e = "postcmds" \/ \E i \in DOMAIN todo : todo[i] = e)
  \/ stage \in {"ldpath", "postcmds"} /\ e = "postcmds"

(***************************************************************************)
(* The stages that a kind of source leads to, and the build commands that  *)
(* are left.                                                               *)
(***************************************************************************)
OnItsWay ==
  /\ stage \in {"srcprecmds", "fetch", "srcpostcmds", "build"} => Cfg.source # "none"
  /\ stage = "checkout" => Cfg.source = "git"
  /\ stage = "unpack" => Cfg.source \in {"archive", "deb", "other"}
  /\ stage = "patch" => Cfg.source \in {"git", "archive"}
  /\ stage = "build" =>
       \A i \in DOMAIN todo : \E j \in DOMAIN Cfg.build : Cfg.build[j] = todo[i]

Progress ==
  Working => /\ OnItsWay
             /\ stage \notin Resetting => error_log[current_name] \subseteq {"checkout"}
             /\ stage = "dependencies" => error_log[current_name] = {}
             /\ \A e \in Mandatory(current_name) : e \in success_log[current_name] \/ Due(e)

(***************************************************************************)
(* A failure of n can be explained (FailureIsExplained).                   *)
(***************************************************************************)
Explained(n) ==
  \/ error_log[n] # {}
  \/ Config[n].source \in {"archive", "deb", "other"} /\ ~Config[n].url /\ n \notin file
  \/ /\ tree[n] \in {"empty", "partial", "hollow"}
     /\ \E i \in DOMAIN Config[n].build : Config[n].build[i] \in {"qmake", "script", "enter"}

(***************************************************************************)
(* The logs are good for what a status dictionary says.                    *)
(***************************************************************************)
GoodEntries(status, success, error) ==
  \A n \in MadeIn(status) : /\ n \in DOMAIN success /\ n \in DOMAIN error
                            /\ Mandatory(n) \subseteq success[n]
                            /\ error[n] \subseteq {"checkout"}

GoodLogs(status, success, error) ==
  /\ DOMAIN success = DOMAIN status /\ DOMAIN error = DOMAIN status
  /\ GoodEntries(status, success, error)

MemoryIsGood == /\ LogsAgree
                /\ Working => current_name \in DOMAIN makeit_status
                /\ GoodEntries(makeit_status, success_log, error_log)

DiskIsGood ==
  /\ phase \in {"success", "error"} => disk["status"] = makeit_status
  /\ phase = "error" => disk["success"] = success_log
  /\ phase \notin Logs => GoodLogs(disk["status"], disk["success"], disk["error"])

(***************************************************************************)
(* The tree of a package that needs its sources.                           *)
(***************************************************************************)
HasSources(n) ==
  Config[n].source \in {"git", "archive"} =>
    tree[n] = "partial" \/ tree[n] = IF Config[n].patch THEN "patched" ELSE "whole"

Treeless == {"empty", "hollow"}

TreesFit ==
  \A n \in Names :
    /\ ~Config[n].patch => tree[n] # "patched"
    /\ Config[n].source = "archive" => tree[n] \notin Treeless

TreeProgress ==
  Working /\ Cfg.source \in {"git", "archive"} =>
    LET t == tree[current_name]
    IN  /\ stage \in {"checkout", "patch", "srcpostcmds", "build", "ldpath", "postcmds"} =>
             t # "absent"
        /\ stage \in {"patch", "srcpostcmds", "build"} =>
             (Cfg.branch /\ current_name \notin OwnBranches => t \notin Treeless)
        /\ stage \in {"srcpostcmds", "build"} /\ Cfg.patch => t \in {"patched", "partial"}
        /\ stage = "srcpostcmds" =>
             t \notin Treeless \/ \E i \in DOMAIN Cfg.build : Cfg.build[i] = "cmake"
        /\ stage = "build" =>
             t \notin Treeless \/ \E i \in DOMAIN todo : todo[i] = "cmake"
        /\ stage \in {"ldpath", "postcmds"} => HasSources(current_name)

SourcesInv == /\ TreesFit /\ TreeProgress
              /\ \A n \in Made \cup Recorded : HasSources(n)

(***************************************************************************)
(* The round.  Between the call of makeit and the end of saveMakeLog the   *)
(* head of "left" is the package at hand.                                  *)
(***************************************************************************)
AtHand == phase \in {"makeit"} \cup Logs
Tried(n) == n \in DOMAIN error_log /\ n \notin Made
OnTime(n) == "dependency" \in error_log[n] <=> ~(Config[n].dependencies \subseteq Made)

NoProgress == /\ Len(failed) + Len(left) = queue_size
              /\ AtHand => Head(left) \notin Made

(***************************************************************************)
(* Every package that is not made is on one of the two lists.              *)
(***************************************************************************)
Listed(n) == \/ \E i \in DOMAIN failed : failed[i] = n
             \/ \E i \in DOMAIN left : left[i] = n

(***************************************************************************)
(* What is known of a package that has failed in this round.  As long as   *)
(* the round made nothing, its dependencies are as they were when it was   *)
(* tried.  (A name may be on the list twice, and be tried again.)          *)
(***************************************************************************)
FailedFor(n) ==
  /\ n \in DOMAIN error_log
  /\ NoProgress => OnTime(n) \/ (Starting /\ n = current_name)
  /\ n \in Made \/ Explained(n) \/ (Working /\ n = current_name)

InRound == phase \in {"deploy", "makeit"} \cup Logs

Lists == InRound => /\ Len(failed) + Len(left) <= queue_size
                    /\ \A n \in Names \ Made : Listed(n)

Failures == InRound => \A i \in DOMAIN failed : FailedFor(failed[i])

Hand ==
  AtHand =>
    IF Working THEN current_name = Head(left)
    ELSE IF result THEN Head(left) \in Made
    ELSE Tried(Head(left)) /\ OnTime(Head(left)) /\ Explained(Head(left))

RoundInv == /\ Lists /\ Failures /\ Hand
            /\ DoneIsFixpoint /\ FailureIsExplained
-----------------------------------------------------------------------------
(***************************************************************************)
(* The elements of a sequence without its first.                           *)
(***************************************************************************)
LEMMA TailHas ==
  ASSUME NEW T, NEW s \in Seq(T), s # <<>>, NEW i \in DOMAIN s
  PROVE  s[i] = Head(s) \/ \E j \in DOMAIN Tail(s) : Tail(s)[j] = s[i]
<1>1. CASE i = 1
  BY <1>1
<1>2. CASE i # 1
  <2>1. i - 1 \in DOMAIN Tail(s) /\ Tail(s)[i - 1] = s[i]
    BY <1>2
  <2> QED
    BY <2>1
<1> QED
  BY <1>1, <1>2

(***************************************************************************)
(* What a mandatory stage says of the configuration.                       *)
(***************************************************************************)
LEMMA MandatoryMeans ==
  ASSUME NEW n \in Names, NEW e \in Mandatory(n)
  PROVE  /\ e \in BuildCommands \cup {"apt", "precmds", "srcprecmds", "checkout", "dpkg",
                                      "patch", "srcpostcmds", "postcmds"}
         /\ e # "enter"
         /\ e = "apt" => Config[n].apt \cap {"pkgs", "remove", "pips"} # {}
         /\ e \in {"precmds", "srcprecmds", "srcpostcmds", "postcmds"} => Config[n][e]
         /\ e = "checkout" => Config[n].source = "git" /\ Config[n].branch
         /\ e = "dpkg" => Config[n].source = "deb"
         /\ e = "patch" => Config[n].source \in {"git", "archive"} /\ Config[n].patch
         /\ e \notin {"apt", "precmds", "postcmds"} => Config[n].source # "none"
         /\ e \in BuildCommands => \E i \in DOMAIN Config[n].build : Config[n].build[i] = e
<1> DEFINE c == Config[n]
<1>1. c \in Configuration
  BY ConfigAssumption
<1>2. \A i \in DOMAIN c.build : c.build[i] \in BuildCommands
  BY <1>1 DEF Configuration
<1>3. \/ e = "apt" /\ c.apt \cap {"pkgs", "remove", "pips"} # {}
      \/ e = "precmds" /\ c.precmds
      \/ e = "srcprecmds" /\ c.srcprecmds /\ c.source # "none"
      \/ e = "checkout" /\ c.source = "git" /\ c.branch
      \/ e = "dpkg" /\ c.source = "deb"
      \/ e = "patch" /\ c.source \in {"git", "archive"} /\ c.patch
      \/ e = "srcpostcmds" /\ c.srcpostcmds /\ c.source # "none"
      \/ e # "enter" /\ c.source # "none" /\ \E i \in DOMAIN c.build : c.build[i] = e
      \/ e = "postcmds" /\ c.postcmds
  BY DEF Mandatory
<1> QED
  BY <1>2, <1>3 DEF BuildCommands

(***************************************************************************)
(* What a step inside makeit does to the entries of the current package.   *)
(***************************************************************************)
Grows(E, F) == /\ success_log'[current_name] = success_log[current_name] \cup E
               /\ error_log'[current_name] = error_log[current_name] \cup F

LEMMA LogsAt ==
  ASSUME NEW E, NEW next
  PROVE  /\ Passes(E, next) => Grows(E, {})
         /\ Fails(E) => Grows({}, E)
         /\ Skips(next) => Grows({}, {})
         /\ LogSuccess(E) /\ UNCHANGED error_log => Grows(E, {})
         /\ UNCHANGED <<success_log, error_log>> => Grows({}, {})
         /\ \A F : LogSuccess(E) /\ LogError(F) => Grows(E, F)
<1>1. LogSuccess(E) => success_log'[current_name] = success_log[current_name] \cup E
  BY DEF LogSuccess, Put
<1>2. \A F : LogError(F) => error_log'[current_name] = error_log[current_name] \cup F
  BY DEF LogError, Put
<1> QED
  BY <1>1, <1>2 DEF Passes, Fails, Skips, Grows

Succeeds ==
  /\ stage' = "returned" /\ result' = TRUE
  /\ makeit_status' = Put(makeit_status, current_name, TRUE)
  /\ error_log' = error_log
  /\ Mandatory(current_name) \subseteq success_log'[current_name]

GivesUp ==
  /\ stage' = "returned" /\ result' = FALSE
  /\ UNCHANGED makeit_status
  /\ Explained(current_name)'
  /\ error_log'[current_name] \subseteq LogEntries \ {"dependency"}

GoesOn ==
  /\ stage' # "returned" /\ UNCHANGED <<makeit_status, result>>
  /\ OnItsWay'
  /\ error_log'[current_name] \subseteq {"checkout"}
  /\ \A e \in Mandatory(current_name) :
       e \in success_log'[current_name] \/ Due(e)'

LEMMA FailsIs ==
  ASSUME Progress, stage \notin Quiet, current_name \in Names, UNCHANGED current_name,
         NEW E \in SUBSET (LogEntries \ {"dependency"}), E # {}, Fails(E)
  PROVE  GivesUp
<1>1. error_log'[current_name] = error_log[current_name] \cup E
  BY LogsAt DEF Grows
<1>2. error_log[current_name] \subseteq {"checkout"}
  BY DEF Progress, Working, Quiet, Resetting
<1> QED
  BY <1>1, <1>2 DEF GivesUp, Explained, Fails, ReturnFalse, Return, LogEntries

LEMMA StageProgress ==
  ASSUME TInv, Progress, MakeitStep, stage \notin Quiet
  PROVE  Succeeds \/ GivesUp \/ GoesOn
<1> DEFINE S == success_log[current_name]
           T == success_log'[current_name]
<1>0. /\ current_name \in Names /\ Working /\ current_name' = current_name
      /\ OnItsWay /\ error_log[current_name] \subseteq {"checkout"}
      /\ \A e \in Mandatory(current_name) : e \in S \/ Due(e)
  BY MakeitStepEffect DEF TInv, HasEntries, Progress, Quiet, Resetting
<1> USE DEF Starting, Resetting
<1> HIDE DEF S, T
<1>a. \A E \in SUBSET (LogEntries \ {"dependency"}) : E # {} /\ Fails(E) => GivesUp
  BY <1>0, FailsIs
<1>b. Cfg \in Configuration
  BY <1>0, ConfigAssumption DEF Cfg
<1>c. Cfg' = Cfg
  BY <1>0 DEF Cfg
<1>1. CASE AptInstall
  <2>1. CASE Fails({"apt"})
    BY <1>a, <2>1 DEF LogEntries
  <2>2. CASE Skips("precmds") /\ Cfg.apt \cap {"pkgs", "remove", "pips"} = {}
    <3>1. Grows({}, {}) BY <2>2, LogsAt
    <3> QED
      BY <1>0, <1>1, <2>2, <3>1, MandatoryMeans
         DEF GoesOn, Grows, Skips, GoTo, Due, OnItsWay, Cfg, S, T
  <2>3. CASE Passes({"apt"}, "precmds")
    <3>1. Grows({"apt"}, {}) BY <2>3, LogsAt
    <3> QED
      BY <1>0, <1>1, <2>3, <3>1 DEF GoesOn, Grows, Passes, GoTo, Due, OnItsWay, S, T
  <2> QED
    BY <1>1, <2>1, <2>2, <2>3 DEF AptInstall
<1>2. CASE PreCommands
  <2>1. CASE Fails({"precmds"})
    BY <1>a, <2>1 DEF LogEntries
  <2>2. CASE Skips(SourceStage) /\ ~Cfg.precmds
    <3>1. Grows({}, {}) BY <2>2, LogsAt
    <3> QED
      BY <1>0, <1>2, <2>2, <3>1, MandatoryMeans
         DEF PreCommands, Commands, SourceStage, GoesOn, Grows, Skips, GoTo, Due, OnItsWay,
             Cfg, S, T
  <2>3. CASE Passes({"precmds"}, SourceStage)
    <3>1. Grows({"precmds"}, {}) BY <2>3, LogsAt
    <3> QED
      BY <1>0, <1>2, <2>3, <3>1, MandatoryMeans
         DEF PreCommands, Commands, SourceStage, GoesOn, Grows, Passes, GoTo, Due, OnItsWay,
             Cfg, S, T
  <2> QED
    BY <1>2, <2>1, <2>2, <2>3 DEF PreCommands, Commands
<1>3. CASE SourcePreCommands
  <2>1. CASE Fails({"srcprecmds"})
    BY <1>a, <2>1 DEF LogEntries
  <2>2. CASE Skips("fetch") /\ ~Cfg.srcprecmds
    <3>1. Grows({}, {}) BY <2>2, LogsAt
    <3> QED
      BY <1>0, <1>3, <2>2, <3>1, MandatoryMeans
         DEF SourcePreCommands, Commands, GoesOn, Grows, Skips, GoTo, Due, OnItsWay, Cfg, S, T
  <2>3. CASE Passes({"srcprecmds"}, "fetch")
    <3>1. Grows({"srcprecmds"}, {}) BY <2>3, LogsAt
    <3> QED
      BY <1>0, <1>3, <2>3, <3>1
         DEF SourcePreCommands, Commands, GoesOn, Grows, Passes, GoTo, Due, OnItsWay, Cfg, S, T
  <2> QED
    BY <1>3, <2>1, <2>2, <2>3 DEF SourcePreCommands, Commands
<1>4. CASE GitFetch
  <2>1. Grows({}, {}) /\ (Skips("checkout") \/ Skips("raised"))
    BY <1>4, LogsAt DEF GitFetch
  <2> QED
    BY <1>0, <1>4, <2>1
       DEF GitFetch, GoesOn, Grows, Skips, GoTo, Due, OnItsWay, Cfg, S, T
<1>5. CASE GitCheckout
  <2>1. stage = "checkout" /\ Cfg.source = "git"
    BY <1>0, <1>5 DEF GitCheckout, OnItsWay
  <2>2. CASE Skips("patch") /\ ~Cfg.branch
    <3>1. Grows({}, {}) BY <2>2, LogsAt
    <3> QED
      BY <1>0, <1>c, <2>1, <2>2, <3>1, MandatoryMeans
         DEF GoesOn, Grows, Skips, GoTo, Due, OnItsWay, Cfg, S, T
  <2>3. ASSUME NEW E, NEW F, Grows(E, F), "checkout" \in E, F \subseteq {"checkout"},
               GoTo("patch")
        PROVE  GoesOn
    <3>1. ASSUME NEW e \in Mandatory(current_name), e \notin success_log'[current_name]
          PROVE  Due(e)'
      <4>1. e \notin {"apt", "precmds", "srcprecmds"} /\ e # "checkout"
        BY <1>0, <2>1, <2>3, <3>1 DEF Grows, Due, S
      <4>2. e # "dpkg"
        BY <1>0, <2>1, MandatoryMeans DEF Cfg
      <4> QED
        BY <1>0, <2>3, <4>1, <4>2, MandatoryMeans DEF GoTo, Due
    <3>2. OnItsWay'
      BY <1>c, <2>1, <2>3 DEF GoTo, OnItsWay
    <3> QED
      BY <1>0, <2>3, <3>1, <3>2 DEF GoesOn, Grows, GoTo
  <2>4. CASE Passes({"checkout"}, "patch")
    <3>1. Grows({"checkout"}, {}) /\ GoTo("patch") BY <2>4, LogsAt DEF Passes
    <3> QED
      BY <2>3, <3>1
  <2>5. CASE Fails({"checkout", "stash"})
    BY <1>a, <2>5 DEF LogEntries
  <2>6. CASE LogError({"checkout"}) /\ LogSuccess({"checkout", "stash"}) /\ GoTo("patch")
    <3>1. Grows({"checkout", "stash"}, {"checkout"}) BY <2>6, LogsAt
    <3> QED
      BY <2>3, <2>6, <3>1
  <2>7. CASE LogError({"checkout"}) /\ LogSuccess({"stash"}) /\ ReturnFalse
    <3>1. Grows({"stash"}, {"checkout"}) BY <2>7, LogsAt
    <3> QED
      BY <1>0, <2>7, <3>1 DEF Grows, GivesUp, Explained, ReturnFalse, Return, LogEntries
  <2> QED
    BY <1>5, <2>2, <2>4, <2>5, <2>6, <2>7 DEF GitCheckout
<1>6. CASE PkgFetch
  <2>1. CASE Skips("unpack") \/ Skips("raised")
    <3>1. Grows({}, {}) BY <2>1, LogsAt
    <3> QED
      BY <1>0, <1>6, <2>1, <3>1
         DEF PkgFetch, GoesOn, Grows, Skips, GoTo, Due, OnItsWay, Cfg, S, T
  <2>2. CASE /\ current_name \notin file /\ ~Cfg.url
             /\ ReturnFalse /\ UNCHANGED <<success_log, error_log, file>>
    BY <1>0, <1>6, <2>2 DEF PkgFetch, GivesUp, Explained, ReturnFalse, Return, LogEntries, Cfg
  <2> QED
    BY <1>6, <2>1, <2>2 DEF PkgFetch
<1>7. CASE PkgUnpack
  <2>1. CASE Fails({"dpkg"})
    BY <1>a, <2>1 DEF LogEntries
  <2>2. CASE Passes({"dpkg"}, "srcpostcmds") /\ Cfg.source = "deb"
    <3>1. Grows({"dpkg"}, {}) BY <2>2, LogsAt
    <3> QED
      BY <1>0, <1>7, <2>2, <3>1, MandatoryMeans
         DEF PkgUnpack, GoesOn, Grows, Passes, GoTo, Due, OnItsWay, Cfg, S, T
  <2>3. CASE Skips("patch") /\ Cfg.source = "archive"
    <3>1. Grows({}, {}) BY <2>3, LogsAt
    <3> QED
      BY <1>0, <1>7, <2>3, <3>1, MandatoryMeans
         DEF PkgUnpack, GoesOn, Grows, Skips, GoTo, Due, OnItsWay, Cfg, S, T
  <2>4. CASE Skips("srcpostcmds") /\ Cfg.source = "other"
    <3>1. Grows({}, {}) BY <2>4, LogsAt
    <3> QED
      BY <1>0, <1>7, <2>4, <3>1, MandatoryMeans
         DEF PkgUnpack, GoesOn, Grows, Skips, GoTo, Due, OnItsWay, Cfg, S, T
  <2>5. CASE Skips("raised")
    <3>1. Grows({}, {}) BY <2>5, LogsAt
    <3> QED
      BY <1>0, <1>7, <2>5, <3>1 DEF GoesOn, Grows, Skips, GoTo, Due, OnItsWay, S, T
  <2> QED
    BY <1>7, <2>1, <2>2, <2>3, <2>4, <2>5 DEF PkgUnpack
<1>8. CASE ApplyPatch
  <2>1. CASE Fails({"patch"})
    BY <1>a, <2>1 DEF LogEntries
  <2>2. CASE Skips("srcpostcmds") /\ ~Cfg.patch
    <3>1. Grows({}, {}) BY <2>2, LogsAt
    <3> QED
      BY <1>0, <1>8, <2>2, <3>1, MandatoryMeans
         DEF ApplyPatch, GoesOn, Grows, Skips, GoTo, Due, OnItsWay, Cfg, S, T
  <2>3. CASE Passes({"patch"}, "srcpostcmds")
    <3>1. Grows({"patch"}, {}) BY <2>3, LogsAt
    <3> QED
      BY <1>0, <1>8, <2>3, <3>1
         DEF ApplyPatch, GoesOn, Grows, Passes, GoTo, Due, OnItsWay, Cfg, S, T
  <2> QED
    BY <1>8, <2>1, <2>2, <2>3 DEF ApplyPatch
<1>9. CASE SourcePostCommands
  <2>1. CASE Fails({"srcpostcmds"})
    BY <1>a, <2>1 DEF LogEntries
  <2>2. ASSUME NEW E, Grows(E, {}), Cfg.srcpostcmds => "srcpostcmds" \in E,
               stage' = "build", todo' = Cfg.build, UNCHANGED <<result, makeit_status>>
        PROVE  GoesOn
    BY <1>0, <1>9, <2>2, MandatoryMeans
       DEF SourcePostCommands, GoesOn, Grows, Due, OnItsWay, Cfg, S, T
  <2>3. CASE LogSuccess({"srcpostcmds"}) /\ UNCHANGED error_log
    <3>1. Grows({"srcpostcmds"}, {}) BY <2>3, LogsAt
    <3> QED
      BY <1>9, <2>1, <2>2, <3>1 DEF SourcePostCommands
  <2>4. CASE UNCHANGED <<success_log, error_log>> /\ ~Cfg.srcpostcmds
    <3>1. Grows({}, {}) BY <2>4, LogsAt
    <3> QED
      BY <1>9, <2>1, <2>2, <2>4, <3>1 DEF SourcePostCommands
  <2> QED
    BY <1>9, <2>1, <2>3, <2>4 DEF SourcePostCommands
<1>10. CASE MakePackage
  <2>0. /\ stage = "build" /\ todo # <<>> /\ todo \in Seq(BuildCommands)
        /\ Head(todo) \in BuildCommands
    BY <1>10 DEF MakePackage, TInv, MakeitTypes
  <2>1. CASE BuildStepPasses
    <3>1. Grows(IF Head(todo) = "enter" THEN {} ELSE {Head(todo)}, {})
      BY <2>1, LogsAt DEF BuildStepPasses
    <3>2. \A e \in Mandatory(current_name) :
            e \in success_log'[current_name] \/ Due(e)'
      <4> SUFFICES ASSUME NEW e \in Mandatory(current_name), e \notin S, e # "postcmds"
                   PROVE  e \in success_log'[current_name] \/ Due(e)'
        BY <2>0, <2>1, <3>1 DEF BuildStepPasses, Grows, Due, S
      <4>1. PICK i \in DOMAIN todo : todo[i] = e
        BY <1>0, <2>0 DEF Due
      <4>2. e = Head(todo) \/ \E j \in DOMAIN Tail(todo) : Tail(todo)[j] = e
        BY <2>0, <4>1, TailHas
      <4>3. e # "enter"
        BY <1>0, MandatoryMeans
      <4> QED
        BY <2>0, <2>1, <3>1, <4>2, <4>3 DEF BuildStepPasses, Grows, Due
    <3>3. stage' = "build" /\ todo' = Tail(todo) /\ UNCHANGED <<makeit_status, result>>
      BY <2>0, <2>1 DEF BuildStepPasses
    <3>4. \A i \in DOMAIN todo' : i + 1 \in DOMAIN todo /\ todo'[i] = todo[i + 1]
      BY <2>0, <3>3
    <3>5. OnItsWay'
      BY <1>0, <1>c, <2>0, <3>3, <3>4 DEF OnItsWay
    <3> QED
      BY <1>0, <3>1, <3>2, <3>3, <3>5 DEF GoesOn, Grows
  <2>2. CASE Fails({Head(todo)})
    <3>1. {Head(todo)} \in SUBSET (LogEntries \ {"dependency"})
      BY <2>0 DEF LogEntries, BuildCommands
    <3> QED
      BY <1>a, <2>2, <3>1
  <2>3. CASE NoDirectory /\ ReturnFalse /\ UNCHANGED <<success_log, error_log>>
    <3>1. tree'[current_name] \in {"empty", "partial", "hollow"}
      BY <1>0, <1>10, <2>3 DEF NoDirectory, MakePackage, TInv, MakeitTypes
    <3>2. Head(todo) \in {"qmake", "script", "enter"} /\ todo[1] = Head(todo) /\ 1 \in DOMAIN todo
      BY <2>0, <2>3 DEF NoDirectory
    <3>3. \E j \in DOMAIN Cfg.build : Cfg.build[j] = Head(todo)
      BY <1>0, <2>0, <3>2 DEF OnItsWay
    <3> QED
      BY <1>0, <2>3, <3>1, <3>2, <3>3
         DEF GivesUp, Explained, ReturnFalse, Return, LogEntries, Cfg
  <2> QED
    BY <1>10, <2>1, <2>2, <2>3 DEF MakePackage
<1>11. CASE Built
  <2>1. Grows({}, {}) BY <1>11, LogsAt DEF Built
  <2> QED
    BY <1>0, <1>11, <2>1 DEF Built, GoesOn, Grows, Skips, GoTo, Due, OnItsWay, S, T
<1>12. CASE LdPath
  <2>1. Grows({}, {}) BY <1>12, LogsAt DEF LdPath
  <2> QED
    BY <1>0, <1>12, <2>1 DEF LdPath, GoesOn, Grows, Skips, GoTo, Due, OnItsWay, S, T
<1>13. CASE PostCommands
  <2>1. CASE Fails({"postcmds"})
    BY <1>a, <2>1 DEF LogEntries
  <2>2. ASSUME NEW E, Grows(E, {}), Cfg.postcmds => "postcmds" \in E
        PROVE  Mandatory(current_name) \subseteq success_log'[current_name]
    BY <1>0, <1>13, <2>2, MandatoryMeans DEF PostCommands, Grows, Due, Cfg, S
  <2>3. CASE LogSuccess({"postcmds"}) /\ UNCHANGED error_log
    <3>1. Grows({"postcmds"}, {}) BY <2>3, LogsAt
    <3> QED
      BY <1>13, <2>1, <2>2, <3>1 DEF PostCommands, Succeeds, Return
  <2>4. CASE UNCHANGED <<success_log, error_log>> /\ ~Cfg.postcmds
    <3>1. Grows({}, {}) BY <2>4, LogsAt
    <3> QED
      BY <1>13, <2>1, <2>2, <2>4, <3>1 DEF PostCommands, Succeeds, Return
  <2> QED
    BY <1>13, <2>1, <2>3, <2>4 DEF PostCommands
<1>14. ~(ResetSuccess \/ ResetError \/ CheckDependencies)
  BY DEF ResetSuccess, ResetError, CheckDependencies, Quiet
<1> QED
  BY <1>1, <1>2, <1>3, <1>4, <1>5, <1>6, <1>7, <1>8, <1>9, <1>10, <1>11, <1>12, <1>13, <1>14
     DEF MakeitStep

(***************************************************************************)
(* The steps before the first command.                                     *)
(***************************************************************************)
Begins ==
  /\ stage' \in {"error_log", "dependencies", "apt"}
  /\ UNCHANGED <<makeit_status, result, world>>
  /\ stage' = "apt" => DependenciesMet
  /\ stage' \notin Resetting => error_log'[current_name] = {}

Blocked ==
  /\ stage' = "returned" /\ result' = FALSE /\ UNCHANGED <<makeit_status, world>>
  /\ error_log'[current_name] = {"dependency"}
  /\ ~DependenciesMet

LEMMA StartProgress ==
  ASSUME TInv, MakeitStep, stage \in Quiet,
         stage = "dependencies" => error_log[current_name] = {}
  PROVE  Begins \/ Blocked
<1>1. CASE ResetSuccess
  BY <1>1 DEF ResetSuccess, GoTo, Begins, Resetting, world
<1>2. CASE ResetError
  <2>1. error_log'[current_name] = {}
    BY <1>2 DEF ResetError, Put
  <2> QED
    BY <1>2, <2>1 DEF ResetError, GoTo, Begins, world
<1>3. CASE CheckDependencies
  <2>1. CASE DependenciesMet
    BY <1>3, <2>1 DEF CheckDependencies, Skips, GoTo, Begins
  <2>2. CASE ~DependenciesMet
    <3>1. Fails({"dependency"}) /\ error_log[current_name] = {} /\ UNCHANGED world
      BY <1>3, <2>2 DEF CheckDependencies
    <3>2. error_log'[current_name] = error_log[current_name] \cup {"dependency"}
      BY <3>1, LogsAt DEF Grows
    <3>3. stage' = "returned" /\ result' = FALSE /\ UNCHANGED makeit_status
      BY <3>1 DEF Fails, ReturnFalse, Return
    <3> QED
      BY <2>2, <3>1, <3>2, <3>3 DEF Blocked
  <2> QED
    BY <2>1, <2>2
<1> QED
  BY <1>1, <1>2, <1>3
     DEF MakeitStep, Quiet, AptInstall, PreCommands, SourcePreCommands, Commands, GitFetch,
         GitCheckout, PkgFetch, PkgUnpack, ApplyPatch, SourcePostCommands, MakePackage, Built,
         LdPath, PostCommands

(***************************************************************************)
(* A step inside makeit leaves everything of the other packages alone.     *)
(***************************************************************************)
LEMMA AppendedAt ==
  ASSUME NEW d, NEW e, current_name \in DOMAIN d, Appended(d, e)
  PROVE  DOMAIN e = DOMAIN d /\ \A n \in DOMAIN d : n # current_name => e[n] = d[n]
<1>1. CASE e = d BY <1>1
<1>2. CASE \E S \in SUBSET LogEntries : e = Put(d, current_name, d[current_name] \cup S)
  BY <1>2 DEF Put
<1> QED BY <1>1, <1>2 DEF Appended

LEMMA OthersKept ==
  ASSUME TInv, MakeitStep
  PROVE  /\ DOMAIN success_log' = IF stage = "success_log"
                                    THEN DOMAIN success_log \cup {current_name}
                                    ELSE DOMAIN success_log
         /\ DOMAIN error_log' = IF stage = "error_log"
                                  THEN DOMAIN error_log \cup {current_name}
                                  ELSE DOMAIN error_log
         /\ \A n \in DOMAIN success_log : n # current_name => success_log'[n] = success_log[n]
         /\ \A n \in DOMAIN error_log : n # current_name => error_log'[n] = error_log[n]
         /\ \A n \in Names : n # current_name => tree'[n] = tree[n] /\ (n \in file' <=> n \in file)
<1>1. /\ current_name \in Names /\ Working
      /\ ResetSuccess \/ ResetError \/ (LogsGrow /\ stage \notin Resetting)
  BY StepValues, MakeitStepEffect DEF TInv, HasEntries
<1>2. /\ DOMAIN success_log' = IF stage = "success_log"
                                  THEN DOMAIN success_log \cup {current_name}
                                  ELSE DOMAIN success_log
      /\ \A n \in DOMAIN success_log : n # current_name => success_log'[n] = success_log[n]
  <2>1. CASE ResetSuccess
    BY <2>1 DEF ResetSuccess, Put
  <2>2. CASE ResetError
    BY <2>2 DEF ResetError
  <2>3. CASE LogsGrow /\ stage \notin Resetting
    <3>1. current_name \in DOMAIN success_log
      BY <1>1, <2>3 DEF TInv, HasEntries, Resetting
    <3> QED
      BY <2>3, <3>1, AppendedAt DEF LogsGrow, Resetting
  <2> QED
    BY <1>1, <2>1, <2>2, <2>3
<1>3. /\ DOMAIN error_log' = IF stage = "error_log"
                                THEN DOMAIN error_log \cup {current_name}
                                ELSE DOMAIN error_log
      /\ \A n \in DOMAIN error_log : n # current_name => error_log'[n] = error_log[n]
  <2>1. CASE ResetSuccess
    BY <2>1 DEF ResetSuccess
  <2>2. CASE ResetError
    BY <2>2 DEF ResetError, Put
  <2>3. CASE LogsGrow /\ stage \notin Resetting
    <3>1. current_name \in DOMAIN error_log
      BY <1>1, <2>3 DEF TInv, HasEntries
    <3> QED
      BY <2>3, <3>1, AppendedAt DEF LogsGrow, Resetting
  <2> QED
    BY <1>1, <2>1, <2>2, <2>3
<1>4. \/ tree' = tree
      \/ \E t \in Trees : tree' = [tree EXCEPT ![current_name] = t]
  BY DEF MakeitStep, ResetSuccess, ResetError, CheckDependencies,
         AptInstall, PreCommands, SourcePreCommands, Commands, GitFetch,
         GitCheckout, GitStash, PkgFetch, PkgUnpack, ApplyPatch, SourcePostCommands,
         MakePackage, Built, LdPath, PostCommands, world, Trees
<1>5. file' = file \/ file' = file \cup {current_name}
  BY DEF MakeitStep, ResetSuccess, ResetError, CheckDependencies,
         AptInstall, PreCommands, SourcePreCommands, Commands, GitFetch,
         GitCheckout, PkgFetch, PkgUnpack, ApplyPatch, SourcePostCommands,
         MakePackage, Built, LdPath, PostCommands, world
<1>6. \A n \in Names : n # current_name => tree'[n] = tree[n] /\ (n \in file' <=> n \in file)
  BY <1>4, <1>5 DEF TInv, MakeitTypes
<1> QED
  BY <1>2, <1>3, <1>6

(***************************************************************************)
(* The directory of the current package, stage by stage.                   *)
(***************************************************************************)
LEMMA TreeStep ==
  ASSUME EachNeedsItsSources, TInv, Progress, TreesFit, TreeProgress, MakeitStep
  PROVE  /\ TreesFit' /\ TreeProgress'
         /\ stage' = "returned" /\ result' => HasSources(current_name)'
<1> DEFINE t == tree[current_name]
           u == tree'[current_name]
           c == Cfg
<1>0. /\ current_name \in Names /\ Working /\ current_name' = current_name /\ Cfg' = Cfg
      /\ t \in Trees /\ tree \in [Names -> Trees] /\ Cfg = Config[current_name]
      /\ tree' \in [Names -> Trees] /\ u \in Trees
  BY MakeitStepEffect, StepValues DEF TInv, HasEntries, Cfg, MakeitTypes, NewRest
<1>1. /\ ~c.patch => t # "patched"
      /\ c.source = "archive" => t \notin Treeless
  BY <1>0 DEF TreesFit
<1>2. OnItsWay
  BY <1>0 DEF Progress
<1>3. c.source = "git" => \/ c.patch \/ (c.branch /\ current_name \notin OwnBranches)
                          \/ \E i \in DOMAIN c.build : c.build[i] = "cmake"
  BY <1>0 DEF EachNeedsItsSources, NeedsItsSources
<1>4. ASSUME ~c.patch => u # "patched",
             c.source = "archive" => u \notin Treeless
      PROVE  TreesFit'
  BY <1>0, <1>4, OthersKept DEF TreesFit
<1>5. ASSUME c.source \in {"git", "archive"} =>
              /\ stage' \in {"checkout", "patch", "srcpostcmds", "build", "ldpath", "postcmds"} =>
                   u # "absent"
              /\ stage' \in {"patch", "srcpostcmds", "build"} =>
                   (c.branch /\ current_name \notin OwnBranches => u \notin Treeless)
              /\ stage' \in {"srcpostcmds", "build"} /\ c.patch => u \in {"patched", "partial"}
              /\ stage' = "srcpostcmds" =>
                   u \notin Treeless \/ \E i \in DOMAIN c.build : c.build[i] = "cmake"
              /\ stage' = "build" =>
                   u \notin Treeless \/ \E i \in DOMAIN todo' : todo'[i] = "cmake"
              /\ stage' \in {"ldpath", "postcmds"} => HasSources(current_name)'
      PROVE  TreeProgress'
  BY <1>0, <1>5 DEF TreeProgress
<1>6. ASSUME Working, c.source \in {"git", "archive"}
      PROVE   /\ stage \in {"checkout", "patch", "srcpostcmds", "build", "ldpath", "postcmds"} =>
                   t # "absent"
              /\ stage \in {"patch", "srcpostcmds", "build"} =>
                   (c.branch /\ current_name \notin OwnBranches => t \notin Treeless)
              /\ stage \in {"srcpostcmds", "build"} /\ c.patch => t \in {"patched", "partial"}
              /\ stage = "srcpostcmds" =>
                   t \notin Treeless \/ \E i \in DOMAIN c.build : c.build[i] = "cmake"
              /\ stage = "build" =>
                   t \notin Treeless \/ \E i \in DOMAIN todo : todo[i] = "cmake"
              /\ stage \in {"ldpath", "postcmds"} => HasSources(current_name)
  BY <1>6 DEF TreeProgress
<1> HIDE DEF t, u, c
<1>7. CASE ResetSuccess \/ ResetError \/ CheckDependencies
  <2>1. /\ u = t /\ stage' \in {"error_log", "dependencies", "apt", "returned"}
        /\ stage' = "returned" => ~result'
    BY <1>7
       DEF ResetSuccess, ResetError, CheckDependencies, Skips, Fails, GoTo, ReturnFalse, Return,
           world, t, u
  <2> QED BY <1>1, <1>4, <1>5, <2>1
<1>8. CASE AptInstall \/ PreCommands \/ SourcePreCommands
  <2>1. u = t /\ stage' \in {"precmds", "srcprecmds", "fetch", "ldpath", "returned"}
        /\ (stage' = "ldpath" => c.source = "none") /\ (stage' = "returned" => ~result')
    BY <1>0, <1>8
       DEF AptInstall, PreCommands, SourcePreCommands, Commands, SourceStage, Passes, Fails,
           Skips, GoTo, ReturnFalse, Return, world, t, u, c
  <2> QED BY <1>1, <1>4, <1>5, <2>1
<1>9. CASE GitFetch
  <2>1. /\ c.source = "git" /\ stage' \in {"checkout", "raised"}
        /\ u = t \/ u = "whole"
        /\ stage' = "checkout" => u # "absent"
    BY <1>0, <1>9 DEF GitFetch, Skips, GoTo, t, u, c
  <2> QED BY <1>1, <1>4, <1>5, <2>1
<1>10. CASE PkgFetch
  <2>1. u = t /\ stage' \in {"unpack", "raised", "returned"} /\ (stage' = "returned" => ~result')
    BY <1>10 DEF PkgFetch, Skips, GoTo, ReturnFalse, Return, t, u
  <2> QED BY <1>1, <1>4, <1>5, <2>1
<1>11. CASE GitCheckout
  <2>1. /\ c.source = "git" /\ stage = "checkout" /\ stage' \in {"patch", "returned"}
        /\ stage' = "returned" => ~result'
        /\ u = t \/ (t = "patched" /\ u = "whole")
        /\ stage' = "patch" /\ c.branch => BranchExists
    BY <1>0, <1>2, <1>11
       DEF GitCheckout, GitStash, OnItsWay, Passes, Fails, Skips, GoTo, ReturnFalse, Return, t, u, c
  <2>2. BranchExists /\ current_name \notin OwnBranches => t \notin Treeless
    BY DEF BranchExists, OnOwnTree, Treeless, t
  <2> QED BY <1>0, <1>1, <1>4, <1>5, <1>6, <2>1, <2>2 DEF Treeless
<1>12. CASE PkgUnpack
  <2>1. /\ c.source # "git" /\ stage' \in {"patch", "srcpostcmds", "raised", "returned"}
        /\ stage' = "returned" => ~result'
        /\ u = t \/ u \in {"whole", "absent", "partial"}
        /\ stage' = "patch" => u # "absent"
        /\ stage' = "srcpostcmds" => c.source # "archive"
    BY <1>0, <1>2, <1>12
       DEF PkgUnpack, OnItsWay, Passes, Fails, Skips, GoTo, ReturnFalse, Return, t, u, c
  <2> QED BY <1>1, <1>4, <1>5, <2>1 DEF Treeless
<1>13. CASE ApplyPatch
  <2>1. /\ stage = "patch" /\ c.source \in {"git", "archive"}
        /\ stage' \in {"srcpostcmds", "returned"}
        /\ stage' = "returned" => ~result' /\ u = t
        /\ stage' = "srcpostcmds" /\ ~c.patch => u = t
        /\ stage' = "srcpostcmds" /\ c.patch =>
             t \notin Treeless /\ u = IF t = "whole" THEN "patched" ELSE t
    BY <1>0, <1>2, <1>13
       DEF ApplyPatch, OnItsWay, OnOwnTree, Treeless, Passes, Fails, Skips, GoTo, ReturnFalse,
           Return, t, u, c
  <2>2. t # "absent" /\ (c.branch /\ current_name \notin OwnBranches => t \notin Treeless)
    BY <1>0, <1>6, <2>1
  <2> QED BY <1>0, <1>1, <1>3, <1>4, <1>5, <2>1, <2>2 DEF Treeless, Trees
<1>14. CASE SourcePostCommands
  <2>1. /\ u = t /\ stage = "srcpostcmds"
        /\ \/ stage' = "build" /\ todo' = c.build
           \/ stage' = "returned" /\ ~result'
    BY <1>0, <1>14 DEF SourcePostCommands, Fails, ReturnFalse, Return, world, t, u, c
  <2> QED BY <1>0, <1>1, <1>4, <1>5, <1>6, <2>1
<1>15. CASE MakePackage
  <2>1. /\ stage = "build" /\ todo # <<>> /\ todo \in Seq(BuildCommands)
        /\ u = IF Head(todo) = "cmake" /\ t = "empty" THEN "hollow" ELSE t
        /\ \/ /\ stage' = "build" /\ todo' = Tail(todo)
              /\ Head(todo) = "cmake" => t \notin Treeless
           \/ stage' = "returned" /\ ~result'
    BY <1>0, <1>15
       DEF MakePackage, BuildStepPasses, Fails, ReturnFalse, Return, OnOwnTree, Treeless,
           TInv, MakeitTypes, t, u
  <2>2. ASSUME NEW i \in DOMAIN todo, todo[i] = "cmake", stage' = "build"
        PROVE  t \notin Treeless \/ \E j \in DOMAIN todo' : todo'[j] = "cmake"
    BY <2>1, <2>2, TailHas
  <2> QED BY <1>0, <1>1, <1>4, <1>5, <1>6, <2>1, <2>2 DEF Treeless
<1>16. CASE Built
  <2>1. u = t /\ stage = "build" /\ todo = <<>> /\ stage' = "ldpath" /\ tree' = tree
    BY <1>16 DEF Built, Skips, GoTo, world, t, u
  <2>2. c.source \in {"git", "archive"} => HasSources(current_name)'
    BY <1>0, <1>1, <1>6, <2>1 DEF HasSources, Treeless, Trees, t, u, c
  <2> QED BY <1>0, <1>1, <1>4, <1>5, <1>6, <2>1, <2>2
<1>17. CASE LdPath \/ PostCommands
  <2>1. /\ u = t /\ stage \in {"ldpath", "postcmds"} /\ stage' \in {"postcmds", "returned"}
        /\ tree' = tree
    BY <1>17 DEF LdPath, PostCommands, Skips, GoTo, Fails, ReturnFalse, Return, world, t, u
  <2>2. HasSources(current_name)'
    BY <1>0, <1>6, <2>1 DEF HasSources, t, u, c
  <2> QED BY <1>0, <1>1, <1>4, <1>5, <1>6, <2>1, <2>2
<1> QED
  BY <1>7, <1>8, <1>9, <1>10, <1>11, <1>12, <1>13, <1>14, <1>15, <1>16, <1>17 DEF MakeitStep
-----------------------------------------------------------------------------
(***************************************************************************)
(* Outside makeit nothing is being worked on.                              *)
(***************************************************************************)
LEMMA OtherSteps ==
  ASSUME IInv, [Next]_vars
  PROVE  \/ InMakeit \/ CallMakeit
         \/ UNCHANGED vars
         \/ /\ stage' = "idle" /\ (Restart \/ UNCHANGED memory)
            /\ Made' \cup Recorded' \subseteq Made \cup Recorded
<1>1. CASE \/ RunConfigs \/ Abort \/ Returns \/ OpenLog \/ SaveSuccess \/ SaveError \/ EndRound
           \/ Interrupt \/ Kill
  <2>1. stage' = "idle" /\ UNCHANGED memory
    BY <1>1 DEF RunConfigs, Abort, Returns, OpenLog, SaveSuccess, SaveError, EndRound, Interrupt,
                Kill, Logs, IInv
  <2>2. disk'["status"] \in {disk["status"], EmptyDict}
    BY <1>1 DEF RunConfigs, Abort, Returns, OpenLog, SaveSuccess, SaveError, EndRound, Interrupt,
                Kill, Write, IInv, Logs
  <2> QED
    BY <2>1, <2>2, MadeInEmpty DEF memory, Made, Recorded
<1>2. CASE SaveStatus
  <2>1. stage' = "idle" /\ UNCHANGED memory /\ disk'["status"] = makeit_status
    BY <1>2 DEF SaveStatus, Write, IInv, Logs
  <2> QED
    BY <2>1 DEF memory, Made, Recorded
<1>4. CASE Restart
  <2>1. stage' = "idle" /\ makeit_status' = disk["status"] /\ disk' = disk
    BY <1>4 DEF Restart, Load, Alive, IInv
  <2> QED
    BY <1>4, <2>1 DEF Made, Recorded
<1> QED
  BY <1>1, <1>2, <1>4 DEF Next, Step, MakeitNext

(***************************************************************************)
(* The call of makeit.                                                     *)
(***************************************************************************)
LEMMA CallEffect ==
  ASSUME TInv, CallMakeit
  PROVE  LET n == Head(left)
         IN  /\ n \in Names /\ left # <<>>
             /\ Made' = Made /\ Recorded' = Recorded /\ UNCHANGED <<world, left, failed, queue_size, disk>>
             /\ phase = "deploy" /\ phase' = "makeit"
             /\ \/ /\ n \in Made /\ UNCHANGED memory
                   /\ stage' = "returned" /\ result'
                \/ /\ n \notin Made /\ current_name' = n
                   /\ makeit_status' = Put(makeit_status, n, FALSE)
                   /\ stage' = "success_log" /\ UNCHANGED <<success_log, error_log>>
<1> DEFINE n == Head(left)
<1>1. /\ n \in Names /\ left # <<>> /\ phase = "deploy" /\ phase' = "makeit"
      /\ UNCHANGED <<left, failed, queue_size, disk>> /\ Recorded' = Recorded
      /\ Call(n)
  BY DEF CallMakeit, TInv, DriverTypes, Recorded
<1>2. CASE CallMade(n)
  BY <1>1, <1>2 DEF CallMade, Unmade, Return, memory, world, Made
<1>3. CASE CallUnmade(n)
  <2>1. /\ n \notin Made /\ current_name' = n /\ UNCHANGED world
        /\ makeit_status' = Put(makeit_status, n, FALSE)
        /\ stage' = "success_log" /\ UNCHANGED <<success_log, error_log>>
    BY <1>3 DEF CallUnmade, Unmade, ResetStatus
  <2>2. Made' = Made
    BY <2>1, MadePutFalse DEF Made
  <2> QED
    BY <1>1, <2>1, <2>2
<1> QED
  BY <1>1, <1>2, <1>3 DEF Call

(***************************************************************************)
(* Progress is an invariant.                                               *)
(***************************************************************************)
PInv == TInv /\ Progress

LEMMA PInvInit == Init => PInv
BY TInvInit DEF PInv, Progress, Working, Init

LEMMA PInvNext == PInv /\ [Next]_vars => PInv'
<1> SUFFICES ASSUME PInv, [Next]_vars PROVE PInv'
  OBVIOUS
<1>1. TInv /\ TInv' /\ IInv /\ Progress
  BY TInvNext DEF PInv, TInv
<1>2. CASE InMakeit
  <2>1. MakeitStep
    BY <1>2 DEF InMakeit
  <2>2. current_name' = current_name /\ Working
    BY <2>1, MakeitStepEffect
  <2>3. CASE stage \notin Quiet
    <3>1. Succeeds \/ GivesUp \/ GoesOn
      BY <1>1, <2>1, <2>3, StageProgress
    <3>2. stage' # "dependencies"
      BY <2>1, <2>3 DEF MakeitStep, ResetSuccess, ResetError, CheckDependencies, Quiet,
           AptInstall, PreCommands, SourcePreCommands, Commands, SourceStage, GitFetch,
           GitCheckout, PkgFetch, PkgUnpack, ApplyPatch, SourcePostCommands, MakePackage,
           BuildStepPasses, Built, LdPath, PostCommands, Passes, Fails, Skips, GoTo,
           ReturnFalse, Return
    <3>3. Progress'
      BY <2>2, <3>1, <3>2 DEF Succeeds, GivesUp, GoesOn, Progress, Working
    <3> QED
      BY <1>1, <3>3 DEF PInv
  <2>4. CASE stage \in Quiet
    <3>1. Begins \/ Blocked
      BY <1>1, <2>1, <2>2, <2>4, StartProgress DEF Progress
    <3>2. Progress'
      BY <2>2, <3>1
         DEF Begins, Blocked, Progress, Working, OnItsWay, Due, Starting, Resetting
    <3> QED
      BY <1>1, <3>2 DEF PInv
  <2> QED
    BY <2>3, <2>4
<1>3. CASE CallMakeit
  <2>1. stage' \in {"returned", "success_log"}
    BY <1>1, <1>3, CallEffect
  <2>2. Progress'
    BY <2>1 DEF Progress, Working, OnItsWay, Due, Starting, Resetting
  <2> QED
    BY <1>1, <2>2 DEF PInv
<1>4. CASE stage' = "idle"
  BY <1>1, <1>4 DEF PInv, Progress, Working
<1>5. CASE UNCHANGED vars
  <2>1. Progress'
    BY <1>1, <1>5 DEF vars, memory, Progress, Working, OnItsWay, Due, Starting, Cfg
  <2> QED
    BY <1>1, <2>1 DEF PInv
<1> QED
  BY <1>1, <1>2, <1>3, <1>4, <1>5, OtherSteps

-----------------------------------------------------------------------------
(***************************************************************************)
(* The logs.                                                               *)
(***************************************************************************)
GInv == PInv /\ MemoryIsGood /\ DiskIsGood

LEMMA GInvInit == Init => GInv
<1> SUFFICES ASSUME Init PROVE GInv
  OBVIOUS
<1>1. GoodEntries(EmptyDict, EmptyDict, EmptyDict)
  BY MadeInEmpty DEF GoodEntries
<1>2. \A f \in Logs : disk[f] = EmptyDict
  BY DEF Init
<1>3. LogsAgree /\ ~Working
  BY DEF Init, LogsAgree, EmptyDict, Working
<1> QED
  BY <1>1, <1>2, <1>3, PInvInit DEF GInv, MemoryIsGood, DiskIsGood, GoodLogs, Init, Logs

LEMMA GoodInMakeit ==
  ASSUME GInv, InMakeit
  PROVE  MemoryIsGood' /\ DiskIsGood'
<1> DEFINE n == current_name
<1>1. /\ MakeitStep /\ TInv /\ Progress /\ MemoryIsGood /\ DiskIsGood
      /\ phase = "makeit" /\ phase' = "makeit" /\ disk' = disk
  BY DEF InMakeit, GInv, PInv, driver
<1>2. DiskIsGood'
  BY <1>1 DEF DiskIsGood, Logs
<1>3. /\ Working /\ n' = n /\ n \in Names /\ n \in DOMAIN makeit_status /\ n \notin Made
      /\ stage' # "idle"
      /\ ResetSuccess \/ ResetError \/ (stage \notin Resetting /\ stage' \notin Resetting)
  BY <1>1, MakeitStepEffect DEF TInv, IInv, HasEntries, MemoryIsGood
<1>4. DOMAIN makeit_status' = DOMAIN makeit_status
  BY <1>1, <1>3, MakeitStepEffect DEF Put
<1>5. /\ stage = "success_log" => stage' = "error_log"
      /\ stage = "error_log" => stage' = "dependencies"
      /\ stage' = "error_log" => stage = "success_log"
      /\ stage' # "success_log"
  BY <1>3 DEF ResetSuccess, ResetError, GoTo, Resetting
<1>6. LogsAgree'
  <2>1. LogsAgree
    BY <1>1 DEF MemoryIsGood
  <2>2. CASE stage = "success_log"
    <3>1. DOMAIN success_log' = DOMAIN success_log \cup {n} /\ DOMAIN error_log' = DOMAIN error_log
      BY <1>1, <2>2, OthersKept
    <3> QED
      BY <1>3, <1>4, <1>5, <2>1, <2>2, <3>1 DEF LogsAgree
  <2>3. CASE stage = "error_log"
    <3>1. DOMAIN success_log' = DOMAIN success_log /\ DOMAIN error_log' = DOMAIN error_log \cup {n}
      BY <1>1, <2>3, OthersKept
    <3> QED
      BY <1>3, <1>4, <1>5, <2>1, <2>3, <3>1 DEF LogsAgree
  <2>4. CASE stage \notin Resetting
    <3>1. DOMAIN success_log' = DOMAIN success_log /\ DOMAIN error_log' = DOMAIN error_log
      BY <1>1, <2>4, OthersKept DEF Resetting
    <3> QED
      BY <1>1, <1>3, <1>4, <1>5, <2>1, <2>4, <3>1 DEF LogsAgree, Resetting
  <2> QED
    BY <2>2, <2>3, <2>4 DEF Resetting
<1>7. GoodEntries(makeit_status', success_log', error_log')
  <2>1. ASSUME NEW m \in Made
        PROVE  /\ m \in DOMAIN success_log' /\ m \in DOMAIN error_log'
               /\ Mandatory(m) \subseteq success_log'[m]
               /\ error_log'[m] \subseteq {"checkout"}
    <3>1. /\ m \in DOMAIN success_log /\ m \in DOMAIN error_log
          /\ Mandatory(m) \subseteq success_log[m]
          /\ error_log[m] \subseteq {"checkout"}
      BY <1>1 DEF MemoryIsGood, GoodEntries, Made
    <3>2. m # n
      BY <1>3
    <3>3. success_log'[m] = success_log[m] /\ error_log'[m] = error_log[m]
      BY <1>1, <3>1, <3>2, OthersKept
    <3>4. m \in DOMAIN success_log' /\ m \in DOMAIN error_log'
      BY <1>1, <3>1, OthersKept
    <3> QED
      BY <3>1, <3>3, <3>4
  <2>2. CASE makeit_status' = makeit_status
    BY <2>1, <2>2 DEF GoodEntries, Made
  <2>3. CASE stage \notin Quiet /\ Succeeds
    <3>1. MadeIn(makeit_status') = Made \cup {n}
      BY <2>3, MadePutTrue DEF Succeeds, Made
    <3>2. /\ Mandatory(n) \subseteq success_log'[n]
          /\ error_log'[n] \subseteq {"checkout"}
      BY <1>1, <1>3, <2>3 DEF Succeeds, Progress, Quiet, Resetting
    <3>3. n \in DOMAIN success_log' /\ n \in DOMAIN error_log'
      BY <1>1, <1>3, <2>3, OthersKept DEF TInv, HasEntries, Quiet, Resetting
    <3> QED
      BY <2>1, <3>1, <3>2, <3>3 DEF GoodEntries
  <2>4. CASE stage \in Quiet
    BY <1>1, <1>3, <2>2, <2>4, MakeitStepEffect
  <2>5. CASE stage \notin Quiet /\ ~Succeeds
    BY <1>1, <2>2, <2>5, StageProgress DEF GivesUp, GoesOn
  <2> QED
    BY <2>3, <2>4, <2>5
<1> QED
  BY <1>2, <1>3, <1>4, <1>6, <1>7 DEF MemoryIsGood

LEMMA GoodCall ==
  ASSUME GInv, CallMakeit
  PROVE  MemoryIsGood' /\ DiskIsGood'
<1> DEFINE n == Head(left)
<1>1. /\ TInv /\ MemoryIsGood /\ DiskIsGood /\ stage = "idle" /\ phase = "deploy"
  BY DEF GInv, PInv, CallMakeit, Call, CallMade, CallUnmade
<1>2. DiskIsGood'
  BY <1>1, CallEffect DEF DiskIsGood, Logs
<1>3. LogsAgree /\ GoodEntries(makeit_status, success_log, error_log)
  BY <1>1 DEF MemoryIsGood
<1>4. DOMAIN success_log = DOMAIN makeit_status /\ DOMAIN error_log = DOMAIN makeit_status
  BY <1>1, <1>3 DEF LogsAgree
<1>5. CASE UNCHANGED memory /\ stage' = "returned"
  <2>1. LogsAgree' /\ ~Working'
    BY <1>4, <1>5 DEF memory, LogsAgree, Working
  <2>2. GoodEntries(makeit_status, success_log, error_log)'
    BY <1>3, <1>5 DEF memory, GoodEntries
  <2> QED
    BY <1>2, <2>1, <2>2 DEF MemoryIsGood
<1>6. CASE /\ n \notin Made /\ current_name' = n
           /\ makeit_status' = Put(makeit_status, n, FALSE)
           /\ stage' = "success_log" /\ UNCHANGED <<success_log, error_log>>
  <2>1. MadeIn(makeit_status') = MadeIn(makeit_status)
    BY <1>6, MadePutFalse DEF Made
  <2>2. DOMAIN makeit_status' = DOMAIN makeit_status \cup {n}
    BY <1>6 DEF Put
  <2>3. GoodEntries(makeit_status', success_log', error_log')
    BY <1>3, <1>6, <2>1 DEF GoodEntries
  <2>4. LogsAgree'
    BY <1>4, <1>6, <2>2 DEF LogsAgree
  <2> QED
    BY <1>2, <1>6, <2>2, <2>3, <2>4 DEF MemoryIsGood
<1> QED
  BY <1>1, <1>5, <1>6, CallEffect

(***************************************************************************)
(* Where the record is whole, the dictionaries are kept as they are.       *)
(***************************************************************************)
LEMMA MemoryStays ==
  ASSUME MemoryIsGood, UNCHANGED memory, stage' = "idle",
         stage \notin Resetting \/ phase' \in {"interrupted", "killed"},
         phase \in {"interrupted", "killed"} => phase' = phase
  PROVE  MemoryIsGood'
<1>1. LogsAgree'
  BY DEF MemoryIsGood, LogsAgree, memory, Resetting
<1>2. GoodEntries(makeit_status, success_log, error_log)'
  BY DEF MemoryIsGood, GoodEntries, memory
<1> QED
  BY <1>1, <1>2 DEF MemoryIsGood, Working

LEMMA GoodOutside ==
  ASSUME ~StopsInSave, GInv, Next, ~InMakeit, ~CallMakeit
  PROVE  MemoryIsGood' /\ DiskIsGood'
<1>1. /\ TInv /\ IInv /\ MemoryIsGood /\ DiskIsGood /\ DOMAIN disk = Logs
      /\ stage # "idle" <=> phase = "makeit"
  BY DEF GInv, PInv, TInv, IInv
<1>2. CASE RunConfigs \/ Abort \/ Returns \/ EndRound
  <2>1. /\ UNCHANGED memory /\ stage' = "idle" /\ disk' = disk
        /\ phase \in {"configs", "deploy", "makeit"}
        /\ phase' \notin {"success", "error", "interrupted", "killed"}
        /\ stage \notin Resetting
    BY <1>1, <1>2 DEF RunConfigs, Abort, Returns, EndRound, Resetting
  <2>2. MemoryIsGood'
    BY <1>1, <2>1, MemoryStays
  <2>3. DiskIsGood'
    BY <1>1, <2>1 DEF DiskIsGood, Logs
  <2> QED
    BY <2>2, <2>3
<1>3. CASE OpenLog \/ SaveStatus \/ SaveSuccess \/ SaveError
  <2>1. /\ UNCHANGED memory /\ stage = "idle" /\ stage' = "idle"
        /\ phase \in Logs /\ phase' \in Logs \cup {"deploy"}
    BY <1>1, <1>3 DEF OpenLog, SaveStatus, SaveSuccess, SaveError, Logs
  <2>2. MemoryIsGood'
    BY <1>1, <2>1, MemoryStays DEF Resetting, Logs
  <2>3. DiskIsGood'
    <3>1. CASE OpenLog
      <4>1. /\ phase' = phase
            /\ \A f \in Logs : f # phase => disk'[f] = disk[f]
        BY <1>1, <3>1 DEF OpenLog
      <4> QED
        BY <1>1, <2>1, <4>1 DEF DiskIsGood, memory, Logs
    <3>2. CASE SaveStatus
      BY <1>1, <3>2 DEF SaveStatus, Write, memory, DiskIsGood, Logs
    <3>3. CASE SaveSuccess
      BY <1>1, <3>3 DEF SaveSuccess, Write, memory, DiskIsGood, Logs
    <3>4. CASE SaveError
      <4>1. /\ disk'["status"] = makeit_status /\ disk'["success"] = success_log
            /\ disk'["error"] = error_log /\ phase' = "deploy"
        BY <1>1, <3>4 DEF SaveError, Write, DiskIsGood, Logs
      <4>2. GoodLogs(makeit_status, success_log, error_log)
        BY <1>1, <2>1 DEF MemoryIsGood, LogsAgree, GoodLogs, Logs
      <4> QED
        BY <2>1, <4>1, <4>2 DEF DiskIsGood, memory, Logs
    <3> QED
      BY <1>3, <3>1, <3>2, <3>3, <3>4
  <2> QED
    BY <2>2, <2>3
<1>4. CASE Interrupt \/ Kill
  <2>1. /\ phase \notin Logs /\ disk' = disk /\ UNCHANGED memory /\ stage' = "idle"
        /\ phase' \in {"interrupted", "killed"}
        /\ phase \notin {"interrupted", "killed"}
    BY <1>4 DEF Interrupt, Kill, Alive, Logs
  <2>2. MemoryIsGood'
    BY <1>1, <2>1, MemoryStays
  <2>3. DiskIsGood'
    BY <1>1, <2>1 DEF DiskIsGood, Logs
  <2> QED
    BY <2>2, <2>3
<1>5. CASE Restart
  <2>1. /\ makeit_status' = disk["status"] /\ success_log' = disk["success"]
        /\ error_log' = disk["error"] /\ disk' = disk /\ stage' = "idle" /\ phase' = "configs"
        /\ phase \notin Logs
    BY <1>1, <1>5 DEF Restart, Load, Alive, Logs
  <2>2. GoodLogs(makeit_status', success_log', error_log')
    BY <1>1, <2>1 DEF DiskIsGood
  <2>3. LogsAgree'
    BY <2>1, <2>2 DEF GoodLogs, LogsAgree
  <2>4. MemoryIsGood'
    BY <2>1, <2>2, <2>3 DEF MemoryIsGood, GoodLogs, Working
  <2>5. DiskIsGood'
    BY <1>1, <2>1 DEF DiskIsGood, Logs
  <2> QED
    BY <2>4, <2>5
<1> QED
  BY <1>2, <1>3, <1>4, <1>5 DEF Next, Step, MakeitNext

LEMMA GInvNext ==
  ASSUME ~StopsInSave
  PROVE  GInv /\ [Next]_vars => GInv'
<1> SUFFICES ASSUME GInv, [Next]_vars PROVE GInv'
  OBVIOUS
<1>1. PInv'
  BY PInvNext DEF GInv
<1>2. CASE UNCHANGED vars
  <2>1. MemoryIsGood'
    BY <1>2 DEF GInv, vars, memory, driver, MemoryIsGood, LogsAgree, GoodEntries, Working
  <2>2. DiskIsGood'
    BY <1>2 DEF GInv, vars, memory, driver, DiskIsGood
  <2> QED
    BY <1>1, <2>1, <2>2 DEF GInv
<1> QED
  BY <1>1, <1>2, GoodInMakeit, GoodCall, GoodOutside DEF GInv

(***************************************************************************)
(* If the program is not stopped inside a save, then wherever it is        *)
(* stopped, between two of makeit's resets too, the three logs have an     *)
(* entry for the same packages but perhaps the one being reset.            *)
(***************************************************************************)
THEOREM LogsAgreeAlways ==
  ASSUME ~StopsInSave
  PROVE  Spec => []LogsAgree
<1>1. GInv => LogsAgree
  BY DEF GInv, MemoryIsGood
<1>2. GInv /\ [Next]_vars => GInv'
  BY GInvNext
<1> QED
  BY <1>1, <1>2, GInvInit, PTL DEF Spec

(***************************************************************************)
(* If no save is cut short, what is made, in this run or on record from an *)
(* earlier one, has succeeded in each of its mandatory stages, and logged  *)
(* no failure but a checkout that was tried again.                         *)
(***************************************************************************)
THEOREM MadeMeansSucceededAlways ==
  ASSUME ~StopsInSave
  PROVE  Spec => []MadeMeansSucceeded
<1>1. GInv => MadeMeansSucceeded
  BY DEF GInv, MemoryIsGood, GoodEntries, MadeMeansSucceeded, Made
<1>2. GInv /\ [Next]_vars => GInv'
  BY GInvNext
<1> QED
  BY <1>1, <1>2, GInvInit, PTL DEF Spec

-----------------------------------------------------------------------------
(***************************************************************************)
(* The sources.                                                            *)
(***************************************************************************)
HInv == PInv /\ SourcesInv

LEMMA HInvInit ==
  ASSUME EachNeedsItsSources
  PROVE  Init => HInv
<1> SUFFICES ASSUME Init PROVE HInv
  OBVIOUS
<1>1. PInv /\ Made = {} /\ Recorded = {} /\ ~Working
  BY PInvInit, MadeInEmpty DEF Init, Made, Recorded, Logs, Working
<1>2. TreesFit
  <2>1. PICK w \in Worlds : tree = w.tree
    BY DEF Init
  <2>2. w.tree \in [Names -> {"absent", "empty"}]
    BY WorldsAssumption
  <2> QED
    BY <2>1, <2>2 DEF TreesFit, Treeless, EachNeedsItsSources, NeedsItsSources
<1> QED
  BY <1>1, <1>2 DEF HInv, SourcesInv, TreeProgress

LEMMA SourcesInMakeit ==
  ASSUME EachNeedsItsSources, HInv, InMakeit
  PROVE  SourcesInv'
<1>1. /\ MakeitStep /\ TInv /\ IInv /\ Progress /\ TreesFit /\ TreeProgress
      /\ \A n \in Made \cup Recorded : HasSources(n)
      /\ Recorded' = Recorded /\ Made \cup Recorded \subseteq Names
  BY DEF InMakeit, HInv, PInv, TInv, IInv, SourcesInv, driver, Made, Recorded, MadeIn, IsDict
<1>2. TreesFit' /\ TreeProgress' /\ (stage' = "returned" /\ result' => HasSources(current_name)')
  BY <1>1, TreeStep
<1>3. current_name' = current_name /\ current_name \notin Made \cup Recorded
  <2>1. Working /\ current_name' = current_name /\ phase = "makeit" /\ stage # "returned"
    BY <1>1, MakeitStepEffect DEF InMakeit, Working
  <2>2. current_name \notin Made /\ Made = Recorded
    BY <1>1, <2>1 DEF IInv, RecordAt
  <2> QED
    BY <2>1, <2>2
<1>4. \A n \in Made \cup Recorded : HasSources(n)'
  BY <1>1, <1>3, OthersKept DEF HasSources
<1>5. Made' = Made \/ (Succeeds /\ Made' = Made \cup {current_name})
  <2>1. CASE stage \notin Quiet
    BY <1>1, <2>1, StageProgress, MadePutTrue DEF Succeeds, GivesUp, GoesOn, Made
  <2>2. CASE stage \in Quiet
    BY <1>1, <2>2, MakeitStepEffect DEF Made
  <2> QED
    BY <2>1, <2>2
<1>6. Succeeds => HasSources(current_name)'
  BY <1>2 DEF Succeeds
<1>7. \A n \in Made' \cup Recorded' : HasSources(n)'
  <2> SUFFICES ASSUME NEW n \in Made' \cup Recorded' PROVE HasSources(n)'
    OBVIOUS
  <2>1. CASE n \in Made \cup Recorded
    BY <1>4, <2>1
  <2>2. CASE n = current_name /\ Succeeds
    BY <1>3, <1>6, <2>2 DEF HasSources
  <2> QED
    BY <1>1, <1>5, <2>1, <2>2
<1> QED
  BY <1>2, <1>7 DEF SourcesInv

(***************************************************************************)
(* A signal that cuts a stage short leaves at most a partial tree.         *)
(***************************************************************************)
LEMMA SourcesElsewhere ==
  ASSUME HInv, [Next]_vars, ~InMakeit
  PROVE  SourcesInv'
<1>1. /\ TInv /\ IInv /\ TreesFit /\ \A n \in Made \cup Recorded : HasSources(n)
      /\ tree \in [Names -> Trees] /\ Made \cup Recorded \subseteq Names
  BY DEF HInv, PInv, TInv, IInv, MakeitTypes, SourcesInv, Made, Recorded, MadeIn, IsDict
<1>2. \A n \in Names : tree'[n] \in {tree[n], "partial"}
  <2>1. CASE Interrupt \/ Kill
    BY <1>1, <2>1 DEF Interrupt, Kill, Damage, CutShort, world
  <2>2. CASE UNCHANGED world
    BY <2>2 DEF world
  <2>3. CASE CallMakeit
    BY <1>1, <2>3, CallEffect DEF world
  <2> QED
    BY <2>1, <2>2, <2>3
       DEF Next, Step, MakeitNext, RunConfigs, Abort, Returns, OpenLog, SaveStatus,
           SaveSuccess, SaveError, EndRound, Restart, vars
<1>3. TreesFit'
  BY <1>1, <1>2 DEF TreesFit, Treeless
<1>4. Made' \cup Recorded' \subseteq Made \cup Recorded
  BY <1>1, OtherSteps, CallEffect DEF vars, memory, driver, Made, Recorded
<1>5. \A n \in Made' \cup Recorded' : HasSources(n)'
  <2> SUFFICES ASSUME NEW n \in Made \cup Recorded PROVE HasSources(n)'
    BY <1>4
  <2>1. HasSources(n) /\ tree'[n] \in {tree[n], "partial"}
    BY <1>1, <1>2
  <2> QED
    BY <2>1 DEF HasSources
<1>6. TreeProgress'
  <2>1. CASE CallMakeit
    BY <1>1, <2>1, CallEffect DEF TreeProgress, Working
  <2>2. CASE UNCHANGED vars
    BY <2>2 DEF vars, memory, world, HInv, SourcesInv, TreeProgress, Working, HasSources, Cfg
  <2>3. CASE stage' = "idle"
    BY <2>3 DEF TreeProgress, Working
  <2> QED
    BY <1>1, <2>1, <2>2, <2>3, OtherSteps
<1> QED
  BY <1>3, <1>5, <1>6 DEF SourcesInv

(***************************************************************************)
(* If each package needs its sources in the way the configurations of the  *)
(* repository do (MCCadreConfigs), no package is made in a directory that  *)
(* has none or whose patch is missing, whatever fails or is cut short.     *)
(***************************************************************************)
THEOREM MadeFromSourcesAlways ==
  ASSUME EachNeedsItsSources
  PROVE  Spec => []MadeFromSources
<1>1. HInv => MadeFromSources
  BY DEF HInv, SourcesInv, HasSources, MadeFromSources
<1>2. HInv /\ [Next]_vars => HInv'
  BY PInvNext, SourcesInMakeit, SourcesElsewhere DEF HInv
<1> QED
  BY <1>1, <1>2, HInvInit, PTL DEF Spec

-----------------------------------------------------------------------------
(***************************************************************************)
(* The rounds of the retry loop.                                           *)
(***************************************************************************)
WInv == PInv /\ RoundInv

LEMMA WInvInit == Init => WInv
BY PInvInit
   DEF WInv, RoundInv, Lists, Failures, Hand, InRound, AtHand, Logs, DoneIsFixpoint,
       FailureIsExplained, Init

(***************************************************************************)
(* A call of makeit: the entries of the package at hand will be made anew. *)
(***************************************************************************)
LEMMA RoundCall ==
  ASSUME WInv, CallMakeit
  PROVE  RoundInv'
<1> DEFINE n == Head(left)
<1>1. /\ TInv /\ IInv /\ Lists /\ Failures /\ n \in Names
      /\ failed \in Seq(Names) /\ left \in Seq(Names)
  BY CallEffect DEF WInv, PInv, TInv, RoundInv, DriverTypes
<1>2. /\ InRound /\ ~AtHand /\ InRound' /\ AtHand' /\ ~Working
      /\ phase' = "makeit" /\ Made' = Made /\ UNCHANGED <<world, left, failed, queue_size>>
  BY <1>1, CallEffect DEF InRound, AtHand, Logs, IInv, Working
<1>3. /\ error_log' = error_log /\ ~Starting
      /\ \/ n \in Made /\ current_name' = current_name /\ ~Working' /\ result'
         \/ n \notin Made /\ current_name' = n /\ Working' /\ Starting'
  BY <1>1, <1>2, CallEffect DEF memory, Working, Starting, Resetting
<1>4. Lists'
  BY <1>1, <1>2 DEF Lists, Listed
<1>5. Failures'
  <2> SUFFICES ASSUME NEW i \in DOMAIN failed, NEW m, m = failed[i] PROVE FailedFor(m)'
    BY <1>2 DEF Failures
  <2>1. FailedFor(m) /\ m \in Names
    BY <1>1, <1>2 DEF Failures
  <2>2. NoProgress' => NoProgress /\ n \notin Made
    BY <1>2 DEF NoProgress
  <2>3. OnTime(m) => OnTime(m)'
    BY <1>2, <1>3 DEF OnTime
  <2>4. Explained(m) => Explained(m)'
    BY <1>2, <1>3 DEF Explained, world
  <2> QED
    BY <1>2, <1>3, <2>1, <2>2, <2>3, <2>4 DEF FailedFor
<1>6. Hand'
  BY <1>2, <1>3 DEF Hand
<1> QED
  BY <1>2, <1>4, <1>5, <1>6 DEF RoundInv, DoneIsFixpoint, FailureIsExplained

(***************************************************************************)
(* A step inside makeit: only the package at hand changes.                 *)
(***************************************************************************)
LEMMA RoundInMakeit ==
  ASSUME WInv, InMakeit
  PROVE  RoundInv'
<1> DEFINE n == current_name
<1>1. /\ MakeitStep /\ TInv /\ IInv /\ Progress /\ Lists /\ Failures /\ Hand
      /\ failed \in Seq(Names) /\ left \in Seq(Names)
  BY DEF InMakeit, WInv, PInv, TInv, RoundInv, DriverTypes
<1>2. /\ InRound /\ AtHand /\ InRound' /\ AtHand' /\ Working
      /\ phase' = "makeit" /\ UNCHANGED <<left, failed, queue_size>>
      /\ n \in Names /\ n' = n /\ n = Head(left) /\ n \notin Made
  BY <1>1, MakeitStepEffect
     DEF InMakeit, driver, InRound, AtHand, TInv, IInv, HasEntries, Hand
<1>3. DOMAIN error_log \subseteq DOMAIN error_log'
  BY <1>1, OthersKept
<1>4. \/ Made' = Made \cup {n} /\ ~Working' /\ result'
      \/ /\ Made' = Made /\ ~Working' /\ ~result'
         /\ n \in DOMAIN error_log' /\ OnTime(n)' /\ Explained(n)'
      \/ Made' = Made /\ Working' /\ (OnTime(n)' \/ Starting')
  <2>1. CASE stage \notin Quiet
    <3>1. Config[n].dependencies \subseteq Made /\ n \in DOMAIN error_log
      BY <1>1, <1>2, <2>1 DEF IInv, WorksOnMade, TInv, HasEntries, Quiet, Resetting
    <3>2. CASE Succeeds
      BY <3>2, MadePutTrue DEF Succeeds, Made, Working
    <3>3. CASE GivesUp
      <4>1. Made' = Made /\ "dependency" \notin error_log'[n]
        BY <3>3 DEF GivesUp, Made
      <4>2. OnTime(n)'
        BY <1>2, <3>1, <4>1 DEF OnTime
      <4> QED
        BY <1>2, <1>3, <3>1, <3>3, <4>1, <4>2 DEF GivesUp, Working
    <3>4. CASE GoesOn
      <4>1. Made' = Made /\ "dependency" \notin error_log'[n]
        BY <3>4 DEF GoesOn, Made
      <4>2. OnTime(n)'
        BY <1>2, <3>1, <4>1 DEF OnTime
      <4> QED
        BY <1>1, <3>4, <4>1, <4>2, MakeitStepEffect DEF GoesOn, Working
    <3> QED
      BY <1>1, <2>1, <3>2, <3>3, <3>4, StageProgress
  <2>2. CASE stage \in Quiet
    <3>1. Begins \/ Blocked
      BY <1>1, <1>2, <2>2, StartProgress DEF Progress
    <3>2. CASE Begins
      <4>1. Made' = Made /\ Working'
        BY <3>2 DEF Begins, Made, Working
      <4>2. stage' = "apt" => OnTime(n)'
        BY <1>2, <3>2, <4>1 DEF Begins, OnTime, DependenciesMet, Cfg, Resetting
      <4> QED
        BY <3>2, <4>1, <4>2 DEF Begins, Starting, Resetting
    <3>3. CASE Blocked
      <4>1. Made' = Made /\ ~Working' /\ ~result'
        BY <3>3 DEF Blocked, Made, Working
      <4>2. OnTime(n)' /\ Explained(n)'
        BY <1>2, <3>3, <4>1 DEF Blocked, OnTime, Explained, DependenciesMet, Cfg
      <4>3. stage \notin Resetting
        BY <1>1, <3>3, MakeitStepEffect DEF Blocked, ResetSuccess, ResetError, GoTo
      <4>4. n \in DOMAIN error_log'
        BY <1>1, <1>2, <1>3, <4>3 DEF TInv, HasEntries
      <4> QED
        BY <4>1, <4>2, <4>4
    <3> QED
      BY <3>1, <3>2, <3>3
  <2> QED
    BY <2>1, <2>2
<1>5. \A m \in Names : m \in DOMAIN error_log /\ m # n =>
         /\ error_log'[m] = error_log[m] /\ tree'[m] = tree[m] /\ (m \in file' <=> m \in file)
  BY <1>1, OthersKept
<1>6. Lists'
  BY <1>1, <1>2, <1>4 DEF Lists, Listed
<1>7. Failures'
  <2> SUFFICES ASSUME NEW i \in DOMAIN failed, NEW m, m = failed[i] PROVE FailedFor(m)'
    BY <1>2 DEF Failures
  <2>1. FailedFor(m) /\ m \in Names
    BY <1>1, <1>2 DEF Failures
  <2>2. NoProgress' => NoProgress /\ Made' = Made
    BY <1>2, <1>4 DEF NoProgress
  <2>3. m \in DOMAIN error_log'
    BY <1>3, <2>1 DEF FailedFor
  <2>4. CASE m # n
    <3>1. error_log'[m] = error_log[m] /\ tree'[m] = tree[m] /\ (m \in file' <=> m \in file)
      BY <1>5, <2>1, <2>4 DEF FailedFor
    <3>2. OnTime(m) /\ Made' = Made => OnTime(m)'
      BY <3>1 DEF OnTime
    <3>3. Explained(m) => Explained(m)'
      BY <3>1 DEF Explained
    <3>4. m \in Made \/ Explained(m)
      BY <2>1, <2>4 DEF FailedFor
    <3>5. NoProgress => OnTime(m)
      BY <2>1, <2>4 DEF FailedFor
    <3> QED
      BY <1>4, <2>2, <2>3, <3>2, <3>3, <3>4, <3>5 DEF FailedFor
  <2>5. CASE m = n
    <3>1. Made' = Made => OnTime(m)' \/ (Starting' /\ m = current_name')
      BY <1>2, <1>4, <2>5
    <3>2. m \in Made' \/ Explained(m)' \/ (Working' /\ m = current_name')
      BY <1>2, <1>4, <2>5
    <3> QED
      BY <2>2, <2>3, <3>1, <3>2 DEF FailedFor
  <2> QED
    BY <2>4, <2>5
<1>8. Hand'
  <2>1. CASE /\ Made' = Made /\ ~Working' /\ ~result'
             /\ n \in DOMAIN error_log' /\ OnTime(n)' /\ Explained(n)'
    <3>1. Tried(n)'
      BY <1>2, <2>1 DEF Tried
    <3> QED
      BY <1>2, <2>1, <3>1 DEF Hand, OnTime, Tried, Explained
  <2>2. CASE Working'
    BY <1>2, <2>2 DEF Hand
  <2>3. CASE ~Working' /\ result' /\ Made' = Made \cup {n}
    BY <1>2, <2>3 DEF Hand
  <2> QED
    BY <1>4, <2>1, <2>2, <2>3
<1> QED
  BY <1>2, <1>6, <1>7, <1>8 DEF RoundInv, DoneIsFixpoint, FailureIsExplained

(***************************************************************************)
(* The steps after which the round stands as it did.                       *)
(***************************************************************************)
LEMMA RoundStands ==
  ASSUME WInv, UNCHANGED <<memory, world, left, failed, queue_size, result>>,
         InRound' => InRound /\ (AtHand' <=> AtHand) /\ (Working' <=> Working),
         Starting' <=> Starting,
         phase' = "done" => phase = "done"
  PROVE  RoundInv'
<1> USE DEF WInv, RoundInv, memory, world
<1>1. Lists'
  BY DEF Lists, Listed, Made
<1>2. NoProgress' /\ InRound' => NoProgress
  BY DEF NoProgress, Made
<1>3. Failures'
  BY <1>2 DEF Failures, FailedFor, OnTime, Explained, Made
<1>4. AtHand' => InRound'
  BY DEF InRound, AtHand
<1>5. Hand'
  BY <1>4 DEF Hand, Tried, OnTime, Explained, Made
<1>6. DoneIsFixpoint' /\ FailureIsExplained'
  BY DEF DoneIsFixpoint, FailureIsExplained, Made
<1> QED
  BY <1>1, <1>3, <1>5, <1>6

(***************************************************************************)
(* A new queue, from the configurations or from the failures of a round.   *)
(***************************************************************************)
LEMMA RoundBegins ==
  ASSUME WInv, phase' = "deploy", failed' = <<>>, left' \in Seq(Names),
         queue_size' = Len(left'), Made' = Made,
         \A n \in Names \ Made : \E i \in DOMAIN left' : left'[i] = n
  PROVE  RoundInv'
<1>1. InRound' /\ ~AtHand' /\ Len(failed') + Len(left') <= queue_size' /\ DOMAIN failed' = {}
  BY DEF InRound, AtHand, Logs
<1> QED
  BY <1>1 DEF RoundInv, Lists, Listed, Failures, Hand, DoneIsFixpoint, FailureIsExplained

LEMMA RoundConfigs ==
  ASSUME WInv, RunConfigs
  PROVE  RoundInv'
<1>1. CASE phase' = "aborted"
  BY <1>1 DEF RoundInv, Lists, Failures, Hand, InRound, AtHand, Logs, DoneIsFixpoint,
              FailureIsExplained
<1>2. CASE phase' = "deploy" /\ queue' \in Orders /\ left' = queue' /\ failed' = <<>>
           /\ queue_size' = Len(queue')
  <2>1. /\ left' \in Seq(Names)
        /\ \A n \in Names : \E i \in DOMAIN left' : left'[i] = n
    BY <1>2, OrdersAssumption
  <2>2. Made' = Made
    BY DEF RunConfigs, memory, Made
  <2> QED
    BY <1>2, <2>1, <2>2, RoundBegins
<1> QED
  BY <1>1, <1>2 DEF RunConfigs

LEMMA RoundSaveError ==
  ASSUME WInv, SaveError
  PROVE  RoundInv'
<1> DEFINE n == Head(left)
<1>1. /\ TInv /\ IInv /\ Lists /\ Failures /\ Hand /\ InRound /\ AtHand /\ ~Working /\ ~Starting
      /\ failed \in Seq(Names) /\ left \in Seq(Names) /\ left # <<>> /\ queue_size \in Nat
      /\ n \in Names /\ Len(Tail(left)) = Len(left) - 1
  BY DEF SaveError, WInv, PInv, TInv, IInv, RoundInv, DriverTypes, InRound, AtHand, Logs, Working,
         Starting, Resetting
<1>2. /\ phase' = "deploy" /\ left' = Tail(left) /\ failed' = StillFailed
      /\ UNCHANGED <<makeit_status, error_log, tree, file, queue_size>>
      /\ Made' = Made /\ ~AtHand' /\ InRound'
  BY DEF SaveError, memory, world, Made, AtHand, InRound, Logs
<1>3. Hand' /\ DoneIsFixpoint' /\ FailureIsExplained'
  BY <1>2 DEF Hand, DoneIsFixpoint, FailureIsExplained
<1>4. ASSUME NEW m \in Names \ Made, m # n PROVE  \/ \E i \in DOMAIN left' : left'[i] = m
             \/ \E j \in DOMAIN failed : failed[j] = m
  <2>1. CASE \E i \in DOMAIN failed : failed[i] = m
    BY <2>1
  <2>2. CASE \E i \in DOMAIN left : left[i] = m
    BY <1>1, <1>2, <1>4, <2>2, TailHas
  <2> QED
    BY <1>1, <1>4, <2>1, <2>2 DEF Lists, Listed
<1>5. CASE result
  <2>1. failed' = failed /\ n \in Made
    BY <1>1, <1>2, <1>5 DEF StillFailed, Hand
  <2>2. Len(failed') + Len(left') < queue_size' /\ ~NoProgress'
    BY <1>1, <1>2, <2>1 DEF Lists, NoProgress
  <2>3. Lists'
    BY <1>1, <1>2, <1>4, <2>1, <2>2 DEF Lists, Listed
  <2>4. Failures'
    BY <1>1, <1>2, <2>1, <2>2 DEF Failures, FailedFor, Explained
  <2> QED
    BY <1>3, <2>3, <2>4 DEF RoundInv
<1>6. CASE ~result
  <2>1. failed' = Append(failed, n) /\ Tried(n) /\ OnTime(n) /\ Explained(n)
    BY <1>1, <1>2, <1>6 DEF StillFailed, Hand
  <2>2. /\ Len(failed') = Len(failed) + 1 /\ DOMAIN failed' = DOMAIN failed \cup {Len(failed) + 1}
        /\ failed'[Len(failed) + 1] = n
        /\ \A i \in DOMAIN failed : i # Len(failed) + 1 /\ failed'[i] = failed[i]
    BY <1>1, <2>1
  <2>3. Len(failed') + Len(left') = Len(failed) + Len(left)
    BY <1>1, <1>2, <2>2
  <2>4. ASSUME NEW m \in Names \ Made PROVE Listed(m)'
    <3>1. CASE m = n
      BY <2>2, <3>1 DEF Listed
    <3>2. CASE m # n
      BY <1>4, <2>2, <2>4, <3>2 DEF Listed
    <3> QED
      BY <3>1, <3>2
  <2>5. Lists'
    BY <1>1, <1>2, <2>3, <2>4 DEF Lists
  <2>6. NoProgress' => NoProgress
    BY <1>2, <2>1, <2>3 DEF NoProgress, Tried
  <2>7. Failures'
    <3> SUFFICES ASSUME NEW i \in DOMAIN failed', NEW m, m = failed'[i] PROVE FailedFor(m)'
      BY DEF Failures
    <3>1. OnTime(m) => OnTime(m)'
      BY <1>2 DEF OnTime
    <3>2. Explained(m) => Explained(m)'
      BY <1>2 DEF Explained
    <3>3. CASE m = n
      <4>1. m \in DOMAIN error_log' /\ OnTime(m) /\ Explained(m)
        BY <1>2, <2>1, <3>3 DEF Tried
      <4> QED
        BY <3>1, <3>2, <4>1 DEF FailedFor
    <3>4. CASE i \in DOMAIN failed
      <4>1. FailedFor(m)
        BY <1>1, <2>2, <3>4 DEF Failures
      <4>2. m \in DOMAIN error_log' /\ (m \in Made => m \in Made')
        BY <1>2, <4>1 DEF FailedFor
      <4> QED
        BY <1>1, <2>6, <3>1, <3>2, <4>1, <4>2 DEF FailedFor
    <3> QED
      BY <2>2, <3>3, <3>4
  <2> QED
    BY <1>3, <2>5, <2>7 DEF RoundInv
<1> QED
  BY <1>5, <1>6

(***************************************************************************)
(* The end of a round.  When the loop stops, the round has made nothing,   *)
(* so the dependencies of a failed package are as they were when it was    *)
(* tried.                                                                  *)
(***************************************************************************)
LEMMA RoundEnds ==
  ASSUME WInv, EndRound
  PROVE  RoundInv'
<1>1. /\ Lists /\ Failures /\ InRound /\ ~AtHand /\ ~Working /\ ~Starting
      /\ failed \in Seq(Names) /\ left = <<>> /\ Len(left) = 0 /\ DOMAIN left = {}
      /\ queue_size \in Nat /\ Len(failed) \in Nat
  BY DEF EndRound, WInv, PInv, TInv, IInv, RoundInv, DriverTypes, InRound, AtHand, Logs, Working,
         Starting, Resetting
<1>2. ASSUME NEW n \in Names \ Made PROVE \E i \in DOMAIN failed : failed[i] = n
  BY <1>1, <1>2 DEF Lists, Listed
<1>3. Made' = Made /\ UNCHANGED <<error_log, file, tree>>
  BY DEF EndRound, memory, world, Made
<1>4. CASE KeepGoing
  <2>1. /\ phase' = "deploy" /\ failed' = <<>> /\ left' = failed /\ queue_size' = Len(left')
    BY <1>4 DEF EndRound
  <2> QED
    BY <1>1, <1>2, <1>3, <2>1, RoundBegins
<1>5. CASE ~KeepGoing
  <2>1. phase' = "done"
    BY <1>5 DEF EndRound
  <2>2. NoProgress
    BY <1>1, <1>5 DEF KeepGoing, Lists, NoProgress
  <2>3. ASSUME NEW n \in Names \ Made
        PROVE  n \in DOMAIN error_log /\ OnTime(n) /\ Explained(n)
    <3>1. FailedFor(n)
      BY <1>1, <1>2, <2>3 DEF Failures
    <3> QED
      BY <1>1, <2>2, <2>3, <3>1 DEF FailedFor
  <2>4. DoneIsFixpoint' /\ FailureIsExplained'
    BY <1>3, <2>3 DEF DoneIsFixpoint, FailureIsExplained, OnTime, Explained
  <2>5. ~InRound' /\ ~AtHand'
    BY <2>1 DEF InRound, AtHand, Logs
  <2> QED
    BY <2>4, <2>5 DEF RoundInv, Lists, Failures, Hand
<1> QED
  BY <1>4, <1>5

LEMMA RoundElsewhere ==
  ASSUME WInv,
         \/ Abort \/ Returns \/ OpenLog \/ SaveStatus \/ SaveSuccess
         \/ Interrupt \/ Kill \/ Restart \/ UNCHANGED vars
  PROVE  RoundInv'
<1>1. CASE Abort \/ Interrupt \/ Kill \/ Restart
  <2>1. phase' \in {"aborted", "interrupted", "killed", "configs"}
    BY <1>1 DEF Abort, Interrupt, Kill, Restart
  <2> QED
    BY <2>1 DEF RoundInv, Lists, Failures, Hand, InRound, AtHand, Logs, DoneIsFixpoint,
                FailureIsExplained
<1>2. CASE Returns \/ OpenLog \/ SaveStatus \/ SaveSuccess
  <2>1. UNCHANGED <<memory, world, left, failed, queue_size, result>>
    BY <1>2 DEF Returns, OpenLog, SaveStatus, SaveSuccess
  <2>2. /\ InRound /\ AtHand /\ AtHand' /\ phase' # "done"
        /\ stage \in {"idle", "returned"} /\ stage' = "idle"
    BY <1>2 DEF Returns, OpenLog, SaveStatus, SaveSuccess, WInv, PInv, TInv, IInv, InRound,
                AtHand, Logs
  <2>3. ~Working /\ ~Working' /\ ~Starting /\ ~Starting'
    BY <2>2 DEF Working, Starting, Resetting
  <2> QED
    BY <2>1, <2>2, <2>3, RoundStands
<1>3. CASE UNCHANGED vars
  <2>1. UNCHANGED <<memory, world, left, failed, queue_size, result, phase, stage>>
    BY <1>3 DEF vars, driver
  <2>2. /\ InRound' <=> InRound
        /\ AtHand' <=> AtHand
        /\ Working' <=> Working
        /\ Starting' <=> Starting
    BY <2>1 DEF InRound, AtHand, Working, Starting
  <2> QED
    BY <2>1, <2>2, RoundStands
<1> QED
  BY <1>1, <1>2, <1>3

LEMMA WInvNext == WInv /\ [Next]_vars => WInv'
<1> SUFFICES ASSUME WInv, [Next]_vars PROVE WInv'
  OBVIOUS
<1>1. PInv'
  BY PInvNext DEF WInv
<1>2. RoundInv'
  BY RoundCall, RoundInMakeit, RoundConfigs, RoundSaveError, RoundEnds, RoundElsewhere
     DEF Next, Step, MakeitNext
<1> QED
  BY <1>1, <1>2 DEF WInv

LEMMA RoundsAlways == Spec => []RoundInv
BY WInvInit, WInvNext, PTL DEF Spec, WInv

(***************************************************************************)
(* The retry loop stops only at a fixpoint: every package that is not made *)
(* has been tried, and it was left for its dependencies exactly when one   *)
(* of them is unmade to the end.                                           *)
(***************************************************************************)
THEOREM DoneIsFixpointAlways == Spec => []DoneIsFixpoint
<1>1. RoundInv => DoneIsFixpoint
  BY DEF RoundInv
<1> QED
  BY <1>1, RoundsAlways, PTL

(***************************************************************************)
(* If no package depends on itself, as none of the repository's does       *)
(* (MCCadreConfigs), whatever could be made has been made when the retry   *)
(* loop ends.  Of the packages that refute it the least was left for a     *)
(* dependency that refutes it too.                                         *)
(***************************************************************************)
THEOREM AllOthersAreMadeAlways ==
  ASSUME NEW rank, Ranks(rank)
  PROVE  Spec => []AllOthersAreMade
<1>1. DoneIsFixpoint => AllOthersAreMade
  <2>1. SUFFICES ASSUME DoneIsFixpoint, phase = "done",
                        NEW S \in SUBSET (Names \ OwnFailures), Closed(S), ~(S \subseteq Made)
                 PROVE  FALSE
    BY DEF AllOthersAreMade
  <2> DEFINE Refuters == {n \in S : n \notin Made}
             R == OpToRel(<, Nat)
             T == {rank[n] : n \in Refuters}
  <2>2. \A i, j \in Nat : <<i, j>> \in R <=> i < j
    <3>1. R = {p \in Nat \X Nat : p[1] < p[2]}
      BY DEF OpToRel
    <3> HIDE DEF R
    <3> QED BY <3>1
  <2>3. T \subseteq Nat /\ T # {}
    BY <2>1 DEF Ranks
  <2>4. PICK i \in T : \A j \in T : ~(<<j, i>> \in R)
    <3>1. IsWellFoundedOn(R, Nat)
      BY NatLessThanWellFounded
    <3> HIDE DEF R, T
    <3> QED BY <2>3, <3>1, WFMin
  <2> HIDE DEF R
  <2>5. PICK n \in Refuters : i = rank[n]
    OBVIOUS
  <2>6. n \in Names \ Made /\ n \notin OwnFailures
    BY <2>1
  <2>7. PICK d \in Config[n].dependencies : d \notin Made
    BY <2>1, <2>6 DEF DoneIsFixpoint, OwnFailures
  <2>8. d \in Refuters
    BY <2>1, <2>7 DEF Closed
  <2>9. rank[d] \in Nat /\ rank[n] \in Nat /\ rank[d] < rank[n]
    BY <2>6, <2>7, <2>8 DEF Ranks
  <2> QED BY <2>2, <2>4, <2>5, <2>8, <2>9
<1> QED
  BY <1>1, DoneIsFixpointAlways, PTL

(***************************************************************************)
(* A package that is not made when the program is done has an entry in its *)
(* error log, unless it is a pkg without a url whose file is missing, or a *)
(* directory that its build enters is.                                     *)
(***************************************************************************)
THEOREM FailureIsExplainedAlways == Spec => []FailureIsExplained
<1>1. RoundInv => FailureIsExplained
  BY DEF RoundInv
<1> QED
  BY <1>1, RoundsAlways, PTL
==============================================================================
