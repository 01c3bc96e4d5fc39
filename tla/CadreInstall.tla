---------------------------- MODULE CadreInstall ----------------------------
(***************************************************************************)
(* cadre_install.py: the program around makeit.  It runs the configuration *)
(* scripts, makes the packages in rounds until a round makes no progress,  *)
(* and rewrites the three log files after every package.  The program may  *)
(* be interrupted, raise or be killed at any point, and be started again.  *)
(***************************************************************************)
EXTENDS DeployFunc

CONSTANTS Orders,       \* the orders in which os.walk may list the configurations
          Worlds,       \* what may be on disk before the first start
          MaxRuns,      \* bound on the times the user starts the program
          StopsInSave   \* may the program be stopped while it rewrites its logs?

ASSUME RunsAssumption == MaxRuns \in Nat /\ StopsInSave \in BOOLEAN
ASSUME OrdersAssumption ==
  \A q \in Orders : /\ q \in Seq(Names)
                    /\ \A n \in Names : \E i \in DOMAIN q : q[i] = n
ASSUME WorldsAssumption ==
  \A w \in Worlds : /\ w.tree \in [Names -> {"absent", "empty"}]
                    /\ w.file \subseteq Names

VARIABLES phase,        \* where the program is
          queue,        \* config_json_queue: the packages of this round
          left,         \* the part of queue the for loop has not reached
          queue_size, failed_size,
          failed,       \* config_json_failed_queue
          disk,         \* the dictionaries in the three log files
          torn,         \* the log files that hold no json, cut short as they were
          runs          \* starts of the program so far

driver == <<phase, queue, left, queue_size, failed_size, failed, disk, torn, runs>>
vars == <<memory, stage, todo, result, world, driver>>

Logs == {"status", "success", "error"}

Phases == {"configs", "deploy", "makeit", "status", "success", "error",
           "done", "interrupted", "aborted", "killed"}
Alive == phase \in {"configs", "deploy", "makeit"} \cup Logs

(***************************************************************************)
(* DeployFunc is imported afresh when the program starts: what is in the   *)
(* files is in memory.  A file that does not exist counts as empty.        *)
(***************************************************************************)
Init == /\ makeit_status = EmptyDict /\ success_log = EmptyDict /\ error_log = EmptyDict
        /\ current_name = NoName /\ apt_updated = FALSE
        /\ stage = "idle" /\ todo = <<>> /\ result = FALSE
        /\ \E w \in Worlds : tree = w.tree /\ file = w.file
        /\ own_tree = "as left by the user"
        /\ phase = "configs"
        /\ queue = <<>> /\ left = <<>> /\ failed = <<>>
        /\ queue_size = 0 /\ failed_size = 0
        /\ disk = [f \in Logs |-> EmptyDict] /\ torn = {}
        /\ runs = 1
-----------------------------------------------------------------------------
(***************************************************************************)
(* The configuration scripts write their json files; a script that raises  *)
(* (g2o.py asks qmake where Qt is) ends the program.                       *)
(***************************************************************************)
RunConfigs ==
  /\ phase = "configs"
  /\ \/ /\ phase' = "deploy"
        /\ queue' \in Orders
        /\ left' = queue'
        /\ queue_size' = Len(queue')
        /\ failed_size' = 0
        /\ failed' = <<>>
     \/ /\ phase' = "aborted"
        /\ UNCHANGED <<queue, left, queue_size, failed_size, failed>>
  /\ UNCHANGED <<memory, stage, todo, result, world, disk, torn, runs>>

(***************************************************************************)
(* The for loop: the next configuration goes to makeit.                    *)
(***************************************************************************)
CallMakeit ==
  /\ phase = "deploy" /\ left # <<>>
  /\ Call(Head(left))
  /\ phase' = "makeit"
  /\ UNCHANGED <<queue, left, queue_size, failed_size, failed, disk, torn, runs>>

InMakeit == /\ phase = "makeit"
            /\ MakeitStep
            /\ UNCHANGED driver

(***************************************************************************)
(* An exception other than KeyboardInterrupt is caught nowhere.            *)
(***************************************************************************)
Abort == /\ phase = "makeit" /\ stage = "raised"
         /\ phase' = "aborted" /\ stage' = "idle"
         /\ UNCHANGED <<memory, todo, result, world,
                        queue, left, queue_size, failed_size, failed, disk, torn, runs>>

(***************************************************************************)
(* makeit returns; saveMakeLog rewrites the files one after the other.     *)
(* open() cuts a file to nothing, the dump that follows fills it; in       *)
(* between it holds no json.  A package that was not made is queued for    *)
(* the next round.                                                         *)
(***************************************************************************)
Returns_NoSave == /\ phase = "makeit" /\ stage = "returned"
                  /\ phase' = "error" /\ stage' = "idle"
                  /\ UNCHANGED <<memory, todo, result, world, queue, left, queue_size,
                                 failed_size, failed, disk, torn, runs>>
Returns == /\ phase = "makeit" /\ stage = "returned"
           /\ phase' = "status" /\ stage' = "idle"
           /\ UNCHANGED <<memory, todo, result, world,
                          queue, left, queue_size, failed_size, failed, disk, torn, runs>>

OpenLog == /\ phase \in Logs /\ phase \notin torn
           /\ disk' = [disk EXCEPT ![phase] = EmptyDict]
           /\ torn' = torn \cup {phase}
           /\ UNCHANGED <<memory, stage, todo, result, world,
                          phase, queue, left, queue_size, failed_size, failed, runs>>

Write(f, dict) == /\ f \in torn
                  /\ disk' = [disk EXCEPT ![f] = dict]
                  /\ torn' = torn \ {f}

SaveStatus == /\ phase = "status"
              /\ Write("status", makeit_status)
              /\ phase' = "success"
              /\ UNCHANGED <<memory, stage, todo, result, world,
                             queue, left, queue_size, failed_size, failed, runs>>

SaveSuccess == /\ phase = "success"
               /\ Write("success", success_log)
               /\ phase' = "error"
               /\ UNCHANGED <<memory, stage, todo, result, world,
                              queue, left, queue_size, failed_size, failed, runs>>

StillFailed_Last == IF result THEN failed ELSE <<Head(left)>>
StillFailed == IF result THEN failed ELSE Append(failed, Head(left))

SaveError == /\ phase = "error"
             /\ Write("error", error_log)
             /\ phase' = "deploy"
             /\ failed' = StillFailed
             /\ left' = Tail(left)
             /\ UNCHANGED <<memory, stage, todo, result, world,
                            queue, queue_size, failed_size, runs>>

(***************************************************************************)
(* The end of a round: the packages that failed are the next queue, and    *)
(* the loop goes on while the queue it worked on was longer.               *)
(***************************************************************************)
KeepGoing_Once == FALSE
KeepGoing_Early == queue_size > Len(failed) + 1
KeepGoing_Stubborn == Len(failed) > 0
KeepGoing == queue_size > Len(failed)

EndRound ==
  /\ phase = "deploy" /\ left = <<>>
  /\ failed_size' = Len(failed)
  /\ queue' = failed /\ failed' = <<>>
  /\ IF KeepGoing
       THEN phase' = "deploy" /\ queue_size' = Len(failed) /\ left' = failed
       ELSE phase' = "done" /\ UNCHANGED <<queue_size, left>>
  /\ UNCHANGED <<memory, stage, todo, result, world, disk, torn, runs>>

MakeitNext == CallMakeit \/ InMakeit \/ Abort \/ Returns

Step == \/ RunConfigs \/ MakeitNext
        \/ OpenLog \/ SaveStatus \/ SaveSuccess \/ SaveError \/ EndRound
-----------------------------------------------------------------------------
(***************************************************************************)
(* KeyboardInterrupt in the deploy loop ends it, without a last save.  A   *)
(* signal may cut short what makeit is doing, and a save leaves the file   *)
(* that is open torn.                                                      *)
(***************************************************************************)
Damage == IF phase = "makeit" THEN CutShort ELSE UNCHANGED world

Interrupt ==
  /\ phase \in {"deploy", "makeit"} \cup Logs
  /\ StopsInSave \/ phase \notin Logs
  /\ phase' = "interrupted" /\ stage' = "idle"
  /\ Damage
  /\ UNCHANGED <<memory, todo, result, queue, left, queue_size, failed_size, failed,
                 disk, torn, runs>>

Kill == /\ Alive
        /\ StopsInSave \/ phase \notin Logs
        /\ phase' = "killed" /\ stage' = "idle"
        /\ Damage
        /\ UNCHANGED <<memory, todo, result, queue, left, queue_size, failed_size, failed,
                       disk, torn, runs>>

(***************************************************************************)
(* The user starts the program again.  json.load raises on a torn file at  *)
(* import, so the user has removed it first.                               *)
(***************************************************************************)
Load_Nothing == /\ makeit_status' = EmptyDict
                /\ success_log' = EmptyDict
                /\ error_log' = EmptyDict
Load == /\ makeit_status' = disk["status"]
        /\ success_log' = disk["success"]
        /\ error_log' = disk["error"]

Restart == /\ ~Alive
           /\ runs < MaxRuns
           /\ runs' = runs + 1
           /\ torn' = {}
           /\ Load
           /\ current_name' = NoName /\ apt_updated' = FALSE
           /\ todo' = <<>> /\ result' = FALSE
           /\ phase' = "configs"
           /\ queue' = <<>> /\ left' = <<>> /\ failed' = <<>>
           /\ queue_size' = 0 /\ failed_size' = 0
           /\ UNCHANGED <<stage, world, disk>>

Next == Step \/ Interrupt \/ Kill \/ Restart

Spec == Init /\ [][Next]_vars

(***************************************************************************)
(* The program, once started, keeps running; nobody has to interrupt it or *)
(* to start it again.                                                      *)
(***************************************************************************)
FairSpec == Spec /\ WF_vars(Step)
-----------------------------------------------------------------------------
LogEntries == {"dependency", "apt", "precmds", "srcprecmds", "checkout", "stash", "dpkg",
               "patch", "srcpostcmds", "postcmds"} \cup BuildCommands

(***************************************************************************)
(* The types of the variables.                                             *)
(***************************************************************************)
TypeOK ==
  /\ IsDict(makeit_status, BOOLEAN)
  /\ IsDict(success_log, SUBSET LogEntries)
  /\ IsDict(error_log, SUBSET LogEntries)
  /\ current_name \in Names \cup {NoName}
  /\ apt_updated \in BOOLEAN /\ result \in BOOLEAN
  /\ stage \in Stages /\ phase \in Phases
  /\ todo \in Seq(BuildCommands)
  /\ tree \in [Names -> Trees] /\ file \in SUBSET Names
  /\ own_tree \in {"as left by the user", "stashed"}
  /\ queue \in Seq(Names) /\ left \in Seq(Names) /\ failed \in Seq(Names)
  /\ queue_size \in Nat /\ failed_size \in Nat /\ runs \in Nat
  /\ DOMAIN disk = Logs /\ torn \subseteq Logs
  /\ IsDict(disk["status"], BOOLEAN)
  /\ IsDict(disk["success"], SUBSET LogEntries)
  /\ IsDict(disk["error"], SUBSET LogEntries)

Closed(S) == \A n \in S : Config[n].dependencies \subseteq S

(***************************************************************************)
(* The packages makeit_status.json says are made.                          *)
(***************************************************************************)
Recorded == MadeIn(disk["status"])

(***************************************************************************)
(* In memory and on disk, through failures, interrupts and restarts, every *)
(* package that is made has its dependencies made                          *)
(* (MakeIt/DeployFunc.py:376-382).                                         *)
(***************************************************************************)
DependenciesMade == Closed(Made) /\ Closed(Recorded)

(***************************************************************************)
(* Whenever a command of a package runs, what the package depends on has   *)
(* been made and the package itself has not.                               *)
(***************************************************************************)
WorksOnMade ==
  stage \notin Quiet =>
    /\ Config[current_name].dependencies \subseteq Made
    /\ current_name \notin Made

(***************************************************************************)
(* What a stop costs, memory being lost and the record kept.  While the    *)
(* status file is rewritten, or was when the program was stopped, nothing  *)
(* is on record; at any other time all that is made is, but at most the    *)
(* package just worked on; and once the program has got to its end or has  *)
(* died of an exception, all of it is (saveMakeLog after each makeit,      *)
(* cadre_install.py:64).                                                   *)
(***************************************************************************)
RecordIsCurrent ==
  IF "status" \in torn
    THEN phase \in {"status", "interrupted", "killed"} /\ Recorded = {}
    ELSE /\ Recorded \subseteq Made
         /\ Made \ Recorded \subseteq {current_name}
         /\ phase \in {"configs", "deploy", "done", "aborted"} => Made = Recorded

(***************************************************************************)
(* What is on record: in the file, or, while the program rewrites the      *)
(* file, on its way there.                                                 *)
(***************************************************************************)
OnRecord == IF Alive /\ "status" \in torn THEN Made ELSE Recorded

(***************************************************************************)
(* A package on record stays there and is never worked on again, in this   *)
(* run or a later one, unless the program is stopped in the middle of the  *)
(* write.                                                                  *)
(***************************************************************************)
NeverForgotten ==
  [][/\ OnRecord \subseteq OnRecord' \/ (~Alive' /\ "status" \in torn')
     /\ stage' = "apt" => current_name' \notin OnRecord]_vars

(***************************************************************************)
(* When the program is not stopped inside saveMakeLog, the dictionaries    *)
(* have the same keys, but for the package whose entries are being reset,  *)
(* or were when ^C came: printMakeLog, which prints a list of every        *)
(* package (MakeIt/DeployFunc.py:496-506), can miss no list but that one's.*)
(***************************************************************************)
LogsAgree ==
  LET missing == DOMAIN makeit_status \ (DOMAIN success_log \cap DOMAIN error_log)
  IN  /\ DOMAIN error_log \subseteq DOMAIN success_log
      /\ DOMAIN success_log \subseteq DOMAIN makeit_status
      /\ missing \subseteq {current_name}
      /\ missing = {} \/ stage \in {"success_log", "error_log"}
                     \/ phase \in {"interrupted", "killed"}
      /\ stage = "error_log" => current_name \in DOMAIN success_log

(***************************************************************************)
(* Made means made: each mandatory stage succeeded in one attempt, and the *)
(* only failure that attempt may have logged is the checkout that worked   *)
(* after a stash.                                                          *)
(***************************************************************************)
MadeMeansSucceeded ==
  \A n \in Made : /\ Mandatory(n) \subseteq success_log[n]
                  /\ error_log[n] \subseteq {"checkout"}

(***************************************************************************)
(* What keeps a package from being made in a directory without sources:    *)
(* nobody but its own extraction makes the directory of an archive, and in *)
(* the empty directory of a submodule a patch, a cmake or the checkout of  *)
(* a branch fails, the last one unless the installer's repository, on      *)
(* which git works there, happens to have a branch of that name.           *)
(***************************************************************************)
NeedsItsSources(n) ==
  LET c == Config[n]
  IN  \/ c.source = "archive" /\ \A w \in Worlds : w.tree[n] = "absent"
      \/ c.source = "git" /\ \/ c.patch
                             \/ \E i \in DOMAIN c.build : c.build[i] = "cmake"
                             \/ c.branch /\ n \notin OwnBranches

EachNeedsItsSources ==
  \A n \in Names : Config[n].source \in {"git", "archive"} => NeedsItsSources(n)

(***************************************************************************)
(* Although the statuses of clone and submodule update are ignored, no     *)
(* package is made without sources, nor with a patch missing: what is made *)
(* was built from a whole tree or from one that was cut short.             *)
(***************************************************************************)
MadeFromSources ==
  \A n \in Made : Config[n].source \in {"git", "archive"} =>
    \/ tree[n] = IF Config[n].patch THEN "patched" ELSE "whole"
    \/ tree[n] = "partial"

(***************************************************************************)
(* The retry loop stops where trying again is of no use as far as the      *)
(* program can tell: a package is left for its dependencies only when they *)
(* are unmade to the end (cadre_install.py:47-73).                         *)
(***************************************************************************)
DoneIsFixpoint ==
  phase = "done" =>
    \A n \in Names \ Made :
      /\ n \in DOMAIN error_log
      /\ "dependency" \in error_log[n] <=> ~(Config[n].dependencies \subseteq Made)

(***************************************************************************)
(* No failure reaches further than the packages that depend on it: once    *)
(* the retry loop has ended, packages that need nothing but each other     *)
(* have all been made, unless one of them failed on made dependencies.     *)
(***************************************************************************)
OwnFailures == {n \in Names \ Made : "dependency" \notin error_log[n]}

AllOthersAreMade ==
  phase = "done" => \A S \in SUBSET (Names \ OwnFailures) : Closed(S) => S \subseteq Made

(***************************************************************************)
(* Dependencies without a cycle: every package comes after its own.        *)
(***************************************************************************)
Ranks(rank) == /\ rank \in [Names -> Nat]
               /\ \A n \in Names : \A d \in Config[n].dependencies : rank[d] < rank[n]

(***************************************************************************)
(* A package that was tried and not made has a log entry that says why,    *)
(* but in two cases: the file of a package that has no url is missing, or  *)
(* a directory that its build enters is not there (DeployFunc.py:305-332). *)
(***************************************************************************)
FailureIsExplained ==
  phase = "done" =>
    \A n \in Names \ Made :
      \/ error_log[n] # {}
      \/ Config[n].source \in {"archive", "deb", "other"} /\ ~Config[n].url /\ n \notin file
      \/ /\ tree[n] \in {"empty", "partial", "hollow"}
         /\ \E i \in DOMAIN Config[n].build : Config[n].build[i] \in {"qmake", "script", "enter"}

(***************************************************************************)
(* The program implements the abstract installer; once it is no longer     *)
(* running, what is made is what is on record.                             *)
(***************************************************************************)
Order == INSTANCE InstallOrder
           WITH Deps <- [n \in Names |-> Config[n].dependencies],
                made <- IF Alive THEN Made ELSE Recorded,
                recorded <- Recorded

ImplementsOrder == Order!Spec

(***************************************************************************)
(* Every run of the program comes to an end, whatever fails: each round of *)
(* the retry loop but the last shortens the queue.                         *)
(***************************************************************************)
Ends == Alive ~> ~Alive
=============================================================================
