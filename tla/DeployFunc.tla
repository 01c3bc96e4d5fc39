----------------------------- MODULE DeployFunc -----------------------------
(***************************************************************************)
(* MakeIt/DeployFunc.py: makeit(), which makes one package, and the        *)
(* functions it calls.  A call is a walk through the stages of the         *)
(* package (apt packages, commands, sources, builds, commands); between    *)
(* two stages the process may be interrupted or die (module CadreInstall). *)
(*                                                                         *)
(* The shell commands are the environment: each may succeed or fail every  *)
(* time it is run.  What a command leaves behind is kept only where a      *)
(* later decision of the code looks at it: the source directory, the       *)
(* downloaded file, the working tree of the repository of the installer.   *)
(*                                                                         *)
(* A definition whose name ends in _Word is not part of the model: it is   *)
(* the definition after it as a plausible mistake would have it, kept to   *)
(* show which property the mistake breaks.                                 *)
(***************************************************************************)
EXTENDS Naturals, Sequences

CONSTANTS Names,        \* the values of "name" in the configurations
          Config,       \* Config[n]: the configuration of n, reduced below
          OwnBranches   \* the packages whose branch CADRE_Install has a branch like

(***************************************************************************)
(* The keys of a configuration that makeit reads, each reduced to what its *)
(* control depends on: "dependencies" to the set of names, the lists of    *)
(* commands to whether there are any, the git or pkg record to where the   *)
(* sources come from, "params" to the steps makePackage takes for it; the   *)
(* step "enter" is the look at the directory when no configure tool is set.*)
(***************************************************************************)
BuildCommands == {"cmake", "qmake", "script", "enter", "make", "install"}

Configuration ==
  [dependencies : SUBSET Names,
   apt          : SUBSET {"sources", "ppas", "pkgs", "remove", "pips"},
   precmds      : BOOLEAN,
   source       : {"git", "archive", "deb", "other", "none"},
   url          : BOOLEAN,          \* pkg has a url to download from
   branch       : BOOLEAN,          \* git names a branch or tag
   patch        : BOOLEAN,
   srcprecmds   : BOOLEAN,          \* precmds and postcmds of git or pkg
   srcpostcmds  : BOOLEAN,
   build        : Seq(BuildCommands),
   postcmds     : BOOLEAN]

ASSUME ConfigAssumption == /\ DOMAIN Config = Names
                           /\ \A n \in Names : Config[n] \in Configuration

VARIABLES makeit_status, \* dict: name -> was it made
          success_log,   \* dict: name -> the stages that succeeded
          error_log,     \* dict: name -> the stages that failed
          current_name,
          apt_updated,
          stage,         \* where makeit is; "idle" when it is not running
          todo,          \* the build commands still to run
          result,        \* what makeit returned
          tree,          \* tree[n]: the source directory of n
          file,          \* the packages whose pkg file is on disk
          own_tree       \* the working tree of CADRE_Install itself

memory == <<makeit_status, success_log, error_log, current_name, apt_updated>>
world  == <<tree, file, own_tree>>

NoName == "no package"
Stages == {"idle", "success_log", "error_log", "dependencies", "apt", "precmds", "srcprecmds", "fetch", "checkout", "unpack",
           "patch", "srcpostcmds", "build", "ldpath", "postcmds",
           "returned", "raised"}

(***************************************************************************)
(* A source directory is absent, empty (a registered submodule that was    *)
(* never fetched), partial (an extraction or a clone was cut short), hollow *)
(* (it holds only a build directory), whole, or patched.                   *)
(***************************************************************************)
Trees == {"absent", "empty", "partial", "hollow", "whole", "patched"}

(***************************************************************************)
(* Python dictionaries.                                                    *)
(***************************************************************************)
EmptyDict == [n \in {} |-> FALSE]
Put(d, k, v) == [x \in DOMAIN d \cup {k} |-> IF x = k THEN v ELSE d[x]]
IsDict(d, S) == DOMAIN d \subseteq Names /\ d \in [DOMAIN d -> S]

(***************************************************************************)
(* The packages a status dictionary says are made.                         *)
(***************************************************************************)
MadeIn(status) == {n \in DOMAIN status : status[n]}
Made == MadeIn(makeit_status)

(***************************************************************************)
(* The stages that makeit runs for n and whose failure makes it return     *)
(* False: what must have succeeded when n is made.                         *)
(***************************************************************************)
Mandatory(n) ==
  LET c == Config[n]
      hasSource == c.source # "none"
  IN     (IF c.apt \cap {"pkgs", "remove", "pips"} # {} THEN {"apt"} ELSE {})
    \cup (IF c.precmds THEN {"precmds"} ELSE {})
    \cup (IF hasSource /\ c.srcprecmds THEN {"srcprecmds"} ELSE {})
    \cup (IF c.source = "git" /\ c.branch THEN {"checkout"} ELSE {})
    \cup (IF c.source = "deb" THEN {"dpkg"} ELSE {})
    \cup (IF c.source \in {"git", "archive"} /\ c.patch THEN {"patch"} ELSE {})
    \cup (IF hasSource /\ c.srcpostcmds THEN {"srcpostcmds"} ELSE {})
    \cup (IF hasSource THEN {c.build[i] : i \in DOMAIN c.build} \ {"enter"} ELSE {})
    \cup (IF c.postcmds THEN {"postcmds"} ELSE {})
-----------------------------------------------------------------------------
(***************************************************************************)
(* runOsCmd appends to the log of current_name.  The entries of commands   *)
(* whose status the code ignores are left out of the logs.                 *)
(***************************************************************************)
LogSuccess(entries) ==
  success_log' = Put(success_log, current_name, success_log[current_name] \cup entries)
LogError(entries) ==
  error_log' = Put(error_log, current_name, error_log[current_name] \cup entries)

Return(r) == /\ stage' = "returned"
             /\ result' = r
             /\ todo' = <<>>

(***************************************************************************)
(* A return that leaves makeit_status[name] at the False of line 372.      *)
(***************************************************************************)
ReturnFalse == Return(FALSE) /\ UNCHANGED makeit_status

GoTo(s) == stage' = s /\ UNCHANGED <<result, todo, makeit_status>>

(***************************************************************************)
(* runOsCmds on the commands of one stage: success of all of them, or the  *)
(* failure of one, at which makeit returns.                                *)
(***************************************************************************)
Passes(entries, next) == LogSuccess(entries) /\ GoTo(next) /\ UNCHANGED error_log
Fails_Unlogged(entries) == ReturnFalse /\ UNCHANGED <<success_log, error_log>>
Fails(entries) == LogError(entries) /\ ReturnFalse /\ UNCHANGED success_log
Skips(next) == GoTo(next) /\ UNCHANGED <<success_log, error_log>>

Commands(here, present, next) ==
  /\ stage = here
  /\ IF present THEN Passes({here}, next) \/ Fails({here}) ELSE Skips(next)
  /\ UNCHANGED <<current_name, apt_updated, world>>

Cfg == Config[current_name]
-----------------------------------------------------------------------------
(***************************************************************************)
(* makeit(n) up to its first command: a made package is left alone, else   *)
(* its entries are reset, one dictionary after the other, and its          *)
(* dependencies looked up.                                                 *)
(***************************************************************************)
Unmade_Always(n) == TRUE
Unmade(n) == n \notin Made

CallMade(n) == /\ stage = "idle" /\ ~Unmade(n)
               /\ Return(TRUE)
               /\ UNCHANGED <<memory, world>>

ResetStatus_True(n) == makeit_status' = Put(makeit_status, n, TRUE)
ResetStatus_FullName(n) == makeit_status' = Put(makeit_status, "name_version", FALSE)
ResetStatus(n) == makeit_status' = Put(makeit_status, n, FALSE)

CallUnmade(n) == /\ stage = "idle" /\ Unmade(n)
                 /\ current_name' = n
                 /\ ResetStatus(n)
                 /\ stage' = "success_log"
                 /\ UNCHANGED <<success_log, error_log, apt_updated, todo, result, world>>

Call(n) == CallMade(n) \/ CallUnmade(n)

ResetSuccess_Forgotten == /\ stage = "success_log"
                          /\ Skips("error_log")
                          /\ UNCHANGED <<current_name, apt_updated, world>>
ResetSuccess == /\ stage = "success_log"
                /\ success_log' = Put(success_log, current_name, {})
                /\ GoTo("error_log")
                /\ UNCHANGED <<error_log, current_name, apt_updated, world>>

ResetError == /\ stage = "error_log"
              /\ error_log' = Put(error_log, current_name, {})
              /\ GoTo("dependencies")
              /\ UNCHANGED <<success_log, current_name, apt_updated, world>>

DependenciesMet_Tried == Cfg.dependencies \subseteq DOMAIN makeit_status
DependenciesMet == Cfg.dependencies \subseteq Made

CheckDependencies == /\ stage = "dependencies"
                     /\ IF DependenciesMet THEN Skips("apt") ELSE Fails({"dependency"})
                     /\ UNCHANGED <<current_name, apt_updated, world>>

(***************************************************************************)
(* aptInstall.  apt-get update runs once per process, at the first list    *)
(* that needs it, and its status is ignored; the pips do not need it.      *)
(***************************************************************************)
AptInstall_Ignored ==
  /\ stage = "apt"
  /\ Passes({"apt"}, "precmds") \/ Skips("precmds")
  /\ UNCHANGED <<current_name, apt_updated, world>>

AptInstall ==
  /\ stage = "apt"
  /\ LET lists == Cfg.apt \cap {"pkgs", "remove", "pips"}
     IN  IF lists = {} THEN Skips("precmds")
         ELSE Passes({"apt"}, "precmds") \/ Fails({"apt"})
  /\ apt_updated' = (apt_updated \/ Cfg.apt \ {"pips"} # {})
  /\ UNCHANGED <<current_name, world>>

SourceStage == IF Cfg.source = "none" THEN "ldpath" ELSE "srcprecmds"

PreCommands == Commands("precmds", Cfg.precmds, SourceStage)

SourcePreCommands == Commands("srcprecmds", Cfg.srcprecmds, "fetch")

(***************************************************************************)
(* gitSource, the working tree.  The statuses of submodule add, clone and  *)
(* submodule update are ignored; without a directory os.chdir raises.      *)
(***************************************************************************)
GitFetch ==
  /\ stage = "fetch" /\ Cfg.source = "git"
  /\ \/ /\ tree[current_name] \in {"absent", "empty"}
        /\ tree' = [tree EXCEPT ![current_name] = "whole"]
        /\ Skips("checkout")
     \/ /\ tree[current_name] # "absent"
        /\ Skips("checkout") /\ UNCHANGED tree
     \/ /\ tree[current_name] = "absent"
        /\ Skips("raised") /\ UNCHANGED tree
  /\ UNCHANGED <<current_name, apt_updated, file, own_tree>>

(***************************************************************************)
(* gitSource, the branch: checkout, or stash and checkout again.  In an    *)
(* empty directory git works on the enclosing repository, the installer's. *)
(***************************************************************************)
OnOwnTree == tree[current_name] \in {"empty", "hollow"}

BranchExists == OnOwnTree => current_name \in OwnBranches

GitStash ==
  /\ tree' = IF tree[current_name] = "patched"
               THEN [tree EXCEPT ![current_name] = "whole"] ELSE tree
  /\ own_tree' = IF OnOwnTree THEN "stashed" ELSE own_tree

GitCheckout ==
  /\ stage = "checkout"
  /\ \/ ~Cfg.branch /\ Skips("patch") /\ UNCHANGED <<tree, own_tree>>
     \/ /\ Cfg.branch /\ BranchExists
        /\ Passes({"checkout"}, "patch") /\ UNCHANGED <<tree, own_tree>>
     \/ Cfg.branch /\ Fails({"checkout", "stash"}) /\ UNCHANGED <<tree, own_tree>>
     \/ /\ Cfg.branch /\ GitStash /\ BranchExists
        /\ LogError({"checkout"}) /\ LogSuccess({"checkout", "stash"}) /\ GoTo("patch")
     \/ /\ Cfg.branch /\ GitStash
        /\ LogError({"checkout"}) /\ LogSuccess({"stash"}) /\ ReturnFalse
  /\ UNCHANGED <<current_name, apt_updated, file>>

(***************************************************************************)
(* pkgSource, the file: without a url a missing file is a failure that     *)
(* leaves no trace in the log; a download that fails raises.               *)
(***************************************************************************)
PkgFetch ==
  /\ stage = "fetch" /\ Cfg.source \in {"archive", "deb", "other"}
  /\ \/ current_name \in file /\ Skips("unpack") /\ UNCHANGED file
     \/ /\ current_name \notin file /\ ~Cfg.url
        /\ ReturnFalse /\ UNCHANGED <<success_log, error_log, file>>
     \/ /\ current_name \notin file /\ Cfg.url
        /\ file' = file \cup {current_name} /\ Skips("unpack")
     \/ /\ current_name \notin file /\ Cfg.url
        /\ Skips("raised") /\ UNCHANGED file
  /\ UNCHANGED <<current_name, apt_updated, tree, own_tree>>

(***************************************************************************)
(* pkgSource, the contents: an archive is extracted unless its directory   *)
(* is there; extractall raises on a bad archive or a full disk.            *)
(***************************************************************************)
PkgUnpack ==
  /\ stage = "unpack"
  /\ \/ /\ Cfg.source = "archive" /\ tree[current_name] # "absent"
        /\ Skips("patch") /\ UNCHANGED tree
     \/ /\ Cfg.source = "archive" /\ tree[current_name] = "absent"
        /\ tree' = [tree EXCEPT ![current_name] = "whole"]
        /\ Skips("patch")
     \/ /\ Cfg.source = "archive" /\ tree[current_name] = "absent"
        /\ \E t \in {"absent", "partial"} : tree' = [tree EXCEPT ![current_name] = t]
        /\ Skips("raised")
     \/ /\ Cfg.source = "deb" /\ UNCHANGED tree
        /\ Passes({"dpkg"}, "srcpostcmds") \/ Fails({"dpkg"})
     \/ /\ Cfg.source = "other" /\ UNCHANGED tree
        /\ Skips("srcpostcmds")
  /\ UNCHANGED <<current_name, apt_updated, file, own_tree>>

(***************************************************************************)
(* The patches, in gitSource and pkgSource alike: the condition of the     *)
(* command skips a patch that is already applied.  (A patch file that is   *)
(* not there is skipped, too; the two files that configurations name come  *)
(* with the repository.)                                                   *)
(***************************************************************************)
ApplyPatch_Skipped == /\ stage = "patch"
                      /\ Skips("srcpostcmds")
                      /\ UNCHANGED <<current_name, apt_updated, world>>

ApplyPatch ==
  /\ stage = "patch"
  /\ \/ ~Cfg.patch /\ Skips("srcpostcmds") /\ UNCHANGED tree
     \/ /\ Cfg.patch /\ ~OnOwnTree
        /\ Passes({"patch"}, "srcpostcmds")
        /\ tree' = IF tree[current_name] = "whole"
                     THEN [tree EXCEPT ![current_name] = "patched"] ELSE tree
     \/ /\ Cfg.patch /\ tree[current_name] # "patched"
        /\ Fails({"patch"}) /\ UNCHANGED tree
  /\ UNCHANGED <<current_name, apt_updated, file, own_tree>>

SourcePostCommands ==
  /\ stage = "srcpostcmds"
  /\ \/ /\ IF Cfg.srcpostcmds THEN LogSuccess({"srcpostcmds"}) ELSE UNCHANGED success_log
        /\ stage' = "build" /\ todo' = Cfg.build
        /\ UNCHANGED <<error_log, result, makeit_status>>
     \/ Cfg.srcpostcmds /\ Fails({"srcpostcmds"})
  /\ UNCHANGED <<current_name, apt_updated, world>>

(***************************************************************************)
(* makePackage on each entry of params: configure, make, make install.     *)
(* cmake makes a build directory of its own, and fails when there is no    *)
(* source around it; the other tools return False, without an entry in the *)
(* log, when the directory to work in is missing.                          *)
(***************************************************************************)
BuildStepPasses ==
  /\ Head(todo) = "cmake" => ~OnOwnTree
  /\ IF Head(todo) = "enter" THEN UNCHANGED success_log ELSE LogSuccess({Head(todo)})
  /\ todo' = Tail(todo)
  /\ UNCHANGED <<error_log, result, stage, makeit_status>>

NoDirectory == /\ Head(todo) \in {"qmake", "script", "enter"}
               /\ tree[current_name] \in {"empty", "partial", "hollow"}

MakePackage ==
  /\ stage = "build" /\ todo # <<>>
  /\ \/ BuildStepPasses
     \/ Head(todo) # "enter" /\ Fails({Head(todo)})
     \/ NoDirectory /\ ReturnFalse /\ UNCHANGED <<success_log, error_log>>
  /\ tree' = IF Head(todo) = "cmake" /\ tree[current_name] = "empty"
               THEN [tree EXCEPT ![current_name] = "hollow"] ELSE tree
  /\ UNCHANGED <<current_name, apt_updated, file, own_tree>>

Built == /\ stage = "build" /\ todo = <<>>
         /\ Skips("ldpath")
         /\ UNCHANGED <<current_name, apt_updated, world>>

(***************************************************************************)
(* ldconfig and update-alternatives: their statuses are ignored.           *)
(***************************************************************************)
LdPath == /\ stage = "ldpath"
          /\ Skips("postcmds")
          /\ UNCHANGED <<current_name, apt_updated, world>>

PostCommands ==
  /\ stage = "postcmds"
  /\ \/ /\ IF Cfg.postcmds THEN LogSuccess({"postcmds"}) ELSE UNCHANGED success_log
        /\ makeit_status' = Put(makeit_status, current_name, TRUE)
        /\ Return(TRUE)
        /\ UNCHANGED error_log
     \/ Cfg.postcmds /\ Fails({"postcmds"})
  /\ UNCHANGED <<current_name, apt_updated, world>>

MakeitStep == \/ ResetSuccess \/ ResetError \/ CheckDependencies
              \/ AptInstall \/ PreCommands \/ SourcePreCommands
              \/ GitFetch \/ GitCheckout \/ PkgFetch \/ PkgUnpack \/ ApplyPatch
              \/ SourcePostCommands \/ MakePackage \/ Built
              \/ LdPath \/ PostCommands

(***************************************************************************)
(* The stages in which no command of the package runs.                     *)
(***************************************************************************)
Quiet == {"idle", "success_log", "error_log", "dependencies", "returned"}

(***************************************************************************)
(* A stage cut short by a signal: what it was extracting or cloning is     *)
(* left half done.                                                         *)
(***************************************************************************)
CutShort ==
  \/ UNCHANGED world
  \/ /\ \/ stage = "fetch" /\ Cfg.source = "git" /\ tree[current_name] \in {"absent", "empty"}
        \/ stage = "unpack" /\ Cfg.source = "archive" /\ tree[current_name] = "absent"
     /\ tree' = [tree EXCEPT ![current_name] = "partial"]
     /\ UNCHANGED <<file, own_tree>>
=============================================================================
