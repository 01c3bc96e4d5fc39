------------------------ MODULE CadreInstall_proofs ------------------------
(***************************************************************************)
(* Proofs about CadreInstall, for every set of packages, configuration,    *)
(* order of the configurations and number of runs.                         *)
(***************************************************************************)
EXTENDS CadreInstall, TLAPS

(***************************************************************************)
(* What an entry put into a dictionary does to its type and to the set of  *)
(* packages it says are made.                                              *)
(***************************************************************************)
LEMMA PutIsDict ==
  ASSUME NEW d, NEW S, IsDict(d, S), NEW n \in Names, NEW v \in S
  PROVE  IsDict(Put(d, n, v), S)
BY DEF IsDict, Put

LEMMA MadePutFalse ==
  ASSUME NEW d, NEW n, n \notin MadeIn(d)
  PROVE  MadeIn(Put(d, n, FALSE)) = MadeIn(d)
BY Zenon DEF MadeIn, Put

LEMMA MadePutTrue ==
  ASSUME NEW d, NEW n
  PROVE  MadeIn(Put(d, n, TRUE)) = MadeIn(d) \cup {n}
BY Zenon DEF MadeIn, Put

LEMMA MadeInEmpty == MadeIn(EmptyDict) = {}
BY DEF MadeIn, EmptyDict

(***************************************************************************)
(* makeit is past its first lines and has not returned.                    *)
(***************************************************************************)
Working == stage \notin {"idle", "returned"}

(***************************************************************************)
(* The inductive invariant.  WorksOnMade and RecordIsCurrent are not       *)
(* inductive alone: that the record is current while a package is worked   *)
(* on is what makes the next save complete, and that the record is closed  *)
(* under dependencies is what makes the memory closed after a restart.     *)
(* With the status file torn there is no record, and the save under way    *)
(* will write all of it, unless the program has been stopped.              *)
(***************************************************************************)
RecordAt ==
  /\ "status" \in torn => phase \in {"status", "interrupted", "killed"} /\ Recorded = {}
  /\ phase \in {"configs", "deploy", "success", "error", "done", "aborted"} => Made = Recorded
  /\ phase = "makeit" /\ stage # "returned" => Made = Recorded
  /\ "status" \notin torn => /\ Recorded \subseteq Made
                             /\ Made \ Recorded \subseteq {current_name}

IInv ==
  /\ IsDict(makeit_status, BOOLEAN)
  /\ IsDict(disk["status"], BOOLEAN)
  /\ DOMAIN disk = Logs
  /\ left \in Seq(Names) /\ failed \in Seq(Names)
  /\ phase \in {"makeit", "status", "success", "error"} => left # <<>>
  /\ Working => current_name \in Names /\ current_name \notin Made
  /\ WorksOnMade
  /\ stage # "idle" <=> phase = "makeit"
  /\ RecordAt
  /\ DependenciesMade

(***************************************************************************)
(* All that a step inside makeit does to the memory the invariant is about:*)
(* the first command follows the look at the dependencies, and only the    *)
(* end of the last stage sets an entry to True.                            *)
(***************************************************************************)
Resetting == {"success_log", "error_log"}

LEMMA MakeitStepEffect ==
  ASSUME MakeitStep
  PROVE  /\ Working
         /\ stage' # "idle"
         /\ current_name' = current_name
         /\ \/ /\ makeit_status' = makeit_status
               /\ stage' \in Quiet \/ stage \notin Quiet \/ DependenciesMet
            \/ /\ makeit_status' = Put(makeit_status, current_name, TRUE)
               /\ stage' = "returned" /\ stage \notin Quiet
         /\ ResetSuccess \/ ResetError \/ (stage \notin Resetting /\ stage' \notin Resetting)
<1> USE DEF Working, Skips, Passes, Fails, GoTo, ReturnFalse, Return, Quiet, Resetting
<1>a. CASE ResetSuccess \/ ResetError
  BY <1>a DEF ResetSuccess, ResetError
<1>b. CASE CheckDependencies
  BY <1>b DEF CheckDependencies
<1>1. CASE AptInstall
  BY <1>1 DEF AptInstall
<1>2. CASE PreCommands
  BY <1>2 DEF PreCommands, Commands, SourceStage
<1>3. CASE SourcePreCommands
  BY <1>3 DEF SourcePreCommands, Commands
<1>4. CASE GitFetch
  BY <1>4 DEF GitFetch
<1>5. CASE GitCheckout
  BY <1>5 DEF GitCheckout
<1>6. CASE PkgFetch
  BY <1>6 DEF PkgFetch
<1>7. CASE PkgUnpack
  BY <1>7 DEF PkgUnpack
<1>8. CASE ApplyPatch
  BY <1>8 DEF ApplyPatch
<1>9. CASE SourcePostCommands
  BY <1>9 DEF SourcePostCommands
<1>10. CASE MakePackage
  BY <1>10 DEF MakePackage, BuildStepPasses
<1>11. CASE Built
  BY <1>11 DEF Built
<1>12. CASE LdPath
  BY <1>12 DEF LdPath
<1>13. CASE PostCommands
  BY <1>13 DEF PostCommands
<1> QED
  BY <1>a, <1>b, <1>1, <1>2, <1>3, <1>4, <1>5, <1>6, <1>7, <1>8, <1>9, <1>10, <1>11, <1>12,
     <1>13 DEF MakeitStep

LEMMA IInvInit == Init => IInv
<1> SUFFICES ASSUME Init PROVE IInv
  OBVIOUS
<1>1. Made = {} /\ Recorded = {}
  BY MadeInEmpty DEF Init, Made, Recorded, Logs
<1>2. disk["status"] = EmptyDict /\ DOMAIN disk = Logs
  BY DEF Init, Logs
<1>3. IsDict(EmptyDict, BOOLEAN)
  BY DEF IsDict, EmptyDict
<1>4. makeit_status = EmptyDict /\ stage = "idle" /\ phase = "configs"
  BY DEF Init
<1>5. left = <<>> /\ failed = <<>>
  BY DEF Init
<1>6. RecordAt
  BY <1>1, <1>4 DEF Init, RecordAt
<1> QED
  BY <1>1, <1>2, <1>3, <1>4, <1>5, <1>6
     DEF IInv, Working, WorksOnMade, Quiet, DependenciesMade, Closed

(***************************************************************************)
(* A step inside makeit.                                                   *)
(***************************************************************************)
LEMMA IInvInMakeit == IInv /\ InMakeit => IInv'
<1> SUFFICES ASSUME IInv, InMakeit PROVE IInv'
  OBVIOUS
<1>1. /\ phase = "makeit" /\ phase' = "makeit" /\ disk' = disk /\ torn' = torn
      /\ left' = left /\ failed' = failed /\ Recorded' = Recorded
  BY DEF InMakeit, driver, Recorded
<1>2. /\ Working /\ stage' # "idle" /\ current_name' = current_name
      /\ current_name \in Names
      /\ current_name \notin Made
      /\ "status" \notin torn
      /\ Made = Recorded /\ Closed(Made)
  BY MakeitStepEffect, <1>1
     DEF InMakeit, IInv, RecordAt, Working, DependenciesMade
<1>3. CASE /\ makeit_status' = makeit_status
           /\ stage' \in Quiet \/ stage \notin Quiet \/ DependenciesMet
  <2>1. Made' = Made
    BY <1>3 DEF Made
  <2>2. WorksOnMade'
    BY <1>2, <1>3, <2>1 DEF IInv, WorksOnMade, DependenciesMet, Cfg
  <2>3. RecordAt'
    BY <1>1, <1>2, <2>1 DEF RecordAt
  <2> QED
    BY <1>1, <1>2, <1>3, <2>1, <2>2, <2>3 DEF IInv, Working, DependenciesMade, Closed
<1>4. CASE /\ makeit_status' = Put(makeit_status, current_name, TRUE)
           /\ stage' = "returned" /\ stage \notin Quiet
  <2>1. Made' = Made \cup {current_name}
    BY <1>4, MadePutTrue DEF Made
  <2>2. IsDict(makeit_status', BOOLEAN)
    BY <1>2, <1>4, PutIsDict DEF IInv
  <2>3. Closed(Made')
    BY <1>2, <1>4, <2>1 DEF IInv, WorksOnMade, Closed
  <2>4. RecordAt' /\ WorksOnMade'
    BY <1>1, <1>2, <1>4, <2>1 DEF RecordAt, WorksOnMade, Quiet
  <2> QED
    BY <1>1, <1>2, <1>4, <2>1, <2>2, <2>3, <2>4 DEF IInv, Working, DependenciesMade, Closed
<1> QED
  BY <1>3, <1>4, MakeitStepEffect DEF InMakeit

(***************************************************************************)
(* The call of makeit: a package that is not made gets the entry False,    *)
(* which leaves the set of made packages as it was.                        *)
(***************************************************************************)
LEMMA IInvCallMakeit == IInv /\ CallMakeit => IInv'
<1> SUFFICES ASSUME IInv, CallMakeit PROVE IInv'
  OBVIOUS
<1> USE DEF IInv, RecordAt, Working, WorksOnMade, Quiet, DependenciesMade, Closed
<1> DEFINE n == Head(left)
<1>1. n \in Names /\ left # <<>>
  BY DEF CallMakeit
<1>2. /\ phase = "deploy" /\ phase' = "makeit" /\ stage = "idle"
      /\ disk' = disk /\ torn' = torn /\ left' = left /\ failed' = failed
      /\ Recorded' = Recorded /\ Made = Recorded
  BY DEF CallMakeit, Recorded
<1>3. CASE CallMade(n)
  <2>1. /\ Made' = Made /\ makeit_status' = makeit_status
        /\ stage' = "returned" /\ current_name' = current_name
    BY <1>3 DEF CallMade, Return, Made, memory
  <2> QED
    BY <1>1, <1>2, <2>1
<1>4. CASE CallUnmade(n)
  <2>1. /\ n \notin Made /\ current_name' = n /\ stage' = "success_log"
        /\ makeit_status' = Put(makeit_status, n, FALSE)
    BY <1>4 DEF CallUnmade, Unmade, ResetStatus
  <2>2. Made' = Made
    BY <2>1, MadePutFalse DEF Made
  <2>3. IsDict(makeit_status', BOOLEAN)
    BY <1>1, <2>1, PutIsDict
  <2> QED
    BY <1>1, <1>2, <2>1, <2>2, <2>3
<1> QED
  BY <1>3, <1>4 DEF CallMakeit, Call

(***************************************************************************)
(* The other steps of the program: makeit is not running after them.       *)
(***************************************************************************)
Outside == \/ RunConfigs \/ Abort \/ Returns \/ OpenLog
           \/ SaveStatus \/ SaveSuccess \/ SaveError \/ EndRound

LEMMA IInvOutside == ASSUME IInv, Outside PROVE IInv'
<1> USE DEF IInv, RecordAt, Working, WorksOnMade, Quiet, DependenciesMade, Closed
<1>1. CASE RunConfigs
  <2>1. Made' = Made /\ Recorded' = Recorded /\ stage = "idle" /\ torn' = torn
    BY <1>1 DEF RunConfigs, memory, Made, Recorded
  <2>2. left' \in Seq(Names) /\ failed' \in Seq(Names)
    <3>1. CASE queue' \in Orders /\ left' = queue' /\ failed' = <<>>
      <4>1. queue' \in Seq(Names)
        BY <3>1, OrdersAssumption
      <4> QED
        BY <3>1, <4>1
    <3>2. CASE left' = left /\ failed' = failed
      BY <3>2
    <3> QED
      BY <1>1, <3>1, <3>2 DEF RunConfigs
  <2> QED
    BY <1>1, <2>1, <2>2 DEF RunConfigs, memory
<1>2. CASE Abort \/ Returns
  <2>1. /\ Made' = Made /\ Recorded' = Recorded /\ makeit_status' = makeit_status
        /\ disk' = disk /\ left' = left /\ failed' = failed /\ current_name' = current_name
        /\ torn' = torn /\ "status" \notin torn
        /\ stage' = "idle" /\ (phase' = "status" \/ (phase' = "aborted" /\ Made = Recorded))
        /\ Recorded \subseteq Made /\ Made \ Recorded \subseteq {current_name}
        /\ left # <<>>
    BY <1>2 DEF Abort, Returns, memory, Made, Recorded
  <2> QED
    BY <2>1
<1>o. CASE OpenLog
  <2>1. /\ Made' = Made /\ makeit_status' = makeit_status /\ stage' = stage
        /\ stage = "idle" /\ left' = left /\ failed' = failed /\ phase' = phase
        /\ phase \in Logs /\ left # <<>> /\ current_name' = current_name
    BY <1>o DEF OpenLog, memory, Made, Logs
  <2>2. CASE phase = "status"
    <3>1. disk'["status"] = EmptyDict /\ DOMAIN disk' = Logs
      BY <1>o, <2>2 DEF OpenLog, Logs
    <3>2. IsDict(disk'["status"], BOOLEAN) /\ Recorded' = {} /\ "status" \in torn'
      BY <1>o, <2>2, <3>1, MadeInEmpty DEF OpenLog, Recorded, IsDict, EmptyDict
    <3> QED
      BY <2>1, <2>2, <3>1, <3>2
  <2>3. CASE phase # "status"
    <3>1. disk'["status"] = disk["status"] /\ DOMAIN disk' = Logs
      BY <1>o, <2>3 DEF OpenLog, Logs
    <3>2. Recorded' = Recorded /\ "status" \notin torn' /\ "status" \notin torn
      BY <1>o, <2>1, <2>3, <3>1 DEF OpenLog, Recorded, Logs
    <3> QED
      BY <2>1, <2>3, <3>1, <3>2
  <2> QED
    BY <2>2, <2>3
<1>3. CASE SaveStatus
  <2>1. /\ Made' = Made /\ makeit_status' = makeit_status /\ stage' = stage
        /\ stage = "idle" /\ "status" \notin torn'
        /\ left' = left /\ failed' = failed /\ phase' = "success"
        /\ left # <<>>
    BY <1>3 DEF SaveStatus, Write, memory, Made
  <2>2. disk'["status"] = makeit_status /\ DOMAIN disk' = Logs
    BY <1>3 DEF SaveStatus, Write, Logs
  <2>3. Recorded' = Made
    BY <2>2 DEF Recorded, Made
  <2> QED
    BY <2>1, <2>2, <2>3
<1>4. CASE SaveSuccess \/ SaveError
  <2>1. /\ Made' = Made /\ makeit_status' = makeit_status /\ stage' = stage
        /\ stage = "idle" /\ phase' \in {"error", "deploy"} /\ Made = Recorded
        /\ "status" \notin torn /\ "status" \notin torn'
    BY <1>4 DEF SaveSuccess, SaveError, Write, memory, Made
  <2>2. /\ disk'["status"] = disk["status"] /\ DOMAIN disk' = Logs
        /\ Recorded' = Recorded
    BY <1>4 DEF SaveSuccess, SaveError, Write, Logs, Recorded
  <2>3. /\ left' \in Seq(Names) /\ failed' \in Seq(Names)
        /\ phase' = "error" => left' # <<>>
    <3>1. left # <<>> /\ Head(left) \in Names /\ Tail(left) \in Seq(Names)
      BY <1>4 DEF SaveSuccess, SaveError
    <3>2. CASE left' = left /\ failed' = failed
      BY <3>1, <3>2
    <3>3. CASE SaveError
      <4>1. failed' \in {failed, Append(failed, Head(left))}
        BY <3>3 DEF SaveError, StillFailed
      <4>2. Append(failed, Head(left)) \in Seq(Names)
        BY <3>1
      <4> QED
        BY <3>1, <3>3, <4>1, <4>2 DEF SaveError
    <3> QED
      BY <1>4, <3>2, <3>3 DEF SaveSuccess
  <2> QED
    BY <2>1, <2>2, <2>3
<1>5. CASE EndRound
  <2>1. /\ Made' = Made /\ Recorded' = Recorded /\ makeit_status' = makeit_status
        /\ disk' = disk /\ stage' = stage /\ stage = "idle" /\ Made = Recorded
        /\ torn' = torn /\ "status" \notin torn
        /\ phase' \in {"deploy", "done"} /\ left' \in Seq(Names) /\ failed' \in Seq(Names)
    BY <1>5 DEF EndRound, memory, Made, Recorded
  <2> QED
    BY <2>1
<1> QED
  BY <1>1, <1>2, <1>o, <1>3, <1>4, <1>5 DEF Outside

(***************************************************************************)
(* The program stops, and is started again.                                *)
(***************************************************************************)
LEMMA IInvStops == ASSUME IInv, Interrupt \/ Kill \/ Restart PROVE IInv'
<1> USE DEF IInv, RecordAt, Working, WorksOnMade, Quiet, DependenciesMade, Closed
<1>1. CASE Interrupt \/ Kill
  <2>1. /\ Made' = Made /\ makeit_status' = makeit_status /\ stage' = "idle"
        /\ current_name' = current_name
        /\ left' = left /\ failed' = failed /\ phase' \in {"interrupted", "killed"}
        /\ disk' = disk /\ torn' = torn /\ Recorded' = Recorded
    BY <1>1 DEF Interrupt, Kill, memory, Made, Recorded
  <2> QED
    BY <2>1
<1>2. CASE Restart
  <2>1. /\ makeit_status' = disk["status"] /\ disk' = disk /\ stage' = stage /\ torn' = {}
        /\ phase' = "configs" /\ left' = <<>> /\ failed' = <<>>
    BY <1>2 DEF Restart, Load
  <2>2. Made' = Recorded /\ Recorded' = Recorded
    BY <2>1 DEF Made, Recorded
  <2>3. stage = "idle"
    BY <1>2 DEF Restart, Alive
  <2> QED
    BY <2>1, <2>2, <2>3
<1> QED
  BY <1>1, <1>2

LEMMA IInvNext == IInv /\ [Next]_vars => IInv'
<1> SUFFICES ASSUME IInv, [Next]_vars PROVE IInv'
  OBVIOUS
<1>1. CASE Next
  BY <1>1, IInvInMakeit, IInvCallMakeit, IInvOutside, IInvStops
     DEF Next, Step, MakeitNext, Outside
<1>2. CASE UNCHANGED vars
  BY <1>2 DEF vars, memory, driver, IInv, RecordAt, Working, WorksOnMade, DependenciesMade,
             Closed, Made, Recorded
<1> QED
  BY <1>1, <1>2

LEMMA Invariance == Spec => []IInv
BY IInvInit, IInvNext, PTL DEF Spec

(***************************************************************************)
(* No package is ever made, in memory or on record, before what it depends *)
(* on, whatever the graph of dependencies and whatever fails when.         *)
(***************************************************************************)
THEOREM DependenciesMadeAlways == Spec => []DependenciesMade
<1>1. IInv => DependenciesMade
  BY DEF IInv
<1> QED
  BY <1>1, Invariance, PTL

(***************************************************************************)
(* A command of a package runs only on top of made dependencies, and never *)
(* for a package that is made.                                             *)
(***************************************************************************)
THEOREM WorksOnMadeAlways == Spec => []WorksOnMade
<1>1. IInv => WorksOnMade
  BY DEF IInv
<1> QED
  BY <1>1, Invariance, PTL

(***************************************************************************)
(* Wherever the program is stopped, by itself or from outside, its record  *)
(* lacks at most the package worked on last, but in the middle of a write  *)
(* of the status file, when there is none.                                 *)
(***************************************************************************)
THEOREM RecordIsCurrentAlways == Spec => []RecordIsCurrent
<1>1. IInv => RecordIsCurrent
  BY DEF IInv, RecordAt, RecordIsCurrent
<1> QED
  BY <1>1, Invariance, PTL
-----------------------------------------------------------------------------
(***************************************************************************)
(* What a step does to the two sets of the abstract installer.  Only the   *)
(* end of the last stage of a package makes it, only the save of the       *)
(* status file erases the record and writes it anew, and a stop leaves     *)
(* what is on record.                                                      *)
(***************************************************************************)
Kept == IF Alive THEN Made ELSE Recorded

Stays == Kept' = Kept /\ Recorded' = Recorded

Makes(n) == /\ n \in Names /\ n \notin Made /\ Config[n].dependencies \subseteq Made
            /\ Kept = Recorded /\ Kept' = Kept \cup {n} /\ Kept = Made
            /\ Recorded' = Recorded

Erases == /\ Kept = Made /\ Kept' = Made /\ Made' = Made
          /\ Recorded' = {} /\ Alive' /\ "status" \in torn'
          /\ Recorded \subseteq Made

Records == /\ Kept = Made /\ Kept' = Made /\ Recorded' = Made /\ Recorded \subseteq Made

Dies == /\ Kept' = Recorded /\ Recorded' = Recorded
        /\ ~Alive' /\ torn' = torn /\ stage' = "idle"

LEMMA StepInMakeit ==
  ASSUME IInv, InMakeit
  PROVE  Stays \/ Makes(current_name)
<1>1. /\ phase = "makeit" /\ phase' = "makeit" /\ Recorded' = Recorded
  BY DEF InMakeit, driver, Recorded
<1>2. /\ current_name \in Names /\ current_name \notin Made
      /\ stage \notin Quiet => Config[current_name].dependencies \subseteq Made
      /\ Made = Recorded
  BY MakeitStepEffect, <1>1 DEF InMakeit, IInv, RecordAt, Working, WorksOnMade
<1>3. Kept = Made /\ Kept' = Made'
  BY <1>1 DEF Kept, Alive
<1>4. CASE makeit_status' = makeit_status
  BY <1>1, <1>3, <1>4 DEF Stays, Made
<1>5. CASE makeit_status' = Put(makeit_status, current_name, TRUE) /\ stage \notin Quiet
  <2>1. Made' = Made \cup {current_name}
    BY <1>5, MadePutTrue DEF Made
  <2> QED
    BY <1>1, <1>2, <1>3, <1>5, <2>1 DEF Makes
<1> QED
  BY <1>4, <1>5, MakeitStepEffect DEF InMakeit

LEMMA StepCallMakeit ==
  ASSUME IInv, CallMakeit
  PROVE  Stays
<1> DEFINE n == Head(left)
<1>1. phase = "deploy" /\ phase' = "makeit" /\ Recorded' = Recorded
  BY DEF CallMakeit, Recorded
<1>2. CASE CallMade(n)
  <2>1. Made' = Made
    BY <1>2 DEF CallMade, memory, Made
  <2> QED
    BY <1>1, <2>1 DEF Stays, Kept, Alive
<1>3. CASE CallUnmade(n)
  <2>1. n \notin Made /\ makeit_status' = Put(makeit_status, n, FALSE)
    BY <1>3 DEF CallUnmade, Unmade, ResetStatus
  <2>2. Made' = Made
    BY <2>1, MadePutFalse DEF Made
  <2> QED
    BY <1>1, <2>2 DEF Stays, Kept, Alive
<1> QED
  BY <1>2, <1>3 DEF CallMakeit, Call

LEMMA StepOutside == ASSUME IInv, Outside PROVE Stays \/ Erases \/ Records
<1>1. Made' = Made
  BY DEF Outside, RunConfigs, Abort, Returns, OpenLog, SaveStatus, SaveSuccess, SaveError,
         EndRound, memory, Made
<1>2. CASE RunConfigs \/ Abort \/ Returns \/ EndRound
  <2>1. Recorded' = Recorded
    BY <1>2 DEF RunConfigs, Abort, Returns, EndRound, Recorded
  <2>2. Kept = Made /\ (Alive' \/ Made = Recorded)
    BY <1>2 DEF RunConfigs, Abort, Returns, EndRound, IInv, RecordAt, Kept, Alive, Logs
  <2>3. Kept' = Kept
    BY <1>1, <2>1, <2>2 DEF Kept
  <2> QED
    BY <2>1, <2>3 DEF Stays
<1>3. CASE SaveStatus
  <2>1. phase = "status" /\ phase' = "success" /\ Recorded \subseteq Made
    BY <1>3 DEF SaveStatus, IInv, RecordAt
  <2>2. disk'["status"] = makeit_status
    BY <1>3 DEF SaveStatus, Write, IInv, Logs
  <2>3. Recorded' = Made
    BY <2>2 DEF Recorded, Made
  <2>4. Kept = Made /\ Kept' = Made
    BY <1>1, <2>1 DEF Kept, Alive, Logs
  <2> QED
    BY <2>1, <2>3, <2>4 DEF Records
<1>4. CASE \/ SaveSuccess \/ SaveError
           \/ OpenLog /\ phase # "status"
  <2>1. phase \in Logs /\ phase' \in {"success", "error", "deploy"}
    BY <1>4 DEF SaveSuccess, SaveError, OpenLog, Logs
  <2>2. disk'["status"] = disk["status"]
    BY <1>4 DEF SaveSuccess, SaveError, OpenLog, Write, IInv, Logs
  <2>3. Recorded' = Recorded /\ Kept' = Kept
    BY <1>1, <2>1, <2>2 DEF Recorded, Kept, Alive, Logs
  <2> QED
    BY <2>3 DEF Stays
<1>5. CASE OpenLog /\ phase = "status"
  <2>1. /\ phase' = "status" /\ "status" \notin torn /\ "status" \in torn'
        /\ disk'["status"] = EmptyDict
    BY <1>5 DEF OpenLog, IInv, Logs
  <2>2. Recorded' = {} /\ Recorded \subseteq Made
    BY <2>1, MadeInEmpty DEF Recorded, IInv, RecordAt
  <2>3. Kept = Made /\ Kept' = Made /\ Alive'
    BY <1>1, <1>5, <2>1 DEF Kept, Alive, Logs
  <2> QED
    BY <1>1, <2>1, <2>2, <2>3 DEF Erases
<1> QED
  BY <1>2, <1>3, <1>4, <1>5 DEF Outside

LEMMA StepStops == ASSUME IInv, Interrupt \/ Kill \/ Restart PROVE Stays \/ Dies
<1>1. CASE Interrupt \/ Kill
  <2>1. /\ phase' \in {"interrupted", "killed"} /\ stage' = "idle" /\ torn' = torn
        /\ Recorded' = Recorded
    BY <1>1 DEF Interrupt, Kill, Recorded
  <2> QED
    BY <2>1 DEF Dies, Kept, Alive, Logs
<1>2. CASE Restart
  <2>1. ~Alive /\ Alive' /\ makeit_status' = disk["status"] /\ disk' = disk
    BY <1>2 DEF Restart, Load, Alive
  <2> QED
    BY <2>1 DEF Stays, Kept, Made, Recorded
<1> QED
  BY <1>1, <1>2

LEMMA StepEffect ==
  ASSUME IInv, [Next]_vars
  PROVE  Stays \/ Makes(current_name) \/ Erases \/ Records \/ Dies
<1>1. CASE Next
  BY <1>1, StepInMakeit, StepCallMakeit, StepOutside, StepStops
     DEF Next, Step, MakeitNext, Outside
<1>2. CASE UNCHANGED vars
  BY <1>2 DEF vars, memory, driver, Stays, Kept, Alive, Made, Recorded
<1> QED
  BY <1>1, <1>2

(***************************************************************************)
(* A step that forgets nothing and works on nothing that is on record.     *)
(* While the file is rewritten, what is on its way there is Made, and no   *)
(* step but the write and a stop ends that.                                *)
(***************************************************************************)
LEMMA NothingForgotten ==
  ASSUME IInv, IInv', [Next]_vars
  PROVE  /\ OnRecord \subseteq OnRecord' \/ (~Alive' /\ "status" \in torn')
         /\ stage' = "apt" => current_name' \notin OnRecord
<1>1. Recorded' \subseteq OnRecord'
  BY DEF OnRecord, IInv, RecordAt
<1>2. OnRecord \subseteq OnRecord' \/ (~Alive' /\ "status" \in torn')
  <2>1. CASE Alive /\ "status" \in torn
    <3>1. OnRecord = Made /\ phase = "status"
      BY <2>1 DEF OnRecord, IInv, RecordAt, Alive, Logs
    <3>2. CASE SaveStatus
      <4>1. disk'["status"] = makeit_status
        BY <3>2 DEF SaveStatus, Write, IInv, Logs
      <4>2. Recorded' = Made
        BY <4>1 DEF Recorded, Made
      <4> QED
        BY <1>1, <3>1, <4>2
    <3>3. CASE Interrupt \/ Kill
      BY <2>1, <3>3 DEF Interrupt, Kill, Alive, Logs
    <3>4. CASE UNCHANGED vars
      BY <3>4 DEF vars, memory, driver, OnRecord, Alive, Made, Recorded
    <3> QED
      BY <2>1, <3>1, <3>2, <3>3, <3>4
         DEF Next, Step, MakeitNext, RunConfigs, CallMakeit, InMakeit, Abort, Returns, OpenLog,
             SaveSuccess, SaveError, EndRound, Restart
  <2>2. CASE ~(Alive /\ "status" \in torn)
    <3>1. OnRecord = Recorded
      BY <2>2 DEF OnRecord
    <3>2. CASE Stays \/ Makes(current_name) \/ Records \/ Dies
      BY <1>1, <3>1, <3>2 DEF Stays, Makes, Records, Dies
    <3>3. CASE Erases
      BY <3>1, <3>3 DEF Erases, OnRecord
    <3> QED
      BY <3>2, <3>3, StepEffect
  <2> QED
    BY <2>1, <2>2
<1>3. ASSUME stage' = "apt" PROVE current_name' \notin OnRecord
  <2>1. phase' = "makeit" /\ current_name' \notin Made'
    BY <1>3 DEF IInv, WorksOnMade, Quiet
  <2>2. Recorded' \subseteq Made' /\ OnRecord' = Recorded'
    BY <2>1 DEF IInv, RecordAt, OnRecord
  <2> QED
    BY <1>2, <2>1, <2>2 DEF Alive
<1> QED
  BY <1>2, <1>3

(***************************************************************************)
(* Whatever fails and however often the program is started again, a        *)
(* package on record is not lost and not worked on again, but for a stop   *)
(* in the middle of the write of the status file.                          *)
(***************************************************************************)
THEOREM NeverForgottenAlways == Spec => NeverForgotten
<1>1. IInv /\ IInv' /\ [Next]_vars =>
        [/\ OnRecord \subseteq OnRecord' \/ (~Alive' /\ "status" \in torn')
         /\ stage' = "apt" => current_name' \notin OnRecord]_vars
  BY NothingForgotten
<1> QED
  BY <1>1, Invariance, PTL DEF Spec, NeverForgotten

(***************************************************************************)
(* The refinement: the initial states are the abstract one, and a step is  *)
(* the end of a package, the erasure of the record or its rewriting, the   *)
(* death of the installer, or one the abstract installer does not see.     *)
(***************************************************************************)
LEMMA OrderInit == Init => Order!Init
<1> SUFFICES ASSUME Init PROVE Order!Init
  OBVIOUS
<1>1. makeit_status = EmptyDict /\ disk["status"] = EmptyDict
  BY DEF Init, Logs
<1>2. Made = {} /\ Recorded = {}
  BY <1>1, MadeInEmpty DEF Made, Recorded
<1> QED
  BY <1>2 DEF Order!Init

LEMMA OrderStep == IInv /\ [Next]_vars => [Order!Next]_(Order!vars)
<1> SUFFICES ASSUME IInv, [Next]_vars PROVE [Order!Next]_(Order!vars)
  OBVIOUS
<1>1. CASE Stays
  BY <1>1 DEF Stays, Kept, Order!vars
<1>2. CASE Makes(current_name)
  <2>1. Order!Make(current_name)
    BY <1>2 DEF Makes, Kept, Order!Make
  <2> QED
    BY <1>2, <2>1 DEF Makes, Order!Next
<1>3. CASE Records
  BY <1>3 DEF Records, Kept, Order!Record, Order!Next
<1>5. CASE Erases
  BY <1>5 DEF Erases, Kept, Order!Erase, Order!Next
<1>4. CASE Dies
  BY <1>4 DEF Dies, Kept, Order!Die, Order!Next
<1> QED
  BY <1>1, <1>2, <1>3, <1>4, <1>5, StepEffect

(***************************************************************************)
(* The program implements the abstract installer, through every failure,   *)
(* interrupt, crash, torn file and restart.                                *)
(***************************************************************************)
THEOREM ImplementsOrderAlways == Spec => ImplementsOrder
BY OrderInit, OrderStep, Invariance, PTL DEF Spec, ImplementsOrder, Order!Spec
-----------------------------------------------------------------------------
(***************************************************************************)
(* The types of the state, and that the logs have an entry to append to    *)
(* whenever a command runs.                                                *)
(***************************************************************************)
OwnTrees == {"as left by the user", "stashed"}

(***************************************************************************)
(* What makeit changes, with the package it works on.                      *)
(***************************************************************************)
MakeitTypes ==
  /\ IsDict(makeit_status, BOOLEAN)
  /\ IsDict(success_log, SUBSET LogEntries) /\ IsDict(error_log, SUBSET LogEntries)
  /\ current_name \in Names \cup {NoName}
  /\ apt_updated \in BOOLEAN /\ result \in BOOLEAN
  /\ stage \in Stages /\ todo \in Seq(BuildCommands)
  /\ tree \in [Names -> Trees] /\ file \in SUBSET Names /\ own_tree \in OwnTrees

HasEntries ==
  Working => /\ current_name \in Names
             /\ stage # "success_log" => current_name \in DOMAIN success_log
             /\ stage \notin Resetting => current_name \in DOMAIN error_log

(***************************************************************************)
(* A log that is appended to keeps its type and its keys.                  *)
(***************************************************************************)
Appended(d, e) ==
  \/ e = d
  \/ \E S \in SUBSET LogEntries : e = Put(d, current_name, d[current_name] \cup S)

LEMMA AppendedIsDict ==
  ASSUME NEW d, NEW e, IsDict(d, SUBSET LogEntries), current_name \in Names,
         current_name \in DOMAIN d, Appended(d, e)
  PROVE  IsDict(e, SUBSET LogEntries) /\ current_name \in DOMAIN e
<1>1. CASE e = d BY <1>1
<1>2. ASSUME NEW S \in SUBSET LogEntries, e = Put(d, current_name, d[current_name] \cup S)
      PROVE  IsDict(e, SUBSET LogEntries) /\ current_name \in DOMAIN e
  <2>1. d[current_name] \cup S \in SUBSET LogEntries BY DEF IsDict
  <2>2. current_name \in DOMAIN e BY <1>2 DEF Put
  <2> QED BY <1>2, <2>1, <2>2, PutIsDict
<1> QED BY <1>1, <1>2 DEF Appended

(***************************************************************************)
(* Every step inside makeit appends to the logs and moves within the types.*)
(***************************************************************************)
LogsGrow == Appended(success_log, success_log') /\ Appended(error_log, error_log')

LEMMA StageLogs ==
  ASSUME NEW S \in SUBSET LogEntries, NEW next
  PROVE  /\ Passes(S, next) => LogsGrow
         /\ Fails(S) => LogsGrow
         /\ Skips(next) => LogsGrow
         /\ LogError(S) => Appended(error_log, error_log')
         /\ LogSuccess(S) => Appended(success_log, success_log')
BY DEF Passes, Fails, Skips, LogsGrow, LogError, LogSuccess, Appended

NewRest ==
  /\ apt_updated' \in BOOLEAN /\ result' \in BOOLEAN
  /\ stage' \in Stages /\ todo' \in Seq(BuildCommands)
  /\ tree' \in [Names -> Trees] /\ file' \in SUBSET Names /\ own_tree' \in OwnTrees

LEMMA StepValues ==
  ASSUME MakeitTypes, HasEntries, MakeitStep
  PROVE  NewRest /\ (ResetSuccess \/ ResetError \/ LogsGrow)
<1> USE DEF MakeitTypes, NewRest, Stages, GoTo, Return, ReturnFalse, world
<1>0. current_name \in Names BY MakeitStepEffect DEF HasEntries
<1>1. Cfg \in Configuration BY <1>0, ConfigAssumption DEF Cfg
<1>2. \A t \in Trees : [tree EXCEPT ![current_name] = t] \in [Names -> Trees]
  BY <1>0
<1>a. <<>> \in Seq(BuildCommands)
  OBVIOUS
<1> USE <1>a
<1>3. \A next : Skips(next) => LogsGrow
  BY DEF Skips, LogsGrow, Appended
<1>r. CASE ResetSuccess \/ ResetError
  BY <1>r DEF ResetSuccess, ResetError
<1>d. CASE CheckDependencies
  <2>1. LogsGrow
    BY <1>d, StageLogs, {"dependency"} \in SUBSET LogEntries DEF CheckDependencies, LogEntries
  <2> QED BY <1>d, <2>1 DEF CheckDependencies, Skips, Fails
<1>4. CASE AptInstall
  <2>1. LogsGrow
    BY <1>4, StageLogs, {"apt"} \in SUBSET LogEntries DEF AptInstall, LogEntries
  <2> QED BY <1>4, <2>1 DEF AptInstall, Skips, Passes, Fails
<1>5. CASE PreCommands
  <2>1. LogsGrow BY <1>5, StageLogs, {"precmds"} \in SUBSET LogEntries
    DEF PreCommands, Commands, LogEntries
  <2> QED BY <1>5, <2>1 DEF PreCommands, Commands, SourceStage, Skips, Passes, Fails
<1>6. CASE SourcePreCommands
  <2>1. LogsGrow BY <1>6, StageLogs, {"srcprecmds"} \in SUBSET LogEntries
    DEF SourcePreCommands, Commands, LogEntries
  <2> QED BY <1>6, <2>1 DEF SourcePreCommands, Commands, Skips, Passes, Fails
<1>7. CASE GitFetch
  <2>1. LogsGrow BY <1>3, <1>7 DEF GitFetch
  <2>2. tree' \in [Names -> Trees] BY <1>2, <1>7 DEF GitFetch, Trees
  <2> QED BY <1>7, <2>1, <2>2 DEF GitFetch, Skips
<1>8. CASE PkgFetch
  <2>1. LogsGrow BY <1>3, <1>8 DEF PkgFetch, LogsGrow, Appended
  <2> QED BY <1>0, <1>8, <2>1 DEF PkgFetch, Skips
<1>9. CASE PkgUnpack
  <2>1. LogsGrow
    BY <1>9, StageLogs, {"dpkg"} \in SUBSET LogEntries DEF PkgUnpack, LogEntries
  <2>2. tree' \in [Names -> Trees] BY <1>2, <1>9 DEF PkgUnpack, Trees
  <2> QED BY <1>9, <2>1, <2>2 DEF PkgUnpack, Skips, Passes, Fails
<1>10. CASE ApplyPatch
  <2>1. LogsGrow
    BY <1>10, StageLogs, {"patch"} \in SUBSET LogEntries DEF ApplyPatch, LogEntries
  <2>2. tree' \in [Names -> Trees] BY <1>2, <1>10 DEF ApplyPatch, Trees
  <2> QED BY <1>10, <2>1, <2>2 DEF ApplyPatch, Skips, Passes, Fails
<1>11. CASE SourcePostCommands
  <2>1. LogsGrow
    BY <1>11, StageLogs, {"srcpostcmds"} \in SUBSET LogEntries
       DEF SourcePostCommands, LogEntries, LogsGrow, Appended
  <2> QED BY <1>1, <1>11, <2>1 DEF SourcePostCommands, Fails, Configuration
<1>12. CASE Built \/ LdPath
  <2>1. LogsGrow BY <1>3, <1>12 DEF Built, LdPath
  <2> QED BY <1>12, <2>1 DEF Built, LdPath, Skips
<1>13. CASE PostCommands
  <2>1. LogsGrow
    BY <1>13, StageLogs, {"postcmds"} \in SUBSET LogEntries
       DEF PostCommands, LogEntries, LogsGrow, Appended
  <2> QED BY <1>13, <2>1 DEF PostCommands, Fails
<1>14. CASE MakePackage
  <2>1. Head(todo) \in BuildCommands /\ Tail(todo) \in Seq(BuildCommands)
    BY <1>14 DEF MakePackage
  <2>2. {Head(todo)} \in SUBSET LogEntries BY <2>1 DEF LogEntries
  <2>3. LogsGrow
    BY <1>14, <2>2, StageLogs DEF MakePackage, BuildStepPasses, LogsGrow, Appended
  <2>4. tree' \in [Names -> Trees] BY <1>2, <1>14 DEF MakePackage, Trees
  <2> QED BY <1>14, <2>1, <2>3, <2>4 DEF MakePackage, BuildStepPasses, Fails
<1>15. CASE GitCheckout
  <2>1. \A S \in SUBSET {"checkout", "stash"} : S \in SUBSET LogEntries BY DEF LogEntries
  <2>2. LogsGrow
    BY <1>15, <2>1, StageLogs DEF GitCheckout, LogsGrow
  <2>3. tree' \in [Names -> Trees] BY <1>2, <1>15 DEF GitCheckout, GitStash, Trees
  <2>4. own_tree' \in OwnTrees BY <1>15 DEF GitCheckout, GitStash, OwnTrees
  <2> QED BY <1>15, <2>2, <2>3, <2>4 DEF GitCheckout, Skips, Passes, Fails
<1> QED BY <1>r, <1>d, <1>4, <1>5, <1>6, <1>7, <1>8, <1>9, <1>10, <1>11, <1>12, <1>13, <1>14,
           <1>15 DEF MakeitStep

(***************************************************************************)
(* The rest of the state, and the invariant.                               *)
(***************************************************************************)
DriverTypes ==
  /\ phase \in Phases
  /\ queue \in Seq(Names) /\ left \in Seq(Names) /\ failed \in Seq(Names)
  /\ queue_size \in Nat /\ failed_size \in Nat /\ runs \in Nat

DiskTypes ==
  /\ DOMAIN disk = Logs /\ torn \subseteq Logs
  /\ IsDict(disk["status"], BOOLEAN)
  /\ IsDict(disk["success"], SUBSET LogEntries)
  /\ IsDict(disk["error"], SUBSET LogEntries)

TInv == IInv /\ MakeitTypes /\ HasEntries /\ DriverTypes /\ DiskTypes

LEMMA EmptyIsDict == ASSUME NEW S PROVE IsDict(EmptyDict, S)
BY DEF IsDict, EmptyDict

LEMMA TInvInit == Init => TInv
<1> SUFFICES ASSUME Init PROVE TInv
  OBVIOUS
<1>1. IInv BY IInvInit
<1>2. MakeitTypes
  <2>1. tree \in [Names -> Trees] /\ file \in SUBSET Names
    BY WorldsAssumption DEF Init, Trees
  <2>2. <<>> \in Seq(BuildCommands) OBVIOUS
  <2> QED BY <2>1, <2>2, EmptyIsDict DEF Init, MakeitTypes, Stages, OwnTrees
<1>3. HasEntries BY DEF Init, HasEntries, Working
<1>4. DriverTypes
  <2>1. <<>> \in Seq(Names) OBVIOUS
  <2>2. runs \in Nat /\ queue_size \in Nat /\ failed_size \in Nat BY DEF Init
  <2> QED BY <2>1, <2>2 DEF Init, DriverTypes, Phases
<1>5. DiskTypes
  <2>1. \A f \in Logs : disk[f] = EmptyDict BY DEF Init
  <2>2. {"status", "success", "error"} = Logs BY DEF Logs
  <2> QED BY <2>1, <2>2, EmptyIsDict DEF Init, DiskTypes
<1> QED BY <1>1, <1>2, <1>3, <1>4, <1>5 DEF TInv

(***************************************************************************)
(* A step inside makeit, and its call.                                     *)
(***************************************************************************)
LEMMA TInMakeit ==
  ASSUME TInv, InMakeit
  PROVE  MakeitTypes' /\ HasEntries' /\ DriverTypes' /\ DiskTypes'
<1> USE DEF TInv
<1>1. MakeitStep /\ UNCHANGED driver BY DEF InMakeit
<1>2. NewRest /\ (ResetSuccess \/ ResetError \/ LogsGrow) BY <1>1, StepValues
<1>3. current_name' = current_name /\ current_name \in Names /\ Working
  BY <1>1, MakeitStepEffect DEF HasEntries
<1>4. /\ IsDict(success_log', SUBSET LogEntries) /\ IsDict(error_log', SUBSET LogEntries)
      /\ HasEntries'
  <2>1. CASE ResetSuccess
    <3>1. success_log' = Put(success_log, current_name, {}) /\ error_log' = error_log
      BY <2>1 DEF ResetSuccess
    <3>2. current_name \in DOMAIN success_log' BY <3>1 DEF Put
    <3>3. stage' = "error_log" BY <2>1 DEF ResetSuccess, GoTo
    <3>4. IsDict(success_log', SUBSET LogEntries) BY <1>3, <3>1, PutIsDict DEF MakeitTypes
    <3> QED BY <1>3, <3>1, <3>2, <3>3, <3>4 DEF HasEntries, Resetting, MakeitTypes
  <2>2. CASE ResetError
    <3>1. error_log' = Put(error_log, current_name, {}) /\ success_log' = success_log
      BY <2>2 DEF ResetError
    <3>2. current_name \in DOMAIN error_log' BY <3>1 DEF Put
    <3>3. current_name \in DOMAIN success_log' BY <1>3, <2>2, <3>1 DEF ResetError, HasEntries
    <3>4. IsDict(error_log', SUBSET LogEntries) BY <1>3, <3>1, PutIsDict DEF MakeitTypes
    <3> QED BY <1>3, <3>1, <3>2, <3>3, <3>4 DEF HasEntries, MakeitTypes
  <2>3. CASE LogsGrow /\ stage \notin Resetting
    <3>1. current_name \in DOMAIN success_log /\ current_name \in DOMAIN error_log
      BY <1>3, <2>3 DEF HasEntries, Resetting
    <3>2. /\ IsDict(success_log', SUBSET LogEntries) /\ current_name \in DOMAIN success_log'
          /\ IsDict(error_log', SUBSET LogEntries) /\ current_name \in DOMAIN error_log'
      BY <1>3, <2>3, <3>1, AppendedIsDict DEF LogsGrow, MakeitTypes
    <3> QED BY <1>3, <3>2 DEF HasEntries
  <2> QED BY <1>1, <1>2, <2>1, <2>2, <2>3, MakeitStepEffect
<1>5. IsDict(makeit_status', BOOLEAN)
  <2>1. IsDict(makeit_status, BOOLEAN)
    BY DEF MakeitTypes
  <2>2. CASE makeit_status' = makeit_status
    BY <2>1, <2>2
  <2>3. CASE makeit_status' = Put(makeit_status, current_name, TRUE)
    BY <1>3, <2>1, <2>3, PutIsDict
  <2> HIDE DEF TInv
  <2> QED BY <1>1, <2>2, <2>3, MakeitStepEffect
<1>6. MakeitTypes'
  <2>1. /\ apt_updated' \in BOOLEAN /\ result' \in BOOLEAN
        /\ stage' \in Stages /\ todo' \in Seq(BuildCommands)
        /\ tree' \in [Names -> Trees] /\ file' \in SUBSET Names /\ own_tree' \in OwnTrees
    BY <1>2 DEF NewRest
  <2>2. current_name' \in Names \cup {NoName}
    BY <1>3
  <2> HIDE DEF TInv
  <2> QED BY <1>4, <1>5, <2>1, <2>2 DEF MakeitTypes
<1>7. DriverTypes' /\ DiskTypes' BY <1>1 DEF driver, DriverTypes, DiskTypes
<1> QED BY <1>4, <1>6, <1>7

LEMMA TCall ==
  ASSUME TInv, CallMakeit
  PROVE  MakeitTypes' /\ HasEntries' /\ DriverTypes' /\ DiskTypes'
<1> USE DEF TInv
<1> DEFINE n == Head(left)
<1>1. n \in Names BY DEF CallMakeit, DriverTypes
<1>2. DriverTypes' /\ DiskTypes'
  BY DEF CallMakeit, DriverTypes, DiskTypes, Phases
<1>3. <<>> \in Seq(BuildCommands) OBVIOUS
<1>4. CASE CallMade(n)
  <2>1. stage' = "returned" /\ result' = TRUE /\ todo' = <<>> /\ UNCHANGED <<memory, world>>
    BY <1>4 DEF CallMade, Return
  <2> QED BY <1>2, <1>3, <2>1 DEF memory, world, MakeitTypes, HasEntries, Working, Stages
<1>5. CASE CallUnmade(n)
  <2>1. /\ current_name' = n /\ stage' = "success_log"
        /\ makeit_status' = Put(makeit_status, n, FALSE)
        /\ UNCHANGED <<success_log, error_log, apt_updated, todo, result, world>>
    BY <1>5 DEF CallUnmade, ResetStatus
  <2>2. IsDict(makeit_status', BOOLEAN) BY <1>1, <2>1, PutIsDict DEF MakeitTypes
  <2> QED BY <1>1, <1>2, <2>1, <2>2 DEF MakeitTypes, HasEntries, Resetting, Stages, world
<1> QED BY <1>4, <1>5 DEF CallMakeit, Call

(***************************************************************************)
(* The other steps of the program, and those that stop and start it.       *)
(***************************************************************************)
LEMMA TOutside ==
  ASSUME TInv, Outside
  PROVE  MakeitTypes' /\ HasEntries' /\ DriverTypes' /\ DiskTypes'
<1> USE DEF TInv
<1>1. /\ UNCHANGED <<memory, todo, result, world>> /\ runs' = runs
      /\ stage' = stage \/ stage' = "idle"
  BY DEF Outside, RunConfigs, Abort, Returns, OpenLog, SaveStatus, SaveSuccess, SaveError,
         EndRound
<1>2. MakeitTypes' /\ HasEntries'
  BY <1>1 DEF memory, world, MakeitTypes, HasEntries, Working, Stages
<1>3. DriverTypes'
  <2> USE DEF DriverTypes, Phases
  <2>1. CASE RunConfigs
    <3>1. queue' \in Seq(Names) /\ left' \in Seq(Names)
      BY <2>1, OrdersAssumption DEF RunConfigs
    <3>2. queue_size' \in Nat BY <2>1, <3>1, OrdersAssumption DEF RunConfigs
    <3>3. <<>> \in Seq(Names) OBVIOUS
    <3>4. failed' \in {<<>>, failed} /\ failed_size' \in {0, failed_size}
      BY <2>1 DEF RunConfigs
    <3>5. failed' \in Seq(Names) BY <3>3, <3>4
    <3>6. failed_size' \in Nat BY <3>4
    <3> QED BY <1>1, <2>1, <3>1, <3>2, <3>5, <3>6 DEF RunConfigs
  <2>2. CASE Abort \/ Returns \/ OpenLog \/ SaveStatus \/ SaveSuccess
    BY <1>1, <2>2 DEF Abort, Returns, OpenLog, SaveStatus, SaveSuccess
  <2>3. CASE SaveError
    <3>1. left # <<>> BY <2>3 DEF IInv, SaveError
    <3>2. Head(left) \in Names /\ Tail(left) \in Seq(Names) BY <3>1
    <3>3. Append(failed, Head(left)) \in Seq(Names) BY <3>2
    <3> QED BY <1>1, <2>3, <3>2, <3>3 DEF SaveError, StillFailed
  <2>4. CASE EndRound
    <3>1. Len(failed) \in Nat /\ <<>> \in Seq(Names) OBVIOUS
    <3> QED BY <1>1, <2>4, <3>1 DEF EndRound
  <2> QED BY <2>1, <2>2, <2>3, <2>4 DEF Outside
<1>4. DiskTypes'
  <2> USE DEF DiskTypes
  <2>1. CASE RunConfigs \/ Abort \/ Returns \/ EndRound
    BY <2>1 DEF RunConfigs, Abort, Returns, EndRound
  <2>2. ASSUME NEW f \in Logs, NEW d, Write(f, d),
               f = "status" => IsDict(d, BOOLEAN),
               f # "status" => IsDict(d, SUBSET LogEntries)
        PROVE  DiskTypes'
    <3>1. disk' = [disk EXCEPT ![f] = d] /\ torn' = torn \ {f} BY <2>2 DEF Write
    <3>2. \A g \in Logs : disk'[g] = IF g = f THEN d ELSE disk[g] BY <3>1
    <3>3. {"status", "success", "error"} = Logs BY DEF Logs
    <3> QED BY <2>2, <3>1, <3>2, <3>3
  <2>o. CASE OpenLog
    <3>1. phase \in Logs /\ disk' = [disk EXCEPT ![phase] = EmptyDict] /\ torn' = torn \cup {phase}
      BY <2>o DEF OpenLog
    <3>2. \A g \in Logs : disk'[g] = IF g = phase THEN EmptyDict ELSE disk[g] BY <3>1
    <3>3. {"status", "success", "error"} = Logs BY DEF Logs
    <3> QED BY <3>1, <3>2, <3>3, EmptyIsDict
  <2>3. CASE SaveStatus BY <2>2, <2>3 DEF SaveStatus, MakeitTypes, Logs
  <2>4. CASE SaveSuccess BY <2>2, <2>4 DEF SaveSuccess, MakeitTypes, Logs
  <2>5. CASE SaveError BY <2>2, <2>5 DEF SaveError, MakeitTypes, Logs
  <2> QED BY <2>1, <2>o, <2>3, <2>4, <2>5 DEF Outside
<1> QED BY <1>2, <1>3, <1>4

LEMMA TStops ==
  ASSUME TInv, Interrupt \/ Kill \/ Restart
  PROVE  MakeitTypes' /\ HasEntries' /\ DriverTypes' /\ DiskTypes'
<1> USE DEF TInv
<1>1. CASE Interrupt \/ Kill
  <2>1. /\ UNCHANGED <<memory, todo, result, queue, left, queue_size, failed_size, failed, runs>>
        /\ UNCHANGED <<disk, torn>> /\ Damage /\ stage' = "idle" /\ phase' \in Phases
    BY <1>1 DEF Interrupt, Kill, Phases
  <2>2. tree' \in [Names -> Trees] /\ UNCHANGED <<file, own_tree>>
    BY <2>1 DEF Damage, CutShort, world, MakeitTypes, Trees
  <2>3. MakeitTypes' /\ HasEntries'
    BY <2>1, <2>2 DEF memory, MakeitTypes, HasEntries, Working, Stages
  <2>4. DriverTypes' BY <2>1 DEF DriverTypes
  <2>5. DiskTypes' BY <2>1 DEF DiskTypes
  <2> QED BY <2>3, <2>4, <2>5
<1>2. CASE Restart
  <2>1. <<>> \in Seq(BuildCommands) /\ <<>> \in Seq(Names) OBVIOUS
  <2>2. MakeitTypes'
    BY <1>2, <2>1 DEF Restart, Load, MakeitTypes, DiskTypes, world
  <2>3. ~Working' BY <1>2 DEF Restart, Alive, IInv, Working
  <2>4. DriverTypes' /\ DiskTypes'
    BY <1>2, <2>1 DEF Restart, DriverTypes, DiskTypes, Phases
  <2> QED BY <2>2, <2>3, <2>4 DEF HasEntries
<1> QED BY <1>1, <1>2

LEMMA TInvNext == TInv /\ [Next]_vars => TInv'
<1> SUFFICES ASSUME TInv, [Next]_vars PROVE TInv'
  OBVIOUS
<1>1. IInv' BY IInvNext DEF TInv
<1>2. CASE UNCHANGED vars
  BY <1>1, <1>2 DEF vars, memory, world, driver, TInv, MakeitTypes, HasEntries, Working,
                    DriverTypes, DiskTypes
<1>3. CASE Next
  BY <1>1, <1>3, TInMakeit, TCall, TOutside, TStops DEF Next, Step, MakeitNext, Outside, TInv
<1> QED BY <1>2, <1>3

(***************************************************************************)
(* The state keeps its types, through failures, crashes and restarts.      *)
(***************************************************************************)
THEOREM TypeOKAlways == Spec => []TypeOK
<1>1. TInv => TypeOK
  BY DEF TInv, TypeOK, MakeitTypes, DriverTypes, DiskTypes, OwnTrees
<1> QED BY <1>1, TInvInit, TInvNext, PTL DEF Spec
=============================================================================
