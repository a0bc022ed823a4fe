------------------------------- MODULE Inspection -------------------------------
(***************************************************************************)
(* mypower as an inspector of memory: the pointer search, the data view    *)
(* and the region list under the commands of App.  One thread runs the     *)
(* commands and reads the keys: no command starts while another runs or    *)
(* while a view is being read.  The processes run all the time.            *)
(***************************************************************************)
EXTENDS PointerSearch, DataView, MemoryMap

CONSTANT MaxSearches   \* bound on the pointer searches

ASSUME InspectionAssumption == RegionList # Data

VARIABLE searches      \* how many searches were started

inspectionVars ==
  <<vars, crashed, targetVars, searchVars, viewVars, listed, searches>>

InspectionInit ==
  /\ Init /\ TargetInit /\ SearchInit /\ ViewInit /\ MapInit
  /\ searches = 0

Awaiting == search = "idle" /\ passes = 0 /\ ~crashed

KeepList == listed' = IF RegionList \in {view', shown'} THEN listed ELSE Nothing

\* The commands of App that open neither of the views here, and the keys that are
\* typed or do not concern a view.
Plain ==
  /\ \/ Report
     \/ \E p \in Pids : Attach(p)
     \/ \E name \in Names : Scan(name)
     \/ Filter
     \/ ResetSession
     \/ \E arg \in Names : \E i \in Argument(arg) : SelectSession(i) \/ DeleteSession(i)
     \/ \E v \in Views \ {Data, RegionList} : ShowView(v)
     \/ EmptyLine
     \/ UNCHANGED vars
  /\ KeepData /\ KeepList
  /\ Turn(0)
  /\ UNCHANGED crashed

ViewCommand ==
  /\ \E r \in Requests : OpenData(r) \/ RefuseData(r) \/ CrashOnData(r)
  /\ KeepList

DataKeys == (DataKey \/ Timeout) /\ UNCHANGED listed

ListCommand ==
  /\ (\E s \in Selections : RegionCommand(s)) \/ SortRegions
  /\ KeepData
  /\ Turn(0)

PointerCommand ==
  /\ searches < MaxSearches
  /\ searches' = searches + 1
  /\ \E c \in Configs : SearchBegins(c)
  /\ UNCHANGED <<vars, memory, maps, changes, viewVars, listed>>

\* The search ends like a command that shows nothing.
PointerReturns ==
  /\ SearchReturns
  /\ UNCHANGED <<vars, memory, maps, changes, data, listed, searches>>
  /\ Turn(0)

Work ==
  /\ ~crashed
  /\ \/ /\ SearchStep
        /\ UNCHANGED <<vars, memory, maps, changes, viewVars, listed, searches>>
     \/ PointerReturns
     \/ /\ Refresh
        /\ UNCHANGED <<memory, maps, changes, searchVars, listed, searches>>

Commands ==
  /\ Awaiting
  /\ \/ /\ Plain \/ ViewCommand \/ DataKeys \/ ListCommand
        /\ UNCHANGED <<memory, maps, changes, searchVars, searches>>
     \/ PointerCommand

InspectionNext ==
  \/ Commands
  \/ Work
  \/ TargetRuns /\ UNCHANGED <<vars, crashed, searchVars, viewVars, listed, searches>>

InspectionSpec == InspectionInit /\ [][InspectionNext]_inspectionVars

\* The thread of mypower keeps running what it has begun.
FairInspection == InspectionSpec /\ WF_inspectionVars(Work)
===============================================================================
