--------------------------- MODULE Harvester_proofs ----------------------------
(***************************************************************************)
(* Theorems about the harvesters of a node, for any number of harvesters,  *)
(* clients, records, waiting triggers and restarts.                        *)
(***************************************************************************)
EXTENDS Harvester, TLAPS

\* What a restart finds in the settings was added once.
SettingsUsed == \A h \in Harvesters : setting[h] # "none" => h \in used

\* A harvester that the manager knows has rows.
KnownHaveRows == \A h \in known : setting[h] # "none"

\* What is being removed is not found by jobs any more.
RemovalHidden == removal # None => removal \in known /\ removal \notin lookup

TypeInv ==
  TypeOK /\ SettingsUsed /\ KnownHaveRows /\ StatusDurable /\ RemovalHidden

--------------------------------------------------------------------------------
\* What an action does to the scheduler keeps its types.
SchedulerOK ==
  /\ job \subseteq used
  /\ manual \in [Harvesters -> 0 .. MaxTriggers]
  /\ \A h \in Harvesters : manual[h] > 0 => h \in job

LEMMA ScheduleType ==
  ASSUME TypeOK, NEW h \in Harvesters, h \in used, NEW triggers \in {0, 1},
         DoSchedule(h, triggers) \/ DoUnschedule(h), UNCHANGED used
  PROVE  SchedulerOK'
BY BoundAssumption DEF TypeOK, SchedulerOK, DoSchedule, DoUnschedule, scheduler

LEMMA InitType == Init => TypeInv
BY BoundAssumption, NoneAssumption DEF Init, TypeInv, TypeOK, SettingsUsed,
   KnownHaveRows, StatusDurable, RemovalHidden, States, Steps

\* What a step does to the settings alone keeps the facts about them.
SettingsOK ==
  /\ setting \in [Harvesters -> States \cup {"none", "either"}]
  /\ oneRunRow \in [Harvesters -> BOOLEAN]
  /\ unsettled \subseteq used
  /\ unsaved \subseteq Harvesters
  /\ SettingsUsed
  /\ KnownHaveRows
  /\ StatusDurable

LEMMA SetStatusType ==
  ASSUME TypeInv, NEW h \in Harvesters, NEW value \in States,
         SetStatusValue(h, value), status' = [status EXCEPT ![h] = value],
         UNCHANGED manager
  PROVE  SettingsOK'
<1>. USE DEF SetStatusValue, TypeInv, TypeOK, manager
<1>1. setting' \in [Harvesters -> States \cup {"none", "either"}]
  OBVIOUS
<1>2. SettingsUsed' /\ KnownHaveRows'
  BY DEF SettingsUsed, KnownHaveRows, States
<1>3. StatusDurable'
  BY DEF StatusDurable
<1>4. QED
  BY <1>1, <1>2, <1>3 DEF SettingsOK

LEMMA RequestType ==
  ASSUME TypeInv, NEW h \in Harvesters, Request(h)
  PROVE  TypeInv'
<1>. USE DEF TypeInv, SettingsUsed, KnownHaveRows, StatusDurable, RemovalHidden
<1>1. CASE Add(h)
  BY <1>1, BoundAssumption DEF Add, SetParameters, TypeOK, States, scheduler,
     database, remover, auxiliary
<1>2. CASE Start(h)
  <2>1. SettingsOK'
    BY <1>2, SetStatusType DEF Start, Activate, States
  <2>2. SchedulerOK'
    BY <1>2, ScheduleType DEF Start, Activate, ScheduleFails, TypeOK, manager
  <2>3. /\ status' \in [Harvesters -> States]
        /\ done' \in [Harvesters -> BOOLEAN]
        /\ abandoned' \subseteq used
    BY <1>2 DEF Start, Activate, TypeOK, States
  <2>4. TypeOK'
    <3>. HIDE DEF SettingsUsed, KnownHaveRows, StatusDurable, RemovalHidden
    <3>. QED
      BY <1>2, <2>1, <2>2, <2>3 DEF Start, TypeOK, SettingsOK, SchedulerOK,
         manager, database, remover
  <2>5. QED
    BY <1>2, <2>1, <2>4 DEF Start, SettingsOK, manager, remover
<1>3. CASE Stop(h)
  <2>1. SettingsOK'
    BY <1>3, SetStatusType DEF Stop, Deactivate, States
  <2>2. SchedulerOK'
    BY <1>3, ScheduleType DEF Stop, Deactivate, TypeOK, manager
  <2>3. QED
    BY <1>3, <2>1, <2>2 DEF Stop, Deactivate, TypeOK, SettingsOK, SchedulerOK,
       States, manager, database, remover
<1>4. CASE Update(h)
  <2>1. SchedulerOK'
    BY <1>4, ScheduleType DEF Update, TypeOK, manager
  <2>2. TypeOK'
    <3>1. /\ setting' \in [Harvesters -> States \cup {"none", "either"}]
          /\ done' \in [Harvesters -> BOOLEAN]
          /\ unsettled' \subseteq used
          /\ abandoned' \subseteq used
          /\ unsaved' \subseteq Harvesters
      BY <1>4 DEF Update, TypeOK, manager
    <3>2. oneRun' \in [Harvesters -> BOOLEAN] /\ oneRunRow' \in [Harvesters -> BOOLEAN]
      BY <1>4 DEF Update, SetParameters, TypeOK
    <3>. HIDE DEF SettingsUsed, KnownHaveRows, StatusDurable, RemovalHidden
    <3>3. QED
      BY <1>4, <2>1, <3>1, <3>2 DEF Update, TypeOK, SchedulerOK, manager, database,
         remover
  <2>3. SettingsUsed' /\ KnownHaveRows' /\ StatusDurable'
    BY <1>4 DEF Update, TypeOK, States, manager
  <2>4. QED
    BY <1>4, <2>2, <2>3 DEF Update, manager, remover
<1>5. CASE UpdateEnds(h)
  BY <1>5 DEF UpdateEnds, TypeOK, manager, scheduler, database, remover, auxiliary
<1>6. CASE UpdateFails(h)
  <2>1. SchedulerOK'
    BY <1>6, ScheduleType DEF UpdateFails, TypeOK, manager
  <2>2. QED
    BY <1>6, <2>1 DEF UpdateFails, TypeOK, SchedulerOK, manager, rows, database,
       remover
<1>7. CASE Remove(h)
  BY <1>7, NoneAssumption DEF Remove, TypeOK, settings, rows, scheduler, database
<1>8. QED
  BY <1>1, <1>2, <1>3, <1>4, <1>5, <1>6, <1>7 DEF Request

LEMMA RemovalType ==
  ASSUME TypeInv, NEW h \in Harvesters, Removal(h)
  PROVE  TypeInv'
<1>. USE DEF TypeInv, TypeOK, SettingsUsed, KnownHaveRows, StatusDurable,
         RemovalHidden, manager, settings, rows, auxiliary
<1>1. CASE Destroy(h)
  BY <1>1, BoundAssumption DEF Destroy, DoUnschedule, database
<1>2. ASSUME NEW r \in Records, DestroyRecord(h, r)
      PROVE  TypeInv'
  BY <1>2 DEF DestroyRecord, scheduler
<1>3. CASE DestroyFails(h)
  BY <1>3 DEF DestroyFails, scheduler, database
<1>4. CASE Destroyed(h)
  BY <1>4 DEF Destroyed, scheduler, database
<1>5. CASE Removed(h)
  BY <1>5 DEF Removed, scheduler
<1>6. CASE RemovedFails(h)
  BY <1>6 DEF RemovedFails, scheduler, database
<1>7. QED
  BY <1>1, <1>2, <1>3, <1>4, <1>5, <1>6 DEF Removal

LEMMA RunType ==
  ASSUME TypeInv, NEW h \in Harvesters, NEW c \in Clients,
         FindToRun(c, h) \/ Run(c, h)
  PROVE  TypeInv'
<1>. USE DEF TypeInv, SettingsUsed, KnownHaveRows, StatusDurable, RemovalHidden,
         manager, database, remover
<1>1. CASE FindToRun(c, h)
  BY <1>1 DEF FindToRun, TypeOK, settings, rows, scheduler, auxiliary
<1>2. CASE RunAlreadyRunning(c, h)
  BY <1>2 DEF RunAlreadyRunning, HasHarvester, TypeOK, rows, scheduler
<1>3. CASE RunInactive(c, h)
  <2>1. h \in used /\ UNCHANGED manager
    BY <1>3, NoneAssumption DEF RunInactive, HasHarvester, TypeOK
  <2>2. SchedulerOK'
    BY <1>3, <2>1, ScheduleType DEF RunInactive, Activate, ScheduleFails
  <2>3. SettingsOK'
    BY <1>3, <2>1, SetStatusType DEF RunInactive, Activate, States
  <2>4. TypeOK'
    BY <1>3, <2>1, <2>2, <2>3 DEF RunInactive, HasHarvester, Activate, TypeOK,
       SchedulerOK, SettingsOK, States
  <2>5. QED
    BY <1>3, <2>1, <2>3, <2>4 DEF RunInactive, HasHarvester, SettingsOK
<1>4. CASE RunActive(c, h)
  BY <1>4, BoundAssumption DEF RunActive, HasHarvester, TypeOK, rows
<1>5. QED
  BY <1>1, <1>2, <1>3, <1>4 DEF Run

LEMMA ExecutionType ==
  ASSUME TypeInv, NEW h \in Harvesters,
         FirePeriodic(h) \/ FireManual(h) \/ Align(h) \/ Execution(h)
  PROVE  TypeInv'
<1>. USE DEF TypeInv, SettingsUsed, KnownHaveRows, StatusDurable, RemovalHidden,
         Proceed, manager, rows, remover, scheduler, database
<1>1. CASE FirePeriodic(h)
  BY <1>1 DEF FirePeriodic, TypeOK, Steps
<1>2. CASE FireManual(h)
  BY <1>2, BoundAssumption DEF FireManual, TypeOK, Steps
<1>3. CASE Align(h)
  BY <1>3 DEF Align, TypeOK, settings, auxiliary
<1>4. CASE JobToBeExecuted(h)
  BY <1>4 DEF JobToBeExecuted, TypeOK, Steps
<1>5. CASE Harvest(h)
  BY <1>5 DEF Harvest, TypeOK, Steps
<1>6. CASE HarvestEnds(h)
  BY <1>6 DEF HarvestEnds, TypeOK, Steps
<1>7. CASE EndRun(h)
  BY <1>7 DEF EndRun, TypeOK, Steps
<1>8. CASE StopAfterRun(h)
  <2>1. SettingsOK'
    BY <1>8, SetStatusType DEF StopAfterRun, Deactivate, States
  <2>2. TypeOK'
    <3>1. /\ job' \subseteq used
          /\ manual' \in [Harvesters -> 0 .. MaxTriggers]
          /\ \A g \in Harvesters : manual'[g] > 0 => g \in job'
      BY <1>8, BoundAssumption DEF StopAfterRun, Deactivate, DoUnschedule, TypeOK
    <3>2. /\ status' \in [Harvesters -> States]
          /\ exec' \in [Harvesters -> Steps]
      BY <1>8 DEF StopAfterRun, Deactivate, TypeOK, Steps, States
    <3>. HIDE DEF SettingsUsed, KnownHaveRows, StatusDurable, RemovalHidden
    <3>3. QED
      BY <1>8, <2>1, <3>1, <3>2 DEF StopAfterRun, SettingsOK, TypeOK
  <2>3. QED
    BY <1>8, <2>1, <2>2 DEF StopAfterRun, SettingsOK
<1>9. CASE WriteHistory(h)
  BY <1>9 DEF WriteHistory, TypeOK, Steps
<1>10. QED
  BY <1>1, <1>2, <1>3, <1>4, <1>5, <1>6, <1>7, <1>8, <1>9 DEF Execution

LEMMA RestartType ==
  ASSUME TypeInv, Restart
  PROVE  TypeInv'
<1>. USE DEF Restart, ReadRows, Active, WithTwo, WithRows, TypeInv, SettingsUsed
<1>1. PICK two \in SUBSET WithTwo : ReadRows(Active \cup two)
  OBVIOUS
<1>2. TypeOK'
  BY <1>1, BoundAssumption DEF TypeOK, ScheduledAtStart, States, Steps, database
<1>3. KnownHaveRows' /\ RemovalHidden'
  BY DEF KnownHaveRows, RemovalHidden
<1>4. StatusDurable'
  BY <1>1 DEF StatusDurable, TypeOK, States
<1>5. QED
  BY <1>2, <1>3, <1>4 DEF TypeOK

LEMMA NextType ==
  ASSUME TypeInv, [Next]_vars
  PROVE  TypeInv'
<1>1. CASE UNCHANGED vars
  BY <1>1 DEF vars, TypeInv, TypeOK, SettingsUsed, KnownHaveRows, StatusDurable,
     RemovalHidden, manager, settings, rows, scheduler, database, remover,
     auxiliary
<1>2. CASE Next
  BY <1>2, RequestType, RemovalType, RunType, ExecutionType, RestartType DEF Next
<1>3. QED
  BY <1>1, <1>2

LEMMA TypeInvariant == Spec => []TypeInv
<1>1. TypeInv /\ [Next]_vars => TypeInv'
  BY NextType
<1>2. QED
  BY <1>1, InitType, PTL DEF Spec

(***************************************************************************)
(* The maps, the rows, the scheduler and the executions keep their types,  *)
(* and no job is ever handed a harvester that the manager does not know    *)
(* (HarvestManager, AbstractHarvester).                                    *)
(***************************************************************************)
THEOREM TypeCorrect == Spec => []TypeOK
<1>1. TypeInv => TypeOK
  BY DEF TypeInv
<1>2. QED
  BY <1>1, TypeInvariant, PTL

(***************************************************************************)
(* A restart leaves the status of every harvester as it is, after failed   *)
(* updates and removals, too, unless the status was changed between the    *)
(* commit of an update and the end of its request, or two updates met so   *)
(* (AbstractHarvester.update, start, stop; SettingManager.flush).          *)
(***************************************************************************)
THEOREM StatusSurvives == Spec => []StatusDurable
<1>1. TypeInv => StatusDurable
  BY DEF TypeInv
<1>2. QED
  BY <1>1, TypeInvariant, PTL

--------------------------------------------------------------------------------
(***************************************************************************)
(* Removal.  A job that has not been handed its harvester when the removal *)
(* begins is never handed it, so that nobody stores a record between the   *)
(* selection of the records and the end of the removal.                    *)
(***************************************************************************)
NotHanded ==
  \A h \in used : quiet[h] /\ h \notin lookup => exec[h] \in {"idle", "fired"}

VictimsComplete ==
  removal # None /\ quiet[removal] =>
    /\ phase = "destroying" => records[removal] \subseteq victims
    /\ phase = "destroyed" => records[removal] = {}

\* No history is written of a harvester that is quietly gone.
QuietInv == NotHanded /\ VictimsComplete /\ QuietRemovalLeavesNothing

LEMMA QuietFrame ==
  ASSUME QuietInv, UNCHANGED << manager, exec, database, remover, quiet >>,
         \A h \in Harvesters : setting'[h] = "none" => setting[h] = "none",
         used \subseteq Harvesters
  PROVE  QuietInv'
BY DEF QuietInv, NotHanded, VictimsComplete, QuietRemovalLeavesNothing, Gone,
   manager, database, remover

LEMMA QuietRequest ==
  ASSUME TypeInv, QuietInv, NEW h \in Harvesters, Request(h)
  PROVE  QuietInv'
<1>. USE DEF QuietInv, NotHanded, VictimsComplete, QuietRemovalLeavesNothing, Gone,
         TypeInv, TypeOK, ManagerFree
<1>1. CASE Add(h)
  BY <1>1 DEF Add, database, remover, auxiliary
<1>2. CASE Start(h) \/ Stop(h)
  BY <1>2, QuietFrame DEF Start, Activate, Stop, Deactivate, SetStatusValue
<1>3. CASE Update(h) \/ UpdateEnds(h) \/ UpdateFails(h)
  BY <1>3, QuietFrame DEF Update, UpdateEnds, UpdateFails, rows, auxiliary, States
<1>4. CASE Remove(h)
  BY <1>4 DEF Remove, database, settings, rows
<1>5. QED
  BY <1>1, <1>2, <1>3, <1>4 DEF Request

LEMMA QuietRemoval ==
  ASSUME TypeInv, QuietInv, NEW h \in Harvesters, Removal(h)
  PROVE  QuietInv'
<1>. USE DEF QuietInv, NotHanded, VictimsComplete, QuietRemovalLeavesNothing, Gone,
         TypeInv, TypeOK, RemovalHidden, KnownHaveRows, manager, settings, rows,
         database, auxiliary
<1>1. CASE Destroy(h)
  BY <1>1 DEF Destroy
<1>2. ASSUME NEW r \in Records, DestroyRecord(h, r)
      PROVE  QuietInv'
  BY <1>2 DEF DestroyRecord
<1>3. CASE DestroyFails(h)
  BY <1>3 DEF DestroyFails
<1>4. CASE Destroyed(h)
  BY <1>4 DEF Destroyed
<1>5. CASE Removed(h)
  BY <1>5, NoneAssumption DEF Removed
<1>6. CASE RemovedFails(h)
  BY <1>6, NoneAssumption DEF RemovedFails
<1>7. QED
  BY <1>1, <1>2, <1>3, <1>4, <1>5, <1>6 DEF Removal

LEMMA QuietExecution ==
  ASSUME TypeInv, QuietInv, NEW h \in Harvesters,
         FirePeriodic(h) \/ FireManual(h) \/ Align(h) \/ Execution(h)
  PROVE  QuietInv'
<1>. USE DEF QuietInv, NotHanded, VictimsComplete, QuietRemovalLeavesNothing, Gone,
         TypeInv, TypeOK, RemovalHidden, Proceed, manager, rows, database, remover
<1>1. CASE FirePeriodic(h)
  BY <1>1 DEF FirePeriodic
<1>2. CASE FireManual(h)
  BY <1>2 DEF FireManual
<1>3. CASE Align(h)
  BY <1>3 DEF Align, auxiliary, settings
<1>4. CASE JobToBeExecuted(h)
  BY <1>4 DEF JobToBeExecuted
<1>5. CASE Harvest(h)
  BY <1>5 DEF Harvest
<1>6. CASE HarvestEnds(h)
  BY <1>6 DEF HarvestEnds
<1>7. CASE EndRun(h)
  BY <1>7 DEF EndRun
<1>8. CASE StopAfterRun(h)
  BY <1>8, QuietFrame DEF StopAfterRun, Deactivate, SetStatusValue
<1>9. CASE WriteHistory(h)
  BY <1>9 DEF WriteHistory
<1>10. QED
  BY <1>1, <1>2, <1>3, <1>4, <1>5, <1>6, <1>7, <1>8, <1>9 DEF Execution

LEMMA QuietRestart ==
  ASSUME TypeInv, QuietInv, Restart
  PROVE  QuietInv'
BY DEF Restart, WithRows, QuietInv, NotHanded, VictimsComplete,
   QuietRemovalLeavesNothing, Gone, TypeInv, TypeOK, KnownHaveRows, database

LEMMA QuietNext ==
  ASSUME TypeInv, QuietInv, [Next]_vars
  PROVE  QuietInv'
<1>1. CASE UNCHANGED vars
  BY <1>1, QuietFrame DEF vars, auxiliary, settings, rows, TypeInv, TypeOK
<1>2. ASSUME NEW h \in Harvesters, NEW c \in Clients, FindToRun(c, h) \/ Run(c, h)
      PROVE  QuietInv'
  BY <1>2, QuietFrame DEF FindToRun, Run, RunAlreadyRunning, RunInactive, RunActive,
     HasHarvester, Activate, SetStatusValue, auxiliary, settings, rows, TypeInv,
     TypeOK
<1>3. CASE Next
  BY <1>2, <1>3, QuietRequest, QuietRemoval, QuietExecution, QuietRestart DEF Next
<1>4. QED
  BY <1>1, <1>3

(***************************************************************************)
(* A removal that no handed-over job races with leaves neither records nor *)
(* visible history, whatever other requests, failures and restarts come in *)
(* between (HarvestManager.remove, AbstractHarvester.destroy).             *)
(***************************************************************************)
THEOREM QuietRemovalComplete == Spec => []QuietRemovalLeavesNothing
<1>1. Init => QuietInv
  BY DEF Init, QuietInv, NotHanded, VictimsComplete, QuietRemovalLeavesNothing, Gone
<1>2. TypeInv /\ QuietInv /\ [Next]_vars => QuietInv'
  BY QuietNext
<1>3. QuietInv => QuietRemovalLeavesNothing
  BY DEF QuietInv
<1>4. QED
  BY <1>1, <1>2, <1>3, TypeInvariant, PTL DEF Spec

--------------------------------------------------------------------------------
(***************************************************************************)
(* Scheduling.  Status and scheduler agree, but where a failure came in.   *)
(***************************************************************************)
\* While the records are deleted, the monitor keeps the job away.
NoJobWhileDeleting == phase = "destroying" => removal \notin job

ScheduleInv == ActiveIsScheduled /\ NoJobWhileDeleting

LEMMA ActiveRequest ==
  ASSUME TypeInv, ScheduleInv, NEW h \in Harvesters, Request(h)
  PROVE  ScheduleInv'
<1>. USE DEF ScheduleInv, ActiveIsScheduled, NoJobWhileDeleting, MonitorFree,
         BeingRemoved, TypeInv, TypeOK, States, scheduler,
         manager, remover, auxiliary, ManagerFree, DoSchedule, DoUnschedule,
         ScheduleFails
<1>1. CASE Add(h)
  BY <1>1 DEF Add
<1>2. CASE Start(h)
  BY <1>2 DEF Start, Activate
<1>3. CASE Stop(h)
  BY <1>3 DEF Stop, Deactivate
<1>4. CASE Update(h)
  BY <1>4 DEF Update
<1>5. CASE UpdateEnds(h) \/ UpdateFails(h)
  BY <1>5 DEF UpdateEnds, UpdateFails
<1>6. CASE Remove(h)
  BY <1>6, NoneAssumption DEF Remove
<1>7. QED
  BY <1>1, <1>2, <1>3, <1>4, <1>5, <1>6 DEF Request

LEMMA ActiveRemoval ==
  ASSUME TypeInv, ScheduleInv, NEW h \in Harvesters, Removal(h)
  PROVE  ScheduleInv'
<1>. USE DEF ScheduleInv, ActiveIsScheduled, NoJobWhileDeleting, MonitorFree,
         BeingRemoved, TypeInv, TypeOK, scheduler, manager,
         auxiliary
<1>1. CASE Destroy(h)
  BY <1>1 DEF Destroy, DoUnschedule
<1>2. ASSUME NEW r \in Records, DestroyRecord(h, r)
      PROVE  ScheduleInv'
  BY <1>2 DEF DestroyRecord
<1>3. CASE DestroyFails(h) \/ Destroyed(h)
  BY <1>3 DEF DestroyFails, Destroyed
<1>4. CASE Removed(h) \/ RemovedFails(h)
  BY <1>4 DEF Removed, RemovedFails
<1>5. QED
  BY <1>1, <1>2, <1>3, <1>4 DEF Removal

LEMMA ActiveRun ==
  ASSUME TypeInv, ScheduleInv, NEW h \in Harvesters, NEW c \in Clients,
         FindToRun(c, h) \/ Run(c, h)
  PROVE  ScheduleInv'
<1>. USE DEF ScheduleInv, ActiveIsScheduled, NoJobWhileDeleting, MonitorFree,
         BeingRemoved, TypeInv, TypeOK, scheduler, manager,
         remover, auxiliary, HasHarvester
<1>1. CASE FindToRun(c, h)
  BY <1>1 DEF FindToRun
<1>2. CASE RunAlreadyRunning(c, h)
  BY <1>2 DEF RunAlreadyRunning
<1>3. CASE RunInactive(c, h)
  BY <1>3 DEF RunInactive, Activate, DoSchedule, DoUnschedule, ScheduleFails
<1>4. CASE RunActive(c, h)
  BY <1>4 DEF RunActive
<1>5. QED
  BY <1>1, <1>2, <1>3, <1>4 DEF Run

LEMMA ActiveExecution ==
  ASSUME TypeInv, ScheduleInv, NEW h \in Harvesters,
         FirePeriodic(h) \/ FireManual(h) \/ Align(h) \/ Execution(h)
  PROVE  ScheduleInv'
<1>. USE DEF ScheduleInv, ActiveIsScheduled, NoJobWhileDeleting, MonitorFree,
         BeingRemoved, Proceed, scheduler, manager, remover,
         auxiliary
<1>1. CASE FirePeriodic(h) \/ FireManual(h) \/ Align(h)
  BY <1>1 DEF FirePeriodic, FireManual, Align
<1>2. CASE JobToBeExecuted(h) \/ Harvest(h) \/ HarvestEnds(h) \/ EndRun(h)
             \/ WriteHistory(h)
  BY <1>2 DEF JobToBeExecuted, Harvest, HarvestEnds, EndRun, WriteHistory
<1>3. CASE StopAfterRun(h)
  BY <1>3 DEF StopAfterRun, Deactivate, DoUnschedule, TypeInv, TypeOK
<1>4. QED
  BY <1>1, <1>2, <1>3 DEF Execution

LEMMA ActiveNext ==
  ASSUME TypeInv, ScheduleInv, [Next]_vars
  PROVE  ScheduleInv'
<1>1. CASE UNCHANGED vars
  BY <1>1 DEF vars, ScheduleInv, ActiveIsScheduled, NoJobWhileDeleting,
     BeingRemoved, manager, scheduler, remover, auxiliary
<1>2. CASE Restart
  <2>1. PICK two \in SUBSET WithTwo : ReadRows(Active \cup two)
    BY <1>2 DEF Restart
  <2>2. QED
    BY <1>2, <2>1 DEF Restart, ReadRows, WithTwo, Active, WithRows,
       ScheduledAtStart, ScheduleInv, ActiveIsScheduled, NoJobWhileDeleting
<1>3. CASE Next
  BY <1>2, <1>3, ActiveRequest, ActiveRemoval, ActiveRun, ActiveExecution DEF Next
<1>4. QED
  BY <1>1, <1>3

(***************************************************************************)
(* An active harvester has its job, but where an update or a trigger was   *)
(* refused or a removal has failed, and an inactive one has none, also     *)
(* where a job that stops its harvester, run requests and restarts meet    *)
(* (AbstractHarvester.doSchedule).                                         *)
(***************************************************************************)
THEOREM ActiveScheduled == Spec => []ActiveIsScheduled
<1>1. Init => ScheduleInv
  BY DEF Init, ScheduleInv, ActiveIsScheduled, NoJobWhileDeleting
<1>2. TypeInv /\ ScheduleInv /\ [Next]_vars => ScheduleInv'
  BY ActiveNext
<1>3. ScheduleInv => ActiveIsScheduled
  BY DEF ScheduleInv
<1>4. QED
  BY <1>1, <1>2, <1>3, TypeInvariant, PTL DEF Spec

--------------------------------------------------------------------------------
(***************************************************************************)
(* Option oneRunOnly.  After its run a harvester has no job, except while  *)
(* the job that ran it waits for the monitor to stop it.                   *)
(***************************************************************************)
RunOnce ==
  \A h \in Harvesters :
    oneRun[h] /\ done[h] => h \notin job \/ exec[h] = "stopping"

LEMMA RunOnceFrame ==
  ASSUME RunOnce, UNCHANGED << oneRun, done, exec >>, job' \subseteq job
  PROVE  RunOnce'
BY DEF RunOnce

LEMMA RunOnceRequest ==
  ASSUME TypeInv, RunOnce, NEW h \in Harvesters, Request(h)
  PROVE  RunOnce'
<1>. USE DEF RunOnce, TypeInv, TypeOK, scheduler, settings, auxiliary, DoSchedule,
         DoUnschedule
<1>1. CASE Add(h)
  BY <1>1 DEF Add, SetParameters
<1>2. CASE Start(h)
  BY <1>2 DEF Start, Activate, ScheduleFails
<1>3. CASE Stop(h) \/ UpdateEnds(h) \/ Remove(h)
  BY <1>3, RunOnceFrame DEF Stop, Deactivate, UpdateEnds, Remove
<1>4. CASE Update(h)
  BY <1>4 DEF Update, SetParameters
<1>5. CASE UpdateFails(h)
  BY <1>5 DEF UpdateFails
<1>6. QED
  BY <1>1, <1>2, <1>3, <1>4, <1>5 DEF Request

LEMMA RunOnceRun ==
  ASSUME TypeInv, RunOnce, NEW h \in Harvesters, NEW c \in Clients,
         FindToRun(c, h) \/ Run(c, h)
  PROVE  RunOnce'
<1>. USE DEF scheduler, HasHarvester
<1>1. CASE FindToRun(c, h) \/ RunAlreadyRunning(c, h) \/ RunActive(c, h)
  BY <1>1, RunOnceFrame DEF FindToRun, RunAlreadyRunning, RunActive, settings,
     auxiliary
<1>2. CASE RunInactive(c, h)
  BY <1>2 DEF RunInactive, Activate, DoSchedule, DoUnschedule, ScheduleFails,
     RunOnce, TypeInv, TypeOK
<1>3. QED
  BY <1>1, <1>2 DEF Run

LEMMA RunOnceExecution ==
  ASSUME TypeInv, RunOnce, NEW h \in Harvesters,
         FirePeriodic(h) \/ FireManual(h) \/ Align(h) \/ Execution(h)
  PROVE  RunOnce'
<1>. USE DEF RunOnce, TypeInv, TypeOK, Proceed, scheduler
<1>1. CASE FirePeriodic(h) \/ FireManual(h)
  BY <1>1 DEF FirePeriodic, FireManual
<1>2. CASE Align(h)
  BY <1>2, RunOnceFrame DEF Align, settings, auxiliary
<1>3. CASE JobToBeExecuted(h) \/ Harvest(h) \/ HarvestEnds(h) \/ WriteHistory(h)
  BY <1>3 DEF JobToBeExecuted, Harvest, HarvestEnds, WriteHistory
<1>4. CASE EndRun(h)
  BY <1>4 DEF EndRun
<1>5. CASE StopAfterRun(h)
  BY <1>5 DEF StopAfterRun, Deactivate, DoUnschedule
<1>6. QED
  BY <1>1, <1>2, <1>3, <1>4, <1>5 DEF Execution

LEMMA RunOnceNext ==
  ASSUME TypeInv, RunOnce, [Next]_vars
  PROVE  RunOnce'
<1>1. CASE UNCHANGED vars
  BY <1>1, RunOnceFrame DEF vars, settings, scheduler, auxiliary
<1>2. CASE Restart
  BY <1>2 DEF Restart, RunOnce
<1>3. ASSUME NEW h \in Harvesters, Removal(h)
      PROVE  RunOnce'
  BY <1>3, RunOnceFrame DEF Removal, Destroy, DestroyRecord, DestroyFails,
     Destroyed, Removed, RemovedFails, DoUnschedule, settings, scheduler, auxiliary
<1>4. CASE Next
  BY <1>2, <1>3, <1>4, RunOnceRequest, RunOnceRun, RunOnceExecution DEF Next
<1>5. QED
  BY <1>1, <1>4

\* What OneRunIsOne says of a step.
FiresOnce ==
  \A h \in Harvesters :
    exec[h] = "idle" /\ exec'[h] = "fired" /\ oneRun[h] => ~done[h]

\* Only a trigger of an existing job fires.
LEMMA FiresJobs ==
  ASSUME TypeInv, [Next]_vars, NEW h \in Harvesters,
         exec[h] = "idle", exec'[h] = "fired"
  PROVE  h \in job
<1>. USE DEF TypeInv, TypeOK
<1>1. ASSUME UNCHANGED exec
      PROVE  FALSE
  BY <1>1
<1>2. ASSUME NEW g \in Harvesters, Request(g) \/ Removal(g) \/ Align(g)
      PROVE  UNCHANGED exec
  BY <1>2 DEF Request, Add, Start, Stop, Update, UpdateEnds, UpdateFails, Remove,
     Removal, Destroy, DestroyRecord, DestroyFails, Destroyed, Removed,
     RemovedFails, Align
<1>3. ASSUME NEW g \in Harvesters, NEW c \in Clients, FindToRun(c, g) \/ Run(c, g)
      PROVE  UNCHANGED exec
  BY <1>3 DEF FindToRun, Run, RunAlreadyRunning, RunInactive, RunActive,
     HasHarvester
<1>4. ASSUME NEW g \in Harvesters, FirePeriodic(g) \/ FireManual(g)
      PROVE  h \in job
  <2>1. g = h
    BY <1>4 DEF FirePeriodic, FireManual, Proceed
  <2>2. QED
    BY <1>4, <2>1 DEF FirePeriodic, FireManual
<1>5. ASSUME NEW g \in Harvesters, Execution(g)
      PROVE  FALSE
  BY <1>5 DEF Execution, JobToBeExecuted, Harvest, HarvestEnds, EndRun,
     StopAfterRun, WriteHistory, Proceed
<1>6. CASE Restart
  BY <1>6 DEF Restart
<1>7. CASE UNCHANGED vars
  BY <1>1, <1>7 DEF vars
<1>8. QED
  BY <1>1, <1>2, <1>3, <1>4, <1>5, <1>6, <1>7 DEF Next

(***************************************************************************)
(* A harvester with option oneRunOnly runs once for each time that it is   *)
(* activated, updated or read from the settings, however many run requests *)
(* and timeouts wait at its job (AbstractHarvester.process, stop).         *)
(***************************************************************************)
THEOREM RunsOnce == Spec => OneRunIsOne
<1>1. Init => RunOnce
  BY DEF Init, RunOnce
<1>2. TypeInv /\ RunOnce /\ [Next]_vars => RunOnce'
  BY RunOnceNext
<1>3. TypeInv /\ RunOnce /\ [Next]_vars => [FiresOnce]_vars
  BY FiresJobs DEF RunOnce, FiresOnce
<1>4. OneRunIsOne <=> [][FiresOnce]_vars
  BY PTL DEF OneRunIsOne, FiresOnce
<1>5. QED
  BY <1>1, <1>2, <1>3, <1>4, TypeInvariant, PTL DEF Spec
================================================================================
