------------------------------- MODULE Harvester -------------------------------
(***************************************************************************)
(* The harvesters of one node (clustering disabled): the manager's two     *)
(* maps, the harvester objects, the rows of table Settings that survive a  *)
(* restart, the Quartz scheduler, and the threads that meet in them: the   *)
(* requests of administrators and the jobs.                                *)
(*                                                                         *)
(* add, update, start, stop and remove hold the monitor of the manager and *)
(* then the one of the harvester; run holds the harvester's only; a job    *)
(* holds neither, except where it stops its harvester at the end of its    *)
(* only run.  What holds its monitors without a step of another thread in  *)
(* between that could tell is one action here; the removal, which deletes  *)
(* and commits record after record, is a sequence of actions, and so is an *)
(* update, whose new rows get known to the SettingManager when its request *)
(* has given back both monitors and closes its connection.  An id is used  *)
(* once: a harvester that was removed is not added again, and nobody knows *)
(* the id of a new one before the request that adds it has ended.          *)
(***************************************************************************)
EXTENDS Naturals, FiniteSets

CONSTANTS
  Harvesters,          \* the ids (and uuids) that harvesters are given
  Clients,             \* threads of requests that run a harvester
  Records,             \* the records that a remote catalogue may offer
  None,                \* no harvester
  StartHarvesterJobs,  \* the parameter of the servlet that allows jobs at all
  Failures,            \* whether deletions, updates and runs may fail
  MaxTriggers,         \* bound: triggers of run requests that wait at a job
  MaxRestarts          \* bound: restarts of the server

ASSUME NoneAssumption == None \notin Harvesters
ASSUME FlagAssumption == StartHarvesterJobs \in BOOLEAN /\ Failures \in BOOLEAN
ASSUME BoundAssumption == MaxTriggers \in Nat \ {0} /\ MaxRestarts \in Nat

VARIABLES
  used,      \* the ids given so far
  known,     \* keys of hmHarvesters
  lookup,    \* keys of hmHarvestLookup, where jobs find their harvester
  setting,   \* row options/status of each harvester, "none" without rows,
             \* "either" with the rows of two updates
  oneRunRow, \* row options/oneRunOnly of each harvester
  unsettled, \* the harvesters whose new rows the SettingManager does not know
  oneRun,    \* option oneRunOnly of each harvester, from its parameters
  status,    \* field status of each harvester status
  job,       \* the harvesters with a job in the scheduler
  manual,    \* the triggers of run requests at that job
  exec,      \* the step that the execution of each job is at
  records,   \* the records stored for each harvester
  history,   \* the harvesters with rows in HarvestHistory not marked deleted
  removal,   \* the harvester that remove() is at work on, or None
  phase,     \* ... how far it is
  victims,   \* ... and the records it has selected and not deleted yet
  runner,    \* the harvester that each client has looked up for run(), or None
  restarts,  \* number of restarts so far
  done,      \* auxiliary: has ended a run since it was last activated
  quiet,     \* auxiliary: no job had been handed it when its removal began
  abandoned, \* auxiliary: a failed request has left it without a job
  unsaved    \* auxiliary: its last change of status was written to no row

manager   == << used, known, lookup >>
rows      == << setting, oneRunRow, unsettled >>
settings  == << rows, oneRun >>
scheduler == << job, manual >>
database  == << records, history >>
remover   == << removal, phase, victims >>
auxiliary == << done, quiet, abandoned, unsaved >>
vars == << manager, settings, status, scheduler, exec, database, remover,
           runner, restarts, auxiliary >>

States == {"active", "inactive"}

(***************************************************************************)
(* A job is fired by a trigger, bound to its harvester by the listener,    *)
(* running in harvest(), ended when doHarvest has returned or thrown, then *)
(* stopping its harvester if it was its only run, and closing.             *)
(***************************************************************************)
Steps == {"idle", "fired", "bound", "running", "ended", "stopping", "closing"}

\* Field running of a harvester: set and reset by harvest().
Running(h) == exec[h] \in {"running", "ended", "stopping", "closing"}

(***************************************************************************)
(* The types, with what ties the maps and the scheduler together in any    *)
(* state: jobs look up no harvester that the manager does not know, and    *)
(* triggers are dropped with their job.                                    *)
(***************************************************************************)
TypeOK ==
  /\ used \subseteq Harvesters
  /\ known \subseteq used
  /\ lookup \subseteq known
  /\ setting \in [Harvesters -> States \cup {"none", "either"}]
  /\ oneRunRow \in [Harvesters -> BOOLEAN]
  /\ unsettled \subseteq used
  /\ oneRun \in [Harvesters -> BOOLEAN]
  /\ status \in [Harvesters -> States]
  /\ job \subseteq used
  /\ manual \in [Harvesters -> 0 .. MaxTriggers]
  /\ \A h \in Harvesters : manual[h] > 0 => h \in job
  /\ exec \in [Harvesters -> Steps]
  /\ records \in [Harvesters -> SUBSET Records]
  /\ history \subseteq Harvesters
  /\ removal \in Harvesters \cup {None}
  /\ phase \in {"none", "found", "destroying", "destroyed"}
  /\ phase = "none" <=> removal = None
  /\ victims \subseteq Records
  /\ runner \in [Clients -> used \cup {None}]
  /\ restarts \in 0 .. MaxRestarts
  /\ done \in [Harvesters -> BOOLEAN]
  /\ quiet \in [Harvesters -> BOOLEAN]
  /\ abandoned \subseteq used
  /\ unsaved \subseteq Harvesters

Init ==
  /\ used = {}
  /\ known = {}
  /\ lookup = {}
  /\ setting = [h \in Harvesters |-> "none"]
  /\ oneRunRow = [h \in Harvesters |-> FALSE]
  /\ unsettled = {}
  /\ oneRun = [h \in Harvesters |-> FALSE]
  /\ status = [h \in Harvesters |-> "inactive"]
  /\ job = {}
  /\ manual = [h \in Harvesters |-> 0]
  /\ exec = [h \in Harvesters |-> "idle"]
  /\ records = [h \in Harvesters |-> {}]
  /\ history = {}
  /\ removal = None
  /\ phase = "none"
  /\ victims = {}
  /\ runner = [c \in Clients |-> None]
  /\ restarts = 0
  /\ done = [h \in Harvesters |-> FALSE]
  /\ quiet = [h \in Harvesters |-> FALSE]
  /\ abandoned = {}
  /\ unsaved = {}

--------------------------------------------------------------------------------
(***************************************************************************)
(* Monitors.  Only the removal keeps them for more than one action.        *)
(***************************************************************************)
ManagerFree == removal = None

MonitorFree(h) == ~(removal = h /\ phase = "destroying")

(***************************************************************************)
(* The scheduler: scheduling replaces a job of the same key and deleting a *)
(* job deletes its triggers, but not an execution under way.               *)
(***************************************************************************)
DoSchedule(h, triggers) ==
  IF StartHarvesterJobs
  THEN /\ job' = job \cup {h}
       /\ manual' = [manual EXCEPT ![h] = triggers]
  ELSE UNCHANGED scheduler

DoUnschedule(h) ==
  /\ job' = job \ {h}
  /\ manual' = [manual EXCEPT ![h] = 0]

\* A trigger that never fires is refused, after the old job was deleted.
ScheduleFails(h) ==
  /\ Failures
  /\ StartHarvesterJobs
  /\ DoUnschedule(h)

\* setValue writes and commits the row that the SettingManager knows: none, or
\* one that an update has deleted (there is only a warning, or not even that),
\* or one of two.
SetStatusValue(h, value) ==
  LET known_row == setting[h] # "none" /\ h \notin unsettled IN
  /\ setting' = IF known_row /\ setting[h] # "either"
                THEN [setting EXCEPT ![h] = value] ELSE setting
  /\ unsaved' = IF known_row THEN unsaved \ {h} ELSE unsaved \cup {h}
  /\ UNCHANGED << oneRunRow, unsettled >>

\* AbstractHarvester.start, followed by so many triggers of run requests.
Activate(h, triggers) ==
  /\ SetStatusValue(h, "active")
  /\ status' = [status EXCEPT ![h] = "active"]
  /\ done' = [done EXCEPT ![h] = FALSE]
  /\ \/ DoSchedule(h, triggers) /\ abandoned' = abandoned \ {h}
     \/ ScheduleFails(h) /\ abandoned' = abandoned \cup {h}

\* Mutant: the setting is not stored, so that a restart activates it again.
DeactivateInMemory(h) ==
  /\ status' = [status EXCEPT ![h] = "inactive"]
  /\ DoUnschedule(h)
  /\ UNCHANGED << rows, unsaved >>

\* AbstractHarvester.stop.
Deactivate(h) ==
  /\ SetStatusValue(h, "inactive")
  /\ status' = [status EXCEPT ![h] = "inactive"]
  /\ DoUnschedule(h)

--------------------------------------------------------------------------------
(***************************************************************************)
(* Requests that hold the monitor of the manager.                          *)
(***************************************************************************)
\* The parameters of a harvester, in its object and in its rows.
SetParameters(h) ==
  \E only \in BOOLEAN :
    /\ oneRun' = [oneRun EXCEPT ![h] = only]
    /\ oneRunRow' = [oneRunRow EXCEPT ![h] = only]

Add(h) ==
  /\ ManagerFree
  /\ h \notin used
  /\ used' = used \cup {h}
  /\ known' = known \cup {h}
  /\ lookup' = lookup \cup {h}
  /\ setting' = [setting EXCEPT ![h] = "inactive"]
  /\ SetParameters(h)
  /\ status' = [status EXCEPT ![h] = "inactive"]
  /\ UNCHANGED << unsettled, scheduler, exec, database, remover, runner,
                  restarts, auxiliary >>

Start(h) ==
  /\ ManagerFree
  /\ h \in known
  /\ Activate(h, 0)
  /\ UNCHANGED << manager, oneRun, exec, database, remover, runner, restarts,
                  quiet >>

Stop(h) ==
  /\ ManagerFree
  /\ h \in known
  /\ Deactivate(h)
  /\ UNCHANGED << manager, oneRun, exec, database, remover, runner,
                  restarts, done, quiet, abandoned >>

\* Mutant: an updated harvester is left unscheduled.
UpdateWithoutSchedule(h) ==
  /\ ManagerFree
  /\ h \in known
  /\ SetParameters(h)
  /\ DoUnschedule(h)
  /\ UNCHANGED << manager, setting, unsettled, status, exec, database, remover,
                  runner, restarts, auxiliary >>

\* New rows are written from the parameters and from field status, those that
\* the SettingManager knows are deleted, and both are committed.
Update(h) ==
  /\ ManagerFree
  /\ h \in known
  /\ SetParameters(h)
  /\ setting' =
       [setting EXCEPT ![h] = IF h \in unsettled THEN "either" ELSE status[h]]
  /\ unsettled' = unsettled \cup {h}
  /\ unsaved' = unsaved \ {h}
  /\ done' = [done EXCEPT ![h] = FALSE]
  /\ abandoned' = abandoned \ {h}
  /\ IF status[h] = "active" THEN DoSchedule(h, 0) ELSE DoUnschedule(h)
  /\ UNCHANGED << manager, status, exec, database, remover, runner, restarts,
                  quiet >>

\* The request of the last update under way closes its connection: only now
\* the SettingManager changes its tree.
UpdateEnds(h) ==
  /\ h \in unsettled
  /\ unsettled' = unsettled \ {h}
  /\ UNCHANGED << manager, setting, oneRunRow, oneRun, status, scheduler, exec,
                  database, remover, runner, restarts, auxiliary >>

\* Parameters that are refused, or in the end a trigger: the rows stay as they
\* were, the job has been deleted, and the object may have its new parameters.
UpdateFails(h) ==
  /\ Failures
  /\ ManagerFree
  /\ h \in known
  /\ DoUnschedule(h)
  /\ abandoned' = abandoned \cup {h}
  /\ \/ UNCHANGED oneRun
     \/ /\ status[h] = "active"
        /\ StartHarvesterJobs
        /\ \E only \in BOOLEAN : oneRun' = [oneRun EXCEPT ![h] = only]
  /\ UNCHANGED << manager, rows, status, exec, database, remover, runner,
                  restarts, done, quiet, unsaved >>

(***************************************************************************)
(* remove(): out of the lookup; then, with the monitor of the harvester,   *)
(* unscheduled and its records selected and deleted one by one; then out   *)
(* of the map and the settings, and its history marked deleted.            *)
(***************************************************************************)
\* Mutant: jobs go on finding the harvester that is being removed.
RemoveFindableStill(h) ==
  /\ ManagerFree
  /\ h \in known
  /\ removal' = h
  /\ phase' = "found"
  /\ quiet' = [quiet EXCEPT ![h] = exec[h] \in {"idle", "fired"}]
  /\ UNCHANGED << manager, victims, settings, status, scheduler, exec, database,
                  runner, restarts, done, abandoned, unsaved >>

Remove(h) ==
  /\ ManagerFree
  /\ h \in known
  /\ lookup' = lookup \ {h}
  /\ removal' = h
  /\ phase' = "found"
  /\ quiet' = [quiet EXCEPT ![h] = exec[h] \in {"idle", "fired"}]
  /\ UNCHANGED << used, known, victims, settings, status, scheduler, exec,
                  database, runner, restarts, done, abandoned, unsaved >>

Destroy(h) ==
  /\ removal = h
  /\ phase = "found"
  /\ phase' = "destroying"
  /\ DoUnschedule(h)
  /\ victims' = records[h]
  /\ UNCHANGED << manager, settings, status, exec, database, removal, runner,
                  restarts, auxiliary >>

DestroyRecord(h, r) ==
  /\ removal = h
  /\ phase = "destroying"
  /\ r \in victims
  /\ victims' = victims \ {r}
  /\ records' = [records EXCEPT ![h] = @ \ {r}]
  /\ UNCHANGED << manager, settings, status, scheduler, exec, history, removal,
                  phase, runner, restarts, auxiliary >>

\* A deletion throws: the request ends here, and its monitors are released.
DestroyFails(h) ==
  /\ Failures
  /\ removal = h
  /\ phase = "destroying"
  /\ victims # {}
  /\ removal' = None
  /\ phase' = "none"
  /\ victims' = {}
  /\ abandoned' = abandoned \cup {h}
  /\ UNCHANGED << manager, settings, status, scheduler, exec, database, runner,
                  restarts, done, quiet, unsaved >>

\* Mutant: it waits for the run under way, with the monitor the run needs.
DestroyedAfterRun(h) ==
  /\ removal = h
  /\ phase = "destroying"
  /\ victims = {}
  /\ ~Running(h)
  /\ phase' = "destroyed"
  /\ UNCHANGED << manager, settings, status, scheduler, exec, database, removal,
                  victims, runner, restarts, auxiliary >>

Destroyed(h) ==
  /\ removal = h
  /\ phase = "destroying"
  /\ victims = {}
  /\ phase' = "destroyed"
  /\ UNCHANGED << manager, settings, status, scheduler, exec, database, removal,
                  victims, runner, restarts, auxiliary >>

Removed(h) ==
  /\ removal = h
  /\ phase = "destroyed"
  /\ h \notin unsettled
  /\ known' = known \ {h}
  /\ setting' = [setting EXCEPT ![h] = "none"]
  /\ history' = history \ {h}
  /\ removal' = None
  /\ phase' = "none"
  /\ UNCHANGED << used, lookup, oneRunRow, unsettled, oneRun, status, scheduler,
                  exec, records, victims, runner, restarts, auxiliary >>

\* Rows that the SettingManager does not know refer to the row to be deleted,
\* so that its deletion is refused: the rows and the history stay.
RemovedFails(h) ==
  /\ removal = h
  /\ phase = "destroyed"
  /\ h \in unsettled
  /\ known' = known \ {h}
  /\ removal' = None
  /\ phase' = "none"
  /\ UNCHANGED << used, lookup, settings, status, scheduler, exec, database,
                  victims, runner, restarts, auxiliary >>

--------------------------------------------------------------------------------
(***************************************************************************)
(* run(): the harvester is looked up without a monitor.  A job that does   *)
(* not exist cannot be triggered (the answer is "error").                  *)
(***************************************************************************)
FindToRun(c, h) ==
  /\ runner[c] = None
  /\ h \in known
  /\ runner' = [runner EXCEPT ![c] = h]
  /\ UNCHANGED << manager, settings, status, scheduler, exec, database, remover,
                  restarts, auxiliary >>

HasHarvester(c, h) ==
  /\ runner[c] = h
  /\ MonitorFree(h)
  /\ runner' = [runner EXCEPT ![c] = None]
  /\ UNCHANGED << manager, oneRun, exec, database, remover, restarts, quiet >>

RunAlreadyRunning(c, h) ==
  /\ HasHarvester(c, h)
  /\ Running(h)
  /\ UNCHANGED << rows, status, scheduler, done, abandoned, unsaved >>

RunInactive(c, h) ==
  /\ HasHarvester(c, h)
  /\ ~Running(h)
  /\ status[h] = "inactive"
  /\ Activate(h, 1)

RunActive(c, h) ==
  /\ HasHarvester(c, h)
  /\ ~Running(h)
  /\ status[h] = "active"
  /\ IF h \in job
     THEN /\ manual[h] < MaxTriggers
          /\ manual' = [manual EXCEPT ![h] = @ + 1]
     ELSE UNCHANGED manual
  /\ UNCHANGED << rows, status, job, done, abandoned, unsaved >>

Run(c, h) == RunAlreadyRunning(c, h) \/ RunInactive(c, h) \/ RunActive(c, h)

(***************************************************************************)
(* The execution of a job, one at a time for each key.                     *)
(***************************************************************************)
Proceed(h, here, next) ==
  /\ exec[h] = here
  /\ exec' = [exec EXCEPT ![h] = next]
  /\ UNCHANGED << manager, remover, oneRun, runner, restarts, quiet, abandoned >>

FirePeriodic(h) ==
  /\ h \in job
  /\ Proceed(h, "idle", "fired")
  /\ UNCHANGED << rows, status, scheduler, database, done, unsaved >>

FireManual(h) ==
  /\ manual[h] > 0
  /\ manual' = [manual EXCEPT ![h] = @ - 1]
  /\ Proceed(h, "idle", "fired")
  /\ UNCHANGED << rows, status, job, database, done, unsaved >>

\* The listener puts the harvester into the job; without one the job throws.
JobToBeExecuted(h) ==
  /\ Proceed(h, "fired", IF h \in lookup THEN "bound" ELSE "idle")
  /\ UNCHANGED << rows, status, scheduler, database, done, unsaved >>

Harvest(h) ==
  /\ Proceed(h, "bound", "running")
  /\ UNCHANGED << rows, status, scheduler, database, done, unsaved >>

\* The aligner adds a record, or removes one, and commits.
Align(h) ==
  /\ exec[h] = "running"
  /\ \E r \in Records :
       \/ records' = [records EXCEPT ![h] = @ \cup {r}]
       \/ records' = [records EXCEPT ![h] = @ \ {r}]
  /\ UNCHANGED << manager, settings, status, scheduler, exec, history, remover,
                  runner, restarts, auxiliary >>

HarvestEnds(h) ==
  /\ Proceed(h, "running", "ended")
  /\ UNCHANGED << rows, status, scheduler, database, done, unsaved >>

\* Mutant: a harvester that has had its only run is not stopped.
EndRunOnly(h) ==
  /\ Proceed(h, "ended", "closing")
  /\ done' = [done EXCEPT ![h] = TRUE]
  /\ UNCHANGED << rows, status, scheduler, database, unsaved >>

EndRun(h) ==
  /\ Proceed(h, "ended", IF oneRun[h] THEN "stopping" ELSE "closing")
  /\ done' = [done EXCEPT ![h] = TRUE]
  /\ UNCHANGED << rows, status, scheduler, database, unsaved >>

StopAfterRun(h) ==
  /\ MonitorFree(h)
  /\ Proceed(h, "stopping", "closing")
  /\ Deactivate(h)
  /\ UNCHANGED << database, done >>

WriteHistory(h) ==
  /\ Proceed(h, "closing", "idle")
  /\ history' = history \cup {h}
  /\ UNCHANGED << rows, status, scheduler, records, done, unsaved >>

(***************************************************************************)
(* A restart of the server at any moment: the settings and the records are *)
(* what is left, and initialize() makes the rest from them.                *)
(***************************************************************************)
WithRows == { h \in Harvesters : setting[h] # "none" }
WithTwo == { h \in Harvesters : setting[h] = "either" }
Active == { h \in Harvesters : setting[h] = "active" }

\* Mutant: active harvesters are not scheduled when they are read.
NoneScheduled(active) == {}

ScheduledAtStart(active) == IF StartHarvesterJobs THEN active ELSE {}

\* Where there are two of a row, any is read.
ReadRows(active) ==
  /\ status' = [h \in Harvesters |-> IF h \in active THEN "active" ELSE "inactive"]
  /\ job' = ScheduledAtStart(active)
  /\ oneRun' \in [Harvesters -> BOOLEAN]
  /\ \A h \in Harvesters \ WithTwo : oneRun'[h] = oneRunRow[h]

Restart ==
  /\ restarts < MaxRestarts
  /\ restarts' = restarts + 1
  /\ known' = WithRows
  /\ lookup' = known'
  /\ \E two \in SUBSET WithTwo : ReadRows(Active \cup two)
  /\ manual' = [h \in Harvesters |-> 0]
  /\ exec' = [h \in Harvesters |-> "idle"]
  /\ removal' = None
  /\ phase' = "none"
  /\ victims' = {}
  /\ runner' = [c \in Clients |-> None]
  /\ done' = [h \in Harvesters |-> FALSE]
  /\ abandoned' = {}
  /\ unsettled' = {}
  /\ unsaved' = {}
  /\ UNCHANGED << used, setting, oneRunRow, database, quiet >>

--------------------------------------------------------------------------------
Request(h) ==
  \/ Add(h)
  \/ Start(h)
  \/ Stop(h)
  \/ Update(h)
  \/ UpdateEnds(h)
  \/ UpdateFails(h)
  \/ Remove(h)

Removal(h) ==
  \/ Destroy(h)
  \/ \E r \in Records : DestroyRecord(h, r)
  \/ DestroyFails(h)
  \/ Destroyed(h)
  \/ Removed(h)
  \/ RemovedFails(h)

Execution(h) ==
  \/ JobToBeExecuted(h)
  \/ Harvest(h)
  \/ HarvestEnds(h)
  \/ EndRun(h)
  \/ StopAfterRun(h)
  \/ WriteHistory(h)

Next ==
  \/ \E h \in Harvesters :
       \/ Request(h)
       \/ Removal(h)
       \/ \E c \in Clients : FindToRun(c, h) \/ Run(c, h)
       \/ FirePeriodic(h)
       \/ FireManual(h)
       \/ Align(h)
       \/ Execution(h)
  \/ Restart

Spec == Init /\ [][Next]_vars

(***************************************************************************)
(* A thread that has begun goes on, and the timeout of a job comes.  That  *)
(* a run comes to its end although the aligner could go on assumes that a  *)
(* remote catalogue answers or refuses, and does not grow for ever.  Users *)
(* and restarts are under no obligation.                                   *)
(***************************************************************************)
Fairness ==
  \A h \in Harvesters :
    /\ WF_vars(Removal(h))
    /\ WF_vars(Execution(h))
    /\ WF_vars(FirePeriodic(h))
    /\ \A c \in Clients : WF_vars(Run(c, h))

FairSpec == Spec /\ Fairness

--------------------------------------------------------------------------------
BeingRemoved(h) == removal = h

(***************************************************************************)
(* A harvester has a job exactly when it is active, unless an update or a  *)
(* trigger that was refused, or a removal that failed, has taken the job   *)
(* away, whatever runs, requests and restarts meet: doSchedule and         *)
(* doUnschedule are called from five methods, beside assignments to status.*)
(***************************************************************************)
ActiveIsScheduled ==
  \A h \in known :
    ~BeingRemoved(h) /\ StartHarvesterJobs =>
      (h \in job <=> status[h] = "active" /\ h \notin abandoned)

(***************************************************************************)
(* What a harvester's status is in memory is what the next start of the    *)
(* server makes of its settings, also while it is removed and after        *)
(* requests that have failed, unless its status was last changed while the *)
(* request of an update had not closed its connection yet, or it has the   *)
(* rows of two updates that overlapped in this way.                        *)
(***************************************************************************)
StatusDurable ==
  \A h \in known :
    h \notin unsaved /\ setting[h] # "either" => setting[h] = status[h]

\* What has been added and removed again, its rows included.
Gone(h) == h \in used /\ h \notin known /\ setting[h] = "none"

(***************************************************************************)
(* The removal of a harvester that no job had been handed yet leaves no    *)
(* record and no visible history of it, even if its job was fired before   *)
(* or is triggered meanwhile: it leaves the lookup before the records are  *)
(* selected.                                                               *)
(***************************************************************************)
QuietRemovalLeavesNothing ==
  \A h \in Harvesters :
    Gone(h) /\ quiet[h] => records[h] = {} /\ h \notin history

(***************************************************************************)
(* After the run of a harvester with option oneRunOnly no other one begins *)
(* before somebody activates or updates it or the server restarts,         *)
(* although run requests and timeouts may be waiting at its job.           *)
(***************************************************************************)
OneRunIsOne ==
  [][ \A h \in Harvesters :
        exec[h] = "idle" /\ exec'[h] = "fired" /\ oneRun[h] => ~done[h] ]_vars


(***************************************************************************)
(* Every removal comes to its end and gives the monitor of the manager     *)
(* back, on which all other requests wait.                                 *)
(***************************************************************************)
RemovalEnds == removal # None ~> removal = None

(***************************************************************************)
(* "start: [...] the countdown is started and the harvesting will be       *)
(* performed at the timeout": an active harvester that jobs can find runs, *)
(* unless it is stopped or removed before, or an update of it fails; a     *)
(* restart does not change that.                                           *)
(***************************************************************************)
ActiveRuns ==
  \A h \in Harvesters :
    h \in lookup /\ status[h] = "active" /\ h \notin abandoned
      ~> \/ Running(h)
         \/ status[h] = "inactive"
         \/ BeingRemoved(h)
         \/ h \in abandoned

(***************************************************************************)
(* User manual: "When a harvesting node is removed, all harvest metadata   *)
(* are removed too."                                                       *)
(***************************************************************************)
RemovedWithRecords ==
  \A h \in Harvesters : Gone(h) /\ exec[h] = "idle" => records[h] = {}
================================================================================
