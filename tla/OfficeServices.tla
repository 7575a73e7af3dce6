--------------------------- MODULE OfficeServices ---------------------------
(***************************************************************************)
(* `ai-office service install | status | uninstall`: the two per-user      *)
(* services (Runtime host and dashboard), the definition files AI Office   *)
(* writes for them, and the service manager (systemd --user or launchd)    *)
(* that loads the files and runs the processes.                            *)
(*                                                                         *)
(* A definition file holds nothing, somebody else's text, or what plan n   *)
(* renders.  What the manager has loaded and what the running process was *)
(* started from are separate facts: a file that was rewritten says nothing *)
(* about either.  Every call to systemctl or launchctl may succeed, fail   *)
(* without effect, or fail (time bound, lost answer) after taking effect,  *)
(* and every inspection may come back without an answer.                   *)
(*                                                                         *)
(* Nobody edits the definition files while a command runs; between         *)
(* commands the operator deletes, replaces and disables what they like,    *)
(* and the program is updated (a new plan).  The CLI may die at any step.  *)
(***************************************************************************)
EXTENDS Integers, Sequences, FiniteSets

CONSTANTS MaxPlan,          \* plans (program versions) a run sees
          MaxTampering,     \* operator changes to files and enablement
          MaxCommands       \* install / uninstall / status invocations

ASSUME ServiceBounds == /\ MaxPlan \in Nat \ {0}
                        /\ MaxTampering \in Nat
                        /\ MaxCommands \in Nat

VARIABLES manager,      \* "systemd" or "launchd"
          planned,      \* the plan the installed program renders
          defn,         \* what is at each definition path
          loaded,       \* what the manager has loaded for each service
          leaving,      \* launchd jobs whose bootout is still in progress
          proc,      \* what each running process was started from
          enabled,      \* whether the manager starts the service by itself
          svc,          \* the command that is running
          verdict,      \* what the last finished command told the operator
          tampered,     \* services whose file the operator deleted or replaced
          tampering, commands

serviceVars == <<manager, planned, defn, loaded, leaving, proc, enabled,
                 svc, verdict, tampered, tampering, commands>>

officeServiceNames == <<"runtime", "dashboard">>
Services == {"runtime", "dashboard"}
(* Dashboard first: it stops before the Runtime it depends on.             *)
uninstallOrder == <<"dashboard", "runtime">>

Nothing == 0
Foreign == -1
Definitions == {Nothing, Foreign} \cup 1..MaxPlan

Idle == [op |-> "none", step |-> "none", todo |-> <<>>, unconverged |-> {},
         enableFailures |-> {}, issues |-> FALSE, removed |-> {},
         preserved |-> {}, found |-> [s \in Services |-> Nothing], entries |-> {}, told |-> TRUE]

NoVerdict == [outcome |-> "none", before |-> [s \in Services |-> Nothing]]

(* The text at a path against what the current plan renders: ownership is  *)
(* the header of the file, naming AI Office and the service.               *)
classifyManagedDefinition(existing) ==
  CASE existing = Nothing -> "missing"
    [] existing = Foreign -> "unmanaged_collision"
    [] existing = planned -> "managed_current"
    [] OTHER -> "managed_outdated"

classify(s) == classifyManagedDefinition(defn[s])

ServicesInit ==
  /\ manager \in {"systemd", "launchd"}
  /\ planned = 1
  /\ defn = [s \in Services |-> Nothing]
  /\ loaded = [s \in Services |-> Nothing]
  /\ leaving = {}
  /\ proc = [s \in Services |-> Nothing]
  /\ enabled = [s \in Services |-> manager = "launchd"]
  /\ svc = Idle
  /\ verdict = NoVerdict
  /\ tampered = {}
  /\ tampering = 0
  /\ commands = 0

running == svc.op # "none"

machine == <<manager, planned, tampered, tampering, commands>>

(***************************************************************************)
(* What the adapters read                                                  *)
(***************************************************************************)

(* `systemctl show`: an answer, or none.  systemd loads a unit it does not *)
(* have on demand, so a unit whose file exists is never "not-found".       *)
inspect(s) ==
  {[known |-> FALSE, registered |-> FALSE, enabled |-> FALSE, active |-> FALSE],
   [known |-> TRUE,
    registered |-> loaded[s] # Nothing \/ defn[s] # Nothing,
    enabled |-> enabled[s],
    active |-> proc[s] # Nothing]}

provablyNotRunning(evidence) == ~evidence.active

(* `launchctl print`: the job, launchd's words for a label it does not     *)
(* know, or any other failure, which says nothing about the label.         *)
launchctlPrint(isLoaded) ==
  {IF isLoaded THEN "job" ELSE "could not find service", "another failure"}

launchdPrintIndicatesAbsence(result) == result = "could not find service"

registrationOf(result) ==
  IF result = "job" THEN "registered"
  ELSE IF launchdPrintIndicatesAbsence(result) THEN "absent" ELSE "unknown"

registration(s) == {registrationOf(r) : r \in launchctlPrint(loaded[s] # Nothing)}

(* The reads after a bootout, spaced by a delay: the last one counts.  A   *)
(* job still leaving reads as registered.                                  *)
waitUntilUnregistered(isLoaded) == {registrationOf(r) : r \in launchctlPrint(isLoaded)}

(* The one call that can end before anything is written: is there a        *)
(* manager to talk to?                                                     *)
probeManager == BOOLEAN

(***************************************************************************)
(* Commands                                                                *)
(***************************************************************************)

beginCommand(op, step, order) ==
  svc' = [Idle EXCEPT !.op = op, !.step = step, !.todo = order, !.found = defn]

finish(outcome) ==
  /\ svc' = Idle
  /\ verdict' = [outcome |-> outcome, before |-> svc.found]

(* Every loop visits both services, then the command's next step begins.   *)
moveOn(record, next, order) ==
  IF Tail(record.todo) # <<>> THEN [record EXCEPT !.todo = Tail(@)]
  ELSE [record EXCEPT !.step = next, !.todo = order]

(* The command line accepts three subcommands and builds the plan; both    *)
(* managers validate it (absolute launcher and home, loopback host, port,  *)
(* nothing that cannot be rendered) before they look at anything.          *)
validateOfficeServicePlan == BOOLEAN

PlanRejected ==
  /\ ~running /\ commands < MaxCommands
  /\ FALSE \in validateOfficeServicePlan
  /\ commands' = commands + 1
  /\ verdict' = [outcome |-> "refused", before |-> defn]
  /\ UNCHANGED <<manager, planned, tampered, tampering, defn, loaded, leaving,
                 proc, enabled, svc>>

(* What a plan renders: one text per service, deterministic, its header    *)
(* carrying the ownership lines, its body the launcher and environment.    *)
renderDefinition(s) == planned

(* A collision on the second path must not leave the first one installed.  *)
Install ==
  /\ ~running /\ commands < MaxCommands
  /\ commands' = commands + 1
  /\ UNCHANGED <<manager, planned, tampered, tampering, defn, loaded, leaving,
                 proc, enabled>>
  /\ \/ /\ TRUE \in probeManager
        /\ \A s \in Services : classify(s) # "unmanaged_collision"
        /\ beginCommand("install", "write", officeServiceNames)
        /\ verdict' = NoVerdict
     \/ /\ \/ FALSE \in probeManager
           \/ \E s \in Services : classify(s) = "unmanaged_collision"
        /\ verdict' = [outcome |-> "refused", before |-> defn]
        /\ UNCHANGED svc

(* The file appears whole (temporary file and rename) or, when the disk    *)
(* refuses, not at all and the command ends with the error.                *)
InstallWrite ==
  /\ svc.op = "install" /\ svc.step = "write"
  /\ LET s == Head(svc.todo)
         after == IF manager = "systemd" THEN "reload" ELSE "enable"
     IN \/ /\ classify(s) = "unmanaged_collision"
           /\ UNCHANGED defn
           /\ finish("refused")
        \/ /\ classify(s) = "managed_current"
           /\ svc' = moveOn(svc, after, officeServiceNames)
           /\ UNCHANGED <<defn, verdict>>
        \/ /\ classify(s) \in {"missing", "managed_outdated"}
           /\ defn' = [defn EXCEPT ![s] = renderDefinition(s)]
           /\ svc' = moveOn(svc, after, officeServiceNames)
           /\ UNCHANGED verdict
        \/ /\ classify(s) \in {"missing", "managed_outdated"}
           /\ UNCHANGED defn
           /\ finish("error")
  /\ UNCHANGED <<machine, loaded, leaving, proc, enabled>>

(* systemd: `daemon-reload`.  When it fails nothing is known to be loaded, *)
(* and neither enable nor restart is attempted.                            *)
InstallReload ==
  /\ svc.op = "install" /\ svc.step = "reload"
  /\ \E works, answered \in BOOLEAN :
       /\ answered => works
       /\ loaded' = IF works THEN defn ELSE loaded
       /\ svc' = IF answered
                 THEN [svc EXCEPT !.step = "enable", !.todo = officeServiceNames]
                 ELSE [svc EXCEPT !.step = "status", !.todo = officeServiceNames,
                                  !.issues = TRUE, !.unconverged = Services]
  /\ UNCHANGED <<machine, defn, leaving, proc, enabled, verdict>>

(* Both managers: make the service start by itself.                        *)
InstallEnable ==
  /\ svc.op = "install" /\ svc.step = "enable"
  /\ \E works, answered \in BOOLEAN :
       LET s == Head(svc.todo)
           noted == IF answered THEN svc
                    ELSE [svc EXCEPT !.issues = TRUE,
                                     !.enableFailures = @ \cup {s}]
       IN /\ answered => works
          /\ enabled' = IF works THEN [enabled EXCEPT ![s] = TRUE] ELSE enabled
          /\ svc' = moveOn(noted, "converge", officeServiceNames)
  /\ UNCHANGED <<machine, defn, loaded, leaving, proc, verdict>>

(* systemd: `restart`, never `enable --now`: a running process is brought *)
(* to what was just loaded.  A service may also come up and die at once.   *)
restart(s) == {loaded[s], Nothing}

unconvergedAfter(record, s, converged) ==
  IF converged THEN record
  ELSE [record EXCEPT !.issues = TRUE, !.unconverged = @ \cup {s}]

InstallRestart ==
  /\ manager = "systemd" /\ svc.op = "install" /\ svc.step = "converge"
  /\ LET s == Head(svc.todo)
     IN \E started \in {proc[s]} \cup restart(s), answered \in BOOLEAN :
          /\ answered => started \in restart(s)
          /\ proc' = [proc EXCEPT ![s] = started]
          /\ svc' = moveOn(unconvergedAfter(svc, s, answered), "status",
                           officeServiceNames)
  /\ UNCHANGED <<machine, defn, loaded, leaving, enabled, verdict>>

(* launchd: every job is booted out and bootstrapped again, whether or not *)
(* its plist changed.  A bootout may take effect at once, later or never;  *)
(* only a positive "absent" lets the new job be bootstrapped.              *)
InstallBootstrap ==
  /\ manager = "launchd" /\ svc.op = "install" /\ svc.step = "converge"
  /\ LET s == Head(svc.todo)
         next(converged) == moveOn(unconvergedAfter(svc, s, converged),
                                   "status", officeServiceNames)
     IN \E before \in registration(s) :
          \/ /\ before = "unknown"
             /\ svc' = next(FALSE)
             /\ UNCHANGED <<loaded, leaving, proc>>
          \/ /\ before = "registered"
             /\ \E effect \in {"left", "leaving", "ignored"} :
                  \E settled \in waitUntilUnregistered(effect # "left") :
                    /\ settled # "absent"
                    /\ svc' = next(FALSE)
                    /\ leaving' = IF effect = "leaving" THEN leaving \cup {s}
                                  ELSE leaving \ (IF effect = "left" THEN {s} ELSE {})
                    /\ loaded' = IF effect = "left"
                                 THEN [loaded EXCEPT ![s] = Nothing] ELSE loaded
                    /\ proc' = IF effect = "left"
                                  THEN [proc EXCEPT ![s] = Nothing] ELSE proc
          \/ /\ before \in {"registered", "absent"}
             /\ leaving' = leaving \ {s}
             /\ \E bootstrapped, answered, seen \in BOOLEAN :
                  /\ answered => bootstrapped
                  /\ bootstrapped => enabled[s]
                  /\ loaded' = [loaded EXCEPT ![s] =
                                  IF bootstrapped THEN defn[s] ELSE Nothing]
                  /\ \E up \in {Nothing} \cup
                               (IF bootstrapped THEN {defn[s]} ELSE {}) :
                       proc' = [proc EXCEPT ![s] = up]
                  /\ svc' = next(answered /\ seen)
  /\ UNCHANGED <<machine, defn, enabled, verdict>>

(***************************************************************************)
(* Status: what the manager says now, withheld where the install knows     *)
(* better.  `standalone` status has observed nothing.                      *)
(***************************************************************************)

stateFromActiveState(isActive) ==
  IF isActive THEN {"running", "unknown"} ELSE {"installed_inactive", "failed"}

entryOf(s, isRegistered, enablement, normalized) ==
  [service |-> s, definition |-> classify(s),
   registered |-> isRegistered, enabled |-> enablement,
   state |-> IF s \in svc.unconverged /\ normalized = "running"
             THEN "unknown" ELSE normalized]

unknownEntry(s, enablement) ==
  [service |-> s, definition |-> classify(s), registered |-> "unknown",
   enabled |-> enablement, state |-> "unknown"]

yesNo(b) == IF b THEN "yes" ELSE "no"

systemdStatus(s) ==
  UNION {IF ~e.known THEN {unknownEntry(s, "unknown")}
         ELSE {entryOf(s, yesNo(e.registered), yesNo(e.enabled),
                       IF ~e.registered THEN "not_installed" ELSE normalized) :
                 normalized \in stateFromActiveState(e.active)} : e \in inspect(s)}

(* The override database is a fact about the label; a failed `enable`      *)
(* withholds "yes" but not "no".                                           *)
launchdEnablement(s, overridesRead) ==
  IF ~overridesRead THEN "unknown"
  ELSE IF s \in svc.enableFailures /\ enabled[s] THEN "unknown"
  ELSE yesNo(enabled[s])

stateFromRegistration(s) ==
  IF loaded[s] = Nothing
  THEN {IF classify(s) = "missing" THEN "not_installed" ELSE "installed_inactive"}
  ELSE IF proc[s] # Nothing THEN {"running"}
  ELSE {"failed", "installed_inactive", "unknown"}

launchdStatus(s) ==
  {unknownEntry(s, launchdEnablement(s, read)) : read \in BOOLEAN} \cup
  {entryOf(s, yesNo(loaded[s] # Nothing), launchdEnablement(s, read), normalized) :
     read \in BOOLEAN, normalized \in stateFromRegistration(s)}

buildStatus(s) == IF manager = "systemd" THEN systemdStatus(s) ELSE launchdStatus(s)

(* A foreign file, an orphaned registration, a disabled override and an    *)
(* unreadable launchd answer are issues.                                   *)
entryIssue(e) ==
  \/ e.definition = "unmanaged_collision"
  \/ e.definition = "missing" /\ e.registered = "yes"
  \/ manager = "launchd" /\ (e.enabled \in {"no", "unknown"} \/ e.registered = "unknown")

officeServiceHealthy(e) ==
  /\ e.definition = "managed_current"
  /\ e.registered = "yes"
  /\ e.enabled = "yes"
  /\ e.state = "running"

officeServicesHealthy(entries) ==
  \A s \in Services : \E e \in entries : e.service = s /\ officeServiceHealthy(e)

installOutcome(entries, issues) ==
  IF officeServicesHealthy(entries) /\ ~issues THEN "installed" ELSE "partial"

statusExitCode(entries, issues) ==
  IF officeServicesHealthy(entries) /\ ~issues THEN "healthy" ELSE "unhealthy"

Status ==
  /\ ~running /\ commands < MaxCommands
  /\ commands' = commands + 1
  /\ beginCommand("status", "status", officeServiceNames)
  /\ verdict' = NoVerdict
  /\ UNCHANGED <<manager, planned, tampered, tampering, defn, loaded, leaving,
                 proc, enabled>>

(* One service's entry; after the last one the command reports.            *)
StatusEntry ==
  /\ svc.op \in {"install", "status"} /\ svc.step = "status"
  /\ \E e \in buildStatus(Head(svc.todo)) :
       LET entries == svc.entries \cup {e}
           issues == svc.issues \/ entryIssue(e)
       IN IF Tail(svc.todo) # <<>>
          THEN /\ svc' = [svc EXCEPT !.entries = entries, !.issues = issues,
                                     !.todo = Tail(@)]
               /\ UNCHANGED verdict
          ELSE finish(IF svc.op = "install" THEN installOutcome(entries, issues)
                      ELSE statusExitCode(entries, issues))
  /\ UNCHANGED <<machine, defn, loaded, leaving, proc, enabled>>

(***************************************************************************)
(* Uninstall                                                               *)
(***************************************************************************)

(* Without a manager nothing can be shown to have stopped, and no          *)
(* definition is removed.                                                  *)
Uninstall ==
  /\ ~running /\ commands < MaxCommands
  /\ commands' = commands + 1
  /\ UNCHANGED <<manager, planned, tampered, tampering, defn, loaded, leaving,
                 proc, enabled>>
  /\ \/ /\ TRUE \in probeManager
        /\ beginCommand("uninstall", "remove", uninstallOrder)
        /\ verdict' = NoVerdict
     \/ /\ FALSE \in probeManager
        /\ verdict' = [outcome |-> "partial", before |-> defn]
        /\ UNCHANGED svc

uninstallOutcome(record) ==
  IF ~record.issues /\ record.preserved = {} THEN "uninstalled"
  ELSE IF record.removed # {} \/ record.preserved # {} THEN "partial" ELSE "failed"

keep(record, s) == [record EXCEPT !.issues = TRUE, !.preserved = @ \cup {s}]
drop(record, s) == [record EXCEPT !.removed = @ \cup {s}]

(* systemd reloads after a removal; launchd has nothing left to do.        *)
uninstalled(record) == svc' = moveOn(record, "settle", uninstallOrder)

UninstallForeign ==
  /\ svc.op = "uninstall" /\ svc.step = "remove"
  /\ classify(Head(svc.todo)) = "unmanaged_collision"
  /\ uninstalled(keep(svc, Head(svc.todo)))
  /\ UNCHANGED <<machine, defn, loaded, leaving, proc, enabled, verdict>>

(* No file of ours: nothing may be disabled, but a service the manager     *)
(* still knows is reported.  systemd's missing answer is passed over.      *)
UninstallMissing ==
  /\ svc.op = "uninstall" /\ svc.step = "remove"
  /\ LET s == Head(svc.todo)
     IN /\ classify(s) = "missing"
        /\ \/ /\ manager = "systemd"
              /\ \E e \in inspect(s) :
                   uninstalled([svc EXCEPT !.issues =
                     @ \/ (e.known /\ (e.registered \/ e.enabled))])
           \/ /\ manager = "launchd"
              /\ \E r \in registration(s) :
                   uninstalled([svc EXCEPT !.issues = @ \/ r # "absent"])
  /\ UNCHANGED <<machine, defn, loaded, leaving, proc, enabled, verdict>>

mayRemove(answered, after) ==
  after.known /\ provablyNotRunning(after) /\ ~after.enabled

UninstallDisable ==
  /\ manager = "systemd" /\ svc.op = "uninstall" /\ svc.step = "disable"
  /\ LET s == Head(svc.todo)
     IN \E disabled, stopped, answered \in BOOLEAN :
          /\ enabled' = IF disabled THEN [enabled EXCEPT ![s] = FALSE] ELSE enabled
          /\ proc' = IF stopped THEN [proc EXCEPT ![s] = Nothing] ELSE proc
          /\ svc' = [svc EXCEPT !.step = "inspect", !.told = answered,
                                !.issues = @ \/ ~answered]
  /\ UNCHANGED <<machine, defn, loaded, leaving, verdict>>

UninstallManaged ==
  /\ manager = "systemd" /\ svc.op = "uninstall" /\ svc.step = "remove"
  /\ classify(Head(svc.todo)) \in {"managed_current", "managed_outdated"}
  /\ svc' = [svc EXCEPT !.step = "disable"]
  /\ UNCHANGED <<machine, defn, loaded, leaving, proc, enabled, verdict>>

UninstallInspect ==
  /\ manager = "systemd" /\ svc.op = "uninstall" /\ svc.step = "inspect"
  /\ LET s == Head(svc.todo)
         onward == [svc EXCEPT !.step = "remove"]
     IN \E after \in inspect(s) :
          \/ /\ mayRemove(svc.told, after)
             /\ defn' = [defn EXCEPT ![s] = Nothing]
             /\ uninstalled(drop(onward, s))
          \/ /\ ~mayRemove(svc.told, after)
             /\ uninstalled(keep(onward, s))
             /\ UNCHANGED defn
  /\ UNCHANGED <<machine, loaded, leaving, proc, enabled, verdict>>

(* launchd: the plist goes only once launchd has said the job is absent.   *)
gone(answer) == answer = "absent"

UninstallBootout ==
  /\ manager = "launchd" /\ svc.op = "uninstall" /\ svc.step = "remove"
  /\ LET s == Head(svc.todo)
     IN /\ classify(s) \in {"managed_current", "managed_outdated"}
        /\ \E before \in registration(s) :
             \/ /\ before # "registered"
                /\ UNCHANGED <<loaded, leaving, proc>>
                /\ IF gone(before)
                   THEN /\ defn' = [defn EXCEPT ![s] = Nothing]
                        /\ uninstalled(drop(svc, s))
                   ELSE UNCHANGED defn /\ uninstalled(keep(svc, s))
             \/ /\ before = "registered"
                /\ \E effect \in {"left", "leaving", "ignored"} :
                     \E settled \in waitUntilUnregistered(effect # "left") :
                       /\ leaving' = IF effect = "leaving" THEN leaving \cup {s}
                                     ELSE leaving \ (IF effect = "left" THEN {s} ELSE {})
                       /\ loaded' = IF effect = "left"
                                    THEN [loaded EXCEPT ![s] = Nothing] ELSE loaded
                       /\ proc' = IF effect = "left"
                                     THEN [proc EXCEPT ![s] = Nothing] ELSE proc
                       /\ IF gone(settled)
                          THEN /\ defn' = [defn EXCEPT ![s] = Nothing]
                               /\ uninstalled(drop(svc, s))
                          ELSE UNCHANGED defn /\ uninstalled(keep(svc, s))
  /\ UNCHANGED <<machine, enabled, verdict>>

(* The last call of an uninstall: systemd reloads when a file was removed. *)
UninstallSettle ==
  /\ svc.op = "uninstall" /\ svc.step = "settle"
  /\ UNCHANGED <<machine, defn, leaving, proc, enabled>>
  /\ \/ /\ manager = "systemd" /\ svc.removed # {}
        /\ \E works, answered \in BOOLEAN :
             /\ answered => works
             /\ loaded' = IF works THEN defn ELSE loaded
             /\ finish(uninstallOutcome([svc EXCEPT !.issues = @ \/ ~answered]))
     \/ /\ manager = "launchd" \/ svc.removed = {}
        /\ UNCHANGED loaded
        /\ finish(uninstallOutcome(svc))

(***************************************************************************)
(* What happens around the commands                                        *)
(***************************************************************************)

(* The CLI is killed between two calls.                                    *)
CliDies ==
  /\ running
  /\ finish("error")
  /\ UNCHANGED <<machine, defn, loaded, leaving, proc, enabled>>

(* A service process dies; the manager starts it again from what it has  *)
(* loaded (Restart=, KeepAlive), or gives up.                              *)
ProcessDies(s) ==
  /\ proc[s] # Nothing
  /\ proc' = [proc EXCEPT ![s] = Nothing]
  /\ UNCHANGED <<machine, defn, loaded, leaving, enabled, svc, verdict>>

ManagerRestarts(s) ==
  /\ ~running
  /\ proc[s] = Nothing /\ loaded[s] # Nothing /\ enabled[s]
  /\ proc' = [proc EXCEPT ![s] = loaded[s]]
  /\ UNCHANGED <<machine, defn, loaded, leaving, enabled, svc, verdict>>

(* A bootout that outlived the wait completes.                             *)
LateUnload(s) ==
  /\ s \in leaving
  /\ leaving' = leaving \ {s}
  /\ loaded' = [loaded EXCEPT ![s] = Nothing]
  /\ proc' = [proc EXCEPT ![s] = Nothing]
  /\ UNCHANGED <<machine, defn, enabled, svc, verdict>>

(* The program is updated: it now renders another plan.                    *)
UpdateProgram ==
  /\ ~running /\ planned < MaxPlan
  /\ planned' = planned + 1
  /\ verdict' = NoVerdict
  /\ UNCHANGED <<manager, defn, loaded, leaving, proc, enabled, svc,
                 tampered, tampering, commands>>

(* The operator deletes a definition, puts a file of their own in its      *)
(* place, or disables the service.                                         *)
Tamper(s) ==
  /\ ~running /\ tampering < MaxTampering
  /\ tampering' = tampering + 1
  /\ verdict' = NoVerdict
  /\ \/ /\ defn[s] # Nothing
        /\ defn' = [defn EXCEPT ![s] = Nothing]
        /\ tampered' = tampered \cup {s}
        /\ UNCHANGED enabled
     \/ /\ defn' = [defn EXCEPT ![s] = Foreign]
        /\ tampered' = tampered \cup {s}
        /\ UNCHANGED enabled
     \/ /\ enabled[s]
        /\ enabled' = [enabled EXCEPT ![s] = FALSE]
        /\ UNCHANGED <<defn, tampered>>
  /\ UNCHANGED <<manager, planned, loaded, leaving, proc, svc, commands>>

ServicesNext ==
  \/ PlanRejected \/ Install \/ InstallWrite \/ InstallReload \/ InstallEnable
  \/ InstallRestart \/ InstallBootstrap \/ Status \/ StatusEntry
  \/ Uninstall \/ UninstallForeign \/ UninstallMissing \/ UninstallManaged
  \/ UninstallDisable \/ UninstallInspect \/ UninstallBootout \/ UninstallSettle
  \/ CliDies \/ UpdateProgram
  \/ \E s \in Services :
       ProcessDies(s) \/ ManagerRestarts(s) \/ LateUnload(s) \/ Tamper(s)

ServicesSpec == ServicesInit /\ [][ServicesNext]_serviceVars

(***************************************************************************)
(* Properties                                                              *)
(***************************************************************************)

(* The shape of the state.                                                 *)
ServicesTypeOK ==
  /\ manager \in {"systemd", "launchd"}
  /\ planned \in 1..MaxPlan
  /\ defn \in [Services -> Definitions]
  /\ loaded \in [Services -> Definitions]
  /\ proc \in [Services -> Definitions]
  /\ enabled \in [Services -> BOOLEAN]
  /\ leaving \subseteq {s \in Services : loaded[s] # Nothing}
  /\ svc.todo \in Seq(Services)
  /\ svc.op # "none" => svc.todo # <<>>
  /\ verdict.outcome \in {"none", "refused", "error", "installed", "partial",
                          "healthy", "unhealthy", "uninstalled", "failed"}

(* An install that reports "installed" has brought the manager and the     *)
(* processes to the definitions on disk: no process runs an older plan   *)
(* (one may have died since), whatever failed on the way.                  *)
InstalledMeansConverged ==
  verdict.outcome = "installed" =>
    \A s \in Services :
      /\ defn[s] = planned
      /\ proc[s] \in {Nothing, planned}
      /\ loaded[s] \in {Nothing, planned}
      /\ enabled[s]

(* The file is the only evidence that AI Office owns a service.  Unless    *)
(* the operator took it away, a service without a file has no process, no *)
(* launchd job and no systemd enablement.                                  *)
NothingOrphaned ==
  \A s \in Services \ tampered :
    defn[s] = Nothing =>
      /\ proc[s] = Nothing
      /\ manager = "launchd" => loaded[s] = Nothing
      /\ manager = "systemd" => ~enabled[s]

(* A refused install has changed no definition, neither the one that       *)
(* collided nor the one that did not.                                      *)
RefusalWritesNothing ==
  verdict.outcome = "refused" => verdict.before = defn

(* "uninstalled" is the truth for every service whose file AI Office was   *)
(* still in charge of: no file, no process, nothing that comes back.     *)
CleanUninstall ==
  verdict.outcome = "uninstalled" =>
    \A s \in Services :
      /\ defn[s] = Nothing
      /\ s \notin tampered => proc[s] = Nothing

(* What a service command says is true of files, manager and processes,    *)
(* and nothing runs that no file accounts for.                             *)
ServicesSafety ==
  /\ ServicesTypeOK /\ InstalledMeansConverged /\ NothingOrphaned
  /\ RefusalWritesNothing /\ CleanUninstall

=============================================================================
