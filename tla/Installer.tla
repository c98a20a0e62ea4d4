----------------------------- MODULE Installer -----------------------------
(***************************************************************************)
(* cirrusync-install.sh: installation, upgrade, reconfiguration, new unit    *)
(* and uninstallation, with the transaction that protects what was there     *)
(* before.  Between any two steps a command may fail or a signal arrive,     *)
(* which runs the EXIT trap, and the installer may be killed, which runs     *)
(* nothing.                                                                  *)
(*                                                                           *)
(* A file is a number: None, for the binary its release, otherwise the run   *)
(* that wrote it.  Owners, modes and access lists are left out.              *)
(***************************************************************************)
EXTENDS Naturals, Sequences

CONSTANTS
  CustomPath, \* CONFIG_PATH is not the default one
  MaxRelease, \* the releases are 1..MaxRelease
  MaxRuns,    \* bound: runs of the installer
  MaxFaults   \* bound: failing steps, kills, crashes of the service

ASSUME InstallerAssumption ==
  /\ CustomPath \in BOOLEAN
  /\ MaxRelease \in Nat \ {0}
  /\ MaxRuns \in Nat
  /\ MaxFaults \in Nat

None == 0
File == {"binary", "unit", "override", "config", "token"}
Release == 1..MaxRelease
Content == 0..(MaxRelease + MaxRuns + 1)
FileSet == [File -> Content]
Enablement == {"enabled", "enabled-runtime", "disabled"}

VARIABLES
  live,    \* the managed files
  src,     \* the release of the tree at SOURCE_DIR
  trees,   \* the source trees moved aside, at *.rollback.* and *.failed.*
  dirs,    \* which of CONFIG_DIR and STATE_DIR exist
  ids,     \* which of SERVICE_USER and SERVICE_GROUP exist
  rdir,    \* ROLLBACK_DIR: {}, or the set of its snapshot
  kept,    \* the snapshots that earlier runs left behind
  loaded,  \* systemd: unit and override as of the last daemon-reload
  running, \* systemd: {}, or the set of the files the service was started with
  enabled, \* systemd: enablement of the service
  todo,    \* the steps the installer has still to take
  sh,      \* the variables of the script
  good,    \* history: the file sets that ran at first or passed validation
  committed, \* history: files and source of the last committed installation
  before,  \* history: what this run found
  stuck,   \* history: new files that a rollback could not remove
  runs, faults \* counters for the bounds

disk == <<live, src, trees, dirs, ids>>
recovery == <<rdir, kept>>
systemd == <<loaded, running, enabled>>
history == <<good, committed, before, stuck>>
vars == <<disk, recovery, systemd, todo, sh, history, runs, faults>>

-----------------------------------------------------------------------------
(* The order of the steps *)

\* begin_transaction, create_service_account
Prologue == <<"snapshot", "begin", "stop", "group", "user", "dirs">>

\* install_systemd_unit, validate_configuration, start_service
Deployment == <<"unit", "override", "validate", "reload", "enable", "restart", "health">>

\* commit_transaction, and the EXIT trap
Epilogue == <<"commit", "dropTree", "dropSnapshot", "cleanup">>

Configuration == <<"token", "config">>
Promotion == <<"moveAside", "promote", "promoted">>

\* uninstall, and the EXIT trap
Removal ==
  <<"quiesce", "disable", "remove", "unload", "secrets", "identity", "source", "cleanup">>

Upgrade == Prologue \o Configuration \o <<"binary">> \o Deployment \o Promotion \o Epilogue

\* main: the steps of each action
Program ==
  [install |-> Upgrade,
   update |-> Upgrade,
   reconfigure |-> Prologue \o Configuration \o Deployment \o Epilogue,
   unit |-> Prologue \o Deployment \o Epilogue,
   uninstall |-> Removal]

\* rollback_transaction, and the rest of the EXIT trap
Rollback ==
  <<"rb quiesce", "rb token", "rb config", "rb binary", "rb unit", "rb override",
    "rb moveFailed", "rb source", "rb dropFailed", "rb configDir", "rb stateDir",
    "rb user", "rb group", "rb reload", "rb enablement", "rb restart", "rb finish",
    "cleanup">>

Restores ==
  [token |-> "rb token", config |-> "rb config", binary |-> "rb binary",
   unit |-> "rb unit", override |-> "rb override"]

Removes == [user |-> "rb user", group |-> "rb group"]

At(step) == todo # <<>> /\ Head(todo) = step
Done == todo # <<>> /\ todo' = Tail(todo)
RollingBack ==
  todo # <<>> /\ \E i \in 1..(Len(Rollback) - 1) : Head(todo) = Rollback[i]

-----------------------------------------------------------------------------
(* The script's variables, and the choice of an action *)

\* What the script knows when it starts.
Fresh ==
  [action |-> "exit", candidate |-> None, incomplete |-> FALSE, blind |-> FALSE,
   active |-> FALSE,        \* TRANSACTION_ACTIVE
   wasActive |-> FALSE, enablement |-> "disabled", ids |-> {}, dirs |-> {},
   hadSource |-> FALSE, backup |-> None, promoted |-> FALSE,
   failedTree |-> None,     \* failed_source
   deleted |-> FALSE,       \* configuration_deleted
   failed |-> FALSE, retain |-> FALSE, preserve |-> FALSE]

Nothing == [f \in File |-> None]
Installed == {[Nothing EXCEPT !.binary = v, !.unit = 1, !.config = 1, !.token = 1,
                              !.override = IF CustomPath THEN 1 ELSE None] : v \in Release}

Init ==
  /\ \/ /\ live = Nothing
        /\ src = None /\ dirs = {} /\ ids = {}
        /\ running = {} /\ enabled = "disabled"
     \/ /\ live \in Installed
        /\ src = live.binary
        /\ dirs = {"config", "state"} /\ ids = {"user", "group"}
        /\ running \in {{}, {live}} /\ enabled \in Enablement
  /\ trees = {} /\ rdir = {} /\ kept = {}
  /\ loaded = [unit |-> live.unit, override |-> live.override]
  /\ todo = <<>> /\ sh = Fresh
  /\ good = running
  /\ committed = [live |-> live, src |-> src]
  /\ before = committed
  /\ stuck = {}
  /\ runs = 0 /\ faults = 0

\* basic_installation_artifacts_are_present
ArtifactsPresent ==
  /\ \A f \in File \ {"override"} : live[f] # None
  /\ (live.override # None) = CustomPath

\* managed_installation_is_complete
Complete ==
  /\ ArtifactsPresent
  /\ ids = {"user", "group"} /\ dirs = {"config", "state"}
  /\ running # {} /\ enabled = "enabled"
  /\ loaded = [unit |-> live.unit, override |-> live.override]

\* choose_action: some artifacts are there and others are missing.
Partial(action) ==
  /\ ~ArtifactsPresent
  /\ action = "update" \/ \E f \in {"binary", "unit", "config"} : live[f] # None

\* mark_incomplete_installation_if_needed
Incomplete(action) == IF action = "update" THEN ~Complete ELSE Partial(action)

\* Mutant of Floor: the source that an uninstallation left is not looked at.
BinaryFloor(blind) == IF blind THEN src ELSE live.binary

\* evaluate_upgrade_candidate: the higher of the versions that can be read.
Floor(blind) == IF blind \/ src > live.binary THEN src ELSE live.binary

\* evaluate_upgrade_candidate: is `candidate' installed?  `blind' says that the
\* installed binary does not tell its version.  An equal release is only
\* installed to repair something, or when forced.
Accepts(candidate, force, blind, incomplete) ==
  /\ blind => live.binary # None /\ force /\ src # None
  /\ Floor(blind) = None => ~incomplete
  /\ candidate >= Floor(blind)
  /\ candidate = Floor(blind) =>
       force \/ incomplete \/ src = None \/ live.binary # src

\* choose_action with parse_arguments: what may be selected, and what main demands.
Selectable(action) ==
  CASE action = "install" -> ~ArtifactsPresent
    [] action = "update" -> TRUE
    [] action = "reconfigure" -> live.binary # None /\ src # None
    [] action = "unit" -> live.binary # None /\ live.config # None /\ src # None
    [] action = "uninstall" -> TRUE

\* The script is started: it takes the installer lock, so there is only one, and
\* chooses its action.  A refusal or "already current" changes nothing and is left
\* out.  Configuration is only accepted by an upgrade that finds artifacts missing.
Start ==
  /\ todo = <<>> /\ runs < MaxRuns
  /\ runs' = runs + 1
  /\ before' = [live |-> live, src |-> src]
  /\ \E action \in DOMAIN Program, candidate \in Release, force, blind \in BOOLEAN :
       LET upgrades == action \in {"install", "update"}
       IN  /\ Selectable(action)
           /\ force => action = "update"
           /\ IF upgrades THEN Accepts(candidate, force, blind, Incomplete(action))
              ELSE candidate = 1 /\ ~blind
           /\ blind => faults < MaxFaults
           /\ faults' = IF blind THEN faults + 1 ELSE faults
           /\ sh' = [Fresh EXCEPT !.action = action, !.blind = blind,
                                  !.incomplete = Partial(action),
                                  !.candidate = IF upgrades THEN candidate ELSE None]
           /\ todo' = Program[action]
  /\ UNCHANGED <<disk, recovery, systemd, good, committed, stuck>>

-----------------------------------------------------------------------------
(* The steps of a transaction *)

\* begin_transaction: snapshot_path for each file
Snapshot ==
  /\ At("snapshot") /\ Done
  /\ rdir' = {live}
  /\ UNCHANGED <<disk, kept, systemd, sh, history, runs, faults>>

\* begin_transaction: the state of accounts, directories and service is recorded,
\* and from here on a failure rolls back.
Begin ==
  /\ At("begin") /\ Done
  /\ sh' = [sh EXCEPT !.active = TRUE, !.wasActive = (running # {}),
                      !.enablement = enabled, !.ids = ids, !.dirs = dirs]
  /\ UNCHANGED <<disk, recovery, systemd, history, runs, faults>>

\* Mutant of Stop: the service keeps running while its files are replaced.
LeaveRunning ==
  /\ At("stop") /\ Done
  /\ UNCHANGED <<disk, recovery, systemd, sh, history, runs, faults>>

\* begin_transaction: the service is stopped before anything is replaced.
Stop ==
  /\ At("stop") /\ Done
  /\ running' = {}
  /\ UNCHANGED <<disk, recovery, loaded, enabled, sh, history, runs, faults>>

\* create_service_account: group, user, and the two directories
CreateAccount ==
  /\ \/ At("group") /\ ids' = ids \cup {"group"} /\ UNCHANGED dirs
     \/ At("user") /\ ids' = ids \cup {"user"} /\ UNCHANGED dirs
     \/ At("dirs") /\ dirs' = {"config", "state"} /\ UNCHANGED ids
  /\ Done
  /\ UNCHANGED <<live, src, trees, recovery, systemd, sh, history, runs, faults>>

Put(f, content) ==
  /\ Done
  /\ live' = [live EXCEPT ![f] = content]
  /\ UNCHANGED <<src, trees, dirs, ids, recovery, systemd, sh, history, runs, faults>>

\* write_token, write_configuration: a file that is there is only replaced by a run
\* that reconfigures, repairs with explicit input, or finds no configuration.
MayReplace(f) ==
  sh.action = "reconfigure" \/ sh.incomplete \/ live.config = None \/ live[f] = None

\* write_configuration: the token, which may be kept, then the configuration.
WriteConfiguration ==
  \E f \in {"token", "config"} :
    /\ At(f)
    /\ \/ live[f] # None /\ (sh.action = "reconfigure" => f = "token") /\ Put(f, live[f])
       \/ MayReplace(f) /\ Put(f, runs + 1)

\* activate_binary
ActivateBinary == At("binary") /\ Put("binary", sh.candidate)

\* install_systemd_unit: the unit, then the drop-in, which only a CustomPath
\* configuration path needs.
InstallUnit ==
  \/ At("unit") /\ Put("unit", runs + 1)
  \/ At("override") /\ Put("override", IF CustomPath THEN runs + 1 ELSE None)

\* validate_configuration: the binary, the configuration and the token are there.
Checkable == \A f \in {"binary", "config", "token"} : live[f] # None

\* validate_configuration: `cirrusync check' passes with the new files.
Validate ==
  /\ At("validate") /\ Checkable /\ Done
  /\ good' = good \cup {live}
  /\ UNCHANGED <<disk, recovery, systemd, sh, committed, before, stuck, runs, faults>>

\* What `systemctl start' runs: files as they are, unit and drop-in as last loaded.
Started == [live EXCEPT !.unit = loaded.unit, !.override = loaded.override]

\* start_service, and the reload of uninstall
StartService ==
  /\ \/ /\ At("reload") \/ At("unload")
        /\ loaded' = [unit |-> live.unit, override |-> live.override]
        /\ UNCHANGED <<running, enabled>>
     \/ At("enable") /\ enabled' = "enabled" /\ UNCHANGED <<loaded, running>>
     \/ At("restart") /\ running' = {Started} /\ UNCHANGED <<loaded, enabled>>
     \/ At("health") /\ running # {} /\ UNCHANGED <<loaded, running, enabled>>
  /\ Done
  /\ UNCHANGED <<disk, recovery, sh, history, runs, faults>>

\* A source tree moved aside: the path, which names the run (BASHPID), and the
\* release of what is there.
Aside(suffix, release) == [suffix |-> suffix, run |-> runs, release |-> release]

\* promote_source: the old tree is moved aside, the staged one moved in, and the
\* script notes that it has done so.
PromoteSource ==
  /\ Done
  /\ \/ /\ At("moveAside")
        /\ trees' = IF src = None THEN trees ELSE trees \cup {Aside("rollback", src)}
        /\ src' = None
        /\ sh' = [sh EXCEPT !.backup = src, !.hadSource = (src # None)]
     \/ At("promote") /\ src' = sh.candidate /\ UNCHANGED <<trees, sh>>
     \/ At("promoted") /\ sh' = [sh EXCEPT !.promoted = TRUE] /\ UNCHANGED <<src, trees>>
  /\ UNCHANGED <<live, dirs, ids, recovery, systemd, history, runs, faults>>

\* commit_transaction: from here on nothing is rolled back.
Commit ==
  /\ At("commit") /\ Done
  /\ sh' = [sh EXCEPT !.active = FALSE]
  /\ committed' = [live |-> live, src |-> src]
  /\ stuck' = {}
  /\ UNCHANGED <<disk, recovery, systemd, good, before, runs, faults>>

\* commit_transaction: the old source and the snapshot are removed.
DropBackups ==
  /\ \/ /\ At("dropTree")
        /\ trees' = trees \ {Aside("rollback", sh.backup)}
        /\ UNCHANGED rdir
     \/ At("dropSnapshot") /\ rdir' = {} /\ UNCHANGED trees
  /\ Done
  /\ UNCHANGED <<live, src, dirs, ids, kept, systemd, sh, history, runs, faults>>

\* Mutant of Cleanup: the snapshot is removed whatever happened.
AlwaysRemove ==
  /\ At("cleanup")
  /\ rdir' = {}
  /\ todo' = <<>> /\ sh' = Fresh
  /\ UNCHANGED <<disk, kept, systemd, history, runs, faults>>

\* cleanup: the end of the script.  PRESERVE_ROLLBACK leaves the snapshot.
Cleanup ==
  /\ At("cleanup")
  /\ rdir' = {}
  /\ kept' = IF sh.preserve THEN kept \cup rdir ELSE kept
  /\ todo' = <<>> /\ sh' = Fresh
  /\ UNCHANGED <<disk, systemd, history, runs, faults>>

-----------------------------------------------------------------------------
(* Uninstallation *)

\* quiesce_service: the service is stopped and no process of its account is left.
Quiesced == running' = {}

\* restore_service_enablement: the links are rebuilt, and checked.
SetEnablement(state) == enabled' = state

\* verify_service_stopped: quiesce_service, restore_service_enablement disabled
VerifyStopped ==
  /\ \/ At("quiesce") /\ Quiesced /\ UNCHANGED enabled
     \/ At("disable") /\ SetEnablement("disabled") /\ UNCHANGED running
  /\ Done
  /\ UNCHANGED <<disk, recovery, loaded, sh, history, runs, faults>>

\* The user deletes these files for good.
Delete(files) ==
  /\ live' = [f \in File |-> IF f \in files THEN None ELSE live[f]]
  /\ committed' = [live |-> live', src |-> src]
  /\ stuck' = stuck \ files

\* uninstall: the program, and if the user says so the configuration and token,
\* then the directory that held them.
RemoveFiles ==
  /\ \/ At("remove") /\ Delete({"unit", "override", "binary"}) /\ UNCHANGED <<dirs, sh>>
     \/ /\ At("secrets")
        /\ Delete({"config", "token"})
        /\ dirs' \in {dirs, dirs \ {"config"}}
        /\ sh' = [sh EXCEPT !.deleted = TRUE]
     \/ At("secrets") /\ UNCHANGED <<live, committed, stuck, dirs, sh>>
  /\ Done
  /\ UNCHANGED <<src, trees, ids, recovery, systemd, good, before, runs, faults>>

\* Mutant of MayRemoveIdentity: the account goes whenever the user says so.
MayAlwaysRemove == TRUE

\* uninstall: the group is kept as long as files may belong to it.
MayRemoveIdentity == sh.deleted /\ "config" \notin dirs

\* uninstall: account and state directory, and the source, if the user says so.
RemoveIdentityOrSource ==
  /\ \/ /\ At("identity") /\ MayRemoveIdentity
        /\ ids' = {} /\ dirs' = dirs \ {"state"}
        /\ UNCHANGED <<src, committed>>
     \/ At("identity") /\ UNCHANGED <<ids, dirs, src, committed>>
     \/ /\ At("source")
        /\ src' = None /\ committed' = [committed EXCEPT !.src = None]
        /\ UNCHANGED <<ids, dirs>>
     \/ At("source") /\ UNCHANGED <<ids, dirs, src, committed>>
  /\ Done
  /\ UNCHANGED <<live, trees, recovery, systemd, sh, good, before, stuck, runs, faults>>

-----------------------------------------------------------------------------
(* Failures and the rollback *)

Fault == faults < MaxFaults /\ faults' = faults + 1

\* cleanup: an active transaction is rolled back.
Abort ==
  /\ todo' = IF sh.active THEN Rollback ELSE <<"cleanup">>
  /\ sh' = [sh EXCEPT !.active = FALSE]
  /\ UNCHANGED <<disk, recovery, systemd, history, runs>>

\* die, on_error, or a signal: the EXIT trap runs.
Fails ==
  /\ Fault
  /\ todo # <<>> /\ ~RollingBack /\ ~At("cleanup")
  /\ Abort

\* validate_configuration, service_remains_healthy: there is nothing to check, or
\* the service is gone.
Rejected ==
  /\ (At("validate") /\ ~Checkable) \/ (At("health") /\ running = {})
  /\ Abort
  /\ UNCHANGED faults

\* commit_transaction: what cannot be removed is left, with a warning.
DropFails ==
  /\ Fault
  /\ (At("dropTree") /\ sh.backup # None) \/ At("dropSnapshot")
  /\ Done
  /\ sh' = [sh EXCEPT !.preserve = @ \/ At("dropSnapshot")]
  /\ UNCHANGED <<disk, recovery, systemd, history, runs>>

\* kill -9, or a second signal inside the trap: nothing more is run.
Kill ==
  /\ Fault
  /\ todo # <<>>
  /\ todo' = <<>> /\ sh' = Fresh
  /\ kept' = kept \cup rdir /\ rdir' = {}
  /\ UNCHANGED <<disk, systemd, history, runs>>

\* systemd gives up on the service (StartLimitBurst).
ServiceDies ==
  /\ Fault
  /\ running # {} /\ running' = {}
  /\ UNCHANGED <<disk, recovery, loaded, enabled, todo, sh, history, runs>>

\* rollback_transaction: as long as the service cannot be stopped nothing is touched.
RollbackQuiesce ==
  /\ At("rb quiesce")
  /\ \/ Done /\ Quiesced /\ UNCHANGED <<sh, faults>>
     \/ /\ Fault
        /\ todo' = <<"cleanup">> /\ sh' = [sh EXCEPT !.preserve = TRUE]
        /\ UNCHANGED running
  /\ UNCHANGED <<disk, recovery, loaded, enabled, history, runs>>

\* Mutant of RestoreFile: a file that was not there before is left in place.
RestorePresentOnly ==
  \E f \in File, s \in rdir :
    At(Restores[f]) /\ Put(f, IF s[f] = None THEN live[f] ELSE s[f])

\* restore_snapshot: the file as it was, or no file.
RestoreFile == \E f \in File, s \in rdir : At(Restores[f]) /\ Put(f, s[f])

\* rollback_transaction: the new tree is moved out of the way, the old one moved
\* back, the new one removed.  Without an old tree the new one is just removed.
RestoreSource ==
  /\ Done
  /\ \/ /\ At("rb moveFailed") /\ sh.backup # None
        /\ trees' = IF src = None THEN trees ELSE trees \cup {Aside("failed", src)}
        /\ sh' = [sh EXCEPT !.failedTree = src]
        /\ src' = None
     \/ /\ At("rb moveFailed") /\ sh.backup = None
        /\ src' = IF ~sh.hadSource /\ sh.promoted THEN None ELSE src
        /\ UNCHANGED <<trees, sh>>
     \/ /\ At("rb source")
        /\ src' = IF sh.backup # None THEN sh.backup ELSE src
        /\ trees' = trees \ {Aside("rollback", sh.backup)}
        /\ UNCHANGED sh
     \/ /\ At("rb dropFailed")
        /\ trees' = trees \ {Aside("failed", sh.failedTree)}
        /\ UNCHANGED <<src, sh>>
  /\ UNCHANGED <<live, dirs, ids, recovery, systemd, history, runs, faults>>

\* rollback_transaction: when the new tree cannot be moved away the old one stays
\* aside; when the old one cannot be moved back the new one is, if that is possible.
RestoreSourceFails ==
  /\ Fault
  /\ \/ /\ At("rb moveFailed") /\ todo' = SubSeq(todo, 4, Len(todo))
        /\ sh.backup # None \/ (sh.promoted /\ ~sh.hadSource)
        /\ UNCHANGED <<src, trees>>
     \/ /\ At("rb source") /\ sh.backup # None /\ todo' = SubSeq(todo, 3, Len(todo))
        /\ \/ src' = sh.failedTree /\ trees' = trees \ {Aside("failed", sh.failedTree)}
           \/ sh.failedTree # None /\ UNCHANGED <<src, trees>>
     \/ /\ At("rb dropFailed") /\ sh.failedTree # None /\ Done
        /\ UNCHANGED <<src, trees>>
  /\ sh' = [sh EXCEPT !.failed = TRUE]
  /\ UNCHANGED <<live, dirs, ids, recovery, systemd, history, runs>>

\* remove_new_state_directory: with the lock files in it, which `check' has made.
WithoutNewStateDir == dirs \ ({"state"} \ sh.dirs)

\* rollback_transaction: new directories and accounts are removed again; a
\* directory only when it is empty, an account unless something may still be its.
RestoreAccount ==
  /\ Done
  /\ \/ /\ At("rb configDir")
        /\ dirs' = IF "config" \notin sh.dirs /\ live.config = None /\ live.token = None
                   THEN dirs \ {"config"} ELSE dirs
        /\ UNCHANGED <<ids, sh>>
     \/ /\ At("rb stateDir")
        /\ dirs' = WithoutNewStateDir
        /\ sh' = [sh EXCEPT !.retain = "state" \in sh.dirs /\ "user" \notin sh.ids]
        /\ UNCHANGED ids
     \/ \E id \in {"user", "group"} :
          /\ At(Removes[id])
          /\ ids' = IF sh.retain THEN ids ELSE ids \ ({id} \ sh.ids)
          /\ UNCHANGED <<dirs, sh>>
  /\ UNCHANGED <<live, src, trees, recovery, systemd, history, runs, faults>>

\* Mutant of MayRestart: the earlier service is started whatever could be restored.
RestartAnyway == sh.wasActive

\* Mutant of MayRestart: the service is left stopped.
NeverRestart == FALSE

\* rollback_transaction: only over a complete rollback
MayRestart == sh.wasActive /\ ~sh.failed

\* rollback_transaction: systemd sees the old unit, enablement and activity again.
RestoreService ==
  /\ Done
  /\ \/ /\ At("rb reload")
        /\ loaded' = [unit |-> live.unit, override |-> live.override]
        /\ UNCHANGED <<running, enabled>>
     \/ At("rb enablement") /\ SetEnablement(sh.enablement) /\ UNCHANGED <<loaded, running>>
     \/ /\ At("rb restart")
        /\ running' = IF MayRestart THEN {Started} ELSE running
        /\ UNCHANGED <<loaded, enabled>>
  /\ UNCHANGED <<disk, recovery, sh, history, runs, faults>>

\* restore_snapshot: a file that the snapshot does not have is to be removed.  When
\* that fails nobody is told: the function returns 0, and the rollback goes on as if
\* the file were gone.
RemovalFails ==
  /\ Fault /\ Done
  /\ \E f \in File, s \in rdir :
       /\ At(Restores[f]) /\ s[f] = None /\ live[f] # None
       /\ stuck' = stuck \cup {f}
  /\ UNCHANGED <<disk, recovery, systemd, sh, good, committed, before, runs>>

\* report_rollback_failure: the step has no effect and the rollback goes on.  A
\* service that does not stay healthy is stopped again, if it can be.
RollbackStepFails ==
  /\ Fault /\ Done
  /\ \/ /\ \/ \E f \in File, s \in rdir : At(Restores[f]) /\ s[f] # None
           \/ \E id \in {"user", "group"} \ sh.ids : At(Removes[id]) /\ ~sh.retain
           \/ At("rb configDir") \/ At("rb reload") \/ At("rb enablement")
        /\ sh' = [sh EXCEPT !.failed = TRUE]
        /\ UNCHANGED running
     \/ /\ At("rb stateDir")
        /\ sh' = [sh EXCEPT !.failed = TRUE,
                            !.retain = "state" \notin sh.dirs \/ "user" \notin sh.ids]
        /\ UNCHANGED running
     \/ /\ At("rb restart") /\ MayRestart
        /\ sh' = [sh EXCEPT !.failed = TRUE]
        /\ Quiesced \/ running' = {Started}
  /\ UNCHANGED <<disk, recovery, loaded, enabled, history, runs>>

\* rollback_transaction: the snapshot is only removed after a complete rollback.
FinishRollback ==
  /\ At("rb finish") /\ Done
  /\ \/ ~sh.failed /\ rdir' = {} /\ UNCHANGED <<sh, faults>>
     \/ /\ (sh.failed /\ UNCHANGED faults) \/ (~sh.failed /\ Fault)
        /\ sh' = [sh EXCEPT !.preserve = TRUE] /\ UNCHANGED rdir
  /\ UNCHANGED <<disk, kept, systemd, history, runs>>

Steps ==
  \/ Snapshot \/ Begin \/ Stop \/ CreateAccount \/ WriteConfiguration
  \/ ActivateBinary \/ InstallUnit \/ Validate \/ StartService \/ Rejected
  \/ PromoteSource
  \/ Commit \/ DropBackups \/ Cleanup
  \/ VerifyStopped \/ RemoveFiles \/ RemoveIdentityOrSource
  \/ RollbackQuiesce \/ RestoreFile \/ RestoreSource \/ RestoreAccount
  \/ RestoreService \/ FinishRollback

Faulty ==
  \/ Fails \/ DropFails \/ Kill \/ ServiceDies
  \/ RestoreSourceFails \/ RemovalFails \/ RollbackStepFails

Next == Start \/ Steps \/ Faulty

Spec == Init /\ [][Next]_vars

\* The script does not wait for anyone: each of its steps ends or fails.
FairSpec == Spec /\ WF_vars(Steps)

-----------------------------------------------------------------------------
(* Properties *)

\* Managed files and unit are never replaced under a running service, and the
\* service never runs with a unit that systemd has not reloaded: whatever fails or
\* is killed, a running service was started from exactly the files on disk
\* (begin_transaction, rollback_transaction, verify_service_stopped).
RunsWhatIsInstalled == running \subseteq {live}

\* The service is never started from a mixture of old and new files: it runs a
\* set that passed `check', or one that it ran before the installer came, even
\* after failed rollbacks and kills in earlier runs (rollback_transaction,
\* "left stopped because managed state could not be restored safely").
RunsOnlyGoodSets == running \subseteq good

\* `files' are those of `old', but for files that `old' does not have and a rollback
\* could not remove.
AsIn(files, old) == \A f \in File : files[f] = old[f] \/ (old[f] = None /\ f \in stuck)

\* The last committed installation is never lost: its files are in place or
\* together in one snapshot, its source in place or in a tree moved aside, at
\* every point at which the installer may be killed, also when a later run finds
\* what a killed one left (PRESERVE_ROLLBACK, commit_transaction).  What a rollback
\* failed to remove may be there besides (restore_snapshot).
Recoverable ==
  /\ \E s \in {live} \cup rdir \cup kept : AsIn(s, committed.live)
  /\ committed.src \in {None, src} \cup {t.release : t \in trees}

\* The rollback is about to end without a failure.
RolledBack == At("rb finish") /\ ~sh.failed

\* A rollback that reports success has restored files, source, accounts,
\* directories and enablement, and started nothing that was not active before
\* (rollback_transaction, README.md 221-223).  The exceptions are a signal that
\* arrives when promote_source has moved the first source tree in but not yet
\* noted it, and new files that could not be removed, with the directory they are
\* in: nothing that was there before is ever missing or changed.
RollbackRestores ==
  RolledBack =>
    /\ AsIn(live, before.live)
    /\ src = before.src \/ (before.src = None /\ ~sh.promoted)
    /\ ids = sh.ids \/ sh.retain
    /\ \/ dirs = sh.dirs
       \/ dirs = sh.dirs \cup {"config"} /\ stuck \cap {"config", "token"} # {}
    /\ enabled = sh.enablement
    /\ running # {} => sh.wasActive

\* "On a failed fresh installation, the newly staged configuration and token are
\* removed during rollback" (README.md 230-231): when a rollback has reported no
\* failure they are gone.
NewSecretsRemoved ==
  RolledBack => \A f \in {"config", "token"} : before.live[f] = None => live[f] = None

\* As long as configuration or token exist the group they belong to exists, but for
\* a rollback that failed, or that could not remove this very file (uninstall,
\* create_service_account, restore_snapshot).
GroupOutlivesSecrets ==
  \A f \in {"config", "token"} \ stuck :
    live[f] # None => "group" \in ids \/ sh.failed \/ kept # {}

\* A run that ends with a commit never installs a release older than the binary or
\* the source it found, whatever killed runs left, but for a binary that did not
\* tell its version; and it installs none older than the committed installation
\* unless an earlier run left a snapshot behind, that is, did not end its
\* transaction or its rollback (evaluate_upgrade_candidate).
DowngradesOnlyBlindly ==
  [][At("commit") /\ sh.candidate # None =>
       \A it \in {before} \cup {c \in {committed} : kept = {}} :
         /\ sh.candidate >= it.src
         /\ sh.candidate >= it.live.binary \/ sh.blind]_vars

\* "It does not permit installing an older version": no run replaces a committed
\* binary by an older release (docs/VERSIONING.md 122-123).
NeverOlder ==
  [][At("commit") /\ sh.candidate # None => sh.candidate >= committed.live.binary]_vars

\* A service that was active before a failed transaction, and was stopped for it,
\* runs again, unless the installer kept its snapshot for a manual recovery
\* (rollback_transaction).
ServiceReturns ==
  (At("rb token") /\ sh.wasActive) ~> (running # {} \/ kept # {})
=============================================================================
