-------------------------- MODULE InstallerProofs --------------------------
(***************************************************************************)
(* Proofs about Installer, for every number of releases, runs and faults.    *)
(* The script is at the head of todo; the inductive invariant says, for each *)
(* range of steps, what is known about files, snapshot, source, accounts and *)
(* service there.                                                            *)
(***************************************************************************)
EXTENDS Installer, SequenceTheorems, TLAPS

\* The step the script is about to take.
Now == IF todo = <<>> THEN "idle" ELSE Head(todo)

Units == [unit |-> live.unit, override |-> live.override]

-----------------------------------------------------------------------------
(* Where the script may be *)

\* The steps of a transaction, in which a failure rolls back.
Deploying ==
  {"stop", "group", "user", "dirs", "token", "config", "binary", "unit", "override",
   "validate", "reload", "enable", "restart", "health", "moveAside", "promote",
   "promoted", "commit"}

Undoing ==
  {"rb quiesce", "rb token", "rb config", "rb binary", "rb unit", "rb override",
   "rb moveFailed", "rb source", "rb dropFailed", "rb configDir", "rb stateDir",
   "rb user", "rb group", "rb reload", "rb enablement", "rb restart", "rb finish"}

Protected == Deploying \cup Undoing

Others ==
  {"snapshot", "begin", "dropTree", "dropSnapshot", "cleanup", "quiesce", "disable",
   "remove", "unload", "secrets", "identity", "source"}

\* Which step may come after which.
Order ==
  {<<"snapshot", "begin">>, <<"begin", "stop">>, <<"stop", "group">>,
   <<"group", "user">>, <<"user", "dirs">>, <<"dirs", "token">>, <<"dirs", "unit">>,
   <<"token", "config">>, <<"config", "binary">>, <<"config", "unit">>,
   <<"binary", "unit">>, <<"unit", "override">>, <<"override", "validate">>,
   <<"validate", "reload">>, <<"reload", "enable">>, <<"enable", "restart">>,
   <<"restart", "health">>, <<"health", "moveAside">>, <<"health", "commit">>,
   <<"moveAside", "promote">>, <<"promote", "promoted">>, <<"promoted", "commit">>,
   <<"commit", "dropTree">>, <<"dropTree", "dropSnapshot">>,
   <<"dropSnapshot", "cleanup">>,
   <<"quiesce", "disable">>, <<"disable", "remove">>, <<"remove", "unload">>,
   <<"unload", "secrets">>, <<"secrets", "identity">>, <<"identity", "source">>,
   <<"source", "cleanup">>,
   <<"rb quiesce", "rb token">>, <<"rb token", "rb config">>,
   <<"rb config", "rb binary">>, <<"rb binary", "rb unit">>,
   <<"rb unit", "rb override">>, <<"rb override", "rb moveFailed">>,
   <<"rb moveFailed", "rb source">>, <<"rb source", "rb dropFailed">>,
   <<"rb dropFailed", "rb configDir">>, <<"rb configDir", "rb stateDir">>,
   <<"rb stateDir", "rb user">>, <<"rb user", "rb group">>,
   <<"rb group", "rb reload">>, <<"rb reload", "rb enablement">>,
   <<"rb enablement", "rb restart">>, <<"rb restart", "rb finish">>,
   <<"rb finish", "cleanup">>}

Chain(s) == \A i \in 1..(Len(s) - 1) : <<s[i], s[i + 1]>> \in Order

\* What is left to do is the end of a program.
Path ==
  /\ todo \in Seq(Protected \cup Others)
  /\ todo # <<>> => todo[Len(todo)] = "cleanup"
  /\ Chain(todo)

\* A transaction is active in its steps, and only a rollback fails without ending.
Control ==
  /\ Path
  /\ sh.active <=> Now \in Deploying
  /\ sh.failed => Now \in Undoing \cup {"cleanup"}

Script ==
  [action : {"exit", "install", "update", "reconfigure", "unit", "uninstall"},
   candidate : 0..MaxRelease, incomplete : BOOLEAN, blind : BOOLEAN, active : BOOLEAN,
   wasActive : BOOLEAN, enablement : Enablement,
   ids : SUBSET {"user", "group"}, dirs : SUBSET {"config", "state"},
   hadSource : BOOLEAN, backup : 0..MaxRelease, promoted : BOOLEAN,
   failedTree : 0..MaxRelease, deleted : BOOLEAN,
   failed : BOOLEAN, retain : BOOLEAN, preserve : BOOLEAN]

TypeInv ==
  /\ live \in FileSet /\ src \in 0..MaxRelease
  /\ trees \subseteq [suffix : {"rollback", "failed"}, run : 0..runs,
                      release : 0..MaxRelease]
  /\ dirs \subseteq {"config", "state"} /\ ids \subseteq {"user", "group"}
  /\ rdir \subseteq FileSet /\ kept \subseteq FileSet
  /\ loaded \in [unit : Content, override : Content]
  /\ running \subseteq FileSet /\ enabled \in Enablement
  /\ sh \in Script
  /\ good \subseteq FileSet
  /\ committed \in [live : FileSet, src : 0..MaxRelease]
  /\ before \in [live : FileSet, src : 0..MaxRelease]
  /\ stuck \subseteq File
  /\ runs \in 0..MaxRuns /\ faults \in 0..MaxFaults

-----------------------------------------------------------------------------
(* The parts of the inductive invariant *)

\* From here to the restart no service runs.
Quiet ==
  {"group", "user", "dirs", "token", "config", "binary", "unit", "override",
   "validate", "reload", "enable", "restart", "disable", "remove", "unload",
   "secrets", "identity", "source", "rb token", "rb config", "rb binary", "rb unit",
   "rb override", "rb moveFailed", "rb source", "rb dropFailed", "rb configDir",
   "rb stateDir", "rb user", "rb group", "rb reload", "rb enablement", "rb restart"}

\* The service, and what systemd has loaded.
Service ==
  /\ running \subseteq {live}
  /\ Now \in Quiet => running = {}
  /\ Now \in {"enable", "restart"} => loaded = Units
  /\ Now \in {"rb enablement", "rb restart"} /\ ~sh.failed => loaded = Units
  /\ Now \in {"rb restart", "rb finish"} /\ ~sh.failed => enabled = sh.enablement
  /\ Now = "rb finish" /\ running # {} => sh.wasActive

\* What the service may run.
Proven ==
  /\ running \subseteq good
  /\ Now \in {"reload", "enable", "restart"} => live \in good
  /\ Now \in Protected /\ sh.wasActive => before.live \in good

\* Nothing is missing in this set of files.
Whole(files) ==
  /\ \A f \in File \ {"override"} : files[f] # None
  /\ CustomPath => files.override # None

\* A set that ran or passed validation is whole, and nobody makes an override that
\* is not needed: the rollback of a service that was active has no file to remove
\* without putting another in its place.
Entire ==
  /\ \A files \in good : Whole(files)
  /\ ~CustomPath => live.override = None /\ \A files \in rdir : files.override = None
  /\ Now \in {"override", "validate"} => live.unit # None
  /\ Now = "validate" /\ CustomPath => live.override # None

\* The steps after all files have been restored.
Back ==
  {"rb moveFailed", "rb source", "rb dropFailed", "rb configDir", "rb stateDir",
   "rb user", "rb group", "rb reload", "rb enablement", "rb restart", "rb finish"}

\* The file is as the run found it, or new, and could not be removed.
Restored(f) ==
  \/ live[f] = before.live[f]
  \/ before.live[f] = None /\ f \in stuck /\ ~sh.wasActive

\* A rollback without a failure has restored the files up to here.
FilesBack ==
  ~sh.failed =>
    /\ Now \in Back \cup {"rb config", "rb binary", "rb unit", "rb override"} =>
         Restored("token")
    /\ Now \in Back \cup {"rb binary", "rb unit", "rb override"} => Restored("config")
    /\ Now \in Back \cup {"rb unit", "rb override"} => Restored("binary")
    /\ Now \in Back \cup {"rb override"} => Restored("unit")
    /\ Now \in Back => Restored("override")

\* The sets that hold the files of the committed installation.
Copies == {files \in FileSet : AsIn(files, committed.live)}

\* The files of the committed installation: in the snapshot while they may be
\* changed, in place or in an older snapshot otherwise.
Snapshotted ==
  /\ Now \in {"snapshot", "begin"} => live = before.live
  /\ Now \in Protected \cup {"begin"} =>
       rdir = {before.live} /\ (rdir \cup kept) \cap Copies # {}
  /\ Now \notin Protected =>
       \/ ({live} \cup kept) \cap Copies # {}
       \/ Now = "cleanup" /\ sh.preserve /\ rdir \cap Copies # {}
  /\ Now \notin Protected \cup {"begin", "dropTree", "dropSnapshot", "cleanup"} => rdir = {}
  /\ Now = "cleanup" /\ sh.failed => sh.preserve /\ rdir # {}

\* The steps before the old source is moved aside, and after it was moved back.
Unmoved ==
  {"snapshot", "begin", "stop", "group", "user", "dirs", "token", "config", "binary",
   "unit", "override", "validate", "reload", "enable", "restart", "health", "moveAside"}
Returned ==
  {"rb dropFailed", "rb configDir", "rb stateDir", "rb user", "rb group", "rb reload",
   "rb enablement", "rb restart", "rb finish"}

\* The trees that earlier runs left.
OldTrees == {t \in trees : t.run < runs}

\* What is known of the source in a transaction and its rollback.
Tracked ==
  /\ committed.src \in {None, before.src} \cup {t.release : t \in OldTrees}
  /\ before.src \in {None, src} \/ Aside("rollback", before.src) \in trees
  /\ sh.backup \in {None, before.src}
  /\ sh.backup # None /\ Now \notin Returned => Aside("rollback", sh.backup) \in trees
  /\ sh.backup = None /\ before.src # None => src = before.src
  /\ sh.promoted \/ Now \in {"promote", "promoted"} =>
       sh.backup = before.src /\ sh.hadSource = (before.src # None)

\* The source that a rollback without a failure has restored.
SourceBack ==
  /\ Now \in Returned \cup {"rb source"} /\ ~sh.failed /\ sh.promoted /\ before.src = None =>
       src = None
  /\ Now \in Returned /\ ~sh.failed /\ before.src # None => src = before.src

\* The source that this run found, and that of the committed installation.
SourceKept ==
  /\ committed.src \in {None, src} \cup {t.release : t \in trees}
  /\ Now \in Unmoved =>
       src = before.src /\ sh.backup = None /\ ~sh.promoted /\ OldTrees = trees
  /\ Now = "dropTree" => committed.src = src
  /\ Now \in Protected => Tracked
  /\ SourceBack

Secret(files) == files.config # None \/ files.token # None

\* The group that `owners' names owns configuration and token, unless a snapshot was
\* left or the file could not be removed.
GroupOwns(files, owners) ==
  \A f \in {"config", "token"} :
    files[f] # None => "group" \in owners \/ kept # {} \/ f \in stuck

\* Directories and accounts.
Owned ==
  /\ Secret(live) => "config" \in dirs
  /\ sh.failed \/ GroupOwns(live, ids)
  /\ Now \in {"token", "config"} => "config" \in dirs
  /\ Now \in Deploying \ {"stop", "group"} => "group" \in ids
  /\ Now \in Protected =>
       /\ sh.ids \subseteq ids /\ sh.dirs \subseteq dirs
       /\ Secret(before.live) => "config" \in sh.dirs
       /\ GroupOwns(before.live, sh.ids)

\* A new configuration or token is still there, and with it the directory.
SecretStuck == stuck \cap {"config", "token"} # {}

\* A rollback without a failure has removed what was new up to here.
NewRemoved ==
  ~sh.failed =>
    /\ Now \in Returned \ {"rb dropFailed", "rb configDir"} =>
         SecretStuck \/ dirs \ sh.dirs \subseteq {"state"}
    /\ Now \in Returned \ {"rb dropFailed", "rb configDir", "rb stateDir"} =>
         dirs = sh.dirs \/ (SecretStuck /\ dirs = sh.dirs \cup {"config"})
    /\ Now \in {"rb group", "rb reload", "rb enablement", "rb restart", "rb finish"} =>
         sh.retain \/ ids \ sh.ids \subseteq {"group"}
    /\ Now \in {"rb reload", "rb enablement", "rb restart", "rb finish"} =>
         sh.retain \/ ids = sh.ids

NoOlderThan(it) == sh.candidate >= it.src /\ (sh.candidate >= it.live.binary \/ sh.blind)

\* The release to be installed against what the run found, and that against the
\* committed installation.
Floors ==
  /\ sh.candidate # None => NoOlderThan(before)
  /\ kept = {} /\ Now \in Protected => committed.src \in {None, before.src}
  /\ kept = {} /\ Now \notin Protected =>
       \/ committed.src \in {None, src}
       \/ Now = "cleanup" /\ sh.preserve /\ rdir # {}

IInv ==
  /\ TypeInv /\ Control
  /\ Service /\ Proven /\ Entire
  /\ FilesBack /\ Snapshotted
  /\ SourceKept
  /\ Owned /\ NewRemoved
  /\ Floors

-----------------------------------------------------------------------------
(* Control: from one step to the next *)

\* The step that follows, for each step.
Advance ==
  /\ Now = "snapshot" => Now' = "begin"
  /\ Now = "begin" => Now' = "stop"
  /\ Now = "stop" => Now' = "group"
  /\ Now = "group" => Now' = "user"
  /\ Now = "user" => Now' = "dirs"
  /\ Now = "dirs" => Now' \in {"token", "unit"}
  /\ Now = "token" => Now' = "config"
  /\ Now = "config" => Now' \in {"binary", "unit"}
  /\ Now = "binary" => Now' = "unit"
  /\ Now = "unit" => Now' = "override"
  /\ Now = "override" => Now' = "validate"
  /\ Now = "validate" => Now' = "reload"
  /\ Now = "reload" => Now' = "enable"
  /\ Now = "enable" => Now' = "restart"
  /\ Now = "restart" => Now' = "health"
  /\ Now = "health" => Now' \in {"moveAside", "commit"}
  /\ Now = "moveAside" => Now' = "promote"
  /\ Now = "promote" => Now' = "promoted"
  /\ Now = "promoted" => Now' = "commit"
  /\ Now = "commit" => Now' = "dropTree"
  /\ Now = "dropTree" => Now' = "dropSnapshot"
  /\ Now = "dropSnapshot" => Now' = "cleanup"
  /\ Now = "quiesce" => Now' = "disable"
  /\ Now = "disable" => Now' = "remove"
  /\ Now = "remove" => Now' = "unload"
  /\ Now = "unload" => Now' = "secrets"
  /\ Now = "secrets" => Now' = "identity"
  /\ Now = "identity" => Now' = "source"
  /\ Now = "source" => Now' = "cleanup"

\* The same for the steps of the rollback.
AdvanceBack ==
  /\ Now = "rb quiesce" => Now' = "rb token"
  /\ Now = "rb token" => Now' = "rb config"
  /\ Now = "rb config" => Now' = "rb binary"
  /\ Now = "rb binary" => Now' = "rb unit"
  /\ Now = "rb unit" => Now' = "rb override"
  /\ Now = "rb override" => Now' = "rb moveFailed"
  /\ Now = "rb moveFailed" => Now' = "rb source"
  /\ Now = "rb source" => Now' = "rb dropFailed"
  /\ Now = "rb dropFailed" => Now' = "rb configDir"
  /\ Now = "rb configDir" => Now' = "rb stateDir"
  /\ Now = "rb stateDir" => Now' = "rb user"
  /\ Now = "rb user" => Now' = "rb group"
  /\ Now = "rb group" => Now' = "rb reload"
  /\ Now = "rb reload" => Now' = "rb enablement"
  /\ Now = "rb enablement" => Now' = "rb restart"
  /\ Now = "rb restart" => Now' = "rb finish"
  /\ Now = "rb finish" => Now' = "cleanup"

\* The script is at a step exactly when that step is the next one.
LEMMA AtNow ==
  ASSUME NEW s, s # "idle"
  PROVE  At(s) <=> Now = s
BY DEF At, Now

\* Only the end of the script has no step after it.
LEMMA Onward ==
  ASSUME Path, todo # <<>>, Head(todo) # "cleanup"
  PROVE  /\ Len(todo) >= 2
         /\ Tail(todo) # <<>>
         /\ Head(Tail(todo)) = todo[2]
         /\ <<Head(todo), Head(Tail(todo))>> \in Order
<1>1. Len(todo) \in Nat /\ Len(todo) # 0 /\ Head(todo) = todo[1]
  BY DEF Path
<1>2. Len(todo) # 1
  BY <1>1 DEF Path
<1>3. Len(todo) >= 2
  BY <1>1, <1>2 DEF Path
<1>4. Tail(todo) # <<>> /\ Head(Tail(todo)) = todo[2]
  BY <1>3 DEF Path
<1>5. <<todo[1], todo[2]>> \in Order
  BY <1>3 DEF Path, Chain
<1> QED BY <1>1, <1>3, <1>4, <1>5

\* Without its head the path is still one.
LEMMA Shorter ==
  ASSUME Path, todo # <<>>, todo' = Tail(todo)
  PROVE  Path'
<1> DEFINE n == Len(todo)
<1>1. n \in Nat \ {0} /\ todo' \in Seq(Protected \cup Others) /\ Len(todo') = n - 1
  BY DEF Path
<1>2. \A i \in 1..(n - 1) : todo'[i] = todo[i + 1]
  BY <1>1 DEF Path
<1>3. todo' # <<>> => todo'[Len(todo')] = "cleanup"
  BY <1>1, <1>2 DEF Path
<1>4. Chain(todo')
  BY <1>1, <1>2 DEF Path, Chain
<1>5. Protected' = Protected /\ Others' = Others
  BY DEF Protected, Others, Deploying, Undoing
<1> QED BY <1>1, <1>3, <1>4 DEF Path, Chain

\* Done moves from a step to one that may follow it.
LEMMA DoneAdvances ==
  ASSUME Path, Done, Now # "cleanup"
  PROVE  Path' /\ Advance /\ AdvanceBack
<1>1. Path'
  BY Shorter DEF Done
<1>2. Now = Head(todo) /\ Now' = Head(Tail(todo))
  BY Onward DEF Done, Now
<1>3. <<Now, Now'>> \in Order
  BY <1>2, Onward DEF Done, Now
<1>4. Advance
  BY <1>3 DEF Order, Advance
<1>5. AdvanceBack
  BY <1>3 DEF Order, AdvanceBack
<1> QED BY <1>1, <1>4, <1>5

\* A way through the program, ending with the script.
Route(s) ==
  /\ s \in Seq(Protected \cup Others)
  /\ Len(s) > 0
  /\ Chain(s)

\* One part of a program after another.
LEMMA Joined ==
  ASSUME NEW s, NEW t, Route(s), Route(t), <<s[Len(s)], t[1]>> \in Order
  PROVE  /\ Route(s \o t)
         /\ (s \o t)[1] = s[1]
         /\ (s \o t)[Len(s \o t)] = t[Len(t)]
<1> DEFINE m == Len(s)
           n == Len(t)
           u == s \o t
<1>1. m \in Nat \ {0} /\ n \in Nat \ {0}
  BY DEF Route
<1>2. u \in Seq(Protected \cup Others) /\ Len(u) = m + n
  BY DEF Route
<1>3. \A i \in 1..(m + n) : u[i] = IF i <= m THEN s[i] ELSE t[i - m]
  BY DEF Route
<1>4. ASSUME NEW i \in 1..(m + n - 1)
      PROVE  <<u[i], u[i + 1]>> \in Order
  <2>1. CASE i < m
    <3>1. i \in 1..(m - 1) /\ u[i] = s[i] /\ u[i + 1] = s[i + 1]
      BY <1>1, <1>3, <2>1
    <3> QED BY <3>1 DEF Route, Chain
  <2>2. CASE i = m
    <3>1. u[i] = s[m] /\ u[i + 1] = t[1]
      BY <1>1, <1>3, <2>2
    <3> QED BY <3>1
  <2>3. CASE i > m
    <3> DEFINE j == i - m
    <3>1. j \in 1..(n - 1) /\ u[i] = t[j] /\ u[i + 1] = t[j + 1]
      BY <1>1, <1>3, <2>3
    <3> HIDE DEF j, n
    <3>2. <<t[j], t[j + 1]>> \in Order
      BY <3>1 DEF Route, Chain, n
    <3> QED BY <3>1, <3>2
  <2>4. i < m \/ i = m \/ i > m
    BY <1>1
  <2> QED BY <2>1, <2>2, <2>3, <2>4
<1>5. Route(u)
  BY <1>1, <1>2, <1>4 DEF Route, Chain
<1> QED BY <1>1, <1>2, <1>3, <1>5

\* Each part of a program is a route.
LEMMA PrologueRoute ==
  Route(Prologue) /\ Prologue[1] = "snapshot" /\ Prologue[Len(Prologue)] = "dirs"
<1>1. Prologue \in Seq(Protected \cup Others) /\ Len(Prologue) = 6
  BY DEF Prologue, Protected, Others, Deploying
<1>2.
      /\ Prologue[1] = "snapshot" /\ Prologue[2] = "begin"
      /\ Prologue[3] = "stop" /\ Prologue[4] = "group"
      /\ Prologue[5] = "user" /\ Prologue[6] = "dirs"
  BY DEF Prologue
<1>3.
      /\ <<"snapshot", "begin">> \in Order /\ <<"begin", "stop">> \in Order
      /\ <<"stop", "group">> \in Order /\ <<"group", "user">> \in Order
      /\ <<"user", "dirs">> \in Order
  BY DEF Order
<1>4. ASSUME NEW i \in 1..5
      PROVE  <<Prologue[i], Prologue[i + 1]>> \in Order
  <2>1. i = 1 \/ i = 2 \/ i = 3 \/ i = 4 \/ i = 5
    OBVIOUS
  <2> QED BY <1>2, <1>3, <2>1
<1> QED BY <1>1, <1>2, <1>4 DEF Route, Chain

\* The steps of write_configuration follow each other.
LEMMA ConfigurationRoute ==
  Route(Configuration) /\ Configuration[1] = "token" /\ Configuration[Len(Configuration)] = "config"
<1>1. Configuration \in Seq(Protected \cup Others) /\ Len(Configuration) = 2
  BY DEF Configuration, Protected, Others, Deploying
<1>2.
      /\ Configuration[1] = "token" /\ Configuration[2] = "config"
  BY DEF Configuration
<1>3.
      /\ <<"token", "config">> \in Order
  BY DEF Order
<1>4. ASSUME NEW i \in 1..1
      PROVE  <<Configuration[i], Configuration[i + 1]>> \in Order
  <2>1. i = 1
    OBVIOUS
  <2> QED BY <1>2, <1>3, <2>1
<1> QED BY <1>1, <1>2, <1>4 DEF Route, Chain

\* So do those of install_systemd_unit, validate_configuration and start_service,
LEMMA DeploymentRoute ==
  Route(Deployment) /\ Deployment[1] = "unit" /\ Deployment[Len(Deployment)] = "health"
<1>1. Deployment \in Seq(Protected \cup Others) /\ Len(Deployment) = 7
  BY DEF Deployment, Protected, Others, Deploying
<1>2.
      /\ Deployment[1] = "unit" /\ Deployment[2] = "override"
      /\ Deployment[3] = "validate" /\ Deployment[4] = "reload"
      /\ Deployment[5] = "enable" /\ Deployment[6] = "restart"
      /\ Deployment[7] = "health"
  BY DEF Deployment
<1>3.
      /\ <<"unit", "override">> \in Order /\ <<"override", "validate">> \in Order
      /\ <<"validate", "reload">> \in Order /\ <<"reload", "enable">> \in Order
      /\ <<"enable", "restart">> \in Order /\ <<"restart", "health">> \in Order
  BY DEF Order
<1>4. ASSUME NEW i \in 1..6
      PROVE  <<Deployment[i], Deployment[i + 1]>> \in Order
  <2>1. i = 1 \/ i = 2 \/ i = 3 \/ i = 4 \/ i = 5 \/ i = 6
    OBVIOUS
  <2> QED BY <1>2, <1>3, <2>1
<1> QED BY <1>1, <1>2, <1>4 DEF Route, Chain

\* those of promote_source,
LEMMA PromotionRoute ==
  Route(Promotion) /\ Promotion[1] = "moveAside" /\ Promotion[Len(Promotion)] = "promoted"
<1>1. Promotion \in Seq(Protected \cup Others) /\ Len(Promotion) = 3
  BY DEF Promotion, Protected, Others, Deploying
<1>2.
      /\ Promotion[1] = "moveAside" /\ Promotion[2] = "promote"
      /\ Promotion[3] = "promoted"
  BY DEF Promotion
<1>3.
      /\ <<"moveAside", "promote">> \in Order /\ <<"promote", "promoted">> \in Order
  BY DEF Order
<1>4. ASSUME NEW i \in 1..2
      PROVE  <<Promotion[i], Promotion[i + 1]>> \in Order
  <2>1. i = 1 \/ i = 2
    OBVIOUS
  <2> QED BY <1>2, <1>3, <2>1
<1> QED BY <1>1, <1>2, <1>4 DEF Route, Chain

\* those of commit_transaction with the EXIT trap,
LEMMA EpilogueRoute ==
  Route(Epilogue) /\ Epilogue[1] = "commit" /\ Epilogue[Len(Epilogue)] = "cleanup"
<1>1. Epilogue \in Seq(Protected \cup Others) /\ Len(Epilogue) = 4
  BY DEF Epilogue, Protected, Others, Deploying
<1>2.
      /\ Epilogue[1] = "commit" /\ Epilogue[2] = "dropTree"
      /\ Epilogue[3] = "dropSnapshot" /\ Epilogue[4] = "cleanup"
  BY DEF Epilogue
<1>3.
      /\ <<"commit", "dropTree">> \in Order /\ <<"dropTree", "dropSnapshot">> \in Order
      /\ <<"dropSnapshot", "cleanup">> \in Order
  BY DEF Order
<1>4. ASSUME NEW i \in 1..3
      PROVE  <<Epilogue[i], Epilogue[i + 1]>> \in Order
  <2>1. i = 1 \/ i = 2 \/ i = 3
    OBVIOUS
  <2> QED BY <1>2, <1>3, <2>1
<1> QED BY <1>1, <1>2, <1>4 DEF Route, Chain

\* those of uninstall,
LEMMA RemovalRoute ==
  Route(Removal) /\ Removal[1] = "quiesce" /\ Removal[Len(Removal)] = "cleanup"
<1>1. Removal \in Seq(Protected \cup Others) /\ Len(Removal) = 8
  BY DEF Removal, Protected, Others, Deploying
<1>2.
      /\ Removal[1] = "quiesce" /\ Removal[2] = "disable"
      /\ Removal[3] = "remove" /\ Removal[4] = "unload"
      /\ Removal[5] = "secrets" /\ Removal[6] = "identity"
      /\ Removal[7] = "source" /\ Removal[8] = "cleanup"
  BY DEF Removal
<1>3.
      /\ <<"quiesce", "disable">> \in Order /\ <<"disable", "remove">> \in Order
      /\ <<"remove", "unload">> \in Order /\ <<"unload", "secrets">> \in Order
      /\ <<"secrets", "identity">> \in Order /\ <<"identity", "source">> \in Order
      /\ <<"source", "cleanup">> \in Order
  BY DEF Order
<1>4. ASSUME NEW i \in 1..7
      PROVE  <<Removal[i], Removal[i + 1]>> \in Order
  <2>1. i = 1 \/ i = 2 \/ i = 3 \/ i = 4 \/ i = 5 \/ i = 6 \/ i = 7
    OBVIOUS
  <2> QED BY <1>2, <1>3, <2>1
<1> QED BY <1>1, <1>2, <1>4 DEF Route, Chain

\* and those of rollback_transaction.
LEMMA RollbackRoute ==
  Route(Rollback) /\ Rollback[1] = "rb quiesce" /\ Rollback[Len(Rollback)] = "cleanup"
<1>1. Rollback \in Seq(Protected \cup Others) /\ Len(Rollback) = 18
  BY DEF Rollback, Protected, Others, Deploying, Undoing
<1>2.
      /\ Rollback[1] = "rb quiesce" /\ Rollback[2] = "rb token"
      /\ Rollback[3] = "rb config" /\ Rollback[4] = "rb binary"
      /\ Rollback[5] = "rb unit" /\ Rollback[6] = "rb override"
      /\ Rollback[7] = "rb moveFailed" /\ Rollback[8] = "rb source"
      /\ Rollback[9] = "rb dropFailed" /\ Rollback[10] = "rb configDir"
      /\ Rollback[11] = "rb stateDir" /\ Rollback[12] = "rb user"
      /\ Rollback[13] = "rb group" /\ Rollback[14] = "rb reload"
      /\ Rollback[15] = "rb enablement" /\ Rollback[16] = "rb restart"
      /\ Rollback[17] = "rb finish" /\ Rollback[18] = "cleanup"
  BY DEF Rollback
<1>3.
      /\ <<"rb quiesce", "rb token">> \in Order
      /\ <<"rb token", "rb config">> \in Order
      /\ <<"rb config", "rb binary">> \in Order
      /\ <<"rb binary", "rb unit">> \in Order
      /\ <<"rb unit", "rb override">> \in Order
      /\ <<"rb override", "rb moveFailed">> \in Order
      /\ <<"rb moveFailed", "rb source">> \in Order
      /\ <<"rb source", "rb dropFailed">> \in Order
      /\ <<"rb dropFailed", "rb configDir">> \in Order
      /\ <<"rb configDir", "rb stateDir">> \in Order
      /\ <<"rb stateDir", "rb user">> \in Order
      /\ <<"rb user", "rb group">> \in Order
      /\ <<"rb group", "rb reload">> \in Order
      /\ <<"rb reload", "rb enablement">> \in Order
      /\ <<"rb enablement", "rb restart">> \in Order
      /\ <<"rb restart", "rb finish">> \in Order
      /\ <<"rb finish", "cleanup">> \in Order
  BY DEF Order
<1>4.
      /\ <<Rollback[1], Rollback[2]>> \in Order
      /\ <<Rollback[2], Rollback[3]>> \in Order
      /\ <<Rollback[3], Rollback[4]>> \in Order
      /\ <<Rollback[4], Rollback[5]>> \in Order
      /\ <<Rollback[5], Rollback[6]>> \in Order
      /\ <<Rollback[6], Rollback[7]>> \in Order
      /\ <<Rollback[7], Rollback[8]>> \in Order
      /\ <<Rollback[8], Rollback[9]>> \in Order
      /\ <<Rollback[9], Rollback[10]>> \in Order
      /\ <<Rollback[10], Rollback[11]>> \in Order
      /\ <<Rollback[11], Rollback[12]>> \in Order
      /\ <<Rollback[12], Rollback[13]>> \in Order
      /\ <<Rollback[13], Rollback[14]>> \in Order
      /\ <<Rollback[14], Rollback[15]>> \in Order
      /\ <<Rollback[15], Rollback[16]>> \in Order
      /\ <<Rollback[16], Rollback[17]>> \in Order
      /\ <<Rollback[17], Rollback[18]>> \in Order
  BY <1>2, <1>3
<1>5. ASSUME NEW i \in 1..17
      PROVE  <<Rollback[i], Rollback[i + 1]>> \in Order
  <2>1. CASE i \in 1..9
    BY <1>4, <2>1
  <2>2. CASE i \in 10..17
    BY <1>4, <2>2
  <2> QED BY <2>1, <2>2
<1>6. Route(Rollback)
  BY <1>1, <1>5 DEF Route, Chain
<1> QED BY <1>1, <1>2, <1>6

\* The program of each action: a route to the end of the script.
LEMMA ProgramRoute ==
  ASSUME NEW a \in DOMAIN Program
  PROVE  /\ Route(Program[a])
         /\ Program[a][1] \in {"snapshot", "quiesce"}
         /\ Program[a][Len(Program[a])] = "cleanup"
<1> DEFINE Leads(s, first, last) == Route(s) /\ s[1] = first /\ s[Len(s)] = last
<1>1. ASSUME NEW s, NEW t, NEW b, NEW c, NEW d, NEW e,
             Leads(s, b, c), Leads(t, d, e), <<c, d>> \in Order
      PROVE  Leads(s \o t, b, e)
  BY <1>1, Joined
<1>2. /\ Leads(Prologue, "snapshot", "dirs") /\ Leads(Configuration, "token", "config")
      /\ Leads(Deployment, "unit", "health") /\ Leads(Promotion, "moveAside", "promoted")
      /\ Leads(Epilogue, "commit", "cleanup") /\ Leads(Removal, "quiesce", "cleanup")
  BY PrologueRoute, ConfigurationRoute, DeploymentRoute, PromotionRoute, EpilogueRoute,
     RemovalRoute
<1>3. Leads(<<"binary">>, "binary", "binary")
  BY DEF Route, Chain, Protected, Deploying
<1>4. /\ <<"dirs", "token">> \in Order /\ <<"config", "binary">> \in Order
      /\ <<"binary", "unit">> \in Order /\ <<"health", "moveAside">> \in Order
      /\ <<"promoted", "commit">> \in Order /\ <<"config", "unit">> \in Order
      /\ <<"dirs", "unit">> \in Order /\ <<"health", "commit">> \in Order
  BY DEF Order
<1> HIDE DEF Leads
<1>5. Leads(Upgrade, "snapshot", "cleanup")
  <2>1. Leads(Prologue \o Configuration, "snapshot", "config")
    BY <1>1, <1>2, <1>4
  <2>2. Leads(Prologue \o Configuration \o <<"binary">>, "snapshot", "binary")
    BY <1>1, <1>3, <1>4, <2>1
  <2>3. Leads(Prologue \o Configuration \o <<"binary">> \o Deployment, "snapshot", "health")
    BY <1>1, <1>2, <1>4, <2>2
  <2>4. Leads(Prologue \o Configuration \o <<"binary">> \o Deployment \o Promotion,
              "snapshot", "promoted")
    BY <1>1, <1>2, <1>4, <2>3
  <2> QED BY <1>1, <1>2, <1>4, <2>4 DEF Upgrade
<1>6. Leads(Prologue \o Configuration \o Deployment \o Epilogue, "snapshot", "cleanup")
  <2>1. Leads(Prologue \o Configuration, "snapshot", "config")
    BY <1>1, <1>2, <1>4
  <2>2. Leads(Prologue \o Configuration \o Deployment, "snapshot", "health")
    BY <1>1, <1>2, <1>4, <2>1
  <2> QED BY <1>1, <1>2, <1>4, <2>2
<1>7. Leads(Prologue \o Deployment \o Epilogue, "snapshot", "cleanup")
  <2>1. Leads(Prologue \o Deployment, "snapshot", "health")
    BY <1>1, <1>2, <1>4
  <2> QED BY <1>1, <1>2, <1>4, <2>1
<1>8. a \in {"install", "update", "reconfigure", "unit", "uninstall"}
  BY DEF Program
<1>9. /\ Program["install"] = Upgrade /\ Program["update"] = Upgrade
      /\ Program["reconfigure"] = Prologue \o Configuration \o Deployment \o Epilogue
      /\ Program["unit"] = Prologue \o Deployment \o Epilogue
      /\ Program["uninstall"] = Removal
  BY DEF Program
<1>10. Leads(Program[a], "snapshot", "cleanup") \/ Leads(Program[a], "quiesce", "cleanup")
  BY <1>2, <1>5, <1>6, <1>7, <1>8, <1>9
<1> QED BY <1>10 DEF Leads

\* From a route to a path, for a value of todo that an action assigns.
LEMMA Routed ==
  ASSUME Route(todo'), todo'[Len(todo')] = "cleanup"
  PROVE  Path' /\ Now' = todo'[1]
<1>1. Protected' = Protected /\ Others' = Others
  BY DEF Protected, Others, Deploying, Undoing
<1>2. todo' # <<>> /\ Head(todo') = todo'[1]
  BY DEF Route
<1> QED BY <1>1, <1>2 DEF Route, Path, Chain, Now, Order

\* The steps that do not take the next one of the program.
LEMMA Leaps ==
  /\ Start => Path' /\ Now' \in {"snapshot", "quiesce"}
  /\ Abort => Path' /\ Now' = IF sh.active THEN "rb quiesce" ELSE "cleanup"
  /\ todo' = <<"cleanup">> => Path' /\ Now' = "cleanup"
  /\ todo' = <<>> => Path' /\ Now' = "idle"
<1>1. ASSUME Start PROVE Path' /\ Now' \in {"snapshot", "quiesce"}
  <2>1. PICK a \in DOMAIN Program : todo' = Program[a]
    BY <1>1 DEF Start
  <2> QED BY <2>1, ProgramRoute, Routed
<1>2. ASSUME todo' = <<"cleanup">> PROVE Path' /\ Now' = "cleanup"
  <2>1. Route(<<"cleanup">>) /\ <<"cleanup">>[1] = "cleanup" /\ Len(<<"cleanup">>) = 1
    BY DEF Route, Chain, Others
  <2> QED BY <1>2, <2>1, Routed
<1>3. ASSUME Abort PROVE Path' /\ Now' = IF sh.active THEN "rb quiesce" ELSE "cleanup"
  <2>1. CASE sh.active
    BY <1>3, <2>1, RollbackRoute, Routed DEF Abort
  <2>2. CASE ~sh.active
    BY <1>2, <1>3, <2>2 DEF Abort
  <2> QED BY <2>1, <2>2
<1>4. ASSUME todo' = <<>> PROVE Path' /\ Now' = "idle"
  BY <1>4 DEF Path, Chain, Now
<1> QED BY <1>1, <1>2, <1>3, <1>4

\* What is left of a chain of steps from its k-th step on.
LEMMA Suffix ==
  ASSUME NEW S, NEW q \in Seq(S), NEW k \in 1..Len(q), NEW R, NEW u,
         u = SubSeq(q, k, Len(q)),
         \A i \in 1..(Len(q) - 1) : <<q[i], q[i + 1]>> \in R
  PROVE  /\ u \in Seq(S) /\ Len(u) > 0
         /\ u[1] = q[k] /\ u[Len(u)] = q[Len(q)]
         /\ \A i \in 1..(Len(u) - 1) : <<u[i], u[i + 1]>> \in R
<1> DEFINE n == Len(q)
<1>1. n \in Nat /\ n \in Int /\ k \in Int
  BY LenProperties
<1>2. \A i \in k..n : q[i] \in S
  BY <1>1, ElementOfSeq
<1> HIDE DEF n
<1>3. /\ u \in Seq(S)
      /\ Len(u) = IF k <= n THEN n - k + 1 ELSE 0
      /\ \A i \in 1..(n - k + 1) : u[i] = q[k + i - 1]
  BY <1>1, <1>2, SubSeqProperties DEF n
<1>4. k \in 1..n
  BY DEF n
<1>5. Len(u) = n - k + 1 /\ Len(u) > 0
  BY <1>1, <1>3, <1>4
<1>6. u[1] = q[k] /\ u[Len(u)] = q[n]
  <2> DEFINE m == n - k + 1
  <2>1. 1 \in 1..m /\ m \in 1..m /\ k + 1 - 1 = k /\ k + m - 1 = n
    BY ONLY <1>1, <1>4
  <2>2. u[1] = q[k + 1 - 1] /\ u[m] = q[k + m - 1]
    <3> HIDE DEF m
    <3>1. \A i \in 1..m : u[i] = q[k + i - 1]
      BY ONLY <1>3 DEF m
    <3> QED BY ONLY <2>1, <3>1
  <2>3. Len(u) = m
    BY ONLY <1>5
  <2> HIDE DEF m
  <2> QED BY ONLY <2>1, <2>2, <2>3
<1>7. ASSUME NEW i \in 1..(Len(u) - 1)
      PROVE  <<u[i], u[i + 1]>> \in R
  <2> DEFINE j == k + i - 1
  <2>1. j \in 1..(n - 1) /\ u[i] = q[j] /\ u[i + 1] = q[j + 1]
    BY <1>1, <1>3, <1>4, <1>5
  <2> HIDE DEF j
  <2> QED BY <2>1 DEF n
<1> QED BY <1>3, <1>5, <1>6, <1>7 DEF n

\* After the source comes the configuration directory.
LEMMA Landing ==
  ASSUME Path, todo # <<>>
  PROVE  /\ Head(todo) = "rb moveFailed" => 4 <= Len(todo) /\ todo[4] = "rb configDir"
         /\ Head(todo) = "rb source" => 3 <= Len(todo) /\ todo[3] = "rb configDir"
<1>1. Len(todo) \in Nat /\ Len(todo) # 0 /\ Head(todo) = todo[1]
  BY DEF Path
<1>2. ASSUME NEW i \in Nat, NEW j \in Nat, i > 0, j = i + 1,
             i <= Len(todo), todo[i] # "cleanup"
      PROVE  j <= Len(todo) /\ <<todo[i], todo[j]>> \in Order
  <2>1. i # Len(todo)
    BY <1>1, <1>2 DEF Path
  <2>2. i \in 1..(Len(todo) - 1) /\ j <= Len(todo)
    BY <1>1, <1>2, <2>1
  <2> QED BY <1>2, <2>2 DEF Path, Chain
<1>3. ASSUME NEW i \in Nat, NEW j \in Nat, NEW k \in Nat, i > 0, j = i + 1, k = j + 1,
             i <= Len(todo), todo[i] = "rb source"
      PROVE  k <= Len(todo) /\ todo[k] = "rb configDir"
  <2>1. j <= Len(todo) /\ <<todo[i], todo[j]>> \in Order
    BY <1>2, <1>3
  <2>2. todo[j] = "rb dropFailed"
    BY <1>3, <2>1 DEF Order
  <2>3. j > 0
    BY ONLY i \in Nat, j \in Nat, i > 0, j = i + 1
  <2>4. k <= Len(todo) /\ <<todo[j], todo[k]>> \in Order
    BY <1>2, <1>3, <2>1, <2>2, <2>3
  <2>5. todo[k] = "rb configDir"
    BY <2>2, <2>4 DEF Order
  <2> QED BY <2>4, <2>5
<1>4. ASSUME Head(todo) = "rb moveFailed"
      PROVE  4 <= Len(todo) /\ todo[4] = "rb configDir"
  <2>1. 1 <= Len(todo) /\ 2 = 1 + 1 /\ 1 > 0
    BY ONLY <1>1
  <2>2. todo[1] = "rb moveFailed"
    BY ONLY <1>1, <1>4
  <2>3. 2 <= Len(todo) /\ <<todo[1], todo[2]>> \in Order
    BY <1>2, <2>1, <2>2
  <2>4. todo[2] = "rb source"
    BY <2>3, <2>2 DEF Order
  <2>5. 3 = 2 + 1 /\ 4 = 3 + 1 /\ 2 > 0
    OBVIOUS
  <2> QED BY <1>3, <2>3, <2>4, <2>5
<1>5. ASSUME Head(todo) = "rb source"
      PROVE  3 <= Len(todo) /\ todo[3] = "rb configDir"
  <2>1. 1 <= Len(todo) /\ 2 = 1 + 1 /\ 3 = 2 + 1 /\ 1 > 0
    BY ONLY <1>1
  <2>2. todo[1] = "rb source"
    BY ONLY <1>1, <1>5
  <2> QED BY <1>3, <2>1, <2>2
<1> QED BY <1>4, <1>5

\* RestoreSourceFails goes on after the source.
LEMMA SourceSkipped ==
  ASSUME Path, todo # <<>>, NEW k \in {3, 4}, k <= Len(todo), todo[k] = "rb configDir"
  PROVE  todo' = SubSeq(todo, k, Len(todo)) => Path' /\ Now' = "rb configDir"
<1>1. todo \in Seq(Protected \cup Others) /\ Len(todo) \in Nat
  BY LenProperties DEF Path
<1>2. k \in 1..Len(todo)
  BY ONLY <1>1, k \in {3, 4}, k <= Len(todo)
<1>3. todo[Len(todo)] = "cleanup"
  BY DEF Path
<1>4. \A i \in 1..(Len(todo) - 1) : <<todo[i], todo[i + 1]>> \in Order
  BY DEF Path, Chain
<1>5. ASSUME NEW u, u = SubSeq(todo, k, Len(todo))
      PROVE  Route(u) /\ u[1] = "rb configDir" /\ u[Len(u)] = "cleanup"
  <2>1. /\ u \in Seq(Protected \cup Others) /\ Len(u) > 0
        /\ u[1] = todo[k] /\ u[Len(u)] = todo[Len(todo)]
        /\ \A i \in 1..(Len(u) - 1) : <<u[i], u[i + 1]>> \in Order
    BY ONLY <1>1, <1>2, <1>4, <1>5, Suffix
  <2> QED BY <1>3, <2>1 DEF Route, Chain
<1> QED BY <1>5, Routed

\* What the proofs below use of control: the step the script is at, and where
\* Done leads.
LEMMA Walk ==
  ASSUME Path
  PROVE  /\ \A s : s # "idle" => (At(s) <=> Now = s)
         /\ Done => Now # "idle"
         /\ Done /\ Now # "cleanup" => Path' /\ Advance /\ AdvanceBack
         /\ todo # <<>> <=> Now # "idle"
         /\ RollingBack <=> Now \in Undoing
         /\ Now \in Protected \cup Others \cup {"idle"}
<1>1. \A s : s # "idle" => (At(s) <=> Now = s)
  BY AtNow
<1>2. Done /\ Now # "cleanup" => Path' /\ Advance /\ AdvanceBack
  BY DoneAdvances
<1>3. todo # <<>> => Head(todo) \in Protected \cup Others
  BY DEF Path
<1>4. "idle" \notin Protected \cup Others
  BY DEF Protected, Others, Deploying, Undoing
<1>5. (todo # <<>> <=> Now # "idle") /\ (Done => Now # "idle")
  BY <1>3, <1>4 DEF Now, Done
<1>6. Now \in Protected \cup Others \cup {"idle"}
  BY <1>3 DEF Now
<1>7. RollingBack <=> Now \in Undoing
  <2>1. /\ Len(Rollback) = 18
        /\ Rollback[1] = "rb quiesce" /\ Rollback[2] = "rb token"
        /\ Rollback[3] = "rb config" /\ Rollback[4] = "rb binary"
        /\ Rollback[5] = "rb unit" /\ Rollback[6] = "rb override"
        /\ Rollback[7] = "rb moveFailed" /\ Rollback[8] = "rb source"
        /\ Rollback[9] = "rb dropFailed" /\ Rollback[10] = "rb configDir"
        /\ Rollback[11] = "rb stateDir" /\ Rollback[12] = "rb user"
        /\ Rollback[13] = "rb group" /\ Rollback[14] = "rb reload"
        /\ Rollback[15] = "rb enablement" /\ Rollback[16] = "rb restart"
        /\ Rollback[17] = "rb finish"
    BY DEF Rollback
  <2>2. (\E i \in 1..17 : Now = Rollback[i]) <=> Now \in Undoing
    <3>1.
          /\ Rollback[1] \in Undoing /\ Rollback[2] \in Undoing /\ Rollback[3] \in Undoing
          /\ Rollback[4] \in Undoing /\ Rollback[5] \in Undoing /\ Rollback[6] \in Undoing
          /\ Rollback[7] \in Undoing /\ Rollback[8] \in Undoing /\ Rollback[9] \in Undoing
          /\ Rollback[10] \in Undoing /\ Rollback[11] \in Undoing /\ Rollback[12] \in Undoing
          /\ Rollback[13] \in Undoing /\ Rollback[14] \in Undoing /\ Rollback[15] \in Undoing
          /\ Rollback[16] \in Undoing /\ Rollback[17] \in Undoing
      BY <2>1 DEF Undoing
    <3>2. ASSUME NEW i \in 1..17 PROVE Rollback[i] \in Undoing
      <4>1. CASE i \in 1..9
        BY <3>1, <4>1
      <4>2. CASE i \in 10..17
        BY <3>1, <4>2
      <4> QED BY <4>1, <4>2
    <3>3. ASSUME Now \in Undoing
          PROVE
          \/ Now = Rollback[1] \/ Now = Rollback[2] \/ Now = Rollback[3]
          \/ Now = Rollback[4] \/ Now = Rollback[5] \/ Now = Rollback[6]
          \/ Now = Rollback[7] \/ Now = Rollback[8] \/ Now = Rollback[9]
          \/ Now = Rollback[10] \/ Now = Rollback[11] \/ Now = Rollback[12]
          \/ Now = Rollback[13] \/ Now = Rollback[14] \/ Now = Rollback[15]
          \/ Now = Rollback[16] \/ Now = Rollback[17]
      BY <2>1, <3>3 DEF Undoing
    <3>4. ASSUME Now \in Undoing PROVE \E i \in 1..17 : Now = Rollback[i]
      BY <3>3, <3>4
    <3> QED BY <3>2, <3>4
  <2>3. todo # <<>> => Now = Head(todo)
    BY DEF Now
  <2>4. todo = <<>> => Now \notin Undoing
    <3>1. todo = <<>> => Now = "idle"
      BY DEF Now
    <3> QED BY <1>4, <3>1 DEF Protected
  <2>5. RollingBack <=> todo # <<>> /\ \E i \in 1..17 : Head(todo) = Rollback[i]
    <3>1. Len(Rollback) - 1 = 17
      BY ONLY DEF Rollback
    <3> QED BY ONLY <3>1, Zenon DEF RollingBack
  <2> QED BY <2>2, <2>3, <2>4, <2>5
<1> QED BY <1>1, <1>2, <1>5, <1>6, <1>7

\* RestoreSourceFails takes the next step or skips the source.
LEMMA SourceFails ==
  ASSUME Path, RestoreSourceFails
  PROVE  /\ Path'
         /\ Now = "rb dropFailed" \/ Now = "rb moveFailed" \/ Now = "rb source"
         /\ Now' = "rb configDir"
<1>1. CASE At("rb moveFailed") /\ todo' = SubSeq(todo, 4, Len(todo))
  <2>1. todo # <<>> /\ Head(todo) = "rb moveFailed" /\ Now = "rb moveFailed"
    BY <1>1 DEF At, Now
  <2>2. 4 \in {3, 4} /\ 4 <= Len(todo) /\ todo[4] = "rb configDir"
    BY <2>1, Landing
  <2> QED BY <1>1, <2>1, <2>2, SourceSkipped
<1>2. CASE At("rb source") /\ todo' = SubSeq(todo, 3, Len(todo))
  <2>1. todo # <<>> /\ Head(todo) = "rb source" /\ Now = "rb source"
    BY <1>2 DEF At, Now
  <2>2. 3 \in {3, 4} /\ 3 <= Len(todo) /\ todo[3] = "rb configDir"
    BY <2>1, Landing
  <2> QED BY <1>2, <2>1, <2>2, SourceSkipped
<1>3. CASE At("rb dropFailed") /\ Done
  <2>1. Now = "rb dropFailed"
    BY <1>3, Walk
  <2> QED BY <1>3, <2>1, Walk DEF AdvanceBack
<1>4. \/ At("rb moveFailed") /\ todo' = SubSeq(todo, 4, Len(todo))
      \/ At("rb source") /\ todo' = SubSeq(todo, 3, Len(todo))
      \/ At("rb dropFailed") /\ Done
  BY Zenon DEF RestoreSourceFails
<1> QED BY <1>1, <1>2, <1>3, <1>4

\* The steps of a transaction, by what comes before and after
LEMMA DeployMoves ==
  ASSUME Path
  PROVE
    /\ At("snapshot") /\ Done => Now = "snapshot" /\ Now' = "begin"
    /\ At("begin") /\ Done => Now = "begin" /\ Now' = "stop"
    /\ At("stop") /\ Done => Now = "stop" /\ Now' = "group"
    /\ At("group") /\ Done => Now = "group" /\ Now' = "user"
    /\ At("user") /\ Done => Now = "user" /\ Now' = "dirs"
    /\ At("dirs") /\ Done => Now = "dirs" /\ Now' \in {"token", "unit"}
    /\ At("token") /\ Done => Now = "token" /\ Now' = "config"
    /\ At("config") /\ Done => Now = "config" /\ Now' \in {"binary", "unit"}
    /\ At("binary") /\ Done => Now = "binary" /\ Now' = "unit"
    /\ At("unit") /\ Done => Now = "unit" /\ Now' = "override"
    /\ At("override") /\ Done => Now = "override" /\ Now' = "validate"
    /\ At("validate") /\ Done => Now = "validate" /\ Now' = "reload"
    /\ At("reload") /\ Done => Now = "reload" /\ Now' = "enable"
    /\ At("enable") /\ Done => Now = "enable" /\ Now' = "restart"
    /\ At("restart") /\ Done => Now = "restart" /\ Now' = "health"
    /\ At("health") /\ Done => Now = "health" /\ Now' \in {"moveAside", "commit"}
    /\ At("moveAside") /\ Done => Now = "moveAside" /\ Now' = "promote"
    /\ At("promote") /\ Done => Now = "promote" /\ Now' = "promoted"
    /\ At("promoted") /\ Done => Now = "promoted" /\ Now' = "commit"
    /\ At("commit") /\ Done => Now = "commit" /\ Now' = "dropTree"
    /\ At("dropTree") /\ Done => Now = "dropTree" /\ Now' = "dropSnapshot"
    /\ At("dropSnapshot") /\ Done => Now = "dropSnapshot" /\ Now' = "cleanup"
<1>1. Done /\ Now # "cleanup" => Advance
  BY DoneAdvances
<1>2. ASSUME NEW s, s # "idle", At(s) PROVE Now = s
  BY <1>2, AtNow
<1> QED BY <1>1, <1>2 DEF Advance

\* The steps of an uninstallation
LEMMA RemovalMoves ==
  ASSUME Path
  PROVE
    /\ At("quiesce") /\ Done => Now = "quiesce" /\ Now' = "disable"
    /\ At("disable") /\ Done => Now = "disable" /\ Now' = "remove"
    /\ At("remove") /\ Done => Now = "remove" /\ Now' = "unload"
    /\ At("unload") /\ Done => Now = "unload" /\ Now' = "secrets"
    /\ At("secrets") /\ Done => Now = "secrets" /\ Now' = "identity"
    /\ At("identity") /\ Done => Now = "identity" /\ Now' = "source"
    /\ At("source") /\ Done => Now = "source" /\ Now' = "cleanup"
<1>1. Done /\ Now # "cleanup" => Advance
  BY DoneAdvances
<1>2. ASSUME NEW s, s # "idle", At(s) PROVE Now = s
  BY <1>2, AtNow
<1> QED BY <1>1, <1>2 DEF Advance

\* The steps of a rollback
LEMMA RollbackMoves ==
  ASSUME Path
  PROVE
    /\ At("rb quiesce") /\ Done => Now = "rb quiesce" /\ Now' = "rb token"
    /\ At("rb token") /\ Done => Now = "rb token" /\ Now' = "rb config"
    /\ At("rb config") /\ Done => Now = "rb config" /\ Now' = "rb binary"
    /\ At("rb binary") /\ Done => Now = "rb binary" /\ Now' = "rb unit"
    /\ At("rb unit") /\ Done => Now = "rb unit" /\ Now' = "rb override"
    /\ At("rb override") /\ Done => Now = "rb override" /\ Now' = "rb moveFailed"
    /\ At("rb moveFailed") /\ Done => Now = "rb moveFailed" /\ Now' = "rb source"
    /\ At("rb source") /\ Done => Now = "rb source" /\ Now' = "rb dropFailed"
    /\ At("rb dropFailed") /\ Done => Now = "rb dropFailed" /\ Now' = "rb configDir"
    /\ At("rb configDir") /\ Done => Now = "rb configDir" /\ Now' = "rb stateDir"
    /\ At("rb stateDir") /\ Done => Now = "rb stateDir" /\ Now' = "rb user"
    /\ At("rb user") /\ Done => Now = "rb user" /\ Now' = "rb group"
    /\ At("rb group") /\ Done => Now = "rb group" /\ Now' = "rb reload"
    /\ At("rb reload") /\ Done => Now = "rb reload" /\ Now' = "rb enablement"
    /\ At("rb enablement") /\ Done => Now = "rb enablement" /\ Now' = "rb restart"
    /\ At("rb restart") /\ Done => Now = "rb restart" /\ Now' = "rb finish"
    /\ At("rb finish") /\ Done => Now = "rb finish" /\ Now' = "cleanup"
<1>1. Done /\ Now # "cleanup" => AdvanceBack
  BY DoneAdvances
<1>2. ASSUME NEW s, s # "idle", At(s) PROVE Now = s
  BY <1>2, AtNow
<1> QED BY <1>1, <1>2 DEF AdvanceBack

-----------------------------------------------------------------------------
(* Types *)

\* The variables that the script starts with are well typed.
LEMMA FreshType == Fresh \in Script
BY InstallerAssumption DEF Fresh, Script, Enablement, None

\* The absence of a file is a content and a release.
LEMMA NoneType == None \in 0..MaxRelease /\ None \in Content
BY InstallerAssumption DEF None, Content

\* Types hold at first.
LEMMA TypeInit == Init => TypeInv
<1> SUFFICES ASSUME Init PROVE TypeInv
  OBVIOUS
<1>1. Nothing \in FileSet
  BY NoneType DEF Nothing, FileSet
<1>2. ASSUME NEW v \in Release, NEW f,
             f = [Nothing EXCEPT !.binary = v, !.unit = 1, !.config = 1, !.token = 1,
                                 !.override = IF CustomPath THEN 1 ELSE None]
      PROVE  f \in FileSet /\ f.binary = v /\ v \in 0..MaxRelease
  <2>1. v \in Content /\ 1 \in Content /\ v \in 0..MaxRelease
    BY InstallerAssumption DEF Release, Content
  <2> QED BY <1>1, <1>2, <2>1, NoneType DEF FileSet, File
<1>3. \A f \in Installed : f \in FileSet /\ f.binary \in 0..MaxRelease
  BY <1>2 DEF Installed
<1>4. live \in FileSet /\ src \in 0..MaxRelease
  BY <1>1, <1>3, NoneType DEF Init
<1>5. /\ enabled \in Enablement
      /\ dirs \subseteq {"config", "state"} /\ ids \subseteq {"user", "group"}
      /\ running \subseteq {live}
  BY DEF Init, Enablement
<1>6. live.unit \in Content /\ live.override \in Content
  BY <1>4 DEF FileSet, File
<1> QED BY <1>4, <1>5, <1>6, FreshType, InstallerAssumption DEF Init, TypeInv

\* Put a content of the right type.
LEMMA PutType ==
  ASSUME TypeInv, NEW f \in File, NEW c \in Content, Put(f, c)
  PROVE  TypeInv'
<1>1. live' \in FileSet
  BY DEF TypeInv, Put, FileSet
<1> QED BY <1>1 DEF TypeInv, Put, recovery, systemd, history

\* Starting the script preserves types: every choice of action and candidate.
LEMMA TypeStart == ASSUME TypeInv, Start PROVE TypeInv'
<1>1. PICK action \in DOMAIN Program, candidate \in Release, blind \in BOOLEAN :
        /\ sh' = [Fresh EXCEPT !.action = action, !.blind = blind,
                               !.incomplete = Partial(action),
                               !.candidate = IF action \in {"install", "update"}
                                             THEN candidate ELSE None]
        /\ blind => faults < MaxFaults
        /\ faults' = IF blind THEN faults + 1 ELSE faults
  BY DEF Start
<1>2. Partial(action) \in BOOLEAN
  BY DEF Partial
<1>3. action \in {"install", "update", "reconfigure", "unit", "uninstall"}
  BY DEF Program
<1>4. candidate \in 0..MaxRelease
  BY InstallerAssumption DEF Release
<1>5. sh' \in Script
  <2> DEFINE partial == Partial(action)
             new == IF action \in {"install", "update"} THEN candidate ELSE None
  <2>1. new \in 0..MaxRelease /\ partial \in BOOLEAN
    BY <1>2, <1>4, NoneType
  <2>2. sh' = [Fresh EXCEPT !.action = action, !.blind = blind, !.incomplete = partial,
                            !.candidate = new]
    BY <1>1
  <2>3. Fresh \in Script
    BY FreshType
  <2> HIDE DEF partial, new
  <2> QED BY <1>3, <2>1, <2>2, <2>3 DEF Script
<1>6. runs' \in 0..MaxRuns /\ runs' = runs + 1
  BY InstallerAssumption DEF Start, TypeInv
<1>7. faults' \in 0..MaxFaults
  BY <1>1, InstallerAssumption DEF TypeInv
<1>8. before' \in [live : FileSet, src : 0..MaxRelease]
  BY DEF Start, TypeInv
<1>9. UNCHANGED <<disk, recovery, systemd, good, committed, stuck>>
  BY DEF Start
<1>10. trees' \subseteq [suffix : {"rollback", "failed"}, run : 0..runs',
                         release : 0..MaxRelease]
  BY <1>6, <1>9 DEF TypeInv, disk
<1> QED BY <1>5, <1>6, <1>7, <1>8, <1>9, <1>10 DEF TypeInv, disk, recovery, systemd

\* The updates of the script's variables.
LEMMA Updates ==
  ASSUME TypeInv
  PROVE
    /\ [sh EXCEPT !.active = FALSE] \in Script
    /\ [sh EXCEPT !.backup = src, !.hadSource = (src # None)] \in Script
    /\ [sh EXCEPT !.promoted = TRUE] \in Script
    /\ [sh EXCEPT !.deleted = TRUE] \in Script
    /\ [sh EXCEPT !.preserve = TRUE] \in Script
    /\ [sh EXCEPT !.failedTree = src] \in Script
    /\ [sh EXCEPT !.failed = TRUE] \in Script
    /\ [sh EXCEPT !.retain = "state" \in sh.dirs /\ "user" \notin sh.ids] \in Script
    /\ [sh EXCEPT !.failed = TRUE,
                        !.retain = "state" \notin sh.dirs \/ "user" \notin sh.ids] \in Script
<1>1. [sh EXCEPT !.active = FALSE] \in Script
  BY DEF TypeInv, Script
<1>2. [sh EXCEPT !.backup = src, !.hadSource = (src # None)] \in Script
  BY DEF TypeInv, Script
<1>3. [sh EXCEPT !.promoted = TRUE] \in Script
  BY DEF TypeInv, Script
<1>4. [sh EXCEPT !.deleted = TRUE] \in Script
  BY DEF TypeInv, Script
<1>5. [sh EXCEPT !.preserve = TRUE] \in Script
  BY DEF TypeInv, Script
<1>6. [sh EXCEPT !.failedTree = src] \in Script
  BY DEF TypeInv, Script
<1>7. [sh EXCEPT !.failed = TRUE] \in Script
  BY DEF TypeInv, Script
<1>8. [sh EXCEPT !.retain = "state" \in sh.dirs /\ "user" \notin sh.ids] \in Script
  BY DEF TypeInv, Script
<1>9. [sh EXCEPT !.failed = TRUE,
                        !.retain = "state" \notin sh.dirs \/ "user" \notin sh.ids] \in Script
  BY DEF TypeInv, Script
<1> QED BY <1>1, <1>2, <1>3, <1>4, <1>5, <1>6, <1>7, <1>8, <1>9

\* A fault stays within the bound.
LEMMA FaultType == ASSUME TypeInv, Fault PROVE faults' \in 0..MaxFaults
BY InstallerAssumption DEF TypeInv, Fault

\* Every step preserves types.
LEMMA TypeNext == ASSUME TypeInv, [Next]_vars PROVE TypeInv'
<1> USE InstallerAssumption
<1>1. CASE Start
  BY <1>1, TypeStart
<1>2. CASE Snapshot
  BY <1>2 DEF TypeInv, Snapshot, disk, systemd, history
<1>3. CASE Begin
  BY <1>3 DEF TypeInv, Script, Begin, disk, systemd, recovery, history
<1>4. CASE Stop
  BY <1>4 DEF TypeInv, Stop, disk, recovery, history
<1>5. CASE CreateAccount
  BY <1>5 DEF TypeInv, CreateAccount, systemd, recovery, history
<1>6. CASE WriteConfiguration \/ ActivateBinary \/ InstallUnit \/ RestoreFile
  <2>1. runs + 1 \in Content /\ sh.candidate \in Content
    BY DEF TypeInv, Script, Content
  <2>2. \A f \in File : live[f] \in Content /\ \A s \in rdir : s[f] \in Content
    BY DEF TypeInv, FileSet
  <2>3. CASE WriteConfiguration
    <3>1. PICK f \in {"token", "config"}, c \in Content : Put(f, c)
      BY <2>1, <2>2, <2>3 DEF WriteConfiguration, File
    <3> QED BY <3>1, PutType DEF File
  <2>4. CASE ActivateBinary
    BY <2>1, <2>4, PutType DEF ActivateBinary, File
  <2>5. CASE InstallUnit
    <3>1. (IF CustomPath THEN runs + 1 ELSE None) \in Content
      BY <2>1, NoneType
    <3> QED BY <2>1, <2>5, <3>1, PutType DEF InstallUnit, File
  <2>6. CASE RestoreFile
    BY <2>2, <2>6, PutType DEF RestoreFile
  <2> QED BY <1>6, <2>3, <2>4, <2>5, <2>6
<1>7. CASE Validate
  BY <1>7 DEF TypeInv, Validate, disk, systemd, recovery
<1>8. CASE Commit
  BY <1>8 DEF TypeInv, Script, Commit, disk, systemd, recovery
<1>9. CASE DropBackups
  BY <1>9 DEF TypeInv, DropBackups, systemd, history
<1>10. CASE Cleanup
  BY <1>10, FreshType DEF TypeInv, Cleanup, disk, systemd, history
<1>11. Started \in FileSet /\ live.unit \in Content /\ live.override \in Content
  BY DEF TypeInv, Started, FileSet, File
<1>12. CASE StartService
  BY <1>11, <1>12 DEF TypeInv, StartService, Enablement, disk, recovery, history
<1>13. CASE RestoreService
  <2>1. sh.enablement \in Enablement
    BY DEF TypeInv, Script
  <2>2. loaded' \in [unit : Content, override : Content]
    <3>1. loaded' = Units \/ loaded' = loaded
      BY <1>13 DEF RestoreService, Units
    <3> QED BY <1>11, <3>1 DEF TypeInv, Units
  <2>3. running' \subseteq FileSet
    BY <1>11, <1>13 DEF TypeInv, RestoreService
  <2>4. enabled' \in Enablement
    BY <1>13, <2>1 DEF TypeInv, RestoreService, SetEnablement
  <2> QED BY <1>13, <2>2, <2>3, <2>4 DEF TypeInv, RestoreService, disk, recovery, history
<1>14. CASE Rejected
  BY <1>14 DEF TypeInv, Script, Rejected, Abort, disk, recovery, systemd, history
<1>15. CASE Fails
  <2>1. sh' \in Script /\ faults' \in 0..MaxFaults
    BY <1>15, Updates, FaultType DEF Fails, Abort
  <2> QED BY <1>15, <2>1 DEF TypeInv, Fails, Abort, disk, recovery, systemd, history
<1>16. CASE PromoteSource
  <2>1. sh' \in Script
    <3>1. \/ sh' = [sh EXCEPT !.backup = src, !.hadSource = (src # None)]
          \/ sh' = sh \/ sh' = [sh EXCEPT !.promoted = TRUE]
      BY <1>16 DEF PromoteSource
    <3> QED BY <3>1, Updates DEF TypeInv
  <2>2. src' \in 0..MaxRelease
    BY <1>16, NoneType DEF TypeInv, Script, PromoteSource
  <2>3. trees' \subseteq [suffix : {"rollback", "failed"}, run : 0..runs,
                          release : 0..MaxRelease]
    BY <1>16 DEF TypeInv, PromoteSource, Aside
  <2> QED BY <1>16, <2>1, <2>2, <2>3 DEF TypeInv, PromoteSource, recovery, systemd, history
<1>17. CASE VerifyStopped
  BY <1>17 DEF TypeInv, VerifyStopped, Quiesced, SetEnablement, Enablement, disk, recovery,
     history
<1>18. CASE RemoveFiles
  <2>1. ASSUME NEW files, Delete(files)
        PROVE  /\ live' \in FileSet /\ committed' \in [live : FileSet, src : 0..MaxRelease]
               /\ stuck' \subseteq File
    BY <2>1, NoneType DEF TypeInv, Delete, FileSet
  <2>2. /\ live' \in FileSet /\ committed' \in [live : FileSet, src : 0..MaxRelease]
        /\ stuck' \subseteq File
    BY <1>18, <2>1 DEF RemoveFiles, TypeInv
  <2>3. sh' \in Script /\ dirs' \subseteq {"config", "state"}
    <3>1. sh' = sh \/ sh' = [sh EXCEPT !.deleted = TRUE]
      BY <1>18 DEF RemoveFiles
    <3>2. dirs' \subseteq dirs
      BY <1>18 DEF RemoveFiles
    <3> QED BY <3>1, <3>2, Updates DEF TypeInv
  <2> QED BY <1>18, <2>2, <2>3 DEF TypeInv, RemoveFiles, recovery, systemd
<1>19. CASE RemoveIdentityOrSource
  BY <1>19, NoneType DEF TypeInv, RemoveIdentityOrSource, recovery, systemd
<1>20. CASE RollbackQuiesce
  <2>1. sh' = sh \/ sh' = [sh EXCEPT !.preserve = TRUE]
    BY <1>20 DEF RollbackQuiesce
  <2>2. sh' \in Script
    BY <2>1, Updates DEF TypeInv
  <2>3. faults' \in 0..MaxFaults /\ running' \subseteq FileSet
    BY <1>20, FaultType DEF TypeInv, RollbackQuiesce, Quiesced
  <2> QED BY <1>20, <2>2, <2>3 DEF TypeInv, RollbackQuiesce, disk, recovery, history
<1>21. CASE FinishRollback
  <2>1. sh' = sh \/ sh' = [sh EXCEPT !.preserve = TRUE]
    BY <1>21 DEF FinishRollback
  <2>2. sh' \in Script
    BY <2>1, Updates DEF TypeInv
  <2>3. faults' \in 0..MaxFaults /\ rdir' \subseteq FileSet
    BY <1>21, FaultType DEF TypeInv, FinishRollback
  <2> QED BY <1>21, <2>2, <2>3 DEF TypeInv, FinishRollback, disk, systemd, history
<1>22. CASE RestoreSource
  <2>1. sh' \in Script
    <3>1. sh' = sh \/ sh' = [sh EXCEPT !.failedTree = src]
      BY <1>22 DEF RestoreSource
    <3> QED BY <3>1, Updates DEF TypeInv
  <2>2. src' \in 0..MaxRelease
    BY <1>22, NoneType DEF TypeInv, Script, RestoreSource
  <2>3. trees' \subseteq [suffix : {"rollback", "failed"}, run : 0..runs,
                          release : 0..MaxRelease]
    <3>1. trees' \subseteq trees \cup {Aside("failed", src)}
      BY <1>22 DEF RestoreSource
    <3> QED BY <3>1 DEF TypeInv, Aside
  <2> QED BY <1>22, <2>1, <2>2, <2>3 DEF TypeInv, RestoreSource, recovery, systemd, history
<1>23. CASE RestoreAccount
  <2>1. sh' = sh \/ sh' = [sh EXCEPT !.retain = "state" \in sh.dirs /\ "user" \notin sh.ids]
    BY <1>23 DEF RestoreAccount
  <2>2. sh' \in Script
    BY <2>1, Updates DEF TypeInv
  <2>3. dirs' \subseteq dirs /\ ids' \subseteq ids
    BY <1>23 DEF RestoreAccount, WithoutNewStateDir
  <2> QED BY <1>23, <2>2, <2>3 DEF TypeInv, RestoreAccount, recovery, systemd, history
<1>24. CASE DropFails
  <2>1. At("dropSnapshot") \in BOOLEAN
    BY DEF At
  <2>2. sh' \in Script
    BY <1>24, <2>1 DEF TypeInv, Script, DropFails
  <2> QED BY <1>24, <2>2, FaultType DEF TypeInv, DropFails, disk, recovery, systemd, history
<1>25. CASE Kill
  BY <1>25, FreshType DEF TypeInv, Kill, Fault, disk, systemd, history
<1>26. CASE ServiceDies
  BY <1>26 DEF TypeInv, ServiceDies, Fault, disk, recovery, history
<1>27. CASE RestoreSourceFails
  <2>1. sh' \in Script
    BY <1>27 DEF TypeInv, Script, RestoreSourceFails
  <2>2. src' \in 0..MaxRelease /\ trees' \subseteq trees
    BY <1>27 DEF TypeInv, Script, RestoreSourceFails
  <2>3. /\ UNCHANGED <<live, dirs, ids, recovery, systemd, history, runs>>
        /\ faults' \in 0..MaxFaults
    BY <1>27, FaultType DEF RestoreSourceFails
  <2> QED BY <2>1, <2>2, <2>3 DEF TypeInv, recovery, systemd, history
<1>28. CASE RollbackStepFails
  <2>1. sh' \in Script
    <3>1. \/ sh' = [sh EXCEPT !.failed = TRUE]
          \/ sh' = [sh EXCEPT !.failed = TRUE,
                            !.retain = "state" \notin sh.dirs \/ "user" \notin sh.ids]
      BY <1>28 DEF RollbackStepFails
    <3> QED BY <3>1, Updates DEF TypeInv
  <2>2. running' \subseteq FileSet
    BY <1>11, <1>28 DEF TypeInv, RollbackStepFails, Quiesced
  <2>3. /\ UNCHANGED <<disk, recovery, loaded, enabled, history, runs>>
        /\ faults' \in 0..MaxFaults
    BY <1>28, FaultType DEF RollbackStepFails
  <2> QED BY <2>1, <2>2, <2>3 DEF TypeInv, disk, recovery, history
<1>29. CASE RemovalFails
  <2>1. stuck' \subseteq File
    BY <1>29 DEF TypeInv, RemovalFails
  <2>2. UNCHANGED <<disk, recovery, systemd, sh, good, committed, before, runs>>
        /\ faults' \in 0..MaxFaults
    BY <1>29, FaultType DEF RemovalFails
  <2> QED BY <2>1, <2>2 DEF TypeInv, disk, recovery, systemd
<1>30. CASE UNCHANGED vars
  BY <1>30 DEF TypeInv, vars, disk, recovery, systemd, history
<1> QED BY <1>1, <1>2, <1>3, <1>4, <1>5, <1>6, <1>7, <1>8, <1>9, <1>10, <1>12, <1>13,
          <1>14, <1>15, <1>16, <1>17, <1>18, <1>19, <1>20, <1>21, <1>22, <1>23, <1>24,
          <1>25, <1>26, <1>27, <1>28, <1>29, <1>30 DEF Next, Steps, Faulty

-----------------------------------------------------------------------------
(* Control *)

\* At first the script does not run.
LEMMA ControlInit == Init => Control
<1> SUFFICES ASSUME Init PROVE Control
  OBVIOUS
<1>1. Path /\ Now = "idle"
  BY DEF Init, Path, Chain, Now
<1>2. ~sh.active /\ ~sh.failed
  BY DEF Init, Fresh
<1> QED BY <1>1, <1>2 DEF Control, Deploying

\* From one step to the next the script stays in its transaction or its rollback.
LEMMA Along ==
  ASSUME Path, Done, Now \notin {"begin", "commit", "cleanup"}
  PROVE  /\ Path'
         /\ Now \in Deploying <=> Now' \in Deploying
         /\ Now \in Undoing => Now' \in Undoing \cup {"cleanup"}
<1>1. Path' /\ Advance /\ AdvanceBack
  BY DoneAdvances
<1>2. Now \in Protected \cup Others /\ Now # "idle"
  BY Walk
<1>3. ASSUME Now \in Deploying PROVE Now' \in Deploying
  BY <1>1, <1>3 DEF Deploying, Advance
<1>4. ASSUME Now \in Undoing PROVE Now' \in Undoing \cup {"cleanup"}
  BY <1>1, <1>4 DEF Undoing, AdvanceBack
<1>5. ASSUME Now \in Others PROVE Now' \in Others
  BY <1>1, <1>5 DEF Others, Advance
<1>6. Deploying \cap (Undoing \cup Others) = {}
  BY DEF Deploying, Undoing, Others
<1>7. "cleanup" \notin Deploying
  BY DEF Deploying
<1> QED BY <1>1, <1>2, <1>3, <1>4, <1>5, <1>6, <1>7 DEF Protected

\* The step that restores a file, and the one that removes an account.
LEMMA RestoresAt ==
  ASSUME NEW f \in File, At(Restores[f])
  PROVE  \/ f = "token" /\ Now = "rb token"
         \/ f = "config" /\ Now = "rb config"
         \/ f = "binary" /\ Now = "rb binary"
         \/ f = "unit" /\ Now = "rb unit"
         \/ f = "override" /\ Now = "rb override"
<1>1. /\ Restores["token"] = "rb token" /\ Restores["config"] = "rb config"
      /\ Restores["binary"] = "rb binary" /\ Restores["unit"] = "rb unit"
      /\ Restores["override"] = "rb override"
  BY DEF Restores
<1>2. f \in {"token", "config", "binary", "unit", "override"}
  BY DEF File
<1>3. Restores[f] # "idle"
  BY <1>1, <1>2
<1>4. Now = Restores[f]
  BY <1>3, AtNow
<1> QED BY <1>1, <1>2, <1>4

\* The steps that remove a new account.
LEMMA RemovesAt ==
  ASSUME NEW id \in {"user", "group"}, At(Removes[id])
  PROVE  \/ id = "user" /\ Now = "rb user"
         \/ id = "group" /\ Now = "rb group"
<1>1. Removes["user"] = "rb user" /\ Removes["group"] = "rb group"
  BY DEF Removes
<1>2. Removes[id] # "idle"
  BY <1>1
<1>3. Now = Removes[id]
  BY <1>2, AtNow
<1> QED BY <1>1, <1>3

\* Every step leads to one that may follow it, with the transaction active and the
\* rollback marked as failed only where they can be.
LEMMA ControlNext == ASSUME TypeInv, Control, [Next]_vars PROVE Control'
<1> USE DEF Control
<1>0. sh \in Script
  BY DEF TypeInv
<1>1. CASE Start
  <2>1. Path' /\ Now' \notin Deploying
    BY <1>1, Leaps DEF Deploying
  <2>2. ~sh'.active /\ ~sh'.failed
    BY <1>1 DEF Start, Fresh
  <2> QED BY <2>1, <2>2
<1>2. CASE Snapshot
  BY <1>2, AtNow, Along DEF Snapshot
<1>3. CASE Begin
  <2>1. Path' /\ Now = "begin" /\ Now' = "stop"
    BY <1>3, DoneAdvances, DeployMoves DEF Begin
  <2>2. sh'.active /\ sh'.failed = sh.failed
    BY <1>0, <1>3 DEF Begin, Script
  <2> QED BY <2>1, <2>2 DEF Deploying, Undoing
<1>4. CASE Stop
  BY <1>4, AtNow, Along DEF Stop
<1>5. CASE CreateAccount
  BY <1>5, AtNow, Along DEF CreateAccount
<1>6. CASE WriteConfiguration
  BY <1>6, AtNow, Along DEF WriteConfiguration, Put
<1>7. CASE ActivateBinary \/ InstallUnit
  BY <1>7, AtNow, Along DEF ActivateBinary, InstallUnit, Put
<1>8. CASE RestoreFile \/ RemovalFails
  <2>1. Done /\ sh' = sh
    BY <1>8 DEF RestoreFile, RemovalFails, Put
  <2>2. Now \in Undoing
    <3>1. PICK f \in File : At(Restores[f])
      BY <1>8 DEF RestoreFile, RemovalFails
    <3> QED BY <3>1, RestoresAt DEF Undoing
  <2>3. Now \notin {"begin", "commit", "cleanup"}
    BY <2>2 DEF Undoing
  <2> QED BY <2>1, <2>3, Along
<1>9. CASE Validate \/ StartService
  BY <1>9, AtNow, Along DEF Validate, StartService
<1>10. CASE PromoteSource
  <2>1. sh'.active = sh.active /\ sh'.failed = sh.failed
    BY <1>0, <1>10 DEF PromoteSource, Script
  <2> QED BY <1>10, <2>1, AtNow, Along DEF PromoteSource
<1>11. CASE Rejected \/ Fails
  <2>1. Abort
    BY <1>11 DEF Rejected, Fails
  <2>2. Now \notin Undoing \cup {"cleanup"}
    <3>1. CASE Rejected
      <4>1. Now \in {"validate", "health"}
        BY <3>1, AtNow DEF Rejected
      <4> QED BY <4>1 DEF Undoing
    <3>2. CASE Fails
      <4>1. ~RollingBack /\ ~At("cleanup")
        BY <3>2 DEF Fails
      <4>2. Now \notin Undoing
        BY <4>1, Walk
      <4>3. Now # "cleanup"
        BY <4>1, AtNow
      <4> QED BY <4>2, <4>3
    <3> QED BY <1>11, <3>1, <3>2
  <2>3. Path' /\ Now' \in {"rb quiesce", "cleanup"}
    BY <2>1, Leaps
  <2>4. ~sh'.active /\ sh'.failed = sh.failed
    BY <1>0, <2>1 DEF Abort, Script
  <2> QED BY <2>2, <2>3, <2>4 DEF Deploying, Undoing
<1>12. CASE Commit
  <2>1. Path' /\ Now = "commit" /\ Now' = "dropTree"
    BY <1>12, DoneAdvances, DeployMoves DEF Commit
  <2>2. ~sh'.active /\ sh'.failed = sh.failed
    BY <1>0, <1>12 DEF Commit, Script
  <2> QED BY <2>1, <2>2 DEF Deploying, Undoing
<1>13. CASE DropBackups
  BY <1>13, AtNow, Along DEF DropBackups
<1>14. CASE DropFails
  <2>1. sh'.active = sh.active /\ sh'.failed = sh.failed
    BY <1>0, <1>14 DEF DropFails, Script
  <2> QED BY <1>14, <2>1, AtNow, Along DEF DropFails
<1>15. CASE Cleanup \/ Kill
  <2>1. todo' = <<>> /\ sh' = Fresh
    BY <1>15 DEF Cleanup, Kill
  <2>2. Path' /\ Now' = "idle"
    BY <2>1, Leaps
  <2>3. ~sh'.active /\ ~sh'.failed
    BY <2>1 DEF Fresh
  <2> QED BY <2>2, <2>3 DEF Deploying
<1>16. CASE VerifyStopped \/ RemoveIdentityOrSource
  BY <1>16, AtNow, Along DEF VerifyStopped, RemoveIdentityOrSource
<1>17. CASE RemoveFiles
  <2>1. sh'.active = sh.active /\ sh'.failed = sh.failed
    BY <1>0, <1>17 DEF RemoveFiles, Script
  <2> QED BY <1>17, <2>1, AtNow, Along DEF RemoveFiles
<1>18. CASE ServiceDies
  BY <1>18 DEF ServiceDies, Path, Now, Chain
<1>19. CASE RollbackQuiesce
  <2>1. sh'.active = sh.active /\ sh'.failed = sh.failed /\ Now = "rb quiesce"
    BY <1>0, <1>19, AtNow DEF RollbackQuiesce, Script
  <2>2. CASE Done
    BY <2>1, <2>2, Along
  <2>3. CASE todo' = <<"cleanup">>
    BY <2>1, <2>3, Leaps DEF Deploying
  <2> QED BY <1>19, <2>2, <2>3 DEF RollbackQuiesce
<1>20. CASE RestoreSource
  <2>1. sh'.active = sh.active /\ sh'.failed = sh.failed
    BY <1>0, <1>20 DEF RestoreSource, Script
  <2>2. Done /\ Now \notin {"begin", "commit", "cleanup"}
    BY <1>20, RollbackMoves DEF RestoreSource
  <2> QED BY <2>1, <2>2, Along
<1>21. CASE RestoreSourceFails
  <2>1. Path' /\ Now \in Undoing /\ Now' = "rb configDir"
    BY <1>21, SourceFails DEF Undoing
  <2>2. sh'.active = sh.active
    BY <1>0, <1>21 DEF RestoreSourceFails, Script
  <2> QED BY <2>1, <2>2 DEF Deploying, Undoing
<1>22. CASE RestoreAccount
  <2>1. sh'.active = sh.active /\ sh'.failed = sh.failed
    BY <1>0, <1>22 DEF RestoreAccount, Script
  <2>2. Now \notin {"begin", "commit", "cleanup"}
    BY <1>22, RollbackMoves, RemovesAt DEF RestoreAccount
  <2> QED BY <1>22, <2>1, <2>2, Along DEF RestoreAccount
<1>23. CASE RestoreService
  <2>1. Done /\ Now \notin {"begin", "commit", "cleanup"}
    BY <1>23, RollbackMoves DEF RestoreService
  <2>2. sh' = sh
    BY <1>23 DEF RestoreService
  <2> QED BY <2>1, <2>2, Along
<1>24. CASE RollbackStepFails
  <2>1. sh'.active = sh.active
    BY <1>0, <1>24 DEF RollbackStepFails, Script
  <2>2. Now \in Undoing
    <3>1. ASSUME NEW f \in File, At(Restores[f]) PROVE Now \in Undoing
      BY <3>1, RestoresAt DEF Undoing
    <3>2. ASSUME NEW id \in {"user", "group"}, At(Removes[id]) PROVE Now \in Undoing
      BY <3>2, RemovesAt DEF Undoing
    <3>3. ASSUME NEW s \in {"rb configDir", "rb reload", "rb enablement", "rb stateDir",
                            "rb restart"}, At(s)
          PROVE  Now \in Undoing
      BY <3>3, AtNow DEF Undoing
    <3> QED BY <1>24, <3>1, <3>2, <3>3 DEF RollbackStepFails
  <2>3. Now \notin {"begin", "commit", "cleanup"}
    BY <2>2 DEF Undoing
  <2> QED BY <1>24, <2>1, <2>2, <2>3, Along DEF RollbackStepFails
<1>25. CASE FinishRollback
  <2>1. sh'.active = sh.active /\ sh'.failed = sh.failed
    BY <1>0, <1>25 DEF FinishRollback, Script
  <2>2. Done /\ Now \notin {"begin", "commit", "cleanup"}
    BY <1>25, RollbackMoves DEF FinishRollback
  <2> QED BY <2>1, <2>2, Along
<1>26. CASE UNCHANGED vars
  BY <1>26 DEF vars, Path, Now, Chain
<1> QED BY <1>1, <1>2, <1>3, <1>4, <1>5, <1>6, <1>7, <1>8, <1>9, <1>10, <1>11, <1>12, <1>13,
          <1>14, <1>15, <1>16, <1>17, <1>18, <1>19, <1>20, <1>21, <1>22, <1>23, <1>24,
          <1>25, <1>26 DEF Next, Steps, Faulty

-----------------------------------------------------------------------------
(* Where each action takes the script *)

\* For each action, the steps at which it is taken and those it leads to.
LEMMA Places ==
  ASSUME Path
  PROVE
    /\ Start => Now = "idle" /\ Now' \in {"snapshot", "quiesce"}
    /\ Snapshot => Now = "snapshot" /\ Now' = "begin"
    /\ Begin => Now = "begin" /\ Now' = "stop"
    /\ Stop => Now = "stop" /\ Now' = "group"
    /\ WriteConfiguration \/ ActivateBinary \/ InstallUnit =>
         /\ Now \in {"token", "config", "binary", "unit", "override"}
         /\ Now' \in {"config", "binary", "unit", "override", "validate"}
    /\ Validate => Now = "validate" /\ Now' = "reload"
    /\ Rejected \/ Fails =>
         /\ Now \notin Undoing \cup {"idle", "cleanup"}
         /\ Now' = IF sh.active THEN "rb quiesce" ELSE "cleanup"
    /\ PromoteSource =>
         /\ Now \in {"moveAside", "promote", "promoted"}
         /\ Now' \in {"promote", "promoted", "commit"}
    /\ Commit => Now = "commit" /\ Now' = "dropTree"
    /\ DropBackups \/ DropFails =>
         /\ Now \in {"dropTree", "dropSnapshot"}
         /\ Now' \in {"dropSnapshot", "cleanup"}
    /\ Cleanup => Now = "cleanup" /\ Now' = "idle"
    /\ Kill => Now # "idle" /\ Now' = "idle"
    /\ VerifyStopped => Now \in {"quiesce", "disable"} /\ Now' \in {"disable", "remove"}
    /\ RemoveFiles => Now \in {"remove", "secrets"} /\ Now' \in {"unload", "identity"}
    /\ RemoveIdentityOrSource =>
         Now \in {"identity", "source"} /\ Now' \in {"source", "cleanup"}
    /\ ServiceDies => Now' = Now
    /\ RollbackQuiesce => Now = "rb quiesce" /\ Now' \in {"rb token", "cleanup"}
    /\ RestoreFile \/ RemovalFails =>
         /\ Now \in {"rb token", "rb config", "rb binary", "rb unit", "rb override"}
         /\ Now' \in {"rb config", "rb binary", "rb unit", "rb override", "rb moveFailed"}
    /\ RestoreSource =>
         /\ Now \in {"rb moveFailed", "rb source", "rb dropFailed"}
         /\ Now' \in {"rb source", "rb dropFailed", "rb configDir"}
    /\ RestoreSourceFails =>
         Now \in {"rb moveFailed", "rb source", "rb dropFailed"} /\ Now' = "rb configDir"
    /\ RestoreAccount =>
         /\ Now \in {"rb configDir", "rb stateDir", "rb user", "rb group"}
         /\ Now' \in {"rb stateDir", "rb user", "rb group", "rb reload"}
    /\ RestoreService =>
         /\ Now \in {"rb reload", "rb enablement", "rb restart"}
         /\ Now' \in {"rb enablement", "rb restart", "rb finish"}
    /\ FinishRollback => Now = "rb finish" /\ Now' = "cleanup"
    /\ UNCHANGED vars => Now' = Now
<1>1. Start => Now = "idle" /\ Now' \in {"snapshot", "quiesce"}
  BY Leaps DEF Start, Now
<1>2. /\ Snapshot => Now = "snapshot" /\ Now' = "begin"
      /\ Begin => Now = "begin" /\ Now' = "stop"
      /\ Stop => Now = "stop" /\ Now' = "group"
  BY DeployMoves DEF Snapshot, Begin, Stop
<1>3. WriteConfiguration \/ ActivateBinary \/ InstallUnit =>
        /\ Now \in {"token", "config", "binary", "unit", "override"}
        /\ Now' \in {"config", "binary", "unit", "override", "validate"}
  BY DeployMoves DEF WriteConfiguration, ActivateBinary, InstallUnit, Put
<1>4. /\ Validate => Now = "validate" /\ Now' = "reload"
      /\ Commit => Now = "commit" /\ Now' = "dropTree"
  BY DeployMoves DEF Validate, Commit
<1>5. ASSUME Rejected \/ Fails
      PROVE  /\ Now \notin Undoing \cup {"idle", "cleanup"}
             /\ Now' = IF sh.active THEN "rb quiesce" ELSE "cleanup"
  <2>1. Abort
    BY <1>5 DEF Rejected, Fails
  <2>2. CASE Rejected
    <3>1. Now \in {"validate", "health"}
      BY <2>2, AtNow DEF Rejected
    <3> QED BY <2>1, <3>1, Leaps DEF Undoing
  <2>3. CASE Fails
    <3>1. ~RollingBack /\ ~At("cleanup") /\ todo # <<>>
      BY <2>3 DEF Fails
    <3>2. Now \notin Undoing /\ Now # "idle"
      BY <3>1, Walk
    <3>3. Now # "cleanup"
      BY <3>1, AtNow
    <3> QED BY <2>1, <3>2, <3>3, Leaps
  <2> QED BY <1>5, <2>2, <2>3
<1>6. PromoteSource =>
        /\ Now \in {"moveAside", "promote", "promoted"}
        /\ Now' \in {"promote", "promoted", "commit"}
  BY DeployMoves DEF PromoteSource
<1>7. DropBackups \/ DropFails =>
        Now \in {"dropTree", "dropSnapshot"} /\ Now' \in {"dropSnapshot", "cleanup"}
  BY DeployMoves DEF DropBackups, DropFails
<1>8. Cleanup => Now = "cleanup" /\ Now' = "idle"
  BY AtNow, Leaps DEF Cleanup
<1>9. Kill => Now # "idle" /\ Now' = "idle"
  BY Walk, Leaps DEF Kill
<1>10. /\ VerifyStopped => Now \in {"quiesce", "disable"} /\ Now' \in {"disable", "remove"}
       /\ RemoveFiles => Now \in {"remove", "secrets"} /\ Now' \in {"unload", "identity"}
       /\ RemoveIdentityOrSource =>
            Now \in {"identity", "source"} /\ Now' \in {"source", "cleanup"}
  BY RemovalMoves DEF VerifyStopped, RemoveFiles, RemoveIdentityOrSource
<1>11. (ServiceDies => Now' = Now) /\ (UNCHANGED vars => Now' = Now)
  BY DEF ServiceDies, Now, vars
<1>12. ASSUME RollbackQuiesce
       PROVE  Now = "rb quiesce" /\ Now' \in {"rb token", "cleanup"}
  <2>1. Now = "rb quiesce"
    BY <1>12, AtNow DEF RollbackQuiesce
  <2>2. Done \/ todo' = <<"cleanup">>
    BY <1>12 DEF RollbackQuiesce
  <2> QED BY <1>12, <2>1, <2>2, RollbackMoves, Leaps DEF RollbackQuiesce
<1>13. ASSUME RestoreFile \/ RemovalFails
       PROVE  /\ Now \in {"rb token", "rb config", "rb binary", "rb unit", "rb override"}
              /\ Now' \in {"rb config", "rb binary", "rb unit", "rb override", "rb moveFailed"}
  <2>1. Done
    BY <1>13 DEF RestoreFile, RemovalFails, Put
  <2>2. PICK f \in File : At(Restores[f])
    BY <1>13 DEF RestoreFile, RemovalFails
  <2>3. Now \in {"rb token", "rb config", "rb binary", "rb unit", "rb override"}
    BY <2>2, RestoresAt
  <2> QED BY <2>1, <2>3, DoneAdvances DEF AdvanceBack
<1>14. RestoreSource =>
         /\ Now \in {"rb moveFailed", "rb source", "rb dropFailed"}
         /\ Now' \in {"rb source", "rb dropFailed", "rb configDir"}
  BY RollbackMoves DEF RestoreSource
<1>15. RestoreSourceFails =>
         Now \in {"rb moveFailed", "rb source", "rb dropFailed"} /\ Now' = "rb configDir"
  BY SourceFails
<1>16. ASSUME RestoreAccount
       PROVE  /\ Now \in {"rb configDir", "rb stateDir", "rb user", "rb group"}
              /\ Now' \in {"rb stateDir", "rb user", "rb group", "rb reload"}
  <2>1. Done
    BY <1>16 DEF RestoreAccount
  <2>2. Now \in {"rb configDir", "rb stateDir", "rb user", "rb group"}
    BY <1>16, AtNow, RemovesAt DEF RestoreAccount
  <2> QED BY <2>1, <2>2, DoneAdvances DEF AdvanceBack
<1>17. RestoreService =>
         /\ Now \in {"rb reload", "rb enablement", "rb restart"}
         /\ Now' \in {"rb enablement", "rb restart", "rb finish"}
  BY RollbackMoves DEF RestoreService
<1>18. FinishRollback => Now = "rb finish" /\ Now' = "cleanup"
  BY RollbackMoves DEF FinishRollback
<1> QED BY <1>1, <1>2, <1>3, <1>4, <1>5, <1>6, <1>7, <1>8, <1>9, <1>10, <1>11, <1>12,
          <1>13, <1>14, <1>15, <1>16, <1>17, <1>18

\* CreateAccount and StartService, whose steps differ more.
LEMMA PlacesAccount ==
  ASSUME Path, CreateAccount
  PROVE  Now \in {"group", "user", "dirs"} /\ Now' \in {"user", "dirs", "token", "unit"}
BY DeployMoves DEF CreateAccount

\* The steps of start_service, and the reload of uninstall.
LEMMA PlacesService ==
  ASSUME Path, StartService
  PROVE  \/ Now = "reload" /\ Now' = "enable"
         \/ Now = "enable" /\ Now' = "restart"
         \/ Now = "restart" /\ Now' = "health" /\ running' = {Started}
         \/ Now = "health" /\ Now' \in {"moveAside", "commit"}
         \/ Now = "unload" /\ Now' = "secrets"
BY DeployMoves, RemovalMoves DEF StartService

\* A step of the rollback that fails is followed by another step of the rollback.
LEMMA PlacesFailure ==
  ASSUME Path, RollbackStepFails
  PROVE  /\ Now \in Undoing \ {"rb quiesce", "rb moveFailed", "rb source", "rb dropFailed",
                               "rb finish"}
         /\ Now' \in Undoing \ {"rb quiesce", "rb token"}
<1>1. Done
  BY DEF RollbackStepFails
<1>2. Now \in {"rb token", "rb config", "rb binary", "rb unit", "rb override", "rb configDir",
               "rb stateDir", "rb user", "rb group", "rb reload", "rb enablement",
               "rb restart"}
  BY AtNow, RestoresAt, RemovesAt DEF RollbackStepFails
<1> QED BY <1>1, <1>2, DoneAdvances DEF AdvanceBack, Undoing

-----------------------------------------------------------------------------
(* The service and what is installed *)

\* A service that runs at first runs the installed files.
LEMMA ServiceInit == Init => Service
<1> SUFFICES ASSUME Init PROVE Service
  OBVIOUS
<1>1. Now = "idle"
  BY DEF Init, Now
<1>2. running \subseteq {live}
  BY DEF Init
<1> QED BY <1>1, <1>2 DEF Service, Quiet

\* At most steps the invariant only asks for one thing.
LEMMA ServiceAt ==
  ASSUME running' \subseteq {live'},
         \/ Now' \notin Quiet \cup {"rb finish"}
         \/ /\ running' = {}
            /\ Now' \notin {"enable", "restart", "rb enablement", "rb restart", "rb finish"}
         \/ running' = {} /\ sh'.failed /\ Now' \notin {"enable", "restart"}
  PROVE  Service'
BY DEF Service, Quiet

\* A service is started with the files on disk if systemd has loaded the units.
LEMMA StartedLive ==
  ASSUME TypeInv, loaded = Units
  PROVE  Started = live
<1>1. live \in [File -> Content]
  BY DEF TypeInv, FileSet
<1>2. loaded.unit = live.unit /\ loaded.override = live.override
  BY DEF Units
<1> QED BY <1>1, <1>2 DEF Started, File

\* No step changes a file under a running service or starts one with units that
\* systemd has not loaded.
LEMMA ServiceNext ==
  ASSUME TypeInv, Control, Service, [Next]_vars
  PROVE  Service'
<1>0. Path /\ sh \in Script
  BY DEF Control, TypeInv
<1> DEFINE Still == running' = running /\ live' = live
<1>1. CASE Start \/ Snapshot \/ Begin
  <2>1. Still
    BY <1>1 DEF Start, Snapshot, Begin, disk, systemd
  <2>2. Now' \in {"snapshot", "quiesce", "begin", "stop"}
    BY <1>0, <1>1, Leaps, DeployMoves DEF Snapshot, Begin
  <2> QED BY <2>1, <2>2, ServiceAt DEF Service, Quiet
<1>2. CASE Stop
  <2>1. running' = {} /\ Now' = "group"
    BY <1>0, <1>2, DeployMoves DEF Stop
  <2> QED BY <2>1, ServiceAt
<1>3. CASE CreateAccount
  <2>1. Still
    BY <1>3 DEF CreateAccount, systemd
  <2>2. Now \in Quiet /\ Now' \in {"user", "dirs", "token", "unit"}
    BY <1>0, <1>3, DeployMoves DEF CreateAccount, Quiet
  <2> QED BY <2>1, <2>2, ServiceAt DEF Service
<1>4. CASE WriteConfiguration \/ ActivateBinary \/ InstallUnit
  <2>1. running' = running
    BY <1>4 DEF WriteConfiguration, ActivateBinary, InstallUnit, Put, systemd
  <2>2. Now \in Quiet /\ Now' \in {"config", "binary", "unit", "override", "validate"}
    BY <1>0, <1>4, DeployMoves DEF WriteConfiguration, ActivateBinary, InstallUnit, Put, Quiet
  <2> QED BY <2>1, <2>2, ServiceAt DEF Service
<1>5. CASE Validate
  <2>1. Still
    BY <1>5 DEF Validate, disk, systemd
  <2>2. Now \in Quiet /\ Now' = "reload"
    BY <1>0, <1>5, DeployMoves DEF Validate, Quiet
  <2> QED BY <2>1, <2>2, ServiceAt DEF Service
<1>6. CASE StartService
  <2>0. live' = live /\ Done
    BY <1>6 DEF StartService, disk
  <2>1. CASE At("reload") \/ At("unload")
    <3>1. running' = running /\ loaded' = Units
      BY <1>6, <2>1, AtNow DEF StartService, Units
    <3>2. Now \in Quiet /\ Now' \in {"enable", "secrets"}
      BY <1>0, <2>0, <2>1, DeployMoves, RemovalMoves DEF Quiet
    <3>3. Units' = Units
      BY <2>0 DEF Units
    <3> QED BY <2>0, <3>1, <3>2, <3>3 DEF Service
  <2>2. CASE At("enable")
    <3>1. running' = running /\ loaded' = loaded
      BY <1>6, <2>2, AtNow DEF StartService
    <3>2. Now = "enable" /\ Now' = "restart"
      BY <1>0, <2>0, <2>2, DeployMoves
    <3>3. Units' = Units
      BY <2>0 DEF Units
    <3> QED BY <2>0, <3>1, <3>2, <3>3 DEF Service, Quiet
  <2>3. CASE At("restart")
    <3>1. running' = {Started}
      BY <1>6, <2>3, AtNow DEF StartService
    <3>2. Now = "restart" /\ Now' = "health"
      BY <1>0, <2>0, <2>3, DeployMoves
    <3>3. Started = live
      BY <3>2, StartedLive DEF Service
    <3> QED BY <2>0, <3>1, <3>2, <3>3, ServiceAt DEF Quiet
  <2>4. CASE At("health")
    <3>1. running' = running
      BY <1>6, <2>4, AtNow DEF StartService
    <3>2. Now' \in {"moveAside", "commit"}
      BY <1>0, <2>0, <2>4, DeployMoves
    <3> QED BY <2>0, <3>1, <3>2, ServiceAt DEF Service, Quiet
  <2> QED BY <1>6, <2>1, <2>2, <2>3, <2>4 DEF StartService
<1>7. CASE Rejected \/ Fails
  <2>1. Still /\ Abort
    BY <1>7 DEF Rejected, Fails, Abort, disk, systemd
  <2>2. Now' \in {"rb quiesce", "cleanup"}
    BY <2>1, Leaps
  <2> QED BY <2>1, <2>2, ServiceAt DEF Service, Quiet
<1>8. CASE PromoteSource \/ Commit \/ DropBackups \/ DropFails
  <2>1. Still
    BY <1>8 DEF PromoteSource, Commit, DropBackups, DropFails, disk, systemd
  <2>2. Now' \in {"promote", "promoted", "commit", "dropTree", "dropSnapshot", "cleanup"}
    BY <1>0, <1>8, DeployMoves DEF PromoteSource, Commit, DropBackups, DropFails
  <2> QED BY <2>1, <2>2, ServiceAt DEF Service, Quiet
<1>9. CASE Cleanup \/ Kill
  <2>1. Still /\ Now' = "idle"
    BY <1>9, Leaps DEF Cleanup, Kill, disk, systemd
  <2> QED BY <2>1, ServiceAt DEF Service, Quiet
<1>10. CASE VerifyStopped
  <2>1. live' = live /\ Done
    BY <1>10 DEF VerifyStopped, disk
  <2>2. CASE At("quiesce")
    <3>1. running' = {} /\ Now' = "disable"
      BY <1>0, <1>10, <2>1, <2>2, RemovalMoves, AtNow DEF VerifyStopped, Quiesced
    <3> QED BY <3>1, ServiceAt
  <2>3. CASE At("disable")
    <3>1. running' = running /\ Now \in Quiet /\ Now' = "remove"
      BY <1>0, <1>10, <2>1, <2>3, RemovalMoves, AtNow DEF VerifyStopped, Quiet
    <3> QED BY <3>1, ServiceAt DEF Service
  <2> QED BY <1>10, <2>2, <2>3 DEF VerifyStopped
<1>11. CASE RemoveFiles
  <2>1. running' = running
    BY <1>11 DEF RemoveFiles, systemd
  <2>2. Now \in Quiet /\ Now' \in {"unload", "identity"}
    BY <1>0, <1>11, RemovalMoves DEF RemoveFiles, Quiet
  <2> QED BY <2>1, <2>2, ServiceAt DEF Service
<1>12. CASE RemoveIdentityOrSource
  <2>1. Still
    BY <1>12 DEF RemoveIdentityOrSource, systemd
  <2>2. Now \in Quiet /\ Now' \in {"source", "cleanup"}
    BY <1>0, <1>12, RemovalMoves DEF RemoveIdentityOrSource, Quiet
  <2> QED BY <2>1, <2>2, ServiceAt DEF Service
<1>13. CASE ServiceDies
  <2>1. running' = {} /\ Now' = Now /\ UNCHANGED <<live, loaded, enabled, sh>>
    BY <1>13 DEF ServiceDies, Now, disk
  <2> QED BY <2>1 DEF Service, Units
<1>14. CASE RollbackQuiesce
  <2>1. CASE Done
    <3>1. running' = {} /\ Now' = "rb token"
      <4>1. Now = "rb quiesce" /\ Now' = "rb token"
        BY <1>0, <1>14, <2>1, RollbackMoves DEF RollbackQuiesce
      <4>2. todo' # <<"cleanup">>
        <5>1. todo' = <<"cleanup">> => Now' = "cleanup"
          BY Leaps
        <5> QED BY <4>1, <5>1
      <4> QED BY <1>14, <4>1, <4>2 DEF RollbackQuiesce, Quiesced
    <3> QED BY <3>1, ServiceAt
  <2>2. CASE todo' = <<"cleanup">> /\ running' = running
    <3>1. Still /\ Now' = "cleanup"
      BY <1>14, <2>2, Leaps DEF RollbackQuiesce, disk
    <3> QED BY <3>1, ServiceAt DEF Service, Quiet
  <2> QED BY <1>14, <2>1, <2>2 DEF RollbackQuiesce
<1>15. CASE RestoreFile \/ RemovalFails
  <2>1. running' = running /\ Done
    BY <1>15 DEF RestoreFile, RemovalFails, Put, systemd
  <2>2. PICK f \in File : At(Restores[f])
    BY <1>15 DEF RestoreFile, RemovalFails
  <2>3. Now \in {"rb token", "rb config", "rb binary", "rb unit", "rb override"}
    BY <2>2, RestoresAt
  <2>4. Now' \in {"rb config", "rb binary", "rb unit", "rb override", "rb moveFailed"}
    BY <1>0, <2>1, <2>3, DoneAdvances DEF AdvanceBack
  <2> QED BY <2>1, <2>3, <2>4, ServiceAt DEF Service, Quiet
<1>16. CASE RestoreSource
  <2>1. Still
    BY <1>16 DEF RestoreSource, systemd
  <2>2. Now \in Quiet /\ Now' \in {"rb source", "rb dropFailed", "rb configDir"}
    BY <1>0, <1>16, RollbackMoves DEF RestoreSource, Quiet
  <2> QED BY <2>1, <2>2, ServiceAt DEF Service
<1>17. CASE RestoreSourceFails
  <2>1. Still
    BY <1>17 DEF RestoreSourceFails, systemd
  <2>2. Now \in Quiet /\ Now' = "rb configDir"
    BY <1>0, <1>17, SourceFails DEF Quiet
  <2> QED BY <2>1, <2>2, ServiceAt DEF Service
<1>18. CASE RestoreAccount
  <2>1. Still /\ Done
    BY <1>18 DEF RestoreAccount, systemd
  <2>2. Now \in {"rb configDir", "rb stateDir", "rb user", "rb group"}
    BY <1>0, <1>18, AtNow, RemovesAt DEF RestoreAccount
  <2>3. Now' \in {"rb stateDir", "rb user", "rb group", "rb reload"}
    BY <1>0, <2>1, <2>2, DoneAdvances DEF AdvanceBack
  <2> QED BY <2>1, <2>2, <2>3, ServiceAt DEF Service, Quiet
<1>19. CASE RestoreService
  <2>0. live' = live /\ Done /\ sh' = sh
    BY <1>19 DEF RestoreService, disk
  <2>1. Units' = Units
    BY <2>0 DEF Units
  <2>2. CASE At("rb reload")
    <3>1. running' = running /\ loaded' = Units
      BY <1>0, <1>19, <2>2, RollbackMoves DEF RestoreService, Units
    <3>2. Now = "rb reload" /\ Now' = "rb enablement"
      BY <1>0, <2>0, <2>2, RollbackMoves
    <3> QED BY <2>0, <2>1, <3>1, <3>2 DEF Service, Quiet
  <2>3. CASE At("rb enablement")
    <3>1. running' = running /\ loaded' = loaded /\ enabled' = sh.enablement
      BY <1>0, <1>19, <2>3, RollbackMoves DEF RestoreService, SetEnablement
    <3>2. Now = "rb enablement" /\ Now' = "rb restart"
      BY <1>0, <2>0, <2>3, RollbackMoves
    <3> QED BY <2>0, <2>1, <3>1, <3>2 DEF Service, Quiet
  <2>4. CASE At("rb restart")
    <3>1. /\ running' = IF MayRestart THEN {Started} ELSE running
          /\ enabled' = enabled
      BY <1>0, <1>19, <2>4, RollbackMoves DEF RestoreService
    <3>2. Now = "rb restart" /\ Now' = "rb finish"
      BY <1>0, <2>0, <2>4, RollbackMoves
    <3>3. MayRestart => Started = live /\ sh.wasActive
      BY <3>2, StartedLive DEF Service, MayRestart
    <3> QED BY <2>0, <3>1, <3>2, <3>3 DEF Service, Quiet
  <2> QED BY <1>19, <2>2, <2>3, <2>4 DEF RestoreService
<1>20. CASE RollbackStepFails
  <2>1. live' = live /\ sh'.failed /\ sh'.wasActive = sh.wasActive /\ Done
    BY <1>0, <1>20 DEF RollbackStepFails, Script, disk
  <2>2. CASE ~At("rb restart")
    <3>1. running' = running
      BY <1>20, <2>2 DEF RollbackStepFails
    <3>2. Now \in Quiet /\ Now' \notin {"enable", "restart"}
      <4>1. Now \in {"rb token", "rb config", "rb binary", "rb unit", "rb override", "rb user",
                     "rb group", "rb configDir", "rb reload", "rb enablement", "rb stateDir"}
        BY <1>20, <2>2, AtNow, RestoresAt, RemovesAt DEF RollbackStepFails
      <4> QED BY <1>0, <2>1, <4>1, DoneAdvances DEF AdvanceBack, Quiet
    <3> QED BY <2>1, <3>1, <3>2, ServiceAt DEF Service
  <2>3. CASE At("rb restart")
    <3>1. Now = "rb restart" /\ Now' = "rb finish"
      BY <1>0, <2>1, <2>3, RollbackMoves
    <3>2. MayRestart /\ running' \subseteq {Started}
      <4>1. ASSUME NEW f \in File PROVE ~At(Restores[f])
        BY <3>1, RestoresAt
      <4>2. ASSUME NEW id \in {"user", "group"} PROVE ~At(Removes[id])
        BY <3>1, RemovesAt
      <4>3. ~At("rb configDir") /\ ~At("rb reload") /\ ~At("rb enablement") /\ ~At("rb stateDir")
        BY <1>0, <2>1, <3>1, RollbackMoves
      <4> QED BY <1>20, <4>1, <4>2, <4>3 DEF RollbackStepFails, Quiesced
    <3>3. Started = live /\ sh.wasActive
      BY <3>1, <3>2, StartedLive DEF Service, MayRestart
    <3> QED BY <2>1, <3>1, <3>2, <3>3 DEF Service, Quiet
  <2> QED BY <2>2, <2>3
<1>21. CASE FinishRollback
  <2>1. Still /\ Now' = "cleanup"
    BY <1>0, <1>21, RollbackMoves DEF FinishRollback, disk, systemd
  <2> QED BY <2>1, ServiceAt DEF Service, Quiet
<1>22. CASE UNCHANGED vars
  BY <1>22 DEF vars, Service, Now, Units, disk, systemd
<1> QED BY <1>1, <1>2, <1>3, <1>4, <1>5, <1>6, <1>7, <1>8, <1>9, <1>10, <1>11, <1>12, <1>13,
          <1>14, <1>15, <1>16, <1>17, <1>18, <1>19, <1>20, <1>21, <1>22 DEF Next, Steps, Faulty

-----------------------------------------------------------------------------
(* What most steps leave alone *)

\* Only validation adds to the sets that are good, and none is ever forgotten.
LEMMA GoodGrows ==
  ASSUME [Next]_vars
  PROVE  good' = good \/ (Validate /\ good' = good \cup {live})
<1>1. CASE Start \/ Snapshot \/ Begin \/ Stop \/ CreateAccount \/ WriteConfiguration
           \/ ActivateBinary \/ InstallUnit \/ StartService
  BY <1>1 DEF Start, Snapshot, Begin, Stop, CreateAccount, WriteConfiguration,
     ActivateBinary, InstallUnit, StartService, Put, history
<1>2. CASE Rejected \/ PromoteSource \/ Commit \/ DropBackups \/ Cleanup \/ VerifyStopped
           \/ RemoveFiles \/ RemoveIdentityOrSource \/ Fails \/ DropFails \/ Kill \/ ServiceDies
           \/ UNCHANGED vars
  BY <1>2 DEF Rejected, Abort, PromoteSource, Commit, DropBackups, Cleanup, VerifyStopped,
     RemoveFiles, RemoveIdentityOrSource, Fails, DropFails, Kill, ServiceDies, history, vars
<1>3. CASE RollbackQuiesce \/ RestoreFile \/ RemovalFails \/ RestoreSource \/ RestoreAccount
           \/ RestoreService \/ FinishRollback \/ RestoreSourceFails \/ RollbackStepFails
  BY <1>3 DEF RollbackQuiesce, RestoreFile, RemovalFails, Put, RestoreSource, RestoreAccount,
     RestoreService, FinishRollback, RestoreSourceFails, RollbackStepFails, history
<1>4. CASE Validate
  BY <1>4 DEF Validate
<1> QED BY <1>1, <1>2, <1>3, <1>4 DEF Next, Steps, Faulty

\* A file that could not be removed stays so until a commit or the user's removal.
LEMMA StuckStays ==
  ASSUME [Next]_vars, ~Commit, ~RemoveFiles
  PROVE  stuck' = stuck \/ (RemovalFails /\ stuck \subseteq stuck')
<1>1. CASE Start \/ Snapshot \/ Begin \/ Stop \/ CreateAccount \/ WriteConfiguration
           \/ ActivateBinary \/ InstallUnit \/ Validate \/ StartService
  BY <1>1 DEF Start, Snapshot, Begin, Stop, CreateAccount, WriteConfiguration,
     ActivateBinary, InstallUnit, Validate, StartService, Put, history
<1>2. CASE Rejected \/ PromoteSource \/ DropBackups \/ Cleanup \/ VerifyStopped
           \/ RemoveIdentityOrSource \/ Fails \/ DropFails \/ Kill \/ ServiceDies
           \/ UNCHANGED vars
  BY <1>2 DEF Rejected, Abort, PromoteSource, DropBackups, Cleanup, VerifyStopped,
     RemoveIdentityOrSource, Fails, DropFails, Kill, ServiceDies, history, vars
<1>3. CASE RollbackQuiesce \/ RestoreFile \/ RestoreSource \/ RestoreAccount
           \/ RestoreService \/ FinishRollback \/ RestoreSourceFails \/ RollbackStepFails
  BY <1>3 DEF RollbackQuiesce, RestoreFile, Put, RestoreSource, RestoreAccount,
     RestoreService, FinishRollback, RestoreSourceFails, RollbackStepFails, history
<1>4. CASE RemovalFails
  BY <1>4 DEF RemovalFails
<1> QED BY <1>1, <1>2, <1>3, <1>4 DEF Next, Steps, Faulty

\* The steps that write no file
LEMMA LiveStays ==
  ASSUME [Next]_vars, ~WriteConfiguration, ~ActivateBinary, ~InstallUnit, ~RestoreFile,
         ~RemoveFiles
  PROVE  live' = live
<1>1. CASE Start \/ Snapshot \/ Begin \/ Stop \/ CreateAccount \/ Validate \/ StartService
  BY <1>1 DEF Start, Snapshot, Begin, Stop, CreateAccount, Validate, StartService, disk
<1>2. CASE Rejected \/ PromoteSource \/ Commit \/ DropBackups \/ Cleanup \/ VerifyStopped
           \/ RemoveIdentityOrSource \/ Fails \/ DropFails \/ Kill \/ ServiceDies
           \/ UNCHANGED vars
  BY <1>2 DEF Rejected, Abort, PromoteSource, Commit, DropBackups, Cleanup, VerifyStopped,
     RemoveIdentityOrSource, Fails, DropFails, Kill, ServiceDies, disk, vars
<1>3. CASE RollbackQuiesce \/ RemovalFails \/ RestoreSource \/ RestoreAccount
           \/ RestoreService \/ FinishRollback \/ RestoreSourceFails \/ RollbackStepFails
  BY <1>3 DEF RollbackQuiesce, RemovalFails, RestoreSource, RestoreAccount, RestoreService,
     FinishRollback, RestoreSourceFails, RollbackStepFails, disk
<1> QED BY <1>1, <1>2, <1>3 DEF Next, Steps, Faulty

\* What is in the snapshot was there before or is what is installed.
LEMMA SnapshotTaken ==
  ASSUME [Next]_vars
  PROVE  rdir' \subseteq rdir \cup {live}
<1>1. CASE Start \/ Snapshot \/ Begin \/ Stop \/ CreateAccount \/ WriteConfiguration
           \/ ActivateBinary \/ InstallUnit \/ Validate \/ StartService
  BY <1>1 DEF Start, Snapshot, Begin, Stop, CreateAccount, WriteConfiguration,
     ActivateBinary, InstallUnit, Validate, StartService, Put, recovery
<1>2. CASE Rejected \/ PromoteSource \/ Commit \/ DropBackups \/ Cleanup \/ VerifyStopped
           \/ RemoveFiles \/ RemoveIdentityOrSource \/ Fails \/ DropFails \/ Kill \/ ServiceDies
           \/ UNCHANGED vars
  BY <1>2 DEF Rejected, Abort, PromoteSource, Commit, DropBackups, Cleanup, VerifyStopped,
     RemoveFiles, RemoveIdentityOrSource, Fails, DropFails, Kill, ServiceDies, recovery, vars
<1>3. CASE RollbackQuiesce \/ RestoreFile \/ RemovalFails \/ RestoreSource \/ RestoreAccount
           \/ RestoreService \/ FinishRollback \/ RestoreSourceFails \/ RollbackStepFails
  BY <1>3 DEF RollbackQuiesce, RestoreFile, RemovalFails, Put, RestoreSource, RestoreAccount,
     RestoreService, FinishRollback, RestoreSourceFails, RollbackStepFails, recovery
<1> QED BY <1>1, <1>2, <1>3 DEF Next, Steps, Faulty

-----------------------------------------------------------------------------
(* Whole sets of files *)

\* An installation that runs at first is whole.
LEMMA EntireInit == Init => Entire
<1> SUFFICES ASSUME Init PROVE Entire
  OBVIOUS
<1>1. Now = "idle" /\ rdir = {} /\ good = running /\ running \subseteq {live}
  BY DEF Init, Now
<1>2. Nothing \in [File -> {None}]
  BY DEF Nothing
<1>3. ASSUME NEW v \in Release, NEW files,
             files = [Nothing EXCEPT !.binary = v, !.unit = 1, !.config = 1, !.token = 1,
                                     !.override = IF CustomPath THEN 1 ELSE None]
      PROVE  Whole(files) /\ (~CustomPath => files.override = None)
  <2>1. v # 0
    BY InstallerAssumption DEF Release
  <2>2. /\ files["binary"] = v /\ files["unit"] = 1 /\ files["config"] = 1
        /\ files["token"] = 1 /\ files["override"] = IF CustomPath THEN 1 ELSE None
    BY <1>2, <1>3 DEF File
  <2> QED BY <2>1, <2>2 DEF Whole, File, None
<1>4. \A files \in Installed : Whole(files) /\ (~CustomPath => files.override = None)
  BY <1>3 DEF Installed
<1>5. running # {} => live \in Installed
  BY DEF Init
<1>6. \A files \in good : Whole(files)
  BY <1>1, <1>4, <1>5
<1>7. ~CustomPath => live.override = None
  <2>1. CASE live = Nothing
    BY <1>2, <2>1 DEF File
  <2>2. CASE live \in Installed
    BY <1>4, <2>2
  <2> QED BY <2>1, <2>2 DEF Init
<1> QED BY <1>1, <1>6, <1>7 DEF Entire

\* No step validates a set in which a file is missing, or writes an override that is
\* not needed.
LEMMA EntireNext ==
  ASSUME TypeInv, Control, Entire, [Next]_vars
  PROVE  Entire'
<1>0. Path /\ live \in [File -> Content] /\ runs \in Nat
  BY InstallerAssumption DEF Control, TypeInv, FileSet
<1>1. ASSUME NEW files \in good' PROVE Whole(files)
  <2>1. CASE files \in good
    BY <2>1 DEF Entire
  <2>2. CASE Validate /\ files = live
    <3>1. Now = "validate" /\ Checkable
      BY <1>0, <2>2, Places DEF Validate
    <3> QED BY <2>2, <3>1 DEF Entire, Whole, Checkable, File
  <2> QED BY <2>1, <2>2, GoodGrows
<1>2. ASSUME ~CustomPath
      PROVE  live'.override = None /\ \A files \in rdir' : files.override = None
  <2>0. live["override"] = None /\ \A files \in rdir : files["override"] = None
    BY <1>2 DEF Entire
  <2>1. ASSUME NEW f \in File, NEW c, Put(f, c), f = "override" => c = None
        PROVE  live'["override"] = None
    BY <1>0, <2>0, <2>1 DEF Put, File
  <2>2. CASE WriteConfiguration
    <3>1. PICK f \in {"token", "config"} : Put(f, live[f]) \/ Put(f, runs + 1)
      BY <2>2, Zenon DEF WriteConfiguration
    <3> QED BY <2>0, <2>1, <3>1, SnapshotTaken DEF File
  <2>3. CASE ActivateBinary
    <3>1. live'["override"] = None
      BY <2>1, <2>3 DEF ActivateBinary, File
    <3> QED BY <2>0, <3>1, SnapshotTaken
  <2>4. CASE InstallUnit
    <3>1. Put("unit", runs + 1) \/ Put("override", None)
      BY <1>2, <2>4 DEF InstallUnit
    <3>2. live'["override"] = None
      BY <2>1, <3>1 DEF File
    <3> QED BY <2>0, <3>2, SnapshotTaken
  <2>5. CASE RestoreFile
    <3>1. PICK f \in File, files \in rdir : Put(f, files[f])
      BY <2>5 DEF RestoreFile
    <3>2. live'["override"] = None
      BY <2>0, <2>1, <3>1
    <3> QED BY <2>0, <3>2, SnapshotTaken
  <2>6. CASE RemoveFiles
    <3>1. live' = live \/ live'["override"] \in {live["override"], None}
      BY <2>6 DEF RemoveFiles, Delete, File
    <3> QED BY <2>0, <3>1, SnapshotTaken
  <2>7. CASE /\ ~WriteConfiguration /\ ~ActivateBinary /\ ~InstallUnit /\ ~RestoreFile
             /\ ~RemoveFiles
    <3>1. live' = live
      BY <2>7, LiveStays
    <3> QED BY <2>0, <3>1, SnapshotTaken
  <2> QED BY <2>2, <2>3, <2>4, <2>5, <2>6, <2>7
<1>3. /\ Now' \in {"override", "validate"} => live'.unit # None
      /\ Now' = "validate" /\ CustomPath => live'.override # None
  <2>1. CASE InstallUnit
    <3>1. CASE At("unit") /\ Put("unit", runs + 1)
      <4>1. Now' = "override"
        BY <1>0, <3>1, DeployMoves DEF Put
      <4>2. live'["unit"] = runs + 1
        BY <1>0, <3>1 DEF Put, File
      <4> QED BY <1>0, <4>1, <4>2 DEF None
    <3>2. CASE At("override") /\ Put("override", IF CustomPath THEN runs + 1 ELSE None)
      <4>1. Now = "override"
        BY <3>2, AtNow
      <4>2. /\ live'["unit"] = live["unit"]
            /\ CustomPath => live'["override"] = runs + 1
        BY <1>0, <3>2 DEF Put, File
      <4> QED BY <1>0, <4>1, <4>2 DEF Entire, None
    <3> QED BY <2>1, <3>1, <3>2 DEF InstallUnit
  <2>2. CASE ServiceDies \/ UNCHANGED vars
    <3>1. Now' = Now /\ live' = live
      BY <1>0, <2>2, Places DEF ServiceDies, vars, disk
    <3> QED BY <3>1 DEF Entire
  <2>3. CASE ~InstallUnit /\ ~ServiceDies /\ ~UNCHANGED vars
    <3>1. CASE WriteConfiguration \/ ActivateBinary
      BY <1>0, <3>1, DeployMoves DEF WriteConfiguration, ActivateBinary, Put
    <3>2. CASE CreateAccount
      BY <1>0, <3>2, PlacesAccount
    <3>3. CASE StartService
      BY <1>0, <3>3, PlacesService
    <3>4. CASE RollbackStepFails
      BY <1>0, <3>4, PlacesFailure DEF Undoing
    <3>5. CASE Rejected \/ Fails
      BY <1>0, <3>5, Places
    <3>6. CASE Start \/ Snapshot \/ Begin \/ Stop \/ Validate \/ PromoteSource \/ Commit
               \/ DropBackups \/ DropFails \/ Cleanup \/ Kill \/ VerifyStopped \/ RemoveFiles
               \/ RemoveIdentityOrSource
      BY <1>0, <3>6, Places
    <3>7. CASE RollbackQuiesce \/ RestoreFile \/ RemovalFails \/ RestoreSource
               \/ RestoreSourceFails \/ RestoreAccount \/ RestoreService \/ FinishRollback
      BY <1>0, <3>7, Places
    <3> QED BY <2>3, <3>1, <3>2, <3>3, <3>4, <3>5, <3>6, <3>7 DEF Next, Steps, Faulty
  <2> QED BY <2>1, <2>2, <2>3
<1>4. \A files \in good' : Whole(files)
  BY <1>1
<1> QED BY <1>2, <1>3, <1>4 DEF Entire, Whole

-----------------------------------------------------------------------------
(* Files, snapshot and rollback *)

\* At first nothing is being restored.
LEMMA FilesBackInit == Init => FilesBack
<1> SUFFICES ASSUME Init PROVE FilesBack
  OBVIOUS
<1>1. Now = "idle"
  BY DEF Init, Now
<1> QED BY <1>1 DEF FilesBack, Back

\* All files restored are the files that were there, with those that could not be
\* removed; where a service was active there are none of these.
LEMMA AllBack ==
  ASSUME TypeInv, FilesBack, ~sh.failed, Now \in Back
  PROVE  AsIn(live, before.live) /\ (sh.wasActive => live = before.live)
<1>1. live \in [File -> Content] /\ before.live \in [File -> Content]
  BY DEF TypeInv, FileSet
<1>2. \A f \in File : Restored(f)
  BY DEF FilesBack, File
<1>3. AsIn(live, before.live)
  BY <1>2 DEF Restored, AsIn
<1>4. sh.wasActive => \A f \in File : live[f] = before.live[f]
  BY <1>2 DEF Restored
<1> QED BY <1>1, <1>3, <1>4

\* Each step of a rollback without a failure restores one more file.
LEMMA FilesBackNext ==
  ASSUME TypeInv, Control, Proven, Entire, FilesBack, Snapshotted, [Next]_vars
  PROVE  FilesBack'
<1>0. Path /\ sh \in Script
  BY DEF Control, TypeInv
<1> DEFINE Early == Now' \notin Back \cup {"rb config", "rb binary", "rb unit", "rb override"}
<1>1. ASSUME Early \/ sh'.failed PROVE FilesBack'
  BY <1>1 DEF FilesBack
<1>2. CASE Start \/ Snapshot \/ Begin \/ Stop \/ Validate \/ Commit \/ Cleanup \/ Kill
  <2>1. Early
    BY <1>0, <1>2, Places DEF Back
  <2> QED BY <1>1, <2>1
<1>3. CASE CreateAccount
  BY <1>0, <1>1, <1>3, PlacesAccount DEF Back
<1>4. CASE WriteConfiguration \/ ActivateBinary \/ InstallUnit
  BY <1>0, <1>1, <1>4, Places DEF Back
<1>5. CASE StartService
  BY <1>0, <1>1, <1>5, PlacesService DEF Back
<1>6. CASE Rejected \/ Fails
  <2>1. Now' \in {"rb quiesce", "cleanup"}
    BY <1>0, <1>6, Places
  <2> QED BY <1>1, <2>1 DEF Back
<1>7. CASE PromoteSource \/ DropBackups \/ DropFails
  BY <1>0, <1>1, <1>7, Places DEF Back
<1>8. CASE VerifyStopped \/ RemoveFiles \/ RemoveIdentityOrSource
  BY <1>0, <1>1, <1>8, Places DEF Back
<1>9. CASE RollbackQuiesce \/ FinishRollback
  BY <1>0, <1>1, <1>9, Places DEF Back
<1>10. CASE ServiceDies \/ UNCHANGED vars
  <2>1. Now' = Now /\ UNCHANGED <<live, before, sh, stuck>>
    BY <1>0, <1>10, Places DEF ServiceDies, vars, disk, history
  <2> QED BY <2>1 DEF FilesBack, Restored
<1>11. CASE RestoreFile
  <2>1. PICK f \in File, s \in rdir : At(Restores[f]) /\ Put(f, s[f])
    BY <1>11 DEF RestoreFile
  <2>2. rdir = {before.live}
    BY <1>0, <1>11, Places DEF Snapshotted, Protected, Undoing
  <2>3. /\ live' = [live EXCEPT ![f] = before.live[f]]
        /\ UNCHANGED <<sh, before, stuck>> /\ Done
    BY <2>1, <2>2 DEF Put, history
  <2>4. live \in [File -> Content]
    BY DEF TypeInv, FileSet
  <2>5. live'[f] = before.live[f] /\ \A g \in File \ {f} : live'[g] = live[g]
    BY <2>3, <2>4
  <2>6. \/ f = "token" /\ Now = "rb token" /\ Now' = "rb config"
        \/ f = "config" /\ Now = "rb config" /\ Now' = "rb binary"
        \/ f = "binary" /\ Now = "rb binary" /\ Now' = "rb unit"
        \/ f = "unit" /\ Now = "rb unit" /\ Now' = "rb override"
        \/ f = "override" /\ Now = "rb override" /\ Now' = "rb moveFailed"
    BY <1>0, <2>1, <2>3, RestoresAt, DoneAdvances DEF AdvanceBack
  <2>7. Restored(f)' /\ \A g \in File \ {f} : Restored(g) => Restored(g)'
    BY <2>3, <2>5 DEF Restored
  <2> QED BY <2>3, <2>6, <2>7 DEF FilesBack, Back, File
<1>12. CASE RestoreSource \/ RestoreAccount \/ RestoreService
  <2>1. Now \in Back /\ Now' \in Back
    BY <1>0, <1>12, Places DEF Back
  <2>2. UNCHANGED <<live, before, stuck>>
    BY <1>12 DEF RestoreSource, RestoreAccount, RestoreService, disk, history
  <2>3. sh'.failed = sh.failed /\ sh'.wasActive = sh.wasActive
    BY <1>0, <1>12 DEF RestoreSource, RestoreAccount, RestoreService, Script
  <2> QED BY <2>1, <2>2, <2>3 DEF FilesBack, Restored
<1>13. CASE RestoreSourceFails \/ RollbackStepFails
  <2>1. sh'.failed
    BY <1>0, <1>13 DEF RestoreSourceFails, RollbackStepFails, Script
  <2> QED BY <1>1, <2>1
<1>14. CASE RemovalFails
  <2>1. PICK f \in File, s \in rdir :
          /\ At(Restores[f]) /\ s[f] = None /\ live[f] # None
          /\ stuck' = stuck \cup {f}
    BY <1>14 DEF RemovalFails
  <2>2. Now \in Protected /\ rdir = {before.live}
    BY <1>0, <1>14, Places DEF Snapshotted, Protected, Undoing
  <2>3. UNCHANGED <<live, before, sh>> /\ Done
    BY <1>14 DEF RemovalFails, disk
  <2>4. before.live[f] = None
    BY <2>1, <2>2
  <2>5. ~sh.wasActive
    <3>1. ASSUME sh.wasActive PROVE Whole(before.live)
      BY <2>2, <3>1 DEF Proven, Entire
    <3>2. ASSUME sh.wasActive PROVE f = "override" /\ ~CustomPath
      BY <2>4, <3>1, <3>2 DEF Whole
    <3> QED BY <2>1, <3>2 DEF Entire
  <2>6. \/ f = "token" /\ Now = "rb token" /\ Now' = "rb config"
        \/ f = "config" /\ Now = "rb config" /\ Now' = "rb binary"
        \/ f = "binary" /\ Now = "rb binary" /\ Now' = "rb unit"
        \/ f = "unit" /\ Now = "rb unit" /\ Now' = "rb override"
        \/ f = "override" /\ Now = "rb override" /\ Now' = "rb moveFailed"
    BY <1>0, <2>1, <2>3, RestoresAt, DoneAdvances DEF AdvanceBack
  <2>7. Restored(f)' /\ \A g \in File \ {f} : Restored(g) => Restored(g)'
    BY <2>1, <2>3, <2>4, <2>5 DEF Restored
  <2> QED BY <2>3, <2>6, <2>7 DEF FilesBack, Back, File
<1> QED BY <1>2, <1>3, <1>4, <1>5, <1>6, <1>7, <1>8, <1>9, <1>10, <1>11, <1>12, <1>13,
          <1>14 DEF Next, Steps, Faulty

\* At first the committed files are in place.
LEMMA SnapshottedInit == Init => Snapshotted
<1> SUFFICES ASSUME Init PROVE Snapshotted
  OBVIOUS
<1>1. Now = "idle" /\ ~sh.failed /\ rdir = {} /\ committed.live = live
  BY DEF Init, Now, Fresh
<1>2. live \in Copies
  BY <1>1, TypeInit DEF TypeInv, Copies, AsIn
<1> QED BY <1>1, <1>2 DEF Snapshotted, Protected, Deploying, Undoing

\* What holds the committed files goes on to do so.
LEMMA CopiesStay ==
  ASSUME committed'.live = committed.live, stuck \subseteq stuck'
  PROVE  Copies \subseteq Copies'
BY DEF Copies, AsIn, FileSet, Content

\* No step loses the committed files: a snapshot is only removed once the files are
\* committed or restored.
LEMMA SnapshottedNext ==
  ASSUME TypeInv, Control, FilesBack, Snapshotted, [Next]_vars
  PROVE  Snapshotted'
<1>0. Path /\ sh \in Script
  BY DEF Control, TypeInv
<1>a. ASSUME Now = "commit" => Now' # "dropTree",
             Now \in {"remove", "secrets"} => Now' \notin {"unload", "identity"},
             committed'.live = committed.live
      PROVE  Copies \subseteq Copies'
  <2>1. ~Commit /\ ~RemoveFiles
    BY <1>0, <1>a, Places
  <2> QED BY <1>a, <2>1, StuckStays, CopiesStay
<1>b. live' = committed'.live => live' \in Copies'
  BY TypeNext DEF TypeInv, Copies, AsIn
<1>1. "snapshot" \notin Protected /\ "begin" \notin Protected /\ "cleanup" \notin Protected
      /\ "idle" \notin Protected /\ "dropTree" \notin Protected
      /\ "dropSnapshot" \notin Protected /\ "quiesce" \notin Protected
  BY DEF Protected, Deploying, Undoing
<1>2. ASSUME Now \in Protected, Now' \in Protected, UNCHANGED <<rdir, kept, committed, before>>
      PROVE  Snapshotted'
  <2>1. Copies \subseteq Copies'
    BY <1>1, <1>2, <1>a DEF Protected, Deploying, Undoing
  <2> QED BY <1>1, <1>2, <2>1 DEF Snapshotted
<1>3. CASE Start
  <2>1. Now = "idle" /\ Now' \in {"snapshot", "quiesce"}
    BY <1>0, <1>3, Places
  <2>2. UNCHANGED <<live, rdir, kept, committed>> /\ before'.live = live
    BY <1>3 DEF Start, disk, recovery
  <2>3. Copies \subseteq Copies'
    BY <1>a, <2>1, <2>2
  <2> QED BY <1>1, <2>1, <2>2, <2>3 DEF Snapshotted
<1>4. CASE Snapshot
  <2>1. Now = "snapshot" /\ Now' = "begin"
    BY <1>0, <1>4, Places
  <2>2. UNCHANGED <<live, kept, committed, before>> /\ rdir' = {live}
    BY <1>4 DEF Snapshot, disk, history
  <2>3. Copies \subseteq Copies'
    BY <1>a, <2>1, <2>2
  <2> QED BY <1>1, <2>1, <2>2, <2>3 DEF Snapshotted
<1>5. CASE Begin
  <2>1. Now = "begin" /\ Now' = "stop"
    BY <1>0, <1>5, Places
  <2>2. UNCHANGED <<rdir, kept, committed, before>>
    BY <1>5 DEF Begin, recovery, history
  <2>3. "stop" \in Protected
    BY DEF Protected, Deploying
  <2>4. Copies \subseteq Copies'
    BY <1>a, <2>1, <2>2
  <2> QED BY <1>1, <2>1, <2>2, <2>3, <2>4 DEF Snapshotted
<1>6. CASE Stop \/ Validate
  BY <1>0, <1>2, <1>6, Places DEF Stop, Validate, recovery, history, Protected, Deploying
<1>7. CASE CreateAccount
  BY <1>0, <1>2, <1>7, PlacesAccount DEF CreateAccount, recovery, history, Protected, Deploying
<1>8. CASE WriteConfiguration \/ ActivateBinary \/ InstallUnit
  <2>1. UNCHANGED <<rdir, kept, committed, before>>
    BY <1>8 DEF WriteConfiguration, ActivateBinary, InstallUnit, Put, recovery, history
  <2> QED BY <1>0, <1>2, <1>8, <2>1, Places DEF Protected, Deploying
<1>9. CASE StartService
  <2>1. UNCHANGED <<live, rdir, kept, committed, before, sh>>
    BY <1>9 DEF StartService, disk, recovery, history
  <2>2. CASE Now = "unload"
    <3>1. Now' = "secrets" /\ "unload" \notin Protected /\ "secrets" \notin Protected
      BY <1>0, <1>9, <2>2, PlacesService DEF Protected, Deploying, Undoing
    <3>2. Copies \subseteq Copies'
      BY <1>a, <2>1, <2>2, <3>1
    <3> QED BY <2>1, <2>2, <3>1, <3>2 DEF Snapshotted
  <2>3. CASE Now # "unload"
    BY <1>0, <1>2, <1>9, <2>1, <2>3, PlacesService DEF Protected, Deploying
  <2> QED BY <2>2, <2>3
<1>10. CASE Rejected \/ Fails
  <2>1. UNCHANGED <<live, rdir, kept, committed, before>>
    BY <1>10 DEF Rejected, Fails, Abort, disk, recovery, history
  <2>2. /\ Now \notin Undoing \cup {"idle", "cleanup"}
        /\ Now' = IF sh.active THEN "rb quiesce" ELSE "cleanup"
    BY <1>0, <1>10, Places
  <2>3. sh'.failed = sh.failed /\ ~sh.failed
    BY <1>0, <1>10, <2>2 DEF Rejected, Fails, Abort, Script, Control
  <2>4. CASE sh.active
    BY <1>2, <2>1, <2>2, <2>4 DEF Control, Protected, Undoing
  <2>5. CASE ~sh.active
    <3>1. Now \notin Protected /\ Now' = "cleanup"
      BY <2>2, <2>5 DEF Control, Protected
    <3>2. Copies \subseteq Copies'
      BY <1>a, <2>1, <3>1
    <3> QED BY <1>1, <2>1, <2>2, <2>3, <3>1, <3>2 DEF Snapshotted
  <2> QED BY <2>4, <2>5
<1>11. CASE PromoteSource
  BY <1>0, <1>2, <1>11, Places DEF PromoteSource, recovery, history, Protected, Deploying
<1>12. CASE Commit
  <2>1. Now = "commit" /\ Now' = "dropTree" /\ committed'.live = live /\ live' = live
    BY <1>0, <1>12, Places DEF Commit, disk
  <2> QED BY <1>1, <1>b, <2>1 DEF Snapshotted
<1>13. CASE DropBackups \/ DropFails
  <2>1. Now \in {"dropTree", "dropSnapshot"} /\ Now' \in {"dropSnapshot", "cleanup"}
    BY <1>0, <1>13, Places
  <2>2. UNCHANGED <<live, kept, committed, before>> /\ sh'.failed = sh.failed /\ ~sh.failed
    BY <1>0, <1>13, <2>1 DEF DropBackups, DropFails, Script, Control, Undoing, disk, recovery,
       history
  <2>3. Copies \subseteq Copies'
    BY <1>a, <2>1, <2>2
  <2> QED BY <1>1, <2>1, <2>2, <2>3 DEF Snapshotted
<1>14. CASE Cleanup
  <2>1. Now = "cleanup" /\ Now' = "idle"
    BY <1>0, <1>14, Places
  <2>2. /\ UNCHANGED <<live, committed>> /\ rdir' = {} /\ ~sh'.failed
        /\ kept' = IF sh.preserve THEN kept \cup rdir ELSE kept
    BY <1>14 DEF Cleanup, Fresh, disk, history
  <2>3. Copies \subseteq Copies'
    BY <1>a, <2>1, <2>2
  <2> QED BY <1>1, <2>1, <2>2, <2>3 DEF Snapshotted
<1>15. CASE Kill
  <2>1. Now' = "idle"
    BY <1>0, <1>15, Places
  <2>2. UNCHANGED <<live, committed>> /\ rdir' = {} /\ kept' = kept \cup rdir /\ ~sh'.failed
    BY <1>15 DEF Kill, Fresh, disk, history
  <2>3. Copies \subseteq Copies'
    BY <1>a, <2>1, <2>2
  <2> QED BY <1>1, <2>1, <2>2, <2>3 DEF Snapshotted
<1>16. CASE VerifyStopped \/ RemoveIdentityOrSource
  <2>1. /\ Now \in {"quiesce", "disable", "identity", "source"}
        /\ Now' \in {"disable", "remove", "source", "cleanup"}
    BY <1>0, <1>16, Places
  <2>2. Now \notin Protected /\ Now' \notin Protected
    BY <2>1 DEF Protected, Deploying, Undoing
  <2>3. UNCHANGED <<live, rdir, kept, sh>> /\ committed'.live = committed.live
    BY <1>16 DEF VerifyStopped, RemoveIdentityOrSource, TypeInv, disk, recovery, history
  <2>4. ~sh.failed
    BY <2>1 DEF Control, Undoing
  <2>5. Copies \subseteq Copies'
    BY <1>a, <2>1, <2>3
  <2> QED BY <2>1, <2>2, <2>3, <2>4, <2>5 DEF Snapshotted
<1>17. CASE RemoveFiles
  <2>1. Now \in {"remove", "secrets"} /\ Now' \in {"unload", "identity"}
    BY <1>0, <1>17, Places
  <2>2. Now \notin Protected /\ Now' \notin Protected
    BY <2>1 DEF Protected, Deploying, Undoing
  <2>3. rdir' = rdir /\ kept' = kept
    BY <1>17 DEF RemoveFiles, recovery
  <2>4. committed'.live = live' \/ UNCHANGED <<live, committed, stuck>>
    BY <1>17 DEF RemoveFiles, Delete
  <2>5. live' \in Copies' \/ (live' = live /\ Copies \subseteq Copies')
    BY <1>b, <2>4, CopiesStay
  <2> QED BY <2>1, <2>2, <2>3, <2>5 DEF Snapshotted
<1>18. CASE ServiceDies \/ UNCHANGED vars
  <2>1. Now' = Now /\ UNCHANGED <<live, rdir, kept, committed, before, sh>>
    BY <1>0, <1>18, Places DEF ServiceDies, vars, disk, recovery, history
  <2>2. Copies \subseteq Copies'
    BY <1>a, <2>1
  <2> QED BY <2>1, <2>2 DEF Snapshotted
<1>19. CASE RollbackQuiesce
  <2>1. Now = "rb quiesce" /\ Now' \in {"rb token", "cleanup"}
    BY <1>0, <1>19, Places
  <2>2. UNCHANGED <<rdir, kept, committed, before, live>>
    BY <1>19 DEF RollbackQuiesce, disk, recovery, history
  <2>3. CASE Now' = "rb token"
    BY <1>2, <2>1, <2>2, <2>3 DEF Protected, Undoing
  <2>4. CASE Now' = "cleanup"
    <3>1. ~Done
      BY <1>0, <1>19, <2>4, RollbackMoves DEF RollbackQuiesce
    <3>2. sh'.preserve
      BY <1>0, <1>19, <3>1 DEF RollbackQuiesce, Script
    <3>3. Now \in Protected
      BY <2>1 DEF Protected, Undoing
    <3>4. Copies \subseteq Copies'
      BY <1>a, <2>2, <2>4
    <3> QED BY <1>1, <2>2, <2>4, <3>2, <3>3, <3>4 DEF Snapshotted
  <2> QED BY <2>1, <2>3, <2>4
<1>20. CASE RestoreFile \/ RemovalFails
  <2>1. UNCHANGED <<rdir, kept, committed, before>>
    BY <1>20 DEF RestoreFile, RemovalFails, Put, recovery, history
  <2> QED BY <1>0, <1>2, <1>20, <2>1, Places DEF Protected, Undoing
<1>21. CASE RestoreSource \/ RestoreSourceFails \/ RestoreAccount \/ RestoreService
  <2>1. UNCHANGED <<rdir, kept, committed, before>>
    BY <1>21 DEF RestoreSource, RestoreSourceFails, RestoreAccount, RestoreService, recovery,
       history
  <2> QED BY <1>0, <1>2, <1>21, <2>1, Places DEF Protected, Undoing
<1>22. CASE RollbackStepFails
  BY <1>0, <1>2, <1>22, PlacesFailure DEF RollbackStepFails, recovery, history, Protected
<1>23. CASE FinishRollback
  <2>1. Now = "rb finish" /\ Now' = "cleanup" /\ Now \in Protected /\ Now \in Back
    BY <1>0, <1>23, Places DEF Protected, Undoing, Back
  <2>2. UNCHANGED <<kept, committed, live>>
    BY <1>23 DEF FinishRollback, disk, history
  <2>a. Copies \subseteq Copies'
    BY <1>a, <2>1, <2>2
  <2>3. CASE ~sh.failed /\ sh' = sh /\ rdir' = {}
    <3>1. AsIn(live, before.live)
      BY <2>1, <2>3, AllBack
    <3>2. before.live \in Copies => live \in Copies
      BY <3>1 DEF TypeInv, Copies, AsIn
    <3>3. rdir = {before.live} /\ (rdir \cup kept) \cap Copies # {}
      BY <2>1 DEF Snapshotted
    <3> QED BY <1>1, <2>1, <2>2, <2>a, <2>3, <3>2, <3>3 DEF Snapshotted
  <2>4. CASE sh' = [sh EXCEPT !.preserve = TRUE] /\ rdir' = rdir
    <3>1. sh'.preserve
      BY <1>0, <2>4 DEF Script
    <3> QED BY <1>1, <2>1, <2>2, <2>a, <2>4, <3>1 DEF Snapshotted
  <2> QED BY <1>23, <2>3, <2>4 DEF FinishRollback
<1> QED BY <1>3, <1>4, <1>5, <1>6, <1>7, <1>8, <1>9, <1>10, <1>11, <1>12, <1>13, <1>14,
          <1>15, <1>16, <1>17, <1>18, <1>19, <1>20, <1>21, <1>22, <1>23
          DEF Next, Steps, Faulty

-----------------------------------------------------------------------------
(* What may run *)

\* Between two steps of a transaction or a rollback neither the snapshots nor what
\* the script recorded in the beginning change.
LEMMA Within ==
  ASSUME TypeInv, Control, [Next]_vars, Now' \in Protected, ~Begin
  PROVE  /\ Now \in Protected
         /\ UNCHANGED <<rdir, kept, committed, before, runs>>
         /\ sh'.wasActive = sh.wasActive /\ sh'.ids = sh.ids /\ sh'.dirs = sh.dirs
<1>0. Path /\ sh \in Script
  BY DEF Control, TypeInv
<1>1. Now' \notin {"idle", "snapshot", "begin", "dropTree", "dropSnapshot", "cleanup",
                   "quiesce", "disable", "remove", "unload", "secrets", "identity", "source"}
  BY DEF Protected, Deploying, Undoing
<1>2. ~Start /\ ~Snapshot /\ ~Commit /\ ~DropBackups /\ ~DropFails /\ ~Cleanup /\ ~Kill
      /\ ~VerifyStopped /\ ~RemoveFiles /\ ~RemoveIdentityOrSource /\ ~FinishRollback
  BY <1>0, <1>1, Places
<1>3. CASE Stop \/ Validate
  BY <1>0, <1>3, Places DEF Stop, Validate, recovery, history, Protected, Deploying
<1>4. CASE CreateAccount
  BY <1>0, <1>4, PlacesAccount DEF CreateAccount, recovery, history, Protected, Deploying
<1>5. CASE WriteConfiguration \/ ActivateBinary \/ InstallUnit
  <2>1. UNCHANGED <<rdir, kept, committed, before, runs, sh>>
    BY <1>5 DEF WriteConfiguration, ActivateBinary, InstallUnit, Put, recovery, history
  <2> QED BY <1>0, <1>5, <2>1, Places DEF Protected, Deploying
<1>6. CASE StartService
  <2>1. UNCHANGED <<rdir, kept, committed, before, runs, sh>>
    BY <1>6 DEF StartService, recovery, history
  <2> QED BY <1>0, <1>1, <1>6, <2>1, PlacesService DEF Protected, Deploying
<1>7. CASE Rejected \/ Fails
  <2>1. /\ UNCHANGED <<rdir, kept, committed, before, runs>>
        /\ sh' = [sh EXCEPT !.active = FALSE]
    BY <1>7 DEF Rejected, Fails, Abort, recovery, history
  <2>2. sh.active
    BY <1>0, <1>1, <1>7, Places
  <2> QED BY <1>0, <2>1, <2>2 DEF Control, Script, Protected
<1>8. CASE PromoteSource
  <2>1. UNCHANGED <<rdir, kept, committed, before, runs>>
    BY <1>8 DEF PromoteSource, recovery, history
  <2>2. sh'.wasActive = sh.wasActive /\ sh'.ids = sh.ids /\ sh'.dirs = sh.dirs
    BY <1>0, <1>8 DEF PromoteSource, Script
  <2> QED BY <1>0, <1>8, <2>1, <2>2, Places DEF Protected, Deploying
<1>9. CASE ServiceDies \/ UNCHANGED vars
  BY <1>0, <1>9, Places DEF ServiceDies, vars, recovery, history
<1>10. CASE RollbackQuiesce
  <2>1. UNCHANGED <<rdir, kept, committed, before, runs>>
    BY <1>10 DEF RollbackQuiesce, recovery, history
  <2>2. sh'.wasActive = sh.wasActive /\ sh'.ids = sh.ids /\ sh'.dirs = sh.dirs
    BY <1>0, <1>10 DEF RollbackQuiesce, Script
  <2> QED BY <1>0, <1>10, <2>1, <2>2, Places DEF Protected, Undoing
<1>11. CASE RestoreFile \/ RemovalFails
  <2>1. UNCHANGED <<rdir, kept, committed, before, runs, sh>>
    BY <1>11 DEF RestoreFile, RemovalFails, Put, recovery, history
  <2> QED BY <1>0, <1>11, <2>1, Places DEF Protected, Undoing
<1>12. CASE RestoreSource \/ RestoreSourceFails \/ RestoreAccount \/ RestoreService
  <2>1. UNCHANGED <<rdir, kept, committed, before, runs>>
    BY <1>12 DEF RestoreSource, RestoreSourceFails, RestoreAccount, RestoreService, recovery,
       history
  <2>2. sh'.wasActive = sh.wasActive /\ sh'.ids = sh.ids /\ sh'.dirs = sh.dirs
    BY <1>0, <1>12 DEF RestoreSource, RestoreSourceFails, RestoreAccount, RestoreService, Script
  <2> QED BY <1>0, <1>12, <2>1, <2>2, Places DEF Protected, Undoing
<1>13. CASE RollbackStepFails
  <2>1. UNCHANGED <<rdir, kept, committed, before, runs>>
    BY <1>13 DEF RollbackStepFails, recovery, history
  <2>2. sh'.wasActive = sh.wasActive /\ sh'.ids = sh.ids /\ sh'.dirs = sh.dirs
    BY <1>0, <1>13 DEF RollbackStepFails, Script
  <2> QED BY <1>0, <1>13, <2>1, <2>2, PlacesFailure DEF Protected
<1> QED BY <1>2, <1>3, <1>4, <1>5, <1>6, <1>7, <1>8, <1>9, <1>10, <1>11, <1>12, <1>13
          DEF Next, Steps, Faulty

\* A service that a step finds running is left alone or stopped, but for the two
\* restarts.
LEMMA Starts ==
  ASSUME Path, [Next]_vars
  PROVE  \/ running' \subseteq running
         \/ StartService /\ Now = "restart" /\ running' = {Started}
         \/ /\ RestoreService \/ RollbackStepFails
            /\ Now = "rb restart" /\ MayRestart /\ running' \subseteq {Started}
<1>1. CASE Start \/ Snapshot \/ Begin \/ Stop \/ CreateAccount \/ WriteConfiguration
           \/ ActivateBinary \/ InstallUnit \/ Validate
  BY <1>1 DEF Start, Snapshot, Begin, Stop, CreateAccount, WriteConfiguration,
     ActivateBinary, InstallUnit, Validate, Put, systemd
<1>2. CASE Rejected \/ PromoteSource \/ Commit \/ DropBackups \/ Cleanup \/ VerifyStopped
           \/ RemoveFiles \/ RemoveIdentityOrSource \/ Fails \/ DropFails \/ Kill \/ ServiceDies
           \/ UNCHANGED vars
  BY <1>2 DEF Rejected, Abort, PromoteSource, Commit, DropBackups, Cleanup, VerifyStopped,
     RemoveFiles, RemoveIdentityOrSource, Fails, DropFails, Kill, ServiceDies, Quiesced,
     systemd, vars
<1>3. CASE RollbackQuiesce \/ RestoreFile \/ RemovalFails \/ RestoreSource \/ RestoreAccount
           \/ FinishRollback \/ RestoreSourceFails
  BY <1>3 DEF RollbackQuiesce, RestoreFile, RemovalFails, Put, RestoreSource, RestoreAccount,
     FinishRollback, RestoreSourceFails, Quiesced, systemd
<1>4. CASE StartService
  <2>1. running' = running \/ (At("restart") /\ running' = {Started})
    BY <1>4 DEF StartService
  <2> QED BY <1>4, <2>1, AtNow
<1>5. CASE RestoreService
  <2>1. running' = running \/ (At("rb restart") /\ MayRestart /\ running' = {Started})
    BY <1>5 DEF RestoreService
  <2> QED BY <1>5, <2>1, AtNow
<1>6. CASE RollbackStepFails
  <2>1. \/ running' = running
        \/ At("rb restart") /\ MayRestart /\ running' \subseteq {Started}
    BY <1>6 DEF RollbackStepFails, Quiesced
  <2> QED BY <1>6, <2>1, AtNow
<1> QED BY <1>1, <1>2, <1>3, <1>4, <1>5, <1>6 DEF Next, Steps, Faulty

\* What runs at first counts as good.
LEMMA ProvenInit == Init => Proven
<1> SUFFICES ASSUME Init PROVE Proven
  OBVIOUS
<1>1. Now = "idle" /\ good = running
  BY DEF Init, Now
<1> QED BY <1>1 DEF Proven, Protected, Deploying, Undoing

\* What runs after a step has passed validation or was running before.
LEMMA ProvenNext ==
  ASSUME TypeInv, Control, Service, Proven, FilesBack, Snapshotted, [Next]_vars
  PROVE  Proven'
<1>0. Path /\ sh \in Script
  BY DEF Control, TypeInv
<1>1. good \subseteq good'
  BY GoodGrows
<1>2. running' \subseteq good'
  <2>1. CASE running' \subseteq running
    BY <1>1, <2>1 DEF Proven
  <2>2. CASE Now = "restart" /\ running' = {Started}
    <3>1. Started = live /\ live \in good
      BY <2>2, StartedLive DEF Service, Proven
    <3> QED BY <1>1, <2>2, <3>1
  <2>3. CASE Now = "rb restart" /\ MayRestart /\ running' \subseteq {Started}
    <3>1. ~sh.failed /\ sh.wasActive /\ Now \in Back /\ Now \in Protected
      BY <2>3 DEF MayRestart, Back, Protected, Undoing
    <3>2. Started = live
      BY <2>3, <3>1, StartedLive DEF Service
    <3>3. live = before.live /\ before.live \in good
      BY <3>1, AllBack DEF Proven
    <3> QED BY <1>1, <2>3, <3>2, <3>3
  <2> QED BY <1>0, <2>1, <2>2, <2>3, Starts
<1>3. Now' \in Protected /\ sh'.wasActive => before'.live \in good'
  <2>1. CASE Begin
    <3>1. Now = "begin"
      BY <1>0, <2>1, Places
    <3>2. sh'.wasActive = (running # {}) /\ before' = before
      BY <1>0, <2>1 DEF Begin, Script, history
    <3>3. live = before.live /\ running \subseteq {live} /\ running \subseteq good
      BY <3>1 DEF Snapshotted, Service, Proven
    <3> QED BY <1>1, <3>2, <3>3
  <2>2. CASE ~Begin
    BY <1>1, <2>2, Within DEF Proven
  <2> QED BY <2>1, <2>2
<1>4. Now' \in {"reload", "enable", "restart"} => live' \in good'
  <2>1. CASE Validate
    BY <2>1 DEF Validate, disk
  <2>2. CASE StartService
    <3>1. live' = live
      BY <2>2 DEF StartService, disk
    <3> QED BY <1>0, <1>1, <2>2, <3>1, PlacesService DEF Proven
  <2>3. CASE ServiceDies \/ UNCHANGED vars
    <3>1. live' = live /\ Now' = Now
      BY <1>0, <2>3, Places DEF ServiceDies, vars, disk
    <3> QED BY <1>1, <3>1 DEF Proven
  <2>4. CASE Start \/ Snapshot \/ Begin \/ Stop \/ WriteConfiguration \/ ActivateBinary
             \/ InstallUnit
    BY <1>0, <2>4, Places
  <2>5. CASE CreateAccount
    BY <1>0, <2>5, PlacesAccount
  <2>6. CASE Rejected \/ PromoteSource \/ Commit \/ DropBackups \/ Cleanup \/ VerifyStopped
             \/ RemoveFiles \/ RemoveIdentityOrSource \/ Fails \/ DropFails \/ Kill
    BY <1>0, <2>6, Places
  <2>7. CASE RollbackQuiesce \/ RestoreFile \/ RemovalFails \/ RestoreSource \/ RestoreAccount
             \/ RestoreService \/ FinishRollback \/ RestoreSourceFails
    BY <1>0, <2>7, Places
  <2>8. CASE RollbackStepFails
    BY <1>0, <2>8, PlacesFailure DEF Undoing
  <2> QED BY <2>1, <2>2, <2>3, <2>4, <2>5, <2>6, <2>7, <2>8 DEF Next, Steps, Faulty
<1> QED BY <1>2, <1>3, <1>4 DEF Proven

-----------------------------------------------------------------------------
(* The source *)

\* The steps that neither move a source tree nor write down where it is.
LEMMA SourceStays ==
  ASSUME TypeInv, [Next]_vars, ~Start, ~PromoteSource, ~DropBackups, ~Cleanup, ~Kill,
         ~RemoveIdentityOrSource, ~RestoreSource, ~RestoreSourceFails
  PROVE  /\ UNCHANGED <<src, trees, runs>>
         /\ sh'.backup = sh.backup /\ sh'.promoted = sh.promoted
         /\ sh'.hadSource = sh.hadSource
<1>0. sh \in Script
  BY DEF TypeInv
<1>1. CASE Snapshot \/ Begin \/ Stop \/ CreateAccount \/ WriteConfiguration
           \/ ActivateBinary \/ InstallUnit \/ Validate \/ StartService
  <2>1. UNCHANGED <<src, trees, runs>>
    BY <1>1 DEF Snapshot, Begin, Stop, CreateAccount, WriteConfiguration,
       ActivateBinary, InstallUnit, Validate, StartService, Put, disk
  <2>2. sh' = sh \/ Begin
    BY <1>1 DEF Snapshot, Stop, CreateAccount, WriteConfiguration,
       ActivateBinary, InstallUnit, Validate, StartService, Put
  <2> QED BY <1>0, <2>1, <2>2 DEF Begin, Script
<1>2. CASE Rejected \/ Commit \/ VerifyStopped \/ RemoveFiles \/ Fails \/ DropFails
           \/ ServiceDies \/ UNCHANGED vars
  <2>1. UNCHANGED <<src, trees, runs>>
    BY <1>2 DEF Rejected, Abort, Commit, VerifyStopped, RemoveFiles, Fails, DropFails,
       ServiceDies, disk, vars
  <2>2. /\ sh'.backup = sh.backup /\ sh'.promoted = sh.promoted
        /\ sh'.hadSource = sh.hadSource
    BY <1>0, <1>2 DEF Rejected, Abort, Commit, VerifyStopped, RemoveFiles, Fails, DropFails,
       ServiceDies, vars, Script
  <2> QED BY <2>1, <2>2
<1>3. CASE RollbackQuiesce \/ RestoreFile \/ RemovalFails \/ RestoreAccount \/ RestoreService
           \/ FinishRollback \/ RollbackStepFails
  <2>1. UNCHANGED <<src, trees, runs>>
    BY <1>3 DEF RollbackQuiesce, RestoreFile, RemovalFails, Put, RestoreAccount, RestoreService,
       FinishRollback, RollbackStepFails, disk
  <2>2. /\ sh'.backup = sh.backup /\ sh'.promoted = sh.promoted
        /\ sh'.hadSource = sh.hadSource
    BY <1>0, <1>3 DEF RollbackQuiesce, RestoreFile, RemovalFails, Put, RestoreAccount,
       RestoreService, FinishRollback, RollbackStepFails, Script
  <2> QED BY <2>1, <2>2
<1> QED BY <1>1, <1>2, <1>3 DEF Next, Steps, Faulty

\* Only Start leads to the first of the unmoved steps; the others follow each other.
LEMMA UnmovedBefore ==
  ASSUME TypeInv, Control, [Next]_vars, Now' \in Unmoved, ~Start
  PROVE  /\ Now \in Unmoved
         /\ ~PromoteSource /\ ~DropBackups /\ ~Cleanup /\ ~Kill /\ ~RemoveIdentityOrSource
         /\ ~RestoreSource /\ ~RestoreSourceFails
         /\ before' = before
<1>0. Path
  BY DEF Control
<1>1. /\ ~Commit /\ ~PromoteSource /\ ~DropBackups /\ ~DropFails /\ ~Cleanup /\ ~Kill
      /\ ~VerifyStopped /\ ~RemoveFiles /\ ~RemoveIdentityOrSource
      /\ ~RollbackQuiesce /\ ~RestoreFile /\ ~RemovalFails /\ ~RestoreSource
      /\ ~RestoreSourceFails /\ ~RestoreAccount /\ ~RestoreService /\ ~FinishRollback
  BY <1>0, Places DEF Unmoved
<1>2. ~Rejected /\ ~Fails /\ ~RollbackStepFails
  <2>1. Rejected \/ Fails => Now' \in {"rb quiesce", "cleanup"}
    BY <1>0, Places
  <2>2. RollbackStepFails => Now' \in Undoing
    BY <1>0, PlacesFailure
  <2> QED BY <2>1, <2>2 DEF Unmoved, Undoing
<1>3. CASE Snapshot \/ Begin \/ Stop \/ Validate
  BY <1>0, <1>1, <1>3, Places DEF Unmoved, Snapshot, Begin, Stop, Validate, history
<1>4. CASE WriteConfiguration \/ ActivateBinary \/ InstallUnit
  BY <1>0, <1>1, <1>4, Places
     DEF Unmoved, WriteConfiguration, ActivateBinary, InstallUnit, Put, history
<1>5. CASE CreateAccount
  BY <1>0, <1>1, <1>5, PlacesAccount DEF Unmoved, CreateAccount, history
<1>6. CASE StartService
  BY <1>0, <1>1, <1>6, PlacesService DEF Unmoved, StartService, history
<1>7. CASE ServiceDies \/ UNCHANGED vars
  BY <1>0, <1>1, <1>7, Places DEF ServiceDies, vars, history
<1> QED BY <1>1, <1>2, <1>3, <1>4, <1>5, <1>6, <1>7 DEF Next, Steps, Faulty

\* A tree of an earlier run stays where it is.
LEMMA OldTreesStay ==
  ASSUME runs \in Nat, runs' = runs, \A t \in trees \ trees' : t.run = runs
  PROVE  OldTrees \subseteq OldTrees'
BY DEF OldTrees

\* The trees that this run moves aside differ from each other.
LEMMA AsideFacts ==
  /\ \A s, r : Aside(s, r).run = runs /\ Aside(s, r).release = r
  /\ \A r, q : Aside("rollback", r) # Aside("failed", q)
BY DEF Aside

\* At first the committed source is in place.
LEMMA SourceKeptInit == Init => SourceKept
<1> SUFFICES ASSUME Init PROVE SourceKept
  OBVIOUS
<1>1. Now = "idle" /\ committed.src = src
  BY DEF Init, Now
<1> QED BY <1>1 DEF SourceKept, SourceBack, Unmoved, Returned, Protected, Deploying, Undoing

\* Until the old tree is moved aside the source is as the run found it.
LEMMA UnmovedNext ==
  ASSUME TypeInv, Control, SourceKept, [Next]_vars, Now' \in Unmoved
  PROVE  src' = before'.src /\ sh'.backup = None /\ ~sh'.promoted /\ OldTrees' = trees'
<1>1. CASE Start
  <2>1. src' = src /\ trees' = trees /\ before'.src = src /\ runs' = runs + 1
    BY <1>1 DEF Start, disk
  <2>2. sh'.backup = None /\ ~sh'.promoted
    BY <1>1 DEF Start, Fresh
  <2>3. \A t \in trees : t.run < runs'
    BY <2>1, InstallerAssumption DEF TypeInv
  <2> QED BY <2>1, <2>2, <2>3 DEF OldTrees
<1>2. CASE ~Start
  <2>1. UNCHANGED <<src, trees, runs, before>>
    BY <1>2, SourceStays, UnmovedBefore
  <2>2. sh'.backup = sh.backup /\ sh'.promoted = sh.promoted /\ Now \in Unmoved
    BY <1>2, SourceStays, UnmovedBefore
  <2> QED BY <2>1, <2>2 DEF SourceKept, OldTrees
<1> QED BY <1>1, <1>2

\* Moving the old tree aside and the new one in keeps track of the old one.
LEMMA TrackedPromote ==
  ASSUME TypeInv, Control, SourceKept, [Next]_vars, PromoteSource
  PROVE  Tracked' /\ SourceBack'
<1>0. Path /\ sh \in Script /\ runs \in Nat
  BY InstallerAssumption DEF Control, TypeInv
<1>1. /\ Now \in {"moveAside", "promote", "promoted"} /\ Now \in Protected
      /\ Now' \in {"promote", "promoted", "commit"} /\ Now' \in Protected
      /\ Now' \notin Returned
  BY <1>0, Places DEF Protected, Deploying, Returned
<1>2. UNCHANGED <<runs, before, committed>> /\ Done
  BY DEF PromoteSource, history
<1>3. Tracked
  BY <1>1 DEF SourceKept
<1>4. SourceBack'
  BY <1>1 DEF SourceBack, Returned
<1>6. CASE At("moveAside")
  <2>1. Now = "moveAside" /\ Now' = "promote"
    BY <1>0, <1>2, <1>6, DeployMoves
  <2>2. /\ trees' = IF src = None THEN trees ELSE trees \cup {Aside("rollback", src)}
        /\ sh' = [sh EXCEPT !.backup = src, !.hadSource = (src # None)]
    BY <1>0, <1>2, <1>6, DeployMoves DEF PromoteSource
  <2>3. sh'.backup = src /\ sh'.hadSource = (src # None) /\ sh'.promoted = sh.promoted
    BY <1>0, <2>2 DEF Script
  <2>4. src = before.src
    BY <2>1 DEF SourceKept, Unmoved
  <2>5. OldTrees \subseteq OldTrees'
    BY <1>0, <1>2, <2>2, OldTreesStay
  <2>6. src = None \/ (Aside("rollback", before.src)' \in trees'
                       /\ Aside("rollback", sh.backup)' \in trees')
    BY <1>2, <2>2, <2>3, <2>4 DEF Aside
  <2> QED BY <1>2, <1>3, <1>4, <2>1, <2>3, <2>4, <2>5, <2>6 DEF Tracked
<1>7. CASE At("promote")
  <2>1. Now = "promote" /\ Now' = "promoted" /\ trees' = trees /\ sh' = sh
    BY <1>0, <1>2, <1>7, DeployMoves DEF PromoteSource
  <2>2. OldTrees \subseteq OldTrees'
    BY <1>0, <1>2, <2>1, OldTreesStay
  <2>3. before.src = None \/ Aside("rollback", before.src) \in trees
    BY <1>1, <1>3, <2>1 DEF Tracked, Returned
  <2>4. Aside("rollback", before.src)' = Aside("rollback", before.src)
        /\ Aside("rollback", sh.backup)' = Aside("rollback", sh.backup)
    BY <1>2, <2>1 DEF Aside
  <2> QED BY <1>1, <1>2, <1>3, <1>4, <2>1, <2>2, <2>3, <2>4 DEF Tracked
<1>8. CASE At("promoted")
  <2>1. Now = "promoted" /\ trees' = trees /\ src' = src /\ sh' = [sh EXCEPT !.promoted = TRUE]
    BY <1>0, <1>2, <1>8, DeployMoves DEF PromoteSource
  <2>2. sh'.backup = sh.backup /\ sh'.hadSource = sh.hadSource
    BY <1>0, <2>1 DEF Script
  <2>3. OldTrees \subseteq OldTrees'
    BY <1>0, <1>2, <2>1, OldTreesStay
  <2>4. Aside("rollback", before.src)' = Aside("rollback", before.src)
        /\ Aside("rollback", sh.backup)' = Aside("rollback", sh.backup)
    BY <1>2, <2>2 DEF Aside
  <2>5. Now \notin Returned
    BY <2>1 DEF Returned
  <2> QED BY <1>1, <1>2, <1>3, <1>4, <2>1, <2>2, <2>3, <2>4, <2>5 DEF Tracked
<1> QED BY <1>4, <1>6, <1>7, <1>8 DEF PromoteSource

\* Moving the new tree away and the old one back restores the source.
LEMMA TrackedRestore ==
  ASSUME TypeInv, Control, SourceKept, [Next]_vars, RestoreSource
  PROVE  Tracked' /\ SourceBack'
<1>0. Path /\ sh \in Script /\ runs \in Nat
  BY InstallerAssumption DEF Control, TypeInv
<1>1. UNCHANGED <<runs, before, committed>> /\ Done
  BY DEF RestoreSource, history
<1>2. Tracked /\ SourceBack
  BY <1>0, Places DEF SourceKept, Protected, Undoing
<1>3. \A s, r : Aside(s, r)' = Aside(s, r)
  BY <1>1 DEF Aside
<1>4. /\ sh'.backup = sh.backup /\ sh'.promoted = sh.promoted
      /\ sh'.hadSource = sh.hadSource /\ sh'.failed = sh.failed
  BY <1>0 DEF RestoreSource, Script
<1>5. CASE At("rb moveFailed") /\ sh.backup # None
  <2>1. Now = "rb moveFailed" /\ Now' = "rb source"
    BY <1>0, <1>1, <1>5, RollbackMoves
  <2>2. trees \subseteq trees' /\ src' = None
    BY <1>0, <1>1, <1>5, RollbackMoves DEF RestoreSource
  <2>3. OldTrees \subseteq OldTrees'
    BY <1>0, <1>1, <2>2, OldTreesStay
  <2>4. sh.backup = before.src /\ Aside("rollback", sh.backup) \in trees
    BY <1>2, <1>5, <2>1 DEF Tracked, Returned
  <2>5. Tracked'
    BY <1>1, <1>2, <1>3, <1>4, <1>5, <2>1, <2>2, <2>3, <2>4 DEF Tracked, Aside
  <2>6. SourceBack'
    BY <1>1, <1>5, <2>1, <2>4 DEF SourceBack, Returned
  <2> QED BY <2>5, <2>6
<1>6. CASE At("rb moveFailed") /\ sh.backup = None
  <2>1. Now = "rb moveFailed" /\ Now' = "rb source"
    BY <1>0, <1>1, <1>6, RollbackMoves
  <2>2. trees' = trees /\ src' = IF ~sh.hadSource /\ sh.promoted THEN None ELSE src
    BY <1>0, <1>1, <1>6, RollbackMoves DEF RestoreSource
  <2>3. OldTrees \subseteq OldTrees'
    BY <1>0, <1>1, <2>2, OldTreesStay
  <2>4. sh.promoted => before.src = None /\ ~sh.hadSource
    BY <1>2, <1>6 DEF Tracked
  <2>5. Tracked'
    BY <1>1, <1>2, <1>3, <1>4, <1>6, <2>1, <2>2, <2>3, <2>4 DEF Tracked, Aside
  <2>6. SourceBack'
    BY <1>1, <1>4, <2>1, <2>2, <2>4 DEF SourceBack, Returned
  <2> QED BY <2>5, <2>6
<1>7. CASE At("rb source")
  <2>1. Now = "rb source" /\ Now' = "rb dropFailed"
    BY <1>0, <1>1, <1>7, RollbackMoves
  <2>2. /\ trees' = trees \ {Aside("rollback", sh.backup)}
        /\ src' = IF sh.backup # None THEN sh.backup ELSE src
    BY <1>0, <1>1, <1>7, RollbackMoves DEF RestoreSource
  <2>3. OldTrees \subseteq OldTrees'
    BY <1>0, <1>1, <2>2, OldTreesStay, AsideFacts
  <2>4. before.src \in {None, src'}
    BY <1>2, <2>2 DEF Tracked
  <2>5. Tracked'
    BY <1>1, <1>2, <1>4, <2>1, <2>2, <2>3, <2>4 DEF Tracked, Returned
  <2>6. SourceBack'
    BY <1>1, <1>2, <1>4, <2>1, <2>2, <2>4 DEF SourceBack, Tracked
  <2> QED BY <2>5, <2>6
<1>8. CASE At("rb dropFailed")
  <2>1. Now = "rb dropFailed" /\ Now' = "rb configDir"
    BY <1>0, <1>1, <1>8, RollbackMoves
  <2>2. trees' = trees \ {Aside("failed", sh.failedTree)} /\ src' = src
    BY <1>0, <1>1, <1>8, RollbackMoves DEF RestoreSource
  <2>3. OldTrees \subseteq OldTrees'
    BY <1>0, <1>1, <2>2, OldTreesStay, AsideFacts
  <2>4. Aside("rollback", before.src) \in trees => Aside("rollback", before.src)' \in trees'
    BY <1>1, <1>3, <2>2, AsideFacts DEF Aside
  <2>5. Tracked'
    BY <1>1, <1>2, <1>4, <2>1, <2>2, <2>3, <2>4 DEF Tracked, Returned
  <2>6. SourceBack'
    BY <1>1, <1>2, <1>4, <2>1, <2>2 DEF SourceBack, Returned
  <2> QED BY <2>5, <2>6
<1> QED BY <1>5, <1>6, <1>7, <1>8 DEF RestoreSource

\* When a tree cannot be moved the old one is still somewhere.
LEMMA TrackedFails ==
  ASSUME TypeInv, Control, SourceKept, [Next]_vars, RestoreSourceFails
  PROVE  Tracked' /\ SourceBack'
<1>0. Path /\ sh \in Script /\ runs \in Nat
  BY InstallerAssumption DEF Control, TypeInv
<1>1. /\ Now \in {"rb moveFailed", "rb source", "rb dropFailed"} /\ Now' = "rb configDir"
      /\ Now \in Protected /\ Now' \in Returned
  BY <1>0, Places DEF Protected, Undoing, Returned
<1>2. UNCHANGED <<runs, before, committed>>
  BY DEF RestoreSourceFails, history
<1>3. Tracked
  BY <1>1 DEF SourceKept
<1>4. /\ sh'.backup = sh.backup /\ sh'.promoted = sh.promoted
      /\ sh'.hadSource = sh.hadSource /\ sh'.failed
  BY <1>0 DEF RestoreSourceFails, Script
<1>5. SourceBack'
  BY <1>4 DEF SourceBack
<1>6. Aside("rollback", before.src)' = Aside("rollback", before.src)
  BY <1>2 DEF Aside
<1>7. CASE UNCHANGED <<src, trees>>
  <2>1. OldTrees \subseteq OldTrees'
    BY <1>0, <1>2, <1>7, OldTreesStay
  <2> QED BY <1>1, <1>2, <1>3, <1>4, <1>5, <1>6, <1>7, <2>1 DEF Tracked
<1>8. CASE /\ At("rb source") /\ sh.backup # None
           /\ trees' = trees \ {Aside("failed", sh.failedTree)}
  <2>0. \A t \in trees \ trees' : t.run = runs
    <3>1. Aside("failed", sh.failedTree).run = runs
      BY AsideFacts
    <3>2. trees' = trees \ {Aside("failed", sh.failedTree)}
      BY <1>8
    <3> QED BY ONLY <3>1, <3>2
  <2>1. OldTrees \subseteq OldTrees'
    BY <1>0, <1>2, <2>0, OldTreesStay
  <2>2. Now = "rb source"
    BY <1>8, AtNow
  <2>3. sh.backup = before.src /\ Aside("rollback", before.src) \in trees
    BY <1>3, <1>8, <2>2 DEF Tracked, Returned
  <2>4. Aside("rollback", before.src) \in trees'
    BY <1>8, <2>3, AsideFacts
  <2> QED BY <1>1, <1>2, <1>3, <1>4, <1>5, <1>6, <1>8, <2>1, <2>3, <2>4 DEF Tracked
<1> QED BY <1>7, <1>8 DEF RestoreSourceFails

\* The other steps of a transaction and a rollback
LEMMA TrackedNext ==
  ASSUME TypeInv, Control, SourceKept, [Next]_vars, Now' \in Protected
  PROVE  Tracked'
<1>0. Path /\ sh \in Script /\ runs \in Nat
  BY InstallerAssumption DEF Control, TypeInv
<1>1. Now' \notin {"idle", "snapshot", "begin", "dropTree", "dropSnapshot", "cleanup",
                   "quiesce", "disable", "remove", "unload", "secrets", "identity", "source"}
  BY DEF Protected, Deploying, Undoing
<1>2. ~Start /\ ~DropBackups /\ ~Cleanup /\ ~Kill /\ ~RemoveIdentityOrSource
  BY <1>0, <1>1, Places
<1>3. CASE PromoteSource \/ RestoreSource \/ RestoreSourceFails
  BY <1>3, TrackedPromote, TrackedRestore, TrackedFails
<1>4. CASE ~PromoteSource /\ ~RestoreSource /\ ~RestoreSourceFails
  <2>1. /\ UNCHANGED <<src, trees, runs>>
        /\ sh'.backup = sh.backup /\ sh'.promoted = sh.promoted
        /\ sh'.hadSource = sh.hadSource
    BY <1>2, <1>4, SourceStays
  <2>2. OldTrees' = OldTrees
    BY <2>1 DEF OldTrees
  <2>3. CASE Begin
    <3>1. Now = "begin" /\ Now' = "stop" /\ UNCHANGED <<before, committed>>
      BY <1>0, <2>3, Places DEF Begin, history
    <3>2. /\ src = before.src /\ sh.backup = None /\ ~sh.promoted /\ OldTrees = trees
          /\ committed.src \in {None, src} \cup {t.release : t \in trees}
      BY <3>1 DEF SourceKept, Unmoved
    <3> QED BY <2>1, <2>2, <3>1, <3>2 DEF Tracked
  <2>4. CASE ~Begin
    <3>1. Now \in Protected /\ UNCHANGED <<before, committed>>
      BY <2>4, Within
    <3>2. Tracked
      BY <3>1 DEF SourceKept
    <3>3. /\ Aside("rollback", before.src)' = Aside("rollback", before.src)
          /\ Aside("rollback", sh.backup)' = Aside("rollback", sh.backup)
      BY <2>1, <3>1 DEF Aside
    <3>4. /\ Now \in Returned => Now' \in Returned
          /\ Now' \in {"promote", "promoted"} => Now' = Now
      <4>1. CASE Stop \/ Validate \/ WriteConfiguration \/ ActivateBinary \/ InstallUnit
        BY <1>0, <4>1, Places DEF Returned
      <4>2. CASE CreateAccount
        BY <1>0, <4>2, PlacesAccount DEF Returned
      <4>3. CASE StartService
        BY <1>0, <4>3, PlacesService DEF Returned
      <4>4. CASE Rejected \/ Fails
        <5>1. Now \notin Undoing /\ Now' \in {"rb quiesce", "cleanup"}
          BY <1>0, <4>4, Places
        <5> QED BY <5>1 DEF Returned, Undoing
      <4>5. CASE ServiceDies \/ UNCHANGED vars
        BY <1>0, <4>5, Places
      <4>6. CASE RollbackQuiesce \/ RestoreFile \/ RemovalFails \/ RestoreAccount
                 \/ RestoreService
        BY <1>0, <4>6, Places DEF Returned
      <4>7. CASE RollbackStepFails
        <5>1. Now \in Undoing /\ Now' \in Undoing /\ Done /\ Now # "cleanup"
          BY <1>0, <4>7, PlacesFailure DEF RollbackStepFails, Undoing
        <5>2. AdvanceBack
          BY <1>0, <5>1, DoneAdvances
        <5> QED BY <5>1, <5>2 DEF AdvanceBack, Undoing, Returned
      <4>8. CASE Snapshot \/ Commit \/ DropFails \/ VerifyStopped \/ RemoveFiles \/ FinishRollback
        BY <1>0, <1>1, <4>8, Places
      <4> QED BY <1>2, <1>4, <2>4, <4>1, <4>2, <4>3, <4>4, <4>5, <4>6, <4>7, <4>8
                DEF Next, Steps, Faulty
    <3> QED BY <2>1, <2>2, <3>1, <3>2, <3>3, <3>4 DEF Tracked
  <2> QED BY <2>3, <2>4
<1> QED BY <1>3, <1>4

\* No later step of the rollback undoes the restored source.
LEMMA SourceBackNext ==
  ASSUME TypeInv, Control, SourceKept, [Next]_vars
  PROVE  SourceBack'
<1>0. Path /\ sh \in Script
  BY DEF Control, TypeInv
<1>1. ASSUME sh'.failed \/ Now' \notin Returned \cup {"rb source"} PROVE SourceBack'
  BY <1>1 DEF SourceBack
<1>2. CASE Start \/ Snapshot \/ Begin \/ Stop \/ Validate \/ WriteConfiguration
           \/ ActivateBinary \/ InstallUnit \/ Commit \/ DropBackups \/ DropFails \/ Cleanup
           \/ Kill \/ VerifyStopped \/ RemoveFiles \/ RemoveIdentityOrSource
           \/ RollbackQuiesce \/ RestoreFile \/ RemovalFails \/ FinishRollback
  <2>1. Now' \notin Returned \cup {"rb source"}
    BY <1>0, <1>2, Places DEF Returned
  <2> QED BY <1>1, <2>1
<1>3. CASE CreateAccount
  BY <1>0, <1>1, <1>3, PlacesAccount DEF Returned
<1>4. CASE StartService
  BY <1>0, <1>1, <1>4, PlacesService DEF Returned
<1>5. CASE Rejected \/ Fails
  <2>1. Now' \in {"rb quiesce", "cleanup"}
    BY <1>0, <1>5, Places
  <2> QED BY <1>1, <2>1 DEF Returned
<1>6. CASE PromoteSource \/ RestoreSource \/ RestoreSourceFails
  BY <1>6, TrackedPromote, TrackedRestore, TrackedFails
<1>7. CASE RollbackStepFails
  <2>1. sh'.failed
    BY <1>0, <1>7 DEF RollbackStepFails, Script
  <2> QED BY <1>1, <2>1
<1>8. CASE RestoreAccount \/ RestoreService \/ ServiceDies \/ UNCHANGED vars
  <2>1. UNCHANGED <<src, before>>
    BY <1>8 DEF RestoreAccount, RestoreService, ServiceDies, vars, disk, history
  <2>2. sh'.failed = sh.failed /\ sh'.promoted = sh.promoted
    BY <1>0, <1>8 DEF RestoreAccount, RestoreService, ServiceDies, vars, Script
  <2>3. Now' = Now \/ Now \in Returned
    BY <1>0, <1>8, Places DEF Returned
  <2> QED BY <2>1, <2>2, <2>3 DEF SourceKept, SourceBack
<1> QED BY <1>2, <1>3, <1>4, <1>5, <1>6, <1>7, <1>8 DEF Next, Steps, Faulty

\* The source of the committed installation is in place or in a tree moved aside.
LEMMA CommittedSourceNext ==
  ASSUME TypeInv, Control, SourceKept, [Next]_vars
  PROVE  /\ committed'.src \in {None, src'} \cup {t.release : t \in trees'}
         /\ Now' = "dropTree" => committed'.src = src'
<1>0. Path /\ sh \in Script
  BY DEF Control, TypeInv
<1>1. CASE Now' \in Protected
  <2>1. Tracked'
    BY <1>1, TrackedNext
  <2>2. Aside("rollback", before.src)' \in trees' => before'.src \in {t.release : t \in trees'}
    BY DEF Aside
  <2>3. {t.release : t \in OldTrees'} \subseteq {t.release : t \in trees'}
    BY DEF OldTrees
  <2>4. Now' # "dropTree"
    BY <1>1 DEF Protected, Deploying, Undoing
  <2> QED BY <2>1, <2>2, <2>3, <2>4 DEF Tracked
<1>2. CASE Now' \notin Protected
  <2>1. ~PromoteSource /\ ~RestoreSource /\ ~RestoreSourceFails
    BY <1>0, <1>2, Places DEF Protected, Deploying, Undoing
  <2>2. CASE Commit
    BY <2>2 DEF Commit, disk
  <2>3. CASE DropBackups
    <3>1. /\ Now \in {"dropTree", "dropSnapshot"} /\ Now' \in {"dropSnapshot", "cleanup"}
          /\ src' = src /\ committed' = committed
      BY <1>0, <2>3, Places DEF DropBackups, history
    <3>2. CASE At("dropTree")
      <4>1. committed.src = src
        BY <3>2, AtNow DEF SourceKept
      <4> QED BY <3>1, <4>1
    <3>3. CASE trees' = trees
      BY <3>1, <3>3 DEF SourceKept
    <3> QED BY <2>3, <3>2, <3>3 DEF DropBackups
  <2>4. CASE RemoveFiles
    <3>1. Now' \in {"unload", "identity"} /\ src' = src /\ trees' = trees
      BY <1>0, <2>4, Places DEF RemoveFiles
    <3>2. committed'.src = src \/ committed' = committed
      BY <2>4 DEF RemoveFiles, Delete
    <3> QED BY <3>1, <3>2 DEF SourceKept
  <2>5. CASE RemoveIdentityOrSource
    <3>1. Now' \in {"source", "cleanup"} /\ trees' = trees
      BY <1>0, <2>5, Places DEF RemoveIdentityOrSource
    <3>2. committed'.src = None \/ UNCHANGED <<committed, src>>
      BY <2>5 DEF RemoveIdentityOrSource, TypeInv
    <3> QED BY <3>1, <3>2 DEF SourceKept
  <2>6. CASE ~Commit /\ ~DropBackups /\ ~RemoveFiles /\ ~RemoveIdentityOrSource
    <3>1. UNCHANGED <<src, trees>>
      <4>1. CASE Start \/ Cleanup \/ Kill
        BY <4>1 DEF Start, Cleanup, Kill, disk
      <4>2. CASE ~(Start \/ Cleanup \/ Kill)
        BY <2>1, <2>6, <4>2, SourceStays
      <4> QED BY <4>1, <4>2
    <3>2. committed' = committed
      <4>1. CASE Start \/ Snapshot \/ Begin \/ Stop \/ CreateAccount \/ WriteConfiguration
                 \/ ActivateBinary \/ InstallUnit \/ Validate \/ StartService
        BY <4>1 DEF Start, Snapshot, Begin, Stop, CreateAccount, WriteConfiguration,
           ActivateBinary, InstallUnit, Validate, StartService, Put, history
      <4>2. CASE Rejected \/ Cleanup \/ VerifyStopped \/ Fails \/ DropFails \/ Kill
                 \/ ServiceDies \/ UNCHANGED vars
        BY <4>2 DEF Rejected, Abort, Cleanup, VerifyStopped, Fails, DropFails, Kill,
           ServiceDies, history, vars
      <4>3. CASE RollbackQuiesce \/ RestoreFile \/ RemovalFails \/ RestoreAccount
                 \/ RestoreService \/ FinishRollback \/ RollbackStepFails
        BY <4>3 DEF RollbackQuiesce, RestoreFile, RemovalFails, Put, RestoreAccount,
           RestoreService, FinishRollback, RollbackStepFails, history
      <4> QED BY <2>1, <2>6, <4>1, <4>2, <4>3 DEF Next, Steps, Faulty
    <3>3. Now' = "dropTree" => Now = "dropTree"
      <4>1. CASE Start \/ Snapshot \/ Begin \/ Stop \/ WriteConfiguration \/ ActivateBinary
                 \/ InstallUnit \/ Validate \/ DropFails \/ Cleanup \/ Kill \/ VerifyStopped
        BY <1>0, <4>1, Places
      <4>2. CASE CreateAccount
        BY <1>0, <4>2, PlacesAccount
      <4>3. CASE StartService
        BY <1>0, <4>3, PlacesService
      <4>4. CASE Rejected \/ Fails
        BY <1>0, <4>4, Places
      <4>5. CASE ServiceDies \/ RollbackQuiesce \/ RestoreFile \/ RemovalFails \/ RestoreAccount
                 \/ RestoreService \/ FinishRollback \/ UNCHANGED vars
        BY <1>0, <4>5, Places
      <4>6. CASE RollbackStepFails
        BY <1>0, <4>6, PlacesFailure DEF Undoing
      <4> QED BY <2>1, <2>6, <4>1, <4>2, <4>3, <4>4, <4>5, <4>6 DEF Next, Steps, Faulty
    <3> QED BY <3>1, <3>2, <3>3 DEF SourceKept
  <2> QED BY <2>2, <2>3, <2>4, <2>5, <2>6
<1> QED BY <1>1, <1>2

\* No step loses the committed source.
LEMMA SourceKeptNext ==
  ASSUME TypeInv, Control, SourceKept, [Next]_vars
  PROVE  SourceKept'
<1>1. SourceBack' /\ (Now' \in Protected => Tracked')
  BY SourceBackNext, TrackedNext
<1>2. Now' \in Unmoved =>
        src' = before'.src /\ sh'.backup = None /\ ~sh'.promoted /\ OldTrees' = trees'
  BY UnmovedNext
<1> QED BY <1>1, <1>2, CommittedSourceNext DEF SourceKept

-----------------------------------------------------------------------------
(* Accounts and directories *)

\* The steps that touch neither accounts nor directories
LEMMA OwnersStay ==
  ASSUME [Next]_vars, ~CreateAccount, ~RestoreAccount, ~RemoveFiles, ~RemoveIdentityOrSource
  PROVE  UNCHANGED <<ids, dirs>>
<1>1. CASE Start \/ Snapshot \/ Begin \/ Stop \/ WriteConfiguration \/ ActivateBinary
           \/ InstallUnit \/ Validate \/ StartService
  BY <1>1 DEF Start, Snapshot, Begin, Stop, WriteConfiguration, ActivateBinary,
     InstallUnit, Validate, StartService, Put, disk
<1>2. CASE Rejected \/ PromoteSource \/ Commit \/ DropBackups \/ Cleanup \/ VerifyStopped
           \/ Fails \/ DropFails \/ Kill \/ ServiceDies \/ UNCHANGED vars
  BY <1>2 DEF Rejected, Abort, PromoteSource, Commit, DropBackups, Cleanup, VerifyStopped,
     Fails, DropFails, Kill, ServiceDies, disk, vars
<1>3. CASE RollbackQuiesce \/ RestoreFile \/ RemovalFails \/ RestoreSource \/ RestoreService
           \/ FinishRollback \/ RestoreSourceFails \/ RollbackStepFails
  BY <1>3 DEF RollbackQuiesce, RestoreFile, RemovalFails, Put, RestoreSource, RestoreService,
     FinishRollback, RestoreSourceFails, RollbackStepFails, disk
<1> QED BY <1>1, <1>2, <1>3 DEF Next, Steps, Faulty

\* The steps that write neither the configuration nor the token
LEMMA SecretsStay ==
  ASSUME TypeInv, [Next]_vars, ~WriteConfiguration, ~RestoreFile, ~RemoveFiles
  PROVE  live'["config"] = live["config"] /\ live'["token"] = live["token"]
<1>0. live \in [File -> Content]
  BY DEF TypeInv, FileSet
<1>1. CASE ActivateBinary
  BY <1>0, <1>1 DEF ActivateBinary, Put, File
<1>2. CASE InstallUnit
  <2>1. CASE Put("unit", runs + 1)
    BY <1>0, <2>1 DEF Put, File
  <2>2. CASE Put("override", IF CustomPath THEN runs + 1 ELSE None)
    BY <1>0, <2>2 DEF Put, File
  <2> QED BY <1>2, <2>1, <2>2 DEF InstallUnit
<1> QED BY <1>1, <1>2, LiveStays

\* A failure of the rollback is remembered, by the script or by a snapshot that
\* stays.
LEMMA FailureRemembered ==
  ASSUME TypeInv, Control, Snapshotted, [Next]_vars, sh.failed \/ kept # {}
  PROVE  sh'.failed \/ kept' # {}
<1>0. Path /\ sh \in Script
  BY DEF Control, TypeInv
<1>1. CASE Start
  <2>1. Now = "idle" /\ kept' = kept
    BY <1>0, <1>1, Places DEF Start, recovery
  <2>2. ~sh.failed
    BY <2>1 DEF Control, Undoing
  <2> QED BY <2>1, <2>2
<1>2. CASE Cleanup
  <2>1. Now = "cleanup" /\ kept' = IF sh.preserve THEN kept \cup rdir ELSE kept
    BY <1>0, <1>2, Places DEF Cleanup
  <2> QED BY <2>1 DEF Snapshotted
<1>3. CASE Kill
  <2>1. kept' = kept \cup rdir
    BY <1>3 DEF Kill
  <2>2. sh.failed => rdir # {}
    BY DEF Control, Snapshotted, Protected
  <2> QED BY <2>1, <2>2
<1>4. CASE Snapshot \/ Begin \/ Stop \/ CreateAccount \/ WriteConfiguration
           \/ ActivateBinary \/ InstallUnit \/ Validate \/ StartService
  <2>1. kept' = kept
    BY <1>4 DEF Snapshot, Begin, Stop, CreateAccount, WriteConfiguration, ActivateBinary,
       InstallUnit, Validate, StartService, Put, recovery
  <2>2. sh' = sh \/ Begin
    BY <1>4 DEF Snapshot, Stop, CreateAccount, WriteConfiguration, ActivateBinary,
       InstallUnit, Validate, StartService, Put
  <2> QED BY <1>0, <2>1, <2>2 DEF Begin, Script
<1>5. CASE Rejected \/ PromoteSource \/ Commit \/ DropBackups \/ VerifyStopped \/ RemoveFiles
           \/ RemoveIdentityOrSource \/ Fails \/ DropFails \/ ServiceDies \/ UNCHANGED vars
  <2>1. kept' = kept
    BY <1>5 DEF Rejected, Abort, PromoteSource, Commit, DropBackups, VerifyStopped,
       RemoveFiles, RemoveIdentityOrSource, Fails, DropFails, ServiceDies, recovery, vars
  <2>2. sh'.failed = sh.failed
    BY <1>0, <1>5 DEF Rejected, Abort, PromoteSource, Commit, DropBackups, VerifyStopped,
       RemoveFiles, RemoveIdentityOrSource, Fails, DropFails, ServiceDies, Script, vars
  <2> QED BY <2>1, <2>2
<1>6. CASE RollbackQuiesce \/ RestoreFile \/ RemovalFails \/ RestoreSource \/ RestoreAccount
           \/ RestoreService \/ FinishRollback \/ RestoreSourceFails \/ RollbackStepFails
  <2>1. kept' = kept
    BY <1>6 DEF RollbackQuiesce, RestoreFile, RemovalFails, Put, RestoreSource, RestoreAccount,
       RestoreService, FinishRollback, RestoreSourceFails, RollbackStepFails, recovery
  <2>2. sh.failed => sh'.failed
    BY <1>0, <1>6 DEF RollbackQuiesce, RestoreFile, RemovalFails, Put, RestoreSource,
       RestoreAccount, RestoreService, FinishRollback, RestoreSourceFails,
       RollbackStepFails, Script
  <2> QED BY <2>1, <2>2
<1> QED BY <1>1, <1>2, <1>3, <1>4, <1>5, <1>6 DEF Next, Steps, Faulty

\* A first installation has the directory and the group, an empty host no secrets.
LEMMA OwnedInit == Init => Owned
<1> SUFFICES ASSUME Init PROVE Owned
  OBVIOUS
<1>1. Now = "idle"
  BY DEF Init, Now
<1>2. ~Secret(live) \/ ("config" \in dirs /\ "group" \in ids)
  <2>1. live = Nothing => ~Secret(live)
    BY DEF Secret, Nothing, File
  <2> QED BY <2>1 DEF Init
<1>3. ~Secret(live) \/ "group" \in ids => GroupOwns(live, ids)
  BY DEF Secret, GroupOwns
<1> QED BY <1>1, <1>2, <1>3 DEF Owned, Protected, Deploying, Undoing

\* Where secrets are there is a directory for them.
LEMMA SecretsHoused ==
  ASSUME TypeInv, Control, Snapshotted, Owned, [Next]_vars
  PROVE  Secret(live') => "config" \in dirs'
<1>0. Path /\ sh \in Script /\ live \in [File -> Content]
  BY DEF Control, TypeInv, FileSet
<1>1. CASE WriteConfiguration
  <2>1. PICK f \in {"token", "config"} : At(f)
    BY <1>1 DEF WriteConfiguration
  <2>2. Now \in {"token", "config"}
    BY <2>1, AtNow
  <2>3. dirs' = dirs
    BY <1>1 DEF WriteConfiguration, Put
  <2> QED BY <2>2, <2>3 DEF Owned
<1>2. CASE RestoreFile
  <2>1. PICK f \in File, s \in rdir : Put(f, s[f])
    BY <1>2 DEF RestoreFile
  <2>2. Now \in Protected
    BY <1>0, <1>2, Places DEF Protected, Undoing
  <2>3. live' = [live EXCEPT ![f] = before.live[f]] /\ dirs' = dirs
    BY <2>1, <2>2 DEF Put, Snapshotted
  <2>4. Secret(live') => Secret(live) \/ Secret(before.live)
    BY <1>0, <2>3 DEF Secret, File
  <2> QED BY <2>2, <2>3, <2>4 DEF Owned
<1>3. CASE RemoveFiles
  <2>1. CASE Delete({"unit", "override", "binary"}) /\ dirs' = dirs
    <3>1. live'["config"] = live["config"] /\ live'["token"] = live["token"]
      BY <2>1 DEF Delete, File
    <3> QED BY <2>1, <3>1 DEF Owned, Secret
  <2>2. CASE Delete({"config", "token"})
    <3>1. live'["config"] = None /\ live'["token"] = None
      BY <2>2 DEF Delete, File
    <3> QED BY <3>1 DEF Secret
  <2>3. CASE UNCHANGED <<live, dirs>>
    BY <2>3 DEF Owned
  <2> QED BY <1>3, <2>1, <2>2, <2>3 DEF RemoveFiles
<1>4. CASE ~WriteConfiguration /\ ~RestoreFile /\ ~RemoveFiles
  <2>1. Secret(live') => Secret(live)
    BY <1>4, SecretsStay DEF Secret
  <2>2. CASE CreateAccount
    <3>1. "config" \in dirs => "config" \in dirs'
      BY <2>2 DEF CreateAccount
    <3> QED BY <2>1, <3>1 DEF Owned
  <2>3. CASE RemoveIdentityOrSource
    <3>1. "config" \in dirs => "config" \in dirs'
      BY <2>3 DEF RemoveIdentityOrSource, MayRemoveIdentity
    <3> QED BY <2>1, <3>1 DEF Owned
  <2>4. CASE RestoreAccount
    <3>1. Secret(live) /\ "config" \in dirs => "config" \in dirs'
      BY <2>4 DEF RestoreAccount, WithoutNewStateDir, Secret
    <3> QED BY <2>1, <3>1 DEF Owned
  <2>5. CASE ~CreateAccount /\ ~RemoveIdentityOrSource /\ ~RestoreAccount
    BY <1>4, <2>1, <2>5, OwnersStay DEF Owned
  <2> QED BY <2>2, <2>3, <2>4, <2>5
<1> QED BY <1>1, <1>2, <1>3, <1>4

\* Where a secret is there is its group, unless a rollback failed or could not remove
\* this file.
LEMMA SecretsOwned ==
  ASSUME TypeInv, Control, FilesBack, Snapshotted, Owned, [Next]_vars,
         ~sh'.failed, kept' = {},
         NEW f \in {"config", "token"}, live'[f] # None
  PROVE  "group" \in ids' \/ f \in stuck'
<1>0. /\ Path /\ sh \in Script /\ live \in [File -> Content] /\ f \in File
      /\ ~sh.failed /\ kept = {}
  BY FailureRemembered DEF Control, TypeInv, FileSet, File
<1>1. live[f] # None => "group" \in ids \/ f \in stuck
  BY <1>0 DEF Owned, GroupOwns
<1>2. CASE WriteConfiguration
  <2>1. PICK g \in {"token", "config"} : At(g)
    BY <1>2 DEF WriteConfiguration
  <2>2. Now \in {"token", "config"}
    BY <2>1, AtNow
  <2>3. ids' = ids
    BY <1>2 DEF WriteConfiguration, Put
  <2> QED BY <2>2, <2>3 DEF Owned, Deploying
<1>3. CASE RestoreFile
  <2>1. PICK g \in File, s \in rdir : Put(g, s[g])
    BY <1>3 DEF RestoreFile
  <2>2. Now \in Protected
    BY <1>0, <1>3, Places DEF Protected, Undoing
  <2>3. live' = [live EXCEPT ![g] = before.live[g]] /\ UNCHANGED <<ids, stuck>>
    BY <2>1, <2>2 DEF Put, Snapshotted, history
  <2>4. live'[f] = live[f] \/ live'[f] = before.live[f]
    BY <1>0, <2>3
  <2>5. /\ before.live[f] # None => "group" \in sh.ids \/ f \in stuck
        /\ sh.ids \subseteq ids
    BY <1>0, <2>2 DEF Owned, GroupOwns
  <2> QED BY <1>1, <2>3, <2>4, <2>5
<1>4. CASE RemoveFiles
  <2>0. ids' = ids
    BY <1>4 DEF RemoveFiles
  <2>1. CASE Delete({"unit", "override", "binary"})
    <3>1. live'[f] = live[f] /\ (f \in stuck => f \in stuck')
      BY <1>0, <2>1 DEF Delete
    <3> QED BY <1>1, <2>0, <3>1
  <2>2. CASE Delete({"config", "token"})
    <3>1. live'[f] = None
      BY <1>0, <2>2 DEF Delete
    <3> QED BY <3>1
  <2>3. CASE UNCHANGED <<live, stuck>>
    BY <1>1, <2>0, <2>3
  <2> QED BY <1>4, <2>1, <2>2, <2>3 DEF RemoveFiles
<1>5. CASE Commit
  <2>1. Now = "commit" /\ ids' = ids
    BY <1>0, <1>5, Places DEF Commit, disk
  <2> QED BY <2>1 DEF Owned, Deploying
<1>6. CASE ~WriteConfiguration /\ ~RestoreFile /\ ~RemoveFiles /\ ~Commit
  <2>1. live[f] # None /\ stuck \subseteq stuck'
    BY <1>6, SecretsStay, StuckStays
  <2>2. CASE CreateAccount
    <3>1. ids \subseteq ids'
      BY <2>2 DEF CreateAccount
    <3> QED BY <1>1, <2>1, <3>1
  <2>3. CASE RemoveIdentityOrSource
    <3>1. "config" \in dirs
      BY <2>1 DEF Owned, Secret
    <3>2. ids' = ids
      BY <2>3, <3>1 DEF RemoveIdentityOrSource, MayRemoveIdentity
    <3> QED BY <1>1, <2>1, <3>2
  <2>4. CASE RestoreAccount
    <3>1. Now \in {"rb configDir", "rb stateDir", "rb user", "rb group"}
      BY <1>0, <2>4, Places
    <3>2. Now \in Protected /\ Now \in Back
      BY <3>1 DEF Protected, Undoing, Back
    <3>3. "group" \in sh.ids /\ "group" \in ids => "group" \in ids'
      BY <2>4 DEF RestoreAccount
    <3>4. live[f] = before.live[f] \/ f \in stuck
      BY <1>0, <3>2, AllBack DEF AsIn
    <3>5. /\ before.live[f] # None => "group" \in sh.ids \/ f \in stuck
          /\ sh.ids \subseteq ids
      BY <1>0, <3>2 DEF Owned, GroupOwns
    <3> QED BY <2>1, <3>3, <3>4, <3>5
  <2>5. CASE ~CreateAccount /\ ~RemoveIdentityOrSource /\ ~RestoreAccount
    <3>1. ids' = ids
      BY <1>6, <2>5, OwnersStay
    <3> QED BY <1>1, <2>1, <3>1
  <2> QED BY <2>2, <2>3, <2>4, <2>5
<1> QED BY <1>2, <1>3, <1>4, <1>5, <1>6

\* The steps that write secrets come after those that make a place for them, and from
\* then on the group is there until the transaction ends.
LEMMA OwnersFirst ==
  ASSUME TypeInv, Control, Owned, [Next]_vars
  PROVE  /\ Now' \in {"token", "config"} => "config" \in dirs'
         /\ Now' \in Deploying \ {"stop", "group"} => "group" \in ids'
<1>0. Path
  BY DEF Control
<1>1. CASE CreateAccount
  <2>0. Done
    BY <1>1 DEF CreateAccount
  <2>1. CASE At("group")
    BY <1>0, <1>1, <2>0, <2>1, DeployMoves DEF CreateAccount
  <2>2. CASE At("user")
    BY <1>0, <1>1, <2>0, <2>2, DeployMoves DEF CreateAccount, Owned, Deploying
  <2>3. CASE At("dirs")
    BY <1>0, <1>1, <2>0, <2>3, DeployMoves DEF CreateAccount, Owned, Deploying
  <2> QED BY <1>1, <2>1, <2>2, <2>3 DEF CreateAccount
<1>2. CASE WriteConfiguration
  <2>1. PICK f \in {"token", "config"} : At(f)
    BY <1>2 DEF WriteConfiguration
  <2>2. Now \in {"token", "config"}
    BY <2>1, AtNow
  <2>3. UNCHANGED <<ids, dirs>>
    BY <1>2 DEF WriteConfiguration, Put
  <2> QED BY <2>2, <2>3 DEF Owned, Deploying
<1>3. CASE ActivateBinary \/ InstallUnit
  <2>1. Now \in {"binary", "unit", "override"} /\ Now' \in {"unit", "override", "validate"}
    BY <1>0, <1>3, DeployMoves DEF ActivateBinary, InstallUnit, Put
  <2>2. ids' = ids
    BY <1>3 DEF ActivateBinary, InstallUnit, Put
  <2> QED BY <2>1, <2>2 DEF Owned, Deploying
<1>4. CASE ServiceDies \/ UNCHANGED vars
  <2>1. Now' = Now /\ UNCHANGED <<ids, dirs>>
    BY <1>0, <1>4, Places DEF ServiceDies, vars, disk
  <2> QED BY <2>1 DEF Owned
<1>5. CASE Validate \/ PromoteSource
  <2>1. /\ Now \in {"validate", "moveAside", "promote", "promoted"}
        /\ Now' \in {"reload", "promote", "promoted", "commit"}
    BY <1>0, <1>5, Places
  <2>2. ids' = ids
    BY <1>5 DEF Validate, PromoteSource, disk
  <2> QED BY <2>1, <2>2 DEF Owned, Deploying
<1>6. CASE StartService
  <2>1. ids' = ids
    BY <1>6 DEF StartService, disk
  <2> QED BY <1>0, <1>6, <2>1, PlacesService DEF Owned, Deploying
<1>7. CASE Start \/ Snapshot \/ Begin \/ Stop \/ Commit \/ DropBackups \/ DropFails
           \/ Cleanup \/ Kill
  <2>1. Now' \notin Deploying \ {"stop", "group"}
    BY <1>0, <1>7, Places DEF Deploying
  <2> QED BY <2>1 DEF Deploying
<1>8. CASE Rejected \/ Fails
  <2>1. Now' \in {"rb quiesce", "cleanup"}
    BY <1>0, <1>8, Places
  <2> QED BY <2>1 DEF Deploying
<1>9. CASE VerifyStopped \/ RemoveFiles \/ RemoveIdentityOrSource \/ RollbackQuiesce
           \/ RestoreFile \/ RemovalFails \/ RestoreSource \/ RestoreSourceFails
           \/ RestoreAccount \/ RestoreService \/ FinishRollback
  <2>1. Now' \notin Deploying
    BY <1>0, <1>9, Places DEF Deploying
  <2> QED BY <2>1 DEF Deploying
<1>10. CASE RollbackStepFails
  <2>1. Now' \in Undoing
    BY <1>0, <1>10, PlacesFailure
  <2> QED BY <2>1 DEF Undoing, Deploying
<1> QED BY <1>1, <1>2, <1>3, <1>4, <1>5, <1>6, <1>7, <1>8, <1>9, <1>10
          DEF Next, Steps, Faulty

\* What was there when the transaction began is there until it ends.
LEMMA OldOwnersStay ==
  ASSUME TypeInv, Control, Snapshotted, Owned, [Next]_vars, Now' \in Protected
  PROVE  /\ sh'.ids \subseteq ids' /\ sh'.dirs \subseteq dirs'
         /\ Secret(before'.live) => "config" \in sh'.dirs
         /\ GroupOwns(before.live, sh.ids)'
<1>0. Path /\ sh \in Script /\ dirs \subseteq {"config", "state"}
  BY DEF Control, TypeInv
<1>1. CASE Begin
  <2>1. Now = "begin" /\ UNCHANGED <<ids, dirs, before, kept, stuck>>
    BY <1>0, <1>1, Places DEF Begin, disk, recovery, history
  <2>2. sh'.ids = ids /\ sh'.dirs = dirs
    BY <1>0, <1>1 DEF Begin, Script
  <2>3. live = before.live /\ ~sh.failed
    BY <2>1 DEF Snapshotted, Control, Undoing
  <2>4. GroupOwns(before.live, sh.ids)'
    BY <2>1, <2>2, <2>3 DEF Owned, GroupOwns
  <2> QED BY <2>1, <2>2, <2>3, <2>4 DEF Owned
<1>2. CASE ~Begin
  <2>1. /\ Now \in Protected /\ UNCHANGED <<kept, before>>
        /\ sh'.ids = sh.ids /\ sh'.dirs = sh.dirs
    BY <1>2, Within
  <2>2. sh.ids \subseteq ids' /\ sh.dirs \subseteq dirs'
    <3>1. sh.ids \subseteq ids /\ sh.dirs \subseteq dirs
      BY <2>1 DEF Owned
    <3>2. CASE CreateAccount
      BY <1>0, <3>1, <3>2 DEF CreateAccount
    <3>3. CASE RestoreAccount
      BY <3>1, <3>3 DEF RestoreAccount, WithoutNewStateDir
    <3>4. ~RemoveFiles /\ ~RemoveIdentityOrSource
      BY <1>0, <2>1, Places DEF Protected, Deploying, Undoing
    <3> QED BY <3>1, <3>2, <3>3, <3>4, OwnersStay
  <2>3. stuck \subseteq stuck'
    <3>1. ~Commit /\ ~RemoveFiles
      BY <1>0, Places DEF Protected, Deploying, Undoing
    <3> QED BY <3>1, StuckStays
  <2>4. GroupOwns(before.live, sh.ids)'
    BY <2>1, <2>3 DEF Owned, GroupOwns
  <2> QED BY <2>1, <2>2, <2>4 DEF Owned
<1> QED BY <1>1, <1>2

\* Every step preserves Owned.
LEMMA OwnedNext ==
  ASSUME TypeInv, Control, FilesBack, Snapshotted, Owned, [Next]_vars
  PROVE  Owned'
<1>1. Secret(live)' <=> Secret(live')
  BY DEF Secret
<1>2. Secret(before.live)' <=> Secret(before'.live)
  BY DEF Secret
<1>3. sh'.failed \/ GroupOwns(live, ids)'
  BY SecretsOwned DEF GroupOwns
<1>4. Deploying' = Deploying /\ Protected' = Protected
  BY DEF Deploying, Undoing, Protected
<1> QED BY <1>1, <1>2, <1>3, <1>4, SecretsHoused, OwnersFirst, OldOwnersStay DEF Owned

\* At first nothing is being removed.
LEMMA NewRemovedInit == Init => NewRemoved
<1> SUFFICES ASSUME Init PROVE NewRemoved
  OBVIOUS
<1>1. Now = "idle"
  BY DEF Init, Now
<1> QED BY <1>1 DEF NewRemoved, Returned

\* A rollback without a failure removes what the transaction has made, and only that.
LEMMA NewRemovedNext ==
  ASSUME TypeInv, Control, FilesBack, Owned, NewRemoved, [Next]_vars
  PROVE  NewRemoved'
<1>0. /\ Path /\ sh \in Script
      /\ dirs \subseteq {"config", "state"} /\ ids \subseteq {"user", "group"}
  BY DEF Control, TypeInv
<1> DEFINE Late == {"rb stateDir", "rb user", "rb group", "rb reload", "rb enablement",
                    "rb restart", "rb finish"}
<1>1. ASSUME sh'.failed \/ Now' \notin Late PROVE NewRemoved'
  BY <1>1 DEF NewRemoved, Returned
<1>2. CASE Start \/ Snapshot \/ Begin \/ Stop \/ Validate \/ WriteConfiguration
           \/ ActivateBinary \/ InstallUnit \/ Commit \/ DropBackups \/ DropFails \/ Cleanup
           \/ Kill \/ VerifyStopped \/ RemoveFiles \/ RemoveIdentityOrSource
           \/ RollbackQuiesce \/ RestoreFile \/ RemovalFails \/ FinishRollback \/ PromoteSource
           \/ RestoreSource \/ RestoreSourceFails
  <2>1. Now' \notin Late
    BY <1>0, <1>2, Places
  <2> QED BY <1>1, <2>1
<1>3. CASE CreateAccount
  BY <1>0, <1>1, <1>3, PlacesAccount
<1>4. CASE StartService
  BY <1>0, <1>1, <1>4, PlacesService
<1>5. CASE Rejected \/ Fails
  <2>1. Now' \in {"rb quiesce", "cleanup"}
    BY <1>0, <1>5, Places
  <2> QED BY <1>1, <2>1
<1>6. CASE RollbackStepFails
  <2>1. sh'.failed
    BY <1>0, <1>6 DEF RollbackStepFails, Script
  <2> QED BY <1>1, <2>1
<1>7. CASE RestoreService \/ ServiceDies \/ UNCHANGED vars
  <2>1. UNCHANGED <<ids, dirs, sh, stuck>>
    BY <1>7 DEF RestoreService, ServiceDies, vars, disk, history
  <2>2. Now' = Now \/ (/\ Now \in {"rb reload", "rb enablement", "rb restart"}
                       /\ Now' \in {"rb enablement", "rb restart", "rb finish"})
    BY <1>0, <1>7, Places
  <2> QED BY <2>1, <2>2 DEF NewRemoved, Returned, SecretStuck
<1>8. CASE RestoreAccount
  <2>0. Done /\ SecretStuck' = SecretStuck
    BY <1>8 DEF RestoreAccount, history, SecretStuck
  <2>1. /\ Now \in {"rb configDir", "rb stateDir", "rb user", "rb group"}
        /\ Now \in Protected /\ Now \in Back
    BY <1>0, <1>8, Places DEF Protected, Undoing, Back
  <2>2. /\ sh.ids \subseteq ids /\ sh.dirs \subseteq dirs
        /\ Secret(before.live) => "config" \in sh.dirs
    BY <2>1 DEF Owned
  <2>3. CASE sh.failed
    <3>1. sh'.failed
      BY <1>0, <1>8, <2>3 DEF RestoreAccount, Script
    <3> QED BY <1>1, <3>1
  <2>4. CASE ~sh.failed /\ Now = "rb configDir"
    <3>1. Now' = "rb stateDir"
      BY <1>0, <2>0, <2>4, DoneAdvances DEF AdvanceBack
    <3>2. AsIn(live, before.live)
      BY <2>1, <2>4, AllBack
    <3>3. At("rb configDir")
      BY <2>4, AtNow
    <3>4. /\ sh' = sh
          /\ dirs' = IF "config" \notin sh.dirs /\ live.config = None /\ live.token = None
                     THEN dirs \ {"config"} ELSE dirs
      BY <1>8, <2>4, AtNow, RemovesAt DEF RestoreAccount
    <3>5. "config" \in sh.dirs \/ SecretStuck \/ (live.config = None /\ live.token = None)
      BY <2>2, <3>2 DEF Secret, AsIn, SecretStuck, File
    <3>6. SecretStuck \/ dirs' \ sh'.dirs \subseteq {"state"}
      BY <1>0, <2>2, <3>4, <3>5
    <3> QED BY <2>0, <3>1, <3>6 DEF NewRemoved, Returned
  <2>5. CASE ~sh.failed /\ Now = "rb stateDir"
    <3>1. Now' = "rb user"
      BY <1>0, <2>0, <2>5, DoneAdvances DEF AdvanceBack
    <3>2. dirs' = WithoutNewStateDir /\ sh'.dirs = sh.dirs
      <4>1. ~At("rb configDir")
        BY <1>0, <2>0, <2>5, RollbackMoves
      <4>2. \A id \in {"user", "group"} : ~At(Removes[id])
        BY <2>5, RemovesAt
      <4>3. /\ dirs' = WithoutNewStateDir
            /\ sh' = [sh EXCEPT !.retain = "state" \in sh.dirs /\ "user" \notin sh.ids]
        BY <1>8, <4>1, <4>2 DEF RestoreAccount
      <4> QED BY <1>0, <4>3 DEF Script
    <3>3. SecretStuck \/ dirs \ sh.dirs \subseteq {"state"}
      BY <2>5 DEF NewRemoved, Returned
    <3>4. dirs' = sh'.dirs \/ (SecretStuck /\ dirs' = sh'.dirs \cup {"config"})
      BY <1>0, <2>2, <3>2, <3>3 DEF WithoutNewStateDir
    <3>5. SecretStuck \/ dirs' \ sh'.dirs \subseteq {"state"}
      BY <3>4
    <3> QED BY <2>0, <3>1, <3>4, <3>5 DEF NewRemoved, Returned
  <2>6. CASE ~sh.failed /\ Now \in {"rb user", "rb group"}
    <3>1. \/ Now = "rb user" /\ Now' = "rb group"
          \/ Now = "rb group" /\ Now' = "rb reload"
      BY <1>0, <2>0, <2>6, DoneAdvances DEF AdvanceBack
    <3>2. PICK id \in {"user", "group"} :
             /\ At(Removes[id])
             /\ ids' = IF sh.retain THEN ids ELSE ids \ ({id} \ sh.ids)
             /\ UNCHANGED <<dirs, sh>>
      <4>1. ~At("rb configDir") /\ ~At("rb stateDir")
        BY <1>0, <2>0, <2>6, RollbackMoves
      <4> QED BY <1>8, <4>1 DEF RestoreAccount
    <3>3. (id = "user" /\ Now = "rb user") \/ (id = "group" /\ Now = "rb group")
      BY <3>2, RemovesAt
    <3>4. dirs' = sh'.dirs \/ (SecretStuck /\ dirs' = sh'.dirs \cup {"config"})
      BY <2>6, <3>2 DEF NewRemoved, Returned
    <3>5. Now = "rb user" => sh'.retain \/ ids' \ sh'.ids \subseteq {"group"}
      BY <1>0, <3>2, <3>3
    <3>6. Now = "rb group" => sh'.retain \/ (ids' = sh'.ids)
      BY <1>0, <2>2, <2>6, <3>2, <3>3 DEF NewRemoved
    <3>7. SecretStuck \/ dirs' \ sh'.dirs \subseteq {"state"}
      BY <3>4
    <3> QED BY <2>0, <3>1, <3>4, <3>5, <3>6, <3>7 DEF NewRemoved, Returned
  <2> QED BY <2>1, <2>3, <2>4, <2>5, <2>6
<1> QED BY <1>2, <1>3, <1>4, <1>5, <1>6, <1>7, <1>8 DEF Next, Steps, Faulty

-----------------------------------------------------------------------------
(* Releases *)

\* At first nothing is to be installed.
LEMMA FloorsInit == Init => Floors
<1> SUFFICES ASSUME Init PROVE Floors
  OBVIOUS
<1>1. Now = "idle" /\ sh.candidate = None /\ committed.src = src
  BY DEF Init, Now, Fresh
<1> QED BY <1>1 DEF Floors, Protected, Deploying, Undoing

\* The release that a run has chosen is not older than what it has found.
LEMMA ChosenNext ==
  ASSUME TypeInv, Floors, [Next]_vars, sh'.candidate # None
  PROVE  NoOlderThan(before)'
<1>0. sh \in Script /\ src \in Nat /\ live.binary \in Nat
  BY InstallerAssumption DEF TypeInv, FileSet, File, Content
<1>1. CASE Start
  <2>1. before' = [live |-> live, src |-> src]
    BY <1>1 DEF Start
  <2>2. PICK action \in DOMAIN Program, candidate \in Release, force \in BOOLEAN,
             blind \in BOOLEAN :
          /\ IF action \in {"install", "update"}
             THEN Accepts(candidate, force, blind, Incomplete(action))
             ELSE candidate = 1 /\ ~blind
          /\ sh' = [Fresh EXCEPT !.action = action, !.blind = blind,
                                 !.incomplete = Partial(action),
                                 !.candidate = IF action \in {"install", "update"}
                                               THEN candidate ELSE None]
    BY <1>1 DEF Start
  <2>3. /\ sh'.blind = blind
        /\ sh'.candidate = IF action \in {"install", "update"} THEN candidate ELSE None
    BY <2>2 DEF Fresh
  <2>4. candidate >= Floor(blind) /\ sh'.candidate = candidate
    BY <2>2, <2>3 DEF Accepts
  <2>5. candidate \in Nat
    BY InstallerAssumption DEF Release
  <2>6. candidate >= src /\ (candidate >= live.binary \/ blind)
    BY <1>0, <2>4, <2>5 DEF Floor
  <2> QED BY <2>1, <2>3, <2>4, <2>6 DEF NoOlderThan
<1>2. CASE Cleanup \/ Kill
  BY <1>2 DEF Cleanup, Kill, Fresh
<1>3. CASE ~Start /\ ~Cleanup /\ ~Kill
  <2>1. sh'.candidate = sh.candidate /\ sh'.blind = sh.blind /\ before' = before
    <3>1. CASE Snapshot \/ Stop \/ CreateAccount \/ WriteConfiguration
               \/ ActivateBinary \/ InstallUnit \/ Validate \/ StartService
      BY <3>1 DEF Snapshot, Stop, CreateAccount, WriteConfiguration, ActivateBinary,
         InstallUnit, Validate, StartService, Put, history
    <3>2. CASE Begin
      BY <1>0, <3>2 DEF Begin, Script, history
    <3>3. CASE Rejected \/ PromoteSource \/ Commit \/ DropBackups \/ VerifyStopped
               \/ RemoveFiles \/ RemoveIdentityOrSource \/ Fails \/ DropFails \/ ServiceDies
               \/ UNCHANGED vars
      <4>1. before' = before
        BY <3>3 DEF Rejected, Abort, PromoteSource, Commit, DropBackups, VerifyStopped,
           RemoveFiles, RemoveIdentityOrSource, Fails, DropFails, ServiceDies, history, vars
      <4>2. sh'.candidate = sh.candidate /\ sh'.blind = sh.blind
        BY <1>0, <3>3 DEF Rejected, Abort, PromoteSource, Commit, DropBackups, VerifyStopped,
           RemoveFiles, RemoveIdentityOrSource, Fails, DropFails, ServiceDies, Script, vars
      <4> QED BY <4>1, <4>2
    <3>4. CASE RollbackQuiesce \/ RestoreFile \/ RemovalFails \/ RestoreSource
               \/ RestoreAccount \/ RestoreService \/ FinishRollback \/ RestoreSourceFails
               \/ RollbackStepFails
      <4>1. before' = before
        BY <3>4 DEF RollbackQuiesce, RestoreFile, RemovalFails, Put, RestoreSource,
           RestoreAccount, RestoreService, FinishRollback, RestoreSourceFails,
           RollbackStepFails, history
      <4>2. sh'.candidate = sh.candidate /\ sh'.blind = sh.blind
        BY <1>0, <3>4 DEF RollbackQuiesce, RestoreFile, RemovalFails, Put, RestoreSource,
           RestoreAccount, RestoreService, FinishRollback, RestoreSourceFails,
           RollbackStepFails, Script
      <4> QED BY <4>1, <4>2
    <3> QED BY <1>3, <3>1, <3>2, <3>3, <3>4 DEF Next, Steps, Faulty
  <2> QED BY <2>1 DEF Floors, NoOlderThan
<1> QED BY <1>1, <1>2, <1>3

\* The committed source is the one that a run finds, unless a snapshot was left.
LEMMA FloorsNext ==
  ASSUME TypeInv, Control, Snapshotted, SourceKept, Floors, [Next]_vars
  PROVE  Floors'
<1>0. Path /\ sh \in Script
  BY DEF Control, TypeInv
<1>1. sh'.candidate # None => NoOlderThan(before)'
  BY ChosenNext
<1>2. CASE Now' \in Protected
  <2>1. kept' = {} => committed'.src \in {None, before'.src}
    <3>1. CASE Begin
      <4>1. Now = "begin" /\ UNCHANGED <<kept, before, committed>>
        BY <1>0, <3>1, Places DEF Begin, recovery, history
      <4>2. "begin" \notin Protected /\ "begin" \in Unmoved
        BY DEF Protected, Deploying, Undoing, Unmoved
      <4> QED BY <4>1, <4>2 DEF Floors, SourceKept
    <3>2. CASE ~Begin
      BY <1>2, <3>2, Within DEF Floors
    <3> QED BY <3>1, <3>2
  <2> QED BY <1>1, <1>2, <2>1 DEF Floors
<1>3. CASE Now' \notin Protected
  <2> DEFINE Found == committed'.src \in {None, src'}
             Saved == Now' = "cleanup" /\ sh'.preserve /\ rdir' # {}
  <2>1. ASSUME kept' = {} PROVE Found \/ Saved
    <3>0. Now \notin Protected \cup {"cleanup"} /\ kept = {} => committed.src \in {None, src}
      BY DEF Floors
    <3>1. CASE Start \/ Snapshot \/ VerifyStopped
      <4>1. Now \in {"idle", "snapshot", "quiesce", "disable"}
        BY <1>0, <3>1, Places
      <4>2. UNCHANGED <<src, kept, committed>>
        BY <3>1 DEF Start, Snapshot, VerifyStopped, disk, recovery, history
      <4> QED BY <2>1, <3>0, <4>1, <4>2 DEF Protected, Deploying, Undoing
    <3>2. CASE StartService
      <4>1. Now = "unload"
        BY <1>0, <1>3, <3>2, PlacesService DEF Protected, Deploying
      <4>2. UNCHANGED <<src, kept, committed>>
        BY <3>2 DEF StartService, disk, recovery, history
      <4> QED BY <2>1, <3>0, <4>1, <4>2 DEF Protected, Deploying, Undoing
    <3>3. CASE Commit
      BY <3>3 DEF Commit, disk
    <3>4. CASE DropBackups \/ DropFails
      <4>1. Now \in {"dropTree", "dropSnapshot"}
        BY <1>0, <3>4, Places
      <4>2. UNCHANGED <<src, kept, committed>>
        BY <3>4 DEF DropBackups, DropFails, disk, recovery, history
      <4> QED BY <2>1, <3>0, <4>1, <4>2 DEF Protected, Deploying, Undoing
    <3>5. CASE Cleanup
      <4>1. /\ Now = "cleanup" /\ UNCHANGED <<src, committed>>
            /\ kept' = IF sh.preserve THEN kept \cup rdir ELSE kept
        BY <1>0, <3>5, Places DEF Cleanup, disk, history
      <4>2. kept = {} /\ (sh.preserve => rdir = {})
        BY <2>1, <4>1
      <4>3. "cleanup" \notin Protected
        BY DEF Protected, Deploying, Undoing
      <4> QED BY <4>1, <4>2, <4>3 DEF Floors
    <3>6. CASE Kill
      <4>1. UNCHANGED <<src, committed>> /\ kept' = kept \cup rdir
        BY <3>6 DEF Kill, disk, history
      <4>2. kept = {} /\ rdir = {}
        BY <2>1, <4>1
      <4>3. Now \notin Protected
        BY <4>2 DEF Snapshotted
      <4> QED BY <4>1, <4>2, <4>3 DEF Floors
    <3>7. CASE RemoveFiles
      <4>1. Now \in {"remove", "secrets"} /\ src' = src /\ kept' = kept
        BY <1>0, <3>7, Places DEF RemoveFiles, recovery
      <4>2. committed'.src = src \/ committed' = committed
        BY <3>7 DEF RemoveFiles, Delete
      <4> QED BY <2>1, <3>0, <4>1, <4>2 DEF Protected, Deploying, Undoing
    <3>8. CASE RemoveIdentityOrSource
      <4>1. Now \in {"identity", "source"} /\ kept' = kept
        BY <1>0, <3>8, Places DEF RemoveIdentityOrSource, recovery
      <4>2. committed'.src = None \/ UNCHANGED <<committed, src>>
        BY <3>8 DEF RemoveIdentityOrSource, TypeInv
      <4> QED BY <2>1, <3>0, <4>1, <4>2 DEF Protected, Deploying, Undoing
    <3>9. CASE Rejected \/ Fails
      <4>1. UNCHANGED <<src, kept, committed>>
        BY <3>9 DEF Rejected, Fails, Abort, disk, recovery, history
      <4>2. /\ Now \notin Undoing \cup {"idle", "cleanup"}
            /\ Now' = IF sh.active THEN "rb quiesce" ELSE "cleanup"
        BY <1>0, <3>9, Places
      <4>3. "rb quiesce" \in Protected
        BY DEF Protected, Undoing
      <4>4. Now \notin Protected
        BY <1>3, <4>2, <4>3 DEF Control, Protected
      <4> QED BY <2>1, <3>0, <4>1, <4>2, <4>4
    <3>10. CASE ServiceDies \/ UNCHANGED vars
      <4>1. Now' = Now /\ UNCHANGED <<src, kept, rdir, committed, sh>>
        BY <1>0, <3>10, Places DEF ServiceDies, vars, disk, recovery, history
      <4> QED BY <1>3, <2>1, <4>1 DEF Floors
    <3>11. CASE RollbackQuiesce
      <4>1. Now = "rb quiesce" /\ Now' = "cleanup" /\ rdir' = rdir
        BY <1>0, <1>3, <3>11, Places DEF RollbackQuiesce, recovery, Protected, Undoing
      <4>2. ~Done
        BY <1>0, <3>11, <4>1, RollbackMoves DEF RollbackQuiesce
      <4>3. sh'.preserve
        BY <1>0, <3>11, <4>2 DEF RollbackQuiesce, Script
      <4>4. rdir # {}
        BY <4>1 DEF Snapshotted, Protected, Undoing
      <4> QED BY <4>1, <4>3, <4>4
    <3>12. CASE FinishRollback
      <4>1. /\ Now = "rb finish" /\ Now' = "cleanup" /\ Now \in Protected /\ Now \in Returned
            /\ UNCHANGED <<src, kept, committed>>
        BY <1>0, <3>12, Places DEF FinishRollback, disk, history, Protected, Undoing, Returned
      <4>2. CASE ~sh.failed
        BY <2>1, <4>1, <4>2 DEF Floors, SourceKept, SourceBack
      <4>3. CASE sh' = [sh EXCEPT !.preserve = TRUE] /\ rdir' = rdir
        <5>1. sh'.preserve
          BY <1>0, <4>3 DEF Script
        <5>2. rdir # {}
          BY <4>1 DEF Snapshotted
        <5> QED BY <4>1, <4>3, <5>1, <5>2
      <4> QED BY <3>12, <4>2, <4>3 DEF FinishRollback
    <3>13. ~Begin /\ ~Stop /\ ~Validate /\ ~WriteConfiguration /\ ~ActivateBinary /\ ~InstallUnit
           /\ ~PromoteSource /\ ~RestoreFile /\ ~RemovalFails /\ ~RestoreSource
           /\ ~RestoreSourceFails /\ ~RestoreAccount /\ ~RestoreService
      BY <1>0, <1>3, Places DEF Protected, Deploying, Undoing
    <3>14. ~CreateAccount /\ ~RollbackStepFails
      BY <1>0, <1>3, PlacesAccount, PlacesFailure DEF Protected, Deploying
    <3> QED BY <3>1, <3>2, <3>3, <3>4, <3>5, <3>6, <3>7, <3>8, <3>9, <3>10, <3>11, <3>12,
              <3>13, <3>14 DEF Next, Steps, Faulty
  <2> QED BY <1>1, <1>3, <2>1 DEF Floors
<1> QED BY <1>2, <1>3

-----------------------------------------------------------------------------
(* The theorems *)

\* The inductive invariant holds throughout: in every state of every sequence of
\* runs of cirrusync-install.sh, with any number of failures and kills.
THEOREM Inductive == Spec => []IInv
<1>1. Init => IInv
  BY TypeInit, ControlInit, ServiceInit, ProvenInit, EntireInit, FilesBackInit,
     SnapshottedInit, SourceKeptInit, OwnedInit, NewRemovedInit, FloorsInit DEF IInv
<1>2. IInv /\ [Next]_vars => IInv'
  BY TypeNext, ControlNext, ServiceNext, ProvenNext, EntireNext, FilesBackNext,
     SnapshottedNext, SourceKeptNext, OwnedNext, NewRemovedNext, FloorsNext DEF IInv
<1> QED BY <1>1, <1>2, PTL DEF Spec

\* A service that runs was started from exactly the files on disk, at every step of
\* every run, whatever fails or is killed: begin_transaction, rollback_transaction
\* and verify_service_stopped stop it before a file is replaced, and start_service
\* reloads the units first.
THEOREM AlwaysRunsWhatIsInstalled == Spec => []RunsWhatIsInstalled
<1>1. IInv => RunsWhatIsInstalled
  BY DEF IInv, Service, RunsWhatIsInstalled
<1> QED BY <1>1, Inductive, PTL

\* The service only ever runs a set of files that passed `check' or that ran before
\* the installer came, whichever rollbacks failed (rollback_transaction restarts
\* only over a complete rollback, to files that ran).
THEOREM AlwaysRunsGoodSets == Spec => []RunsOnlyGoodSets
<1>1. IInv => RunsOnlyGoodSets
  BY DEF IInv, Proven, RunsOnlyGoodSets
<1> QED BY <1>1, Inductive, PTL

\* Wherever the installer is killed, the files of the last committed installation
\* are in place or together in one snapshot, and its source is in place or in a
\* tree moved aside (begin_transaction, commit_transaction, rollback_transaction,
\* cleanup).  Files that a rollback could not remove may be there besides.
THEOREM AlwaysRecoverable == Spec => []Recoverable
<1>1. IInv => Recoverable
  <2> SUFFICES ASSUME IInv PROVE Recoverable
    OBVIOUS
  <2>1. ({live} \cup rdir \cup kept) \cap Copies # {}
    BY DEF IInv, Snapshotted
  <2>2. \E s \in {live} \cup rdir \cup kept : AsIn(s, committed.live)
    BY <2>1 DEF Copies
  <2> QED BY <2>2 DEF IInv, SourceKept, Recoverable
<1> QED BY <1>1, Inductive, PTL

\* A rollback that reports no failure has restored files, source, accounts,
\* directories and enablement to what the run found (rollback_transaction), but for
\* new files that it could not remove, which restore_snapshot does not report, and
\* the directory of a configuration or token among them.
THEOREM RollbackAlwaysRestores == Spec => []RollbackRestores
<1>1. IInv => RollbackRestores
  <2> SUFFICES ASSUME IInv, RolledBack PROVE RollbackRestores
    BY DEF RollbackRestores
  <2>0. TypeInv /\ Service /\ FilesBack /\ SourceBack /\ NewRemoved
    BY DEF IInv, SourceKept
  <2>1. Now = "rb finish" /\ ~sh.failed
    BY AtNow DEF RolledBack
  <2>2. AsIn(live, before.live)
    BY <2>0, <2>1, AllBack DEF Back
  <2>3. src = before.src \/ (before.src = None /\ ~sh.promoted)
    BY <2>0, <2>1 DEF SourceBack, Returned
  <2>4. /\ ids = sh.ids \/ sh.retain
        /\ \/ dirs = sh.dirs
           \/ dirs = sh.dirs \cup {"config"} /\ stuck \cap {"config", "token"} # {}
    BY <2>0, <2>1 DEF NewRemoved, Returned, SecretStuck
  <2>5. enabled = sh.enablement /\ (running # {} => sh.wasActive)
    BY <2>0, <2>1 DEF Service
  <2> QED BY <2>2, <2>3, <2>4, <2>5 DEF RollbackRestores
<1> QED BY <1>1, Inductive, PTL

\* As long as configuration or token exist so does the group they belong to, unless
\* a rollback failed or could not remove this file (create_service_account,
\* restore_snapshot, remove_new_state_directory, uninstall).
THEOREM GroupAlwaysOutlivesSecrets == Spec => []GroupOutlivesSecrets
<1>1. IInv => GroupOutlivesSecrets
  BY DEF IInv, Owned, GroupOwns, GroupOutlivesSecrets
<1> QED BY <1>1, Inductive, PTL

\* A run that commits installs nothing older than what it found, nor than the
\* committed installation unless a snapshot was left behind, but for a binary that
\* did not tell its version (evaluate_upgrade_candidate, commit_transaction).
THEOREM NeverDowngradesKnowingly == Spec => DowngradesOnlyBlindly
<1>1. IInv /\ [Next]_vars =>
        [At("commit") /\ sh.candidate # None =>
           \A it \in {before} \cup {c \in {committed} : kept = {}} :
             /\ sh.candidate >= it.src
             /\ sh.candidate >= it.live.binary \/ sh.blind]_vars
  <2> SUFFICES ASSUME IInv, At("commit"), sh.candidate # None,
                      NEW it \in {before} \cup {c \in {committed} : kept = {}}
               PROVE  NoOlderThan(it)
    BY DEF NoOlderThan
  <2>1. Now = "commit" /\ Now \in Protected
    BY AtNow DEF Protected, Deploying
  <2>2. NoOlderThan(before)
    BY DEF IInv, Floors
  <2>3. ASSUME kept = {} PROVE NoOlderThan(committed)
    <3>1. before.live \in Copies
      BY <2>1, <2>3 DEF IInv, Snapshotted
    <3>a. committed.live.binary \in {None, before.live.binary}
      BY <3>1 DEF Copies, AsIn, File
    <3>2. committed.src \in {None, before.src}
      BY <2>1, <2>3 DEF IInv, Floors
    <3>3. sh.candidate \in Nat
      BY InstallerAssumption DEF IInv, TypeInv, Script
    <3> QED BY <2>2, <3>a, <3>2, <3>3 DEF NoOlderThan, None
  <2> QED BY <2>2, <2>3
<1> QED BY <1>1, Inductive, PTL DEF Spec, DowngradesOnlyBlindly

=============================================================================
