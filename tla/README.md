# Verification of Cirrusync

Cirrusync keeps A and AAAA records at Cloudflare equal to the public addresses
of a host. This directory holds TLA+ models of its code, TLC configurations that
check them on small instances, and proofs, checked by TLAPS, of what holds for
every instance. `PROJECT.json` maps every definition to the lines it models.
Source paths below are relative to the repository.

## The system

### Components

| Component | Source | State | Operations |
| --- | --- | --- | --- |
| Runtime lock | `src/updater.rs` 883-1441 | lock directory (fixed when the `Updater` is built), one locked file per managed record | `for_config`, `acquire`, drop of the guard |
| Synchronisation cycle | `src/updater.rs` 293-402, 713-832 | rotating start record, deadline, stop flag, mutation-in-flight flag, report | `run_cycle`, `plan_record`, `execute_record_plan` |
| Daemon loop | `src/daemon.rs` | consecutive failures, next delay | `run_loop`, `retry_delay`, shutdown |
| Cloudflare client | `src/cloudflare.rs` | zone cache | token verification, zone and record lookups with pagination, update, create, probe, error classification |
| Check workflow | `src/updater.rs` 405-711, 1591-1741 | report, zone proofs, deadline | `check` with and without creation and probes |
| Address discovery | `src/public_ip.rs` | time used so far | `discover`: providers in order, one shared timeout; parsing and classification of answers |
| Configuration | `src/config.rs` | the open file, what was read of it | opening, checking and reading the two files, canonical form, validation |
| Command line | `src/main.rs`, `src/error.rs` | stage of the start | `build_updater`, subcommands, exit codes |
| Installer | `cirrusync-install.sh` | files, accounts, unit and service state, a transaction with snapshots | install, upgrade, rollback, uninstall |
| Service unit | `systemd/cirrusync.service` | restart limits | start, restart, stop |
| Versioning | `scripts/versioning.py` | none | release checks |

### Interactions

A process (`run`, `once`, `check` with a writing flag) reads configuration and token
from files that others may replace or write, builds an `Updater`, acquires the runtime lock and works under it. The daemon runs a cycle, sleeps
and repeats; a signal is received in the sleep or in a `select!` against the
cycle, and both share a `CycleControl`. A cycle discovers addresses (both
families concurrently), then handles the records one by one: zone (through the
cache), record, if missing the record again, then an update or a creation.
Cloudflare holds the only persistent state of the client. The installer replaces
program, unit and configuration while the service is stopped, and runs `check` and
the service itself to find out whether they work. Processes meet at the lock files,
with other people and other tools at Cloudflare, without any precondition.

### What is hard here

* Several updaters acquire overlapping sets of files without waiting, fail half-
  way, drop one file after the other, or die.
* Lookup and write are separate requests. An answer may be lost, a request may be
  carried out after its sender gave up, and the next cycle starts from what it sees.
* Three clocks cut work off: the request timeout, the deadline of the cycle or
  check, and the shutdown. Reads may be dropped, writes may not.
* Cached zone identifiers become stale, and only a 404 tells.
* One hanging record or one dead family must not keep the others from being updated.
* The installer changes a dozen things one after the other; every command may fail,
  also those of the rollback, and the next run starts from what a killed one left.
* A listing is read page by page while others change it, from a server that need not
  count its pages or end its answers.
* A configuration and a token are opened, checked and read in separate calls, and one
  record can be written in many ways.
* A report is believed: by the user after `check`, by the scheduler after a cycle.

The list `hazards` in `PROJECT.json` names each of them at its line.

## Modules

| Module | Models | Notes |
| --- | --- | --- |
| `Ownership` | what the lock promises | abstract: records are claimed and released in one step, never by two processes |
| `RuntimeLock` | the lock | one action per step of `acquire` and of the guard's drop; implements `Ownership` |
| `Sync` | daemon loop, cycle, zone cache | Cloudflare, network and other people as environment actions |
| `Answer` | what an HTTP answer means | `send`, `CloudflareError`, `cloudflare_failure` as operators |
| `Lookup` | the reading requests of the client | extends `Answer`; one action per request, chunk and page |
| `Discovery` | `PublicIpClient::discover` | one family, time counted in clock units |
| `PublicIp` | which answers of a provider count | extends `Discovery`; compared with the registries of special addresses |
| `Config` | canonical form and validity | operators |
| `Startup` | from `main` to a running command | extends `Config`; files, path and writers as environment |
| `Check` | `Updater::check` | time left until the deadline as a number |
| `Retry` | `retry_delay`, `calculate_backoff`, the counter | the delays `Sync` leaves open |
| `Installer` | `cirrusync-install.sh` | choice of the action, transaction, rollback, uninstallation |
| `RuntimeLockProofs`, `SyncProofs`, `CheckProofs`, `InstallerProofs`, `DiscoveryProofs`, `RetryProofs`, `LookupProofs`, `StartupProofs` | | theorems and proofs |
| `MCRuntimeLock`, `MCSync`, `MCCheck`, `MCStartup` | | values of the constants |

Operators whose comment begins "Mutant of" are wrong versions of the definition
that follows: each property is shown to fail when one of them is put in place.

### RuntimeLock

`stage` is the life of a process: `built` (`Updater::new` has fixed `root`),
`acquiring` (the loop of `acquire`), `running` (it has its guard), `dropping`.
A lock file is its directory and a hash; `held` stands for the operating
system's advisory locks. `TryLock` is one iteration of the loop, at the lowest
hash not yet locked (`resource_hashes` is sorted and deduplicated). `DropFile`
unlocks one file; `Crash` frees all at once. `AcquireFails` stands for every
refusal to use the directory or the file (ownership, mode, links, I/O): these
checks read but do not change shared state. Two records may have the same hash.

### Sync

`pc` is where the daemon waits: `sleep`, `discover`, `next` (head of the record
loop), `zone`, `find`, `recheck`, `mutate`. One action is what runs between two
awaits; between them other actors act. `dns[r]` is the set of entries with the
type and name of record `r`; an entry is its identifier, its address and whether
its other settings are the configured ones. A mutation is sent, processed by
Cloudflare (`ProcessMutation`) and answered, or it fails in between, processed
or not; with `LateApply` a request that was given up on may be processed any time
later (`zombies`). `late` says that the deadline has passed; the code looks at it
through `timeout_at` around reads and once more before a mutation. The lookups of a record in
`Slow` may hang until the deadline, and the discovery of a family in `Broken` may fail,
in any cycle without being counted as a fault; neither has to. `stop` is
`CycleControl::stop_requested`; the flag `mutation_in_flight` is `req # NoReq`.

### Discovery

The delays of the providers, the usability of their answers, and the caller's
deadline are chosen in the initial state. `lag` is the sum of the times by which
the task was resumed late; with a large lag the share of the next provider may be rounded to
zero while time is left, and the call ends (`OutOfTime`). What makes an answer usable (`query_provider`) is the
flag `good`; `PublicIp` puts an actual answer in its place.

### PublicIp

An address is its first three octets or segments, which is all the rules look at. An
answer is its status, its length, the number of bytes that have arrived with each chunk, and
its lines; a line is what it says about an address. `QueryProvider` is the code; `Deserves` is the reference it is
compared with, with the special ranges written as prefixes as in the registries.

### Lookup

`goal` is the request: `verify_token`, a zone by a configured identifier, a zone by
name, or a record. `pc` is `ask` (a request is about to be sent), `read` (headers are
there, the body is coming) or `done`. `listing` is what the server's filter selects, in
its order; `reports` is how it counts pages: rightly, not at all, or always one more.
`RemoveEntry` and `AddEntry` change the listing between requests. `Recheck` is the second lookup of
`plan_record`. `Verdict` says what a look at the whole listing would give; `Sync` and
`Check` take a lookup as one step with that result. A Retry-After is a number; an absent
delay and a delay of zero are the same (`retry_delay` treats them alike).

### Config and Startup

Texts are short sequences over an alphabet with one character of each class the code
tells apart. The hash of a lock is taken to be injective (`LockKey`); that two records may
have the same hash is part of `RuntimeLock`. What the properties compare the code with are the
labels of a text as it was written (`Starts`, `SameLabel`): what dots and white space leave
of it, the case ignored. `SameName` is that two texts have the same labels one after the
other, `LiesIn` that the labels of a zone are the last ones of a name; neither uses the
canonical form. `stage` is the next call of the start. `path`
is the file the path names, `fd` the one that was opened, `content` who wrote it last and
how long it is, `read` what the process got. `Replace` makes the path name another file,
`Write` is done by whoever may write the open file; `Writers` and `Readers` are the
kernel's rules, with the group bits as the mask when there is an access list. Open and
fstat are one step: the file can only be written before fstat (which is the same as another
content) or after it. `given` keeps the configuration as it was written so that the properties can
compare it with what was made of it.

### Check

Every read takes any time up to the deadline, every write any time up to the
request timeout: only the guard `EnoughTime` keeps a write from running past the
deadline. Counts in the report are sets of records. Whether a failure also ends
the loop (rejected token, rate limit) is left open.

### Retry

A cycle is a sequence of failing requests, each with a kind and perhaps a
Retry-After (already clamped), then its end. `hold` is how long the server still
wants to be left alone; time passes inside cycles (`Elapse`) and in the sleep.

### Installer

`todo` is the sequence of steps the script has still to take: `Program` gives those
of each action in `main`, `Rollback` those of the EXIT trap. An action executes the
step at the head of `todo`. `sh` holds the script's variables under names close to
theirs (`active` is `TRANSACTION_ACTIVE`, `preserve` is `PRESERVE_ROLLBACK`). A file is
a number: its release for the binary, the run that wrote it for the others, and
`None`. `rdir` is the snapshot in `ROLLBACK_DIR`, `kept` the snapshots that earlier
runs left, `trees` the source trees moved aside, each with the suffix of its path, the run
that named it (the code uses `BASHPID`) and its release: a run removes only trees it named. `running` is the set of files the
service was started with; `loaded` is the unit as systemd last read it. `Fails` is a
failing command or a signal and runs the trap; `Kill` runs nothing. Each step of the
rollback may fail on its own (`RollbackStepFails`, `RestoreSourceFails`), which marks the
rollback as failed, with one exception that is in the code: `restore_snapshot` removes a file that
the snapshot does not have by `rm -f` and returns 0 whatever came of it. `RemovalFails` is
that `rm` failing: the file stays, and `sh.failed` is not set. `stuck` is the history of
such files, until they are deleted by an uninstallation or committed by a later run; the
properties need it to say what they except. `Checkable` is what
`validate_configuration` needs to find; `Rejected` is its refusal, or that of
`service_remains_healthy`, where no command has failed. Files are replaced by `mv` and restored through a
temporary file, so a step replaces a file or does not. Snapshots are taken, and files,
directories and accounts deleted by uninstallation, in one step each: what is in
between is not distinguished by the properties.

## Runs

| Run | Question | Result |
| --- | --- | --- |
| `lock_safety` | do guards exclude each other, are refusals never circular, is `Ownership` implemented, does someone always get through | holds |
| `lock_overlap` | does the lock reject *any* overlapping updater, as `README.md` says | violated |
| `sync` | is a reported success true, can a duplicate be created, do mutations respect deadline and shutdown; does every repairable record converge beside a hanging record and a dead family, does writing stop, does a shutdown end the process | holds |
| `discovery` | does discovery end in time, can slow providers starve a fast one, when does it give up early, are exactly the public addresses accepted | holds |
| `check` | does the check end by its deadline and is its report true | holds |
| `check_one_probe` | is one record per zone probed, as the documentation says | violated |
| `installer` | is the old installation restored or the new one complete, whatever fails; is the old one ever lost; is a mixture ever started; does the group outlive the files that are its; is a release ever replaced by an older one; does the service come back after a failure | holds |
| `installer_downgrade` | is a downgrade impossible even when forced, as `docs/VERSIONING.md` says | violated |
| `installer_rollback` | are the new configuration and token gone after a rollback without a failure, as `README.md` says | violated |
| `retry` | is every delay long enough and short enough | holds |
| `lookup` | does a lookup say what the whole listing says, does the second lookup make up for a shifted page, is a failure classified by what the server said, does every lookup end | holds |
| `startup` | are only trusted and whole files used, is the token confined, is what was accepted usable but for a token of the wrong kind, has each record one lock | holds |

Bounds.
* `lock_*`: three processes with configurations that overlap pairwise, one hash
  collision, two faults. Circular refusal needs two processes with two files; three
  show that a third does not close a longer circle. In `lock_safety` one process runs
  under another account.
* `sync`: two records in one zone. The lookups of the first, an AAAA record with a
  configured zone identifier, may hang in every cycle and its family may have no address
  in every cycle, at no cost; the second, an A record, is found by the zone's name and may
  be created. So the zone is cached under two keys. Besides that there are two addresses, at
  most `MaxFaults` failing requests, early deadlines and crashes, and `MaxChanges`
  changes by others, each at any time: one fault and one change let a creation be lost and
  carried out late, a zone move while it is cached, or an entry be deleted between the
  two lookups. Several of them, and more records, are left to the proofs, which
  cover every safety property of the run for any bounds; the rotation of the start record
  and the isolation of the second record need no more than two records.
* `discovery`: three providers, a timeout of four, so that the shares are not equal, delays
  beyond a share, caller deadlines on both sides of the timeout. A lag of two, after the
  first provider has used its share, leaves one unit of time for two providers, which is a
  share of zero with time left. The proofs cover any number of providers; the run adds
  the answers. One answer of a call is looked into: the first and last address of every
  special range with their neighbours, every text of up to three lines, and sizes on both
  sides of the limit.
* `lookup`: two pages of two entries, a listing of up to four, so that a lookup may end
  before, at and behind the limit; one change by others at any time; one answer for each
  status the client tells apart. The chunk that passes the limit is one unit long.
* `startup`: every set of read and write bits, owners and groups that are the process's
  or not, one replacement, lengths on both sides of the limit; a good configuration, those that
  differ from it in one setting, all names of up to four characters, and all pairs
  of 42 spellings of a record.
* `check`: three records, two of which name one zone in different ways; six units
  of time allow two full writes and no third.
* `installer`: two runs, so that the second finds what a kill left, and two
  faults, so that a rollback may fail or be killed; two releases; a custom configuration
  path, which needs the drop-in. `installer_downgrade` needs three runs and uses the
  default path. `installer_rollback` needs one run on an empty host and two faults, the one
  that causes the rollback and the `rm` that fails in it.
* `retry`: counter and shift saturate well inside the longest streak that is counted.

Deadlock is checked for the lock and for Sync, which never stop; the other modules
describe a call, or a process, that ends. Type invariants are checked where they bound
something (memory and pages in `Lookup`) or are proved.

Fairness. `FairSpec` of `Sync` is weak fairness on `Progress`: timers fire,
requests are answered or time out (every request has a timeout), the task is
scheduled. Nothing forces the process to be started, a signal to arrive, a fault
or a change to happen; faults and changes are bounded, so they end. `FairSpec` of
`RuntimeLock` is weak fairness on the steps of each process that never wait
(`try_lock_exclusive` does not block, a drop runs to its end). `FairSpec` of `Installer`
is weak fairness on the script's steps: its waits are bounded loops and timeouts.
`FairSpec` of `Lookup` is weak fairness on the client: a request is answered or times
out, and a chunk that arrives is read; nothing makes a body or a listing end.

### What the four violations show

* `lock_overlap`: the lock directory is chosen once, when the process starts, and is
  `/var/lib/cirrusync` or a directory below `/tmp` named after the account.
  A process that started before the state directory was created and one that
  starts afterwards lock different files and run together. The same holds for two
  accounts on a host without an installation. `README.md` 455-456 states the
  exclusion without this condition. `GuardsExclude` states what does hold.
* `check_one_probe`: after a failed probe the zone still needs a proof, so the next
  record of the zone is probed too. `ProofsNotRepeated` states what does hold.
* `installer_rollback`: a first installation fails and the `rm -f` of the rollback fails for
  the token or the configuration (`cirrusync-install.sh` 220-223). `restore_snapshot` returns 0,
  so the snapshot is deleted, `rmdir --ignore-fail-on-non-empty` keeps the directory
  without a word, the new group is removed, and "Rollback completed" is logged. `README.md` 230-231
  says that the two files are removed during rollback. `RollbackRestores`,
  `Recoverable` and `GroupOutlivesSecrets` state what does hold: such files, and the directory they
  are in, are all that is left, and nothing that was there before is missing or changed.
* `installer_downgrade`: an upgrade is killed after the new binary was moved in, the unit
  is reinstalled (which commits new binary and old source together), and then the
  binary does not tell its version. `--upgrade --force-reinstall` falls back to the
  source's version and installs it. `DowngradesOnlyBlindly` states what does hold: a run
  compares the candidate with the binary and the source it finds. When killed or failing runs
  have left neither in place, only their snapshot, there is nothing to compare with.

### Observations

* A creation that timed out at the client but is carried out later adds a second
  entry, since the next cycle may find nothing and create again. `NoDuplicates`
  counts such entries with the foreign ones. The next lookups report
  `AmbiguousRecord` until someone removes one.
* The deadline of a cycle is the interval (at least 60 s) and a request timeout may
  be 120 s: discovery can be cut off by the cycle before a good provider is
  asked. `Timely` says this happens only when the deadline is the shorter one.
* A signal that hits `promote_source` between moving the first source tree in and noting
  it leaves that tree behind after a rollback that reports success. `RollbackRestores`
  excepts this window.
* A rollback that could not remove a new configuration or token still removes the new
  group; `GroupOutlivesSecrets` excepts that very file, and a rollback that failed.
* Nothing before the construction of the client looks at token and account id together:
  a configuration without an account id and an account token are each accepted, and refused
  together (`AccountIdRequired`). `AcceptedMeansUsable` says that this pairing is the
  only such refusal (`OnlyMismatchRefused`); the installer meets it in `check`, before the
  service is started.
* The models say nothing about a host that reboots in the middle of a transaction: an
  enabled service would start from whatever files are there.
* Two changes during the two lookups of a missing record can hide it from both, one page
  shift each; it is then created next to itself. `RecheckCatchesShift` is about one change.
* An answer whose body is too long is a transient failure whatever its status: a 401 or 429
  with such a body does not break the cycle off, and its Retry-After is lost.
  `FailureFollowsAnswer` is about bodies within the limit.
* `README.md` 357 says that duplicate type/name definitions are rejected. The key of the
  code includes the zone: one name under a zone and under its parent zone is accepted twice,
  with two locks. These are records in different zones, so `OneLockPerResource` agrees.
* Making a name canonical is not idempotent (`"a. ."` becomes `"a. "`); validation
  compares a name with its canonical form and rejects such a name.
* A restart forgets a Retry-After: `Retry` is about one run of the process.

## Proofs

All proofs are checked by TLAPS for arbitrary constants that satisfy the named
assumptions of the module they are about and of those it extends (`ConfigAssumption`,
`DiscoveryAssumption`, `PublicIpAssumption`, `RetryAssumption`, `AnswerAssumption`, `LookupAssumption`,
`StartupAssumption`, `SyncAssumption`, `CheckAssumption`, `InstallerAssumption`). They give
the constants their types, and the code's own order of its limits: in `RetryAssumption` the
failure counter reaches beyond the largest exponent (2^32 - 1 and 31 in the code), and the
streak is counted as far; in `AnswerAssumption` the cap of Retry-After is positive (an hour).
`StartupAssumption` gives the configurations the type that deserialization gives them
(`RawConfig`), with texts of any length and any number of records and providers.

* `RuntimeLockProofs`. `GuardsExclude` is not inductive: it speaks of complete
  guards and must be carried through partial acquisitions. `IInv` adds `OneHolder`
  (a file has at most one holder, in every stage) and `Ascending` (what is held lies
  below what is still to be locked and below the hash of a refusal).
  `NoCircularRefusalAlways` follows from `Ascending`: in a circle take the process
  that was refused at the largest hash (`FiniteMax`); whoever refused it holds that
  hash, so was itself refused at a larger one. `LockImplementsOwnership` shows that
  each step is a `Take`, a `Release` or a stutter of `Ownership`.
* `DiscoveryProofs`. `IInv` adds `SharesLeft`: what remains of the timeout covers an
  equal share for each provider left, but for the scheduling delays; a share of zero is
  therefore a lag of a whole share. The arithmetic
  is in `TakePart`: taking the rounded-down k-th part of the rest leaves k - 1 shares.
  `PublicExactly` is about `is_public_address` and every address, where the run looks at the
  edges of the ranges: each prefix of the registries is turned into inequalities
  (`PrefixParts`, `V4Ranges`, `V6Ranges`), which are then compared with the rules of the code.
  `AnswersExactly` goes on from there to every answer, with any chunks and any lines:
  a body within the limit at its end was within it all along, since the number of bytes that
  have arrived only grows, and `ParseExactly` is about the choice of the line.
  `AlwaysAcceptsExactlyPublic` follows with the invariant `Judged` (what was noted of the last
  answer is what `query_provider` makes of it). `ProvidersImplementDiscovery` carries the
  theorems about `Discovery` over to the specification with answers.
* `RetryProofs`. `RetryAfterHonoured` speaks of the sleep; `IInv` carries the server's
  wish from the failing request through the report (`Noted`) into the sleep
  (`Covered`). `BackoffBounded` and `DelayBounded` are the facts on the delays.
  `BackoffAlwaysFollows` adds `Together` (counter and true length of the outage agree, or
  both are past the largest exponent) and `Backed` (the sleep is the backoff of the counter):
  both lengths then give the same exponent, so nothing about powers is needed.
* `SyncProofs`. `SuccessMeansSynced` speaks of the end of a cycle. `SyncedSoFar` carries it
  through the cycle: the records already handled, counted from the rotating start, are in
  sync, as long as nobody interfered (`calm`). `Unharmed` does it through a mutation:
  what the lookup found is still there when the request is processed, and what was applied
  when the answer comes. `NoDuplicates` needs `Single`: a creation in flight has found nothing
  but what others added since. `Shape` says which request may be in flight where; from it
  `MutationsAlwaysBounded` follows step by step. That the rotation meets every record
  is `EveryRecordHasATurn`.
* `CheckProofs`. `Budget`: a write that is about to be sent has the whole request timeout
  left (which gives `InTime`). `Honest`: every proof is of a zone that can be edited.
  `Covered`: without a failure each record before the current one is accounted for.
  `Remembered`: what has proved a permission is among the proofs, and probes go up the list;
  only with it is `ProofsNotRepeated` preserved.
* `InstallerProofs`. None of the properties is inductive, since each step relies on what the
  steps before it have done. `Control` says that what is left to do is the end of
  a program (each step is followed by one that `Order` allows), so that the other parts can
  be stated by where the script is (`Now`). `Service` and `Proven`: where no service runs,
  where systemd has loaded the units in place, where the files have passed the check.
  `FilesBack` and `NewRemoved`: what a rollback without a failure has restored and removed up
  to here, each new file either gone or in `stuck` (`Restored`, `SecretStuck`). `Snapshotted`:
  while files may change, the snapshot holds the files the run found, and the committed ones,
  but for `stuck` files beside them, are there or in an older snapshot (`Copies`). `Entire`: a
  set that ran or passed the check lacks no file, so the snapshot of a service that was
  active lacks none, and a failing `rm` does not reach what is started again. `SourceKept`
  is the same as `Snapshotted` for the source; it needs `OldTrees`, since the rollback
  removes trees that it moved aside itself and must not touch those of earlier runs. `Owned`:
  directories and group exist before the files in them, except for files in `stuck` (`GroupOwns`).
  `Floors`: the candidate against what the run found, and that against the
  committed installation. Each part has one lemma for all steps; the lemmas `Places...` say
  where each action is possible and `Advance` what comes next.
* `LookupProofs`. `LookupTruthful` speaks of a lookup that is over; `IInv` says what it
  knows on the way. `Scanned`: the match and the inactive zone kept so far are those of
  the pages read (`Seen`), and the server had a reason to announce each further page.
  `Fresh`: an answer that is being read is an error or holds the entries of its page of
  the listing as it still is (`Genuine`). `Distinct`: no two entries have one identifier,
  so that a match seen twice is two matches. The arithmetic of pages is in
  `NextPageBegins` and `TimesMonotone`, that of changed listings in `WithoutElement` and
  `WithElement`. A listing that changes during a lookup is outside `LookupTruthful`; what the
  second lookup makes up for is `RecheckCatchesShift`. Its invariant is `Overseen`: what was
  there all along is still among the matches, and if every change so far was made during
  the second lookup there is nothing of the kind, since the first lookup was undisturbed and
  truthful. With one change one of the two lookups is undisturbed. `FailureFollowsAnswer`
  needs `Fresh`: `SendFollows` is about the errors among the answers, `ResultFollows` about what
  the handlers find wrong in a result.
* `StartupProofs`. The properties speak of what has been read, the checks of a file that
  was opened before. `IInv` carries the one to the other: what the checks found is a fact
  of the open file (`ConfigSafe`, `TokenSafe`), which no replacement of the path changes,
  and whoever wrote it last is one of those it lets write. `ConfigWriters`, `TokenWriters`
  and `TokenReaders` say who that can be; `TakeWhole` that `take(limit + 1)` within the
  limit is the whole file. `NothingRefusedAlways` and the part of `AcceptedAlwaysUsable` about
  the constructors need the invariant `Ready`: from `Parse` to `Build` the configuration kept is
  valid, and the token kept can be sent in a header. What is left for a constructor to refuse
  is then the pairing of token and account id (`TargetFits`, `ReadyFits`).
  `OneLockAlways`, and the part of `AcceptedAlwaysUsable` about the records, need of the steps only
  that what is kept as written was accepted (`GivenAlwaysAccepted`). The rest is about texts. `Cut`: a canonical
  form stands in the text it was made from, and nothing solid, neither dot nor white
  space, stands outside of it. `Core`: if the form is a valid name, only single dots separate
  the solid parts (`DotsBetween`, `CoreOf`). If two such texts have the same labels
  (`Spelling`), the first label of the one goes to the first label of the other
  (`FirstLabel`) and each further one as far as the one before (`NextLabel`), so that all are moved by one
  distance (`Aligned`) and the canonical forms are equal (`SameNameSameCanonical`). The other
  direction, and `LiesIn` from `ends_with`, is `ShiftAlike`: where the characters agree, so
  do the labels. With the keys of `validate` (`AcceptedKeys`) that gives `AcceptedLocks`.
  The providers are counted in `ValidProviders`. These arguments are inductions along a text;
  they are written with a least counterexample, which exists because strict inclusion of the
  subsets of a finite set is well-founded (`HasLeast`).

Only model-checked are the liveness properties (`SomeoneGetsThrough`, `Converges`,
`Quiesces`, `StopHonoured`, `ServiceReturns`, `LookupEnds`), since liveness under fairness is
outside this prover. Every other property that a passing run checks is also proved.

## Not modelled

* TOML, the parsing of arguments, the log filter, logging, the printing of reports, the
  wording and sanitising of messages, the erasure of secrets in memory, HTTP and TLS:
  formatting and libraries, without state the properties speak of.
* The checks that protect the lock files against links and foreign owners are one
  failing action.
* Of the installer: dependencies, toolchain, cloning and building, which come before the
  transaction and touch no managed file; the build account; owners, modes and access
  lists; the DNS writes of the `check` that validates an installation, which a rollback
  does not undo.
* The service unit, which is declarative: its restarts appear as `Start` in `Sync` and `Build`
  in `RuntimeLock`, its start limit as `ServiceDies` in `Installer`.
* `scripts/versioning.py`, release tooling that runs in continuous integration.

## Plan

1. Done: lock, cycle and daemon, discovery with its answers, check, retry delays,
   installer, lookups page by page, configuration and start.
2. Done: proofs of every safety property that the passing runs check.
3. Installer: an abstract specification "old installation or new installation" that
   `Installer` implements.
4. Fleet: `RuntimeLock` and `Sync` composed, so that duplicates and exclusion are
   stated for several processes.
5. Order of release versions compared with a reference.
