------------------------------- MODULE Startup -------------------------------
(***************************************************************************)
(* From the command line to a running command: main, execute and            *)
(* build_updater of src/main.rs, Config::load and load_api_token with the   *)
(* file checks of src/config.rs, and the constructors they call.            *)
(*                                                                          *)
(* The file system goes on around the process: the path may be made to name *)
(* another file between any two calls, and whoever may write the file that  *)
(* was opened may do so at any time.  Opening a file and the fstat that     *)
(* follows are one step: what the file holds is not fixed before.           *)
(***************************************************************************)
EXTENDS Config

CONSTANTS
  Modes,        \* permission bits a file may have
  Configs,      \* configurations a file may hold, as deserialized
  Texts,        \* texts a token may have
  MaxBytes,     \* MAX_CONFIG_BYTES and MAX_TOKEN_BYTES
  MaxSwaps      \* bound: how often a path is made to name another file

ASSUME StartupAssumption ==
  /\ {MaxBytes, MaxSwaps} \subseteq Nat
  /\ Modes \subseteq SUBSET ({"u", "g", "o"} \X {"r", "w", "x"})
  /\ Configs \subseteq RawConfig

VARIABLES
  user,         \* the effective user, and the name of its effective group
  stage,        \* what the process does next
  path,         \* the file the path of the stage names
  fd,           \* the file that is open
  content,      \* what that file holds: who wrote it last, and its length
  fstat,        \* its length when it was opened
  read,         \* what was taken from it: the writer, the length, the bytes wanted
  given,        \* the configuration that was parsed, as it was written
  config,       \* what is kept of it
  token,        \* the token
  result,       \* none, ok, or the error main reports
  swaps

vars == <<user, stage, path, fd, content, fstat, read, given, config, token, result, swaps>>

-----------------------------------------------------------------------------
\* Files

User == {"root", "service", "peer", "other"}
Member(group) == CASE group = "root"    -> {"root"}
                   [] group = "service" -> {"service", "peer"}
                   [] group = "users"   -> {"other"}

File(id, kind, owner, group, acl, mode) ==
  [id |-> id, kind |-> kind, owner |-> owner, group |-> group, acl |-> acl, mode |-> mode]
NoFile == File(0, "none", "root", "root", FALSE, {})
OwnerOnly == {<<"u", "r">>, <<"u", "w">>}
Public == OwnerOnly \cup {<<"g", "r">>, <<"o", "r">>}

\* The lengths that the limit tells apart.
Lengths == {MaxBytes, MaxBytes + 1}

\* The files a path may name when it is first looked at, and afterwards.
Files == {NoFile} \cup {File(0, kind, "root", "root", FALSE, Public) : kind \in {"link", "fifo"}}
  \cup {File(0, "file", owner, group, acl, mode) :
          owner \in {"root", "service", "other"}, group \in {user, "users"},
          acl \in BOOLEAN, mode \in Modes}
Replacements(id) == {[NoFile EXCEPT !.id = id], File(id, "link", "other", "users", FALSE, OwnerOnly),
                     File(id, "fifo", "other", "users", FALSE, Public),
                     File(id, "file", "other", "users", FALSE, OwnerOnly),
                     File(id, "file", "root", "service", FALSE, OwnerOnly)}

\* Access under POSIX.1e: with an access ACL, which here names "other", the
\* group bits are the mask of what it grants.  The owner can change the bits.
Class(u, f) == IF u = f.owner THEN "u"
               ELSE IF u \in Member(f.group) \/ (f.acl /\ u = "other") THEN "g" ELSE "o"
May(u, f, bit) == u = "root" \/ <<Class(u, f), bit>> \in f.mode
Writers(f) == {u \in User : u = f.owner \/ May(u, f, "w")}
Readers(f) == {u \in User : u = f.owner \/ May(u, f, "r")}

-----------------------------------------------------------------------------
\* The steps of the process

NoContent == [writer |-> "root", size |-> 0]
NoRead == [writer |-> "root", size |-> 0, wanted |-> 0]
NoConfig == [account |-> {}, timeout |-> 0, valid |-> TRUE]

Init ==
  /\ user \in {"root", "service"}
  /\ stage = "main"
  /\ path = NoFile /\ fd = NoFile /\ content = NoContent /\ fstat = 0 /\ read = NoRead
  /\ given = {} /\ config = NoConfig /\ token = <<>>
  /\ result = "none" /\ swaps = 0

\* The process ends with an error, or without one.
Exit(outcome) ==
  /\ stage' = "exit" /\ result' = outcome
  /\ path' = NoFile /\ fd' = NoFile /\ content' = NoContent /\ fstat' = 0 /\ read' = NoRead
  /\ given' = {} /\ config' = NoConfig /\ token' = <<>> /\ swaps' = 0
  /\ UNCHANGED user

\* main and the head of execute: logging, then print-config or build_updater,
\* which starts with the path of the configuration.
Main ==
  /\ stage = "main"
  /\ \/ Exit("Logging")
     \/ \E outcome \in {"ok", "Output"} : Exit(outcome)
     \/ /\ stage' = "open_config" /\ path' \in Files
        /\ UNCHANGED <<user, fd, content, fstat, read, given, config, token, result, swaps>>

\* Whether open(2) with O_NOFOLLOW and O_NONBLOCK gives a descriptor.
Opens(f) == May(user, f, "r") /\ f.kind \in {"file", "fifo"}

\* An open of the path: it fails, meets a link, or gives a file to look at.
OpenFile(next, insecure) ==
  \/ /\ path.kind = "link" /\ Exit(insecure)
  \/ /\ path.kind \in {"none", "file"} \/ (path.kind = "fifo" /\ ~May(user, path, "r"))
     /\ Exit("Read")
  \/ /\ Opens(path)
     /\ stage' = next /\ fd' = path
     /\ \E writer \in Writers(path), size \in Lengths :
          content' = [writer |-> writer, size |-> size] /\ fstat' = size
     /\ UNCHANGED <<user, path, read, given, config, token, result, swaps>>

\* The file opened is regular, and still the one that the path names.
SameFile == fd.kind = "file" /\ path.kind \notin {"none", "link"} /\ path.id = fd.id

\* Mutant of ConfigFileTrusted: only the owner's bits are looked at.
OwnerConfigFileTrusted == SameFile /\ fd.owner \in {"root", user}

\* The checks of open_config_file.
ConfigFileTrusted ==
  /\ SameFile
  /\ {<<"g", "w">>, <<"o", "w">>} \cap fd.mode = {}
  /\ fd.owner \in {"root", user}

\* Mutant of TokenFileTrusted: the access ACL is not asked for.
AclBlindTokenFileTrusted ==
  /\ SameFile
  /\ fd.mode \subseteq {<<"u", "r">>, <<"u", "w">>, <<"g", "r">>} /\ <<"u", "r">> \in fd.mode
  /\ fd.owner = "root"
  /\ <<"g", "r">> \in fd.mode => fd.group = user

\* validate_opened_token_path, validate_token_metadata, reject_token_access_acl.
TokenFileTrusted ==
  /\ SameFile
  /\ fd.mode \subseteq {<<"u", "r">>, <<"u", "w">>, <<"g", "r">>} /\ <<"u", "r">> \in fd.mode
  /\ fd.owner = "root"
  /\ <<"g", "r">> \in fd.mode => fd.group = user
  /\ ~fd.acl

\* What the checks of an open file lead to; the length is the one fstat saw.
\* gone: the lstat that finds no file is reached.
CheckFile(gone, trusted, next, insecure, tooLarge) ==
  \/ gone /\ Exit("Read")
  \/ ~gone /\ ~trusted /\ Exit(insecure)
  \/ trusted /\ fstat > MaxBytes /\ Exit(tooLarge)
  \/ /\ trusted /\ fstat <= MaxBytes
     /\ stage' = next /\ path' = NoFile
     /\ UNCHANGED <<user, fd, content, fstat, read, given, config, token, result, swaps>>

\* Mutant of Take: the byte that shows the excess is not asked for.
ExactTake == MaxBytes

\* The limit of File::take.
Take == MaxBytes + 1

\* read_to_string through take: at most one byte more than is allowed.  Of the
\* file, what is looked at later is left.
ReadFile(next, left, tooLarge) ==
  LET size == Min({content.size, Take})
  IN \/ size > MaxBytes /\ Exit(tooLarge)
     \/ /\ size <= MaxBytes
        /\ read' = [writer |-> content.writer, size |-> size, wanted |-> content.size]
        /\ stage' = next /\ fd' = left /\ content' = NoContent /\ fstat' = 0 /\ swaps' = 0
        /\ UNCHANGED <<user, path, given, config, token, result>>

\* Config::load
OpenConfig == stage = "open_config" /\ OpenFile("check_config", "InsecureConfigFile")
CheckConfig ==
  /\ stage = "check_config"
  /\ CheckFile(path.kind = "none" /\ fd.kind = "file", ConfigFileTrusted, "read_config",
               "InsecureConfigFile", "ConfigTooLarge")
ReadConfig == stage = "read_config" /\ ReadFile("parse", NoFile, "ConfigTooLarge")

\* Config::parse: the configurations it accepts.
Accepted == {raw \in Configs : Validate(Canonicalize(raw))}

\* Config::parse.  Of an accepted configuration the later steps look at the
\* account, the timeout and, in Updater::new, at its validity once more.
Parse ==
  /\ stage = "parse"
  /\ \/ Exit("Parse")
     \/ Configs \ Accepted # {} /\ Exit("Validation")
     \/ \E raw \in Accepted :
          LET canonical == Canonicalize(raw)
          IN /\ given' = {raw}
             /\ config' = [account |-> canonical.account, timeout |-> canonical.timeout,
                           valid |-> Validate(canonical)]
             /\ stage' = "loaded" /\ read' = NoRead
             /\ UNCHANGED <<user, path, fd, content, fstat, token, result, swaps>>

\* build_updater reports the configuration and goes on with what it needs.
Loaded ==
  /\ stage = "loaded"
  /\ stage' = "token" /\ given' = {}
  /\ UNCHANGED <<user, path, fd, content, fstat, read, config, token, result, swaps>>

\* A token text is accepted, or ends the start.
Accept(text) ==
  LET secret == SecretFromText(text)
  IN \/ secret.error # "none" /\ Exit(secret.error)
     \/ /\ secret.error = "none"
        /\ token' = secret.token /\ stage' = "build"
        /\ fd' = NoFile /\ read' = NoRead
        /\ UNCHANGED <<user, path, content, fstat, given, config, result, swaps>>

\* load_api_token: from the environment, or from the path in the configuration.
LoadApiToken ==
  /\ stage = "token"
  /\ \/ \E error \in {"NonUnicodeEnvironmentToken", "TokenValueTooLarge"} : Exit(error)
     \/ \E text \in Texts : Accept(text)
     \/ /\ stage' = "open_token" /\ path' \in Files
        /\ UNCHANGED <<user, fd, content, fstat, read, given, config, token, result, swaps>>

\* load_token_file
OpenToken == stage = "open_token" /\ OpenFile("check_token", "InsecureTokenFile")
CheckToken ==
  /\ stage = "check_token"
  /\ CheckFile(path.kind = "none", TokenFileTrusted, "read_token",
               "InsecureTokenFile", "TokenTooLarge")
ReadToken == stage = "read_token" /\ ReadFile("secret", fd, "TokenTooLarge")
Secret == stage = "secret" /\ \E text \in Texts : Accept(text)

\* An open, a stat or a read fails.
IoFails ==
  /\ stage \in {"check_config", "read_config", "check_token", "read_token"}
  /\ Exit("Read")

\* What the constructors may return, each after the one before it.
WithApiBase ==
  LET target == SelectVerificationTarget(token, config.account)
  IN IF config.timeout = 0 THEN {"InvalidTimeout"}
     ELSE IF target \notin {"User", "Account"} THEN {target}
     ELSE IF "ctl" \in ToSet(token) THEN {"InvalidHeader"}
     ELSE {"none", "ClientBuild"}
NewPublicIpClient == IF config.timeout = 0 THEN {"InvalidTimeout"} ELSE {"none", "ClientBuild"}
NewUpdater == IF config.valid THEN {"none"} ELSE {"Revalidation"}

\* The rest of build_updater: the first error, or a command that can run.
Build ==
  /\ stage = "build"
  /\ \E client \in WithApiBase, publicIp \in NewPublicIpClient, updater \in NewUpdater :
       LET error == IF client # "none" THEN client
                    ELSE IF publicIp # "none" THEN publicIp ELSE updater
       IN IF error # "none" THEN Exit(error)
          ELSE /\ stage' = "command"
               /\ UNCHANGED <<user, path, fd, content, fstat, read, given, config, token, result, swaps>>

\* The end of execute: what the daemon, a cycle or a check comes to is the
\* subject of Retry, Sync and Check.
RunCommand ==
  /\ stage = "command"
  /\ \E outcome \in {"ok", "Daemon", "Synchronization", "Check"} : Exit(outcome)

-----------------------------------------------------------------------------
\* The surroundings

\* The path is made to name another file, or none, once it has been opened.
\* (Before, it may name any file.)
Replace ==
  /\ stage \in {"check_config", "check_token"}
  /\ swaps < MaxSwaps
  /\ swaps' = swaps + 1
  /\ path' \in Replacements(swaps + 1)
  /\ UNCHANGED <<user, stage, fd, content, fstat, read, given, config, token, result>>

\* Someone who may writes the file that is open.
Write ==
  /\ stage \in {"check_config", "read_config", "check_token", "read_token"}
  /\ \E writer \in Writers(fd), size \in Lengths :
       content' = [writer |-> writer, size |-> size]
  /\ UNCHANGED <<user, stage, path, fd, fstat, read, given, config, token, result, swaps>>

StartUp == Main \/ OpenConfig \/ CheckConfig \/ ReadConfig \/ Parse \/ Loaded \/ LoadApiToken
        \/ OpenToken \/ CheckToken \/ ReadToken \/ Secret \/ IoFails \/ Build
Next == StartUp \/ RunCommand \/ Replace \/ Write
Spec == Init /\ [][Next]_vars

-----------------------------------------------------------------------------
\* Properties

\* The configuration that is parsed was last written by root or by the user
\* the process runs as, and a token from a file by root, whatever the path was
\* made to name and whoever wrote meanwhile (open_config_file,
\* validate_token_metadata).
InputsTrusted ==
  /\ stage = "parse" => read.writer \in {"root", user}
  /\ stage = "secret" => read.writer = "root"

\* A token from a file could be read by root and the process's own group
\* alone, under the access rules of the kernel (validate_token_metadata and
\* reject_token_access_acl).
TokenConfined == stage = "secret" => Readers(fd) \subseteq {"root"} \cup Member(user)

\* What is parsed is the whole file, also when it has grown since its length
\* was looked at: never a part that happens to be within the limit
\* (Config::load, load_token_file).
WholeInput == stage \in {"parse", "secret"} => read.size = read.wanted

\* The labels of a text, whatever its spelling, are what dots and blanks leave of it.
\* A label is known by where it starts.
Solid(text, i) == i \in DOMAIN text /\ text[i] \notin {".", "blank"}
Starts(text) == {i \in DOMAIN text : Solid(text, i) /\ ~Solid(text, i - 1)}

\* The labels that start at i in s and at j in t are the same but for the case.
SameLabel(s, i, t, j) ==
  \E n \in DOMAIN s :
    /\ \A k \in 0..(n - 1) : /\ Solid(s, i + k) /\ Solid(t, j + k)
                             /\ Lower(s)[i + k] = Lower(t)[j + k]
    /\ ~Solid(s, i + n) /\ ~Solid(t, j + n)

\* The labels A of s are the labels B of t, one after the other.
SameLabels(s, A, t, B) ==
  \E f \in [A -> B] :
    /\ \A j \in B : \E i \in A : f[i] = j
    /\ \A i, k \in A : i < k <=> f[i] < f[k]
    /\ \A i \in A : SameLabel(s, i, t, f[i])

\* Two spellings of one name, of one record; a name whose last labels are its zone's.
SameName(s, t) == SameLabels(s, Starts(s), t, Starts(t))
SameResource(r, q) == r.type = q.type /\ SameName(r.zone, q.zone) /\ SameName(r.name, q.name)
LiesIn(name, zone) ==
  \E m \in Starts(name) : SameLabels(zone, Starts(zone), name, {i \in Starts(name) : i >= m})

\* No two records of an accepted configuration are one DNS record under two
\* spellings, and the lock of each is its own: it is taken exactly by those who
\* write to the same record (the keys of validate and of resource_lock_hash).
OneLockPerResource ==
  \A raw \in given :
    LET records == Canonicalize(raw).records
    IN \A i, j \in DOMAIN records :
         /\ i = j <=> SameResource(raw.records[i], raw.records[j])
         /\ i = j <=> LockKey(records[i]) = LockKey(records[j])

\* A record lies in its zone label by label, and its family has providers to ask.
Servable(record, discovery) ==
  LET family == IF record.type = "A" THEN "v4" ELSE "v6"
      providers == discovery[family].providers
  IN /\ LiesIn(record.name, record.zone)
     /\ discovery[family].enabled
     /\ Len(providers) \in 1..MaxProviders
     /\ Cardinality({provider.url : provider \in ToSet(providers)}) = Len(providers)

\* The start does not end in an account id, a timeout, a header value or a second
\* validation that fails.
NothingRefused ==
  result \notin {"InvalidAccountId", "InvalidTimeout", "InvalidHeader", "Revalidation"}

\* Which token goes with which account id (README.md 362-364): an account token needs
\* one, a user token has none, one without a known prefix may have one, and a global
\* API key or another kind of credential never fits.
Fits(secret, account) ==
  \/ secret[1] = "cfat_" /\ account # {}
  \/ secret[1] = "cfut_" /\ account = {}
  \/ secret[1] \notin {"cfat_", "cfut_", "cfk_", "cfother_"}

\* The pairing of the token with the account id, which nothing looks at before
\* CloudflareClient is built, is the only thing about accepted inputs that makes a
\* constructor refuse: AccountIdRequired, UserTokenAccountMismatch,
\* GlobalApiKeyUnsupported or UnsupportedCredentialType.  (An HTTP client that
\* cannot be built is no refusal of the inputs.)
OnlyMismatchRefused ==
  stage = "build" =>
    /\ "none" \in WithApiBase <=> Fits(token, config.account)
    /\ "none" \in NewPublicIpClient /\ "none" \in NewUpdater

\* What Config::parse and secret_from_text accept, everything after them can use,
\* except a token that does not go with the account id: the constructors refuse
\* that and nothing else (build_updater), and every record can be updated by a
\* cycle (validate, validate_record, validate_discovery).
AcceptedMeansUsable ==
  /\ NothingRefused
  /\ OnlyMismatchRefused
  /\ \A raw \in given : \A i \in DOMAIN raw.records : Servable(raw.records[i], raw.discovery)
=============================================================================
