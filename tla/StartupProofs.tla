--------------------------- MODULE StartupProofs ---------------------------
(***************************************************************************)
(* What Startup uses is trusted, confined and whole, for every set of modes *)
(* a file may have, every size limit and any number of replacements.  What  *)
(* it accepts is usable and has one lock per record, for every set of       *)
(* configurations, with names of any length in any spelling.                *)
(***************************************************************************)
EXTENDS Startup, FiniteSetTheorems, SequenceTheorems, TLAPS

\* Of the open file: its owner decides alone who writes it.
ConfigSafe(f) == {<<"g", "w">>, <<"o", "w">>} \cap f.mode = {} /\ f.owner \in {"root", user}

\* Of the open file: root decides alone who writes it, and who may read it.
TokenSafe(f) ==
  /\ f.owner = "root" /\ ~f.acl
  /\ f.mode \subseteq {<<"u", "r">>, <<"u", "w">>, <<"g", "r">>}
  /\ <<"g", "r">> \in f.mode => f.group = user

\* The file is open and not yet read.
Reading == {"check_config", "read_config", "check_token", "read_token"}

\* What the checks found out stays true of the open file, whatever is done to
\* the path, and so of what is read.
IInv ==
  /\ user \in {"root", "service"}
  /\ content.size \in Nat
  /\ stage \in Reading => content.writer \in Writers(fd)
  /\ stage = "read_config" => ConfigSafe(fd)
  /\ stage \in {"read_token", "secret"} => TokenSafe(fd)
  /\ InputsTrusted
  /\ WholeInput

\* The writers of a configuration file that passed the checks.
LEMMA ConfigWriters ==
  ASSUME NEW f, ConfigSafe(f)
  PROVE  Writers(f) \subseteq {"root", user}
  BY DEF ConfigSafe, Writers, May, Class

\* The writers of a token file that passed the checks.
LEMMA TokenWriters ==
  ASSUME NEW f, TokenSafe(f)
  PROVE  Writers(f) \subseteq {"root"}
  BY DEF TokenSafe, Writers, May, Class

\* The readers of a token file that passed the checks.
LEMMA TokenReaders ==
  ASSUME NEW f, TokenSafe(f), user \in {"root", "service"}
  PROVE  Readers(f) \subseteq {"root"} \cup Member(user)
  BY DEF TokenSafe, Readers, May, Class, Member

\* What take(limit + 1) returns is within the limit only if it is everything.
LEMMA TakeWhole ==
  ASSUME NEW n \in Nat, Min({n, Take}) <= MaxBytes
  PROVE  Min({n, Take}) = n
<1>1. MaxBytes \in Nat
  BY StartupAssumption
<1>2. Take \in Nat /\ Take > MaxBytes
  BY <1>1 DEF Take
<1>3. \E x \in {n, Take} : \A y \in {n, Take} : x <= y
  BY <1>2
<1>4. Min({n, Take}) \in {n, Take}
  BY <1>3 DEF Min
<1> QED
  BY <1>1, <1>2, <1>4

\* A process that has ended satisfies everything.
LEMMA ExitSafe ==
  ASSUME IInv, NEW outcome, Exit(outcome)
  PROVE  IInv'
  BY DEF IInv, Exit, NoContent, Reading, InputsTrusted, WholeInput

\* Opening a file: whoever wrote it last was allowed to.
LEMMA OpenFileSafe ==
  ASSUME IInv, NEW next \in {"check_config", "check_token"}, NEW insecure,
         OpenFile(next, insecure)
  PROVE  IInv'
<1>1. CASE Exit(insecure) \/ Exit("Read")
  BY <1>1, ExitSafe
<1>2. CASE /\ stage' = next /\ fd' = path
           /\ \E writer \in Writers(path), size \in Lengths :
                content' = [writer |-> writer, size |-> size] /\ fstat' = size
           /\ UNCHANGED <<user, path, read, given, config, token, result, swaps>>
  <2>1. Lengths \subseteq Nat
    BY StartupAssumption DEF Lengths
  <2>2. Writers(path) = Writers(fd)'
    BY <1>2 DEF Writers, May, Class
  <2> QED
    BY <1>2, <2>1, <2>2 DEF IInv, Reading, InputsTrusted, WholeInput
<1> QED
  BY <1>1, <1>2 DEF OpenFile

\* The checks lead on with the facts they found.
LEMMA CheckFileSafe ==
  ASSUME IInv, NEW gone, NEW trusted, NEW next \in {"read_config", "read_token"},
         NEW insecure, NEW tooLarge, stage \in {"check_config", "check_token"},
         trusted => IF next = "read_config" THEN ConfigSafe(fd) ELSE TokenSafe(fd),
         CheckFile(gone, trusted, next, insecure, tooLarge)
  PROVE  IInv'
<1>1. CASE Exit("Read") \/ Exit(insecure) \/ Exit(tooLarge)
  BY <1>1, ExitSafe
<1>2. CASE /\ trusted /\ fstat <= MaxBytes
           /\ stage' = next /\ path' = NoFile
           /\ UNCHANGED <<user, fd, content, fstat, read, given, config, token, result, swaps>>
  BY <1>2 DEF IInv, Reading, InputsTrusted, WholeInput, ConfigSafe, TokenSafe, Writers, May, Class
<1> QED
  BY <1>1, <1>2 DEF CheckFile

\* What is read is whole, and was written by one of the writers.
LEMMA ReadFileSafe ==
  ASSUME IInv, NEW next \in {"parse", "secret"}, NEW left, NEW tooLarge,
         IF next = "parse" THEN stage = "read_config" ELSE stage = "read_token" /\ left = fd,
         ReadFile(next, left, tooLarge)
  PROVE  IInv'
<1>1. CASE Exit(tooLarge)
  BY <1>1, ExitSafe
<1>2. CASE /\ Min({content.size, Take}) <= MaxBytes
           /\ read' = [writer |-> content.writer, size |-> Min({content.size, Take}),
                       wanted |-> content.size]
           /\ stage' = next /\ fd' = left /\ content' = NoContent /\ fstat' = 0 /\ swaps' = 0
           /\ UNCHANGED <<user, path, given, config, token, result>>
  <2>1. Min({content.size, Take}) = content.size
    BY <1>2, TakeWhole DEF IInv
  <2>2. next = "parse" => content.writer \in {"root", user}
    BY ConfigWriters DEF IInv, Reading
  <2>3. next = "secret" => content.writer = "root" /\ TokenSafe(left)
    BY TokenWriters DEF IInv, Reading
  <2>4. WholeInput'
    BY <1>2, <2>1 DEF WholeInput
  <2>5. InputsTrusted'
    BY <1>2, <2>2, <2>3 DEF InputsTrusted
  <2>6. content'.size \in Nat
    BY <1>2 DEF NoContent
  <2> QED
    BY <1>2, <2>3, <2>4, <2>5, <2>6 DEF IInv, Reading, TokenSafe
<1> QED
  BY <1>1, <1>2 DEF ReadFile

\* A token text leads on to the constructors, which read no file.
LEMMA AcceptSafe ==
  ASSUME IInv, NEW text, Accept(text)
  PROVE  IInv'
<1>1. CASE \E outcome : Exit(outcome)
  BY <1>1, ExitSafe
<1>2. CASE stage' = "build" /\ UNCHANGED <<user, content>>
  BY <1>2 DEF IInv, Reading, InputsTrusted, WholeInput
<1> QED
  BY <1>1, <1>2 DEF Accept

\* The start itself, step by step.
LEMMA StartUpSafe == IInv /\ StartUp => IInv'
<1> SUFFICES ASSUME IInv, StartUp PROVE IInv'
  OBVIOUS
<1> USE DEF IInv, Reading, InputsTrusted, WholeInput
<1>1. CASE Main
  <2>1. CASE stage' = "open_config" /\ UNCHANGED <<user, content>>
    BY <2>1
  <2> QED
    BY <1>1, <2>1, ExitSafe DEF Main
<1>2. CASE OpenConfig
  BY <1>2, OpenFileSafe DEF OpenConfig
<1>3. CASE CheckConfig
  <2>1. ConfigFileTrusted => ConfigSafe(fd)
    BY DEF ConfigFileTrusted, ConfigSafe
  <2> QED
    BY <1>3, <2>1, CheckFileSafe DEF CheckConfig
<1>4. CASE ReadConfig
  BY <1>4, ReadFileSafe DEF ReadConfig
<1>5. CASE Parse
  <2>1. CASE stage' = "loaded" /\ UNCHANGED <<user, content>>
    BY <2>1
  <2> QED
    BY <1>5, <2>1, ExitSafe DEF Parse
<1>6. CASE Loaded
  BY <1>6 DEF Loaded
<1>7. CASE LoadApiToken
  <2>1. CASE stage' = "open_token" /\ UNCHANGED <<user, content>>
    BY <2>1
  <2> QED
    BY <1>7, <2>1, ExitSafe, AcceptSafe DEF LoadApiToken
<1>8. CASE OpenToken
  BY <1>8, OpenFileSafe DEF OpenToken
<1>9. CASE CheckToken
  <2>1. TokenFileTrusted => TokenSafe(fd)
    BY DEF TokenFileTrusted, TokenSafe
  <2> QED
    BY <1>9, <2>1, CheckFileSafe DEF CheckToken
<1>10. CASE ReadToken
  BY <1>10, ReadFileSafe DEF ReadToken
<1>11. CASE Secret
  BY <1>11, AcceptSafe DEF Secret
<1>12. CASE IoFails
  BY <1>12, ExitSafe DEF IoFails
<1>13. CASE Build
  <2>1. CASE \E outcome : Exit(outcome)
    BY <2>1, ExitSafe
  <2>2. CASE stage' = "command" /\ UNCHANGED <<user, content>>
    BY <2>2
  <2> QED
    BY <1>13, <2>1, <2>2 DEF Build
<1> QED
  BY <1>1, <1>2, <1>3, <1>4, <1>5, <1>6, <1>7, <1>8, <1>9, <1>10, <1>11, <1>12, <1>13
  DEF StartUp

\* The surroundings: a replaced path does not touch the open file, and a write
\* is by someone who may write it.
LEMMA SurroundingsSafe == IInv /\ (Replace \/ Write) => IInv'
<1> SUFFICES ASSUME IInv PROVE Replace \/ Write => IInv'
  OBVIOUS
<1>1. ASSUME UNCHANGED <<user, fd>>
      PROVE  /\ Writers(fd)' = Writers(fd)
             /\ ConfigSafe(fd)' <=> ConfigSafe(fd)
             /\ TokenSafe(fd)' <=> TokenSafe(fd)
  BY <1>1 DEF Writers, May, Class, ConfigSafe, TokenSafe
<1>2. CASE Replace
  BY <1>1, <1>2 DEF Replace, IInv, Reading, InputsTrusted, WholeInput
<1>3. CASE Write
  <2>1. Lengths \subseteq Nat
    BY StartupAssumption DEF Lengths
  <2> QED
    BY <1>1, <1>3, <2>1 DEF Write, IInv, Reading, InputsTrusted, WholeInput
<1> QED
  BY <1>2, <1>3

\* The invariant holds in every state of a start.
LEMMA Inductive == Spec => []IInv
<1>1. Init => IInv
  BY DEF Init, IInv, NoContent, Reading, InputsTrusted, WholeInput
<1>2. IInv /\ [Next]_vars => IInv'
  <2> SUFFICES ASSUME IInv, [Next]_vars PROVE IInv'
    OBVIOUS
  <2>1. CASE StartUp
    BY <2>1, StartUpSafe
  <2>2. CASE RunCommand
    BY <2>2, ExitSafe DEF RunCommand
  <2>3. CASE Replace \/ Write
    BY <2>3, SurroundingsSafe
  <2>4. CASE UNCHANGED vars
    BY <2>4 DEF vars, IInv, Reading, InputsTrusted, WholeInput, ConfigSafe, TokenSafe,
                Writers, May, Class
  <2> QED
    BY <2>1, <2>2, <2>3, <2>4 DEF Next
<1> QED
  BY <1>1, <1>2, PTL DEF Spec

\* The configuration that is parsed was last written by root or by the user of
\* the process, a token by root, however often the path is made to name
\* another file and whoever writes between the calls of open_config_file,
\* load_token_file and their reads.
THEOREM InputsTrustedAlways == Spec => []InputsTrusted
<1>1. IInv => InputsTrusted
  BY DEF IInv
<1> QED
  BY <1>1, Inductive, PTL

\* A token from a file can only be read by root and the process's own group:
\* validate_token_metadata and reject_token_access_acl leave no mode through
\* that says otherwise.
THEOREM TokenConfinedAlways == Spec => []TokenConfined
<1>1. IInv => TokenConfined
  BY TokenReaders DEF IInv, TokenConfined
<1> QED
  BY <1>1, Inductive, PTL

\* What is parsed is the whole file, for every limit and however the file grows
\* between the fstat and the read of Config::load and load_token_file.
THEOREM WholeInputAlways == Spec => []WholeInput
<1>1. IInv => WholeInput
  BY DEF IInv
<1> QED
  BY <1>1, Inductive, PTL
-----------------------------------------------------------------------------
(* The constructors *)

\* From Config::parse to the constructors, what was accepted is what they need.
Accepting == {"loaded", "token", "open_token", "check_token", "read_token", "secret", "build"}
Ready ==
  /\ NothingRefused
  /\ stage \in Accepting => config.timeout # 0 /\ config.valid /\ ValidId(config.account)
  /\ stage = "build" => "ctl" \notin ToSet(token)

Refusals == {"InvalidAccountId", "InvalidTimeout", "InvalidHeader", "Revalidation"}

\* Making an identifier that is valid canonical does not change it.
LEMMA ValidIdsAreIds ==
  ASSUME NEW option, ValidId(option)
  PROVE  CanonicalId(option) = option /\ \A text \in CanonicalId(option) : IsId(text)
<1>1. ASSUME NEW text \in option PROVE text = Lower(Trim(text)) /\ IsId(text)
  BY DEF ValidId
<1>2. ASSUME NEW text \in option PROVE text # <<>>
  <2>1. Len(text) = IdLength /\ IdLength # 0
    BY <1>1, ConfigAssumption DEF IsId
  <2> QED
    BY <2>1
<1>3. CanonicalId(option) = option
  BY <1>1, <1>2, Zenon DEF CanonicalId
<1> QED
  BY <1>1, <1>3

\* An end with an error of another kind.
LEMMA ExitReady ==
  ASSUME NEW outcome, outcome \notin Refusals, Exit(outcome)
  PROVE  Ready'
  BY DEF Exit, Ready, Accepting, NothingRefused, Refusals

\* A step that leaves configuration and token alone.
LEMMA QuietReady ==
  ASSUME Ready, UNCHANGED <<config, token, result>>,
         stage' \in Accepting => stage \in Accepting, stage' # "build" \/ stage = "build"
  PROVE  Ready'
  BY DEF Ready, NothingRefused

\* An accepted token can be sent in a header.
LEMMA AcceptReady ==
  ASSUME Ready, stage \in Accepting, NEW text, Accept(text)
  PROVE  Ready'
<1> DEFINE secret == SecretFromText(text)
<1>1. \/ secret.error \in {"EmptyToken", "InvalidToken"}
      \/ secret.error = "none" /\ "ctl" \notin ToSet(secret.token)
  <2> DEFINE t == Trim(text)
             bad == ToSet(t) \cap {"blank", "ctl"} # {}
  <2>1. secret = CASE t = <<>> -> [error |-> "EmptyToken", token |-> <<>>]
                   [] bad -> [error |-> "InvalidToken", token |-> <<>>]
                   [] OTHER -> [error |-> "none", token |-> t]
    BY DEF SecretFromText
  <2>2. ~bad => "ctl" \notin ToSet(t)
    OBVIOUS
  <2> HIDE DEF secret, t, bad
  <2>3. CASE t = <<>> \/ bad
    <3>1. \/ secret = [error |-> "EmptyToken", token |-> <<>>]
          \/ secret = [error |-> "InvalidToken", token |-> <<>>]
      BY <2>1, <2>3
    <3> QED
      BY <3>1
  <2>4. CASE t # <<>> /\ ~bad
    <3>1. secret = [error |-> "none", token |-> t]
      BY <2>1, <2>4
    <3> QED
      BY <2>2, <2>4, <3>1
  <2> QED
    BY <2>3, <2>4
<1> HIDE DEF secret
<1>2. CASE secret.error # "none" /\ Exit(secret.error)
  <2>1. secret.error \in {"EmptyToken", "InvalidToken"}
    BY <1>1, <1>2
  <2> QED
    BY <1>2, <2>1, ExitReady DEF Refusals
<1>3. CASE /\ secret.error = "none"
           /\ token' = secret.token /\ stage' = "build"
           /\ UNCHANGED <<config, result>>
  <2>1. "ctl" \notin ToSet(token')
    BY <1>1, <1>3
  <2> QED
    BY <1>3, <2>1 DEF Ready, NothingRefused, Accepting
<1> QED
  BY <1>2, <1>3 DEF Accept, secret

\* What a valid configuration promises the constructors.
LEMMA ValidNeeds ==
  ASSUME NEW c, Validate(c)
  PROVE  c.timeout \in 1..120 /\ ValidId(c.account) /\ Validate(c) = TRUE
<1>1. c.timeout \in 1..120 /\ ValidId(c.account)
  BY DEF Validate
<1>2. Validate(c) \in BOOLEAN
  BY Zenon DEF Validate
<1> QED
  BY <1>1, <1>2, Zenon

\* Config::parse gives the constructors what they need.
LEMMA ParseReady == Ready /\ Parse => Ready'
<1> SUFFICES ASSUME Ready, Parse PROVE Ready'
  OBVIOUS
<1>1. CASE Exit("Parse") \/ Exit("Validation")
  BY <1>1, ExitReady DEF Refusals
<1>2. ASSUME NEW raw \in Accepted,
             config' = [account |-> Canonicalize(raw).account,
                        timeout |-> Canonicalize(raw).timeout,
                        valid |-> Validate(Canonicalize(raw))],
             stage' = "loaded", UNCHANGED result
      PROVE  Ready'
  <2> DEFINE canonical == Canonicalize(raw)
  <2>1. Validate(canonical)
    BY <1>2, Zenon DEF Accepted
  <2>2. canonical.timeout \in 1..120 /\ ValidId(canonical.account)
    BY <2>1, ValidNeeds, Zenon
  <2>3. canonical.timeout # 0
    <3> HIDE DEF canonical
    <3> QED
      BY <2>2
  <2>4. config'.timeout = canonical.timeout /\ (config'.valid <=> Validate(canonical))
        /\ config'.account = canonical.account
    <3> DEFINE valid == Validate(canonical)
               timeout == canonical.timeout
               account == canonical.account
    <3>1. config' = [account |-> account, timeout |-> timeout, valid |-> valid]
      BY <1>2
    <3>2. valid = TRUE
      BY <2>1, ValidNeeds, Zenon
    <3> HIDE DEF valid, timeout, account
    <3>3. config'.account = account /\ config'.timeout = timeout /\ config'.valid = valid
      BY <3>1
    <3> QED
      BY <2>1, <3>2, <3>3, Zenon DEF valid, timeout, account
  <2>5. config'.timeout # 0 /\ config'.valid /\ ValidId(config'.account)
    <3> HIDE DEF canonical
    <3> QED
      BY <2>1, <2>2, <2>3, <2>4, Zenon
  <2>6. ValidId(config.account)'
    BY <2>5, Zenon DEF ValidId
  <2> QED
    BY <1>2, <2>5, <2>6 DEF Ready, NothingRefused
<1> QED
  BY <1>1, <1>2 DEF Parse

\* The constructors make none of these refusals.
LEMMA BuildReady == Ready /\ Build => Ready'
<1> SUFFICES ASSUME Ready, Build PROVE Ready'
  OBVIOUS
<1>1. /\ config.timeout # 0 /\ config.valid /\ ValidId(config.account)
      /\ "ctl" \notin ToSet(token)
  BY DEF Ready, Accepting, Build
<1>2. SelectVerificationTarget(token, config.account)
        \in {"User", "Account", "AccountIdRequired", "UserTokenAccountMismatch",
             "GlobalApiKeyUnsupported", "UnsupportedCredentialType"}
  <2>1. ~\E text \in CanonicalId(config.account) : ~IsId(text)
    BY <1>1, ValidIdsAreIds
  <2> QED
    BY <2>1 DEF SelectVerificationTarget
<1>3. /\ WithApiBase \cap Refusals = {}
      /\ NewPublicIpClient \cap Refusals = {}
      /\ NewUpdater \cap Refusals = {}
  BY <1>1, <1>2 DEF WithApiBase, NewPublicIpClient, NewUpdater, Refusals
<1>4. CASE \E outcome : outcome \notin Refusals /\ Exit(outcome)
  BY <1>4, ExitReady
<1>5. CASE stage' = "command" /\ UNCHANGED <<config, token, result>>
  BY <1>5, QuietReady DEF Accepting
<1> QED
  BY <1>3, <1>4, <1>5 DEF Build

\* Opening, checking and reading a file leaves what was accepted alone.
LEMMA FilesReady ==
  Ready /\ (OpenConfig \/ CheckConfig \/ ReadConfig \/ OpenToken \/ CheckToken \/ ReadToken)
    => Ready'
<1> SUFFICES ASSUME Ready,
                    OpenConfig \/ CheckConfig \/ ReadConfig \/ OpenToken \/ CheckToken \/ ReadToken
             PROVE  Ready'
  OBVIOUS
<1>1. CASE \E outcome : outcome \notin Refusals /\ Exit(outcome)
  BY <1>1, ExitReady
<1>2. CASE /\ UNCHANGED <<config, token, result>>
           /\ stage' \in Accepting => stage \in Accepting
           /\ stage' # "build"
  BY <1>2, QuietReady
<1>3. CASE OpenConfig \/ OpenToken
  BY <1>1, <1>2, <1>3 DEF OpenConfig, OpenToken, OpenFile, Accepting, Refusals
<1>4. CASE CheckConfig \/ CheckToken
  BY <1>1, <1>2, <1>4 DEF CheckConfig, CheckToken, CheckFile, Accepting, Refusals
<1>5. CASE ReadConfig \/ ReadToken
  BY <1>1, <1>2, <1>5 DEF ReadConfig, ReadToken, ReadFile, Accepting, Refusals
<1> QED
  BY <1>3, <1>4, <1>5

\* What the constructors need is there when they run.
LEMMA AlwaysReady == Spec => []Ready
<1>1. Init => Ready
  BY DEF Init, Ready, NothingRefused, Accepting
<1>2. Ready /\ [Next]_vars => Ready'
  <2> SUFFICES ASSUME Ready, [Next]_vars PROVE Ready'
    OBVIOUS
  <2>1. CASE Main
    BY <2>1, ExitReady, QuietReady DEF Main, Accepting, Refusals
  <2>2. CASE Loaded
    BY <2>2, QuietReady DEF Loaded, Accepting
  <2>3. CASE LoadApiToken
    BY <2>3, ExitReady, QuietReady, AcceptReady DEF LoadApiToken, Accepting, Refusals
  <2>4. CASE Secret
    BY <2>4, AcceptReady DEF Secret, Accepting
  <2>5. CASE IoFails \/ RunCommand
    BY <2>5, ExitReady DEF IoFails, RunCommand, Refusals
  <2>6. CASE Replace \/ Write \/ UNCHANGED vars
    BY <2>6, QuietReady DEF Replace, Write, vars
  <2> QED
    BY <2>1, <2>2, <2>3, <2>4, <2>5, <2>6, ParseReady, BuildReady, FilesReady
    DEF Next, StartUp
<1> QED
  BY <1>1, <1>2, PTL DEF Spec

\* For every set of configurations and token texts: build_updater never ends in an
\* account id that has the wrong form, a timeout of zero, a header value that cannot
\* be sent or a configuration that fails its second validation.
THEOREM NothingRefusedAlways == Spec => []NothingRefused
<1>1. Ready => NothingRefused
  BY DEF Ready
<1> QED
  BY <1>1, AlwaysReady, PTL

\* select_verification_target finds a target exactly for a token that goes with the
\* account id.
LEMMA TargetFits ==
  ASSUME NEW secret, NEW account, ValidId(account)
  PROVE  SelectVerificationTarget(secret, account) \in {"User", "Account"}
           <=> Fits(secret, account)
<1>1. CanonicalId(account) = account /\ ~\E text \in account : ~IsId(text)
  BY ValidIdsAreIds
<1>2. SelectVerificationTarget(secret, account) =
        IF secret[1] = "cfat_" THEN IF account = {} THEN "AccountIdRequired" ELSE "Account"
        ELSE IF secret[1] = "cfut_" THEN IF account = {} THEN "User" ELSE "UserTokenAccountMismatch"
        ELSE IF secret[1] = "cfk_" THEN "GlobalApiKeyUnsupported"
        ELSE IF HasScannablePrefix(secret) THEN "UnsupportedCredentialType"
        ELSE IF account = {} THEN "User" ELSE "Account"
  BY <1>1 DEF SelectVerificationTarget
<1> QED
  BY <1>2 DEF Fits, HasScannablePrefix

\* The constructors have what they need, up to the pairing of token and account id.
LEMMA ReadyFits == Ready => OnlyMismatchRefused
<1> SUFFICES ASSUME Ready, stage = "build"
             PROVE  /\ "none" \in WithApiBase <=> Fits(token, config.account)
                    /\ "none" \in NewPublicIpClient /\ "none" \in NewUpdater
  BY DEF OnlyMismatchRefused
<1>1. /\ config.timeout # 0 /\ config.valid /\ ValidId(config.account)
      /\ "ctl" \notin ToSet(token)
  BY DEF Ready, Accepting
<1> DEFINE target == SelectVerificationTarget(token, config.account)
<1>2. target \in {"User", "Account"} <=> Fits(token, config.account)
  BY <1>1, TargetFits
<1>3. WithApiBase = IF target \notin {"User", "Account"} THEN {target} ELSE {"none", "ClientBuild"}
  BY <1>1 DEF WithApiBase
<1>4. target # "none"
  <2>1. ~\E text \in CanonicalId(config.account) : ~IsId(text)
    BY <1>1, ValidIdsAreIds
  <2> QED
    BY <2>1 DEF SelectVerificationTarget
<1> HIDE DEF target
<1>5. "none" \in WithApiBase <=> Fits(token, config.account)
  BY <1>2, <1>3, <1>4
<1> QED
  BY <1>1, <1>5 DEF NewPublicIpClient, NewUpdater
-----------------------------------------------------------------------------
(* Least and greatest numbers *)

\* A nonempty, bounded set of numbers has a least element.
LEMMA HasLeast ==
  ASSUME NEW S, S # {}, NEW n \in Int, \A x \in S : x \in Int /\ n <= x
  PROVE  \E x \in S : \A y \in S : x <= y
<1>1. PICK top \in S : TRUE
  OBVIOUS
<1> DEFINE D == {y \in S : y <= top}
           Under(y) == {z \in D : z < y}
           F == {Under(y) : y \in D}
<1>2. IsFiniteSet(D)
  <2>1. D \subseteq n..top /\ IsFiniteSet(n..top)
    BY FS_Interval
  <2> QED BY <2>1, FS_Subset
<1>3. IsWellFoundedOn(StrictSubsetOrdering(D), SUBSET D)
  BY <1>2, FS_StrictSubsetOrderingWellFounded, FS_FiniteSubsetsOfFinite
<1>4. F # {} /\ F \subseteq SUBSET D
  <2>1. top \in D
    BY <1>1
  <2>2. \A y \in D : Under(y) \subseteq D
    OBVIOUS
  <2> HIDE DEF D, Under
  <2> QED BY <2>1, <2>2
<1>5. \E A \in F : \A B \in F : ~(<<B, A>> \in StrictSubsetOrdering(D))
  <2> HIDE DEF F, D
  <2> QED BY <1>3, <1>4, WFMin
<1>6. PICK x \in D : \A y \in D : ~(<<Under(y), Under(x)>> \in StrictSubsetOrdering(D))
  <2> HIDE DEF D, Under
  <2> QED BY <1>5
<1>7. \A y \in D : x <= y
  <2> SUFFICES ASSUME NEW y \in D, y < x PROVE FALSE
    OBVIOUS
  <2>1. Under(y) \subseteq Under(x) /\ y \in Under(x) /\ y \notin Under(y) /\ Under(x) \subseteq D
    OBVIOUS
  <2>2. <<Under(y), Under(x)>> \in StrictSubsetOrdering(D)
    <3> HIDE DEF Under, D
    <3> QED BY <2>1 DEF StrictSubsetOrdering
  <2> QED BY <1>6, <2>2
<1> QED BY <1>7

\* And a greatest one.
LEMMA HasGreatest ==
  ASSUME NEW S, S # {}, NEW n \in Int, \A x \in S : x \in Int /\ x <= n
  PROVE  \E x \in S : \A y \in S : x >= y
<1> DEFINE M == {-x : x \in S}
<1>1. M # {} /\ -n \in Int /\ \A x \in M : x \in Int /\ -n <= x
  OBVIOUS
<1>2. PICK m \in M : \A y \in M : m <= y
  <2> HIDE DEF M
  <2> QED BY <1>1, HasLeast
<1>3. PICK x \in S : m = -x
  OBVIOUS
<1>4. \A y \in S : -y \in M
  OBVIOUS
<1>5. \A y \in S : -x <= -y /\ y \in Int
  <2> HIDE DEF M
  <2> QED BY <1>2, <1>3, <1>4
<1> QED BY <1>5
-----------------------------------------------------------------------------
(* Texts and their canonical form *)

\* Positions a + 1 to a + n of a text are a name: around it nothing but dots and
\* blanks, in it single dots between labels.
Core(text, a, n) ==
  /\ a \in Nat /\ n \in Nat \ {0} /\ a + n <= Len(text)
  /\ \A i \in DOMAIN text : Solid(text, i) => a < i /\ i <= a + n
  /\ \A i \in (a + 1)..(a + n) :
       ~Solid(text, i) => text[i] = "." /\ Solid(text, i - 1) /\ Solid(text, i + 1)

\* The canonical form c is what stands in the text from position a + 1 on.
Cut(text, a, c) ==
  /\ a \in Nat /\ c \in Text /\ a + Len(c) <= Len(text)
  /\ \A i \in 1..Len(c) : c[i] = Lower(text)[a + i]
  /\ \A i \in DOMAIN text : Solid(text, i) => a < i /\ i <= a + Len(c)

\* The case of a letter does not matter to what is solid.
LEMMA LowerText ==
  ASSUME NEW text \in Text
  PROVE  /\ Lower(text) \in Text /\ Len(Lower(text)) = Len(text)
         /\ \A i \in DOMAIN text :
              /\ Lower(text)[i] \in Character
              /\ Lower(text)[i] = "." <=> text[i] = "."
              /\ Lower(text)[i] = "blank" <=> text[i] = "blank"
<1>1. /\ Len(text) \in Nat /\ DOMAIN text = 1..Len(text)
      /\ \A i \in DOMAIN text : text[i] \in Character
  BY DEF Text
<1>2. Lower(text) = [i \in 1..Len(text) |-> IF text[i] = "A" THEN "a" ELSE text[i]]
  BY <1>1 DEF Lower
<1>3. \A i \in 1..Len(text) : (IF text[i] = "A" THEN "a" ELSE text[i]) \in Character
  <2>1. "a" \in Character
    BY DEF Character
  <2> QED BY <1>1, <2>1
<1>4. Lower(text) \in [1..Len(text) -> Character]
  BY <1>2, <1>3
<1>5. Lower(text) \in Text /\ Len(Lower(text)) = Len(text)
  BY <1>1, <1>4 DEF Text
<1> QED BY <1>1, <1>2, <1>4, <1>5

\* str::trim cuts off blanks.
LEMMA TrimCuts ==
  ASSUME NEW text \in Text
  PROVE  \E a \in Nat :
           /\ Trim(text) \in Text /\ a + Len(Trim(text)) <= Len(text)
           /\ \A i \in 1..Len(Trim(text)) : Trim(text)[i] = text[a + i]
           /\ \A i \in DOMAIN text : text[i] # "blank" => a < i /\ i <= a + Len(Trim(text))
<1> DEFINE solid == {i \in DOMAIN text : text[i] # "blank"}
<1>1. /\ Len(text) \in Nat /\ DOMAIN text = 1..Len(text)
      /\ \A i \in DOMAIN text : text[i] \in Character
  BY DEF Text
<1>2. CASE solid = {}
  <2>1. Trim(text) = <<>>
    BY <1>2 DEF Trim
  <2>2. /\ Trim(text) \in Text /\ 0 + Len(Trim(text)) <= Len(text) /\ 0 \in Nat
        /\ \A i \in 1..Len(Trim(text)) : Trim(text)[i] = text[0 + i]
    BY <1>1, <2>1 DEF Text
  <2> QED BY <1>2, <2>2
<1>3. CASE solid # {}
  <2>1. /\ \E x \in solid : \A y \in solid : x <= y
        /\ \E x \in solid : \A y \in solid : x >= y
    <3>1. solid \subseteq 1..Len(text)
      BY <1>1
    <3> HIDE DEF solid
    <3>2. \A x \in solid : x \in Int /\ 1 <= x /\ x <= Len(text)
      BY <1>1, <3>1
    <3>3. \E x \in solid : \A y \in solid : x <= y
      <4>1. 1 \in Int /\ \A x \in solid : x \in Int /\ 1 <= x
        BY <3>2
      <4> QED BY <1>3, <4>1, HasLeast, Zenon
    <3>4. \E x \in solid : \A y \in solid : x >= y
      BY <1>1, <1>3, <3>2, HasGreatest
    <3> QED BY <3>3, <3>4
  <2> DEFINE lo == Min(solid)
             hi == Max(solid)
  <2>2. /\ lo \in solid /\ hi \in solid
        /\ \A y \in solid : lo <= y /\ y <= hi
    <3> HIDE DEF solid
    <3>1. lo \in solid /\ \A y \in solid : lo <= y
      BY <2>1 DEF Min
    <3>2. hi \in solid /\ \A y \in solid : hi >= y
      BY <2>1 DEF Max
    <3> QED BY <3>1, <3>2, <1>1 DEF solid
  <2>3. Trim(text) = SubSeq(text, lo, hi)
    BY <1>3 DEF Trim
  <2>4. lo \in 1..Len(text) /\ hi \in 1..Len(text) /\ lo <= hi
    BY <1>1, <2>2
  <2> HIDE DEF lo, hi
  <2>5. /\ SubSeq(text, lo, hi) \in Text /\ Len(SubSeq(text, lo, hi)) = hi - lo + 1
        /\ \A i \in 1..(hi - lo + 1) : SubSeq(text, lo, hi)[i] = text[lo + i - 1]
    BY <1>1, <2>4 DEF Text
  <2> DEFINE a == lo - 1
  <2>6. /\ a \in Nat /\ a + Len(Trim(text)) <= Len(text)
        /\ \A i \in 1..Len(Trim(text)) : Trim(text)[i] = text[a + i]
    BY <1>1, <2>3, <2>4, <2>5
  <2>7. \A i \in DOMAIN text : text[i] # "blank" => a < i /\ i <= a + Len(Trim(text))
    <3>1. \A i \in DOMAIN text : text[i] # "blank" => lo <= i /\ i <= hi
      BY <2>2
    <3>2. Len(Trim(text)) = hi - lo + 1 /\ DOMAIN text \subseteq Int
      BY <1>1, <2>3, <2>5
    <3>3. lo \in Int /\ hi \in Int
      BY <1>1, <2>4
    <3>4. \A i \in Int : lo <= i /\ i <= hi => lo - 1 < i /\ i <= lo - 1 + (hi - lo + 1)
      BY <3>3
    <3> QED BY <3>1, <3>2, <3>4
  <2> HIDE DEF a
  <2> QED BY <2>3, <2>5, <2>6, <2>7
<1> QED BY <1>2, <1>3

\* trim_end_matches('.') cuts off dots.
LEMMA TrimEndDotsCuts ==
  ASSUME NEW text \in Text
  PROVE  /\ TrimEndDots(text) \in Text /\ Len(TrimEndDots(text)) <= Len(text)
         /\ \A i \in 1..Len(TrimEndDots(text)) : TrimEndDots(text)[i] = text[i]
         /\ \A i \in DOMAIN text : text[i] # "." => i <= Len(TrimEndDots(text))
<1> DEFINE S == {0} \cup {i \in DOMAIN text : text[i] # "."}
           hi == Max(S)
<1>1. /\ Len(text) \in Nat /\ DOMAIN text = 1..Len(text)
      /\ \A i \in DOMAIN text : text[i] \in Character
  BY DEF Text
<1>2. S # {} /\ \A x \in S : x \in Int /\ x <= Len(text) /\ 0 <= x
  BY <1>1
<1>3. hi \in S /\ \A y \in S : hi >= y
  <2> HIDE DEF S
  <2>1. \E x \in S : \A y \in S : x >= y
    BY <1>1, <1>2, HasGreatest
  <2> QED BY <2>1 DEF Max
<1>4. hi \in 0..Len(text)
  <2> HIDE DEF S, hi
  <2> QED BY <1>1, <1>2, <1>3
<1>5. \A i \in DOMAIN text : text[i] # "." => i <= hi
  <2>1. \A i \in DOMAIN text : text[i] # "." => hi >= i
    BY <1>3
  <2> HIDE DEF hi
  <2> QED BY <1>1, <1>4, <2>1
<1>6. TrimEndDots(text) = SubSeq(text, 1, hi)
  BY DEF TrimEndDots
<1> HIDE DEF hi
<1>7. /\ SubSeq(text, 1, hi) \in Text /\ Len(SubSeq(text, 1, hi)) = hi
      /\ \A i \in 1..hi : SubSeq(text, 1, hi)[i] = text[i]
  BY <1>1, <1>4 DEF Text
<1> QED BY <1>1, <1>4, <1>5, <1>6, <1>7

\* canonical_dns_name cuts a name out of a text.
LEMMA CanonicalCuts ==
  ASSUME NEW text \in Text
  PROVE  \E a \in Nat : Cut(text, a, CanonicalDnsName(text))
<1> DEFINE t == Trim(text)
           d == TrimEndDots(t)
           c == Lower(d)
<1>1. PICK a \in Nat :
        /\ t \in Text /\ a + Len(t) <= Len(text)
        /\ \A i \in 1..Len(t) : t[i] = text[a + i]
        /\ \A i \in DOMAIN text : text[i] # "blank" => a < i /\ i <= a + Len(t)
  BY TrimCuts
<1> HIDE DEF t
<1>2. /\ d \in Text /\ Len(d) <= Len(t)
      /\ \A i \in 1..Len(d) : d[i] = t[i]
      /\ \A i \in DOMAIN t : t[i] # "." => i <= Len(d)
  BY <1>1, TrimEndDotsCuts
<1> HIDE DEF d
<1>3. c \in Text /\ Len(c) = Len(d)
  BY <1>2, LowerText
<1>4. /\ Len(text) \in Nat /\ DOMAIN text = 1..Len(text)
      /\ Len(t) \in Nat /\ DOMAIN t = 1..Len(t)
      /\ Len(d) \in Nat /\ DOMAIN d = 1..Len(d)
  <2>1. \A x \in Text : Len(x) \in Nat /\ DOMAIN x = 1..Len(x)
    BY DEF Text
  <2> QED BY <1>1, <1>2, <2>1
<1>5. \A i \in 1..Len(c) : c[i] = Lower(text)[a + i]
  <2> SUFFICES ASSUME NEW i \in 1..Len(c) PROVE c[i] = Lower(text)[a + i]
    OBVIOUS
  <2>0. i \in Int /\ 1 <= i /\ i <= Len(d) /\ i <= Len(t) /\ a + i <= Len(text)
    <3> HIDE DEF c
    <3> QED BY <1>1, <1>2, <1>3, <1>4
  <2>1. i \in DOMAIN d /\ i \in 1..Len(t) /\ a + i \in DOMAIN text
    BY <1>4, <2>0
  <2>2. d[i] = text[a + i]
    BY <1>1, <1>2, <1>4, <2>1
  <2> QED BY <2>1, <2>2 DEF Lower
<1>6. \A i \in DOMAIN text : Solid(text, i) => a < i /\ i <= a + Len(c)
  <2> SUFFICES ASSUME NEW i \in DOMAIN text, Solid(text, i) PROVE a < i /\ i <= a + Len(c)
    OBVIOUS
  <2>1. text[i] # "blank" /\ text[i] # "."
    BY DEF Solid
  <2>2. a < i /\ i <= a + Len(t)
    BY <1>1, <2>1
  <2>3. i - a \in 1..Len(t) /\ a + (i - a) = i
    BY <1>4, <2>2
  <2>4. t[i - a] = text[i]
    BY <1>1, <2>3
  <2>5. i - a <= Len(d)
    BY <1>2, <1>4, <2>1, <2>3, <2>4
  <2> QED BY <1>3, <1>4, <2>2, <2>5
<1>7. Cut(text, a, c)
  <2> HIDE DEF c
  <2>1. a + Len(c) <= Len(text)
    BY <1>1, <1>2, <1>3, <1>4
  <2> QED BY <1>3, <1>5, <1>6, <2>1 DEF Cut
<1> QED BY <1>7 DEF CanonicalDnsName, c, d, t

\* What validate_dns_name asks of the places of a name: no blank, and every dot between
\* two characters that are none.
LEMMA DotsBetween ==
  ASSUME NEW c \in Text, NEW wild \in BOOLEAN, ValidDnsName(c, wild)
  PROVE  /\ Len(c) \in Nat \ {0}
         /\ \A i \in 1..Len(c) : c[i] # "blank"
         /\ \A i \in 1..Len(c) : c[i] = "." =>
              1 < i /\ i < Len(c) /\ c[i - 1] # "." /\ c[i + 1] # "."
<1> DEFINE n == Len(c)
<1>1. /\ n \in Nat \ {0} /\ DOMAIN c = 1..n
      /\ \A i \in DOMAIN c : c[i] \in Character
  BY ConfigAssumption DEF Text, ValidDnsName
<1> HIDE DEF n
<1>2. \A x : x \in Cuts(c) <=> x = 0 \/ x = n + 1 \/ (x \in 1..n /\ c[x] = ".")
  BY <1>1 DEF Cuts, n
<1>3. \A p, q \in Cuts(c) : Adjacent(c, p, q) =>
        \/ ValidLabel(SubSeq(c, p + 1, q - 1))
        \/ SubSeq(c, p + 1, q - 1) = <<"*">>
  BY DEF ValidDnsName
<1>4. \A p \in Cuts(c) : p + 1 \notin Cuts(c)
  <2> SUFFICES ASSUME NEW p \in Cuts(c), p + 1 \in Cuts(c) PROVE FALSE
    OBVIOUS
  <2>1. p \in Int
    BY <1>1, <1>2
  <2>2. Adjacent(c, p, p + 1)
    BY <2>1 DEF Adjacent
  <2>3. SubSeq(c, p + 1, (p + 1) - 1) = <<>>
    BY <2>1
  <2>4. <<>> # <<"*">> /\ ~ValidLabel(<<>>)
    BY DEF ValidLabel
  <2> QED BY <1>3, <2>2, <2>3, <2>4
<1>5. \A i \in 1..n : c[i] = "." => 1 < i /\ i < n /\ c[i - 1] # "." /\ c[i + 1] # "."
  <2> SUFFICES ASSUME NEW i \in 1..n, c[i] = "."
               PROVE  1 < i /\ i < n /\ c[i - 1] # "." /\ c[i + 1] # "."
    OBVIOUS
  <2>1. i \in Cuts(c) /\ 0 \in Cuts(c) /\ n + 1 \in Cuts(c)
    BY <1>2
  <2>2. i + 1 \notin Cuts(c) /\ i - 1 \notin Cuts(c)
    BY <1>1, <1>4, <2>1
  <2>3. i # n /\ i # 1
    BY <2>1, <2>2
  <2>4. i - 1 \in 1..n /\ i + 1 \in 1..n
    BY <1>1, <2>3
  <2> QED BY <1>1, <1>2, <2>2, <2>3, <2>4
<1>6. \A i \in 1..n : c[i] # "blank"
  <2> SUFFICES ASSUME NEW i \in 1..n, c[i] = "blank" PROVE FALSE
    OBVIOUS
  <2> DEFINE L == {p \in Cuts(c) : p < i}
             R == {q \in Cuts(c) : q > i}
  <2>0. n \in Int /\ i \in Int /\ 1 <= i /\ i <= n
    BY <1>1
  <2>1. L # {} /\ R # {} /\ (\A p \in L : p \in Int /\ p <= i) /\ (\A q \in R : q \in Int /\ i <= q)
    <3>1. 0 \in L /\ n + 1 \in R
      BY <1>2, <2>0
    <3>2. \A x \in Cuts(c) : x \in Int
      BY <1>1, <1>2
    <3>3. \A p \in L : p \in Int /\ p <= i
      BY <2>0, <3>2
    <3>4. \A q \in R : q \in Int /\ i <= q
      BY <2>0, <3>2
    <3> HIDE DEF L, R
    <3> QED BY <3>1, <3>3, <3>4
  <2>2. PICK p \in L : \A x \in L : p >= x
    <3> HIDE DEF L
    <3> QED BY <2>0, <2>1, HasGreatest
  <2>3. PICK q \in R : \A x \in R : q <= x
    <3> HIDE DEF R
    <3> QED BY <2>0, <2>1, HasLeast
  <2>4. /\ p \in Cuts(c) /\ q \in Cuts(c) /\ p \in Int /\ q \in Int /\ p < i /\ i < q
        /\ 0 <= p /\ q <= n + 1
    <3>1. p \in Cuts(c) /\ q \in Cuts(c) /\ p < i /\ i < q
      OBVIOUS
    <3>2. \A x \in Cuts(c) : x \in Int /\ 0 <= x /\ x <= n + 1
      BY <1>1, <1>2
    <3> HIDE DEF L, R
    <3> QED BY <3>1, <3>2
  <2>5. i \notin Cuts(c)
    <3>1. c[i] # "."
      OBVIOUS
    <3> QED BY <1>2, <2>0, <3>1
  <2>6. Adjacent(c, p, q)
    <3> SUFFICES ASSUME NEW x \in (p + 1)..(q - 1), x \in Cuts(c) PROVE FALSE
      <4> HIDE DEF L, R
      <4>1. p < q
        BY <2>0, <2>4
      <4> QED BY <4>1 DEF Adjacent
    <3>1. x \in Int /\ p < x /\ x < q /\ x # i
      <4> HIDE DEF L, R
      <4> QED BY <2>4, <2>5
    <3>2. x < i => x \in L
      OBVIOUS
    <3>3. x > i => x \in R
      OBVIOUS
    <3> HIDE DEF L, R
    <3> QED BY <2>0, <2>2, <2>3, <2>4, <3>1, <3>2, <3>3
  <2> HIDE DEF L, R
  <2> DEFINE label == SubSeq(c, p + 1, q - 1)
  <2>7. i - p \in DOMAIN label /\ label[i - p] = "blank"
    <3>1. /\ Len(label) = q - p - 1 /\ DOMAIN label = 1..(q - p - 1)
          /\ \A k \in 1..(q - p - 1) : label[k] = c[p + k]
      <4>1. \A k \in (p + 1)..(q - 1) : c[k] \in Character
        BY <1>1, <2>0, <2>4
      <4>2. p + 1 <= q - 1 /\ p + 1 \in Int /\ q - 1 \in Int
        BY <2>0, <2>4
      <4>3. label \in Seq(Character) /\ Len(label) = (q - 1) - (p + 1) + 1
            /\ \A k \in 1..((q - 1) - (p + 1) + 1) : label[k] = c[(p + 1) + k - 1]
        BY <4>1, <4>2, SubSeqProperties
      <4>4. (q - 1) - (p + 1) + 1 = q - p - 1 /\ \A k \in Int : (p + 1) + k - 1 = p + k
        BY <2>4
      <4> HIDE DEF label
      <4>5. Len(label) = q - p - 1 /\ DOMAIN label = 1..(q - p - 1)
        BY <4>3, <4>4
      <4>6. \A k \in 1..(q - p - 1) : label[k] = c[p + k]
        <5> SUFFICES ASSUME NEW k \in 1..(q - p - 1) PROVE label[k] = c[p + k]
          OBVIOUS
        <5>1. k \in 1..((q - 1) - (p + 1) + 1) /\ (p + 1) + k - 1 = p + k
          BY <2>4, <4>4
        <5> QED BY <4>3, <5>1
      <4> QED BY <4>5, <4>6
    <3>2. i - p \in 1..(q - p - 1) /\ p + (i - p) = i
      BY <2>0, <2>4
    <3> HIDE DEF label
    <3> QED BY <3>1, <3>2
  <2>8. ValidLabel(label) \/ label = <<"*">>
    BY <1>3, <2>4, <2>6
  <2> HIDE DEF label
  <2>9. "blank" \in ToSet(label)
    BY <2>7 DEF ToSet
  <2>10. ~ValidLabel(label)
    BY <2>9 DEF ValidLabel
  <2>11. label # <<"*">>
    <3>1. ToSet(<<"*">>) = {"*"}
      BY DEF ToSet
    <3> QED BY <2>9, <3>1
  <2> QED BY <2>8, <2>10, <2>11
<1> QED BY <1>1, <1>5, <1>6 DEF n

\* A text whose canonical form is a valid name has a core, and that is the name.
LEMMA CoreOf ==
  ASSUME NEW text \in Text, NEW wild \in BOOLEAN, ValidDnsName(CanonicalDnsName(text), wild)
  PROVE  \E a \in Nat : /\ Cut(text, a, CanonicalDnsName(text))
                        /\ Core(text, a, Len(CanonicalDnsName(text)))
<1> DEFINE c == CanonicalDnsName(text)
           n == Len(c)
<1>1. PICK a \in Nat : Cut(text, a, c)
  BY CanonicalCuts
<1> HIDE DEF c
<1>2. /\ a \in Nat /\ c \in Text /\ a + n <= Len(text) /\ n \in Nat
      /\ \A i \in 1..n : c[i] = Lower(text)[a + i]
      /\ \A i \in DOMAIN text : Solid(text, i) => a < i /\ i <= a + n
      /\ Len(text) \in Nat /\ DOMAIN text = 1..Len(text)
  BY <1>1 DEF Cut, Text
<1>3. /\ n \in Nat \ {0}
      /\ \A i \in 1..n : c[i] # "blank"
      /\ \A i \in 1..n : c[i] = "." =>
           1 < i /\ i < n /\ c[i - 1] # "." /\ c[i + 1] # "."
  BY <1>2, DotsBetween DEF c
<1> HIDE DEF n
<1>4. \A i \in 1..n : /\ a + i \in DOMAIN text
                      /\ c[i] = "." <=> text[a + i] = "."
                      /\ c[i] = "blank" <=> text[a + i] = "blank"
  <2> SUFFICES ASSUME NEW i \in 1..n
               PROVE  /\ a + i \in DOMAIN text
                      /\ c[i] = "." <=> text[a + i] = "."
                      /\ c[i] = "blank" <=> text[a + i] = "blank"
    OBVIOUS
  <2>1. a + i \in DOMAIN text
    BY <1>2
  <2>2. c[i] = Lower(text)[a + i]
    BY <1>2
  <2>3. /\ Lower(text)[a + i] = "." <=> text[a + i] = "."
        /\ Lower(text)[a + i] = "blank" <=> text[a + i] = "blank"
    BY <2>1, LowerText
  <2> QED BY <2>1, <2>2, <2>3
<1>5. \A i \in 1..n : Solid(text, a + i) <=> c[i] # "."
  BY <1>3, <1>4 DEF Solid
<1>6. ASSUME NEW j \in (a + 1)..(a + n), ~Solid(text, j)
      PROVE  text[j] = "." /\ Solid(text, j - 1) /\ Solid(text, j + 1)
  <2> DEFINE i == j - a
  <2>1. i \in 1..n /\ a + i = j /\ a + (i - 1) = j - 1 /\ a + (i + 1) = j + 1
    BY <1>2
  <2> HIDE DEF i
  <2>2. c[i] = "." /\ text[j] = "."
    BY <1>4, <1>5, <1>6, <2>1
  <2>3. i - 1 \in 1..n /\ i + 1 \in 1..n /\ c[i - 1] # "." /\ c[i + 1] # "."
    <3>1. 1 < i /\ i < n /\ c[i - 1] # "." /\ c[i + 1] # "."
      BY <1>3, <2>1, <2>2
    <3> QED BY <1>3, <2>1, <3>1
  <2> QED BY <1>5, <2>1, <2>2, <2>3
<1>7. Core(text, a, n)
  BY <1>2, <1>3, <1>6 DEF Core
<1> QED BY <1>1, <1>7 DEF n, c
-----------------------------------------------------------------------------
(* Labels *)

\* From a solid position on, a label ends before the end of the text.
LEMMA LabelEnds ==
  ASSUME NEW s \in Text, NEW i, Solid(s, i)
  PROVE  \E n \in DOMAIN s : (\A k \in 0..(n - 1) : Solid(s, i + k)) /\ ~Solid(s, i + n)
<1> DEFINE N == {n \in 1..Len(s) : ~Solid(s, i + n)}
<1>1. Len(s) \in Nat /\ DOMAIN s = 1..Len(s)
  BY DEF Text
<1>2. i \in 1..Len(s)
  BY <1>1 DEF Solid
<1>3. Len(s) \in N
  BY <1>1, <1>2 DEF Solid
<1>4. PICK n \in N : \A m \in N : n <= m
  <2>1. \A m \in N : m \in Int /\ 1 <= m
    BY <1>1
  <2>2. N # {} /\ 1 \in Int
    BY <1>3
  <2> HIDE DEF N
  <2> QED BY <2>1, <2>2, HasLeast
<1>5. \A k \in 0..(n - 1) : Solid(s, i + k)
  <2> SUFFICES ASSUME NEW k \in 0..(n - 1), ~Solid(s, i + k) PROVE FALSE
    OBVIOUS
  <2>1. n \in Int /\ n <= Len(s) /\ k \in Int /\ 0 <= k /\ k < n
    BY <1>1
  <2>2. k # 0
    BY <1>2
  <2>3. k \in N
    BY <1>1, <2>1, <2>2
  <2> QED BY <1>4, <2>1, <2>3
<1> QED BY <1>1, <1>5

\* A solid position belongs to a label that starts at or before it.
LEMMA LabelBegins ==
  ASSUME NEW s \in Text, NEW i, Solid(s, i)
  PROVE  \E h \in Starts(s) : h <= i /\ \A k \in h..i : Solid(s, k)
<1> DEFINE N == {h \in 1..i : ~Solid(s, h - 1)}
<1>1. Len(s) \in Nat /\ DOMAIN s = 1..Len(s)
  BY DEF Text
<1>2. i \in 1..Len(s)
  BY <1>1 DEF Solid
<1>3. 1 \in N
  BY <1>1, <1>2 DEF Solid
<1>4. PICK h \in N : \A m \in N : h >= m
  <2>1. \A m \in N : m \in Int /\ m <= i
    BY <1>1, <1>2
  <2>2. i \in Int
    BY <1>1, <1>2
  <2> HIDE DEF N
  <2>3. N # {}
    BY <1>3
  <2> QED BY <2>1, <2>2, <2>3, HasGreatest
<1>5. \A k \in h..i : Solid(s, k)
  <2> DEFINE M == {k \in h..i : ~Solid(s, k)}
  <2> SUFFICES ASSUME M # {} PROVE FALSE
    OBVIOUS
  <2>1. h \in Int /\ i \in Int /\ 1 <= h /\ h <= i
    BY <1>2
  <2>2. PICK k \in M : \A m \in M : k >= m
    <3>1. \A m \in M : m \in Int /\ m <= i
      BY <2>1
    <3> HIDE DEF M
    <3> QED BY <2>1, <3>1, HasGreatest
  <2>3. k \in Int /\ h <= k /\ k < i /\ ~Solid(s, k)
    BY <2>1
  <2>4. k + 1 \in N
    BY <2>1, <2>3
  <2> QED BY <1>4, <2>1, <2>3, <2>4
<1>6. h \in Starts(s) /\ h <= i
  <2>1. h \in h..i
    BY <1>2
  <2>2. Solid(s, h) /\ ~Solid(s, h - 1)
    BY <1>5, <2>1
  <2> QED BY <1>2, <2>2 DEF Starts, Solid
<1> QED BY <1>5, <1>6

\* Spelling two texts the other way round.
LEMMA SameNameSymmetric ==
  ASSUME NEW s \in Text, NEW t \in Text, SameName(s, t)
  PROVE  SameName(t, s)
<1> DEFINE A == Starts(s)
           B == Starts(t)
<1>1. PICK f \in [A -> B] :
        /\ \A j \in B : \E i \in A : f[i] = j
        /\ \A i, k \in A : i < k <=> f[i] < f[k]
        /\ \A i \in A : SameLabel(s, i, t, f[i])
  BY DEF SameName, SameLabels
<1>2. /\ A \subseteq Nat /\ B \subseteq Nat
      /\ DOMAIN s = 1..Len(s) /\ Len(s) \in Nat /\ DOMAIN t = 1..Len(t) /\ Len(t) \in Nat
  BY DEF Starts, Text
<1>3. \A i \in A : SameLabel(t, f[i], s, i)
  <2> SUFFICES ASSUME NEW i \in A PROVE SameLabel(t, f[i], s, i)
    OBVIOUS
  <2> DEFINE j == f[i]
  <2>1. j \in Nat
    BY <1>1, <1>2
  <2>2. SameLabel(s, i, t, j)
    BY <1>1
  <2> HIDE DEF j
  <2>3. PICK n \in DOMAIN s :
          /\ \A k \in 0..(n - 1) : /\ Solid(s, i + k) /\ Solid(t, j + k)
                                   /\ Lower(s)[i + k] = Lower(t)[j + k]
          /\ ~Solid(s, i + n) /\ ~Solid(t, j + n)
    BY <2>2 DEF SameLabel
  <2>4. n \in DOMAIN t
    <3>1. n \in Nat /\ n >= 1
      BY <1>2
    <3>2. n - 1 \in 0..(n - 1)
      BY <3>1
    <3>3. Solid(t, j + (n - 1)) /\ Solid(t, j + 0)
      BY <2>3, <3>1, <3>2
    <3>4. j + (n - 1) <= Len(t) /\ j >= 1
      BY <1>2, <2>1, <3>1, <3>3 DEF Solid
    <3> QED BY <1>2, <2>1, <3>1, <3>4
  <2>5. SameLabel(t, j, s, i)
    BY <2>3, <2>4 DEF SameLabel
  <2> QED BY <2>5 DEF j
<1> HIDE DEF A, B
<1> DEFINE g == [j \in B |-> CHOOSE i \in A : f[i] = j]
<1>4. \A j \in B : g[j] \in A /\ f[g[j]] = j
  BY <1>1
<1>5. \A i \in A : g[f[i]] = i
  <2> SUFFICES ASSUME NEW i \in A PROVE g[f[i]] = i
    OBVIOUS
  <2>1. g[f[i]] \in A /\ f[g[f[i]]] = f[i]
    BY <1>1, <1>4
  <2>2. i \in Nat /\ g[f[i]] \in Nat /\ f[i] \in Nat
    BY <1>1, <1>2, <2>1
  <2>3. ~(i < g[f[i]]) /\ ~(g[f[i]] < i)
    <3> HIDE DEF g
    <3> QED BY <1>1, <2>1, <2>2
  <2> HIDE DEF g
  <2> QED BY <2>2, <2>3
<1>6. g \in [B -> A]
  BY <1>4
<1> HIDE DEF g
<1>7. \A i \in A : \E j \in B : g[j] = i
  BY <1>1, <1>5
<1>8. \A j, k \in B : j < k <=> g[j] < g[k]
  BY <1>1, <1>4
<1>9. \A j \in B : SameLabel(t, j, s, g[j])
  BY <1>3, <1>4
<1> QED BY <1>6, <1>7, <1>8, <1>9, Zenon DEF SameName, SameLabels, A, B

\* f takes the labels of s to those of t.
Spelling(s, t, f) ==
  /\ f \in [Starts(s) -> Starts(t)]
  /\ \A j \in Starts(t) : \E i \in Starts(s) : f[i] = j
  /\ \A i, k \in Starts(s) : i < k <=> f[i] < f[k]
  /\ \A i \in Starts(s) : SameLabel(s, i, t, f[i])

\* The places of a core.
LEMMA CoreFacts ==
  ASSUME NEW s \in Text, NEW a, NEW n, Core(s, a, n)
  PROVE  /\ a \in Nat /\ n \in Nat /\ n >= 1 /\ a + n <= Len(s) /\ Len(s) \in Nat
         /\ \A i : Solid(s, i) => i \in Int /\ a < i /\ i <= a + n
         /\ \A i \in Starts(s) : i \in Int /\ Solid(s, i) /\ ~Solid(s, i - 1)
         /\ \A i \in Int : Solid(s, i) /\ ~Solid(s, i - 1) => i \in Starts(s)
         /\ \A i \in Int : a < i /\ i <= a + n /\ ~Solid(s, i) =>
              s[i] = "." /\ Solid(s, i - 1) /\ Solid(s, i + 1)
         /\ Solid(s, a + 1) /\ Solid(s, a + n) /\ a + 1 \in Starts(s)
<1>1. /\ a \in Nat /\ n \in Nat /\ n >= 1 /\ a + n <= Len(s) /\ Len(s) \in Nat
      /\ DOMAIN s = 1..Len(s)
  BY DEF Core, Text
<1>2. \A i : Solid(s, i) => i \in Int /\ a < i /\ i <= a + n
  BY <1>1 DEF Core, Solid
<1>3. /\ \A i \in Starts(s) : i \in Int /\ Solid(s, i) /\ ~Solid(s, i - 1)
      /\ \A i \in Int : Solid(s, i) /\ ~Solid(s, i - 1) => i \in Starts(s)
  BY <1>1 DEF Starts, Solid
<1>4. \A i \in Int : a < i /\ i <= a + n /\ ~Solid(s, i) =>
        s[i] = "." /\ Solid(s, i - 1) /\ Solid(s, i + 1)
  <2>1. \A i \in Int : a < i /\ i <= a + n => i \in (a + 1)..(a + n)
    BY <1>1
  <2> QED BY <2>1 DEF Core
<1>5. Solid(s, a + 1)
  <2>1. a + 1 \in Int /\ a < a + 1 /\ a + 1 <= a + n /\ ~(a < (a + 1) - 1)
    BY <1>1
  <2> QED BY <1>2, <1>4, <2>1
<1>6. Solid(s, a + n)
  <2>1. a + n \in Int /\ a < a + n /\ a + n <= a + n /\ ~((a + n) + 1 <= a + n)
    BY <1>1
  <2> QED BY <1>2, <1>4, <2>1
<1>7. a + 1 \in Starts(s)
  <2>1. ~Solid(s, (a + 1) - 1) /\ a + 1 \in Int
    <3>1. a + 1 \in Int /\ ~(a < (a + 1) - 1)
      BY <1>1
    <3> QED BY <1>2, <3>1
  <2> QED BY <1>3, <1>5, <2>1
<1> QED BY <1>1, <1>2, <1>3, <1>4, <1>5, <1>6, <1>7

\* The first label of a name goes to the first label.
LEMMA FirstLabel ==
  ASSUME NEW s \in Text, NEW t \in Text, NEW a, NEW n, Core(s, a, n), NEW b, NEW m, Core(t, b, m),
         NEW f, Spelling(s, t, f)
  PROVE  f[a + 1] = b + 1
<1>1. /\ a \in Nat /\ b \in Nat /\ a + 1 \in Starts(s) /\ b + 1 \in Starts(t)
      /\ \A i \in Starts(s) : i \in Int /\ a < i
      /\ \A j \in Starts(t) : j \in Int /\ b < j
  BY CoreFacts
<1>2. PICK i \in Starts(s) : f[i] = b + 1
  BY <1>1 DEF Spelling
<1>3. f[a + 1] \in Starts(t)
  BY <1>1 DEF Spelling
<1>4. i = a + 1 \/ a + 1 < i
  BY <1>1
<1>5. CASE a + 1 < i
  <2>1. f[a + 1] < f[i]
    BY <1>1, <1>5 DEF Spelling
  <2>2. f[a + 1] \in Int /\ b < f[a + 1]
    BY <1>1, <1>3
  <2> QED BY <1>1, <1>2, <2>1, <2>2
<1> QED BY <1>2, <1>4, <1>5

\* A label goes where the one before it leads: h is followed by i, which is one dot away.
LEMMA NextLabel ==
  ASSUME NEW s \in Text, NEW t \in Text, NEW a, NEW n, Core(s, a, n), NEW b, NEW m, Core(t, b, m),
         NEW f, Spelling(s, t, f),
         NEW h \in Starts(s), NEW i \in Starts(s), h < i - 1, ~Solid(s, i - 1),
         \A k \in h..(i - 2) : Solid(s, k)
  PROVE  f[i] - f[h] = i - h
<1>1. /\ \A k \in Starts(s) : k \in Int /\ Solid(s, k) /\ ~Solid(s, k - 1)
      /\ \A k \in Starts(t) : k \in Int /\ Solid(t, k) /\ ~Solid(t, k - 1)
      /\ \A k \in Int : Solid(t, k) /\ ~Solid(t, k - 1) => k \in Starts(t)
      /\ \A k : Solid(t, k) => k \in Int /\ b < k /\ k <= b + m
      /\ \A k \in Int : b < k /\ k <= b + m /\ ~Solid(t, k) => Solid(t, k + 1)
      /\ b \in Nat /\ m \in Nat /\ DOMAIN s \subseteq Int
  <2>1. \A k \in Starts(s) : k \in Int /\ Solid(s, k) /\ ~Solid(s, k - 1)
    BY CoreFacts
  <2>2. DOMAIN s \subseteq Int
    BY DEF Text
  <2>3. /\ \A k \in Starts(t) : k \in Int /\ Solid(t, k) /\ ~Solid(t, k - 1)
        /\ \A k \in Int : Solid(t, k) /\ ~Solid(t, k - 1) => k \in Starts(t)
        /\ \A k : Solid(t, k) => k \in Int /\ b < k /\ k <= b + m
        /\ \A k \in Int : b < k /\ k <= b + m /\ ~Solid(t, k) => Solid(t, k + 1)
        /\ b \in Nat /\ m \in Nat
    BY CoreFacts
  <2> QED BY <2>1, <2>2, <2>3
<1>2. f[h] \in Starts(t) /\ f[i] \in Starts(t)
  BY DEF Spelling
<1> DEFINE x == f[h]
           y == f[i]
<1>3. x \in Int /\ y \in Int /\ h \in Int /\ i \in Int /\ x < y
  <2>1. h < i
    BY <1>1
  <2> QED BY <1>1, <1>2, <2>1 DEF Spelling
<1>4. PICK l \in DOMAIN s :
        /\ \A k \in 0..(l - 1) : Solid(s, h + k) /\ Solid(t, x + k)
        /\ ~Solid(s, h + l) /\ ~Solid(t, x + l)
  BY DEF Spelling, SameLabel
<1> HIDE DEF x, y
<1>5. l \in Int
  BY <1>1
<1>6. h + l = i - 1
  <2>1. ~(h + l < i - 1)
    <3> SUFFICES ASSUME h + l < i - 1 PROVE FALSE
      OBVIOUS
    <3>1. CASE l >= 0
      <4>1. h + l \in h..(i - 2)
        BY <1>3, <1>5, <3>1
      <4> QED BY <1>4, <4>1
    <3>2. CASE l < 0
      <4>1. l \in 1..Len(s) /\ Len(s) \in Nat
        BY DEF Text
      <4> QED BY <3>2, <4>1
    <3> QED BY <1>5, <3>1, <3>2
  <2>2. ~(h + l > i - 1)
    <3> SUFFICES ASSUME h + l > i - 1 PROVE FALSE
      OBVIOUS
    <3>1. (i - 1) - h \in 0..(l - 1) /\ h + ((i - 1) - h) = i - 1
      BY <1>3, <1>5
    <3>2. Solid(s, i - 1)
      BY <1>4, <3>1
    <3> QED BY <3>2
  <2> QED BY <1>3, <1>5, <2>1, <2>2
<1> DEFINE e == x + l
<1>7. e \in Int /\ x < e /\ l >= 1
  BY <1>3, <1>5, <1>6
<1>8. y > e
  <2> SUFFICES ASSUME y <= e PROVE FALSE
    BY <1>3, <1>7
  <2>1. Solid(t, y) /\ ~Solid(t, y - 1)
    BY <1>1, <1>2 DEF y
  <2>2. y # e
    BY <1>4, <2>1
  <2>3. y - 1 - x \in 0..(l - 1) /\ x + (y - 1 - x) = y - 1
    BY <1>3, <1>5, <2>2
  <2> QED BY <1>4, <2>1, <2>3
<1>9. e + 1 \in Starts(t)
  <2>1. Solid(t, y) /\ Solid(t, x)
    BY <1>1, <1>2 DEF x, y
  <2>2. b < e /\ e <= b + m
    <3>1. y <= b + m /\ b < x
      BY <1>1, <2>1
    <3> QED BY <1>1, <1>3, <1>7, <1>8, <3>1
  <2>3. Solid(t, e + 1)
    BY <1>1, <1>4, <1>7, <2>2
  <2>4. ~Solid(t, (e + 1) - 1) /\ e + 1 \in Int
    <3>1. (e + 1) - 1 = x + l
      BY <1>3, <1>5
    <3> QED BY <1>4, <1>7, <3>1
  <2> QED BY <1>1, <2>3, <2>4
<1>10. PICK j \in Starts(s) : f[j] = e + 1
  BY <1>9 DEF Spelling
<1>11. j \in Int /\ Solid(s, j) /\ ~Solid(s, j - 1)
  BY <1>1
<1>12. h < j
  <2>1. f[h] < f[j]
    BY <1>3, <1>7, <1>10 DEF x
  <2> QED BY <2>1 DEF Spelling
<1>13. j >= i
  <2> SUFFICES ASSUME j < i PROVE FALSE
    BY <1>3, <1>11
  <2>1. j # i - 1
    BY <1>11
  <2>2. j - 1 \in h..(i - 2)
    BY <1>3, <1>11, <1>12, <2>1
  <2> QED BY <1>11, <2>2
<1>14. ~(j > i)
  <2> SUFFICES ASSUME j > i PROVE FALSE
    OBVIOUS
  <2>1. f[i] < f[j]
    BY <1>3, <1>11 DEF Spelling
  <2> QED BY <1>3, <1>7, <1>8, <1>10, <2>1 DEF y
<1>15. y = e + 1
  BY <1>3, <1>10, <1>11, <1>13, <1>14 DEF y
<1> QED BY <1>3, <1>5, <1>6, <1>15 DEF x, y

\* All labels of a name are moved by the same distance.
LEMMA Aligned ==
  ASSUME NEW s \in Text, NEW t \in Text, NEW a, NEW n, Core(s, a, n), NEW b, NEW m, Core(t, b, m),
         NEW f, Spelling(s, t, f)
  PROVE  \A i \in Starts(s) : f[i] = i + (b - a)
<1> DEFINE Off == {i \in Starts(s) : f[i] # i + (b - a)}
<1>1. /\ \A k \in Starts(s) : k \in Int /\ Solid(s, k) /\ ~Solid(s, k - 1)
      /\ \A k : Solid(s, k) => k \in Int /\ a < k /\ k <= a + n
      /\ \A k \in Int : a < k /\ k <= a + n /\ ~Solid(s, k) => Solid(s, k - 1)
      /\ a \in Int /\ a + 1 \in Starts(s)
  BY CoreFacts
<1>2. b \in Int /\ \A k \in Starts(t) : k \in Int
  BY CoreFacts
<1>3. f[a + 1] = b + 1
  BY FirstLabel
<1> SUFFICES ASSUME Off # {} PROVE FALSE
  OBVIOUS
<1>4. PICK i \in Off : \A k \in Off : i <= k
  <2>1. \A k \in Off : k \in Int /\ a <= k
    BY <1>1
  <2> HIDE DEF Off
  <2> QED BY <1>1, <2>1, HasLeast
<1>5. i \in Starts(s) /\ i \in Int /\ a < i /\ i <= a + n /\ f[i] # i + (b - a)
  BY <1>1, <1>4
<1>6. i # a + 1
  BY <1>1, <1>2, <1>3, <1>5
<1>7. i - 1 \in Int /\ a < i - 1 /\ i - 1 <= a + n /\ ~Solid(s, i - 1)
  <2>1. n \in Int
    BY CoreFacts
  <2> QED BY <1>1, <1>5, <1>6, <2>1
<1>8. Solid(s, i - 2)
  <2>1. Solid(s, (i - 1) - 1)
    BY <1>1, <1>7
  <2>2. (i - 1) - 1 = i - 2
    BY <1>5
  <2> QED BY <2>1, <2>2
<1>9. PICK h \in Starts(s) : h <= i - 2 /\ \A k \in h..(i - 2) : Solid(s, k)
  BY <1>8, LabelBegins
<1>10. h \in Int /\ h < i - 1 /\ h < i
  BY <1>1, <1>5, <1>9
<1>11. f[i] - f[h] = i - h
  BY <1>5, <1>7, <1>9, <1>10, NextLabel
<1>12. f[h] = h + (b - a)
  <2>1. h \notin Off
    BY <1>4, <1>5, <1>10
  <2> QED BY <2>1
<1>13. f[i] \in Int
  BY <1>2, <1>5 DEF Spelling
<1> QED BY <1>1, <1>2, <1>5, <1>10, <1>11, <1>12, <1>13

\* What stands in a label of s stands in t at the same distance.
LEMMA SameChars ==
  ASSUME NEW s \in Text, NEW t \in Text, NEW a, NEW n, Core(s, a, n), NEW b, NEW m, Core(t, b, m),
         SameName(s, t)
  PROVE  \A i \in Int : Solid(s, a + i) =>
           Solid(t, b + i) /\ Lower(s)[a + i] = Lower(t)[b + i]
<1> SUFFICES ASSUME NEW i \in Int, Solid(s, a + i)
             PROVE  Solid(t, b + i) /\ Lower(s)[a + i] = Lower(t)[b + i]
  OBVIOUS
<1>1. PICK f : Spelling(s, t, f)
  BY Zenon DEF SameName, SameLabels, Spelling
<1>2. a \in Int /\ \A k \in Starts(s) : k \in Int
  BY CoreFacts
<1>3. b \in Int
  BY CoreFacts
<1>4. PICK h \in Starts(s) : h <= a + i /\ \A k \in h..(a + i) : Solid(s, k)
  BY LabelBegins
<1>5. f[h] = h + (b - a) /\ SameLabel(s, h, t, f[h])
  BY <1>1, Aligned DEF Spelling
<1>6. SameLabel(s, h, t, h + (b - a))
  BY <1>5
<1>7. PICK l \in DOMAIN s :
        /\ \A k \in 0..(l - 1) : /\ Solid(s, h + k) /\ Solid(t, h + (b - a) + k)
                                 /\ Lower(s)[h + k] = Lower(t)[h + (b - a) + k]
        /\ ~Solid(s, h + l)
  BY <1>6 DEF SameLabel
<1>8. l \in Int /\ h \in Int /\ l >= 1
  <2>1. l \in 1..Len(s) /\ Len(s) \in Nat
    BY DEF Text
  <2> QED BY <1>2, <2>1
<1>9. a + i < h + l
  <2> SUFFICES ASSUME h + l <= a + i PROVE FALSE
    BY <1>2, <1>8
  <2>1. h + l \in h..(a + i)
    BY <1>2, <1>8
  <2> QED BY <1>4, <1>7, <2>1
<1>10. a + i - h \in 0..(l - 1) /\ h + (a + i - h) = a + i /\ h + (b - a) + (a + i - h) = b + i
  BY <1>2, <1>3, <1>4, <1>8, <1>9
<1> QED BY <1>7, <1>10

\* The same the other way round.
LEMMA SameCharsBack ==
  ASSUME NEW s \in Text, NEW t \in Text, NEW a, NEW n, Core(s, a, n), NEW b, NEW m, Core(t, b, m),
         SameName(s, t)
  PROVE  \A i \in Int : Solid(t, b + i) => Solid(s, a + i)
<1>1. SameName(t, s)
  BY SameNameSymmetric
<1> QED BY ONLY s \in Text, t \in Text, Core(t, b, m), Core(s, a, n), <1>1, SameChars

\* Two spellings of one valid name have one canonical form.
LEMMA SameNameSameCanonical ==
  ASSUME NEW s \in Text, NEW t \in Text, NEW wild \in BOOLEAN,
         ValidDnsName(CanonicalDnsName(s), wild), ValidDnsName(CanonicalDnsName(t), wild),
         SameName(s, t)
  PROVE  CanonicalDnsName(s) = CanonicalDnsName(t)
<1> DEFINE c == CanonicalDnsName(s)
           d == CanonicalDnsName(t)
<1>1. PICK a \in Nat : Cut(s, a, c) /\ Core(s, a, Len(c))
  BY CoreOf
<1>2. PICK b \in Nat : Cut(t, b, d) /\ Core(t, b, Len(d))
  BY CoreOf
<1> HIDE DEF c, d
<1>3. c \in Text /\ \A i \in 1..Len(c) : c[i] = Lower(s)[a + i]
  BY <1>1 DEF Cut
<1>4. d \in Text /\ \A i \in 1..Len(d) : d[i] = Lower(t)[b + i]
  BY <1>2 DEF Cut
<1>5. /\ Len(c) \in Nat /\ Len(c) >= 1 /\ Solid(s, a + Len(c)) /\ a + Len(c) <= Len(s) /\ Len(s) \in Nat
      /\ \A k : Solid(s, k) => k <= a + Len(c)
      /\ \A k \in Int : a < k /\ k <= a + Len(c) /\ ~Solid(s, k) => s[k] = "."
  BY <1>1, CoreFacts
<1>6. /\ Len(d) \in Nat /\ Len(d) >= 1 /\ Solid(t, b + Len(d)) /\ b + Len(d) <= Len(t) /\ Len(t) \in Nat
      /\ \A k : Solid(t, k) => k <= b + Len(d)
      /\ \A k \in Int : b < k /\ k <= b + Len(d) /\ ~Solid(t, k) => t[k] = "."
  BY <1>2, CoreFacts
<1>7. \A i \in Int : Solid(s, a + i) => Solid(t, b + i) /\ Lower(s)[a + i] = Lower(t)[b + i]
  BY <1>1, <1>2, SameChars
<1>8. \A i \in Int : Solid(t, b + i) => Solid(s, a + i)
  <2> SUFFICES ASSUME NEW i \in Int, Solid(t, b + i) PROVE Solid(s, a + i)
    OBVIOUS
  <2> QED BY <1>1, <1>2, SameCharsBack
<1>9. Len(c) = Len(d)
  <2>1. b + Len(c) <= b + Len(d)
    BY <1>5, <1>6, <1>7
  <2>2. a + Len(d) <= a + Len(c)
    BY <1>5, <1>6, <1>8
  <2> QED BY <1>5, <1>6, <2>1, <2>2
<1>10. \A i \in 1..Len(c) : c[i] = d[i]
  <2> SUFFICES ASSUME NEW i \in 1..Len(c) PROVE Lower(s)[a + i] = Lower(t)[b + i]
    BY <1>3, <1>4, <1>9
  <2>1. i \in Int
    OBVIOUS
  <2>2. CASE Solid(s, a + i)
    BY <1>7, <2>1, <2>2
  <2>3. CASE ~Solid(s, a + i)
    <3>1. ~Solid(t, b + i)
      BY <1>8, <2>1, <2>3
    <3>2. /\ a + i \in Int /\ a < a + i /\ a + i <= a + Len(c)
          /\ b + i \in Int /\ b < b + i /\ b + i <= b + Len(d)
      BY <1>5, <1>6, <1>9
    <3>3. s[a + i] = "." /\ t[b + i] = "."
      BY <1>5, <1>6, <2>3, <3>1, <3>2
    <3>4. a + i \in DOMAIN s /\ b + i \in DOMAIN t
      <4>1. a + i \in 1..Len(s) /\ b + i \in 1..Len(t)
        BY <1>5, <1>6, <3>2
      <4> QED BY <4>1 DEF Text
    <3> QED BY <3>3, <3>4, LowerText
  <2> QED BY <2>2, <2>3
<1>11. c = d
  BY <1>3, <1>4, <1>9, <1>10, SeqEqual DEF Text
<1> QED BY <1>11 DEF c, d

\* A text that ends, from a place on where a label may start, in the characters of s
\* has the labels of s at its end.
LEMMA ShiftAlike ==
  ASSUME NEW s \in Text, NEW t \in Text, NEW a, NEW n, Core(s, a, n), NEW b, NEW m, Core(t, b, m),
         NEW d \in Int, a + n + d = b + m, b <= a + d, ~Solid(t, a + d),
         \A i \in 1..n : Lower(s)[a + i] = Lower(t)[a + i + d]
  PROVE  /\ SameLabels(s, Starts(s), t, {j \in Starts(t) : j >= a + 1 + d})
         /\ a + 1 + d \in Starts(t)
<1> DEFINE B == {j \in Starts(t) : j >= a + 1 + d}
<1>1. /\ a \in Nat /\ n \in Nat /\ n >= 1 /\ a + n <= Len(s) /\ Len(s) \in Nat
      /\ \A i : Solid(s, i) => i \in Int /\ a < i /\ i <= a + n
      /\ \A i \in Starts(s) : i \in Int /\ Solid(s, i) /\ ~Solid(s, i - 1)
      /\ \A i \in Int : Solid(s, i) /\ ~Solid(s, i - 1) => i \in Starts(s)
      /\ a + 1 \in Starts(s)
  BY CoreFacts
<1>2. /\ b \in Nat /\ m \in Nat /\ m >= 1 /\ b + m <= Len(t) /\ Len(t) \in Nat
      /\ \A i : Solid(t, i) => i \in Int /\ b < i /\ i <= b + m
      /\ \A i \in Starts(t) : i \in Int /\ Solid(t, i) /\ ~Solid(t, i - 1)
      /\ \A i \in Int : Solid(t, i) /\ ~Solid(t, i - 1) => i \in Starts(t)
  BY CoreFacts
<1>3. \A i \in Int : a < i /\ i <= a + n => Lower(s)[i] = Lower(t)[i + d]
  <2> SUFFICES ASSUME NEW i \in Int, a < i, i <= a + n PROVE Lower(s)[i] = Lower(t)[i + d]
    OBVIOUS
  <2>1. i - a \in 1..n /\ a + (i - a) = i
    BY <1>1
  <2> QED BY <2>1
<1>4. \A i \in Int : a <= i => (Solid(s, i) <=> Solid(t, i + d))
  <2> SUFFICES ASSUME NEW i \in Int, a <= i PROVE Solid(s, i) <=> Solid(t, i + d)
    OBVIOUS
  <2>1. CASE i = a
    BY <1>1, <2>1
  <2>2. CASE i > a + n
    <3>1. ~(i <= a + n) /\ ~(i + d <= b + m)
      BY <1>1, <1>2, <2>2
    <3> QED BY <1>1, <1>2, <3>1
  <2>3. CASE a < i /\ i <= a + n
    <3>1. i \in DOMAIN s /\ i + d \in DOMAIN t
      <4>1. i \in 1..Len(s) /\ i + d \in 1..Len(t)
        BY <1>1, <1>2, <2>3
      <4> QED BY <4>1 DEF Text
    <3>2. Lower(s)[i] = Lower(t)[i + d]
      BY <1>3, <2>3
    <3>3. /\ Lower(s)[i] = "." <=> s[i] = "."
          /\ Lower(s)[i] = "blank" <=> s[i] = "blank"
      BY <3>1, LowerText
    <3>4. /\ Lower(t)[i + d] = "." <=> t[i + d] = "."
          /\ Lower(t)[i + d] = "blank" <=> t[i + d] = "blank"
      BY <3>1, LowerText
    <3> QED BY <3>1, <3>2, <3>3, <3>4 DEF Solid
  <2> QED BY <1>1, <2>1, <2>2, <2>3
<1>5. \A i \in Starts(s) : i + d \in B
  <2> SUFFICES ASSUME NEW i \in Starts(s) PROVE i + d \in B
    OBVIOUS
  <2>1. i \in Int /\ a < i /\ Solid(s, i) /\ ~Solid(s, i - 1)
    BY <1>1
  <2>2. Solid(t, i + d) /\ ~Solid(t, (i - 1) + d)
    <3>1. a <= i /\ a <= i - 1 /\ i - 1 \in Int
      BY <1>1, <2>1
    <3> QED BY <1>4, <2>1, <3>1
  <2>3. i + d \in Int /\ (i - 1) + d = (i + d) - 1 /\ i + d >= a + 1 + d
    BY <1>1, <2>1
  <2> QED BY <1>2, <2>2, <2>3
<1>6. \A j \in B : j - d \in Starts(s) /\ (j - d) + d = j
  <2> SUFFICES ASSUME NEW j \in B PROVE j - d \in Starts(s) /\ (j - d) + d = j
    OBVIOUS
  <2>1. j \in Int /\ Solid(t, j) /\ ~Solid(t, j - 1) /\ j >= a + 1 + d
    BY <1>2
  <2>2. /\ j - d \in Int /\ (j - d) - 1 \in Int /\ a <= (j - d) - 1 /\ a <= j - d
        /\ (j - d) + d = j /\ ((j - d) - 1) + d = j - 1
    BY <1>1, <2>1
  <2>3. Solid(s, j - d) /\ ~Solid(s, (j - d) - 1)
    BY <1>4, <2>1, <2>2
  <2> QED BY <1>1, <2>2, <2>3
<1>7. \A i \in Starts(s) : SameLabel(s, i, t, i + d)
  <2> SUFFICES ASSUME NEW i \in Starts(s) PROVE SameLabel(s, i, t, i + d)
    OBVIOUS
  <2>1. i \in Int /\ a < i /\ Solid(s, i)
    BY <1>1
  <2>2. PICK l \in DOMAIN s : (\A k \in 0..(l - 1) : Solid(s, i + k)) /\ ~Solid(s, i + l)
    BY <2>1, LabelEnds
  <2>3. l \in Int /\ l >= 1
    <3>1. l \in 1..Len(s)
      BY DEF Text
    <3> QED BY <1>1, <3>1
  <2>4. ASSUME NEW k \in 0..(l - 1)
        PROVE  Solid(s, i + k) /\ Solid(t, i + d + k) /\ Lower(s)[i + k] = Lower(t)[i + d + k]
    <3>1. Solid(s, i + k)
      BY <2>2
    <3>2. i + k \in Int /\ a < i + k /\ i + k <= a + n /\ a <= i + k /\ (i + k) + d = i + d + k
      <4>1. i + k <= a + n
        BY <1>1, <3>1
      <4> QED BY <1>1, <2>1, <2>3, <4>1
    <3>3. Solid(t, (i + k) + d) /\ Lower(s)[i + k] = Lower(t)[(i + k) + d]
      BY <1>3, <1>4, <3>1, <3>2
    <3> QED BY <3>1, <3>2, <3>3
  <2>5. ~Solid(t, i + d + l)
    <3>1. i + l \in Int /\ a <= i + l /\ (i + l) + d = i + d + l
      BY <1>1, <2>1, <2>3
    <3>2. ~Solid(t, (i + l) + d)
      BY <1>4, <2>2, <3>1
    <3> QED BY <3>1, <3>2
  <2> QED BY <2>2, <2>4, <2>5 DEF SameLabel
<1> DEFINE A == Starts(s)
<1> HIDE DEF A, B
<1> DEFINE f == [i \in A |-> i + d]
<1>8. f \in [A -> B]
  BY <1>5 DEF A
<1>9. \A j \in B : \E i \in A : f[i] = j
  BY <1>6 DEF A
<1>10. \A i, k \in A : i < k <=> f[i] < f[k]
  BY <1>1 DEF A
<1>11. \A i \in A : SameLabel(s, i, t, f[i])
  BY <1>7 DEF A
<1> HIDE DEF f
<1>12. SameLabels(s, A, t, B)
  BY <1>8, <1>9, <1>10, <1>11, Zenon DEF SameLabels
<1>13. (a + 1) + d \in Starts(t)
  BY <1>1, <1>5 DEF B
<1> QED BY <1>12, <1>13 DEF A, B

\* Texts with one canonical form are spellings of one name.
LEMMA SameCanonicalSameName ==
  ASSUME NEW s \in Text, NEW t \in Text, NEW wild \in BOOLEAN,
         ValidDnsName(CanonicalDnsName(s), wild), CanonicalDnsName(s) = CanonicalDnsName(t)
  PROVE  SameName(s, t) /\ LiesIn(t, s)
<1> DEFINE c == CanonicalDnsName(s)
<1>1. PICK a \in Nat : Cut(s, a, c) /\ Core(s, a, Len(c))
  BY CoreOf
<1>2. PICK b \in Nat : Cut(t, b, c) /\ Core(t, b, Len(c))
  BY CoreOf
<1> HIDE DEF c
<1>3. /\ Len(c) \in Nat /\ \A i : Solid(t, i) => b < i
      /\ \A i \in Starts(t) : i \in Int /\ Solid(t, i)
  BY <1>2, CoreFacts
<1>4. \A i \in 1..Len(c) : Lower(s)[a + i] = Lower(t)[a + i + (b - a)]
  <2> SUFFICES ASSUME NEW i \in 1..Len(c) PROVE Lower(s)[a + i] = Lower(t)[a + i + (b - a)]
    OBVIOUS
  <2>1. c[i] = Lower(s)[a + i]
    BY <1>1 DEF Cut
  <2>2. c[i] = Lower(t)[b + i]
    BY <1>2 DEF Cut
  <2>3. a + i + (b - a) = b + i
    BY <1>3
  <2> QED BY <2>1, <2>2, <2>3
<1>5. /\ b - a \in Int /\ a + Len(c) + (b - a) = b + Len(c) /\ b <= a + (b - a)
      /\ ~Solid(t, a + (b - a)) /\ a + 1 + (b - a) = b + 1
  <2>1. a + (b - a) = b /\ ~(b < b)
    OBVIOUS
  <2> QED BY <1>3, <2>1
<1>6. /\ SameLabels(s, Starts(s), t, {j \in Starts(t) : j >= b + 1})
      /\ b + 1 \in Starts(t)
  <2> DEFINE d == b - a
  <2>1. d \in Int /\ a + Len(c) + d = b + Len(c) /\ b <= a + d /\ ~Solid(t, a + d)
    BY <1>5
  <2>2. \A i \in 1..Len(c) : Lower(s)[a + i] = Lower(t)[a + i + d]
    BY <1>4
  <2>3. a + 1 + d = b + 1
    BY <1>5
  <2>4. Core(s, a, Len(c)) /\ Core(t, b, Len(c))
    BY <1>1, <1>2
  <2> HIDE DEF d
  <2>5. /\ SameLabels(s, Starts(s), t, {j \in Starts(t) : j >= a + 1 + d})
        /\ a + 1 + d \in Starts(t)
    BY <2>1, <2>2, <2>4, ShiftAlike, Zenon
  <2> QED BY <2>3, <2>5
<1>7. {j \in Starts(t) : j >= b + 1} = Starts(t)
  BY <1>3
<1>8. SameName(s, t)
  BY <1>6, <1>7 DEF SameName
<1>9. LiesIn(t, s)
  BY <1>6, Zenon DEF LiesIn
<1> QED BY <1>8, <1>9

\* What ends_with compares.
LEMMA SuffixShape ==
  ASSUME NEW z \in Text, NEW c \in Text, IsSuffix(<<".">> \o z, c)
  PROVE  /\ Len(z) + 1 <= Len(c) /\ c[Len(c) - Len(z)] = "."
         /\ \A i \in 1..Len(z) : c[Len(c) - Len(z) + i] = z[i]
<1> DEFINE e == <<".">> \o z
<1>1. z \in Seq(Character) /\ c \in Seq(Character) /\ Len(z) \in Nat /\ Len(c) \in Nat
  BY DEF Text
<1>2. <<".">> \in Seq(Character) /\ Len(<<".">>) = 1 /\ <<".">>[1] = "."
  BY DEF Character
<1>3. /\ e \in Seq(Character) /\ Len(e) = Len(z) + 1 /\ e[1] = "."
      /\ \A i \in 1..Len(z) : e[i + 1] = z[i]
  BY <1>1, <1>2
<1> HIDE DEF e
<1> DEFINE p == Len(z)
           q == Len(c)
           P == Reverse(e)
           Q == Reverse(c)
<1>4. /\ P \in Seq(Character) /\ Len(P) = p + 1
      /\ \A k \in 1..(p + 1) : P[k] = e[(p + 1) - k + 1]
  <2>1. \A k \in 1..(p + 1) : (p + 1) - k + 1 \in 1..(p + 1)
    BY <1>1
  <2>2. \A k \in 1..(p + 1) : e[k] \in Character
    BY <1>3
  <2>3. P = [k \in 1..(p + 1) |-> e[(p + 1) - k + 1]]
    BY <1>3 DEF Reverse
  <2>4. P \in [1..(p + 1) -> Character] /\ p + 1 \in Nat
    BY <1>1, <2>1, <2>2, <2>3
  <2>5. \A k \in 1..(p + 1) : P[k] = e[(p + 1) - k + 1]
    BY <2>3
  <2> DEFINE l == p + 1
  <2>6. P \in [1..l -> Character] /\ l \in Nat
    BY <2>4
  <2> HIDE DEF P, p, l
  <2>7. P \in Seq(Character) /\ Len(P) = l
    BY <2>6
  <2> QED BY <2>5, <2>7 DEF l
<1>5. /\ Q \in Seq(Character) /\ Len(Q) = q
      /\ \A k \in 1..q : Q[k] = c[q - k + 1]
  <2>1. \A k \in 1..q : q - k + 1 \in 1..q
    BY <1>1
  <2>2. \A k \in 1..q : c[k] \in Character
    BY <1>1
  <2>3. Q = [k \in 1..q |-> c[q - k + 1]]
    BY DEF Reverse
  <2>4. Q \in [1..q -> Character] /\ q \in Nat
    BY <1>1, <2>1, <2>2, <2>3
  <2> HIDE DEF Q, q
  <2> QED BY <2>3, <2>4
<1>6. Len(P) <= Len(Q) /\ SubSeq(P, 1, Len(P)) = SubSeq(Q, 1, Len(P))
  BY DEF IsSuffix, IsPrefix, e
<1>7. p \in Nat /\ q \in Nat
  BY <1>1
<1> HIDE DEF P, Q, p, q
<1>8. p + 1 <= q
  BY <1>4, <1>5, <1>6
<1>9. \A k \in 1..(p + 1) : P[k] = Q[k]
  <2> SUFFICES ASSUME NEW k \in 1..(p + 1) PROVE P[k] = Q[k]
    OBVIOUS
  <2>1. /\ 1 \in Int /\ p + 1 \in Int /\ 1 <= p + 1 /\ k \in 1..((p + 1) - 1 + 1) /\ 1 + k - 1 = k
    BY <1>7
  <2>2. SubSeq(P, 1, p + 1)[k] = P[1 + k - 1]
    <3>1. \A i \in 1..(p + 1) : P[i] \in Character
      BY <1>4
    <3> QED BY <2>1, <3>1, SubSeqProperties
  <2>3. SubSeq(Q, 1, p + 1)[k] = Q[1 + k - 1]
    <3>1. \A i \in 1..(p + 1) : Q[i] \in Character
      BY <1>5, <1>7, <1>8
    <3> QED BY <2>1, <3>1, SubSeqProperties
  <2> QED BY <1>4, <1>6, <2>1, <2>2, <2>3
<1>10. \A j \in 1..(p + 1) : c[q - (p + 1) + j] = e[j]
  <2> SUFFICES ASSUME NEW j \in 1..(p + 1) PROVE c[q - (p + 1) + j] = e[j]
    OBVIOUS
  <2> DEFINE k == (p + 1) - j + 1
  <2>1. k \in 1..(p + 1) /\ k \in 1..q /\ (p + 1) - k + 1 = j /\ q - k + 1 = q - (p + 1) + j
    BY <1>7, <1>8
  <2> HIDE DEF k
  <2> QED BY <1>4, <1>5, <1>9, <2>1
<1>11. c[q - p] = "."
  <2>1. 1 \in 1..(p + 1) /\ q - (p + 1) + 1 = q - p
    BY <1>7
  <2> QED BY <1>3, <1>10, <2>1
<1>12. \A i \in 1..p : c[q - p + i] = z[i]
  <2> SUFFICES ASSUME NEW i \in 1..p PROVE c[q - p + i] = z[i]
    OBVIOUS
  <2>1. i + 1 \in 1..(p + 1) /\ q - (p + 1) + (i + 1) = q - p + i
    BY <1>7
  <2>2. e[i + 1] = z[i]
    BY <1>3 DEF p
  <2> QED BY <1>10, <2>1, <2>2
<1> QED BY <1>8, <1>11, <1>12 DEF p, q

\* A name whose canonical form belongs to that of a zone lies in it.
LEMMA BelongsMeansLiesIn ==
  ASSUME NEW name \in Text, NEW zone \in Text,
         ValidDnsName(CanonicalDnsName(zone), FALSE), ValidDnsName(CanonicalDnsName(name), TRUE),
         BelongsTo(CanonicalDnsName(name), CanonicalDnsName(zone))
  PROVE  LiesIn(name, zone)
<1> DEFINE c == CanonicalDnsName(name)
           z == CanonicalDnsName(zone)
<1>1. CASE c = z
  BY <1>1, SameCanonicalSameName
<1>2. CASE IsSuffix(<<".">> \o z, c)
  <2>1. PICK a \in Nat : Cut(zone, a, z) /\ Core(zone, a, Len(z))
    BY CoreOf
  <2>2. PICK b \in Nat : Cut(name, b, c) /\ Core(name, b, Len(c))
    BY CoreOf
  <2> HIDE DEF c, z
  <2> DEFINE n == Len(z)
             m == Len(c)
  <2>3. /\ z \in Text /\ c \in Text
        /\ \A i \in 1..n : z[i] = Lower(zone)[a + i]
        /\ \A i \in 1..m : c[i] = Lower(name)[b + i]
    BY <2>1, <2>2 DEF Cut
  <2>4. /\ n + 1 <= m /\ c[m - n] = "."
        /\ \A i \in 1..n : c[m - n + i] = z[i]
    BY <1>2, <2>3, SuffixShape
  <2>5. n \in Nat /\ n >= 1
    BY <2>1, CoreFacts
  <2>6. m \in Nat /\ b + m <= Len(name) /\ Len(name) \in Nat /\ DOMAIN name = 1..Len(name)
    <3>1. m \in Nat /\ b + m <= Len(name) /\ Len(name) \in Nat
      BY <2>2, CoreFacts
    <3> QED BY <3>1 DEF Text
  <2>7. Core(zone, a, n) /\ Core(name, b, m)
    BY <2>1, <2>2
  <2> HIDE DEF n, m
  <2> DEFINE d == b + m - n - a
  <2>8. d \in Int /\ a + n + d = b + m /\ b <= a + d /\ a + d = b + (m - n)
    BY <2>4, <2>5, <2>6
  <2>9. ~Solid(name, a + d)
    <3>1. m - n \in 1..m /\ b + (m - n) \in DOMAIN name
      BY <2>4, <2>5, <2>6
    <3>2. Lower(name)[b + (m - n)] = "."
      BY <2>3, <2>4, <3>1
    <3>3. name[b + (m - n)] = "."
      BY <3>1, <3>2, LowerText
    <3> QED BY <2>8, <3>3 DEF Solid
  <2>10. \A i \in 1..n : Lower(zone)[a + i] = Lower(name)[a + i + d]
    <3> SUFFICES ASSUME NEW i \in 1..n PROVE Lower(zone)[a + i] = Lower(name)[a + i + d]
      OBVIOUS
    <3>1. m - n + i \in 1..m /\ b + (m - n + i) = a + i + d
      BY <2>4, <2>5, <2>6
    <3> HIDE DEF d
    <3> QED BY <2>3, <2>4, <3>1
  <2> HIDE DEF d
  <2>11. /\ SameLabels(zone, Starts(zone), name, {j \in Starts(name) : j >= a + 1 + d})
         /\ a + 1 + d \in Starts(name)
    BY <2>7, <2>8, <2>9, <2>10, ShiftAlike, Zenon
  <2> QED BY <2>11, Zenon DEF LiesIn
<1> QED BY <1>1, <1>2 DEF BelongsTo

-----------------------------------------------------------------------------
(* Accepted configurations *)

\* What Config::canonicalize makes of the records, and what it leaves alone.
LEMMA CanonicalFields ==
  ASSUME NEW raw \in RawConfig
  PROVE  /\ raw.records \in Seq(RawRecord)
         /\ Canonicalize(raw).discovery = raw.discovery
         /\ DOMAIN Canonicalize(raw).records = DOMAIN raw.records
         /\ \A i \in DOMAIN raw.records :
              /\ raw.records[i] \in RawRecord
              /\ Canonicalize(raw).records[i].zone = CanonicalDnsName(raw.records[i].zone)
              /\ Canonicalize(raw).records[i].name = CanonicalDnsName(raw.records[i].name)
              /\ Canonicalize(raw).records[i].type = raw.records[i].type
<1>1. raw.records \in Seq(RawRecord)
  BY DEF RawConfig
<1>2. \A i \in DOMAIN raw.records : raw.records[i] \in RawRecord
  BY <1>1
<1>3. Canonicalize(raw).discovery = raw.discovery
  BY DEF Canonicalize, RawConfig
<1>4. Canonicalize(raw).records =
        [i \in DOMAIN raw.records |->
           [raw.records[i] EXCEPT !.zone = CanonicalDnsName(@), !.name = CanonicalDnsName(@),
                                  !.zoneId = CanonicalId(@)]]
  BY DEF Canonicalize, RawConfig
<1>5. ASSUME NEW i \in DOMAIN raw.records
      PROVE  LET r == [raw.records[i] EXCEPT !.zone = CanonicalDnsName(@),
                                             !.name = CanonicalDnsName(@),
                                             !.zoneId = CanonicalId(@)]
             IN /\ r.zone = CanonicalDnsName(raw.records[i].zone)
                /\ r.name = CanonicalDnsName(raw.records[i].name)
                /\ r.type = raw.records[i].type
  <2>1. raw.records[i] \in RawRecord
    BY <1>2
  <2> QED BY <2>1 DEF RawRecord
<1> QED BY <1>1, <1>2, <1>3, <1>4, <1>5

\* What Config::validate makes sure of for every record of an accepted configuration.
LEMMA AcceptedRecords ==
  ASSUME NEW raw \in Accepted, NEW i \in DOMAIN raw.records
  PROVE  LET record == raw.records[i]
             zone == CanonicalDnsName(record.zone)
             name == CanonicalDnsName(record.name)
         IN /\ record.zone \in Text /\ record.name \in Text /\ record.type \in {"A", "AAAA"}
            /\ CanonicalDnsName(zone) = zone /\ CanonicalDnsName(name) = name
            /\ ValidDnsName(zone, FALSE) /\ ValidDnsName(name, TRUE) /\ BelongsTo(name, zone)
            /\ FamilyEnabled(raw, record.type)
            /\ ValidDiscovery(raw.discovery[FamilyOfType(record.type)])
<1> DEFINE canonical == Canonicalize(raw)
           r == canonical.records[i]
<1>1. raw \in RawConfig /\ Validate(canonical)
  BY StartupAssumption DEF Accepted
<1>2. /\ canonical.discovery = raw.discovery /\ i \in DOMAIN canonical.records
      /\ raw.records[i] \in RawRecord
      /\ r.zone = CanonicalDnsName(raw.records[i].zone)
      /\ r.name = CanonicalDnsName(raw.records[i].name)
      /\ r.type = raw.records[i].type
  BY <1>1, CanonicalFields
<1> HIDE DEF canonical
<1>3. /\ ValidRecord(r) /\ FamilyEnabled(canonical, r.type)
      /\ \A f \in {"v4", "v6"} : ValidDiscovery(canonical.discovery[f])
  BY <1>1, <1>2 DEF Validate
<1>4. /\ r.zone = CanonicalDnsName(r.zone) /\ r.name = CanonicalDnsName(r.name)
      /\ ValidDnsName(r.zone, FALSE) /\ ValidDnsName(r.name, TRUE) /\ BelongsTo(r.name, r.zone)
  BY <1>3 DEF ValidRecord
<1>5. /\ raw.records[i].zone \in Text /\ raw.records[i].name \in Text
      /\ raw.records[i].type \in {"A", "AAAA"}
  BY <1>2 DEF RawRecord
<1>6. FamilyEnabled(raw, raw.records[i].type)
  BY <1>2, <1>3 DEF FamilyEnabled
<1>7. ValidDiscovery(raw.discovery[FamilyOfType(raw.records[i].type)])
  BY <1>2, <1>3, <1>5 DEF FamilyOfType
<1> QED BY <1>2, <1>4, <1>5, <1>6, <1>7

\* The keys under which validate looks for duplicates are all different.
LEMMA AcceptedKeys ==
  ASSUME NEW raw \in Accepted, NEW i \in DOMAIN raw.records, NEW j \in DOMAIN raw.records,
         raw.records[i].type = raw.records[j].type,
         CanonicalDnsName(raw.records[i].zone) = CanonicalDnsName(raw.records[j].zone),
         CanonicalDnsName(raw.records[i].name) = CanonicalDnsName(raw.records[j].name)
  PROVE  i = j
<1> DEFINE records == Canonicalize(raw).records
<1>1. raw \in RawConfig /\ Validate(Canonicalize(raw))
  BY StartupAssumption DEF Accepted
<1>2. /\ raw.records \in Seq(RawRecord)
      /\ DOMAIN records = DOMAIN raw.records
      /\ \A k \in DOMAIN raw.records :
           /\ records[k].zone = CanonicalDnsName(raw.records[k].zone)
           /\ records[k].name = CanonicalDnsName(raw.records[k].name)
           /\ records[k].type = raw.records[k].type
  BY <1>1, CanonicalFields
<1>3. \A k \in DOMAIN records : \A l \in 1..(k - 1) : RecordKey(records[l]) # RecordKey(records[k])
  BY <1>1 DEF Validate
<1> HIDE DEF records
<1>4. RecordKey(records[i]) = RecordKey(records[j])
  BY <1>2 DEF RecordKey
<1>5. i \in Int /\ j \in Int /\ 1 <= i /\ 1 <= j
  <2>1. DOMAIN raw.records = 1..Len(raw.records) /\ Len(raw.records) \in Nat
    BY <1>2
  <2> QED BY <2>1
<1>6. ~(i < j)
  <2> SUFFICES ASSUME i < j PROVE FALSE
    OBVIOUS
  <2>1. i \in 1..(j - 1)
    BY <1>5
  <2> QED BY <1>2, <1>3, <1>4, <2>1
<1>7. ~(j < i)
  <2> SUFFICES ASSUME j < i PROVE FALSE
    OBVIOUS
  <2>1. j \in 1..(i - 1)
    BY <1>5
  <2> QED BY <1>2, <1>3, <1>4, <2>1
<1> QED BY <1>5, <1>6, <1>7

\* One record has one lock, and another record another one.
LEMMA AcceptedLocks ==
  ASSUME NEW raw \in Accepted
  PROVE  LET records == Canonicalize(raw).records
         IN \A i, j \in DOMAIN records :
              /\ i = j <=> SameResource(raw.records[i], raw.records[j])
              /\ i = j <=> LockKey(records[i]) = LockKey(records[j])
<1> DEFINE records == Canonicalize(raw).records
           zone(k) == CanonicalDnsName(raw.records[k].zone)
           name(k) == CanonicalDnsName(raw.records[k].name)
<1>1. /\ DOMAIN records = DOMAIN raw.records
      /\ \A k \in DOMAIN raw.records : /\ records[k].zone = zone(k) /\ records[k].name = name(k)
                                       /\ records[k].type = raw.records[k].type
  <2>1. raw \in RawConfig
    BY StartupAssumption DEF Accepted
  <2> QED BY <2>1, CanonicalFields
<1>2. \A k \in DOMAIN raw.records :
        /\ raw.records[k].zone \in Text /\ raw.records[k].name \in Text
        /\ CanonicalDnsName(zone(k)) = zone(k) /\ CanonicalDnsName(name(k)) = name(k)
        /\ ValidDnsName(zone(k), FALSE) /\ ValidDnsName(name(k), TRUE)
  BY AcceptedRecords
<1> HIDE DEF records
<1> SUFFICES ASSUME NEW i \in DOMAIN raw.records, NEW j \in DOMAIN raw.records
             PROVE  /\ i = j <=> SameResource(raw.records[i], raw.records[j])
                    /\ i = j <=> LockKey(records[i]) = LockKey(records[j])
  BY <1>1 DEF records
<1>3. SameResource(raw.records[i], raw.records[i])
  <2>1. SameName(raw.records[i].zone, raw.records[i].zone)
    BY <1>2, SameCanonicalSameName
  <2>2. SameName(raw.records[i].name, raw.records[i].name)
    BY <1>2, SameCanonicalSameName
  <2> QED BY <2>1, <2>2 DEF SameResource
<1>4. ASSUME SameResource(raw.records[i], raw.records[j]) PROVE i = j
  <2>1. zone(i) = zone(j)
    BY <1>2, <1>4, SameNameSameCanonical DEF SameResource
  <2>2. name(i) = name(j)
    BY <1>2, <1>4, SameNameSameCanonical DEF SameResource
  <2> QED BY <1>4, <2>1, <2>2, AcceptedKeys DEF SameResource
<1>5. ASSUME LockKey(records[i]) = LockKey(records[j]) PROVE i = j
  <2>1. \A k \in DOMAIN raw.records : LockKey(records[k]) = <<zone(k), raw.records[k].type, name(k)>>
    <3>1. \A text : CanonicalLockName(text) = CanonicalDnsName(text)
      BY DEF CanonicalLockName, CanonicalDnsName
    <3> QED BY <1>1, <1>2, <3>1 DEF LockKey
  <2>2. zone(i) = zone(j) /\ name(i) = name(j) /\ raw.records[i].type = raw.records[j].type
    BY <1>5, <2>1
  <2> QED BY <2>2, AcceptedKeys
<1> QED BY <1>3, <1>4, <1>5

\* The providers of a valid, enabled section: there are some, not too many, all different.
LEMMA ValidProviders ==
  ASSUME NEW discovery \in RawDiscovery, ValidDiscovery(discovery), discovery.enabled
  PROVE  /\ Len(discovery.providers) \in 1..MaxProviders
         /\ Cardinality({provider.url : provider \in ToSet(discovery.providers)})
              = Len(discovery.providers)
<1> DEFINE P == [fault : STRING, url : Nat]
           p == discovery.providers
           urls == {provider.url : provider \in ToSet(p)}
<1>1. p \in Seq(P)
  BY DEF RawDiscovery
<1>2. /\ p # <<>> /\ Len(p) <= MaxProviders
      /\ \A i \in DOMAIN p : \A j \in 1..(i - 1) : p[j].url # p[i].url
  BY DEF ValidDiscovery
<1>3. ToSet(p) = {p[i] : i \in DOMAIN p}
  BY DEF ToSet
<1> HIDE DEF P, p
<1>4. Len(p) \in Nat /\ DOMAIN p = 1..Len(p)
  BY <1>1
<1>5. Len(p) \in 1..MaxProviders
  <2>1. Len(p) # 0
    BY <1>1, <1>2, EmptySeq
  <2>2. MaxProviders \in Nat
    BY ConfigAssumption
  <2> QED BY <1>2, <1>4, <2>1, <2>2
<1> DEFINE n == Len(p)
           f == [i \in 1..n |-> p[i].url]
<1>6. f \in [1..n -> urls] /\ \A u \in urls : \E i \in 1..n : f[i] = u
  BY <1>3, <1>4
<1>7. \A i, j \in 1..n : f[i] = f[j] => i = j
  <2> SUFFICES ASSUME NEW i \in 1..n, NEW j \in 1..n, p[i].url = p[j].url PROVE i = j
    OBVIOUS
  <2>1. ~(i < j)
    <3> SUFFICES ASSUME i < j PROVE FALSE
      OBVIOUS
    <3>1. i \in 1..(j - 1)
      BY <1>4
    <3> QED BY <1>2, <1>4, <3>1
  <2>2. ~(j < i)
    <3> SUFFICES ASSUME j < i PROVE FALSE
      OBVIOUS
    <3>1. j \in 1..(i - 1)
      BY <1>4
    <3> QED BY <1>2, <1>4, <3>1
  <2> QED BY <1>4, <2>1, <2>2
<1>8. IsFiniteSet(1..n) /\ Cardinality(1..n) = n
  <2>1. 1 \in Int /\ n \in Int /\ ~(1 > n) /\ n - 1 + 1 = n
    BY <1>4, <1>5, ConfigAssumption
  <2> QED BY <2>1, FS_Interval
<1> HIDE DEF f, n, urls
<1>9. f \in Surjection(1..n, urls)
  BY <1>6 DEF Surjection
<1>10. f \in Injection(1..n, urls)
  BY <1>6, <1>7 DEF Injection, IsInjective
<1>11. Cardinality(urls) = n
  BY <1>8, <1>9, <1>10, FS_Surjection
<1> QED BY <1>5, <1>11 DEF n, urls, p

\* Every record of an accepted configuration can be updated.
LEMMA AcceptedServable ==
  ASSUME NEW raw \in Accepted, NEW i \in DOMAIN raw.records
  PROVE  Servable(raw.records[i], raw.discovery)
<1> DEFINE record == raw.records[i]
           family == FamilyOfType(record.type)
           section == raw.discovery[family]
<1>1. /\ record.zone \in Text /\ record.name \in Text /\ record.type \in {"A", "AAAA"}
      /\ ValidDnsName(CanonicalDnsName(record.zone), FALSE)
      /\ ValidDnsName(CanonicalDnsName(record.name), TRUE)
      /\ BelongsTo(CanonicalDnsName(record.name), CanonicalDnsName(record.zone))
      /\ FamilyEnabled(raw, record.type) /\ ValidDiscovery(section)
  BY AcceptedRecords
<1>2. LiesIn(record.name, record.zone)
  <2> HIDE DEF record
  <2> QED BY <1>1, BelongsMeansLiesIn
<1>3. section \in RawDiscovery
  <2>1. raw \in RawConfig
    BY StartupAssumption DEF Accepted
  <2>2. raw.discovery \in [{"v4", "v6"} -> RawDiscovery]
    BY <2>1 DEF RawConfig
  <2>3. family \in {"v4", "v6"}
    BY DEF FamilyOfType
  <2> HIDE DEF family
  <2> QED BY <2>2, <2>3
<1>4. section.enabled
  BY <1>1 DEF FamilyEnabled
<1>5. family = IF record.type = "A" THEN "v4" ELSE "v6"
  BY DEF FamilyOfType
<1>6. /\ Len(section.providers) \in 1..MaxProviders
      /\ Cardinality({provider.url : provider \in ToSet(section.providers)})
           = Len(section.providers)
  <2> HIDE DEF section
  <2> QED BY <1>1, <1>3, <1>4, ValidProviders
<1> HIDE DEF record, family
<1> QED BY <1>2, <1>4, <1>5, <1>6 DEF Servable, record

\* What is kept as it was written has been accepted.
GivenAccepted == given \subseteq Accepted

LEMMA GivenAlwaysAccepted == Spec => []GivenAccepted
<1>1. Init => GivenAccepted
  BY DEF Init, GivenAccepted
<1>2. GivenAccepted /\ [Next]_vars => GivenAccepted'
  <2> SUFFICES ASSUME GivenAccepted, [Next]_vars PROVE GivenAccepted'
    OBVIOUS
  <2>0. Accepted' = Accepted
    BY DEF Accepted
  <2>1. CASE given' = {} \/ UNCHANGED given
    BY <2>0, <2>1 DEF GivenAccepted
  <2>2. CASE \E raw \in Accepted : given' = {raw}
    BY <2>0, <2>2 DEF GivenAccepted
  <2>3. ASSUME NEW outcome, Exit(outcome) PROVE given' = {}
    BY <2>3 DEF Exit
  <2>4. CASE Main
    BY <2>1, <2>3, <2>4 DEF Main
  <2>5. CASE OpenConfig \/ OpenToken
    BY <2>1, <2>3, <2>5 DEF OpenConfig, OpenToken, OpenFile
  <2>6. CASE CheckConfig \/ CheckToken
    BY <2>1, <2>3, <2>6 DEF CheckConfig, CheckToken, CheckFile
  <2>7. CASE ReadConfig \/ ReadToken
    BY <2>1, <2>3, <2>7 DEF ReadConfig, ReadToken, ReadFile
  <2>8. CASE Parse
    BY <2>1, <2>2, <2>3, <2>8 DEF Parse
  <2>9. CASE LoadApiToken \/ Secret
    <3>1. ASSUME NEW text, Accept(text) PROVE given' = {} \/ UNCHANGED given
      BY <2>3, <3>1 DEF Accept
    <3> QED BY <2>1, <2>3, <2>9, <3>1 DEF LoadApiToken, Secret
  <2>10. CASE Build
    BY <2>1, <2>3, <2>10 DEF Build
  <2>11. CASE Loaded \/ IoFails \/ RunCommand \/ Replace \/ Write \/ UNCHANGED vars
    BY <2>1, <2>3, <2>11 DEF Loaded, IoFails, RunCommand, Replace, Write, vars
  <2> QED BY <2>4, <2>5, <2>6, <2>7, <2>8, <2>9, <2>10, <2>11 DEF Next, StartUp
<1> QED BY <1>1, <1>2, PTL DEF Spec

\* For every set of configurations, with names of any length in any spelling: no two
\* records of an accepted configuration are one DNS record, and each has a lock of its
\* own (the keys of validate and of resource_lock_hash).
THEOREM OneLockAlways == Spec => []OneLockPerResource
<1>1. GivenAccepted => OneLockPerResource
  BY AcceptedLocks DEF GivenAccepted, OneLockPerResource
<1> QED BY <1>1, GivenAlwaysAccepted, PTL

\* For every set of configurations and token texts: of what was accepted, the
\* constructors refuse exactly a token that does not go with the account id, and every
\* record of an accepted configuration lies in its zone and has providers to ask
\* (validate, validate_record, validate_discovery, build_updater).
THEOREM AcceptedAlwaysUsable == Spec => []AcceptedMeansUsable
<1>1. GivenAccepted /\ Ready => AcceptedMeansUsable
  BY AcceptedServable, ReadyFits DEF GivenAccepted, Ready, AcceptedMeansUsable
<1> QED BY <1>1, GivenAlwaysAccepted, AlwaysReady, PTL
=============================================================================
