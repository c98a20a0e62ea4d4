------------------------------- MODULE Config -------------------------------
(***************************************************************************)
(* What a configuration means and which ones are accepted: canonicalize and *)
(* validate of src/config.rs, the token text, and the identity under which  *)
(* src/updater.rs locks a record.                                           *)
(*                                                                          *)
(* A text is a sequence of characters from a small alphabet in which "a"    *)
(* stands for a letter or digit, "A" for a capital, "blank" for white space *)
(* and "g" for what is no hexadecimal digit.  An Option is a set of at most *)
(* one element.  Which field an error names is left out.                    *)
(***************************************************************************)
EXTENDS Integers, SequencesExt

CONSTANTS
  MaxName,        \* bytes of a DNS name
  MaxLabel,       \* bytes of a label
  IdLength,       \* digits of an account or zone id
  MaxRecords,     \* MAX_RECORDS
  MaxProviders    \* MAX_PROVIDERS_PER_FAMILY

ASSUME ConfigAssumption ==
  /\ {MaxName, MaxLabel, IdLength, MaxRecords, MaxProviders} \subseteq Nat \ {0}
  /\ MaxLabel <= MaxName

-----------------------------------------------------------------------------
\* RecordConfig, IpDiscoveryConfig and Config, as deserialized, with one character
\* for each class of characters that the code tells apart.
Character == {"a", "A", "g", "-", "*", ".", "blank"}
Text == Seq(Character)
RawRecord ==
  [zone : Text, name : Text, type : {"A", "AAAA"}, zoneId : SUBSET Text,
   ttl : Nat, proxied : BOOLEAN]
RawDiscovery == [enabled : BOOLEAN, providers : Seq([fault : STRING, url : Nat])]
RawConfig ==
  [interval : Nat, timeout : Nat, tokenFile : {"absolute", "relative"}, account : SUBSET Text,
   discovery : [{"v4", "v6"} -> RawDiscovery], records : Seq(RawRecord)]

-----------------------------------------------------------------------------
\* Texts

\* str::trim, trim_end_matches('.') and to_ascii_lowercase.
Trim(text) ==
  LET solid == {i \in DOMAIN text : text[i] # "blank"}
  IN IF solid = {} THEN <<>> ELSE SubSeq(text, Min(solid), Max(solid))
TrimEndDots(text) == SubSeq(text, 1, Max({0} \cup {i \in DOMAIN text : text[i] # "."}))
Lower(text) == [i \in DOMAIN text |-> IF text[i] = "A" THEN "a" ELSE text[i]]

\* Mutant of CanonicalDnsName: the case is kept.
CasedCanonicalDnsName(text) == TrimEndDots(Trim(text))

\* canonical_dns_name
CanonicalDnsName(text) == Lower(TrimEndDots(Trim(text)))

\* canonical_lock_name
CanonicalLockName(text) == Lower(TrimEndDots(Trim(text)))

\* How an optional account_id or zone_id is made canonical, and its check.
CanonicalId(option) == {Lower(Trim(text)) : text \in option} \ {<<>>}
IsId(text) == Len(text) = IdLength /\ ToSet(text) \subseteq {"a", "A"}

\* Mutant of ValidId: the digits are not looked at.
LengthOnlyId(option) == \A text \in option : Len(text) = IdLength

ValidId(option) == \A text \in option : text = Lower(Trim(text)) /\ IsId(text)

\* The labels of split('.'): what lies between two cuts next to each other.
Cuts(name) == {0, Len(name) + 1} \cup {i \in DOMAIN name : name[i] = "."}
Adjacent(name, p, q) == p < q /\ (p + 1)..(q - 1) \cap Cuts(name) = {}

ValidLabel(label) ==
  /\ Len(label) \in 1..MaxLabel
  /\ label[1] # "-" /\ label[Len(label)] # "-"
  /\ ToSet(label) \subseteq {"a", "A", "g", "-"}

\* validate_dns_name
ValidDnsName(name, allowWildcard) ==
  /\ Len(name) \in 1..MaxName
  /\ \A p, q \in Cuts(name) : Adjacent(name, p, q) =>
       LET label == SubSeq(name, p + 1, q - 1)
       IN ValidLabel(label) \/ (allowWildcard /\ p = 0 /\ label = <<"*">>)

-----------------------------------------------------------------------------
\* Canonical form and validity

\* Config::canonicalize.  Url::parse trims a provider as well.
Canonicalize(config) ==
  [config EXCEPT
     !.account = CanonicalId(@),
     !.records = [i \in DOMAIN config.records |->
                    [config.records[i] EXCEPT !.zone = CanonicalDnsName(@),
                                              !.name = CanonicalDnsName(@),
                                              !.zoneId = CanonicalId(@)]]]

\* RecordType::family
FamilyOfType(type) == IF type = "A" THEN "v4" ELSE "v6"

\* validate_discovery.  A provider is the URL it is parsed to, with the first
\* thing wrong with it.
ValidDiscovery(discovery) ==
  LET providers == discovery.providers IN
  /\ discovery.enabled => providers # <<>>
  /\ Len(providers) <= MaxProviders
  /\ \A i \in DOMAIN providers :
       /\ providers[i].fault = "none"
       /\ \A j \in 1..(i - 1) : providers[j].url # providers[i].url

\* name == zone || name.ends_with(".zone")
BelongsTo(name, zone) == name = zone \/ IsSuffix(<<".">> \o zone, name)

\* The explicit lifetimes of a record.
Ttls == 60..86400

\* validate_record
ValidRecord(record) ==
  /\ record.zone = CanonicalDnsName(record.zone)
  /\ record.name = CanonicalDnsName(record.name)
  /\ ValidDnsName(record.zone, FALSE)
  /\ ValidDnsName(record.name, TRUE)
  /\ BelongsTo(record.name, record.zone)
  /\ ValidId(record.zoneId)
  /\ record.ttl = 1 \/ record.ttl \in Ttls
  /\ record.proxied => record.ttl = 1

\* The key under which validate looks for duplicates.
RecordKey(record) ==
  <<CanonicalDnsName(record.zone), CanonicalDnsName(record.name), record.type>>

\* The discovery section of the record's family is enabled.
FamilyEnabled(config, type) == config.discovery[FamilyOfType(type)].enabled

\* MIN_INTERVAL_SECONDS to MAX_INTERVAL_SECONDS
Intervals == 60..86400

\* Config::validate
Validate(config) ==
  /\ config.interval \in Intervals
  /\ config.timeout \in 1..120
  /\ config.tokenFile = "absolute"
  /\ ValidId(config.account)
  /\ Len(config.records) \in 1..MaxRecords
  /\ \A f \in {"v4", "v6"} : ValidDiscovery(config.discovery[f])
  /\ \A i \in DOMAIN config.records :
       /\ ValidRecord(config.records[i])
       /\ FamilyEnabled(config, config.records[i].type)
       /\ \A j \in 1..(i - 1) : RecordKey(config.records[j]) # RecordKey(config.records[i])

\* resource_lock_hash, without the hash: what a record is locked under.
LockKey(record) ==
  <<CanonicalLockName(record.zone), record.type, CanonicalLockName(record.name)>>

-----------------------------------------------------------------------------
\* The token

\* secret_from_text, of a text within MAX_TOKEN_BYTES.  "ctl" is a control
\* character; a prefix that Cloudflare gives its credentials is one character.
SecretFromText(text) ==
  LET token == Trim(text)
  IN CASE token = <<>>                              -> [error |-> "EmptyToken", token |-> <<>>]
       [] ToSet(token) \cap {"blank", "ctl"} # {}   -> [error |-> "InvalidToken", token |-> <<>>]
       [] OTHER                                     -> [error |-> "none", token |-> token]

\* has_scannable_credential_prefix
HasScannablePrefix(token) == token[1] \in {"cfat_", "cfut_", "cfk_", "cfother_"}

\* select_verification_target: the target, or the error.
SelectVerificationTarget(token, account) ==
  LET id == CanonicalId(account) IN
  IF \E text \in id : ~IsId(text) THEN "InvalidAccountId"
  ELSE IF token[1] = "cfat_" THEN IF id = {} THEN "AccountIdRequired" ELSE "Account"
  ELSE IF token[1] = "cfut_" THEN IF id = {} THEN "User" ELSE "UserTokenAccountMismatch"
  ELSE IF token[1] = "cfk_" THEN "GlobalApiKeyUnsupported"
  ELSE IF HasScannablePrefix(token) THEN "UnsupportedCredentialType"
  ELSE IF id = {} THEN "User" ELSE "Account"
=============================================================================
