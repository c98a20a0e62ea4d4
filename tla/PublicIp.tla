------------------------------ MODULE PublicIp ------------------------------
(***************************************************************************)
(* Which answers of a provider become the host's public address:            *)
(* query_provider, parse_provider_response and is_public_address of         *)
(* src/public_ip.rs, put together with the attempts of Discovery.  The      *)
(* answers are looked at one by one against a reference: the registries of  *)
(* special-purpose addresses, written as prefixes.                          *)
(*                                                                          *)
(* An address is its first three octets or segments; no rule looks further. *)
(***************************************************************************)
EXTENDS Discovery, Sequences

CONSTANT MaxResponse    \* MAX_RESPONSE_BYTES

ASSUME PublicIpAssumption == MaxResponse \in Nat

VARIABLES
  family,       \* the address family asked for
  last          \* an answer, and whether it was accepted

allVars == <<vars, family, last>>

AddressFamily == {"v4", "v6"}
Width(f) == IF f = "v4" THEN 8 ELSE 16
Address == [family : AddressFamily, part : [1..3 -> Nat]]

\* is_public_ipv4
IsPublicIpv4(a, b, c) ==
  ~ \/ a \in {0, 10, 127} \/ a >= 224
    \/ a = 100 /\ b \in 64..127
    \/ a = 169 /\ b = 254
    \/ a = 172 /\ b \in 16..31
    \/ a = 192 /\ b = 168
    \/ <<a, b, c>> \in {<<192, 0, 0>>, <<192, 0, 2>>, <<192, 88, 99>>, <<192, 31, 196>>,
                        <<192, 52, 193>>, <<192, 175, 48>>, <<198, 51, 100>>, <<203, 0, 113>>}
    \/ a = 198 /\ b \in {18, 19}

\* is_public_ipv6: within 2000::/3, and none of the special blocks there.
IsPublicIpv6(first, second, third) ==
  /\ first \div 8192 = 1
  /\ ~ \/ first = 8193 /\ (second <= 511 \/ second = 3512)
       \/ first = 8194
       \/ first = 9760 /\ second = 79 /\ third = 32768
       \/ first = 16382
       \/ first = 16383 /\ second \div 4096 = 0

\* is_public_address
IsPublicAddress(a) ==
  IF a.family = "v4" THEN IsPublicIpv4(a.part[1], a.part[2], a.part[3])
                     ELSE IsPublicIpv6(a.part[1], a.part[2], a.part[3])
-----------------------------------------------------------------------------
(* Answers *)

\* What a line of an answer says, trimmed: nothing about an address, `ip=' with
\* nothing, with something that is no address, or with an address.  A text of
\* one line may also be an address alone.
Line == {[says |-> "other"], [says |-> "blank"], [says |-> "junk"]}
Ip(a) == [says |-> "ip", addr |-> a]
Plain(a) == [says |-> "plain", addr |-> a]

\* An answer: its status, Content-Length (or 0), how many bytes have arrived with
\* each chunk, encoding and lines.
Reply(ok, declared, arrived, utf8, lines) ==
  [ok |-> ok, declared |-> declared, arrived |-> arrived, utf8 |-> utf8, lines |-> lines]

Rejected(why) == [accepted |-> FALSE, why |-> why]
Accepted(a) == [accepted |-> TRUE, addr |-> a]

\* The family and the publicness of the address an answer gave.
Judge(a, f) ==
  IF a.family # f THEN Rejected("WrongAddressFamily")
  ELSE IF ~IsPublicAddress(a) THEN Rejected("NonPublicAddress")
  ELSE Accepted(a)

\* The lines with a value after `ip='.
Values(lines) == {i \in DOMAIN lines : lines[i].says \in {"ip", "junk"}}

\* What the i-th line has after `ip=', parsed and judged.
Parse(lines, i, f) ==
  IF lines[i].says = "junk" THEN Rejected("MalformedResponse") ELSE Judge(lines[i].addr, f)

\* Mutant of ParseProviderResponse: the first `ip=' line is taken.
FirstLineParse(lines, f) ==
  IF lines = <<>> THEN Rejected("EmptyResponse")
  ELSE IF Len(lines) = 1 /\ lines[1].says = "plain" THEN Judge(lines[1].addr, f)
  ELSE IF Values(lines) = {} THEN Rejected("MalformedResponse")
  ELSE Parse(lines, CHOOSE i \in Values(lines) : \A j \in Values(lines) : i <= j, f)

\* parse_provider_response
ParseProviderResponse(lines, f) ==
  IF lines = <<>> THEN Rejected("EmptyResponse")
  ELSE IF Len(lines) = 1 /\ lines[1].says = "plain" THEN Judge(lines[1].addr, f)
  ELSE IF ~\E i \in DOMAIN lines : Values(lines) = {i} THEN Rejected("MalformedResponse")
  ELSE Parse(lines, CHOOSE i \in DOMAIN lines : Values(lines) = {i}, f)

\* query_provider, from the status on.
QueryProvider(r, f) ==
  IF ~r.ok THEN Rejected("HttpStatus")
  ELSE IF r.declared > MaxResponse THEN Rejected("ResponseTooLarge")
  ELSE IF \E k \in DOMAIN r.arrived : r.arrived[k] > MaxResponse THEN Rejected("ResponseTooLarge")
  ELSE IF ~r.utf8 THEN Rejected("NonUtf8Response")
  ELSE ParseProviderResponse(r.lines, f)
-----------------------------------------------------------------------------
(* The reference: special-purpose addresses, as <<part, part, part, length>> *)

Special(f) ==
  IF f = "v4"
  THEN {<<0, 0, 0, 8>>,         \* this network
        <<10, 0, 0, 8>>, <<172, 16, 0, 12>>, <<192, 168, 0, 16>>,   \* private use
        <<100, 64, 0, 10>>,     \* shared address space
        <<127, 0, 0, 8>>,       \* loopback
        <<169, 254, 0, 16>>,    \* link local
        <<192, 0, 0, 24>>,      \* protocol assignments
        <<192, 0, 2, 24>>, <<198, 51, 100, 24>>, <<203, 0, 113, 24>>, \* documentation
        <<192, 31, 196, 24>>, <<192, 175, 48, 24>>,                 \* AS112
        <<192, 52, 193, 24>>,   \* AMT
        <<192, 88, 99, 24>>,    \* 6to4 relay anycast
        <<198, 18, 0, 15>>,     \* benchmarking
        <<224, 0, 0, 4>>, <<240, 0, 0, 4>>}     \* multicast, reserved
  ELSE {<<0, 0, 0, 3>>, <<16384, 0, 0, 2>>, <<32768, 0, 0, 1>>,     \* not 2000::/3
        <<8193, 0, 0, 23>>,     \* 2001::/23, protocol assignments
        <<8193, 3512, 0, 32>>, <<16383, 0, 0, 20>>,                 \* documentation
        <<8194, 0, 0, 16>>,     \* 6to4
        <<9760, 79, 32768, 48>>,\* AS112
        <<16382, 0, 0, 16>>}    \* 6bone

\* Bits of part k that belong to a prefix of length n, w bits to a part.
Bits(n, k, w) ==
  IF n <= w * (k - 1) THEN 0 ELSE IF n >= w * k THEN w ELSE n - w * (k - 1)

Within(a, prefix) ==
  LET w == Width(a.family)
  IN \A k \in 1..3 :
       LET unit == 2 ^ (w - Bits(prefix[4], k, w))
       IN a.part[k] \div unit = prefix[k] \div unit

IsSpecial(a) == \E prefix \in Special(a.family) : Within(a, prefix)

\* The first and the last address of a prefix, and the ones next to them.
Edges(f) ==
  LET w == Width(f)
      Ends(prefix) ==
        {<<prefix[1], prefix[2], prefix[3]>>,
         [k \in 1..3 |-> prefix[k] + 2 ^ (w - Bits(prefix[4], k, w)) - 1]}
      Near(p) == {p} \cup {[p EXCEPT ![k] = @ + d] : k \in 1..3, d \in {-1, 1}}
      parts == UNION {Near(p) : p \in UNION {Ends(prefix) : prefix \in Special(f)}}
  IN {[family |-> f, part |-> p] :
        p \in {q \in parts : \A k \in 1..3 : q[k] \in 0..(2 ^ w - 1)}}

\* A public address, one that is not, and the lines and answers made of them.
Good(f) == [family |-> f, part |-> IF f = "v4" THEN <<8, 8, 8>> ELSE <<9734, 18176, 0>>]
Bad == [family |-> "v4", part |-> <<10, 0, 0>>]
Lines == Line \cup {Ip(Good("v4")), Ip(Good("v6")), Ip(Bad), Plain(Good("v4"))}
Texts == {<<>>} \cup [1..1 -> Lines] \cup [1..2 -> Lines] \cup [1..3 -> Line \cup {Ip(Good("v4"))}]

Replies ==
  {Reply(TRUE, 0, <<1>>, TRUE, <<Plain(a)>>) : a \in UNION {Edges(f) : f \in AddressFamily}}
  \cup {Reply(TRUE, 0, <<1>>, TRUE, text) : text \in Texts}
  \cup {Reply(ok, declared, arrived, utf8, <<Plain(Good("v4"))>>) :
          ok \in BOOLEAN, declared \in {0, MaxResponse, MaxResponse + 1},
          arrived \in {<<MaxResponse>>, <<MaxResponse + 1>>, <<MaxResponse, MaxResponse + 1>>},
          utf8 \in BOOLEAN}

\* What should be accepted: one address, of the family asked for and not
\* special, in a text of bounded size that was sent with success.
Deserves(r, f) ==
  /\ r.ok /\ r.utf8
  /\ r.declared <= MaxResponse
  /\ r.arrived # <<>> => r.arrived[Len(r.arrived)] <= MaxResponse
  /\ \E i \in DOMAIN r.lines :
       /\ r.lines[i].says = "ip" \/ (r.lines[i].says = "plain" /\ Len(r.lines) = 1)
       /\ r.lines[i].addr.family = f
       /\ ~IsSpecial(r.lines[i].addr)
       /\ \A j \in DOMAIN r.lines : j # i => r.lines[j].says \notin {"ip", "junk"}
-----------------------------------------------------------------------------
NoReply == [reply |-> "none"]

ProviderInit ==
  /\ Init
  /\ family \in AddressFamily
  /\ last = NoReply

\* The answers query_provider accepts when it is asked for family f.
Usable == [f \in AddressFamily |-> {r \in Replies : QueryProvider(r, f).accepted}]

\* Discovery's attempt, with an answer that is as good as Discovery has it.  One
\* answer of a call is looked into; the others are judged in the same way.
ProviderAnswered ==
  /\ Answered
  /\ last' \in IF last # NoReply THEN {last}
               ELSE IF good[index] THEN {[reply |-> r, accepted |-> TRUE] : r \in Usable[family]}
               ELSE {[reply |-> r, accepted |-> FALSE] : r \in Replies \ Usable[family]}
  /\ UNCHANGED family

\* The other steps of Discovery.
ProviderSilent ==
  /\ TimedOut \/ OutOfTime \/ AllFailed
  /\ UNCHANGED <<family, last>>

ProviderNext == ProviderAnswered \/ ProviderSilent

ProviderSpec == ProviderInit /\ [][ProviderNext]_allVars

\* The address that is published is exactly what the reference allows: at the
\* edges of every special range on both sides, for every arrangement of the
\* lines of an answer, and at the size limit.
AcceptsExactlyPublic ==
  last # NoReply => (last.accepted <=> Deserves(last.reply, family))
=============================================================================
