----------------------------- MODULE MCStartup -----------------------------
(***************************************************************************)
(* The inputs for Startup: a good configuration and those that differ from  *)
(* it in one setting, in the spelling of one record, or by a second record; *)
(* every set of read and write permissions; every short token text.         *)
(***************************************************************************)
EXTENDS Startup

Rights == SUBSET ({"u", "g", "o"} \X {"r", "w"})
          \cup {{<<"u", "r">>, <<c, "x">>} : c \in {"u", "o"}}

TokenTexts == BoundedSeq({"blank", "ctl", "a", "cfat_", "cfut_", "cfk_", "cfother_"}, 2)
              \cup {<<"blank", "cfat_", "a">>, <<"a", "blank", "a">>}

Record(zone, name, type) ==
  [zone |-> zone, name |-> name, type |-> type, zoneId |-> {}, ttl |-> 120, proxied |-> FALSE]
Good == Record(<<"a">>, <<"a">>, "A")
Provider(fault, url) == [fault |-> fault, url |-> url]
Discovery(enabled, providers) == [enabled |-> enabled, providers |-> providers]
Asked == Discovery(TRUE, <<Provider("none", 1)>>)

Base == [interval |-> 300, timeout |-> 15, tokenFile |-> "absolute", account |-> {},
         discovery |-> [v4 |-> Asked, v6 |-> Asked], records |-> <<Good>>]

Ids == {{}} \cup {{id} : id \in BoundedSeq({"a", "A", "g", "blank"}, IdLength + 1)}
Faults == {"none", "long", "malformed", "http", "nohost", "credentials", "fragment"}
ProviderLists == BoundedSeq({Provider(f, 1) : f \in Faults} \cup {Provider("none", 2)}, 2)
                 \cup {[i \in 1..3 |-> Provider("none", i)]}
Discoveries == {Discovery(on, list) : on \in BOOLEAN, list \in ProviderLists}

OneSetting ==
  {[Base EXCEPT !.interval = n] : n \in {0, 59, 60, 86400, 86401}}
  \cup {[Base EXCEPT !.timeout = n] : n \in {0, 1, 120, 121}}
  \cup {[Base EXCEPT !.tokenFile = "relative"]}
  \cup {[Base EXCEPT !.account = id] : id \in Ids}
  \cup {[Base EXCEPT !.discovery[f] = d, !.records[1].type = t] :
          f \in {"v4", "v6"}, d \in Discoveries, t \in {"A", "AAAA"}}
  \cup {[Base EXCEPT !.records[1] = [@ EXCEPT !.zoneId = id]] : id \in Ids}
  \cup {[Base EXCEPT !.records[1] = [@ EXCEPT !.ttl = n, !.proxied = p]] :
          n \in {0, 1, 2, 59, 60, 86400, 86401}, p \in BOOLEAN}
  \cup {[Base EXCEPT !.records = <<>>],
        [Base EXCEPT !.records = <<Good, [Good EXCEPT !.type = "AAAA"],
                                   [Good EXCEPT !.name = <<"*", ".", "a">>]>>]}

Characters == {"a", "A", ".", "blank", "*", "-"}
OneName ==
  {[Base EXCEPT !.records[1] = Record(<<"a">>, name, "A")] : name \in BoundedSeq(Characters, 4)}
  \cup {[Base EXCEPT !.records[1] = Record(zone, prefix \o zone, "A")] :
          zone \in BoundedSeq(Characters, 3), prefix \in {<<>>, <<"a">>, <<"*", ".">>, <<".">>}}
  \cup {[Base EXCEPT !.records[1] = Record(<<"a">>, [i \in 1..n |-> IF i % 2 = 0 THEN "." ELSE "a"], "A")] :
          n \in 1..(MaxName + 1)}

Spellings == {Record(zone, name, type) :
                zone \in {<<"a">>, <<"A", ".">>, <<"a", ".", "a">>},
                name \in {<<"a">>, <<"A">>, <<"blank", "a">>, <<"a", ".", ".">>, <<"a", ".", "a">>,
                          <<"a", ".", "A", ".">>, <<"*", ".", "a">>},
                type \in {"A", "AAAA"}}
TwoRecords == {[Base EXCEPT !.records = <<first, second>>] : first, second \in Spellings}

SomeConfigs == OneSetting \cup OneName \cup TwoRecords
=============================================================================
