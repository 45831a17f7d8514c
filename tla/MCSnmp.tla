------------------------------- MODULE MCSnmp -------------------------------
EXTENDS Snmp

\* Entries asked for by number: 1 sysDescr, 4 sysContact and 5 sysName (long
\* texts), 6 sysLocation, 10 an integer, 13 a longer name, 2 an object name,
\* 15 none of the table.
B(oid, dataType, val) ==
  [oid |-> oid, oidlen |-> IF oid \in 11..14 THEN 10 ELSE 8, dataType |-> dataType,
   val |-> val, form |-> "short"]
Ask(oid) == B(oid, "null", <<>>)
M(type, form, bindings) ==
  [type |-> type, id |-> 0, version |-> "v1", community |-> "public",
   msg |-> form, pdu |-> form, list |-> form, bindings |-> bindings]

MCRequests == {
  M("get", "short", <<Ask(10), Ask(15), Ask(6)>>),
  M("get", "long2", <<Ask(1), Ask(4), Ask(5)>>),
  M("next", "short", <<Ask(13), Ask(14)>>),
  M("set", "short", <<B(10, "integer", <<5>>)>>),
  M("set", "short", <<B(10, "integer", <<1, 2, 3, 4>>), B(6, "integer", <<9>>),
                      B(6, "octets", <<80, 81, 0, 82>>), B(2, "oid", <<43, 6, 1>>)>>),
  M("other", "short", <<Ask(1)>>),
  M("get", "long2", [i \in 1..9 |-> Ask(4)]),   \* the answer runs over its buffer
  M("set", "long2", [i \in 1..8 |-> B(6, "octets", [k \in 1..50 |-> 80])]),   \* the request does
  [M("get", "short", <<Ask(1)>>) EXCEPT !.version = "v2c"] }
=============================================================================
