------------------------------ MODULE MCBroker ------------------------------
(* Values for the constants of module Broker.  Each .cfg picks some.       *)
EXTENDS BrokerProperties, RouterTests

CONSTANTS k1, k2, k3            \* connections

ConnSymmetry == Permutations(Conns)

\* The same with two connections for runs with fairness, where symmetry is not
\* sound: k2 is opened after k1.  It forbids a choice of names, no behaviour.
InTurn == phase[k2] # "free" => phase[k1] # "free"

\* Without restarts the database is written and never read, so the order of
\* its writes cannot matter to anything else: such runs leave it out of the
\* view by which states are told apart.
WithoutDb == <<connVars, out, sessVars, pidVars, routeVars, bootVars>>

T == <<"t">>                        \* a topic, and the filter of the same name
X == <<"x">>
Job == <<"$share", "g", "t">>       \* a shared subscription to T
Hash == <<"#">>

\* a may write T and read only as a member of the group, b may read it all
\* and write nothing.
Rule(topic, access) == [topic |-> topic, access |-> access]
MCCredentials ==
  [state |-> "ok",
   users |-> [a |-> [password |-> "pw",
                     acl |-> {Rule(T, "write"), Rule(Job, "read"), Rule(X, "none")}],
              b |-> [password |-> "pw", acl |-> {Rule(Hash, "read")}]]]
NoFile == [state |-> "missing", users |-> << >>]

Hello(client, clean, expiry) ==
  [client |-> client, username |-> <<client>>, password |-> <<"pw">>,
   clean_start |-> clean, expiry |-> expiry]
Wrong(client) == [Hello(client, TRUE, 0) EXCEPT !.password = <<"no">>]

\* Two clients, also with a login that fails; a session that is meant to last
\* and one that is not; a client without a user name.
GroupHellos == {Hello("a", TRUE, 0), Hello("b", TRUE, 0)}
WithRefused == GroupHellos \cup {Wrong("a")}
LastingA    == {Hello("a", FALSE, 1)}
CleanHellos == {Hello("a", TRUE, 0)}
AnonHellos  == {[Hello("a", TRUE, 1) EXCEPT !.username = << >>, !.password = << >>]}

Msg(topic, qos) == [topic |-> topic, qos |-> qos]

NoMsgs      == {}
OneTopic    == {Msg(T, 1)}
WithDenied  == {Msg(T, 1), Msg(X, 1)}
OtherQos    == {Msg(T, 0), Msg(T, 2)}

One(filter, info) == <<[filter |-> filter, info |-> info]>>

NoSubs      == {}
PlainT      == {One(T, "i1")}
SharedT     == {One(Job, "i1")}
Overlapping == {One(T, "i1") \o One(Job, "i2") \o One(Hash, "i2"), One(Job, "i2")}
=============================================================================
