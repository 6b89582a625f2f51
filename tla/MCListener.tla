------------------------------ MODULE MCListener ------------------------------
(***************************************************************************)
(* Small instances of the listener for TLC.  Sockets, devices and ids are  *)
(* model values; every .cfg picks a topology, what arrives, and bounds.    *)
(***************************************************************************)
EXTENDS ListenerProperties

CONSTANTS s1, s2, d1, d2, a1, a2

OwnId == [s \in Socket |-> IF s = s1 THEN a1 ELSE a2]
AllGt06 == [s \in Socket |-> "GT06"]
AllForD1 == [c \in Command |-> d1]

\* what one 'data' event completes
Login(d) == [type |-> "LOGIN", imei |-> d]
Heartbeat == [type |-> "HEARTBEAT", imei |-> None]
Location == [type |-> "LOCATION", imei |-> None]
\* every socket logs in as d1, and does nothing else
Logins == [s \in Socket |-> {<<Login(d1)>>}]
\* ... or reports on its own
LoginThenReport == [s \in Socket |-> {<<Login(d1)>>, <<Location>>}]
\* ... or reports several times
Sessions == [s \in Socket |-> {<<Login(d1), Location, Location>>, <<Location>>}]
\* ... under one IMEI or another
Impostor == [s \in Socket |-> {<<Login(d1), Location, Heartbeat>>, <<Login(d2), Location>>}]
SecondLogin == [s \in Socket |-> {<<Login(d1)>>, <<Login(d2)>>, <<Heartbeat>>}]
\* two sockets, each with its own id, may change places
SocketsAlike == {p \in Permutations({s1, s2, a1, a2}) :
                    {p[s1], p[s2]} = {s1, s2} /\ (p[s1] = s1 <=> p[a1] = a1)}
=============================================================================
