---------------------------- MODULE SocketAddress ----------------------------
(***************************************************************************)
(* netb::SocketAddress (netb/SocketAddress.cpp): a sockaddr_storage.  The  *)
(* fields are numbers as they are stored, in network order; an address of  *)
(* a family other than IPv4 and IPv6 has all its bytes in host.            *)
(***************************************************************************)
EXTENDS Naturals

AF_UNSPEC == 0
AF_INET == 2
AF_INET6 == 10

PortNumber == {port \in Nat : port < 65536}

Address == [family : Nat, port : PortNumber, host : Nat, flow : Nat, scope : Nat]

\* Reset(family)
ResetAddress(family) == [family |-> family, port |-> 0, host |-> 0, flow |-> 0, scope |-> 0]

Empty(a) == a.family = AF_UNSPEC

\* The length is told by the family: sizes of sockaddr_in, sockaddr_in6 and
\* sockaddr_storage; another family is not supported.
Length(a) ==
  CASE a.family = AF_INET -> 16
    [] a.family = AF_INET6 -> 28
    [] a.family = AF_UNSPEC -> 128
    [] OTHER -> 0

\* htons and ntohs on a machine that stores the low byte first.
Swapped(port) == ((port % 256) * 256) + (port \div 256)

\* Port(port) and Port(); with another family they fail.
WithPort(a, port) ==
  IF a.family \in {AF_INET, AF_INET6} THEN [a EXCEPT !.port = Swapped(port)] ELSE a
PortOf(a) == IF a.family \in {AF_INET, AF_INET6} THEN Swapped(a.port) ELSE 0

\* The host of a name; numeric is what inet_pton makes of it.
Loopback(family) == IF family = AF_INET THEN 16777343 ELSE 1
HostOf(family, name, numeric) ==
  CASE name \in {"", "loopback", "localhost"} -> Loopback(family)
    [] name \in {"any", "wildcard"} -> 0
    [] name \in {"none", "broadcast"} /\ family = AF_INET -> 4294967295
    [] OTHER -> numeric

\* SocketAddress(host, port, family): port 0 is left as it is.
MakeAddress(name, numeric, port, family) ==
  LET a == [ResetAddress(family) EXCEPT !.host = HostOf(family, name, numeric)]
  IN IF port > 0 THEN WithPort(a, port) ELSE a

\* operator==
Equal(a, b) ==
  /\ a.family = b.family
  /\ CASE a.family = AF_INET -> a.port = b.port /\ a.host = b.host
       [] a.family = AF_INET6 -> /\ a.port = b.port /\ a.flow = b.flow
                                 /\ a.host = b.host /\ a.scope = b.scope
       [] OTHER -> a = b

\* The order of two IPv6 addresses, field by field, and what stands here for the
\* memcmp of two addresses of an unknown family.
FieldsLess(a, b) ==
  \/ a.port < b.port
  \/ a.port = b.port /\ a.flow < b.flow
  \/ a.port = b.port /\ a.flow = b.flow /\ a.host < b.host
  \/ a.port = b.port /\ a.flow = b.flow /\ a.host = b.host /\ a.scope < b.scope

\* operator<
Less(a, b) ==
  \/ a.family < b.family
  \/ /\ a.family = b.family
     /\ IF a.family = AF_INET
        THEN a.port < b.port \/ (a.port = b.port /\ a.host < b.host)
        ELSE FieldsLess(a, b)
=============================================================================
