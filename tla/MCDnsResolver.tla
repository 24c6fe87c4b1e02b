--------------------------- MODULE MCDnsResolver ---------------------------
(* Values of DnsResolver: letters are bytes.                                *)
EXTENDS DnsResolver

ab == <<97, 98>>
c == <<99>>
Long == [i \in 1..63 |-> 97]
TooLong == [i \in 1..64 |-> 97]

ShortNames == {<<c>>, <<ab, c>>}
OneName == {<<ab, c>>}
MCHosts == {<<ab, ab, c>>}
MCTypes == {A, MX, TXT}
MCTexts == {<< <<97>> >>, << <<97>>, <<98>> >>}
MCAddresses == {<<258, 772>>}
LongNames == {<<Long, Long, Long>>}
TooLongNames == {<<TooLong>>}
OnlyA == {A}
OnlyMX == {MX}
OnlyTXT == {TXT}
None == {}
All == ShortNames
=============================================================================
