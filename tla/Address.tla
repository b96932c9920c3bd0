------------------------------- MODULE Address -------------------------------
(***************************************************************************)
(* visitor_ip (server/server.cpp): the address a visitor is limited and    *)
(* announced by, out of the headers reverse proxies set.                   *)
(***************************************************************************)
EXTENDS Texts

CONSTANT MaxAddress   \* 64 in the code: longer values are cut

\* Mutant of FirstHop: the last hop is taken.
LastHop(s) ==
    LET comma == SelectLastInSeq(s, LAMBDA c : c = ",") IN After(s, comma)

FirstHop(s) == IF Find(s, ",") = 0 THEN s ELSE Before(s, Find(s, ","))

\* [ipv6]:port and ipv4:port; more than one colon is an IPv6 address.
WithoutPort(s) ==
    IF s # <<>> /\ s[1] = "["
    THEN IF Find(s, "]") = 0 THEN s ELSE SubSeq(s, 2, Find(s, "]") - 1)
    ELSE IF Occurrences(s, ":") = 1 THEN Before(s, Find(s, ":")) ELSE s

TakeFirst(header) ==
    LET s == WithoutPort(Trim(FirstHop(header))) IN SubSeq(s, 1, Min({Len(s), MaxAddress}))

VisitorIp(forwardedFor, realIp, peer) ==
    IF forwardedFor # <<>> THEN TakeFirst(forwardedFor)
    ELSE IF realIp # <<>> THEN TakeFirst(realIp)
    ELSE peer

-----------------------------------------------------------------------------
(* Properties *)

\* An IPv4 address is one unit, as none of its characters matters; an IPv6 one
\* has its colons.
Addresses == {<<"x">>, <<"x", ":", ":", "x">>, <<":", ":", "x">>}

\* There is room for every address.
ASSUME AddressAssumption == MaxAddress \in Nat /\ \A a \in Addresses : Len(a) <= MaxAddress

\* The ways proxies write an address.
Spellings(a) ==
    LET bracketed == <<"[">> \o a \o <<"]">>
        port == <<":", "x">>
    IN  {a, a \o <<Blank>>, <<Blank>> \o a, bracketed, bracketed \o port}
            \cup (IF Occurrences(a, ":") = 0 THEN {a \o port} ELSE {})

\* Whichever way the first proxy writes the address of a visitor, in whichever
\* header, and whatever further hops are behind it, the server sees the same.
SameAddress(rest) ==
    \A a \in Addresses : \A s \in Spellings(a) :
        /\ VisitorIp(s, rest, <<"x">>) = a
        /\ VisitorIp(s \o <<",">> \o rest, <<>>, <<"x">>) = a
        /\ VisitorIp(<<>>, s, <<"x">>) = a
=============================================================================
