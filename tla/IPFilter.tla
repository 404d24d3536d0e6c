-------------------------------- MODULE IPFilter --------------------------------
(***************************************************************************)
(* The allow and block lists of internal/server/ipfilter.go.  An address   *)
(* is a sequence of bits, whose number is that of its family; the two      *)
(* spellings of an IPv4 address that normalizeIP makes equal are one here. *)
(* An entry of a list is what the parser makes of its text: blank, an      *)
(* address, an address with a prefix length, or invalid.                   *)
(***************************************************************************)
EXTENDS Naturals, Sequences, Functions

CONSTANT NoIP  \* net.ParseIP's nil

Blank == [kind |-> "blank"]
Invalid == [kind |-> "invalid"]
Single(a) == [kind |-> "ip", addr |-> a]
CIDR(a, n) == [kind |-> "cidr", addr |-> a, len |-> n]

\* The network of one entry.  A CIDR keeps the host bits it was written with.
Network(e) == [addr |-> e.addr, len |-> IF e.kind = "ip" THEN Len(e.addr) ELSE e.len]

\* The networks of a list, whose blank entries are skipped.
parseCIDRList(items) == {Network(e) : e \in {x \in Range(items) : x.kind # "blank"}}

\* NewIPFilterFromStrings gives no error.
ValidLists(allow, block) == \A e \in Range(allow) \cup Range(block) : e.kind # "invalid"

\* net.IPNet.Contains: the same family, and the addresses agree under the mask.
InNetwork(n, ip) ==
    Len(n.addr) = Len(ip) /\ SubSeq(n.addr, 1, n.len) = SubSeq(ip, 1, n.len)

Matches(nets, ip) == \E n \in nets : InNetwork(n, ip)

\* Mutant of Allow: an address on the allowlist is let in before the blocklist
\* is looked at.
AllowListFirst(allow, block, ip) ==
    /\ ip # NoIP
    /\ \/ Matches(parseCIDRList(allow), ip)
       \/ parseCIDRList(allow) = {} /\ ~Matches(parseCIDRList(block), ip)

\* Blocklist first; an empty allowlist lets everyone else in.
Allow(allow, block, ip) ==
    /\ ip # NoIP
    /\ ~Matches(parseCIDRList(block), ip)
    /\ parseCIDRList(allow) = {} \/ Matches(parseCIDRList(allow), ip)
================================================================================
