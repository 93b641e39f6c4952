----------------------------- MODULE Allowlist ------------------------------
(****************************************************************************)
(* Who may connect to a plane: LoadBootstrap parses ..._ALLOWED_CLIENTS     *)
(* into prefixes, AllowClients compares the address of every request's peer *)
(* with them.  An IPv4 address has two forms, its own and the IPv4-mapped   *)
(* IPv6 one a dual-stack listener may report; both sides unmap it.          *)
(* Addresses are sequences of a few bits.                                   *)
(****************************************************************************)
EXTENDS Integers, Sequences

CONSTANTS W4, W6,     \* bits of an address: 32 and 128
          Marker,     \* the W6 - W4 bits before a mapped address: ::ffff
          Loop4,      \* the first bit of 127.0.0.0/8, which stands for its first 8
          MaxList     \* bound: entries of the list

VARIABLES
    list,       \* the entries read so far
    prefixes,   \* Bootstrap's prefixes
    state,      \* "parse", "serve" or "exit"
    peer,       \* the peer of the last request
    verdict     \* "none", "passed" or "403"

vars == <<list, prefixes, state, peer, verdict>>

Bit == {0, 1}
V4 == [1..W4 -> Bit]
V6 == [1..W6 -> Bit]
Addr == V4 \cup V6

BitLen(a) == IF a \in V4 THEN W4 ELSE W6
MarkerLen == W6 - W4

Is4In6(a) == a \in V6 /\ \A i \in 1..MarkerLen : a[i] = Marker[i]

\* netip.Addr.Unmap.
Unmap(a) == IF Is4In6(a) THEN [i \in 1..W4 |-> a[MarkerLen + i]] ELSE a

\* In place of a length: none is written, or the entry is malformed.
None == -1
Bad == -2

\* An address, a CIDR prefix, or what netip refuses (a zone included).
Entry == [addr : Addr, len : {None}] \cup UNION {[addr : {a}, len : 0..BitLen(a)] : a \in Addr}
Malformed == [addr |-> [i \in 1..W4 |-> 0], len |-> Bad]

\* netip.Prefix.Contains: never across the families; too long a prefix contains nothing.
Holds(p, a) ==
    /\ p.addr \in V4 <=> a \in V4
    /\ p.len \in 0..BitLen(a)
    /\ \A i \in 1..p.len : p.addr[i] = a[i]

Loopback == {[addr |-> [i \in 1..W4 |-> IF i = 1 THEN Loop4 ELSE 0], len |-> 1],
             [addr |-> [i \in 1..W6 |-> IF i = W6 THEN 1 ELSE 0], len |-> W6]}

\* Mutation: the length of a mapped prefix is taken as it is.
LengthAsWritten(e) == e.len

\* bits := prefix.Bits() - 96.
Length(e) == IF Is4In6(e.addr) THEN e.len - MarkerLen ELSE e.len

\* parseAllowedClient: a set with the prefix, or empty for an error.  Masked only
\* clears bits that Contains does not look at.
ParseEntry(e) ==
    CASE e.len = Bad -> {}
      [] e.len = None -> {[addr |-> Unmap(e.addr), len |-> BitLen(Unmap(e.addr))]}
      [] OTHER -> IF Length(e) < 0 THEN {} ELSE {[addr |-> Unmap(e.addr), len |-> Length(e)]}

NoPeer == <<>>

TypeOK ==
    /\ list \in Seq(Entry \cup {Malformed})
    /\ \A p \in prefixes : p.addr \in Addr /\ ~Is4In6(p.addr) /\ p.len \in 0..BitLen(p.addr)
    /\ state \in {"parse", "serve", "exit"}
    /\ peer \in Addr \cup {NoPeer}
    /\ verdict \in {"none", "passed", "403"}

Init ==
    /\ list = <<>>
    /\ prefixes = Loopback
    /\ state = "parse"
    /\ peer = NoPeer
    /\ verdict = "none"

\* A good entry adds its prefix, a bad one ends the start.
Parse(e) ==
    \/ /\ ParseEntry(e) # {}
       /\ prefixes' = prefixes \cup ParseEntry(e)
       /\ UNCHANGED state
    \/ /\ ParseEntry(e) = {}
       /\ state' = "exit"
       /\ UNCHANGED prefixes

ReadEntry ==
    /\ state = "parse" /\ Len(list) < MaxList
    /\ \E e \in Entry \cup {Malformed} : list' = Append(list, e) /\ Parse(e)
    /\ UNCHANGED <<peer, verdict>>

\* There are no more entries.
Serve ==
    /\ state = "parse"
    /\ state' = "serve"
    /\ UNCHANGED <<list, prefixes, peer, verdict>>

\* AllowClients, for a peer in the form the listener reports.
AllowClients ==
    /\ state = "serve" /\ peer = NoPeer
    /\ peer' \in Addr
    /\ verdict' = IF \E p \in prefixes : Holds(p, Unmap(peer')) THEN "passed" ELSE "403"
    /\ UNCHANGED <<list, prefixes, state>>

Next == ReadEntry \/ Serve \/ AllowClients

Spec == Init /\ [][Next]_vars

-----------------------------------------------------------------------------
\* The addresses an entry stands for, all with W6 bits: mapped IPv4 and IPv6 alike.
Embed(a) == IF a \in V4 THEN [i \in 1..W6 |-> IF i <= MarkerLen THEN Marker[i] ELSE a[i - MarkerLen]]
            ELSE a
Written(e) == W6 - (IF e.len = None THEN 0 ELSE BitLen(e.addr) - e.len)
Reach(e) == {n \in V6 : \A i \in 1..Written(e) : n[i] = Embed(e.addr)[i]}
Mapped == {n \in V6 : Is4In6(n)}

(****************************************************************************)
(* A peer passes if and only if it is on the loopback or one of the entries *)
(* names it, in whichever form the entry was written and the peer is        *)
(* reported (only an IPv6 prefix that holds the whole of IPv4 as a part,    *)
(* ::/0 say, does not name IPv4 peers); and a list is taken as a whole: the *)
(* service starts only if every entry is good (docs/deployment.md:63), a    *)
(* mapped prefix wider than all of IPv4 not being one.                      *)
(****************************************************************************)
Names(e, n) == n \in Reach(e) /\ (n \in Mapped => Embed(e.addr) \in Mapped)
Good(e) == e.len # Bad /\ (Embed(e.addr) \in Mapped => Reach(e) \subseteq Mapped)

AsWritten ==
    /\ state = "serve" => \A i \in 1..Len(list) : Good(list[i])
    /\ verdict = "passed" => \/ \E p \in Loopback : Embed(peer) \in Reach(p)
                             \/ \E i \in 1..Len(list) : Names(list[i], Embed(peer))
    /\ verdict = "403" => /\ \A p \in Loopback : Embed(peer) \notin Reach(p)
                          /\ \A i \in 1..Len(list) : ~Names(list[i], Embed(peer))
=============================================================================
