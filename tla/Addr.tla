-------------------------------- MODULE Addr --------------------------------
(***************************************************************************)
(* The target key of package utils in use: a caller renders an address     *)
(* with L3L4Addr.String or is given a text, parses the text it holds with  *)
(* ParseL3L4Addr, and lets go of it before it takes the next.              *)
(***************************************************************************)
EXTENDS Utils

CONSTANTS Addrs,    \* the addresses callers print
          Texts     \* the texts callers are given

VARIABLES addr,     \* the address printed last
          origin,   \* whether text was printed from addr or given
          text,     \* the text held
          parsed    \* what ParseL3L4Addr made of text

vars == <<addr, origin, text, parsed>>

-----------------------------------------------------------------------------
Init ==
    /\ addr   = ZeroAddr
    /\ origin = "given"
    /\ text   = <<>>
    /\ parsed = NotParsed

\* The caller holds nothing.
Idle == addr = ZeroAddr /\ origin = "given" /\ text = <<>> /\ parsed = NotParsed

\* The caller renders the address a.
Render(a) ==
    /\ Idle
    /\ addr'   = a
    /\ origin' = "printed"
    /\ text'   = String(a)
    /\ parsed' = NotParsed

\* The caller is handed the text s.
Given(s) ==
    /\ Idle
    /\ origin' = "given"
    /\ text'   = s
    /\ parsed' = NotParsed
    /\ addr'   = ZeroAddr

\* The caller parses the text it holds.
Parse ==
    /\ parsed = NotParsed
    /\ parsed' = ParseL3L4Addr(text)
    /\ UNCHANGED <<addr, origin, text>>

\* The caller lets go of what it holds; after a panic there is no caller.
Discard ==
    /\ parsed.ret \in {"nil", "addr"}
    /\ addr'   = ZeroAddr
    /\ origin' = "given"
    /\ text'   = <<>>
    /\ parsed' = NotParsed

Next ==
    \/ \E a \in Addrs : Render(a)
    \/ \E s \in Texts : Given(s)
    \/ Parse
    \/ Discard

Spec == Init /\ [][Next]_vars

-----------------------------------------------------------------------------
IPs == {ip \in [len : {0, 4, 16}, v4 : BOOLEAN, host : STRING] :
            /\ ip.len = 0 => ip = NilIP
            /\ ip.len = 4 => ip.v4}

\* The variables hold values of their types; a port is a uint16.
TypeOK ==
    /\ addr \in [IP : IPs, Port : 0..(2^16 - 1), Proto : Nat]
    /\ origin \in {"printed", "given"}
    /\ \A i \in DOMAIN text :
          /\ text[i][1] \in {"-", "dotted", "colon", "name", "dec", "IPProto"}
          /\ text[i][1] \in {"dec", "IPProto"} => text[i][2] \in Nat
    /\ parsed.ret \in {"none", "nil", "panic", "addr"}
    /\ parsed.addr \in [IP : IPs, Port : 0..(2^16 - 1), Proto : Nat]

\* The keys of the engine: an address, one of the four protocols, a port.
IsKey(a) ==
    /\ a.IP # NilIP
    /\ a.Proto \in {IPProtoICMP, IPProtoICMPv6, IPProtoTCP, IPProtoUDP}

SameAddr(a, b) == IPEqual(a.IP, b.IP) /\ a.Proto = b.Proto /\ a.Port = b.Port

(***************************************************************************)
(* ParseL3L4Addr reads back what String wrote: the text printed for a key  *)
(* parses, and to the same address, protocol and port, in whichever form   *)
(* (4 or 16 bytes) the IP was held.  String and ParseIPProto each have     *)
(* their own switch over the protocols, which must agree.                  *)
(***************************************************************************)
RoundTrip ==
    origin = "printed" /\ IsKey(addr) /\ parsed # NotParsed
        => parsed.ret = "addr" /\ SameAddr(parsed.addr, addr)

(***************************************************************************)
(* A port that ParseL3L4Addr accepts is the number that was written: a     *)
(* third piece that is not a numeral below 2^16 makes it return nil, and   *)
(* the conversion to uint16 never changes the value.                       *)
(***************************************************************************)
ParsedPortIsWritten ==
    parsed.ret = "addr" /\ Len(Split(text)) >= 3
        => Split(text)[3] = <<Dec(parsed.addr.Port)>>

(***************************************************************************)
(* ParseL3L4Addr "produces a L3L4Addr from its string representation":     *)
(* for every text it returns an address or nil.                            *)
(***************************************************************************)
ParserTotal == parsed.ret # "panic"

=============================================================================
