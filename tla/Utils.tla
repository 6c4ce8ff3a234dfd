------------------------------- MODULE Utils -------------------------------
(***************************************************************************)
(* Package utils as operators: IPProto with its two conversions, L3L4Addr  *)
(* with String, Network and Addr, and ParseL3L4Addr.                       *)
(*                                                                         *)
(* A string is a sequence of tokens: the text of an IP address, a name, a  *)
(* decimal numeral, or the dash.  What the Go library does is here by its  *)
(* documentation: net.ParseIP and IP.String (ParseIP, IPString), IP.To4    *)
(* (To4), IP.Equal (IPEqual), strings.Split on "-" (Split) and the         *)
(* concatenation of fmt.Sprintf (Join).                                    *)
(***************************************************************************)
EXTENDS Naturals, Sequences, SequencesExt

\* Tokens
Dash        == <<"-", "">>
Dotted(h)   == <<"dotted", h>>    \* the text of the IPv4 address of host h
Colon(h)    == <<"colon", h>>     \* the text of the IPv6 address of host h
NilText     == <<"name", "<nil>">>
Name(s)     == <<"name", s>>
Dec(n)      == <<"dec", n>>       \* a decimal numeral of value n
Numbered(p) == <<"IPProto", p>>   \* "IPProto(p)"

\* net.IP: no address, 4 bytes, or 16 bytes that are or are not an IPv4
\* address in IPv6 form.
NilIP == [len |-> 0, v4 |-> FALSE, host |-> ""]

To4(ip) == ip.len = 4 \/ (ip.len = 16 /\ ip.v4)

IPEqual(a, b) ==
    \/ a.len = 0 /\ b.len = 0
    \/ a.len # 0 /\ b.len # 0 /\ a.host = b.host /\ To4(a) = To4(b)

IPString(ip) ==
    CASE ip.len = 0 -> NilText
      [] To4(ip)    -> Dotted(ip.host)
      [] OTHER      -> Colon(ip.host)

\* net.ParseIP returns 16 bytes for either family, nil for any other text.
ParseIP(s) ==
    IF Len(s) = 1 /\ s[1][1] \in {"dotted", "colon"}
    THEN [len |-> 16, v4 |-> s[1][1] = "dotted", host |-> s[1][2]]
    ELSE NilIP

\* strings.Split(str, "-"): the pieces between the dashes, at least one.
RECURSIVE Split(_)
Split(str) ==
    LET i == SelectInSeq(str, LAMBDA t : t = Dash)
    IN  IF i = 0 THEN <<str>>
        ELSE <<SubSeq(str, 1, i - 1)>> \o Split(SubSeq(str, i + 1, Len(str)))

\* The pieces with a dash between each two.
Join(segs) ==
    FlattenSeq([i \in DOMAIN segs |-> IF i = 1 THEN segs[i] ELSE <<Dash>> \o segs[i]])

-----------------------------------------------------------------------------
IPProtoICMP   == 1
IPProtoICMPv6 == 58
IPProtoTCP    == 6
IPProtoUDP    == 17

\* IPProto.String
IPProtoString(proto) ==
    CASE proto = IPProtoICMP   -> Name("ICMP")
      [] proto = IPProtoICMPv6 -> Name("ICMPv6")
      [] proto = IPProtoTCP    -> Name("TCP")
      [] proto = IPProtoUDP    -> Name("UDP")
      [] OTHER                 -> Numbered(proto)

\* Faulty variant: a case of the switch is missing.
ParseIPProtoNoICMPv6(str) ==
    CASE str = <<Name("TCP")>>  -> IPProtoTCP
      [] str = <<Name("UDP")>>  -> IPProtoUDP
      [] str = <<Name("ICMP")>> -> IPProtoICMP
      [] OTHER                  -> 0

ParseIPProto(str) ==
    CASE str = <<Name("TCP")>>    -> IPProtoTCP
      [] str = <<Name("UDP")>>    -> IPProtoUDP
      [] str = <<Name("ICMP")>>   -> IPProtoICMP
      [] str = <<Name("ICMPv6")>> -> IPProtoICMPv6
      [] OTHER                    -> 0

\* L3L4Addr{}
ZeroAddr == [IP |-> NilIP, Port |-> 0, Proto |-> 0]

\* L3L4Addr.String
String(a) == Join(<< <<IPString(a.IP)>>, <<IPProtoString(a.Proto)>>, <<Dec(a.Port)>> >>)

\* Faulty variant: the numeral is cut to 16 bits, its size unchecked.
ParsePortWide(str) ==
    IF Len(str) = 1 /\ str[1][1] = "dec"
    THEN [ok |-> TRUE, port |-> str[1][2] % 2^16]
    ELSE [ok |-> FALSE, port |-> 0]

\* Faulty variant: the numeral is taken whatever its size.
ParsePortUnbounded(str) ==
    IF Len(str) = 1 /\ str[1][1] = "dec"
    THEN [ok |-> TRUE, port |-> str[1][2]]
    ELSE [ok |-> FALSE, port |-> 0]

\* strconv.ParseUint(s, 10, 16) and the conversion uint16(port)
ParsePort(str) ==
    IF Len(str) = 1 /\ str[1][1] = "dec" /\ str[1][2] < 2^16
    THEN [ok |-> TRUE, port |-> str[1][2] % 2^16]
    ELSE [ok |-> FALSE, port |-> 0]

\* What ParseL3L4Addr does: it returns nil, returns an address, or panics.
ReturnsNil    == [ret |-> "nil", addr |-> ZeroAddr]
Panics        == [ret |-> "panic", addr |-> ZeroAddr]
ReturnsAddr(a) == [ret |-> "addr", addr |-> a]
NotParsed     == [ret |-> "none", addr |-> ZeroAddr]

\* segs[1:] is defined
CanSlice(segs) == Len(segs) >= 1

(***************************************************************************)
(* ParseL3L4Addr.  The three blocks read the first piece of segs each, and *)
(* between them segs = segs[1:] drops it, which panics on an empty slice.  *)
(***************************************************************************)
ParseL3L4Addr(str) ==
    LET segs  == Split(str)
        rest  == Tail(segs)
        last  == Tail(rest)
        ip    == IF Len(segs) > 0 THEN ParseIP(segs[1]) ELSE NilIP
        proto == IF Len(rest) > 0 THEN ParseIPProto(rest[1]) ELSE 0
        port  == IF Len(last) > 0 THEN ParsePort(last[1]) ELSE [ok |-> TRUE, port |-> 0]
    IN  IF Len(segs) > 0 /\ ip = NilIP THEN ReturnsNil
        ELSE IF ~CanSlice(segs) THEN Panics
        ELSE IF Len(rest) > 0 /\ proto = 0 THEN ReturnsNil
        ELSE IF ~CanSlice(rest) THEN Panics
        ELSE IF ~port.ok THEN ReturnsNil
        ELSE ReturnsAddr([IP |-> ip, Port |-> port.port, Proto |-> proto])

-----------------------------------------------------------------------------
\* The version Network and Addr read off the IP: 4 when To4 is not nil.
Version(ip) == IF To4(ip) THEN 4 ELSE 6

\* Faulty variant: every protocol is dialled as udp.
NetworkAllUDP(a) == <<"udp", Version(a.IP)>>

\* L3L4Addr.Network: the network name for net.Dialer
Network(a) ==
    CASE a.Proto = IPProtoTCP    -> <<"tcp", Version(a.IP)>>
      [] a.Proto = IPProtoUDP    -> <<"udp", Version(a.IP)>>
      [] a.Proto = IPProtoICMP   -> <<"ip:icmp", 4>>
      [] a.Proto = IPProtoICMPv6 -> <<"ip:ipv6-icmp", 6>>
      [] OTHER                   -> <<"(unknown)", 0>>

\* L3L4Addr.Addr: IP:Port, the IP in brackets unless To4 is not nil
Addr(a) == [host |-> IPString(a.IP), brackets |-> Version(a.IP) = 6, port |-> a.Port]

(***************************************************************************)
(* net.Dialer.Dial by its documentation: the kind of connection it gives   *)
(* for a network and an address when it gives one.  tcp and udp take a     *)
(* literal IP of their version with a port, the IPv6 one in brackets; the  *)
(* ip networks take a host without a port, so an address with a port is    *)
(* not resolved; a network it does not know is an error.                   *)
(***************************************************************************)
Dialled(network, address) ==
    IF /\ network[1] \in {"tcp", "udp"}
       /\ address.host[1] = (IF network[2] = 4 THEN "dotted" ELSE "colon")
       /\ address.brackets = (network[2] = 6)
    THEN IF network[1] = "udp" THEN "UDPConn" ELSE "TCPConn"
    ELSE "none"

=============================================================================
