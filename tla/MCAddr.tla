-------------------------------- MODULE MCAddr -------------------------------
(***************************************************************************)
(* Addr for TLC: one host in its three forms and no address at all, the    *)
(* four protocols and two that have no name, ports at both ends of 16      *)
(* bits; texts of up to four pieces, each empty, one token or two.         *)
(***************************************************************************)
EXTENDS Addr

MCIPs ==
    {NilIP, [len |-> 4, v4 |-> TRUE, host |-> "h"],
     [len |-> 16, v4 |-> TRUE, host |-> "h"], [len |-> 16, v4 |-> FALSE, host |-> "h"]}

MCAddrs ==
    [IP : MCIPs, Port : {0, 80, 65535},
     Proto : {0, 2, IPProtoICMP, IPProtoICMPv6, IPProtoTCP, IPProtoUDP}]

\* The pieces of a text.
MCPieces ==
    {<<>>, <<Name("TCP"), Dec(80)>>}
    \cup {<<t>> : t \in {Dotted("h"), Colon("h"), Name("TCP"), Name("ICMPv6"),
                         Dec(80), Dec(65536)}}

\* The longest text has one piece more than ParseL3L4Addr reads.
MCMaxPieces == 4

MCTexts == {Join(segs) : segs \in BoundedSeq(MCPieces, MCMaxPieces) \ {<<>>}}
=============================================================================
