------------------------------ MODULE MCChecker ------------------------------
(***************************************************************************)
(* Checker for TLC: the parameter maps over four keys with a few values    *)
(* each, two replies, one host as a target of each kind.                   *)
(***************************************************************************)
EXTENDS Checker

\* The keys of a parameter map: the three of the UDP checker and one it
\* does not know.
MCKeys == UDPParams \cup {"quic"}

\* The values tried for each key: empty and not empty for the payloads;
\* "v2" in both cases and "v1" for the protocol.
MCValues ==
    [k \in MCKeys |->
        CASE k \in {"send", "receive"} -> {<<>>, <<"a">>}
          [] k = ParamProxyProto       -> {<<"v", "2">>, <<"V", "2">>, <<"v", "1">>}
          [] OTHER                     -> {<<"t">>}]

MCStrings == UNION {MCValues[k] : k \in MCKeys}

MCParams ==
    UNION {{p \in [K -> MCStrings] : \A k \in K : p[k] \in MCValues[k]} :
           K \in SUBSET MCKeys}

\* The maps that hold at most the keys send and quic.
MCFewParams == {p \in MCParams : DOMAIN p \subseteq {"send", "quic"}}

\* The maps over the keys the UDP checker knows.
MCKnownParams == {p \in MCParams : DOMAIN p \subseteq UDPParams}

MCTimeouts == {0, 1}

\* A positive timeout only.
MCOneTimeout == {1}

MCReplies == {<<>>, <<"a">>}

\* The empty datagram only.
MCOneReply == {<<>>}

\* One host as a UDP target over IPv4 and over IPv6, as a TCP target, as an
\* ICMP target, and a UDP target without IP.
MCAddrs ==
    {[IP |-> [len |-> 16, v4 |-> v4, host |-> "h"], Port |-> 53, Proto |-> IPProtoUDP] :
         v4 \in BOOLEAN}
    \cup {[IP |-> [len |-> 4, v4 |-> TRUE, host |-> "h"], Port |-> 53, Proto |-> p] :
             p \in {IPProtoTCP, IPProtoICMP}}
    \cup {[IP |-> NilIP, Port |-> 53, Proto |-> IPProtoUDP]}

\* The UDP target over IPv4 alone.
MCOneAddr == {a \in MCAddrs : a.IP.len = 16 /\ a.IP.v4}

TargetSymmetry == Permutations(Targets)
=============================================================================
