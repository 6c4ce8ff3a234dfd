----------------------------- MODULE UDPChecker -----------------------------
(***************************************************************************)
(* The UDP check method and the composite UDPPing check method (package    *)
(* checker), as operators: what validate accepts, what create writes, and  *)
(* the verdict of one Check given what the network does.                   *)
(*                                                                         *)
(* A parameter is a sequence of characters.  A parameter map is a function *)
(* from the keys it holds to parameters.  The network's part in one Check  *)
(* is a record: the first call on the socket that fails, if any, and what  *)
(* the read returns.  The target is an L3L4Addr of Utils.                  *)
(***************************************************************************)
EXTENDS Integers, Utils

\* types.State
States == {"Unknown", "Healthy", "Unhealthy"}

\* The verdict of a Check: the state and whether the error is non-nil.
Verdict(state, err) == [state |-> state, err |-> err]

V2 == <<"v", "2">>

\* strings.ToLower, on the characters that have an upper case here
ToLower(s) == [i \in DOMAIN s |-> IF s[i] = "V" THEN "v" ELSE s[i]]

ParamProxyProto == "proxy-protocol"
UDPParams == {"send", "receive", ParamProxyProto}

\* The fields of a UDPChecker, and those of &UDPChecker{}.
UDPFields == [send : Seq(STRING), receive : Seq(STRING), proxyProto : Seq(STRING)]
ZeroUDP   == [send |-> <<>>, receive |-> <<>>, proxyProto |-> <<>>]

(***************************************************************************)
(* UDPChecker.validate returns nil: every key is one of the three, send    *)
(* and receive are not empty, proxy-protocol is "v2" in any case.          *)
(***************************************************************************)
\* Faulty variant: the values are not looked at.
validateKeys(params) == DOMAIN params \subseteq UDPParams

validate(params) ==
    /\ DOMAIN params \subseteq UDPParams
    /\ \A k \in DOMAIN params \cap {"send", "receive"} : Len(params[k]) # 0
    /\ ParamProxyProto \in DOMAIN params => ToLower(params[ParamProxyProto]) = V2

\* create dereferences its receiver when it finds one of these keys.
Assigns(params) == DOMAIN params \cap UDPParams # {}

\* The assignments of create: each key present overwrites its field of f,
\* with the value as given.
Assign(f, params) ==
    [send       |-> IF "send" \in DOMAIN params THEN params["send"] ELSE f.send,
     receive    |-> IF "receive" \in DOMAIN params THEN params["receive"] ELSE f.receive,
     proxyProto |-> IF ParamProxyProto \in DOMAIN params
                    THEN params[ParamProxyProto] ELSE f.proxyProto]

-----------------------------------------------------------------------------
(***************************************************************************)
(* The network during one UDP check.  fail is the first of the calls Dial, *)
(* SetDeadline, the write of the PROXY v2 preamble and the write of the    *)
(* payload that returns an error ("none" if none does); read is what       *)
(* ReadFrom returns when it is reached: an error, or the datagram.         *)
(***************************************************************************)
SocketCalls == {"dial", "setDeadline", "writeProxy", "write"}
ReadErrors  == {"timeout", "refused"}

\* Faulty variant: the connection is used whatever its type.
IsUDPConnUnchecked(target) == Dialled(Network(target), Addr(target)) # "none"

\* conn.(*net.UDPConn) succeeds on what Dial returns for the target.
IsUDPConn(target) == Dialled(Network(target), Addr(target)) = "UDPConn"

\* The check gives up before the read: a call it makes has failed, or the
\* connection is not a UDP one.  The preamble is written only by a checker
\* whose proxyProto is exactly "v2".
GivesUp(c, target, net) ==
    \/ net.fail \in {"dial", "setDeadline", "write"}
    \/ ~IsUDPConn(target)
    \/ net.fail = "writeProxy" /\ c.proxyProto = V2

\* buf[:n]: the datagram cut to the length of receive.
Got(c, net) ==
    LET n == IF Len(net.read.data) < Len(c.receive) THEN Len(net.read.data)
                                                    ELSE Len(c.receive)
    IN  SubSeq(net.read.data, 1, n)

\* The read timed out and the checker neither sent nor expects anything:
\* the check cannot tell a silent service from a dead one and says Healthy.
Ambiguous(c, net) ==
    /\ Len(c.send) = 0 /\ Len(c.receive) = 0
    /\ net.read.err = "timeout"

\* The check succeeds: the reply read is what the checker expects.
Answered(c, net) == net.read.err = "nil" /\ Got(c, net) = c.receive

\* UDPChecker.Check
Check(c, target, timeout, net) ==
    IF timeout <= 0
    THEN Verdict("Unknown", TRUE)
    ELSE IF ~GivesUp(c, target, net) /\ (Ambiguous(c, net) \/ Answered(c, net))
         THEN Verdict("Healthy", FALSE)
         ELSE Verdict("Unhealthy", FALSE)

(***************************************************************************)
(* UDPPingChecker.Check.  ping is what PingChecker.Check returned and how  *)
(* long it took; the UDP check gets what is left of the timeout, which is  *)
(* time.Until(start.Add(timeout)) and may be zero or negative.             *)
(***************************************************************************)
PingFailed(ping) == ping.state = "Unhealthy"

PingCheck(c, target, timeout, ping, net) ==
    IF timeout <= 0 \/ ping.err
    THEN Verdict("Unknown", TRUE)
    ELSE IF PingFailed(ping)
         THEN Verdict("Unhealthy", FALSE)
         ELSE Check(c, target, timeout - ping.elapsed, net)

=============================================================================
