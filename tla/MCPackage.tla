------------------------------ MODULE MCPackage -----------------------------
(***************************************************************************)
(* Package checker as the tool uses it, for TLC, in three parts that share *)
(* no state:                                                               *)
(*   - DumpMethods, and the user who picks a method from its list (M);     *)
(*   - the checker of one target, made from few parameter maps and called  *)
(*     with every kind of address, timeout and course of the network       *)
(*     (Single);                                                           *)
(*   - the checkers of two targets, made from every parameter map over the *)
(*     keys the UDP checker knows and called with one address (the         *)
(*     variables of Checker).                                              *)
(* A part moves only while the two others rest, so the reachable states    *)
(* are those of each part beside the resting others, not their product.    *)
(***************************************************************************)
EXTENDS MCChecker

CONSTANT t0        \* the target of Single

VARIABLES methods1, heap1, checker1, asked1, ret1, last1,
          pc, mtds, i, todo, res, choice

Single == INSTANCE Checker WITH
              Targets <- {t0}, MaxObjects <- 3, Params <- MCFewParams,
              Addrs <- MCAddrs, Timeouts <- MCTimeouts, Replies <- MCReplies,
              methods <- methods1, heap <- heap1, checker <- checker1,
              asked <- asked1, ret <- ret1, last <- last1

\* The six kinds the tool registers, targets of ICMP, TCP and UDP.
MCRegistered == Names!CheckMethodNone..Names!CheckMethodHTTP
MCProtos     == {IPProtoICMP, IPProtoTCP, IPProtoUDP}

M == INSTANCE Method WITH Registered <- MCRegistered, Protos <- MCProtos

singleVars == <<methods1, heap1, checker1, asked1, ret1, last1>>
methodVars == <<pc, mtds, i, todo, res, choice>>

\* The tool holds no list of methods.
NoList == pc = "idle"

\* The init functions of Single have run and nothing has been asked of it.
Untouched == Single!Running /\ ret1 = "none" /\ last1 = Single!NoCheck

PackageInit == Init /\ Single!Init /\ M!Init

PackageNext ==
    \/ Init /\ Single!Init /\ M!Next /\ UNCHANGED <<vars, singleVars>>
    \/ Init /\ NoList /\ Single!Next /\ UNCHANGED <<vars, methodVars>>
    \/ Untouched /\ NoList /\ Next /\ UNCHANGED <<singleVars, methodVars>>

PackageSpec == PackageInit /\ [][PackageNext]_<<vars, singleVars, methodVars>>

\* Every checker NewChecker has handed out, to the two targets and to the
\* one, is an object of its own: it is not nil, it is not a prototype of the
\* registry, and no two targets hold the same one.  UDPChecker.create
\* allocates with &UDPChecker{} and must return that object, never its
\* receiver.
AllIsolated == InstancesIsolated /\ Single!InstancesIsolated

\* A check says Healthy only of a target it has reached over UDP: for any
\* other target L3L4Addr.Network names a network on which Dial fails or
\* returns a connection that is not a *net.UDPConn, and UDPChecker.Check
\* returns Unhealthy before it writes or reads.
SingleHealthyOnlyOverUDP == Single!HealthyOnlyOverUDP

\* The types of the variables of DumpMethods, and that its range loop stays
\* inside the array it made for the kinds.
MethodTypeOK == M!TypeOK

\* The list DumpMethods returns does not depend on the order in which the
\* range over the map methods hands out the keys: it is the registered kinds
\* with auto and passive, each once, in ascending order.
DumpInOrder == M!DumpInOrder

\* Every name DumpMethods lists, except passive, selects the kind it is
\* listed with when given to ParseMethod in any letter case, and the kind
\* TranslateAuto puts in the place of auto has a prototype.
ListedNamesSelect == M!ListedNamesSelect
=============================================================================
