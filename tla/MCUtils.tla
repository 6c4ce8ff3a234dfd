------------------------------- MODULE MCUtils ------------------------------
(***************************************************************************)
(* Package utils in the hands of one caller, for TLC: the caller of Addr   *)
(* who renders and parses target keys, and the caller of Target who makes  *)
(* target records and has an actioner created from them, are the same      *)
(* thread.  The two share no state, so each moves only while the other     *)
(* holds nothing: the reachable states are those of the one beside the     *)
(* resting states of the other, not their product.                         *)
(***************************************************************************)
EXTENDS MCAddr

VARIABLES structs, arrays, target, held, bound, ret

\* Two hosts, each with an IPv4 address of 4 bytes and an IPv6 address.
MCIPValues ==
    {[len |-> 4, v4 |-> TRUE, host |-> h] : h \in {"h1", "h2"}}
    \cup {[len |-> 16, v4 |-> FALSE, host |-> h] : h \in {"h1", "h2"}}

MCPorts == {80, 443}

\* The caller's L3L4Addr and the actioner's.
MCMaxObjects == 2

T == INSTANCE Target WITH IPValues <- MCIPValues, Ports <- MCPorts,
                          MaxObjects <- MCMaxObjects

targetVars == <<structs, arrays, target, held, bound, ret>>

\* The caller holds no target record and no actioner.
NoRecord == target = T!Nil /\ held = T!Nil

UtilsInit == Init /\ T!Init

UtilsNext ==
    \/ NoRecord /\ Next /\ UNCHANGED targetVars
    \/ Idle /\ T!Next /\ UNCHANGED vars

UtilsSpec == UtilsInit /\ [][UtilsNext]_<<vars, targetVars>>

\* The types of the heap of target records, and that the actioner's record,
\* once create has returned it, has an IP that is not empty
\* (KernelRouteAction.create refuses a nil target and an empty IP).
TargetTypeOK == T!TypeOK

\* The target an actioner holds is the address it was created for, whatever
\* the caller has since done to the record it passed to create: DeepCopy
\* gives the actioner a record and IP bytes of its own.
HeldIsBound == T!HeldIsBound
=============================================================================
