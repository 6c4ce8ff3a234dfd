------------------------------- MODULE Checker -------------------------------
(***************************************************************************)
(* The registry of check methods of package checker and the checkers made  *)
(* from it: the init functions that fill the map methods, NewChecker with  *)
(* the create methods of the UDP and the UDPPing checker, and Check on the *)
(* instances NewChecker returned.                                          *)
(*                                                                         *)
(* UDPChecker objects live in a heap: create is a method of the prototype  *)
(* kept in the registry and allocates the instance it returns, so which    *)
(* object an assignment reaches is what this module is about.  An entry of *)
(* methods is the address of the UDPChecker that the prototype is (udp) or *)
(* embeds (udpping); the prototype &UDPPingChecker{} embeds the nil        *)
(* pointer.  An object nothing refers to any longer is returned to the     *)
(* heap with its fields zeroed, as the garbage collector and the next      *)
(* allocation do.                                                          *)
(*                                                                         *)
(* The callers are the owners of the targets: each keeps the checker it    *)
(* was given last and calls Check on it.  The other check methods of the   *)
(* tool are not in the registry of this model, and no caller asks for      *)
(* them.                                                                   *)
(***************************************************************************)
EXTENDS UDPChecker, FiniteSets, FiniteSetsExt, TLC

Names == INSTANCE MethodNames

CONSTANTS Targets,      \* the owners of checkers
          Addrs,        \* the addresses Check is called with
          MaxObjects,   \* size of the heap of UDPChecker objects
          Params,       \* the parameter maps callers pass
          Timeouts,     \* the timeouts callers pass to Check
          Replies,      \* the datagrams a target may answer with
          Overrun       \* how far past its timeout the ping may return

ASSUME /\ IsFiniteSet(Targets) /\ Targets # {}
       /\ MaxObjects \in Nat /\ MaxObjects >= Cardinality(Targets) + 2
       /\ Timeouts \subseteq Int
       /\ Overrun \in Nat

VARIABLES methods,  \* the registry: Method -> address of a UDPChecker, or Nil
          heap,     \* the fields of the UDPChecker at each address
          checker,  \* per target, the checker NewChecker returned to it
          asked,    \* the target and the parameters of the latest checker created
          ret,      \* how the latest Validate or NewChecker ended
          last      \* the latest Check: its inputs and its verdict

vars == <<methods, heap, checker, asked, ret, last>>

Nil  == 0
Refs == 1..MaxObjects

CheckMethodUDP     == 3
CheckMethodUDPPing == 5
CheckMethodAuto    == 10000
CheckMethodPassive == 65535

\* The kinds callers ask for; 0 is what ParseMethod returns for a name it
\* does not know.
Kinds == {0, CheckMethodUDP, CheckMethodUDPPing, CheckMethodAuto, CheckMethodPassive}

NoChecker == [kind |-> 0, udp |-> Nil]
NoCheck   == [kind |-> 0, target |-> ZeroAddr, timeout |-> 0, ping |-> "none",
              state |-> "Unknown", err |-> FALSE]

\* The objects the program still refers to.
Reachable(m, ck) ==
    ({m[k] : k \in DOMAIN m} \cup {ck[t].udp : t \in Targets}) \ {Nil}

\* &UDPChecker{}: the address of a new object.
Fresh == Min(Refs \ Reachable(methods, checker))

\* The heap h once the objects that m and ck no longer reach are given back.
Collect(h, m, ck) ==
    [r \in Refs |-> IF r \in Reachable(m, ck) THEN h[r] ELSE ZeroUDP]

-----------------------------------------------------------------------------
Init ==
    /\ methods = <<>>
    /\ heap    = [r \in Refs |-> ZeroUDP]
    /\ checker = [t \in Targets |-> NoChecker]
    /\ asked   = [for |-> {}, params |-> <<>>]
    /\ ret     = "none"
    /\ last    = NoCheck

registerMethod(kind, method) ==
    methods' = (kind :> method) @@ methods

\* func init() of udp_checker.go
initUDP ==
    /\ CheckMethodUDP \notin DOMAIN methods
    /\ registerMethod(CheckMethodUDP, Fresh)
    /\ UNCHANGED <<heap, checker, asked, ret, last>>

\* func init() of udpping_checker.go
initUDPPing ==
    /\ CheckMethodUDPPing \notin DOMAIN methods
    /\ registerMethod(CheckMethodUDPPing, Nil)
    /\ UNCHANGED <<heap, checker, asked, ret, last>>

\* main runs: every init function has returned and no panic has ended
\* the process.
Running ==
    /\ DOMAIN methods = {CheckMethodUDP, CheckMethodUDPPing}
    /\ ret # "panic"

-----------------------------------------------------------------------------
\* UDPPingChecker.validate
UDPPingValidate(p) == validate(p)

\* methods[kind].validate(p) returns nil
MethodValidate(kind, p) ==
    \/ kind = CheckMethodUDP     /\ validate(p)
    \/ kind = CheckMethodUDPPing /\ UDPPingValidate(p)

\* The receiver of UDPChecker.create: the prototype of udp, and what the
\* prototype of udpping embeds.
Receiver(kind) == methods[kind]

\* Faulty variant: create hands out its receiver.
ReturnedReceiver(c, new) == c

\* The object create returns, of its receiver c and the object new that it
\* allocated.
Returned(c, new) == new

\* The object whose fields create assigns.
Assigned(c, new) == c

Return(r) ==
    /\ ret' = r
    /\ UNCHANGED <<methods, heap, checker, asked, last>>

\* methods[kind] is missing
NewCheckerUnsupported(kind) ==
    /\ kind \notin DOMAIN methods
    /\ Return("error")

\* create returns the error of validate
NewCheckerInvalid(kind, p) ==
    /\ kind \in DOMAIN methods
    /\ ~MethodValidate(kind, p)
    /\ Return("error")

\* UDPPingChecker.create returns the error of PingChecker.create, which it
\* calls once validate has passed and before anything is assigned.
NewCheckerPingFails(kind, p) ==
    /\ kind = CheckMethodUDPPing
    /\ kind \in DOMAIN methods
    /\ MethodValidate(kind, p)
    /\ Return("error")

\* create assigns a field through a nil receiver
NewCheckerPanic(kind, p) ==
    /\ kind \in DOMAIN methods
    /\ MethodValidate(kind, p)
    /\ Assigned(Receiver(kind), Fresh) = Nil /\ Assigns(p)
    /\ Return("panic")

NewCheckerCreates(t, kind, p) ==
    /\ kind \in DOMAIN methods
    /\ MethodValidate(kind, p)
    /\ LET c   == Receiver(kind)
           new == Fresh
           to  == Assigned(c, new)
       IN  /\ to = Nil => ~Assigns(p)
           /\ checker' = [checker EXCEPT ![t] = [kind |-> kind,
                                                 udp  |-> Returned(c, new)]]
           /\ heap' = Collect(IF to = Nil THEN heap
                              ELSE [heap EXCEPT ![to] = Assign(@, p)],
                              methods, checker')
    /\ asked' = [for |-> {t}, params |-> p]
    /\ ret' = "instance"
    /\ UNCHANGED <<methods, last>>

\* The body of NewChecker
Creating(t, kind, p) ==
    \/ NewCheckerUnsupported(kind)
    \/ NewCheckerInvalid(kind, p)
    \/ NewCheckerPingFails(kind, p)
    \/ NewCheckerPanic(kind, p)
    \/ NewCheckerCreates(t, kind, p)

\* NewChecker, called with whatever the caller has
NewChecker(t, kind, p) ==
    /\ Running
    /\ Creating(t, kind, p)

\* Validate, called with whatever the caller has: nil for auto whatever the
\* map, the answer of the prototype's validate for a registered kind.
Validate(kind, p) ==
    /\ Running
    /\ Return(IF \/ kind = CheckMethodAuto
                 \/ kind \in DOMAIN methods /\ MethodValidate(kind, p)
              THEN "valid" ELSE "error")

-----------------------------------------------------------------------------
\* What the network may do during one check.
Nets ==
    [fail : {"none"} \cup SocketCalls,
     read : [err : {"nil"}, data : Replies] \cup [err : ReadErrors, data : {<<>>}]]

\* What PingChecker.Check may return for a positive timeout, and when: a
\* verdict, or Unknown with an error.
Pings(timeout) ==
    [state : {"Healthy", "Unhealthy"}, err : {FALSE}, elapsed : 0..(timeout + Overrun)]
    \cup [state : {"Unknown"}, err : {TRUE}, elapsed : 0..(timeout + Overrun)]

Checked(t, target, timeout, ping, v) ==
    /\ last' = [kind |-> checker[t].kind, target |-> target, timeout |-> timeout,
                ping |-> ping, state |-> v.state, err |-> v.err]
    /\ UNCHANGED <<methods, heap, checker, asked, ret>>

\* Check on the UDP checker of t
CheckUDP(t, target, timeout, net) ==
    /\ Running
    /\ checker[t].kind = CheckMethodUDP
    /\ Checked(t, target, timeout, "none",
               Check(heap[checker[t].udp], target, timeout, net))

\* Check on the UDPPing checker of t; the ping is not run for a timeout
\* that is not positive.
CheckUDPPing(t, target, timeout, ping, net) ==
    /\ Running
    /\ checker[t].kind = CheckMethodUDPPing
    /\ Checked(t, target, timeout, IF timeout <= 0 THEN "none" ELSE ping.state,
               PingCheck(heap[checker[t].udp], target, timeout, ping, net))

-----------------------------------------------------------------------------
Next ==
    \/ initUDP
    \/ initUDPPing
    \/ \E t \in Targets, kind \in Kinds, p \in Params : NewChecker(t, kind, p)
    \/ \E kind \in Kinds, p \in Params : Validate(kind, p)
    \/ \E t \in Targets, a \in Addrs, timeout \in Timeouts, net \in Nets :
          CheckUDP(t, a, timeout, net)
    \/ \E t \in Targets, a \in Addrs, timeout \in Timeouts, net \in Nets :
          \E ping \in Pings(timeout) : CheckUDPPing(t, a, timeout, ping, net)

Spec == Init /\ [][Next]_vars

-----------------------------------------------------------------------------
Strings == UNION {{p[k] : k \in DOMAIN p} : p \in Params}

\* The variables hold values of their types; the registry holds the
\* prototypes the init functions made, and an object holds only values that
\* validate let through.
TypeOK ==
    /\ DOMAIN methods \subseteq {CheckMethodUDP, CheckMethodUDPPing}
    /\ \A k \in DOMAIN methods : methods[k] \in Refs \cup {Nil}
    /\ heap \in [Refs -> [send : Strings \cup {<<>>}, receive : Strings \cup {<<>>},
                          proxyProto : Strings \cup {<<>>}]]
    /\ \A r \in Refs : heap[r].proxyProto # <<>> => ToLower(heap[r].proxyProto) = V2
    /\ checker \in [Targets -> [kind : {0, CheckMethodUDP, CheckMethodUDPPing},
                                udp : Refs \cup {Nil}]]
    /\ asked \in [for : SUBSET Targets, params : Params \cup {<<>>}]
    /\ ret \in {"none", "valid", "instance", "error", "panic"}
    /\ last \in [kind : {0, CheckMethodUDP, CheckMethodUDPPing},
                 target : Addrs \cup {ZeroAddr}, timeout : Timeouts \cup {0},
                 ping : {"none"} \cup States, state : States,
                 err : BOOLEAN]

Owners == {t \in Targets : checker[t] # NoChecker}

(***************************************************************************)
(* Every checker NewChecker has handed out is an object of its own: it is  *)
(* not nil, it is not a prototype of the registry, and no two targets hold *)
(* the same one.  create allocates with &UDPChecker{} and must return that *)
(* object, never its receiver.                                             *)
(***************************************************************************)
InstancesIsolated ==
    \A t \in Owners :
        /\ checker[t].udp \in Refs
        /\ \A k \in DOMAIN methods : methods[k] # checker[t].udp
        /\ \A u \in Owners \ {t} : checker[u].udp # checker[t].udp

(***************************************************************************)
(* A check says Healthy only of a target it has reached over UDP: the      *)
(* target has an IP and its protocol is UDP.  For any other target         *)
(* L3L4Addr.Network names a network on which Dial fails or returns a       *)
(* connection that is not a *net.UDPConn, and Check returns Unhealthy      *)
(* before it writes or reads; so the rule that silence is health never     *)
(* applies to a connection of another kind.                                *)
(***************************************************************************)
HealthyOnlyOverUDP ==
    last.state = "Healthy" =>
        last.target.IP # NilIP /\ last.target.Proto = IPProtoUDP

(***************************************************************************)
(* create "binds params to" the instance it returns (the comment of the    *)
(* CheckMethod interface): the fields of the checker created last are the  *)
(* parameters it was created with.                                         *)
(***************************************************************************)
InstanceHoldsParams ==
    \A t \in asked.for : heap[checker[t].udp] = Assign(ZeroUDP, asked.params)

(***************************************************************************)
(* NewChecker returns a checker or an error for every kind and every       *)
(* parameter map: creating a checker never ends the process.               *)
(***************************************************************************)
NewCheckerReturns == ret # "panic"

(***************************************************************************)
(* Check answers Unknown only to a caller's mistake, a timeout that is not *)
(* positive, or to hand on the error of the ping; whatever the network     *)
(* does to a UDP check whose caller gave it time is Healthy or Unhealthy.  *)
(***************************************************************************)
UnknownOnlyForBadTimeout ==
    last.kind # 0 /\ last.state = "Unknown" =>
        last.timeout <= 0 \/ last.ping = "Unknown"

=============================================================================
