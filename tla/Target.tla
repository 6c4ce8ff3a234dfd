------------------------------- MODULE Target -------------------------------
(***************************************************************************)
(* The target an actioner keeps.  KernelRouteAction.create stores          *)
(* target.DeepCopy(), and Act reads the IP of that copy each time it runs, *)
(* long after create has returned and while the caller still holds, and    *)
(* may reuse, the L3L4Addr it passed.                                      *)
(*                                                                         *)
(* An L3L4Addr is a struct at an address; its field IP is a slice, the     *)
(* address of an array of bytes (Nil for the nil slice).  The bytes of an  *)
(* array are an IP of Utils.  Structs and arrays nothing refers to are     *)
(* free.                                                                   *)
(***************************************************************************)
EXTENDS Utils, FiniteSets

CONSTANTS IPValues,     \* the contents of IP arrays
          Ports,        \* the ports of targets
          MaxObjects    \* size of the heap of structs, and of that of arrays

ASSUME /\ NilIP \notin IPValues
       /\ MaxObjects \in Nat /\ MaxObjects >= 2

VARIABLES structs,  \* the L3L4Addr at each address
          arrays,   \* the bytes of the array at each address
          target,   \* the caller's *L3L4Addr
          held,     \* KernelRouteAction.target of the instance created
          bound,    \* the value of the target when the instance was created
          ret       \* how the latest create ended

vars == <<structs, arrays, target, held, bound, ret>>

Nil  == 0
Refs == 1..MaxObjects

ZeroStruct == [IP |-> Nil, Port |-> 0, Proto |-> 0]

\* The L3L4Addr that the pointer p refers to, as a value.
Value(p) ==
    [IP    |-> IF structs[p].IP = Nil THEN NilIP ELSE arrays[structs[p].IP],
     Port  |-> structs[p].Port,
     Proto |-> structs[p].Proto]

\* The least address of R that is not in use.
Unused(R, used) == CHOOSE r \in R \ used : \A q \in R \ used : r <= q

LiveStructs(t, h) == {t, h} \ {Nil}
LiveArrays(s, t, h) == {s[p].IP : p \in LiveStructs(t, h)} \ {Nil}

\* The heap once the collector has taken what t and h no longer reach.
Swept(s, a, t, h) ==
    [structs |-> [r \in Refs |-> IF r \in LiveStructs(t, h) THEN s[r] ELSE ZeroStruct],
     arrays  |-> [r \in Refs |-> IF r \in LiveArrays(s, t, h) THEN a[r] ELSE NilIP]]

\* new(L3L4Addr), make(net.IP, n)
NewStruct == Unused(Refs, LiveStructs(target, held))
NewArray  == Unused(Refs, LiveArrays(structs, target, held))

Init ==
    /\ structs = [r \in Refs |-> ZeroStruct]
    /\ arrays  = [r \in Refs |-> NilIP]
    /\ target  = Nil
    /\ held    = Nil
    /\ bound   = ZeroAddr
    /\ ret     = "none"

-----------------------------------------------------------------------------
\* The caller makes the L3L4Addr of a target, with an IP or without.
Make(ip, port, proto) ==
    /\ target = Nil
    /\ target' = NewStruct
    /\ structs' = [structs EXCEPT ![NewStruct] =
                      [IP |-> IF ip = NilIP THEN Nil ELSE NewArray,
                       Port |-> port, Proto |-> proto]]
    /\ arrays' = IF ip = NilIP THEN arrays ELSE [arrays EXCEPT ![NewArray] = ip]
    /\ UNCHANGED <<held, bound, ret>>

\* The caller reuses its L3L4Addr for another target of the same family:
\* it writes the bytes of the IP in place and assigns the port.
Reuse(ip, port) ==
    /\ target # Nil /\ structs[target].IP # Nil
    /\ ip.len = arrays[structs[target].IP].len
    /\ arrays' = [arrays EXCEPT ![structs[target].IP] = ip]
    /\ structs' = [structs EXCEPT ![target].Port = port]
    /\ UNCHANGED <<target, held, bound, ret>>

\* The caller lets go of its L3L4Addr.
Drop ==
    /\ target # Nil
    /\ target' = Nil
    /\ structs' = Swept(structs, arrays, Nil, held).structs
    /\ arrays' = Swept(structs, arrays, Nil, held).arrays
    /\ UNCHANGED <<held, bound, ret>>

\* Faulty variant: the copy keeps the array of the original.
CopiedIPShared(in, made) == in

\* out.IP after DeepCopyInto, of in.IP and the array made for it.
CopiedIP(in, made) == made

\* Faulty variant: the pointer itself is kept.
DeepCopiedSame(in, out) == in

\* What DeepCopy returns, of its receiver and the struct it allocated.
DeepCopied(in, out) == out

\* Faulty variant: only the pointer is looked at.
NoAddressNilOnly(p) == p = Nil

\* target == nil || len(target.IP) == 0
NoAddress(p) == IF p = Nil THEN TRUE ELSE Value(p).IP.len = 0

\* create refuses a nil target and one without IP
CreateRefused ==
    /\ held = Nil
    /\ NoAddress(target)
    /\ ret' = "error"
    /\ UNCHANGED <<structs, arrays, target, held, bound>>

\* create stores target.DeepCopy(): *out = *in, then out.IP is made and
\* filled with the bytes of in.IP.
Create ==
    /\ held = Nil
    /\ ~NoAddress(target)
    /\ LET out  == NewStruct
           made == NewArray
       IN  /\ structs' = [structs EXCEPT ![out] =
                             [structs[target] EXCEPT !.IP = CopiedIP(@, made)]]
           /\ arrays' = [arrays EXCEPT ![made] = Value(target).IP]
           /\ held' = DeepCopied(target, out)
    /\ bound' = Value(target)
    /\ ret' = "instance"
    /\ UNCHANGED target

\* The instance is given up.
Destroy ==
    /\ held # Nil
    /\ held' = Nil
    /\ bound' = ZeroAddr
    /\ ret' = "none"
    /\ structs' = Swept(structs, arrays, target, Nil).structs
    /\ arrays' = Swept(structs, arrays, target, Nil).arrays
    /\ UNCHANGED target

Next ==
    \/ \E ip \in IPValues \cup {NilIP}, port \in Ports,
          proto \in {IPProtoTCP, IPProtoUDP} : Make(ip, port, proto)
    \/ \E ip \in IPValues, port \in Ports : Reuse(ip, port)
    \/ Drop
    \/ CreateRefused
    \/ Create
    \/ Destroy

Spec == Init /\ [][Next]_vars

-----------------------------------------------------------------------------
\* The variables hold values of their types, and the instance has an
\* address to act on.
TypeOK ==
    /\ structs \in [Refs -> [IP : Refs \cup {Nil}, Port : Ports \cup {0},
                             Proto : {0, IPProtoTCP, IPProtoUDP}]]
    /\ arrays \in [Refs -> IPValues \cup {NilIP}]
    /\ target \in Refs \cup {Nil}
    /\ held \in Refs \cup {Nil}
    /\ ret \in {"none", "error", "instance"}
    /\ held # Nil => Value(held).IP.len # 0

(***************************************************************************)
(* The actioner acts on the target it was created for: the L3L4Addr it     *)
(* holds has the IP, protocol and port the caller's had when create was    *)
(* called, whatever the caller has since written into its own L3L4Addr or  *)
(* the bytes of its IP.  This is DeepCopy copying the struct and the array *)
(* of the IP, and create storing the copy.                                 *)
(***************************************************************************)
HeldIsBound == held # Nil => Value(held) = bound

=============================================================================
