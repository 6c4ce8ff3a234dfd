--------------------------- MODULE KernelRouteAbs ---------------------------
(***************************************************************************)
(* What the KernelRouteAddDel actioner promises its dispatcher, without    *)
(* goroutines, channels or netlink: an instance is created once; an Act    *)
(* runs from its call to its return; only while an Act runs does the       *)
(* actioner touch the kernel, and each touch sets the address, or with     *)
(* with-route the host route, to what the signal of that Act asks; an Act  *)
(* reports success only when the kernel is as asked.                       *)
(***************************************************************************)
VARIABLES instance,   \* None, or the instance with its withRoute
          kernel,     \* is the address on the interface, is the host route installed
          acting,     \* the signal of the Act that runs, or Idle
          last        \* what the most recent Act to return was asked and answered

absVars == <<instance, kernel, acting, last>>

None == [made |-> FALSE, withRoute |-> FALSE]
Idle == "idle"

Signals == {"Healthy", "Unhealthy"}
Results == {"ok", "err", "timeout"}

\* What a signal asks of a field of the kernel.
Wanted(sig) == sig # "Unhealthy"

\* The fields of the kernel the instance is in charge of.
Fields == IF instance.withRoute THEN {"addr", "route"} ELSE {"addr"}

Init ==
    /\ instance = None
    /\ kernel \in [addr : BOOLEAN, route : BOOLEAN]
    /\ acting = Idle
    /\ last = [signal |-> "Healthy", result |-> "none"]

Create(w) ==
    /\ instance = None
    /\ instance' = [made |-> TRUE, withRoute |-> w]
    /\ UNCHANGED <<kernel, acting, last>>

\* An Act that the actioner refuses at once.
Refuse(sig) ==
    /\ instance.made /\ acting = Idle
    /\ last' = [signal |-> sig, result |-> "err"]
    /\ UNCHANGED <<instance, kernel, acting>>

Begin(sig) ==
    /\ instance.made /\ acting = Idle
    /\ acting' = sig
    /\ UNCHANGED <<instance, kernel, last>>

Reconcile(f) ==
    /\ acting # Idle
    /\ f \in Fields
    /\ kernel' = [kernel EXCEPT ![f] = Wanted(acting)]
    /\ UNCHANGED <<instance, acting, last>>

Return(result) ==
    /\ acting # Idle
    /\ result = "ok" => \A f \in Fields : kernel[f] = Wanted(acting)
    /\ last' = [signal |-> acting, result |-> result]
    /\ acting' = Idle
    /\ UNCHANGED <<instance, kernel>>

Next ==
    \/ \E w \in BOOLEAN : Create(w)
    \/ \E sig \in Signals : Refuse(sig) \/ Begin(sig)
    \/ \E f \in {"addr", "route"} : Reconcile(f)
    \/ \E result \in Results : Return(result)

Spec == Init /\ [][Next]_absVars

=============================================================================
