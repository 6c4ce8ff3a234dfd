---------------------------- MODULE KernelRoute ----------------------------
(***************************************************************************)
(* The KernelRouteAddDel actioner (package actioner, KernelRouteAction).   *)
(*                                                                         *)
(* Act(signal, timeout) starts a goroutine that talks to the kernel over   *)
(* netlink (LinkByName, AddrAdd/AddrDel, RouteAdd/RouteDel), and waits in  *)
(* a select for either the goroutine's verdict on the channel `done` or    *)
(* the expiry of the timeout context.  When the timeout wins, Act returns  *)
(* and the goroutine is left running: it still performs every netlink      *)
(* call it has not made yet.                                               *)
(*                                                                         *)
(* One instance (one target address on one interface) is modelled.  The    *)
(* caller invokes Act serially, as the action dispatcher of a target does. *)
(* Time is abstracted: a netlink call may take any amount of time, so the  *)
(* timeout may expire at any point while the caller waits.                 *)
(***************************************************************************)
EXTENDS Naturals, Sequences, FiniteSets

CONSTANTS
    Calls,        \* slots for Act invocations; bounds the goroutines alive at once
    Timeouts,     \* the timeouts callers pass to Act
    Faults,       \* netlink calls the kernel may refuse for an unrelated reason
    SlowNetlink   \* TRUE: a netlink call may outlast the timeout of Act

NetlinkCalls == {"LinkByName", "AddrAdd", "AddrDel", "RouteAdd", "RouteDel"}

ASSUME /\ IsFiniteSet(Calls) /\ Calls # {}
       /\ Timeouts \subseteq Nat /\ Timeouts # {}
       /\ Faults \subseteq NetlinkCalls
       /\ SlowNetlink \in BOOLEAN

VARIABLES
    created,      \* create has returned an instance
    withRoute,    \* KernelRouteAction.withRoute of that instance
    kernel,       \* is the address on the interface, is the host route installed
    signal,       \* signal[c]: the signal of the Act invocation in slot c
    caller,       \* caller[c]: "select" while Act waits in its select
    worker,       \* worker[c]: the next statement of the goroutine of slot c
    pending,      \* pending[c]: the error the goroutine will send on done
    done,         \* done[c]: contents of the channel `done` of slot c
    last          \* what the most recent Act to return was asked and answered

vars == <<created, withRoute, kernel, signal, caller, worker, pending, done, last>>

Signals == {"Healthy", "Unhealthy"}
Results == {"none", "ok", "err", "timeout"}
Errnos  == {"nil", "EEXIST", "EADDRNOTAVAIL", "ESRCH", "EPERM"}

(***************************************************************************)
(* Action parameters, abstracted to what validate tells apart: whether     *)
(* "ifname" is absent, empty or names an interface, what "with-route"      *)
(* holds, and whether some other key is present.  Targets are abstracted   *)
(* to a nil pointer, an address without IP, and a virtual IP.              *)
(***************************************************************************)
Params  == [ifname : {"absent", "empty", "lo"},
            withRoute : {"absent", "true", "yes", "false", "no", "maybe"},
            other : BOOLEAN]
Targets == {"nil", "noIP", "vip"}

\* utils.String2bool on the values the configuration documents; any other
\* string is an error.
String2bool == [s \in {"true", "yes", "false", "no"} |-> s \in {"true", "yes"}]

\* validate returns nil
validate(p) ==
    /\ p.ifname = "lo"
    /\ p.withRoute # "absent" => p.withRoute \in DOMAIN String2bool
    /\ ~p.other

isExistError(err) == err = "EEXIST"

\* Faulty variant: only errno values are recognised, the message
\* "cannot assign requested address" is not.
isNotExistErrorErrnoOnly(err) == err \in {"ENOENT", "ESRCH"}

isNotExistError(err) == err \in {"ENOENT", "ESRCH", "EADDRNOTAVAIL"}

(***************************************************************************)
(* The kernel's side of a netlink call: the outcomes [err, kernel] it can  *)
(* have on the state k.  Adding what is there fails with EEXIST, deleting  *)
(* an address that is not there with EADDRNOTAVAIL ("cannot assign         *)
(* requested address"), deleting a route that is not there with ESRCH.     *)
(* A call in Faults may also fail with EPERM and change nothing.           *)
(***************************************************************************)
Put(k, f) ==
    IF k[f] THEN [err |-> "EEXIST", kernel |-> k]
            ELSE [err |-> "nil", kernel |-> [k EXCEPT ![f] = TRUE]]

Drop(k, f, missing) ==
    IF k[f] THEN [err |-> "nil", kernel |-> [k EXCEPT ![f] = FALSE]]
            ELSE [err |-> missing, kernel |-> k]

Netlink(call, k) ==
    {CASE call = "AddrAdd"  -> Put(k, "addr")
       [] call = "AddrDel"  -> Drop(k, "addr", "EADDRNOTAVAIL")
       [] call = "RouteAdd" -> Put(k, "route")
       [] call = "RouteDel" -> Drop(k, "route", "ESRCH")}
    \cup {[err |-> "EPERM", kernel |-> k] : x \in {call} \cap Faults}

\* The branch of Act a signal takes: anything but Unhealthy adds.
Adding(sig) == sig # "Unhealthy"
\* Faulty variant: the address is added whatever the signal.
AddrCallAdds(sig) == "AddrAdd"

AddrCall(sig)  == IF Adding(sig) THEN "AddrAdd" ELSE "AddrDel"
RouteCall(sig) == IF Adding(sig) THEN "RouteAdd" ELSE "RouteDel"

\* Faulty variant: every error of a netlink call is taken for a warning.
DemotedAlways(call, err) == TRUE

\* An error of a netlink call that Act demotes to a warning and goes on.
Demoted(call, err) ==
    IF call \in {"AddrAdd", "RouteAdd"} THEN isExistError(err)
                                        ELSE isNotExistError(err)

-----------------------------------------------------------------------------
Init ==
    /\ created = FALSE
    /\ withRoute = FALSE
    /\ kernel \in [addr : BOOLEAN, route : BOOLEAN]
    /\ signal = [c \in Calls |-> "Healthy"]
    /\ caller = [c \in Calls |-> "idle"]
    /\ worker = [c \in Calls |-> "none"]
    /\ pending = [c \in Calls |-> "nil"]
    /\ done = [c \in Calls |-> <<>>]
    /\ last = [signal |-> "Healthy", result |-> "none", err |-> "nil"]

(***************************************************************************)
(* create(target, params): refuses a target without IP and parameters      *)
(* validate rejects; otherwise binds withRoute, reading an absent          *)
(* "with-route" as false.                                                  *)
(***************************************************************************)
create(target, p) ==
    /\ ~created
    /\ target = "vip"
    /\ validate(p)
    /\ created' = TRUE
    /\ withRoute' = (p.withRoute \in DOMAIN String2bool /\ String2bool[p.withRoute])
    /\ UNCHANGED <<kernel, signal, caller, worker, pending, done, last>>

\* The dispatcher of a target runs one Act at a time.
DispatcherIdle == \A c \in Calls : caller[c] = "idle"

\* Act with a timeout that is not positive returns an error at once.
ActZeroTimeout(sig, timeout) ==
    /\ created /\ DispatcherIdle
    /\ timeout = 0
    /\ last' = [signal |-> sig, result |-> "err", err |-> "zero timeout"]
    /\ UNCHANGED <<created, withRoute, kernel, signal, caller, worker, pending, done>>

\* Act makes the channel, starts the goroutine and enters the select.
ActBegin(c, sig, timeout) ==
    /\ created /\ DispatcherIdle
    /\ worker[c] = "none"
    /\ timeout > 0
    /\ signal' = [signal EXCEPT ![c] = sig]
    /\ caller' = [caller EXCEPT ![c] = "select"]
    /\ worker' = [worker EXCEPT ![c] = "link"]
    /\ pending' = [pending EXCEPT ![c] = "nil"]
    /\ done' = [done EXCEPT ![c] = <<>>]
    /\ UNCHANGED <<created, withRoute, kernel, last>>

\* The goroutine gives up: it will send the error, wrapped, and return.
Fail(c, err) ==
    /\ worker' = [worker EXCEPT ![c] = "send"]
    /\ pending' = [pending EXCEPT ![c] = err]

\* The goroutine goes on to its next statement.
Goto(c, stmt) ==
    /\ worker' = [worker EXCEPT ![c] = stmt]
    /\ UNCHANGED pending

\* netlink.LinkByName(a.ifname)
WorkerLink(c) ==
    /\ worker[c] = "link"
    /\ \/ Goto(c, "addr")
       \/ "LinkByName" \in Faults /\ Fail(c, "EPERM")
    /\ UNCHANGED <<created, withRoute, kernel, signal, caller, done, last>>

\* One netlink call of the goroutine and what it does with the error.
Attempt(c, call, next) ==
    \E o \in Netlink(call, kernel) :
        /\ kernel' = o.kernel
        /\ IF o.err = "nil" \/ Demoted(call, o.err) THEN Goto(c, next) ELSE Fail(c, o.err)

\* Faulty variant: the host route is handled whatever with-route says.
AfterAddrAlwaysRoute == "route"

\* Where the goroutine goes after the address: to the host route if the
\* instance was created with with-route, else to the final send.
AfterAddr == IF withRoute THEN "route" ELSE "send"

\* netlink.AddrAdd or netlink.AddrDel
WorkerAddr(c) ==
    /\ worker[c] = "addr"
    /\ Attempt(c, AddrCall(signal[c]), AfterAddr)
    /\ UNCHANGED <<created, withRoute, signal, caller, done, last>>

\* netlink.RouteAdd or netlink.RouteDel
WorkerRoute(c) ==
    /\ worker[c] = "route"
    /\ Attempt(c, RouteCall(signal[c]), "send")
    /\ UNCHANGED <<created, withRoute, signal, caller, done, last>>

\* Faulty variant: `done` made without a buffer, so that a send needs a
\* receiver waiting in the select.
DoneNotFullUnbuffered(c) == caller[c] = "select" /\ done[c] = <<>>

\* `done` has capacity 1 and each goroutine sends once: the send never blocks.
DoneNotFull(c) == Len(done[c]) < 1

\* done <- err, or done <- nil, and the goroutine ends.  A value sent after
\* the caller has left the select is never received; it goes with the channel.
WorkerSend(c) ==
    /\ worker[c] = "send"
    /\ DoneNotFull(c)
    /\ done' = [done EXCEPT ![c] = IF caller[c] = "select" THEN <<pending[c]>> ELSE <<>>]
    /\ worker' = [worker EXCEPT ![c] = "none"]
    /\ UNCHANGED <<created, withRoute, kernel, signal, caller, pending, last>>

WorkerStep(c) == WorkerLink(c) \/ WorkerAddr(c) \/ WorkerRoute(c) \/ WorkerSend(c)

\* case err := <-done
ActReceive(c) ==
    /\ caller[c] = "select"
    /\ done[c] # <<>>
    /\ last' = [signal |-> signal[c], err |-> Head(done[c]),
                result |-> IF Head(done[c]) = "nil" THEN "ok" ELSE "err"]
    /\ caller' = [caller EXCEPT ![c] = "idle"]
    /\ done' = [done EXCEPT ![c] = <<>>]
    /\ UNCHANGED <<created, withRoute, kernel, signal, worker, pending>>

\* case <-ctx.Done(): Act returns ctx.Err() and leaves the goroutine running.
\* When both cases are ready the select takes either.
ActTimeout(c) ==
    /\ SlowNetlink
    /\ caller[c] = "select"
    /\ last' = [signal |-> signal[c], result |-> "timeout", err |-> "deadline exceeded"]
    /\ caller' = [caller EXCEPT ![c] = "idle"]
    /\ done' = [done EXCEPT ![c] = <<>>]
    /\ UNCHANGED <<created, withRoute, kernel, signal, worker, pending>>

Next ==
    \/ \E t \in Targets, p \in Params : create(t, p)
    \/ \E sig \in Signals, t \in Timeouts : ActZeroTimeout(sig, t)
    \/ \E c \in Calls, sig \in Signals, t \in Timeouts : ActBegin(c, sig, t)
    \/ \E c \in Calls : WorkerStep(c)
    \/ \E c \in Calls : ActReceive(c)
    \/ \E c \in Calls : ActTimeout(c)

Spec == Init /\ [][Next]_vars

\* A goroutine that can take its next step takes it: the Go scheduler runs
\* it and a netlink call returns.
FairSpec == Spec /\ \A c \in Calls : WF_vars(WorkerStep(c))

-----------------------------------------------------------------------------
\* The types of the variables, and that only an instance created with
\* with-route has a goroutine at the host-route calls of Act.
TypeOK ==
    /\ created \in BOOLEAN
    /\ withRoute \in BOOLEAN
    /\ kernel \in [addr : BOOLEAN, route : BOOLEAN]
    /\ signal \in [Calls -> Signals]
    /\ caller \in [Calls -> {"idle", "select"}]
    /\ worker \in [Calls -> {"none", "link", "addr", "route", "send"}]
    /\ pending \in [Calls -> Errnos]
    /\ done \in [Calls -> {<<>>} \cup {<<e>> : e \in Errnos}]
    /\ last \in [signal : Signals, result : Results,
                err : Errnos \cup {"zero timeout", "deadline exceeded"}]
    /\ \A c \in Calls : worker[c] = "route" => withRoute

\* No Act is waiting and no goroutine of Act is alive.
Quiescent == \A c \in Calls : caller[c] = "idle" /\ worker[c] = "none"

\* The kernel is as Act(sig) leaves it: the address is there exactly when
\* the signal is not Unhealthy, and with with-route so is the host route.
Applied(sig) ==
    /\ kernel.addr = Adding(sig)
    /\ withRoute => kernel.route = Adding(sig)

\* When the last Act to return reported success and nothing of Act is still
\* running, the kernel is in the state that Act was asked for.  This is what
\* the dispatcher relies on when it records the signal of a successful Act
\* and drops later events that carry the same signal.
KernelFollowsLastSuccess ==
    Quiescent /\ last.result = "ok" => Applied(last.signal)

\* Act is idempotent: whatever the kernel held when Act was called, whichever
\* signal is repeated and whichever calls were refused on the way, the error
\* Act returns is never that the kernel already was as asked.  On add,
\* "file exists", and on delete, "cannot assign requested address" and "no
\* such process", are warnings of the goroutine, never its verdict.
ActIdempotent == last.err \notin {"EEXIST", "EADDRNOTAVAIL", "ESRCH"}

\* Every goroutine Act starts ends, also when Act has returned on timeout
\* before the goroutine sent its verdict: no goroutine is left blocked on
\* the channel `done`.
WorkersExit == \A c \in Calls : worker[c] # "none" ~> worker[c] = "none"

-----------------------------------------------------------------------------
\* The Act that waits in its select, if any.
Waiting == {c \in Calls : caller[c] = "select"}

(***************************************************************************)
(* The actioner as its dispatcher sees it: the instance, the kernel, the   *)
(* signal of the Act that has not returned yet, and the latest return.     *)
(***************************************************************************)
Abs == INSTANCE KernelRouteAbs WITH
           instance <- [made |-> created, withRoute |-> withRoute],
           last     <- [signal |-> last.signal, result |-> last.result],
           acting   <- IF Waiting = {} THEN "idle"
                       ELSE signal[CHOOSE c \in Waiting : TRUE]

\* Act with its goroutine implements the abstract actioner: the kernel is
\* touched only between the call of an Act and its return, only towards
\* the signal of that Act, the host route only by an instance created with
\* with-route, and success is reported only when the kernel is as asked.
\* This is the select of Act receiving the verdict of its own goroutine.
ImplementsActioner == Abs!Spec

=============================================================================
