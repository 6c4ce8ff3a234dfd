# Model checking the dpvs health-check tool

TLA+ models of `tools/healthcheck` of dpvs, checked with TLC. The sources
modelled are the files under `src/`; the behaviour of the parts of the tool
that are not among them is taken from `spec.md` and marked as such.

## 1. Inventory

### What the source files hold

| File under `src/` | Lines | Content |
|---|---|---|
| `tools/healthcheck/pkg/checker/checker.go` | 1-175 | package `checker`: the `CheckMethod` interface, the `Method` kinds, the process-wide registry `methods`, `Validate`, `NewChecker`, `ParseMethod`, `Method.String`, `TranslateAuto`, `DumpMethods` |
| `tools/healthcheck/pkg/checker/checker.go` | 176-430 | package `actioner`: `KernelRouteAction` (the `KernelRouteAddDel` actioner): `Act`, `validate`, `create`, `isExistError`, `isNotExistError` |
| `tools/healthcheck/pkg/checker/udp_checker.go` | 1-180 | `UDPChecker`: `Check`, `validate`, `create` |
| `tools/healthcheck/pkg/checker/udpping_checker.go` | 1-100 | `UDPPingChecker`, the composite of a ping and a UDP check |
| `tools/healthcheck/Makefile` | 1-36 | build rules |
| `tools/healthcheck/Makefile` | 37-238 | package `utils`: `AF`, `IPProto`, `L3L4Addr` with `String`, `ParseL3L4Addr`, `Network`, `Addr`, `DeepCopy`, and `WriteFull` |
| `unnamed/part_000` | 1-96 | the reference of the configuration file |

### Components, their state and their operations

**KernelRouteAddDel actioner.** State of an instance: `target`, `ifname`,
`withRoute`, fixed by `create`. State it acts on: the kernel (is the target
address on the interface, is the host route installed). `Act(signal, timeout)`
refuses a timeout that is not positive; otherwise it makes a channel `done` of
capacity 1, starts a goroutine and waits in a `select` for `done` or for the
timeout context. The goroutine calls `LinkByName`, then `AddrAdd` and, with
`with-route`, `RouteAdd` (any signal but `Unhealthy`), or `AddrDel` and
`RouteDel` (`Unhealthy`); "already exists" on add and "not found" on delete are
demoted to warnings, any other error is sent on `done` and ends the goroutine.
What is hard: the goroutine is not cancelled when the timeout wins, so
goroutines of successive `Act`s on the same address can interleave; a failure
after the first netlink call leaves the kernel half changed.
Correct when: success means the kernel is in the state asked for; `Act` is
idempotent; every goroutine ends.

**Check-method registry.** State: the map `methods` from `Method` to a
prototype object, filled by the `init` functions through `registerMethod`.
Operations: `Validate(kind, params)` (nil for `auto` whatever the parameters),
`NewChecker(kind, target, params)` (looks the prototype up and calls its
`create`), the conversions `ParseMethod`, `String`, `TranslateAuto`, and
`DumpMethods`. What is hard:
`create` is a method of the shared prototype, so what it writes it writes for
every later caller. Correct when: prototypes do not change after start-up, an
instance holds exactly the parameters it was created with, instances of two
targets share nothing, no input makes `NewChecker` panic.

**UDP checker.** State of an instance: `send`, `receive`, `proxyProto`.
`Check(target, timeout)` refuses a timeout that is not positive, dials, sets the
deadline, writes the PROXY v2 preamble if asked, writes `send` (or an empty
datagram), reads at most `len(receive)` bytes and compares. A read time-out with
both `send` and `receive` empty is `Healthy`; every other failure is
`Unhealthy`. `validate` accepts `send`, `receive` (non-empty) and
`proxy-protocol` (`v2` in any case); `create` validates and returns a new
instance. What is hard: the boundary cases of the read (empty buffer, a reply
longer than the buffer), the case-insensitive validation against the
case-sensitive use of `proxy-protocol`, and which object `create` fills in.

**UDPPing checker.** Holds a `PingChecker` and a `UDPChecker`. `Check` runs the
ping with the whole timeout, returns `Unhealthy` if the ping does, and runs the
UDP check with what is left of the timeout. What is hard: the ping may use up
the budget, and the UDP check then sees a timeout that is not positive; the
prototype registered by `init` holds two nil pointers, and `create` calls
methods through them.

**utils.** Pure conversions: `IPProto` to and from its name, `L3L4Addr` to and
from `IP-PROTO-PORT`, the network name and dial address of an `L3L4Addr`; and
`DeepCopy`, which gives the copy a struct and IP bytes of its own.
What is hard: `ParseL3L4Addr` on inputs with fewer than three segments, ports
outside 16 bits, the round trip; a copy that shares the bytes of the IP with
its original. Correct when: parsing what `String` printed gives the address
back, no input makes the parser panic, and a copy never changes with its
original.

**Checker loop, action dispatcher, engine** (`spec.md` sections 4.3-4.5). Not
among the source files. State of a target record: the confirmed state, the
counter of consecutive verdicts against it, the time and the signal of the
last successful action, and a queue of one transition event. The checker loop
turns verdicts into a confirmed state (`up-retry`, `down-retry`) and publishes
a transition; the dispatcher drops stale and debounced events and invokes the
actioner, one `Act` at a time; the engine adds, updates and removes targets.
What is hard: the loop and the dispatcher are two tasks, so transitions are
confirmed while an `Act` runs; the queue holds one event; what the dispatcher
remembers of the kernel is the last success, not what a failed `Act` left.
Correct when: the state flips only after the configured run of verdicts, every
event is taken, and after a successful action with nothing pending the kernel
is as the confirmed state asks.

**Other probe methods** (`none`, `tcp`, `ping`, `http`) and **other actioners**
(`Blank`, `BackendUpdate`, `DpvsAddrAddDel`, `DpvsAddrKernelRouteAddDel`,
`Script`): not among the source files.

### How the components interact

The engine validates a target's configuration through `Validate`, maps `auto`
to a kind with `TranslateAuto`, and obtains a checker from `NewChecker` and an
actioner from the actioner's `create`. The target's checker loop calls `Check`
periodically; a confirmed transition becomes an event for the target's
dispatcher, which calls `Act`. `UDPPingChecker.Check` calls `PingChecker.Check`
and `UDPChecker.Check`, which dials the network `target.Network()` at
`target.Addr()`. `KernelRouteAction.create` keeps `target.DeepCopy()`.
`KernelRouteAction.Act` and its goroutine share the
channel `done`; the goroutines of all `Act`s of a target share the kernel's
state for the target address.

## 2. Plan

Modules, in the order they were written; the most consequential behaviour (the
one that changes the kernel, concurrently) comes first.

| # | Module | Models | Composes | State |
|---|---|---|---|---|
| 1 | `KernelRoute` | `KernelRouteAction`: `create`, `validate`, `Act`, its goroutine, the select | the kernel as environment | checked |
| 2 | `UDPChecker` | `UDPChecker.validate`, the assignments of `create`, `UDPChecker.Check` and `UDPPingChecker.Check` as operators over a target, a network environment and a time budget | `Utils` (`Network`, `Addr`) | checked through `Checker` |
| 3 | `Checker` | the registry, the `init` functions, `Validate`, `NewChecker` with `UDPChecker.create` and `UDPPingChecker.create` over a heap of checker objects, `Check` on the instances | `UDPChecker` by `EXTENDS`, `MethodNames` by `INSTANCE` | checked |
| 4 | `Utils`, `Addr` | `utils`: `IPProto` with `String` and `ParseIPProto`, `L3L4Addr` with `String`, `Network`, `Addr` and `ParseL3L4Addr` as operators (`Utils`); a caller of `String` and `ParseL3L4Addr` (`Addr`) | - | checked |
| 5 | `MethodNames`, `Method` | `Method.String`, `ParseMethod`, `TranslateAuto` as operators (`MethodNames`); `DumpMethods` over every iteration order of the map (`Method`) | - | checked |
| 6 | `KernelRouteAbs` | what the actioner promises its dispatcher; `KernelRoute` with netlink calls that return in time implements it | `KernelRoute` by `INSTANCE ... WITH` | checked |
| 7 | `Target` | `KernelRouteAction.create` on a heap of `L3L4Addr` records and IP byte arrays: the refusals and `DeepCopy` | `Utils` | checked |
| 8 | `HealthEngine` | the checker loop and the dispatcher of `spec.md` 4.3 and 4.4 and the creation of a record (4.5), from the specification | `KernelRouteAbs` as the actioner, by `INSTANCE` | checked |

The modules `MC...` give the constants their values for TLC. `MCUtils` and
`MCPackage` also put modules that share no state into one specification:
`Addr` with `Target`; `Method` with `Checker` for one target and `Checker`
for two.

A module `UDPBound`, for `UDPChecker.Check` on checkers whose fields are bound,
was planned and is not written: see section 10.

## 3. Modules `KernelRoute` and `KernelRouteAbs`

### Correspondence with the code

| Model | Code (`checker.go`) |
|---|---|
| `created`, `withRoute` | the instance `create` returns (414-430); `withRoute` is `String2bool(params["with-route"])` with the error ignored, so an absent key reads as `false` |
| `validate(p)` | `validate` (379-412); parameters are abstracted to what it tells apart |
| `kernel.addr`, `kernel.route` | the address `addr/32` (or `/128`) on `ifname`, and the host route to it |
| `caller[c]`, `worker[c]`, `done[c]`, `pending[c]`, `signal[c]` | one invocation of `Act`: the caller in its select, the goroutine's next statement, the channel, the error the goroutine is about to send, the argument |
| `ActZeroTimeout` | 272-274 |
| `ActBegin` | 275-282: context, channel, `go func` |
| `WorkerLink` | 297-301 |
| `WorkerAddr` | 303-320 (add) and 335-342 (delete) |
| `WorkerRoute` | 322-333 and 344-355 |
| `Fail(c, err)` | every `done <- fmt.Errorf("...: %w", err)`: the error of the netlink call is what the channel carries |
| `WorkerSend` | the send itself and the goroutine's end, 357 for `nil` |
| `ActReceive` | 369-376 |
| `ActTimeout` | 366-368 |
| `last` | what the most recent `Act` returned (`result`, and the error in `err`), and for which signal |

`Put`, `Drop` and `Netlink` are the environment: what the kernel answers to a
netlink call. Adding what exists gives `EEXIST`; deleting an address that is
not there gives `EADDRNOTAVAIL`, whose text is the "cannot assign requested
address" the code looks for; deleting a route that is not there gives `ESRCH`.
A call listed in the constant `Faults` may also fail with `EPERM` without
effect. The address and the host route are independent of each other. Nothing
but `Act` changes them.

The caller of `Act` is the dispatcher of one target, which runs one `Act` at a
time (`DispatcherIdle`, from `spec.md` 4.4). It passes `Healthy` or
`Unhealthy`.

### Abstractions

* Time. The model has no clock. With `SlowNetlink = TRUE` the timeout of `Act`
  may expire at any moment while the caller is in the select, which covers every
  ratio of timeout to netlink latency; with `SlowNetlink = FALSE` it never
  expires, which is the assumption that netlink answers in time.
* An error is the errno of the netlink call that failed; the text wrapped
  around it is left out.
* `Calls` is a set of slots. A slot is taken by `ActBegin` and free again when
  its goroutine has ended, so its size bounds the number of goroutines alive at
  once, never the number of `Act`s: behaviours are infinite.

### The abstract actioner and the refinement

`KernelRouteAbs` is the actioner as `spec.md` 4.2 describes it and as a
dispatcher sees it. Its state is the instance, the kernel, the signal of the
`Act` that runs (`acting`) and the latest return (`last`). `Begin` starts an
`Act`; `Reconcile(f)` sets one field of the kernel the instance is in charge
of to what the signal asks; `Return` ends the `Act`, with `ok` only if every
such field is as asked; `Refuse` is an `Act` that fails at once. There are no
goroutines, channels or errnos in it.

`KernelRoute` instantiates it (`Abs`) with

| Abstract variable | In `KernelRoute` |
|---|---|
| `instance` | `[made |-> created, withRoute |-> withRoute]` |
| `kernel` | `kernel` |
| `acting` | the signal of the slot whose caller is in its select, `"idle"` if none is |
| `last` | `last` without the errno |

and `ImplementsActioner` is `Abs!Spec`. Steps of the goroutine that leave the
kernel alone (`WorkerLink`, a netlink call answered with an error, `WorkerSend`)
are stuttering steps of the abstract actioner; a netlink call that changes the
kernel is a `Reconcile`; `ActReceive` is a `Return`. The refinement holds when
netlink calls return within the timeout. It does not hold with
`SlowNetlink = TRUE`: the goroutine that a timed-out `Act` leaves behind
changes the kernel while no `Act` runs, or against the signal of the one that
does, which is the finding of run `kr_abandoned`.

### Bounds

| Constant | Value | Why it is enough |
|---|---|---|
| `Calls` | two slots | one abandoned goroutine next to the current `Act` is what the hazards need; with a third slot the same states repeat with one more idle goroutine |
| `Timeouts` | `{0, 2}` or `{2}` | the code only tests `timeout <= 0` |
| `Faults` | all five netlink calls, or none | either every call may fail or none does |

### Fairness

`FairSpec` assumes weak fairness of each goroutine's steps: the Go scheduler
runs a runnable goroutine, and a netlink call returns. Nothing is assumed of
the caller or of the dispatcher.

## 4. Modules `UDPChecker` and `Checker`

### Correspondence with the code

| Model | Code |
|---|---|
| `validate(params)` | `UDPChecker.validate` (`udp_checker.go` 134-160): true when it returns nil |
| `Assigns`, `Assign` | the three `if val, ok := params[...]` of `create` (169-177) |
| `IsUDPConn(target)` | 58-79: `target.Network()`, `target.Addr()`, `Dial`, and the assertion `conn.(*net.UDPConn)` |
| `Check(c, target, timeout, net)` | `UDPChecker.Check` (53-132); `GivesUp` is the returns of 68-103, `Ambiguous` the rule of 107-119, `Got` the cut `buf[:n]` of a buffer of `len(c.receive)` bytes, `Answered` the comparison of 124-131 |
| `PingCheck(c, target, timeout, ping, net)` | `UDPPingChecker.Check` (`udpping_checker.go` 53-74); the UDP check gets `timeout - ping.elapsed` |
| `methods` | the map `methods` (`checker.go` 70); an entry is the address of the `UDPChecker` that the prototype is (`udp`) or embeds (`udpping`, nil) |
| `heap` | the fields of every `UDPChecker` object |
| `initUDP`, `initUDPPing`, `registerMethod` | the two `init` functions and `registerMethod` (72-77) |
| `Validate(kind, p)` | a call of `Validate` (97-107): nil for `auto` whatever the map holds, an error for a kind without prototype, else the answer of the prototype's `validate` |
| `Creating(t, kind, p)`, `NewChecker(t, kind, p)` | `NewChecker` (109-119) with the `create` it calls, one disjunct per way it ends: `NewCheckerUnsupported` (110-113), `NewCheckerInvalid` (`create` returns the error of `validate`), `NewCheckerPingFails` (`UDPPingChecker.create` returns the error of `PingChecker.create`, `udpping_checker.go` 87-90), `NewCheckerPanic` (an assignment through a nil receiver), `NewCheckerCreates` |
| `Returned`, `Assigned` | which object `create` returns (the one it allocated, 167 and 179) and which it assigns to (its receiver, 170-176) |
| `checker[t]` | what the owner of target `t` got from its latest successful `NewChecker` |
| `asked` | the target and the parameters of the latest `NewChecker` that returned an instance |
| `ret` | how the latest `Validate` or `NewChecker` ended (`"panic"` ends the process) |
| `CheckUDP`, `CheckUDPPing` | `Check` on the checker of a target |
| `last` | the latest `Check`: kind, target, timeout, the verdict of the ping if it ran, the verdict |

### Environment and abstractions

* A string is a sequence of characters, so that length, `strings.ToLower` and
  the cut of a reply are what they are in the code.
* A parameter map is a function from the keys it holds to strings.
* `Dialled(network, address)` of `Utils` is the standard library's `Dial` as
  far as the check depends on it: `udp4` and `udp6` give a `*net.UDPConn`,
  `tcp4` and `tcp6` a `*net.TCPConn`, each only for an address of its family,
  written with brackets exactly for IPv6; `ip4:icmp`, `ip6:ipv6-icmp` and
  `(unknown)` do not take an address with a port and give an error.
* The network during one check is the first socket call that fails, if any
  (`Dial`, `SetDeadline`, the write of the preamble, the write of the payload),
  and what `ReadFrom` returns: a time-out, another error, or a datagram. The
  code returns at the first failure, so later failures tell nothing apart.
  `WriteFull` on a datagram connection is one `Write`, which sends the slice or
  fails.
* `PingChecker` is not among the sources. Its `Check` returns `Healthy` or
  `Unhealthy` with a nil error, or `Unknown` with an error, after a time
  between 0 and the timeout plus `Overrun` (the interface lets a check return
  "in or immediately after" its timeout); its `create` returns an object or
  an error.
* Objects no longer referred to go back to the heap with zeroed fields. The
  heap has room for the prototype, one checker for each target and the one
  being created.
* The registry of the model holds the two kinds whose files are among the
  sources. Callers ask for `udp`, `udpping`, `auto`, `passive` and 0 (what
  `ParseMethod` returns for an unknown name). The caller that puts
  `TranslateAuto` between `Validate` and `NewChecker` is the engine, which is
  not among the sources: the model calls the two with any kind and any map,
  and says nothing of what the engine passes on for `auto`.
* A panic ends the process: nothing is enabled after it, which is why these
  runs do not report deadlock.

### Bounds

| Constant | Value | Why it is enough |
|---|---|---|
| `Targets` | two, interchangeable (the pair of `ck_package` uses the symmetry); one in the part `Single` of `ck_package` | sharing needs two owners; a verdict needs one |
| `MaxObjects` | 4, or 3 with one target | prototype, a checker for each target, one being created |
| `Params` | all maps over `send`, `receive`, `proxy-protocol`, `quic` with `send`, `receive` in {empty, `a`}, `proxy-protocol` in {`v2`, `V2`, `v1`}; the pair of `ck_package` takes those over the three known keys, `Single` those over `send` and `quic`, the other runs all | every case of the switch in `validate`, with a value it accepts and one it rejects, and a key it does not know; sharing is about accepted maps, a verdict about the instance, which holds nothing of the map |
| `Addrs` | UDP to an IPv4 address held in 16 bytes; in `Single` also UDP to an IPv6 address, TCP and ICMP to an IPv4 address held in 4 bytes, UDP without IP | one target for each case of `Network` and each branch of `Addr` |
| `Timeouts` | `{0, 1}`, `{1}` in the pair of `ck_package` | the code tests `timeout <= 0` |
| `Overrun` | 1 | the ping takes less than, exactly, or more than the timeout |
| `Replies` | empty, `a`; empty in the pair of `ck_package` | checkers reachable from `NewChecker` expect nothing, so every reply is cut to nothing |

## 5. Modules `Utils` and `Addr`

| Model | Code (`Makefile`, the part that is package `utils`) |
|---|---|
| `IPProtoString`, `ParseIPProto` | `IPProto.String` (110-123), `ParseIPProto` (125-138), each with its own switch |
| `String(a)` | `L3L4Addr.String` (147-150) |
| `Network(a)` | `L3L4Addr.Network` (168-188): the name of the protocol and the version (`Version`), `(unknown)` for any other protocol |
| `Addr(a)` | `L3L4Addr.Addr` (190-196): host and port, in brackets when `To4` is nil |
| `ParseL3L4Addr(str)` | `ParseL3L4Addr` (198-226): the three blocks, and between them `segs = segs[1:]` (`CanSlice`), which panics on an empty slice |
| `ParsePort` | `strconv.ParseUint(segs[0], 10, 16)` and `uint16(port)` (218-224) |
| `Render`, `Given`, `Parse`, `Discard` (module `Addr`) | a caller of the two functions: it renders an address or is given a text, parses it, and lets go of it |

`Utils` holds the operators; `Addr` is the caller, and `UDPChecker` and
`Target` use the operators too. A string is a sequence of tokens: the text of
an IP address, a name, a decimal numeral (with its value), or the dash.
`Split` cuts a string at its dashes as `strings.Split` does, `Join` is the
concatenation of `fmt.Sprintf`. An IP is no address, 4 bytes, or 16 bytes that
are an IPv4 address or not; `net.ParseIP` returns 16 bytes for either family
and `IP.String` prints both forms of an IPv4 address alike, as the library
documents. A network name is the pair of its word and its version.

Bounds: one host in its three forms and the nil IP, the four protocols and two
values without a name, the ports 0, 80 and 65535; texts of one to four pieces
(one more than the parser reads), each piece empty, one token or two tokens,
with the numeral 65536 among the tokens.

## 6. Module `Target`

`KernelRouteAction.create` once more, this time with what `KernelRoute` leaves
out: the target is a pointer to a record that its caller still holds.

| Model | Code |
|---|---|
| `structs`, `arrays` | the heap: `L3L4Addr` records (`Makefile` 140-145), whose `IP` is a slice, that is a reference to an array of bytes, or nil |
| `Value(p)` | `*p` with the bytes of its IP |
| `target`, `held` | the caller's `*L3L4Addr`; `KernelRouteAction.target` of the instance |
| `NoAddress(p)` | `target == nil \|\| len(target.IP) == 0` (`checker.go` 416) |
| `CreateRefused`, `Create` | `create` (414-430): the refusal, and `target: target.DeepCopy()` |
| `DeepCopied(in, out)` | what `DeepCopy` returns (159-166): the record it allocated |
| `CopiedIP(in, made)` | `out.IP` after `DeepCopyInto` (152-157): `*out = *in` copies the reference, `make` and `copy` replace it by an array of its own |
| `Make`, `Reuse`, `Drop`, `Destroy` | the caller, modelled from `spec.md` 3: it makes the record of a target, may write another address into the same record and array, lets go of it, and gives up the instance |
| `bound` | the value the target had when `create` was called |

An IP is one of its values (host, length, family), not its bytes: two arrays
are told apart by their addresses in `arrays`. What neither pointer reaches is
collected (`Swept`). The parameters of `create` are those `KernelRoute`
validates; here they are valid.

Bounds: two hosts with an IPv4 and an IPv6 address each, so that `Reuse` has
another address of the same length to write; two ports; two records and two
arrays (`MaxObjects`), the caller's and the actioner's.

## 7. Modules `MethodNames` and `Method`

| Model | Code (`checker.go`) |
|---|---|
| `CheckMethodNone` ... `CheckMethodPassive` | the `Method` constants (56-68) |
| `String(m)` | `Method.String` (143-165), `unknown(%d)` for any other number |
| `ParseMethod(name)` | `ParseMethod` (121-141): `strings.ToLower`, then the switch (`MethodNamed`), 0 for any other name |
| `TranslateAuto(proto)` | `Method.TranslateAuto` (167-175) |
| `DumpBegin` | `DumpMethods` 80-83: the array of `len(methods)+2` (`Slots`), auto and passive in front, `i := 2` |
| `DumpRange(m)` | one turn of `for m := range methods` (84-87); the key is any key not yet seen, since Go fixes no order |
| `DumpFormat` | `sort.Ints` (`SortInts`) and the loop that formats `"%d-%s"` (`Entry`), 88-94 |
| `Pick(k, lower, proto)` | the use the list is made for: the user writes a listed name, in lower case or not, and the tool parses it and resolves `auto` for the protocol of the target |

`MethodNames` holds the constants and the three conversions, which `Checker`
uses as well; `Method` is `DumpMethods`. A name is a word, the number of
`unknown(n)`, and whether it is written in lower case; `strings.ToLower` sets
the third. The array `mtds` is a sequence with the indices of the code plus
one.

`MCPackage` puts `Method` beside `Checker`, as they are in the package, and
`Checker` twice: for one target with every address, timeout and reply
(`Single`), and for two targets with the parameter maps over the known keys
(the pair). The three parts share no state, and a part moves only while the
two others rest: `DumpMethods` runs while both registries are as the `init`
functions left them, the registry of `Single` moves while the tool holds no
list and the pair has not begun, and the pair moves while `Single` has just
run its `init` functions. The states are those of each part beside a resting
state of the others, so the one run asks the questions of all three at the
cost of their sum.

Bounds: `Registered` is the six kinds `none` to `http`. Two of them are
registered by the source files at hand and four by files that are not; the
list and the property about it are about the tool as built, so all six are
there. With six keys the range loop has 720 orders, all explored. The
protocols are ICMP, TCP and UDP, one for each branch of `TranslateAuto`.

## 8. Module `HealthEngine`

The checker loop, the event queue and the dispatcher of one target, with the
`KernelRouteAddDel` actioner. The loop and the dispatcher are not among the
source files; every definition of this module but `Needed` is written from
`spec.md`, rule for rule. The actioner is `KernelRouteAbs`, which run
`kr_serial` shows `KernelRoute` to implement.

| Model | `spec.md` |
|---|---|
| `confirmed`, `counter` | the confirmed state and the consecutive-verdict counter of the record (3) |
| `queue` | the event queue of the dispatcher, of capacity 1; `Publish` is "the latest transition supersedes any pending one" (4.4) |
| `elapsed`, `lastSignal` | `now - last-action` and the signal of the last successful action (4.4, rule 4) |
| `Needed(retry)` | `down-retry`, `up-retry`: "999999 for zero retry" (`unnamed/part_000` 64-65) |
| `Threshold(state)` | N: `up-retry` while Unhealthy is confirmed, `down-retry` while Healthy is |
| `AddTarget(w)` | `AddTarget` (4.5) for a valid configuration: the record, the actioner from `create`, and the replay of the initial state, an event that bypasses the minimal interval |
| `ProbeUnknown` | step 1 of the loop body (4.3): Unknown changes nothing |
| `ProbeAgrees` | step 2: the verdict is the confirmed state, the counter is reset |
| `ProbeCounts(v)`, `ProbeFlips(v)` | step 3: the counter is incremented; at N the state flips, the counter is reset and the transition is published |
| `DropStale(e)` | rule 1 of the dispatcher |
| `Debounce(e)` | rule 2 |
| `Invoke(e)` | rule 3: `Act(signal, action-timeout)`, which the actioner refuses at once (`Refuse`) or begins (`Begin`) |
| `Reconcile(f)` | the actioner at work: one field of the kernel is set to what the signal asks |
| `Finish(result)` | rule 4: `Act` returns; on success the time and the signal are recorded |
| `Tick` | time passes |
| `recent`, `fate` | history: the latest decisive verdicts, and what became of the event the dispatcher took last |

### Abstractions

* A probe is one step with one of the three verdicts. Which checker gives
  it, and the cadence of the ticks, change nothing of the record.
* Time. The dispatcher compares timestamps twice. For rule 2 the model keeps
  `elapsed`, the time since the last successful action in ticks, and stops
  counting at `SyncTime`, beyond which the rule cannot tell. For rule 1 the
  model keeps a flag `old` on the queued event: the clock is monotonic, so an
  event is older than `last-action` exactly when a successful `Act` has
  returned since it was published, and `Finish` sets the flag then.
* An `Act` is `Begin`, any number of `Reconcile` steps, and `Return` with
  `ok`, `err` or `timeout`; `ok` only if the kernel is as the signal asks.
  This is the actioner whose netlink calls answer within the timeout; what
  the goroutine of a timed-out `Act` does later is the subject of
  `kr_abandoned`.

### Bounds

| Constant | Value | Why it is enough |
|---|---|---|
| `UpRetry` | 999999 | the value that stands for one verdict |
| `DownRetry` | 2 | the smallest threshold at which a verdict is counted without a flip, and a verdict for the confirmed state has a count to reset |
| `SyncTime` | 2 ticks | an event can arrive at once, within the interval, and after it |

### Fairness

`FairSpec` assumes weak fairness of `Dispatch` and of `Returns`. The
dispatcher is a task of its own that blocks on its queue only: when an event
waits and no `Act` runs, it takes the event. `Act` returns by its own select,
which has a timeout branch. Nothing is assumed of the probes, of the steps of
the actioner on the kernel, or of the clock.

### What the rules leave open

`ReconciledAfterSuccess` promises the kernel to follow the confirmed state
only after a successful `Act`. The two other ways in which the dispatcher
comes to rest on an empty queue are the drops of rules 1 and 2, which take
the dropped event to need no action. `DroppedIsApplied` states that, and run
`he_dropped` finds it violated. TLC reaches both drops with the kernel
against the confirmed state (`fate` tells them apart); its shortest trace, of
six states, is the first, and with stale drops left out of the property it
gives the second in eleven:

* *Stale.* The record is created Unhealthy and the replayed event starts
  `Act(Unhealthy)`. While it runs, a probe confirms Healthy and publishes the
  transition. `Act` succeeds and `last-action` becomes the time of its return,
  which is later than the event. The dispatcher drops the event by rule 1. The
  target is Healthy and has no address until its next transition.
* *Repeat.* `Act(Healthy)` has succeeded. The target turns Unhealthy;
  `Act(Unhealthy)` removes the address and then fails (the route delete is
  refused, or the timeout expires), so nothing is recorded. Meanwhile the
  target has turned Healthy again. The dispatcher finds the signal of the last
  successful action within the minimal interval and drops the event by rule 2.
  The target is Healthy and has no address.

Both follow from the rules as `spec.md` states them; the code of the
dispatcher is not at hand to say whether it does the same. The stale drop
rests on reading `last-action = now` of rule 4 as the time at which `Act`
returns, which is when the rule applies; were it the time at which the event
was taken, only the repeat drop would remain. In TLC's trace of
the repeat the failing `Act` returns `err` on an instance without route after
the address is gone, which `KernelRouteAbs` allows and the code reports as a
timeout instead; with `with-route` the refused `RouteDel` gives the same
trace in the code.

## 9. Runs

| Run | Module and configuration | Checks | Result |
|---|---|---|---|
| `kr_serial` | `MCKernelRoute`, `KernelRouteSerial.cfg`: no timeout expiry, every netlink call may fail | `TypeOK`, `KernelFollowsLastSuccess`, `ActIdempotent`, `ImplementsActioner` | holds |
| `kr_live` | `KernelRouteLive.cfg`: timeouts expire, calls fail, fair goroutines | `WorkersExit` | holds |
| `kr_abandoned` | `KernelRouteAbandoned.cfg`: timeouts expire, no failure | `KernelFollowsLastSuccess` | violated |
| `ck_package` | `MCPackage`, `CheckerPackage.cfg`: two targets, all kinds, the parameter maps over the known keys; one target, every address, timeout, failure and reply; the six registered kinds in every order of the map | `TypeOK`, `AllIsolated`, `SingleHealthyOnlyOverUDP`, `MethodTypeOK`, `DumpInOrder`, `ListedNamesSelect` | holds |
| `ck_binds` | `MCChecker`, `CheckerBinds.cfg`: two targets, all kinds and parameter maps | `InstanceHoldsParams` | violated |
| `ck_panic` | `CheckerPanic.cfg`: same | `NewCheckerReturns` | violated |
| `ck_unknown` | `CheckerUnknown.cfg`: same | `UnknownOnlyForBadTimeout` | violated |
| `utils_caller` | `MCUtils`, `UtilsCaller.cfg`: all addresses and texts of the bounds of `Addr`, the heap of `Target` | `TypeOK`, `RoundTrip`, `ParsedPortIsWritten`, `TargetTypeOK`, `HeldIsBound` | holds |
| `addr_total` | `MCAddr`, `AddrTotal.cfg`: all addresses and texts | `ParserTotal` | violated |
| `he_engine` | `MCHealthEngine`, `HealthEngine.cfg`: one target, thresholds 1 and 2, an interval of two ticks, fair dispatcher | `TypeOK`, `ReconciledAfterSuccess`, `FlipNeedsRetries`, `EventsLeaveQueue` | holds |
| `he_dropped` | `HealthEngineDropped.cfg`: the same target, no fairness | `DroppedIsApplied` | violated |

`kr_serial` shows three things of an actioner whose netlink calls return in
time. A nil return of `Act` means the address, and with `with-route` the
route, are as asked, whatever the kernel held before and whichever calls
failed on the way: a failed later call is reported. The error `Act` returns is
never `EEXIST`, `EADDRNOTAVAIL` or `ESRCH`: a repeated signal, or a kernel that
was already as asked, is not an error, so `Up; Up` and `Down; Down` succeed
twice unless the kernel refuses a call for another reason. And the goroutine,
the channel and the select together behave as the actioner of
`KernelRouteAbs`: the kernel changes only while an `Act` runs and only towards
its signal.

`kr_live` shows that no goroutine is left behind blocked: because `done` has
room for one value, the goroutine of an `Act` that has timed out still sends
and ends.

`kr_abandoned` shows what the goroutine left behind does. `Act(Healthy)` times
out while its goroutine is before `AddrAdd`; the dispatcher's next
`Act(Unhealthy)` finds no address, succeeds and is recorded; then the first
goroutine adds the address. The kernel now holds the address of a target whose
last successful action was `Down`, and stays so until the next transition.

`ck_package` shows that the objects `NewChecker` hands out are never shared,
with two targets and with one: each is the one `create` allocated, never a
prototype and never another target's checker; and that the prototypes hold
only values `validate` accepted.

For the one target it shows that `Healthy` is answered only for a UDP target
that has an address, whatever the ping and the network do. A TCP target dials a stream, which
fails the assertion to `*net.UDPConn`; an ICMP target and a target without IP
fail to dial. The same run
shows that the list of `DumpMethods` is the same for each of the 720 orders
of the map, ascending and without a gap or a zero, that the range loop fills
the array exactly, and that each listed name except `passive`, in either
letter case, comes back from `ParseMethod` as the kind it was listed with;
`auto` resolves to a registered kind for every protocol. `passive` is listed
and has no case in `ParseMethod`: it is not a method a user selects.

`ck_binds` shows that the instance does not hold its parameters.
`NewChecker(udp, {send: a})` returns an object whose `send` is empty, and the
prototype in the registry now has `send = a`: `create` assigns to `c`, its
receiver, not to `checker`, the object it returns. Every UDP checker therefore
sends an empty datagram and expects nothing.

`ck_panic` shows that `NewChecker(udpping, p)` panics for every `p` that holds
one of `send`, `receive`, `proxy-protocol` and passes `validate`: the prototype
`&UDPPingChecker{}` embeds a nil `*UDPChecker`, and `create` assigns through it.

`ck_unknown` shows a UDPPing check with a positive timeout and a ping
without error that returns `Unknown` with an error: the ping answers `Healthy` when the timeout has just
run out, and the UDP check is called with what is left, which is not positive.

`utils_caller` puts the caller of `Addr` and the caller of `Target` in one
thread: each moves only while the other holds nothing, so the states are
those of the one beside the resting states of the other. It shows that the key
rendered for a target parses back to an equal address whether the IP is held
in 4 or in 16 bytes, that the two switches over the protocols agree, and that
a port is accepted only if it is the number written and fits 16 bits; that an
instance is never created for a target without IP; and that the target of an
instance is the address it was created for after the caller has overwritten
the IP of its record in place, reused the record, or let go of it.

`addr_total` shows the text that makes `ParseL3L4Addr` panic: a valid IP with
no dash after it. The first `segs[1:]` leaves an empty slice, the block for the
protocol is skipped, and the second `segs[1:]` is out of range.

`he_engine` shows the hysteresis: the confirmed state flips only on a run of
verdicts for the other state as long as the threshold, one for the value
999999, and a verdict for the confirmed state in between starts the count
again. It shows that the counter never reaches the threshold without a flip.
It shows that, once an `Act` has succeeded and nothing is pending, the address
is on the interface exactly when the target is confirmed Healthy, although the
loop confirms transitions while the `Act` runs and the queue holds only the
latest. And it shows that every event leaves the queue, however often the
loop replaces it: the dispatcher returns from every `Act`.

`he_dropped` shows an event that the dispatcher drops and that still had to
be applied. The record is created Unhealthy and `Act(Unhealthy)` runs; a
probe confirms Healthy; `Act` returns nil and `last-action` is the time of
its return; the Healthy event is older and is dropped as stale. The target is
confirmed Healthy, nothing is pending, and the address is not on the
interface. Section 8 gives the second way to the same state, through a failed
`Act` and rule 2.

## 10. Not modelled

* The build rules and the configuration reference: no behaviour.
* The netlink library and the kernel beyond the two booleans; changes to the
  interface made by anyone but `Act`.
* Logging.
* The probe methods and actioners that are not among the source files.
* Sockets and file descriptors of a check (`defer conn.Close()`): the model has
  verdicts, not resources.
* `findLinkByAddr` (`checker.go` 234-253): its only call is in a block of `Act`
  that is commented out.
* `AF`, `AFs`, `IPAF`, `IPAddrClone`: no caller among the sources.
* `WriteFull` as a loop: every connection the sources write to is a datagram
  connection, on which a write is whole or fails, so the loop runs once. Its
  outcome is the network failure `write` or `writeProxy` of `UDPChecker`.
* `UDPChecker.Check` on a checker whose `send`, `receive` or `proxyProto` is
  not empty. `Got`, `Answered` and the preamble are modelled for any fields,
  but `create` leaves every instance empty (run `ck_binds`), so no property
  over bound fields would be about a state the program reaches. This covers
  the cut of a reply to `len(receive)` and the letter case of
  `proxy-protocol`, which `validate` lowers and `Check` does not.
* The writes of two concurrent `create` calls to the fields of the shared
  prototype. Nothing among the sources calls `NewChecker` concurrently, and
  nothing reads those fields: `Check` runs on instances, never on a prototype.
* The engine's use of `Validate`, `TranslateAuto` and `NewChecker` for a
  target. `Validate` returns nil for `auto` without looking at the map
  ("auto method always uses default configs"), and `create` of the kind that
  `auto` stands for would refuse a map that kind does not accept; whether the
  engine hands that map on or drops it is decided by code that is not among
  the sources.
* The engine beyond `AddTarget`: `UpdateTarget`, `RemoveTarget`, `Shutdown`
  and the map of targets under its lock (`spec.md` 4.5). They are known from
  the specification alone, and what they must get right, the cancellation of
  a task that waits in a probe or in an `Act`, depends on code that is not
  among the sources.
* The engine over the goroutines of the actioner. `HealthEngine` takes a
  verdict from any checker and the actioner as `KernelRouteAbs` abstracts it.
  `KernelRoute` with netlink calls that answer in time implements
  `KernelRouteAbs` (`kr_serial`), so what `he_engine` shows holds over that
  actioner; with timeouts that expire the engine inherits what `kr_abandoned`
  shows.
* Several targets in `HealthEngine`: records share nothing but the engine's
  map, which is not modelled.
