---------------------------- MODULE HealthEngine ----------------------------
(***************************************************************************)
(* The health engine of one target: the checker loop that turns probe      *)
(* verdicts into a confirmed state, the queue of one transition event, and *)
(* the dispatcher that hands events to the actioner.  The loop and the     *)
(* dispatcher are two tasks; the actioner is the KernelRouteAddDel         *)
(* actioner as KernelRouteAbs describes it, which KernelRoute implements.  *)
(*                                                                         *)
(* The files of the loop and the dispatcher are not in the repository's    *)
(* source tree: both are written from the design document (its sections    *)
(* 4.3 to 4.5), rule for rule.                                             *)
(***************************************************************************)
EXTENDS Naturals, Sequences

CONSTANTS UpRetry,     \* up-retry of the probe configuration
          DownRetry,   \* down-retry
          SyncTime     \* min-sync-interval of the actioner configuration, in ticks

ASSUME /\ UpRetry \in Nat \ {0} /\ DownRetry \in Nat \ {0}
       /\ SyncTime \in Nat

VARIABLES confirmed,    \* the confirmed state of the record
          counter,      \* consecutive verdicts against it
          recent,       \* the latest decisive verdicts, oldest first
          queue,        \* the event queue of the dispatcher, capacity 1
          elapsed,      \* now - last-action, as far as SyncTime
          lastSignal,   \* the signal of that Act
          fate,         \* what became of the event the dispatcher took last
          instance, kernel, acting, last      \* the actioner

loopVars     == <<confirmed, counter, recent>>
dispatchVars == <<elapsed, lastSignal, fate>>
actionerVars == <<instance, kernel, acting, last>>
vars == <<loopVars, queue, dispatchVars, actionerVars>>

Actioner == INSTANCE KernelRouteAbs

States    == {"Healthy", "Unhealthy"}
ZeroRetry == 999999

\* The verdicts a flip takes: "zero retry" is one.
Needed(retry) == IF retry = ZeroRetry THEN 1 ELSE retry

\* N of the state machine while `state` is confirmed.
Threshold(state) == Needed(IF state = "Unhealthy" THEN UpRetry ELSE DownRetry)

(***************************************************************************)
(* A transition event.  The clock is monotonic and no two readings of it   *)
(* are equal, so the timestamp of an event is older than last-action       *)
(* exactly when a successful Act has returned since the event was          *)
(* published: `old` says so in the place of the two timestamps.            *)
(***************************************************************************)
Events == [signal : States, initial : BOOLEAN, old : BOOLEAN]

Event(sig, initial) == [signal |-> sig, initial |-> initial, old |-> FALSE]

-----------------------------------------------------------------------------
Init ==
    /\ confirmed \in States
    /\ counter = 0
    /\ recent = <<>>
    /\ queue = <<>>
    /\ elapsed = SyncTime
    /\ lastSignal = "none"
    /\ fate = "none"
    /\ Actioner!Init

\* Faulty variant: an event that finds the queue full is lost.
PublishIfRoom(e) == IF queue = <<>> THEN <<e>> ELSE queue

\* The queue once e is published: the latest event supersedes a pending one.
Publish(e) == <<e>>

\* AddTarget: the record with its actioner, and the event that replays the
\* initial state.
AddTarget(w) ==
    /\ Actioner!Create(w)
    /\ queue' = Publish(Event(confirmed, TRUE))
    /\ UNCHANGED <<loopVars, dispatchVars>>

\* The decisive verdicts the loop has seen, v the latest.
Seen(v) ==
    LET all  == Append(recent, v)
        keep == Threshold("Healthy") + Threshold("Unhealthy")
    IN  IF Len(all) <= keep THEN all ELSE Tail(all)

\* Faulty variant: a verdict for the confirmed state leaves the count.
AfterAgreeKept(c) == c

\* The counter after a verdict for the confirmed state.
AfterAgree(c) == 0

\* Faulty variant: the counter is compared before it is incremented.
AtThresholdLate(c) == c >= Threshold(confirmed)

\* The verdict counted after c others reaches the threshold.
AtThreshold(c) == c + 1 >= Threshold(confirmed)

\* Loop body, step 1: Unknown is no observation.
ProbeUnknown ==
    /\ instance.made
    /\ UNCHANGED vars

\* Step 2: the verdict is the confirmed state.
ProbeAgrees ==
    /\ instance.made
    /\ counter' = AfterAgree(counter)
    /\ recent' = Seen(confirmed)
    /\ UNCHANGED <<confirmed, queue, dispatchVars, actionerVars>>

\* Step 3, below the threshold: the verdict v against the confirmed state
\* is counted.
ProbeCounts(v) ==
    /\ instance.made
    /\ v # confirmed
    /\ ~AtThreshold(counter)
    /\ counter' = counter + 1
    /\ recent' = Seen(v)
    /\ UNCHANGED <<confirmed, queue, dispatchVars, actionerVars>>

\* Step 3, at the threshold: the state flips and the transition is published.
ProbeFlips(v) ==
    /\ instance.made
    /\ v # confirmed
    /\ AtThreshold(counter)
    /\ confirmed' = v
    /\ counter' = 0
    /\ recent' = Seen(v)
    /\ queue' = Publish(Event(v, FALSE))
    /\ UNCHANGED <<dispatchVars, actionerVars>>

Probe == ProbeUnknown \/ ProbeAgrees \/ \E v \in States : ProbeCounts(v) \/ ProbeFlips(v)

-----------------------------------------------------------------------------
\* Rule 1 of the dispatcher: the event is older than the latest action.
Stale(e) == e.old

\* Rule 2: the signal of the latest successful action, again within the
\* minimal interval; the replay of the initial state is exempt.
Repeat(e) ==
    /\ ~e.initial
    /\ elapsed < SyncTime
    /\ e.signal = lastSignal

\* Faulty variant: the dispatcher reads the event and leaves it queued.
TakenPeeked == queue

\* The queue once the dispatcher has taken its event.
Taken == <<>>

\* The dispatcher, between two actions, takes the event e with fate f.
Take(e, f) ==
    /\ acting = Actioner!Idle
    /\ queue = <<e>>
    /\ queue' = Taken
    /\ fate' = f
    /\ UNCHANGED <<loopVars, elapsed, lastSignal>>

DropStale(e) ==
    /\ Take(e, "stale")
    /\ Stale(e)
    /\ UNCHANGED actionerVars

Debounce(e) ==
    /\ Take(e, "repeat")
    /\ ~Stale(e) /\ Repeat(e)
    /\ UNCHANGED actionerVars

\* Rule 3: Act(signal, action-timeout), which the actioner refuses at once
\* or begins.
Invoke(e) ==
    /\ ~Stale(e) /\ ~Repeat(e)
    /\ \/ Take(e, "err") /\ Actioner!Refuse(e.signal)
       \/ Take(e, "acting") /\ Actioner!Begin(e.signal)

\* The actioner at work on the kernel.
Reconcile(f) ==
    /\ Actioner!Reconcile(f)
    /\ UNCHANGED <<loopVars, queue, dispatchVars>>

\* Rule 4: Act returns; a success is recorded, an error is left to the
\* next transition.
Finish(result) ==
    /\ Actioner!Return(result)
    /\ fate' = result
    /\ IF result = "ok"
       THEN /\ elapsed' = 0
            /\ lastSignal' = acting
            /\ queue' = [k \in DOMAIN queue |-> [queue[k] EXCEPT !.old = TRUE]]
       ELSE UNCHANGED <<elapsed, lastSignal, queue>>
    /\ UNCHANGED loopVars

Dispatch == \E e \in Events : DropStale(e) \/ Debounce(e) \/ Invoke(e)

Returns == \E result \in Actioner!Results : Finish(result)

\* Time passes; past the minimal interval the dispatcher no longer tells
\* how much.
Tick ==
    /\ elapsed < SyncTime
    /\ elapsed' = elapsed + 1
    /\ UNCHANGED <<loopVars, queue, lastSignal, fate, actionerVars>>

Next ==
    \/ \E w \in BOOLEAN : AddTarget(w)
    \/ Probe
    \/ Dispatch
    \/ \E f \in {"addr", "route"} : Reconcile(f)
    \/ Returns
    \/ Tick

Spec == Init /\ [][Next]_vars

\* The dispatcher is a task of its own and the scheduler runs it; an Act
\* returns, with the verdict of the actioner or on its timeout.
FairSpec == Spec /\ WF_vars(Dispatch) /\ WF_vars(Returns)

-----------------------------------------------------------------------------
\* The variables hold values of their types; the counter stays below the
\* threshold of the confirmed state.
TypeOK ==
    /\ confirmed \in States
    /\ counter \in 0..(Threshold(confirmed) - 1)
    /\ recent \in Seq(States)
    /\ queue \in {<<>>} \cup {<<e>> : e \in Events}
    /\ elapsed \in 0..SyncTime
    /\ lastSignal \in States \cup {"none"}
    /\ fate \in {"none", "stale", "repeat", "acting", "ok", "err", "timeout"}
    /\ acting \in States \cup {Actioner!Idle}

\* The kernel is as Act(sig) leaves it.
Applied(sig) == \A f \in Actioner!Fields : kernel[f] = Actioner!Wanted(sig)

(***************************************************************************)
(* The confirmed state flips only on a run of verdicts for the other       *)
(* state as long as the threshold: up-retry healthy verdicts in a row to   *)
(* become Healthy, down-retry unhealthy ones to become Unhealthy, one when *)
(* the field holds 999999.  Verdicts Unknown between them neither count    *)
(* nor break the run; a verdict for the confirmed state breaks it.  This   *)
(* is the hysteresis of the checker loop (steps 1 to 3 of its body).       *)
(***************************************************************************)
FlipNeedsRetries ==
    [][confirmed' # confirmed =>
          LET n == Threshold(confirmed)
          IN  /\ Len(recent') >= n
              /\ \A k \in (Len(recent') - n + 1)..Len(recent') : recent'[k] = confirmed'
      ]_vars

(***************************************************************************)
(* When the dispatcher rests on an empty queue and the event it took last  *)
(* ended in a successful Act, the kernel is as the confirmed state asks:   *)
(* the address is on the interface exactly when the target is Healthy.     *)
(* The loop may confirm transitions while an Act runs; the queue of one    *)
(* event must then hold the latest of them, and the dispatcher must take   *)
(* it after the Act.  An event the dispatcher dropped as stale or as a     *)
(* repeat, and an Act that failed, promise nothing.                        *)
(***************************************************************************)
ReconciledAfterSuccess ==
    acting = Actioner!Idle /\ queue = <<>> /\ fate = "ok" => Applied(confirmed)

(***************************************************************************)
(* Every event leaves the queue, however often the loop publishes a new    *)
(* one: the dispatcher comes back from every Act and takes what waits.     *)
(***************************************************************************)
EventsLeaveQueue == queue # <<>> ~> queue = <<>>

(***************************************************************************)
(* A dropped event needed no action: when the dispatcher has dropped the   *)
(* event it took last, as stale or as a repeat, and nothing is pending,    *)
(* the kernel is as the confirmed state asks.  This is what rules 1 and 2  *)
(* of the dispatcher take for granted, the first of an event older than    *)
(* the last successful Act, the second of an event with the signal of that *)
(* Act; and what rule 4 promises of an Act that failed, that the next      *)
(* transition drives the actioner again.                                   *)
(***************************************************************************)
DroppedIsApplied ==
    fate \in {"stale", "repeat"} /\ queue = <<>> => Applied(confirmed)

=============================================================================
