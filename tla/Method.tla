------------------------------- MODULE Method -------------------------------
(***************************************************************************)
(* DumpMethods of package checker: the list it prints for the user, built  *)
(* by ranging over the map methods in whatever order the runtime chooses,  *)
(* and the way back from a listed name to a kind by ParseMethod and, for   *)
(* auto, TranslateAuto.                                                    *)
(***************************************************************************)
EXTENDS MethodNames, Sequences, FiniteSets, TLC

CONSTANTS Registered,   \* the keys of methods once the init functions ran
          Protos        \* the protocols of the targets

VARIABLES pc,       \* where DumpMethods is: "idle", "range" or "done"
          mtds,     \* its array of kinds
          i,        \* the next index of mtds to fill
          todo,     \* the keys the range loop has not reached yet
          res,      \* the list it returns
          choice    \* the entry the user picked and what the tool made of it

vars == <<pc, mtds, i, todo, res, choice>>

ASSUME /\ IsFiniteSet(Registered)
       /\ Registered \subseteq CheckMethodNone..CheckMethodHTTP

-----------------------------------------------------------------------------
\* Faulty variant: room for auto only.
SlotsShort(n) == n + 1

\* The length of mtds for a map of n methods
Slots(n) == n + 2

\* Faulty variant: the order of the range loop is kept.
SortIntsNot(s) == s

\* sort.Ints
SortInts(s) == SortSeq(s, LAMBDA a, b : a < b)

\* "%d-%s"
Entry(m) == <<m, String(m)>>

NoChoice == [listed |-> 0, parsed |-> 0, kind |-> 0]

Init ==
    /\ pc = "idle"
    /\ mtds = <<>>
    /\ i = 1
    /\ todo = {}
    /\ res = <<>>
    /\ choice = NoChoice

\* DumpMethods up to its range loop
DumpBegin ==
    /\ pc = "idle"
    /\ mtds' = [k \in 1..Slots(Cardinality(Registered)) |->
                    CASE k = 1 -> CheckMethodAuto
                      [] k = 2 -> CheckMethodPassive
                      [] OTHER -> 0]
    /\ i' = 3
    /\ todo' = Registered
    /\ pc' = "range"
    /\ UNCHANGED <<res, choice>>

\* One turn of the range loop: the runtime hands out any key not seen yet.
DumpRange(m) ==
    /\ pc = "range"
    /\ m \in todo
    /\ mtds' = [mtds EXCEPT ![i] = m]
    /\ i' = i + 1
    /\ todo' = todo \ {m}
    /\ UNCHANGED <<pc, res, choice>>

\* DumpMethods after its range loop
DumpFormat ==
    /\ pc = "range"
    /\ todo = {}
    /\ res' = [k \in DOMAIN mtds |-> Entry(SortInts(mtds)[k])]
    /\ pc' = "done"
    /\ UNCHANGED <<mtds, i, todo, choice>>

\* The user picks entry k of the list and writes its name in lower case or
\* not; the tool parses the name and resolves auto for a target of protocol
\* proto.
Pick(k, lower, proto) ==
    /\ pc = "done"
    /\ k \in DOMAIN res
    /\ LET parsed == ParseMethod([res[k][2] EXCEPT !.lower = lower])
       IN  choice' = [listed |-> res[k][1], parsed |-> parsed,
                      kind   |-> IF parsed = CheckMethodAuto
                                 THEN TranslateAuto(proto) ELSE parsed]
    /\ UNCHANGED <<pc, mtds, i, todo, res>>

\* The list is dropped; DumpMethods may be called again.
Forget ==
    /\ pc = "done"
    /\ pc' = "idle" /\ mtds' = <<>> /\ i' = 1 /\ todo' = {} /\ res' = <<>>
    /\ choice' = NoChoice

Next ==
    \/ DumpBegin
    \/ \E m \in Registered : DumpRange(m)
    \/ DumpFormat
    \/ \E k \in 1..(Cardinality(Registered) + 2), lower \in BOOLEAN, proto \in Protos :
          Pick(k, lower, proto)
    \/ Forget

Spec == Init /\ [][Next]_vars

-----------------------------------------------------------------------------
Methods == Registered \cup {CheckMethodAuto, CheckMethodPassive}

\* The variables hold values of their types, and the range loop stays
\* inside the array.
TypeOK ==
    /\ pc \in {"idle", "range", "done"}
    /\ mtds \in Seq(Methods \cup {0})
    /\ i \in 1..(Len(mtds) + 1)
    /\ todo \subseteq Registered
    /\ res \in Seq(Nat \X [word : STRING, num : Nat, lower : BOOLEAN])
    /\ choice \in [listed : Methods \cup {0}, parsed : Nat, kind : Nat]

(***************************************************************************)
(* The list DumpMethods returns does not depend on the order in which the  *)
(* range over the map methods hands out the keys: it is the registered     *)
(* kinds with auto and passive, each once, in ascending order.             *)
(***************************************************************************)
DumpInOrder ==
    pc = "done" =>
        /\ {res[k][1] : k \in DOMAIN res} = Methods
        /\ \A k \in DOMAIN res : res[k] = Entry(res[k][1])
        /\ \A k \in 1..(Len(res) - 1) : res[k][1] < res[k + 1][1]

(***************************************************************************)
(* Every name DumpMethods lists, except passive, selects the kind it is    *)
(* listed with when given to ParseMethod in any letter case, and the kind  *)
(* TranslateAuto puts in the place of auto has a prototype.                *)
(***************************************************************************)
ListedNamesSelect ==
    choice.listed \notin {0, CheckMethodPassive} =>
        /\ choice.parsed = choice.listed
        /\ choice.kind \in Registered

=============================================================================
