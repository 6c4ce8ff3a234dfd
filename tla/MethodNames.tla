----------------------------- MODULE MethodNames -----------------------------
(***************************************************************************)
(* The kinds of check method (package checker) and their conversions:      *)
(* Method.String, ParseMethod and TranslateAuto.                           *)
(*                                                                         *)
(* A name is a word, a number for the names that carry one, and whether    *)
(* it is written in lower case.                                            *)
(***************************************************************************)
EXTENDS Naturals

CheckMethodNone    == 1
CheckMethodTCP     == 2
CheckMethodUDP     == 3
CheckMethodPing    == 4
CheckMethodUDPPing == 5
CheckMethodHTTP    == 6
CheckMethodAuto    == 10000
CheckMethodPassive == 65535

IPProtoTCP == 6
IPProtoUDP == 17

Named(w)   == [word |-> w, num |-> 0, lower |-> TRUE]
Unknown(m) == [word |-> "unknown", num |-> m, lower |-> TRUE]

\* strings.ToLower
ToLower(name) == [name EXCEPT !.lower = TRUE]

\* Method.String
String(m) ==
    CASE m = CheckMethodTCP     -> Named("tcp")
      [] m = CheckMethodUDP     -> Named("udp")
      [] m = CheckMethodPing    -> Named("ping")
      [] m = CheckMethodUDPPing -> Named("udpping")
      [] m = CheckMethodNone    -> Named("none")
      [] m = CheckMethodHTTP    -> Named("http")
      [] m = CheckMethodPassive -> Named("passive")
      [] m = CheckMethodAuto    -> Named("auto")
      [] OTHER                  -> Unknown(m)

\* The switch of ParseMethod
MethodNamed(name) ==
    CASE name = Named("tcp")     -> CheckMethodTCP
      [] name = Named("udp")     -> CheckMethodUDP
      [] name = Named("ping")    -> CheckMethodPing
      [] name = Named("udpping") -> CheckMethodUDPPing
      [] name = Named("http")    -> CheckMethodHTTP
      [] name = Named("none")    -> CheckMethodNone
      [] name = Named("auto")    -> CheckMethodAuto
      [] OTHER                   -> 0

\* Faulty variant: the name is compared as written.
ParseMethodAsWritten(name) == MethodNamed(name)

ParseMethod(name) == MethodNamed(ToLower(name))

\* Method.TranslateAuto
TranslateAuto(proto) ==
    CASE proto = IPProtoTCP -> CheckMethodTCP
      [] proto = IPProtoUDP -> CheckMethodUDPPing
      [] OTHER              -> CheckMethodPing

=============================================================================
