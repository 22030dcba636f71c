---------------------------- MODULE MCRequests ----------------------------
(* Two controllers, a switch, a mode with two valid values out of a range  *)
(* of four, a name that can only be read and a temperature with a getter.  *)
EXTENDS Requests, TLC

CONSTANTS k1, k2, On, Mode, Name, Temp

Symmetry == Permutations(Client)

D(format, min, max, valid, perms) ==
  [format |-> format, min |-> min, max |-> max, valid |-> valid, perms |-> perms,
   setter |-> "write" \in perms, getter |-> FALSE, unit |-> "write" \in perms]

MCDescription ==
  On :> D("bool", 0, 1, {}, {"read", "write"})
  @@ Mode :> D("uint8", 0, 3, {0, 1, 3}, {"read", "write"})
  @@ Name :> D("string", 0, 4, {}, {"read"})
  @@ Temp :> [D("float", 0, 50, {}, {"read"}) EXCEPT !.getter = TRUE]

MCInitial == On :> 0 @@ Mode :> 0 @@ Name :> 2 @@ Temp :> 0

Number(halves) == [type |-> "Number", halves |-> halves, length |-> 0]
Other(type) == [type |-> type, halves |-> 0, length |-> 0]
Value(c, j) == [ch |-> c, value |-> j, ev |-> Nothing]
Ev(c, e) == [ch |-> c, value |-> Nothing, ev |-> e]

\* A fraction, values off the range and off the list, of the wrong type and for a
\* characteristic that cannot be written, next to good ones; both fields at once.
MCItems ==
  {Value(On, Other("True")), Value(On, Other("False")), Value(On, Number(4)),
   Value(Mode, Number(3)), Value(Mode, Number(4)), Value(Mode, Number(7)), Value(Mode, Number(8)),
   Value(Mode, Other("String")), Value(Mode, Other("False")),
   Ev(On, "true"), Ev(On, "other"), Ev(Mode, "true"), Ev(Mode, "false"),
   [Value(On, Other("True")) EXCEPT !.ev = "true"], [Value(Mode, Number(4)) EXCEPT !.ev = "true"],
   [Value(Name, [Other("String") EXCEPT !.length = 3]) EXCEPT !.ev = "true"],
   Ev(NoChar, "true")}
=============================================================================
