--------------------------- MODULE RequestsProofs ---------------------------
(***************************************************************************)
(* What the requests leave: values that the descriptions allow, units and  *)
(* subscribers that know them, and answers that tell the truth, for every  *)
(* set of characteristics and clients and every length of a request.       *)
(*                                                                         *)
(* The parts of the invariant are stated of a record of the state (Good),  *)
(* so that they can be carried from item to item through one request.  An  *)
(* item of a request that breaks what is claimed would have a first one    *)
(* before it that does: this is how the lemmas on Outcomes go.             *)
(***************************************************************************)
EXTENDS Requests, SequenceTheorems, WellFoundedInduction, TLAPS

\* A set of numbers that is not empty has a least one.
LEMMA LeastOf ==
  ASSUME NEW S, S \subseteq Nat, S # {}
  PROVE  \E x \in S : x \in Nat /\ \A y \in S : x <= y
<1>1. PICK x \in S : \A y \in S : ~(<<y, x>> \in OpToRel(<, Nat))
  BY NatLessThanWellFounded, WFMin
<1>2. ASSUME NEW y \in S, ~(x <= y) PROVE FALSE
  <2>1. x \in Nat /\ y \in Nat /\ y < x
    BY <1>2
  <2>2. <<y, x>> \in OpToRel(<, Nat)
    BY <2>1 DEF OpToRel
  <2> QED BY <1>1, <2>2
<1> QED BY <1>2

\* Outcomes is defined by recursion: it exists, whatever the items do.
LEMMA OutcomesAre ==
  ASSUME NEW s, NEW k, NEW items, Len(items) \in Nat
  PROVE  /\ Outcomes(s, k, items)[0] = s
         /\ \A i \in 1 .. Len(items) :
              Outcomes(s, k, items)[i] = Processed(Outcomes(s, k, items)[i - 1], k, items[i])
<1> DEFINE n == Len(items)
           IsRun(r, m) == r = [i \in 0 .. m |->
                                IF i = 0 THEN s ELSE Processed(r[i - 1], k, items[i])]
           bad == {m \in 0 .. n : ~ \E r : IsRun(r, m)}
<1>1. bad = {}
  <2> SUFFICES ASSUME bad # {} PROVE FALSE
    OBVIOUS
  <2>1. PICK m \in bad : m \in Nat /\ \A y \in bad : m <= y
    <3>1. bad \subseteq Nat
      OBVIOUS
    <3> HIDE DEF bad
    <3> QED BY <3>1, LeastOf
  <2>2. CASE m = 0
    <3>1. IsRun([i \in 0 .. 0 |-> s], 0)
      OBVIOUS
    <3> QED BY <2>1, <2>2, <3>1
  <2>3. CASE m # 0
    <3>1. m - 1 \in 0 .. n /\ m - 1 \notin bad
      BY <2>1, <2>3
    <3>2. PICK r : IsRun(r, m - 1)
      BY <3>1
    <3> DEFINE t == [i \in 0 .. m |-> IF i = m THEN Processed(r[m - 1], k, items[m]) ELSE r[i]]
    <3>3. \A i \in 0 .. m - 1 : t[i] = r[i] /\ i \in 0 .. m
      BY <2>1
    <3>4. \A i \in 0 .. m - 1 : r[i] = IF i = 0 THEN s ELSE Processed(r[i - 1], k, items[i])
      BY <3>2
    <3>5. \A i \in 0 .. m : t[i] = IF i = 0 THEN s ELSE Processed(t[i - 1], k, items[i])
      <4> TAKE i \in 0 .. m
      <4>1. CASE i = m
        <5>1. t[m - 1] = r[m - 1]
          BY <2>1, <2>3, <3>3
        <5> QED BY <2>1, <2>3, <4>1, <5>1
      <4>2. CASE i # m
        <5>1. i \in 0 .. m - 1 /\ (i # 0 => i - 1 \in 0 .. m - 1)
          BY <2>1, <4>2
        <5> QED BY <3>3, <3>4, <5>1
      <4> QED BY <4>1, <4>2
    <3>6. IsRun(t, m)
      BY <3>5
    <3> QED BY <2>1, <3>6
  <2> QED BY <2>2, <2>3
<1>2. PICK r : IsRun(r, n)
  <2>1. n \in 0 .. n
    OBVIOUS
  <2> QED BY <1>1, <2>1
<1>3. IsRun(Outcomes(s, k, items), n)
  BY <1>2 DEF Outcomes
<1> DEFINE o == Outcomes(s, k, items)
<1>4. \A i \in 0 .. n : o[i] = IF i = 0 THEN s ELSE Processed(o[i - 1], k, items[i])
  <2> HIDE DEF o
  <2> QED BY <1>3 DEF o
<1> QED BY <1>4

-----------------------------------------------------------------------------
(* Values.                                                                  *)

LEMMA LegalIsInt ==
  ASSUME NEW c \in Char
  PROVE  Legal(c) \subseteq Int
BY CharAssumption DEF CharAssumption, Legal, Numeric

LEMMA TruncatedIs ==
  ASSUME NEW h \in Int
  PROVE  /\ Truncated(h) \in Int
         /\ \A d \in Int : 2 * d <= h => d <= Truncated(h)
         /\ \A d \in Int : h <= 2 * d => Truncated(h) <= d
         /\ h = 0 => Truncated(h) = 0
<1>1. CASE h >= 0
  <2>1. Truncated(h) = h \div 2
    BY <1>1 DEF Truncated
  <2> QED BY <1>1, <2>1
<1>2. CASE ~(h >= 0)
  <2>1. Truncated(h) = -((-h) \div 2)
    BY <1>2 DEF Truncated
  <2>2. PICK q \in Int : q = (-h) \div 2
    BY <1>2
  <2>3. 2 * q <= -h /\ -h <= 2 * q + 1
    BY <1>2, <2>2
  <2> QED BY <1>2, <2>1, <2>2, <2>3
<1> QED BY <1>1, <1>2

\* What the checks of process_characteristics_update let pass becomes a value that the
\* description allows.
LEMMA ConvertedIsLegal ==
  ASSUME NEW item \in Items, item.value # Nothing, item.ch \in Char,
         Accepts(item.ch, item.value)
  PROVE  Converted(item.ch, item.value) \in Legal(item.ch)
<1> DEFINE c == item.ch
           j == item.value
           d == Description[c]
           v == Converted(c, j)
<1>1. /\ j.halves \in Int /\ j.length \in Nat
      /\ j.type \in {"True", "False"} => j.halves = 0
  BY ItemAssumption DEF ItemAssumption
<1>2. d.min \in Int /\ d.max \in Int
  BY CharAssumption DEF CharAssumption
<1>3. Accepts(c, j)
  OBVIOUS
<1> SUFFICES v \in Legal(c)
  OBVIOUS
<1> HIDE DEF c, j
<1>4. CASE d.format = "bool"
  <2>1. v = Valueint(j) /\ Legal(c) = {0, 1}
    BY <1>4 DEF Converted, Legal, Numeric
  <2>2. j.type \in {"True", "False"} \/ Valueint(j) \in {0, 1}
    BY <1>3, <1>4 DEF Accepts, Numeric
  <2>3. j.type = "True" => Valueint(j) = 1
    BY DEF Valueint
  <2>4. j.type = "False" => Valueint(j) = 0
    BY <1>1, TruncatedIs DEF Valueint
  <2> QED BY <2>1, <2>2, <2>3, <2>4
<1>5. CASE d.format \in Numeric
  <2>0. d.format # "bool"
    BY <1>5 DEF Numeric
  <2>1. /\ v = Truncated(j.halves)
        /\ Legal(c) = {n \in d.min .. d.max : d.valid # {} => n \in d.valid}
    BY <1>5, <2>0 DEF Converted, Legal, Numeric
  <2>2. InRange(d, j.halves) /\ Listed(d, j.halves)
    BY <1>3, <1>5, <2>0 DEF Accepts, Numeric
  <2>3. Truncated(j.halves) \in d.min .. d.max
    BY <1>1, <1>2, <2>2, TruncatedIs DEF InRange
  <2> QED BY <2>1, <2>2, <2>3 DEF Listed
<1>6. CASE d.format = "float"
  <2>0. d.format # "bool" /\ d.format \notin Numeric
    BY <1>6 DEF Numeric
  <2>1. v = j.halves /\ Legal(c) = 2 * d.min .. 2 * d.max
    BY <1>6, <2>0 DEF Converted, Legal
  <2>2. InRange(d, j.halves)
    BY <1>3, <1>6, <2>0 DEF Accepts
  <2> QED BY <1>1, <1>2, <2>1, <2>2 DEF InRange
<1>7. CASE d.format \notin {"bool", "float"} \cup Numeric
  <2>1. v = j.length /\ Legal(c) = 0 .. d.max
    BY <1>7 DEF Converted, Legal
  <2>2. j.length <= d.max
    BY <1>3, <1>7 DEF Accepts
  <2> QED BY <1>1, <1>2, <2>1, <2>2
<1> QED BY <1>4, <1>5, <1>6, <1>7

-----------------------------------------------------------------------------
(* What the operators of the value model make of a state.                   *)

State == [value : [Char -> Int], unit : [Char -> Int], subs : SUBSET (Client \X Char),
          announced : [Client -> [Char -> Int \cup {Nothing}]]]

LEMMA AnnouncedIs ==
  ASSUME NEW s \in State, NEW c \in Char, NEW v \in Int, NEW writer
  PROVE  LET t == Announced(s, c, v, writer)
         IN  /\ t \in State
             /\ t.value = s.value /\ t.unit = s.unit /\ t.subs = s.subs
             /\ \A k \in Client, d \in Char :
                  t.announced[k][d] = IF <<k, c>> \in s.subs /\ k # writer /\ d = c THEN v
                                 ELSE s.announced[k][d]
<1> DEFINE new == [k \in Client |->
              IF <<k, c>> \in s.subs /\ k # writer THEN [s.announced[k] EXCEPT ![c] = v]
              ELSE s.announced[k]]
           t == Announced(s, c, v, writer)
<1>1. s.announced \in [Client -> [Char -> Int \cup {Nothing}]]
  BY DEF State
<1>2. \A k \in Client : s.announced[k] \in [Char -> Int \cup {Nothing}]
  BY <1>1
<1>3. new \in [Client -> [Char -> Int \cup {Nothing}]]
  BY <1>2
<1>4. \A k \in Client, d \in Char :
        new[k][d] = IF <<k, c>> \in s.subs /\ k # writer /\ d = c THEN v ELSE s.announced[k][d]
  BY <1>2
<1>5. t = [s EXCEPT !.announced = new]
  BY DEF Announced
<1> HIDE DEF new
<1>6. /\ t \in State /\ t.announced = new
      /\ t.value = s.value /\ t.unit = s.unit /\ t.subs = s.subs
  BY <1>3, <1>5 DEF State
<1> QED BY <1>4, <1>6

LEMMA WrittenIs ==
  ASSUME NEW s \in State, NEW c \in Char, NEW v \in Int
  PROVE  LET t == Written(s, c, v)
         IN  /\ t \in State
             /\ t.subs = s.subs /\ t.announced = s.announced
             /\ \A d \in Char : t.value[d] = IF d = c THEN v ELSE s.value[d]
             /\ \A d \in Char : t.unit[d] =
                  IF d = c /\ c \in Settable /\ s.value[c] # v THEN v ELSE s.unit[d]
<1> DEFINE t == Written(s, c, v)
           stored == [s EXCEPT !.value[c] = v]
<1>1. s.value \in [Char -> Int] /\ s.unit \in [Char -> Int]
  BY DEF State
<1>2. /\ stored \in State
      /\ stored.subs = s.subs /\ stored.announced = s.announced /\ stored.unit = s.unit
      /\ \A d \in Char : stored.value[d] = IF d = c THEN v ELSE s.value[d]
  BY DEF State
<1>3. CASE c \notin Settable
  <2>1. t = stored
    BY <1>3 DEF Written, Stored
  <2> HIDE DEF stored, t
  <2> QED BY <1>2, <1>3, <2>1 DEF t
<1>4. CASE c \in Settable /\ s.value[c] = v
  <2>1. t = s
    BY <1>4 DEF Written, SetterRun
  <2> QED BY <1>4, <2>1
<1>5. CASE c \in Settable /\ s.value[c] # v
  <2>1. t = [stored EXCEPT !.unit[c] = v]
    BY <1>5 DEF Written, SetterRun, Stored
  <2> HIDE DEF stored, t
  <2>2. stored.unit \in [Char -> Int]
    BY <1>2 DEF State
  <2>3. /\ t \in State
        /\ t.subs = stored.subs /\ t.announced = stored.announced /\ t.value = stored.value
        /\ \A d \in Char : t.unit[d] = IF d = c THEN v ELSE stored.unit[d]
    BY <1>2, <2>1, <2>2 DEF State
  <2> QED BY <1>2, <1>5, <2>3 DEF t
<1> QED BY <1>3, <1>4, <1>5

\* A value of an item is stored, and all who have subscribed know it.
LEMMA WithValueIs ==
  ASSUME NEW s \in State, NEW k \in Client, NEW item \in Items,
         item.value # Nothing, item.ch \in Char, Accepts(item.ch, item.value)
  PROVE  LET t == WithValue(s, k, item)
             c == item.ch
             v == Converted(c, item.value)
         IN  /\ t \in State
             /\ t.subs = s.subs
             /\ \A d \in Char : t.value[d] = IF d = c THEN v ELSE s.value[d]
             /\ \A d \in Char : t.unit[d] =
                  IF d = c /\ c \in Settable /\ s.value[c] # v THEN v ELSE s.unit[d]
             /\ \A j \in Client, d \in Char :
                  t.announced[j][d] = IF <<j, c>> \in s.subs /\ d = c THEN v ELSE s.announced[j][d]
<1> DEFINE c == item.ch
           v == Converted(c, item.value)
           w == Written(s, c, v)
           told == Announced(w, c, v, k)
           t == WithValue(s, k, item)
           mine == IF <<k, c>> \in s.subs THEN [told.announced[k] EXCEPT ![c] = v]
                   ELSE told.announced[k]
<1>1. v \in Int /\ c \in Char
  BY ConvertedIsLegal, LegalIsInt
<1> HIDE DEF c, v
<1>2. /\ w \in State /\ w.subs = s.subs /\ w.announced = s.announced
      /\ \A d \in Char : w.value[d] = IF d = c THEN v ELSE s.value[d]
      /\ \A d \in Char : w.unit[d] =
           IF d = c /\ c \in Settable /\ s.value[c] # v THEN v ELSE s.unit[d]
  BY <1>1, WrittenIs
<1> HIDE DEF w
<1>3. /\ told \in State
      /\ told.value = w.value /\ told.unit = w.unit /\ told.subs = w.subs
      /\ \A j \in Client, d \in Char :
           told.announced[j][d] =
             IF <<j, c>> \in w.subs /\ j # k /\ d = c THEN v ELSE w.announced[j][d]
  BY <1>1, <1>2, AnnouncedIs
<1>4. t = [told EXCEPT !.announced[k] = mine]
  <2>1. t = [told EXCEPT !.announced[k] = IF <<k, c>> \in s.subs THEN [@ EXCEPT ![c] = v] ELSE @]
    BY DEF WithValue, c, v, w
  <2> QED BY <2>1
<1> HIDE DEF told, t
<1>5. told.announced \in [Client -> [Char -> Int \cup {Nothing}]]
  BY <1>3 DEF State
<1>6. told.announced[k] \in [Char -> Int \cup {Nothing}]
  BY <1>5
<1>7. /\ mine \in [Char -> Int \cup {Nothing}]
      /\ \A d \in Char : mine[d] = IF <<k, c>> \in s.subs /\ d = c THEN v ELSE told.announced[k][d]
  BY <1>1, <1>6
<1> HIDE DEF mine
<1>8. /\ t \in State /\ t.value = told.value /\ t.unit = told.unit /\ t.subs = told.subs
      /\ \A j \in Client : t.announced[j] = IF j = k THEN mine ELSE told.announced[j]
  BY <1>3, <1>4, <1>5, <1>7 DEF State
<1>9. \A j \in Client, d \in Char :
        t.announced[j][d] = IF <<j, c>> \in s.subs /\ d = c THEN v ELSE s.announced[j][d]
  BY <1>2, <1>3, <1>7, <1>8
<1> QED BY <1>2, <1>3, <1>8, <1>9 DEF c, v, t

\* An item changes the subscription of the client that sends it, and no other.
LEMMA WithEvIs ==
  ASSUME NEW s \in State, NEW k \in Client, NEW item \in Items, item.ch \in Char
  PROVE  LET t == WithEv(s, k, item)
             c == item.ch
             done == item.ev # Nothing /\ EvStatus(item) = "Success"
         IN  /\ t \in State
             /\ t.value = s.value /\ t.unit = s.unit
             /\ \A j \in Client, d \in Char :
                  <<j, d>> \in t.subs <=>
                    IF done /\ j = k /\ d = c THEN item.ev = "true" ELSE <<j, d>> \in s.subs
             /\ \A j \in Client, d \in Char :
                  t.announced[j][d] = IF done /\ item.ev # "true" /\ j = k /\ d = c THEN Nothing
                                 ELSE s.announced[j][d]
<1> DEFINE c == item.ch
           t == WithEv(s, k, item)
           done == item.ev # Nothing /\ EvStatus(item) = "Success"
<1>0. /\ s.subs \subseteq Client \X Char
      /\ s.announced \in [Client -> [Char -> Int \cup {Nothing}]]
      /\ s.announced[k] \in [Char -> Int \cup {Nothing}]
  BY DEF State
<1>1. CASE ~done
  <2>1. t = s
    BY <1>1 DEF WithEv
  <2> QED BY <1>1, <2>1
<1>2. CASE done /\ item.ev = "true"
  <2>1. t = [s EXCEPT !.subs = @ \cup {<<k, c>>}]
    BY <1>2 DEF WithEv
  <2>2. /\ t \in State /\ t.subs = s.subs \cup {<<k, c>>}
        /\ t.value = s.value /\ t.unit = s.unit /\ t.announced = s.announced
    BY <1>0, <2>1 DEF State
  <2> HIDE DEF t
  <2>3. \A j \in Client, d \in Char :
          <<j, d>> \in t.subs <=> IF j = k /\ d = c THEN TRUE ELSE <<j, d>> \in s.subs
    BY <2>2
  <2> QED BY <1>2, <2>2, <2>3 DEF t
<1>3. CASE done /\ item.ev # "true"
  <2>1. t = [s EXCEPT !.subs = @ \ {<<k, c>>}, !.announced[k][c] = Nothing]
    BY <1>3 DEF WithEv
  <2> DEFINE new == [s.announced EXCEPT ![k][c] = Nothing]
             rest == s.subs \ {<<k, c>>}
  <2>2. new \in [Client -> [Char -> Int \cup {Nothing}]] /\ rest \subseteq Client \X Char
    BY <1>0
  <2>3. t = [s EXCEPT !.subs = rest, !.announced = new]
    BY <2>1
  <2> HIDE DEF t, new, rest
  <2>4. t \in State /\ t.subs = rest /\ t.value = s.value /\ t.unit = s.unit /\ t.announced = new
    BY <2>2, <2>3 DEF State
  <2>5. \A j \in Client, d \in Char :
          <<j, d>> \in t.subs <=> IF j = k /\ d = c THEN FALSE ELSE <<j, d>> \in s.subs
    BY <2>4 DEF rest
  <2>6. \A j \in Client, d \in Char :
          t.announced[j][d] = IF j = k /\ d = c THEN Nothing ELSE s.announced[j][d]
    BY <1>0, <2>4 DEF new
  <2> QED BY <1>3, <2>4, <2>5, <2>6 DEF t
<1> QED BY <1>1, <1>2, <1>3

-----------------------------------------------------------------------------
(* The inductive invariant.                                                 *)

\* What holds of a state between any two items of a request.
Good(s) ==
  /\ s \in State
  /\ \A c \in Char \ Getters : s.value[c] \in Legal(c)
  /\ \A c \in Settable \ Getters : s.unit[c] = s.value[c]
  /\ \A k \in Client, c \in Char : s.announced[k][c] # Nothing =>
       /\ <<k, c>> \in s.subs
       /\ c \notin Getters => s.announced[k][c] = s.value[c]

IInv == Good(Now) /\ world \in [Char -> Int]

\* A value is stored, the unit behind it told, and all who have subscribed.
LEMMA TellingIsGood ==
  ASSUME NEW s, Good(s), NEW c \in Char, NEW v \in Legal(c), NEW t \in State,
         t.subs = s.subs,
         \A d \in Char : t.value[d] = IF d = c THEN v ELSE s.value[d],
         \A d \in Char : t.unit[d] =
           IF d = c /\ c \in Settable /\ s.value[c] # v THEN v ELSE s.unit[d],
         \A j \in Client, d \in Char :
           t.announced[j][d] = IF <<j, c>> \in s.subs /\ d = c THEN v ELSE s.announced[j][d]
  PROVE  Good(t)
<1>1. \A d \in Char \ Getters : t.value[d] \in Legal(d)
  BY DEF Good
<1>2. ASSUME NEW d \in Settable \ Getters
      PROVE  t.unit[d] = t.value[d]
  <2>1. d \in Char
    BY DEF Settable
  <2> QED BY <1>2, <2>1 DEF Good
<1>3. ASSUME NEW k \in Client, NEW d \in Char, t.announced[k][d] # Nothing
      PROVE  <<k, d>> \in t.subs /\ (d \notin Getters => t.announced[k][d] = t.value[d])
  <2>1. s.announced[k][d] # Nothing =>
          <<k, d>> \in s.subs /\ (d \notin Getters => s.announced[k][d] = s.value[d])
    BY DEF Good
  <2>2. CASE <<k, c>> \in s.subs /\ d = c
    BY <2>2
  <2>3. CASE ~(<<k, c>> \in s.subs /\ d = c)
    <3>1. t.announced[k][d] = s.announced[k][d]
      BY <2>3
    <3>2. d # c
      BY <1>3, <2>1, <2>3, <3>1
    <3> QED BY <1>3, <2>1, <3>1, <3>2
  <2> QED BY <2>2, <2>3
<1> QED BY <1>1, <1>2, <1>3 DEF Good

LEMMA ProcessedIsGood ==
  ASSUME NEW s, Good(s), NEW k \in Client, NEW item \in Items
  PROVE  Good(Processed(s, k, item))
<1> DEFINE t == WithValue(s, k, item)
           u == WithEv(t, k, item)
<1>1. CASE item.ch = NoChar \/ ValueStatus(item) # "Success"
  BY <1>1 DEF Processed
<1>2. CASE ~(item.ch = NoChar \/ ValueStatus(item) # "Success")
  <2>1. item.ch \in Char /\ Processed(s, k, item) = u
    BY <1>2, ItemAssumption DEF ItemAssumption, Processed
  <2>2. Good(t)
    <3>1. CASE item.value = Nothing
      BY <3>1 DEF WithValue
    <3>2. CASE item.value # Nothing
      <4>1. Accepts(item.ch, item.value)
        BY <1>2, <3>2 DEF ValueStatus
      <4>2. Converted(item.ch, item.value) \in Legal(item.ch)
        BY <2>1, <3>2, <4>1, ConvertedIsLegal
      <4>3. s \in State
        BY DEF Good
      <4> HIDE DEF t
      <4> QED BY <2>1, <3>2, <4>1, <4>2, <4>3, WithValueIs, TellingIsGood DEF t
    <3> QED BY <3>1, <3>2
  <2> HIDE DEF t
  <2>3. t \in State
    BY <2>2 DEF Good
  <2>4. LET c == item.ch
            done == item.ev # Nothing /\ EvStatus(item) = "Success"
        IN  /\ u \in State /\ u.value = t.value /\ u.unit = t.unit
            /\ \A j \in Client, d \in Char :
                 <<j, d>> \in u.subs <=>
                   IF done /\ j = k /\ d = c THEN item.ev = "true" ELSE <<j, d>> \in t.subs
            /\ \A j \in Client, d \in Char :
                 u.announced[j][d] = IF done /\ item.ev # "true" /\ j = k /\ d = c THEN Nothing
                                ELSE t.announced[j][d]
    BY <2>1, <2>3, WithEvIs
  <2> HIDE DEF u
  <2>5. Good(u)
    BY <2>2, <2>4 DEF Good
  <2> QED BY <2>1, <2>5
<1> QED BY <1>1, <1>2

\* Whatever the items of a request are, they leave a good state.
LEMMA OutcomesAreGood ==
  ASSUME NEW s, Good(s), NEW k \in Client, NEW n \in Nat, NEW items \in [1 .. n -> Items]
  PROVE  Len(items) = n /\ \A i \in 0 .. n : Good(Outcomes(s, k, items)[i])
<1> DEFINE o == Outcomes(s, k, items)
           bad == {i \in 0 .. n : ~Good(o[i])}
<1>1. Len(items) = n
  <2>1. items \in Seq(Items)
    BY SeqDef
  <2> QED BY <2>1, LenProperties
<1>2. o[0] = s /\ \A i \in 1 .. n : o[i] = Processed(o[i - 1], k, items[i])
  BY <1>1, OutcomesAre
<1> HIDE DEF o
<1>3. ASSUME bad # {} PROVE FALSE
  <2>1. PICK i \in bad : i \in Nat /\ \A j \in bad : i <= j
    <3>1. bad \subseteq Nat
      OBVIOUS
    <3> HIDE DEF bad
    <3> QED BY <1>3, <3>1, LeastOf
  <2>2. i # 0
    BY <1>2, <2>1
  <2>3. i \in 1 .. n /\ i - 1 \in 0 .. n /\ i - 1 \notin bad
    BY <2>1, <2>2
  <2>4. Good(o[i - 1]) /\ items[i] \in Items
    BY <2>3
  <2>5. Good(o[i])
    BY <1>2, <2>3, <2>4, ProcessedIsGood
  <2> QED BY <2>1, <2>5
<1> QED BY <1>1, <1>3 DEF o

LEMMA RequestsAre ==
  ASSUME NEW items \in Requests
  PROVE  \E n \in Nat : items \in [1 .. n -> Items]
<1>1. PICK n \in 1 .. MaxItems : items \in [1 .. n -> Items]
  BY DEF Requests
<1> QED BY <1>1

\* modify_value_and_notify.
LEMMA ModifiedIsGood ==
  ASSUME NEW s, Good(s), NEW c \in Char, NEW v \in Legal(c)
  PROVE  LET t == ModifiedAndNotified(s, c, v)
         IN  Good(t) /\ t.value[c] = v
<1> DEFINE t == ModifiedAndNotified(s, c, v)
           told == Announced(s, c, v, Nothing)
<1>1. s \in State /\ v \in Int
  BY LegalIsInt DEF Good
<1>2. CASE s.value[c] = v
  BY <1>2 DEF ModifiedAndNotified
<1>3. CASE s.value[c] # v
  <2>1. t = Written(told, c, v)
    BY <1>3 DEF ModifiedAndNotified
  <2>2. /\ told \in State
        /\ told.value = s.value /\ told.unit = s.unit /\ told.subs = s.subs
        /\ \A k \in Client, d \in Char :
             told.announced[k][d] = IF <<k, c>> \in s.subs /\ k # Nothing /\ d = c THEN v
                               ELSE s.announced[k][d]
    BY <1>1, AnnouncedIs
  <2> HIDE DEF told
  <2>3. /\ t \in State
        /\ t.subs = told.subs /\ t.announced = told.announced
        /\ \A d \in Char : t.value[d] = IF d = c THEN v ELSE told.value[d]
        /\ \A d \in Char : t.unit[d] =
             IF d = c /\ c \in Settable /\ told.value[c] # v THEN v ELSE told.unit[d]
    BY <1>1, <2>1, <2>2, WrittenIs
  <2> HIDE DEF t
  <2>4. \A k \in Client : k # Nothing
    BY CharAssumption DEF CharAssumption
  <2>5. \A j \in Client, d \in Char :
          t.announced[j][d] = IF <<j, c>> \in s.subs /\ d = c THEN v ELSE s.announced[j][d]
    BY <2>2, <2>3, <2>4
  <2>6. /\ \A d \in Char : t.value[d] = IF d = c THEN v ELSE s.value[d]
        /\ \A d \in Char : t.unit[d] =
             IF d = c /\ c \in Settable /\ s.value[c] # v THEN v ELSE s.unit[d]
        /\ t.subs = s.subs
    BY <2>2, <2>3
  <2>7. Good(t)
    BY <2>3, <2>5, <2>6, TellingIsGood
  <2> QED BY <2>6, <2>7 DEF t
<1> QED BY <1>2, <1>3

-----------------------------------------------------------------------------
(* The steps.                                                               *)

LEMMA BecomesGood ==
  ASSUME NEW s, Good(s), Becomes(s)
  PROVE  Good(Now')
<1>1. s = [value |-> s.value, unit |-> s.unit, subs |-> s.subs, announced |-> s.announced]
  BY DEF Good, State
<1>2. Now' = s
  BY <1>1 DEF Becomes, Now
<1> QED BY <1>2

LEMMA InitIInv == Init => IInv
<1> SUFFICES ASSUME Init PROVE IInv
  OBVIOUS
<1>1. value \in [Char -> Int] /\ unit \in [Char -> Int] /\ world \in [Char -> Int]
  BY ValueAssumption DEF Init, ValueAssumption
<1>2. Now \in State
  BY <1>1 DEF Init, Now, State
<1>3. \A c \in Char \ Getters : value[c] \in Legal(c)
  BY ValueAssumption DEF Init, ValueAssumption
<1>4. /\ Now.value = value /\ Now.unit = value /\ Now.subs = {}
      /\ \A k \in Client, c \in Char : Now.announced[k][c] = Nothing
  BY DEF Init, Now
<1> QED BY <1>1, <1>2, <1>3, <1>4 DEF IInv, Good

LEMMA GetIsGood ==
  ASSUME IInv, NEW k \in Client, NEW ids \in SUBSET (Char \cup {NoChar}), Get(k, ids)
  PROVE  IInv'
<1> DEFINE readable == {c \in ids \ {NoChar} : "read" \in Description[c].perms}
           read == GettersRun(Now, readable)
           heard == [c \in Char |-> IF c \in readable /\ <<k, c>> \in subs THEN read.value[c]
                                    ELSE read.announced[k][c]]
           t == [read EXCEPT !.announced[k] = heard]
           values == [c \in Char |-> IF c \in readable \cap Getters THEN world[c] ELSE value[c]]
<1>1. Becomes(t) /\ UNCHANGED world
  BY DEF Get
<1>2. /\ Now \in State /\ world \in [Char -> Int]
      /\ Now.value = value /\ Now.unit = unit /\ Now.subs = subs /\ Now.announced = announced
  BY DEF IInv, Good, Now
<1>3. /\ value \in [Char -> Int] /\ announced \in [Client -> [Char -> Int \cup {Nothing}]]
      /\ announced[k] \in [Char -> Int \cup {Nothing}]
  BY <1>2 DEF State
<1> HIDE DEF readable
<1>4. values \in [Char -> Int]
  BY <1>2, <1>3
<1>5. read = [Now EXCEPT !.value = values]
  BY <1>2 DEF GettersRun
<1> HIDE DEF read, values
<1>6. /\ read \in State
      /\ read.value = values /\ read.unit = unit /\ read.subs = subs /\ read.announced = announced
  BY <1>2, <1>4, <1>5 DEF State
<1>7. heard \in [Char -> Int \cup {Nothing}]
  BY <1>3, <1>4, <1>6
<1>8. \A c \in Char : heard[c] = IF c \in readable /\ <<k, c>> \in subs THEN values[c]
                                 ELSE announced[k][c]
  BY <1>6
<1>9. t = [read EXCEPT !.announced[k] = heard]
  OBVIOUS
<1> HIDE DEF heard, t
<1>10. /\ t \in State
       /\ t.value = values /\ t.unit = unit /\ t.subs = subs
       /\ \A j \in Client : t.announced[j] = IF j = k THEN heard ELSE announced[j]
  BY <1>3, <1>6, <1>7, <1>9 DEF State
<1>11. \A c \in Char \ Getters : values[c] = value[c]
  BY DEF values
<1>12. Good(t)
  <2>1. \A c \in Char \ Getters : t.value[c] \in Legal(c)
    BY <1>2, <1>10, <1>11 DEF IInv, Good
  <2>2. \A c \in Settable \ Getters : t.unit[c] = t.value[c]
    BY <1>2, <1>10, <1>11 DEF IInv, Good, Settable
  <2>3. ASSUME NEW j \in Client, NEW c \in Char, t.announced[j][c] # Nothing
        PROVE  <<j, c>> \in t.subs /\ (c \notin Getters => t.announced[j][c] = t.value[c])
    <3>1. announced[j][c] # Nothing =>
            <<j, c>> \in subs /\ (c \notin Getters => announced[j][c] = value[c])
      BY <1>2 DEF IInv, Good
    <3> QED BY <1>8, <1>10, <1>11, <2>3, <3>1
  <2> QED BY <1>10, <2>1, <2>2, <2>3 DEF Good
<1> QED BY <1>1, <1>2, <1>12, BecomesGood DEF IInv

LEMMA CloseIsGood ==
  ASSUME IInv, NEW k \in Client, Close(k)
  PROVE  IInv'
<1> DEFINE t == [value |-> value, unit |-> unit, subs |-> subs', announced |-> announced']
<1>1. /\ subs' = {sub \in subs : sub[1] # k}
      /\ announced' = [announced EXCEPT ![k] = [c \in Char |-> Nothing]]
      /\ UNCHANGED <<value, unit, world>>
  BY DEF Close
<1>2. /\ Now \in State /\ world \in [Char -> Int]
      /\ Now.value = value /\ Now.unit = unit /\ Now.subs = subs /\ Now.announced = announced
  BY DEF IInv, Good, Now
<1>3. /\ value \in [Char -> Int] /\ unit \in [Char -> Int] /\ subs \subseteq Client \X Char
      /\ announced \in [Client -> [Char -> Int \cup {Nothing}]]
  BY <1>2 DEF State
<1>4. \A j \in Client, c \in Char : <<j, c>> \in subs' <=> <<j, c>> \in subs /\ j # k
  BY <1>1
<1>5. \A j \in Client, c \in Char : announced'[j][c] = IF j = k THEN Nothing ELSE announced[j][c]
  BY <1>1, <1>3
<1>6. subs' \subseteq Client \X Char /\ announced' \in [Client -> [Char -> Int \cup {Nothing}]]
  <2>1. [c \in Char |-> Nothing] \in [Char -> Int \cup {Nothing}]
    OBVIOUS
  <2> QED BY <1>1, <1>3, <2>1
<1>7. t \in State
  BY <1>3, <1>6 DEF State
<1>8. t.value = value /\ t.unit = unit /\ t.subs = subs' /\ t.announced = announced'
  OBVIOUS
<1> HIDE DEF t
<1>9. Good(t)
  BY <1>2, <1>4, <1>5, <1>7, <1>8 DEF IInv, Good
<1>10. Becomes(t)
  BY <1>1, <1>8 DEF Becomes
<1> QED BY <1>1, <1>2, <1>9, <1>10, BecomesGood DEF IInv

LEMMA NextIInv == IInv /\ [Next]_vars => IInv'
<1> SUFFICES ASSUME IInv, [Next]_vars PROVE IInv'
  OBVIOUS
<1>0. Good(Now) /\ world \in [Char -> Int] /\ Now.unit \in [Char -> Int]
  BY DEF IInv, Good, State
<1>1. ASSUME NEW k \in Client, NEW items \in Requests, Put(k, items)
      PROVE  IInv'
  <2>1. PICK n \in Nat : items \in [1 .. n -> Items]
    BY RequestsAre
  <2>2. Good(Outcome(Now, k, items))
    BY <1>0, <2>1, OutcomesAreGood DEF Outcome
  <2>3. Becomes(Outcome(Now, k, items)) /\ UNCHANGED world
    BY <1>1 DEF Put
  <2> QED BY <1>0, <2>2, <2>3, BecomesGood DEF IInv
<1>2. ASSUME NEW k \in Client, NEW c \in Char, NEW d \in Char \cup {NoChar}, Get(k, {c, d})
      PROVE  IInv'
  BY <1>2, GetIsGood
<1>3. ASSUME NEW c \in Settable, NEW v \in Legal(c), Command(c, v)
      PROVE  IInv'
  <2>1. c \in Char
    BY DEF Settable
  <2>2. Good(ModifiedAndNotified(Now, c, v))
    BY <1>0, <2>1, ModifiedIsGood
  <2>3. Becomes(ModifiedAndNotified(Now, c, v)) /\ UNCHANGED world
    BY <1>3 DEF Command
  <2> QED BY <1>0, <2>2, <2>3, BecomesGood DEF IInv
<1>4. ASSUME NEW c \in Reported, NEW v \in Legal(c), Report(c, v)
      PROVE  IInv'
  <2> DEFINE s == ModifiedAndNotified(Now, c, v)
             t == [s EXCEPT !.unit[c] = v]
  <2>1. c \in Char /\ v \in Int
    BY LegalIsInt DEF Reported
  <2>2. Good(s) /\ s.value[c] = v
    BY <1>0, <2>1, ModifiedIsGood
  <2>3. Becomes(t) /\ UNCHANGED world
    BY <1>4 DEF Report
  <2> HIDE DEF s
  <2>4. s \in State /\ s.unit \in [Char -> Int]
    BY <2>2 DEF Good, State
  <2>5. /\ t \in State
        /\ t.value = s.value /\ t.subs = s.subs /\ t.announced = s.announced
        /\ \A d \in Char : t.unit[d] = IF d = c THEN v ELSE s.unit[d]
    BY <2>1, <2>4 DEF State
  <2> HIDE DEF t
  <2>6. Good(t)
    BY <2>2, <2>5 DEF Good, Settable
  <2> QED BY <1>0, <2>3, <2>6, BecomesGood DEF IInv
<1>5. ASSUME NEW c \in Getters, NEW v \in Reading, Sense(c, v)
      PROVE  IInv'
  <2>1. world' = [world EXCEPT ![c] = v] /\ UNCHANGED Now
    BY <1>5 DEF Sense, Now
  <2>2. v \in Int
    BY ValueAssumption DEF ValueAssumption
  <2> QED BY <1>0, <2>1, <2>2 DEF IInv
<1>6. ASSUME NEW k \in Client, Close(k)
      PROVE  IInv'
  BY <1>6, CloseIsGood
<1>7. CASE UNCHANGED vars
  BY <1>0, <1>7 DEF vars, IInv, Now
<1> QED BY <1>1, <1>2, <1>3, <1>4, <1>5, <1>6, <1>7 DEF Next

THEOREM RequestsInv == Spec => []IInv
BY InitIInv, NextIInv, PTL DEF Spec

\* Every characteristic keeps a value that its description allows, whatever is written, and
\* nothing is announced to those who have not subscribed.
THEOREM RequestsTypes == Spec => []TypeOK
<1>1. IInv => TypeOK
  <2> SUFFICES ASSUME IInv PROVE TypeOK
    OBVIOUS
  <2>1. /\ Good(Now) /\ Now.value = value /\ Now.unit = unit /\ Now.subs = subs
        /\ Now.announced = announced
    BY DEF IInv, Now
  <2>2. /\ unit \in [Char -> Int] /\ subs \subseteq Client \X Char
        /\ announced \in [Client -> [Char -> Int \cup {Nothing}]]
    BY <2>1 DEF Good, State
  <2>3. \A k \in Client, c \in Char : announced[k][c] \in Int \cup {Nothing}
    BY <2>2
  <2> QED BY <2>1, <2>2, <2>3 DEF IInv, Good, TypeOK
<1> QED BY <1>1, RequestsInv, PTL

\* A unit has the value that its characteristic shows.
THEOREM UnitsAreTold == Spec => []UnitIsTold
<1>1. IInv => UnitIsTold
  BY DEF IInv, Good, Now, UnitIsTold
<1> QED BY <1>1, RequestsInv, PTL

\* The youngest event queued for a subscriber carries the present value of its characteristic.
THEOREM AnnouncementsAreValues == Spec => []AnnouncedIsValue
<1>1. IInv => AnnouncedIsValue
  <2> SUFFICES ASSUME IInv, NEW k \in Client, NEW c \in Char \ Getters
               PROVE  announced[k][c] \in {Nothing, value[c]}
    BY DEF AnnouncedIsValue
  <2>1. Good(Now) /\ Now.announced = announced /\ Now.value = value
    BY DEF IInv, Now
  <2> QED BY <2>1 DEF Good
<1> QED BY <1>1, RequestsInv, PTL

-----------------------------------------------------------------------------
(* The answers.                                                             *)

Decides(c, item) == item.ch = c /\ StatusOf(item) = "Success"

\* An item that is answered with success does what it asks for, and any other does nothing.
LEMMA ProcessedIs ==
  ASSUME NEW s, Good(s), NEW k \in Client, NEW item \in Items, NEW c \in Char
  PROVE  LET t == Processed(s, k, item)
         IN  /\ IF Decides(c, item) /\ item.value # Nothing
                THEN t.value[c] = Converted(c, item.value)
                ELSE t.value[c] = s.value[c] /\ t.unit[c] = s.unit[c]
             /\ <<k, c>> \in t.subs <=>
                  IF Decides(c, item) /\ item.ev # Nothing THEN item.ev = "true"
                  ELSE <<k, c>> \in s.subs
<1> DEFINE t == WithValue(s, k, item)
           u == WithEv(t, k, item)
<1>0. NoChar \notin Char
  BY CharAssumption DEF CharAssumption
<1>1. CASE item.ch = NoChar \/ ValueStatus(item) # "Success"
  <2>1. Processed(s, k, item) = s
    BY <1>1 DEF Processed
  <2>2. ~Decides(c, item)
    BY <1>0, <1>1 DEF Decides, StatusOf
  <2> QED BY <2>1, <2>2
<1>2. CASE ~(item.ch = NoChar \/ ValueStatus(item) # "Success")
  <2>1. item.ch \in Char /\ Processed(s, k, item) = u
    BY <1>2, ItemAssumption DEF ItemAssumption, Processed
  <2>2. s \in State
    BY DEF Good
  <2>3. item.value # Nothing => EvStatus(item) = "Success"
    BY <1>2 DEF ValueStatus, EvStatus
  <2>4. Decides(c, item) <=> item.ch = c /\ EvStatus(item) = "Success"
    BY <1>2 DEF Decides, StatusOf
  <2>5. /\ t \in State /\ t.subs = s.subs
        /\ IF item.value # Nothing /\ item.ch = c
           THEN t.value[c] = Converted(c, item.value)
           ELSE t.value[c] = s.value[c] /\ t.unit[c] = s.unit[c]
    <3>1. CASE item.value = Nothing
      BY <2>2, <3>1 DEF WithValue
    <3>2. CASE item.value # Nothing
      <4>1. Accepts(item.ch, item.value)
        BY <1>2, <3>2 DEF ValueStatus
      <4>2. LET v == Converted(item.ch, item.value)
            IN  /\ t \in State /\ t.subs = s.subs
                /\ \A d \in Char : t.value[d] = IF d = item.ch THEN v ELSE s.value[d]
                /\ \A d \in Char : t.unit[d] =
                     IF d = item.ch /\ item.ch \in Settable /\ s.value[item.ch] # v THEN v
                     ELSE s.unit[d]
        BY <2>1, <2>2, <3>2, <4>1, WithValueIs
      <4> HIDE DEF t
      <4> QED BY <3>2, <4>2
    <3> QED BY <3>1, <3>2
  <2> HIDE DEF t
  <2>6. LET done == item.ev # Nothing /\ EvStatus(item) = "Success"
        IN  /\ u.value = t.value /\ u.unit = t.unit
            /\ <<k, c>> \in u.subs <=>
                 IF done /\ c = item.ch THEN item.ev = "true" ELSE <<k, c>> \in t.subs
    BY <2>1, <2>5, WithEvIs
  <2> HIDE DEF u
  <2> QED BY <2>1, <2>3, <2>4, <2>5, <2>6
<1> QED BY <1>1, <1>2

\* What AnswersAreTrue says of the first m items, for one characteristic.
TrueUpTo(s, k, items, c, m) ==
  LET t == Outcomes(s, k, items)[m]
      values == {i \in 1 .. m : Decides(c, items[i]) /\ items[i].value # Nothing}
      evs == {i \in 1 .. m : Decides(c, items[i]) /\ items[i].ev # Nothing}
  IN  /\ values = {} => t.value[c] = s.value[c] /\ t.unit[c] = s.unit[c]
      /\ \A i \in values :
           (\A j \in values : j <= i) => t.value[c] = Converted(c, items[i].value)
      /\ evs = {} => (<<k, c>> \in t.subs <=> <<k, c>> \in s.subs)
      /\ \A i \in evs :
           (\A j \in evs : j <= i) => (<<k, c>> \in t.subs <=> items[i].ev = "true")

LEMMA AnswersUpTo ==
  ASSUME NEW s, Good(s), NEW k \in Client, NEW n \in Nat, NEW items \in [1 .. n -> Items],
         NEW c \in Char
  PROVE  \A m \in 0 .. n : TrueUpTo(s, k, items, c, m)
<1> DEFINE o == Outcomes(s, k, items)
           bad == {m \in 0 .. n : ~TrueUpTo(s, k, items, c, m)}
           valueAt(i) == Decides(c, items[i]) /\ items[i].value # Nothing
           evAt(i) == Decides(c, items[i]) /\ items[i].ev # Nothing
           values(m) == {i \in 1 .. m : valueAt(i)}
           evs(m) == {i \in 1 .. m : evAt(i)}
<1>1. Len(items) = n /\ \A i \in 0 .. n : Good(o[i])
  BY OutcomesAreGood
<1>2. o[0] = s /\ \A i \in 1 .. n : o[i] = Processed(o[i - 1], k, items[i])
  BY <1>1, OutcomesAre
<1> HIDE DEF valueAt, evAt
<1>3. \A m : TrueUpTo(s, k, items, c, m) <=>
        /\ values(m) = {} => o[m].value[c] = s.value[c] /\ o[m].unit[c] = s.unit[c]
        /\ \A i \in values(m) :
             (\A j \in values(m) : j <= i) => o[m].value[c] = Converted(c, items[i].value)
        /\ evs(m) = {} => (<<k, c>> \in o[m].subs <=> <<k, c>> \in s.subs)
        /\ \A i \in evs(m) :
             (\A j \in evs(m) : j <= i) => (<<k, c>> \in o[m].subs <=> items[i].ev = "true")
  BY DEF TrueUpTo, valueAt, evAt
<1> HIDE DEF o
<1> SUFFICES ASSUME bad # {} PROVE FALSE
  OBVIOUS
<1>4. PICK m \in bad : m \in Nat /\ \A j \in bad : m <= j
  <2>1. bad \subseteq Nat
    OBVIOUS
  <2> HIDE DEF bad
  <2> QED BY <2>1, LeastOf
<1>5. m # 0
  <2>1. values(0) = {} /\ evs(0) = {}
    OBVIOUS
  <2>2. TrueUpTo(s, k, items, c, 0)
    BY <1>2, <1>3, <2>1
  <2> QED BY <1>4, <2>2
<1> DEFINE p == m - 1
<1>6. m \in 1 .. n /\ p \in 0 .. n /\ p \in Nat /\ m = p + 1 /\ TrueUpTo(s, k, items, c, p)
  BY <1>4, <1>5
<1> HIDE DEF p
<1>7. /\ IF valueAt(m) THEN o[m].value[c] = Converted(c, items[m].value)
         ELSE o[m].value[c] = o[p].value[c] /\ o[m].unit[c] = o[p].unit[c]
      /\ <<k, c>> \in o[m].subs <=>
           IF evAt(m) THEN items[m].ev = "true" ELSE <<k, c>> \in o[p].subs
  <2>1. o[m] = Processed(o[p], k, items[m]) /\ items[m] \in Items /\ Good(o[p])
    BY <1>1, <1>2, <1>6 DEF p
  <2> QED BY <2>1, ProcessedIs DEF valueAt, evAt
<1>8. /\ values(m) = IF valueAt(m) THEN values(p) \cup {m} ELSE values(p)
      /\ evs(m) = IF evAt(m) THEN evs(p) \cup {m} ELSE evs(p)
  BY <1>6
<1>9. /\ \A i \in values(p) : i < m
      /\ \A i \in evs(p) : i < m
      /\ valueAt(m) => \A j \in values(m) : j <= m
      /\ evAt(m) => \A j \in evs(m) : j <= m
  BY <1>6
<1>10. /\ values(p) = {} => o[p].value[c] = s.value[c] /\ o[p].unit[c] = s.unit[c]
       /\ \A i \in values(p) :
            (\A j \in values(p) : j <= i) => o[p].value[c] = Converted(c, items[i].value)
       /\ evs(p) = {} => (<<k, c>> \in o[p].subs <=> <<k, c>> \in s.subs)
       /\ \A i \in evs(p) :
            (\A j \in evs(p) : j <= i) => (<<k, c>> \in o[p].subs <=> items[i].ev = "true")
  BY <1>3, <1>6
<1>11. /\ values(m) = {} => o[m].value[c] = s.value[c] /\ o[m].unit[c] = s.unit[c]
       /\ \A i \in values(m) :
            (\A j \in values(m) : j <= i) => o[m].value[c] = Converted(c, items[i].value)
  <2>1. CASE valueAt(m)
    <3>1. m \in values(m)
      BY <1>8, <2>1
    <3>2. ASSUME NEW i \in values(m), \A j \in values(m) : j <= i
          PROVE  i = m
      <4>1. i \in Nat /\ m <= i /\ i <= m
        BY <1>6, <1>9, <2>1, <3>1, <3>2
      <4> QED BY <1>6, <4>1
    <3> HIDE DEF values
    <3> QED BY <1>7, <2>1, <3>1, <3>2
  <2>2. CASE ~valueAt(m)
    <3> HIDE DEF values
    <3> QED BY <1>7, <1>8, <1>10, <2>2
  <2> QED BY <2>1, <2>2
<1>12. /\ evs(m) = {} => (<<k, c>> \in o[m].subs <=> <<k, c>> \in s.subs)
       /\ \A i \in evs(m) :
            (\A j \in evs(m) : j <= i) => (<<k, c>> \in o[m].subs <=> items[i].ev = "true")
  <2>1. CASE evAt(m)
    <3>1. m \in evs(m)
      BY <1>8, <2>1
    <3>2. ASSUME NEW i \in evs(m), \A j \in evs(m) : j <= i
          PROVE  i = m
      <4>1. i \in Nat /\ m <= i /\ i <= m
        BY <1>6, <1>9, <2>1, <3>1, <3>2
      <4> QED BY <1>6, <4>1
    <3> HIDE DEF evs
    <3> QED BY <1>7, <2>1, <3>1, <3>2
  <2>2. CASE ~evAt(m)
    <3> HIDE DEF evs
    <3> QED BY <1>7, <1>8, <1>10, <2>2
  <2> QED BY <2>1, <2>2
<1>13. TrueUpTo(s, k, items, c, m)
  BY <1>3, <1>11, <1>12
<1> QED BY <1>4, <1>13

\* The answer to a PUT tells the truth, whatever its items are and in whatever order.
THEOREM AnswersTrue == Spec => []AnswersAreTrue
<1>1. IInv => AnswersAreTrue
  <2> SUFFICES ASSUME IInv, NEW k \in Client, NEW items \in Requests, NEW c \in Char
               PROVE  LET after == Outcome(Now, k, items)
                          Is(i) == items[i].ch = c /\ StatusOf(items[i]) = "Success"
                          LastOf(is) == {i \in is : \A j \in is : j <= i}
                          values == {i \in DOMAIN items : Is(i) /\ items[i].value # Nothing}
                          evs == {i \in DOMAIN items : Is(i) /\ items[i].ev # Nothing}
                      IN  /\ values = {} =>
                               after.value[c] = value[c] /\ after.unit[c] = unit[c]
                          /\ \A i \in LastOf(values) :
                               after.value[c] = Converted(c, items[i].value)
                          /\ evs = {} => (<<k, c>> \in after.subs <=> <<k, c>> \in subs)
                          /\ \A i \in LastOf(evs) :
                               <<k, c>> \in after.subs <=> items[i].ev = "true"
    BY DEF AnswersAreTrue
  <2>1. PICK n \in Nat : items \in [1 .. n -> Items]
    BY RequestsAre
  <2>2. Good(Now) /\ Now.value = value /\ Now.unit = unit /\ Now.subs = subs
    BY DEF IInv, Now
  <2>3. Len(items) = n /\ n \in 0 .. n /\ DOMAIN items = 1 .. n
    BY <2>1, <2>2, OutcomesAreGood
  <2>4. TrueUpTo(Now, k, items, c, n)
    BY <2>1, <2>2, <2>3, AnswersUpTo
  <2>5. Outcome(Now, k, items) = Outcomes(Now, k, items)[n]
    BY <2>3 DEF Outcome
  <2> QED BY <2>2, <2>3, <2>4, <2>5 DEF TrueUpTo, Decides
<1> QED BY <1>1, RequestsInv, PTL
=============================================================================
