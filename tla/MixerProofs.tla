---------------------------- MODULE MixerProofs ----------------------------
(***************************************************************************)
(* Proofs about Mixer, for any controls, channels and ranges, any number   *)
(* of sessions and any levels asked for.                                   *)
(***************************************************************************)
EXTENDS Mixer, SequenceTheorems, TLAPS

----------------------------------------------------------------------------
(* What a percentage, a level and a call come to. *)

LEMMA MulOrder == ASSUME NEW a \in Int, NEW b \in Int, NEW m \in Nat, a <= b PROVE a * m <= b * m /\ a * m \in Int
OBVIOUS

\* Division with remainder.
LEMMA DivMod ==
    ASSUME NEW a \in Nat, NEW b \in Nat \ {0}
    PROVE  /\ a \div b \in Nat /\ a % b \in Nat
           /\ a = b * (a \div b) + (a % b)
           /\ a % b < b
OBVIOUS

LEMMA DivBetween ==
    ASSUME NEW a \in Nat, NEW b \in Nat \ {0}, NEW q \in Nat, q * b <= a
    PROVE  q <= a \div b
<1>1. SUFFICES ASSUME q > a \div b PROVE FALSE
  BY DivMod
<1>2. (a \div b) + 1 <= q
  BY <1>1, DivMod
<1>3. ((a \div b) + 1) * b <= q * b
  BY <1>2, DivMod, MulOrder
<1> QED BY <1>3, DivMod

LEMMA DivBelow ==
    ASSUME NEW a \in Nat, NEW b \in Nat \ {0}, NEW q \in Nat, a < (q + 1) * b
    PROVE  a \div b <= q
<1>1. SUFFICES ASSUME a \div b > q PROVE FALSE
  BY DivMod
<1>2. q + 1 <= a \div b
  BY <1>1, DivMod
<1>3. (q + 1) * b <= (a \div b) * b
  BY <1>2, DivMod, MulOrder
<1> QED BY <1>3, DivMod

\* A percentage becomes a level of the card.
LEMMA RawType ==
    ASSUME NEW p \in 0..100, NEW top \in Nat \ {0}
    PROVE  /\ Raw(p, top) \in 0..top
           /\ 100 * Raw(p, top) >= p * top
           /\ 100 * Raw(p, top) < (p * top) + 100
<1>1. p * top <= 100 * top /\ 0 * top <= p * top /\ p * top \in Int
  BY MulOrder
<1> DEFINE x == p * top
<1>2. x \in Nat /\ x <= 100 * top /\ Raw(p, top) = (x + 99) \div 100
  BY <1>1 DEF Raw, CeilDiv
<1> HIDE DEF x
<1>3. (x + 99) \div 100 \in Nat /\ 100 * ((x + 99) \div 100) >= x /\ 100 * ((x + 99) \div 100) < x + 100
  BY <1>2
<1>4. (x + 99) \div 100 <= top
  BY <1>2, <1>3
<1> QED BY <1>2, <1>3, <1>4 DEF x

LEMMA PercentType ==
    ASSUME NEW top \in Nat \ {0}, NEW level \in 0..top
    PROVE  Percent(level, top) \in 0..100
<1> DEFINE a == 100 * level
           q == a \div top
           m == a % top
<1>1. a \in Nat /\ a <= 100 * top
  OBVIOUS
<1>2. q \in Nat /\ m \in Nat /\ a = top * q + m /\ m < top
  BY <1>1, DivMod
<1>3. Percent(level, top) = IF 2 * m > top \/ (2 * m = top /\ q % 2 = 1) THEN q + 1 ELSE q
  BY DEF Percent
<1> HIDE DEF a, q, m
<1>4. q <= 100
  BY <1>1, DivBelow DEF q
<1>5. q = 100 => m = 0
  BY <1>1, <1>2
<1> QED BY <1>2, <1>3, <1>4, <1>5

\* A percentage that becomes a level is shown as itself, or as more, by less than one level.
LEMMA PercentRaw ==
    ASSUME NEW p \in 0..100, NEW top \in Nat \ {0}
    PROVE  Percent(Raw(p, top), top) \in p..(p + CeilDiv(100, top))
<1> DEFINE l == Raw(p, top)
           a == 100 * l
           x == p * top
           q == a \div top
           m == a % top
           s == CeilDiv(100, top)
<1>1. l \in 0..top /\ a >= x /\ a < x + 100 /\ a \in Nat /\ x \in Nat
  <2>1. 0 * top <= p * top /\ p * top \in Int
    BY MulOrder
  <2>2. l \in 0..top /\ a >= x /\ a < x + 100
    BY RawType
  <2> HIDE DEF l
  <2> QED BY <2>1, <2>2
<1>2. q \in Nat /\ m \in Nat /\ a = top * q + m /\ m < top
  BY <1>1, DivMod
<1>3. Percent(l, top) = IF 2 * m > top \/ (2 * m = top /\ q % 2 = 1) THEN q + 1 ELSE q
  BY DEF Percent
<1>4. p <= q
  <2> HIDE DEF l
  <2> QED BY <1>1, DivBetween
<1>5. s \in Nat /\ s * top >= 100
  <2> DEFINE z == 100 + top - 1
  <2>1. s = z \div top /\ z \in Nat /\ z = 99 + top
    BY DEF CeilDiv
  <2> HIDE DEF s, z
  <2>2. s \in Nat /\ z % top < top /\ z % top \in Nat /\ z = top * s + (z % top)
    BY <2>1, DivMod
  <2>3. top * s \in Int /\ top * s = s * top
    BY <2>2
  <2> QED BY <2>1, <2>2, <2>3
<1>6. Percent(l, top) <= p + s
  <2> SUFFICES ASSUME Percent(l, top) > p + s PROVE FALSE
    BY <1>2, <1>3, <1>5
  <2> HIDE DEF s, q, m, l
  <2>1. a < (p + s) * top
    <3>1. (p + s) * top = p * top + s * top
      BY <1>5
    <3> QED BY <3>1, <1>1, <1>5
  <2>2. q < p + s
    <3> SUFFICES ASSUME p + s <= q PROVE FALSE
      BY <1>2, <1>5
    <3>1. (p + s) * top <= q * top
      BY <1>2, <1>5, MulOrder
    <3>2. q * top = top * q
      BY <1>2
    <3> QED BY <1>1, <1>2, <1>5, <2>1, <3>1, <3>2
  <2> QED BY <1>2, <1>3, <1>5, <2>2
<1> QED BY <1>2, <1>3, <1>4, <1>5, <1>6

LEMMA PercentWhole == ASSUME NEW n \in 0..100 PROVE Percent(n, 100) = n
BY DEF Percent
----------------------------------------------------------------------
Args == [word : {"none", "on", "off", "cap", "nocap", "%", "raw", "+%", "-%"}, n : 0..100]
Call == [do : {"sget", "sset", "raise"}, on : Controls, arg : Args]

Of(t) == {t[i] : i \in DOMAIN t}

\* In t, no call of X comes after a call of Y.
NoneAfter(t, X, Y) == \A i, j \in DOMAIN t : i < j => ~(t[i] \in Y /\ t[j] \in X)

LEMMA OfConcat ==
    ASSUME NEW a \in Seq(Call), NEW b \in Seq(Call)
    PROVE  a \o b \in Seq(Call) /\ Of(a \o b) = Of(a) \union Of(b)
<1> DEFINE t == a \o b
<1>1. /\ t \in Seq(Call) /\ Len(t) = Len(a) + Len(b)
      /\ \A i \in 1..(Len(a) + Len(b)) : t[i] = IF i <= Len(a) THEN a[i] ELSE b[i - Len(a)]
      /\ Len(a) \in Nat /\ Len(b) \in Nat
  BY ConcatProperties
<1>2. DOMAIN t = 1..(Len(a) + Len(b)) /\ DOMAIN a = 1..Len(a) /\ DOMAIN b = 1..Len(b)
  BY <1>1, LenProperties
<1> HIDE DEF t
<1>3. ASSUME NEW i \in DOMAIN t PROVE t[i] \in Of(a) \union Of(b)
  <2>1. CASE i <= Len(a)
    BY <1>1, <1>2, <2>1 DEF Of
  <2>2. CASE i > Len(a)
    <3>1. i - Len(a) \in DOMAIN b /\ t[i] = b[i - Len(a)]
      BY <1>1, <1>2, <2>2
    <3> QED BY <3>1 DEF Of
  <2> QED BY <1>1, <1>2, <2>1, <2>2
<1>4. ASSUME NEW i \in DOMAIN a PROVE a[i] \in Of(t)
  <2>1. i \in DOMAIN t /\ t[i] = a[i]
    BY <1>1, <1>2
  <2> QED BY <2>1 DEF Of
<1>5. ASSUME NEW i \in DOMAIN b PROVE b[i] \in Of(t)
  <2>1. i + Len(a) \in DOMAIN t /\ t[i + Len(a)] = b[i]
    BY <1>1, <1>2
  <2> QED BY <2>1 DEF Of
<1> QED BY <1>1, <1>3, <1>4, <1>5 DEF Of, t

LEMMA OrderConcat ==
    ASSUME NEW a \in Seq(Call), NEW b \in Seq(Call), NEW X, NEW Y,
           NoneAfter(a, X, Y), NoneAfter(b, X, Y),
           Of(a) \intersect Y = {} \/ Of(b) \intersect X = {}
    PROVE  NoneAfter(a \o b, X, Y)
<1> DEFINE t == a \o b
<1>1. /\ t \in Seq(Call) /\ Len(t) = Len(a) + Len(b)
      /\ \A i \in 1..(Len(a) + Len(b)) : t[i] = IF i <= Len(a) THEN a[i] ELSE b[i - Len(a)]
      /\ Len(a) \in Nat /\ Len(b) \in Nat
  BY ConcatProperties
<1>2. DOMAIN t = 1..(Len(a) + Len(b)) /\ DOMAIN a = 1..Len(a) /\ DOMAIN b = 1..Len(b)
  BY <1>1, LenProperties
<1> HIDE DEF t
<1>3. ASSUME NEW i \in DOMAIN t, NEW j \in DOMAIN t, i < j, t[i] \in Y, t[j] \in X PROVE FALSE
  <2>1. CASE j <= Len(a)
    <3>1. i \in DOMAIN a /\ j \in DOMAIN a /\ t[i] = a[i] /\ t[j] = a[j]
      BY <1>1, <1>2, <1>3, <2>1
    <3> QED BY <1>3, <3>1 DEF NoneAfter
  <2>2. CASE i <= Len(a) /\ j > Len(a)
    <3>1. i \in DOMAIN a /\ j - Len(a) \in DOMAIN b /\ t[i] = a[i] /\ t[j] = b[j - Len(a)]
      BY <1>1, <1>2, <1>3, <2>2
    <3> QED BY <1>3, <3>1 DEF Of
  <2>3. CASE i > Len(a)
    <3>1. /\ i - Len(a) \in DOMAIN b /\ j - Len(a) \in DOMAIN b /\ i - Len(a) < j - Len(a)
          /\ t[i] = b[i - Len(a)] /\ t[j] = b[j - Len(a)]
      BY <1>1, <1>2, <1>3, <2>3
    <3> QED BY <1>3, <3>1 DEF NoneAfter
  <2> QED BY <1>1, <1>2, <2>1, <2>2, <2>3
<1> QED BY <1>3 DEF NoneAfter, t

LEMMA OrderDisjoint ==
    ASSUME NEW a \in Seq(Call), NEW X, NEW Y, Of(a) \intersect Y = {} \/ Of(a) \intersect X = {}
    PROVE  NoneAfter(a, X, Y)
BY DEF NoneAfter, Of

\* One call for each name.
To(names, do, a) == {[do |-> do, on |-> names[k], arg |-> a] : k \in DOMAIN names}

LEMMA EachFacts ==
    ASSUME NEW names \in Seq(Controls), NEW do \in {"sget", "sset", "raise"}, NEW a \in Args, NEW t,
           t = [k \in DOMAIN names |-> [do |-> do, on |-> names[k], arg |-> a]]
    PROVE  t \in Seq(Call) /\ Of(t) = To(names, do, a)
<1>1. DOMAIN names = 1..Len(names) /\ Len(names) \in Nat /\ \A k \in DOMAIN names : names[k] \in Controls
  BY LenProperties, ElementOfSeq
<1>2. t \in [1..Len(names) -> Call]
  BY <1>1 DEF Call
<1>3. t \in Seq(Call)
  BY <1>1, <1>2, SeqDef
<1> QED BY <1>3 DEF Of, To

LEMMA ToOn ==
    ASSUME NEW names \in Seq(Controls), NEW do, NEW a, NEW c
    PROVE  {x \in To(names, do, a) : x.on = c} = IF In(c, names) THEN {[do |-> do, on |-> c, arg |-> a]} ELSE {}
BY DEF To, In

V1 == Each(Outs, Sset, OnOff("on"))
V2 == Each(Outs, Raise, Arg("raw", VOLUME))
M1 == Each(Mics, Sset, OnOff("on"))
M2 == Each(Boosts, Sset, OnOff("off"))
M3 == Each(Boosts, Sset, Arg("%", 0))
M4 == Each(Mics, Sset, Arg("raw", VOLUME_MIC))
M5 == Each(Caps, Sset, OnOff("cap"))
M6 == Each(Caps, Sset, Arg("%", CAPTURE))
N1 == Each(Mics, Sset, OnOff("off"))
N2 == Each(Caps, Sset, OnOff("nocap"))

LEMMA PartFacts ==
    /\ read_levels \in Seq(Call) /\ Of(read_levels) = To(Outs, "sget", OnOff("none"))
    /\ V1 \in Seq(Call) /\ Of(V1) = To(Outs, "sset", OnOff("on"))
    /\ V2 \in Seq(Call) /\ Of(V2) = To(Outs, "raise", Arg("raw", VOLUME))
    /\ M1 \in Seq(Call) /\ Of(M1) = To(Mics, "sset", OnOff("on"))
    /\ M2 \in Seq(Call) /\ Of(M2) = To(Boosts, "sset", OnOff("off"))
    /\ M3 \in Seq(Call) /\ Of(M3) = To(Boosts, "sset", Arg("%", 0))
    /\ M4 \in Seq(Call) /\ Of(M4) = To(Mics, "sset", Arg("raw", VOLUME_MIC))
    /\ M5 \in Seq(Call) /\ Of(M5) = To(Caps, "sset", OnOff("cap"))
    /\ M6 \in Seq(Call) /\ Of(M6) = To(Caps, "sset", Arg("%", CAPTURE))
    /\ N1 \in Seq(Call) /\ Of(N1) = To(Mics, "sset", OnOff("off"))
    /\ N2 \in Seq(Call) /\ Of(N2) = To(Caps, "sset", OnOff("nocap"))
<1>1. Outs \in Seq(Controls) /\ Mics \in Seq(Controls) /\ Boosts \in Seq(Controls) /\ Caps \in Seq(Controls)
  BY ControlAssumption
<1>2. /\ \A w \in {"none", "on", "off", "cap", "nocap"} : OnOff(w) \in Args
      /\ Arg("raw", VOLUME) \in Args /\ Arg("%", 0) \in Args /\ Arg("raw", VOLUME_MIC) \in Args
      /\ Arg("%", CAPTURE) \in Args
  BY DEF Args, OnOff, Arg, VOLUME, VOLUME_MIC, CAPTURE
<1>3. read_levels \in Seq(Call) /\ Of(read_levels) = To(Outs, "sget", OnOff("none"))
  BY <1>1, <1>2, EachFacts DEF read_levels, Sget
<1>4. V1 \in Seq(Call) /\ Of(V1) = To(Outs, "sset", OnOff("on"))
  BY <1>1, <1>2, EachFacts DEF V1, Each, Sset
<1>5. V2 \in Seq(Call) /\ Of(V2) = To(Outs, "raise", Arg("raw", VOLUME))
  BY <1>1, <1>2, EachFacts DEF V2, Each, Raise
<1>6. M1 \in Seq(Call) /\ Of(M1) = To(Mics, "sset", OnOff("on"))
  BY <1>1, <1>2, EachFacts DEF M1, Each, Sset
<1>7. M2 \in Seq(Call) /\ Of(M2) = To(Boosts, "sset", OnOff("off"))
  BY <1>1, <1>2, EachFacts DEF M2, Each, Sset
<1>8. M3 \in Seq(Call) /\ Of(M3) = To(Boosts, "sset", Arg("%", 0))
  BY <1>1, <1>2, EachFacts DEF M3, Each, Sset
<1>9. M4 \in Seq(Call) /\ Of(M4) = To(Mics, "sset", Arg("raw", VOLUME_MIC))
  BY <1>1, <1>2, EachFacts DEF M4, Each, Sset
<1>10. M5 \in Seq(Call) /\ Of(M5) = To(Caps, "sset", OnOff("cap"))
  BY <1>1, <1>2, EachFacts DEF M5, Each, Sset
<1>11. M6 \in Seq(Call) /\ Of(M6) = To(Caps, "sset", Arg("%", CAPTURE))
  BY <1>1, <1>2, EachFacts DEF M6, Each, Sset
<1>12. N1 \in Seq(Call) /\ Of(N1) = To(Mics, "sset", OnOff("off"))
  BY <1>1, <1>2, EachFacts DEF N1, Each, Sset
<1>13. N2 \in Seq(Call) /\ Of(N2) = To(Caps, "sset", OnOff("nocap"))
  BY <1>1, <1>2, EachFacts DEF N2, Each, Sset
<1> QED BY <1>3, <1>4, <1>5, <1>6, <1>7, <1>8, <1>9, <1>10, <1>11, <1>12, <1>13

\* The calls a session makes to reach its goal for c.
Wants           == {"loud", "live"}
GetCall(c)      == Sget(c)
OnCall(c)       == Sset(c, OnOff(IF In(c, Caps) THEN "cap" ELSE "on"))
LevelCall(c, g) == IF g = "loud" THEN Raise(c, Arg("raw", VOLUME))
                   ELSE Sset(c, IF In(c, Caps) THEN Arg("%", CAPTURE) ELSE Arg("raw", VOLUME_MIC))
OffCall(c)      == Sset(c, OnOff(IF In(c, Caps) THEN "nocap" ELSE "off"))
Helpful(c, g)   == IF g = "loud" THEN {GetCall(c), OnCall(c), LevelCall(c, g)}
                   ELSE IF g = "live" THEN {OnCall(c), LevelCall(c, g)} ELSE {OffCall(c)}

\* What is left of a script, as far as its goal for c is concerned: levels are read first,
\* then the control is switched on, then it gets its level.
Shape(t, c, g) ==
    /\ {x \in Of(t) : x.on = c} \subseteq Helpful(c, g)
    /\ g \in Wants => /\ NoneAfter(t, {GetCall(c)}, {OnCall(c), LevelCall(c, g)})
                      /\ NoneAfter(t, {OnCall(c)}, {LevelCall(c, g)})
                      /\ OnCall(c) \in Of(t) => LevelCall(c, g) \in Of(t)

LEMMA Lists ==
    ASSUME NEW c \in Controls
    PROVE  /\ In(c, Outs) => ~In(c, Mics) /\ ~In(c, Boosts) /\ ~In(c, Caps)
           /\ In(c, Mics) => ~In(c, Boosts) /\ ~In(c, Caps)
           /\ In(c, Caps) => /\ ~In(c, Boosts)
                             /\ \A k \in DOMAIN Channels[c] : Channels[c][k] = "capture"
           /\ In(c, Outs) \/ In(c, Mics) => Channels[c][1] = "left"
<1>1. In(c, Caps) => \A k \in DOMAIN Channels[c] : Channels[c][k] = "capture"
  BY ControlAssumption
<1>2. 1 \in DOMAIN Channels[c]
  <2>1. Channels[c] \in Seq({"left", "right", "capture"}) /\ Channels[c] # << >>
    BY ControlAssumption
  <2> QED BY <2>1, EmptySeq, LenProperties
<1> QED BY <1>1, <1>2, ControlAssumption

LEMMA CallsDiffer ==
    ASSUME NEW c
    PROVE  /\ GetCall(c).on = c /\ OnCall(c).on = c /\ OffCall(c).on = c
           /\ \A g : LevelCall(c, g).on = c /\ LevelCall(c, g) # OnCall(c) /\ LevelCall(c, g) # GetCall(c)
           /\ OnCall(c) # GetCall(c)
BY DEF GetCall, OnCall, LevelCall, OffCall, Sget, Sset, Raise, OnOff, Arg

\* startrtp-recv, and what comes of read_levels and set_volume in startrtp-send, for an output.
LEMMA LoudShape ==
    ASSUME NEW c \in Controls, In(c, Outs), NEW rest \in Seq(Call), \A x \in Of(rest) : x.on # c
    PROVE  LET t == read_levels \o set_volume \o rest
           IN  t \in Seq(Call) /\ Shape(t, c, "loud") /\ {GetCall(c), OnCall(c), LevelCall(c, "loud")} \subseteq Of(t)
<1> DEFINE a == read_levels
           v == V1 \o V2
           t == (a \o v) \o rest
           gets == {GetCall(c)}  ons == {OnCall(c)}  levels == {LevelCall(c, "loud")}
<1>1. a \in Seq(Call) /\ V1 \in Seq(Call) /\ V2 \in Seq(Call)
  BY PartFacts
<1>2. v \in Seq(Call) /\ Of(v) = Of(V1) \union Of(V2)
  BY <1>1, OfConcat
<1> HIDE DEF a, v
<1>3. a \o v \in Seq(Call) /\ Of(a \o v) = Of(a) \union Of(V1) \union Of(V2)
  BY <1>1, <1>2, OfConcat
<1>4. t \in Seq(Call) /\ Of(t) = Of(a) \union Of(V1) \union Of(V2) \union Of(rest)
  BY <1>3, OfConcat
<1>5. t = read_levels \o set_volume \o rest
  BY DEF set_volume, V1, V2, a, v
<1>6. Outs \in Seq(Controls) /\ ~In(c, Caps)
  BY ControlAssumption, Lists
<1>7. /\ {x \in Of(a) : x.on = c} = gets
      /\ {x \in Of(V1) : x.on = c} = ons
      /\ {x \in Of(V2) : x.on = c} = levels
  <2>1. {x \in Of(a) : x.on = c} = gets
    BY <1>6, PartFacts, ToOn DEF GetCall, Sget, a
  <2>2. {x \in Of(V1) : x.on = c} = ons
    BY <1>6, PartFacts, ToOn DEF OnCall, Sset
  <2>3. {x \in Of(V2) : x.on = c} = levels
    BY <1>6, PartFacts, ToOn DEF LevelCall, Raise
  <2> QED BY <2>1, <2>2, <2>3
<1> HIDE DEF t
<1>8. \A x \in gets \union ons \union levels : x.on = c
  BY CallsDiffer
<1>9. /\ gets \intersect (ons \union levels) = {} /\ ons \intersect levels = {}
  BY CallsDiffer
<1> HIDE DEF gets, ons, levels
<1>10. NoneAfter(t, gets, ons \union levels)
  <2>1. Of(v) \intersect gets = {} /\ Of(rest) \intersect gets = {} /\ Of(a) \intersect (ons \union levels) = {}
    BY <1>2, <1>7, <1>8, <1>9
  <2>2. NoneAfter(a, gets, ons \union levels) /\ NoneAfter(v, gets, ons \union levels) /\ NoneAfter(rest, gets, ons \union levels)
    BY <1>1, <1>2, <2>1, OrderDisjoint
  <2>3. NoneAfter(a \o v, gets, ons \union levels)
    BY <1>1, <1>2, <2>1, <2>2, OrderConcat
  <2> QED BY <1>3, <2>1, <2>2, <2>3, OrderConcat DEF t
<1>11. NoneAfter(t, ons, levels)
  <2>1. Of(V2) \intersect ons = {} /\ Of(V1) \intersect levels = {} /\ Of(rest) \intersect ons = {} /\ Of(a) \intersect levels = {}
    BY <1>7, <1>8, <1>9
  <2>2. NoneAfter(a, ons, levels) /\ NoneAfter(V1, ons, levels) /\ NoneAfter(V2, ons, levels) /\ NoneAfter(rest, ons, levels)
    BY <1>1, <2>1, OrderDisjoint
  <2>3. NoneAfter(v, ons, levels)
    BY <1>1, <2>1, <2>2, OrderConcat DEF v
  <2>4. NoneAfter(a \o v, ons, levels)
    BY <1>1, <1>2, <2>1, <2>2, <2>3, OrderConcat
  <2> QED BY <1>3, <2>1, <2>2, <2>4, OrderConcat DEF t
<1>12. {x \in Of(t) : x.on = c} = gets \union ons \union levels
  BY <1>4, <1>7
<1>13. gets \union ons \union levels \subseteq Of(t)
  BY <1>12
<1> QED BY <1>4, <1>5, <1>10, <1>11, <1>12, <1>13 DEF Shape, Helpful, gets, ons, levels, t

\* The calls on c of a sequence that concatenates two.
LEMMA OnConcat ==
    ASSUME NEW a \in Seq(Call), NEW b \in Seq(Call), NEW c
    PROVE  {x \in Of(a \o b) : x.on = c} = {x \in Of(a) : x.on = c} \union {x \in Of(b) : x.on = c}
BY OfConcat

LEMMA VolumeFacts ==
    /\ read_levels \o set_volume \in Seq(Call)
    /\ \A c \in Controls : ~In(c, Outs) => \A x \in Of(read_levels \o set_volume) : x.on # c
<1> DEFINE a == read_levels
           v == V1 \o V2
<1>1. a \in Seq(Call) /\ V1 \in Seq(Call) /\ V2 \in Seq(Call)
  BY PartFacts
<1>2. v \in Seq(Call) /\ Of(v) = Of(V1) \union Of(V2) /\ set_volume = v
  BY <1>1, OfConcat DEF set_volume, V1, V2
<1> HIDE DEF v
<1>3. a \o v \in Seq(Call) /\ Of(a \o v) = Of(a) \union Of(V1) \union Of(V2)
  BY <1>1, <1>2, OfConcat
<1>4. ASSUME NEW c \in Controls, ~In(c, Outs), NEW x \in Of(a) \union Of(V1) \union Of(V2) PROVE x.on # c
  BY <1>4, PartFacts DEF To, In
<1> QED BY <1>2, <1>3, <1>4

\* A sequence of calls not on c before or after changes nothing of a shape.
LEMMA ShapeAfter ==
    ASSUME NEW a \in Seq(Call), NEW b \in Seq(Call), NEW c, NEW g, Shape(b, c, g), \A x \in Of(a) : x.on # c
    PROVE  Shape(a \o b, c, g) /\ {x \in Of(a \o b) : x.on = c} = {x \in Of(b) : x.on = c}
<1>1. {x \in Of(a \o b) : x.on = c} = {x \in Of(b) : x.on = c}
  BY OnConcat
<1>2. \A X, Y : (\A x \in X \union Y : x.on = c) /\ NoneAfter(b, X, Y) => NoneAfter(a \o b, X, Y)
  <2> TAKE X, Y
  <2> SUFFICES ASSUME \A x \in X \union Y : x.on = c, NoneAfter(b, X, Y) PROVE NoneAfter(a \o b, X, Y)
    OBVIOUS
  <2>1. Of(a) \intersect Y = {}
    OBVIOUS
  <2>2. NoneAfter(a, X, Y)
    BY <2>1, OrderDisjoint
  <2> QED BY <2>1, <2>2, OrderConcat
<1>3. /\ \A x \in {GetCall(c)} \union {OnCall(c), LevelCall(c, g)} : x.on = c
      /\ \A x \in {OnCall(c)} \union {LevelCall(c, g)} : x.on = c
  BY CallsDiffer
<1>4. g \in Wants => /\ NoneAfter(a \o b, {GetCall(c)}, {OnCall(c), LevelCall(c, g)})
                     /\ NoneAfter(a \o b, {OnCall(c)}, {LevelCall(c, g)})
  BY <1>2, <1>3 DEF Shape
<1>5. g \in Wants => (OnCall(c) \in Of(a \o b) => LevelCall(c, g) \in Of(a \o b))
  BY <1>1, <1>3 DEF Shape
<1> QED BY <1>1, <1>4, <1>5 DEF Shape

\* set_mic, for a microphone or a control that records.
LEMMA MicShape ==
    ASSUME NEW c \in Controls, In(c, Mics) \/ In(c, Caps)
    PROVE  set_mic \in Seq(Call) /\ Shape(set_mic, c, "live") /\ {OnCall(c), LevelCall(c, "live")} \subseteq Of(set_mic)
<1> DEFINE t2 == M1 \o M2  t3 == t2 \o M3  t4 == t3 \o M4  t5 == t4 \o M5  t6 == t5 \o M6
           ons == {OnCall(c)}  levels == {LevelCall(c, "live")}
           mine(s) == {x \in Of(s) : x.on = c}
<1>0. M1 \in Seq(Call) /\ M2 \in Seq(Call) /\ M3 \in Seq(Call) /\ M4 \in Seq(Call) /\ M5 \in Seq(Call) /\ M6 \in Seq(Call)
  BY PartFacts
<1>1. set_mic = t6
  BY DEF set_mic, M1, M2, M3, M4, M5, M6
<1>2. t2 \in Seq(Call) /\ Of(t2) = Of(M1) \union Of(M2)
  BY <1>0, OfConcat
<1> HIDE DEF t2
<1>3. t3 \in Seq(Call) /\ Of(t3) = Of(t2) \union Of(M3)
  BY <1>0, <1>2, OfConcat
<1> HIDE DEF t3
<1>4. t4 \in Seq(Call) /\ Of(t4) = Of(t3) \union Of(M4)
  BY <1>0, <1>3, OfConcat
<1> HIDE DEF t4
<1>5. t5 \in Seq(Call) /\ Of(t5) = Of(t4) \union Of(M5)
  BY <1>0, <1>4, OfConcat
<1> HIDE DEF t5
<1>6. t6 \in Seq(Call) /\ Of(t6) = Of(t5) \union Of(M6)
  BY <1>0, <1>5, OfConcat
<1> HIDE DEF t6
<1>7. Mics \in Seq(Controls) /\ Boosts \in Seq(Controls) /\ Caps \in Seq(Controls) /\ ~In(c, Boosts) /\ ~(In(c, Mics) /\ In(c, Caps))
  BY ControlAssumption, Lists
<1>8. /\ mine(M1) = IF In(c, Mics) THEN {Sset(c, OnOff("on"))} ELSE {}
      /\ mine(M4) = IF In(c, Mics) THEN {Sset(c, Arg("raw", VOLUME_MIC))} ELSE {}
  BY <1>7, PartFacts, ToOn DEF Sset
<1>9. /\ mine(M5) = IF In(c, Caps) THEN {Sset(c, OnOff("cap"))} ELSE {}
      /\ mine(M6) = IF In(c, Caps) THEN {Sset(c, Arg("%", CAPTURE))} ELSE {}
  BY <1>7, PartFacts, ToOn DEF Sset
<1>10. mine(M2) = {} /\ mine(M3) = {}
  BY <1>7, PartFacts, ToOn
<1>11. /\ mine(M1) = IF In(c, Mics) THEN ons ELSE {}
       /\ mine(M4) = IF In(c, Mics) THEN levels ELSE {}
       /\ mine(M5) = IF In(c, Mics) THEN {} ELSE ons
       /\ mine(M6) = IF In(c, Mics) THEN {} ELSE levels
  BY <1>7, <1>8, <1>9 DEF OnCall, LevelCall
<1>12. (\A x \in ons \union levels : x.on = c) /\ ons \intersect levels = {} /\ ~(GetCall(c) \in ons \union levels) /\ GetCall(c).on = c
  BY CallsDiffer
<1> HIDE DEF ons, levels
<1>13. mine(t6) = ons \union levels
  BY <1>2, <1>3, <1>4, <1>5, <1>6, <1>10, <1>11
<1>14. NoneAfter(t6, {GetCall(c)}, ons \union levels)
  <2>1. GetCall(c) \notin Of(t6)
    BY <1>12, <1>13
  <2> QED BY <1>6, <2>1, OrderDisjoint
<1>15. NoneAfter(t6, ons, levels)
  <2>1. /\ NoneAfter(M1, ons, levels) /\ NoneAfter(M2, ons, levels) /\ NoneAfter(M3, ons, levels)
        /\ NoneAfter(M4, ons, levels) /\ NoneAfter(M5, ons, levels) /\ NoneAfter(M6, ons, levels)
    <3>1. /\ Of(M1) \intersect levels = {} /\ Of(M2) \intersect levels = {} /\ Of(M3) \intersect levels = {}
          /\ Of(M4) \intersect ons = {} /\ Of(M5) \intersect levels = {} /\ Of(M6) \intersect ons = {}
      BY <1>10, <1>11, <1>12
    <3> QED BY <1>0, <3>1, OrderDisjoint
  <2>2. Of(M2) \intersect ons = {} /\ Of(M3) \intersect ons = {} /\ Of(M4) \intersect ons = {} /\ Of(M6) \intersect ons = {}
    BY <1>10, <1>11, <1>12
  <2>3. Of(t4) \intersect levels = {} \/ Of(M5) \intersect ons = {}
    BY <1>2, <1>3, <1>4, <1>10, <1>11, <1>12
  <2>4. NoneAfter(t2, ons, levels)
    BY <1>0, <2>1, <2>2, OrderConcat DEF t2
  <2>5. NoneAfter(t3, ons, levels)
    BY <1>0, <1>2, <2>1, <2>2, <2>4, OrderConcat DEF t3
  <2>6. NoneAfter(t4, ons, levels)
    BY <1>0, <1>3, <2>1, <2>2, <2>5, OrderConcat DEF t4
  <2>7. NoneAfter(t5, ons, levels)
    BY <1>0, <1>4, <2>1, <2>3, <2>6, OrderConcat DEF t5
  <2> QED BY <1>0, <1>5, <2>1, <2>2, <2>7, OrderConcat DEF t6
<1>16. ons \union levels \subseteq Of(t6)
  BY <1>13
<1> QED BY <1>1, <1>6, <1>13, <1>14, <1>15, <1>16 DEF Shape, Helpful, ons, levels

\* set_mute_mic.
LEMMA MuteShape ==
    /\ set_mute_mic \in Seq(Call)
    /\ \A c \in Controls : ~In(c, Mics) /\ ~In(c, Caps) => \A x \in Of(set_mute_mic) : x.on # c
    /\ \A c \in Controls : In(c, Mics) \/ In(c, Caps) =>
           Shape(set_mute_mic, c, "mute") /\ OffCall(c) \in Of(set_mute_mic)
<1>1. N1 \in Seq(Call) /\ N2 \in Seq(Call) /\ set_mute_mic = N1 \o N2
  BY PartFacts DEF set_mute_mic, N1, N2
<1>2. set_mute_mic \in Seq(Call) /\ Of(set_mute_mic) = Of(N1) \union Of(N2)
  BY <1>1, OfConcat
<1>3. ASSUME NEW c \in Controls
      PROVE  {x \in Of(set_mute_mic) : x.on = c} =
                 IF In(c, Mics) \/ In(c, Caps) THEN {OffCall(c)} ELSE {}
  <2>1. Mics \in Seq(Controls) /\ Caps \in Seq(Controls) /\ ~(In(c, Mics) /\ In(c, Caps))
    BY ControlAssumption, Lists
  <2>2. /\ {x \in Of(N1) : x.on = c} = IF In(c, Mics) THEN {Sset(c, OnOff("off"))} ELSE {}
        /\ {x \in Of(N2) : x.on = c} = IF In(c, Caps) THEN {Sset(c, OnOff("nocap"))} ELSE {}
    BY <2>1, PartFacts, ToOn DEF Sset
  <2> QED BY <1>2, <2>1, <2>2 DEF OffCall
<1>4. "mute" \notin Wants
  BY DEF Wants
<1>5. ASSUME NEW c \in Controls, ~In(c, Mics), ~In(c, Caps), NEW x \in Of(set_mute_mic) PROVE x.on # c
  BY <1>3, <1>5
<1>6. ASSUME NEW c \in Controls, In(c, Mics) \/ In(c, Caps)
      PROVE  Shape(set_mute_mic, c, "mute") /\ OffCall(c) \in Of(set_mute_mic)
  BY <1>3, <1>4, <1>6 DEF Shape, Helpful
<1> QED BY <1>2, <1>5, <1>6

\* The script of each session, for each control it has a goal for.
LEMMA ScriptShape ==
    ASSUME NEW s \in RtpSessions
    PROVE  /\ RtpScript(s) \in Seq(Call)
           /\ \A c \in Controls : LET g == Goal(s, c) IN g # "any" =>
                  /\ Shape(RtpScript(s), c, g)
                  /\ g \in Wants => {OnCall(c), LevelCall(c, g)} \subseteq Of(RtpScript(s))
                  /\ g = "loud" => GetCall(c) \in Of(RtpScript(s))
                  /\ g = "mute" => OffCall(c) \in Of(RtpScript(s))
<1> DEFINE a == read_levels \o set_volume
           Good(t, c, g) == /\ Shape(t, c, g)
                            /\ g \in Wants => {OnCall(c), LevelCall(c, g)} \subseteq Of(t)
                            /\ g = "loud" => GetCall(c) \in Of(t)
                            /\ g = "mute" => OffCall(c) \in Of(t)
<1>1. a \in Seq(Call) /\ \A c \in Controls : ~In(c, Outs) => \A x \in Of(a) : x.on # c
  BY VolumeFacts
<1>2. \A c \in Controls : In(c, Outs) => c \in Outputs /\ c \notin Inputs
  BY Lists DEF Outputs, Inputs
<1>3. \A c \in Controls : (In(c, Mics) \/ In(c, Caps)) <=> c \in Inputs
  BY DEF Inputs
<1>4. \A c \in Controls : c \in Outputs <=> In(c, Outs)
  BY DEF Outputs
<1>5. "mute" \notin Wants /\ "live" \in Wants /\ "loud" \in Wants
  BY DEF Wants
<1>6. set_mic \in Seq(Call) /\ \A c \in Controls : In(c, Outs) => \A x \in Of(set_mic) : x.on # c
  <2> DEFINE t2 == M1 \o M2  t3 == t2 \o M3  t4 == t3 \o M4  t5 == t4 \o M5  t6 == t5 \o M6
  <2>0. /\ M1 \in Seq(Call) /\ M2 \in Seq(Call) /\ M3 \in Seq(Call)
        /\ M4 \in Seq(Call) /\ M5 \in Seq(Call) /\ M6 \in Seq(Call)
    BY PartFacts
  <2>1. set_mic = t6
    BY DEF set_mic, M1, M2, M3, M4, M5, M6
  <2>2. t2 \in Seq(Call) /\ Of(t2) = Of(M1) \union Of(M2)
    BY <2>0, OfConcat
  <2> HIDE DEF t2
  <2>3. t3 \in Seq(Call) /\ Of(t3) = Of(t2) \union Of(M3)
    BY <2>0, <2>2, OfConcat
  <2> HIDE DEF t3
  <2>4. t4 \in Seq(Call) /\ Of(t4) = Of(t3) \union Of(M4)
    BY <2>0, <2>3, OfConcat
  <2> HIDE DEF t4
  <2>5. t5 \in Seq(Call) /\ Of(t5) = Of(t4) \union Of(M5)
    BY <2>0, <2>4, OfConcat
  <2> HIDE DEF t5
  <2>6. t6 \in Seq(Call) /\ Of(t6) = Of(t5) \union Of(M6)
    BY <2>0, <2>5, OfConcat
  <2> HIDE DEF t6
  <2>7. ASSUME NEW c \in Controls, In(c, Outs), NEW x \in Of(t6) PROVE x.on # c
    <3>1. ~In(c, Mics) /\ ~In(c, Boosts) /\ ~In(c, Caps)
      BY <2>7, Lists
    <3>2. x \in Of(M1) \union Of(M2) \union Of(M3) \union Of(M4) \union Of(M5) \union Of(M6)
      BY <2>2, <2>3, <2>4, <2>5, <2>6, <2>7
    <3> QED BY <3>1, <3>2, PartFacts DEF To, In
  <2> QED BY <2>1, <2>6, <2>7
<1>7. CASE s = "startrtp-recv"
  <2>1. RtpScript(s) = a \o set_mute_mic
    BY <1>7 DEF RtpScript
  <2>2. a \o set_mute_mic \in Seq(Call)
    BY <1>1, MuteShape, OfConcat
  <2>3. ASSUME NEW c \in Controls, In(c, Outs) PROVE Goal(s, c) = "loud" /\ Good(a \o set_mute_mic, c, "loud")
    <3>1. \A x \in Of(set_mute_mic) : x.on # c
      BY <2>3, Lists, MuteShape
    <3>2. Goal(s, c) = "loud"
      BY <1>2, <1>7, <2>3 DEF Goal
    <3> QED BY <2>3, <3>1, <3>2, LoudShape, MuteShape
  <2>4. ASSUME NEW c \in Controls, ~In(c, Outs), In(c, Mics) \/ In(c, Caps)
        PROVE  Goal(s, c) = "mute" /\ Good(a \o set_mute_mic, c, "mute")
    <3>1. Goal(s, c) = "mute"
      BY <1>3, <1>4, <1>7, <2>4 DEF Goal
    <3>2. Shape(set_mute_mic, c, "mute") /\ OffCall(c) \in Of(set_mute_mic) /\ \A x \in Of(a) : x.on # c
      BY <1>1, <2>4, MuteShape
    <3>3. Shape(a \o set_mute_mic, c, "mute") /\ OffCall(c) \in Of(a \o set_mute_mic)
      BY <1>1, <3>2, MuteShape, ShapeAfter, OfConcat
    <3> QED BY <1>5, <3>1, <3>3
  <2>5. \A c \in Controls : ~In(c, Outs) /\ ~In(c, Mics) /\ ~In(c, Caps) => Goal(s, c) = "any"
    BY <1>3, <1>4 DEF Goal
  <2> QED BY <2>1, <2>2, <2>3, <2>4, <2>5
<1>8. CASE s = "startrtp-send"
  <2>1. RtpScript(s) = a \o set_mic
    BY <1>8 DEF RtpScript
  <2>2. a \o set_mic \in Seq(Call)
    BY <1>1, <1>6, OfConcat
  <2>3. ASSUME NEW c \in Controls, In(c, Outs) PROVE Goal(s, c) = "loud" /\ Good(a \o set_mic, c, "loud")
    <3>2. Goal(s, c) = "loud"
      BY <1>2, <1>8, <2>3 DEF Goal
    <3> QED BY <1>6, <2>3, <3>2, LoudShape
  <2>4. ASSUME NEW c \in Controls, ~In(c, Outs), In(c, Mics) \/ In(c, Caps)
        PROVE  Goal(s, c) = "live" /\ Good(a \o set_mic, c, "live")
    <3>1. Goal(s, c) = "live"
      BY <1>3, <1>4, <1>8, <2>4 DEF Goal
    <3>2. Shape(set_mic, c, "live") /\ {OnCall(c), LevelCall(c, "live")} \subseteq Of(set_mic) /\ \A x \in Of(a) : x.on # c
      BY <1>1, <2>4, MicShape
    <3>3. Shape(a \o set_mic, c, "live") /\ {OnCall(c), LevelCall(c, "live")} \subseteq Of(a \o set_mic)
      <4>1. Shape(a \o set_mic, c, "live")
        BY <1>1, <1>6, <3>2, ShapeAfter
      <4>2. Of(set_mic) \subseteq Of(a \o set_mic)
        BY <1>1, <1>6, OfConcat
      <4> QED BY <3>2, <4>1, <4>2
    <3> QED BY <3>1, <3>3
  <2>5. \A c \in Controls : ~In(c, Outs) /\ ~In(c, Mics) /\ ~In(c, Caps) => Goal(s, c) = "any"
    BY <1>3, <1>4 DEF Goal
  <2> QED BY <2>1, <2>2, <2>3, <2>4, <2>5
<1>9. CASE s = "stoprtp-send"
  <2>1. RtpScript(s) = set_mute_mic
    BY <1>9 DEF RtpScript
  <2>2. \A c \in Controls : Goal(s, c) = IF In(c, Mics) \/ In(c, Caps) THEN "mute" ELSE "any"
    BY <1>3, <1>9 DEF Goal
  <2> QED BY <1>5, <2>1, <2>2, MuteShape
<1> QED BY <1>7, <1>8, <1>9 DEF RtpSessions

\* What soundctl.sh asks for is one call.
LEMMA SoundFacts == ASSUME NEW t \in SoundScripts
                    PROVE  t \in Seq(Call) /\ Len(t) = 1 /\ Tail(t) = << >> /\ t # << >> /\ Head(t).arg.n \in 0..100
<1>1. \A a \in SoundArgs : a \in Args
  <2>1. \A w \in Numbers \union {"on", "off"} : \A n \in 0..100 : Arg(w, n) \in Args
    BY DEF Arg, Args, Numbers
  <2>2. OnOff("on") \in Args /\ OnOff("off") \in Args
    BY <2>1 DEF OnOff
  <2> QED BY <2>1, <2>2 DEF SoundArgs
<1>2. \A c \in Asked : c \in Controls
  BY ControlAssumption
<1>3. PICK x \in Call : t = <<x>>
  <2>1. CASE t \in {<<Sget(c)>> : c \in Asked}
    BY <1>2, <2>1 DEF Sget, Call, Args, OnOff, Arg
  <2>2. CASE t \in {<<Sset(r[1], r[2])>> : r \in Requests}
    <3>1. PICK r \in Requests : t = <<Sset(r[1], r[2])>>
      BY <2>2
    <3>2. r[1] \in Controls /\ r[2] \in Args
      BY <1>1, RequestAssumption
    <3> QED BY <3>1, <3>2 DEF Sset, Call
  <2> QED BY <2>1, <2>2 DEF SoundScripts
<1>4. x.arg.n \in 0..100
  BY DEF Call, Args
<1> QED BY <1>3, <1>4

LEMMA TailFacts ==
    ASSUME NEW t \in Seq(Call), t # << >>
    PROVE  /\ Tail(t) \in Seq(Call) /\ Head(t) \in Call /\ Head(t) = t[1] /\ 1 \in DOMAIN t
           /\ \A i \in DOMAIN Tail(t) : i + 1 \in DOMAIN t /\ Tail(t)[i] = t[i + 1]
           /\ \A i \in DOMAIN t : i # 1 => i - 1 \in DOMAIN Tail(t) /\ Tail(t)[i - 1] = t[i]
           /\ Of(Tail(t)) \subseteq Of(t)
           /\ Of(t) = Of(Tail(t)) \union {Head(t)}
<1>1. /\ Tail(t) \in Seq(Call) /\ Len(Tail(t)) = Len(t) - 1 /\ Len(t) \in Nat /\ Len(t) >= 1
      /\ \A i \in 1..Len(Tail(t)) : Tail(t)[i] = t[i + 1]
      /\ Head(t) = t[1]
  BY HeadTailProperties, EmptySeq, LenProperties
<1>2. DOMAIN t = 1..Len(t) /\ DOMAIN Tail(t) = 1..(Len(t) - 1)
  BY <1>1, LenProperties
<1> DEFINE s == Tail(t)
<1>3. s \in Seq(Call) /\ \A i \in 1..(Len(t) - 1) : s[i] = t[i + 1]
  BY <1>1
<1>4. DOMAIN s = 1..(Len(t) - 1)
  BY <1>2
<1> HIDE DEF s
<1>5. \A i \in DOMAIN s : i + 1 \in DOMAIN t /\ s[i] = t[i + 1]
  BY <1>1, <1>2, <1>3, <1>4
<1>6. \A i \in DOMAIN t : i # 1 => i - 1 \in DOMAIN s /\ s[i - 1] = t[i]
  <2> TAKE i \in DOMAIN t
  <2> SUFFICES ASSUME i # 1 PROVE i - 1 \in DOMAIN s /\ s[i - 1] = t[i]
    OBVIOUS
  <2>1. i - 1 \in 1..(Len(t) - 1) /\ (i - 1) + 1 = i
    BY <1>1, <1>2
  <2> QED BY <1>3, <1>4, <2>1
<1>7. 1 \in DOMAIN t /\ t[1] \in Call
  BY <1>1, <1>2
<1>8. Of(s) \subseteq Of(t)
  BY <1>5 DEF Of
<1>9. Of(t) = Of(s) \union {t[1]}
  BY <1>6, <1>7, <1>8 DEF Of
<1> QED BY <1>1, <1>3, <1>5, <1>6, <1>7, <1>8, <1>9 DEF s

\* The shape of what is left of a script once its next call is done.
LEMMA ShapeTail ==
    ASSUME NEW t \in Seq(Call), t # << >>, NEW c, NEW g, Shape(t, c, g)
    PROVE  Shape(Tail(t), c, g)
<1> DEFINE s == Tail(t)
<1>1. /\ \A i \in DOMAIN s : i + 1 \in DOMAIN t /\ s[i] = t[i + 1]
      /\ \A i \in DOMAIN t : i # 1 => i - 1 \in DOMAIN s /\ s[i - 1] = t[i]
      /\ Of(s) \subseteq Of(t) /\ DOMAIN s \subseteq Nat /\ 1 \in DOMAIN t /\ DOMAIN t \subseteq Nat \ {0}
      /\ s \in Seq(Call)
  BY TailFacts, LenProperties
<1> HIDE DEF s
<1>2. \A X, Y : NoneAfter(t, X, Y) => NoneAfter(s, X, Y)
  <2> TAKE X, Y
  <2> SUFFICES ASSUME NoneAfter(t, X, Y), NEW i \in DOMAIN s, NEW j \in DOMAIN s, i < j, s[i] \in Y, s[j] \in X
               PROVE  FALSE
    BY DEF NoneAfter
  <2>1. i + 1 < j + 1 /\ i + 1 \in DOMAIN t /\ j + 1 \in DOMAIN t
    BY <1>1
  <2> QED BY <1>1, <2>1 DEF NoneAfter
<1>3. ASSUME g \in Wants, OnCall(c) \in Of(s) PROVE LevelCall(c, g) \in Of(s)
  <2>1. PICK i \in DOMAIN s : s[i] = OnCall(c)
    BY <1>3 DEF Of
  <2>2. LevelCall(c, g) \in Of(t)
    BY <1>1, <1>3 DEF Shape
  <2>3. PICK j \in DOMAIN t : t[j] = LevelCall(c, g)
    BY <2>2 DEF Of
  <2>4. j # 1
    <3> SUFFICES ASSUME j = 1 PROVE FALSE
      OBVIOUS
    <3>1. 1 < i + 1 /\ i + 1 \in DOMAIN t /\ t[i + 1] = OnCall(c)
      BY <1>1, <2>1, LenProperties
    <3>2. NoneAfter(t, {OnCall(c)}, {LevelCall(c, g)})
      BY <1>3 DEF Shape
    <3> QED BY <2>3, <3>1, <3>2 DEF NoneAfter
  <2> QED BY <1>1, <2>3, <2>4 DEF Of
<1> QED BY <1>1, <1>2, <1>3 DEF Shape, s

----------------------------------------------------------------------------
(* The types, and what each session still has to do. *)

Chan       == [level : 0..Top, on : BOOLEAN]
Element(c) == [DOMAIN Channels[c] -> Chan]

\* What the call under way has come to.
CallOK(p) ==
    /\ next[p] = 0 => snap[p] = NoSnap
    /\ next[p] # 0 => /\ todo[p] # << >> /\ HasDriver(Cmd(p).on) /\ Cmd(p).do # "sget"
                      /\ driver = "oss" => next[p] = 2 /\ snap[p] = NoSnap
                      /\ driver = "alsa" => /\ next[p] \in DOMAIN Channels[Cmd(p).on]
                                            /\ snap[p] \in Element(Cmd(p).on)

\* What tmixer answers: a percentage, or none.
Answers == (0..100) \union {NoLevel}

SessionOK(p) ==
    /\ session[p] = "none" => todo[p] = << >> /\ spoiled[p] = {}
    /\ session[p] = "soundctl" => todo[p] = << >> \/ todo[p] \in SoundScripts
    /\ CallOK(p)

Types == /\ driver \in Drivers /\ driver \in {"alsa", "oss", "none"}
         /\ mix = [c \in Controls |-> mix[c]] /\ \A c \in Controls : mix[c] \in Element(c)
         /\ session \in [Slots -> RtpSessions \union {"none", "soundctl"}]
         /\ todo \in [Slots -> Seq(Call)]
         /\ known \in [Slots -> [Outputs -> 0..100]]
         /\ snap = [p \in Slots |-> snap[p]] /\ next \in [Slots -> Nat]
         /\ shown = [p \in Slots |-> shown[p]] /\ \A p \in Slots : shown[p].level \in Answers
         /\ spoiled \in [Slots -> SUBSET Controls]
         /\ kept \in [Controls -> Goals]

Inv == Types /\ \A p \in Slots : SessionOK(p)

LEMMA TopType == Top \in Nat \ {0}
BY LevelAssumption DEF Top, OSSMAXLEVEL

LEMMA ChannelFacts ==
    ASSUME NEW c \in Controls
    PROVE  /\ Channels[c] \in Seq({"left", "right", "capture"})
           /\ Len(Channels[c]) \in Nat \ {0} /\ DOMAIN Channels[c] = 1..Len(Channels[c])
           /\ 1 \in DOMAIN Channels[c]
<1>1. Channels[c] \in Seq({"left", "right", "capture"}) /\ Channels[c] # << >>
  BY ControlAssumption
<1> QED BY <1>1, EmptySeq, LenProperties

LEMMA ShownType ==
    ASSUME NEW c \in Controls, NEW e \in Element(c)
    PROVE  /\ Shown(c, e).level \in Answers
           /\ Prints(c) => Shown(c, e).level = Percent(e[1].level, Top) /\ Shown(c, e).level \in 0..100
           /\ ~Prints(c) => Shown(c, e).level = NoLevel
<1>1. e[1].level \in 0..Top
  BY ChannelFacts DEF Element, Chan
<1>2. Percent(e[1].level, Top) \in 0..100
  BY <1>1, TopType, PercentType
<1>3. Shown(c, e).level = IF Prints(c) THEN Percent(e[1].level, Top) ELSE NoLevel
  BY DEF Shown
<1> QED BY <1>2, <1>3 DEF Answers

\* The level of an output is always printed: rtp-controller.sh goes by it.
LEMMA OutPrints == ASSUME NEW c \in Outputs PROVE Prints(c)
<1>1. c \in Controls /\ Channels[c][1] = "left"
  BY ControlAssumption DEF Outputs
<1>2. Channels[c] # <<"capture">>
  BY <1>1
<1> QED BY <1>2 DEF Prints

LEMMA ElementSeq ==
    ASSUME NEW c \in Controls, NEW e \in Element(c)
    PROVE  Len(e) = Len(Channels[c]) /\ DOMAIN e = DOMAIN Channels[c] /\ e[1] \in Chan
<1>1. e \in [1..Len(Channels[c]) -> Chan] /\ Len(Channels[c]) \in Nat
  BY ChannelFacts DEF Element
<1>2. e \in Seq(Chan)
  BY <1>1, SeqDef
<1> QED BY <1>1, <1>2, ChannelFacts, LenProperties DEF Element

\* What is written to a channel.
LEMMA NewChannelType ==
    ASSUME driver = "alsa", NEW c, NEW k, NEW ch \in Chan, NEW a \in Args
    PROVE  /\ NewChannel(c, k, ch, a) \in Chan
           /\ a.word = "%" => NewChannel(c, k, ch, a).level = Raw(a.n, AlsaMax)
<1>1. AlsaMax \in Nat \ {0} /\ Top = AlsaMax /\ ch.level \in 0..AlsaMax /\ ch.on \in BOOLEAN /\ a.n \in 0..100
  <2>1. AlsaMax \in Nat \ {0}
    BY LevelAssumption
  <2>2. Top = AlsaMax
    BY Zenon DEF Top
  <2> QED BY <2>1, <2>2 DEF Chan, Args
<1>2. Raw(a.n, AlsaMax) \in 0..AlsaMax
  BY <1>1, RawType
<1> DEFINE l == ch.level  n == a.n  w == a.word  r == Raw(n, AlsaMax)
<1>a. \A x \in Int : Clamp(x, AlsaMax) \in 0..AlsaMax /\ (x \in 0..AlsaMax => Clamp(x, AlsaMax) = x)
  BY <1>1 DEF Clamp
<1> DEFINE val == IF w # "raw" \/ In("left", Channels[c]) THEN r ELSE n
<1>b. NewLevel(c, l, a) = Clamp(CASE w = "+%" -> l + val [] w = "-%" -> l - val [] OTHER -> val, AlsaMax)
  BY Zenon DEF NewLevel
<1>c. l \in Int /\ val \in Int /\ r \in 0..AlsaMax /\ (w = "%" => val = r)
  BY <1>1, <1>2
<1> HIDE DEF l, n, w, r, val
<1>3. NewLevel(c, l, a) \in 0..AlsaMax
  <2>1. (CASE w = "+%" -> l + val [] w = "-%" -> l - val [] OTHER -> val) \in Int
    BY <1>c
  <2> QED BY <1>a, <1>b, <2>1
<1>3a. w = "%" => NewLevel(c, l, a) = r
  BY <1>1, <1>a, <1>b, <1>c
<1> USE DEF l, n, w, r
<1>4. a.word = "%" => NewLevel(c, ch.level, a) = Raw(a.n, AlsaMax) /\ a.word \in Numbers
  BY <1>3a DEF Numbers
<1>5. a.word \in Numbers => NewChannel(c, k, ch, a) = [ch EXCEPT !.level = NewLevel(c, ch.level, a)]
  BY DEF NewChannel
<1>6. a.word \notin Numbers => \/ NewChannel(c, k, ch, a) = ch
                               \/ NewChannel(c, k, ch, a) = [ch EXCEPT !.on = a.word \in {"on", "cap"}]
  BY DEF NewChannel
<1>7. CASE a.word \in Numbers
  BY <1>1, <1>3, <1>4, <1>5, <1>7 DEF Chan
<1>8. CASE a.word \notin Numbers
  <2>1. ch \in [level : 0..Top, on : BOOLEAN] /\ (a.word \in {"on", "cap"}) \in BOOLEAN
    BY DEF Chan
  <2>2. [ch EXCEPT !.on = a.word \in {"on", "cap"}] \in Chan
    BY <2>1, Zenon DEF Chan
  <2> QED BY <1>4, <1>6, <1>8, <2>2
<1> QED BY <1>7, <1>8

LEMMA InitInv == Init => Inv
<1> SUFFICES ASSUME Init PROVE Inv
  OBVIOUS
<1>1. driver \in Drivers /\ driver \in {"alsa", "oss", "none"}
  BY DEF Init, Detect
<1>2. 0 \in 0..Top
  BY TopType
<1>3. \A c \in Controls : Silent(c) \in Element(c)
  BY <1>2 DEF Silent, Element, Chan
<1>4. known \in [Slots -> [Outputs -> 0..100]]
  BY DEF Init, VOLUME
<1>5. << >> \in Seq(Call)
  BY EmptySeq
<1>6. Types
  <2>1. mix = [c \in Controls |-> mix[c]] /\ \A c \in Controls : mix[c] \in Element(c)
    BY <1>3 DEF Init
  <2>2. session \in [Slots -> RtpSessions \union {"none", "soundctl"}] /\ todo \in [Slots -> Seq(Call)]
    BY <1>5 DEF Init
  <2>3. snap = [p \in Slots |-> snap[p]] /\ next \in [Slots -> Nat]
    BY DEF Init
  <2>4. shown = [p \in Slots |-> shown[p]] /\ \A p \in Slots : shown[p].level \in Answers
    BY DEF Init, Unknow, Answers
  <2>5. spoiled \in [Slots -> SUBSET Controls] /\ kept \in [Controls -> Goals]
    BY DEF Init, Goals
  <2> QED BY <1>1, <1>4, <2>1, <2>2, <2>3, <2>4, <2>5 DEF Types
<1>7. \A p \in Slots : session[p] = "none" /\ todo[p] = << >> /\ spoiled[p] = {} /\ next[p] = 0 /\ snap[p] = NoSnap
  BY DEF Init
<1>8. \A p \in Slots : SessionOK(p)
  BY <1>7 DEF SessionOK, CallOK
<1> QED BY <1>6, <1>8 DEF Inv

LEMMA TopSame == ASSUME driver' = driver PROVE Top' = Top
BY DEF Top

LEMMA ElementSame == ASSUME driver' = driver, NEW c PROVE Element(c)' = Element(c)
BY TopSame DEF Element, Chan

LEMMA HasSame == ASSUME driver' = driver, NEW c PROVE HasDriver(c)' = HasDriver(c)
BY DEF HasDriver

\* A session that has something left is running.
LEMMA RunFacts ==
    ASSUME Inv, NEW p \in Slots, todo[p] # << >>
    PROVE  /\ session[p] # "none" /\ todo[p] \in Seq(Call) /\ Cmd(p) \in Call /\ Cmd(p).on \in Controls
           /\ Cmd(p).arg \in Args /\ Cmd(p).arg.n \in 0..100
           /\ session[p] = "soundctl" => Tail(todo[p]) = << >>
           /\ Tail(todo[p]) \in Seq(Call)
<1>1. SessionOK(p) /\ todo[p] \in Seq(Call)
  BY DEF Inv, Types
<1>2. Cmd(p) \in Call /\ Tail(todo[p]) \in Seq(Call)
  BY <1>1, TailFacts DEF Cmd
<1>3. session[p] = "soundctl" => Tail(todo[p]) = << >>
  BY <1>1, SoundFacts DEF SessionOK
<1> QED BY <1>1, <1>2, <1>3 DEF SessionOK, Call, Args

LEMMA CallDoneType ==
    ASSUME Inv, NEW p \in Slots, todo[p] # << >>, NEW answer, answer.level \in Answers,
           CallDone(p, answer), driver' = driver, session' = session,
           \A q \in Slots : session[q] = "none" => spoiled'[q] = {}
    PROVE  /\ todo' \in [Slots -> Seq(Call)]
           /\ snap' = [q \in Slots |-> snap'[q]] /\ next' \in [Slots -> Nat]
           /\ shown' = [q \in Slots |-> shown'[q]] /\ \A q \in Slots : shown'[q].level \in Answers
           /\ \A q \in Slots : SessionOK(q)'
<1> USE DEF CallDone
<1>1. /\ todo \in [Slots -> Seq(Call)] /\ snap = [q \in Slots |-> snap[q]] /\ next \in [Slots -> Nat]
      /\ shown = [q \in Slots |-> shown[q]] /\ \A q \in Slots : shown[q].level \in Answers
  BY DEF Inv, Types
<1>2. Tail(todo[p]) \in Seq(Call) /\ session[p] # "none" /\ (session[p] = "soundctl" => Tail(todo[p]) = << >>)
  BY RunFacts
<1>3. todo' \in [Slots -> Seq(Call)] /\ snap' = [q \in Slots |-> snap'[q]] /\ next' \in [Slots -> Nat]
  BY <1>1, <1>2
<1>4. shown' = [q \in Slots |-> shown'[q]] /\ \A q \in Slots : shown'[q].level \in Answers
  BY <1>1
<1>5. todo'[p] = Tail(todo[p]) /\ snap'[p] = NoSnap /\ next'[p] = 0
  BY <1>1
<1>6. SessionOK(p)'
  BY <1>2, <1>5 DEF SessionOK, CallOK
<1>7. ASSUME NEW q \in Slots, q # p PROVE SessionOK(q)'
  <2>1. SessionOK(q) /\ todo'[q] = todo[q] /\ snap'[q] = snap[q] /\ next'[q] = next[q]
    BY <1>1, <1>7 DEF Inv
  <2>2. Cmd(q)' = Cmd(q) /\ \A c : HasDriver(c)' = HasDriver(c) /\ Element(c)' = Element(c)
    BY <2>1, HasSame, ElementSame DEF Cmd
  <2> QED BY <2>1, <2>2 DEF SessionOK, CallOK
<1> QED BY <1>3, <1>4, <1>6, <1>7

LEMMA BeginInv == ASSUME Inv, NEW p \in Slots, Soundctl(p) \/ RtpController(p) PROVE Inv'
<1>1. PICK s \in RtpSessions \union {"soundctl"}, calls \in Seq(Call) :
          Begin(p, s, calls) /\ (s = "soundctl" => calls \in SoundScripts)
  <2>1. CASE Soundctl(p)
    <3>1. PICK calls \in SoundScripts : Begin(p, "soundctl", calls)
      BY <2>1 DEF Soundctl
    <3> QED BY <3>1, SoundFacts
  <2>2. CASE RtpController(p)
    <3>1. PICK s \in RtpSessions : Begin(p, s, RtpScript(s))
      BY <2>2 DEF RtpController
    <3>2. RtpScript(s) \in Seq(Call) /\ s # "soundctl"
      BY ScriptShape DEF RtpSessions
    <3> QED BY <3>1, <3>2
  <2> QED BY <2>1, <2>2
<1> USE DEF Begin
<1>2. s # "none"
  BY DEF RtpSessions
<1>3. Types /\ \A q \in Slots : SessionOK(q)
  BY DEF Inv
<1>4. next[p] = 0
  BY <1>1, <1>3 DEF SessionOK, CallOK
<1>5. /\ session' \in [Slots -> RtpSessions \union {"none", "soundctl"}] /\ todo' \in [Slots -> Seq(Call)]
      /\ session'[p] = s /\ todo'[p] = calls
      /\ \A q \in Slots : q # p => session'[q] = session[q] /\ todo'[q] = todo[q]
  BY <1>1, <1>3 DEF Types
<1>6. Types'
  <2>1. \A c : Element(c)' = Element(c)
    BY <1>1, ElementSame
  <2> QED BY <1>1, <1>3, <1>5, <2>1 DEF Types
<1>7. SessionOK(p)'
  BY <1>1, <1>2, <1>3, <1>4, <1>5 DEF SessionOK, CallOK
<1>8. ASSUME NEW q \in Slots, q # p PROVE SessionOK(q)'
  <2>1. Cmd(q)' = Cmd(q) /\ \A c : HasDriver(c)' = HasDriver(c) /\ Element(c)' = Element(c)
    BY <1>1, <1>5, <1>8, HasSame, ElementSame DEF Cmd
  <2> QED BY <1>1, <1>3, <1>5, <1>8, <2>1 DEF SessionOK, CallOK
<1> QED BY <1>6, <1>7, <1>8 DEF Inv

LEMMA ReadInv ==
    ASSUME Inv, NEW p \in Slots, NoControl(p) \/ ReadLevel(p) \/ LoudEnough(p) \/ OssShow(p)
    PROVE  Inv'
<1>0. Types /\ \A q \in Slots : SessionOK(q)
  BY DEF Inv
<1>1. /\ todo[p] # << >> /\ driver' = driver /\ mix' = mix /\ session' = session /\ spoiled' = spoiled /\ kept' = kept
  BY <1>0 DEF NoControl, ReadLevel, LoudEnough, OssShow, Calls, SessionOK, CallOK
<1>2. Cmd(p).on \in Controls
  BY <1>1, RunFacts
<1>3. /\ Shown(Cmd(p).on, mix[Cmd(p).on]).level \in Answers
      /\ Cmd(p).on \in Outputs => Shown(Cmd(p).on, mix[Cmd(p).on]).level \in 0..100
  BY <1>0, <1>2, ShownType, OutPrints DEF Types
<1>4. PICK answer : CallDone(p, answer) /\ answer.level \in Answers
  <2>1. Unknow.level \in Answers
    BY DEF Unknow, Answers
  <2>2. shown[p].level \in Answers
    BY <1>0 DEF Types
  <2> QED BY <1>3, <2>1, <2>2 DEF NoControl, ReadLevel, LoudEnough, OssShow
<1>5. known' \in [Slots -> [Outputs -> 0..100]]
  <2>1. known \in [Slots -> [Outputs -> 0..100]]
    BY <1>0 DEF Types
  <2>2. VOLUME \in 0..100
    BY DEF VOLUME
  <2>3. known' = known \/ \E n \in 0..100 : known' = [known EXCEPT ![p][Cmd(p).on] = n]
    BY <1>3, <2>2 DEF NoControl, ReadLevel, LoudEnough, OssShow
  <2> QED BY <2>1, <2>3
<1>6. \A q \in Slots : session[q] = "none" => spoiled'[q] = {}
  BY <1>0, <1>1 DEF SessionOK
<1>7. /\ todo' \in [Slots -> Seq(Call)]
      /\ snap' = [q \in Slots |-> snap'[q]] /\ next' \in [Slots -> Nat]
      /\ shown' = [q \in Slots |-> shown'[q]] /\ \A q \in Slots : shown'[q].level \in Answers
      /\ \A q \in Slots : SessionOK(q)'
  BY <1>1, <1>4, <1>6, CallDoneType
<1>8. \A c : Element(c)' = Element(c)
  BY <1>1, ElementSame
<1> QED BY <1>0, <1>1, <1>5, <1>7, <1>8 DEF Types, Inv

----------------------------------------------------------------------------
(* What a step does to the history of a control. *)

Needs(p, q, c) == IF Goal(session[q], c) = "any" THEN next[q] # 0 /\ Cmd(q).on = c
                  ELSE Goal(session[q], c) # Aim(p, c)
                       \/ (Goal(session[q], c) \in {"loud", "live"} /\ Fragile(c))

LEMMA GoalAny == \A c : Goal("none", c) = "any" /\ Goal("soundctl", c) = "any"
BY DEF Goal

\* What a step that writes c does to the history.
LEMMA WroteFacts ==
    ASSUME Inv, NEW p \in Slots, NEW c \in Controls, Wrote(p, c)
    PROVE  /\ spoiled' \in [Slots -> SUBSET Controls] /\ kept' \in [Controls -> Goals]
           /\ \A q \in Slots : spoiled'[q] = IF mix'[c] # mix[c] /\ q # p /\ Needs(p, q, c)
                                             THEN spoiled[q] \union {c} ELSE spoiled[q]
           /\ \A q \in Slots : session[q] = "none" => spoiled'[q] = {}
           /\ \A d \in Controls : kept'[d] = IF d = c /\ mix'[c] # mix[c] /\ Aim(p, c) # kept[c]
                                             THEN "any" ELSE kept[d]
<1>1. /\ spoiled \in [Slots -> SUBSET Controls] /\ kept \in [Controls -> Goals]
      /\ \A q \in Slots : session[q] = "none" => spoiled[q] = {} /\ next[q] = 0
  BY DEF Inv, Types, SessionOK, CallOK
<1>2. CASE mix'[c] = mix[c]
  BY <1>1, <1>2 DEF Wrote
<1>3. CASE mix'[c] # mix[c]
  <2>1. /\ spoiled' = [q \in Slots |-> IF q # p /\ Needs(p, q, c) THEN spoiled[q] \union {c} ELSE spoiled[q]]
        /\ kept'    = IF Aim(p, c) = kept[c] THEN kept ELSE [kept EXCEPT ![c] = "any"]
    BY <1>3 DEF Wrote, Needs
  <2>2. spoiled' \in [Slots -> SUBSET Controls]
    BY <1>1, <2>1
  <2>3. kept' \in [Controls -> Goals] /\ \A d \in Controls : kept'[d] = IF d = c /\ Aim(p, c) # kept[c] THEN "any" ELSE kept[d]
    BY <1>1, <2>1 DEF Goals
  <2>4. \A q \in Slots : spoiled'[q] = IF q # p /\ Needs(p, q, c) THEN spoiled[q] \union {c} ELSE spoiled[q]
    BY <2>1
  <2>5. \A q \in Slots : session[q] = "none" => ~Needs(p, q, c)
    BY <1>1, GoalAny DEF Needs
  <2>6. \A q \in Slots : session[q] = "none" => spoiled'[q] = {}
    BY <1>1, <2>4, <2>5
  <2> QED BY <1>3, <2>2, <2>3, <2>4, <2>6
<1> QED BY <1>2, <1>3

LEMMA LoadInv == ASSUME Inv, NEW p \in Slots, Load(p) PROVE Inv'
<1> USE DEF Load
<1>0. Types /\ \A q \in Slots : SessionOK(q)
  BY DEF Inv
<1>1. /\ driver = "alsa" /\ driver' = driver /\ todo[p] # << >> /\ HasDriver(Cmd(p).on) /\ Cmd(p).do # "sget"
      /\ Cmd(p).on \in Controls
  <2>1. Calls(p, "sset") \/ Calls(p, "raise")
    BY DEF Sets
  <2>2. todo[p] # << >> /\ HasDriver(Cmd(p).on) /\ Cmd(p).do # "sget"
    BY <2>1 DEF Calls
  <2> QED BY <2>2, RunFacts
<1>2. \A q \in Slots : Cmd(q)' = Cmd(q)
  BY DEF Cmd
<1>3. \A c : HasDriver(c)' = HasDriver(c) /\ Element(c)' = Element(c)
  BY <1>1, HasSame, ElementSame
<1>4. /\ snap' = [q \in Slots |-> snap'[q]] /\ next' \in [Slots -> Nat]
      /\ snap'[p] = mix[Cmd(p).on] /\ next'[p] = 1
      /\ \A q \in Slots : q # p => snap'[q] = snap[q] /\ next'[q] = next[q]
  BY <1>0 DEF Types
<1>5. Types'
  BY <1>0, <1>3, <1>4 DEF Types
<1>6. SessionOK(p)'
  <2>1. 1 \in DOMAIN Channels[Cmd(p).on] /\ mix[Cmd(p).on] \in Element(Cmd(p).on)
    BY <1>0, <1>1, ChannelFacts DEF Types
  <2> QED BY <1>0, <1>1, <1>2, <1>3, <1>4, <2>1 DEF SessionOK, CallOK
<1>7. ASSUME NEW q \in Slots, q # p PROVE SessionOK(q)'
  BY <1>0, <1>2, <1>3, <1>4, <1>7 DEF SessionOK, CallOK
<1> QED BY <1>5, <1>6, <1>7 DEF Inv

\* What a step of tmixer-alsa makes of its copy and of the card.
LEMMA WriteFacts ==
    ASSUME Inv, NEW p \in Slots, WriteChannel(p)
    PROVE  LET c   == Cmd(p).on
               k   == next[p]
               new == [snap[p] EXCEPT ![k] = NewChannel(c, k, snap[p][k], Cmd(p).arg)]
           IN  /\ driver = "alsa" /\ HasDriver(c) /\ c \in Controls /\ todo[p] # << >> /\ Cmd(p).do # "sget"
               /\ k \in DOMAIN Channels[c] /\ snap[p] \in Element(c) /\ new \in Element(c)
               /\ driver' = driver /\ session' = session /\ known' = known
               /\ Wrote(p, c)
               /\ \A d \in Controls : mix'[d] = IF d = c /\ new # snap[p] THEN new ELSE mix[d]
               /\ mix' = [d \in Controls |-> mix'[d]]
               /\ IF k = Len(Channels[c])
                  THEN \E answer : /\ CallDone(p, answer) /\ answer.level \in Answers
                                   /\ Cmd(p).arg.word \in Numbers =>
                                          answer.level = IF Prints(c) THEN Percent(new[1].level, AlsaMax) ELSE NoLevel
                  ELSE /\ snap' = [snap EXCEPT ![p] = new] /\ next' = [next EXCEPT ![p] = k + 1]
                       /\ todo' = todo /\ shown' = shown
<1> DEFINE c   == Cmd(p).on
           k   == next[p]
           new == [snap[p] EXCEPT ![k] = NewChannel(c, k, snap[p][k], Cmd(p).arg)]
<1>0. Types /\ SessionOK(p)
  BY DEF Inv
<1>1. driver = "alsa" /\ k # 0
  BY DEF WriteChannel
<1>2. /\ todo[p] # << >> /\ HasDriver(c) /\ k \in DOMAIN Channels[c] /\ snap[p] \in Element(c) /\ Cmd(p).do # "sget"
  BY <1>0, <1>1 DEF SessionOK, CallOK
<1>3. c \in Controls /\ Cmd(p).arg \in Args
  BY <1>2, RunFacts
<1>4. new \in Element(c)
  <2>1. snap[p][k] \in Chan
    BY <1>2 DEF Element
  <2>2. NewChannel(c, k, snap[p][k], Cmd(p).arg) \in Chan
    BY <1>1, <1>3, <2>1, NewChannelType
  <2> QED BY <1>2, <2>2 DEF Element
<1>5. /\ driver' = driver /\ session' = session /\ known' = known /\ Wrote(p, c) /\ CacheWrite(c, snap[p], new)
      /\ IF k = Len(new)
         THEN CallDone(p, IF Valid(c, Cmd(p).arg) THEN Shown(c, new) ELSE Unknow)
         ELSE /\ snap' = [snap EXCEPT ![p] = new]
              /\ next' = [next EXCEPT ![p] = k + 1]
              /\ UNCHANGED <<todo, shown>>
  BY DEF WriteChannel
<1> HIDE DEF new, c
<1>6. mix = [d \in Controls |-> mix[d]]
  BY <1>0 DEF Types
<1>7. mix' = [d \in Controls |-> mix'[d]] /\ \A d \in Controls : mix'[d] = IF d = c /\ new # snap[p] THEN new ELSE mix[d]
  BY <1>3, <1>5, <1>6 DEF CacheWrite
<1>8. Len(new) = Len(Channels[c])
  BY <1>3, <1>4, ElementSeq
<1>9. k = Len(Channels[c]) =>
          \E answer : /\ CallDone(p, answer) /\ answer.level \in Answers
                      /\ Cmd(p).arg.word \in Numbers =>
                             answer.level = IF Prints(c) THEN Percent(new[1].level, AlsaMax) ELSE NoLevel
  <2>1. /\ Shown(c, new).level = IF Prints(c) THEN Percent(new[1].level, AlsaMax) ELSE NoLevel
        /\ Shown(c, new).level \in Answers
    BY <1>1, <1>3, <1>4, ShownType DEF Top
  <2>2. Unknow.level \in Answers
    BY DEF Unknow, Answers
  <2>3. Cmd(p).arg.word \in Numbers => Valid(c, Cmd(p).arg)
    BY DEF Valid
  <2> QED BY <1>5, <1>8, <2>1, <2>2, <2>3
<1> QED BY <1>1, <1>2, <1>3, <1>4, <1>5, <1>7, <1>8, <1>9 DEF new, c

LEMMA WriteInv == ASSUME Inv, NEW p \in Slots, WriteChannel(p) PROVE Inv'
<1> DEFINE c   == Cmd(p).on
           k   == next[p]
           new == [snap[p] EXCEPT ![k] = NewChannel(c, k, snap[p][k], Cmd(p).arg)]
<1>0. Types /\ \A q \in Slots : SessionOK(q)
  BY DEF Inv
<1>1. /\ driver = "alsa" /\ HasDriver(c) /\ c \in Controls /\ todo[p] # << >> /\ Cmd(p).do # "sget"
      /\ k \in DOMAIN Channels[c] /\ snap[p] \in Element(c) /\ new \in Element(c)
      /\ driver' = driver /\ session' = session /\ known' = known
      /\ Wrote(p, c)
      /\ \A d \in Controls : mix'[d] = IF d = c /\ new # snap[p] THEN new ELSE mix[d]
      /\ mix' = [d \in Controls |-> mix'[d]]
      /\ IF k = Len(Channels[c])
         THEN \E answer : CallDone(p, answer) /\ answer.level \in Answers
         ELSE /\ snap' = [snap EXCEPT ![p] = new] /\ next' = [next EXCEPT ![p] = k + 1]
              /\ todo' = todo /\ shown' = shown
  BY WriteFacts
<1> HIDE DEF new
<1>2. \A d : HasDriver(d)' = HasDriver(d) /\ Element(d)' = Element(d)
  BY <1>1, HasSame, ElementSame
<1>3. /\ spoiled' \in [Slots -> SUBSET Controls] /\ kept' \in [Controls -> Goals]
      /\ \A q \in Slots : session[q] = "none" => spoiled'[q] = {}
  BY <1>1, WroteFacts
<1>4. \A d \in Controls : mix'[d] \in Element(d)'
  BY <1>0, <1>1, <1>2 DEF Types
<1>5. /\ todo' \in [Slots -> Seq(Call)]
      /\ snap' = [q \in Slots |-> snap'[q]] /\ next' \in [Slots -> Nat]
      /\ shown' = [q \in Slots |-> shown'[q]] /\ \A q \in Slots : shown'[q].level \in Answers
      /\ \A q \in Slots : SessionOK(q)'
  <2>1. CASE k = Len(Channels[c])
    BY <1>1, <1>3, <2>1, CallDoneType
  <2>2. CASE k # Len(Channels[c])
    <3>1. /\ k \in Nat /\ k + 1 \in DOMAIN Channels[c] /\ k + 1 # 0
      BY <1>1, <2>2, ChannelFacts
    <3>2. /\ snap' = [q \in Slots |-> snap'[q]] /\ next' \in [Slots -> Nat]
          /\ snap'[p] = new /\ next'[p] = k + 1
          /\ \A q \in Slots : q # p => snap'[q] = snap[q] /\ next'[q] = next[q]
      <4>1. snap = [q \in Slots |-> snap[q]] /\ next \in [Slots -> Nat] /\ k + 1 \in Nat
        BY <1>0, <3>1 DEF Types
      <4>2. snap' = [snap EXCEPT ![p] = new] /\ next' = [next EXCEPT ![p] = k + 1]
        BY <1>1, <2>2
      <4> HIDE DEF k, c
      <4>3. next' \in [Slots -> Nat] /\ next'[p] = k + 1 /\ \A q \in Slots : q # p => next'[q] = next[q]
        BY <4>1, <4>2
      <4>4. snap' = [q \in Slots |-> snap'[q]] /\ snap'[p] = new /\ \A q \in Slots : q # p => snap'[q] = snap[q]
        BY <4>1, <4>2
      <4> QED BY <4>3, <4>4
    <3>3. todo' = todo /\ shown' = shown /\ \A q \in Slots : Cmd(q)' = Cmd(q)
      BY <1>1, <2>2 DEF Cmd
    <3>4. SessionOK(p)'
      <4>1. /\ session'[p] = session[p] /\ (session[p] = "none" => spoiled'[p] = {})
            /\ (session[p] = "none" => todo[p] = << >>)
            /\ (session[p] = "soundctl" => todo[p] = << >> \/ todo[p] \in SoundScripts)
        BY <1>0, <1>1, <1>3 DEF SessionOK
      <4>2. CallOK(p)'
        BY <1>1, <1>2, <3>1, <3>2, <3>3 DEF CallOK
      <4> QED BY <3>3, <4>1, <4>2 DEF SessionOK
    <3>5. ASSUME NEW q \in Slots, q # p PROVE SessionOK(q)'
      BY <1>0, <1>1, <1>2, <1>3, <3>2, <3>3, <3>5 DEF SessionOK, CallOK
    <3> QED BY <1>0, <3>2, <3>3, <3>4, <3>5 DEF Types
  <2> QED BY <2>1, <2>2
<1> QED BY <1>0, <1>1, <1>3, <1>4, <1>5 DEF Types, Inv

----------------------------------------------------------------------------
(* The steps keep the types. *)

\* What a step of tmixer-oss makes of the card.
LEMMA OssFacts ==
    ASSUME Inv, NEW p \in Slots, OssWrite(p)
    PROVE  LET c == Cmd(p).on
               v == OssLevel(Cmd(p).arg)
           IN  /\ driver = "oss" /\ c \in Controls /\ HasDriver(c) /\ todo[p] # << >> /\ Sets(p) /\ next[p] = 0
               /\ Cmd(p).do # "sget" /\ Top = 100
               /\ v \in 0..100 /\ (Cmd(p).arg.word \in Numbers => v = Cmd(p).arg.n)
               /\ mix'[c] \in Element(c)
               /\ mix'[c][1].level = v
               /\ \A k \in DOMAIN Channels[c] : mix'[c][k].on <=> (k = 1 /\ v > 0)
               /\ \A d \in Controls : d # c => mix'[d] = mix[d]
               /\ mix' = [d \in Controls |-> mix'[d]]
               /\ driver' = driver /\ session' = session /\ known' = known /\ todo' = todo /\ snap' = snap /\ shown' = shown
               /\ next' = [next EXCEPT ![p] = 2]
               /\ Wrote(p, c)
<1> DEFINE c == Cmd(p).on
           v == OssLevel(Cmd(p).arg)
           n == Cmd(p).arg.n
           w == Cmd(p).arg.word
           Value(k) == IF k = 1 THEN v ELSE 0
<1>0. Types /\ SessionOK(p)
  BY DEF Inv
<1>1. driver = "oss" /\ Sets(p)
  BY DEF OssWrite
<1>2. todo[p] # << >> /\ HasDriver(c) /\ Cmd(p).do # "sget" /\ next[p] = 0
  BY <1>1 DEF Sets, Calls
<1>3. c \in Controls /\ n \in 0..100
  BY <1>2, RunFacts
<1>4. v \in 0..100 /\ (w \in Numbers => v = n)
  <2>1. \A x \in 0..100 : Clamp(x, 100) = x
    BY DEF Clamp
  <2>2. v = Clamp(CASE w = "off" -> 0 [] w = "on"  -> OSSUNMUTELEVEL [] w \in Numbers -> n [] OTHER -> 0, 100)
    BY DEF OssLevel, OSSMAXLEVEL
  <2> HIDE DEF v, n, w
  <2>3. (CASE w = "off" -> 0 [] w = "on"  -> OSSUNMUTELEVEL [] w \in Numbers -> n [] OTHER -> 0) \in 0..100
    BY <1>3 DEF OSSUNMUTELEVEL
  <2>4. w \in Numbers => (CASE w = "off" -> 0 [] w = "on"  -> OSSUNMUTELEVEL [] w \in Numbers -> n [] OTHER -> 0) = n
    BY DEF Numbers
  <2> QED BY <1>3, <2>1, <2>2, <2>3, <2>4
<1>5. Top = 100 /\ 0 \in 0..100
  BY <1>1 DEF Top, OSSMAXLEVEL
<1>6. /\ mix' = [mix EXCEPT ![c] = [k \in DOMAIN mix[c] |-> [level |-> Value(k), on |-> Value(k) > 0]]]
      /\ driver' = driver /\ session' = session /\ known' = known /\ todo' = todo /\ snap' = snap /\ shown' = shown
      /\ next' = [next EXCEPT ![p] = 2]
      /\ Wrote(p, c)
  BY DEF OssWrite
<1>7. mix = [d \in Controls |-> mix[d]] /\ DOMAIN mix[c] = DOMAIN Channels[c] /\ 1 \in DOMAIN Channels[c]
  BY <1>0, <1>3, ChannelFacts DEF Types, Element
<1> HIDE DEF c, v
<1>8. /\ mix'[c] = [k \in DOMAIN Channels[c] |-> [level |-> Value(k), on |-> Value(k) > 0]]
      /\ \A d \in Controls : d # c => mix'[d] = mix[d]
      /\ mix' = [d \in Controls |-> mix'[d]]
  BY <1>3, <1>6, <1>7
<1>9. \A k : Value(k) \in 0..100 /\ (Value(k) > 0) \in BOOLEAN
  BY <1>4, <1>5
<1>10. mix'[c] \in Element(c)
  BY <1>5, <1>8, <1>9 DEF Element, Chan
<1>11. mix'[c][1].level = v
  BY <1>7, <1>8
<1>12. \A k \in DOMAIN Channels[c] : mix'[c][k].on <=> (k = 1 /\ v > 0)
  <2> TAKE k \in DOMAIN Channels[c]
  <2>1. mix'[c][k].on = (Value(k) > 0)
    BY <1>8
  <2>2. Value(k) > 0 <=> (k = 1 /\ v > 0)
    BY <1>4
  <2> QED BY <2>1, <2>2
<1> QED BY <1>1, <1>2, <1>3, <1>4, <1>5, <1>6, <1>8, <1>10, <1>11, <1>12 DEF c, v

LEMMA OssInv == ASSUME Inv, NEW p \in Slots, OssWrite(p) PROVE Inv'
<1> DEFINE c == Cmd(p).on
<1>0. Types /\ \A q \in Slots : SessionOK(q)
  BY DEF Inv
<1>1. /\ driver = "oss" /\ c \in Controls /\ HasDriver(c) /\ todo[p] # << >> /\ Cmd(p).do # "sget" /\ next[p] = 0
      /\ mix'[c] \in Element(c) /\ (\A d \in Controls : d # c => mix'[d] = mix[d]) /\ mix' = [d \in Controls |-> mix'[d]]
      /\ driver' = driver /\ session' = session /\ known' = known /\ todo' = todo /\ snap' = snap /\ shown' = shown
      /\ next' = [next EXCEPT ![p] = 2]
      /\ Wrote(p, c)
  BY OssFacts
<1>2. /\ spoiled' \in [Slots -> SUBSET Controls] /\ kept' \in [Controls -> Goals]
      /\ \A q \in Slots : session[q] = "none" => spoiled'[q] = {}
  BY <1>1, WroteFacts
<1>3. \A d : HasDriver(d)' = HasDriver(d) /\ Element(d)' = Element(d)
  BY <1>1, HasSame, ElementSame
<1>4. \A d \in Controls : mix'[d] \in Element(d)'
  BY <1>0, <1>1, <1>3 DEF Types
<1>5. next' \in [Slots -> Nat] /\ next'[p] = 2 /\ \A q \in Slots : q # p => next'[q] = next[q]
  BY <1>0, <1>1 DEF Types
<1>6. Types'
  BY <1>0, <1>1, <1>2, <1>4, <1>5 DEF Types
<1>7. \A q \in Slots : Cmd(q)' = Cmd(q)
  BY <1>1 DEF Cmd
<1>8. snap[p] = NoSnap
  BY <1>0, <1>1 DEF SessionOK, CallOK
<1>9. SessionOK(p)'
  BY <1>0, <1>1, <1>2, <1>3, <1>5, <1>7, <1>8 DEF SessionOK, CallOK
<1>10. ASSUME NEW q \in Slots, q # p PROVE SessionOK(q)'
  BY <1>0, <1>1, <1>2, <1>3, <1>5, <1>7, <1>10 DEF SessionOK, CallOK
<1> QED BY <1>6, <1>9, <1>10 DEF Inv

\* The goal of p is reached for c when it ends.
Reached(p, c) == /\ Aim(p, c) # "any" /\ HasDriver(c)
                 /\ \A q \in Slots : next[q] # 0 /\ Cmd(q).on = c => Aim(q, c) = Aim(p, c)

LEMMA EndFacts ==
    ASSUME Inv, NEW p \in Slots, End(p)
    PROVE  /\ session[p] # "none" /\ todo[p] = << >> /\ next[p] = 0
           /\ driver' = driver /\ mix' = mix /\ todo' = todo /\ snap' = snap /\ next' = next
           /\ session' = [session EXCEPT ![p] = "none"] /\ spoiled' = [spoiled EXCEPT ![p] = {}]
           /\ shown' = [shown EXCEPT ![p] = Unknow] /\ known' = [known EXCEPT ![p] = [c \in Outputs |-> VOLUME]]
           /\ kept' = [c \in Controls |-> IF Reached(p, c) THEN Aim(p, c) ELSE kept[c]]
<1>1. SessionOK(p)
  BY DEF Inv
<1> QED BY <1>1 DEF End, Running, Reached, SessionOK, CallOK

LEMMA GoalType == \A s, c : Goal(s, c) \in Goals
BY DEF Goal, Goals

LEMMA AimType == \A p, c : Aim(p, c) \in Goals
BY GoalType DEF Aim, Goals

LEMMA EndInv == ASSUME Inv, NEW p \in Slots, End(p) PROVE Inv'
<1>0. Types /\ \A q \in Slots : SessionOK(q)
  BY DEF Inv
<1>1. /\ session[p] # "none" /\ todo[p] = << >> /\ next[p] = 0
      /\ driver' = driver /\ mix' = mix /\ todo' = todo /\ snap' = snap /\ next' = next
      /\ session' = [session EXCEPT ![p] = "none"] /\ spoiled' = [spoiled EXCEPT ![p] = {}]
      /\ shown' = [shown EXCEPT ![p] = Unknow] /\ known' = [known EXCEPT ![p] = [c \in Outputs |-> VOLUME]]
      /\ kept' = [c \in Controls |-> IF Reached(p, c) THEN Aim(p, c) ELSE kept[c]]
  BY EndFacts
<1>2. \A d : HasDriver(d)' = HasDriver(d) /\ Element(d)' = Element(d)
  BY <1>1, HasSame, ElementSame
<1>3. /\ session' \in [Slots -> RtpSessions \union {"none", "soundctl"}]
      /\ spoiled' \in [Slots -> SUBSET Controls]
      /\ session'[p] = "none" /\ spoiled'[p] = {}
      /\ \A q \in Slots : q # p => session'[q] = session[q] /\ spoiled'[q] = spoiled[q]
  BY <1>0, <1>1 DEF Types
<1>4. known' \in [Slots -> [Outputs -> 0..100]]
  <2>1. known \in [Slots -> [Outputs -> 0..100]] /\ VOLUME \in 0..100
    BY <1>0 DEF Types, VOLUME
  <2>2. [c \in Outputs |-> VOLUME] \in [Outputs -> 0..100]
    BY <2>1
  <2> QED BY <1>1, <2>1, <2>2
<1>5. shown' = [q \in Slots |-> shown'[q]] /\ \A q \in Slots : shown'[q].level \in Answers
  <2>1. shown = [q \in Slots |-> shown[q]] /\ \A q \in Slots : shown[q].level \in Answers
    BY <1>0 DEF Types
  <2>2. shown' = [shown EXCEPT ![p] = Unknow] /\ Unknow.level \in Answers
    BY <1>1 DEF Unknow, Answers
  <2> QED BY <2>1, <2>2
<1>6. kept' \in [Controls -> Goals]
  <2>1. kept \in [Controls -> Goals]
    BY <1>0 DEF Types
  <2> QED BY <1>1, <2>1, AimType
<1>7. Types'
  BY <1>0, <1>1, <1>2, <1>3, <1>4, <1>5, <1>6 DEF Types
<1>8. \A q \in Slots : SessionOK(q)'
  <2> TAKE q \in Slots
  <2>1. Cmd(q)' = Cmd(q) /\ SessionOK(q)
    BY <1>0, <1>1 DEF Cmd
  <2> QED BY <1>1, <1>2, <1>3, <2>1 DEF SessionOK, CallOK
<1> QED BY <1>7, <1>8 DEF Inv

LEMMA InvStep == Inv /\ [Next]_vars => Inv'
<1> SUFFICES ASSUME Inv, [Next]_vars PROVE Inv'
  OBVIOUS
<1>1. CASE UNCHANGED vars
  <2>1. \A c : HasDriver(c)' = HasDriver(c) /\ Element(c)' = Element(c)
    BY <1>1, HasSame, ElementSame DEF vars
  <2>2. \A q \in Slots : Cmd(q)' = Cmd(q)
    BY <1>1 DEF Cmd, vars, procVars
  <2>3. Types'
    BY <1>1, <2>1 DEF Inv, Types, vars, procVars
  <2>4. \A q \in Slots : SessionOK(q)'
    BY <1>1, <2>1, <2>2 DEF Inv, SessionOK, CallOK, vars, procVars
  <2> QED BY <2>3, <2>4 DEF Inv
<1>2. CASE Next
  <2>1. PICK p \in Slots : Soundctl(p) \/ RtpController(p) \/ Run(p)
    BY <1>2 DEF Next
  <2>2. CASE Soundctl(p) \/ RtpController(p)
    BY <2>2, BeginInv
  <2>3. CASE NoControl(p) \/ ReadLevel(p) \/ LoudEnough(p) \/ OssShow(p)
    BY <2>3, ReadInv
  <2>4. CASE Load(p)
    BY <2>4, LoadInv
  <2>5. CASE WriteChannel(p)
    BY <2>5, WriteInv
  <2>6. CASE OssWrite(p)
    BY <2>6, OssInv
  <2>7. CASE End(p)
    BY <2>7, EndInv
  <2> QED BY <2>1, <2>2, <2>3, <2>4, <2>5, <2>6, <2>7 DEF Run
<1> QED BY <1>1, <1>2

LEMMA InvType == Inv => TypeOK
<1> SUFFICES ASSUME Inv PROVE TypeOK
  OBVIOUS
<1>0. Types /\ \A q \in Slots : SessionOK(q)
  BY DEF Inv
<1>1. \A c \in Controls : DOMAIN mix[c] = DOMAIN Channels[c] /\ \A k \in DOMAIN mix[c] : mix[c][k] \in [level : 0..Top, on : BOOLEAN]
  BY <1>0 DEF Types, Element, Chan
<1>2. \A p \in Slots : snap[p] = NoSnap \/ DOMAIN snap[p] = DOMAIN Channels[Cmd(p).on]
  <2> TAKE p \in Slots
  <2>1. driver \in {"alsa", "oss", "none"} /\ SessionOK(p)
    BY <1>0 DEF Types
  <2>2. driver = "none" => next[p] = 0
    BY <2>1 DEF SessionOK, CallOK, HasDriver
  <2> QED BY <2>1, <2>2 DEF SessionOK, CallOK, Element
<1>3. \A p \in Slots : session[p] \in RtpSessions \union {"none", "soundctl"} /\ known[p] \in [Outputs -> 0..100]
  BY <1>0 DEF Types
<1> QED BY <1>0, <1>1, <1>2, <1>3 DEF TypeOK, Types, Answers

\* Types of the card, of the scripts and of what each call of a mixer has read: no level leaves
\* the range of the card and no channel is written that the control lacks, whatever overlaps.
THEOREM TypeCorrect == Spec => []TypeOK
<1>1. Inv /\ [Next]_vars => Inv'
  BY InvStep
<1> QED BY InitInv, <1>1, InvType, PTL DEF Spec

----------------------------------------------------------------------------
(* A console is shown what it asked for. *)

\* What a call that sets a percentage has come to: the copy of tmixer-alsa has it, once the
\* first channel is done, and so has the card in OSS, unless the call was disturbed.
AskedOK(p) ==
    Cmd(p).arg.word = "%" =>
        /\ driver = "alsa" /\ next[p] > 1 => snap[p][1].level = Raw(Cmd(p).arg.n, AlsaMax)
        /\ driver = "oss" /\ next[p] = 2 /\ session[p] = "soundctl" =>
               mix[Cmd(p).on][1].level = Cmd(p).arg.n \/ Cmd(p).on \in spoiled[p]
Asks == \A p \in Slots : AskedOK(p)

LEMMA InitAsks == Init => Asks
BY DEF Init, Asks, AskedOK

LEMMA AskedSame ==
    ASSUME NEW q \in Slots, AskedOK(q), driver' = driver, mix' = mix, session'[q] = session[q], todo'[q] = todo[q],
           snap'[q] = snap[q], next'[q] = next[q], spoiled'[q] = spoiled[q]
    PROVE  AskedOK(q)'
<1>1. Cmd(q)' = Cmd(q)
  BY DEF Cmd
<1> QED BY <1>1 DEF AskedOK

LEMMA AskedIdle == ASSUME NEW q, next'[q] = 0 PROVE AskedOK(q)'
BY DEF AskedOK

\* What CallDone leaves of the sessions.
LEMMA DoneFacts ==
    ASSUME Inv, NEW p \in Slots, NEW answer, CallDone(p, answer)
    PROVE  /\ next'[p] = 0 /\ todo'[p] = Tail(todo[p]) /\ snap'[p] = NoSnap
           /\ shown'[p] = IF session[p] = "soundctl" THEN answer ELSE shown[p]
           /\ \A q \in Slots : q # p => /\ next'[q] = next[q] /\ todo'[q] = todo[q] /\ snap'[q] = snap[q]
                                        /\ shown'[q] = shown[q]
<1>1. /\ todo \in [Slots -> Seq(Call)] /\ next \in [Slots -> Nat] /\ snap = [q \in Slots |-> snap[q]]
      /\ shown = [q \in Slots |-> shown[q]]
  BY DEF Inv, Types
<1>2. /\ todo'  = [todo EXCEPT ![p] = Tail(todo[p])]
      /\ shown' = [shown EXCEPT ![p] = IF session[p] = "soundctl" THEN answer ELSE shown[p]]
      /\ snap'  = [snap EXCEPT ![p] = NoSnap]
      /\ next'  = [next EXCEPT ![p] = 0]
  BY DEF CallDone
<1>3. next'[p] = 0 /\ \A q \in Slots : q # p => next'[q] = next[q]
  BY <1>1, <1>2
<1>4. todo'[p] = Tail(todo[p]) /\ \A q \in Slots : q # p => todo'[q] = todo[q]
  BY <1>1, <1>2
<1>5. snap'[p] = NoSnap /\ \A q \in Slots : q # p => snap'[q] = snap[q]
  BY <1>1, <1>2
<1>6. shown'[p] = (IF session[p] = "soundctl" THEN answer ELSE shown[p]) /\ \A q \in Slots : q # p => shown'[q] = shown[q]
  BY <1>1, <1>2
<1> QED BY <1>3, <1>4, <1>5, <1>6

\* tmixer-alsa: the copy has the level once the first channel is written.
LEMMA NewFirst ==
    ASSUME Inv, NEW p \in Slots, WriteChannel(p), AskedOK(p), Cmd(p).arg.word = "%"
    PROVE  LET k   == next[p]
               new == [snap[p] EXCEPT ![k] = NewChannel(Cmd(p).on, k, snap[p][k], Cmd(p).arg)]
           IN  new[1].level = Raw(Cmd(p).arg.n, AlsaMax)
<1> DEFINE c   == Cmd(p).on
           k   == next[p]
           new == [snap[p] EXCEPT ![k] = NewChannel(c, k, snap[p][k], Cmd(p).arg)]
<1>1. /\ driver = "alsa" /\ c \in Controls /\ todo[p] # << >> /\ k \in DOMAIN Channels[c] /\ snap[p] \in Element(c)
  BY WriteFacts
<1>2. k \in Nat /\ k >= 1 /\ 1 \in DOMAIN snap[p] /\ snap[p][k] \in Chan /\ DOMAIN snap[p] = DOMAIN Channels[c]
  BY <1>1, ChannelFacts DEF Element
<1>3. Cmd(p).arg \in Args
  BY <1>1, RunFacts
<1>4. CASE k = 1
  <2>1. NewChannel(c, k, snap[p][k], Cmd(p).arg).level = Raw(Cmd(p).arg.n, AlsaMax)
    BY <1>1, <1>2, <1>3, NewChannelType
  <2>2. new[1] = NewChannel(c, k, snap[p][k], Cmd(p).arg)
    BY <1>2, <1>4
  <2> QED BY <2>1, <2>2
<1>5. CASE k # 1
  <2>1. new[1] = snap[p][1] /\ k > 1
    BY <1>1, <1>2, <1>5
  <2> QED BY <1>1, <2>1 DEF AskedOK
<1> QED BY <1>4, <1>5

LEMMA AsksStep == Inv /\ Asks /\ [Next]_vars => Asks'
<1> SUFFICES ASSUME Inv, Asks, [Next]_vars, NEW q \in Slots PROVE AskedOK(q)'
  BY DEF Asks
<1>0. AskedOK(q) /\ Types /\ \A r \in Slots : SessionOK(r)
  BY DEF Asks, Inv
<1>1. CASE UNCHANGED vars
  BY <1>0, <1>1, AskedSame DEF vars, procVars
<1>2. CASE Next
  <2>1. PICK p \in Slots : Soundctl(p) \/ RtpController(p) \/ Run(p)
    BY <1>2 DEF Next
  <2>2. CASE Soundctl(p) \/ RtpController(p)
    <3>1. /\ session[p] = "none" /\ driver' = driver /\ mix' = mix /\ snap' = snap /\ next' = next /\ spoiled' = spoiled
          /\ (q # p => session'[q] = session[q] /\ todo'[q] = todo[q])
      BY <1>0, <2>2 DEF Soundctl, RtpController, Begin, Types
    <3>2. next[p] = 0
      BY <1>0, <3>1 DEF SessionOK, CallOK
    <3> QED BY <1>0, <3>1, <3>2, AskedSame, AskedIdle
  <2>3. CASE NoControl(p) \/ ReadLevel(p) \/ LoudEnough(p) \/ OssShow(p)
    <3>1. /\ driver' = driver /\ mix' = mix /\ session' = session /\ spoiled' = spoiled
          /\ \E answer : CallDone(p, answer)
      BY <2>3 DEF NoControl, ReadLevel, LoudEnough, OssShow
    <3>2. next'[p] = 0 /\ (q # p => next'[q] = next[q] /\ todo'[q] = todo[q] /\ snap'[q] = snap[q])
      BY <3>1, DoneFacts
    <3> QED BY <1>0, <3>1, <3>2, AskedSame, AskedIdle
  <2>4. CASE Load(p)
    <3>1. /\ driver = "alsa" /\ driver' = driver /\ mix' = mix /\ session' = session /\ spoiled' = spoiled /\ todo' = todo
      BY <2>4 DEF Load
    <3>2. next'[p] = 1 /\ (q # p => next'[q] = next[q] /\ snap'[q] = snap[q])
      BY <1>0, <2>4 DEF Load, Types
    <3>3. CASE q = p
      BY <3>1, <3>2, <3>3 DEF AskedOK
    <3> QED BY <1>0, <3>1, <3>2, <3>3, AskedSame
  <2>5. CASE WriteChannel(p)
    <3> DEFINE c   == Cmd(p).on
               k   == next[p]
               new == [snap[p] EXCEPT ![k] = NewChannel(c, k, snap[p][k], Cmd(p).arg)]
    <3>1. /\ driver = "alsa" /\ driver' = driver /\ k \in Nat
          /\ IF k = Len(Channels[c])
             THEN \E answer : CallDone(p, answer)
             ELSE snap' = [snap EXCEPT ![p] = new] /\ next' = [next EXCEPT ![p] = k + 1] /\ todo' = todo
      BY <1>0, <2>5, WriteFacts DEF Types
    <3>2. Cmd(p).arg.word = "%" /\ AskedOK(p) => new[1].level = Raw(Cmd(p).arg.n, AlsaMax)
      BY <2>5, NewFirst
    <3> HIDE DEF new
    <3>3. CASE k = Len(Channels[c])
      <4>1. next'[p] = 0 /\ (q # p => next'[q] = next[q] /\ todo'[q] = todo[q] /\ snap'[q] = snap[q])
        BY <3>1, <3>3, DoneFacts
      <4>2. CASE q = p
        BY <4>1, <4>2, AskedIdle
      <4>3. CASE q # p
        <5>1. Cmd(q)' = Cmd(q)
          BY <4>1, <4>3 DEF Cmd
        <5> QED BY <1>0, <3>1, <4>1, <4>3, <5>1 DEF AskedOK
      <4> QED BY <4>2, <4>3
    <3>4. CASE k # Len(Channels[c])
      <4>1. /\ todo' = todo /\ snap'[p] = new /\ (q # p => snap'[q] = snap[q] /\ next'[q] = next[q])
        <5>1. snap = [r \in Slots |-> snap[r]] /\ next \in [Slots -> Nat]
          BY <1>0 DEF Types
        <5> QED BY <3>1, <3>4, <5>1
      <4>2. Cmd(q)' = Cmd(q)
        BY <4>1 DEF Cmd
      <4>3. CASE q = p
        BY <1>0, <3>1, <3>2, <4>1, <4>2, <4>3 DEF AskedOK
      <4>4. CASE q # p
        BY <1>0, <3>1, <4>1, <4>2, <4>4 DEF AskedOK
      <4> QED BY <4>3, <4>4
    <3> QED BY <3>3, <3>4
  <2>6. CASE OssWrite(p)
    <3> DEFINE c == Cmd(p).on
    <3>1. /\ driver = "oss" /\ driver' = driver /\ c \in Controls /\ todo' = todo /\ session' = session
          /\ (Cmd(p).arg.word = "%" => mix'[c][1].level = Cmd(p).arg.n)
          /\ (\A d \in Controls : d # c => mix'[d] = mix[d])
          /\ Wrote(p, c)
          /\ next' = [next EXCEPT ![p] = 2]
      <4>1. "%" \in Numbers
        BY DEF Numbers
      <4> QED BY <2>6, <4>1, OssFacts
    <3>2. (q # p => next'[q] = next[q]) /\ Cmd(q)' = Cmd(q)
      BY <1>0, <3>1 DEF Types, Cmd
    <3>3. CASE q = p
      BY <3>1, <3>2, <3>3 DEF AskedOK
    <3>4. CASE q # p
      <4>1. spoiled[q] \subseteq spoiled'[q]
            /\ (mix'[c] # mix[c] /\ session[q] = "soundctl" /\ next[q] # 0 /\ Cmd(q).on = c => c \in spoiled'[q])
        <5>1. spoiled'[q] = IF mix'[c] # mix[c] /\ q # p /\ Needs(p, q, c) THEN spoiled[q] \union {c} ELSE spoiled[q]
          BY <3>1, WroteFacts
        <5>2. session[q] = "soundctl" /\ next[q] # 0 /\ Cmd(q).on = c => Needs(p, q, c)
          BY GoalAny DEF Needs
        <5> QED BY <3>4, <5>1, <5>2
      <4>2. next[q] = 2 => Cmd(q).on \in Controls
        <5>1. next[q] = 2 => todo[q] # << >>
          BY <1>0 DEF SessionOK, CallOK
        <5> QED BY <5>1, RunFacts
      <4> QED BY <1>0, <3>1, <3>2, <3>4, <4>1, <4>2 DEF AskedOK
    <3> QED BY <3>3, <3>4
  <2>7. CASE End(p)
    <3>1. next[p] = 0 /\ driver' = driver /\ mix' = mix /\ todo' = todo /\ snap' = snap /\ next' = next
          /\ (q # p => session'[q] = session[q] /\ spoiled'[q] = spoiled[q])
      BY <1>0, <2>7, EndFacts DEF Types
    <3> QED BY <1>0, <3>1, AskedSame, AskedIdle
  <2> QED BY <2>1, <2>2, <2>3, <2>4, <2>5, <2>6, <2>7 DEF Run
<1> QED BY <1>1, <1>2

LEMMA AsksAnswer ==
    Inv /\ Asks /\ [Next]_vars =>
        \A p \in Slots :
            session[p] = "soundctl" /\ Ends(p) /\ Cmd(p).arg.word = "%" =>
                LET n == Cmd(p).arg.n
                IN  IF ~Prints(Cmd(p).on) THEN shown'[p].level = NoLevel
                    ELSE IF driver = "alsa" THEN shown'[p].level \in n..(n + CeilDiv(100, AlsaMax))
                    ELSE shown'[p].level = n \/ Cmd(p).on \in spoiled[p]
<1> SUFFICES ASSUME Inv, Asks, [Next]_vars, NEW q \in Slots,
                    session[q] = "soundctl", Ends(q), Cmd(q).arg.word = "%"
             PROVE  LET n == Cmd(q).arg.n
                    IN  IF ~Prints(Cmd(q).on) THEN shown'[q].level = NoLevel
                        ELSE IF driver = "alsa" THEN shown'[q].level \in n..(n + CeilDiv(100, AlsaMax))
                        ELSE shown'[q].level = n \/ Cmd(q).on \in spoiled[q]
  OBVIOUS
<1>0. AskedOK(q) /\ Types /\ \A r \in Slots : SessionOK(r)
  BY DEF Asks, Inv
<1>1. next[q] # 0 /\ next'[q] = 0
  BY DEF Ends
<1>2. todo[q] # << >>
  BY <1>0, <1>1 DEF SessionOK, CallOK
<1>3. Cmd(q).on \in Controls /\ Cmd(q).arg.n \in 0..100
  BY <1>2, RunFacts
<1>4. PICK p \in Slots : Soundctl(p) \/ RtpController(p) \/ Run(p)
  BY <1>1 DEF Next, vars, procVars
<1>5. CASE WriteChannel(q)
  <2> DEFINE k   == next[q]
             new == [snap[q] EXCEPT ![k] = NewChannel(Cmd(q).on, k, snap[q][k], Cmd(q).arg)]
             n   == Cmd(q).arg.n
  <2>1. /\ driver = "alsa" /\ k \in Nat
        /\ IF k = Len(Channels[Cmd(q).on])
           THEN \E answer : /\ CallDone(q, answer)
                            /\ Cmd(q).arg.word \in Numbers =>
                                   answer.level = IF Prints(Cmd(q).on) THEN Percent(new[1].level, AlsaMax) ELSE NoLevel
           ELSE next' = [next EXCEPT ![q] = k + 1]
    BY <1>0, <1>5, WriteFacts DEF Types
  <2>2. new[1].level = Raw(n, AlsaMax)
    BY <1>0, <1>5, NewFirst
  <2> HIDE DEF new
  <2>3. k = Len(Channels[Cmd(q).on])
    <3>1. next \in [Slots -> Nat]
      BY <1>0 DEF Types
    <3> QED BY <1>1, <2>1, <3>1
  <2>4. "%" \in Numbers
    BY DEF Numbers
  <2>5. PICK answer : /\ CallDone(q, answer)
                      /\ answer.level = IF Prints(Cmd(q).on) THEN Percent(Raw(n, AlsaMax), AlsaMax) ELSE NoLevel
    BY <2>1, <2>2, <2>3, <2>4
  <2>6. shown'[q].level = IF Prints(Cmd(q).on) THEN Percent(Raw(n, AlsaMax), AlsaMax) ELSE NoLevel
    BY <2>5, DoneFacts
  <2>7. AlsaMax \in Nat \ {0}
    BY LevelAssumption
  <2>8. Percent(Raw(n, AlsaMax), AlsaMax) \in n..(n + CeilDiv(100, AlsaMax))
    BY <1>3, <2>7, PercentRaw
  <2> QED BY <2>1, <2>6, <2>8
<1>6. CASE OssShow(q)
  <2> DEFINE c == Cmd(q).on
  <2>1. driver = "oss" /\ next[q] = 2 /\ CallDone(q, Shown(c, mix[c]))
    BY <1>6 DEF OssShow
  <2>2. shown'[q] = Shown(c, mix[c])
    BY <2>1, DoneFacts
  <2>3. mix[c] \in Element(c)
    BY <1>0, <1>3 DEF Types
  <2>4. Prints(c) /\ Shown(c, mix[c]).level = Percent(mix[c][1].level, 100)
    BY <1>3, <2>1, <2>3, ShownType DEF Top, OSSMAXLEVEL, Prints
  <2>5. c \in spoiled[q] \/ mix[c][1].level = Cmd(q).arg.n
    BY <1>0, <2>1 DEF AskedOK
  <2> QED BY <1>3, <2>1, <2>2, <2>4, <2>5, PercentWhole
<1>7. p = q
  <2> SUFFICES ASSUME p # q PROVE next'[q] = next[q]
    BY <1>1
  <2>1. next \in [Slots -> Nat]
    BY <1>0 DEF Types
  <2>2. CASE \E x : next' = [next EXCEPT ![p] = x]
    BY <2>1, <2>2
  <2>3. CASE next' = next
    BY <2>3
  <2>4. next' = next \/ \E x : next' = [next EXCEPT ![p] = x]
    BY <1>4, Zenon DEF Soundctl, RtpController, Run, Begin, NoControl, ReadLevel, LoudEnough, Load, WriteChannel, OssWrite, OssShow, End, CallDone
  <2> QED BY <2>2, <2>3, <2>4
<1>8. ~NoControl(q) /\ ~ReadLevel(q) /\ ~LoudEnough(q) /\ ~Load(q) /\ ~OssWrite(q)
  BY <1>1 DEF NoControl, ReadLevel, LoudEnough, Load, OssWrite, Calls, Sets
<1>9. ~Soundctl(q) /\ ~RtpController(q) /\ ~End(q)
  BY <1>1 DEF Soundctl, RtpController, Begin, End
<1> QED BY <1>4, <1>5, <1>6, <1>7, <1>8, <1>9 DEF Run

\* soundctl.sh --setlevel answers with the percentage it was asked for or, with ALSA, at most one
\* level of the card more (convert_prange and convert_prange1 of tmixer-alsa.c); with OSS
\* unless another session wrote the control before it was read back.  It has no level only
\* when the control records in one channel, which tmixer-alsa does not print.
THEOREM ShownAsAskedAlways == Spec => ShownAsAsked
<1>1. Inv /\ Asks /\ [Next]_vars => Inv' /\ Asks'
  BY InvStep, AsksStep
<1>2. Init => Inv /\ Asks
  BY InitInv, InitAsks
<1>3. Inv /\ Asks /\ [Next]_vars =>
        [\A p \in Slots :
            session[p] = "soundctl" /\ Ends(p) /\ Cmd(p).arg.word = "%" =>
                LET n == Cmd(p).arg.n
                IN  IF ~Prints(Cmd(p).on) THEN shown'[p].level = NoLevel
                    ELSE IF driver = "alsa" THEN shown'[p].level \in n..(n + CeilDiv(100, AlsaMax))
                    ELSE shown'[p].level = n \/ Cmd(p).on \in spoiled[p]]_vars
  BY AsksAnswer
<1> QED BY <1>1, <1>2, <1>3, PTL DEF Spec, ShownAsAsked

----------------------------------------------------------------------------
(* A goal that is reached is kept. *)

Mid(q, c)       == next[q] # 0 /\ Cmd(q).on = c
\* The calls that q has not begun.
Unbegun(q)      == IF next[q] = 0 THEN todo[q] ELSE Tail(todo[q])
Left(q, x)      == x \in Of(todo[q])
Waits(q, x)     == x \in Of(Unbegun(q))
MixLow(c, g)    == Low(c, mix[c], g)
SnapLow(q, c, g) == Low(c, snap[q], g)
MixOn(c, k)     == mix[c][k].on
SnapOn(q, k)    == snap[q][k].on
GoalOf(q, c)    == Goal(session[q], c)

\* q still raises a level that is low; q still switches channel k off.
WillRaise(q, c, g) == \/ Waits(q, LevelCall(c, g))
                      \/ Mid(q, c) /\ Cmd(q) = LevelCall(c, g) /\ driver = "alsa" /\ SnapLow(q, c, g)
WillSwitchOff(q, c, k) == \/ Waits(q, OffCall(c))
                          \/ /\ Mid(q, c) /\ Cmd(q) = OffCall(c) /\ driver = "alsa"
                             /\ next[q] <= k /\ SnapOn(q, k)

ShapeOK(q, c) == GoalOf(q, c) # "any" => Shape(todo[q], c, GoalOf(q, c))
ReadOK(q, c)  == Aim(q, c) = "loud" /\ HasDriver(c) /\ ~Left(q, GetCall(c)) /\ known[q][c] >= VOLUME =>
                     /\ ~MixLow(c, "loud")
                     /\ driver = "alsa" /\ Mid(q, c) => ~SnapLow(q, c, "loud")
MidOK(q, c)   == \A g \in Wants :
                     Aim(q, c) = g /\ driver = "alsa" /\ Mid(q, c) /\ Cmd(q) = LevelCall(c, g) /\ next[q] > 1 =>
                         ~SnapLow(q, c, g)
OnOK(q, c, k) == Aim(q, c) \in Wants /\ driver = "alsa" =>
                     /\ ~Left(q, OnCall(c)) => MixOn(c, k)
                     /\ Mid(q, c) => /\ ~Left(q, OnCall(c)) \/ (Cmd(q) = OnCall(c) /\ k < next[q]) => SnapOn(q, k)
                                     /\ SnapOn(q, k) => MixOn(c, k)
OffOK(q, c, k) == Aim(q, c) = "mute" /\ driver = "alsa" /\ Mid(q, c) /\ k < next[q] => ~SnapOn(q, k)

QInv(q, c) == /\ ShapeOK(q, c) /\ ReadOK(q, c) /\ MidOK(q, c)
              /\ \A k \in DOMAIN Channels[c] : Ruled(c, k) => OnOK(q, c, k) /\ OffOK(q, c, k)

LevelOK(c) == \A g \in Wants :
    HasDriver(c) /\ MixLow(c, g) /\ (\E p \in Slots : Aim(p, c) = g) =>
        \E q \in Slots : Aim(q, c) = g /\ WillRaise(q, c, g)
MuteOK(c) == \A k \in DOMAIN Channels[c] :
    Ruled(c, k) /\ HasDriver(c) /\ MixOn(c, k) /\ (\E p \in Slots : Aim(p, c) = "mute") =>
        \E q \in Slots : Aim(q, c) = "mute" /\ WillSwitchOff(q, c, k)
OssOK(c)   == driver = "oss" => (MixOn(c, 1) <=> mix[c][1].level > 0)
MeetsKept(c) == Meets(c, kept[c])
KeptOK(c)  == kept[c] # "any" => HasDriver(c) /\ (MeetsKept(c) \/ \E p \in Slots : Aim(p, c) = kept[c])

CInv(c) == (\A q \in Slots : QInv(q, c)) /\ LevelOK(c) /\ MuteOK(c) /\ OssOK(c) /\ KeptOK(c)
GoalInv == \A c \in Controls : CInv(c)
(* What the calls do. *)

LEMMA GoalFacts ==
    ASSUME NEW s, NEW c \in Controls
    PROVE  /\ Goal(s, c) = "loud" => In(c, Outs) /\ ~In(c, Mics) /\ ~In(c, Caps) /\ c \in Outputs
           /\ Goal(s, c) = "live" => ~In(c, Outs) /\ (In(c, Mics) \/ In(c, Caps)) /\ ~(In(c, Mics) /\ In(c, Caps)) /\ c \notin Outputs
           /\ Goal(s, c) = "mute" => ~In(c, Outs) /\ (In(c, Mics) \/ In(c, Caps)) /\ c \notin Outputs
BY Lists DEF Goal, Outputs, Inputs

LEMMA AimFacts ==
    ASSUME NEW q, NEW c \in Controls
    PROVE  /\ Aim(q, c) # "any" => Aim(q, c) = GoalOf(q, c)
           /\ Aim(q, c) = "loud" => In(c, Outs) /\ ~In(c, Mics) /\ ~In(c, Caps) /\ c \in Outputs
           /\ Aim(q, c) = "live" => ~In(c, Outs) /\ (In(c, Mics) \/ In(c, Caps)) /\ ~(In(c, Mics) /\ In(c, Caps)) /\ c \notin Outputs
           /\ Aim(q, c) = "mute" => ~In(c, Outs) /\ (In(c, Mics) \/ In(c, Caps)) /\ c \notin Outputs
<1>1. Aim(q, c) # "any" => Aim(q, c) = Goal(session[q], c)
  BY DEF Aim
<1> QED BY <1>1, GoalFacts DEF GoalOf

\* The call that gives c its level.
LEMMA LevelArg ==
    ASSUME NEW c \in Controls, NEW g \in Wants,
           g = "loud" => In(c, Outs),
           g = "live" => (In(c, Mics) \/ In(c, Caps)) /\ ~(In(c, Mics) /\ In(c, Caps))
    PROVE  LET a == LevelCall(c, g).arg
           IN  /\ a.n = Target(c, g) /\ a.n \in 1..100 /\ a.word \in Numbers /\ a \in Args
               /\ a.word = "%" \/ (a.word = "raw" /\ In("left", Channels[c]))
<1>1. In(c, Outs) \/ In(c, Mics) => In("left", Channels[c])
  BY Lists, ChannelFacts DEF In
<1>2. CASE g = "loud"
  <2>1. LevelCall(c, g).arg = Arg("raw", 85) /\ Target(c, g) = 85
    BY <1>2 DEF LevelCall, Raise, Target, VOLUME
  <2> QED BY <1>1, <1>2, <2>1 DEF Arg, Args, Numbers
<1>3. CASE g = "live"
  <2>1. In(c, Mics) => LevelCall(c, g).arg = Arg("raw", 75) /\ Target(c, g) = 75
    BY <1>3 DEF LevelCall, Sset, Target, VOLUME_MIC
  <2>2. ~In(c, Mics) => LevelCall(c, g).arg = Arg("%", 90) /\ Target(c, g) = 90
    BY <1>3 DEF LevelCall, Sset, Target, CAPTURE
  <2>3. CASE In(c, Mics)
    BY <1>1, <2>1, <2>3 DEF Arg, Args, Numbers
  <2>4. CASE ~In(c, Mics)
    BY <2>2, <2>4 DEF Arg, Args, Numbers
  <2> QED BY <2>3, <2>4
<1> QED BY <1>2, <1>3 DEF Wants

LEMMA LevelWritten ==
    ASSUME driver = "alsa", NEW c \in Controls, NEW g \in Wants,
           g = "loud" => In(c, Outs),
           g = "live" => (In(c, Mics) \/ In(c, Caps)) /\ ~(In(c, Mics) /\ In(c, Caps)),
           NEW k, NEW ch \in Chan
    PROVE  LET new == NewChannel(c, k, ch, LevelCall(c, g).arg)
           IN  /\ new.on = ch.on
               /\ ~(Percent(new.level, Top) < Target(c, g))
<1> DEFINE a == LevelCall(c, g).arg  n == Target(c, g)
<1>1. a.n = n /\ n \in 0..100 /\ a.word \in Numbers /\ (a.word = "%" \/ (a.word = "raw" /\ In("left", Channels[c])))
  <2>1. /\ a.n = Target(c, g) /\ a.n \in 1..100 /\ a.word \in Numbers
        /\ a.word = "%" \/ (a.word = "raw" /\ In("left", Channels[c]))
    BY LevelArg
  <2> QED BY <2>1
<1> HIDE DEF a, n
<1>2. AlsaMax \in Nat \ {0}
  BY LevelAssumption
<1>3. Raw(n, AlsaMax) \in 0..AlsaMax
  BY <1>1, <1>2, RawType
<1>4. Clamp(Raw(n, AlsaMax), AlsaMax) = Raw(n, AlsaMax)
  BY <1>2, <1>3 DEF Clamp
<1>5. NewLevel(c, ch.level, a) = Raw(n, AlsaMax)
  BY <1>1, <1>4 DEF NewLevel
<1>6. NewChannel(c, k, ch, a) = [ch EXCEPT !.level = NewLevel(c, ch.level, a)]
  BY <1>1 DEF NewChannel
<1>7. NewChannel(c, k, ch, a).level = Raw(n, AlsaMax) /\ NewChannel(c, k, ch, a).on = ch.on
  BY <1>5, <1>6 DEF Chan
<1>8. Percent(Raw(n, AlsaMax), AlsaMax) \in n..(n + CeilDiv(100, AlsaMax))
  BY <1>1, <1>2, PercentRaw
<1>9. Top = AlsaMax
  BY DEF Top
<1>10. ~(Percent(Raw(n, AlsaMax), AlsaMax) < n)
  <2> DEFINE x == Percent(Raw(n, AlsaMax), AlsaMax)  y == n + CeilDiv(100, AlsaMax)
  <2>1. x \in n..y /\ n \in Int
    BY <1>1, <1>8
  <2> HIDE DEF x, y
  <2>2. n <= x /\ x \in Int
    BY <2>1
  <2>3. ~(x < n)
    BY <2>1, <2>2
  <2> QED BY <2>3 DEF x
<1> QED BY <1>7, <1>9, <1>10 DEF a, n

\* The words a channel of rtp-controller.sh goes by.
LEMMA SwitchWritten ==
    ASSUME NEW c \in Controls, NEW k \in DOMAIN Channels[c], NEW ch \in Chan
    PROVE  /\ NewChannel(c, k, ch, OnCall(c).arg).level = ch.level
           /\ NewChannel(c, k, ch, OffCall(c).arg).level = ch.level
           /\ Ruled(c, k) => NewChannel(c, k, ch, OnCall(c).arg).on = TRUE
           /\ Ruled(c, k) => NewChannel(c, k, ch, OffCall(c).arg).on = FALSE
<1> DEFINE words == IF Channels[c][k] = "capture" THEN {"cap", "nocap"} ELSE {"on", "off"}
           on  == OnCall(c).arg
           off == OffCall(c).arg
<1>1. on.word = (IF In(c, Caps) THEN "cap" ELSE "on") /\ off.word = (IF In(c, Caps) THEN "nocap" ELSE "off")
  BY DEF OnCall, OffCall, Sset, OnOff, Arg
<1>2. Ruled(c, k) => c \in Switched /\ (Channels[c][k] = "capture" <=> In(c, Caps))
  <2>1. In(c, Caps) => Channels[c][k] = "capture"
    BY Lists
  <2> QED BY <2>1 DEF Ruled
<1>3. on.word \notin Numbers /\ off.word \notin Numbers
  BY <1>1 DEF Numbers
<1> HIDE DEF on, off
<1>4. /\ NewChannel(c, k, ch, on) = IF on.word \in words /\ c \in Switched THEN [ch EXCEPT !.on = on.word \in {"on", "cap"}] ELSE ch
      /\ NewChannel(c, k, ch, off) = IF off.word \in words /\ c \in Switched THEN [ch EXCEPT !.on = off.word \in {"on", "cap"}] ELSE ch
  BY <1>3 DEF NewChannel
<1>5. (on.word \in {"on", "cap"}) = TRUE /\ (off.word \in {"on", "cap"}) = FALSE
  BY <1>1
<1>6. /\ NewChannel(c, k, ch, on) = IF on.word \in words /\ c \in Switched THEN [ch EXCEPT !.on = TRUE] ELSE ch
      /\ NewChannel(c, k, ch, off) = IF off.word \in words /\ c \in Switched THEN [ch EXCEPT !.on = FALSE] ELSE ch
  BY <1>4, <1>5
<1>7. Ruled(c, k) => on.word \in words /\ off.word \in words /\ c \in Switched
  BY <1>1, <1>2
<1> HIDE DEF words
<1>8. [ch EXCEPT !.on = TRUE].level = ch.level /\ [ch EXCEPT !.on = TRUE].on = TRUE
      /\ [ch EXCEPT !.on = FALSE].level = ch.level /\ [ch EXCEPT !.on = FALSE].on = FALSE
  BY DEF Chan
<1> QED BY <1>6, <1>7, <1>8 DEF on, off

\* The same in OSS.
LEMMA OssWritten ==
    ASSUME NEW c \in Controls
    PROVE  /\ OssLevel(OffCall(c).arg) = 0
           /\ In(c, Outs) => OssLevel(OnCall(c).arg) = VOLUME
           /\ \A g \in Wants : (g = "loud" => In(c, Outs)) /\ (g = "live" => (In(c, Mics) \/ In(c, Caps)) /\ ~(In(c, Mics) /\ In(c, Caps)))
                  => OssLevel(LevelCall(c, g).arg) = Target(c, g)
<1> DEFINE off == OffCall(c).arg  on == OnCall(c).arg
<1>0. \A x \in 0..100 : Clamp(x, OSSMAXLEVEL) = x
  BY DEF Clamp, OSSMAXLEVEL
<1>1. OssLevel(off) = 0
  <2>1. off.word \in {"off", "nocap"}
    BY DEF OffCall, Sset, OnOff, Arg
  <2> HIDE DEF off
  <2> QED BY <1>0, <2>1 DEF OssLevel, Numbers
<1>2. ASSUME In(c, Outs) PROVE OssLevel(on) = VOLUME
  <2>1. on.word = "on"
    BY <1>2, Lists DEF OnCall, Sset, OnOff, Arg
  <2> HIDE DEF on
  <2> QED BY <1>0, <2>1 DEF OssLevel, Numbers, OSSUNMUTELEVEL, VOLUME
<1>3. ASSUME NEW g \in Wants, g = "loud" => In(c, Outs), g = "live" => (In(c, Mics) \/ In(c, Caps)) /\ ~(In(c, Mics) /\ In(c, Caps))
      PROVE  OssLevel(LevelCall(c, g).arg) = Target(c, g)
  <2> DEFINE a == LevelCall(c, g).arg
  <2>1. a.n = Target(c, g) /\ a.n \in 1..100 /\ a.word \in Numbers
    BY <1>3, LevelArg
  <2> HIDE DEF a
  <2>2. a.word # "off" /\ a.word # "on"
    BY <2>1 DEF Numbers
  <2>3. OssLevel(a) = Clamp(a.n, OSSMAXLEVEL)
    BY <2>1, <2>2 DEF OssLevel
  <2> QED BY <1>0, <2>1, <2>3 DEF a
<1> QED BY <1>1, <1>2, <1>3

\* A step that leaves what q does about c as it was.
View(q, c) ==
    /\ GoalOf(q, c)' = GoalOf(q, c) /\ Aim(q, c)' = Aim(q, c)
    /\ \A x : x.on = c => (Left(q, x)' <=> Left(q, x)) /\ (Waits(q, x)' <=> Waits(q, x))
    /\ \A g : Shape(todo[q], c, g) => Shape(todo'[q], c, g)
    /\ Mid(q, c)' <=> Mid(q, c)
    /\ Mid(q, c) => next'[q] = next[q] /\ snap'[q] = snap[q] /\ Cmd(q)' = Cmd(q)
    /\ c \in Outputs => known'[q][c] = known[q][c]

\* A step that leaves the control alone.
Still(c) == driver' = driver /\ mix'[c] = mix[c]

LEMMA StillFacts ==
    ASSUME NEW c, Still(c)
    PROVE  /\ HasDriver(c)' = HasDriver(c)
           /\ \A g : MixLow(c, g)' = MixLow(c, g)
           /\ \A k : MixOn(c, k)' = MixOn(c, k)
           /\ OssOK(c) => OssOK(c)'
           /\ kept'[c] = kept[c] => (MeetsKept(c)' <=> MeetsKept(c))
<1>1. HasDriver(c)' = HasDriver(c) /\ Top' = Top
  BY HasSame, TopSame DEF Still
<1>2. \A g : MixLow(c, g)' = MixLow(c, g)
  BY <1>1 DEF Still, MixLow, Low
<1>3. \A k : MixOn(c, k)' = MixOn(c, k)
  BY DEF Still, MixOn
<1>4. OssOK(c) => OssOK(c)'
  BY <1>3 DEF Still, OssOK
<1>5. ASSUME kept'[c] = kept[c] PROVE MeetsKept(c)' <=> MeetsKept(c)
  BY <1>1, <1>5 DEF Still, MeetsKept, Meets, Low
<1> QED BY <1>1, <1>2, <1>3, <1>4, <1>5

LEMMA SnapFacts ==
    ASSUME driver' = driver, NEW q, snap'[q] = snap[q]
    PROVE  /\ \A c, g : SnapLow(q, c, g)' = SnapLow(q, c, g)
           /\ \A k : SnapOn(q, k)' = SnapOn(q, k)
BY TopSame DEF SnapLow, SnapOn, Low

LEMMA ViewWill ==
    ASSUME NEW q, NEW c, View(q, c), driver' = driver
    PROVE  /\ \A g : WillRaise(q, c, g)' <=> WillRaise(q, c, g)
           /\ \A k : WillSwitchOff(q, c, k)' <=> WillSwitchOff(q, c, k)
<1>1. /\ \A x : x.on = c => (Waits(q, x)' <=> Waits(q, x))
      /\ Mid(q, c)' <=> Mid(q, c)
      /\ Mid(q, c) => next'[q] = next[q] /\ snap'[q] = snap[q] /\ Cmd(q)' = Cmd(q)
  BY DEF View
<1>2. (\A g : LevelCall(c, g).on = c) /\ OffCall(c).on = c
  BY CallsDiffer
<1>3. Mid(q, c) => (\A g : SnapLow(q, c, g)' = SnapLow(q, c, g)) /\ \A k : SnapOn(q, k)' = SnapOn(q, k)
  BY <1>1, SnapFacts
<1>4. \A g : WillRaise(q, c, g)' <=> WillRaise(q, c, g)
  BY <1>1, <1>2, <1>3 DEF WillRaise
<1>5. \A k : WillSwitchOff(q, c, k)' <=> WillSwitchOff(q, c, k)
  BY <1>1, <1>2, <1>3 DEF WillSwitchOff
<1> QED BY <1>4, <1>5

LEMMA ViewKeeps ==
    ASSUME NEW q, NEW c \in Controls, View(q, c), Still(c), QInv(q, c)
    PROVE  QInv(q, c)'
<1>1. /\ GoalOf(q, c)' = GoalOf(q, c) /\ Aim(q, c)' = Aim(q, c)
      /\ \A x : x.on = c => (Left(q, x)' <=> Left(q, x))
      /\ \A g : Shape(todo[q], c, g) => Shape(todo'[q], c, g)
      /\ Mid(q, c)' <=> Mid(q, c)
      /\ Mid(q, c) => next'[q] = next[q] /\ snap'[q] = snap[q] /\ Cmd(q)' = Cmd(q)
      /\ c \in Outputs => known'[q][c] = known[q][c]
  BY DEF View
<1>2. GetCall(c).on = c /\ OnCall(c).on = c
  BY CallsDiffer
<1>3. driver' = driver
  BY DEF Still
<1>4. Mid(q, c) => (\A g : SnapLow(q, c, g)' = SnapLow(q, c, g)) /\ \A k : SnapOn(q, k)' = SnapOn(q, k)
  BY <1>1, <1>3, SnapFacts
<1>5. HasDriver(c)' = HasDriver(c) /\ (\A g : MixLow(c, g)' = MixLow(c, g)) /\ (\A k : MixOn(c, k)' = MixOn(c, k))
  BY StillFacts
<1>6. Aim(q, c) = "loud" => c \in Outputs
  BY AimFacts
<1>7. ShapeOK(q, c)'
  BY <1>1 DEF QInv, ShapeOK
<1>8. ReadOK(q, c)'
  BY <1>1, <1>2, <1>3, <1>4, <1>5, <1>6 DEF QInv, ReadOK
<1>9. MidOK(q, c)'
  BY <1>1, <1>3, <1>4 DEF QInv, MidOK
<1>10. ASSUME NEW k \in DOMAIN Channels[c], Ruled(c, k) PROVE OnOK(q, c, k)' /\ OffOK(q, c, k)'
  <2>1. OnOK(q, c, k) /\ OffOK(q, c, k)
    BY <1>10 DEF QInv
  <2>2. OnOK(q, c, k)'
    BY <1>1, <1>2, <1>3, <1>4, <1>5, <2>1 DEF OnOK
  <2>3. OffOK(q, c, k)'
    BY <1>1, <1>3, <1>4, <2>1 DEF OffOK
  <2> QED BY <2>2, <2>3
<1> QED BY <1>7, <1>8, <1>9, <1>10 DEF QInv

\* A step that nobody who has to do with c notices.
LEMMA AwayKeeps ==
    ASSUME NEW c \in Controls, CInv(c), Still(c), kept'[c] = kept[c], \A q \in Slots : View(q, c)
    PROVE  CInv(c)'
<1>1. /\ HasDriver(c)' = HasDriver(c) /\ (\A g : MixLow(c, g)' = MixLow(c, g)) /\ (\A k : MixOn(c, k)' = MixOn(c, k))
      /\ OssOK(c)' /\ (MeetsKept(c)' <=> MeetsKept(c))
  BY StillFacts DEF CInv
<1>2. driver' = driver
  BY DEF Still
<1>3. \A q \in Slots : /\ Aim(q, c)' = Aim(q, c)
                       /\ \A g : WillRaise(q, c, g)' <=> WillRaise(q, c, g)
                       /\ \A k : WillSwitchOff(q, c, k)' <=> WillSwitchOff(q, c, k)
  BY <1>2, ViewWill DEF View
<1>4. \A q \in Slots : QInv(q, c)'
  BY ViewKeeps DEF CInv
<1>5. LevelOK(c)'
  BY <1>1, <1>3 DEF CInv, LevelOK
<1>6. MuteOK(c)'
  BY <1>1, <1>3 DEF CInv, MuteOK
<1>7. KeptOK(c)'
  BY <1>1, <1>3 DEF CInv, KeptOK
<1> QED BY <1>1, <1>4, <1>5, <1>6, <1>7 DEF CInv

\* One whose own state a step leaves alone.
LEMMA ViewIdle ==
    ASSUME NEW q, NEW c, session'[q] = session[q], c \in spoiled'[q] <=> c \in spoiled[q], todo'[q] = todo[q],
           next'[q] = next[q], snap'[q] = snap[q], known'[q] = known[q]
    PROVE  View(q, c)
<1>1. GoalOf(q, c)' = GoalOf(q, c) /\ Aim(q, c)' = Aim(q, c)
  BY DEF GoalOf, Aim
<1>2. Cmd(q)' = Cmd(q) /\ Unbegun(q)' = Unbegun(q)
  BY DEF Cmd, Unbegun
<1>3. \A x : (Left(q, x)' <=> Left(q, x)) /\ (Waits(q, x)' <=> Waits(q, x))
  BY <1>2 DEF Left, Waits
<1>4. Mid(q, c)' <=> Mid(q, c)
  BY <1>2 DEF Mid
<1> QED BY <1>1, <1>2, <1>3, <1>4 DEF View

\* One that is at another control.
LEMMA ViewAway ==
    ASSUME Inv, NEW p \in Slots, NEW c, todo[p] # << >>, Cmd(p).on # c,
           session'[p] = session[p], c \in spoiled'[p] <=> c \in spoiled[p],
           todo'[p] = todo[p] \/ (todo'[p] = Tail(todo[p]) /\ next'[p] = 0),
           c \in Outputs => known'[p][c] = known[p][c]
    PROVE  View(p, c)
<1>0. todo[p] \in Seq(Call)
  BY DEF Inv, Types
<1>1. GoalOf(p, c)' = GoalOf(p, c) /\ Aim(p, c)' = Aim(p, c)
  BY DEF GoalOf, Aim
<1>2. Of(todo[p]) = Of(Tail(todo[p])) \union {Cmd(p)}
  BY <1>0, TailFacts DEF Cmd
<1>3. \A x : x.on = c => (x \in Of(Tail(todo[p])) <=> x \in Of(todo[p]))
  BY <1>2
<1>4. \A x : x.on = c => (Left(p, x)' <=> Left(p, x))
  BY <1>3 DEF Left
<1>5. \A x : x.on = c => (Waits(p, x) <=> x \in Of(todo[p]))
  BY <1>3 DEF Waits, Unbegun
<1>6. \A x : x.on = c => (Waits(p, x)' <=> x \in Of(todo[p]))
  BY <1>3 DEF Waits, Unbegun
<1>7. \A g : Shape(todo[p], c, g) => Shape(todo'[p], c, g)
  BY <1>0, ShapeTail
<1>8. ~Mid(p, c) /\ ~Mid(p, c)'
  <2>1. todo'[p] = todo[p] => Cmd(p)' = Cmd(p)
    BY DEF Cmd
  <2> QED BY <2>1 DEF Mid
<1> QED BY <1>1, <1>4, <1>5, <1>6, <1>7, <1>8 DEF View

\* The aims after a step of p that writes c.
LEMMA WroteAims ==
    ASSUME Inv, NEW p \in Slots, NEW c \in Controls, Wrote(p, c), session' = session, NEW d \in Controls
    PROVE  /\ Aim(p, d)' = Aim(p, d) /\ (d \in spoiled'[p] <=> d \in spoiled[p])
           /\ d # c \/ mix'[c] = mix[c] => \A q \in Slots : d \in spoiled'[q] <=> d \in spoiled[q]
           /\ d # c \/ mix'[c] = mix[c] => kept'[d] = kept[d]
           /\ mix'[c] # mix[c] => /\ \A q \in Slots : q # p /\ Aim(q, c)' # "any" =>
                                         /\ Aim(q, c)' = Aim(q, c) /\ Aim(q, c) = Aim(p, c)
                                         /\ Aim(q, c) \in Wants => ~Fragile(c)
                                         /\ c \in spoiled'[q] <=> c \in spoiled[q]
                                  /\ (kept'[c] = kept[c] /\ kept[c] = Aim(p, c)) \/ kept'[c] = "any"
<1>1. /\ \A q \in Slots : spoiled'[q] = IF mix'[c] # mix[c] /\ q # p /\ Needs(p, q, c)
                                        THEN spoiled[q] \union {c} ELSE spoiled[q]
      /\ \A e \in Controls : kept'[e] = IF e = c /\ mix'[c] # mix[c] /\ Aim(p, c) # kept[c]
                                        THEN "any" ELSE kept[e]
  BY WroteFacts
<1>2. spoiled'[p] = spoiled[p]
  BY <1>1
<1>3. Aim(p, d)' = Aim(p, d)
  BY <1>2 DEF Aim
<1>4. d # c \/ mix'[c] = mix[c] => \A q \in Slots : d \in spoiled'[q] <=> d \in spoiled[q]
  BY <1>1
<1>5. d # c \/ mix'[c] = mix[c] => kept'[d] = kept[d]
  BY <1>1
<1>6. ASSUME mix'[c] # mix[c], NEW q \in Slots, q # p, Aim(q, c)' # "any"
      PROVE  /\ Aim(q, c)' = Aim(q, c) /\ Aim(q, c) = Aim(p, c)
             /\ Aim(q, c) \in Wants => ~Fragile(c)
             /\ c \in spoiled'[q] <=> c \in spoiled[q]
  <2>1. c \notin spoiled'[q]
    BY <1>6 DEF Aim
  <2>2. ~Needs(p, q, c) /\ c \notin spoiled[q]
    BY <1>1, <1>6, <2>1
  <2>3. Aim(q, c)' = Goal(session[q], c) /\ Aim(q, c) = Goal(session[q], c)
    BY <2>1, <2>2 DEF Aim
  <2> QED BY <1>6, <2>1, <2>2, <2>3 DEF Needs, Wants
<1>7. mix'[c] # mix[c] => (kept'[c] = kept[c] /\ kept[c] = Aim(p, c)) \/ kept'[c] = "any"
  BY <1>1
<1> QED BY <1>2, <1>3, <1>4, <1>5, <1>6, <1>7

LEMMA EmptyOf == Of(<< >>) = {}
BY DEF Of

LEMMA InitGoals == Init => GoalInv
<1> SUFFICES ASSUME Init, NEW c \in Controls PROVE CInv(c)
  BY DEF GoalInv
<1>1. \A q \in Slots : session[q] = "none" /\ next[q] = 0
  BY DEF Init
<1>2. \A q \in Slots : GoalOf(q, c) = "any" /\ Aim(q, c) = "any" /\ ~Mid(q, c)
  BY <1>1, GoalAny DEF GoalOf, Aim, Mid
<1>3. "any" \notin Wants /\ "mute" # "any" /\ "loud" # "any"
  BY DEF Wants
<1>4. \A q \in Slots : QInv(q, c)
  BY <1>2, <1>3 DEF QInv, ShapeOK, ReadOK, MidOK, OnOK, OffOK
<1>5. LevelOK(c) /\ MuteOK(c)
  BY <1>2, <1>3 DEF LevelOK, MuteOK
<1>6. OssOK(c)
  <2>1. mix[c] = Silent(c) /\ 1 \in DOMAIN Channels[c]
    BY ChannelFacts DEF Init
  <2>2. mix[c][1] = [level |-> 0, on |-> FALSE]
    BY <2>1 DEF Silent
  <2>3. mix[c][1].level = 0 /\ mix[c][1].on = FALSE
    BY <2>2
  <2>4. ~(mix[c][1].level > 0)
    BY <2>3
  <2> QED BY <2>3, <2>4 DEF OssOK, MixOn
<1>7. KeptOK(c)
  BY DEF Init, KeptOK
<1> QED BY <1>4, <1>5, <1>6, <1>7 DEF CInv

\* A session begins.
LEMMA BeginGoals ==
    ASSUME Inv, GoalInv, NEW p \in Slots, Soundctl(p) \/ RtpController(p), NEW c \in Controls
    PROVE  CInv(c)'
<1>0. Types /\ (\A q \in Slots : SessionOK(q)) /\ CInv(c)
  BY DEF Inv, GoalInv
<1>1. PICK s \in RtpSessions \union {"soundctl"}, calls \in SoundScripts \union {RtpScript(t) : t \in RtpSessions} :
          Begin(p, s, calls) /\ (s # "soundctl" => calls = RtpScript(s))
  <2>1. CASE Soundctl(p)
    BY <2>1 DEF Soundctl
  <2>2. CASE RtpController(p)
    BY <2>2 DEF RtpController
  <2> QED BY <2>1, <2>2
<1>2. /\ session[p] = "none" /\ driver' = driver /\ mix' = mix /\ snap' = snap /\ next' = next /\ known' = known
      /\ spoiled' = spoiled /\ kept' = kept
      /\ session' = [session EXCEPT ![p] = s] /\ todo' = [todo EXCEPT ![p] = calls]
  BY <1>1 DEF Begin
<1>3. /\ session'[p] = s /\ todo'[p] = calls
      /\ \A q \in Slots : q # p => session'[q] = session[q] /\ todo'[q] = todo[q]
  BY <1>0, <1>2 DEF Types
<1>4. next[p] = 0 /\ spoiled[p] = {}
  BY <1>0, <1>2 DEF SessionOK, CallOK
<1>5. Still(c)
  BY <1>2 DEF Still
<1>6. \A q \in Slots : q # p => View(q, c)
  BY <1>2, <1>3, ViewIdle
<1>7. Aim(p, c) = "any" /\ GoalOf(p, c) = "any" /\ Aim(p, c)' = Goal(s, c) /\ GoalOf(p, c)' = Goal(s, c)
  BY <1>2, <1>3, <1>4, GoalAny DEF Aim, GoalOf
<1>8. ~Mid(p, c)' /\ Unbegun(p)' = calls
  BY <1>2, <1>3, <1>4 DEF Mid, Unbegun
<1>9. Goal(s, c) # "any" => /\ Shape(calls, c, Goal(s, c))
                            /\ Goal(s, c) \in Wants => {OnCall(c), LevelCall(c, Goal(s, c))} \subseteq Of(calls)
                            /\ Goal(s, c) = "loud" => GetCall(c) \in Of(calls)
                            /\ Goal(s, c) = "mute" => OffCall(c) \in Of(calls)
  <2>1. Goal(s, c) # "any" => s \in RtpSessions /\ s # "soundctl"
    BY GoalAny DEF RtpSessions
  <2> QED BY <1>1, <2>1, ScriptShape
<1>10. Left(p, OnCall(c))' <=> OnCall(c) \in Of(calls)
  BY <1>3 DEF Left
<1>10a. Left(p, GetCall(c))' <=> GetCall(c) \in Of(calls)
  BY <1>3 DEF Left
<1>11. "any" \notin Wants /\ "mute" # "any" /\ "loud" # "any" /\ "loud" \in Wants
  BY DEF Wants
<1>12. QInv(p, c)'
  <2>1. ShapeOK(p, c)'
    BY <1>3, <1>7, <1>9 DEF ShapeOK
  <2>2. ReadOK(p, c)'
    BY <1>7, <1>9, <1>10a, <1>11 DEF ReadOK
  <2>3. MidOK(p, c)'
    BY <1>8 DEF MidOK
  <2>4. \A k : OnOK(p, c, k)' /\ OffOK(p, c, k)'
    BY <1>7, <1>8, <1>9, <1>10, <1>11 DEF OnOK, OffOK
  <2> QED BY <2>1, <2>2, <2>3, <2>4 DEF QInv
<1>13. \A q \in Slots : QInv(q, c)'
  BY <1>0, <1>5, <1>6, <1>12, ViewKeeps DEF CInv
<1>14. \A q \in Slots : q # p => /\ Aim(q, c)' = Aim(q, c)
                                 /\ \A g : WillRaise(q, c, g)' <=> WillRaise(q, c, g)
                                 /\ \A k : WillSwitchOff(q, c, k)' <=> WillSwitchOff(q, c, k)
  BY <1>2, <1>6, ViewWill DEF View
<1>15. /\ HasDriver(c)' = HasDriver(c) /\ (\A g : MixLow(c, g)' = MixLow(c, g)) /\ (\A k : MixOn(c, k)' = MixOn(c, k))
       /\ OssOK(c)' /\ (MeetsKept(c)' <=> MeetsKept(c))
  BY <1>0, <1>2, <1>5, StillFacts DEF CInv
<1>16. \A x : Waits(p, x)' <=> x \in Of(calls)
  BY <1>8 DEF Waits
<1>17. LevelOK(c)'
  <2> SUFFICES ASSUME NEW g \in Wants, HasDriver(c)', MixLow(c, g)', NEW r \in Slots, Aim(r, c)' = g
               PROVE  \E q \in Slots : Aim(q, c)' = g /\ WillRaise(q, c, g)'
    BY DEF LevelOK
  <2>1. CASE r = p
    <3>1. LevelCall(c, g) \in Of(calls) /\ Aim(p, c)' = g
      BY <1>7, <1>9, <1>11, <2>1
    <3> QED BY <1>16, <3>1 DEF WillRaise
  <2>2. CASE r # p
    <3>1. PICK q \in Slots : Aim(q, c) = g /\ WillRaise(q, c, g)
      BY <1>0, <1>14, <1>15, <2>2 DEF CInv, LevelOK
    <3>2. q # p
      BY <1>7, <1>11, <3>1
    <3> QED BY <1>14, <3>1, <3>2
  <2> QED BY <2>1, <2>2
<1>18. MuteOK(c)'
  <2> SUFFICES ASSUME NEW k \in DOMAIN Channels[c], Ruled(c, k), HasDriver(c)', MixOn(c, k)', NEW r \in Slots, Aim(r, c)' = "mute"
               PROVE  \E q \in Slots : Aim(q, c)' = "mute" /\ WillSwitchOff(q, c, k)'
    BY DEF MuteOK, Ruled
  <2>1. CASE r = p
    <3>1. OffCall(c) \in Of(calls) /\ Aim(p, c)' = "mute"
      BY <1>7, <1>9, <1>11, <2>1
    <3> QED BY <1>16, <3>1 DEF WillSwitchOff
  <2>2. CASE r # p
    <3>1. PICK q \in Slots : Aim(q, c) = "mute" /\ WillSwitchOff(q, c, k)
      BY <1>0, <1>14, <1>15, <2>2 DEF CInv, MuteOK
    <3>2. q # p
      BY <1>7, <1>11, <3>1
    <3> QED BY <1>14, <3>1, <3>2
  <2> QED BY <2>1, <2>2
<1>19. KeptOK(c)'
  <2>1. kept'[c] = kept[c]
    BY <1>2
  <2> QED BY <1>0, <1>7, <1>14, <1>15, <2>1 DEF CInv, KeptOK
<1> QED BY <1>13, <1>15, <1>17, <1>18, <1>19 DEF CInv

\* When nobody has anything left to do for the goal of p, and p has ended, the goal is reached.
LEMMA Reaches ==
    ASSUME Inv, NEW c \in Controls, CInv(c), HasDriver(c), NEW p \in Slots, todo[p] = << >>, next[p] = 0,
           Aim(p, c) # "any", \A q \in Slots : q # p => Aim(q, c) # Aim(p, c)
    PROVE  Meets(c, Aim(p, c))
<1> DEFINE g == Aim(p, c)
<1>0. Types /\ mix[c] \in Element(c) /\ 1 \in DOMAIN Channels[c] /\ DOMAIN mix[c] = DOMAIN Channels[c]
  BY ChannelFacts DEF Inv, Types, Element
<1>1. \A x : ~Waits(p, x) /\ ~Left(p, x)
  BY EmptyOf DEF Waits, Unbegun, Left
<1>2. ~Mid(p, c)
  BY DEF Mid
<1>3. (\A h : ~WillRaise(p, c, h)) /\ \A k : ~WillSwitchOff(p, c, k)
  BY <1>1, <1>2 DEF WillRaise, WillSwitchOff
<1>4. g \in {"loud", "live", "mute"}
  BY AimType DEF Goals
<1>5. CASE g = "mute"
  <2>1. \A k \in DOMAIN Channels[c] : Ruled(c, k) => ~MixOn(c, k)
    BY <1>3, <1>5 DEF CInv, MuteOK
  <2> QED BY <1>0, <1>5, <2>1 DEF Meets, MixOn
<1>6. CASE g # "mute"
  <2>1. g \in Wants
    BY <1>4, <1>6 DEF Wants
  <2>2. ~Low(c, mix[c], g)
    BY <1>3, <2>1 DEF CInv, LevelOK, MixLow
  <2>3. CASE driver = "alsa"
    <3>1. \A k \in DOMAIN Channels[c] : Ruled(c, k) => mix[c][k].on
      BY <1>1, <2>1, <2>3 DEF CInv, QInv, OnOK, MixOn
    <3> QED BY <1>0, <1>6, <2>2, <3>1 DEF Meets
  <2>4. CASE driver = "oss"
    <3>1. Top = 100 /\ mix[c][1].level \in 0..100
      <4>1. Top = 100
        BY <2>4 DEF Top, OSSMAXLEVEL
      <4>2. mix[c][1] \in Chan
        BY <1>0 DEF Element
      <4> QED BY <4>1, <4>2 DEF Chan
    <3>2. ~(mix[c][1].level < Target(c, g))
      <4>1. Percent(mix[c][1].level, 100) = mix[c][1].level
        BY <3>1, PercentWhole
      <4> QED BY <2>2, <3>1, <4>1 DEF Low
    <3>3. Target(c, g) \in Nat /\ Target(c, g) > 0
      BY DEF Target, VOLUME, VOLUME_MIC, CAPTURE
    <3>4. mix[c][1].on
      <4>1. mix[c][1].on <=> mix[c][1].level > 0
        BY <2>4, Zenon DEF CInv, OssOK, MixOn
      <4> DEFINE l == mix[c][1].level
                 n == Target(c, g)
      <4>2. l \in 0..100 /\ ~(l < n) /\ n \in Nat /\ n > 0
        BY <3>1, <3>2, <3>3
      <4> HIDE DEF l, n
      <4>3. l > 0
        BY <4>2
      <4> QED BY <4>1, <4>3 DEF l
    <3>5. \A k \in DOMAIN Channels[c] : k = 1 \/ k > 1
      BY ChannelFacts
    <3> QED BY <1>0, <1>6, <2>2, <2>4, <3>4, <3>5 DEF Meets
  <2> QED BY <2>3, <2>4 DEF HasDriver
<1> QED BY <1>5, <1>6

\* A session ends.
LEMMA EndGoals == ASSUME Inv, GoalInv, NEW p \in Slots, End(p), NEW c \in Controls PROVE CInv(c)'
<1>0. Types /\ (\A q \in Slots : SessionOK(q)) /\ CInv(c)
  BY DEF Inv, GoalInv
<1>1. /\ session[p] # "none" /\ todo[p] = << >> /\ next[p] = 0
      /\ driver' = driver /\ mix' = mix /\ todo' = todo /\ snap' = snap /\ next' = next
      /\ session' = [session EXCEPT ![p] = "none"] /\ spoiled' = [spoiled EXCEPT ![p] = {}]
      /\ known' = [known EXCEPT ![p] = [d \in Outputs |-> VOLUME]]
      /\ kept' = [d \in Controls |-> IF Reached(p, d) THEN Aim(p, d) ELSE kept[d]]
  BY EndFacts
<1>2. session'[p] = "none" /\ \A q \in Slots : q # p => session'[q] = session[q] /\ spoiled'[q] = spoiled[q] /\ known'[q] = known[q]
  BY <1>0, <1>1 DEF Types
<1>3. Still(c)
  BY <1>1 DEF Still
<1>4. \A q \in Slots : q # p => View(q, c)
  BY <1>1, <1>2, ViewIdle
<1>5. Aim(p, c)' = "any" /\ GoalOf(p, c)' = "any"
  BY <1>2, GoalAny DEF Aim, GoalOf
<1>6. "any" \notin Wants /\ "mute" # "any" /\ "loud" # "any"
  BY DEF Wants
<1>7. QInv(p, c)'
  BY <1>5, <1>6 DEF QInv, ShapeOK, ReadOK, MidOK, OnOK, OffOK
<1>8. \A q \in Slots : QInv(q, c)'
  BY <1>0, <1>3, <1>4, <1>7, ViewKeeps DEF CInv
<1>9. \A q \in Slots : q # p => /\ Aim(q, c)' = Aim(q, c)
                                /\ \A g : WillRaise(q, c, g)' <=> WillRaise(q, c, g)
                                /\ \A k : WillSwitchOff(q, c, k)' <=> WillSwitchOff(q, c, k)
  BY <1>1, <1>4, ViewWill DEF View
<1>10. /\ HasDriver(c)' = HasDriver(c) /\ (\A g : MixLow(c, g)' = MixLow(c, g)) /\ (\A k : MixOn(c, k)' = MixOn(c, k))
       /\ OssOK(c)'
  BY <1>0, <1>3, StillFacts DEF CInv
<1>11. (\A g : ~WillRaise(p, c, g)) /\ \A k : ~WillSwitchOff(p, c, k)
  BY <1>1, EmptyOf DEF WillRaise, WillSwitchOff, Waits, Unbegun, Mid
<1>12. LevelOK(c)'
  <2> SUFFICES ASSUME NEW g \in Wants, HasDriver(c)', MixLow(c, g)', NEW r \in Slots, Aim(r, c)' = g
               PROVE  \E q \in Slots : Aim(q, c)' = g /\ WillRaise(q, c, g)'
    BY DEF LevelOK
  <2>1. r # p
    BY <1>5, <1>6
  <2>2. PICK q \in Slots : Aim(q, c) = g /\ WillRaise(q, c, g)
    BY <1>0, <1>9, <1>10, <2>1 DEF CInv, LevelOK
  <2> QED BY <1>9, <1>11, <2>2
<1>13. MuteOK(c)'
  <2> SUFFICES ASSUME NEW k \in DOMAIN Channels[c], Ruled(c, k), HasDriver(c)', MixOn(c, k)', NEW r \in Slots, Aim(r, c)' = "mute"
               PROVE  \E q \in Slots : Aim(q, c)' = "mute" /\ WillSwitchOff(q, c, k)'
    BY DEF MuteOK, Ruled
  <2>1. r # p
    BY <1>5, <1>6
  <2>2. PICK q \in Slots : Aim(q, c) = "mute" /\ WillSwitchOff(q, c, k)
    BY <1>0, <1>9, <1>10, <2>1 DEF CInv, MuteOK
  <2> QED BY <1>9, <1>11, <2>2
<1>14. KeptOK(c)'
  <2> SUFFICES ASSUME kept'[c] # "any" PROVE HasDriver(c)' /\ (MeetsKept(c)' \/ \E q \in Slots : Aim(q, c)' = kept'[c])
    BY DEF KeptOK
  <2>1. kept'[c] = IF Reached(p, c) THEN Aim(p, c) ELSE kept[c]
    BY <1>1
  <2>2. HasDriver(c)
    BY <1>0, <2>1 DEF CInv, KeptOK, Reached
  <2>3. CASE kept'[c] = Aim(p, c)
    <3>1. CASE \E q \in Slots : q # p /\ Aim(q, c) = Aim(p, c)
      BY <1>9, <1>10, <2>2, <2>3, <3>1
    <3>2. CASE \A q \in Slots : q # p => Aim(q, c) # Aim(p, c)
      <4>1. Meets(c, Aim(p, c))
        BY <1>0, <1>1, <2>2, <2>3, <3>2, Reaches
      <4>2. Meets(c, kept'[c])
        BY <2>3, <4>1
      <4>3. MeetsKept(c)' <=> Meets(c, kept'[c])
        BY <1>1, TopSame DEF MeetsKept, Meets, Low
      <4> QED BY <1>10, <2>2, <4>2, <4>3
    <3> QED BY <3>1, <3>2
  <2>4. CASE kept'[c] # Aim(p, c)
    <3>1. kept'[c] = kept[c]
      BY <2>1, <2>4
    <3>2. MeetsKept(c)' <=> MeetsKept(c)
      BY <1>3, <3>1, StillFacts
    <3>3. MeetsKept(c) \/ \E q \in Slots : Aim(q, c) = kept[c]
      BY <1>0, <3>1 DEF CInv, KeptOK
    <3> QED BY <1>9, <1>10, <2>2, <2>4, <3>1, <3>2, <3>3
  <2> QED BY <2>3, <2>4
<1> QED BY <1>8, <1>10, <1>12, <1>13, <1>14 DEF CInv

\* The calls on c of a session that has a goal for it.
LEMMA CmdShape ==
    ASSUME Inv, NEW c \in Controls, NEW p \in Slots, ShapeOK(p, c), todo[p] # << >>, Cmd(p).on = c, Aim(p, c) # "any"
    PROVE  /\ Cmd(p) \in Helpful(c, Aim(p, c))
           /\ Aim(p, c) \in Wants => /\ Cmd(p) = LevelCall(c, Aim(p, c)) => ~Left(p, GetCall(c)) /\ ~Left(p, OnCall(c))
                                     /\ Cmd(p) = OnCall(c) => ~Left(p, GetCall(c)) /\ LevelCall(c, Aim(p, c)) \in Of(Tail(todo[p]))
<1> DEFINE g == Aim(p, c)  t == todo[p]
<1>1. Shape(t, c, g)
  BY AimFacts DEF ShapeOK
<1>2. /\ t \in Seq(Call) /\ t # << >> /\ Cmd(p) = t[1] /\ 1 \in DOMAIN t /\ Of(t) = Of(Tail(t)) \union {t[1]}
      /\ \A i \in DOMAIN t : i \in Nat /\ i >= 1
  BY TailFacts, LenProperties DEF Inv, Types, Cmd
<1> HIDE DEF g, t
<1>3. Cmd(p) \in Helpful(c, g)
  BY <1>1, <1>2 DEF Shape, Of
<1>4. OnCall(c) # GetCall(c) /\ LevelCall(c, g) # GetCall(c) /\ LevelCall(c, g) # OnCall(c)
  BY CallsDiffer
<1>5. ASSUME NEW X, NEW y, NEW x \in X, NoneAfter(t, X, y), t[1] \in y, t[1] # x PROVE x \notin Of(t)
  <2> SUFFICES ASSUME x \in Of(t) PROVE FALSE
    OBVIOUS
  <2>1. PICK i \in DOMAIN t : t[i] = x
    BY DEF Of
  <2>2. 1 < i
    BY <1>2, <1>5, <2>1
  <2> QED BY <1>2, <1>5, <2>1, <2>2 DEF NoneAfter
<1>6. ASSUME g \in Wants, Cmd(p) = LevelCall(c, g) PROVE GetCall(c) \notin Of(t) /\ OnCall(c) \notin Of(t)
  <2>1. NoneAfter(t, {GetCall(c)}, {OnCall(c), LevelCall(c, g)}) /\ NoneAfter(t, {OnCall(c)}, {LevelCall(c, g)})
    BY <1>1, <1>6 DEF Shape
  <2>2. t[1] \in {LevelCall(c, g)} /\ t[1] \in {OnCall(c), LevelCall(c, g)} /\ t[1] # GetCall(c) /\ t[1] # OnCall(c)
    BY <1>2, <1>4, <1>6
  <2>3. GetCall(c) \notin Of(t)
    BY <1>5, <2>1, <2>2
  <2>4. OnCall(c) \notin Of(t)
    BY <1>5, <2>1, <2>2
  <2> QED BY <2>3, <2>4
<1>7. ASSUME g \in Wants, Cmd(p) = OnCall(c) PROVE GetCall(c) \notin Of(t) /\ LevelCall(c, g) \in Of(Tail(t))
  <2>1. NoneAfter(t, {GetCall(c)}, {OnCall(c), LevelCall(c, g)}) /\ (OnCall(c) \in Of(t) => LevelCall(c, g) \in Of(t))
    BY <1>1, <1>7 DEF Shape
  <2>2. t[1] \in {OnCall(c), LevelCall(c, g)} /\ t[1] # GetCall(c) /\ t[1] # LevelCall(c, g)
    BY <1>2, <1>4, <1>7
  <2>3. GetCall(c) \notin Of(t)
    BY <1>5, <2>1, <2>2
  <2>4. LevelCall(c, g) \in Of(t)
    BY <1>2, <1>7, <2>1
  <2> QED BY <1>2, <2>2, <2>3, <2>4
<1> QED BY <1>3, <1>6, <1>7 DEF g, t, Left

\* The kinds of the calls.
LEMMA CallKinds ==
    ASSUME NEW c, NEW g, NEW x \in Helpful(c, g), g \in {"loud", "live", "mute"}
    PROVE  /\ x.do = "sget" => g = "loud" /\ x = GetCall(c)
           /\ x.do = "raise" => g = "loud" /\ x = LevelCall(c, g)
           /\ x.do # "sget" /\ g \in Wants => x = OnCall(c) \/ x = LevelCall(c, g)
           /\ x.do # "sget" /\ g = "mute" => x = OffCall(c) /\ x.do = "sset"
           /\ OnCall(c).do = "sset" /\ GetCall(c).do = "sget"
<1>1. /\ GetCall(c).do = "sget" /\ OnCall(c).do = "sset" /\ OffCall(c).do = "sset"
      /\ LevelCall(c, "loud").do = "raise" /\ LevelCall(c, "live").do = "sset"
  BY DEF GetCall, OnCall, OffCall, LevelCall, Sget, Sset, Raise
<1>2. CASE g = "loud"
  BY <1>1, <1>2 DEF Helpful
<1>3. CASE g = "live"
  BY <1>1, <1>3 DEF Helpful, Wants
<1>4. CASE g = "mute"
  BY <1>1, <1>4 DEF Helpful, Wants
<1> QED BY <1>2, <1>3, <1>4

\* A call that is done, and has not been begun, is a call less.
LEMMA TailWaits ==
    ASSUME Inv, NEW p \in Slots, todo[p] # << >>, todo'[p] = Tail(todo[p]), next'[p] = 0
    PROVE  /\ \A x : Left(p, x) <=> x = Cmd(p) \/ Left(p, x)'
           /\ \A x : Waits(p, x)' <=> Left(p, x)'
           /\ \A x : Waits(p, x) /\ x # Cmd(p) => Waits(p, x)'
           /\ next[p] # 0 => \A x : Waits(p, x)' <=> Waits(p, x)
           /\ \A c : ~Mid(p, c)'
           /\ \A c, g : Shape(todo[p], c, g) => Shape(todo'[p], c, g)
<1>1. todo[p] \in Seq(Call)
  BY DEF Inv, Types
<1>2. Of(todo[p]) = Of(Tail(todo[p])) \union {Cmd(p)}
  BY <1>1, TailFacts DEF Cmd
<1>3. \A c, g : Shape(todo[p], c, g) => Shape(todo'[p], c, g)
  BY <1>1, ShapeTail
<1>4. \A x : (Left(p, x)' <=> x \in Of(Tail(todo[p]))) /\ (Left(p, x) <=> x \in Of(todo[p]))
  BY DEF Left
<1>5. \A x : Waits(p, x)' <=> x \in Of(Tail(todo[p]))
  BY DEF Waits, Unbegun
<1>6. \A x : Waits(p, x) => x \in Of(todo[p])
  BY <1>2 DEF Waits, Unbegun
<1>7. next[p] # 0 => \A x : Waits(p, x) <=> x \in Of(Tail(todo[p]))
  BY DEF Waits, Unbegun
<1>8. \A c : ~Mid(p, c)'
  BY DEF Mid
<1> QED BY <1>2, <1>3, <1>4, <1>5, <1>6, <1>7, <1>8

\* A call on c that ends without a write: a level is read, or found to be loud enough, tmixer
\* has failed, or it prints what it has written.
LEMMA DropGoals ==
    ASSUME Inv, GoalInv, NEW p \in Slots, NoControl(p) \/ ReadLevel(p) \/ LoudEnough(p) \/ OssShow(p), NEW c \in Controls
    PROVE  CInv(c)'
<1>0. Types /\ (\A q \in Slots : SessionOK(q)) /\ CInv(c) /\ QInv(p, c)
  BY DEF Inv, GoalInv, CInv
<1>1. /\ todo[p] # << >> /\ driver' = driver /\ mix' = mix /\ session' = session /\ spoiled' = spoiled /\ kept' = kept
  BY <1>0 DEF NoControl, ReadLevel, LoudEnough, OssShow, Calls, SessionOK, CallOK
<1>2. PICK answer : CallDone(p, answer)
  BY DEF NoControl, ReadLevel, LoudEnough, OssShow
<1>3. /\ next'[p] = 0 /\ todo'[p] = Tail(todo[p]) /\ snap'[p] = NoSnap
      /\ \A q \in Slots : q # p => next'[q] = next[q] /\ todo'[q] = todo[q] /\ snap'[q] = snap[q]
  BY <1>2, DoneFacts
<1>4. /\ \A q \in Slots : q # p => known'[q] = known[q]
      /\ \A d \in Outputs : d # Cmd(p).on => known'[p][d] = known[p][d]
  <2>1. known \in [Slots -> [Outputs -> 0..100]]
    BY <1>0 DEF Types
  <2>2. known' = known \/ \E n : known' = [known EXCEPT ![p][Cmd(p).on] = n]
    BY DEF NoControl, ReadLevel, LoudEnough, OssShow
  <2> QED BY <2>1, <2>2
<1>5. Still(c) /\ kept'[c] = kept[c]
  BY <1>1 DEF Still
<1>6. \A q \in Slots : q # p => View(q, c)
  BY <1>1, <1>3, <1>4, ViewIdle
<1>7. CASE Cmd(p).on # c
  <2>1. View(p, c)
    BY <1>1, <1>3, <1>4, <1>7, ViewAway
  <2> QED BY <1>0, <1>5, <1>6, <2>1, AwayKeeps
<1>8. CASE Cmd(p).on = c
  <2> DEFINE g == Aim(p, c)
  <2>1. /\ GoalOf(p, c)' = GoalOf(p, c) /\ Aim(p, c)' = g
    BY <1>1 DEF GoalOf, Aim
  <2>2. /\ HasDriver(c)' = HasDriver(c) /\ (\A h : MixLow(c, h)' = MixLow(c, h)) /\ (\A k : MixOn(c, k)' = MixOn(c, k))
        /\ OssOK(c)' /\ (MeetsKept(c)' <=> MeetsKept(c))
    BY <1>0, <1>5, StillFacts DEF CInv
  <2>3. /\ \A x : Left(p, x) <=> x = Cmd(p) \/ Left(p, x)'
        /\ \A x : Waits(p, x) /\ x # Cmd(p) => Waits(p, x)'
        /\ next[p] # 0 => \A x : Waits(p, x)' <=> Waits(p, x)
        /\ ~Mid(p, c)'
        /\ \A h : Shape(todo[p], c, h) => Shape(todo'[p], c, h)
    BY <1>1, <1>3, TailWaits
  <2>4. g \in {"any", "loud", "live", "mute"}
    BY AimType DEF Goals
  <2>5. g # "any" => Cmd(p) \in Helpful(c, g)
    BY <1>0, <1>1, <1>8, CmdShape DEF QInv
  <2>6. /\ NoControl(p) => ~HasDriver(c)
        /\ ReadLevel(p) => Cmd(p).do = "sget" /\ next[p] = 0
        /\ LoudEnough(p) => Cmd(p).do = "raise" /\ known[p][c] >= VOLUME /\ next[p] = 0 /\ known' = known
        /\ OssShow(p) => driver = "oss" /\ next[p] = 2 /\ known' = known
    BY <1>8 DEF NoControl, ReadLevel, LoudEnough, OssShow, Calls
  <2>7. OssShow(p) => Cmd(p).do # "sget"
    BY <1>0, <2>6 DEF SessionOK, CallOK
  <2>8. driver = "alsa" => HasDriver(c)
    BY DEF HasDriver
  <2>9. QInv(p, c)'
    <3>1. ShapeOK(p, c)'
      BY <1>0, <2>1, <2>3 DEF QInv, ShapeOK
    <3>2. ReadOK(p, c)'
      <4> SUFFICES ASSUME g = "loud", HasDriver(c), ~Left(p, GetCall(c))', known'[p][c] >= VOLUME PROVE ~MixLow(c, "loud")
        BY <2>1, <2>2, <2>3 DEF ReadOK
      <4>1. CASE ReadLevel(p)
        <5>1. c \in Outputs
          BY AimFacts
        <5>2. known' = [known EXCEPT ![p][c] = Shown(c, mix[c]).level]
          BY <1>8, <4>1, <5>1 DEF ReadLevel
        <5>3. known \in [Slots -> [Outputs -> 0..100]] /\ mix[c] \in Element(c)
          BY <1>0 DEF Types
        <5>4. known'[p][c] = Shown(c, mix[c]).level
          BY <5>1, <5>2, <5>3
        <5>5. Shown(c, mix[c]).level = Percent(mix[c][1].level, Top) /\ Shown(c, mix[c]).level \in 0..100
          BY <5>1, <5>3, ShownType, OutPrints
        <5> DEFINE l == Percent(mix[c][1].level, Top)
        <5>6. l >= VOLUME /\ l \in 0..100
          BY <5>4, <5>5
        <5> HIDE DEF l
        <5>7. ~(l < VOLUME)
          BY <5>6 DEF VOLUME
        <5> QED BY <5>7 DEF MixLow, Low, Target, l
      <4>2. CASE LoudEnough(p) \/ OssShow(p)
        <5>1. Cmd(p).do # "sget" /\ known'[p][c] = known[p][c]
          BY <2>6, <2>7, <4>2
        <5>2. Cmd(p) # GetCall(c)
          BY <5>1 DEF GetCall, Sget
        <5>3. ~Left(p, GetCall(c))
          BY <2>3, <5>2
        <5> QED BY <1>0, <5>1, <5>3 DEF QInv, ReadOK
      <4> QED BY <2>6, <4>1, <4>2
    <3>3. MidOK(p, c)'
      BY <2>3 DEF MidOK
    <3>4. ASSUME NEW k \in DOMAIN Channels[c], Ruled(c, k) PROVE OnOK(p, c, k)' /\ OffOK(p, c, k)'
      <4>1. OnOK(p, c, k)
        BY <1>0, <3>4 DEF QInv
      <4>2. driver = "alsa" => Cmd(p) # OnCall(c)
        <5>1. OnCall(c).do = "sset"
          BY DEF OnCall, Sset
        <5> QED BY <2>6, <2>8, <5>1
      <4>3. OnOK(p, c, k)'
        BY <1>1, <2>1, <2>2, <2>3, <4>1, <4>2 DEF OnOK
      <4> QED BY <2>3, <4>3 DEF OffOK
    <3> QED BY <3>1, <3>2, <3>3, <3>4 DEF QInv
  <2>10. \A q \in Slots : QInv(q, c)'
    BY <1>0, <1>5, <1>6, <2>9, ViewKeeps DEF CInv
  <2>11. \A q \in Slots : q # p => /\ Aim(q, c)' = Aim(q, c)
                                   /\ \A h : WillRaise(q, c, h)' <=> WillRaise(q, c, h)
                                   /\ \A k : WillSwitchOff(q, c, k)' <=> WillSwitchOff(q, c, k)
    BY <1>1, <1>6, ViewWill DEF View
  <2>12. ASSUME NEW h \in Wants, g = h, HasDriver(c), MixLow(c, h), WillRaise(p, c, h) PROVE WillRaise(p, c, h)'
    <3>1. Cmd(p) # LevelCall(c, h) \/ next[p] # 0
      <4> SUFFICES ASSUME Cmd(p) = LevelCall(c, h), next[p] = 0 PROVE FALSE
        OBVIOUS
      <4>1. LevelCall(c, h).do # "sget"
        BY DEF LevelCall, Raise, Sset
      <4>2. LoudEnough(p)
        BY <2>6, <2>12, <4>1
      <4>3. h = "loud"
        <5>1. Cmd(p).do = "raise" /\ g # "any"
          BY <2>6, <2>12, <4>2 DEF Wants
        <5> QED BY <2>4, <2>5, <2>12, <5>1, CallKinds
      <4>4. ~Left(p, GetCall(c))
        BY <1>0, <1>1, <1>8, <2>12, <4>3, CmdShape DEF QInv
      <4>5. ~MixLow(c, "loud")
        BY <1>0, <2>6, <2>12, <4>2, <4>3, <4>4 DEF QInv, ReadOK
      <4> QED BY <2>12, <4>3, <4>5
    <3>2. Waits(p, LevelCall(c, h))
      <4>1. Mid(p, c) => driver = "oss"
        <5>1. Mid(p, c) => next[p] # 0
          BY DEF Mid
        <5> QED BY <2>6, <2>12, <5>1
      <4> QED BY <2>12, <4>1 DEF WillRaise
    <3> QED BY <2>3, <3>1, <3>2 DEF WillRaise
  <2>13. ASSUME NEW k, g = "mute", HasDriver(c), WillSwitchOff(p, c, k) PROVE WillSwitchOff(p, c, k)'
    <3>1. OssShow(p)
      <4>1. Cmd(p).do = "sset"
        <5>1. Cmd(p) \in Helpful(c, g)
          BY <2>5, <2>13
        <5> QED BY <2>13, <5>1, CallKinds
      <4> QED BY <2>6, <2>13, <4>1
    <3>2. driver = "oss" /\ next[p] # 0
      BY <2>6, <3>1
    <3>3. Waits(p, OffCall(c))
      BY <2>13, <3>2 DEF WillSwitchOff
    <3> QED BY <2>3, <3>2, <3>3 DEF WillSwitchOff
  <2>14. LevelOK(c)'
    <3> SUFFICES ASSUME NEW h \in Wants, HasDriver(c)', MixLow(c, h)', NEW r \in Slots, Aim(r, c)' = h
                 PROVE  \E q \in Slots : Aim(q, c)' = h /\ WillRaise(q, c, h)'
      BY DEF LevelOK
    <3>1. HasDriver(c) /\ MixLow(c, h) /\ Aim(r, c) = h
      BY <2>1, <2>2, <2>11
    <3>2. PICK q \in Slots : Aim(q, c) = h /\ WillRaise(q, c, h)
      BY <1>0, <3>1 DEF CInv, LevelOK
    <3>3. Aim(q, c)' = h /\ WillRaise(q, c, h)'
      BY <2>1, <2>11, <2>12, <3>1, <3>2
    <3> QED BY <3>3
  <2>15. MuteOK(c)'
    <3> SUFFICES ASSUME NEW k \in DOMAIN Channels[c], Ruled(c, k), HasDriver(c)', MixOn(c, k)', NEW r \in Slots, Aim(r, c)' = "mute"
                 PROVE  \E q \in Slots : Aim(q, c)' = "mute" /\ WillSwitchOff(q, c, k)'
      BY DEF MuteOK, Ruled
    <3>1. HasDriver(c) /\ MixOn(c, k) /\ Aim(r, c) = "mute"
      BY <2>1, <2>2, <2>11
    <3>2. PICK q \in Slots : Aim(q, c) = "mute" /\ WillSwitchOff(q, c, k)
      BY <1>0, <3>1 DEF CInv, MuteOK
    <3>3. Aim(q, c)' = "mute" /\ WillSwitchOff(q, c, k)'
      BY <2>1, <2>11, <2>13, <3>1, <3>2
    <3> QED BY <3>3
  <2>16. KeptOK(c)'
    <3>1. \A q \in Slots : Aim(q, c)' = Aim(q, c)
      BY <2>1, <2>11
    <3> QED BY <1>0, <1>5, <2>2, <3>1 DEF CInv, KeptOK
  <2> QED BY <2>2, <2>10, <2>14, <2>15, <2>16 DEF CInv
<1> QED BY <1>7, <1>8

\* tmixer-alsa reads the control.
LEMMA LoadGoals == ASSUME Inv, GoalInv, NEW p \in Slots, Load(p), NEW c \in Controls PROVE CInv(c)'
<1>0. Types /\ (\A q \in Slots : SessionOK(q)) /\ CInv(c) /\ QInv(p, c)
  BY DEF Inv, GoalInv, CInv
<1>1. /\ driver = "alsa" /\ driver' = driver /\ mix' = mix /\ session' = session /\ todo' = todo /\ known' = known
      /\ spoiled' = spoiled /\ kept' = kept
  BY DEF Load
<1>2. /\ snap'[p] = mix[Cmd(p).on] /\ next'[p] = 1
      /\ \A q \in Slots : q # p => snap'[q] = snap[q] /\ next'[q] = next[q]
  BY <1>0 DEF Load, Types
<1>3. todo[p] # << >> /\ next[p] = 0
  BY DEF Load, Sets, Calls
<1>4. Still(c) /\ kept'[c] = kept[c]
  BY <1>1 DEF Still
<1>5. \A q \in Slots : q # p => View(q, c)
  BY <1>1, <1>2, ViewIdle
<1>6. CASE Cmd(p).on # c
  <2>1. View(p, c)
    BY <1>1, <1>3, <1>6, ViewAway
  <2> QED BY <1>0, <1>4, <1>5, <2>1, AwayKeeps
<1>7. CASE Cmd(p).on = c
  <2>1. GoalOf(p, c)' = GoalOf(p, c) /\ Aim(p, c)' = Aim(p, c) /\ Cmd(p)' = Cmd(p)
    BY <1>1 DEF GoalOf, Aim, Cmd
  <2>2. /\ HasDriver(c)' = HasDriver(c) /\ (\A h : MixLow(c, h)' = MixLow(c, h)) /\ (\A k : MixOn(c, k)' = MixOn(c, k))
        /\ OssOK(c)' /\ (MeetsKept(c)' <=> MeetsKept(c))
    BY <1>0, <1>4, StillFacts DEF CInv
  <2>3. (\A h : SnapLow(p, c, h)' = MixLow(c, h)) /\ (\A k : SnapOn(p, k)' = MixOn(c, k))
    BY <1>1, <1>2, <1>7, TopSame DEF SnapLow, MixLow, Low, SnapOn, MixOn
  <2>4. \A x : Left(p, x)' <=> Left(p, x)
    BY <1>1 DEF Left
  <2>5. \A x : Waits(p, x) => x = Cmd(p) \/ Waits(p, x)'
    <3>1. todo[p] \in Seq(Call)
      BY <1>0 DEF Types
    <3>2. Of(todo[p]) = Of(Tail(todo[p])) \union {Cmd(p)}
      BY <1>3, <3>1, TailFacts DEF Cmd
    <3>3. Unbegun(p) = todo[p] /\ Unbegun(p)' = Tail(todo[p])
      BY <1>1, <1>2, <1>3 DEF Unbegun
    <3> QED BY <3>2, <3>3 DEF Waits
  <2>6. Mid(p, c)' /\ ~Mid(p, c)
    BY <1>2, <1>3, <1>7, <2>1 DEF Mid
  <2>7. \A k \in DOMAIN Channels[c] : k \in Nat /\ k >= 1
    BY ChannelFacts
  <2>8. QInv(p, c)'
    <3>1. ShapeOK(p, c)'
      BY <1>0, <1>1, <2>1 DEF QInv, ShapeOK
    <3>2. ReadOK(p, c)'
      BY <1>0, <1>1, <2>1, <2>2, <2>3, <2>4 DEF QInv, ReadOK
    <3>3. MidOK(p, c)'
      BY <1>2 DEF MidOK
    <3>4. ASSUME NEW k \in DOMAIN Channels[c], Ruled(c, k) PROVE OnOK(p, c, k)' /\ OffOK(p, c, k)'
      <4>1. OnOK(p, c, k) /\ ~(k < next'[p])
        BY <1>0, <1>2, <2>7, <3>4 DEF QInv
      <4>2. OnOK(p, c, k)'
        BY <1>1, <2>1, <2>2, <2>3, <2>4, <4>1 DEF OnOK
      <4> QED BY <4>1, <4>2 DEF OffOK
    <3> QED BY <3>1, <3>2, <3>3, <3>4 DEF QInv
  <2>9. \A q \in Slots : QInv(q, c)'
    BY <1>0, <1>4, <1>5, <2>8, ViewKeeps DEF CInv
  <2>10. \A q \in Slots : q # p => /\ Aim(q, c)' = Aim(q, c)
                                   /\ \A h : WillRaise(q, c, h)' <=> WillRaise(q, c, h)
                                   /\ \A k : WillSwitchOff(q, c, k)' <=> WillSwitchOff(q, c, k)
    BY <1>1, <1>5, ViewWill DEF View
  <2>11. ASSUME NEW h \in Wants, MixLow(c, h), WillRaise(p, c, h) PROVE WillRaise(p, c, h)'
    <3>1. Waits(p, LevelCall(c, h))
      BY <2>6, <2>11 DEF WillRaise
    <3> QED BY <1>1, <2>1, <2>3, <2>5, <2>6, <2>11, <3>1 DEF WillRaise
  <2>12. ASSUME NEW k \in DOMAIN Channels[c], MixOn(c, k), WillSwitchOff(p, c, k) PROVE WillSwitchOff(p, c, k)'
    <3>1. Waits(p, OffCall(c))
      BY <2>6, <2>12 DEF WillSwitchOff
    <3>2. next'[p] <= k
      BY <1>2, <2>7
    <3> QED BY <1>1, <2>1, <2>3, <2>5, <2>6, <2>12, <3>1, <3>2 DEF WillSwitchOff
  <2>13. LevelOK(c)'
    <3> SUFFICES ASSUME NEW h \in Wants, HasDriver(c)', MixLow(c, h)', NEW r \in Slots, Aim(r, c)' = h
                 PROVE  \E q \in Slots : Aim(q, c)' = h /\ WillRaise(q, c, h)'
      BY DEF LevelOK
    <3>1. HasDriver(c) /\ MixLow(c, h) /\ Aim(r, c) = h
      BY <2>1, <2>2, <2>10
    <3>2. PICK q \in Slots : Aim(q, c) = h /\ WillRaise(q, c, h)
      BY <1>0, <3>1 DEF CInv, LevelOK
    <3>3. Aim(q, c)' = h /\ WillRaise(q, c, h)'
      BY <2>1, <2>10, <2>11, <3>1, <3>2
    <3> QED BY <3>3
  <2>14. MuteOK(c)'
    <3> SUFFICES ASSUME NEW k \in DOMAIN Channels[c], Ruled(c, k), HasDriver(c)', MixOn(c, k)', NEW r \in Slots, Aim(r, c)' = "mute"
                 PROVE  \E q \in Slots : Aim(q, c)' = "mute" /\ WillSwitchOff(q, c, k)'
      BY DEF MuteOK, Ruled
    <3>1. HasDriver(c) /\ MixOn(c, k) /\ Aim(r, c) = "mute"
      BY <2>1, <2>2, <2>10
    <3>2. PICK q \in Slots : Aim(q, c) = "mute" /\ WillSwitchOff(q, c, k)
      BY <1>0, <3>1 DEF CInv, MuteOK
    <3>3. Aim(q, c)' = "mute" /\ WillSwitchOff(q, c, k)'
      BY <2>1, <2>10, <2>12, <3>1, <3>2
    <3> QED BY <3>3
  <2>15. KeptOK(c)'
    <3>1. \A q \in Slots : Aim(q, c)' = Aim(q, c)
      BY <2>1, <2>10
    <3> QED BY <1>0, <1>4, <2>2, <3>1 DEF CInv, KeptOK
  <2> QED BY <2>2, <2>9, <2>13, <2>14, <2>15 DEF CInv
<1> QED BY <1>6, <1>7

\* One that has no aim for c.
LEMMA NoAim ==
    ASSUME NEW q, NEW c, QInv(q, c), Aim(q, c)' = "any", session'[q] = session[q], todo'[q] = todo[q]
    PROVE  QInv(q, c)'
<1>1. GoalOf(q, c)' = GoalOf(q, c)
  BY DEF GoalOf
<1>2. "any" \notin Wants /\ "mute" # "any" /\ "loud" # "any"
  BY DEF Wants
<1>3. ShapeOK(q, c)'
  BY <1>1 DEF QInv, ShapeOK
<1> QED BY <1>2, <1>3 DEF QInv, ReadOK, MidOK, OnOK, OffOK

\* One that has the aim of a session that writes c.
LEMMA SameAim ==
    ASSUME NEW q, NEW c \in Controls, QInv(q, c), View(q, c), driver' = driver, Aim(q, c) # "loud",
           Aim(q, c) \in Wants /\ driver = "alsa" => \A k \in DOMAIN Channels[c] : Ruled(c, k) => MixOn(c, k)'
    PROVE  QInv(q, c)'
<1>1. /\ GoalOf(q, c)' = GoalOf(q, c) /\ Aim(q, c)' = Aim(q, c)
      /\ \A x : x.on = c => (Left(q, x)' <=> Left(q, x))
      /\ \A g : Shape(todo[q], c, g) => Shape(todo'[q], c, g)
      /\ Mid(q, c)' <=> Mid(q, c)
      /\ Mid(q, c) => next'[q] = next[q] /\ snap'[q] = snap[q] /\ Cmd(q)' = Cmd(q)
  BY DEF View
<1>2. GetCall(c).on = c /\ OnCall(c).on = c
  BY CallsDiffer
<1>3. Mid(q, c) => (\A g : SnapLow(q, c, g)' = SnapLow(q, c, g)) /\ \A k : SnapOn(q, k)' = SnapOn(q, k)
  BY <1>1, SnapFacts
<1>4. ShapeOK(q, c)' /\ ReadOK(q, c)'
  BY <1>1 DEF QInv, ShapeOK, ReadOK
<1>5. MidOK(q, c)'
  BY <1>1, <1>3 DEF QInv, MidOK
<1>6. ASSUME NEW k \in DOMAIN Channels[c], Ruled(c, k) PROVE OnOK(q, c, k)' /\ OffOK(q, c, k)'
  <2>1. OnOK(q, c, k) /\ OffOK(q, c, k)
    BY <1>6 DEF QInv
  <2>2. Aim(q, c) \in Wants /\ driver = "alsa" => MixOn(c, k)'
    BY <1>6
  <2>3. OnOK(q, c, k)'
    BY <1>1, <1>2, <1>3, <2>1, <2>2 DEF OnOK
  <2>4. OffOK(q, c, k)'
    BY <1>1, <1>3, <2>1 DEF OffOK
  <2> QED BY <2>3, <2>4
<1> QED BY <1>4, <1>5, <1>6 DEF QInv

\* What the others are after a step of p that writes c.
LEMMA WroteOthers ==
    ASSUME Inv, NEW p \in Slots, NEW c \in Controls, CInv(c), Wrote(p, c), session' = session, driver' = driver,
           NEW q \in Slots, q # p,
           todo'[q] = todo[q], next'[q] = next[q], snap'[q] = snap[q], known'[q] = known[q],
           Aim(p, c) = "live" /\ driver = "alsa" /\ ~Fragile(c) /\ mix'[c] # mix[c] =>
               \A k \in DOMAIN Channels[c] : Ruled(c, k) => MixOn(c, k)'
    PROVE  /\ QInv(q, c)'
           /\ mix'[c] = mix[c] => View(q, c)
           /\ Aim(q, c)' # "any" => View(q, c) /\ (mix'[c] # mix[c] => Aim(q, c) = Aim(p, c))
<1>0. QInv(q, c)
  BY DEF CInv
<1>1. CASE mix'[c] = mix[c]
  <2>1. c \in spoiled'[q] <=> c \in spoiled[q]
    BY <1>1, WroteAims
  <2>2. View(q, c) /\ Still(c)
    BY <1>1, <2>1, ViewIdle DEF Still
  <2> QED BY <1>0, <1>1, <2>2, ViewKeeps
<1>2. CASE mix'[c] # mix[c] /\ Aim(q, c)' = "any"
  BY <1>0, <1>2, NoAim
<1>3. CASE mix'[c] # mix[c] /\ Aim(q, c)' # "any"
  <2>1. /\ Aim(q, c)' = Aim(q, c) /\ Aim(q, c) = Aim(p, c)
        /\ Aim(q, c) \in Wants => ~Fragile(c)
        /\ c \in spoiled'[q] <=> c \in spoiled[q]
    BY <1>3, WroteAims
  <2>2. View(q, c)
    BY <2>1, ViewIdle
  <2>3. Aim(q, c) # "loud"
    <3>1. Aim(q, c) = "loud" => c \in Outputs /\ "loud" \in Wants
      BY AimFacts DEF Wants
    <3> QED BY <2>1, <3>1 DEF Fragile
  <2>4. Aim(q, c) \in Wants /\ driver = "alsa" => \A k \in DOMAIN Channels[c] : Ruled(c, k) => MixOn(c, k)'
    BY <1>3, <2>1, <2>3 DEF Wants
  <2>5. QInv(q, c)'
    BY <1>0, <2>2, <2>3, <2>4, SameAim
  <2> QED BY <1>3, <2>1, <2>2, <2>5
<1> QED BY <1>1, <1>2, <1>3

LEMMA WroteKept ==
    ASSUME Inv, NEW p \in Slots, NEW c \in Controls, CInv(c), Wrote(p, c), session' = session, driver' = driver, HasDriver(c)
    PROVE  KeptOK(c)'
<1>0. KeptOK(c) /\ Aim(p, c)' = Aim(p, c) /\ HasDriver(c)'
  BY WroteAims, HasSame DEF CInv
<1>1. CASE mix'[c] = mix[c]
  <2>1. kept'[c] = kept[c] /\ \A q \in Slots : c \in spoiled'[q] <=> c \in spoiled[q]
    BY <1>1, WroteAims
  <2>2. \A q \in Slots : Aim(q, c)' = Aim(q, c)
    BY <2>1 DEF Aim
  <2>3. MeetsKept(c)' <=> MeetsKept(c)
    BY <1>1, <2>1, StillFacts DEF Still
  <2> QED BY <1>0, <2>1, <2>2, <2>3 DEF KeptOK
<1>2. CASE mix'[c] # mix[c]
  <2>1. (kept'[c] = kept[c] /\ kept[c] = Aim(p, c)) \/ kept'[c] = "any"
    BY <1>2, WroteAims
  <2> QED BY <1>0, <2>1 DEF KeptOK
<1> QED BY <1>1, <1>2

\* tmixer-oss writes the control.
LEMMA OssGoals == ASSUME Inv, GoalInv, NEW p \in Slots, OssWrite(p), NEW c \in Controls PROVE CInv(c)'
<1> DEFINE d == Cmd(p).on
           v == OssLevel(Cmd(p).arg)
<1>0. Types /\ (\A q \in Slots : SessionOK(q)) /\ CInv(c) /\ QInv(p, c)
  BY DEF Inv, GoalInv, CInv
<1>1. /\ driver = "oss" /\ d \in Controls /\ HasDriver(d) /\ todo[p] # << >> /\ next[p] = 0
      /\ Cmd(p).do # "sget" /\ Top = 100 /\ v \in 0..100
      /\ mix'[d][1].level = v
      /\ (\A k \in DOMAIN Channels[d] : mix'[d][k].on <=> (k = 1 /\ v > 0))
      /\ (\A e \in Controls : e # d => mix'[e] = mix[e])
      /\ driver' = driver /\ session' = session /\ known' = known /\ todo' = todo /\ snap' = snap
      /\ next' = [next EXCEPT ![p] = 2]
      /\ Wrote(p, d)
  BY OssFacts
<1>2. next'[p] = 2 /\ \A q \in Slots : q # p => next'[q] = next[q]
  BY <1>0, <1>1 DEF Types
<1>3. CASE d # c
  <2>1. Still(c) /\ kept'[c] = kept[c] /\ \A q \in Slots : c \in spoiled'[q] <=> c \in spoiled[q]
    BY <1>1, <1>3, WroteAims DEF Still
  <2>2. \A q \in Slots : q # p => View(q, c)
    BY <1>1, <1>2, <2>1, ViewIdle
  <2>3. View(p, c)
    BY <1>1, <1>3, <2>1, ViewAway
  <2> QED BY <1>0, <2>1, <2>2, <2>3, AwayKeeps
<1>4. CASE d = c
  <2> DEFINE g == Aim(p, c)
  <2>1. Wrote(p, c) /\ HasDriver(c) /\ Cmd(p).on = c
    BY <1>1, <1>4
  <2>2. Aim(p, c)' = g /\ GoalOf(p, c)' = GoalOf(p, c) /\ Cmd(p)' = Cmd(p)
    BY <1>1, <2>1, WroteAims DEF GoalOf, Cmd
  <2>3. \A q \in Slots : q # p => /\ QInv(q, c)'
                                  /\ mix'[c] = mix[c] => View(q, c)
                                  /\ Aim(q, c)' # "any" => View(q, c) /\ (mix'[c] # mix[c] => Aim(q, c) = g)
    BY <1>0, <1>1, <1>2, <2>1, WroteOthers
  <2>4. g \in {"any", "loud", "live", "mute"}
    BY AimType DEF Goals
  <2>5. g # "any" => Cmd(p) \in Helpful(c, g)
    BY <1>0, <1>1, <2>1, CmdShape DEF QInv
  <2>6. g \in Wants => Cmd(p) = LevelCall(c, g) \/ (Cmd(p) = OnCall(c) /\ LevelCall(c, g) \in Of(Tail(todo[p])))
    <3>1. g \in Wants => g # "any" /\ (Cmd(p) = OnCall(c) \/ Cmd(p) = LevelCall(c, g))
      BY <1>1, <2>4, <2>5, CallKinds DEF Wants
    <3>2. g \in Wants /\ Cmd(p) = OnCall(c) => LevelCall(c, g) \in Of(Tail(todo[p]))
      BY <1>0, <1>1, <2>1, <3>1, CmdShape DEF QInv
    <3> QED BY <3>1, <3>2
  <2>7. g = "mute" => Cmd(p) = OffCall(c)
    BY <1>1, <2>4, <2>5, CallKinds
  <2>8. \A h : MixLow(c, h)' <=> v < Target(c, h)
    <3>1. Percent(v, 100) = v /\ Top' = 100
      BY <1>1, PercentWhole, TopSame
    <3> QED BY <1>1, <1>4, <3>1 DEF MixLow, Low
  <2>9. \A h : Target(c, h) \in Int /\ VOLUME \in Int
    BY DEF Target, VOLUME, VOLUME_MIC, CAPTURE
  <2>10. \A h \in Wants : g = h /\ Cmd(p) = LevelCall(c, h) => ~MixLow(c, h)'
    <3> TAKE h \in Wants
    <3> SUFFICES ASSUME g = h, Cmd(p) = LevelCall(c, h) PROVE v = Target(c, h)
      BY <2>8, <2>9
    <3>1. (h = "loud" => In(c, Outs)) /\ (h = "live" => (In(c, Mics) \/ In(c, Caps)) /\ ~(In(c, Mics) /\ In(c, Caps)))
      BY AimFacts
    <3> QED BY <3>1, OssWritten
  <2>11. g = "loud" => ~MixLow(c, "loud")'
    <3> SUFFICES ASSUME g = "loud" PROVE ~MixLow(c, "loud")'
      OBVIOUS
    <3>1. g \in Wants /\ In(c, Outs)
      BY AimFacts DEF Wants
    <3>2. Cmd(p) = OnCall(c) => v = VOLUME
      BY <3>1, OssWritten
    <3>3. Target(c, "loud") = VOLUME
      BY DEF Target
    <3>4. Cmd(p) = OnCall(c) => ~(v < Target(c, "loud"))
      BY <2>9, <3>2, <3>3
    <3> QED BY <2>6, <2>8, <2>10, <3>1, <3>4
  <2>12. QInv(p, c)'
    <3>1. ShapeOK(p, c)'
      BY <1>0, <1>1, <2>2 DEF QInv, ShapeOK
    <3>2. ReadOK(p, c)'
      BY <1>1, <2>2, <2>11 DEF ReadOK
    <3>3. MidOK(p, c)' /\ \A k : OnOK(p, c, k)' /\ OffOK(p, c, k)'
      BY <1>1 DEF MidOK, OnOK, OffOK
    <3> QED BY <3>1, <3>2, <3>3 DEF QInv
  <2>13. HasDriver(c)' /\ \A q \in Slots : QInv(q, c)'
    BY <1>1, <2>1, <2>3, <2>12, HasSame
  <2>14. \A q \in Slots : q # p /\ View(q, c) =>
             /\ Aim(q, c)' = Aim(q, c)
             /\ \A h : WillRaise(q, c, h)' <=> WillRaise(q, c, h)
             /\ \A k : WillSwitchOff(q, c, k)' <=> WillSwitchOff(q, c, k)
    BY <1>1, ViewWill DEF View
  <2>15. ~Mid(p, c) /\ (\A x : x \in Of(Tail(todo[p])) => Waits(p, x)') /\ \A x : Waits(p, x) => x = Cmd(p) \/ Waits(p, x)'
    <3>1. todo[p] \in Seq(Call)
      BY <1>0 DEF Types
    <3>2. Of(todo[p]) = Of(Tail(todo[p])) \union {Cmd(p)}
      BY <1>1, <3>1, TailFacts DEF Cmd
    <3>3. Unbegun(p) = todo[p] /\ Unbegun(p)' = Tail(todo[p])
      BY <1>1, <1>2 DEF Unbegun
    <3> QED BY <1>1, <3>2, <3>3 DEF Waits, Mid
  <2>16. LevelOK(c)'
    <3> SUFFICES ASSUME NEW h \in Wants, MixLow(c, h)', NEW r \in Slots, Aim(r, c)' = h
                 PROVE  \E q \in Slots : Aim(q, c)' = h /\ WillRaise(q, c, h)'
      BY DEF LevelOK
    <3>0. h # "any"
      BY DEF Wants
    <3>1. CASE mix'[c] # mix[c]
      <4>1. g = h
        BY <2>2, <2>3, <2>14, <3>0, <3>1
      <4>2. LevelCall(c, h) \in Of(Tail(todo[p]))
        BY <2>6, <2>10, <4>1
      <4>3. WillRaise(p, c, h)'
        BY <2>15, <4>2 DEF WillRaise
      <4> QED BY <2>2, <4>1, <4>3
    <3>2. CASE mix'[c] = mix[c]
      <4>1. Still(c)
        BY <1>1, <3>2 DEF Still
      <4>2. MixLow(c, h) /\ Aim(r, c) = h
        BY <2>2, <2>3, <2>14, <3>2, <4>1, StillFacts
      <4>3. PICK q \in Slots : Aim(q, c) = h /\ WillRaise(q, c, h)
        BY <1>0, <2>1, <4>2 DEF CInv, LevelOK
      <4>4. CASE q # p
        <5>1. Aim(q, c)' = h /\ WillRaise(q, c, h)'
          BY <2>3, <2>14, <3>2, <4>3, <4>4
        <5> QED BY <5>1
      <4>5. CASE q = p
        <5>1. Waits(p, LevelCall(c, h)) /\ g = h
          BY <2>15, <4>3, <4>5 DEF WillRaise
        <5>2. Cmd(p) # LevelCall(c, h)
          BY <2>10, <5>1
        <5>3. WillRaise(p, c, h)'
          BY <2>15, <5>1, <5>2 DEF WillRaise
        <5> QED BY <2>2, <5>1, <5>3
      <4> QED BY <4>4, <4>5
    <3> QED BY <3>1, <3>2
  <2>17. MuteOK(c)'
    <3> SUFFICES ASSUME NEW k \in DOMAIN Channels[c], Ruled(c, k), MixOn(c, k)', NEW r \in Slots, Aim(r, c)' = "mute"
                 PROVE  \E q \in Slots : Aim(q, c)' = "mute" /\ WillSwitchOff(q, c, k)'
      BY DEF MuteOK, Ruled
    <3>1. g # "mute"
      <4> SUFFICES ASSUME g = "mute" PROVE FALSE
        OBVIOUS
      <4>1. v = 0
        BY <2>7, OssWritten
      <4>2. ~(v > 0)
        BY <4>1
      <4> QED BY <1>1, <1>4, <4>2 DEF MixOn
    <3>2. r # p
      BY <2>2, <3>1
    <3>3. mix'[c] = mix[c]
      BY <2>3, <2>14, <3>1, <3>2
    <3>4. Still(c)
      BY <1>1, <3>3 DEF Still
    <3>5. MixOn(c, k) /\ Aim(r, c) = "mute"
      BY <2>3, <2>14, <3>2, <3>3, <3>4, StillFacts
    <3>6. PICK q \in Slots : Aim(q, c) = "mute" /\ WillSwitchOff(q, c, k)
      BY <1>0, <2>1, <3>5 DEF CInv, MuteOK
    <3>7. q # p
      BY <3>1, <3>6
    <3>8. Aim(q, c)' = "mute" /\ WillSwitchOff(q, c, k)'
      BY <2>3, <2>14, <3>3, <3>6, <3>7
    <3> QED BY <3>8
  <2>18. OssOK(c)'
    <3>1. 1 \in DOMAIN Channels[c]
      BY ChannelFacts
    <3>2. mix'[c][1].on <=> v > 0
      BY <1>1, <1>4, <3>1
    <3> QED BY <1>1, <1>4, <3>2 DEF OssOK, MixOn
  <2>19. KeptOK(c)'
    BY <1>0, <1>1, <2>1, WroteKept
  <2> QED BY <2>13, <2>16, <2>17, <2>18, <2>19 DEF CInv
<1> QED BY <1>3, <1>4

\* What tmixer-alsa makes of its copy s when it comes to channel j.
Copied(c, s, j, a, new) ==
    /\ \A k \in DOMAIN Channels[c] : k # j => new[k] = s[k]
    /\ a = OnCall(c).arg => new[1].level = s[1].level /\ (Ruled(c, j) => new[j].on)
    /\ a = OffCall(c).arg => (Ruled(c, j) => ~new[j].on)
    /\ \A g \in Wants : a = LevelCall(c, g).arg /\ (g = "loud" => In(c, Outs))
                          /\ (g = "live" => (In(c, Mics) \/ In(c, Caps)) /\ ~(In(c, Mics) /\ In(c, Caps)))
           => /\ \A k \in DOMAIN Channels[c] : new[k].on = s[k].on
              /\ j = 1 => ~(Percent(new[1].level, Top) < Target(c, g))

LEMMA CopyFacts ==
    ASSUME driver = "alsa", NEW c \in Controls, NEW s \in Element(c), NEW j \in DOMAIN Channels[c], NEW a, NEW new,
           new = [s EXCEPT ![j] = NewChannel(c, j, s[j], a)]
    PROVE  Copied(c, s, j, a, new)
<1>1. DOMAIN s = DOMAIN Channels[c] /\ s[j] \in Chan /\ 1 \in DOMAIN Channels[c]
  BY ChannelFacts DEF Element
<1>2. new[j] = NewChannel(c, j, s[j], a) /\ \A k \in DOMAIN Channels[c] : k # j => new[k] = s[k]
  BY <1>1
<1>3. ASSUME a = OnCall(c).arg PROVE new[1].level = s[1].level /\ (Ruled(c, j) => new[j].on)
  <2>1. new[j].level = s[j].level /\ (Ruled(c, j) => new[j].on = TRUE)
    BY <1>1, <1>2, <1>3, SwitchWritten
  <2> QED BY <1>1, <1>2, <2>1
<1>4. ASSUME a = OffCall(c).arg, Ruled(c, j) PROVE ~new[j].on
  <2>1. new[j].on = FALSE
    BY <1>1, <1>2, <1>4, SwitchWritten
  <2> QED BY <2>1
<1>5. ASSUME NEW g \in Wants, a = LevelCall(c, g).arg, g = "loud" => In(c, Outs),
             g = "live" => (In(c, Mics) \/ In(c, Caps)) /\ ~(In(c, Mics) /\ In(c, Caps))
      PROVE  /\ \A k \in DOMAIN Channels[c] : new[k].on = s[k].on
             /\ j = 1 => ~(Percent(new[1].level, Top) < Target(c, g))
  <2>1. new[j].on = s[j].on /\ ~(Percent(new[j].level, Top) < Target(c, g))
    BY <1>1, <1>2, <1>5, LevelWritten
  <2> QED BY <1>2, <2>1
<1> QED BY <1>2, <1>3, <1>4, <1>5 DEF Copied

\* tmixer-alsa writes a channel.
LEMMA WriteGoals == ASSUME Inv, GoalInv, NEW p \in Slots, WriteChannel(p), NEW c \in Controls PROVE CInv(c)'
<1>0. Types /\ (\A q \in Slots : SessionOK(q)) /\ CInv(c) /\ QInv(p, c)
  BY DEF Inv, GoalInv, CInv
<1>a. PICK d, j, a, s, new, g : d = Cmd(p).on /\ j = next[p] /\ a = Cmd(p).arg /\ s = snap[p] /\ g = Aim(p, c)
                                /\ new = [s EXCEPT ![j] = NewChannel(d, j, s[j], a)]
  OBVIOUS
<1>1. /\ driver = "alsa" /\ HasDriver(d) /\ d \in Controls /\ todo[p] # << >> /\ Cmd(p).do # "sget"
      /\ j \in DOMAIN Channels[d] /\ s \in Element(d) /\ new \in Element(d)
      /\ driver' = driver /\ session' = session /\ known' = known
      /\ Wrote(p, d)
      /\ (\A e \in Controls : mix'[e] = IF e = d /\ new # s THEN new ELSE mix[e])
      /\ IF j = Len(Channels[d])
         THEN \E answer : CallDone(p, answer)
         ELSE /\ snap' = [snap EXCEPT ![p] = new] /\ next' = [next EXCEPT ![p] = j + 1]
              /\ todo' = todo /\ shown' = shown
  BY <1>a, WriteFacts
<1>2. j \in Nat /\ j # 0 /\ j >= 1 /\ Len(Channels[d]) \in Nat /\ DOMAIN Channels[d] = 1..Len(Channels[d])
  BY <1>1, ChannelFacts
<1>3. /\ \A q \in Slots : q # p => next'[q] = next[q] /\ todo'[q] = todo[q] /\ snap'[q] = snap[q] /\ known'[q] = known[q]
      /\ IF j = Len(Channels[d]) THEN todo'[p] = Tail(todo[p]) /\ next'[p] = 0
         ELSE todo'[p] = todo[p] /\ next'[p] = j + 1 /\ snap'[p] = new
  <2>1. CASE j = Len(Channels[d])
    BY <1>1, <2>1, DoneFacts
  <2>2. CASE j # Len(Channels[d])
    <3>1. next \in [Slots -> Nat] /\ snap = [q \in Slots |-> snap[q]]
      BY <1>0 DEF Types
    <3>2. snap' = [snap EXCEPT ![p] = new] /\ next' = [next EXCEPT ![p] = j + 1] /\ todo' = todo /\ known' = known
      BY <1>1, <2>2
    <3>3. next'[p] = j + 1 /\ \A q \in Slots : q # p => next'[q] = next[q]
      BY <3>1, <3>2
    <3>4. snap'[p] = new /\ \A q \in Slots : q # p => snap'[q] = snap[q]
      BY <3>1, <3>2
    <3> QED BY <2>2, <3>2, <3>3, <3>4
  <2> QED BY <2>1, <2>2
<1>4. CASE d # c
  <2>1. Still(c) /\ kept'[c] = kept[c] /\ \A q \in Slots : c \in spoiled'[q] <=> c \in spoiled[q]
    BY <1>1, <1>4, WroteAims DEF Still
  <2>2. \A q \in Slots : q # p => View(q, c)
    BY <1>1, <1>3, <2>1, ViewIdle
  <2>3. View(p, c)
    BY <1>a, <1>1, <1>3, <1>4, <2>1, ViewAway
  <2> QED BY <1>0, <2>1, <2>2, <2>3, AwayKeeps
<1>5. CASE d = c
  <2> DEFINE last == j = Len(Channels[c])
  <2>1. Wrote(p, c) /\ HasDriver(c) /\ Cmd(p).on = c /\ Cmd(p).arg = a
    BY <1>a, <1>1, <1>5
  <2>2. Aim(p, c)' = g /\ Aim(p, c) = g /\ GoalOf(p, c)' = GoalOf(p, c)
    BY <1>a, <1>1, <2>1, WroteAims DEF GoalOf
  <2>3. g \in {"any", "loud", "live", "mute"}
    BY <2>2, AimType DEF Goals
  <2>4. g # "any" => Cmd(p) \in Helpful(c, g)
    BY <1>0, <1>1, <2>1, <2>2, CmdShape DEF QInv
  <2>5. g \in Wants => \/ Cmd(p) = LevelCall(c, g) /\ ~Left(p, OnCall(c)) /\ ~Left(p, GetCall(c))
                       \/ Cmd(p) = OnCall(c) /\ LevelCall(c, g) \in Of(Tail(todo[p])) /\ ~Left(p, GetCall(c))
    <3>1. g \in Wants => g # "any" /\ (Cmd(p) = OnCall(c) \/ Cmd(p) = LevelCall(c, g))
      BY <1>1, <2>3, <2>4, CallKinds DEF Wants
    <3> QED BY <1>0, <1>1, <2>1, <2>2, <3>1, CmdShape DEF QInv
  <2>6. g = "mute" => Cmd(p) = OffCall(c)
    BY <1>1, <2>3, <2>4, CallKinds
  <2>7. Mid(p, c)
    BY <1>a, <1>2, <2>1 DEF Mid
  \* What the copy is.
  <2>8. /\ \A k \in DOMAIN Channels[c] : k # j => new[k] = s[k]
        /\ a = OnCall(c).arg => new[1].level = s[1].level /\ (Ruled(c, j) => new[j].on)
        /\ a = OffCall(c).arg => (Ruled(c, j) => ~new[j].on)
        /\ \A h \in Wants : a = LevelCall(c, h).arg /\ (h = "loud" => In(c, Outs))
                              /\ (h = "live" => (In(c, Mics) \/ In(c, Caps)) /\ ~(In(c, Mics) /\ In(c, Caps)))
               => /\ \A k \in DOMAIN Channels[c] : new[k].on = s[k].on
                  /\ j = 1 => ~(Percent(new[1].level, Top) < Target(c, h))
    <3>1. driver = "alsa" /\ s \in Element(c) /\ j \in DOMAIN Channels[c] /\ new = [s EXCEPT ![j] = NewChannel(c, j, s[j], a)]
      BY <1>a, <1>1, <1>5
    <3>2. Copied(c, s, j, a, new)
      BY <3>1, CopyFacts
    <3> QED BY <3>2 DEF Copied
  <2> DEFINE NewLow(h) == Percent(new[1].level, Top) < Target(c, h)
             SLow(h)   == Percent(s[1].level, Top) < Target(c, h)
  <2>9. /\ \A h : SnapLow(p, c, h) <=> SLow(h)
        /\ \A k : SnapOn(p, k) <=> s[k].on
    BY <1>a DEF SnapLow, Low, SnapOn
  <2>10. /\ \A h : MixLow(c, h)' <=> IF new # s THEN NewLow(h) ELSE MixLow(c, h)
         /\ \A k : MixOn(c, k)' <=> IF new # s THEN new[k].on ELSE MixOn(c, k)
    <3>1. mix'[c] = IF new # s THEN new ELSE mix[c]
      BY <1>1, <1>5
    <3>2. Top' = Top
      BY <1>1, TopSame
    <3> QED BY <3>1, <3>2 DEF MixLow, Low, MixOn
  <2>11. ~last => /\ \A h : SnapLow(p, c, h)' <=> NewLow(h)
                  /\ \A k : SnapOn(p, k)' <=> new[k].on
    <3>1. ~last => snap'[p] = new
      BY <1>3, <1>5
    <3>2. Top' = Top
      BY <1>1, TopSame
    <3> QED BY <3>1, <3>2 DEF SnapLow, Low, SnapOn
  <2>12. mix'[c] # mix[c] => new # s
    BY <1>1, <1>5
  \* The level, and the switches.
  <2>13. \A h \in Wants : g = h /\ Cmd(p) = LevelCall(c, h) =>
             ~NewLow(h) /\ \A k \in DOMAIN Channels[c] : new[k].on = s[k].on
    <3> TAKE h \in Wants
    <3> SUFFICES ASSUME g = h, Cmd(p) = LevelCall(c, h)
                 PROVE  ~NewLow(h) /\ \A k \in DOMAIN Channels[c] : new[k].on = s[k].on
      OBVIOUS
    <3>1. (h = "loud" => In(c, Outs)) /\ (h = "live" => (In(c, Mics) \/ In(c, Caps)) /\ ~(In(c, Mics) /\ In(c, Caps)))
      BY <2>2, AimFacts
    <3>2. (\A k \in DOMAIN Channels[c] : new[k].on = s[k].on) /\ (j = 1 => ~NewLow(h))
      BY <2>1, <2>8, <3>1
    <3>3. ASSUME j # 1 PROVE ~NewLow(h)
      <4>1. next[p] > 1
        BY <1>a, <1>2, <3>3
      <4>2. ~SnapLow(p, c, h)
        BY <1>0, <1>1, <2>2, <2>7, <4>1 DEF QInv, MidOK
      <4>3. new[1] = s[1]
        BY <1>5, <2>8, <3>3, ChannelFacts
      <4> QED BY <2>9, <4>2, <4>3
    <3> QED BY <3>2, <3>3
  <2>14. \A k \in DOMAIN Channels[c] : Ruled(c, k) /\ g \in Wants /\ Cmd(p) = LevelCall(c, g) => new[k].on /\ MixOn(c, k)
    <3> TAKE k \in DOMAIN Channels[c]
    <3> SUFFICES ASSUME Ruled(c, k), g \in Wants, Cmd(p) = LevelCall(c, g) PROVE new[k].on /\ MixOn(c, k)
      OBVIOUS
    <3>1. ~Left(p, OnCall(c)) /\ OnOK(p, c, k)
      <4>1. LevelCall(c, g) # OnCall(c)
        BY CallsDiffer
      <4> QED BY <1>0, <2>5, <4>1 DEF QInv
    <3>2. SnapOn(p, k) /\ MixOn(c, k)
      BY <1>1, <2>2, <2>7, <3>1 DEF OnOK
    <3> QED BY <2>9, <2>13, <3>2
  <2>15. \A k \in DOMAIN Channels[c] : Ruled(c, k) /\ g \in Wants /\ Cmd(p) = OnCall(c) =>
             (k <= j => new[k].on) /\ (new[k].on => MixOn(c, k)')
    <3> TAKE k \in DOMAIN Channels[c]
    <3> SUFFICES ASSUME Ruled(c, k), g \in Wants, Cmd(p) = OnCall(c) PROVE (k <= j => new[k].on) /\ (new[k].on => MixOn(c, k)')
      OBVIOUS
    <3>1. OnOK(p, c, k)
      BY <1>0 DEF QInv
    <3>2. (k < next[p] => SnapOn(p, k)) /\ (SnapOn(p, k) => MixOn(c, k))
      BY <1>1, <2>2, <2>7, <3>1 DEF OnOK
    <3>3. k \in Nat
      BY ChannelFacts
    <3>4. k < j => new[k].on
      BY <1>a, <1>2, <2>8, <2>9, <3>2, <3>3
    <3>5. k = j => new[k].on
      BY <2>1, <2>8
    <3>6. new[k].on => MixOn(c, k)'
      BY <2>9, <2>10, <3>2
    <3> QED BY <1>2, <3>3, <3>4, <3>5, <3>6
  \* What is left of the script.
  <2>16. /\ \A x : Left(p, x) => x = Cmd(p) \/ Left(p, x)'
         /\ ~last => (\A x : Left(p, x)' <=> Left(p, x)) /\ Cmd(p)' = Cmd(p) /\ Mid(p, c)' /\ next'[p] = j + 1
         /\ last => ~Mid(p, c)'
         /\ \A x : Waits(p, x)' <=> Waits(p, x)
         /\ \A x : Waits(p, x) <=> x \in Of(Tail(todo[p]))
         /\ \A h : Shape(todo[p], c, h) => Shape(todo'[p], c, h)
    <3>0. next[p] # 0
      BY <1>a, <1>2
    <3>1. \A x : Waits(p, x) <=> x \in Of(Tail(todo[p]))
      BY <3>0 DEF Waits, Unbegun
    <3>2. CASE last
      <4>1. todo'[p] = Tail(todo[p]) /\ next'[p] = 0
        BY <1>3, <1>5, <3>2
      <4> QED BY <1>1, <3>0, <3>1, <3>2, <4>1, TailWaits
    <3>3. CASE ~last
      <4>1. todo'[p] = todo[p] /\ next'[p] = j + 1 /\ next'[p] # 0
        BY <1>2, <1>3, <1>5, <3>3
      <4>2. Cmd(p)' = Cmd(p) /\ Unbegun(p)' = Unbegun(p)
        BY <3>0, <4>1 DEF Cmd, Unbegun
      <4> QED BY <2>1, <3>1, <3>3, <4>1, <4>2 DEF Left, Waits, Mid
    <3> QED BY <3>2, <3>3
  <2>17. QInv(p, c)'
    <3>1. ShapeOK(p, c)'
      BY <1>0, <2>2, <2>16 DEF QInv, ShapeOK
    <3>2. ReadOK(p, c)'
      <4> SUFFICES ASSUME g = "loud", known'[p][c] >= VOLUME
                   PROVE  ~MixLow(c, "loud")' /\ (Mid(p, c)' => ~SnapLow(p, c, "loud")')
        BY <2>2 DEF ReadOK
      <4>1. "loud" \in Wants
        BY DEF Wants
      <4>2. ~Left(p, GetCall(c)) /\ known[p][c] >= VOLUME
        BY <1>1, <2>5, <4>1
      <4>3. ~MixLow(c, "loud") /\ ~SnapLow(p, c, "loud")
        BY <1>0, <1>1, <2>1, <2>2, <2>7, <4>2 DEF QInv, ReadOK
      <4>4. ~NewLow("loud")
        <5>1. CASE Cmd(p) = LevelCall(c, g)
          BY <2>13, <4>1, <5>1
        <5>2. CASE Cmd(p) = OnCall(c)
          <6>1. new[1].level = s[1].level
            BY <2>1, <2>8, <5>2
          <6> QED BY <2>9, <4>3, <6>1
        <5> QED BY <2>5, <4>1, <5>1, <5>2
      <4> QED BY <2>10, <2>11, <2>16, <4>3, <4>4
    <3>3. MidOK(p, c)'
      <4> SUFFICES ASSUME NEW h \in Wants, g = h, Mid(p, c)', (Cmd(p) = LevelCall(c, h))' PROVE ~SnapLow(p, c, h)'
        BY <2>2 DEF MidOK
      <4>1. ~last /\ Cmd(p) = LevelCall(c, h)
        BY <2>16 DEF LevelCall
      <4> QED BY <2>11, <2>13, <4>1
    <3>4. ASSUME NEW k \in DOMAIN Channels[c], Ruled(c, k) PROVE OnOK(p, c, k)'
      <4> SUFFICES ASSUME g \in Wants
                   PROVE  /\ ~Left(p, OnCall(c))' => MixOn(c, k)'
                          /\ Mid(p, c)' => /\ ~Left(p, OnCall(c))' \/ (Cmd(p)' = OnCall(c) /\ k < next'[p]) => SnapOn(p, k)'
                                           /\ SnapOn(p, k)' => MixOn(c, k)'
        BY <2>2 DEF OnOK
      <4>1. CASE Cmd(p) = LevelCall(c, g)
        <5>1. new[k].on /\ MixOn(c, k)
          BY <2>14, <3>4, <4>1
        <5> QED BY <2>10, <2>11, <2>16, <5>1
      <4>2. CASE Cmd(p) = OnCall(c)
        <5>1. (k <= j => new[k].on) /\ (new[k].on => MixOn(c, k)')
          BY <2>15, <3>4, <4>2
        <5>2. k \in Nat /\ (last => k <= j)
          BY ChannelFacts
        <5>3. CASE last
          BY <2>16, <5>1, <5>2, <5>3
        <5>4. CASE ~last
          <6>1. Left(p, OnCall(c))
            <7>1. todo[p] \in Seq(Call)
              BY <1>0 DEF Types
            <7> QED BY <1>1, <4>2, <7>1, TailFacts DEF Left, Cmd
          <6>2. k < next'[p] => k <= j
            BY <1>2, <2>16, <5>2, <5>4
          <6> QED BY <2>11, <2>16, <5>1, <5>4, <6>1, <6>2
        <5> QED BY <5>3, <5>4
      <4> QED BY <2>5, <4>1, <4>2
    <3>5. ASSUME NEW k \in DOMAIN Channels[c], Ruled(c, k) PROVE OffOK(p, c, k)'
      <4> SUFFICES ASSUME g = "mute", Mid(p, c)', k < next'[p] PROVE ~SnapOn(p, k)'
        BY <2>2 DEF OffOK
      <4>1. ~last /\ next'[p] = j + 1 /\ k \in Nat
        BY <2>16, ChannelFacts
      <4>2. k = j => ~new[k].on
        BY <2>1, <2>6, <2>8, <3>5
      <4>3. k < j => ~new[k].on
        <5>1. k < j => ~SnapOn(p, k)
          BY <1>0, <1>a, <1>1, <2>2, <2>7, <3>5 DEF QInv, OffOK
        <5> QED BY <1>2, <2>8, <2>9, <4>1, <5>1
      <4> QED BY <1>2, <2>11, <4>1, <4>2, <4>3
    <3> QED BY <3>1, <3>2, <3>3, <3>4, <3>5 DEF QInv
  <2>18. Aim(p, c) = "live" /\ driver = "alsa" /\ ~Fragile(c) /\ mix'[c] # mix[c] =>
             \A k \in DOMAIN Channels[c] : Ruled(c, k) => MixOn(c, k)'
    <3> SUFFICES ASSUME g = "live", ~Fragile(c), mix'[c] # mix[c], NEW k \in DOMAIN Channels[c], Ruled(c, k) PROVE MixOn(c, k)'
      BY <2>2
    <3>1. k = j
      <4>1. ~(Len(Channels[c]) > 1) /\ Len(Channels[c]) \in Nat /\ j \in 1..Len(Channels[c]) /\ k \in 1..Len(Channels[c])
        BY <1>1, <1>2, <1>5 DEF Fragile
      <4> DEFINE n == Len(Channels[c])
      <4> HIDE DEF n
      <4>2. ~(n > 1) /\ n \in Nat /\ j \in 1..n /\ k \in 1..n
        BY <4>1 DEF n
      <4> QED BY <4>2
    <3>2. g \in Wants /\ k <= j
      BY <1>2, <3>1 DEF Wants
    <3>3. new[k].on
      BY <2>5, <2>14, <2>15, <3>2
    <3> QED BY <2>10, <2>12, <3>3
  <2>19. \A q \in Slots : q # p => /\ QInv(q, c)'
                                   /\ mix'[c] = mix[c] => View(q, c)
                                   /\ Aim(q, c)' # "any" => View(q, c) /\ (mix'[c] # mix[c] => Aim(q, c) = g)
    BY <1>0, <1>1, <1>3, <2>1, <2>2, <2>18, WroteOthers
  <2>20. HasDriver(c)' /\ \A q \in Slots : QInv(q, c)'
    BY <1>1, <2>1, <2>17, <2>19, HasSame
  <2>21. \A q \in Slots : q # p /\ View(q, c) =>
             /\ Aim(q, c)' = Aim(q, c)
             /\ \A h : WillRaise(q, c, h)' <=> WillRaise(q, c, h)
             /\ \A k : WillSwitchOff(q, c, k)' <=> WillSwitchOff(q, c, k)
    BY <1>1, ViewWill DEF View
  <2>22. LevelOK(c)'
    <3> SUFFICES ASSUME NEW h \in Wants, MixLow(c, h)', NEW r \in Slots, Aim(r, c)' = h
                 PROVE  \E q \in Slots : Aim(q, c)' = h /\ WillRaise(q, c, h)'
      BY DEF LevelOK
    <3>0. h # "any"
      BY DEF Wants
    <3>1. CASE mix'[c] # mix[c]
      <4>1. g = h
        BY <2>2, <2>19, <2>21, <3>0, <3>1
      <4>2. NewLow(h)
        BY <2>10, <2>12, <3>1
      <4>3. LevelCall(c, h) \in Of(Tail(todo[p]))
        BY <2>5, <2>13, <4>1, <4>2
      <4>4. WillRaise(p, c, h)'
        BY <2>16, <4>3 DEF WillRaise
      <4> QED BY <2>2, <4>1, <4>4
    <3>2. CASE mix'[c] = mix[c]
      <4>1. Still(c)
        BY <1>1, <3>2 DEF Still
      <4>2. MixLow(c, h) /\ Aim(r, c) = h
        BY <2>2, <2>19, <2>21, <3>2, <4>1, StillFacts
      <4>3. PICK q \in Slots : Aim(q, c) = h /\ WillRaise(q, c, h)
        BY <1>0, <2>1, <4>2 DEF CInv, LevelOK
      <4>4. CASE q # p
        <5>1. Aim(q, c)' = h /\ WillRaise(q, c, h)'
          BY <2>19, <2>21, <3>2, <4>3, <4>4
        <5> QED BY <5>1
      <4>5. CASE q = p
        <5>1. g = h
          BY <2>2, <4>3, <4>5
        <5>2. ~(Cmd(p) = LevelCall(c, h) /\ SnapLow(p, c, h))
          <6> SUFFICES ASSUME Cmd(p) = LevelCall(c, h), SnapLow(p, c, h) PROVE FALSE
            OBVIOUS
          <6>1. ~NewLow(h) /\ SLow(h)
            BY <2>9, <2>13, <5>1
          <6>2. new # s
            BY <6>1
          <6> QED BY <2>10, <6>1, <6>2
        <5>3. Waits(p, LevelCall(c, h))
          BY <4>3, <4>5, <5>2 DEF WillRaise
        <5>4. WillRaise(p, c, h)'
          BY <2>16, <5>3 DEF WillRaise
        <5> QED BY <2>2, <5>1, <5>4
      <4> QED BY <4>4, <4>5
    <3> QED BY <3>1, <3>2
  <2>23. MuteOK(c)'
    <3> SUFFICES ASSUME NEW k \in DOMAIN Channels[c], Ruled(c, k), MixOn(c, k)', NEW r \in Slots, Aim(r, c)' = "mute"
                 PROVE  \E q \in Slots : Aim(q, c)' = "mute" /\ WillSwitchOff(q, c, k)'
      BY DEF MuteOK, Ruled
    <3>0. k \in Nat /\ k <= Len(Channels[c])
      BY ChannelFacts
    <3>a. ASSUME g = "mute", k > j, new[k].on PROVE WillSwitchOff(p, c, k)'
      <4>1. ~last /\ Cmd(p) = OffCall(c)
        BY <1>2, <1>5, <2>6, <3>0, <3>a
      <4>2. next'[p] = j + 1 /\ Mid(p, c)' /\ SnapOn(p, k)' /\ Cmd(p)' = OffCall(c)
        BY <2>11, <2>16, <3>a, <4>1
      <4>3. next'[p] <= k
        BY <1>2, <3>0, <3>a, <4>2
      <4>4. driver' = "alsa"
        BY <1>1
      <4> QED BY <4>2, <4>3, <4>4 DEF WillSwitchOff
    <3>1. CASE mix'[c] # mix[c]
      <4>1. g = "mute"
        BY <2>2, <2>19, <2>21, <3>1
      <4>2. new[k].on
        BY <2>10, <2>12, <3>1
      <4>3. k # j
        BY <2>1, <2>6, <2>8, <4>1, <4>2
      <4>4. ~(k < j)
        <5>1. k < j => ~SnapOn(p, k)
          BY <1>0, <1>a, <1>1, <2>2, <2>7, <4>1 DEF QInv, OffOK
        <5> QED BY <2>8, <2>9, <4>2, <4>3, <5>1
      <4>5. k > j
        BY <1>2, <3>0, <4>3, <4>4
      <4> QED BY <2>2, <3>a, <4>1, <4>2, <4>5
    <3>2. CASE mix'[c] = mix[c]
      <4>1. Still(c)
        BY <1>1, <3>2 DEF Still
      <4>2. MixOn(c, k) /\ Aim(r, c) = "mute"
        BY <2>2, <2>19, <2>21, <3>2, <4>1, StillFacts
      <4>3. PICK q \in Slots : Aim(q, c) = "mute" /\ WillSwitchOff(q, c, k)
        BY <1>0, <2>1, <4>2 DEF CInv, MuteOK
      <4>4. CASE q # p
        <5>1. Aim(q, c)' = "mute" /\ WillSwitchOff(q, c, k)'
          BY <2>19, <2>21, <3>2, <4>3, <4>4
        <5> QED BY <5>1
      <4>5. CASE q = p
        <5>1. g = "mute" /\ WillSwitchOff(p, c, k)
          BY <2>2, <4>3, <4>5
        <5>2. CASE Waits(p, OffCall(c))
          <6>1. WillSwitchOff(p, c, k)'
            BY <2>16, <5>2 DEF WillSwitchOff
          <6> QED BY <2>2, <5>1, <6>1
        <5>3. CASE j <= k /\ SnapOn(p, k)
          <6>1. s[k].on
            BY <2>9, <5>3
          <6>2. j # k
            <7> SUFFICES ASSUME j = k PROVE FALSE
              OBVIOUS
            <7>1. ~new[k].on
              BY <2>1, <2>6, <2>8, <5>1
            <7>2. new # s
              BY <6>1, <7>1
            <7> QED BY <2>10, <7>1, <7>2
          <6>3. k > j /\ new[k].on
            BY <1>2, <2>8, <3>0, <5>3, <6>1, <6>2
          <6> QED BY <2>2, <3>a, <5>1, <6>3
        <5> QED BY <1>a, <5>1, <5>2, <5>3 DEF WillSwitchOff
      <4> QED BY <4>4, <4>5
    <3> QED BY <3>1, <3>2
  <2>24. OssOK(c)'
    BY <1>1 DEF OssOK
  <2>25. KeptOK(c)'
    BY <1>0, <1>1, <2>1, WroteKept
  <2> QED BY <2>20, <2>22, <2>23, <2>24, <2>25 DEF CInv
<1> QED BY <1>4, <1>5

LEMMA GoalStep == Inv /\ GoalInv /\ [Next]_vars => GoalInv'
<1> SUFFICES ASSUME Inv, GoalInv, [Next]_vars, NEW c \in Controls PROVE CInv(c)'
  BY DEF GoalInv
<1>1. CASE UNCHANGED vars
  <2>1. Still(c) /\ kept'[c] = kept[c] /\ \A q \in Slots : View(q, c)
    BY <1>1, ViewIdle DEF vars, procVars, Still
  <2> QED BY <2>1, AwayKeeps DEF GoalInv
<1>2. CASE Next
  <2>1. PICK p \in Slots : Soundctl(p) \/ RtpController(p) \/ Run(p)
    BY <1>2 DEF Next
  <2>2. CASE Soundctl(p) \/ RtpController(p)
    BY <2>2, BeginGoals
  <2>3. CASE NoControl(p) \/ ReadLevel(p) \/ LoudEnough(p) \/ OssShow(p)
    BY <2>3, DropGoals
  <2>4. CASE Load(p)
    BY <2>4, LoadGoals
  <2>5. CASE WriteChannel(p)
    BY <2>5, WriteGoals
  <2>6. CASE OssWrite(p)
    BY <2>6, OssGoals
  <2>7. CASE End(p)
    BY <2>7, EndGoals
  <2> QED BY <2>1, <2>2, <2>3, <2>4, <2>5, <2>6, <2>7 DEF Run
<1> QED BY <1>1, <1>2

LEMMA GoalInvKept == GoalInv => GoalsKept
<1> SUFFICES ASSUME GoalInv, NEW c \in Controls, kept[c] # "any", \A p \in Slots : Goal(session[p], c) # kept[c]
             PROVE  Meets(c, kept[c])
  BY DEF GoalsKept
<1>1. KeptOK(c)
  BY DEF GoalInv, CInv
<1>2. \A p \in Slots : Aim(p, c) # kept[c]
  BY DEF Aim
<1> QED BY <1>1, <1>2 DEF KeptOK, MeetsKept

\* When a session of rtp-controller.sh has ended undisturbed the control is as loud, as live or
\* as mute as it was to be, and stays so until a session that wants something else writes it;
\* for any card and any number of sessions at a time.
THEOREM GoalsKeptAlways == Spec => []GoalsKept
<1>1. Inv /\ GoalInv /\ [Next]_vars => Inv' /\ GoalInv'
  BY InvStep, GoalStep
<1>2. Init => Inv /\ GoalInv
  BY InitInv, InitGoals
<1> QED BY <1>1, <1>2, GoalInvKept, PTL DEF Spec

============================================================================
