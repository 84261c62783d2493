------------------------------- MODULE BarsProofs -------------------------------
(***************************************************************************)
(* Theorems about Bars, for any intervals, sections and clocks.            *)
(***************************************************************************)
EXTENDS Bars, TLAPS, WellFoundedInduction

-----------------------------------------------------------------------------
(* Arithmetic.                                                             *)

LEMMA SmallestNat ==
  ASSUME NEW T, T \subseteq Nat, T # {}
  PROVE  \E x \in T : \A y \in T : x <= y
<1>1. PICK x \in T : \A y \in T : ~ (<<y, x>> \in OpToRel(<, Nat))
  BY NatLessThanWellFounded, WFMin
<1>2. \A y \in T : ~ (y < x)
  BY <1>1 DEF OpToRel
<1> QED
  BY <1>2

LEMMA Quotient ==
  ASSUME NEW t \in Nat, NEW p \in Nat \ {0}
  PROVE  t \div p \in Nat
OBVIOUS

LEMMA NotAMultiple ==
  ASSUME NEW a \in Int, NEW b \in Int, NEW p \in Nat \ {0}, NEW d \in 1 .. p - 1
  PROVE  a * p + d # b * p
<1>1. CASE b <= a
  <2>1. b * p <= a * p
    BY <1>1
  <2> QED
    BY <2>1
<1>2. CASE b >= a + 1
  <2>1. b * p >= (a + 1) * p
    BY <1>2
  <2>2. (a + 1) * p = a * p + p
    OBVIOUS
  <2> QED
    BY <2>1, <2>2
<1> QED
  BY <1>1, <1>2

\* The length of interval i, and the part of it before its last slice.
Long(i)  == Intervals[i] * Second
Short(i) == (Intervals[i] - 1) * Second + (Second \div slices) * (slices - 1)

\* The last slice of a window begins after the window, and ends with it.
LEMMA LastSlice ==
  ASSUME slices \in SlicesPerSec, NEW i \in Ids
  PROVE  Long(i) \in Nat \ {0} /\ Short(i) \in 1 .. Long(i) - 1
<1>1. Second \in Nat \ {0} /\ slices \in 1 .. Second /\ Intervals[i] \in Nat \ {0, 1}
  BY BarsAssumption DEF Ids
<1> DEFINE q == Second \div slices
           n == Intervals[i] - 1
<1>2. q \in Nat /\ q * slices <= Second /\ q >= 1
  BY <1>1
<1>3. q * (slices - 1) = q * slices - q
  BY <1>1, <1>2
<1>4. q * (slices - 1) \in 0 .. Second - 1
  <2>1. q * (slices - 1) \in Nat
    BY <1>1, <1>2
  <2> QED
    BY <1>1, <1>2, <1>3, <2>1
<1>5. Intervals[i] * Second = n * Second + Second
  BY <1>1
<1>6. n * Second >= Second /\ n * Second \in Nat
  BY <1>1
<1> DEFINE ns == n * Second
           d  == q * (slices - 1)
<1>7. Long(i) = ns + Second /\ Short(i) = ns + d
  BY <1>5 DEF Long, Short
<1>8. ns \in Nat /\ ns >= Second /\ d \in 0 .. Second - 1
  BY <1>4, <1>6
<1> HIDE DEF ns, d
<1> QED
  BY <1>1, <1>7, <1>8

-----------------------------------------------------------------------------
(* The bars of one interval.  The end of an open bar is not the start of   *)
(* any window, so ProcessTick has a case for every tick.                   *)

Bar  == [start : Int, end : Nat, volume : Int, own : Int]
Line == [bar : Bar, given : [number : Int, window : Int, volume : Int, own : Int],
         dropped : [volume : Int, own : Int]]

Unopened(bar) == bar.end = 0 /\ bar.volume = 0
EndsAtLastSlice(bar, i) == \E n \in Nat : bar.end = n * Long(i) + Short(i)

LineOK(k, i) == k \in Line /\ (Unopened(k.bar) \/ EndsAtLastSlice(k.bar, i))
Volume(k) == k.given.volume + k.dropped.volume + k.bar.volume

LEMMA WindowType ==
  ASSUME slices \in SlicesPerSec, NEW i \in Ids, NEW time \in Nat
  PROVE  /\ \E n \in Nat : Window(time, i) = n * Long(i)
         /\ Window(time, i) \in Nat
         /\ \A bar \in Bar : EndsAtLastSlice(bar, i) => bar.end # Window(time, i) /\ bar.end > 0
<1>1. Long(i) \in Nat \ {0} /\ Short(i) \in 1 .. Long(i) - 1
  BY LastSlice
<1> DEFINE n == time \div Long(i)
<1>2. n \in Nat
  BY <1>1, Quotient
<1>3. Window(time, i) = n * Long(i)
  <2>1. Second \in Nat /\ Intervals[i] \in Nat
    BY BarsAssumption DEF Ids
  <2> QED
    BY <1>2, <2>1 DEF Window, Long
<1> HIDE DEF n
<1>4. n * Long(i) \in Nat
  BY <1>1, <1>2
<1>5. ASSUME NEW bar \in Bar, EndsAtLastSlice(bar, i)
      PROVE  bar.end # n * Long(i) /\ bar.end > 0
  <2>1. PICK m \in Nat : bar.end = m * Long(i) + Short(i)
    BY <1>5 DEF EndsAtLastSlice
  <2>2. m * Long(i) \in Nat
    BY <1>1
  <2> QED
    BY <1>1, <1>2, <2>1, <2>2, NotAMultiple
<1> QED
  BY <1>2, <1>3, <1>4, <1>5

LEMMA OpenedOK ==
  ASSUME slices \in SlicesPerSec, NEW i \in Ids, NEW time \in Nat, NEW volume \in Int, NEW own \in Int
  PROVE  LET window == Window(time, i)
             bar == Opened(window, WindowEnd(window, i), volume, own)
         IN bar \in Bar /\ EndsAtLastSlice(bar, i) /\ bar.volume = volume
<1> DEFINE window == Window(time, i)
           bar == Opened(window, WindowEnd(window, i), volume, own)
<1>1. PICK n \in Nat : window = n * Long(i)
  BY WindowType
<1>2. window \in Nat /\ Short(i) \in Nat
  BY WindowType, LastSlice
<1>3. WindowEnd(window, i) = window + Short(i)
  <2>1. Second \in Nat /\ Intervals[i] \in Nat /\ slices \in Nat \ {0}
    BY BarsAssumption DEF Ids
  <2>2. (Intervals[i] - 1) * Second \in Int /\ (Second \div slices) * (slices - 1) \in Int
    <3>1. Second \div slices \in Int /\ slices - 1 \in Int /\ Intervals[i] - 1 \in Int
      BY <2>1, Quotient
    <3> QED
      BY <2>1, <3>1
  <2> QED
    BY <1>2, <2>2 DEF WindowEnd, Short
<1> QED
  BY <1>1, <1>2, <1>3 DEF Opened, Bar, EndsAtLastSlice

LEMMA GivenOK ==
  ASSUME NEW k \in Line
  PROVE  /\ Given(k) \in Line /\ Given(k).given.volume = k.given.volume + k.bar.volume
         /\ Given(k).dropped = k.dropped
BY DEF Given, Line, Bar

LEMMA ClosedOK ==
  ASSUME NEW k \in Line, NEW time, NEW s, NEW c \in {Closed(k, time, s), Given(k)}, NEW bar \in Bar
  PROVE  /\ [c EXCEPT !.bar = bar] \in Line /\ [c EXCEPT !.bar = bar].bar = bar
         /\ Volume([c EXCEPT !.bar = bar]) = Volume(k) + bar.volume
<1> DEFINE d == [c EXCEPT !.bar = bar]
<1>1. c \in Line /\ c.given.volume + c.dropped.volume = k.given.volume + k.dropped.volume + k.bar.volume
  <2>1. CASE c = Given(k)
    BY <2>1, GivenOK DEF Line, Bar
  <2>2. CASE c = Closed(k, time, s) /\ c # Given(k)
    <3>1. c = [k EXCEPT !.dropped = [volume |-> @.volume + k.bar.volume, own |-> @.own + k.bar.own]]
      BY <2>2 DEF Closed
    <3> QED
      BY <3>1 DEF Line, Bar
  <2> QED
    BY <2>1, <2>2
<1>2. d \in Line /\ d.bar = bar /\ d.given = c.given /\ d.dropped = c.dropped
  BY <1>1 DEF Line
<1> HIDE DEF d
<1>3. Volume(d) = Volume(k) + bar.volume
  BY <1>1, <1>2 DEF Volume, Line, Bar
<1> QED
  BY <1>2, <1>3 DEF d

\* ProcessTick adds what was traded since the last tick, once.
LEMMA WithTickOK ==
  ASSUME slices \in SlicesPerSec, NEW i \in Ids, NEW k, LineOK(k, i), NEW time \in Nat,
         NEW change \in Int, NEW own \in Int, NEW s
  PROVE  /\ LineOK(WithTick(k, i, time, change, own, s), i)
         /\ Volume(WithTick(k, i, time, change, own, s)) = Volume(k) + change
<1> DEFINE window == Window(time, i)
           more   == [k.bar EXCEPT !.volume = @ + change, !.own = @ + own]
           with   == [k EXCEPT !.bar = more]
           fresh  == Opened(window, WindowEnd(window, i), change, own)
           next   == NextWindow(time, i)
           after  == Opened(next, WindowEnd(next, i), AfterLastSlice(change), 0)
           result == WithTick(k, i, time, change, own, s)
<1>1. k \in Line /\ k.bar \in Bar /\ k.bar.end \in Nat
  BY DEF LineOK, Line, Bar
<1>2. window \in Nat /\ (k.bar.end # window \/ Unopened(k.bar))
  BY <1>1, WindowType DEF LineOK
<1>3. with \in Line /\ with.bar.end = k.bar.end /\ Volume(with) = Volume(k) + change
  <2>1. /\ more \in Bar /\ more.end = k.bar.end /\ more.volume = k.bar.volume + change
    <3> DEFINE traded == [k.bar EXCEPT !.volume = @ + change]
    <3>1. k.bar.volume \in Int /\ k.bar.own \in Int
      BY <1>1 DEF Bar
    <3>2. k.bar.volume + change \in Int /\ k.bar.own + own \in Int
      BY <3>1
    <3>3. /\ traded \in Bar /\ traded.end = k.bar.end /\ traded.volume = k.bar.volume + change
          /\ more = [traded EXCEPT !.own = k.bar.own + own]
      BY <1>1, <3>2 DEF Bar
    <3> HIDE DEF traded, more
    <3> QED
      BY <3>2, <3>3 DEF Bar
  <2> HIDE DEF more
  <2>2. with \in Line /\ with.bar = more /\ with.given = k.given /\ with.dropped = k.dropped
    BY <1>1, <2>1 DEF Line
  <2> HIDE DEF with
  <2> QED
    BY <1>1, <2>1, <2>2 DEF Volume, Line, Bar
<1>4. fresh \in Bar /\ EndsAtLastSlice(fresh, i) /\ fresh.volume = change
  BY OpenedOK
<1>5. after \in Bar /\ EndsAtLastSlice(after, i) /\ after.volume = 0
  <2> DEFINE then == time + Second
  <2>1. after = Opened(Window(then, i), WindowEnd(Window(then, i), i), 0, 0) /\ then \in Nat
    BY BarsAssumption DEF NextWindow, AfterLastSlice
  <2> HIDE DEF then, after
  <2> QED
    BY <2>1, OpenedOK
<1>6. window \in Nat
  BY WindowType
<1>7. CASE k.bar.end > window /\ time < k.bar.end
  <2>1. result = with
    BY <1>1, <1>6, <1>7 DEF WithTick
  <2>2. EndsAtLastSlice(with.bar, i)
    BY <1>1, <1>3, <1>6, <1>7 DEF LineOK, Unopened, EndsAtLastSlice
  <2> QED
    BY <1>3, <2>1, <2>2 DEF LineOK
<1>8. CASE k.bar.end > window /\ time >= k.bar.end
  <2>1. result = [Closed(with, time, s) EXCEPT !.bar = after]
    BY <1>1, <1>6, <1>8 DEF WithTick
  <2> HIDE DEF with, after, result
  <2>2. [Closed(with, time, s) EXCEPT !.bar = after] \in Line
        /\ [Closed(with, time, s) EXCEPT !.bar = after].bar = after
        /\ Volume([Closed(with, time, s) EXCEPT !.bar = after]) = Volume(with) + after.volume
    BY <1>3, <1>5, ClosedOK
  <2>3. Volume(with) \in Int /\ Volume(k) \in Int
    BY <1>1, <1>3 DEF Volume, Line, Bar
  <2>4. LineOK(result, i)
    BY <1>5, <2>1, <2>2 DEF LineOK
  <2>5. Volume(result) = Volume(k) + change
    BY <1>3, <1>5, <2>1, <2>2, <2>3
  <2> QED
    BY <2>4, <2>5 DEF result
<1>9. CASE k.bar.end = 0
  <2>1. result = [k EXCEPT !.bar = fresh]
    BY <1>6, <1>9 DEF WithTick
  <2>2. k.bar.volume = 0
    BY <1>1, <1>9, WindowType DEF LineOK, Unopened
  <2> HIDE DEF fresh, result
  <2>3. LineOK(result, i)
    BY <1>1, <1>4, <2>1 DEF LineOK, Line
  <2>4. Volume(result) = Volume(k) + change
    BY <1>1, <1>4, <2>1, <2>2 DEF Volume, Line
  <2> QED
    BY <2>3, <2>4 DEF result
<1>10. CASE k.bar.end \in 1 .. window - 1
  <2>1. result = [Closed(k, time, s) EXCEPT !.bar = fresh]
    BY <1>1, <1>6, <1>10 DEF WithTick
  <2> HIDE DEF fresh, result
  <2>2. [Closed(k, time, s) EXCEPT !.bar = fresh] \in Line
        /\ [Closed(k, time, s) EXCEPT !.bar = fresh].bar = fresh
        /\ Volume([Closed(k, time, s) EXCEPT !.bar = fresh]) = Volume(k) + fresh.volume
    BY <1>1, <1>4, ClosedOK
  <2>3. LineOK(result, i)
    BY <1>4, <2>1, <2>2 DEF LineOK
  <2>4. Volume(result) = Volume(k) + change
    BY <1>4, <2>1, <2>2
  <2> QED
    BY <2>3, <2>4 DEF result
<1> QED
  BY <1>1, <1>2, <1>6, <1>7, <1>8, <1>9, <1>10 DEF Unopened

-----------------------------------------------------------------------------
(* CloseKLine: the time it goes by is a time at every interval, whatever   *)
(* it closed before.                                                       *)

NextTime(t, end) == IF t >= end THEN t + Second ELSE t
Times(T, n, time, k) ==
  T = [i \in 1 .. n |-> IF i = 1 THEN time ELSE NextTime(T[i - 1], k[i - 1].bar.end)]

LEMMA TimesAreNat ==
  ASSUME NEW n \in Nat, NEW T, NEW time \in Nat, NEW k, Times(T, n, time, k)
  PROVE  \A i \in 1 .. n : T[i] \in Nat
<1> DEFINE Bad == {i \in 1 .. n : T[i] \notin Nat}
<1> SUFFICES ASSUME Bad # {} PROVE FALSE
  OBVIOUS
<1>1. PICK x \in Bad : \A y \in Bad : x <= y
  <2>1. Bad \subseteq Nat
    OBVIOUS
  <2> HIDE DEF Bad
  <2> QED
    BY <2>1, SmallestNat
<1>2. x # 1 /\ T[x] = NextTime(T[x - 1], k[x - 1].bar.end)
  BY <1>1 DEF Times
<1>3. x - 1 \in 1 .. n /\ T[x - 1] \in Nat
  BY <1>1, <1>2
<1>4. NextTime(T[x - 1], k[x - 1].bar.end) \in Nat
  BY <1>3, BarsAssumption DEF NextTime
<1> QED
  BY <1>1, <1>2, <1>4

LEMMA TimesExist ==
  ASSUME NEW n \in Nat, NEW time \in Nat, NEW k
  PROVE  \E T : Times(T, n, time, k)
<1> DEFINE Bad == {m \in Nat : ~ \E T : Times(T, m, time, k)}
<1> SUFFICES ASSUME Bad # {} PROVE FALSE
  OBVIOUS
<1>1. PICK m \in Bad : \A y \in Bad : m <= y
  BY SmallestNat
<1>2. CASE m = 0
  <2>1. Times([i \in 1 .. 0 |-> 0], 0, time, k)
    BY DEF Times
  <2> QED
    BY <1>1, <1>2, <2>1
<1>3. CASE m # 0
  <2>1. m - 1 \in Nat /\ m - 1 \notin Bad
    BY <1>1, <1>3
  <2>2. PICK T : Times(T, m - 1, time, k)
    BY <2>1
  <2> DEFINE last == IF m = 1 THEN time ELSE NextTime(T[m - 1], k[m - 1].bar.end)
             U == [i \in 1 .. m |-> IF i = m THEN last ELSE T[i]]
  <2>3. \A i \in 1 .. m - 1 : T[i] = IF i = 1 THEN time ELSE NextTime(T[i - 1], k[i - 1].bar.end)
    BY <2>2 DEF Times
  <2>4. \A i \in 1 .. m : U[i] = IF i = 1 THEN time ELSE NextTime(U[i - 1], k[i - 1].bar.end)
    BY <2>1, <2>3
  <2>5. Times(U, m, time, k)
    BY <2>4 DEF Times
  <2> QED
    BY <1>1, <2>5
<1> QED
  BY <1>2, <1>3

LEMMA CloseTimesType ==
  ASSUME NEW time \in Nat, NEW k, NEW i \in Ids
  PROVE  CloseTimes(time, k)[i] \in Nat
<1>1. Len(Intervals) \in Nat /\ Ids = 1 .. Len(Intervals)
  BY BarsAssumption DEF Ids
<1>2. \E T : Times(T, Len(Intervals), time, k)
  BY <1>1, TimesExist
<1>3. CloseTimes(time, k) = CHOOSE T : Times(T, Len(Intervals), time, k)
  BY <1>1 DEF CloseTimes, Times, NextTime
<1>4. Times(CloseTimes(time, k), Len(Intervals), time, k)
  BY <1>2, <1>3
<1> QED
  BY <1>1, <1>4, TimesAreNat

\* CloseKLine moves the volume of the bars it closes, and loses none.
LEMMA ForceClosedOK ==
  ASSUME slices \in SlicesPerSec, NEW time \in Nat, NEW s, NEW k,
         \A i \in Ids : LineOK(k[i], i), NEW i \in Ids
  PROVE  /\ LineOK(ForceClosed(k, time, s)[i], i)
         /\ Volume(ForceClosed(k, time, s)[i]) = Volume(k[i])
<1> DEFINE at == CloseTimes(time, k)[i]
           next == Window(at + Second, i)
           bar == Opened(next, WindowEnd(next, i), 0, 0)
<1>1. at + Second \in Nat
  BY CloseTimesType, BarsAssumption
<1>2. bar \in Bar /\ EndsAtLastSlice(bar, i) /\ bar.volume = 0
  <2> DEFINE then == at + Second
  <2>1. bar = Opened(Window(then, i), WindowEnd(Window(then, i), i), 0, 0) /\ then \in Nat
    BY <1>1
  <2> HIDE DEF then, bar
  <2> QED
    BY <2>1, OpenedOK
<1>3. ForceClosed(k, time, s)[i] \in {k[i], [Given(k[i]) EXCEPT !.bar = bar]}
  BY DEF ForceClosed
<1> HIDE DEF bar
<1>4. k[i] \in Line /\ Volume(k[i]) \in Int
  BY DEF LineOK, Line, Bar, Volume
<1>5. /\ [Given(k[i]) EXCEPT !.bar = bar] \in Line /\ [Given(k[i]) EXCEPT !.bar = bar].bar = bar
      /\ Volume([Given(k[i]) EXCEPT !.bar = bar]) = Volume(k[i]) + bar.volume
  BY <1>2, <1>4, ClosedOK
<1>6. LineOK([Given(k[i]) EXCEPT !.bar = bar], i) /\ Volume([Given(k[i]) EXCEPT !.bar = bar]) = Volume(k[i])
  BY <1>2, <1>4, <1>5 DEF LineOK
<1> QED
  BY <1>3, <1>6

-----------------------------------------------------------------------------
(* The work loop.                                                          *)

BarsInv ==
  /\ slices \in SlicesPerSec /\ now \in Nat /\ tick.time \in Nat
  /\ tick.volume \in Int /\ counted \in Int
  /\ \A i \in Ids : LineOK(Lines[i], i) /\ Volume(Lines[i]) = counted

LEMMA BarsInvInit == Init => BarsInv
<1> SUFFICES ASSUME Init PROVE BarsInv
  OBVIOUS
<1>1. ASSUME NEW i \in Ids PROVE LineOK(Lines[i], i) /\ Volume(Lines[i]) = 0
  BY DEF Init, Lines, LineOK, Volume, Line, Bar, Unopened, NoBar, Opened
<1> QED
  BY <1>1, BarsAssumption DEF Init, BarsInv

LEMMA TurnKeeps ==
  ASSUME BarsInv, NEW t, t.time \in Nat, t.volume \in Int, NEW found \in BOOLEAN, Turn(t, found)
  PROVE  BarsInv'
<1> DEFINE s == SectionAt(now)
           k == IF found /\ Trading(now) THEN AfterTick(t, s) ELSE Lines
           due == Counting % Minute = CloseSecond
           r == IF due THEN ForceClosed(k, now, s) ELSE k
<1>1. counted' \in Int /\ slices' \in SlicesPerSec /\ now' \in Nat /\ tick' = t /\ now \in Nat
      /\ slices \in SlicesPerSec
  BY DEF BarsInv, Turn
<1>2. ASSUME NEW i \in Ids PROVE LineOK(k[i], i) /\ Volume(k[i]) = counted'
  <2>1. CASE found /\ Trading(now)
    <3> DEFINE change == t.volume - counted
               own == IF InSection(t.time, s) THEN New(t) ELSE 0
    <3>1. k[i] = WithTick(Lines[i], i, t.time, change, own, s)
      BY <2>1 DEF AfterTick
    <3>2. change \in Int /\ own \in Int /\ counted + change = t.volume /\ counted' = t.volume
      BY <2>1 DEF BarsInv, Turn, New
    <3>3. LineOK(Lines[i], i) /\ Volume(Lines[i]) = counted
      BY DEF BarsInv
    <3> HIDE DEF change, own, k
    <3> QED
      BY <1>1, <3>1, <3>2, <3>3, WithTickOK
  <2>2. CASE ~(found /\ Trading(now))
    BY <2>2 DEF BarsInv, Turn
  <2> QED
    BY <2>1, <2>2
<1>3. Becomes(r)
  BY DEF Turn
<1> HIDE DEF k
<1>4. ASSUME NEW i \in Ids PROVE LineOK(r[i], i) /\ Volume(r[i]) = counted'
  BY <1>1, <1>2, ForceClosedOK
<1> HIDE DEF r
<1>5. ASSUME NEW i \in Ids PROVE Lines'[i] = r[i]
  <2>1. r[i] \in Line
    BY <1>4 DEF LineOK
  <2>2. r[i] = [bar |-> r[i].bar, given |-> r[i].given, dropped |-> r[i].dropped]
    BY <2>1 DEF Line
  <2> QED
    BY <1>3, <2>2 DEF Becomes, Lines
<1>6. ASSUME NEW i \in Ids PROVE LineOK(Lines[i], i)' /\ Volume(Lines[i])' = counted'
  <2>1. LineOK(r[i], i) /\ Volume(r[i]) = counted' /\ Lines'[i] = r[i] /\ slices' = slices
    BY <1>4, <1>5 DEF Turn
  <2> QED
    BY <2>1 DEF LineOK, Volume, EndsAtLastSlice, Short, Unopened
<1> QED
  BY <1>1, <1>6 DEF BarsInv

LEMMA BarsInvStep == BarsInv /\ [Next]_vars => BarsInv'
<1> SUFFICES ASSUME BarsInv, [Next]_vars PROVE BarsInv'
  OBVIOUS
<1>1. ASSUME UNCHANGED <<slices, tick, counted, bars, given, dropped>>, now' \in Nat PROVE BarsInv'
  BY <1>1 DEF BarsInv, Lines, LineOK, Volume, EndsAtLastSlice, Short, Unopened
<1>2. CASE Pass
  BY <1>1, <1>2 DEF Pass, BarsInv
<1>3. CASE \E found \in BOOLEAN : Turn(tick, found)
  BY <1>3, TurnKeeps DEF BarsInv
<1>4. ASSUME NEW t \in Ticks, Turn(t, TRUE) PROVE BarsInv'
  <2>1. t.time \in Int /\ t.time > tick.time /\ t.volume \in Int
    <3>1. Behind \in Nat /\ Ahead \in Nat /\ now \in Nat /\ tick.volume \in Int /\ tick.time \in Nat
      BY BarsAssumption DEF BarsInv
    <3>2. /\ t \in [time : now - Behind .. now + Ahead, volume : {tick.volume, tick.volume + 1}]
          /\ t.time > tick.time
      BY DEF Ticks
    <3> QED
      BY <3>1, <3>2
  <2>2. t.time \in Nat
    BY <2>1 DEF BarsInv
  <2> QED
    BY <1>4, <2>1, <2>2, TurnKeeps
<1>5. CASE UNCHANGED vars
  BY <1>1, <1>5 DEF vars, BarsInv
<1> QED
  BY <1>2, <1>3, <1>4, <1>5 DEF Next

\* For any intervals, sections, clocks and slices: every trade is in exactly one
\* bar of each interval.
THEOREM VolumeKeptAlways == Spec => []VolumeKept
<1>1. BarsInv => VolumeKept
  BY DEF BarsInv, Lines, Volume, VolumeKept
<1> QED
  BY BarsInvInit, BarsInvStep, <1>1, PTL DEF Spec

-----------------------------------------------------------------------------
(* The bars that the strategy is given.  A bar begins after the window of  *)
(* the bar given last, and what replaces it begins after it.               *)

\* What ProcessTick and CloseKLine make of a line: the bar stays, opens, or is
\* closed and replaced by one of a later window.
Kept(k, r, own) ==
  /\ r.bar.start = k.bar.start /\ r.bar.end = k.bar.end /\ r.bar.own = k.bar.own + own
  /\ r.given = k.given /\ r.dropped = k.dropped
OpenedIn(r, i, window, own) == r.bar.start = window /\ r.bar.end = window + Short(i) /\ r.bar.own = own
Closes(k, r, own, inTime) ==
  \/ /\ inTime /\ r.given.window = k.bar.start /\ r.dropped = k.dropped
     /\ r.given.own = k.given.own + k.bar.own + own
  \/ ~inTime /\ r.given = k.given /\ r.dropped.own = k.dropped.own + k.bar.own + own

\* An open bar begins and ends with its window, and nothing was opened before
\* the first bar.
WindowOK(k, i) ==
  \/ k.bar = NoBar /\ k.given.window = -1
  \/ /\ \E n \in Nat : k.bar.start = n * Long(i)
     /\ k.bar.end = k.bar.start + Short(i)
     /\ k.given.window < k.bar.start

LEMMA WindowBounds ==
  ASSUME slices \in SlicesPerSec, NEW i \in Ids, NEW time \in Nat
  PROVE  Window(time, i) <= time /\ time < Window(time, i) + Long(i)
<1>1. Long(i) \in Nat \ {0} /\ Second \in Nat /\ Intervals[i] \in Nat
  BY LastSlice, BarsAssumption DEF Ids
<1> DEFINE n == time \div Long(i)
<1>2. n \in Nat /\ n * Long(i) <= time /\ time < n * Long(i) + Long(i)
  BY <1>1
<1>3. Window(time, i) = n * Long(i)
  BY <1>1, <1>2 DEF Window, Long
<1> QED
  BY <1>2, <1>3

\* Windows do not overlap.
LEMMA NextMultiple ==
  ASSUME NEW p \in Nat \ {0}, NEW a \in Nat, NEW b \in Nat, a * p < b * p + p
  PROVE  a * p <= b * p /\ (a # b => a * p + p <= b * p)
<1>1. a * p < (b + 1) * p
  OBVIOUS
<1>2. a < b + 1
  BY <1>1
<1>3. a * p <= b * p
  BY <1>2
<1>4. ASSUME a # b PROVE a * p + p <= b * p
  <2>1. a + 1 <= b
    BY <1>2, <1>4
  <2>2. (a + 1) * p <= b * p
    BY <2>1
  <2> QED
    BY <2>2
<1> QED
  BY <1>3, <1>4

LEMMA OpenedAt ==
  ASSUME slices \in SlicesPerSec, NEW i \in Ids, NEW time \in Nat, NEW volume \in Int, NEW own \in Int
  PROVE  LET window == Window(time, i)
             bar == Opened(window, WindowEnd(window, i), volume, own)
         IN bar.start = window /\ bar.end = window + Short(i) /\ bar.own = own
<1>1. Window(time, i) \in Nat
  BY WindowType
<1>2. Second \in Nat /\ Intervals[i] \in Nat /\ slices \in Nat \ {0}
  BY BarsAssumption DEF Ids
<1>3. (Intervals[i] - 1) * Second \in Int /\ (Second \div slices) * (slices - 1) \in Int
  <2>1. Second \div slices \in Int /\ slices - 1 \in Int /\ Intervals[i] - 1 \in Int
    BY <1>2, Quotient
  <2> QED
    BY <1>2, <2>1
<1> QED
  BY <1>1, <1>3 DEF Opened, WindowEnd, Short

LEMMA OpenedAfter ==
  ASSUME slices \in SlicesPerSec, NEW i \in Ids, NEW time \in Nat
  PROVE  LET next == Window(time + Second, i)
             bar == Opened(next, WindowEnd(next, i), 0, 0)
         IN bar.start = next /\ bar.end = next + Short(i) /\ bar.own = 0
<1>1. PICK then \in Nat : then = time + Second
  BY BarsAssumption
<1> QED
  BY <1>1, OpenedAt

LEMMA WithTickCases ==
  ASSUME slices \in SlicesPerSec, NEW i \in Ids, NEW k, LineOK(k, i), NEW time \in Nat,
         NEW change \in Int, NEW own \in Int, NEW s, NEW r, r = WithTick(k, i, time, change, own, s)
  PROVE  \/ /\ k.bar.end > Window(time, i) /\ time < k.bar.end
            /\ Kept(k, r, own)
         \/ /\ k.bar.end > Window(time, i) /\ time >= k.bar.end
            /\ Closes(k, r, own, Belongs(time, s)) /\ OpenedIn(r, i, Window(time + Second, i), 0)
         \/ /\ k.bar.end = 0
            /\ r.given = k.given /\ r.dropped = k.dropped /\ OpenedIn(r, i, Window(time, i), own)
         \/ /\ k.bar.end \in 1 .. Window(time, i) - 1
            /\ Closes(k, r, 0, Belongs(time, s)) /\ OpenedIn(r, i, Window(time, i), own)
<1> DEFINE window == Window(time, i)
           more   == [k.bar EXCEPT !.volume = @ + change, !.own = @ + own]
           with   == [k EXCEPT !.bar = more]
           fresh  == Opened(window, WindowEnd(window, i), change, own)
           next   == Window(time + Second, i)
           after  == Opened(next, WindowEnd(next, i), 0, 0)
<1>1. /\ k \in Line /\ k.bar \in Bar /\ k.bar.end \in Nat /\ k.bar.own \in Int
      /\ k.dropped.own \in Int /\ k.given.own \in Int
  BY DEF LineOK, Line, Bar
<1>2. window \in Nat /\ (k.bar.end # window \/ Unopened(k.bar))
  BY <1>1, WindowType DEF LineOK
<1>3. /\ with \in Line /\ with.bar.start = k.bar.start /\ with.bar.end = k.bar.end
      /\ with.bar.own = k.bar.own + own
      /\ with.given = k.given /\ with.dropped = k.dropped
  <2>1. /\ more \in Bar /\ more.end = k.bar.end /\ more.start = k.bar.start
        /\ more.own = k.bar.own + own
    <3> DEFINE traded == [k.bar EXCEPT !.volume = @ + change]
    <3>1. k.bar.volume \in Int /\ k.bar.own \in Int
      BY <1>1 DEF Bar
    <3>2. k.bar.volume + change \in Int /\ k.bar.own + own \in Int
      BY <3>1
    <3>3. /\ traded \in Bar /\ traded.end = k.bar.end /\ traded.start = k.bar.start
          /\ more = [traded EXCEPT !.own = k.bar.own + own]
      BY <1>1, <3>2 DEF Bar
    <3> HIDE DEF traded, more
    <3> QED
      BY <3>2, <3>3 DEF Bar
  <2> HIDE DEF more
  <2> QED
    BY <1>1, <2>1 DEF Line
<1>4. fresh.start = window /\ fresh.end = window + Short(i) /\ fresh.own = own
  BY OpenedAt
<1> HIDE DEF more, with, fresh
<1>5. after.start = next /\ after.end = next + Short(i) /\ after.own = 0
  BY OpenedAfter
<1> HIDE DEF after, window
<1>6. CASE k.bar.end > window /\ time < k.bar.end
  <2>1. r = with
    BY <1>1, <1>2, <1>6 DEF WithTick, with, more, window
  <2> QED
    BY <1>3, <1>6, <2>1 DEF Kept, window
<1>7. CASE k.bar.end > window /\ time >= k.bar.end
  <2>1. r = [Closed(with, time, s) EXCEPT !.bar = after]
    BY <1>1, <1>2, <1>7 DEF WithTick, NextWindow, AfterLastSlice, with, more, after, window
  <2>2. OpenedIn(r, i, next, 0)
    BY <1>3, <1>5, <2>1 DEF OpenedIn, Closed, Given, Line
  <2>3. Closes(k, r, own, Belongs(time, s))
    BY <1>1, <1>3, <2>1 DEF Closes, Closed, Given, Line
  <2> QED
    BY <1>7, <2>2, <2>3 DEF window
<1>8. CASE k.bar.end = 0
  <2>1. r = [k EXCEPT !.bar = fresh]
    BY <1>2, <1>8 DEF WithTick, fresh, window
  <2> QED
    BY <1>1, <1>4, <1>8, <2>1 DEF OpenedIn, Line, window
<1>9. CASE k.bar.end \in 1 .. window - 1
  <2>1. r = [Closed(k, time, s) EXCEPT !.bar = fresh]
    BY <1>1, <1>2, <1>9 DEF WithTick, fresh, window
  <2>2. OpenedIn(r, i, window, own)
    BY <1>1, <1>4, <2>1 DEF OpenedIn, Closed, Given, Line
  <2>3. Closes(k, r, 0, Belongs(time, s))
    BY <1>1, <2>1 DEF Closes, Closed, Given, Line
  <2> QED
    BY <1>9, <2>2, <2>3 DEF window
<1> QED
  BY <1>1, <1>2, <1>6, <1>7, <1>8, <1>9 DEF Unopened

LEMMA ForceClosedCases ==
  ASSUME slices \in SlicesPerSec, NEW time \in Nat, NEW s, NEW k,
         \A j \in Ids : LineOK(k[j], j), NEW i \in Ids, NEW r, r = ForceClosed(k, time, s)[i]
  PROVE  LET at == CloseTimes(time, k)[i] IN
         \/ r = k[i] /\ (Belongs(time, s) /\ (\A j \in Ids : k[j].bar # NoBar) => at < k[i].bar.end)
         \/ /\ at >= k[i].bar.end /\ k[i].bar # NoBar
            /\ Closes(k[i], r, 0, TRUE) /\ OpenedIn(r, i, Window(at + Second, i), 0)
<1> DEFINE at == CloseTimes(time, k)[i]
           next == Window(at + Second, i)
           bar == Opened(next, WindowEnd(next, i), 0, 0)
<1>1. at \in Nat
  BY CloseTimesType
<1>2. bar.start = next /\ bar.end = next + Short(i) /\ bar.own = 0
  BY <1>1, OpenedAfter
<1>3. k[i] \in Line /\ k[i].bar.end \in Nat /\ k[i].bar.own \in Int /\ k[i].given.own \in Int
  BY DEF LineOK, Line, Bar
<1>4. CASE ~Belongs(time, s) \/ \E j \in Ids : k[j].bar = NoBar
  BY <1>4 DEF ForceClosed
<1>5. CASE Belongs(time, s) /\ \A j \in Ids : k[j].bar # NoBar
  <2>1. r = IF at < k[i].bar.end THEN k[i] ELSE [Given(k[i]) EXCEPT !.bar = bar]
    BY <1>5 DEF ForceClosed
  <2> HIDE DEF at, bar
  <2>2. CASE at < k[i].bar.end
    BY <2>1, <2>2 DEF at
  <2>3. CASE ~(at < k[i].bar.end)
    <3>1. r = [Given(k[i]) EXCEPT !.bar = bar]
      BY <2>1, <2>3
    <3>2. OpenedIn(r, i, next, 0)
      BY <1>2, <1>3, <3>1 DEF OpenedIn, Given, Line
    <3>3. Closes(k[i], r, 0, TRUE)
      BY <1>3, <3>1 DEF Closes, Given, Line
    <3>4. at >= k[i].bar.end
      BY <1>1, <1>3, <2>3
    <3> QED
      BY <1>5, <3>2, <3>3, <3>4 DEF at
  <2> QED
    BY <2>2, <2>3
<1> QED
  BY <1>4, <1>5

\* A window ends within a second of its last slice.
LEMMA ShortAndSecond ==
  ASSUME slices \in SlicesPerSec, NEW i \in Ids
  PROVE  Short(i) + Second >= Long(i)
<1>1. Second \in Nat \ {0} /\ slices \in 1 .. Second /\ Intervals[i] \in Nat \ {0, 1}
  BY BarsAssumption DEF Ids
<1>2. Second \div slices \in Nat /\ slices - 1 \in Nat
  BY <1>1
<1>3. (Second \div slices) * (slices - 1) \in Nat
  BY <1>2
<1>4. (Intervals[i] - 1) * Second + Second = Intervals[i] * Second /\ (Intervals[i] - 1) * Second \in Nat
  BY <1>1
<1> DEFINE a == (Intervals[i] - 1) * Second
           b == (Second \div slices) * (slices - 1)
<1>5. Short(i) = a + b /\ Long(i) = a + Second /\ a \in Nat /\ b \in Nat
  BY <1>3, <1>4 DEF Short, Long
<1> HIDE DEF a, b
<1> QED
  BY <1>1, <1>5

\* The window a second after the end of a bar is a later one.
LEMMA LaterWindow ==
  ASSUME slices \in SlicesPerSec, NEW i \in Ids, NEW n \in Nat, NEW time \in Nat,
         time >= n * Long(i) + Short(i)
  PROVE  Window(time + Second, i) >= n * Long(i) + Long(i)
<1>1. Long(i) \in Nat \ {0} /\ Short(i) \in Nat /\ Second \in Nat /\ Short(i) + Second >= Long(i)
  BY LastSlice, ShortAndSecond, BarsAssumption
<1>2. PICK then \in Nat : then = time + Second
  BY <1>1
<1>3. PICK w \in Nat : w = n * Long(i)
  BY <1>1
<1>4. then >= w + Long(i)
  BY <1>1, <1>2, <1>3
<1>5. PICK m \in Nat : Window(then, i) = m * Long(i)
  BY WindowType
<1>6. PICK v \in Nat : v = m * Long(i)
  BY <1>1
<1>7. then < v + Long(i)
  BY <1>5, <1>6, WindowBounds
<1>8. n # m /\ w < v + Long(i)
  BY <1>1, <1>3, <1>4, <1>6, <1>7
<1>9. w + Long(i) <= v
  BY <1>1, <1>3, <1>6, <1>8, NextMultiple
<1> QED
  BY <1>2, <1>3, <1>5, <1>6, <1>9

LEMMA AfterWindow ==
  ASSUME slices \in SlicesPerSec, NEW i \in Ids, NEW time \in Nat
  PROVE  \E m \in Nat : Window(time + Second, i) = m * Long(i)
<1>1. PICK then \in Nat : then = time + Second
  BY BarsAssumption
<1> QED
  BY <1>1, WindowType

LEMMA LineTypes ==
  ASSUME NEW i \in Ids, NEW k, LineOK(k, i), slices \in SlicesPerSec
  PROVE  /\ k.bar.end \in Nat /\ k.bar.start \in Int /\ k.bar.own \in Int
         /\ k.given.window \in Int /\ k.dropped.own \in Int
         /\ Long(i) \in Nat \ {0} /\ Short(i) \in 1 .. Long(i) - 1
BY LastSlice DEF LineOK, Line, Bar

\* What a line was given later.
Later(k, r) == r.given = k.given \/ r.given.window > k.given.window

LEMMA ClosesInOrder ==
  ASSUME slices \in SlicesPerSec, NEW i \in Ids, NEW k, LineOK(k, i), WindowOK(k, i), k.bar # NoBar,
         NEW r, NEW own, NEW own2, NEW inTime, Closes(k, r, own, inTime),
         NEW m \in Nat, m * Long(i) > k.bar.start, OpenedIn(r, i, m * Long(i), own2)
  PROVE  WindowOK(r, i) /\ Later(k, r)
<1>1. k.given.window < k.bar.start /\ k.given.window \in Int /\ k.bar.start \in Int
  BY LineTypes DEF WindowOK
<1>2. m * Long(i) \in Int
  BY LineTypes
<1>3. r.given.window < m * Long(i) /\ Later(k, r)
  BY <1>1, <1>2 DEF Closes, Later
<1> QED
  BY <1>3 DEF WindowOK, OpenedIn

LEMMA WithTickOrder ==
  ASSUME slices \in SlicesPerSec, NEW i \in Ids, NEW k, LineOK(k, i), WindowOK(k, i), NEW time \in Nat,
         NEW change \in Int, NEW own \in Int, NEW s, NEW r, r = WithTick(k, i, time, change, own, s)
  PROVE  WindowOK(r, i) /\ Later(k, r)
<1>1. PICK w \in Nat : w = Window(time, i) /\ \E n \in Nat : w = n * Long(i)
  BY WindowType
<1>2. PICK v : v = Window(time + Second, i) /\ \E n \in Nat : v = n * Long(i)
  BY AfterWindow
<1>3. k.bar = NoBar => k.bar.end = 0 /\ k.given.window = -1
  BY LineTypes DEF WindowOK, NoBar, Opened
<1>4. CASE k.bar.end > w /\ time < k.bar.end /\ Kept(k, r, own)
  <2>1. k.bar # NoBar
    BY <1>3, <1>4
  <2> QED
    BY <1>4, <2>1 DEF Kept, WindowOK, Later
<1>5. CASE /\ k.bar.end > w /\ time >= k.bar.end
           /\ Closes(k, r, own, Belongs(time, s)) /\ OpenedIn(r, i, v, 0)
  <2>1. k.bar # NoBar
    BY <1>3, <1>5
  <2>2. PICK n \in Nat : k.bar.start = n * Long(i) /\ k.bar.end = n * Long(i) + Short(i)
    BY <2>1 DEF WindowOK
  <2>3. v >= n * Long(i) + Long(i)
    BY <1>2, <1>5, <2>2, LaterWindow
  <2>4. n * Long(i) \in Nat /\ v \in Nat /\ Long(i) \in Nat \ {0}
    BY <1>2, LineTypes
  <2>5. v > k.bar.start
    BY <2>2, <2>3, <2>4
  <2> QED
    BY <1>2, <1>5, <2>1, <2>5, ClosesInOrder
<1>6. CASE /\ k.bar.end = 0 /\ r.given = k.given /\ OpenedIn(r, i, w, own)
  <2>1. k.bar = NoBar
    <3>1. SUFFICES ASSUME k.bar # NoBar PROVE FALSE
      OBVIOUS
    <3>2. PICK n \in Nat : k.bar.end = n * Long(i) + Short(i)
      BY <3>1 DEF WindowOK
    <3>3. n * Long(i) \in Nat
      BY LineTypes
    <3> QED
      BY <1>6, <3>2, <3>3, LineTypes
  <2> QED
    BY <1>1, <1>3, <1>6, <2>1 DEF WindowOK, OpenedIn, Later
<1>7. CASE /\ k.bar.end \in 1 .. w - 1
           /\ Closes(k, r, 0, Belongs(time, s)) /\ OpenedIn(r, i, w, own)
  <2>1. k.bar # NoBar
    BY <1>3, <1>7
  <2>2. k.bar.start < w
    <3>1. k.bar.end = k.bar.start + Short(i)
      BY <2>1 DEF WindowOK
    <3> QED
      BY <1>7, <3>1, LineTypes
  <2> QED
    BY <1>1, <1>7, <2>1, <2>2, ClosesInOrder
<1> QED
  BY <1>1, <1>2, <1>4, <1>5, <1>6, <1>7, WithTickCases

LEMMA ForceClosedOrder ==
  ASSUME slices \in SlicesPerSec, NEW time \in Nat, NEW s, NEW k,
         \A j \in Ids : LineOK(k[j], j), NEW i \in Ids, WindowOK(k[i], i),
         NEW r, r = ForceClosed(k, time, s)[i]
  PROVE  WindowOK(r, i) /\ Later(k[i], r)
<1>1. PICK at \in Nat : at = CloseTimes(time, k)[i]
  BY CloseTimesType
<1>2. PICK v : v = Window(at + Second, i) /\ \E n \in Nat : v = n * Long(i)
  BY AfterWindow
<1>3. CASE r = k[i]
  BY <1>3 DEF Later
<1>4. CASE /\ at >= k[i].bar.end /\ k[i].bar # NoBar
           /\ Closes(k[i], r, 0, TRUE) /\ OpenedIn(r, i, v, 0)
  <2>1. PICK n \in Nat : k[i].bar.start = n * Long(i) /\ k[i].bar.end = n * Long(i) + Short(i)
    BY <1>4 DEF WindowOK
  <2>2. v >= n * Long(i) + Long(i)
    BY <1>2, <1>4, <2>1, LaterWindow
  <2>3. n * Long(i) \in Nat /\ v \in Nat /\ Long(i) \in Nat \ {0}
    BY <1>2, LineTypes
  <2>4. v > k[i].bar.start
    BY <2>1, <2>2, <2>3
  <2> QED
    BY <1>2, <1>4, <2>4, ClosesInOrder
<1>5. \/ r = k[i]
      \/ /\ CloseTimes(time, k)[i] >= k[i].bar.end /\ k[i].bar # NoBar
         /\ Closes(k[i], r, 0, TRUE) /\ OpenedIn(r, i, Window(CloseTimes(time, k)[i] + Second, i), 0)
  BY ForceClosedCases
<1> QED
  BY <1>1, <1>2, <1>3, <1>4, <1>5

\* The lines after the tick that a turn found, if it changes bars.
Ticked(t, found) == IF found /\ Trading(now) THEN AfterTick(t, SectionAt(now)) ELSE Lines
Due == Counting % Minute = CloseSecond

LEMMA TickedOK ==
  ASSUME BarsInv, NEW t, t.time \in Nat, t.volume \in Int, NEW found \in BOOLEAN, NEW i \in Ids
  PROVE  /\ LineOK(Ticked(t, found)[i], i)
         /\ \/ Ticked(t, found)[i] = Lines[i]
            \/ \E own \in Int : Ticked(t, found)[i] =
                 WithTick(Lines[i], i, t.time, t.volume - counted, own, SectionAt(now))
<1> DEFINE s == SectionAt(now)
           own == IF InSection(t.time, s) THEN New(t) ELSE 0
<1>1. LineOK(Lines[i], i) /\ slices \in SlicesPerSec
  BY DEF BarsInv
<1>2. CASE found /\ Trading(now)
  <2>1. Ticked(t, found)[i] = WithTick(Lines[i], i, t.time, t.volume - counted, own, s)
    BY <1>2 DEF Ticked, AfterTick
  <2>2. t.volume - counted \in Int /\ own \in Int
    BY DEF BarsInv, New
  <2> HIDE DEF own, s
  <2>3. LineOK(WithTick(Lines[i], i, t.time, t.volume - counted, own, s), i)
    BY <1>1, <2>2, WithTickOK
  <2> QED
    BY <2>1, <2>2, <2>3 DEF s
<1>3. CASE ~(found /\ Trading(now))
  BY <1>1, <1>3 DEF Ticked
<1> QED
  BY <1>2, <1>3

\* A turn makes of every line what the tick and then the timer make of it.
LEMMA TurnLines ==
  ASSUME BarsInv, NEW t, t.time \in Nat, t.volume \in Int, NEW found \in BOOLEAN, Turn(t, found),
         NEW i \in Ids
  PROVE  Lines'[i] = IF Due THEN ForceClosed(Ticked(t, found), now, SectionAt(now))[i]
                            ELSE Ticked(t, found)[i]
<1> DEFINE k == Ticked(t, found)
           r == IF Due THEN ForceClosed(k, now, SectionAt(now)) ELSE k
<1>1. Becomes(r)
  BY DEF Turn, Ticked, Due
<1>2. \A j \in Ids : LineOK(k[j], j)
  BY TickedOK
<1> HIDE DEF k
<1>3. r[i] \in Line
  BY <1>2, ForceClosedOK DEF LineOK, BarsInv
<1> HIDE DEF r
<1>4. r[i] = [bar |-> r[i].bar, given |-> r[i].given, dropped |-> r[i].dropped]
  BY <1>3 DEF Line
<1>5. Lines'[i] = r[i]
  BY <1>1, <1>4 DEF Becomes, Lines
<1> QED
  BY <1>5 DEF r, k

OrderInv == \A i \in Ids : WindowOK(Lines[i], i)

LEMMA OrderInvInit == Init => OrderInv
BY DEF Init, OrderInv, WindowOK, Lines

LEMMA TickedOrder ==
  ASSUME BarsInv, OrderInv, NEW t, t.time \in Nat, t.volume \in Int, NEW found \in BOOLEAN,
         NEW i \in Ids, NEW k, k = Ticked(t, found)[i]
  PROVE  WindowOK(k, i) /\ Later(Lines[i], k)
<1>1. slices \in SlicesPerSec /\ LineOK(Lines[i], i) /\ WindowOK(Lines[i], i) /\ t.volume - counted \in Int
  BY DEF BarsInv, OrderInv
<1>2. CASE k = Lines[i]
  BY <1>1, <1>2 DEF Later
<1>3. CASE \E own \in Int : k = WithTick(Lines[i], i, t.time, t.volume - counted, own, SectionAt(now))
  BY <1>1, <1>3, WithTickOrder
<1> QED
  BY <1>2, <1>3, TickedOK

LEMMA TurnInOrder ==
  ASSUME BarsInv, OrderInv, NEW t, t.time \in Nat, t.volume \in Int, NEW found \in BOOLEAN, Turn(t, found)
  PROVE  OrderInv' /\ \A i \in Ids : Later(Lines[i], Lines'[i])
<1> SUFFICES ASSUME NEW i \in Ids
             PROVE  WindowOK(Lines[i], i)' /\ Later(Lines[i], Lines'[i])
  BY DEF OrderInv
<1>1. PICK k : k = Ticked(t, found)
  OBVIOUS
<1>2. \A j \in Ids : LineOK(k[j], j)
  BY <1>1, TickedOK
<1>3. slices \in SlicesPerSec /\ now \in Nat /\ LineOK(Lines[i], i) /\ WindowOK(Lines[i], i)
      /\ t.volume - counted \in Int
  BY DEF BarsInv, OrderInv
<1>4. WindowOK(k[i], i) /\ Later(Lines[i], k[i])
  BY <1>1, TickedOrder
<1>5. PICK r : r = Lines'[i]
  OBVIOUS
<1>6. WindowOK(r, i) /\ Later(k[i], r)
  <2>1. CASE Due
    BY <1>1, <1>2, <1>3, <1>4, <1>5, <2>1, TurnLines, ForceClosedOrder
  <2>2. CASE ~Due
    BY <1>1, <1>4, <1>5, <2>2, TurnLines DEF Later
  <2> QED
    BY <2>1, <2>2
<1>7. Later(Lines[i], r)
  <2>1. Lines[i].given.window \in Int /\ k[i].given.window \in Int
    BY <1>2, <1>3, LineTypes
  <2>2. r.given.window \in Int
    <3>1. r.given = k[i].given \/ r.given.window \in Int
      <4>1. BarsInv'
        BY TurnKeeps
      <4> QED
        BY <1>5, <4>1 DEF BarsInv, LineOK, Line
    <3> QED
      BY <2>1, <3>1
  <2> QED
    BY <1>4, <1>6, <2>1, <2>2 DEF Later
<1>8. slices' = slices
  BY DEF Turn
<1>9. WindowOK(Lines[i], i)'
  BY <1>5, <1>6, <1>8 DEF WindowOK, Long, Short
<1> QED
  BY <1>5, <1>7, <1>9

LEMMA TicksAreNat ==
  ASSUME BarsInv, NEW t \in Ticks
  PROVE  t.time \in Nat /\ t.volume \in Int
<1>1. Behind \in Nat /\ Ahead \in Nat /\ now \in Nat /\ tick.volume \in Int /\ tick.time \in Nat
  BY BarsAssumption DEF BarsInv
<1>2. /\ t \in [time : now - Behind .. now + Ahead, volume : {tick.volume, tick.volume + 1}]
      /\ t.time > tick.time
  BY DEF Ticks
<1>3. t.time \in Int /\ t.volume \in Int
  BY <1>1, <1>2
<1> QED
  BY <1>1, <1>2, <1>3

LEMMA OrderInvStep ==
  ASSUME BarsInv, OrderInv, [Next]_vars
  PROVE  OrderInv' /\ \A i \in Ids : Later(Lines[i], Lines'[i])
<1>1. CASE Pass \/ UNCHANGED vars
  <2>1. UNCHANGED <<slices, bars, given, dropped>>
    BY <1>1 DEF Pass, vars
  <2> QED
    BY <2>1 DEF OrderInv, WindowOK, Long, Short, Lines, Later
<1>2. CASE \E found \in BOOLEAN : Turn(tick, found)
  BY <1>2, TurnInOrder DEF BarsInv
<1>3. CASE \E t \in Ticks : Turn(t, TRUE)
  BY <1>3, TicksAreNat, TurnInOrder
<1> QED
  BY <1>1, <1>2, <1>3 DEF Next

\* For any intervals, sections, clocks and slices: a bar is given to the strategy
\* only if its window is later than the one given last.
THEOREM WindowsInOrderAlways == Spec => WindowsInOrder
<1> DEFINE Step == \A i \in Ids : given'[i].number > given[i].number => given'[i].window > given[i].window
<1>1. BarsInv /\ OrderInv /\ [Next]_vars => OrderInv' /\ [Step]_vars
  <2>1. ASSUME BarsInv, OrderInv, [Next]_vars, NEW i \in Ids, given'[i].number > given[i].number
        PROVE  given'[i].window > given[i].window
    <3>1. given[i].number \in Int
      BY <2>1 DEF BarsInv, LineOK, Line, Lines
    <3>2. given'[i] # given[i]
      BY <2>1, <3>1
    <3>3. Later(Lines[i], Lines'[i])
      BY <2>1, OrderInvStep
    <3> QED
      BY <3>2, <3>3 DEF Later, Lines
  <2> QED
    BY <2>1, OrderInvStep
<1> QED
  BY OrderInvInit, <1>1, BarsInvInit, BarsInvStep, PTL DEF Spec, WindowsInOrder

-----------------------------------------------------------------------------
(* The bars of a section.  While a bar holds trades of a section, the last *)
(* section is that one, its closing second has not passed, and the window  *)
(* of the bar lies in it.  Ticks close such a bar only in the time that    *)
(* belongs to the section, and the timer in the closing second at last.    *)

\* What the configuration of XQuant has: intervals of a minute and more, whole
\* slices, sections that end with a minute and lie further apart than the
\* seconds in which their bars are closed; and the clocks differ by less than a
\* minute.
Regular ==
  /\ \A i \in Ids : Intervals[i] >= Minute
  /\ \A n \in SlicesPerSec : (Second \div n) * n = Second
  /\ \A s \in Sections : {s.start, s.end} \subseteq Nat /\ s.end % Minute = 0
  /\ \A s, u \in Sections : s = u \/ s.end + CloseSecond < u.start \/ u.end + CloseSecond < s.start
  /\ Ahead <= (Minute - 1) * Second

MinuteEnd(time) == (time \div (Minute * Second) + 1) * (Minute * Second)

\* A bar is open no further ahead than the slice after the tick counted last, or
\* the end of the minute.
Reached == IF counted = tick.volume THEN tick.time + Second \div slices ELSE tick.time
Near(bar, time, reached) == bar.start <= reached \/ bar.start < MinuteEnd(time)

\* The timer is ahead of the clock only after it closed.
TimerOK ==
  /\ previous \in Int
  /\ \/ previous <= now \div Second
     \/ previous = now \div Second + 1 /\ (now \div Second) % Minute = CloseSecond

\* The bars of section u may still be closed in time.
Closing(u) ==
  /\ u \in Sections /\ u.start * Second <= now
  /\ now \div Second <= u.end + CloseSecond /\ previous <= u.end + CloseSecond
Within(bar, i, u) == u.start * Second <= bar.start /\ bar.start + Long(i) <= u.end * Second
OwnKept(k, i, u) == k.dropped.own = 0 /\ (k.bar.own # 0 => Closing(u) /\ Within(k.bar, i, u))

SectionInv ==
  /\ TimerOK /\ tick.time <= now + Ahead /\ counted <= tick.volume
  /\ ~missed =>
       /\ (\A i \in Ids : bars[i] # NoBar) \/ (\A i \in Ids : bars[i] = NoBar)
       /\ \A i \in Ids : bars[i] # NoBar => Near(bars[i], now, Reached)
       /\ \A i \in Ids : OwnKept(Lines[i], i, section)

\* Arithmetic.

LEMMA Divided ==
  ASSUME NEW a \in Nat, NEW p \in Nat \ {0}
  PROVE  /\ a \div p \in Nat /\ (a \div p) * p \in Nat
         /\ (a \div p) * p <= a /\ a < (a \div p) * p + p
         /\ a % p = a - (a \div p) * p
OBVIOUS

LEMMA Smaller ==
  ASSUME NEW a \in Int, NEW b \in Int, NEW p \in Nat \ {0}
  PROVE  (a < b <=> a * p + p <= b * p) /\ (a <= b <=> a * p <= b * p) /\ (a < b <=> a * p < b * p)
<1>1. (b - a) * p = b * p - a * p
  OBVIOUS
<1> DEFINE d == b - a
<1>2. d \in Int /\ (d >= 1 => d * p >= p) /\ (d <= 0 => d * p <= 0) /\ (d >= 0 => d * p >= 0) /\ (d < 0 => d * p < 0)
  OBVIOUS
<1> QED
  BY <1>1, <1>2

LEMMA DividedBelow ==
  ASSUME NEW a \in Nat, NEW e \in Int, NEW p \in Nat \ {0}
  PROVE  (a < e * p <=> a \div p < e) /\ (e * p <= a <=> e <= a \div p)
<1> PICK n \in Nat : n = a \div p
  BY Divided
<1> PICK m \in Nat : m = n * p
  BY Divided
<1>1. m <= a /\ a < m + p
  BY Divided
<1>2. (n < e <=> m + p <= e * p) /\ (e <= n <=> e * p <= m)
  BY Smaller
<1> QED
  BY <1>1, <1>2

LEMMA NextDivided ==
  ASSUME NEW a \in Nat, NEW p \in Nat \ {0}
  PROVE  /\ a \div p <= (a + 1) \div p /\ (a + 1) \div p <= a \div p + 1
         /\ (a + 1) \div p # a \div p => (a + 1) % p = 0
<1> PICK n \in Nat : n = a \div p
  BY Divided
<1> PICK m \in Nat : m = (a + 1) \div p
  BY Divided
<1>1. n * p <= a /\ a < n * p + p /\ m * p <= a + 1 /\ a + 1 < m * p + p
      /\ n * p \in Nat /\ m * p \in Nat
  BY Divided
<1>2. (n + 1) * p = n * p + p /\ (n + 2) * p = n * p + p + p
  OBVIOUS
<1>3. n <= m
  <2>1. n * p < (m + 1) * p /\ (m + 1) * p = m * p + p
    BY <1>1
  <2> QED
    BY <2>1, Smaller
<1>4. m <= n + 1
  <2>1. m * p < (n + 2) * p
    BY <1>1, <1>2
  <2> QED
    BY <2>1, Smaller
<1>5. ASSUME m # n PROVE (a + 1) % p = 0
  <2>1. m = n + 1
    BY <1>3, <1>4, <1>5
  <2>2. m * p = a + 1
    BY <1>1, <1>2, <2>1
  <2> QED
    BY <2>2, Divided
<1> QED
  BY <1>3, <1>4, <1>5

LEMMA Multiple ==
  ASSUME NEW a \in Nat, NEW p \in Nat \ {0}, a % p = 0
  PROVE  \E m \in Nat : a = m * p
<1>1. a = (a \div p) * p /\ a \div p \in Nat
  BY Divided
<1> QED
  BY <1>1

-----------------------------------------------------------------------------
(* Windows, sections, minutes and slices.                                  *)

\* A section begins and ends with a window of every interval.
LEMMA SectionWindows ==
  ASSUME Regular, NEW u \in Sections, NEW i \in Ids
  PROVE  /\ u.start \in Nat /\ u.end \in Nat /\ u.start < u.end
         /\ u.start * Second \in Nat /\ u.end * Second \in Nat
         /\ \E m \in Nat : u.start * Second = m * Long(i)
         /\ \E m \in Nat : u.end * Second = m * Long(i)
<1>1. /\ u.start \in Nat /\ u.end \in Nat /\ u.start < u.end
      /\ Second \in Nat \ {0} /\ Intervals[i] \in Nat \ {0}
      /\ u.start % Intervals[i] = 0 /\ u.end % Intervals[i] = 0
  BY BarsAssumption DEF Regular, Ids
<1>2. ASSUME NEW a \in Nat, a % Intervals[i] = 0
      PROVE  a * Second \in Nat /\ \E m \in Nat : a * Second = m * Long(i)
  <2>1. PICK m \in Nat : a = m * Intervals[i]
    BY <1>1, <1>2, Multiple
  <2>2. a * Second = m * (Intervals[i] * Second)
    BY <1>1, <2>1
  <2> QED
    BY <1>1, <2>2 DEF Long
<1> QED
  BY <1>1, <1>2

\* A bar that begins before the end of a section ends in it; a bar that ends
\* after its start begins in it.
LEMMA WindowInSection ==
  ASSUME Regular, slices \in SlicesPerSec, NEW u \in Sections, NEW i \in Ids, NEW n \in Nat
  PROVE  /\ n * Long(i) < u.end * Second => n * Long(i) + Long(i) <= u.end * Second
         /\ u.start * Second < n * Long(i) + Long(i) => u.start * Second <= n * Long(i)
<1>1. Long(i) \in Nat \ {0}
  BY LastSlice
<1>2. PICK a \in Nat : u.start * Second = a * Long(i)
  BY SectionWindows
<1>3. PICK b \in Nat : u.end * Second = b * Long(i)
  BY SectionWindows
<1>4. n * Long(i) < b * Long(i) => n * Long(i) + Long(i) <= b * Long(i)
  BY <1>1, Smaller
<1>5. (n + 1) * Long(i) = n * Long(i) + Long(i)
  BY <1>1
<1>6. a * Long(i) < (n + 1) * Long(i) => a * Long(i) <= n * Long(i)
  <2>1. a * Long(i) < (n + 1) * Long(i) => a < n + 1
    BY <1>1, Smaller
  <2>2. a <= n => a * Long(i) <= n * Long(i)
    BY <1>1, Smaller
  <2> QED
    BY <2>1, <2>2
<1> QED
  BY <1>2, <1>3, <1>4, <1>5, <1>6

\* The last slice is one slice long, and a window is a whole number of them.
LEMMA WholeSlices ==
  ASSUME Regular, slices \in SlicesPerSec, NEW i \in Ids
  PROVE  /\ Second \div slices \in Nat \ {0}
         /\ Short(i) + Second \div slices = Long(i)
         /\ \E m \in Nat : Long(i) = m * (Second \div slices)
         /\ Short(i) >= (Minute - 1) * Second /\ Long(i) >= Second + Second
<1>1. Second \in Nat \ {0} /\ slices \in 1 .. Second /\ Intervals[i] \in Nat \ {0, 1}
      /\ Minute \in Nat /\ Intervals[i] >= Minute
  BY BarsAssumption DEF Ids, Regular
<1>2. PICK q \in Nat : q = Second \div slices /\ q * slices = Second
  <2>1. slices \in Nat \ {0} /\ Second \in Nat
    BY <1>1
  <2>2. Second \div slices \in Nat
    BY <2>1, Divided
  <2>3. (Second \div slices) * slices = Second
    BY DEF Regular
  <2> QED
    BY <2>2, <2>3
<1>3. q # 0
  BY <1>1, <1>2
<1>4. q * (slices - 1) = Second - q
  BY <1>1, <1>2
<1>5. Intervals[i] * Second = (Intervals[i] - 1) * Second + Second /\ (Intervals[i] - 1) * Second \in Nat
  BY <1>1
<1>6. Intervals[i] * Second = (Intervals[i] * slices) * q /\ Intervals[i] * slices \in Nat
  BY <1>1, <1>2
<1>7. (Intervals[i] - 1) * Second >= (Minute - 1) * Second /\ (Minute - 1) * Second \in Int
  BY <1>1, Smaller
<1>8. (Intervals[i] - 1) * Second >= Second
  BY <1>1
<1>9. Short(i) = (Intervals[i] - 1) * Second + Second - q /\ Long(i) = (Intervals[i] - 1) * Second + Second
  <2>1. Short(i) = (Intervals[i] - 1) * Second + q * (slices - 1)
    BY <1>2 DEF Short
  <2> QED
    BY <1>1, <1>2, <1>4, <1>5, <2>1 DEF Long
<1>10. q <= Second
  BY <1>1, <1>2
<1>11. \E m \in Nat : Long(i) = m * q
  BY <1>6 DEF Long
<1>12. PICK a \in Nat : a = (Intervals[i] - 1) * Second
  BY <1>5
<1>13. PICK b \in Int : b = (Minute - 1) * Second
  BY <1>7
<1>14. Short(i) + q = Long(i) /\ Short(i) >= b /\ Long(i) >= Second + Second
  <2>1. Short(i) = a + Second - q /\ Long(i) = a + Second
    BY <1>9, <1>12
  <2>2. a >= b /\ a >= Second
    BY <1>7, <1>8, <1>12, <1>13
  <2>3. Second \in Nat
    BY <1>1
  <2> QED
    BY <1>10, <2>1, <2>2, <2>3
<1> QED
  BY <1>2, <1>3, <1>11, <1>13, <1>14

\* The next slice after a time is not before a window that begins a slice later.
LEMMA NextSlice ==
  ASSUME Regular, slices \in SlicesPerSec, NEW i \in Ids, NEW n \in Nat, NEW time \in Nat,
         n * Long(i) <= time + Second \div slices,
         NEW later \in Nat, later > time, later % (Second \div slices) = 0
  PROVE  n * Long(i) <= later
<1>1. PICK q \in Nat \ {0} : q = Second \div slices
  BY WholeSlices
<1>2. PICK m \in Nat : Long(i) = m * q
  BY <1>1, WholeSlices
<1>3. PICK g \in Nat : later = g * q
  BY <1>1, Multiple
<1>4. n * Long(i) = (n * m) * q /\ n * m \in Nat
  BY <1>2
<1>5. (n * m) * q < (g + 1) * q
  <2>1. (g + 1) * q = g * q + q
    OBVIOUS
  <2>2. (n * m) * q <= time + q
    BY <1>1, <1>4
  <2>3. (n * m) * q \in Nat
    BY <1>4
  <2> QED
    BY <1>3, <2>1, <2>2, <2>3
<1>6. n * m < g + 1
  BY <1>4, <1>5, Smaller
<1>7. (n * m) * q <= g * q
  BY <1>4, <1>6, Smaller
<1> QED
  BY <1>3, <1>4, <1>7

\* A time before the end of a section is in a minute that ends no later.
LEMMA MinuteInSection ==
  ASSUME Regular, NEW u \in Sections, NEW time \in Nat, time < u.end * Second
  PROVE  MinuteEnd(time) <= u.end * Second
<1>1. Minute \in Nat \ {0} /\ Second \in Nat \ {0} /\ u.end \in Nat /\ u.end % Minute = 0
  BY BarsAssumption DEF Regular
<1>2. PICK m \in Nat : u.end = m * Minute
  BY <1>1, Multiple
<1>3. PICK p \in Nat \ {0} : p = Minute * Second
  BY <1>1
<1>4. u.end * Second = m * p
  BY <1>1, <1>2, <1>3
<1>5. PICK n \in Nat : n = time \div p
  BY Divided
<1>6. n < m
  BY <1>4, <1>5, DividedBelow
<1>7. (n + 1) * p <= m * p
  BY <1>6, Smaller
<1> QED
  BY <1>3, <1>4, <1>5, <1>7 DEF MinuteEnd

LEMMA MinuteType ==
  ASSUME NEW time \in Nat
  PROVE  MinuteEnd(time) \in Nat /\ MinuteEnd(time) <= MinuteEnd(time + 1)
<1>1. PICK p \in Nat \ {0} : p = Minute * Second
  BY BarsAssumption
<1>2. PICK n \in Nat : n = time \div p
  BY <1>1, Divided
<1>3. PICK m \in Nat : m = (time + 1) \div p
  <2>1. time + 1 \in Nat
    OBVIOUS
  <2> QED
    BY <2>1, Divided
<1>4. n <= m
  BY <1>1, <1>2, <1>3, NextDivided
<1>5. (n + 1) * p <= (m + 1) * p /\ (n + 1) * p \in Nat
  BY <1>4, Smaller
<1> QED
  BY <1>1, <1>2, <1>3, <1>5 DEF MinuteEnd

\* The timer's seconds do not take it to the next minute.
LEMMA TimerInMinute ==
  ASSUME NEW time \in Nat, (time \div Second) % Minute = CloseSecond,
         NEW x \in Nat, x <= time + Len(Intervals) * Second
  PROVE  x < MinuteEnd(time)
<1>1. Minute \in Nat \ {0} /\ Second \in Nat \ {0} /\ CloseSecond \in Nat /\ Len(Intervals) \in Nat
      /\ CloseSecond + Len(Intervals) < Minute - 1
  BY BarsAssumption
<1>2. PICK second \in Nat : second = time \div Second
  BY <1>1, Divided
<1>3. PICK m \in Nat : m = second \div Minute
  BY <1>1, Divided
<1>4. second = m * Minute + CloseSecond
  <2>1. second % Minute = second - m * Minute /\ m * Minute \in Nat
    BY <1>1, <1>3, Divided
  <2>2. second % Minute = CloseSecond
    BY <1>2
  <2> QED
    BY <1>1, <2>1, <2>2
<1>5. time < second * Second + Second
  BY <1>1, <1>2, Divided
<1>6. x < (second + 1 + Len(Intervals)) * Second
  BY <1>1, <1>5
<1>7. second + 1 + Len(Intervals) < (m + 1) * Minute
  BY <1>1, <1>4
<1>8. (second + 1 + Len(Intervals)) * Second <= ((m + 1) * Minute) * Second
  BY <1>1, <1>7, Smaller
<1>9. PICK p \in Nat \ {0} : p = Minute * Second
  BY <1>1
<1>10. ((m + 1) * Minute) * Second = (m + 1) * p
  BY <1>1, <1>9
<1>11. m * p <= time /\ x < (m + 1) * p
  <2>1. (m * Minute) * Second = m * p
    BY <1>1, <1>9
  <2>2. m * Minute <= second
    BY <1>1, <1>4
  <2>3. (m * Minute) * Second <= second * Second
    BY <1>1, <2>2, Smaller
  <2>4. second * Second <= time /\ second * Second \in Nat
    BY <1>1, <1>2, Divided
  <2>5. (second + 1 + Len(Intervals)) * Second \in Nat /\ (m + 1) * p \in Nat /\ m * p \in Nat
    BY <1>1
  <2> QED
    BY <1>6, <1>8, <1>10, <2>1, <2>3, <2>4, <2>5
<1>12. PICK n \in Nat : n = time \div p
  BY Divided
<1>13. m <= n
  BY <1>11, <1>12, DividedBelow
<1>14. (m + 1) * p <= (n + 1) * p /\ (m + 1) * p \in Nat /\ (n + 1) * p \in Nat
  BY <1>13, Smaller
<1> QED
  BY <1>9, <1>11, <1>12, <1>14 DEF MinuteEnd

-----------------------------------------------------------------------------
(* What a tick, the timer and the passing of time do to the bars of a      *)
(* section.                                                                *)

LEMMA TimesBounded ==
  ASSUME NEW n \in Nat, NEW T, NEW time \in Nat, NEW k, Times(T, n, time, k)
  PROVE  \A i \in 1 .. n : time <= T[i] /\ T[i] + Second <= time + i * Second
<1> DEFINE Bad == {i \in 1 .. n : ~(time <= T[i] /\ T[i] + Second <= time + i * Second)}
<1> SUFFICES ASSUME Bad # {} PROVE FALSE
  OBVIOUS
<1>1. PICK x \in Bad : \A y \in Bad : x <= y
  <2>1. Bad \subseteq Nat
    OBVIOUS
  <2> HIDE DEF Bad
  <2> QED
    BY <2>1, SmallestNat
<1>2. \A i \in 1 .. n : T[i] \in Nat
  BY TimesAreNat
<1>3. Second \in Nat
  BY BarsAssumption
<1>4. CASE x = 1
  <2>1. T[x] = time
    BY <1>1, <1>4 DEF Times
  <2> QED
    BY <1>1, <1>3, <1>4, <2>1
<1>5. CASE x # 1
  <2>1. T[x] = NextTime(T[x - 1], k[x - 1].bar.end)
    BY <1>1, <1>5 DEF Times
  <2>2. x - 1 \in 1 .. n /\ x - 1 \notin Bad
    BY <1>1, <1>5
  <2>3. time <= T[x - 1] /\ T[x - 1] + Second <= time + (x - 1) * Second
    BY <2>2
  <2>4. T[x] \in {T[x - 1], T[x - 1] + Second}
    BY <2>1 DEF NextTime
  <2>5. x * Second = (x - 1) * Second + Second /\ (x - 1) * Second \in Nat
    BY <1>1, <1>3, <2>2
  <2>6. T[x - 1] \in Nat
    BY <1>2, <2>2
  <2>7. time <= T[x] /\ T[x] + Second <= time + x * Second
    BY <1>3, <2>3, <2>4, <2>5, <2>6
  <2> QED
    BY <1>1, <2>7
<1> QED
  BY <1>4, <1>5

LEMMA CloseTimesBounds ==
  ASSUME NEW time \in Nat, NEW k, NEW i \in Ids, NEW at, at = CloseTimes(time, k)[i]
  PROVE  at \in Nat /\ time <= at /\ at + Second <= time + Len(Intervals) * Second
<1>1. Len(Intervals) \in Nat /\ Ids = 1 .. Len(Intervals) /\ Second \in Nat \ {0}
  BY BarsAssumption DEF Ids
<1>2. \E T : Times(T, Len(Intervals), time, k)
  BY <1>1, TimesExist
<1>3. CloseTimes(time, k) = CHOOSE T : Times(T, Len(Intervals), time, k)
  BY <1>1 DEF CloseTimes, Times, NextTime
<1>4. Times(CloseTimes(time, k), Len(Intervals), time, k)
  BY <1>2, <1>3
<1>5. time <= at /\ at + Second <= time + i * Second /\ at \in Nat
  BY <1>1, <1>4, TimesBounded, TimesAreNat
<1>6. i * Second <= Len(Intervals) * Second
  BY <1>1, Smaller
<1>7. i * Second \in Nat /\ Len(Intervals) * Second \in Nat
  BY <1>1
<1> QED
  BY <1>1, <1>5, <1>6, <1>7

\* While the bars of a section may still be closed it stays the last section.
LEMMA SectionStays ==
  ASSUME Regular, now \in Nat, NEW u, u = section, Closing(u)
  PROVE  SectionAt(now) = u
<1>1. CASE ~Trading(now)
  BY <1>1 DEF SectionAt
<1>2. CASE Trading(now)
  <2>1. PICK s \in Sections : SectionAt(now) = s /\ s.start * Second <= now /\ now < s.end * Second
    BY <1>2 DEF SectionAt, Trading, InSection
  <2>2. Second \in Nat \ {0} /\ CloseSecond \in Nat /\ \A x \in {s, u} : x.start \in Nat /\ x.end \in Nat
    BY <2>1, BarsAssumption DEF Regular, Closing
  <2>3. s.start <= now \div Second /\ now \div Second < s.end /\ u.start <= now \div Second
    BY <2>1, <2>2, DividedBelow DEF Closing
  <2>4. now \div Second \in Nat /\ now \div Second <= u.end + CloseSecond
    BY <2>2, Divided DEF Closing
  <2>5. ~(s.end + CloseSecond < u.start) /\ ~(u.end + CloseSecond < s.start)
    BY <2>2, <2>3, <2>4
  <2> QED
    BY <2>1, <2>5 DEF Regular, Closing
<1> QED
  BY <1>1, <1>2

LEMMA TradingSection ==
  ASSUME Regular, now \in Nat, TimerOK, Trading(now), NEW s, s = SectionAt(now)
  PROVE  Closing(s) /\ now < s.end * Second
<1>1. s \in Sections /\ s.start * Second <= now /\ now < s.end * Second
  BY DEF SectionAt, Trading, InSection
<1>2. Second \in Nat \ {0} /\ CloseSecond \in Nat /\ s.end \in Nat
  BY <1>1, BarsAssumption DEF Regular
<1>3. PICK second \in Nat : second = now \div Second
  BY <1>2, Divided
<1>4. second < s.end
  BY <1>1, <1>2, <1>3, DividedBelow
<1> QED
  BY <1>1, <1>2, <1>3, <1>4 DEF Closing, TimerOK

\* The minute after its start, and the end of its last bar, belong to a section.
LEMMA EndBelongs ==
  ASSUME Regular, slices \in SlicesPerSec, NEW s \in Sections, NEW i \in Ids, NEW start \in Int,
         s.start * Second <= start, NEW time \in Nat, start + Short(i) <= time,
         time < s.end * Second + (Minute - 1) * Second
  PROVE  Belongs(time, s)
<1>1. Second \in Nat /\ Minute \in Nat \ {0} /\ s.start \in Nat /\ s.end \in Nat
  BY BarsAssumption DEF Regular
<1>2. (s.start + Minute - 1) * Second = s.start * Second + (Minute - 1) * Second
      /\ (s.end + Minute - 1) * Second = s.end * Second + (Minute - 1) * Second
  BY <1>1
<1>3. Short(i) >= (Minute - 1) * Second /\ Short(i) \in Nat
  BY WholeSlices, LastSlice
<1>4. (Minute - 1) * Second \in Nat /\ s.start * Second \in Nat /\ s.end * Second \in Nat
  BY <1>1
<1> QED
  BY <1>2, <1>3, <1>4 DEF Belongs

\* ProcessTick, in trading hours, on a bar that may hold trades of the section.
LEMMA WithTickOwn ==
  ASSUME Regular, BarsInv, OrderInv, NEW s \in Sections, now < s.end * Second, NEW i \in Ids, NEW k, k = Lines[i],
         k.dropped.own = 0, k.bar.own # 0 => Within(k.bar, i, s),
         NEW time \in Nat, time <= now + Ahead, NEW change \in Int, NEW own \in Int,
         own # 0 => s.start * Second <= time /\ time < s.end * Second,
         own # 0 /\ k.bar # NoBar => Near(k.bar, now, time),
         k.bar # NoBar => Near(k.bar, now, time + Second \div slices),
         NEW r, r = WithTick(k, i, time, change, own, s)
  PROVE  /\ r.dropped.own = 0 /\ (r.bar.own # 0 => Within(r.bar, i, s))
         /\ r.bar # NoBar /\ Near(r.bar, now, time + Second \div slices)
<1>1. /\ slices \in SlicesPerSec /\ now \in Nat /\ LineOK(k, i) /\ WindowOK(k, i)
      /\ Long(i) \in Nat \ {0} /\ Short(i) \in 1 .. Long(i) - 1
  BY LineTypes DEF BarsInv, OrderInv
<1>2. /\ s.start * Second \in Nat /\ s.end * Second \in Nat
      /\ Second \in Nat \ {0} /\ Minute \in Nat \ {0} /\ (Minute - 1) * Second \in Nat
      /\ Ahead \in Nat /\ Ahead <= (Minute - 1) * Second
  <2>1. s.start * Second \in Nat /\ s.end * Second \in Nat
    BY SectionWindows
  <2>2. Second \in Nat \ {0} /\ Minute \in Nat \ {0} /\ Ahead \in Nat
    BY BarsAssumption
  <2>3. (Minute - 1) * Second \in Nat
    BY <2>2
  <2> QED
    BY <2>1, <2>2, <2>3 DEF Regular
<1>3. PICK q \in Nat \ {0} : q = Second \div slices /\ Short(i) + q = Long(i) /\ Long(i) >= Second + Second
  BY <1>1, WholeSlices
<1>4. PICK p \in Nat : Window(time, i) = p * Long(i)
  BY <1>1, WindowType
<1>5. PICK w \in Nat : w = p * Long(i)
  BY <1>1
<1>6. w = Window(time, i) /\ w <= time /\ time < w + Long(i)
  BY <1>1, <1>4, <1>5, WindowBounds
<1>7. time < s.end * Second + (Minute - 1) * Second
  BY <1>1, <1>2
<1>8. own # 0 => s.start * Second <= w /\ w + Long(i) <= s.end * Second
  BY <1>1, <1>2, <1>5, <1>6, WindowInSection
<1>9. k.bar # NoBar => \E n \in Nat : k.bar.start = n * Long(i) /\ k.bar.end = n * Long(i) + Short(i)
  BY <1>1 DEF WindowOK
<1>10. NoBar.end = 0 /\ NoBar.own = 0
  BY DEF NoBar, Opened
<1>11. ASSUME OpenedIn(r, i, w, own) PROVE /\ r.bar.own # 0 => Within(r.bar, i, s)
                                           /\ r.bar # NoBar /\ Near(r.bar, now, time + q)
  BY <1>1, <1>6, <1>8, <1>10, <1>11 DEF OpenedIn, Within, Near
\* A bar with trades of the section is closed by a tick in its time.
<1>12. ASSUME k.bar.own # 0, k.bar.end <= time PROVE Belongs(time, s)
  <2>1. k.bar.end = k.bar.start + Short(i) /\ k.bar.start \in Int
    BY <1>1, <1>10, <1>12, LineTypes DEF WindowOK
  <2>2. s.start * Second <= k.bar.start
    BY <1>12 DEF Within
  <2> QED
    BY <1>1, <1>7, <1>12, <2>1, <2>2, EndBelongs
<1>13. CASE k.bar.end > w /\ time < k.bar.end /\ Kept(k, r, own)
  <2>1. PICK n \in Nat : k.bar.start = n * Long(i) /\ k.bar.end = n * Long(i) + Short(i)
    BY <1>6, <1>9, <1>10, <1>13
  <2>2. PICK b \in Nat : b = n * Long(i)
    BY <1>1
  <2>3. k.bar # NoBar /\ r.bar # NoBar
    BY <1>6, <1>10, <1>13 DEF Kept
  <2>4. own # 0 => Within(k.bar, i, s)
    <3>1. SUFFICES ASSUME own # 0 PROVE Within(k.bar, i, s)
      OBVIOUS
    <3>2. s.start * Second < b + Long(i)
      BY <1>1, <1>2, <1>13, <2>1, <2>2, <3>1
    <3>3. b < s.end * Second
      <4>1. MinuteEnd(now) <= s.end * Second /\ MinuteEnd(now) \in Nat
        BY <1>1, MinuteInSection, MinuteType
      <4>2. b <= time \/ b < MinuteEnd(now)
        BY <2>1, <2>2, <2>3, <3>1 DEF Near
      <4> QED
        BY <1>2, <3>1, <4>1, <4>2
    <3> QED
      BY <1>1, <2>1, <2>2, <3>2, <3>3, WindowInSection DEF Within
  <2>5. r.bar.own # 0 => k.bar.own # 0 \/ own # 0
    BY <1>1, <1>13, LineTypes DEF Kept
  <2> QED
    BY <1>13, <2>3, <2>4, <2>5 DEF Kept, Within, Near
<1>14. CASE /\ k.bar.end > w /\ time >= k.bar.end
            /\ Closes(k, r, own, Belongs(time, s)) /\ OpenedIn(r, i, Window(time + Second, i), 0)
  <2>1. PICK n \in Nat : k.bar.start = n * Long(i) /\ k.bar.end = n * Long(i) + Short(i)
    BY <1>6, <1>9, <1>10, <1>14
  <2>2. PICK b \in Nat : b = n * Long(i)
    BY <1>1
  <2>3. b = w
    <3>1. b < w + Long(i) /\ w < b + Long(i)
      BY <1>1, <1>6, <1>14, <2>1, <2>2
    <3>2. b <= w
      BY <1>1, <1>5, <2>2, <3>1, NextMultiple
    <3>3. w <= b
      BY <1>1, <1>5, <2>2, <3>1, NextMultiple
    <3> QED
      BY <3>2, <3>3
  <2>4. own # 0 => Belongs(time, s)
    BY <1>1, <1>7, <1>8, <1>14, <2>1, <2>2, <2>3, EndBelongs
  <2>5. r.dropped.own = 0
    <3>1. CASE Belongs(time, s)
      BY <1>14, <3>1 DEF Closes
    <3>2. CASE ~Belongs(time, s)
      <4>1. own = 0 /\ k.bar.own = 0
        BY <1>1, <1>12, <1>14, <2>4, <3>2
      <4> QED
        BY <1>14, <3>2, <4>1 DEF Closes
    <3> QED
      BY <3>1, <3>2
  <2>6. r.bar.start = Window(time + Second, i) /\ r.bar.own = 0 /\ r.bar.end = r.bar.start + Short(i)
    BY <1>14 DEF OpenedIn
  <2>7. PICK then \in Nat : then = time + Second
    BY <1>2
  <2>8. PICK m \in Nat : Window(then, i) = m * Long(i)
    BY <1>1, WindowType
  <2>9. PICK v \in Nat : v = m * Long(i) /\ v <= then /\ v = r.bar.start
    BY <1>1, <2>6, <2>7, <2>8, WindowBounds
  <2>10. v <= w + Long(i)
    <3>1. (p + 1) * Long(i) = w + Long(i)
      BY <1>1, <1>5
    <3>2. v < (p + 1) * Long(i) + Long(i)
      BY <1>1, <1>2, <1>3, <1>6, <2>7, <2>9, <3>1
    <3>3. m * Long(i) <= (p + 1) * Long(i)
      BY <1>1, <2>9, <3>2, NextMultiple
    <3> QED
      BY <2>9, <3>1, <3>3
  <2>11. v <= time + q
    BY <1>1, <1>3, <1>6, <1>14, <2>1, <2>2, <2>3, <2>10
  <2>12. r.bar # NoBar
    BY <1>1, <1>10, <2>6, <2>9
  <2> QED
    BY <1>3, <2>5, <2>6, <2>9, <2>11, <2>12 DEF Near
<1>15. CASE /\ k.bar.end = 0
            /\ r.given = k.given /\ r.dropped = k.dropped /\ OpenedIn(r, i, w, own)
  BY <1>3, <1>11, <1>15
<1>16. CASE /\ k.bar.end \in 1 .. w - 1
            /\ Closes(k, r, 0, Belongs(time, s)) /\ OpenedIn(r, i, w, own)
  <2>1. r.dropped.own = 0
    <3>1. CASE Belongs(time, s)
      BY <1>16, <3>1 DEF Closes
    <3>2. CASE ~Belongs(time, s)
      <4>1. k.bar.own = 0
        BY <1>6, <1>12, <1>16, <3>2
      <4> QED
        BY <1>16, <3>2, <4>1 DEF Closes
    <3> QED
      BY <3>1, <3>2
  <2> QED
    BY <1>3, <1>11, <1>16, <2>1
<1> QED
  BY <1>1, <1>6, <1>13, <1>14, <1>15, <1>16, WithTickCases

\* CloseKLine closes in time, and leaves no trade of the section after its end.
LEMMA ForceClosedOwn ==
  ASSUME Regular, slices \in SlicesPerSec, now \in Nat, (now \div Second) % Minute = CloseSecond,
         NEW s, NEW k, \A j \in Ids : LineOK(k[j], j), NEW i \in Ids, WindowOK(k[i], i),
         NEW r, r = ForceClosed(k, now, s)[i], NEW reached \in Int
  PROVE  /\ r.dropped = k[i].dropped
         /\ r.bar = k[i].bar \/ (r.bar.own = 0 /\ r.bar # NoBar /\ Near(r.bar, now, reached))
         /\ /\ Belongs(now, s) /\ \A j \in Ids : k[j].bar # NoBar
            /\ k[i].bar.end <= now
            => r.bar.own = 0
<1>1. PICK at \in Nat : at = CloseTimes(now, k)[i] /\ now <= at /\ at + Second <= now + Len(Intervals) * Second
  BY CloseTimesBounds
<1>2. k[i].bar.end \in Nat /\ Short(i) \in Nat \ {0}
  BY LineTypes
<1>3. CASE r = k[i] /\ (Belongs(now, s) /\ (\A j \in Ids : k[j].bar # NoBar) => at < k[i].bar.end)
  BY <1>1, <1>2, <1>3
<1>4. CASE Closes(k[i], r, 0, TRUE) /\ OpenedIn(r, i, Window(at + Second, i), 0)
  <2>1. PICK then \in Nat : then = at + Second
    <3>1. Second \in Nat
      BY BarsAssumption
    <3> QED
      BY <1>1, <3>1
  <2>2. Window(then, i) <= then /\ Window(then, i) \in Nat
    BY WindowBounds, WindowType
  <2>3. then < MinuteEnd(now) /\ MinuteEnd(now) \in Nat
    BY <1>1, <2>1, TimerInMinute, MinuteType
  <2>4. r.bar.start < MinuteEnd(now) /\ r.bar.own = 0 /\ r.bar.end > 0
    BY <1>2, <1>4, <2>1, <2>2, <2>3 DEF OpenedIn
  <2>5. r.bar # NoBar
    BY <2>4 DEF NoBar, Opened
  <2> QED
    BY <1>4, <2>4, <2>5 DEF Closes, Near
<1>5. \/ r = k[i] /\ (Belongs(now, s) /\ (\A j \in Ids : k[j].bar # NoBar) => CloseTimes(now, k)[i] < k[i].bar.end)
      \/ /\ CloseTimes(now, k)[i] >= k[i].bar.end /\ k[i].bar # NoBar
         /\ Closes(k[i], r, 0, TRUE) /\ OpenedIn(r, i, Window(CloseTimes(now, k)[i] + Second, i), 0)
  BY ForceClosedCases
<1> QED
  BY <1>1, <1>3, <1>4, <1>5

\* The second that the timer counts.
LEMMA TimerTurns ==
  ASSUME now \in Nat, TimerOK, NEW t, NEW found, Turn(t, found)
  PROVE  /\ TimerOK' /\ (Due => previous <= now \div Second /\ (now \div Second) % Minute = CloseSecond)
         /\ Due => previous' = now \div Second + 1
         /\ ~Due => previous' = IF previous < now \div Second THEN now \div Second ELSE previous
<1>1. PICK second \in Nat : second = now \div Second
  BY BarsAssumption, Divided
<1>2. /\ Minute \in Nat \ {0} /\ CloseSecond \in Nat /\ CloseSecond + 1 < Minute
  <2>1. Len(Intervals) \in Nat
    BY BarsAssumption
  <2> QED
    BY <2>1, BarsAssumption
<1>3. previous \in Int /\ now' = now
      /\ previous' = IF Due THEN Counting + 1 ELSE Counting
  BY DEF TimerOK, Turn, Due
<1>4. Counting = IF previous < second THEN second ELSE previous
  BY <1>1 DEF Counting
<1>5. previous <= second \/ (previous = second + 1 /\ second % Minute = CloseSecond)
  BY <1>1 DEF TimerOK
<1>6. ASSUME previous = second + 1, second % Minute = CloseSecond PROVE ~Due
  <2>1. PICK m \in Nat : m = second \div Minute
    BY <1>2, Divided
  <2>2. second = m * Minute + CloseSecond /\ m * Minute \in Nat
    BY <1>2, <1>6, <2>1, Divided
  <2>3. PICK n \in Nat : n = (second + 1) \div Minute
    <3>1. second + 1 \in Nat
      OBVIOUS
    <3> QED
      BY <1>2, <3>1, Divided
  <2>4. (second + 1) % Minute = second + 1 - n * Minute /\ n * Minute \in Nat
    <3>1. second + 1 \in Nat
      OBVIOUS
    <3> QED
      BY <1>2, <2>3, <3>1, Divided
  <2>5. (second + 1) % Minute # CloseSecond
    BY <1>2, <2>2, <2>4, NotAMultiple
  <2>6. Counting = second + 1
    BY <1>4, <1>6
  <2> QED
    BY <2>5, <2>6 DEF Due
<1>7. Due => previous <= second /\ Counting = second /\ second % Minute = CloseSecond
  BY <1>3, <1>4, <1>5, <1>6 DEF Due
<1>8. TimerOK'
  BY <1>1, <1>3, <1>4, <1>5, <1>7 DEF TimerOK
<1> QED
  BY <1>1, <1>3, <1>4, <1>7, <1>8

\* The tick that a turn handles: the last one again, or one a slice later.
Found(t) == t = tick \/ t \in Ticks
Then(t) == IF counted = t.volume THEN t.time + Second \div slices ELSE t.time

LEMMA FoundType ==
  ASSUME BarsInv, tick.time <= now + Ahead, NEW t, Found(t)
  PROVE  t.time \in Nat /\ t.volume \in Int /\ t.time <= now + Ahead
<1>1. Behind \in Nat /\ Ahead \in Nat /\ now \in Nat /\ tick.time \in Nat
  BY BarsAssumption DEF BarsInv
<1>2. ASSUME t \in Ticks PROVE t.time <= now + Ahead
  BY <1>1, <1>2 DEF Ticks
<1>3. t \in Ticks => t.time \in Nat /\ t.volume \in Int
  BY TicksAreNat
<1> QED
  BY <1>2, <1>3 DEF Found, BarsInv

LEMMA NearFound ==
  ASSUME Regular, BarsInv, OrderInv, NEW t, Found(t), NEW i \in Ids, bars[i] # NoBar,
         Near(bars[i], now, Reached)
  PROVE  Near(bars[i], now, Then(t))
<1>1. CASE t = tick
  BY <1>1 DEF Then, Reached
<1>2. CASE t \in Ticks /\ bars[i].start <= Reached
  <2>1. PICK n \in Nat : bars[i].start = n * Long(i)
    BY DEF OrderInv, WindowOK, Lines
  <2>2. PICK q \in Nat \ {0} : q = Second \div slices
    BY WholeSlices DEF BarsInv
  <2>3. slices \in SlicesPerSec /\ tick.time \in Nat /\ t.time \in Nat /\ t.time > tick.time /\ t.time % q = 0
    BY <1>2, <2>2, TicksAreNat DEF BarsInv, Ticks
  <2>4. PICK b \in Nat : b = n * Long(i)
    BY <2>3, LastSlice
  <2>5. b <= tick.time + q
    BY <1>2, <2>1, <2>2, <2>3, <2>4 DEF Reached
  <2>6. b <= t.time
    BY <2>2, <2>3, <2>4, <2>5, NextSlice
  <2>7. b <= Then(t)
    BY <2>2, <2>3, <2>6 DEF Then
  <2> QED
    BY <2>1, <2>4, <2>7 DEF Near
<1> QED
  BY <1>1, <1>2 DEF Found, Near

\* The lines after the tick of a turn, and the slice that they may have reached.
After(t, found) == IF found /\ Trading(now) THEN t.time + Second \div slices ELSE Then(t)

LEMMA TickedOwn ==
  ASSUME Regular, BarsInv, OrderInv, SectionInv, ~missed, NEW t, Found(t), NEW found \in BOOLEAN,
         NEW s, s = SectionAt(now), NEW k, k = Ticked(t, found), NEW i \in Ids
  PROVE  /\ k[i].dropped.own = 0 /\ (k[i].bar.own # 0 => Closing(s) /\ Within(k[i].bar, i, s))
         /\ IF found /\ Trading(now) THEN k[i].bar # NoBar ELSE k[i].bar = bars[i]
         /\ k[i].bar # NoBar => Near(k[i].bar, now, After(t, found))
<1>1. /\ slices \in SlicesPerSec /\ now \in Nat /\ counted \in Int /\ Lines[i].bar = bars[i]
      /\ t.time \in Nat /\ t.volume \in Int /\ t.time <= now + Ahead
  BY FoundType DEF BarsInv, SectionInv, Lines
<1>2. bars[i] # NoBar => Near(bars[i], now, Then(t))
  BY NearFound DEF SectionInv
<1>3. PICK u : u = section
  OBVIOUS
<1>4. Lines[i].dropped.own = 0 /\ (bars[i].own # 0 => Closing(u) /\ Within(bars[i], i, u))
  BY <1>1, <1>3 DEF SectionInv, OwnKept
<1>5. bars[i].own # 0 => u = s
  BY <1>1, <1>3, <1>4, SectionStays
<1>6. CASE ~(found /\ Trading(now))
  <2>1. k[i] = Lines[i]
    BY <1>6 DEF Ticked
  <2> QED
    BY <1>1, <1>2, <1>4, <1>5, <1>6, <2>1 DEF After
<1>7. CASE found /\ Trading(now)
  <2>1. PICK change \in Int : change = t.volume - counted
    BY <1>1
  <2>2. PICK own \in Int : own = IF InSection(t.time, s) THEN New(t) ELSE 0
    BY <1>1 DEF New, BarsInv
  <2>3. k[i] = WithTick(Lines[i], i, t.time, change, own, s)
    BY <1>7, <2>1, <2>2 DEF Ticked, AfterTick
  <2>4. Closing(s) /\ now < s.end * Second /\ s \in Sections
    BY <1>1, <1>7, TradingSection DEF SectionInv, Closing
  <2>5. own # 0 => s.start * Second <= t.time /\ t.time < s.end * Second /\ counted # t.volume
    <3>1. own # 0 => t \in Ticks /\ own = t.volume - tick.volume
      BY <1>1, <2>2 DEF Found, New, BarsInv
    <3>2. t \in Ticks => t.volume \in {tick.volume, tick.volume + 1}
      BY DEF Ticks
    <3>3. counted <= tick.volume /\ counted \in Int /\ tick.volume \in Int
      BY DEF BarsInv, SectionInv
    <3> QED
      BY <2>2, <3>1, <3>2, <3>3 DEF InSection
  <2>6. own # 0 /\ bars[i] # NoBar => Near(bars[i], now, t.time)
    BY <1>2, <2>5 DEF Then
  <2>7. bars[i] # NoBar => Near(bars[i], now, t.time + Second \div slices)
    <3>1. PICK q \in Nat : q = Second \div slices
      BY <1>1, WholeSlices
    <3>2. bars[i].start \in Int
      BY <1>1, LineTypes DEF BarsInv
    <3> QED
      BY <1>1, <1>2, <3>1, <3>2 DEF Then, Near
  <2>8. /\ k[i].dropped.own = 0 /\ (k[i].bar.own # 0 => Within(k[i].bar, i, s))
        /\ k[i].bar # NoBar /\ Near(k[i].bar, now, t.time + Second \div slices)
    BY <1>1, <1>4, <1>5, <2>3, <2>4, <2>5, <2>6, <2>7, WithTickOwn
  <2> QED
    BY <1>7, <2>4, <2>8 DEF After
<1> QED
  BY <1>6, <1>7

\* The closing second of a section is in its time, and after its bars.
LEMMA ClosingSecond ==
  ASSUME Regular, slices \in SlicesPerSec, now \in Nat, NEW s \in Sections, now \div Second = s.end + CloseSecond,
         NEW i \in Ids, NEW k, LineOK(k, i), WindowOK(k, i), k.bar # NoBar, Within(k.bar, i, s)
  PROVE  Belongs(now, s) /\ k.bar.end <= now
<1>1. /\ Second \in Nat \ {0} /\ CloseSecond \in Nat /\ Minute \in Nat \ {0}
      /\ s.end \in Nat /\ CloseSecond < Minute - 1
  <2>1. Len(Intervals) \in Nat
    BY BarsAssumption
  <2> QED
    BY <2>1, BarsAssumption DEF Regular
<1>2. PICK second \in Nat : second = now \div Second
  BY <1>1, Divided
<1>3. s.end * Second <= now
  BY <1>1, <1>2, DividedBelow
<1>4. now < (s.end + Minute - 1) * Second
  BY <1>1, <1>2, DividedBelow
<1>5. (s.end + Minute - 1) * Second = s.end * Second + (Minute - 1) * Second
  BY <1>1
<1>6. k.bar.end = k.bar.start + Short(i) /\ k.bar.start \in Int
  BY LineTypes DEF WindowOK
<1>7. Short(i) < Long(i) /\ Short(i) \in Nat /\ Long(i) \in Nat
  BY LastSlice
<1>8. k.bar.start + Short(i) <= now
  <2>1. k.bar.start + Long(i) <= s.end * Second /\ s.end * Second \in Nat
    BY <1>1 DEF Within
  <2> QED
    BY <1>3, <1>6, <1>7, <2>1
<1> QED
  BY <1>4, <1>5, <1>6, <1>8, EndBelongs DEF Within

LEMMA TurnOwn ==
  ASSUME Regular, BarsInv, OrderInv, SectionInv, NEW t, Found(t), NEW found \in BOOLEAN, Turn(t, found)
  PROVE  SectionInv'
<1>1. /\ slices \in SlicesPerSec /\ now \in Nat /\ t.time \in Nat /\ t.volume \in Int /\ t.time <= now + Ahead
      /\ TimerOK
  BY FoundType DEF BarsInv, SectionInv
<1>2. UNCHANGED <<slices, now, missed>> /\ tick' = t /\ section' = SectionAt(now)
  BY DEF Turn
<1>3. TimerOK' /\ tick'.time <= now' + Ahead /\ counted' <= tick'.volume
  <2>1. t.volume >= tick.volume
    BY DEF Found, Ticks, BarsInv
  <2>2. counted' \in {counted, t.volume}
    BY DEF Turn
  <2>3. counted <= tick.volume /\ counted \in Int /\ tick.volume \in Int
    BY DEF BarsInv, SectionInv
  <2> QED
    BY <1>1, <1>2, <2>1, <2>2, <2>3, TimerTurns
<1>4. SUFFICES ASSUME ~missed
      PROVE  /\ (\A i \in Ids : bars'[i] # NoBar) \/ (\A i \in Ids : bars'[i] = NoBar)
             /\ \A i \in Ids : bars'[i] # NoBar => Near(bars'[i], now', Reached')
             /\ \A i \in Ids : OwnKept(Lines[i], i, section)'
  BY <1>2, <1>3 DEF SectionInv
<1>5. PICK s : s = SectionAt(now)
  OBVIOUS
<1>6. PICK k : k = Ticked(t, found)
  OBVIOUS
<1>7. PICK reached \in Int : reached = Reached' /\ reached = After(t, found)
  <2>1. Reached' = After(t, found)
    BY <1>2 DEF Turn, Reached, After, Then
  <2>2. Second \div slices \in Nat
    <3>1. Second \in Nat /\ slices \in Nat \ {0}
      BY <1>1, BarsAssumption DEF BarsInv
    <3> QED
      BY <3>1, Divided
  <2> QED
    BY <1>1, <2>1, <2>2 DEF After, Then
<1>8. \A i \in Ids : LineOK(k[i], i) /\ WindowOK(k[i], i)
  BY <1>1, <1>6, TickedOK, TickedOrder
<1>9. ASSUME NEW i \in Ids
      PROVE  /\ k[i].dropped.own = 0 /\ (k[i].bar.own # 0 => Closing(s) /\ Within(k[i].bar, i, s))
             /\ k[i].bar # NoBar => Near(k[i].bar, now, reached)
  BY <1>4, <1>5, <1>6, <1>7, TickedOwn
<1>10. (\A i \in Ids : k[i].bar # NoBar) \/ (\A i \in Ids : k[i].bar = NoBar)
  <2>1. \A i \in Ids : IF found /\ Trading(now) THEN k[i].bar # NoBar ELSE k[i].bar = bars[i]
    BY <1>4, <1>5, <1>6, TickedOwn
  <2> QED
    BY <1>4, <2>1 DEF SectionInv
<1>11. ASSUME NEW i \in Ids, NEW r, r = Lines'[i]
       PROVE  /\ r.dropped = k[i].dropped
              /\ r.bar = k[i].bar \/ (r.bar.own = 0 /\ r.bar # NoBar /\ Near(r.bar, now, reached))
              /\ k[i].bar = NoBar => r.bar = k[i].bar
              /\ /\ Due /\ Belongs(now, s) /\ \A j \in Ids : k[j].bar # NoBar
                 /\ k[i].bar.end <= now
                 => r.bar.own = 0
  <2>1. r = IF Due THEN ForceClosed(k, now, s)[i] ELSE k[i]
    BY <1>1, <1>5, <1>6, <1>11, TurnLines
  <2>2. CASE ~Due
    BY <2>1, <2>2
  <2>3. CASE Due
    <3>1. r = ForceClosed(k, now, s)[i] /\ (now \div Second) % Minute = CloseSecond
      BY <1>1, <2>1, <2>3, TimerTurns
    <3>2. k[i].bar = NoBar => r = k[i]
      BY <3>1 DEF ForceClosed
    <3> QED
      BY <1>1, <1>8, <3>1, <3>2, ForceClosedOwn
  <2> QED
    BY <2>2, <2>3
<1>12. \A i \in Ids : bars'[i] = Lines'[i].bar /\ dropped'[i] = Lines'[i].dropped
  BY DEF Lines
<1>13. (\A i \in Ids : bars'[i] # NoBar) \/ (\A i \in Ids : bars'[i] = NoBar)
  BY <1>10, <1>11, <1>12
<1>14. \A i \in Ids : bars'[i] # NoBar => Near(bars'[i], now', Reached')
  BY <1>2, <1>7, <1>9, <1>11, <1>12
<1>15. ASSUME NEW i \in Ids PROVE OwnKept(Lines[i], i, section)'
  <2>1. dropped'[i].own = 0
    BY <1>9, <1>11, <1>12
  <2>2. SUFFICES ASSUME bars'[i].own # 0 PROVE Closing(s)' /\ Within(bars'[i], i, s)
    BY <1>2, <1>5, <1>12, <2>1 DEF OwnKept, Lines, Closing, Within
  <2>3. bars'[i] = k[i].bar /\ k[i].bar.own # 0
    BY <1>11, <1>12, <2>2
  <2>4. Closing(s) /\ Within(k[i].bar, i, s)
    BY <1>9, <2>3
  <2>5. PICK second \in Nat : second = now \div Second
    BY <1>1, BarsAssumption, Divided
  <2>6. PICK last \in Nat : last = s.end + CloseSecond
    BY <2>4, BarsAssumption DEF Closing, Regular
  <2>7. second <= last /\ previous <= last
    BY <2>4, <2>5, <2>6 DEF Closing
  <2>8. previous' <= last
    <3>1. CASE ~Due
      BY <1>1, <2>5, <2>7, <3>1, TimerTurns
    <3>2. CASE Due
      <4>1. previous' = second + 1
        BY <1>1, <2>5, <3>2, TimerTurns
      <4>2. second # last
        <5>1. SUFFICES ASSUME second = last PROVE FALSE
          OBVIOUS
        <5>2. k[i].bar # NoBar
          BY <2>3 DEF NoBar, Opened
        <5>3. Belongs(now, s) /\ k[i].bar.end <= now
          BY <1>1, <1>8, <2>4, <2>5, <2>6, <5>1, <5>2, ClosingSecond DEF Closing
        <5>4. bars'[i].own = 0
          BY <1>10, <1>11, <1>12, <3>2, <5>2, <5>3
        <5> QED
          BY <2>2, <5>4
      <4> QED
        BY <2>7, <4>1, <4>2
    <3> QED
      BY <3>1, <3>2
  <2> QED
    BY <1>2, <2>3, <2>4, <2>6, <2>8 DEF Closing
<1> QED
  BY <1>13, <1>14, <1>15

\* Time passes the closing second of a section either without a bar of it open,
\* or without a turn of the loop in it.
LEMMA PassOwn ==
  ASSUME Regular, BarsInv, OrderInv, SectionInv, Pass
  PROVE  SectionInv'
<1>1. /\ now \in Nat /\ now' = now + 1 /\ tick.time \in Nat /\ slices \in SlicesPerSec
      /\ UNCHANGED <<slices, previous, section, tick, counted, bars, given, dropped>>
      /\ missed' = (missed \/ MissesClose)
  BY DEF Pass, BarsInv
<1>2. Second \in Nat \ {0} /\ Minute \in Nat \ {0} /\ CloseSecond \in Nat /\ Ahead \in Nat /\ CloseSecond < Minute
  <2>1. Len(Intervals) \in Nat
    BY BarsAssumption
  <2> QED
    BY <2>1, BarsAssumption
<1>3. PICK second \in Nat : second = now \div Second
  BY <1>1, <1>2, Divided
<1>4. PICK then \in Nat : then = now' \div Second
  <2>1. now + 1 \in Nat
    BY <1>1
  <2> QED
    BY <1>1, <1>2, <2>1, Divided
<1>5. /\ second <= then /\ then <= second + 1 /\ (then # second => (now + 1) % Second = 0)
  BY <1>1, <1>2, <1>3, <1>4, NextDivided
<1>6. TimerOK'
  <2>1. previous \in Int /\ (previous <= second \/ (previous = second + 1 /\ second % Minute = CloseSecond))
    BY <1>3 DEF SectionInv, TimerOK
  <2>2. previous <= then \/ (previous = then + 1 /\ then = second)
    BY <1>5, <2>1
  <2> QED
    BY <1>1, <1>4, <2>1, <2>2 DEF TimerOK
<1>7. tick'.time <= now' + Ahead /\ counted' <= tick'.volume
  BY <1>1, <1>2 DEF SectionInv
<1>8. SUFFICES ASSUME ~missed, ~MissesClose
      PROVE  /\ (\A i \in Ids : bars'[i] # NoBar) \/ (\A i \in Ids : bars'[i] = NoBar)
             /\ \A i \in Ids : bars'[i] # NoBar => Near(bars'[i], now', Reached')
             /\ \A i \in Ids : OwnKept(Lines[i], i, section)'
  BY <1>1, <1>6, <1>7 DEF SectionInv
<1>9. ASSUME NEW i \in Ids, bars'[i] # NoBar PROVE Near(bars'[i], now', Reached')
  <2>1. Near(bars[i], now, Reached) /\ Reached' = Reached
    BY <1>1, <1>8, <1>9 DEF SectionInv, Reached
  <2>2. bars[i].start \in Int /\ Lines[i].bar = bars[i]
    BY <1>1, LineTypes DEF BarsInv, Lines
  <2>3. MinuteEnd(now) <= MinuteEnd(now') /\ MinuteEnd(now) \in Nat /\ MinuteEnd(now') \in Nat
    <3>1. now + 1 \in Nat
      BY <1>1
    <3> QED
      BY <1>1, <3>1, MinuteType
  <2> QED
    BY <1>1, <2>1, <2>2, <2>3 DEF Near
<1>10. ASSUME NEW i \in Ids PROVE OwnKept(Lines[i], i, section)'
  <2>1. PICK u : u = section
    OBVIOUS
  <2>2. OwnKept(Lines[i], i, u)
    BY <1>8, <2>1 DEF SectionInv
  <2>3. Closing(u) => Closing(u)'
    <3>1. SUFFICES ASSUME Closing(u) PROVE Closing(u)'
      OBVIOUS
    <3>2. u.start \in Nat /\ u.end \in Nat /\ u.end % Minute = 0 /\ u.start * Second <= now
          /\ u.start * Second \in Nat
      BY <1>2, <3>1 DEF Closing, Regular
    <3>3. PICK last \in Nat : last = u.end + CloseSecond
      BY <1>2, <3>2
    <3>4. second <= last /\ previous <= last
      BY <1>3, <3>1, <3>3 DEF Closing
    <3>5. last % Minute = CloseSecond
      <4>1. PICK m \in Nat : u.end = m * Minute
        BY <1>2, <3>2, Multiple
      <4>2. PICK n \in Nat : n = last \div Minute
        BY <1>2, Divided
      <4>3. n * Minute <= last /\ last < n * Minute + Minute /\ last % Minute = last - n * Minute
            /\ n * Minute \in Nat
        BY <1>2, <4>2, Divided
      <4>4. m * Minute < n * Minute + Minute /\ n * Minute < m * Minute + Minute /\ m * Minute \in Nat
        BY <1>2, <3>3, <4>1, <4>3
      <4>5. m * Minute <= n * Minute /\ n * Minute <= m * Minute
        BY <1>2, <4>4, NextMultiple
      <4> QED
        BY <1>2, <3>3, <4>1, <4>3, <4>4, <4>5
    <3>6. then <= last
      <4>1. SUFFICES ASSUME second = last, then # second PROVE FALSE
        BY <1>5, <3>4
      <4>2. MissesClose
        BY <1>1, <1>3, <1>5, <3>1, <3>3, <3>4, <3>5, <4>1 DEF MissesClose, Closing
      <4> QED
        BY <1>8, <4>2
    <3> QED
      BY <1>1, <1>4, <3>1, <3>2, <3>3, <3>4, <3>6 DEF Closing
  <2> QED
    BY <1>1, <2>1, <2>2, <2>3 DEF OwnKept, Lines
<1> QED
  BY <1>1, <1>8, <1>9, <1>10 DEF SectionInv

LEMMA SectionInvInit == Init => SectionInv
<1> SUFFICES ASSUME Init PROVE SectionInv
  OBVIOUS
<1>1. PICK second \in Nat : second = now \div Second
  BY BarsAssumption, Divided DEF Init
<1>2. TimerOK /\ tick.time <= now + Ahead /\ counted <= tick.volume
  BY <1>1, BarsAssumption DEF Init, TimerOK
<1>3. \A i \in Ids : bars[i] = NoBar /\ OwnKept(Lines[i], i, section)
  BY DEF Init, OwnKept, Lines, NoBar, Opened
<1> QED
  BY <1>2, <1>3 DEF SectionInv

LEMMA SectionInvStep ==
  ASSUME Regular
  PROVE  BarsInv /\ OrderInv /\ SectionInv /\ [Next]_vars => SectionInv'
<1> SUFFICES ASSUME BarsInv, OrderInv, SectionInv, [Next]_vars PROVE SectionInv'
  OBVIOUS
<1>1. CASE UNCHANGED vars
  BY <1>1 DEF vars, historyVars, SectionInv, TimerOK, Near, Reached, OwnKept, Closing, Lines
<1>2. CASE \E found \in BOOLEAN : Turn(tick, found)
  BY <1>2, TurnOwn DEF Found
<1>3. CASE \E t \in Ticks : Turn(t, TRUE)
  BY <1>3, TurnOwn DEF Found
<1> QED
  BY <1>1, <1>2, <1>3, PassOwn DEF Next

-----------------------------------------------------------------------------
(* What is stamped in a section and found in it goes into the bars of each *)
(* interval, and from there to the strategy or away.                       *)

Own(k) == k.given.own + k.dropped.own + k.bar.own
OwnInv ==
  /\ stamped \in Int /\ untimely \in Int
  /\ \A i \in Ids : Own(Lines[i]) = stamped - untimely

\* ProcessTick and CloseKLine lose none of it.
LEMMA WithTickKeepsOwn ==
  ASSUME slices \in SlicesPerSec, NEW i \in Ids, NEW k, LineOK(k, i), WindowOK(k, i), NEW time \in Nat,
         NEW change \in Int, NEW own \in Int, NEW s, NEW r, r = WithTick(k, i, time, change, own, s)
  PROVE  Own(r) = Own(k) + own
<1>1. /\ k.bar.own \in Int /\ k.given.own \in Int /\ k.dropped.own \in Int
      /\ k.bar.end = 0 => k.bar.own = 0
  <2>1. k.bar \in Bar /\ k \in Line /\ Short(i) \in Nat \ {0} /\ Long(i) \in Nat
    BY LineTypes, LastSlice DEF LineOK, Line
  <2>2. k.bar.end = 0 => k.bar = NoBar
    BY <2>1 DEF WindowOK, Bar
  <2> QED
    BY <2>1, <2>2 DEF Line, Bar, NoBar, Opened
<1>2. PICK b : b = Belongs(time, s)
  OBVIOUS
<1>3. \/ Kept(k, r, own)
      \/ Closes(k, r, own, b) /\ OpenedIn(r, i, Window(time + Second, i), 0)
      \/ k.bar.end = 0 /\ r.given = k.given /\ r.dropped = k.dropped /\ OpenedIn(r, i, Window(time, i), own)
      \/ Closes(k, r, 0, b) /\ OpenedIn(r, i, Window(time, i), own)
  BY <1>2, WithTickCases
<1> QED
  BY <1>1, <1>3 DEF Kept, Closes, OpenedIn, Own

LEMMA ForceClosedKeepsOwn ==
  ASSUME slices \in SlicesPerSec, NEW time \in Nat, NEW s, NEW k,
         \A j \in Ids : LineOK(k[j], j), NEW i \in Ids, NEW r, r = ForceClosed(k, time, s)[i]
  PROVE  Own(r) = Own(k[i])
<1>1. k[i].bar.own \in Int /\ k[i].given.own \in Int /\ k[i].dropped.own \in Int
  BY DEF LineOK, Line, Bar
<1>2. \/ r = k[i] /\ (Belongs(time, s) /\ (\A j \in Ids : k[j].bar # NoBar) => CloseTimes(time, k)[i] < k[i].bar.end)
      \/ /\ CloseTimes(time, k)[i] >= k[i].bar.end /\ k[i].bar # NoBar
         /\ Closes(k[i], r, 0, TRUE) /\ OpenedIn(r, i, Window(CloseTimes(time, k)[i] + Second, i), 0)
  BY ForceClosedCases
<1>3. r = k[i] \/ (Closes(k[i], r, 0, TRUE) /\ r.bar.own = 0)
  BY <1>2 DEF OpenedIn
<1> QED
  BY <1>1, <1>3 DEF Closes, Own

LEMMA TurnKeepsOwn ==
  ASSUME BarsInv, OrderInv, OwnInv, NEW t, t.time \in Nat, t.volume \in Int, NEW found \in BOOLEAN,
         found \/ t = tick, Turn(t, found)
  PROVE  OwnInv'
<1> DEFINE s == SectionAt(now)
           own == IF Trading(now) /\ InSection(t.time, s) THEN New(t) ELSE 0
<1>1. New(t) \in Int /\ (~found => New(t) = 0) /\ stamped \in Int /\ untimely \in Int /\ own \in Int
  BY DEF New, BarsInv, OwnInv
<1>2. Trading(now) => s \in Sections
  BY DEF SectionAt, Trading
<1>3. Trading(now) /\ InSection(t.time, s) => Trading(t.time)
  BY <1>2 DEF Trading
<1>4. stamped' \in Int /\ untimely' \in Int /\ stamped' - untimely' = stamped - untimely + own
  BY <1>1, <1>3 DEF Turn
<1>5. slices \in SlicesPerSec /\ now \in Nat /\ counted \in Int
  BY DEF BarsInv
<1>6. ASSUME NEW i \in Ids PROVE Own(Ticked(t, found)[i]) = Own(Lines[i]) + own
  <2>1. LineOK(Lines[i], i) /\ WindowOK(Lines[i], i)
    BY DEF BarsInv, OrderInv
  <2>2. Own(Lines[i]) \in Int
    BY <2>1 DEF Own, LineOK, Line, Bar
  <2>3. CASE found /\ Trading(now)
    <3>1. Ticked(t, found)[i] = WithTick(Lines[i], i, t.time, t.volume - counted, own, s)
      BY <2>3 DEF Ticked, AfterTick
    <3>2. t.volume - counted \in Int
      BY <1>5
    <3> HIDE DEF own, s
    <3> QED
      BY <1>1, <1>5, <2>1, <3>1, <3>2, WithTickKeepsOwn
  <2>4. CASE ~(found /\ Trading(now))
    <3>1. own = 0 /\ Ticked(t, found)[i] = Lines[i]
      BY <1>1, <2>4 DEF Ticked
    <3> QED
      BY <2>2, <3>1
  <2> QED
    BY <2>3, <2>4
<1> HIDE DEF own, s
<1>7. ASSUME NEW i \in Ids PROVE Own(Lines'[i]) = Own(Lines[i]) + own
  <2>1. \A j \in Ids : LineOK(Ticked(t, found)[j], j)
    BY TickedOK
  <2>2. CASE Due
    <3>1. Lines'[i] = ForceClosed(Ticked(t, found), now, SectionAt(now))[i]
      BY <2>2, TurnLines
    <3> QED
      BY <1>5, <1>6, <2>1, <3>1, ForceClosedKeepsOwn
  <2>3. CASE ~Due
    BY <1>6, <2>3, TurnLines
  <2> QED
    BY <2>2, <2>3
<1>8. \A i \in Ids : Own(Lines[i])' = Own(Lines'[i])
  BY DEF Own
<1> QED
  BY <1>1, <1>4, <1>7, <1>8 DEF OwnInv

LEMMA OwnInvInit == Init => OwnInv
BY DEF Init, OwnInv, Own, Lines, NoBar, Opened

LEMMA OwnInvStep == BarsInv /\ OrderInv /\ OwnInv /\ [Next]_vars => OwnInv'
<1> SUFFICES ASSUME BarsInv, OrderInv, OwnInv, [Next]_vars PROVE OwnInv'
  OBVIOUS
<1>1. CASE Pass \/ UNCHANGED vars
  <2>1. UNCHANGED <<bars, given, dropped, stamped, untimely>>
    BY <1>1 DEF Pass, vars, historyVars
  <2> QED
    BY <2>1 DEF OwnInv, Own, Lines
<1>2. CASE \E found \in BOOLEAN : Turn(tick, found)
  BY <1>2, TurnKeepsOwn DEF BarsInv
<1>3. CASE \E t \in Ticks : Turn(t, TRUE)
  BY <1>3, TicksAreNat, TurnKeepsOwn
<1> QED
  BY <1>1, <1>2, <1>3 DEF Next

\* For any intervals of a minute and more, any sections that lie apart and any
\* ticks less than a minute ahead: once the closing second after a section is
\* over, the strategy was given, in bars of every interval, all that was stamped
\* in the section and found in it, if the loop made a turn in that second.
THEOREM SectionBarsGivenAlways ==
  ASSUME Regular
  PROVE  Spec => []SectionBarsGiven
<1>1. Init => OrderInv
  BY OrderInvInit
<1>2. BarsInv /\ OrderInv /\ [Next]_vars => OrderInv'
  BY OrderInvStep
<1>3. BarsInv /\ OrderInv /\ SectionInv /\ [Next]_vars => SectionInv'
  BY SectionInvStep
<1>4. BarsInv /\ SectionInv /\ OwnInv => SectionBarsGiven
  <2> SUFFICES ASSUME BarsInv, SectionInv, OwnInv, ~missed, NEW i \in Ids
               PROVE  stamped = untimely + given[i].own + IF Unsettled THEN bars[i].own ELSE 0
    BY DEF SectionBarsGiven
  <2>1. OwnKept(Lines[i], i, section) /\ Own(Lines[i]) = stamped - untimely
    BY DEF SectionInv, OwnInv
  <2>2. Lines[i] = [bar |-> bars[i], given |-> given[i], dropped |-> dropped[i]] /\ Lines[i] \in Line
    BY DEF Lines, BarsInv, LineOK
  <2>3. /\ bars[i].own \in Int /\ given[i].own \in Int /\ dropped[i].own = 0
        /\ given[i].own + dropped[i].own + bars[i].own = stamped - untimely
        /\ stamped \in Int /\ untimely \in Int
    BY <2>1, <2>2 DEF Own, OwnKept, Line, Bar, OwnInv
  <2>4. bars[i].own # 0 => Unsettled
    BY <2>1, <2>2 DEF OwnKept, Closing, Unsettled
  <2> QED
    BY <2>3, <2>4
<1> QED
  BY <1>1, <1>2, <1>3, <1>4, SectionInvInit, BarsInvInit, BarsInvStep, OwnInvInit, OwnInvStep, PTL DEF Spec

=============================================================================
