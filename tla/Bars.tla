---------------------------------- MODULE Bars ----------------------------------
(***************************************************************************)
(* The bars that XQuant makes of one ticker (KLineGenerator.hpp), and the  *)
(* work loop that feeds and closes them (QuantEngine.cpp,                  *)
(* StrategyEngine.hpp).                                                    *)
(*                                                                         *)
(* For each interval there is one open bar.  It is closed by the last      *)
(* slice of its window, by the first tick of a later window, or by a timer *)
(* of the loop that runs in one second of every minute and goes by the     *)
(* machine's clock, not by the ticks'.  What is closed is given to the     *)
(* strategy only in the time that belongs to a trading section.            *)
(*                                                                         *)
(* Of a bar the window and the volume are kept; prices and turnover, and   *)
(* intervals of a day and more, are left out.                              *)
(***************************************************************************)
EXTENDS Integers, Sequences

CONSTANTS
  Second,         \* units of time in a second
  Minute,         \* seconds in a minute: 60
  CloseSecond,    \* the second of a minute in which the timer closes: 2
  Intervals,      \* m_IntervalsVec, in seconds
  SlicesPerSec,   \* values of m_slice_per_sec that are configured
  Sections,       \* m_TradingSectionVec, in seconds
  Begin, End,     \* bound: the units of time considered
  Behind, Ahead,  \* bound: units that the ticks' clock differs from the machine's
  MaxVolume       \* bound: volume of the day

\* A section begins and ends where a window of every interval does, and the
\* seconds that CloseKLine adds do not take it to the end of a minute.
ASSUME BarsAssumption ==
  /\ {Second, Minute} \subseteq Nat \ {0} /\ {CloseSecond, Begin, End, Behind, Ahead, MaxVolume} \subseteq Nat
  /\ CloseSecond + Len(Intervals) < Minute - 1
  /\ Intervals \in Seq(Nat \ {0, 1}) /\ SlicesPerSec \subseteq 1 .. Second
  /\ \A s \in Sections, i \in DOMAIN Intervals :
       s.start % Intervals[i] = 0 /\ s.end % Intervals[i] = 0 /\ s.start < s.end

VARIABLES
  slices,    \* m_slice_per_sec
  now,       \* the machine's clock
  previous,  \* PreTimeStamp, in seconds; -1 before the first turn of the loop
  section,   \* section_start and section_end, in seconds
  tick,      \* the timestamp and the volume of the last tick that arrived
  counted,   \* m_last_volume
  bars,      \* m_CurrentKLineMap
  given,     \* for every interval, the bars the strategy was given: number, volume, and the last window
  dropped,   \* history: for every interval, the volume in bars that were closed and not given
  missed,    \* history: the loop made no turn in the closing second after a section
  stamped,   \* history: the volume traded in ticks stamped in a section
  untimely   \* history: the part of it whose ticks the loop found before or after that section

historyVars == <<missed, stamped, untimely>>
vars == <<slices, now, previous, section, tick, counted, bars, given, dropped, historyVars>>

Ids == DOMAIN Intervals

\* "own" is history: the part of the volume whose ticks are stamped in a section
\* and were found in it.
Opened(window, end, volume, own) == [start |-> window, end |-> end, volume |-> volume, own |-> own]
NoBar == Opened(0, 0, 0, 0)

Init ==
  /\ slices \in SlicesPerSec
  /\ now = Begin /\ previous = -1 /\ section = [start |-> 0, end |-> 0]
  /\ tick = [time |-> Begin, volume |-> 0] /\ counted = 0
  /\ bars = [i \in Ids |-> NoBar]
  /\ given = [i \in Ids |-> [number |-> 0, window |-> -1, volume |-> 0, own |-> 0]]
  /\ dropped = [i \in Ids |-> [volume |-> 0, own |-> 0]]
  /\ missed = FALSE /\ stamped = 0 /\ untimely = 0

\* calculate_window_start.
Window(time, i) == (time \div (Intervals[i] * Second)) * Intervals[i] * Second

\* The time of the last slice of a window.
WindowEnd(window, i) ==
  window + (Intervals[i] - 1) * Second + (Second \div slices) * (slices - 1)

\* CheckTrading: the section at a time; between sections the last one stays.
InSection(time, s) == s.start * Second <= time /\ time < s.end * Second
Trading(time) == \E s \in Sections : InSection(time, s)
SectionAt(time) ==
  IF Trading(time) THEN CHOOSE s \in Sections : InSection(time, s) ELSE section

\* Mutant: the section's own time at its end.
UntilSectionEnd(time, s) == (s.start + Minute - 1) * Second <= time /\ time < s.end * Second

\* The time in which bars of a section are given out: a minute less a second later.
Belongs(time, s) ==
  /\ (s.start + Minute - 1) * Second <= time
  /\ time < (s.end + Minute - 1) * Second

-----------------------------------------------------------------------------
(* The bars of one interval: "k" has the open bar, what was given, and     *)
(* what was dropped.                                                       *)

Lines == [i \in Ids |-> [bar |-> bars[i], given |-> given[i], dropped |-> dropped[i]]]

\* push_back to the history, and m_OnWindowBar.
Given(k) ==
  [k EXCEPT !.given = [number |-> @.number + 1, window |-> k.bar.start,
                       volume |-> @.volume + k.bar.volume, own |-> @.own + k.bar.own]]

Closed(k, time, s) ==
  IF Belongs(time, s) THEN Given(k)
  ELSE [k EXCEPT !.dropped = [volume |-> @.volume + k.bar.volume, own |-> @.own + k.bar.own]]

\* Mutant: the window of the tick that closed the last bar.
SameWindow(time, i) == Window(time, i)
NextWindow(time, i) == Window(time + Second, i)

\* Mutant: the tick that closes a bar is in the next one as well.
CountedTwice(change) == change
AfterLastSlice(change) == 0

\* ProcessTick, for one interval: "change" is the volume since the last tick,
\* and "own" the part of it that counts as stamped in the section.
WithTick(k, i, time, change, own, s) ==
  LET window == Window(time, i)
      more   == [k.bar EXCEPT !.volume = @ + change, !.own = @ + own]
      with   == [k EXCEPT !.bar = more]
      fresh  == Opened(window, WindowEnd(window, i), change, own)
      next   == NextWindow(time, i)
  IN CASE k.bar.end > window /\ time < k.bar.end -> with
       [] k.bar.end > window /\ time >= k.bar.end ->
            [Closed(with, time, s) EXCEPT !.bar = Opened(next, WindowEnd(next, i), AfterLastSlice(change), 0)]
       [] k.bar.end = 0 -> [k EXCEPT !.bar = fresh]
       [] k.bar.end \in 1 .. window - 1 -> [Closed(k, time, s) EXCEPT !.bar = fresh]
       [] OTHER -> k

\* CloseKLine works through the intervals, and adds a second to its time for
\* every bar it closes: the times at which it comes to each interval.
CloseTimes(time, k) ==
  LET T[i \in Ids] == IF i = 1 THEN time
                      ELSE IF T[i - 1] >= k[i - 1].bar.end THEN T[i - 1] + Second ELSE T[i - 1]
  IN T

\* CloseKLine of StrategyEngine and KLineGenerator; bars without a tick in
\* them are given as well.
ForceClosed(k, time, s) ==
  IF ~Belongs(time, s) \/ \E i \in Ids : k[i].bar = NoBar THEN k
  ELSE [i \in Ids |->
         LET at == CloseTimes(time, k)[i]
             next == Window(at + Second, i)
         IN IF at < k[i].bar.end THEN k[i]
            ELSE [Given(k[i]) EXCEPT !.bar = Opened(next, WindowEnd(next, i), 0, 0)]]

-----------------------------------------------------------------------------
(* The work loop.                                                          *)

\* The ticks that may arrive now: one for a slice, in the order of time, on a
\* clock of their own, with the volume of the day.
Ticks == {t \in [time : now - Behind .. now + Ahead, volume : {tick.volume, tick.volume + 1}] :
            /\ t.time > tick.time /\ t.time % (Second \div slices) = 0
            /\ t.volume <= MaxVolume}

\* What was traded since the last tick that arrived.
New(t) == t.volume - tick.volume

\* Run: a tick changes bars only in trading hours.  What earlier ticks brought
\* out of them is counted with it.
AfterTick(t, s) ==
  LET own == IF InSection(t.time, s) THEN New(t) ELSE 0
  IN [i \in Ids |-> WithTick(Lines[i], i, t.time, t.volume - counted, own, s)]

\* The second that the timer counts; it is ahead by one after closing.
Counting == LET second == now \div Second IN IF previous < second THEN second ELSE previous

Becomes(k) ==
  /\ bars' = [i \in Ids |-> k[i].bar]
  /\ given' = [i \in Ids |-> k[i].given]
  /\ dropped' = [i \in Ids |-> k[i].dropped]

\* One turn of WorkThreadFunc, with the tick that it found, or the one it
\* handled last if it found none.
Turn(t, found) ==
  LET s == SectionAt(now)
      k == IF found /\ Trading(now) THEN AfterTick(t, s) ELSE Lines
      due == Counting % Minute = CloseSecond
  IN /\ Becomes(IF due THEN ForceClosed(k, now, s) ELSE k)
     /\ section' = s
     /\ tick' = t
     /\ counted' = IF found /\ Trading(now) THEN t.volume ELSE counted
     /\ previous' = IF due THEN Counting + 1 ELSE Counting
     /\ stamped' = stamped + IF Trading(t.time) THEN New(t) ELSE 0
     /\ untimely' = untimely + IF Trading(t.time) /\ ~(Trading(now) /\ InSection(t.time, s))
                               THEN New(t) ELSE 0
     /\ UNCHANGED <<slices, now, missed>>

\* The closing second after a section has passed, and the loop made no turn in it.
MissesClose ==
  LET second == now \div Second IN
  /\ second % Minute = CloseSecond /\ (now + 1) % Second = 0 /\ previous <= second
  /\ \E s \in Sections : second = s.end + CloseSecond

\* Time passes.
Pass ==
  /\ now < End
  /\ now' = now + 1
  /\ missed' = (missed \/ MissesClose)
  /\ UNCHANGED <<slices, previous, section, tick, counted, bars, given, dropped, stamped, untimely>>

\* A feed that polls may give the last tick again.
Next ==
  \/ Pass
  \/ \E found \in BOOLEAN : Turn(tick, found)
  \/ \E t \in Ticks : Turn(t, TRUE)

Spec == Init /\ [][Next]_vars

-----------------------------------------------------------------------------
(* Properties.                                                             *)

\* Whatever closes the bars - a last slice, a later tick, the timer - every
\* trade is in exactly one bar of each interval.
VolumeKept ==
  \A i \in Ids : given[i].volume + dropped[i].volume + bars[i].volume = counted

\* The windows of the bars given to the strategy follow one another: none is
\* given twice, or late, although ticks and timer go by different clocks.
WindowsInOrder ==
  [][\A i \in Ids : given'[i].number > given[i].number => given'[i].window > given[i].window]_vars

\* The bars of a section may be open until the second in which the timer closes
\* them is over.
Unsettled == now \div Second <= section.end + CloseSecond

\* Once that second is over, the strategy was given every trade stamped in the
\* section and found in it, in bars of every interval.  Only a loop that made no
\* turn in that second keeps them back (CloseKLine); what is found before or
\* after the section is not in its bars (QuantEngine::WorkThreadFunc).
SectionBarsGiven ==
  \/ missed
  \/ \A i \in Ids :
       stamped = untimely + given[i].own + IF Unsettled THEN bars[i].own ELSE 0

=============================================================================
