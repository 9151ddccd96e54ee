--------------------------- MODULE ReceiversProofs ---------------------------
(***************************************************************************)
(* The calendar arithmetic counts the days as the civil calendar does, and *)
(* each of the reference clocks keeps the promise of SerialGps: the time   *)
(* it brings is that of the current second, whatever the line loses or     *)
(* garbles.                                                                *)
(***************************************************************************)
EXTENDS MCReceivers, FiniteSetsExt, SequencesExt, WellFoundedInduction, FiniteSetTheorems,
        SequenceTheorems, TLAPS

(* A set of naturals that holds 0 and each number's successor holds them all. *)
LEMMA SetInduction ==
  ASSUME NEW T, 0 \in T, \A n \in Nat : n \in T => n + 1 \in T
  PROVE  Nat \subseteq T
<1> DEFINE less == {ss \in Nat \X Nat : ss[1] < ss[2]}
           Bad  == Nat \ T
<1>1. IsWellFoundedOn(less, Nat)
  BY NatLessThanWellFounded DEF OpToRel
<1>2. SUFFICES ASSUME Bad # {} PROVE FALSE
  OBVIOUS
<1>3. PICK n \in Bad : \A j \in Bad : ~(<<j, n>> \in less)
  <2> HIDE DEF less
  <2> QED BY <1>1, <1>2, WFMin
<1>4. n \in Nat /\ n \notin T
  OBVIOUS
<1>5. n - 1 \in Nat
  BY <1>4
<1>6. <<n - 1, n>> \in less
  BY <1>4, <1>5
<1>7. n - 1 \in T
  <2> HIDE DEF less
  <2> QED BY <1>3, <1>5, <1>6
<1> QED BY <1>4, <1>5, <1>7

(* The first day of a month comes after the last day of the month before. *)
LEMMA MonthsFollow ==
  ASSUME NEW year \in Nat, NEW month \in 1 .. 11
  PROVE  JulianDay(year, month + 1, 1) = JulianDay(year, month, MonthLength(year, month)) + 1
<1>1. CASE month = 1
  BY <1>1, Z3 DEF JulianDay, MonthLength
<1>2. CASE month = 2
  BY <1>2, Z3 DEF JulianDay, MonthLength, LeapYear
<1>3. CASE month \in {3, 4, 5, 6}
  BY <1>3, Z3 DEF JulianDay, MonthLength
<1>4. CASE month \in {7, 8, 9, 10, 11}
  BY <1>4, Z3 DEF JulianDay, MonthLength
<1> QED BY <1>1, <1>2, <1>3, <1>4
-----------------------------------------------------------------------------
(* Leap years before a year. *)
Leaps(year) == (year - 1) \div 4 - (year - 1) \div 100 + (year - 1) \div 400

(* A leap year adds one leap year to those before it. *)
LEMMA LeapsFollow ==
  ASSUME NEW year \in Nat
  PROVE  Leaps(year + 1) = Leaps(year) + IF LeapYear(year) THEN 1 ELSE 0
BY Z3 DEF Leaps, LeapYear

(* The leap years from 1900 on, counted one by one, are those the formula *)
(* gives.                                                                 *)
LEMMA LeapYears ==
  ASSUME NEW n \in Nat
  PROVE  Cardinality({year \in 1900 .. 1900 + n - 1 : LeapYear(year)}) = Leaps(1900 + n) - 460
<1> DEFINE Years(k) == {year \in 1900 .. 1900 + k - 1 : LeapYear(year)}
           T == {k \in Nat : IsFiniteSet(Years(k)) /\ Cardinality(Years(k)) = Leaps(1900 + k) - 460}
<1>1. 0 \in T
  <2>1. Years(0) = {}
    OBVIOUS
  <2>2. Leaps(1900) = 460
    BY DEF Leaps
  <2> QED BY <2>1, <2>2, FS_EmptySet
<1>2. ASSUME NEW k \in Nat, k \in T PROVE k + 1 \in T
  <2>1. Leaps(1900 + (k + 1)) = Leaps(1900 + k) + IF LeapYear(1900 + k) THEN 1 ELSE 0
    BY LeapsFollow
  <2>2. Leaps(1900 + k) \in Int
    BY DEF Leaps
  <2>3. CASE LeapYear(1900 + k)
    <3>1. Years(k + 1) = Years(k) \cup {1900 + k} /\ 1900 + k \notin Years(k)
      BY <2>3
    <3>2. IsFiniteSet(Years(k + 1)) /\ Cardinality(Years(k + 1)) = Cardinality(Years(k)) + 1
      <4> HIDE DEF Years
      <4> QED BY <3>1, <1>2, FS_AddElement
    <3> HIDE DEF Years
    <3> QED BY <3>2, <2>1, <2>2, <2>3, <1>2
  <2>4. CASE ~LeapYear(1900 + k)
    <3>1. Years(k + 1) = Years(k)
      BY <2>4
    <3> HIDE DEF Years
    <3> QED BY <3>1, <2>1, <2>2, <2>4, <1>2
  <2> QED BY <2>3, <2>4
<1>3. Nat \subseteq T
  <2> HIDE DEF T
  <2> QED BY <1>1, <1>2, SetInduction
<1> QED BY <1>3

-----------------------------------------------------------------------------
(* The days of a year's months, added up in the order of the calendar. *)
DaysOf(year, k, months) == IF k \in months THEN MonthLength(year, k) ELSE 0

MonthSum(year, months) ==
  LET days(k) == DaysOf(year, k, months)
  IN  days(1) + days(2) + days(3) + days(4) + days(5) + days(6) + days(7) + days(8) + days(9)
        + days(10) + days(11)

DaysAdded(year, month) == MonthSum(year, 1 .. month - 1)

MonthDays(year, month) == MapThenSumSet(LAMBDA k : MonthLength(year, k), 1 .. month - 1)

(* The days of the months before a month, folded over a set, are their sum. *)
LEMMA MonthSums ==
  ASSUME NEW year \in Nat, NEW month \in 1 .. 12
  PROVE  MonthDays(year, month) = DaysAdded(year, month)
<1> DEFINE S == 1 .. month - 1
           pick(set) == CHOOSE k \in set : TRUE
           rest(set) == set \ {pick(set)}
           step(f) == [set \in SUBSET S |->
                        IF set = {} THEN 0 ELSE MonthLength(year, pick(set)) + f[rest(set)]]
           sum  == CHOOSE f : f = step(f)
           mine == [set \in SUBSET S |-> MonthSum(year, set)]
<1>1. MonthDays(year, month) = sum[S]
  BY DEF MonthDays, MapThenSumSet, MapThenFoldSet
<1>2. ASSUME NEW set \in SUBSET S, set # {}
      PROVE  /\ rest(set) \in SUBSET S /\ pick(set) \in set
             /\ MonthSum(year, set) = MonthLength(year, pick(set)) + MonthSum(year, rest(set))
  <2> DEFINE p == pick(set)
  <2>1. p \in set
    BY <1>2
  <2> HIDE DEF p
  <2>2. MonthSum(year, set) = MonthLength(year, p) + MonthSum(year, set \ {p})
    <3>1. p \in 1 .. 11
      BY <2>1
    <3>2. \A k \in 1 .. 11 : DaysOf(year, k, set) \in Int
      BY DEF DaysOf, MonthLength
    <3>3. \A k \in 1 .. 11 : DaysOf(year, k, set \ {p}) = IF k = p THEN 0 ELSE DaysOf(year, k, set)
      BY DEF DaysOf
    <3>4. DaysOf(year, p, set) = MonthLength(year, p)
      BY <2>1 DEF DaysOf
    <3> QED BY <3>1, <3>2, <3>3, <3>4 DEF MonthSum
  <2> QED BY <2>1, <2>2 DEF p
<1>3. mine = step(mine)
  <2> HIDE DEF pick
  <2>1. MonthSum(year, {}) = 0
    BY DEF MonthSum, DaysOf
  <2> QED BY <1>2, <2>1
<1>4. sum = step(sum)
  <2> HIDE DEF step, mine
  <2> QED BY <1>3
<1>5. ASSUME NEW set \in SUBSET S, sum[set] # mine[set] PROVE FALSE
  <2> DEFINE Bad == {t \in SUBSET S : sum[t] # mine[t]}
  <2>1. IsFiniteSet(S) /\ FiniteSubsetsOf(S) = SUBSET S
    <3>1. month - 1 \in Int
      OBVIOUS
    <3>2. IsFiniteSet(S)
      BY <3>1, FS_Interval
    <3> HIDE DEF S
    <3> QED BY <3>2, FS_FiniteSubsetsOfFinite
  <2>2. IsWellFoundedOn(StrictSubsetOrdering(S), SUBSET S)
    BY <2>1, FS_StrictSubsetOrderingWellFounded
  <2>3. Bad # {} /\ Bad \subseteq SUBSET S
    BY <1>5
  <2>4. PICK t \in Bad : \A u \in Bad : ~(<<u, t>> \in StrictSubsetOrdering(S))
    <3> HIDE DEF Bad, S
    <3> QED BY <2>2, <2>3, WFMin
  <2>5. t # {}
    <3> HIDE DEF pick
    <3> QED BY <1>3, <1>4
  <2>6. rest(t) \in SUBSET S /\ pick(t) \in t
    BY <1>2, <2>5
  <2>7. sum[rest(t)] = mine[rest(t)]
    <3>1. <<rest(t), t>> \in StrictSubsetOrdering(S)
      <4> HIDE DEF pick
      <4> QED BY <2>6 DEF StrictSubsetOrdering
    <3>2. rest(t) \notin Bad
      <4> HIDE DEF Bad, rest
      <4> QED BY <2>4, <3>1
    <3> HIDE DEF rest, sum, mine
    <3> QED BY <2>6, <3>2
  <2> HIDE DEF sum, mine, pick
  <2> QED BY <1>3, <1>4, <2>4, <2>5, <2>7
<1> QED BY <1>1, <1>5 DEF DaysAdded

(* The days before a date, by formulas. *)
CivilDays(date) ==
  365 * (date.year - 1900) + (Leaps(date.year) - 460) + MonthSum(date.year, 1 .. date.month - 1)
    + date.day - 1

(* The days before a date, counted by years and months, are those the *)
(* formulas give.                                                     *)
LEMMA DaysCounted ==
  ASSUME NEW date, IsDate(date), date.year >= 1900
  PROVE  Hp!DaysBefore(date) = CivilDays(date)
<1> DEFINE year == date.year
           month == date.month
<1>1. year \in Nat /\ year >= 1900 /\ month \in 1 .. 12
  BY DEF IsDate
<1>2. Hp!Cardinality({y \in 1900 .. year - 1 : Hp!LeapYear(y)})
        = Cardinality({y \in 1900 .. year - 1 : LeapYear(y)})
  BY DEF Hp!Cardinality, Cardinality, Hp!LeapYear, LeapYear
<1>3. Cardinality({y \in 1900 .. year - 1 : LeapYear(y)}) = Leaps(year) - 460
  <2> DEFINE n == year - 1900
  <2>1. n \in Nat /\ 1900 + n = year
    BY <1>1
  <2>2. Cardinality({y \in 1900 .. 1900 + n - 1 : LeapYear(y)}) = Leaps(1900 + n) - 460
    <3> HIDE DEF n
    <3> QED BY <2>1, LeapYears
  <2> HIDE DEF n
  <2> QED BY <2>1, <2>2
<1>4. Hp!MapThenSumSet(LAMBDA k : Hp!MonthLength(year, k), 1 .. month - 1)
        = MonthDays(year, month)
  BY DEF MonthDays, Hp!MapThenSumSet, MapThenSumSet, Hp!MapThenFoldSet, MapThenFoldSet,
         Hp!MonthLength, MonthLength, Hp!LeapYear, LeapYear
<1>5. MonthDays(year, month) = DaysAdded(year, month)
  <2> HIDE DEF year, month
  <2> QED BY <1>1, MonthSums
<1> QED BY <1>2, <1>3, <1>4, <1>5 DEF Hp!DaysBefore, CivilDays, DaysAdded

(* The Julian day of a date is that of the epoch and as many days as are *)
(* counted.                                                              *)
LEMMA JulianCounts ==
  ASSUME NEW date, IsDate(date), date.year >= 1900
  PROVE  JulianDay(date.year, date.month, date.day) - JdOfNtpEpoch = CivilDays(date)
<1> DEFINE y == date.year
           m == date.month
           d == date.day
<1>1. y \in Nat /\ m \in 1 .. 12 /\ d \in Nat
  BY DEF IsDate
<1>2. JdOfNtpEpoch = 2415021
  BY DEF JdOfNtpEpoch, JulianDay
<1>3. JulianDay(y, 1, 1) - 2415021 = 365 * (y - 1900) + (Leaps(y) - 460)
  <2> DEFINE before == y - 1
  <2>1. before \in Int /\ before >= 1899
    BY <1>1
  <2>2. (1461 * (before + 4716)) \div 4 = 365 * (before + 4716) + before \div 4 + 1179
    <3> HIDE DEF before
    <3> QED BY <2>1, Z3
  <2>3. (before \div 100) \div 4 = before \div 400
    <3> HIDE DEF before
    <3> QED BY <2>1, Z3
  <2>4. JulianDay(y, 1, 1)
          = (1461 * (before + 4716)) \div 4 + 428 + 1
              + (2 - before \div 100 + (before \div 100) \div 4) - 1524
    BY <1>1 DEF JulianDay
  <2>5. Leaps(y) = before \div 4 - before \div 100 + before \div 400
    BY DEF Leaps
  <2>6. before \div 4 \in Int /\ before \div 100 \in Int /\ before \div 400 \in Int
    <3> HIDE DEF before
    <3> QED BY <2>1
  <2> QED BY <1>1, <2>1, <2>2, <2>3, <2>4, <2>5, <2>6
<1> DEFINE first(k) == JulianDay(y, k, 1)
           length(k) == MonthLength(y, k)
<1>4. \A k \in 1 .. 12 : first(k) \in Int /\ length(k) \in Int
  BY <1>1 DEF JulianDay, MonthLength
<1>5. \A k \in 1 .. 11 : first(k + 1) = first(k) + length(k)
  <2>1. TAKE k \in 1 .. 11
  <2>2. first(k + 1) = JulianDay(y, k, MonthLength(y, k)) + 1
    BY <1>1, <2>1, MonthsFollow
  <2>3. JulianDay(y, k, MonthLength(y, k)) = JulianDay(y, k, 1) + MonthLength(y, k) - 1
    BY <1>1, <1>4 DEF JulianDay
  <2> HIDE DEF y
  <2> QED BY <2>2, <2>3, <1>4
<1>6. first(m) = first(1) + MonthSum(y, 1 .. m - 1)
  <2> DEFINE months == 1 .. m - 1
             of(k) == DaysOf(y, k, months)
  <2>1. \A k \in 1 .. 11 : of(k) = IF k < m THEN length(k) ELSE 0
    BY <1>1 DEF DaysOf
  <2>2. MonthSum(y, months)
          = of(1) + of(2) + of(3) + of(4) + of(5) + of(6) + of(7) + of(8) + of(9) + of(10) + of(11)
    BY DEF MonthSum
  <2> HIDE DEF of, y, months, first, length, m
  <2>3. first(m) = first(1) + MonthSum(y, months)
    BY <1>1, <1>4, <1>5, <2>1, <2>2
  <2> QED BY <2>3 DEF months
<1>7. JulianDay(y, m, d) = first(m) + d - 1
  BY <1>1 DEF JulianDay
<1>8. Leaps(y) \in Int /\ MonthSum(y, 1 .. m - 1) \in Int
  <2>1. Leaps(y) \in Int
    <3> HIDE DEF y
    <3> QED BY <1>1 DEF Leaps
  <2> DEFINE months == 1 .. m - 1
             of(k) == DaysOf(y, k, months)
  <2>2. \A k \in 1 .. 11 : of(k) \in Int
    BY <1>4 DEF DaysOf
  <2>3. MonthSum(y, months)
          = of(1) + of(2) + of(3) + of(4) + of(5) + of(6) + of(7) + of(8) + of(9) + of(10) + of(11)
    BY DEF MonthSum
  <2> HIDE DEF of, y, months
  <2>4. MonthSum(y, months) \in Int
    BY <2>2, <2>3
  <2> QED BY <2>1, <2>4 DEF months
<1> DEFINE sum == MonthSum(y, 1 .. m - 1)
           leaps == Leaps(y)
<1>9. JulianDay(y, m, d) - JdOfNtpEpoch = 365 * (y - 1900) + (leaps - 460) + sum + d - 1
  <2>1. first(1) - 2415021 = 365 * (y - 1900) + (leaps - 460)
    BY <1>3
  <2>2. sum \in Int /\ leaps \in Int /\ first(1) \in Int
    BY <1>4, <1>8
  <2> HIDE DEF first, length, y, m, d, sum, leaps
  <2>3. first(m) = first(1) + sum
    BY <1>6 DEF sum
  <2> QED BY <1>1, <1>2, <1>7, <2>1, <2>2, <2>3
<1> QED BY <1>9 DEF CivilDays

(* From 1900 on the Julian day counts the days since the epoch of NTP as they  *)
(* are counted year by year and month by month (NtpTime.cpp:27-46).           *)
THEOREM CalendarCorrect ==
  ASSUME NEW date, IsDate(date), date.year >= 1900
  PROVE  JulianDay(date.year, date.month, date.day) - JdOfNtpEpoch = Hp!DaysBefore(date)
BY DaysCounted, JulianCounts

(* The number of a date. *)
Number(date) == JulianDay(date.year, date.month, date.day)

(* The day after any date gets the next number, over the ends of months, of   *)
(* leap years and of centuries (NtpTime.cpp:27-46).                           *)
THEOREM DaysFollow ==
  ASSUME NEW date, IsDate(date)
  PROVE  Number(DayAfter(date)) = Number(date) + 1
<1> DEFINE y == date.year
           m == date.month
           d == date.day
<1>1. y \in Nat /\ m \in 1 .. 12 /\ d \in 1 .. MonthLength(y, m)
  BY DEF IsDate
<1>2. CASE d < MonthLength(y, m)
  <2>1. DayAfter(date) = [date EXCEPT !.day = @ + 1]
    BY <1>2 DEF DayAfter
  <2>2. /\ DayAfter(date).year = y /\ DayAfter(date).month = m /\ DayAfter(date).day = d + 1
    BY <2>1
  <2>3. d \in Int
    BY <1>1 DEF MonthLength
  <2> QED BY <1>1, <2>2, <2>3 DEF Number, JulianDay
<1>3. CASE d = MonthLength(y, m) /\ m < 12
  <2>1. DayAfter(date) = [date EXCEPT !.month = @ + 1, !.day = 1]
    BY <1>3, <1>1 DEF DayAfter, MonthLength
  <2>2. DayAfter(date).year = y /\ DayAfter(date).month = m + 1 /\ DayAfter(date).day = 1
    BY <2>1
  <2>3. JulianDay(y, m + 1, 1) = JulianDay(y, m, MonthLength(y, m)) + 1
    BY <1>1, <1>3, MonthsFollow
  <2> QED BY <1>3, <2>2, <2>3 DEF Number
<1>4. CASE d = MonthLength(y, m) /\ m = 12
  <2>1. DayAfter(date) = [year |-> y + 1, month |-> 1, day |-> 1]
    BY <1>4, <1>1 DEF DayAfter, MonthLength
  <2>2. JulianDay(y + 1, 1, 1) = JulianDay(y, 12, 31) + 1
    BY <1>1, Z3 DEF JulianDay
  <2> QED BY <1>4, <2>1, <2>2 DEF Number, MonthLength
<1> QED BY <1>1, <1>2, <1>3, <1>4 DEF MonthLength

-----------------------------------------------------------------------------
(* Recursive functions, by induction over the set of the lengths they are *)
(* right for.                                                             *)

(* A function that takes the start and then the pairs of its last value and *)
(* the step.                                                                *)
Recursive(g, n, start, F) == g[0] = start /\ \A k \in 1 .. n : g[k] = F[<<g[k - 1], k>>]

HasRecursive(n, S, start, F) == \E g \in [0 .. n -> S] : Recursive(g, n, start, F)

(* What a recursion makes of a start, step by step, is a function (by *)
(* induction on its length).                                          *)
LEMMA RecursiveFunction ==
  ASSUME NEW n \in Nat, NEW S, NEW start \in S, NEW F \in [S \X (1 .. n) -> S]
  PROVE  HasRecursive(n, S, start, F)
<1> DEFINE Upto(g, i) == g[0] = start /\ \A k \in 1 .. i : g[k] = F[<<g[k - 1], k>>]
           T == {i \in Nat : i <= n => \E g \in [0 .. n -> S] : Upto(g, i)}
<1>1. 0 \in T
  <2>1. [k \in 0 .. n |-> start] \in [0 .. n -> S]
    OBVIOUS
  <2>2. Upto([k \in 0 .. n |-> start], 0)
    OBVIOUS
  <2> HIDE DEF Upto
  <2> QED BY <2>1, <2>2
<1>2. ASSUME NEW i \in Nat, i \in T PROVE i + 1 \in T
  <2>1. SUFFICES ASSUME i + 1 <= n PROVE \E g \in [0 .. n -> S] : Upto(g, i + 1)
    OBVIOUS
  <2>2. PICK g \in [0 .. n -> S] : Upto(g, i)
    BY <1>2, <2>1
  <2> DEFINE h == [g EXCEPT ![i + 1] = F[<<g[i], i + 1>>]]
  <2>3. h \in [0 .. n -> S]
    BY <2>1
  <2>4. /\ h[i + 1] = F[<<g[i], i + 1>>]
        /\ \A k \in 0 .. n : k # i + 1 => h[k] = g[k]
    BY <2>1
  <2> HIDE DEF h
  <2>5. h[0] = start
    BY <2>2, <2>4
  <2>6. ASSUME NEW k \in 1 .. i + 1 PROVE h[k] = F[<<h[k - 1], k>>]
    <3>1. CASE k = i + 1
      <4>1. h[k - 1] = g[i]
        BY <2>1, <2>4, <3>1
      <4> QED BY <3>1, <2>4, <4>1
    <3>2. CASE k # i + 1
      <4>1. k \in 1 .. i /\ k - 1 \in 0 .. n /\ k - 1 # i + 1 /\ k \in 0 .. n
        BY <3>2, <2>1
      <4>2. h[k] = g[k] /\ h[k - 1] = g[k - 1]
        BY <3>2, <4>1, <2>4
      <4> QED BY <4>1, <4>2, <2>2
    <3> QED BY <3>1, <3>2
  <2> QED BY <2>3, <2>5, <2>6
<1>3. n \in T
  <2> HIDE DEF T
  <2> QED BY <1>1, <1>2, SetInduction
<1> QED BY <1>3 DEF HasRecursive, Recursive

-----------------------------------------------------------------------------
(* The HP55300A: a buffer that starts like the time of day does not end like *)
(* it, unless it is of the reply that is being read.                         *)

Names == {"echo", "lf", "T2", "time", "sum", "E-", "noise", "nul"}
(* The readings, pieces and inputs of the driver. *)
HpReadings == [date : [year : Int, month : Int, day : Int], second : Int, valid : BOOLEAN]
HpPieces   == [is : Names, says : HpReadings]
HpInputs   == [read : Nat, empty : BOOLEAN, buffer : Seq(HpPieces), io : BOOLEAN,
               reading : HpReadings, onRequest : BOOLEAN, elapsed : BOOLEAN]

(* What may be read with so many pieces of a reply left: of a reply of the    *)
(* readings rs, of an error, or noise in its place.                          *)
MayRead(rs, left, piece) ==
  \/ piece = Hp!Noise
  \/ left = 6 /\ piece = Hp!Piece("echo")
  \/ left \in {1, 5} /\ piece = Hp!LineFeed
  \/ left = 4 /\ piece = Hp!Piece("T2")
  \/ left = 3 /\ \E reading \in rs : piece = Hp!Time(reading)
  \/ left = 2 /\ piece \in {Hp!Piece("sum"), Hp!Piece("E-")}

(* A buffer that starts like the time of day does not end like it, unless it *)
(* is of the reply that is being read.                                       *)
Starts(buffer) == Len(buffer) >= 2 /\ buffer[1].is = "T2" /\ buffer[2].is = "time"

BufferRight(rs, left, buffer) ==
  Starts(buffer) =>
    /\ Len(buffer) = 2 => left = 2 /\ buffer[2].says \in rs
    /\ Len(buffer) = 3 => buffer[3].is # "sum" \/ (left = 1 /\ buffer[2].says \in rs)

(* What may be read is a piece, and its kind says where in the reply it *)
(* stands.                                                              *)
LEMMA HpPieceTypes ==
  ASSUME NEW rs \in SUBSET HpReadings, NEW left, NEW piece, MayRead(rs, left, piece)
  PROVE  /\ piece \in HpPieces
         /\ piece = Hp!LineFeed <=> piece.is = "lf"
         /\ piece.is = "time" => left = 3 /\ piece.says \in rs
         /\ piece.is = "lf" => left \in {1, 5}
<1>1. Hp!NoReading \in HpReadings
  BY DEF Hp!NoReading, HpReadings
<1>2. ASSUME NEW name \in Names
      PROVE  Hp!Piece(name) \in HpPieces /\ Hp!Piece(name).is = name
  BY <1>1 DEF Hp!Piece, HpPieces
<1>3. ASSUME NEW reading \in HpReadings
      PROVE  /\ Hp!Time(reading) \in HpPieces
             /\ Hp!Time(reading).is = "time" /\ Hp!Time(reading).says = reading
  BY DEF Hp!Time, HpPieces, Names
<1>4. ASSUME NEW name \in {"noise", "echo", "T2", "sum", "E-"}, piece = Hp!Piece(name)
      PROVE  piece \in HpPieces /\ piece.is = name /\ piece # Hp!LineFeed
  <2>1. name \in Names /\ "lf" \in Names /\ name # "lf"
    BY DEF Names
  <2> QED BY <1>2, <1>4, <2>1 DEF Hp!LineFeed
<1>5. CASE piece = Hp!LineFeed /\ left \in {1, 5}
  <2>1. "lf" \in Names
    BY DEF Names
  <2> QED BY <1>2, <1>5, <2>1 DEF Hp!LineFeed
<1>6. CASE left = 3 /\ \E reading \in rs : piece = Hp!Time(reading)
  <2>1. PICK reading \in rs : piece = Hp!Time(reading)
    BY <1>6
  <2>2. "lf" \in Names
    BY DEF Names
  <2> QED BY <1>2, <1>3, <1>6, <2>1, <2>2 DEF Hp!LineFeed
<1>7. CASE \E name \in {"noise", "echo", "T2", "sum", "E-"} : piece = Hp!Piece(name)
  BY <1>4, <1>7
<1> QED BY <1>5, <1>6, <1>7 DEF MayRead, Hp!Noise

(* ParseLine takes the reading of a buffer that is a whole time of day, and *)
(* of no other.                                                             *)
LEMMA HpParse ==
  ASSUME NEW input \in HpInputs, NEW text \in Seq(HpPieces), NEW next,
         next = Hp!ParseLine(input, text)
  PROVE  /\ next \in HpInputs
         /\ next.read = input.read /\ next.empty = input.empty
         /\ next.io => input.io
         /\ \/ next.buffer = <<>> /\ next.reading = input.reading
            \/ /\ next.buffer = input.buffer /\ next.reading = input.reading
               /\ Starts(text) => Len(text) = 3 /\ text[3].is # "sum"
            \/ /\ next.buffer = <<>> /\ next.reading = text[2].says
               /\ Starts(text) /\ Len(text) = 3 /\ text[3].is = "sum"
<1>0. <<>> \in Seq(HpPieces)
  OBVIOUS
<1>1. CASE ~Hp!IsT2(text)
  <2>1. next = [input EXCEPT !.buffer = <<>>]
    BY <1>1 DEF Hp!ParseLine
  <2> QED BY <1>0, <2>1 DEF HpInputs
<1>2. CASE Hp!IsT2(text) /\ ~Hp!ChecksumRight(text)
  <2>1. Len(text) = 3 /\ text[1].is = "T2" /\ (text[2].is = "time" => text[3].is # "sum")
    BY <1>2 DEF Hp!IsT2, Hp!ChecksumRight
  <2>2. next = [input EXCEPT !.elapsed = @ \/ input.onRequest, !.onRequest = FALSE]
    BY <1>2 DEF Hp!ParseLine
  <2>3. Starts(text) => Len(text) = 3 /\ text[3].is # "sum"
    BY <2>1 DEF Starts
  <2> QED BY <2>2, <2>3 DEF HpInputs
<1>3. CASE Hp!IsT2(text) /\ Hp!ChecksumRight(text)
  <2>0. Len(text) = 3
    BY <1>3 DEF Hp!IsT2
  <2>1. text[1].is = "T2" /\ text[2].is = "time" /\ text[3].is = "sum"
    BY <1>3, <2>0 DEF Hp!IsT2, Hp!ChecksumRight
  <2>2. text[2] \in HpPieces
    BY <2>0
  <2>3. text[2].says \in HpReadings
    BY <2>2 DEF HpPieces
  <2>4. next = [input EXCEPT !.elapsed = FALSE, !.onRequest = FALSE, !.buffer = <<>>, !.io = FALSE,
                       !.reading = text[2].says]
    BY <1>3 DEF Hp!ParseLine
  <2>5. Starts(text)
    BY <2>0, <2>1 DEF Starts
  <2> QED BY <1>0, <2>0, <2>1, <2>3, <2>4, <2>5 DEF HpInputs
<1> QED BY <1>1, <1>2, <1>3

(* A piece that may be read keeps the buffer right. *)
LEMMA HpAppend ==
  ASSUME NEW rs \in SUBSET HpReadings, NEW left \in 1 .. 6, NEW piece, MayRead(rs, left, piece),
         piece # Hp!LineFeed, NEW buffer \in Seq(HpPieces), BufferRight(rs, left, buffer)
  PROVE  BufferRight(rs, left - 1, Append(buffer, piece))
<1> DEFINE text == Append(buffer, piece)
<1>1. piece \in HpPieces /\ (piece.is = "time" => left = 3 /\ piece.says \in rs)
  BY HpPieceTypes
<1>2. /\ text[Len(buffer) + 1] = piece
      /\ \A i \in 1 .. Len(buffer) : text[i] = buffer[i]
  BY <1>1
<1>0. Len(text) = Len(buffer) + 1 /\ Len(buffer) \in Nat
  BY <1>1
<1> HIDE DEF text
<1>3. SUFFICES ASSUME Starts(text)
               PROVE  /\ Len(text) = 2 => left - 1 = 2 /\ text[2].says \in rs
                      /\ Len(text) = 3 => \/ text[3].is # "sum"
                                          \/ left - 1 = 1 /\ text[2].says \in rs
  BY DEF BufferRight, text
<1>4. CASE Len(buffer) = 1
  <2>1. Len(text) = 2 /\ text[2] = piece
    BY <1>0, <1>2, <1>4
  <2> QED BY <1>1, <1>3, <2>1 DEF Starts
<1>5. CASE Len(buffer) = 2
  <2>1. Len(text) = 3 /\ text[1] = buffer[1] /\ text[2] = buffer[2]
    BY <1>0, <1>2, <1>5
  <2> QED BY <1>3, <1>5, <2>1 DEF Starts, BufferRight
<1>6. CASE Len(buffer) \notin {1, 2}
  <2> DEFINE n == Len(buffer)
             m == Len(text)
  <2>1. m # 2 /\ m # 3
    <3>1. m = n + 1 /\ n \in Nat /\ n # 1 /\ n # 2
      BY <1>0, <1>6
    <3> HIDE DEF n, m
    <3> QED BY <3>1
  <2> QED BY <2>1
<1> QED BY <1>4, <1>5, <1>6

(* What collecting a piece leaves. *)
Collected(rs, left, input, next) ==
  /\ next \in HpInputs
  /\ next.read = input.read + 1
  /\ next.io => input.io
  /\ next.reading \in {input.reading} \cup rs
  /\ BufferRight(rs, left - 1, next.buffer)

(* A piece that is read keeps the buffer right, and a reading it completes *)
(* was sent.                                                               *)
LEMMA HpCollect ==
  ASSUME NEW rs \in SUBSET HpReadings, NEW left \in 1 .. 6, NEW piece, MayRead(rs, left, piece),
         NEW input \in HpInputs, ~input.empty, BufferRight(rs, left, input.buffer),
         NEW next, next = Hp!Collect(input, piece)
  PROVE  Collected(rs, left, input, next)
<1> DEFINE buffer == input.buffer
<1>1. piece \in HpPieces /\ (piece.is = "time" => left = 3 /\ piece.says \in rs)
  BY HpPieceTypes
<1>2. buffer \in Seq(HpPieces) /\ input.read \in Nat
  BY DEF HpInputs
<1>3. BufferRight(rs, left - 1, <<>>)
  BY DEF BufferRight, Starts
<1>4. CASE piece # Hp!LineFeed
  <2> DEFINE text == Append(buffer, piece)
             read == [input EXCEPT !.read = @ + 1, !.buffer = text]
  <2>1. text \in Seq(HpPieces)
    BY <1>1, <1>2
  <2>2. BufferRight(rs, left - 1, text)
    BY <1>2, <1>4, HpAppend
  <2>3. /\ read \in HpInputs /\ read.buffer = text /\ read.read = input.read + 1
        /\ read.io = input.io /\ read.reading = input.reading
    <3> HIDE DEF text
    <3> HIDE DEF text
    <3>1. input.read + 1 \in Nat
      BY <1>2
    <3> QED BY <2>1, <3>1 DEF HpInputs
  <2>4. next = IF Hp!Full(text) THEN Hp!ParseLine(read, text) ELSE read
    BY <1>4, <2>3 DEF Hp!Collect
  <2>5. CASE next = read
    BY <2>2, <2>3, <2>5 DEF Collected
  <2>6. CASE next = Hp!ParseLine(read, text)
    <3> HIDE DEF text, read
    <3>1. /\ next \in HpInputs
          /\ next.read = read.read /\ (next.io => read.io)
          /\ \/ next.buffer = <<>> /\ next.reading = read.reading
             \/ /\ next.buffer = read.buffer /\ next.reading = read.reading
                /\ Starts(text) => Len(text) = 3 /\ text[3].is # "sum"
             \/ /\ next.buffer = <<>> /\ next.reading = text[2].says
                /\ Starts(text) /\ Len(text) = 3 /\ text[3].is = "sum"
      BY <2>1, <2>3, <2>6, HpParse
    <3>2. Starts(text) /\ Len(text) = 3 /\ text[3].is = "sum" => text[2].says \in rs
      BY <2>2 DEF BufferRight
    <3> QED BY <1>3, <2>2, <2>3, <3>1, <3>2 DEF Collected
  <2> QED BY <2>4, <2>5, <2>6
<1>5. CASE piece = Hp!LineFeed
  <2> DEFINE ended == Append(buffer, Hp!Nul)
             read  == [input EXCEPT !.read = @ + 1, !.buffer = ended]
  <2>1. Hp!Nul \in HpPieces /\ Hp!Nul.is = "nul"
    BY DEF Hp!Nul, Hp!Piece, HpPieces, Names, Hp!NoReading, HpReadings
  <2>0. /\ ended \in Seq(HpPieces) /\ Len(ended) = Len(buffer) + 1 /\ Len(buffer) \in Nat
    BY <1>2, <2>1
  <2>2. /\ ended[Len(buffer) + 1] = Hp!Nul
        /\ \A i \in 1 .. Len(buffer) : ended[i] = buffer[i]
    BY <1>2, <2>1
  <2> HIDE DEF ended
  <2>3. /\ read \in HpInputs /\ read.buffer = ended /\ read.read = input.read + 1
        /\ read.io = input.io /\ read.reading = input.reading
    <3>1. input.read + 1 \in Nat
      BY <1>2
    <3>2. ended \in Seq(HpPieces)
      BY <2>0
    <3> QED BY <3>1, <3>2 DEF HpInputs
  <2>4. \/ buffer = <<>> /\ next = [read EXCEPT !.empty = TRUE]
        \/ next = Hp!ParseLine(read, ended)
        \/ next = Hp!ParseLine(read, buffer)
    BY <1>5, <2>3 DEF Hp!Collect, ended
  <2> HIDE DEF read
  <2>5. CASE buffer = <<>> /\ next = [read EXCEPT !.empty = TRUE]
    <3>1. ~Starts(ended)
      BY <2>0, <2>5 DEF Starts
    <3>2. /\ next \in HpInputs /\ next.buffer = ended /\ next.read = read.read
          /\ next.io = read.io /\ next.reading = read.reading
      BY <2>3, <2>5 DEF HpInputs
    <3> QED BY <2>3, <3>1, <3>2 DEF BufferRight, Collected
  <2>6. CASE next = Hp!ParseLine(read, ended)
    <3>1. /\ next \in HpInputs
          /\ next.read = read.read /\ (next.io => read.io)
          /\ \/ next.buffer = <<>> /\ next.reading = read.reading
             \/ /\ next.buffer = read.buffer /\ next.reading = read.reading
                /\ Starts(ended) => Len(ended) = 3 /\ ended[3].is # "sum"
             \/ /\ next.buffer = <<>> /\ next.reading = ended[2].says
                /\ Starts(ended) /\ Len(ended) = 3 /\ ended[3].is = "sum"
      <4>1. ended \in Seq(HpPieces) /\ read \in HpInputs
        BY <2>0, <2>3
      <4> HIDE <2>0, <2>3
      <4> QED BY <4>1, <2>6, HpParse
    <3>2. ~(Len(ended) = 3 /\ ended[3].is = "sum")
      <4>1. Len(ended) = 3 => ended[3] = Hp!Nul
        BY <2>0, <2>2
      <4> QED BY <2>1, <4>1
    <3>3. (Starts(ended) => Len(ended) = 3 /\ ended[3].is # "sum")
             => BufferRight(rs, left - 1, ended)
      BY DEF BufferRight
    <3> QED BY <1>3, <2>3, <3>1, <3>2, <3>3 DEF Collected
  <2>7. CASE next = Hp!ParseLine(read, buffer)
    <3>1. /\ next \in HpInputs
          /\ next.read = read.read /\ (next.io => read.io)
          /\ \/ next.buffer = <<>> /\ next.reading = read.reading
             \/ /\ next.buffer = read.buffer /\ next.reading = read.reading
                /\ Starts(buffer) => Len(buffer) = 3 /\ buffer[3].is # "sum"
             \/ /\ next.buffer = <<>> /\ next.reading = buffer[2].says
                /\ Starts(buffer) /\ Len(buffer) = 3 /\ buffer[3].is = "sum"
      BY <1>2, <2>3, <2>7, HpParse
    <3>2. Starts(buffer) /\ Len(buffer) = 3 /\ buffer[3].is = "sum" => buffer[2].says \in rs
      BY DEF BufferRight
    <3>3. (Starts(buffer) => Len(buffer) = 3) => BufferRight(rs, left - 1, ended)
      <4>1. SUFFICES ASSUME Starts(buffer) => Len(buffer) = 3, Starts(ended)
                     PROVE  Len(ended) \notin {2, 3}
        BY DEF BufferRight
      <4>2. Len(buffer) # 1
        <5>1. Len(buffer) = 1 => ended[2] = Hp!Nul
          BY <2>0, <2>2
        <5> QED BY <4>1, <5>1, <2>1 DEF Starts
      <4>3. Len(buffer) >= 2 => Starts(buffer)
        <5>1. Len(buffer) >= 2 => ended[1] = buffer[1] /\ ended[2] = buffer[2]
          BY <2>0, <2>2
        <5> QED BY <4>1, <5>1 DEF Starts
      <4>4. Len(ended) >= 2
        BY <4>1 DEF Starts
      <4>5. Len(buffer) = 0 \/ Len(buffer) >= 3
        <5> DEFINE n == Len(buffer)
        <5>1. n \in Nat /\ n # 1 /\ (n >= 2 => n = 3)
          BY <2>0, <4>1, <4>2, <4>3
        <5> HIDE DEF n
        <5>2. n = 0 \/ n >= 3
          BY <5>1
        <5> QED BY <5>2 DEF n
      <4> DEFINE n == Len(buffer)
                 m == Len(ended)
      <4>6. n \in Nat /\ m = n + 1 /\ m >= 2 /\ (n = 0 \/ n >= 3)
        BY <2>0, <4>4, <4>5
      <4> HIDE DEF n, m
      <4>7. m # 2 /\ m # 3
        BY <4>6
      <4> QED BY <4>7 DEF m
    <3> QED BY <1>3, <2>3, <3>1, <3>2, <3>3 DEF Collected
  <2> QED BY <2>4, <2>5, <2>6, <2>7
<1> QED BY <1>4, <1>5

(* Inputs of which no more was read than there is, and that are right. *)
HpRight(rs, whole, n) ==
  {input \in HpInputs :
     /\ input.read \in 0 .. n
     /\ input.io => ioInProcess
     /\ input.reading \in {Hp!NoReading} \cup rs
     /\ input.read = 0 => input.reading = Hp!NoReading
     /\ BufferRight(rs, whole - input.read, input.buffer)}

(* So does all that GetTodReply reads, by induction on the pieces. *)
LEMMA HpReply ==
  ASSUME NEW rs \in SUBSET HpReadings, NEW whole \in 0 .. 6, NEW text \in Seq(HpPieces),
         Len(text) <= whole,
         \A i \in 1 .. Len(text) : MayRead(rs, whole - i + 1, text[i]),
         Hp!Start \in HpInputs, BufferRight(rs, whole, todBuffer)
  PROVE  Hp!GetTodReply(text) \in HpRight(rs, whole, Len(text))
<1> DEFINE n == Len(text)
           S == HpRight(rs, whole, n)
           start == Hp!Start
           reads(input, k) == input.read = k - 1 /\ ~input.empty
           collected(input, k) ==
             IF reads(input, k) THEN Hp!Collect(input, text[k]) ELSE input
           F == [p \in S \X (1 .. n) |-> collected(p[1], p[2])]
           step(f) == [k \in 0 .. n |->
                        IF k = 0 THEN start
                        ELSE CHOOSE next \in {Hp!Collect(input, text[k]) : input \in {f[k - 1]}} :
                               TRUE]
           after == CHOOSE f : f = step(f)
<1>0. n \in Nat /\ n <= whole /\ n \in 0 .. 6
  <2>1. n \in Nat /\ n <= whole
    OBVIOUS
  <2> HIDE DEF n
  <2> QED BY <2>1
<1>1. Hp!GetTodReply(text) = after[n]
  BY DEF Hp!GetTodReply
<1>2. start \in S
  <2>1. /\ start.read = 0 /\ start.buffer = todBuffer /\ start.io = ioInProcess
        /\ start.reading = Hp!NoReading
    BY DEF Hp!Start
  <2>0. start \in HpInputs
    OBVIOUS
  <2> HIDE DEF start
  <2>2. start.read \in 0 .. n /\ whole - start.read = whole
    BY <2>1, <1>0
  <2>3. BufferRight(rs, whole - start.read, start.buffer)
    BY <2>1, <2>2
  <2> HIDE DEF n
  <2> QED BY <2>0, <2>1, <2>2, <2>3 DEF HpRight
<1>3. ASSUME NEW input \in S, NEW k \in 1 .. n, reads(input, k)
      PROVE  Hp!Collect(input, text[k]) \in S /\ Hp!Collect(input, text[k]).read = k
  <2> DEFINE next == Hp!Collect(input, text[k])
             left == whole - k + 1
             reading == input.reading
  <2>1. input \in HpInputs /\ ~input.empty /\ input.read = k - 1
        /\ (input.io => ioInProcess) /\ reading \in {Hp!NoReading} \cup rs
    BY <1>3 DEF HpRight
  <2>2. BufferRight(rs, whole - (k - 1), input.buffer)
    BY <1>3 DEF HpRight
  <2>a. k \in 1 .. n /\ k \in Int /\ k <= whole
    <3> HIDE DEF n
    <3> QED BY <1>0
  <2>3. /\ left \in 1 .. 6 /\ MayRead(rs, left, text[k]) /\ whole - (k - 1) = left
        /\ left - 1 = whole - k /\ input.read + 1 = k
    <3>1. MayRead(rs, left, text[k])
      BY <2>a
    <3> HIDE DEF n
    <3> QED BY <2>1, <2>a, <3>1
  <2>b. BufferRight(rs, left, input.buffer)
    BY <2>2, <2>3
  <2>4. /\ next \in HpInputs
        /\ next.read = input.read + 1
        /\ next.io => input.io
        /\ next.reading \in {input.reading} \cup rs
        /\ BufferRight(rs, left - 1, next.buffer)
    <3> DEFINE piece == text[k]
    <3>1. next = Hp!Collect(input, piece) /\ MayRead(rs, left, piece)
      BY <2>3
    <3> HIDE DEF left, next, piece
    <3>2. Collected(rs, left, input, next)
      BY <2>1, <2>3, <2>b, <3>1, HpCollect
    <3> QED BY <3>2 DEF Collected
  <2> HIDE DEF next
  <2>5. next.read = k
    BY <2>3, <2>4
  <2>6. BufferRight(rs, whole - next.read, next.buffer)
    BY <2>3, <2>4, <2>5
  <2>7. next.read \in 0 .. n
    <3> HIDE DEF n
    <3> QED BY <2>5, <2>a, <1>0
  <2>8. next \in HpInputs /\ (next.io => ioInProcess) /\ next.reading \in {Hp!NoReading} \cup rs
    BY <2>1, <2>4
  <2>9. next \in S
    <3>1. next.read # 0
      BY <2>5, <2>a
    <3> HIDE DEF n
    <3> QED BY <2>6, <2>7, <2>8, <3>1 DEF HpRight
  <2> QED BY <2>5, <2>9 DEF next
<1>4. F \in [S \X (1 .. n) -> S]
  <2> HIDE DEF S, reads
  <2>1. \A input \in S, k \in 1 .. n : collected(input, k) \in S
    BY <1>3
  <2> HIDE DEF collected
  <2> QED BY <2>1
<1>a. HasRecursive(n, S, start, F)
  <2> HIDE DEF S, F, start, n
  <2> QED BY <1>0, <1>2, <1>4, RecursiveFunction
<1>5. PICK g \in [0 .. n -> S] : g[0] = start /\ \A k \in 1 .. n : g[k] = F[<<g[k - 1], k>>]
  <2> HIDE DEF S, F, start, n
  <2> QED BY <1>a DEF HasRecursive, Recursive
<1> DEFINE T == {k \in Nat : k <= n => g[k].empty \/ g[k].read = k}
<1>6. ASSUME NEW k \in 1 .. n
      PROVE  k - 1 \in 0 .. n /\ g[k - 1] \in S /\ g[k] = collected(g[k - 1], k)
  <2>1. k - 1 \in 0 .. n
    <3> HIDE DEF n
    <3> QED BY <1>0
  <2>2. g[k - 1] \in S
    <3> HIDE DEF S, n
    <3> QED BY <2>1
  <2>3. F[<<g[k - 1], k>>] = collected(g[k - 1], k)
    <3> HIDE DEF S, n, collected
    <3> QED BY <2>2
  <2>4. g[k] = F[<<g[k - 1], k>>]
    BY <1>5
  <2> HIDE DEF S, n, collected, F
  <2> QED BY <2>1, <2>2, <2>3, <2>4
<1>7. 0 \in T
  BY <1>5 DEF Hp!Start
<1>8. ASSUME NEW k \in Nat, k \in T PROVE k + 1 \in T
  <2>1. SUFFICES ASSUME k + 1 <= n PROVE g[k + 1].empty \/ g[k + 1].read = k + 1
    OBVIOUS
  <2>2. g[k].empty \/ g[k].read = k
    BY <1>8, <2>1, <1>0
  <2>3. k + 1 \in 1 .. n /\ (k + 1) - 1 = k
    BY <2>1, <1>0
  <2>4. g[k] \in S /\ g[k + 1] = collected(g[k], k + 1)
    <3> HIDE DEF S, collected
    <3> QED BY <1>6, <2>3
  <2>5. CASE g[k].empty
    BY <2>4, <2>5
  <2>6. CASE ~g[k].empty
    <3>1. reads(g[k], k + 1)
      BY <2>2, <2>3, <2>6
    <3> HIDE DEF S, reads
    <3>2. Hp!Collect(g[k], text[k + 1]).read = k + 1
      BY <2>3, <2>4, <3>1, <1>3
    <3> QED BY <2>4, <3>1, <3>2
  <2> QED BY <2>5, <2>6
<1>9. Nat \subseteq T
  <2> HIDE DEF T
  <2> QED BY <1>7, <1>8, SetInduction
<1>10. ASSUME NEW k \in 1 .. n
       PROVE  g[k] = Hp!Collect(g[k - 1], text[k])
  <2>1. CASE reads(g[k - 1], k)
    BY <2>1, <1>6
  <2>2. CASE ~reads(g[k - 1], k)
    <3>1. k - 1 \in Nat /\ k - 1 <= n
      BY <1>0
    <3>2. g[k - 1].empty
      BY <3>1, <2>2, <1>9
    <3> QED BY <2>2, <3>2, <1>6, Zenon DEF Hp!Collect
  <2> QED BY <2>1, <2>2
<1>11. g = step(g)
  <2> HIDE DEF S, start
  <2> QED BY <1>5, <1>10
<1>12. after = step(after)
  <2> HIDE DEF step
  <2> QED BY <1>11
<1> DEFINE U == {k \in Nat : k <= n => after[k] = g[k]}
<1>13. 0 \in U
  <2> HIDE DEF after, start
  <2> QED BY <1>0, <1>5, <1>12
<1>14. ASSUME NEW k \in Nat, k \in U PROVE k + 1 \in U
  <2>1. SUFFICES ASSUME k + 1 <= n PROVE after[k + 1] = g[k + 1]
    OBVIOUS
  <2>2. after[k] = g[k]
    <3> HIDE DEF after
    <3> QED BY <1>14, <2>1, <1>0
  <2>3. k + 1 \in 1 .. n /\ k + 1 \in 0 .. n /\ (k + 1) - 1 = k /\ k + 1 # 0
    BY <2>1, <1>0
  <2>4. after[k + 1] = Hp!Collect(after[k], text[k + 1])
    <3> HIDE DEF after, n
    <3> QED BY <1>12, <2>3
  <2>5. g[k + 1] = Hp!Collect(g[k], text[k + 1])
    <3> HIDE DEF S, n
    <3> QED BY <1>10, <2>3
  <2> QED BY <2>2, <2>4, <2>5
<1>15. n \in U
  <2> HIDE DEF U
  <2> QED BY <1>0, <1>13, <1>14, SetInduction
<1>16. after[n] = g[n] /\ g[n] \in S
  <2> HIDE DEF S, after
  <2> QED BY <1>0, <1>5, <1>15
<1> QED BY <1>1, <1>16

-----------------------------------------------------------------------------
(* The invariant of the HP55300A. *)

(* What the receiver may send in the current second, and what may come of it. *)
HpRs == {Hp!ReadingAt(now + 1, valid) : valid \in BOOLEAN}

HpComes(rs, n, text) == \A i \in 1 .. n : MayRead(rs, n - i + 1, text[i])

HpLineRight(rs, text) ==
  /\ text \in Seq(HpPieces) /\ Len(text) <= 6
  /\ HpComes(rs, Len(text), text)

(* The types, and that the time that was taken is the current second. *)
HpType ==
  /\ firstDay \in FirstDays
  /\ now \in SecondsPerDay - 2 .. SecondsPerDay - 2 + Seconds
  /\ requests \in Nat
  /\ todBuffer \in Seq(HpPieces)
  /\ todOnRequest \in BOOLEAN /\ elapsed \in BOOLEAN /\ ioInProcess \in BOOLEAN
  /\ locked = TRUE /\ holdover = FALSE /\ allConditionsNormal = TRUE
  /\ currentTime \in {-1, Hp!NtpNow}
  /\ queried \in BOOLEAN

(* What is on the line is of the current second, and the buffer is right for *)
(* it.                                                                       *)
HpInv ==
  /\ HpType
  /\ HpLineRight(HpRs, line)
  /\ BufferRight(HpRs, Len(line), todBuffer)
  /\ requests > 0 \/ line # <<>> => queried

(* The days the receiver starts on are dates from 1900 on. *)
LEMMA HpDays ==
  ASSUME firstDay \in FirstDays
  PROVE  IsDate(firstDay) /\ firstDay.year >= 1900
BY DEF FirstDays, Day, IsDate, MonthLength, LeapYear

(* The reading of the next pulse is turned into the current second.          *)
LEMMA HpTimeRight ==
  ASSUME firstDay \in FirstDays, NEW seconds \in 0 .. 2 * SecondsPerDay - 1, NEW valid \in BOOLEAN
  PROVE  Hp!TimeNow(Hp!ReadingAt(seconds, valid))
           = Hp!DaysBefore(firstDay) * SecondsPerDay + seconds - 1
<1> DEFINE reading == Hp!ReadingAt(seconds, valid)
           date == reading.date
           days == CivilDays(firstDay)
<1> SUFFICES Hp!TimeNow(reading) = Hp!DaysBefore(firstDay) * SecondsPerDay + seconds - 1
  OBVIOUS
<1>0. IsDate(firstDay) /\ firstDay.year >= 1900 /\ SecondsPerDay \in Nat \ {0}
  BY HpDays, DayAssumption
<1>1. Hp!DaysBefore(firstDay) = days /\ days = Number(firstDay) - JdOfNtpEpoch
  BY <1>0, DaysCounted, JulianCounts DEF Number
<1>2. JdOfNtpEpoch \in Int
  BY DEF JdOfNtpEpoch, JulianDay
<1>3. Hp!TimeNow(reading) = ((Number(date) - JdOfNtpEpoch) * SecondsPerDay + reading.second) - 1
  <2>1. Hp!JulianDay(date.year, date.month, date.day) = Number(date)
    BY DEF Hp!JulianDay, JulianDay, Number
  <2>2. Hp!JdOfNtpEpoch = JdOfNtpEpoch
    BY DEF Hp!JdOfNtpEpoch, JdOfNtpEpoch, Hp!JulianDay, JulianDay
  <2>3. Hp!TimeNow(reading)
          = ((Hp!JulianDay(date.year, date.month, date.day) - Hp!JdOfNtpEpoch) * SecondsPerDay
               + reading.second) - 1
    <3> HIDE DEF reading
    <3> QED BY Zenon DEF Hp!TimeNow, Hp!CalendarToNtpSeconds
  <2> HIDE DEF reading
  <2> QED BY <2>1, <2>2, <2>3, Zenon
<1>4. Number(firstDay) \in Int
  BY <1>0 DEF Number, JulianDay, IsDate
<1>5. CASE seconds < SecondsPerDay
  <2>1. date = firstDay /\ reading.second = seconds % SecondsPerDay
    BY <1>5 DEF Hp!ReadingAt
  <2>2. seconds % SecondsPerDay = seconds
    BY <1>0, <1>5
  <2> DEFINE P == days * SecondsPerDay
  <2>3. P \in Int
    <3> HIDE DEF days
    <3> QED BY <1>0, <1>1, <1>2, <1>4
  <2>4. Hp!TimeNow(reading) = (P + reading.second) - 1
    <3> HIDE DEF reading, days
    <3> QED BY <1>1, <1>3, <2>1
  <2>5. Hp!DaysBefore(firstDay) * SecondsPerDay = P
    BY <1>1
  <2> HIDE DEF reading, P
  <2> QED BY <2>1, <2>2, <2>3, <2>4, <2>5
<1>6. CASE seconds >= SecondsPerDay
  <2>1. date = Hp!DayAfter(firstDay) /\ reading.second = seconds % SecondsPerDay
    BY <1>0, <1>6 DEF Hp!ReadingAt
  <2>2. Hp!DayAfter(firstDay) = DayAfter(firstDay)
    BY DEF Hp!DayAfter, DayAfter, Hp!MonthLength, MonthLength, Hp!LeapYear, LeapYear
  <2>3. Number(date) = Number(firstDay) + 1
    BY <2>1, <2>2, <1>0, DaysFollow
  <2>4. seconds % SecondsPerDay = seconds - SecondsPerDay
    BY <1>0, <1>6
  <2>5. \A n \in Int : (n + 1) * SecondsPerDay = n * SecondsPerDay + SecondsPerDay
    BY <1>0
  <2> HIDE DEF reading, date, days
  <2>6. days \in Int /\ Number(date) - JdOfNtpEpoch = days + 1
    BY <1>1, <1>2, <1>4, <2>3
  <2>7. (Number(date) - JdOfNtpEpoch) * SecondsPerDay = days * SecondsPerDay + SecondsPerDay
    BY <2>5, <2>6
  <2>8. days * SecondsPerDay \in Int
    BY <2>6, <1>0
  <2> DEFINE P == days * SecondsPerDay
             Q == (Number(date) - JdOfNtpEpoch) * SecondsPerDay
  <2>9. /\ Hp!TimeNow(reading) = (Q + reading.second) - 1
        /\ Hp!DaysBefore(firstDay) * SecondsPerDay = P
        /\ Q = P + SecondsPerDay /\ P \in Int
    BY <1>1, <1>3, <2>7, <2>8
  <2> HIDE DEF P, Q
  <2> QED BY <1>0, <2>1, <2>4, <2>9
<1> QED BY <1>0, <1>5, <1>6

(* The seconds before the first day are a whole number. *)
LEMMA HpSecondsCounted ==
  ASSUME firstDay \in FirstDays
  PROVE  Hp!DaysBefore(firstDay) * SecondsPerDay \in Int
<1>1. Hp!DaysBefore(firstDay) = CivilDays(firstDay) /\ IsDate(firstDay)
  BY HpDays, DaysCounted
<1>2. CivilDays(firstDay) \in Int
  BY <1>1 DEF CivilDays, Leaps, MonthSum, DaysOf, MonthLength, IsDate
<1> QED BY <1>1, <1>2, DayAssumption

(* Both readings the receiver may send now are readings, and mean the current *)
(* second.                                                                    *)
LEMMA HpReadingsRight ==
  ASSUME HpType
  PROVE  /\ HpRs \in SUBSET HpReadings
         /\ \A reading \in HpRs : Hp!TimeNow(reading) = Hp!NtpNow
<1>1. /\ SecondsPerDay \in Nat \ {0} /\ Seconds \in 0 .. SecondsPerDay
      /\ now + 1 \in 0 .. 2 * SecondsPerDay - 1 /\ now \in Int /\ firstDay \in FirstDays
  BY DayAssumption, HpAssumption DEF HpType
<1>2. ASSUME NEW valid \in BOOLEAN
      PROVE  /\ Hp!ReadingAt(now + 1, valid) \in HpReadings
             /\ Hp!TimeNow(Hp!ReadingAt(now + 1, valid)) = Hp!NtpNow
  <2> DEFINE Dates == [year : Int, month : Int, day : Int]
  <2>1. firstDay \in Dates
    BY <1>1 DEF FirstDays, Day
  <2>2. Hp!DayAfter(firstDay) \in Dates
    <3>1. /\ firstDay.year + 1 \in Int /\ firstDay.month + 1 \in Int /\ firstDay.day + 1 \in Int
          /\ 1 \in Int
      BY <2>1
    <3> DEFINE y == firstDay.year + 1
               m == firstDay.month + 1
               d == firstDay.day + 1
    <3>2. /\ [firstDay EXCEPT !.day = d] \in Dates
          /\ [firstDay EXCEPT !.month = m, !.day = 1] \in Dates
          /\ [year |-> y, month |-> 1, day |-> 1] \in Dates
      <4> HIDE DEF y, m, d
      <4>1. y \in Int /\ m \in Int /\ d \in Int
        BY <3>1 DEF y, m, d
      <4>2. [firstDay EXCEPT !.day = d] \in Dates
        BY <4>1, <2>1
      <4>3. [firstDay EXCEPT !.month = m, !.day = 1] \in Dates
        <5> DEFINE f == [firstDay EXCEPT !.month = m]
        <5>1. f \in Dates
          BY <4>1, <2>1
        <5>2. [firstDay EXCEPT !.month = m, !.day = 1] = [f EXCEPT !.day = 1]
          BY <2>1
        <5> HIDE DEF f
        <5>3. [f EXCEPT !.day = 1] \in Dates
          BY <5>1
        <5> HIDE DEF Dates
        <5> QED BY <5>2, <5>3, Zenon
      <4>4. [year |-> y, month |-> 1, day |-> 1] \in Dates
        BY <4>1
      <4> QED BY <4>2, <4>3, <4>4
    <3> QED BY <3>2 DEF Hp!DayAfter
  <2>3. (now + 1) % SecondsPerDay \in Int
    BY <1>1
  <2>4. Hp!ReadingAt(now + 1, valid) \in HpReadings
    BY <2>1, <2>2, <2>3 DEF Hp!ReadingAt, HpReadings
  <2> DEFINE s == now + 1
             X == Hp!DaysBefore(firstDay) * SecondsPerDay
  <2>5. Hp!TimeNow(Hp!ReadingAt(s, valid)) = X + s - 1
    <3> HIDE DEF s
    <3> QED BY <1>1, HpTimeRight DEF s
  <2>6. X \in Int
    BY <1>1, HpSecondsCounted
  <2>7. X + s - 1 = X + now
    <3> HIDE DEF X
    <3> QED BY <2>6, <1>1
  <2> QED BY <2>4, <2>5, <2>7 DEF Hp!NtpNow
<1> QED BY <1>2 DEF HpRs

(* The invariant holds after a step if its parts do. *)
LEMMA HpInvNext ==
  ASSUME NEW rs, HpRs' = rs, HpType', HpLineRight(rs, line'),
         BufferRight(rs, Len(line'), todBuffer'), requests' > 0 \/ line' # <<>> => queried'
  PROVE  HpInv'
BY Zenon DEF HpInv

(* The readings and the time are a matter of the clock alone. *)
LEMMA HpFrame ==
  ASSUME UNCHANGED Hp!clockVars
  PROVE  HpRs' = HpRs /\ Hp!NtpNow' = Hp!NtpNow
<1>1. firstDay' = firstDay /\ now' = now
  BY DEF Hp!clockVars
<1>2. HpRs' = HpRs
  BY <1>1 DEF HpRs, Hp!ReadingAt
<1>3. Hp!NtpNow' = Hp!NtpNow
  BY <1>1, Zenon DEF Hp!NtpNow
<1> QED BY <1>2, <1>3

(* A line on which nothing is left says nothing of the buffer. *)
LEMMA NothingLeft ==
  ASSUME NEW rs, NEW other, NEW left, NEW buffer, BufferRight(rs, 0, buffer)
  PROVE  BufferRight(other, left, buffer)
BY DEF BufferRight

(* What comes in the order of a reply is right for the line. *)
LEMMA HpLineRights ==
  ASSUME NEW rs, NEW n \in 0 .. 6, NEW text \in Seq(HpPieces), Len(text) = n, HpComes(rs, n, text)
  PROVE  HpLineRight(rs, text)
BY DEF HpLineRight

(* A reply of which a piece was garbled comes in the order of a reply. *)
LEMMA HpReplies ==
  ASSUME NEW rs, NEW reading \in rs, rs \in SUBSET HpReadings, NEW text,
         text \in Hp!Garbled(Hp!Reply(reading))
  PROVE  HpLineRight(rs, text)
<1> DEFINE reply == Hp!Reply(reading)
<1>1. reply = <<Hp!Piece("echo"), Hp!LineFeed, Hp!Piece("T2"), Hp!Time(reading), Hp!Piece("sum"),
                Hp!LineFeed>>
  BY DEF Hp!Reply
<1>2. ASSUME NEW i \in 1 .. 6 PROVE MayRead(rs, 6 - i + 1, reply[i])
  BY <1>1 DEF MayRead
<1>3. ASSUME NEW left PROVE MayRead(rs, left, Hp!Noise)
  BY DEF MayRead
<1>4. ASSUME NEW i \in 1 .. 6 PROVE reply[i] \in HpPieces
  <2> HIDE DEF reply
  <2> QED BY <1>2, HpPieceTypes
<1>5. Hp!Noise \in HpPieces
  BY <1>3, HpPieceTypes
<1>6. reply \in Seq(HpPieces) /\ Len(reply) = 6
  <2>1. reply = [i \in 1 .. 6 |-> reply[i]]
    BY <1>1
  <2> HIDE DEF reply
  <2>2. [i \in 1 .. 6 |-> reply[i]] \in Seq(HpPieces)
    BY <1>4
  <2>3. Len([i \in 1 .. 6 |-> reply[i]]) = 6
    OBVIOUS
  <2> QED BY <2>1, <2>2, <2>3
<1>7. text = reply \/ \E i \in 1 .. 6 : text = [reply EXCEPT ![i] = Hp!Noise]
  BY <1>6 DEF Hp!Garbled
<1> HIDE DEF reply
<1>8. CASE text = reply
  <2>1. HpComes(rs, 6, reply)
    BY <1>2 DEF HpComes
  <2> QED BY <1>6, <1>8, <2>1, HpLineRights
<1>9. ASSUME NEW i \in 1 .. 6, text = [reply EXCEPT ![i] = Hp!Noise]
      PROVE  HpLineRight(rs, text)
  <2>1. text \in Seq(HpPieces) /\ Len(text) = 6
    <3> DEFINE p(k) == IF k = i THEN Hp!Noise ELSE reply[k]
    <3>1. \A k \in 1 .. 6 : p(k) \in HpPieces
      BY <1>4, <1>5 DEF reply
    <3>2. text = [k \in 1 .. 6 |-> p(k)]
      <4>1. reply \in [1 .. 6 -> HpPieces]
        BY <1>6, LenProperties
      <4> QED BY <4>1, <1>9
    <3> HIDE DEF p
    <3>3. [k \in 1 .. 6 |-> p(k)] \in Seq(HpPieces) /\ Len([k \in 1 .. 6 |-> p(k)]) = 6
      BY <3>1
    <3> QED BY <3>2, <3>3
  <2>2. \A k \in 1 .. 6 : text[k] = IF k = i THEN Hp!Noise ELSE reply[k]
    BY <1>6, <1>9
  <2>3. ASSUME NEW k \in 1 .. 6 PROVE MayRead(rs, 6 - k + 1, text[k])
    <3>1. CASE k = i
      BY <3>1, <2>2, <1>3
    <3>2. CASE k # i
      BY <3>2, <2>2, <1>2
    <3> QED BY <3>1, <3>2
  <2>4. HpComes(rs, 6, text)
    BY <2>3 DEF HpComes
  <2> QED BY <2>1, <2>4, HpLineRights
<1> QED BY <1>7, <1>8, <1>9

(* A reply that is an error comes in the order of a reply. *)
LEMMA HpErrors ==
  ASSUME NEW rs, rs \in SUBSET HpReadings
  PROVE  HpLineRight(rs, <<Hp!Piece("E-"), Hp!LineFeed>>)
<1> DEFINE text == <<Hp!Piece("E-"), Hp!LineFeed>>
<1>1. MayRead(rs, 2, Hp!Piece("E-")) /\ MayRead(rs, 1, Hp!LineFeed)
  BY DEF MayRead
<1>2. Hp!Piece("E-") \in HpPieces /\ Hp!LineFeed \in HpPieces
  BY <1>1, HpPieceTypes
<1>3. text \in Seq(HpPieces) /\ Len(text) = 2
  BY <1>2
<1>4. ASSUME NEW i \in 1 .. 2 PROVE MayRead(rs, 2 - i + 1, text[i])
  <2>1. CASE i = 1
    BY <2>1, <1>1
  <2>2. CASE i = 2
    BY <2>2, <1>1
  <2> QED BY <2>1, <2>2
<1> HIDE DEF text
<1>5. HpLineRight(rs, text)
  <2>1. HpComes(rs, 2, text)
    BY <1>4 DEF HpComes
  <2> QED BY <1>3, <2>1, HpLineRights
<1> QED BY <1>5 DEF text

(* The invariant of the HP55300A holds initially. *)
LEMMA HpInitRight ==
  ASSUME Hp!Init
  PROVE  HpInv
<1>1. HpType
  <2>1. SecondsPerDay \in Nat /\ Seconds \in Nat
    BY DayAssumption, HpAssumption
  <2>2. now \in SecondsPerDay - 2 .. SecondsPerDay - 2 + Seconds
    BY <2>1 DEF Hp!Init
  <2>3. currentTime = -1 /\ <<>> \in Seq(HpPieces)
    BY DEF Hp!Init, Hp!NoTime
  <2> QED BY <2>2, <2>3 DEF Hp!Init, HpType
<1>2. line = <<>> /\ todBuffer = <<>> /\ requests = 0
  BY DEF Hp!Init
<1>3. HpLineRight(HpRs, <<>>) /\ BufferRight(HpRs, Len(<<>>), <<>>)
  BY DEF HpLineRight, HpComes, BufferRight, Starts
<1> QED BY <1>1, <1>2, <1>3 DEF HpInv

(* What is read of a line. *)
LEMMA HpRest ==
  ASSUME NEW rs, NEW text, HpLineRight(rs, text), NEW read \in 0 .. Len(text)
  PROVE  /\ HpLineRight(rs, SubSeq(text, read + 1, Len(text)))
         /\ Len(SubSeq(text, read + 1, Len(text))) = Len(text) - read
<1> DEFINE n == Len(text)
           rest == SubSeq(text, read + 1, n)
<1>1. text \in Seq(HpPieces) /\ n \in 0 .. 6 /\ read \in 0 .. n
  <2>1. text \in Seq(HpPieces) /\ n <= 6
    BY DEF HpLineRight
  <2>2. n \in Nat /\ read \in 0 .. n
    BY <2>1
  <2> HIDE DEF n
  <2> QED BY <2>1, <2>2
<1>2. /\ rest \in Seq(HpPieces) /\ Len(rest) = n - read
      /\ \A i \in 1 .. n - read : rest[i] = text[read + i]
  <2>1. read + 1 \in 1 .. n + 1 /\ n \in read .. n /\ n \in Nat /\ read \in Nat
    <3> HIDE DEF n
    <3>1. n \in Int /\ read \in Int /\ 0 <= read /\ read <= n
      BY <1>1
    <3> QED BY <3>1
  <2>2. /\ rest \in Seq(HpPieces)
        /\ Len(rest) = IF read + 1 <= n THEN n - (read + 1) + 1 ELSE 0
        /\ \A i \in 1 .. n - (read + 1) + 1 : rest[i] = text[(read + 1) + i - 1]
    <3>1. read + 1 \in 1 .. Len(text) + 1 /\ n \in (read + 1) - 1 .. Len(text)
      BY <2>1
    <3> QED BY <1>1, <3>1, SubSeqProperties
  <2> HIDE DEF n, rest
  <2>3. n - (read + 1) + 1 = n - read /\ (read + 1 > n => n - read = 0)
    BY <2>1
  <2>4. \A i \in Int : (read + 1) + i - 1 = read + i
    BY <2>1
  <2>5. Len(rest) = n - read
    BY <2>1, <2>2, <2>3
  <2>6. \A i \in 1 .. n - read : rest[i] = text[read + i]
    BY <2>2, <2>3, <2>4
  <2> QED BY <2>2, <2>5, <2>6
<1>3. ASSUME NEW i \in 1 .. n - read PROVE MayRead(rs, (n - read) - i + 1, rest[i])
  <2>1. rest[i] = text[read + i]
    BY <1>2
  <2>2. read + i \in 1 .. n /\ n - (read + i) + 1 = (n - read) - i + 1
    <3> HIDE DEF n
    <3> QED BY <1>1
  <2>3. MayRead(rs, n - (read + i) + 1, text[read + i])
    <3>1. \A k \in 1 .. n : MayRead(rs, n - k + 1, text[k])
      BY DEF HpLineRight, HpComes
    <3> HIDE DEF n
    <3> QED BY <2>2, <3>1
  <2> HIDE DEF n, rest
  <2> QED BY <2>1, <2>2, <2>3
<1>4. n - read \in 0 .. 6
  <2> HIDE DEF n
  <2> QED BY <1>1
<1> HIDE DEF rest, n
<1>5. HpLineRight(rs, rest)
  <2> DEFINE m == n - read
  <2>1. HpComes(rs, m, rest)
    BY <1>3 DEF HpComes
  <2>2. Len(rest) = m /\ m \in 0 .. 6 /\ rest \in Seq(HpPieces)
    BY <1>2, <1>4
  <2> HIDE DEF m
  <2> QED BY <2>1, <2>2, HpLineRights
<1> QED BY <1>2, <1>5 DEF rest, n

-----------------------------------------------------------------------------
(* The steps of the HP55300A. *)

(* If nothing the sketch sees changes, the promise sees a stutter. *)
LEMMA HpStutters ==
  ASSUME build = "hp", build' = "hp", UNCHANGED Hp!clockVars,
         UNCHANGED <<queried, ioInProcess, currentTime, locked, holdover, allConditionsNormal>>
  PROVE  UNCHANGED Promise!gpsVars
<1> DEFINE time == IF build = "hp" THEN Hp!NtpNow ELSE now
<1>1. time' = time
  BY HpFrame
<1> QED BY <1>1 DEF Promise!gpsVars, Promise!conditions

(* A step of the driver that brings no report is a NoReport of the promise. *)
LEMMA HpNoReports ==
  ASSUME build = "hp", build' = "hp", UNCHANGED Hp!clockVars,
         currentTime' = -1, queried' \in {queried, TRUE}, ioInProcess' \in BOOLEAN,
         ioInProcess' => ioInProcess \/ queried',
         UNCHANGED <<locked, holdover, allConditionsNormal>>
  PROVE  Promise!NoReport
<1> DEFINE time == IF build = "hp" THEN Hp!NtpNow ELSE now
<1>1. time' = time
  BY HpFrame
<1> QED BY <1>1 DEF Promise!NoReport, Promise!conditions

(* An answer of the receiver preserves the invariant, and the sketch sees *)
(* nothing of it.                                                         *)
LEMMA HpAnswers ==
  ASSUME build = "hp", build' = "hp", HpInv, Hp!Answer \/ Hp!AnswerError
  PROVE  HpInv' /\ UNCHANGED Promise!gpsVars
<1>1. /\ requests > 0 /\ requests' = requests - 1 /\ line = <<>>
      /\ UNCHANGED Hp!clockVars
      /\ UNCHANGED <<todBuffer, todOnRequest, elapsed, ioInProcess, locked, holdover,
                     allConditionsNormal, currentTime, queried>>
  BY DEF Hp!Answer, Hp!AnswerError, Hp!queryVars, Hp!conditionVars
<1>2. PICK rs : rs = HpRs
  OBVIOUS
<1>3. HpRs' = rs /\ Hp!NtpNow' = Hp!NtpNow
  BY <1>1, <1>2, HpFrame
<1>4. rs \in SUBSET HpReadings /\ queried = TRUE
  BY <1>1, <1>2, HpReadingsRight DEF HpInv, HpType
<1>5. HpLineRight(rs, line')
  <2>1. CASE Hp!AnswerError
    <3>1. line' = <<Hp!Piece("E-"), Hp!LineFeed>>
      BY <2>1 DEF Hp!AnswerError
    <3> QED BY <1>4, <3>1, HpErrors
  <2>2. CASE Hp!Answer
    <3>1. PICK valid \in BOOLEAN : line' \in Hp!Garbled(Hp!Reply(Hp!ReadingAt(now + 1, valid)))
      BY <2>2 DEF Hp!Answer
    <3>2. Hp!ReadingAt(now + 1, valid) \in rs
      BY <1>2 DEF HpRs
    <3> QED BY <1>4, <3>1, <3>2, HpReplies
  <2> QED BY <2>1, <2>2
<1>6. BufferRight(rs, Len(line'), todBuffer')
  <2>1. BufferRight(HpRs, Len(line), todBuffer) /\ Len(line) = 0
    BY <1>1 DEF HpInv
  <2>2. BufferRight(rs, 0, todBuffer')
    BY <1>1, <1>2, <2>1
  <2> QED BY <2>2, NothingLeft
<1>7. HpType'
  <2>1. /\ firstDay' = firstDay /\ now' = now
    BY <1>1 DEF Hp!clockVars
  <2>2. HpType /\ requests' \in Nat
    BY <1>1 DEF HpInv, HpType
  <2> QED BY <1>1, <1>3, <2>1, <2>2 DEF HpType
<1>8. HpInv'
  BY <1>1, <1>3, <1>4, <1>5, <1>6, <1>7, HpInvNext
<1> QED BY <1>1, <1>8, HpStutters

(* A second that passes preserves the invariant: the line is empty. *)
LEMMA HpPasses ==
  ASSUME build = "hp", build' = "hp", HpInv, Hp!SecondPasses
  PROVE  HpInv' /\ Promise!SecondPasses
<1>1. /\ now < SecondsPerDay - 2 + Seconds /\ now' = now + 1 /\ firstDay' = firstDay
      /\ line = <<>> /\ currentTime' = -1
      /\ UNCHANGED <<requests, line, todBuffer, todOnRequest, elapsed, ioInProcess, locked,
                     holdover, allConditionsNormal, queried>>
  BY DEF Hp!SecondPasses, Hp!lineVars, Hp!queryVars, Hp!conditionVars, Hp!NoTime
<1>2. HpType /\ BufferRight(HpRs, 0, todBuffer)
  BY <1>1 DEF HpInv
<1>3. PICK rs : rs = HpRs'
  OBVIOUS
<1>4. HpLineRight(rs, line') /\ Len(line') = 0 /\ line' = <<>>
  BY <1>1 DEF HpLineRight, HpComes
<1>5. BufferRight(rs, Len(line'), todBuffer')
  BY <1>1, <1>2, NothingLeft
<1>6. HpType'
  <2>1. now' \in SecondsPerDay - 2 .. SecondsPerDay - 2 + Seconds
    BY <1>1, <1>2, DayAssumption, HpAssumption DEF HpType
  <2> QED BY <1>1, <1>2, <2>1 DEF HpType
<1>7. HpInv'
  <2>1. requests' > 0 \/ line' # <<>> => queried'
    BY <1>1 DEF HpInv
  <2> QED BY <1>3, <1>4, <1>5, <1>6, <2>1, HpInvNext
<1>8. Hp!NtpNow' = Hp!NtpNow + 1
  <2> DEFINE X == Hp!DaysBefore(firstDay) * SecondsPerDay
  <2>1. X \in Int
    BY <1>2, HpSecondsCounted DEF HpType
  <2>2. Hp!NtpNow' = X + now' /\ Hp!NtpNow = X + now
    BY <1>1, Zenon DEF Hp!NtpNow
  <2>3. now \in Int
    BY <1>2, DayAssumption, HpAssumption DEF HpType
  <2> HIDE DEF X
  <2> QED BY <1>1, <2>1, <2>2, <2>3
<1>9. Promise!SecondPasses
  BY <1>1, <1>8 DEF Promise!SecondPasses, Promise!conditions
<1> QED BY <1>7, <1>9

(* A timeout and a query preserve the invariant. *)
LEMMA HpQueries ==
  ASSUME build = "hp", build' = "hp", HpInv, Hp!Elapse \/ Hp!RequestTimeOfDay
  PROVE  HpInv' /\ Promise!NoReport
<1>1. /\ UNCHANGED Hp!clockVars
      /\ UNCHANGED <<line, locked, holdover, allConditionsNormal>>
      /\ requests' \in {requests, 1} /\ queried' \in {queried, TRUE}
      /\ (requests' = requests /\ queried' = queried) \/ queried' = TRUE
      /\ todBuffer' \in {todBuffer, <<>>}
      /\ todOnRequest' \in {todOnRequest, TRUE} /\ elapsed' \in BOOLEAN
      /\ ioInProcess' \in {ioInProcess, TRUE}
      /\ ioInProcess' = ioInProcess \/ queried' = TRUE
      /\ currentTime' = -1
  BY DEF Hp!Elapse, Hp!RequestTimeOfDay, Hp!lineVars, Hp!queryVars, Hp!conditionVars, Hp!clockVars,
         Hp!NoTime
<1>2. HpType
  BY DEF HpInv
<1>3. PICK rs : rs = HpRs
  OBVIOUS
<1>4. HpRs' = rs /\ Hp!NtpNow' = Hp!NtpNow
  BY <1>1, <1>3, HpFrame
<1>5. HpLineRight(rs, line')
  BY <1>1, <1>3 DEF HpInv
<1>6. BufferRight(rs, Len(line'), todBuffer')
  <2>1. BufferRight(rs, Len(line'), todBuffer)
    BY <1>1, <1>3 DEF HpInv
  <2>2. BufferRight(rs, Len(line'), <<>>)
    BY DEF BufferRight, Starts
  <2> QED BY <1>1, <2>1, <2>2
<1>7. HpType'
  <2>1. /\ firstDay' = firstDay /\ now' = now
    BY <1>1 DEF Hp!clockVars
  <2>2. todBuffer' \in Seq(HpPieces)
    <3>1. <<>> \in Seq(HpPieces)
      OBVIOUS
    <3> QED BY <1>1, <1>2, <3>1 DEF HpType
  <2>3. /\ requests' \in Nat /\ todOnRequest' \in BOOLEAN /\ elapsed' \in BOOLEAN
        /\ ioInProcess' \in BOOLEAN /\ queried' \in BOOLEAN /\ currentTime' = -1
        /\ locked' = TRUE /\ holdover' = FALSE /\ allConditionsNormal' = TRUE
    <3>1. /\ requests \in Nat /\ todOnRequest \in BOOLEAN /\ ioInProcess \in BOOLEAN
          /\ queried \in BOOLEAN
          /\ locked = TRUE /\ holdover = FALSE /\ allConditionsNormal = TRUE
      BY <1>2 DEF HpType
    <3>2. requests' \in Nat
      BY <1>1, <3>1
    <3> QED BY <1>1, <3>1, <3>2, Zenon
  <2>4. /\ firstDay' \in FirstDays
        /\ now' \in SecondsPerDay - 2 .. SecondsPerDay - 2 + Seconds
    BY <1>2, <2>1 DEF HpType
  <2> QED BY <2>2, <2>3, <2>4, Zenon DEF HpType
<1>8. HpInv'
  <2>1. requests' > 0 \/ line' # <<>> => queried'
    <3>1. requests > 0 \/ line # <<>> => queried
      BY DEF HpInv
    <3>2. queried \in BOOLEAN
      BY <1>2 DEF HpType
    <3>3. CASE queried' = TRUE
      BY <3>3, Zenon
    <3>4. CASE requests' = requests /\ queried' = queried
      BY <1>1, <3>1, <3>4, Zenon
    <3> QED BY <1>1, <3>3, <3>4
  <2> QED BY <1>4, <1>5, <1>6, <1>7, <2>1, HpInvNext
<1>9. /\ ioInProcess' \in BOOLEAN
      /\ ioInProcess' => ioInProcess \/ queried'
  BY <1>1, <1>2 DEF HpType
<1> QED BY <1>1, <1>8, <1>9, HpNoReports

(* What is available of a line comes in the order of a reply. *)
LEMMA HpAvailable ==
  ASSUME NEW rs, HpLineRight(rs, line), NEW text \in Hp!Available
  PROVE  /\ text \in Seq(HpPieces) /\ Len(text) <= Len(line)
         /\ \A i \in 1 .. Len(text) : MayRead(rs, Len(line) - i + 1, text[i])
<1>1. line \in Seq(HpPieces) /\ \A i \in 1 .. Len(line) : MayRead(rs, Len(line) - i + 1, line[i])
  BY DEF HpLineRight, HpComes
<1>2. CASE text = line
  BY <1>1, <1>2
<1>3. CASE text = <<>>
  BY <1>1, <1>3
<1>4. CASE line # <<>> /\ text = <<Head(line)>>
  <2>1. Head(line) = line[1] /\ line[1] \in HpPieces /\ Len(line) >= 1 /\ Len(line) \in Nat
    BY <1>1, <1>4
  <2>2. text \in Seq(HpPieces) /\ Len(text) = 1 /\ text[1] = line[1]
    BY <1>4, <2>1
  <2>3. \A i \in 1 .. 1 : MayRead(rs, Len(line) - i + 1, text[i])
    BY <1>1, <2>1, <2>2
  <2> HIDE <1>4
  <2> QED BY <2>1, <2>2, <2>3
<1> QED BY <1>2, <1>3, <1>4 DEF Hp!Available

(* Reading a reply preserves the invariant: a time it brings is the current *)
(* second.                                                                  *)
LEMMA HpReads ==
  ASSUME build = "hp", build' = "hp", HpInv, Hp!ReadReply
  PROVE  HpInv' /\ (Promise!NoReport \/ Promise!Report)
<1>1. PICK text \in Hp!Available : \E input \in {Hp!GetTodReply(text)} :
        /\ line' = SubSeq(line, input.read + 1, Len(line))
        /\ todBuffer' = input.buffer
        /\ todOnRequest' = input.onRequest /\ elapsed' = input.elapsed /\ ioInProcess' = input.io
        /\ IF ~input.reading.valid
             THEN currentTime' = Hp!NoTime /\ UNCHANGED Hp!conditionVars
             ELSE /\ currentTime' = Hp!TimeNow(input.reading)
                  /\ holdover' = FALSE /\ allConditionsNormal' = TRUE
                  /\ UNCHANGED locked
  BY DEF Hp!ReadReply
<1> DEFINE input == Hp!GetTodReply(text)
           n == Len(line)
<1>2. /\ line' = SubSeq(line, input.read + 1, n)
      /\ todBuffer' = input.buffer
      /\ todOnRequest' = input.onRequest /\ elapsed' = input.elapsed /\ ioInProcess' = input.io
  BY <1>1
<1>3. IF ~input.reading.valid
        THEN currentTime' = Hp!NoTime /\ UNCHANGED Hp!conditionVars
        ELSE /\ currentTime' = Hp!TimeNow(input.reading)
             /\ holdover' = FALSE /\ allConditionsNormal' = TRUE
             /\ UNCHANGED locked
  BY <1>1
<1>4. UNCHANGED Hp!clockVars /\ UNCHANGED <<requests, queried>>
  BY DEF Hp!ReadReply
<1>5. PICK rs : rs = HpRs
  OBVIOUS
<1>6. HpRs' = rs /\ Hp!NtpNow' = Hp!NtpNow
  BY <1>4, <1>5, HpFrame
<1>7. /\ HpType /\ HpLineRight(rs, line) /\ BufferRight(rs, n, todBuffer)
      /\ rs \in SUBSET HpReadings /\ \A reading \in rs : Hp!TimeNow(reading) = Hp!NtpNow
  BY <1>5, HpReadingsRight DEF HpInv
<1>8. input \in HpRight(rs, n, Len(text))
  <2>1. Hp!NoReading \in HpReadings
    BY DEF Hp!NoReading, HpReadings
  <2>2. Hp!Start \in HpInputs
    BY <1>7, <2>1 DEF Hp!Start, HpInputs, HpType
  <2>3. n \in 0 .. 6
    <3>1. n \in Nat /\ n <= 6
      BY <1>7 DEF HpLineRight
    <3> HIDE DEF n
    <3> QED BY <3>1
  <2>4. /\ text \in Seq(HpPieces) /\ Len(text) <= n
        /\ \A i \in 1 .. Len(text) : MayRead(rs, n - i + 1, text[i])
    BY <1>7, HpAvailable
  <2> HIDE DEF n
  <2> QED BY <1>7, <2>2, <2>3, <2>4, HpReply
<1> HIDE DEF input
<1>9. /\ input \in HpInputs /\ input.read \in 0 .. Len(text)
      /\ input.io => ioInProcess
      /\ input.reading \in {Hp!NoReading} \cup rs
      /\ input.read = 0 => input.reading = Hp!NoReading
      /\ BufferRight(rs, n - input.read, input.buffer)
  BY <1>8 DEF HpRight
<1>10. input.read \in 0 .. n
  <2>1. text \in Seq(HpPieces) /\ Len(text) <= n /\ n \in Nat
    <3>1. line \in Seq(HpPieces)
      BY <1>7 DEF HpLineRight
    <3> QED BY <1>7, <3>1, HpAvailable
  <2> DEFINE m == Len(text)
             r == input.read
  <2>2. m \in Nat /\ m <= n /\ n \in Nat /\ r \in 0 .. m
    BY <2>1, <1>9
  <2> HIDE DEF m, r, n
  <2>3. r \in 0 .. n
    BY <2>2
  <2> QED BY <2>3 DEF r
<1>11. HpLineRight(rs, line') /\ Len(line') = n - input.read
  BY <1>2, <1>7, <1>10, HpRest
<1>12. BufferRight(rs, Len(line'), todBuffer')
  BY <1>2, <1>9, <1>11
<1>13. requests' > 0 \/ line' # <<>> => queried'
  <2>1. line = <<>> => line' = <<>>
    <3>1. line = <<>> => n - input.read = 0
      BY <1>10
    <3>2. line' \in Seq(HpPieces)
      BY <1>11 DEF HpLineRight
    <3> QED BY <1>11, <3>1, <3>2
  <2>2. requests > 0 \/ line # <<>> => queried
    BY DEF HpInv
  <2> QED BY <1>4, <2>1, <2>2, Zenon
<1>14. /\ requests' \in Nat /\ todBuffer' \in Seq(HpPieces) /\ todOnRequest' \in BOOLEAN
       /\ elapsed' \in BOOLEAN /\ ioInProcess' \in BOOLEAN /\ queried' \in BOOLEAN
       /\ firstDay' \in FirstDays
       /\ now' \in SecondsPerDay - 2 .. SecondsPerDay - 2 + Seconds
  <2>1. /\ input.buffer \in Seq(HpPieces) /\ input.onRequest \in BOOLEAN
        /\ input.elapsed \in BOOLEAN /\ input.io \in BOOLEAN
    BY <1>9 DEF HpInputs
  <2> QED BY <1>2, <1>4, <1>7, <2>1, Zenon DEF HpType, Hp!clockVars
<1>15. ASSUME currentTime' \in {-1, Hp!NtpNow}, locked' = TRUE, holdover' = FALSE,
              allConditionsNormal' = TRUE
       PROVE  HpInv'
  <2>1. HpType'
    BY <1>6, <1>14, <1>15, Zenon DEF HpType
  <2> QED BY <1>6, <1>11, <1>12, <1>13, <2>1, HpInvNext
<1>16. /\ locked = TRUE /\ holdover = FALSE /\ allConditionsNormal = TRUE
       /\ queried \in BOOLEAN
  BY <1>7 DEF HpType
<1>17. CASE ~input.reading.valid
  <2>1. /\ currentTime' = -1
        /\ UNCHANGED <<locked, holdover, allConditionsNormal>>
    BY <1>3, <1>17 DEF Hp!conditionVars, Hp!NoTime
  <2>2. HpInv'
    BY <1>15, <1>16, <2>1
  <2>3. /\ queried' \in {queried, TRUE} /\ ioInProcess' \in BOOLEAN
        /\ ioInProcess' => ioInProcess \/ queried'
    BY <1>2, <1>4, <1>9, <1>14, Zenon
  <2>4. Promise!NoReport
    BY <1>4, <2>1, <2>3, HpNoReports
  <2> QED BY <2>2, <2>4
<1>18. CASE input.reading.valid
  <2>1. input.reading # Hp!NoReading
    BY <1>18 DEF Hp!NoReading
  <2>2. input.reading \in rs /\ input.read # 0
    BY <1>9, <2>1
  <2>3. /\ currentTime' = Hp!NtpNow /\ locked' = TRUE /\ holdover' = FALSE
        /\ allConditionsNormal' = TRUE
    BY <1>3, <1>7, <1>16, <1>18, <2>2
  <2>4. HpInv'
    BY <1>15, <2>3
  <2>5. line # <<>>
    BY <1>10, <2>2
  <2>6. queried
    BY <2>5 DEF HpInv
  <2>7. UNCHANGED queried
    BY <1>4
  <2> DEFINE time == IF build = "hp" THEN Hp!NtpNow ELSE now
  <2>8. time' = time /\ time = Hp!NtpNow
    BY <1>6
  <2>9. Promise!Consistent'
    BY <2>3 DEF Promise!Consistent
  <2>10. Promise!Report
    <3> HIDE DEF time
    <3>1. /\ queried /\ currentTime' \in {-1, time}
          /\ locked' \in BOOLEAN /\ holdover' \in BOOLEAN /\ allConditionsNormal' \in BOOLEAN
          /\ ioInProcess' \in BOOLEAN
          /\ time' = time /\ UNCHANGED queried
      BY <1>14, <2>3, <2>6, <2>7, <2>8
    <3> QED BY <3>1, <2>9, Zenon DEF Promise!Report, time
  <2> QED BY <2>4, <2>10
<1> QED BY <1>17, <1>18

(* Every step of the HP55300A preserves the invariant and keeps the promise. *)
LEMMA HpSteps ==
  ASSUME build = "hp", build' = "hp", HpInv, Hp!Next
  PROVE  HpInv' /\ (Promise!GpsNext \/ UNCHANGED Promise!gpsVars)
BY HpAnswers, HpPasses, HpQueries, HpReads DEF Hp!Next, Hp!Step, Promise!GpsNext

-----------------------------------------------------------------------------
(* The ICM SMT 360: a packet of eight bytes that starts like a PTI has the    *)
(* seconds and minutes that were sent, whichever byte was lost. The invariant *)
(* says, byte by byte of a packet, what the buffer may look like when the     *)
(* byte is next: only its length, its last byte, whether it begins like a     *)
(* PTI, and the parity of the SOMs matter.                                    *)

(* The bytes of a packet after its id, none of which begins an id. *)
Safe == Icm!Byte \ {143, 171}
(* The second bytes of the ids of the messages the receiver sends; 171 is the *)
(* PTI.                                                                       *)
Ids  == {162, 165, 166, 168, 171, 172}

(* (A name of its own, for the provers.) *)
Size(b) == Len(b)

(* The last byte; a buffer of one byte that begins like an id; one that *)
(* begins like a PTI.                                                   *)
End(b)  == b[Len(b)]
Half(b) == Size(b) = 1 /\ b[1] = 143
Pti(b)  == Size(b) >= 2 /\ b[1] = 143 /\ b[2] = 171

(* A byte before what follows, and a byte that may be gone. *)
Put(byte, rest) == <<byte>> \o rest

Unless(gone, byte, rest) == IF gone THEN rest ELSE Put(byte, rest)

(* The seconds and minutes of the time in a PTI. *)
Second(time) == (time - 1) % 60
Minute(time) == (time - 1) \div 60

(* before a packet *)
Before(b, odd) ==
  /\ ~Half(b)
  /\ Pti(b) => Icm!Full(b) \/ Size(b) >= 7 \/ (Size(b) = 6 /\ (End(b) = 16 <=> odd = 1))

(* After the SOM, of which the l-th byte of the packet was lost (none if l = *)
(* 0).                                                                       *)
After1(b, odd, l) ==
  /\ ~Half(b)
  /\ Pti(b) =>
       \/ Icm!Full(b) \/ Size(b) >= 7
       \/ Size(b) = 6 /\ (End(b) = 16 <=> odd = 1) /\ l = 1
       \/ Size(b) = 6 /\ End(b) = 16 /\ odd = 0 /\ l # 1

(* After the first byte of the id. *)
After2(b, odd, l) ==
  /\ Half(b) => odd = 0 /\ l # 2
  /\ Pti(b) =>
       \/ Icm!Full(b) \/ Size(b) >= 8
       \/ l = 1 /\ Size(b) = 7
       \/ l = 2 /\ (Size(b) = 7 \/ (Size(b) = 6 /\ odd = 0))
       \/ Size(b) = 7 /\ odd = 0 /\ End(b) = 143

(* What is left of a packet after its SOM, after that, and from its SOM on. *)
Line1(l, x, rest) == Unless(l = 2, 143, Unless(l = 3, x, rest))
Line2(l, x, rest) == Unless(l = 3, x, rest)
Line0(l, x, rest) == Unless(l = 1, 16, Line1(l, x, rest))

(* A buffer out of which no PTI is made, whatever safe bytes follow. *)
Spoilt(rest, b, odd) ==
  /\ Half(b) => rest # <<>>
  /\ Pti(b) => \/ Icm!Full(b) \/ Size(b) >= 8
               \/ Size(b) = 7 /\ odd = 0 /\ End(b) # 16

(* What is left of a PTI, from its tenth byte to its third, if the j-th was *)
(* lost.                                                                    *)
R10(s, m, j, f) == Unless(j = 11, 3, <<>>)
R9(s, m, j, f) == Unless(j = 10, 16, R10(s, m, j, f))
R8(s, m, j, f) == Unless(j = 9, 0, R9(s, m, j, f))
R7(s, m, j, f) == Unless(j = 8 \/ m # 16, 16, R8(s, m, j, f))
R6(s, m, j, f) == Unless(j = 7, m, R7(s, m, j, f))
R5(s, m, j, f) == Unless(j = 6 \/ s # 16, 16, R6(s, m, j, f))
R4(s, m, j, f) == Unless(j = 5, s, R5(s, m, j, f))
R3(s, m, j, f) == Unless(j = 4, f, R4(s, m, j, f))

(* The length of the buffer and the parity of the SOMs, which depend on the *)
(* doubled SOMs.                                                            *)
Bit(p) == IF p THEN 1 ELSE 0
N6(s, j) == IF j = 4 \/ (j = 5 /\ s # 16) THEN 3 ELSE 4
S6(s, j) == Bit(s = 16 /\ j \in {5, 6})
N8(s, m, j) == N6(s, j) + Bit(~(s = 16 /\ m = 16) /\ ~(j = 7 /\ m # 16))
S8(s, m, j) == Bit((s = 16 /\ j \in {5, 6}) \/ (m = 16 /\ j \in {7, 8}))

(* What the buffer is like when the third byte of a PTI is next, and so on to *)
(* its tenth.                                                                 *)
F3(s, m, j, b, odd) == Size(b) = 2 /\ odd = 0
F4(s, m, j, b, odd) == Size(b) = 3 - Bit(j = 4) /\ odd = 0 /\ End(b) # 16
F5(s, m, j, b, odd) ==
  /\ Size(b) = 4 - Bit(j \in {4, 5}) /\ (Size(b) = 4 => b[4] = s)
  /\ odd = Bit(s = 16 /\ j # 5) /\ (End(b) = 16 <=> s = 16 /\ j # 5)
F6(s, m, j, b, odd) ==
  /\ Size(b) = N6(s, j) /\ (Size(b) = 4 => b[4] = s)
  /\ odd = S6(s, j) /\ (End(b) = 16 <=> s = 16)
F7(s, m, j, b, odd) ==
  /\ Size(b) = N6(s, j) + Bit(j # 7 /\ ~(s = 16 /\ m = 16))
  /\ N6(s, j) = 4 => b[4] = s
  /\ Size(b) = 5 => b[5] = m
  /\ odd = Bit((s = 16 /\ j \in {5, 6}) # (m = 16 /\ j # 7))
  /\ End(b) = 16 <=> (j = 7 /\ s = 16) \/ (j # 7 /\ m = 16)
F8(s, m, j, b, odd) ==
  /\ Size(b) = N8(s, m, j)
  /\ Size(b) = 5 => b[4] = s /\ b[5] = m
  /\ odd = S8(s, m, j)
  /\ End(b) = 16 <=> m = 16 \/ (s = 16 /\ j = 7)
F9(s, m, j, b, odd) ==
  /\ Size(b) = N8(s, m, j) + Bit(j # 9)
  /\ Size(b) = 6 => b[4] = s /\ b[5] = m
  /\ odd = S8(s, m, j)
  /\ End(b) = 16 <=> j = 9 /\ m = 16
F10(s, m, j, b, odd) ==
  /\ Size(b) = N8(s, m, j) + Bit(j # 9) + Bit(j # 10 /\ ~(j = 9 /\ m = 16))
  /\ Size(b) = 7 => b[4] = s /\ b[5] = m
  /\ odd = IF j = 10 THEN 0 ELSE 1 - S8(s, m, j)
  /\ End(b) = 16 <=> j # 10

(* A PTI of which the id was read. *)
Fresh(s, m, j, f, rest, b, odd) ==
  /\ Pti(b)
  /\ \/ rest = R3(s, m, j, f) /\ F3(s, m, j, b, odd)
     \/ rest = R4(s, m, j, f) /\ F4(s, m, j, b, odd)
     \/ rest = R5(s, m, j, f) /\ F5(s, m, j, b, odd)
     \/ rest = R6(s, m, j, f) /\ F6(s, m, j, b, odd)
     \/ rest = R7(s, m, j, f) /\ F7(s, m, j, b, odd)
     \/ rest = R8(s, m, j, f) /\ F8(s, m, j, b, odd)
     \/ rest = R9(s, m, j, f) /\ F9(s, m, j, b, odd)
     \/ rest = R10(s, m, j, f) /\ F10(s, m, j, b, odd)

(* A byte is taken: added, unless it is a SOM after a SOM.  While the driver *)
(* hunts the buffer stays empty.                                             *)
Taken(b, odd, c, b2, odd2) ==
  \/ b = <<>> /\ b2 = <<>> /\ odd2 = odd
  \/ /\ IF c = 16 /\ b # <<>> /\ End(b) = 16 THEN b2 = b ELSE b2 = Append(b, c)
     /\ odd2 = IF c = 16 THEN 1 - odd ELSE odd

(* The buffers; one that is nothing yet; what a byte does to one that is not. *)
Buffers == Seq(Icm!Byte)

Empty(b) == ~Pti(b) /\ ~Half(b)

Dropped(b, odd, c, b2, odd2) ==
  /\ c = 16 /\ odd2 = 1 - odd
  /\ End(b) = 16 /\ End(b2) = 16 /\ Size(b2) = Size(b) /\ b2[4] = b[4] /\ b2[5] = b[5]
  /\ (Pti(b2) <=> Pti(b)) /\ ~Half(b) /\ ~Half(b2)

Added(b, odd, c, b2, odd2) ==
  /\ c # 16 \/ Size(b) = 0 \/ End(b) # 16
  /\ odd2 = (IF c = 16 THEN 1 - odd ELSE odd)
  /\ Size(b2) = Size(b) + 1 /\ End(b2) = c
  /\ Pti(b2) <=> Pti(b) \/ (Half(b) /\ c = 171)
  /\ Half(b2) => c = 143 /\ Size(b) = 0
  /\ Size(b) >= 4 => b2[4] = b[4]
  /\ Size(b) >= 5 => b2[5] = b[5]
  /\ Size(b) = 3 => b2[4] = c
  /\ Size(b) = 4 => b2[5] = c

(* What taking a byte does to all that the invariant looks at. *)
Took(b, odd, c, b2, odd2) ==
  /\ b2 \in Buffers /\ odd2 \in 0 .. 1 /\ Size(b) \in Nat /\ Size(b2) \in Nat
  /\ Pti(b) => Size(b) >= 2 /\ ~Half(b)
  /\ Half(b) => Size(b) = 1
  /\ Pti(b2) => Size(b2) >= 2 /\ ~Half(b2)
  /\ \/ Empty(b) /\ Empty(b2) /\ Size(b) = 0 /\ Size(b2) = 0 /\ odd2 = odd
     \/ Dropped(b, odd, c, b2, odd2)
     \/ Added(b, odd, c, b2, odd2)

(* What a byte that is taken does to what the invariant looks at. *)
LEMMA ByteTaken ==
  ASSUME NEW b \in Buffers, NEW odd \in 0 .. 1, NEW c \in Icm!Byte, NEW b2, NEW odd2,
         Taken(b, odd, c, b2, odd2)
  PROVE  Took(b, odd, c, b2, odd2)
<1>1. Len(b) \in Nat /\ (b = <<>> <=> Len(b) = 0)
  BY DEF Buffers
<1>2. (Pti(b) => Len(b) >= 2 /\ ~Half(b)) /\ (Half(b) => Len(b) = 1)
  BY <1>1 DEF Pti, Half, Size
<1>3. CASE b = <<>> /\ b2 = <<>> /\ odd2 = odd
  BY <1>1, <1>3 DEF Took, Empty, Size, Pti, Half, Buffers
<1>4. odd2 \in 0 .. 1
  BY DEF Taken
<1>5. CASE /\ c = 16 /\ b # <<>> /\ End(b) = 16 /\ b2 = b
           /\ odd2 = 1 - odd
  <2>1. ~Half(b)
    BY <1>5 DEF Half, End, Size
  <2> QED BY <1>1, <1>2, <1>4, <1>5, <2>1 DEF Took, Dropped, Size
<1>6. CASE /\ ~(c = 16 /\ b # <<>> /\ End(b) = 16) /\ b2 = Append(b, c)
           /\ odd2 = IF c = 16 THEN 1 - odd ELSE odd
  <2>1. /\ b2 \in Buffers /\ Len(b2) = Len(b) + 1
        /\ \A i \in 1 .. Len(b) : b2[i] = b[i]
        /\ b2[Len(b) + 1] = c
    BY <1>6, AppendProperties DEF Buffers
  <2> DEFINE n == Len(b)
  <2>2. /\ n \in Nat /\ Len(b2) = n + 1 /\ Len(b2) \in Nat
        /\ \A i \in 1 .. n : b2[i] = b[i]
        /\ b2[n + 1] = c
    BY <1>1, <2>1
  <2>3. /\ n >= 1 => b2[1] = b[1]
        /\ n >= 2 => b2[2] = b[2]
        /\ n >= 4 => b2[4] = b[4]
        /\ n >= 5 => b2[5] = b[5]
        /\ n = 0 => b2[1] = c
        /\ n = 1 => b2[2] = c
        /\ n = 3 => b2[4] = c
        /\ n = 4 => b2[5] = c
    <3> HIDE DEF n
    <3> QED BY <2>2
  <2>4. End(b2) = c
    BY <2>1 DEF End
  <2>5. Half(b2) => c = 143 /\ n = 0
    <3>1. (n + 1 = 1 /\ b2[1] = 143) => c = 143 /\ n = 0
      <4> HIDE DEF n
      <4> QED BY <2>2, <2>3
    <3> HIDE DEF n
    <3> QED BY <2>2, <3>1 DEF Half, Size
  <2>6. Pti(b2) <=> Pti(b) \/ (Half(b) /\ c = 171)
    <3>1. (n + 1 >= 2 /\ b2[1] = 143 /\ b2[2] = 171)
            <=> (n >= 2 /\ b[1] = 143 /\ b[2] = 171) \/ (n = 1 /\ b[1] = 143 /\ c = 171)
      <4> HIDE DEF n
      <4>1. CASE n = 0
        BY <4>1
      <4>2. CASE n = 1
        BY <4>2, <2>3
      <4>3. CASE n >= 2
        BY <2>2, <4>3, <2>3
      <4> QED BY <2>2, <4>1, <4>2, <4>3
    <3> QED BY <2>2, <3>1 DEF Half, Pti, Size
  <2>7. c # 16 \/ Len(b) = 0 \/ End(b) # 16
    BY <1>1, <1>6
  <2>8. Added(b, odd, c, b2, odd2)
    <3> HIDE <1>6
    <3>1. odd2 = (IF c = 16 THEN 1 - odd ELSE odd)
      BY <1>6
    <3> QED BY <2>1, <2>3, <2>4, <2>5, <2>6, <2>7, <3>1 DEF Added, Size
  <2>9. Pti(b2) => Len(b2) >= 2 /\ ~Half(b2)
    BY <2>2 DEF Pti, Half, Size
  <2> QED BY <1>1, <1>2, <1>4, <2>1, <2>2, <2>8, <2>9 DEF Took, Size
<1> HIDE DEF Buffers
<1>7. CASE /\ IF c = 16 /\ b # <<>> /\ End(b) = 16 THEN b2 = b ELSE b2 = Append(b, c)
           /\ odd2 = IF c = 16 THEN 1 - odd ELSE odd
  <2>1. CASE c = 16 /\ b # <<>> /\ End(b) = 16
    <3>1. b2 = b /\ odd2 = 1 - odd
      BY <1>7, <2>1
    <3> QED BY <1>5, <2>1, <3>1
  <2>2. CASE ~(c = 16 /\ b # <<>> /\ End(b) = 16)
    <3>1. b2 = Append(b, c)
      BY <1>7, <2>2
    <3> QED BY <1>6, <1>7, <2>2, <3>1, Zenon
  <2> QED BY <2>1, <2>2
<1> QED BY <1>3, <1>7, Zenon DEF Taken

(* Reading the SOM of a packet. *)
LEMMA SomRead ==
  ASSUME NEW b, NEW odd \in 0 .. 1, NEW b2, NEW odd2, NEW l,
         Took(b, odd, 16, b2, odd2), Before(b, odd), ~Icm!Full(b), l # 1
  PROVE  After1(b2, odd2, l)
BY DEF Took, Dropped, Added, Empty, Before, After1

(* Reading the first byte of the id of a packet. *)
LEMMA HeaderRead ==
  ASSUME NEW b, NEW odd \in 0 .. 1, NEW b2, NEW odd2, NEW l,
         Took(b, odd, 143, b2, odd2), After1(b, odd, l), ~Icm!Full(b), l # 2,
         Size(b) = 0 => odd = 0
  PROVE  After2(b2, odd2, l)
BY DEF Took, Dropped, Added, Empty, After1, After2

(* After the id of a packet: a PTI, or nothing that becomes one. *)
PtiRead(x, rest, b2, odd2) ==
  Spoilt(rest, b2, odd2) \/ (x = 171 /\ Pti(b2) /\ Size(b2) = 2 /\ odd2 = 0)

(* Reading the second byte: the buffer begins like a PTI now, or is of no use *)
(* for one.                                                                   *)
LEMMA IdRead ==
  ASSUME NEW b, NEW odd \in 0 .. 1, NEW b2, NEW odd2, NEW l \in 0 .. 3, NEW x \in Ids,
         Took(b, odd, x, b2, odd2), After2(b, odd, l), ~Icm!Full(b), l # 3, NEW rest
  PROVE  PtiRead(x, rest, b2, odd2)
BY DEF PtiRead, Took, Dropped, Added, Empty, After2, Spoilt, Ids, F3

(* A buffer that is of no use for a PTI stays so. *)
LEMMA SpoiltRead ==
  ASSUME NEW b, NEW odd \in 0 .. 1, NEW b2, NEW odd2, NEW c \in Safe,
         Took(b, odd, c, b2, odd2), NEW line0, Spoilt(line0, b, odd), ~Icm!Full(b), NEW rest
  PROVE  /\ Spoilt(rest, b2, odd2)
         /\ (c = 3 /\ odd = 1) => ~(Pti(b2) /\ Size(b2) = 8)
BY DEF Took, Dropped, Added, Empty, Spoilt, Safe

(* Where the SOM or the first byte of the id was lost, nothing is read. *)
LEMMA HeaderLost ==
  ASSUME NEW b, NEW odd, Size(b) \in Nat
  PROVE  /\ Before(b, odd) => After1(b, odd, 1)
         /\ After1(b, odd, 2) => After2(b, odd, 2)
BY DEF Before, After1, After2

(* Where the second byte of the id was lost, the buffer is of no use for a *)
(* PTI.                                                                    *)
LEMMA IdLost ==
  ASSUME NEW b, NEW odd, NEW rest, Size(b) \in Nat, rest # <<>>, After2(b, odd, 3)
  PROVE  Spoilt(rest, b, odd)
BY DEF After2, Spoilt

(* A buffer of no use for a PTI, and nothing left to read, is one before a *)
(* packet.                                                                 *)
LEMMA NothingSpoilt ==
  ASSUME NEW b, NEW odd \in 0 .. 1, Size(b) \in Nat, Spoilt(<<>>, b, odd)
  PROVE  Before(b, odd)
BY DEF Spoilt, Before

(* Where the flag would come but was lost, the buffer is right for what comes *)
(* next.                                                                      *)
LEMMA Skip3 ==
  ASSUME NEW s \in 0 .. 59, NEW m \in 0 .. 59, NEW j \in 4 .. 12, NEW b, NEW odd,
         Pti(b), F3(s, m, j, b, odd), j = 4
  PROVE  F4(s, m, j, b, odd)
<1>1. End(b) = 171
  BY DEF F3, Pti, End, Size
<1> QED BY <1>1 DEF F3, F4, Bit

(* Where the seconds would come but was lost, the buffer is right for what *)
(* comes next.                                                             *)
LEMMA Skip4 ==
  ASSUME NEW s \in 0 .. 59, NEW m \in 0 .. 59, NEW j \in 4 .. 12, NEW b, NEW odd,
         F4(s, m, j, b, odd), j = 5
  PROVE  F5(s, m, j, b, odd)
BY DEF F4, F5, Bit

(* Where the SOM after seconds of 16 would come but was lost, the buffer is *)
(* right for what comes next.                                               *)
LEMMA Skip5 ==
  ASSUME NEW s \in 0 .. 59, NEW m \in 0 .. 59, NEW j \in 4 .. 12, NEW b, NEW odd,
         F5(s, m, j, b, odd), j = 6 \/ s # 16
  PROVE  F6(s, m, j, b, odd)
BY DEF F5, F6, N6, S6, Bit

(* Where the minutes would come but was lost, the buffer is right for what *)
(* comes next.                                                             *)
LEMMA Skip6 ==
  ASSUME NEW s \in 0 .. 59, NEW m \in 0 .. 59, NEW j \in 4 .. 12, NEW b, NEW odd,
         F6(s, m, j, b, odd), j = 7
  PROVE  F7(s, m, j, b, odd)
BY DEF F6, N6, S6, F7, Bit

(* Where the SOM after minutes of 16 would come but was lost, the buffer is *)
(* right for what comes next.                                               *)
LEMMA Skip7 ==
  ASSUME NEW s \in 0 .. 59, NEW m \in 0 .. 59, NEW j \in 4 .. 12, NEW b, NEW odd,
         F7(s, m, j, b, odd), j = 8 \/ m # 16
  PROVE  F8(s, m, j, b, odd)
BY DEF F7, N6, F8, N8, S8, Bit

(* Where the hours would come but was lost, the buffer is right for what *)
(* comes next.                                                           *)
LEMMA Skip8 ==
  ASSUME NEW s \in 0 .. 59, NEW m \in 0 .. 59, NEW j \in 4 .. 12, NEW b, NEW odd,
         F8(s, m, j, b, odd), j = 9
  PROVE  F9(s, m, j, b, odd)
BY DEF F8, N8, N6, S8, F9, Bit

(* Where the trailing SOM would come but was lost, the buffer is right for *)
(* what comes next.                                                        *)
LEMMA Skip9 ==
  ASSUME NEW s \in 0 .. 59, NEW m \in 0 .. 59, NEW j \in 4 .. 12, NEW b, NEW odd,
         F9(s, m, j, b, odd), j = 10
  PROVE  F10(s, m, j, b, odd)
BY DEF F9, N8, N6, S8, F10, Bit

(* Too long for a PTI at the next end. *)
Long(b, odd) == Size(b) >= 7 \/ (Size(b) = 6 /\ (End(b) = 16 <=> odd = 1))

(* Where the EOM was lost, the buffer is too long for a PTI. *)
LEMMA Skip10 ==
  ASSUME NEW s \in 0 .. 59, NEW m \in 0 .. 59, NEW j \in 4 .. 12, NEW b, NEW odd,
         F10(s, m, j, b, odd), j = 11
  PROVE  Long(b, odd)
BY DEF Long, F10, N8, N6, S8, Bit

(* Reading the flag of a PTI leaves the buffer right for what comes next. *)
LEMMA Read3 ==
  ASSUME NEW s \in 0 .. 59, NEW m \in 0 .. 59, NEW j \in 4 .. 12, NEW b, NEW odd \in 0 .. 1,
         NEW b2, NEW odd2, NEW f \in {1, 3}, Pti(b), Took(b, odd, f, b2, odd2),
         F3(s, m, j, b, odd), ~(j = 4)
  PROVE  Pti(b2) /\ F4(s, m, j, b2, odd2)
BY DEF Took, Dropped, Added, Empty, F3, F4, Bit

(* Reading the seconds of a PTI leaves the buffer right for what comes next. *)
LEMMA Read4 ==
  ASSUME NEW s \in 0 .. 59, NEW m \in 0 .. 59, NEW j \in 4 .. 12, NEW b, NEW odd \in 0 .. 1,
         NEW b2, NEW odd2, Pti(b), Took(b, odd, s, b2, odd2),
         F4(s, m, j, b, odd), ~(j = 5)
  PROVE  Pti(b2) /\ F5(s, m, j, b2, odd2)
BY DEF Took, Dropped, Added, Empty, F4, F5, Bit

(* Reading the SOM after seconds of 16 of a PTI leaves the buffer right for *)
(* what comes next.                                                         *)
LEMMA Read5 ==
  ASSUME NEW s \in 0 .. 59, NEW m \in 0 .. 59, NEW j \in 4 .. 12, NEW b, NEW odd \in 0 .. 1,
         NEW b2, NEW odd2, Pti(b), Took(b, odd, 16, b2, odd2),
         F5(s, m, j, b, odd), ~(j = 6 \/ s # 16)
  PROVE  Pti(b2) /\ F6(s, m, j, b2, odd2)
BY DEF Took, Dropped, Added, Empty, F5, F6, N6, S6, Bit

(* Reading the minutes of a PTI leaves the buffer right for what comes next. *)
LEMMA Read6 ==
  ASSUME NEW s \in 0 .. 59, NEW m \in 0 .. 59, NEW j \in 4 .. 12, NEW b, NEW odd \in 0 .. 1,
         NEW b2, NEW odd2, Pti(b), Took(b, odd, m, b2, odd2),
         F6(s, m, j, b, odd), ~(j = 7)
  PROVE  Pti(b2) /\ F7(s, m, j, b2, odd2)
BY DEF Took, Dropped, Added, Empty, F6, N6, S6, F7, Bit

(* Reading the SOM after minutes of 16 of a PTI leaves the buffer right for *)
(* what comes next.                                                         *)
LEMMA Read7 ==
  ASSUME NEW s \in 0 .. 59, NEW m \in 0 .. 59, NEW j \in 4 .. 12, NEW b, NEW odd \in 0 .. 1,
         NEW b2, NEW odd2, Pti(b), Took(b, odd, 16, b2, odd2),
         F7(s, m, j, b, odd), ~(j = 8 \/ m # 16)
  PROVE  Pti(b2) /\ F8(s, m, j, b2, odd2)
BY DEF Took, Dropped, Added, Empty, F7, N6, F8, N8, S8, Bit

(* Reading the hours of a PTI leaves the buffer right for what comes next. *)
LEMMA Read8 ==
  ASSUME NEW s \in 0 .. 59, NEW m \in 0 .. 59, NEW j \in 4 .. 12, NEW b, NEW odd \in 0 .. 1,
         NEW b2, NEW odd2, Pti(b), Took(b, odd, 0, b2, odd2),
         F8(s, m, j, b, odd), ~(j = 9)
  PROVE  Pti(b2) /\ F9(s, m, j, b2, odd2)
BY DEF Took, Dropped, Added, Empty, F8, N8, N6, S8, F9, Bit

(* Reading the trailing SOM of a PTI leaves the buffer right for what comes *)
(* next.                                                                    *)
LEMMA Read9 ==
  ASSUME NEW s \in 0 .. 59, NEW m \in 0 .. 59, NEW j \in 4 .. 12, NEW b, NEW odd \in 0 .. 1,
         NEW b2, NEW odd2, Pti(b), Took(b, odd, 16, b2, odd2),
         F9(s, m, j, b, odd), ~(j = 10)
  PROVE  Pti(b2) /\ F10(s, m, j, b2, odd2)
BY DEF Took, Dropped, Added, Empty, F9, N8, N6, S8, F10, Bit

(* What the last byte of a packet leaves. *)
Ends(s, m, odd, b2, odd2) ==
  /\ odd = 0 => Long(b2, odd2)
  /\ Size(b2) = 8 => b2[4] = s /\ b2[5] = m

(* The EOM ends a packet with the time that was sent, or makes the buffer too *)
(* long for one.                                                              *)
LEMMA Read10 ==
  ASSUME NEW s \in 0 .. 59, NEW m \in 0 .. 59, NEW j \in 4 .. 12, NEW b, NEW odd \in 0 .. 1,
         NEW b2, NEW odd2, Pti(b), Took(b, odd, 3, b2, odd2),
         F10(s, m, j, b, odd), ~(j = 11)
  PROVE  Ends(s, m, odd, b2, odd2)
BY DEF Ends, Long, Took, Dropped, Added, Empty, F10, N8, N6, S8, Bit

(* What may come: a PTI of which a byte may have been lost, or anything that *)
(* is none.                                                                  *)
Ptis(s, m, l, rest) ==
  \E f \in {1, 3}, j \in 4 .. 12 : rest = R3(s, m, j, f) /\ (j = 12 \/ l = 0)

Coming(s, m, l, x, rest) ==
  /\ l = 3 => rest # <<>>
  /\ x = 171 => Ptis(s, m, l, rest)

(* The first three bytes of a packet. *)
Opening(bytes, b, odd, l, x, rest) ==
  \/ bytes = Line0(l, x, rest) /\ Before(b, odd)
  \/ bytes = Line1(l, x, rest) /\ After1(b, odd, l)
  \/ bytes = Line2(l, x, rest) /\ After2(b, odd, l)

(* The line and the buffer are right for each other: nothing is left; a       *)
(* packet begins; no PTI comes of it; or a PTI of the present second is being *)
(* read.                                                                      *)
IcmReads(s, m, bytes, b, odd) ==
  \/ bytes = <<>> /\ Before(b, odd)
  \/ \E l \in 0 .. 3, x \in Ids, rest \in Seq(Safe) :
       Coming(s, m, l, x, rest) /\ Opening(bytes, b, odd, l, x, rest)
  \/ bytes \in Seq(Safe) /\ Spoilt(bytes, b, odd)
  \/ \E f \in {1, 3}, j \in 4 .. 12 : Fresh(s, m, j, f, bytes, b, odd)

(* What reading a byte leaves. *)
ReadOn(s, m, bytes, b, odd, b2, odd2) ==
  IF Head(bytes) = 3 /\ odd = 1
    THEN /\ Tail(bytes) \in Seq(Safe) /\ ~Half(b2)
         /\ Pti(b2) /\ Size(b2) = 8 => b2[4] = s /\ b2[5] = m
    ELSE IcmReads(s, m, Tail(bytes), b2, odd2)

(* The head and the tail of Put. *)
LEMMA PutParts ==
  ASSUME NEW S, NEW c, NEW rest \in Seq(S)
  PROVE  Head(Put(c, rest)) = c /\ Tail(Put(c, rest)) = rest /\ Put(c, rest) # <<>>
<1>1. /\ <<c>> \in Seq({c} \cup S) /\ rest \in Seq({c} \cup S)
      /\ Len(<<c>>) = 1 /\ <<c>>[1] = c
  OBVIOUS
<1> DEFINE t == {c} \cup S
           u == <<c>>
<1>2. u \in Seq(t) /\ rest \in Seq(t) /\ Len(u) = 1 /\ u[1] = c
  BY <1>1
<1> HIDE DEF t, u
<1>3. /\ u \o rest \in Seq(t) /\ Len(u \o rest) = 1 + Len(rest)
      /\ (u \o rest)[1] = c
      /\ \A i \in 1 .. Len(rest) : (u \o rest)[i + 1] = rest[i]
  <2>1. /\ u \o rest \in Seq(t) /\ Len(u \o rest) = Len(u) + Len(rest)
        /\ \A i \in 1 .. Len(u) + Len(rest) :
             (u \o rest)[i] = IF i <= Len(u) THEN u[i] ELSE rest[i - Len(u)]
    BY <1>2, ConcatProperties
  <2>2. Len(rest) \in Nat
    BY <1>2
  <2> QED BY <1>2, <2>1, <2>2
<1> DEFINE w == u \o rest
<1>4. w \in Seq(t) /\ Len(w) = 1 + Len(rest) /\ Len(rest) \in Nat /\ w # <<>>
  BY <1>2, <1>3
<1>5. Head(w) = c
  BY <1>3, <1>4
<1>6. Tail(w) = rest
  <2>1. /\ Tail(w) \in Seq(t) /\ Len(Tail(w)) = Len(w) - 1
        /\ \A i \in 1 .. Len(Tail(w)) : Tail(w)[i] = w[i + 1]
    BY <1>4, HeadTailProperties
  <2>2. Len(Tail(w)) = Len(rest)
    BY <1>4, <2>1
  <2>3. \A i \in 1 .. Len(rest) : Tail(w)[i] = rest[i]
    BY <1>3, <2>1, <2>2
  <2> HIDE DEF w
  <2> QED BY <1>2, <2>1, <2>2, <2>3, SeqEqual
<1>7. Put(c, rest) = w
  BY DEF Put, u
<1> HIDE DEF w
<1> QED BY <1>4, <1>5, <1>6, <1>7

(* A byte that may be lost is put before safe bytes. *)
LEMMA UnlessSafe ==
  ASSUME NEW gone, NEW byte \in Safe, NEW rest \in Seq(Safe)
  PROVE  Unless(gone, byte, rest) \in Seq(Safe)
<1>1. <<byte>> \in Seq(Safe)
  OBVIOUS
<1>2. <<byte>> \o rest \in Seq(Safe)
  BY <1>1, ConcatProperties
<1> QED BY <1>2 DEF Unless, Put

(* The two cases of Unless. *)
LEMMA UnlessGone ==
  ASSUME NEW gone, NEW byte, NEW rest
  PROVE  /\ gone => Unless(gone, byte, rest) = rest
         /\ ~gone => Unless(gone, byte, rest) = Put(byte, rest)
BY DEF Unless

(* Nothing is left only where nothing was. *)
LEMMA UnlessEmpty ==
  ASSUME NEW gone, NEW byte, NEW rest \in Seq(Safe), Unless(gone, byte, rest) = <<>>
  PROVE  gone /\ rest = <<>>
<1>1. Put(byte, rest) # <<>>
  BY PutParts
<1> QED BY <1>1 DEF Unless

(* Seconds and minutes are no bytes of a header. *)
LEMMA SafeBytes ==
  \A c \in 0 .. 59 : c \in Safe
BY DEF Safe, Icm!Byte

(* No rest of a PTI has a byte of a header. *)
LEMMA RestSafe ==
  ASSUME NEW s \in 0 .. 59, NEW m \in 0 .. 59, NEW j, NEW f \in {1, 3}
  PROVE  /\ R3(s, m, j, f) \in Seq(Safe) /\ R4(s, m, j, f) \in Seq(Safe)
         /\ R5(s, m, j, f) \in Seq(Safe) /\ R6(s, m, j, f) \in Seq(Safe)
         /\ R7(s, m, j, f) \in Seq(Safe) /\ R8(s, m, j, f) \in Seq(Safe)
         /\ R9(s, m, j, f) \in Seq(Safe) /\ R10(s, m, j, f) \in Seq(Safe)
<1>1. s \in Safe /\ m \in Safe /\ f \in Safe /\ 16 \in Safe /\ 0 \in Safe /\ 3 \in Safe
  BY SafeBytes
<1>2. <<>> \in Seq(Safe)
  OBVIOUS
<1>10. R10(s, m, j, f) \in Seq(Safe)
  BY <1>1, <1>2, UnlessSafe DEF R10
<1>9. R9(s, m, j, f) \in Seq(Safe)
  BY <1>1, <1>10, UnlessSafe DEF R9
<1>8. R8(s, m, j, f) \in Seq(Safe)
  BY <1>1, <1>9, UnlessSafe DEF R8
<1>7. R7(s, m, j, f) \in Seq(Safe)
  BY <1>1, <1>8, UnlessSafe DEF R7
<1>6. R6(s, m, j, f) \in Seq(Safe)
  BY <1>1, <1>7, UnlessSafe DEF R6
<1>5. R5(s, m, j, f) \in Seq(Safe)
  BY <1>1, <1>6, UnlessSafe DEF R5
<1>4. R4(s, m, j, f) \in Seq(Safe)
  BY <1>1, <1>5, UnlessSafe DEF R4
<1>3. R3(s, m, j, f) \in Seq(Safe)
  BY <1>1, <1>4, UnlessSafe DEF R3
<1> QED BY <1>3, <1>4, <1>5, <1>6, <1>7, <1>8, <1>9, <1>10

(* A buffer right for the EOM reads on rightly, whichever byte was lost. *)
LEMMA Slot10 ==
  ASSUME NEW s \in 0 .. 59, NEW m \in 0 .. 59, NEW j \in 4 .. 12, NEW f \in {1, 3},
         NEW b, NEW odd \in 0 .. 1, NEW b2, NEW odd2, Pti(b), NEW bytes, bytes # <<>>,
         Took(b, odd, Head(bytes), b2, odd2), bytes = R10(s, m, j, f), F10(s, m, j, b, odd)
  PROVE  ReadOn(s, m, bytes, b, odd, b2, odd2)
<1>a. bytes = IF j = 11 THEN <<>> ELSE Put(3, <<>>)
  BY DEF R10, Unless
<1>1. ~(j = 11) /\ bytes = Put(3, <<>>)
  BY <1>a
<1>b. <<>> \in Seq(Safe)
  OBVIOUS
<1> DEFINE rest == <<>>
<1>c. bytes = Put(3, rest) /\ rest \in Seq(Safe) /\ rest = <<>>
  BY <1>1, <1>b
<1> HIDE DEF rest
<1>d. Head(Put(3, rest)) = 3 /\ Tail(Put(3, rest)) = rest
  BY <1>c, PutParts
<1>2. Head(bytes) = 3 /\ Tail(bytes) = <<>> /\ <<>> \in Seq(Safe)
  BY <1>c, <1>d
<1>e. Took(b, odd, 3, b2, odd2)
  BY <1>2
<1>3. /\ odd = 0 => Long(b2, odd2)
      /\ Size(b2) = 8 => b2[4] = s /\ b2[5] = m
  <2>1. Ends(s, m, odd, b2, odd2)
    BY <1>1, <1>e, Read10, Zenon
  <2> QED BY <2>1 DEF Ends
<1>4. ~Half(b2)
  BY <1>2 DEF Took, Dropped, Added, Empty
<1>5. odd = 0 => Before(b2, odd2)
  BY <1>3, <1>4 DEF Before, Long
<1>6. odd = 0 => IcmReads(s, m, Tail(bytes), b2, odd2)
  BY <1>2, <1>5 DEF IcmReads
<1>7. CASE odd = 1
  BY <1>2, <1>3, <1>4, <1>7 DEF ReadOn
<1>8. CASE odd = 0
  BY <1>6, <1>8 DEF ReadOn
<1> QED BY <1>7, <1>8

(* A buffer right for the trailing SOM reads on rightly, whichever byte was *)
(* lost.                                                                    *)
LEMMA Slot9 ==
  ASSUME NEW s \in 0 .. 59, NEW m \in 0 .. 59, NEW j \in 4 .. 12, NEW f \in {1, 3},
         NEW b, NEW odd \in 0 .. 1, NEW b2, NEW odd2, Pti(b), NEW bytes, bytes # <<>>,
         Took(b, odd, Head(bytes), b2, odd2), bytes = R9(s, m, j, f), F9(s, m, j, b, odd)
  PROVE  ReadOn(s, m, bytes, b, odd, b2, odd2)
<1>1. CASE j = 10
  <2>1. bytes = R10(s, m, j, f)
    BY <1>1, UnlessGone DEF R9
  <2>2. F10(s, m, j, b, odd)
    BY <1>1, Skip9
  <2> QED BY <2>1, <2>2, Slot10, Zenon
<1>2. CASE ~(j = 10)
  <2> DEFINE rest == R10(s, m, j, f)
  <2>1. rest \in Seq(Safe)
    BY RestSafe, Zenon
  <2>2. bytes = Put(16, rest)
    BY <1>2 DEF R9, Unless
  <2>3. Head(bytes) = 16 /\ Tail(bytes) = rest
    <3> HIDE DEF rest
    <3> QED BY <2>1, <2>2, PutParts
  <2>4. Pti(b2) /\ F10(s, m, j, b2, odd2)
    BY <1>2, <2>3, Read9, Zenon
  <2>5. Size(b2) # 8
    BY <2>4 DEF F10, N8, N6, Bit
  <2>6. ~Half(b2)
    BY <2>4 DEF Took
  <2>7. Fresh(s, m, j, f, rest, b2, odd2)
    BY <2>4 DEF Fresh
  <2> HIDE DEF rest
  <2>8. IcmReads(s, m, Tail(bytes), b2, odd2)
    BY <2>3, <2>7 DEF IcmReads
  <2> QED BY <2>1, <2>3, <2>5, <2>6, <2>8 DEF ReadOn
<1> QED BY <1>1, <1>2

(* A buffer right for the hours reads on rightly, whichever byte was lost. *)
LEMMA Slot8 ==
  ASSUME NEW s \in 0 .. 59, NEW m \in 0 .. 59, NEW j \in 4 .. 12, NEW f \in {1, 3},
         NEW b, NEW odd \in 0 .. 1, NEW b2, NEW odd2, Pti(b), NEW bytes, bytes # <<>>,
         Took(b, odd, Head(bytes), b2, odd2), bytes = R8(s, m, j, f), F8(s, m, j, b, odd)
  PROVE  ReadOn(s, m, bytes, b, odd, b2, odd2)
<1>1. CASE j = 9
  <2>1. bytes = R9(s, m, j, f)
    BY <1>1, UnlessGone DEF R8
  <2>2. F9(s, m, j, b, odd)
    BY <1>1, Skip8
  <2> QED BY <2>1, <2>2, Slot9
<1>2. CASE ~(j = 9)
  <2> DEFINE rest == R9(s, m, j, f)
  <2>1. rest \in Seq(Safe)
    BY RestSafe, Zenon
  <2>2. bytes = Put(0, rest)
    BY <1>2 DEF R8, Unless
  <2>3. Head(bytes) = 0 /\ Tail(bytes) = rest
    <3> HIDE DEF rest
    <3> QED BY <2>1, <2>2, PutParts
  <2>4. Pti(b2) /\ F9(s, m, j, b2, odd2)
    BY <1>2, <2>3, Read8, Zenon
  <2>5. Size(b2) # 8
    BY <2>4 DEF F9, N8, N6, Bit
  <2>6. ~Half(b2)
    BY <2>4 DEF Took
  <2>7. Fresh(s, m, j, f, rest, b2, odd2)
    BY <2>4 DEF Fresh
  <2> HIDE DEF rest
  <2>8. IcmReads(s, m, Tail(bytes), b2, odd2)
    BY <2>3, <2>7 DEF IcmReads
  <2> QED BY <2>1, <2>3, <2>5, <2>6, <2>8 DEF ReadOn
<1> QED BY <1>1, <1>2

(* A buffer right for the SOM after minutes of 16 reads on rightly, whichever *)
(* byte was lost.                                                             *)
LEMMA Slot7 ==
  ASSUME NEW s \in 0 .. 59, NEW m \in 0 .. 59, NEW j \in 4 .. 12, NEW f \in {1, 3},
         NEW b, NEW odd \in 0 .. 1, NEW b2, NEW odd2, Pti(b), NEW bytes, bytes # <<>>,
         Took(b, odd, Head(bytes), b2, odd2), bytes = R7(s, m, j, f), F7(s, m, j, b, odd)
  PROVE  ReadOn(s, m, bytes, b, odd, b2, odd2)
<1>1. CASE j = 8 \/ m # 16
  <2>1. bytes = R8(s, m, j, f)
    BY <1>1, UnlessGone, Zenon DEF R7
  <2>2. F8(s, m, j, b, odd)
    BY <1>1, Skip7, Zenon
  <2> QED BY <2>1, <2>2, Slot8
<1>2. CASE ~(j = 8 \/ m # 16)
  <2> DEFINE rest == R8(s, m, j, f)
  <2>1. rest \in Seq(Safe)
    BY RestSafe, Zenon
  <2>2. bytes = Put(16, rest)
    BY <1>2 DEF R7, Unless
  <2>3. Head(bytes) = 16 /\ Tail(bytes) = rest
    <3> HIDE DEF rest
    <3> QED BY <2>1, <2>2, PutParts
  <2>4. Pti(b2) /\ F8(s, m, j, b2, odd2)
    BY <1>2, <2>3, Read7, Zenon
  <2>5. Size(b2) # 8
    BY <2>4 DEF F8, N8, N6, Bit
  <2>6. ~Half(b2)
    BY <2>4 DEF Took
  <2>7. Fresh(s, m, j, f, rest, b2, odd2)
    BY <2>4 DEF Fresh
  <2> HIDE DEF rest
  <2>8. IcmReads(s, m, Tail(bytes), b2, odd2)
    BY <2>3, <2>7 DEF IcmReads
  <2> QED BY <2>1, <2>3, <2>5, <2>6, <2>8 DEF ReadOn
<1> QED BY <1>1, <1>2

(* A buffer right for the minutes reads on rightly, whichever byte was lost. *)
LEMMA Slot6 ==
  ASSUME NEW s \in 0 .. 59, NEW m \in 0 .. 59, NEW j \in 4 .. 12, NEW f \in {1, 3},
         NEW b, NEW odd \in 0 .. 1, NEW b2, NEW odd2, Pti(b), NEW bytes, bytes # <<>>,
         Took(b, odd, Head(bytes), b2, odd2), bytes = R6(s, m, j, f), F6(s, m, j, b, odd)
  PROVE  ReadOn(s, m, bytes, b, odd, b2, odd2)
<1>1. CASE j = 7
  <2>1. bytes = R7(s, m, j, f)
    BY <1>1, UnlessGone DEF R6
  <2>2. F7(s, m, j, b, odd)
    BY <1>1, Skip6
  <2> QED BY <2>1, <2>2, Slot7
<1>2. CASE ~(j = 7)
  <2> DEFINE rest == R7(s, m, j, f)
  <2>1. rest \in Seq(Safe)
    BY RestSafe, Zenon
  <2>2. bytes = Put(m, rest)
    BY <1>2 DEF R6, Unless
  <2>3. Head(bytes) = m /\ Tail(bytes) = rest
    <3> HIDE DEF rest
    <3> QED BY <2>1, <2>2, PutParts
  <2>4. Pti(b2) /\ F7(s, m, j, b2, odd2)
    BY <1>2, <2>3, Read6, Zenon
  <2>5. Size(b2) # 8
    BY <2>4 DEF F7, N6, Bit
  <2>6. ~Half(b2)
    BY <2>4 DEF Took
  <2>7. Fresh(s, m, j, f, rest, b2, odd2)
    BY <2>4 DEF Fresh
  <2> HIDE DEF rest
  <2>8. IcmReads(s, m, Tail(bytes), b2, odd2)
    BY <2>3, <2>7 DEF IcmReads
  <2> QED BY <2>1, <2>3, <2>5, <2>6, <2>8, Zenon DEF ReadOn
<1> QED BY <1>1, <1>2

(* A buffer right for the SOM after seconds of 16 reads on rightly, whichever *)
(* byte was lost.                                                             *)
LEMMA Slot5 ==
  ASSUME NEW s \in 0 .. 59, NEW m \in 0 .. 59, NEW j \in 4 .. 12, NEW f \in {1, 3},
         NEW b, NEW odd \in 0 .. 1, NEW b2, NEW odd2, Pti(b), NEW bytes, bytes # <<>>,
         Took(b, odd, Head(bytes), b2, odd2), bytes = R5(s, m, j, f), F5(s, m, j, b, odd)
  PROVE  ReadOn(s, m, bytes, b, odd, b2, odd2)
<1>1. CASE j = 6 \/ s # 16
  <2>1. bytes = R6(s, m, j, f)
    BY <1>1, UnlessGone, Zenon DEF R5
  <2>2. F6(s, m, j, b, odd)
    BY <1>1, Skip5, Zenon
  <2> QED BY <2>1, <2>2, Slot6
<1>2. CASE ~(j = 6 \/ s # 16)
  <2> DEFINE rest == R6(s, m, j, f)
  <2>1. rest \in Seq(Safe)
    BY RestSafe, Zenon
  <2>2. bytes = Put(16, rest)
    BY <1>2 DEF R5, Unless
  <2>3. Head(bytes) = 16 /\ Tail(bytes) = rest
    <3> HIDE DEF rest
    <3> QED BY <2>1, <2>2, PutParts
  <2>4. Pti(b2) /\ F6(s, m, j, b2, odd2)
    BY <1>2, <2>3, Read5, Zenon
  <2>5. Size(b2) # 8
    BY <2>4 DEF F6, N6, Bit
  <2>6. ~Half(b2)
    BY <2>4 DEF Took
  <2>7. Fresh(s, m, j, f, rest, b2, odd2)
    BY <2>4 DEF Fresh
  <2> HIDE DEF rest
  <2>8. IcmReads(s, m, Tail(bytes), b2, odd2)
    BY <2>3, <2>7 DEF IcmReads
  <2> QED BY <2>1, <2>3, <2>5, <2>6, <2>8 DEF ReadOn
<1> QED BY <1>1, <1>2

(* A buffer right for the seconds reads on rightly, whichever byte was lost. *)
LEMMA Slot4 ==
  ASSUME NEW s \in 0 .. 59, NEW m \in 0 .. 59, NEW j \in 4 .. 12, NEW f \in {1, 3},
         NEW b, NEW odd \in 0 .. 1, NEW b2, NEW odd2, Pti(b), NEW bytes, bytes # <<>>,
         Took(b, odd, Head(bytes), b2, odd2), bytes = R4(s, m, j, f), F4(s, m, j, b, odd)
  PROVE  ReadOn(s, m, bytes, b, odd, b2, odd2)
<1>1. CASE j = 5
  <2>1. bytes = R5(s, m, j, f)
    BY <1>1, UnlessGone DEF R4
  <2>2. F5(s, m, j, b, odd)
    BY <1>1, Skip4
  <2> QED BY <2>1, <2>2, Slot5
<1>2. CASE ~(j = 5)
  <2> DEFINE rest == R5(s, m, j, f)
  <2>1. rest \in Seq(Safe)
    BY RestSafe, Zenon
  <2>2. bytes = Put(s, rest)
    BY <1>2 DEF R4, Unless
  <2>3. Head(bytes) = s /\ Tail(bytes) = rest
    <3> HIDE DEF rest
    <3> QED BY <2>1, <2>2, PutParts
  <2>4. Pti(b2) /\ F5(s, m, j, b2, odd2)
    BY <1>2, <2>3, Read4, Zenon
  <2>5. Size(b2) # 8
    BY <2>4 DEF F5, Bit
  <2>6. ~Half(b2)
    BY <2>4 DEF Took
  <2>7. Fresh(s, m, j, f, rest, b2, odd2)
    BY <2>4 DEF Fresh
  <2> HIDE DEF rest
  <2>8. IcmReads(s, m, Tail(bytes), b2, odd2)
    BY <2>3, <2>7 DEF IcmReads
  <2> QED BY <2>1, <2>3, <2>5, <2>6, <2>8, Zenon DEF ReadOn
<1> QED BY <1>1, <1>2

(* A buffer right for the flag reads on rightly, whichever byte was lost. *)
LEMMA Slot3 ==
  ASSUME NEW s \in 0 .. 59, NEW m \in 0 .. 59, NEW j \in 4 .. 12, NEW f \in {1, 3},
         NEW b, NEW odd \in 0 .. 1, NEW b2, NEW odd2, Pti(b), NEW bytes, bytes # <<>>,
         Took(b, odd, Head(bytes), b2, odd2), bytes = R3(s, m, j, f), F3(s, m, j, b, odd)
  PROVE  ReadOn(s, m, bytes, b, odd, b2, odd2)
<1>1. CASE j = 4
  <2>1. bytes = R4(s, m, j, f)
    BY <1>1, UnlessGone DEF R3
  <2>2. F4(s, m, j, b, odd)
    BY <1>1, Skip3
  <2> QED BY <2>1, <2>2, Slot4
<1>2. CASE ~(j = 4)
  <2> DEFINE rest == R4(s, m, j, f)
  <2>1. rest \in Seq(Safe)
    BY RestSafe, Zenon
  <2>2. bytes = Put(f, rest)
    BY <1>2 DEF R3, Unless
  <2>3. Head(bytes) = f /\ Tail(bytes) = rest
    <3> HIDE DEF rest
    <3> QED BY <2>1, <2>2, PutParts
  <2>4. Pti(b2) /\ F4(s, m, j, b2, odd2)
    BY <1>2, <2>3, Read3, Zenon
  <2>5. Size(b2) # 8
    BY <2>4 DEF F4, Bit
  <2>6. ~Half(b2)
    BY <2>4 DEF Took
  <2>7. Fresh(s, m, j, f, rest, b2, odd2)
    BY <2>4 DEF Fresh
  <2> HIDE DEF rest
  <2>8. IcmReads(s, m, Tail(bytes), b2, odd2)
    BY <2>3, <2>7, Zenon DEF IcmReads
  <2> QED BY <2>1, <2>3, <2>5, <2>6, <2>8, Zenon DEF ReadOn
<1> QED BY <1>1, <1>2

(* Reading a byte of a PTI after its id. *)
LEMMA FreshReads ==
  ASSUME NEW s \in 0 .. 59, NEW m \in 0 .. 59, NEW j \in 4 .. 12, NEW f \in {1, 3},
         NEW b, NEW odd \in 0 .. 1, NEW b2, NEW odd2, NEW bytes, bytes # <<>>,
         Took(b, odd, Head(bytes), b2, odd2), Fresh(s, m, j, f, bytes, b, odd)
  PROVE  ReadOn(s, m, bytes, b, odd, b2, odd2)
BY Slot3, Slot4, Slot5, Slot6, Slot7, Slot8, Slot9, Slot10, ZenonT(40) DEF Fresh

(* Where the EOM and all after it were lost, the buffer is as before a *)
(* packet.                                                             *)
LEMMA Over10 ==
  ASSUME NEW s \in 0 .. 59, NEW m \in 0 .. 59, NEW j \in 4 .. 12, NEW f \in {1, 3},
         NEW b, NEW odd \in 0 .. 1, Pti(b), ~Half(b), <<>> = R10(s, m, j, f),
         F10(s, m, j, b, odd)
  PROVE  Before(b, odd)
<1>1. j = 11
  <2>1. <<>> \in Seq(Safe)
    OBVIOUS
  <2>2. Unless(j = 11, 3, <<>>) = <<>>
    BY DEF R10
  <2> QED BY <2>1, <2>2, UnlessEmpty
<1>2. Long(b, odd)
  BY <1>1, Skip10
<1> QED BY <1>2 DEF Before, Long

(* Where the trailing SOM and all after it were lost, the buffer is as before *)
(* a packet.                                                                  *)
LEMMA Over9 ==
  ASSUME NEW s \in 0 .. 59, NEW m \in 0 .. 59, NEW j \in 4 .. 12, NEW f \in {1, 3},
         NEW b, NEW odd \in 0 .. 1, Pti(b), ~Half(b), <<>> = R9(s, m, j, f),
         F9(s, m, j, b, odd)
  PROVE  Before(b, odd)
<1>1. R10(s, m, j, f) \in Seq(Safe)
  BY RestSafe, Zenon
<1>2. (j = 10) /\ <<>> = R10(s, m, j, f)
  <2> DEFINE rest == R10(s, m, j, f)
             gone == j = 10
  <2>1. Unless(gone, 16, rest) = <<>> /\ rest \in Seq(Safe)
    BY <1>1 DEF R9
  <2> HIDE DEF gone, rest
  <2>2. gone /\ rest = <<>>
    BY <2>1, UnlessEmpty
  <2> QED BY <2>2 DEF gone, rest
<1>3. F10(s, m, j, b, odd)
  BY <1>2, Skip9, Zenon
<1> QED BY <1>2, <1>3, Over10, Zenon

(* Where the hours and all after it were lost, the buffer is as before a *)
(* packet.                                                               *)
LEMMA Over8 ==
  ASSUME NEW s \in 0 .. 59, NEW m \in 0 .. 59, NEW j \in 4 .. 12, NEW f \in {1, 3},
         NEW b, NEW odd \in 0 .. 1, Pti(b), ~Half(b), <<>> = R8(s, m, j, f),
         F8(s, m, j, b, odd)
  PROVE  Before(b, odd)
<1>1. R9(s, m, j, f) \in Seq(Safe)
  BY RestSafe, Zenon
<1>2. (j = 9) /\ <<>> = R9(s, m, j, f)
  <2> DEFINE rest == R9(s, m, j, f)
             gone == j = 9
  <2>1. Unless(gone, 0, rest) = <<>> /\ rest \in Seq(Safe)
    BY <1>1 DEF R8
  <2> HIDE DEF gone, rest
  <2>2. gone /\ rest = <<>>
    BY <2>1, UnlessEmpty
  <2> QED BY <2>2 DEF gone, rest
<1>3. F9(s, m, j, b, odd)
  BY <1>2, Skip8, Zenon
<1> QED BY <1>2, <1>3, Over9, Zenon

(* Where the SOM after minutes of 16 and all after it were lost, the buffer *)
(* is as before a packet.                                                   *)
LEMMA Over7 ==
  ASSUME NEW s \in 0 .. 59, NEW m \in 0 .. 59, NEW j \in 4 .. 12, NEW f \in {1, 3},
         NEW b, NEW odd \in 0 .. 1, Pti(b), ~Half(b), <<>> = R7(s, m, j, f),
         F7(s, m, j, b, odd)
  PROVE  Before(b, odd)
<1>1. R8(s, m, j, f) \in Seq(Safe)
  BY RestSafe, Zenon
<1>2. (j = 8 \/ m # 16) /\ <<>> = R8(s, m, j, f)
  <2> DEFINE rest == R8(s, m, j, f)
             gone == j = 8 \/ m # 16
  <2>1. Unless(gone, 16, rest) = <<>> /\ rest \in Seq(Safe)
    BY <1>1 DEF R7
  <2> HIDE DEF gone, rest
  <2>2. gone /\ rest = <<>>
    BY <2>1, UnlessEmpty
  <2> QED BY <2>2 DEF gone, rest
<1>3. F8(s, m, j, b, odd)
  BY <1>2, Skip7, Zenon
<1> QED BY <1>2, <1>3, Over8, Zenon

(* Where the minutes and all after it were lost, the buffer is as before a *)
(* packet.                                                                 *)
LEMMA Over6 ==
  ASSUME NEW s \in 0 .. 59, NEW m \in 0 .. 59, NEW j \in 4 .. 12, NEW f \in {1, 3},
         NEW b, NEW odd \in 0 .. 1, Pti(b), ~Half(b), <<>> = R6(s, m, j, f),
         F6(s, m, j, b, odd)
  PROVE  Before(b, odd)
<1>1. R7(s, m, j, f) \in Seq(Safe)
  BY RestSafe, Zenon
<1>2. (j = 7) /\ <<>> = R7(s, m, j, f)
  <2> DEFINE rest == R7(s, m, j, f)
             gone == j = 7
  <2>1. Unless(gone, m, rest) = <<>> /\ rest \in Seq(Safe)
    BY <1>1 DEF R6
  <2> HIDE DEF gone, rest
  <2>2. gone /\ rest = <<>>
    BY <2>1, UnlessEmpty
  <2> QED BY <2>2 DEF gone, rest
<1>3. F7(s, m, j, b, odd)
  BY <1>2, Skip6, Zenon
<1> QED BY <1>2, <1>3, Over7, Zenon

(* Where the SOM after seconds of 16 and all after it were lost, the buffer *)
(* is as before a packet.                                                   *)
LEMMA Over5 ==
  ASSUME NEW s \in 0 .. 59, NEW m \in 0 .. 59, NEW j \in 4 .. 12, NEW f \in {1, 3},
         NEW b, NEW odd \in 0 .. 1, Pti(b), ~Half(b), <<>> = R5(s, m, j, f),
         F5(s, m, j, b, odd)
  PROVE  Before(b, odd)
<1>1. R6(s, m, j, f) \in Seq(Safe)
  BY RestSafe, Zenon
<1>2. (j = 6 \/ s # 16) /\ <<>> = R6(s, m, j, f)
  <2> DEFINE rest == R6(s, m, j, f)
             gone == j = 6 \/ s # 16
  <2>1. Unless(gone, 16, rest) = <<>> /\ rest \in Seq(Safe)
    BY <1>1 DEF R5
  <2> HIDE DEF gone, rest
  <2>2. gone /\ rest = <<>>
    BY <2>1, UnlessEmpty
  <2> QED BY <2>2 DEF gone, rest
<1>3. F6(s, m, j, b, odd)
  BY <1>2, Skip5, Zenon
<1> QED BY <1>2, <1>3, Over6, Zenon

(* Where the seconds and all after it were lost, the buffer is as before a *)
(* packet.                                                                 *)
LEMMA Over4 ==
  ASSUME NEW s \in 0 .. 59, NEW m \in 0 .. 59, NEW j \in 4 .. 12, NEW f \in {1, 3},
         NEW b, NEW odd \in 0 .. 1, Pti(b), ~Half(b), <<>> = R4(s, m, j, f),
         F4(s, m, j, b, odd)
  PROVE  Before(b, odd)
<1>1. R5(s, m, j, f) \in Seq(Safe)
  BY RestSafe, Zenon
<1>2. (j = 5) /\ <<>> = R5(s, m, j, f)
  <2> DEFINE rest == R5(s, m, j, f)
             gone == j = 5
  <2>1. Unless(gone, s, rest) = <<>> /\ rest \in Seq(Safe)
    BY <1>1 DEF R4
  <2> HIDE DEF gone, rest
  <2>2. gone /\ rest = <<>>
    BY <2>1, UnlessEmpty
  <2> QED BY <2>2 DEF gone, rest
<1>3. F5(s, m, j, b, odd)
  BY <1>2, Skip4, Zenon
<1> QED BY <1>2, <1>3, Over5, Zenon

(* Where the flag and all after it were lost, the buffer is as before a *)
(* packet.                                                              *)
LEMMA Over3 ==
  ASSUME NEW s \in 0 .. 59, NEW m \in 0 .. 59, NEW j \in 4 .. 12, NEW f \in {1, 3},
         NEW b, NEW odd \in 0 .. 1, Pti(b), ~Half(b), <<>> = R3(s, m, j, f),
         F3(s, m, j, b, odd)
  PROVE  Before(b, odd)
<1>1. R4(s, m, j, f) \in Seq(Safe)
  BY RestSafe, Zenon
<1>2. (j = 4) /\ <<>> = R4(s, m, j, f)
  <2> DEFINE rest == R4(s, m, j, f)
             gone == j = 4
  <2>1. Unless(gone, f, rest) = <<>> /\ rest \in Seq(Safe)
    BY <1>1 DEF R3
  <2> HIDE DEF gone, rest
  <2>2. gone /\ rest = <<>>
    BY <2>1, UnlessEmpty
  <2> QED BY <2>2 DEF gone, rest
<1>3. F4(s, m, j, b, odd)
  BY <1>2, Skip3, Zenon
<1> QED BY <1>2, <1>3, Over4, Zenon

(* When all of a PTI is read without an end, the buffer is as before a *)
(* packet.                                                             *)
LEMMA FreshOver ==
  ASSUME NEW s \in 0 .. 59, NEW m \in 0 .. 59, NEW j \in 4 .. 12, NEW f \in {1, 3},
         NEW b, NEW odd \in 0 .. 1, ~Half(b), Fresh(s, m, j, f, <<>>, b, odd)
  PROVE  Before(b, odd)
BY Over3, Over4, Over5, Over6, Over7, Over8, Over9, Over10, Zenon DEF Fresh

(* What is left of a packet are bytes. *)
LEMMA LineBytes ==
  ASSUME NEW l, NEW x \in Ids, NEW rest \in Seq(Safe)
  PROVE  /\ rest \in Buffers /\ Line2(l, x, rest) \in Buffers
         /\ Line1(l, x, rest) \in Buffers /\ Line0(l, x, rest) \in Buffers
<1>1. rest \in Buffers
  <2>1. Safe \subseteq Icm!Byte
    BY DEF Safe
  <2> QED BY <2>1 DEF Buffers
<1>2. ASSUME NEW gone, NEW byte \in Icm!Byte, NEW bytes \in Buffers
      PROVE  Unless(gone, byte, bytes) \in Buffers
  <2>1. <<byte>> \in Seq(Icm!Byte) /\ bytes \in Seq(Icm!Byte)
    BY DEF Buffers
  <2>2. <<byte>> \o bytes \in Seq(Icm!Byte)
    BY <2>1, ConcatProperties
  <2> QED BY <2>2 DEF Unless, Put, Buffers
<1>3. x \in Icm!Byte /\ 143 \in Icm!Byte /\ 16 \in Icm!Byte
  BY DEF Ids, Icm!Byte
<1>4. Line2(l, x, rest) \in Buffers
  BY <1>1, <1>2, <1>3 DEF Line2
<1>5. Line1(l, x, rest) \in Buffers
  BY <1>2, <1>3, <1>4 DEF Line1, Line2
<1>6. Line0(l, x, rest) \in Buffers
  BY <1>2, <1>3, <1>5 DEF Line0
<1> QED BY <1>1, <1>4, <1>5, <1>6

(* Reading a byte into a buffer that is of no use for a PTI. *)
LEMMA SpoiltReads ==
  ASSUME NEW s, NEW m, NEW bytes \in Seq(Safe), bytes # <<>>, NEW b, NEW odd \in 0 .. 1,
         NEW b2, NEW odd2, Spoilt(bytes, b, odd), ~Icm!Full(b),
         Took(b, odd, Head(bytes), b2, odd2)
  PROVE  ReadOn(s, m, bytes, b, odd, b2, odd2)
<1> DEFINE c == Head(bytes)
           rest == Tail(bytes)
<1>1. c \in Safe /\ rest \in Seq(Safe)
  BY HeadTailProperties
<1>2. Took(b, odd, c, b2, odd2)
  OBVIOUS
<1> HIDE DEF c, rest
<1>3. Spoilt(rest, b2, odd2) /\ ((c = 3 /\ odd = 1) => ~(Pti(b2) /\ Size(b2) = 8))
  BY <1>1, <1>2, SpoiltRead
<1>4. IcmReads(s, m, rest, b2, odd2)
  BY <1>1, <1>3 DEF IcmReads
<1>5. c = 3 => ~Half(b2)
  BY <1>2 DEF Took, Empty, Dropped, Added
<1> QED BY <1>1, <1>3, <1>4, <1>5 DEF ReadOn, c, rest

(* Reading on from the second byte of the id. *)
LEMMA IdReads ==
  ASSUME NEW s, NEW m, NEW l \in 0 .. 3, NEW x \in Ids, NEW rest \in Seq(Safe),
         Coming(s, m, l, x, rest), NEW bytes, bytes = Line2(l, x, rest),
         NEW b, NEW odd \in 0 .. 1, NEW b2, NEW odd2, After2(b, odd, l), ~Icm!Full(b),
         Took(b, odd, Head(bytes), b2, odd2)
  PROVE  ReadOn(s, m, bytes, b, odd, b2, odd2)
<1>0. Size(b) \in Nat
  BY DEF Took
<1>1. CASE l = 3
  <2>1. bytes = rest
    BY <1>1, UnlessGone DEF Line2
  <2>2. rest # <<>>
    BY <1>1 DEF Coming
  <2>3. Spoilt(bytes, b, odd)
    BY <1>0, <1>1, <2>1, <2>2, IdLost
  <2> QED BY <2>1, <2>2, <2>3, SpoiltReads
<1>2. CASE l # 3
  <2>1. bytes = Put(x, rest)
    BY <1>2 DEF Line2, Unless
  <2>2. Head(bytes) = x /\ Tail(bytes) = rest
    BY <2>1, PutParts
  <2>3. x # 3
    BY DEF Ids
  <2>4. Took(b, odd, x, b2, odd2)
    BY <2>2
  <2>5. CASE Spoilt(rest, b2, odd2)
    <3>1. IcmReads(s, m, rest, b2, odd2)
      BY <2>5 DEF IcmReads
    <3> QED BY <2>2, <2>3, <3>1 DEF ReadOn
  <2>6. CASE ~Spoilt(rest, b2, odd2)
    <3>a. PtiRead(x, rest, b2, odd2)
      BY <1>2, <2>4, IdRead
    <3>1. x = 171 /\ Pti(b2) /\ Size(b2) = 2 /\ odd2 = 0
      BY <3>a, <2>6 DEF PtiRead
    <3>2. PICK f \in {1, 3}, j \in 4 .. 12 : rest = R3(s, m, j, f)
      <4>1. x = 171
        BY <3>1
      <4>2. Ptis(s, m, l, rest)
        BY <4>1 DEF Coming
      <4> QED BY <4>2, Zenon DEF Ptis
    <3>3. Fresh(s, m, j, f, rest, b2, odd2)
      BY <3>1, <3>2 DEF Fresh, F3
    <3>4. IcmReads(s, m, rest, b2, odd2)
      BY <3>3 DEF IcmReads
    <3> QED BY <2>2, <2>3, <3>4 DEF ReadOn
  <2> QED BY <2>5, <2>6
<1> QED BY <1>1, <1>2

(* Reading on from the first byte of the id. *)
LEMMA HeaderReads ==
  ASSUME NEW s, NEW m, NEW l \in 0 .. 3, NEW x \in Ids, NEW rest \in Seq(Safe),
         Coming(s, m, l, x, rest), NEW bytes, bytes = Line1(l, x, rest),
         NEW b, NEW odd \in 0 .. 1, NEW b2, NEW odd2, After1(b, odd, l), ~Icm!Full(b),
         Size(b) = 0 => odd = 0, Took(b, odd, Head(bytes), b2, odd2)
  PROVE  ReadOn(s, m, bytes, b, odd, b2, odd2)
<1>0. Size(b) \in Nat
  BY DEF Took
<1>1. CASE l = 2
  <2>1. bytes = Line2(l, x, rest)
    BY <1>1 DEF Line1, Line2, Unless
  <2>2. After2(b, odd, l)
    BY <1>0, <1>1, HeaderLost
  <2> QED BY <2>1, <2>2, IdReads
<1>2. CASE l # 2
  <2>1. bytes = Put(143, Line2(l, x, rest))
    BY <1>2 DEF Line1, Line2, Unless
  <2>2. Line2(l, x, rest) \in Seq(Icm!Byte)
    BY LineBytes DEF Buffers
  <2>3. Head(bytes) = 143 /\ Tail(bytes) = Line2(l, x, rest)
    BY <2>1, <2>2, PutParts
  <2>4. Took(b, odd, 143, b2, odd2)
    BY <2>3
  <2>5. After2(b2, odd2, l)
    BY <1>2, <2>4, HeaderRead
  <2>6. Opening(Tail(bytes), b2, odd2, l, x, rest)
    BY <2>3, <2>5 DEF Opening
  <2>7. IcmReads(s, m, Tail(bytes), b2, odd2)
    BY <2>6 DEF IcmReads
  <2> QED BY <2>3, <2>7 DEF ReadOn
<1> QED BY <1>1, <1>2

(* Reading on from the SOM. *)
LEMMA SomReads ==
  ASSUME NEW s, NEW m, NEW l \in 0 .. 3, NEW x \in Ids, NEW rest \in Seq(Safe),
         Coming(s, m, l, x, rest), NEW bytes, bytes = Line0(l, x, rest),
         NEW b, NEW odd \in 0 .. 1, NEW b2, NEW odd2, Before(b, odd), ~Icm!Full(b),
         Size(b) = 0 => odd = 0, Took(b, odd, Head(bytes), b2, odd2)
  PROVE  ReadOn(s, m, bytes, b, odd, b2, odd2)
<1>0. Size(b) \in Nat
  BY DEF Took
<1>1. CASE l = 1
  <2>1. bytes = Line1(l, x, rest)
    BY <1>1 DEF Line0, Unless
  <2>2. After1(b, odd, l)
    BY <1>0, <1>1, HeaderLost
  <2> QED BY <2>1, <2>2, HeaderReads
<1>2. CASE l # 1
  <2>1. bytes = Put(16, Line1(l, x, rest))
    BY <1>2 DEF Line0, Unless
  <2>2. Line1(l, x, rest) \in Seq(Icm!Byte)
    BY LineBytes DEF Buffers
  <2>3. Head(bytes) = 16 /\ Tail(bytes) = Line1(l, x, rest)
    BY <2>1, <2>2, PutParts
  <2>4. Took(b, odd, 16, b2, odd2)
    BY <2>3
  <2>5. After1(b2, odd2, l)
    BY <1>2, <2>4, SomRead
  <2>6. Opening(Tail(bytes), b2, odd2, l, x, rest)
    BY <2>3, <2>5 DEF Opening
  <2>7. IcmReads(s, m, Tail(bytes), b2, odd2)
    BY <2>6 DEF IcmReads
  <2> QED BY <2>3, <2>7 DEF ReadOn
<1> QED BY <1>1, <1>2

(* A byte that is read from the line keeps line and buffer right. *)
LEMMA ByteReads ==
  ASSUME NEW s \in 0 .. 59, NEW m \in 0 .. 59, NEW bytes, bytes # <<>>,
         NEW b, NEW odd \in 0 .. 1, NEW b2, NEW odd2, ~Icm!Full(b),
         Size(b) = 0 => odd = 0, Took(b, odd, Head(bytes), b2, odd2),
         IcmReads(s, m, bytes, b, odd)
  PROVE  ReadOn(s, m, bytes, b, odd, b2, odd2)
<1>1. CASE \E l \in 0 .. 3, x \in Ids, rest \in Seq(Safe) :
             Coming(s, m, l, x, rest) /\ Opening(bytes, b, odd, l, x, rest)
  <2>1. PICK l \in 0 .. 3, x \in Ids, rest \in Seq(Safe) :
          Coming(s, m, l, x, rest) /\ Opening(bytes, b, odd, l, x, rest)
    BY <1>1
  <2> HIDE <1>1
  <2>2. CASE bytes = Line0(l, x, rest) /\ Before(b, odd)
    BY <2>1, <2>2, SomReads
  <2>3. CASE bytes = Line1(l, x, rest) /\ After1(b, odd, l)
    BY <2>1, <2>3, HeaderReads
  <2>4. CASE bytes = Line2(l, x, rest) /\ After2(b, odd, l)
    BY <2>1, <2>4, IdReads
  <2> QED BY <2>1, <2>2, <2>3, <2>4 DEF Opening
<1>2. CASE bytes \in Seq(Safe) /\ Spoilt(bytes, b, odd)
  BY <1>2, SpoiltReads, Zenon
<1>3. CASE \E f \in {1, 3}, j \in 4 .. 12 : Fresh(s, m, j, f, bytes, b, odd)
  BY <1>3, FreshReads, Zenon
<1> QED BY <1>1, <1>2, <1>3 DEF IcmReads

(* A packet that has just begun has bytes left. *)
LEMMA OpeningLeft ==
  ASSUME NEW s, NEW m, NEW l \in 0 .. 3, NEW x \in Ids, NEW rest \in Seq(Safe),
         Coming(s, m, l, x, rest), NEW bytes, NEW b, NEW odd,
         Opening(bytes, b, odd, l, x, rest)
  PROVE  bytes # <<>>
<1>1. /\ rest \in Seq(Icm!Byte) /\ Line2(l, x, rest) \in Seq(Icm!Byte)
      /\ Line1(l, x, rest) \in Seq(Icm!Byte)
  BY LineBytes DEF Buffers
<1>2. Line2(l, x, rest) # <<>>
  <2>1. l = 3 => rest # <<>>
    BY DEF Coming
  <2>2. Put(x, rest) # <<>>
    BY <1>1, PutParts
  <2> QED BY <2>1, <2>2 DEF Line2, Unless
<1>3. Line1(l, x, rest) # <<>>
  <2>1. Put(143, Line2(l, x, rest)) # <<>>
    BY <1>1, PutParts
  <2> QED BY <1>2, <2>1 DEF Line1, Line2, Unless
<1>4. Line0(l, x, rest) # <<>>
  <2>1. Put(16, Line1(l, x, rest)) # <<>>
    BY <1>1, PutParts
  <2> QED BY <1>3, <2>1 DEF Line0, Unless
<1> QED BY <1>2, <1>3, <1>4 DEF Opening

(* Between two packets nothing depends on the time that was sent. *)
LEMMA BetweenPackets ==
  ASSUME NEW s \in 0 .. 59, NEW m \in 0 .. 59, NEW b \in Buffers, NEW odd \in 0 .. 1,
         IcmReads(s, m, <<>>, b, odd)
  PROVE  Before(b, odd)
<1>1. Size(b) \in Nat
  BY DEF Size, Buffers
<1>2. Pti(b) => ~Half(b)
  BY <1>1 DEF Pti, Half
<1>3. CASE <<>> \in Seq(Safe) /\ Spoilt(<<>>, b, odd)
  BY <1>1, <1>3, NothingSpoilt
<1>4. CASE \E f \in {1, 3}, j \in 4 .. 12 : Fresh(s, m, j, f, <<>>, b, odd)
  <2>1. PICK f \in {1, 3}, j \in 4 .. 12 : Fresh(s, m, j, f, <<>>, b, odd)
    BY <1>4
  <2>2. ~Half(b)
    BY <1>2, <2>1 DEF Fresh
  <2> QED BY <2>1, <2>2, FreshOver, Zenon
<1> QED BY <1>3, <1>4, OpeningLeft DEF IcmReads

-----------------------------------------------------------------------------
(* Collect and getReply. *)

(* The inputs of Collect. *)
IcmInputs ==
  [read : Nat, buffer : Buffers, hunting : BOOLEAN, som : 0 .. 1, complete : BOOLEAN]

(* What is known of a packet that is complete, and of what comes after it. *)
Packed(s, m, rest, b) ==
  /\ rest \in Seq(Safe) /\ ~Half(b)
  /\ Pti(b) /\ Size(b) = 8 => b[4] = s /\ b[5] = m

(* An input that is right for what comes after it. *)
Reads(s, m, rest, input) ==
  /\ input.hunting => input.buffer = <<>>
  /\ input.buffer = <<>> => input.som = 0
  /\ IF input.complete THEN Packed(s, m, rest, input.buffer)
                       ELSE IcmReads(s, m, rest, input.buffer, input.som)

IcmCollected(s, m, rest, input, next) ==
  next \in IcmInputs /\ next.read = input.read + 1 /\ Reads(s, m, rest, next)

(* Collect keeps line and buffer right. *)
LEMMA IcmCollect ==
  ASSUME NEW s \in 0 .. 59, NEW m \in 0 .. 59, NEW bytes \in Buffers, bytes # <<>>,
         NEW input \in IcmInputs, ~input.complete, ~Icm!Full(input.buffer),
         Reads(s, m, bytes, input)
  PROVE  IcmCollected(s, m, Tail(bytes), input, Icm!Collect(input, Head(bytes)))
<1> DEFINE c == Head(bytes)
           rest == Tail(bytes)
           next == Icm!Collect(input, c)
           b == input.buffer
           odd == input.som
           b2 == next.buffer
           odd2 == next.som
<1>1. c \in Icm!Byte /\ b \in Buffers /\ odd \in 0 .. 1
  BY HeadTailProperties DEF Buffers, IcmInputs
<1>2. /\ input.hunting => b = <<>>
      /\ b = <<>> => odd = 0
      /\ IcmReads(s, m, bytes, b, odd)
  BY DEF Reads
<1>3. Size(b) = 0 => odd = 0
  BY <1>1, <1>2 DEF Size, Buffers
<1>4. ASSUME Taken(b, odd, c, b2, odd2), next.hunting => b2 = <<>>, b2 = <<>> => odd2 = 0,
             next.complete <=> c = 3 /\ odd = 1, next.read = input.read + 1,
             next \in IcmInputs
      PROVE  IcmCollected(s, m, rest, input, next)
  <2>1. Took(b, odd, c, b2, odd2)
    BY <1>1, <1>4, ByteTaken
  <2>2. ReadOn(s, m, bytes, b, odd, b2, odd2)
    BY <1>1, <1>2, <1>3, <2>1, ByteReads, Zenon
  <2> HIDE DEF next
  <2>3. CASE c = 3 /\ odd = 1
    <3>1. Packed(s, m, rest, b2)
      BY <2>2, <2>3 DEF ReadOn, Packed
    <3> QED BY <1>4, <2>3, <3>1 DEF IcmCollected, Reads
  <2>4. CASE ~(c = 3 /\ odd = 1)
    <3>1. IcmReads(s, m, rest, b2, odd2)
      BY <2>2, <2>4 DEF ReadOn
    <3> QED BY <1>4, <2>4, <3>1 DEF IcmCollected, Reads
  <2> QED BY <2>3, <2>4
<1>5. CASE input.hunting
  <2> DEFINE r == input.read + 1
             hunt == c # 16
  <2>1. next = [input EXCEPT !.read = r, !.hunting = hunt]
    BY <1>5 DEF Icm!Collect, Icm!SOM
  <2>a. r \in Nat /\ hunt \in BOOLEAN
    BY DEF IcmInputs
  <2>2. /\ next \in IcmInputs /\ next.read = input.read + 1 /\ b2 = b /\ odd2 = odd
        /\ next.complete = input.complete
    <3> HIDE DEF hunt
    <3> QED BY <2>1, <2>a DEF IcmInputs
  <2> HIDE DEF next
  <2>3. Taken(b, odd, c, b2, odd2)
    BY <1>2, <1>5, <2>2 DEF Taken
  <2>4. b2 = <<>> /\ odd2 = 0 /\ odd = 0
    BY <1>2, <1>5, <2>2
  <2>5. next.complete <=> c = 3 /\ odd = 1
    BY <2>2, <2>4
  <2>6. IcmCollected(s, m, rest, input, next)
    BY <1>4, <2>2, <2>3, <2>4, <2>5
  <2> QED BY <2>6 DEF next
<1>6. CASE ~input.hunting
  <2> DEFINE drop == Icm!Repeated(b, c)
             grown == IF drop THEN b ELSE Append(b, c)
             flips == IF c = 16 THEN 1 - odd ELSE odd
             done == (c = 3 /\ odd = 1)
             r == input.read + 1
  <2>1. next = [input EXCEPT !.read = r, !.buffer = grown, !.som = flips, !.complete = done]
    BY <1>6 DEF Icm!Collect, Icm!SOM, Icm!EOM
  <2>2. drop <=> (c = 16 /\ b # <<>> /\ End(b) = 16)
    BY DEF Icm!Repeated, Icm!SOM, Icm!Last, End
  <2>3. grown \in Buffers /\ flips \in 0 .. 1 /\ done \in BOOLEAN
    <3>1. Append(b, c) \in Buffers
      BY <1>1, AppendProperties DEF Buffers
    <3> HIDE DEF drop
    <3> QED BY <1>1, <3>1
  <2>4. IF c = 16 /\ b # <<>> /\ End(b) = 16 THEN grown = b ELSE grown = Append(b, c)
    <3>1. CASE c = 16 /\ b # <<>> /\ End(b) = 16
      <4>1. drop
        BY <2>2, <3>1
      <4> HIDE DEF drop
      <4> QED BY <3>1, <4>1
    <3>2. CASE ~(c = 16 /\ b # <<>> /\ End(b) = 16)
      <4>1. ~drop
        BY <2>2, <3>2
      <4> HIDE DEF drop
      <4> QED BY <3>2, <4>1
    <3> QED BY <3>1, <3>2
  <2> HIDE DEF grown, flips, done, c
  <2>a. r \in Nat
    BY DEF IcmInputs
  <2>5. /\ next \in IcmInputs /\ next.read = r /\ b2 = grown /\ odd2 = flips
        /\ next.complete = done /\ next.hunting = input.hunting
    <3> HIDE DEF r
    <3> QED BY <2>1, <2>3, <2>a DEF IcmInputs
  <2> HIDE DEF next
  <2>6. Taken(b, odd, c, b2, odd2)
    BY <2>4, <2>5 DEF Taken, flips
  <2>7. b2 # <<>>
    <3>1. Append(b, c) # <<>>
      BY <1>1, AppendProperties DEF Buffers
    <3> QED BY <2>4, <2>5, <3>1
  <2>8. (next.complete <=> c = 3 /\ odd = 1) /\ ~next.hunting /\ next.read = input.read + 1
    BY <1>6, <2>5 DEF done
  <2>9. IcmCollected(s, m, rest, input, next)
    BY <1>4, <2>5, <2>6, <2>7, <2>8
  <2> QED BY <2>9 DEF next, c
<1> QED BY <1>5, <1>6

(* What is left of a sequence when r elements of it were read. *)
LEMMA Suffix ==
  ASSUME NEW S, NEW bytes \in Seq(S), NEW r \in Nat, r < Len(bytes)
  PROVE  /\ SubSeq(bytes, r + 1, Len(bytes)) \in Seq(S)
         /\ SubSeq(bytes, r + 1, Len(bytes)) # <<>>
         /\ Head(SubSeq(bytes, r + 1, Len(bytes))) = bytes[r + 1]
         /\ Tail(SubSeq(bytes, r + 1, Len(bytes))) = SubSeq(bytes, (r + 1) + 1, Len(bytes))
<1> DEFINE n == Len(bytes)
           k == r + 1
<1>1. n \in Nat /\ r < n /\ r \in Nat
  OBVIOUS
<1>2. k \in 1 .. n /\ n \in k .. n
  <2> HIDE DEF n
  <2> QED BY <1>1
<1>3. \A i \in k .. n : bytes[i] \in S
  <2>1. \A i \in 1 .. n : bytes[i] \in S
    OBVIOUS
  <2> HIDE DEF n
  <2> QED BY <1>1, <2>1
<1> HIDE DEF k, n
<1>4. Head(SubSeq(bytes, k, n)) = bytes[k] /\ Tail(SubSeq(bytes, k, n)) = SubSeq(bytes, k + 1, n)
  <2>1. k \in 1 .. Len(bytes) /\ n \in k .. Len(bytes)
    BY <1>2 DEF n
  <2> QED BY <2>1, HeadTailOfSubSeq
<1>5. SubSeq(bytes, k, n) \in Seq(S) /\ Len(SubSeq(bytes, k, n)) = (n - k) + 1
  <2>1. k \in Int /\ n \in Int /\ k <= n
    BY <1>2
  <2> QED BY <1>3, <2>1, SubSeqProperties
<1>6. SubSeq(bytes, k, n) # <<>>
  BY <1>2, <1>5
<1> QED BY <1>4, <1>5, <1>6 DEF k, n

(* Inputs of which no more was read than there is, and that are right. *)
IcmRight(s, m, whole, n) ==
  {input \in IcmInputs :
     /\ input.read \in 0 .. n
     /\ input.complete => input.read # 0
     /\ Reads(s, m, SubSeq(whole, input.read + 1, Len(whole)), input)}

(* Collect keeps an input right. *)
LEMMA IcmCollects ==
  ASSUME NEW s \in 0 .. 59, NEW m \in 0 .. 59, NEW whole \in Buffers, NEW n \in Nat,
         n <= Len(whole), NEW input \in IcmRight(s, m, whole, n), NEW k \in 1 .. n,
         input.read = k - 1, ~input.complete, ~Icm!Full(input.buffer)
  PROVE  /\ Icm!Collect(input, whole[k]) \in IcmRight(s, m, whole, n)
         /\ Icm!Collect(input, whole[k]).read = k
<1> DEFINE w == Len(whole)
           r == input.read
           rest == SubSeq(whole, r + 1, w)
<1>1. /\ r \in Nat /\ r < w /\ r + 1 = k /\ whole \in Seq(Icm!Byte)
  <2>1. w \in Nat /\ whole \in Seq(Icm!Byte) /\ n <= w /\ n \in Nat
    BY DEF Buffers
  <2> HIDE DEF w
  <2> QED BY <2>1
<1>2. /\ rest \in Buffers /\ rest # <<>> /\ Head(rest) = whole[k]
      /\ Tail(rest) = SubSeq(whole, k + 1, w)
  <2> HIDE DEF r
  <2> QED BY <1>1, Suffix DEF Buffers
<1>3. input \in IcmInputs /\ Reads(s, m, rest, input)
  BY DEF IcmRight
<1> DEFINE next == Icm!Collect(input, whole[k])
<1>4. IcmCollected(s, m, Tail(rest), input, next)
  <2> HIDE DEF rest
  <2>1. IcmCollected(s, m, Tail(rest), input, Icm!Collect(input, Head(rest)))
    BY <1>2, <1>3, IcmCollect, Zenon
  <2> QED BY <1>2, <2>1
<1> HIDE DEF next, rest, r, w
<1>5. /\ next \in IcmInputs /\ next.read = k
      /\ Reads(s, m, SubSeq(whole, k + 1, w), next)
  BY <1>1, <1>2, <1>4 DEF IcmCollected, r
<1>6. next.read \in 0 .. n /\ next.read # 0
  BY <1>5
<1>7. Reads(s, m, SubSeq(whole, next.read + 1, w), next)
  BY <1>5
<1> QED BY <1>5, <1>6, <1>7 DEF IcmRight, next, w

(* So does all that GetReply reads, by induction on the bytes. *)
LEMMA IcmReply ==
  ASSUME NEW s \in 0 .. 59, NEW m \in 0 .. 59, NEW whole \in Buffers,
         NEW text \in Seq(Icm!Byte), Len(text) <= Len(whole),
         \A i \in 1 .. Len(text) : text[i] = whole[i],
         NEW start, start = [read |-> 0, buffer |-> todBuffer, hunting |-> hunting, som |-> som,
                             complete |-> FALSE],
         start \in IcmInputs, Reads(s, m, whole, start)
  PROVE  Icm!GetReply(text) \in IcmRight(s, m, whole, Len(text))
<1> DEFINE n == Len(text)
           S == IcmRight(s, m, whole, n)
           reads(input, k) == input.read = k - 1 /\ ~input.complete /\ ~Icm!Full(input.buffer)
           collected(input, k) ==
             IF reads(input, k) THEN Icm!Collect(input, text[k]) ELSE input
           F == [p \in S \X (1 .. n) |-> collected(p[1], p[2])]
           step(f) == [k \in 0 .. n |->
                        IF k = 0 THEN start
                        ELSE CHOOSE next \in {Icm!Collect(input, text[k]) : input \in {f[k - 1]}} :
                               TRUE]
           after == CHOOSE f : f = step(f)
<1>0. n \in Nat /\ Len(whole) \in Nat /\ n <= Len(whole)
  BY DEF Buffers
<1>1. Icm!GetReply(text) = after[n]
  BY DEF Icm!GetReply
<1>2. start \in S
  <2>1. start.read = 0 /\ start.complete = FALSE
    OBVIOUS
  <2>2. SubSeq(whole, start.read + 1, Len(whole)) = whole
    BY <2>1, SubSeqFull DEF Buffers
  <2> HIDE DEF n
  <2>3. start.read \in 0 .. n
    BY <1>0, <2>1
  <2> QED BY <2>1, <2>2, <2>3 DEF IcmRight
<1>3. ASSUME NEW input \in S, NEW k \in 1 .. n, reads(input, k)
      PROVE  Icm!Collect(input, text[k]) \in S /\ Icm!Collect(input, text[k]).read = k
  <2>1. text[k] = whole[k]
    OBVIOUS
  <2>2. /\ input.read = k - 1 /\ ~input.complete /\ ~Icm!Full(input.buffer)
        /\ input \in IcmRight(s, m, whole, n) /\ k \in 1 .. n
    BY <1>3
  <2> HIDE DEF n, S, reads
  <2>3. /\ Icm!Collect(input, whole[k]) \in IcmRight(s, m, whole, n)
        /\ Icm!Collect(input, whole[k]).read = k
    BY <1>0, <2>2, IcmCollects, ZenonT(40)
  <2> QED BY <2>1, <2>3 DEF S
<1>4. F \in [S \X (1 .. n) -> S]
  <2> HIDE DEF S, reads
  <2>1. \A input \in S, k \in 1 .. n : collected(input, k) \in S
    BY <1>3
  <2> HIDE DEF collected
  <2> QED BY <2>1
<1>a. HasRecursive(n, S, start, F)
  <2> HIDE DEF S, F, n
  <2> QED BY <1>0, <1>2, <1>4, RecursiveFunction
<1>5. PICK g \in [0 .. n -> S] : g[0] = start /\ \A k \in 1 .. n : g[k] = F[<<g[k - 1], k>>]
  <2> HIDE DEF S, F, n
  <2> QED BY <1>a DEF HasRecursive, Recursive
<1> DEFINE over(input) == input.complete \/ Icm!Full(input.buffer)
           T == {k \in Nat : k <= n => over(g[k]) \/ g[k].read = k}
<1>6. ASSUME NEW k \in 1 .. n
      PROVE  k - 1 \in 0 .. n /\ g[k - 1] \in S /\ g[k] = collected(g[k - 1], k)
  <2>1. k - 1 \in 0 .. n
    <3> HIDE DEF n
    <3> QED BY <1>0
  <2>2. g[k - 1] \in S
    <3> HIDE DEF S, n
    <3> QED BY <2>1
  <2>3. F[<<g[k - 1], k>>] = collected(g[k - 1], k)
    <3> HIDE DEF S, n, collected
    <3> QED BY <2>2
  <2>4. g[k] = F[<<g[k - 1], k>>]
    BY <1>5
  <2> HIDE DEF S, n, collected, F
  <2> QED BY <2>1, <2>2, <2>3, <2>4
<1>7. 0 \in T
  BY <1>5
<1>8. ASSUME NEW k \in Nat, k \in T PROVE k + 1 \in T
  <2>1. SUFFICES ASSUME k + 1 <= n PROVE over(g[k + 1]) \/ g[k + 1].read = k + 1
    OBVIOUS
  <2>2. over(g[k]) \/ g[k].read = k
    <3> HIDE DEF over
    <3> QED BY <1>8, <2>1, <1>0
  <2>3. k + 1 \in 1 .. n /\ (k + 1) - 1 = k
    BY <2>1, <1>0
  <2>4. g[k] \in S /\ g[k + 1] = collected(g[k], k + 1)
    <3> HIDE DEF S, collected
    <3> QED BY <1>6, <2>3
  <2>5. CASE over(g[k])
    <3>1. ~reads(g[k], k + 1)
      BY <2>5
    <3> HIDE DEF reads, S
    <3> QED BY <2>4, <2>5, <3>1
  <2>6. CASE ~over(g[k])
    <3>1. reads(g[k], k + 1)
      BY <2>2, <2>3, <2>6
    <3> HIDE DEF S, reads
    <3>2. Icm!Collect(g[k], text[k + 1]).read = k + 1
      BY <2>3, <2>4, <3>1, <1>3
    <3> QED BY <2>4, <3>1, <3>2
  <2> QED BY <2>5, <2>6
<1>9. Nat \subseteq T
  <2> HIDE DEF T
  <2> QED BY <1>7, <1>8, SetInduction
<1>10. ASSUME NEW k \in 1 .. n
       PROVE  g[k] = Icm!Collect(g[k - 1], text[k])
  <2>1. CASE reads(g[k - 1], k)
    BY <2>1, <1>6
  <2>2. CASE ~reads(g[k - 1], k)
    <3>1. k - 1 \in Nat /\ k - 1 <= n
      BY <1>0
    <3>2. over(g[k - 1])
      BY <3>1, <2>2, <1>9
    <3> QED BY <2>2, <3>2, <1>6, Zenon DEF Icm!Collect
  <2> QED BY <2>1, <2>2
<1>11. g = step(g)
  <2> HIDE DEF S
  <2> QED BY <1>5, <1>10
<1>12. after = step(after)
  <2> HIDE DEF step
  <2> QED BY <1>11
<1> DEFINE U == {k \in Nat : k <= n => after[k] = g[k]}
<1>13. 0 \in U
  <2> HIDE DEF after
  <2> QED BY <1>0, <1>5, <1>12
<1>14. ASSUME NEW k \in Nat, k \in U PROVE k + 1 \in U
  <2>1. SUFFICES ASSUME k + 1 <= n PROVE after[k + 1] = g[k + 1]
    OBVIOUS
  <2>2. after[k] = g[k]
    <3> HIDE DEF after
    <3> QED BY <1>14, <2>1, <1>0
  <2>3. k + 1 \in 1 .. n /\ k + 1 \in 0 .. n /\ (k + 1) - 1 = k /\ k + 1 # 0
    BY <2>1, <1>0
  <2>4. after[k + 1] = Icm!Collect(after[k], text[k + 1])
    <3> HIDE DEF after, n
    <3> QED BY <1>12, <2>3, ZenonT(40)
  <2>5. g[k + 1] = Icm!Collect(g[k], text[k + 1])
    <3> HIDE DEF S, n
    <3> QED BY <1>10, <2>3
  <2> QED BY <2>2, <2>4, <2>5
<1>15. n \in U
  <2> HIDE DEF U
  <2> QED BY <1>0, <1>13, <1>14, SetInduction
<1>16. after[n] = g[n] /\ g[n] \in S
  <2> HIDE DEF S, after
  <2> QED BY <1>0, <1>5, <1>15
<1> QED BY <1>1, <1>16

-----------------------------------------------------------------------------
(* What the line loses. *)

(* What a line may hold after one byte of it was lost. *)
Less(bytes) == {Icm!RemoveAt(bytes, i) : i \in DOMAIN bytes}

(* What RemoveAt leaves. *)
LEMMA Removed ==
  ASSUME NEW S, NEW bytes \in Seq(S), NEW i \in 1 .. Len(bytes)
  PROVE  /\ Icm!RemoveAt(bytes, i) \in Seq(S)
         /\ Len(Icm!RemoveAt(bytes, i)) = Len(bytes) - 1
         /\ \A k \in 1 .. Len(bytes) - 1 :
              Icm!RemoveAt(bytes, i)[k] = IF k < i THEN bytes[k] ELSE bytes[k + 1]
<1> DEFINE n == Len(bytes)
           front == SubSeq(bytes, 1, i - 1)
           back == SubSeq(bytes, i + 1, n)
<1>1. n \in Nat /\ i \in 1 .. n /\ i \in Int /\ \A k \in 1 .. n : bytes[k] \in S
  OBVIOUS
<1>2. Icm!RemoveAt(bytes, i) = front \o back
  BY DEF Icm!RemoveAt
<1> HIDE DEF n
<1>3. /\ front \in Seq(S) /\ Len(front) = i - 1
      /\ \A k \in 1 .. i - 1 : front[k] = bytes[k]
  <2>1. \A k \in 1 .. i - 1 : bytes[k] \in S
    BY <1>1
  <2>2. /\ front \in Seq(S) /\ Len(front) = IF 1 <= i - 1 THEN (i - 1) - 1 + 1 ELSE 0
        /\ \A k \in 1 .. (i - 1) - 1 + 1 : front[k] = bytes[1 + k - 1]
    BY <1>1, <2>1, SubSeqProperties
  <2>3. Len(front) = i - 1
    BY <1>1, <2>2
  <2>4. \A k \in 1 .. i - 1 : front[k] = bytes[k]
    <3> TAKE k \in 1 .. i - 1
    <3>1. k \in 1 .. (i - 1) - 1 + 1 /\ 1 + k - 1 = k
      BY <1>1
    <3> QED BY <2>2, <3>1
  <2> QED BY <2>2, <2>3, <2>4
<1>4. /\ back \in Seq(S) /\ Len(back) = n - i
      /\ \A k \in 1 .. n - i : back[k] = bytes[i + k]
  <2>1. \A k \in i + 1 .. n : bytes[k] \in S
    BY <1>1
  <2>2. /\ back \in Seq(S) /\ Len(back) = IF i + 1 <= n THEN n - (i + 1) + 1 ELSE 0
        /\ \A k \in 1 .. n - (i + 1) + 1 : back[k] = bytes[(i + 1) + k - 1]
    <3> DEFINE a == i + 1
    <3>1. a \in Int /\ \A k \in a .. n : bytes[k] \in S
      BY <1>1, <2>1
    <3> HIDE DEF a
    <3>2. /\ SubSeq(bytes, a, n) \in Seq(S)
          /\ Len(SubSeq(bytes, a, n)) = IF a <= n THEN n - a + 1 ELSE 0
          /\ \A k \in 1 .. n - a + 1 : SubSeq(bytes, a, n)[k] = bytes[a + k - 1]
      BY <1>1, <3>1, SubSeqProperties
    <3> QED BY <3>2 DEF a
  <2>3. Len(back) = n - i
    BY <1>1, <2>2
  <2>4. \A k \in 1 .. n - i : back[k] = bytes[i + k]
    <3> TAKE k \in 1 .. n - i
    <3>1. k \in 1 .. n - (i + 1) + 1 /\ (i + 1) + k - 1 = i + k
      BY <1>1
    <3> QED BY <2>2, <3>1
  <2> QED BY <2>2, <2>3, <2>4
<1> HIDE DEF front, back
<1>5. /\ front \o back \in Seq(S) /\ Len(front \o back) = Len(front) + Len(back)
      /\ \A k \in 1 .. Len(front) + Len(back) :
           (front \o back)[k] = IF k <= Len(front) THEN front[k] ELSE back[k - Len(front)]
  BY <1>3, <1>4, ConcatProperties
<1>6. Len(front) + Len(back) = n - 1
  BY <1>1, <1>3, <1>4
<1>7. ASSUME NEW k \in 1 .. n - 1
      PROVE  (front \o back)[k] = IF k < i THEN bytes[k] ELSE bytes[k + 1]
  <2>1. CASE k < i
    <3>1. k <= Len(front) /\ k \in 1 .. i - 1
      BY <1>1, <1>3, <2>1
    <3> QED BY <1>3, <1>5, <1>6, <2>1, <3>1
  <2>2. CASE ~(k < i)
    <3>1. ~(k <= Len(front)) /\ k - Len(front) \in 1 .. n - i /\ i + (k - Len(front)) = k + 1
      BY <1>1, <1>3, <2>2
    <3>2. (front \o back)[k] = back[k - Len(front)]
      BY <1>5, <1>6, <3>1
    <3> QED BY <1>4, <2>2, <3>1, <3>2
  <2> QED BY <2>1, <2>2
<1> QED BY <1>2, <1>5, <1>6, <1>7 DEF n

(* The elements of Put. *)
LEMMA PutBytes ==
  ASSUME NEW S, NEW c \in S, NEW rest \in Seq(S)
  PROVE  /\ Put(c, rest) \in Seq(S) /\ Len(Put(c, rest)) = Len(rest) + 1
         /\ Put(c, rest)[1] = c
         /\ \A k \in 1 .. Len(rest) : Put(c, rest)[k + 1] = rest[k]
<1> DEFINE u == <<c>>
<1>1. u \in Seq(S) /\ Len(u) = 1 /\ u[1] = c
  OBVIOUS
<1> HIDE DEF u
<1>2. /\ u \o rest \in Seq(S) /\ Len(u \o rest) = Len(u) + Len(rest)
      /\ \A i \in 1 .. Len(u) + Len(rest) :
           (u \o rest)[i] = IF i <= Len(u) THEN u[i] ELSE rest[i - Len(u)]
  BY <1>1, ConcatProperties
<1>3. Len(rest) \in Nat
  OBVIOUS
<1>4. Len(u \o rest) = Len(rest) + 1
  BY <1>1, <1>2, <1>3
<1>5. (u \o rest)[1] = c /\ \A k \in 1 .. Len(rest) : (u \o rest)[k + 1] = rest[k]
  BY <1>1, <1>2, <1>3
<1> QED BY <1>2, <1>4, <1>5 DEF Put, u

(* The byte that is lost is the first, or one of the others. *)
LEMMA LessPut ==
  ASSUME NEW S, NEW c \in S, NEW rest \in Seq(S), NEW t \in Less(Put(c, rest))
  PROVE  t = rest \/ \E u \in Less(rest) : t = Put(c, u)
<1> DEFINE n == Len(rest)
           w == Put(c, rest)
<1>1. /\ n \in Nat /\ w \in Seq(S) /\ Len(w) = n + 1 /\ w[1] = c
      /\ \A k \in 1 .. n : w[k + 1] = rest[k]
  <2>1. /\ Put(c, rest) \in Seq(S) /\ Len(Put(c, rest)) = Len(rest) + 1
        /\ Put(c, rest)[1] = c
        /\ \A k \in 1 .. Len(rest) : Put(c, rest)[k + 1] = rest[k]
    BY PutBytes
  <2>2. n \in Nat
    OBVIOUS
  <2> QED BY <2>1, <2>2
<1>2. PICK i \in 1 .. Len(w) : t = Icm!RemoveAt(w, i)
  BY <1>1 DEF Less
<1> HIDE DEF w
<1>3. /\ t \in Seq(S) /\ Len(t) = Len(w) - 1
      /\ \A k \in 1 .. Len(w) - 1 : t[k] = IF k < i THEN w[k] ELSE w[k + 1]
  BY <1>1, <1>2, Removed
<1> HIDE DEF n
<1>4. /\ t \in Seq(S) /\ Len(t) = n /\ i \in 1 .. n + 1
      /\ \A k \in 1 .. n : t[k] = IF k < i THEN w[k] ELSE w[k + 1]
  <2>1. Len(w) - 1 = n /\ Len(w) = n + 1
    BY <1>1
  <2>2. i \in 1 .. n + 1
    BY <2>1
  <2> QED BY <1>3, <2>1, <2>2
<1>5. CASE i = 1
  <2>1. \A k \in 1 .. n : t[k] = rest[k]
    BY <1>1, <1>4, <1>5
  <2>2. t = rest
    BY <1>4, <2>1, SeqEqual DEF n
  <2> QED BY <2>2
<1>6. CASE i # 1
  <2> DEFINE a == i - 1
             u == Icm!RemoveAt(rest, a)
  <2>1. a \in 1 .. n /\ i = a + 1
    BY <1>1, <1>4, <1>6
  <2> HIDE DEF a
  <2>2. u \in Less(rest)
    BY <2>1 DEF Less, n
  <2>3. /\ u \in Seq(S) /\ Len(u) = n - 1
        /\ \A k \in 1 .. n - 1 : u[k] = IF k < a THEN rest[k] ELSE rest[k + 1]
    BY <2>1, Removed DEF n
  <2> HIDE DEF u
  <2>4. /\ Put(c, u) \in Seq(S) /\ Len(Put(c, u)) = (n - 1) + 1 /\ Put(c, u)[1] = c
        /\ \A k \in 1 .. n - 1 : Put(c, u)[k + 1] = u[k]
    <3>1. /\ Put(c, u) \in Seq(S) /\ Len(Put(c, u)) = Len(u) + 1
          /\ Put(c, u)[1] = c
          /\ \A k \in 1 .. Len(u) : Put(c, u)[k + 1] = u[k]
      <4>1. u \in Seq(S)
        BY <2>3
      <4> QED BY <4>1, PutBytes
    <3>2. Len(u) = n - 1
      BY <2>3
    <3> QED BY <3>1, <3>2
  <2>5. Len(Put(c, u)) = n
    BY <1>1, <2>4
  <2>6. ASSUME NEW k \in 1 .. n PROVE t[k] = Put(c, u)[k]
    <3>1. CASE k = 1
      BY <1>1, <1>4, <2>1, <2>4, <3>1
    <3>2. CASE k # 1
      <4> DEFINE h == k - 1
      <4>1. h \in 1 .. n - 1 /\ h \in 1 .. n /\ k = h + 1
        BY <1>1, <3>2
      <4> HIDE DEF h
      <4>2. Put(c, u)[k] = u[h]
        BY <2>4, <4>1
      <4>3. CASE k < i
        <5>1. h < a
          BY <2>1, <4>1, <4>3
        <5>2. t[k] = w[k] /\ w[k] = rest[h] /\ u[h] = rest[h]
          BY <1>1, <1>4, <2>3, <4>1, <4>3, <5>1
        <5> QED BY <4>2, <5>2
      <4>4. CASE ~(k < i)
        <5>1. ~(h < a) /\ h + 1 \in 1 .. n
          BY <2>1, <4>1, <4>4
        <5>2. t[k] = w[k + 1] /\ w[k + 1] = rest[k] /\ u[h] = rest[h + 1]
          BY <1>1, <1>4, <2>3, <4>1, <4>4, <5>1
        <5> QED BY <4>1, <4>2, <5>2
      <4> QED BY <4>3, <4>4
    <3> QED BY <3>1, <3>2
  <2>7. t = Put(c, u)
    BY <1>4, <2>4, <2>5, <2>6, SeqEqual
  <2> QED BY <2>2, <2>7
<1> QED BY <1>5, <1>6

(* What is left of safe bytes is safe. *)
LEMMA LessSafe ==
  ASSUME NEW S, NEW rest \in Seq(S), NEW t \in Less(rest)
  PROVE  t \in Seq(S)
<1>1. PICK i \in 1 .. Len(rest) : t = Icm!RemoveAt(rest, i)
  BY DEF Less
<1> QED BY <1>1, Removed

(* A rest is whole if the byte that was lost came before it. *)
LEMMA WholeRest ==
  ASSUME NEW s, NEW m, NEW f, NEW j \in 4 .. 12
  PROVE
    /\ j <= 10 => R10(s, m, j, f) = R10(s, m, 12, f)
    /\ j <= 9 => R9(s, m, j, f) = R9(s, m, 12, f)
    /\ j <= 8 => R8(s, m, j, f) = R8(s, m, 12, f)
    /\ j <= 7 => R7(s, m, j, f) = R7(s, m, 12, f)
    /\ j <= 6 => R6(s, m, j, f) = R6(s, m, 12, f)
    /\ j <= 5 => R5(s, m, j, f) = R5(s, m, 12, f)
    /\ j <= 4 => R4(s, m, j, f) = R4(s, m, 12, f)
<1>10. j <= 10 => R10(s, m, j, f) = R10(s, m, 12, f)
  BY DEF R10, Unless
<1>9. j <= 9 => R9(s, m, j, f) = R9(s, m, 12, f)
  BY <1>10 DEF R9, Unless
<1>8. j <= 8 => R8(s, m, j, f) = R8(s, m, 12, f)
  BY <1>9 DEF R8, Unless
<1>7. j <= 7 => R7(s, m, j, f) = R7(s, m, 12, f)
  BY <1>8 DEF R7, Unless
<1>6. j <= 6 => R6(s, m, j, f) = R6(s, m, 12, f)
  BY <1>7 DEF R6, Unless
<1>5. j <= 5 => R5(s, m, j, f) = R5(s, m, 12, f)
  BY <1>6 DEF R5, Unless
<1>4. j <= 4 => R4(s, m, j, f) = R4(s, m, 12, f)
  BY <1>5 DEF R4, Unless
<1> QED BY <1>4, <1>5, <1>6, <1>7, <1>8, <1>9, <1>10

(* What is left of a PTI from the EOM on when one of its bytes is lost. *)
LEMMA LessRest10 ==
  ASSUME NEW s \in 0 .. 59, NEW m \in 0 .. 59, NEW f \in {1, 3}, NEW t \in Less(R10(s, m, 12, f))
  PROVE  \E j \in 11 .. 11 : t = R10(s, m, j, f)
<1>1. R10(s, m, 12, f) = Put(3, <<>>) /\ R10(s, m, 11, f) = <<>>
  BY DEF R10, Unless
<1>2. 3 \in Safe /\ <<>> \in Seq(Safe) /\ Less(<<>>) = {}
  BY SafeBytes DEF Less
<1> DEFINE none == <<>>
<1>3. t \in Less(Put(3, none)) /\ none \in Seq(Safe) /\ 3 \in Safe
  BY <1>1, <1>2
<1> HIDE DEF none
<1>4. t = none \/ \E u \in Less(none) : t = Put(3, u)
  BY <1>3, LessPut
<1>5. t = <<>>
  BY <1>2, <1>4 DEF none
<1> QED BY <1>1, <1>5

(* What is left of a PTI from the trailing SOM on when one of its bytes is *)
(* lost.                                                                   *)
LEMMA LessRest9 ==
  ASSUME NEW s \in 0 .. 59, NEW m \in 0 .. 59, NEW f \in {1, 3}, NEW t \in Less(R9(s, m, 12, f))
  PROVE  \E j \in 10 .. 11 : t = R9(s, m, j, f)
<1> DEFINE rest == R10(s, m, 12, f)
<1>1. rest \in Seq(Safe) /\ 16 \in Safe
  <2>1. rest \in Seq(Safe)
    BY RestSafe, Zenon
  <2>2. 16 \in Safe
    BY DEF Safe, Icm!Byte
  <2> QED BY <2>1, <2>2
<1>3. CASE TRUE
  <2>1. R9(s, m, 12, f) = Put(16, rest)
    BY <1>3 DEF R9, Unless
  <2> HIDE DEF rest
  <2>2. t = rest \/ \E u \in Less(rest) : t = Put(16, u)
    BY <1>1, <2>1, LessPut
  <2>3. CASE t = rest
    <3>1. R9(s, m, 10, f) = R10(s, m, 10, f)
      BY DEF R9, Unless
    <3>2. R10(s, m, 10, f) = rest
      BY WholeRest DEF rest
    <3> QED BY <2>3, <3>1, <3>2
  <2>4. CASE \E u \in Less(rest) : t = Put(16, u)
    <3>1. PICK u \in Less(rest) : t = Put(16, u)
      BY <2>4
    <3>2. PICK j \in 11 .. 11 : u = R10(s, m, j, f)
      BY <3>1, LessRest10 DEF rest
    <3>3. j \in 10 .. 11 /\ j # 10 /\ j \in Int
      BY <3>2
    <3>4. t = R9(s, m, j, f)
      BY <1>3, <3>1, <3>2, <3>3 DEF R9, Unless
    <3> QED BY <3>3, <3>4
  <2> QED BY <2>2, <2>3, <2>4
<1> QED BY <1>3

(* What is left of a PTI from the hours on when one of its bytes is lost. *)
LEMMA LessRest8 ==
  ASSUME NEW s \in 0 .. 59, NEW m \in 0 .. 59, NEW f \in {1, 3}, NEW t \in Less(R8(s, m, 12, f))
  PROVE  \E j \in 9 .. 11 : t = R8(s, m, j, f)
<1> DEFINE rest == R9(s, m, 12, f)
<1>1. rest \in Seq(Safe) /\ 0 \in Safe
  <2>1. rest \in Seq(Safe)
    BY RestSafe, Zenon
  <2>2. 0 \in Safe
    BY DEF Safe, Icm!Byte
  <2> QED BY <2>1, <2>2
<1>3. CASE TRUE
  <2>1. R8(s, m, 12, f) = Put(0, rest)
    BY <1>3 DEF R8, Unless
  <2> HIDE DEF rest
  <2>2. t = rest \/ \E u \in Less(rest) : t = Put(0, u)
    BY <1>1, <2>1, LessPut
  <2>3. CASE t = rest
    <3>1. R8(s, m, 9, f) = R9(s, m, 9, f)
      BY DEF R8, Unless
    <3>2. R9(s, m, 9, f) = rest
      BY WholeRest DEF rest
    <3> QED BY <2>3, <3>1, <3>2
  <2>4. CASE \E u \in Less(rest) : t = Put(0, u)
    <3>1. PICK u \in Less(rest) : t = Put(0, u)
      BY <2>4
    <3>2. PICK j \in 10 .. 11 : u = R9(s, m, j, f)
      BY <3>1, LessRest9 DEF rest
    <3>3. j \in 9 .. 11 /\ j # 9 /\ j \in Int
      BY <3>2
    <3>4. t = R8(s, m, j, f)
      BY <1>3, <3>1, <3>2, <3>3 DEF R8, Unless
    <3> QED BY <3>3, <3>4
  <2> QED BY <2>2, <2>3, <2>4
<1> QED BY <1>3

(* What is left of a PTI from the SOM after minutes of 16 on when one of its *)
(* bytes is lost.                                                            *)
LEMMA LessRest7 ==
  ASSUME NEW s \in 0 .. 59, NEW m \in 0 .. 59, NEW f \in {1, 3}, NEW t \in Less(R7(s, m, 12, f))
  PROVE  \E j \in 8 .. 11 : t = R7(s, m, j, f)
<1> DEFINE rest == R8(s, m, 12, f)
<1>1. rest \in Seq(Safe) /\ 16 \in Safe
  <2>1. rest \in Seq(Safe)
    BY RestSafe, Zenon
  <2>2. 16 \in Safe
    BY DEF Safe, Icm!Byte
  <2> QED BY <2>1, <2>2
<1>2. CASE m # 16
  <2>1. \A j : R7(s, m, j, f) = R8(s, m, j, f)
    BY <1>2 DEF R7, Unless
  <2>2. t \in Less(rest)
    BY <2>1
  <2>3. PICK j \in 9 .. 11 : t = R8(s, m, j, f)
    BY <2>2, LessRest8
  <2>4. t = R7(s, m, j, f) /\ j \in 8 .. 11
    BY <2>1, <2>3
  <2> QED BY <2>4
<1>3. CASE m = 16
  <2>1. R7(s, m, 12, f) = Put(16, rest)
    BY <1>3 DEF R7, Unless
  <2> HIDE DEF rest
  <2>2. t = rest \/ \E u \in Less(rest) : t = Put(16, u)
    BY <1>1, <2>1, LessPut
  <2>3. CASE t = rest
    <3>1. R7(s, m, 8, f) = R8(s, m, 8, f)
      BY DEF R7, Unless
    <3>2. R8(s, m, 8, f) = rest
      BY WholeRest DEF rest
    <3> QED BY <2>3, <3>1, <3>2
  <2>4. CASE \E u \in Less(rest) : t = Put(16, u)
    <3>1. PICK u \in Less(rest) : t = Put(16, u)
      BY <2>4
    <3>2. PICK j \in 9 .. 11 : u = R8(s, m, j, f)
      BY <3>1, LessRest8 DEF rest
    <3>3. j \in 8 .. 11 /\ j # 8 /\ j \in Int
      BY <3>2
    <3>4. t = R7(s, m, j, f)
      BY <1>3, <3>1, <3>2, <3>3 DEF R7, Unless
    <3> QED BY <3>3, <3>4
  <2> QED BY <2>2, <2>3, <2>4
<1> QED BY <1>3, <1>2

(* What is left of a PTI from the minutes on when one of its bytes is lost. *)
LEMMA LessRest6 ==
  ASSUME NEW s \in 0 .. 59, NEW m \in 0 .. 59, NEW f \in {1, 3}, NEW t \in Less(R6(s, m, 12, f))
  PROVE  \E j \in 7 .. 11 : t = R6(s, m, j, f)
<1> DEFINE rest == R7(s, m, 12, f)
<1>1. rest \in Seq(Safe) /\ m \in Safe
  <2>1. rest \in Seq(Safe)
    BY RestSafe, Zenon
  <2>2. m \in Safe
    BY DEF Safe, Icm!Byte
  <2> QED BY <2>1, <2>2
<1>3. CASE TRUE
  <2>1. R6(s, m, 12, f) = Put(m, rest)
    BY <1>3 DEF R6, Unless
  <2> HIDE DEF rest
  <2>2. t = rest \/ \E u \in Less(rest) : t = Put(m, u)
    BY <1>1, <2>1, LessPut
  <2>3. CASE t = rest
    <3>1. R6(s, m, 7, f) = R7(s, m, 7, f)
      BY DEF R6, Unless
    <3>2. R7(s, m, 7, f) = rest
      BY WholeRest DEF rest
    <3> QED BY <2>3, <3>1, <3>2
  <2>4. CASE \E u \in Less(rest) : t = Put(m, u)
    <3>1. PICK u \in Less(rest) : t = Put(m, u)
      BY <2>4
    <3>2. PICK j \in 8 .. 11 : u = R7(s, m, j, f)
      BY <3>1, LessRest7 DEF rest
    <3>3. j \in 7 .. 11 /\ j # 7 /\ j \in Int
      BY <3>2
    <3>4. t = R6(s, m, j, f)
      BY <1>3, <3>1, <3>2, <3>3 DEF R6, Unless
    <3> QED BY <3>3, <3>4
  <2> QED BY <2>2, <2>3, <2>4
<1> QED BY <1>3

(* What is left of a PTI from the SOM after seconds of 16 on when one of its *)
(* bytes is lost.                                                            *)
LEMMA LessRest5 ==
  ASSUME NEW s \in 0 .. 59, NEW m \in 0 .. 59, NEW f \in {1, 3}, NEW t \in Less(R5(s, m, 12, f))
  PROVE  \E j \in 6 .. 11 : t = R5(s, m, j, f)
<1> DEFINE rest == R6(s, m, 12, f)
<1>1. rest \in Seq(Safe) /\ 16 \in Safe
  <2>1. rest \in Seq(Safe)
    BY RestSafe, Zenon
  <2>2. 16 \in Safe
    BY DEF Safe, Icm!Byte
  <2> QED BY <2>1, <2>2
<1>2. CASE s # 16
  <2>1. \A j : R5(s, m, j, f) = R6(s, m, j, f)
    BY <1>2 DEF R5, Unless
  <2>2. t \in Less(rest)
    BY <2>1
  <2>3. PICK j \in 7 .. 11 : t = R6(s, m, j, f)
    BY <2>2, LessRest6
  <2>4. t = R5(s, m, j, f) /\ j \in 6 .. 11
    BY <2>1, <2>3
  <2> QED BY <2>4
<1>3. CASE s = 16
  <2>1. R5(s, m, 12, f) = Put(16, rest)
    BY <1>3 DEF R5, Unless
  <2> HIDE DEF rest
  <2>2. t = rest \/ \E u \in Less(rest) : t = Put(16, u)
    BY <1>1, <2>1, LessPut
  <2>3. CASE t = rest
    <3>1. R5(s, m, 6, f) = R6(s, m, 6, f)
      BY DEF R5, Unless
    <3>2. R6(s, m, 6, f) = rest
      BY WholeRest DEF rest
    <3> QED BY <2>3, <3>1, <3>2
  <2>4. CASE \E u \in Less(rest) : t = Put(16, u)
    <3>1. PICK u \in Less(rest) : t = Put(16, u)
      BY <2>4
    <3>2. PICK j \in 7 .. 11 : u = R6(s, m, j, f)
      BY <3>1, LessRest6, Zenon DEF rest
    <3>3. j \in 6 .. 11 /\ j # 6 /\ j \in Int
      BY <3>2
    <3>4. t = R5(s, m, j, f)
      BY <1>3, <3>1, <3>2, <3>3 DEF R5, Unless
    <3> QED BY <3>3, <3>4
  <2> QED BY <2>2, <2>3, <2>4
<1> QED BY <1>3, <1>2

(* What is left of a PTI from the seconds on when one of its bytes is lost. *)
LEMMA LessRest4 ==
  ASSUME NEW s \in 0 .. 59, NEW m \in 0 .. 59, NEW f \in {1, 3}, NEW t \in Less(R4(s, m, 12, f))
  PROVE  \E j \in 5 .. 11 : t = R4(s, m, j, f)
<1> DEFINE rest == R5(s, m, 12, f)
<1>1. rest \in Seq(Safe) /\ s \in Safe
  <2>1. rest \in Seq(Safe)
    BY RestSafe, Zenon
  <2>2. s \in Safe
    BY DEF Safe, Icm!Byte
  <2> QED BY <2>1, <2>2
<1>3. CASE TRUE
  <2>1. R4(s, m, 12, f) = Put(s, rest)
    BY <1>3 DEF R4, Unless
  <2> HIDE DEF rest
  <2>2. t = rest \/ \E u \in Less(rest) : t = Put(s, u)
    BY <1>1, <2>1, LessPut
  <2>3. CASE t = rest
    <3>1. R4(s, m, 5, f) = R5(s, m, 5, f)
      BY DEF R4, Unless
    <3>2. R5(s, m, 5, f) = rest
      BY WholeRest DEF rest
    <3> QED BY <2>3, <3>1, <3>2
  <2>4. CASE \E u \in Less(rest) : t = Put(s, u)
    <3>1. PICK u \in Less(rest) : t = Put(s, u)
      BY <2>4
    <3>2. PICK j \in 6 .. 11 : u = R5(s, m, j, f)
      BY <3>1, LessRest5, Zenon DEF rest
    <3>3. j \in 5 .. 11 /\ j # 5 /\ j \in Int
      BY <3>2
    <3>4. t = R4(s, m, j, f)
      BY <1>3, <3>1, <3>2, <3>3 DEF R4, Unless
    <3> QED BY <3>3, <3>4
  <2> QED BY <2>2, <2>3, <2>4
<1> QED BY <1>3

(* What is left of a PTI from the flag on when one of its bytes is lost. *)
LEMMA LessRest3 ==
  ASSUME NEW s \in 0 .. 59, NEW m \in 0 .. 59, NEW f \in {1, 3}, NEW t \in Less(R3(s, m, 12, f))
  PROVE  \E j \in 4 .. 11 : t = R3(s, m, j, f)
<1> DEFINE rest == R4(s, m, 12, f)
<1>1. rest \in Seq(Safe) /\ f \in Safe
  <2>1. rest \in Seq(Safe)
    BY RestSafe, Zenon
  <2>2. f \in Safe
    BY DEF Safe, Icm!Byte
  <2> QED BY <2>1, <2>2
<1>3. CASE TRUE
  <2>1. R3(s, m, 12, f) = Put(f, rest)
    BY <1>3 DEF R3, Unless
  <2> HIDE DEF rest
  <2>2. t = rest \/ \E u \in Less(rest) : t = Put(f, u)
    BY <1>1, <2>1, LessPut
  <2>3. CASE t = rest
    <3>1. R3(s, m, 4, f) = R4(s, m, 4, f)
      BY DEF R3, Unless
    <3>2. R4(s, m, 4, f) = rest
      BY WholeRest DEF rest
    <3> QED BY <2>3, <3>1, <3>2
  <2>4. CASE \E u \in Less(rest) : t = Put(f, u)
    <3>1. PICK u \in Less(rest) : t = Put(f, u)
      BY <2>4
    <3>2. PICK j \in 5 .. 11 : u = R4(s, m, j, f)
      BY <3>1, LessRest4, Zenon DEF rest
    <3>3. j \in 4 .. 11 /\ j # 4 /\ j \in Int
      BY <3>2
    <3>4. t = R3(s, m, j, f)
      BY <1>3, <3>1, <3>2, <3>3 DEF R3, Unless
    <3> QED BY <3>3, <3>4
  <2> QED BY <2>2, <2>3, <2>4
<1> QED BY <1>3

(* A packet on the line, whole or without a byte, is right for a buffer *)
(* before a packet.                                                     *)
LEMMA Sent ==
  ASSUME NEW s \in 0 .. 59, NEW m \in 0 .. 59, NEW x \in Ids, NEW rest \in Seq(Safe), rest # <<>>,
         x = 171 => \E f \in {1, 3} : rest = R3(s, m, 12, f),
         NEW bytes, bytes = Put(16, Put(143, Put(x, rest))), NEW t \in {bytes} \cup Less(bytes),
         NEW b, NEW odd, Before(b, odd)
  PROVE  t \in Buffers /\ IcmReads(s, m, t, b, odd)
<1>0. x \in Icm!Byte /\ 143 \in Icm!Byte /\ 16 \in Icm!Byte /\ rest \in Seq(Icm!Byte)
  <2>1. x \in Icm!Byte /\ 143 \in Icm!Byte /\ 16 \in Icm!Byte
    BY DEF Ids, Icm!Byte
  <2>2. rest \in Seq(Icm!Byte)
    BY LineBytes DEF Buffers
  <2> QED BY <2>1, <2>2
<1> DEFINE two == Put(x, rest)
           one == Put(143, two)
<1>1. two \in Seq(Icm!Byte) /\ one \in Seq(Icm!Byte)
  <2>1. two \in Seq(Icm!Byte)
    BY <1>0, PutBytes
  <2> HIDE DEF two
  <2> QED BY <1>0, <2>1, PutBytes
<1>2. x = 171 => \A l \in 0 .. 3 : Ptis(s, m, l, rest)
  BY DEF Ptis
<1>3. ASSUME NEW l \in 0 .. 3, t = Line0(l, x, rest)
      PROVE  t \in Buffers /\ IcmReads(s, m, t, b, odd)
  <2>1. Coming(s, m, l, x, rest)
    BY <1>2 DEF Coming
  <2>2. Opening(t, b, odd, l, x, rest)
    BY <1>3 DEF Opening
  <2>3. IcmReads(s, m, t, b, odd)
    BY <2>1, <2>2 DEF IcmReads
  <2>4. t \in Buffers
    BY <1>3, LineBytes
  <2> QED BY <2>3, <2>4
<1>4. CASE t = bytes
  <2>1. t = Line0(0, x, rest)
    BY <1>4 DEF Line0, Line1, Line2, Unless
  <2> QED BY <1>3, <2>1
<1>5. CASE t \in Less(bytes)
  <2>0. bytes = Put(16, one)
    OBVIOUS
  <2>1. t = one \/ \E u \in Less(one) : t = Put(16, u)
    <3> HIDE DEF one
    <3> QED BY <1>0, <1>1, <1>5, <2>0, LessPut
  <2>2. CASE t = one
    <3>1. t = Line0(1, x, rest)
      BY <2>2 DEF Line0, Line1, Line2, Unless
    <3> QED BY <1>3, <3>1
  <2>3. CASE \E u \in Less(one) : t = Put(16, u)
    <3>1. PICK u \in Less(one) : t = Put(16, u)
      BY <2>3
    <3>2. u = two \/ \E v \in Less(two) : u = Put(143, v)
      <4> HIDE DEF two
      <4> QED BY <1>0, <1>1, LessPut
    <3>3. CASE u = two
      <4>1. t = Line0(2, x, rest)
        BY <3>1, <3>3 DEF Line0, Line1, Line2, Unless
      <4> QED BY <1>3, <4>1
    <3>4. CASE \E v \in Less(two) : u = Put(143, v)
      <4>1. PICK v \in Less(two) : u = Put(143, v)
        BY <3>4
      <4>2. v = rest \/ \E y \in Less(rest) : v = Put(x, y)
        BY <1>0, LessPut
      <4>3. CASE v = rest
        <5>1. t = Line0(3, x, rest)
          BY <3>1, <4>1, <4>3 DEF Line0, Line1, Line2, Unless
        <5> QED BY <1>3, <5>1
      <4>4. CASE \E y \in Less(rest) : v = Put(x, y)
        <5>1. PICK y \in Less(rest) : v = Put(x, y)
          BY <4>4
        <5>2. y \in Seq(Safe)
          BY LessSafe
        <5>3. t = Line0(0, x, y)
          BY <3>1, <4>1, <5>1 DEF Line0, Line1, Line2, Unless
        <5>4. x = 171 => Ptis(s, m, 0, y)
          <6>1. SUFFICES ASSUME x = 171 PROVE Ptis(s, m, 0, y)
            OBVIOUS
          <6>2. PICK f \in {1, 3} : rest = R3(s, m, 12, f)
            BY <6>1
          <6>3. PICK j \in 4 .. 11 : y = R3(s, m, j, f)
            BY <6>2, LessRest3, Zenon
          <6> QED BY <6>3, SMTT(20) DEF Ptis
        <5>5. Coming(s, m, 0, x, y)
          BY <5>4 DEF Coming
        <5>6. Opening(t, b, odd, 0, x, y)
          BY <5>3 DEF Opening
        <5>7. IcmReads(s, m, t, b, odd)
          BY <5>2, <5>5, <5>6 DEF IcmReads
        <5>8. t \in Buffers
          BY <5>2, <5>3, LineBytes
        <5> QED BY <5>7, <5>8
      <4> QED BY <4>2, <4>3, <4>4
    <3> QED BY <3>2, <3>3, <3>4
  <2> QED BY <2>1, <2>2, <2>3
<1> QED BY <1>4, <1>5

-----------------------------------------------------------------------------
(* What the receiver sends. *)

(* The values of the recursive function of FlattenSeq. *)
Flattens(S, seqs, g) ==
  /\ g[1] = seqs[1]
  /\ \A i \in 2 .. Len(seqs) : g[i] = g[i - 1] \o seqs[i]
  /\ \A i \in 1 .. Len(seqs) : g[i] \in Seq(S)
  /\ Icm!FlattenSeq(seqs) = g[Len(seqs)]

HasFlattened(S, seqs) == \E g : Flattens(S, seqs, g)

(* What the recursive function of FlattenSeq is. *)
LEMMA Flattened ==
  ASSUME NEW S, NEW seqs \in Seq(Seq(S)), Len(seqs) >= 1
  PROVE  HasFlattened(S, seqs)
<1> DEFINE n == Len(seqs)
           T == Seq(S)
           F == [p \in T \X (1 .. n - 1) |-> p[1] \o seqs[p[2] + 1]]
           step(f) == [i \in 1 .. n |-> IF i = 1 THEN seqs[i] ELSE f[i - 1] \o seqs[i]]
           flatten == CHOOSE f : f = step(f)
<1>0. n \in Nat /\ n >= 1 /\ n - 1 \in Nat /\ n # 0 /\ \A i \in 1 .. n : seqs[i] \in T
  OBVIOUS
<1>1. Icm!FlattenSeq(seqs) = flatten[n]
  BY <1>0 DEF Icm!FlattenSeq
<1> HIDE DEF n
<1>2. F \in [T \X (1 .. n - 1) -> T]
  <2>1. \A u \in T, k \in 1 .. n - 1 : u \o seqs[k + 1] \in T
    <3> TAKE u \in T, k \in 1 .. n - 1
    <3>1. seqs[k + 1] \in Seq(S) /\ u \in Seq(S)
      BY <1>0
    <3> QED BY <3>1, ConcatProperties
  <2> HIDE DEF T
  <2> QED BY <2>1
<1>3. seqs[1] \in T
  BY <1>0
<1>4. HasRecursive(n - 1, T, seqs[1], F)
  <2> HIDE DEF T, F
  <2> QED BY <1>0, <1>2, <1>3, RecursiveFunction
<1>5. PICK h \in [0 .. n - 1 -> T] :
        h[0] = seqs[1] /\ \A k \in 1 .. n - 1 : h[k] = F[<<h[k - 1], k>>]
  <2> HIDE DEF T, F
  <2> QED BY <1>4 DEF HasRecursive, Recursive
<1> DEFINE g == [i \in 1 .. n |-> h[i - 1]]
<1>6. ASSUME NEW i \in 2 .. n PROVE g[i] = g[i - 1] \o seqs[i]
  <2> DEFINE k == i - 1
  <2>1. k \in 1 .. n - 1 /\ k - 1 \in 0 .. n - 1 /\ i = k + 1 /\ k \in 1 .. n /\ i \in 1 .. n
    BY <1>0
  <2> HIDE DEF k
  <2>2. h[k] = F[<<h[k - 1], k>>] /\ h[k - 1] \in T
    <3> HIDE DEF T, F
    <3> QED BY <1>5, <2>1
  <2>3. F[<<h[k - 1], k>>] = h[k - 1] \o seqs[k + 1]
    <3> HIDE DEF T
    <3> QED BY <2>1, <2>2
  <2>4. g[i] = h[k] /\ g[k] = h[k - 1]
    BY <2>1
  <2>5. g[i] = g[k] \o seqs[i]
    BY <2>1, <2>2, <2>3, <2>4
  <2> QED BY <2>5 DEF k
<1>7. g[1] = seqs[1]
  BY <1>0, <1>5
<1>8. \A i \in 1 .. n : g[i] \in T
  <2> HIDE DEF T
  <2> TAKE i \in 1 .. n
  <2>1. i - 1 \in 0 .. n - 1
    BY <1>0
  <2> QED BY <2>1
<1>9. g = step(g)
  <2>1. \A i \in 1 .. n : g[i] = IF i = 1 THEN seqs[i] ELSE g[i - 1] \o seqs[i]
    <3> TAKE i \in 1 .. n
    <3>1. CASE i = 1
      <4> HIDE DEF g
      <4> QED BY <3>1, <1>7
    <3>2. CASE i # 1
      <4>1. i \in 2 .. n
        BY <1>0, <3>2
      <4>2. g[i] = g[i - 1] \o seqs[i]
        BY <4>1, <1>6
      <4> HIDE DEF g
      <4> QED BY <3>2, <4>2
    <3> QED BY <3>1, <3>2
  <2>2. step(g) = [i \in 1 .. n |-> g[i]]
    <3> HIDE DEF g
    <3> QED BY <2>1
  <2>3. g = [i \in 1 .. n |-> g[i]]
    OBVIOUS
  <2> HIDE DEF g, step
  <2> QED BY <2>2, <2>3
<1>10. flatten = step(flatten)
  <2> HIDE DEF step
  <2> QED BY <1>9
<1> DEFINE U == {k \in Nat : k + 1 <= n => flatten[k + 1] = g[k + 1]}
<1>11. 0 \in U
  <2>1. 1 \in 1 .. n
    BY <1>0
  <2>2. flatten[1] = seqs[1]
    <3>1. step(flatten)[1] = seqs[1]
      <4> HIDE DEF flatten
      <4> QED BY <2>1
    <3> HIDE DEF flatten, step
    <3> QED BY <1>10, <3>1
  <2> HIDE DEF flatten, g
  <2> QED BY <1>7, <2>2
<1>12. ASSUME NEW k \in Nat, k \in U PROVE k + 1 \in U
  <2>1. SUFFICES ASSUME (k + 1) + 1 <= n PROVE flatten[(k + 1) + 1] = g[(k + 1) + 1]
    OBVIOUS
  <2> DEFINE a == k + 1
  <2>2. flatten[a] = g[a]
    <3> HIDE DEF flatten, g
    <3> QED BY <1>12, <2>1, <1>0
  <2>3. a + 1 \in 2 .. n /\ a + 1 \in 1 .. n /\ (a + 1) - 1 = a /\ a + 1 # 1
    BY <2>1, <1>0
  <2> HIDE DEF a
  <2>4. flatten[a + 1] = flatten[a] \o seqs[a + 1]
    <3> HIDE DEF flatten
    <3> QED BY <1>10, <2>3
  <2>5. g[a + 1] = g[a] \o seqs[a + 1]
    <3> HIDE DEF g
    <3> QED BY <1>6, <2>3
  <2>6. flatten[a + 1] = g[a + 1]
    <3> HIDE DEF flatten, g
    <3> QED BY <2>2, <2>4, <2>5
  <2> QED BY <2>6 DEF a
<1>13. n - 1 \in U
  <2> HIDE DEF U
  <2> QED BY <1>0, <1>11, <1>12, SetInduction
<1>14. flatten[n] = g[n]
  <2>1. (n - 1) + 1 = n
    BY <1>0
  <2> HIDE DEF flatten, g
  <2> QED BY <1>0, <1>13, <2>1
<1>15. Flattens(S, seqs, g)
  <2> HIDE DEF g, flatten
  <2> QED BY <1>1, <1>6, <1>7, <1>8, <1>14 DEF Flattens, n
<1> QED BY <1>15 DEF HasFlattened

(* A byte before a concatenation. *)
LEMMA PutConcat ==
  ASSUME NEW c \in Icm!Byte, NEW r \in Buffers, NEW t \in Buffers
  PROVE  Put(c, r) \o t = Put(c, r \o t)
<1>1. <<c>> \in Seq(Icm!Byte) /\ r \in Seq(Icm!Byte) /\ t \in Seq(Icm!Byte)
  BY DEF Buffers
<1>2. (<<c>> \o r) \o t = <<c>> \o (r \o t)
  BY <1>1, ConcatAssociative
<1> QED BY <1>2 DEF Put

(* A byte before bytes. *)
LEMMA PutIn ==
  ASSUME NEW c \in Icm!Byte, NEW r \in Buffers
  PROVE  Put(c, r) \in Buffers
BY PutBytes DEF Buffers

(* The SOM twice. *)
LEMMA Pair ==
  ASSUME NEW a
  PROVE  <<a>> \o <<a>> = <<a, a>>
<1> DEFINE u == <<a>>
<1>1. u \in Seq({a}) /\ Len(u) = 1 /\ u[1] = a
  OBVIOUS
<1>2. <<a, a>> \in Seq({a}) /\ Len(<<a, a>>) = 2 /\ \A i \in 1 .. 2 : <<a, a>>[i] = a
  OBVIOUS
<1> HIDE DEF u
<1>3. /\ u \o u \in Seq({a}) /\ Len(u \o u) = Len(u) + Len(u)
      /\ \A i \in 1 .. Len(u) + Len(u) :
           (u \o u)[i] = IF i <= Len(u) THEN u[i] ELSE u[i - Len(u)]
  BY <1>1, ConcatProperties
<1>4. Len(u \o u) = 2 /\ \A i \in 1 .. 2 : (u \o u)[i] = a
  BY <1>1, <1>3
<1>5. u \o u = <<a, a>>
  BY <1>2, <1>3, <1>4, SeqEqual
<1> QED BY <1>5 DEF u

(* The bytes of a stuffed byte. *)
LEMMA StuffedBytes ==
  ASSUME NEW S, 16 \in S, NEW byte \in S
  PROVE  Icm!Stuffed(byte) \in Seq(S)
BY DEF Icm!Stuffed, Icm!SOM

(* A stuffed byte before a rest. *)
LEMMA StuffedConcat ==
  ASSUME NEW byte \in Safe, NEW r \in Seq(Safe)
  PROVE  Icm!Stuffed(byte) \o r = Put(byte, Unless(byte # 16, 16, r))
<1>1. CASE byte = 16
  <2> DEFINE c == <<16>>
  <2>0. 16 \in Safe
    BY DEF Safe, Icm!Byte
  <2>a. Icm!Stuffed(byte) = <<16, 16>>
    BY <1>1 DEF Icm!Stuffed, Icm!SOM
  <2>b. c \o c = <<16, 16>>
    BY Pair
  <2>1. c \in Seq(Safe)
    BY <2>0
  <2> HIDE DEF c
  <2>2. (c \o c) \o r = c \o (c \o r)
    BY <2>1, ConcatAssociative
  <2>3. Put(byte, Unless(byte # 16, 16, r)) = c \o (c \o r)
    BY <1>1 DEF Put, Unless, c
  <2> QED BY <2>a, <2>b, <2>2, <2>3
<1>2. CASE byte # 16
  BY <1>2 DEF Icm!Stuffed, Icm!SOM, Put, Unless
<1> QED BY <1>1, <1>2

(* The end of a packet. *)
LEMMA PacketEnd ==
  /\ <<16, 3>> \in Seq(Safe) /\ <<>> \in Seq(Safe)
  /\ <<16, 3>> = Put(16, Put(3, <<>>))
<1>1. 16 \in Safe /\ 3 \in Safe
  BY DEF Safe, Icm!Byte
<1>2. <<16, 3>> = <<16>> \o (<<3>> \o <<>>)
  OBVIOUS
<1> QED BY <1>1, <1>2 DEF Put

(* The id of a packet and what follows it. *)
Opened(x, t) == Put(143, Put(x, t))

(* What follows the id, in one piece or two. *)
LEMMA OpenedConcat ==
  ASSUME NEW x \in Ids, NEW t \in Seq(Safe), NEW u \in Seq(Safe)
  PROVE  /\ t \o u \in Seq(Safe)
         /\ Opened(x, t) \o u = Opened(x, t \o u)
         /\ Put(16, Opened(x, t)) \o u = Put(16, Opened(x, t \o u))
<1>1. x \in Icm!Byte /\ 143 \in Icm!Byte /\ 16 \in Icm!Byte
  BY DEF Ids, Icm!Byte
<1>2. t \in Buffers /\ u \in Buffers
  BY LineBytes
<1>3. t \o u \in Seq(Safe)
  BY ConcatProperties
<1> DEFINE header == 143
           start == 16
           one == Put(x, t)
           two == Put(header, one)
<1>a. header \in Icm!Byte /\ start \in Icm!Byte
  BY <1>1
<1> HIDE DEF header, start
<1>4. one \in Buffers
  BY <1>1, <1>2, PutIn
<1>5. two \in Buffers
  <2> HIDE DEF one
  <2> QED BY <1>a, <1>4, PutIn
<1>6. one \o u = Put(x, t \o u)
  BY <1>1, <1>2, PutConcat
<1>7. two \o u = Put(header, one \o u)
  <2> HIDE DEF one
  <2> QED BY <1>a, <1>2, <1>4, PutConcat
<1>8. Put(start, two) \o u = Put(start, two \o u)
  <2> HIDE DEF two
  <2> QED BY <1>a, <1>2, <1>5, PutConcat
<1> QED BY <1>3, <1>6, <1>7, <1>8 DEF Opened, header, start

(* The bytes of a packet up to the k-th of the message, each SOM twice. *)
Grew(x, bytes, g) ==
  /\ g[2] = Opened(x, <<>>)
  /\ \A k \in 3 .. Len(bytes) : g[k] = g[k - 1] \o Icm!Stuffed(bytes[k])
  /\ Icm!Packet(bytes) = Put(16, g[Len(bytes)]) \o <<16, 3>>

HasGrown(x, bytes) == \E g : Grew(x, bytes, g)

(* A packet is put together byte by byte. *)
LEMMA PacketGrows ==
  ASSUME NEW x \in Ids, NEW bytes \in Buffers, Len(bytes) >= 3, bytes[1] = 143, bytes[2] = x
  PROVE  HasGrown(x, bytes)
<1> DEFINE n == Len(bytes)
           seqs == [i \in DOMAIN bytes |-> Icm!Stuffed(bytes[i])]
<1>1. n \in Nat /\ n >= 3 /\ DOMAIN bytes = 1 .. n /\ \A i \in 1 .. n : bytes[i] \in Icm!Byte
  BY DEF Buffers
<1>2. \A i \in 1 .. n : Icm!Stuffed(bytes[i]) \in Seq(Icm!Byte)
  <2>1. 16 \in Icm!Byte
    BY DEF Icm!Byte
  <2> HIDE DEF n
  <2> QED BY <1>1, <2>1, StuffedBytes
<1>3. /\ seqs \in Seq(Seq(Icm!Byte)) /\ Len(seqs) = n
      /\ \A i \in 1 .. n : seqs[i] = Icm!Stuffed(bytes[i])
  <2> HIDE DEF n
  <2> QED BY <1>1, <1>2
<1> HIDE DEF seqs, n
<1>4. HasFlattened(Icm!Byte, seqs)
  BY <1>1, <1>3, Flattened
<1>5. PICK g : Flattens(Icm!Byte, seqs, g)
  BY <1>4 DEF HasFlattened
<1>6. /\ g[1] = seqs[1] /\ \A i \in 2 .. n : g[i] = g[i - 1] \o seqs[i]
      /\ Icm!FlattenSeq(seqs) = g[n]
  BY <1>3, <1>5 DEF Flattens
<1>7. seqs[1] = <<143>> /\ seqs[2] = <<x>>
  BY <1>1, <1>3 DEF Icm!Stuffed, Icm!SOM, Ids
<1>8. g[2] = Opened(x, <<>>)
  <2>0. 2 \in 2 .. n
    BY <1>1
  <2>1. g[2] = g[2 - 1] \o seqs[2]
    BY <1>6, <2>0
  <2>2. <<x>> \o <<>> = <<x>>
    OBVIOUS
  <2>3. 2 - 1 = 1
    OBVIOUS
  <2>4. g[2] = <<143>> \o <<x>>
    BY <1>6, <1>7, <2>1, <2>3
  <2> QED BY <2>2, <2>4 DEF Opened, Put
<1>9. ASSUME NEW k \in 3 .. n PROVE g[k] = g[k - 1] \o Icm!Stuffed(bytes[k])
  <2>1. k \in 2 .. n /\ k \in 1 .. n
    BY <1>1
  <2>2. g[k] = g[k - 1] \o seqs[k]
    BY <1>6, <2>1
  <2>3. seqs[k] = Icm!Stuffed(bytes[k])
    BY <1>3, <2>1
  <2> QED BY <2>2, <2>3
<1>10. Icm!Packet(bytes) = Put(16, g[n]) \o <<16, 3>>
  BY <1>6 DEF Icm!Packet, Icm!SOM, Icm!EOM, Put, seqs
<1>11. Grew(x, bytes, g)
  BY <1>8, <1>9, <1>10 DEF Grew, n
<1> QED BY <1>11 DEF HasGrown

(* The packet of a message after its id. *)
HasRest(x, bytes) ==
  \E rest \in Seq(Safe) : rest # <<>> /\ Icm!Packet(bytes) = Put(16, Opened(x, rest))

(* Safe bytes after safe bytes. *)
LEMMA SafeConcat ==
  ASSUME NEW t \in Seq(Safe), NEW u \in Seq(Safe)
  PROVE  t \o u \in Seq(Safe)
BY ConcatProperties

(* Safe bytes in three pieces. *)
LEMMA SafeAssociative ==
  ASSUME NEW t \in Seq(Safe), NEW u \in Seq(Safe), NEW v \in Seq(Safe)
  PROVE  (t \o u) \o v = t \o (u \o v)
BY ConcatAssociative

(* What follows the id of a packet without its SOM. *)
LEMMA OpenedPlus ==
  ASSUME NEW x \in Ids, NEW t \in Seq(Safe), NEW u \in Seq(Safe)
  PROVE  Opened(x, t) \o u = Opened(x, t \o u)
BY OpenedConcat

(* What follows the id of a packet. *)
LEMMA PutOpenedPlus ==
  ASSUME NEW x \in Ids, NEW t \in Seq(Safe), NEW u \in Seq(Safe)
  PROVE  Put(16, Opened(x, t)) \o u = Put(16, Opened(x, t \o u))
BY OpenedConcat

(* The packet of a message is its SOM, its id and safe bytes, by induction on *)
(* the message.                                                               *)
LEMMA AnyPacket ==
  ASSUME NEW x \in Ids, NEW bytes \in Buffers, Len(bytes) >= 3, bytes[1] = 143, bytes[2] = x,
         \A k \in 3 .. Len(bytes) : bytes[k] \in Safe
  PROVE  HasRest(x, bytes)
<1>1. PICK g : Grew(x, bytes, g)
  BY PacketGrows DEF HasGrown
<1> DEFINE n == Len(bytes)
           U == {k \in Nat : k + 2 <= n => \E t \in Seq(Safe) : g[k + 2] = Opened(x, t)}
<1>2. n \in Nat /\ n >= 3
  BY DEF Buffers
<1>3. \A k \in 3 .. n : g[k] = g[k - 1] \o Icm!Stuffed(bytes[k]) /\ bytes[k] \in Safe
  BY <1>1 DEF Grew
<1> HIDE DEF n
<1>4. 0 \in U
  <2> DEFINE none == <<>>
  <2>1. none \in Seq(Safe) /\ g[2] = Opened(x, none)
    BY <1>1, PacketEnd DEF Grew
  <2> HIDE DEF none
  <2>2. 0 + 2 = 2
    OBVIOUS
  <2>3. \E t \in Seq(Safe) : g[0 + 2] = Opened(x, t)
    BY <2>1, <2>2
  <2> QED BY <2>3
<1>5. ASSUME NEW k \in Nat, k \in U PROVE k + 1 \in U
  <2>1. SUFFICES ASSUME (k + 1) + 2 <= n
                 PROVE  \E t \in Seq(Safe) : g[(k + 1) + 2] = Opened(x, t)
    OBVIOUS
  <2> DEFINE a == (k + 1) + 2
  <2>2. a \in 3 .. n /\ a - 1 = k + 2 /\ k + 2 <= n
    BY <1>2, <2>1
  <2>3. PICK t \in Seq(Safe) : g[k + 2] = Opened(x, t)
    BY <1>5, <2>2
  <2> HIDE DEF a
  <2>4. g[a] = Opened(x, t) \o Icm!Stuffed(bytes[a]) /\ bytes[a] \in Safe
    <3>1. g[a] = g[a - 1] \o Icm!Stuffed(bytes[a]) /\ bytes[a] \in Safe
      BY <1>3, <2>2
    <3>2. g[a - 1] = g[k + 2]
      BY <2>2
    <3> QED BY <2>3, <3>1, <3>2
  <2>5. Icm!Stuffed(bytes[a]) \in Seq(Safe)
    <3>1. 16 \in Safe
      BY DEF Safe, Icm!Byte
    <3> QED BY <2>4, <3>1, StuffedBytes
  <2> DEFINE u == Icm!Stuffed(bytes[a])
  <2>6. t \o u \in Seq(Safe) /\ g[a] = Opened(x, t \o u)
    <3>1. u \in Seq(Safe)
      BY <2>5
    <3>2. g[a] = Opened(x, t) \o u
      BY <2>4
    <3> HIDE DEF u
    <3> QED BY <3>1, <3>2, SafeConcat, OpenedPlus
  <2> QED BY <2>6 DEF a
<1>6. n - 2 \in U
  <2> HIDE DEF U
  <2>1. n - 2 \in Nat
    BY <1>2
  <2> QED BY <1>4, <1>5, <2>1, SetInduction
<1>7. PICK t \in Seq(Safe) : g[n] = Opened(x, t)
  <2>1. (n - 2) + 2 = n
    BY <1>2
  <2> QED BY <1>2, <1>6, <2>1
<1> DEFINE e == <<16, 3>>
           rest == t \o e
<1>8. e \in Seq(Safe) /\ Len(e) = 2
  BY PacketEnd
<1>9. Icm!Packet(bytes) = Put(16, Opened(x, t)) \o e
  BY <1>1, <1>7 DEF Grew, n
<1> HIDE DEF e
<1>10. rest \in Seq(Safe) /\ Icm!Packet(bytes) = Put(16, Opened(x, rest))
  BY <1>8, <1>9, SafeConcat, PutOpenedPlus
<1>11. rest # <<>>
  <2>1. t \in Seq(Safe) /\ e \in Seq(Safe)
    BY <1>8
  <2>2. Len(rest) = Len(t) + Len(e) /\ Len(t) \in Nat
    BY <2>1, ConcatProperties
  <2> HIDE DEF rest
  <2>3. Len(rest) # 0
    BY <1>8, <2>2
  <2> QED BY <2>3
<1> QED BY <1>10, <1>11 DEF HasRest

PtiBytes(s, m, f) == <<143, 171, f, s, m, 0>>

(* The packet of a PTI, byte by byte. *)
LEMMA PtiPacket ==
  ASSUME NEW s \in 0 .. 59, NEW m \in 0 .. 59, NEW f \in {1, 3}, NEW bytes,
         bytes = PtiBytes(s, m, f)
  PROVE  Icm!Packet(bytes) = Put(16, Opened(171, R3(s, m, 12, f)))
<1>1. /\ bytes \in Buffers /\ Len(bytes) = 6
      /\ bytes[1] = 143 /\ bytes[2] = 171 /\ bytes[3] = f /\ bytes[4] = s /\ bytes[5] = m
      /\ bytes[6] = 0
  BY DEF PtiBytes, Buffers, Icm!Byte
<1>2. 171 \in Ids
  BY DEF Ids
<1>3. PICK g : Grew(171, bytes, g)
  <2> DEFINE x == 171
  <2>1. x \in Ids /\ bytes[2] = x /\ bytes \in Buffers /\ Len(bytes) >= 3 /\ bytes[1] = 143
    BY <1>1, <1>2
  <2>2. HasGrown(x, bytes)
    <3> HIDE DEF x
    <3> QED BY <2>1, PacketGrows
  <2> QED BY <2>2 DEF HasGrown, x
<1> DEFINE ff == Icm!Stuffed(f)
           ss == Icm!Stuffed(s)
           mm == Icm!Stuffed(m)
           zz == Icm!Stuffed(0)
           e  == <<16, 3>>
           x  == 171
           none == <<>>
<1>4. g[3] = g[2] \o ff /\ g[4] = g[3] \o ss /\ g[5] = g[4] \o mm /\ g[6] = g[5] \o zz
  <2>1. \A k \in 3 .. 6 : g[k] = g[k - 1] \o Icm!Stuffed(bytes[k])
    BY <1>1, <1>3 DEF Grew
  <2>2. g[3] = g[3 - 1] \o ff /\ g[4] = g[4 - 1] \o ss /\ g[5] = g[5 - 1] \o mm
        /\ g[6] = g[6 - 1] \o zz
    <3>1. 3 \in 3 .. 6 /\ 4 \in 3 .. 6 /\ 5 \in 3 .. 6 /\ 6 \in 3 .. 6
      OBVIOUS
    <3>2. bytes[3] = f /\ bytes[4] = s /\ bytes[5] = m /\ bytes[6] = 0
      BY <1>1
    <3>3. /\ g[3] = g[3 - 1] \o Icm!Stuffed(bytes[3])
          /\ g[4] = g[4 - 1] \o Icm!Stuffed(bytes[4])
          /\ g[5] = g[5 - 1] \o Icm!Stuffed(bytes[5])
          /\ g[6] = g[6 - 1] \o Icm!Stuffed(bytes[6])
      BY <2>1, <3>1, Zenon
    <3> QED BY <3>2, <3>3
  <2>3. 3 - 1 = 2 /\ 4 - 1 = 3 /\ 5 - 1 = 4 /\ 6 - 1 = 5
    OBVIOUS
  <2> QED BY <2>2, <2>3
<1>5. f \in Safe /\ s \in Safe /\ m \in Safe /\ 0 \in Safe /\ 16 \in Safe
  <2>1. 0 \in Safe /\ 16 \in Safe
    BY DEF Safe, Icm!Byte
  <2> QED BY <2>1, SafeBytes
<1>6. /\ ff \in Seq(Safe) /\ ss \in Seq(Safe) /\ mm \in Seq(Safe) /\ zz \in Seq(Safe)
      /\ e \in Seq(Safe) /\ none \in Seq(Safe)
  BY <1>5, StuffedBytes, PacketEnd
<1>7. x \in Ids /\ g[2] = Opened(x, none) /\ Icm!Packet(bytes) = Put(16, g[6]) \o e
  BY <1>1, <1>2, <1>3 DEF Grew
<1>8. none \o ff = ff
  BY <1>6, ConcatEmptySeq
<1> DEFINE r8 == R8(s, m, 12, f)
           r6 == R6(s, m, 12, f)
           r4 == R4(s, m, 12, f)
<1>9. /\ zz \o e = r8 /\ mm \o r8 = r6 /\ ss \o r6 = r4 /\ ff \o r4 = R3(s, m, 12, f)
      /\ r8 \in Seq(Safe) /\ r6 \in Seq(Safe) /\ r4 \in Seq(Safe)
  <2>1. r8 \in Seq(Safe) /\ r6 \in Seq(Safe) /\ r4 \in Seq(Safe)
    BY RestSafe, Zenon
  <2>2. zz \o e = Put(0, e)
    BY DEF Put, Icm!Stuffed, Icm!SOM
  <2>3. r8 = Put(0, e)
    BY PacketEnd DEF R8, R9, R10, Unless
  <2> HIDE DEF e
  <2>4. mm \o r8 = Put(m, Unless(m # 16, 16, r8))
    <3> HIDE DEF r8
    <3> QED BY <1>5, <2>1, StuffedConcat
  <2>5. r6 = Put(m, Unless(m # 16, 16, r8))
    BY DEF R6, R7, Unless
  <2>6. ss \o r6 = Put(s, Unless(s # 16, 16, r6))
    <3> HIDE DEF r6
    <3> QED BY <1>5, <2>1, StuffedConcat
  <2>7. r4 = Put(s, Unless(s # 16, 16, r6))
    BY DEF R4, R5, Unless
  <2>8. ff \o r4 = Put(f, Unless(f # 16, 16, r4))
    <3> HIDE DEF r4
    <3> QED BY <1>5, <2>1, StuffedConcat
  <2>9. R3(s, m, 12, f) = Put(f, Unless(f # 16, 16, r4))
    BY DEF R3, Unless
  <2> QED BY <2>1, <2>2, <2>3, <2>4, <2>5, <2>6, <2>7, <2>8, <2>9, Zenon
<1> HIDE DEF ff, ss, mm, zz, e, x, none, r8, r6, r4
<1> DEFINE t4 == ff \o ss
           t5 == t4 \o mm
           t6 == t5 \o zz
<1>a. /\ ff \in Seq(Safe) /\ ss \in Seq(Safe) /\ mm \in Seq(Safe) /\ zz \in Seq(Safe)
      /\ e \in Seq(Safe) /\ none \in Seq(Safe)
  BY <1>6
<1>b. x \in Ids
  BY <1>7
<1>10. g[3] = Opened(x, ff)
  <2>1. g[3] = Opened(x, none) \o ff
    BY <1>4, <1>7
  <2>2. g[3] = Opened(x, none \o ff)
    BY <1>a, <1>b, <2>1, OpenedPlus
  <2> QED BY <1>8, <2>2
<1>11. g[4] = Opened(x, t4) /\ t4 \in Seq(Safe)
  <2>1. g[4] = Opened(x, ff) \o ss
    BY <1>4, <1>10
  <2> QED BY <1>a, <1>b, <2>1, OpenedPlus, SafeConcat
<1>12. g[5] = Opened(x, t5) /\ t5 \in Seq(Safe)
  <2> HIDE DEF t4
  <2>1. g[5] = Opened(x, t4) \o mm /\ t4 \in Seq(Safe)
    BY <1>4, <1>11
  <2> QED BY <1>a, <1>b, <2>1, OpenedPlus, SafeConcat, ZenonT(40)
<1>13. g[6] = Opened(x, t6) /\ t6 \in Seq(Safe)
  <2> HIDE DEF t5
  <2>1. g[6] = Opened(x, t5) \o zz /\ t5 \in Seq(Safe)
    BY <1>4, <1>12
  <2> QED BY <1>a, <1>b, <2>1, OpenedPlus, SafeConcat, ZenonT(40)
<1>14. Icm!Packet(bytes) = Put(16, Opened(x, t6 \o e))
  <2> HIDE DEF t6
  <2>1. Icm!Packet(bytes) = Put(16, Opened(x, t6)) \o e /\ t6 \in Seq(Safe)
    BY <1>7, <1>13
  <2> QED BY <1>a, <1>b, <2>1, PutOpenedPlus
<1>15. t6 \o e = t5 \o r8
  <2> HIDE DEF t5
  <2>1. t5 \in Seq(Safe)
    BY <1>12
  <2>2. (t5 \o zz) \o e = t5 \o (zz \o e)
    BY <1>a, <2>1, SafeAssociative, ZenonT(40)
  <2>3. zz \o e = r8
    BY <1>9
  <2> QED BY <2>2, <2>3
<1>16. t5 \o r8 = t4 \o r6
  <2> HIDE DEF t4
  <2>1. t4 \in Seq(Safe) /\ r8 \in Seq(Safe)
    BY <1>9, <1>11
  <2>2. (t4 \o mm) \o r8 = t4 \o (mm \o r8)
    <3>1. t4 \in Seq(Safe)
      BY <2>1
    <3>2. mm \in Seq(Safe)
      BY <1>a
    <3>3. r8 \in Seq(Safe)
      BY <2>1
    <3> QED BY <3>1, <3>2, <3>3, SafeAssociative
  <2>3. mm \o r8 = r6
    BY <1>9
  <2> QED BY <2>2, <2>3
<1>17. t4 \o r6 = R3(s, m, 12, f)
  <2>1. r6 \in Seq(Safe)
    BY <1>9
  <2>2. (ff \o ss) \o r6 = ff \o (ss \o r6)
    <3>1. ff \in Seq(Safe)
      BY <1>a
    <3>2. ss \in Seq(Safe)
      BY <1>a
    <3> QED BY <2>1, <3>1, <3>2, SafeAssociative
  <2>3. ss \o r6 = r4 /\ ff \o r4 = R3(s, m, 12, f)
    BY <1>9
  <2>4. (ff \o ss) \o r6 = ff \o r4
    BY <2>2, <2>3
  <2>5. t4 \o r6 = (ff \o ss) \o r6
    OBVIOUS
  <2> QED BY <2>3, <2>4, <2>5
<1> QED BY <1>14, <1>15, <1>16, <1>17 DEF x

(* What the receiver may send: the time, or a message that is not one. *)
Message(s, m, bytes) ==
  \/ \E f \in {1, 3} : bytes = PtiBytes(s, m, f)
  \/ /\ bytes \in Buffers /\ Len(bytes) >= 3 /\ bytes[1] = 143 /\ bytes[2] \in Ids \ {171}
     /\ \A k \in 3 .. Len(bytes) : bytes[k] \in Safe

Arrives(s, m, t, b, odd) == t \in Buffers /\ IcmReads(s, m, t, b, odd)

(* A message of the receiver, whole or without a byte, is right for what the *)
(* driver reads.                                                             *)
LEMMA MessageSent ==
  ASSUME NEW s \in 0 .. 59, NEW m \in 0 .. 59, NEW bytes, Message(s, m, bytes),
         NEW t \in {Icm!Packet(bytes)} \cup Less(Icm!Packet(bytes)),
         NEW b, NEW odd, Before(b, odd)
  PROVE  Arrives(s, m, t, b, odd)
<1> DEFINE packet == Icm!Packet(bytes)
<1>1. ASSUME NEW x \in Ids, NEW rest \in Seq(Safe), rest # <<>>,
             x = 171 => \E f \in {1, 3} : rest = R3(s, m, 12, f),
             packet = Put(16, Opened(x, rest))
      PROVE  Arrives(s, m, t, b, odd)
  <2>1. packet = Put(16, Put(143, Put(x, rest)))
    BY <1>1 DEF Opened
  <2>2. t \in {packet} \cup Less(packet)
    OBVIOUS
  <2> HIDE DEF packet
  <2>3. x = 171 => \E f \in {1, 3} : rest = R3(s, m, 12, f)
    BY <1>1
  <2>4. rest # <<>>
    BY <1>1
  <2> QED BY <2>1, <2>2, <2>3, <2>4, Sent, ZenonT(40) DEF Arrives
<1>2. ASSUME NEW f \in {1, 3}, bytes = PtiBytes(s, m, f)
      PROVE  Arrives(s, m, t, b, odd)
  <2> DEFINE x == 171
             rest == R3(s, m, 12, f)
  <2>1. packet = Put(16, Opened(x, rest))
    <3> HIDE DEF rest
    <3> QED BY <1>2, PtiPacket DEF rest
  <2>2. rest \in Seq(Safe)
    BY RestSafe, Zenon
  <2>3. rest # <<>>
    <3>1. R4(s, m, 12, f) \in Seq(Safe)
      BY RestSafe, Zenon
    <3>2. rest = Put(f, Unless(f # 16, 16, R4(s, m, 12, f)))
      BY DEF R3, Unless
    <3> DEFINE next == R4(s, m, 12, f)
    <3>3. rest = Put(f, next) /\ next \in Seq(Safe)
      BY <3>1, <3>2 DEF Unless
    <3> HIDE DEF next, rest
    <3> QED BY <3>3, PutParts
  <2>4. x \in Ids /\ (x = 171 => \E g \in {1, 3} : rest = R3(s, m, 12, g))
    BY DEF Ids
  <2> HIDE DEF x, rest, packet
  <2> QED BY <1>1, <2>1, <2>2, <2>3, <2>4
<1>3. ASSUME bytes \in Buffers, Len(bytes) >= 3, bytes[1] = 143, bytes[2] \in Ids \ {171},
             \A k \in 3 .. Len(bytes) : bytes[k] \in Safe
      PROVE  Arrives(s, m, t, b, odd)
  <2> DEFINE x == bytes[2]
  <2>1. x \in Ids /\ x # 171 /\ bytes[2] = x
    BY <1>3
  <2> HIDE DEF x
  <2>2. HasRest(x, bytes)
    BY <1>3, <2>1, AnyPacket
  <2>3. PICK rest \in Seq(Safe) : rest # <<>> /\ packet = Put(16, Opened(x, rest))
    BY <2>2 DEF HasRest
  <2>4. x = 171 => \E g \in {1, 3} : rest = R3(s, m, 12, g)
    BY <2>1
  <2> HIDE DEF packet
  <2> QED BY <1>1, <2>1, <2>3, <2>4
<1> QED BY <1>2, <1>3 DEF Message

(* The time is a message the receiver may send. *)
LEMMA PtiMessage ==
  ASSUME NEW time \in Nat, NEW f \in {3, 1}
  PROVE  Message(Second(time), Minute(time), Icm!PTI(time, f))
BY DEF Message, PtiBytes, Second, Minute, Icm!PTI

(* So is an acknowledgement. *)
LEMMA AckMessage ==
  ASSUME NEW s, NEW m, NEW name \in {"broadcast", "survey", "utc", "discipline"}
  PROVE  Message(s, m, Icm!Ack(name))
<1>1. 0 \in Safe /\ 3 \in Safe /\ 2 \in Safe
  BY DEF Safe, Icm!Byte
<1>2. ASSUME NEW x \in {165, 166}, Icm!Ack(name) = <<143, x, 0, 0>>
      PROVE  Message(s, m, Icm!Ack(name))
  BY <1>1, <1>2 DEF Message, Buffers, Icm!Byte, Ids
<1>3. ASSUME NEW x \in {162, 168}, NEW y \in {2, 3}, Icm!Ack(name) = <<143, x, y>>
      PROVE  Message(s, m, Icm!Ack(name))
  BY <1>1, <1>3 DEF Message, Buffers, Icm!Byte, Ids
<1>4. CASE name = "broadcast"
  <2>1. Icm!Ack(name) = <<143, 165, 0, 0>>
    BY <1>4 DEF Icm!Ack
  <2> QED BY <1>2, <2>1
<1>5. CASE name = "survey"
  <2>1. Icm!Ack(name) = <<143, 166, 0, 0>>
    BY <1>5 DEF Icm!Ack
  <2> QED BY <1>2, <2>1
<1>6. CASE name = "utc"
  <2>1. Icm!Ack(name) = <<143, 162, 3>>
    BY <1>6 DEF Icm!Ack
  <2> QED BY <1>3, <2>1
<1>7. CASE name = "discipline"
  <2>1. Icm!Ack(name) = <<143, 168, 2>>
    BY <1>7 DEF Icm!Ack
  <2> QED BY <1>3, <2>1
<1> QED BY <1>4, <1>5, <1>6, <1>7

(* So is a status report. *)
LEMMA StiMessage ==
  ASSUME NEW s, NEW m, NEW report \in Reports
  PROVE  Message(s, m, Icm!STI(report))
<1> DEFINE h == report.alarm \div 256
           a == report.alarm % 256
           bytes == Icm!STI(report)
<1>1. /\ report.mode \in {0, 3, 4} /\ report.hold \in {0, 2} /\ report.gps \in {0, 8}
      /\ report.activity \in {0, 8} /\ report.alarm \in {0, 16, 4112}
  BY DEF Reports, Status
<1>2. h \in {0, 16} /\ a \in {0, 16}
  BY <1>1
<1>3. bytes = <<143, 172, report.mode, report.hold, h, a, report.gps, report.activity, 0>>
  BY DEF Icm!STI
<1> HIDE DEF h, a
<1> DEFINE p == report.mode
           q == report.hold
           r == report.gps
           u == report.activity
<1>4. /\ bytes = <<143, 172, p, q, h, a, r, u, 0>>
      /\ p \in Safe /\ q \in Safe /\ h \in Safe /\ a \in Safe /\ r \in Safe /\ u \in Safe
      /\ 0 \in Safe
  BY <1>1, <1>2, <1>3 DEF Safe, Icm!Byte
<1> HIDE DEF p, q, r, u, bytes
<1>5. /\ Len(bytes) = 9 /\ bytes[1] = 143 /\ bytes[2] = 172
      /\ \A k \in 3 .. 9 : bytes[k] \in Safe
  BY <1>4
<1>6. bytes \in Buffers
  BY <1>4 DEF Buffers, Safe, Icm!Byte
<1>7. Message(s, m, bytes)
  BY <1>5, <1>6 DEF Message, Ids
<1> QED BY <1>7 DEF bytes

-----------------------------------------------------------------------------
(* The invariant of the ICM SMT 360, and its steps. *)

(* The parts of the invariant: the queries, the states of the state machine,  *)
(* the conditions, the buffer, and that nothing comes that was not asked for. *)
QueryNames == {"broadcast", "survey", "utc", "discipline", "PTI", "STI"}

IcmStates ==
  \/ requestState \in {"SEND_INIT", "RCV_INIT"} /\ initIndex \in 1 .. 4
  \/ requestState \in {"RQST_PTI", "RCV_PTI", "RQST_STI", "RCV_STI"} /\ initIndex = 255

IcmConditions ==
  /\ locked \in BOOLEAN /\ holdover \in BOOLEAN /\ allConditionsNormal \in BOOLEAN
  /\ Promise!Consistent

IcmBuffer ==
  /\ line \in Buffers /\ todBuffer \in Buffers /\ hunting \in BOOLEAN /\ som \in 0 .. 1
  /\ hunting => todBuffer = <<>>
  /\ todBuffer = <<>> => som = 0

IcmAsked ==
  /\ requests \in SUBSET QueryNames /\ queried \in BOOLEAN
  /\ requests # {} \/ line # <<>> => queried

(* The line and the buffer are right for each other in the current second. *)
IcmInv ==
  /\ now \in FirstSecond .. LastSecond /\ currentTime \in {-1, now}
  /\ IcmStates /\ IcmConditions /\ IcmBuffer /\ IcmAsked
  /\ elapsed \in BOOLEAN /\ ioInProcess \in BOOLEAN
  /\ IcmReads(Second(now), Minute(now), line, todBuffer, som)

(* A second of the hour as seconds and minutes, and back. *)
LEMMA HourOfTime ==
  ASSUME NEW time \in FirstSecond .. LastSecond
  PROVE  /\ time \in Nat
         /\ Second(time) \in 0 .. 59 /\ Minute(time) \in 0 .. 59
         /\ (60 * Minute(time) + Second(time)) + 1 = time
<1>1. time - 1 \in 0 .. 60 * 60 - 1 /\ time \in Nat
  BY IcmAssumption
<1> DEFINE t == time - 1
<1>2. t \in 0 .. 60 * 60 - 1 /\ time = t + 1
  BY <1>1
<1> HIDE DEF t
<1>3. t % 60 \in 0 .. 59 /\ t \div 60 \in 0 .. 59 /\ 60 * (t \div 60) + (t % 60) = t
  BY <1>2
<1>4. Second(time) = t % 60 /\ Minute(time) = t \div 60
  BY DEF Second, Minute, t
<1> QED BY <1>1, <1>2, <1>3, <1>4

(* The invariant of the ICM SMT 360 holds initially. *)
LEMMA IcmInitRight ==
  ASSUME Icm!Init
  PROVE  IcmInv
<1>1. now = FirstSecond /\ now \in FirstSecond .. LastSecond /\ currentTime \in {-1, now}
  BY IcmAssumption DEF Icm!Init, Icm!NoTime
<1>2. IcmStates
  BY DEF Icm!Init, IcmStates
<1>3. IcmConditions
  BY DEF Icm!Init, IcmConditions, Promise!Consistent
<1>4. IcmBuffer
  BY DEF Icm!Init, IcmBuffer, Buffers
<1>5. IcmAsked
  BY DEF Icm!Init, IcmAsked
<1>6. elapsed \in BOOLEAN /\ ioInProcess \in BOOLEAN
  BY DEF Icm!Init
<1>7. line = <<>> /\ Before(todBuffer, som)
  BY DEF Icm!Init, Before, Half, Pti, Size
<1>8. IcmReads(Second(now), Minute(now), line, todBuffer, som)
  BY <1>7 DEF IcmReads
<1> QED BY <1>1, <1>2, <1>3, <1>4, <1>5, <1>6, <1>8 DEF IcmInv

(* The part of the invariant that a step must set up anew. *)
LEMMA IcmInvNext ==
  ASSUME now' \in FirstSecond .. LastSecond, currentTime' \in {-1, now'},
         IcmStates', IcmConditions', IcmBuffer', IcmAsked',
         elapsed' \in BOOLEAN, ioInProcess' \in BOOLEAN,
         IcmReads(Second(now'), Minute(now'), line', todBuffer', som')
  PROVE  IcmInv'
BY DEF IcmInv

(* What the sketch sees of the driver does not change. *)
LEMMA IcmUnseen ==
  ASSUME build = "icm", build' = "icm",
         UNCHANGED <<now, queried, ioInProcess, currentTime, locked, holdover, allConditionsNormal>>
  PROVE  UNCHANGED Promise!gpsVars
BY DEF Promise!gpsVars, Promise!conditions

(* An answer preserves the invariant: the line was empty, so the buffer is *)
(* between two packets.                                                    *)
LEMMA IcmAnswers ==
  ASSUME build = "icm", build' = "icm", IcmInv, NEW query \in requests, Icm!Answer(query)
  PROVE  IcmInv' /\ UNCHANGED Promise!gpsVars
<1> DEFINE s == Second(now)
           m == Minute(now)
<1>1. s \in 0 .. 59 /\ m \in 0 .. 59 /\ now \in Nat
  BY HourOfTime DEF IcmInv
<1>2. /\ requests' = requests \ {query}
      /\ UNCHANGED <<now, todBuffer, hunting, som, requestState, initIndex, elapsed, ioInProcess>>
      /\ UNCHANGED <<haveUtcOffset, status, locked, holdover, allConditionsNormal, currentTime,
                     queried>>
  BY DEF Icm!Answer, Icm!bufferVars, Icm!queryVars, Icm!statusVars
<1>3. query \in QueryNames /\ queried = TRUE /\ requests \in SUBSET QueryNames
  BY DEF IcmInv, IcmAsked
<1> HIDE DEF s, m
<1>4. PICK bytes : Message(s, m, bytes) /\ Icm!Send(bytes)
  <2>1. CASE query = "PTI"
    <3>1. PICK f \in {3, 1} : Icm!Send(Icm!PTI(now, f))
      BY <2>1 DEF Icm!Answer, Icm!TIME_IS_UTC
    <3>2. Message(s, m, Icm!PTI(now, f))
      BY <1>1, PtiMessage DEF s, m
    <3> QED BY <3>1, <3>2
  <2>2. CASE query = "STI"
    <3>1. PICK report \in Reports : Icm!Send(Icm!STI(report))
      BY <2>2 DEF Icm!Answer
    <3>2. Message(s, m, Icm!STI(report))
      BY StiMessage
    <3> QED BY <3>1, <3>2
  <2>3. CASE query \notin {"PTI", "STI"}
    <3>1. Icm!Send(Icm!Ack(query))
      BY <2>3 DEF Icm!Answer
    <3>2. query \in {"broadcast", "survey", "utc", "discipline"}
      BY <1>3, <2>3 DEF QueryNames
    <3>3. Message(s, m, Icm!Ack(query))
      BY <3>2, AckMessage
    <3> QED BY <3>1, <3>3
  <2> QED BY <2>1, <2>2, <2>3
<1>5. line = <<>> /\ line' \in {Icm!Packet(bytes)} \cup Less(Icm!Packet(bytes))
  BY <1>4 DEF Icm!Send, Icm!Lossy, Less
<1>6. todBuffer \in Buffers /\ som \in 0 .. 1 /\ IcmReads(s, m, <<>>, todBuffer, som)
  BY <1>5 DEF IcmInv, IcmBuffer, s, m
<1>7. Before(todBuffer, som)
  BY <1>1, <1>6, BetweenPackets
<1>8. Arrives(s, m, line', todBuffer, som)
  BY <1>1, <1>4, <1>5, <1>7, MessageSent
<1>9. IcmBuffer'
  BY <1>2, <1>8 DEF IcmInv, IcmBuffer, Arrives
<1>10. IcmAsked'
  BY <1>2, <1>3 DEF IcmAsked
<1>11. IcmReads(Second(now'), Minute(now'), line', todBuffer', som')
  <2>1. IcmReads(s, m, line', todBuffer, som)
    BY <1>8 DEF Arrives
  <2> QED BY <1>2, <2>1 DEF s, m
<1>12. IcmStates' /\ IcmConditions'
  BY <1>2 DEF IcmInv, IcmStates, IcmConditions, Promise!Consistent
<1>13. /\ now' \in FirstSecond .. LastSecond /\ currentTime' \in {-1, now'}
       /\ elapsed' \in BOOLEAN /\ ioInProcess' \in BOOLEAN
  BY <1>2 DEF IcmInv
<1>14. IcmInv'
  BY <1>9, <1>10, <1>11, <1>12, <1>13, IcmInvNext
<1>15. UNCHANGED Promise!gpsVars
  BY <1>2, IcmUnseen
<1> QED BY <1>14, <1>15

(* A second that passes preserves the invariant: between packets nothing is *)
(* left of the time.                                                        *)
LEMMA IcmPasses ==
  ASSUME build = "icm", build' = "icm", IcmInv, Icm!SecondPasses
  PROVE  IcmInv' /\ Promise!SecondPasses
<1> DEFINE s == Second(now)
           m == Minute(now)
<1>1. s \in 0 .. 59 /\ m \in 0 .. 59 /\ now \in Nat
  BY HourOfTime DEF IcmInv
<1>2. /\ line = <<>> /\ now' = now + 1 /\ now < LastSecond /\ currentTime' = -1
      /\ UNCHANGED <<requests, line, todBuffer, hunting, som, requestState, initIndex, elapsed>>
      /\ UNCHANGED <<ioInProcess, locked, holdover, allConditionsNormal, queried>>
  BY DEF Icm!SecondPasses, Icm!lineVars, Icm!bufferVars, Icm!queryVars, Icm!statusVars, Icm!NoTime
<1>3. todBuffer \in Buffers /\ som \in 0 .. 1 /\ IcmReads(s, m, <<>>, todBuffer, som)
  BY <1>2 DEF IcmInv, IcmBuffer
<1>4. Before(todBuffer, som)
  <2> HIDE DEF s, m
  <2> QED BY <1>1, <1>3, BetweenPackets
<1>5. IcmReads(Second(now'), Minute(now'), line', todBuffer', som')
  BY <1>2, <1>4 DEF IcmReads
<1>6. IcmStates' /\ IcmConditions' /\ IcmBuffer' /\ IcmAsked'
  BY <1>2 DEF IcmInv, IcmStates, IcmConditions, IcmBuffer, IcmAsked, Promise!Consistent
<1>7. /\ now' \in FirstSecond .. LastSecond /\ currentTime' \in {-1, now'}
      /\ elapsed' \in BOOLEAN /\ ioInProcess' \in BOOLEAN
  <2>1. now' \in FirstSecond .. LastSecond
    BY <1>2, IcmAssumption DEF IcmInv
  <2> QED BY <1>2, <2>1 DEF IcmInv
<1>8. IcmInv'
  BY <1>5, <1>6, <1>7, IcmInvNext
<1>9. Promise!SecondPasses
  BY <1>2 DEF Promise!SecondPasses, Promise!conditions
<1> QED BY <1>8, <1>9

(* A step of the driver that brings no report is a NoReport of the promise. *)
LEMMA IcmNoReports ==
  ASSUME build = "icm", build' = "icm",
         UNCHANGED <<now, locked, holdover, allConditionsNormal>>, currentTime' = -1,
         queried' \in {queried, TRUE}, ioInProcess' \in BOOLEAN,
         ioInProcess' => ioInProcess \/ queried'
  PROVE  Promise!NoReport
BY DEF Promise!NoReport, Promise!conditions

(* A timeout preserves the invariant. *)
LEMMA IcmElapses ==
  ASSUME build = "icm", build' = "icm", IcmInv, Icm!Elapse
  PROVE  IcmInv' /\ Promise!NoReport
<1>1. /\ elapsed' = TRUE /\ currentTime' = -1
      /\ UNCHANGED <<now, requests, line, todBuffer, hunting, som, requestState, initIndex>>
      /\ UNCHANGED <<ioInProcess, locked, holdover, allConditionsNormal, queried>>
  BY DEF Icm!Elapse, Icm!lineVars, Icm!bufferVars, Icm!statusVars, Icm!NoTime
<1>2. IcmStates' /\ IcmConditions' /\ IcmBuffer' /\ IcmAsked'
  BY <1>1 DEF IcmInv, IcmStates, IcmConditions, IcmBuffer, IcmAsked, Promise!Consistent
<1>3. /\ now' \in FirstSecond .. LastSecond /\ currentTime' \in {-1, now'}
      /\ elapsed' \in BOOLEAN /\ ioInProcess' \in BOOLEAN
  BY <1>1 DEF IcmInv
<1>4. IcmReads(Second(now'), Minute(now'), line', todBuffer', som')
  BY <1>1 DEF IcmInv
<1>5. IcmInv'
  BY <1>2, <1>3, <1>4, IcmInvNext
<1>6. Promise!NoReport
  BY <1>1, IcmNoReports DEF IcmInv
<1> QED BY <1>5, <1>6

(* What the state machine of the queries does to the rest. *)
Asking ==
  /\ IcmStates' /\ elapsed' \in BOOLEAN /\ ioInProcess' \in BOOLEAN
  /\ \/ requests' = requests /\ queried' = queried
     \/ requests' \in SUBSET QueryNames /\ queried' = TRUE
  /\ ioInProcess' => ioInProcess \/ queried'

(* The state machine never leaves the table of init messages, and asks before *)
(* it is answered.                                                            *)
LEMMA IcmQueries ==
  ASSUME IcmInv, ~AckAtTimeout, NEW message, Icm!InTime(message),
         IF elapsed \/ Icm!Got(message)
           THEN Icm!Queries(message)
           ELSE UNCHANGED <<requests, queried, Icm!queryVars>>
  PROVE  Asking
<1>0. IcmStates /\ elapsed \in BOOLEAN /\ ioInProcess \in BOOLEAN
  BY DEF IcmInv
<1>1. CASE UNCHANGED <<requests, queried, Icm!queryVars>>
  BY <1>0, <1>1 DEF Asking, IcmStates, Icm!queryVars
<1>2. ASSUME NEW name \in QueryNames, NEW next, Icm!Query(name, next), IcmStates' PROVE Asking
  <2>1. /\ requests' = {name} /\ queried' = TRUE /\ ioInProcess' = TRUE /\ elapsed' = FALSE
    BY <1>2 DEF Icm!Query
  <2>2. requests' \in SUBSET QueryNames
    BY <2>1
  <2> QED BY <1>2, <2>1, <2>2 DEF Asking
<1>3. ASSUME NEW got, NEW from, NEW next, Icm!Receive(got, from, next), IcmStates' PROVE Asking
  BY <1>3 DEF Asking, Icm!Receive, Icm!Schedule
<1>4. Len(Icm!InitMsgs) = 4 /\ \A i \in 1 .. 4 : Icm!InitMsgs[i] \in QueryNames
  BY DEF Icm!InitMsgs, QueryNames
<1>5. CASE Icm!Send_Init
  <2>1. initIndex \in 1 .. 4
    BY <1>0, <1>5 DEF Icm!Send_Init, IcmStates
  <2>2. Icm!InitMsgs[initIndex] \in QueryNames
    BY <1>4, <2>1
  <2>3. IcmStates'
    BY <1>5, <2>1 DEF IcmStates, Icm!Send_Init, Icm!Query
  <2> DEFINE name == Icm!InitMsgs[initIndex]
  <2>4. Icm!Query(name, "RCV_INIT")
    BY <1>5 DEF Icm!Send_Init
  <2> HIDE DEF name
  <2> QED BY <1>2, <2>2, <2>3, <2>4 DEF name
<1>6. CASE Icm!RcvInit(message)
  <2> DEFINE acked == Icm!IsAck(message)
             index == IF acked THEN Icm!AfterAck ELSE initIndex
  <2>1. /\ requestState = "RCV_INIT" /\ initIndex' = index
        /\ ioInProcess' = (ioInProcess /\ ~acked) /\ elapsed' = FALSE
        /\ requestState' = IF index = 255 /\ ~elapsed THEN "RQST_PTI" ELSE "SEND_INIT"
        /\ UNCHANGED <<requests, queried>>
    BY <1>6 DEF Icm!RcvInit, Icm!Schedule, Icm!InitDone
  <2>2. initIndex \in 1 .. 4
    BY <1>0, <2>1 DEF IcmStates
  <2>3. Icm!AfterAck = IF initIndex = 4 THEN 255 ELSE initIndex + 1
    BY <1>4 DEF Icm!AfterAck, Icm!InitDone
  <2>4. index \in 1 .. 4 \/ index = 255
    <3> HIDE DEF acked
    <3> QED BY <2>2, <2>3
  <2>5. index = 255 => ~elapsed
    <3>1. index = 255 => acked /\ Icm!AfterAck = 255
      <4> HIDE DEF acked
      <4> QED BY <2>2
    <3> QED BY <2>1, <3>1 DEF Icm!InTime, Icm!InitDone
  <2> HIDE DEF index, acked
  <2>6. IcmStates'
    BY <2>1, <2>4, <2>5 DEF IcmStates
  <2>7. elapsed' \in BOOLEAN /\ ioInProcess' \in BOOLEAN /\ (ioInProcess' => ioInProcess)
    BY <1>0, <2>1
  <2> QED BY <2>1, <2>6, <2>7 DEF Asking
<1>7. CASE Icm!Request("PTI", "RQST_PTI", "RCV_PTI")
  <2>1. IcmStates'
    BY <1>0, <1>7 DEF IcmStates, Icm!Request, Icm!Query
  <2> QED BY <1>2, <1>7, <2>1 DEF Icm!Request, QueryNames
<1>8. CASE Icm!Receive(Icm!IsPTI(message), "RCV_PTI", "RQST_STI")
  <2>1. IcmStates'
    BY <1>0, <1>8 DEF IcmStates, Icm!Receive, Icm!Schedule
  <2> QED BY <1>3, <1>8, <2>1
<1>9. CASE Icm!Request("STI", "RQST_STI", "RCV_STI")
  <2>1. IcmStates'
    BY <1>0, <1>9 DEF IcmStates, Icm!Request, Icm!Query
  <2> QED BY <1>2, <1>9, <2>1 DEF Icm!Request, QueryNames
<1>10. CASE Icm!Receive(Icm!IsSTI(message), "RCV_STI", "RQST_PTI")
  <2>1. IcmStates'
    BY <1>0, <1>10 DEF IcmStates, Icm!Receive, Icm!Schedule
  <2> QED BY <1>3, <1>10, <2>1
<1> QED BY <1>1, <1>5, <1>6, <1>7, <1>8, <1>9, <1>10 DEF Icm!Queries

(* The message of a packet: all but its end. *)
MessageOf(b, message) == message = SubSeq(b, 1, Len(b) - 2)

(* A message that is a PTI is that of a buffer that begins like one and is *)
(* eight bytes long.                                                       *)
LEMMA PtiParts ==
  ASSUME NEW b \in Buffers, Len(b) > 2, NEW message, MessageOf(b, message),
         Icm!IsPTI(message)
  PROVE  Pti(b) /\ Size(b) = 8 /\ message[4] = b[4] /\ message[5] = b[5]
<1> DEFINE n == Len(b) - 2
<1>1. n \in Nat /\ n + 2 = Len(b) /\ n \in 0 .. Len(b) /\ b \in Seq(Icm!Byte)
  BY DEF Buffers
<1> HIDE DEF n
<1>2. message = SubSeq(b, 1, n)
  BY DEF MessageOf, n
<1>3. Len(message) = n /\ \A i \in 1 .. n : message[i] = b[i]
  BY <1>1, <1>2
<1>4. n = 6 /\ Icm!Id(message) = <<143, 171>>
  BY <1>3 DEF Icm!IsPTI
<1>5. message \in Seq(Icm!Byte)
  BY <1>1, <1>2
<1>6. SubSeq(message, 1, 2) = <<143, 171>>
  BY <1>3, <1>4 DEF Icm!Id
<1>7. SubSeq(message, 1, 2)[1] = message[1] /\ SubSeq(message, 1, 2)[2] = message[2]
  BY <1>3, <1>4, <1>5
<1>8. message[1] = 143 /\ message[2] = 171
  <2> DEFINE two == SubSeq(message, 1, 2)
  <2>1. two[1] = 143 /\ two[2] = 171
    <3>1. two = <<143, 171>>
      BY <1>6
    <3> HIDE DEF two
    <3> QED BY <3>1
  <2> QED BY <1>7, <2>1
<1>9. message[1] = b[1] /\ message[2] = b[2] /\ message[4] = b[4] /\ message[5] = b[5]
  BY <1>3, <1>4
<1>10. Len(b) = 8
  BY <1>1, <1>4
<1> QED BY <1>8, <1>9, <1>10 DEF Pti, Size

(* The conditions are consistent after every update of the status. *)
LEMMA StatusUpdated ==
  ASSUME NEW utc, NEW report, Icm!UpdateStatus(utc, report)
  PROVE  IcmConditions'
<1>1. /\ allConditionsNormal' = (utc /\ Icm!AlmostOk(report))
      /\ locked' = (report.mode = 0 /\ report.activity = 0)
      /\ holdover' = (/\ report.mode \in 2 .. 4 /\ report.activity \in {0, 8}
                      /\ report.hold < MaxHoldover)
  BY DEF Icm!UpdateStatus
<1>2. allConditionsNormal' => locked'
  BY <1>1 DEF Icm!AlmostOk
<1>3. locked' => ~holdover'
  <2>1. 0 \notin 2 .. 4
    OBVIOUS
  <2> QED BY <1>1, <2>1
<1>4. locked' \in BOOLEAN /\ holdover' \in BOOLEAN /\ allConditionsNormal' \in BOOLEAN
  BY <1>1
<1> QED BY <1>2, <1>3, <1>4 DEF IcmConditions, Promise!Consistent

(* What a message that is taken does. *)
Parsed(message) ==
  \/ message # <<>> /\ IcmConditions' /\ currentTime' \in {-1, now}
  \/ currentTime' = -1 /\ UNCHANGED <<locked, holdover, allConditionsNormal>>

(* A message that is parsed brings the time that was sent, or none. *)
LEMMA IcmParses ==
  ASSUME IcmInv, NEW message, Icm!Parse(message),
         Icm!IsPTI(message) => message[4] = Second(now) /\ message[5] = Minute(now)
  PROVE  Parsed(message)
<1>1. Len(message) # 0 => message # <<>>
  OBVIOUS
<1>2. CASE Icm!IsPTI(message)
  <2>1. (60 * message[5] + message[4]) + 1 = now
    BY <1>2, HourOfTime DEF IcmInv
  <2>2. Icm!ParsePTI(message)
    BY <1>2 DEF Icm!Parse
  <2>3. currentTime' \in {-1, now}
    BY <2>1, <2>2 DEF Icm!ParsePTI, Icm!NoTime
  <2>4. IcmConditions'
    BY <2>2, StatusUpdated DEF Icm!ParsePTI
  <2>5. message # <<>>
    BY <1>1, <1>2 DEF Icm!IsPTI
  <2> QED BY <2>3, <2>4, <2>5 DEF Parsed
<1>3. CASE ~Icm!IsPTI(message) /\ Icm!IsSTI(message)
  <2>1. Icm!ParseSTI(message)
    BY <1>3 DEF Icm!Parse
  <2>2. currentTime' \in {-1, now}
    BY <2>1 DEF Icm!ParseSTI, Icm!NoTime
  <2>3. IcmConditions'
    BY <2>1, StatusUpdated DEF Icm!ParseSTI
  <2>4. message # <<>>
    BY <1>1, <1>3 DEF Icm!IsSTI
  <2> QED BY <2>2, <2>3, <2>4 DEF Parsed
<1>4. CASE ~Icm!IsPTI(message) /\ ~Icm!IsSTI(message)
  BY <1>4 DEF Icm!Parse, Parsed, Icm!NoTime, Icm!statusVars
<1> QED BY <1>2, <1>3, <1>4

(* What the driver keeps after a call of getReply is right for what comes. *)
LEMMA IcmKeeps ==
  ASSUME NEW s, NEW m, NEW rest \in Buffers, line' = rest, NEW input \in IcmInputs,
         Reads(s, m, rest, input), Icm!KeepBuffer(input)
  PROVE  IcmBuffer' /\ IcmReads(s, m, rest, todBuffer', som')
<1>0. /\ input.buffer \in Buffers /\ input.hunting \in BOOLEAN /\ input.som \in 0 .. 1
      /\ input.complete \in BOOLEAN
  BY DEF IcmInputs
<1>1. CASE input.complete /\ ~Icm!Full(input.buffer)
  <2>1. todBuffer' = <<>> /\ hunting' = TRUE /\ som' = 0
    BY <1>1 DEF Icm!KeepBuffer
  <2>2. rest \in Seq(Safe)
    BY <1>1 DEF Reads, Packed
  <2>3. Spoilt(rest, <<>>, 0)
    BY DEF Spoilt, Half, Pti, Size
  <2>4. IcmReads(s, m, rest, <<>>, 0)
    BY <2>2, <2>3 DEF IcmReads
  <2> QED BY <2>1, <2>4 DEF IcmBuffer, Buffers
<1>2. CASE ~(input.complete /\ ~Icm!Full(input.buffer))
  <2>1. todBuffer' = input.buffer /\ hunting' = input.hunting /\ som' = input.som
    BY <1>2 DEF Icm!KeepBuffer
  <2>2. IcmBuffer'
    BY <1>0, <2>1 DEF IcmBuffer, Reads
  <2>3. IcmReads(s, m, rest, input.buffer, input.som)
    <3>1. CASE input.complete
      <4>1. rest \in Seq(Safe) /\ ~Half(input.buffer) /\ Icm!Full(input.buffer)
        BY <1>2, <3>1 DEF Reads, Packed
      <4>2. Spoilt(rest, input.buffer, input.som)
        BY <4>1 DEF Spoilt
      <4> QED BY <4>1, <4>2 DEF IcmReads
    <3>2. CASE ~input.complete
      BY <3>2 DEF Reads
    <3> QED BY <3>1, <3>2
  <2> QED BY <2>1, <2>2, <2>3
<1> QED BY <1>1, <1>2

(* What getReply leaves on the line. *)
Remains(input) == SubSeq(line, input.read + 1, Len(line))

(* What getReply has made of the line. *)
Heard(input) ==
  /\ input \in IcmInputs /\ input.read \in 0 .. Len(line)
  /\ input.complete => input.read # 0
  /\ Reads(Second(now), Minute(now), Remains(input), input)

(* getReply makes a right input of what is available. *)
LEMMA IcmHears ==
  ASSUME IcmInv, NEW text \in Icm!Available
  PROVE  Heard(Icm!GetReply(text))
<1> DEFINE s == Second(now)
           m == Minute(now)
           start == [read |-> 0, buffer |-> todBuffer, hunting |-> hunting, som |-> som,
                     complete |-> FALSE]
<1>1. s \in 0 .. 59 /\ m \in 0 .. 59
  BY HourOfTime DEF IcmInv
<1>2. line \in Buffers /\ line \in Seq(Icm!Byte) /\ Len(line) \in Nat
  BY DEF IcmInv, IcmBuffer, Buffers
<1>3. /\ text \in Seq(Icm!Byte) /\ Len(text) <= Len(line)
      /\ \A i \in 1 .. Len(text) : text[i] = line[i]
  <2>1. CASE text = line
    BY <1>2, <2>1
  <2>2. CASE text = <<Head(line)>> /\ line # <<>>
    <3>1. Head(line) = line[1] /\ Len(line) >= 1 /\ line[1] \in Icm!Byte
      BY <1>2, <2>2
    <3>2. Len(text) = 1 /\ text[1] = line[1]
      BY <2>2, <3>1
    <3> QED BY <1>2, <2>2, <3>1, <3>2
  <2> QED BY <2>1, <2>2 DEF Icm!Available
<1>4. start \in IcmInputs
  BY DEF IcmInv, IcmBuffer, IcmInputs
<1>5. Reads(s, m, line, start)
  BY DEF IcmInv, IcmBuffer, Reads
<1> DEFINE whole == line
           reply == Icm!GetReply(text)
           n == Len(text)
<1>6. /\ whole \in Buffers /\ Len(text) <= Len(whole)
      /\ \A i \in 1 .. Len(text) : text[i] = whole[i]
      /\ Reads(s, m, whole, start)
  BY <1>2, <1>3, <1>5
<1>7. PICK first : first = start
  OBVIOUS
<1>8. first \in IcmInputs /\ Reads(s, m, whole, first) /\ text \in Seq(Icm!Byte)
  BY <1>3, <1>4, <1>6, <1>7
<1>9. first = [read |-> 0, buffer |-> todBuffer, hunting |-> hunting, som |-> som,
               complete |-> FALSE]
  BY <1>7
<1> HIDE DEF s, m, start, whole
<1>10. reply \in IcmRight(s, m, whole, n)
  BY <1>1, <1>6, <1>8, <1>9, IcmReply, Zenon
<1> HIDE DEF reply, n
<1>11. /\ reply \in IcmInputs /\ reply.read \in 0 .. n /\ (reply.complete => reply.read # 0)
       /\ Reads(s, m, SubSeq(whole, reply.read + 1, Len(whole)), reply)
  BY <1>10 DEF IcmRight
<1>12. n \in Nat /\ n <= Len(line)
  BY <1>3 DEF n
<1>13. reply.read \in 0 .. Len(line)
  BY <1>2, <1>11, <1>12
<1>14. Heard(reply)
  BY <1>11, <1>13 DEF Heard, Remains, s, m, whole
<1> QED BY <1>14 DEF reply

(* What getReply leaves on the line. *)
LEMMA IcmRemains ==
  ASSUME IcmInv, NEW input, Heard(input)
  PROVE  Remains(input) \in Buffers /\ (Remains(input) # <<>> => line # <<>>)
<1>1. line \in Seq(Icm!Byte) /\ Len(line) \in Nat
  BY DEF IcmInv, IcmBuffer, Buffers
<1>2. input.read \in 0 .. Len(line)
  BY DEF Heard
<1> DEFINE r == input.read
<1>3. r \in Nat /\ r <= Len(line)
  BY <1>1, <1>2
<1> HIDE DEF r
<1>4. SubSeq(line, r + 1, Len(line)) \in Seq(Icm!Byte)
  BY <1>1, <1>3
<1>5. line = <<>> => SubSeq(line, r + 1, Len(line)) = <<>>
  BY <1>1, <1>3
<1> QED BY <1>4, <1>5 DEF Remains, Buffers, r

(* What a message tells. *)
Tells(message) ==
  /\ Icm!IsPTI(message) => message[4] = Second(now) /\ message[5] = Minute(now)
  /\ message # <<>> => queried = TRUE

(* The message of an input is a PTI only with the time that was sent, and *)
(* only after a query.                                                    *)
LEMMA IcmMessages ==
  ASSUME IcmInv, NEW input, Heard(input), NEW message, message = Icm!Message(input)
  PROVE  Tells(message)
<1> DEFINE b == input.buffer
<1>1. input \in IcmInputs /\ input.read \in 0 .. Len(line) /\ (input.complete => input.read # 0)
  BY DEF Heard
<1>2. b \in Buffers
  BY <1>1 DEF IcmInputs
<1>3. message # <<>> => input.complete /\ Len(b) > 2 /\ MessageOf(b, message)
  BY DEF Icm!Message, Icm!NoMessage, MessageOf
<1>4. ASSUME Icm!IsPTI(message)
      PROVE  message[4] = Second(now) /\ message[5] = Minute(now)
  <2>1. message # <<>>
    BY <1>4 DEF Icm!IsPTI
  <2>2. input.complete /\ Len(b) > 2 /\ MessageOf(b, message)
    BY <1>3, <2>1
  <2>3. Pti(b) /\ Size(b) = 8 /\ message[4] = b[4] /\ message[5] = b[5]
    <3> HIDE DEF b
    <3> QED BY <1>2, <1>4, <2>2, PtiParts
  <2>4. Pti(b) /\ Size(b) = 8 => b[4] = Second(now) /\ b[5] = Minute(now)
    BY <2>2 DEF Heard, Reads, Packed
  <2> QED BY <2>3, <2>4
<1>5. ASSUME message # <<>> PROVE queried = TRUE
  <2>1. input.read # 0
    BY <1>1, <1>3, <1>5
  <2>2. Len(line) # 0
    BY <1>1, <2>1
  <2>3. line # <<>>
    BY <2>2
  <2> QED BY <2>3 DEF IcmInv, IcmAsked
<1> QED BY <1>4, <1>5 DEF Tells

(* A step of the driver preserves the invariant: a time it brings is the *)
(* current second.                                                       *)
LEMMA IcmStepping ==
  ASSUME build = "icm", build' = "icm", ~AckAtTimeout, IcmInv, Icm!Step
  PROVE  IcmInv' /\ (Promise!NoReport \/ Promise!Report)
<1> DEFINE s == Second(now)
           m == Minute(now)
<1>a. PICK text \in Icm!Available : \E input :
        /\ input = Icm!GetReply(text)
        /\ Icm!InTime(Icm!Message(input))
        /\ line' = Remains(input)
        /\ Icm!KeepBuffer(input)
        /\ Icm!Parse(Icm!Message(input))
        /\ IF elapsed \/ Icm!Got(Icm!Message(input))
             THEN Icm!Queries(Icm!Message(input))
             ELSE UNCHANGED <<requests, queried, Icm!queryVars>>
        /\ UNCHANGED <<now, lost>>
  BY DEF Icm!Step, Remains
<1>1. PICK input :
        /\ input = Icm!GetReply(text)
        /\ Icm!InTime(Icm!Message(input))
        /\ line' = Remains(input)
        /\ Icm!KeepBuffer(input)
        /\ Icm!Parse(Icm!Message(input))
        /\ IF elapsed \/ Icm!Got(Icm!Message(input))
             THEN Icm!Queries(Icm!Message(input))
             ELSE UNCHANGED <<requests, queried, Icm!queryVars>>
        /\ UNCHANGED <<now, lost>>
  BY <1>a
<1>2. Heard(input)
  BY <1>1, IcmHears
<1>3. PICK message : message = Icm!Message(input)
  OBVIOUS
<1>4. UNCHANGED now
  BY <1>1
<1>5. Asking
  <2>1. /\ Icm!InTime(message)
        /\ IF elapsed \/ Icm!Got(message)
             THEN Icm!Queries(message)
             ELSE UNCHANGED <<requests, queried, Icm!queryVars>>
    BY <1>1, <1>3
  <2> QED BY <2>1, IcmQueries
<1>6. Tells(message)
  BY <1>2, <1>3, IcmMessages
<1>7. Parsed(message)
  <2>1. Icm!Parse(message)
    BY <1>1, <1>3
  <2>2. Icm!IsPTI(message) => message[4] = Second(now) /\ message[5] = Minute(now)
    BY <1>6 DEF Tells
  <2> QED BY <2>1, <2>2, IcmParses
<1>8. PICK rest : rest = Remains(input)
  OBVIOUS
<1>9. rest \in Buffers /\ (rest # <<>> => line # <<>>) /\ line' = rest
  BY <1>1, <1>2, <1>8, IcmRemains
<1>10. IcmBuffer' /\ IcmReads(s, m, rest, todBuffer', som')
  <2>1. input \in IcmInputs /\ Reads(s, m, rest, input) /\ Icm!KeepBuffer(input)
    BY <1>1, <1>2, <1>8 DEF Heard
  <2> HIDE DEF s, m
  <2> QED BY <1>9, <2>1, IcmKeeps
<1>11. IcmReads(Second(now'), Minute(now'), line', todBuffer', som')
  BY <1>4, <1>9, <1>10
<1>12. /\ requests \in SUBSET QueryNames /\ queried \in BOOLEAN
       /\ requests # {} \/ line # <<>> => queried
  BY DEF IcmInv, IcmAsked
<1>13. /\ \/ requests' = requests /\ queried' = queried
          \/ requests' \in SUBSET QueryNames /\ queried' = TRUE
       /\ IcmStates' /\ elapsed' \in BOOLEAN /\ ioInProcess' \in BOOLEAN
       /\ ioInProcess' => ioInProcess \/ queried'
  BY <1>5 DEF Asking
<1>14. IcmAsked'
  <2>1. CASE requests' = requests /\ queried' = queried
    <3>1. line' # <<>> => line # <<>>
      BY <1>9
    <3>2. requests' # {} \/ line' # <<>> => queried'
      BY <1>12, <2>1, <3>1
    <3>3. requests' \in SUBSET QueryNames /\ queried' \in BOOLEAN
      BY <1>12, <2>1
    <3> QED BY <3>2, <3>3 DEF IcmAsked
  <2>2. CASE requests' \in SUBSET QueryNames /\ queried' = TRUE
    BY <2>2 DEF IcmAsked
  <2> QED BY <1>13, <2>1, <2>2
<1>15. now' \in FirstSecond .. LastSecond
  BY <1>4 DEF IcmInv
<1>16. CASE message # <<>> /\ IcmConditions' /\ currentTime' \in {-1, now}
  <2>1. IcmInv'
    <3>1. currentTime' \in {-1, now'}
      BY <1>4, <1>16
    <3> QED BY <1>10, <1>11, <1>13, <1>14, <1>15, <1>16, <3>1, IcmInvNext
  <2>2. queried = TRUE /\ queried' = queried
    BY <1>6, <1>13, <1>16 DEF Tells
  <2>3. Promise!Report
    <3>1. /\ locked' \in BOOLEAN /\ holdover' \in BOOLEAN /\ allConditionsNormal' \in BOOLEAN
          /\ Promise!Consistent'
      BY <1>16 DEF IcmConditions
    <3> QED BY <1>4, <1>13, <1>16, <2>2, <3>1 DEF Promise!Report
  <2> QED BY <2>1, <2>3
<1>17. CASE currentTime' = -1 /\ UNCHANGED <<locked, holdover, allConditionsNormal>>
  <2>1. IcmConditions'
    BY <1>17 DEF IcmInv, IcmConditions, Promise!Consistent
  <2>2. IcmInv'
    <3>1. currentTime' \in {-1, now'}
      BY <1>17
    <3> QED BY <1>10, <1>11, <1>13, <1>14, <1>15, <2>1, <3>1, IcmInvNext
  <2>3. queried' \in {queried, TRUE}
    BY <1>13
  <2>4. Promise!NoReport
    BY <1>4, <1>13, <1>17, <2>3, IcmNoReports
  <2> QED BY <2>2, <2>4
<1> QED BY <1>7, <1>16, <1>17 DEF Parsed

(* Every step of the ICM SMT 360 preserves the invariant and keeps the *)
(* promise.                                                            *)
LEMMA IcmSteps ==
  ASSUME build = "icm", build' = "icm", ~AckAtTimeout, IcmInv, Icm!Next
  PROVE  IcmInv' /\ (Promise!GpsNext \/ UNCHANGED Promise!gpsVars)
BY IcmAnswers, IcmPasses, IcmElapses, IcmStepping DEF Icm!Next, Icm!Receiver, Promise!GpsNext

-----------------------------------------------------------------------------
(* Both receivers. *)

(* The build is one or the other, and its invariant holds. *)
ReceiversInv == \/ build = "icm" /\ IcmInv
                \/ build = "hp" /\ HpInv

(* The invariant holds initially. *)
LEMMA ReceiversStart ==
  ASSUME Init
  PROVE  ReceiversInv
BY IcmInitRight, HpInitRight DEF Init, ReceiversInv

(* Every step preserves the invariant and keeps the promise. *)
LEMMA ReceiversSteps ==
  ASSUME ReceiversInv, ~AckAtTimeout, [Next]_vars
  PROVE  ReceiversInv' /\ (Promise!GpsNext \/ UNCHANGED Promise!gpsVars)
<1>1. CASE IcmNext
  <2>1. build = "icm" /\ build' = "icm" /\ Icm!Next
    BY <1>1 DEF IcmNext
  <2>2. IcmInv
    BY <2>1 DEF ReceiversInv
  <2>3. IcmInv' /\ (Promise!GpsNext \/ UNCHANGED Promise!gpsVars)
    BY <2>1, <2>2, IcmSteps
  <2> QED BY <2>1, <2>3 DEF ReceiversInv
<1>2. CASE HpNext
  <2>1. build = "hp" /\ build' = "hp" /\ Hp!Next
    BY <1>2 DEF HpNext
  <2>2. HpInv
    BY <2>1 DEF ReceiversInv
  <2>3. HpInv' /\ (Promise!GpsNext \/ UNCHANGED Promise!gpsVars)
    BY <2>1, <2>2, HpSteps
  <2> QED BY <2>1, <2>3 DEF ReceiversInv
<1>3. CASE UNCHANGED vars
  <2>1. UNCHANGED <<build, now, requests, line, lost, todBuffer, elapsed, ioInProcess, locked>>
        /\ UNCHANGED <<holdover, allConditionsNormal, currentTime, queried>>
        /\ UNCHANGED <<hunting, som, requestState, initIndex, haveUtcOffset, status>>
        /\ UNCHANGED <<firstDay, todOnRequest>>
    BY <1>3 DEF vars, icmVars, hpVars
  <2>2. CASE build = "icm" /\ IcmInv
    <3>1. IcmStates' /\ IcmConditions' /\ IcmBuffer' /\ IcmAsked'
      BY <2>1, <2>2
        DEF IcmInv, IcmStates, IcmConditions, IcmBuffer, IcmAsked, Promise!Consistent
    <3>2. IcmInv'
      BY <2>1, <2>2, <3>1 DEF IcmInv
    <3>3. UNCHANGED Promise!gpsVars
      BY <2>1, <2>2, IcmUnseen
    <3> QED BY <2>1, <2>2, <3>2, <3>3 DEF ReceiversInv
  <2>3. CASE build = "hp" /\ HpInv
    <3>1. UNCHANGED Hp!clockVars
      BY <2>1 DEF Hp!clockVars
    <3>2. PICK rs : rs = HpRs
      OBVIOUS
    <3>3. PICK time : time = Hp!NtpNow
      OBVIOUS
    <3>4. HpRs' = rs /\ Hp!NtpNow' = time
      BY <3>1, <3>2, <3>3, HpFrame
    <3>5. HpType'
      BY <2>1, <2>3, <3>3, <3>4 DEF HpInv, HpType
    <3>6. HpLineRight(rs, line') /\ BufferRight(rs, Len(line'), todBuffer')
      BY <2>1, <2>3, <3>2 DEF HpInv
    <3>7. requests' > 0 \/ line' # <<>> => queried'
      BY <2>1, <2>3 DEF HpInv
    <3>8. HpInv'
      BY <2>1, <3>4, <3>5, <3>6, <3>7, HpInvNext
    <3>9. UNCHANGED Promise!gpsVars
      BY <2>1, <2>3, <3>1, HpStutters
    <3> QED BY <2>1, <2>3, <3>8, <3>9 DEF ReceiversInv
  <2> QED BY <2>2, <2>3 DEF ReceiversInv
<1> QED BY <1>1, <1>2, <1>3 DEF Next

(* The invariant has TimeRight as a part. *)
LEMMA TimesRight ==
  ASSUME ReceiversInv
  PROVE  TimeRight
<1>1. CASE build = "icm" /\ IcmInv
  BY <1>1 DEF TimeRight, Icm!TimeRight, IcmInv, Icm!NoTime
<1>2. CASE build = "hp" /\ HpInv
  BY <1>2 DEF TimeRight, Hp!TimeRight, HpInv, HpType, Hp!NoTime
<1> QED BY <1>1, <1>2 DEF ReceiversInv

(* The initial states are initial states of the promise. *)
LEMMA PromiseStarts ==
  ASSUME Init
  PROVE  Promise!GpsInit
<1>1. CASE build = "icm" /\ Icm!Init
  <2>1. IcmInv
    BY <1>1, IcmInitRight
  <2>2. now \in Int
    BY <2>1, IcmAssumption DEF IcmInv
  <2>3. IcmConditions
    BY <2>1 DEF IcmInv
  <2>4. queried = FALSE /\ ioInProcess = FALSE /\ currentTime = -1
    BY <1>1 DEF Icm!Init, Icm!NoTime
  <2> QED BY <1>1, <2>2, <2>3, <2>4 DEF Promise!GpsInit, IcmConditions
<1>2. CASE build = "hp" /\ Hp!Init
  <2>1. HpInv
    BY <1>2, HpInitRight
  <2>2. Hp!NtpNow \in Int
    <3>1. firstDay \in FirstDays /\ now \in Int
      BY <2>1, DayAssumption DEF HpInv, HpType
    <3> DEFINE days == Hp!DaysBefore(firstDay) * SecondsPerDay
    <3>2. days \in Int
      BY <3>1, HpSecondsCounted
    <3>3. Hp!NtpNow = days + now
      BY DEF Hp!NtpNow
    <3> HIDE DEF days
    <3> QED BY <3>1, <3>2, <3>3
  <2>3. /\ locked = TRUE /\ holdover = FALSE /\ allConditionsNormal = TRUE
    BY <2>1 DEF HpInv, HpType
  <2>4. ~queried /\ ~ioInProcess /\ currentTime = -1
    BY <1>2 DEF Hp!Init, Hp!NoTime
  <2>5. Promise!Consistent
    BY <2>3 DEF Promise!Consistent
  <2> QED BY <1>2, <2>2, <2>3, <2>4, <2>5 DEF Promise!GpsInit
<1> QED BY <1>1, <1>2 DEF Init

(* The invariant holds of either build at all times, unless the last          *)
(* acknowledgement comes as its timeout expires: the driver then sends what   *)
(* is behind the table of init messages (IcmSmt360.cpp:532-572).              *)
THEOREM InvariantCorrect == ~AckAtTimeout => (Spec => []ReceiversInv)
<1> SUFFICES ASSUME ~AckAtTimeout PROVE Spec => []ReceiversInv
  OBVIOUS
<1>1. Init => ReceiversInv
  BY ReceiversStart
<1>2. ReceiversInv /\ [Next]_vars => ReceiversInv'
  BY ReceiversSteps
<1> QED BY <1>1, <1>2, PTL DEF Spec

(* A time that either driver takes over is that of the current second,        *)
(* whichever byte of a packet is lost (IcmSmt360.cpp:120-285) and whatever    *)
(* pieces of the replies are garbled (HP55300A.cpp:81-258).                   *)
THEOREM TimeCorrect == ~AckAtTimeout => (Spec => []TimeRight)
<1> SUFFICES ASSUME ~AckAtTimeout PROVE Spec => []TimeRight
  OBVIOUS
<1>1. Spec => []ReceiversInv
  BY InvariantCorrect
<1>2. ReceiversInv => TimeRight
  BY TimesRight
<1> QED BY <1>1, <1>2, PTL

(* Either driver keeps the promise of SerialGps: it brings a time only after  *)
(* a query, that of the current second, once, with consistent conditions      *)
(* (IcmSmt360.cpp:489-634, HP55300A.cpp:116-258).                             *)
THEOREM PromiseCorrect == ~AckAtTimeout => (Spec => KeepsPromise)
<1> SUFFICES ASSUME ~AckAtTimeout PROVE Spec => KeepsPromise
  OBVIOUS
<1>1. Spec => []ReceiversInv
  BY InvariantCorrect
<1>2. Init => Promise!GpsInit
  BY PromiseStarts
<1>3. ReceiversInv /\ [Next]_vars => [Promise!GpsNext]_Promise!gpsVars
  BY ReceiversSteps
<1> QED BY <1>1, <1>2, <1>3, PTL DEF Spec, KeepsPromise, Promise!GpsSpec
=============================================================================
