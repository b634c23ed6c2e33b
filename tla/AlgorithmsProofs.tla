-------------------------- MODULE AlgorithmsProofs --------------------------
(***************************************************************************)
(* Proofs about the pure algorithms: for every calendar, that the search   *)
(* of the schedule table finds the first moment at which a schedule is     *)
(* due; that the formats keep what is put into them.                       *)
(***************************************************************************)
EXTENDS Algorithms, WellFoundedInduction, TLAPS

-----------------------------------------------------------------------------
(* Arithmetic *)

(* Quotient and remainder are what they are known by. *)
LEMMA Division ==
  ASSUME NEW b \in Nat \ {0}, NEW q \in Int, NEW r \in 0 .. b - 1,
         NEW x \in Int, x = q * b + r
  PROVE  x % b = r /\ x \div b = q
OBVIOUS

(* Every number has them. *)
LEMMA Remainder ==
  ASSUME NEW b \in Nat \ {0}, NEW x \in Int
  PROVE  /\ x % b \in 0 .. b - 1 /\ x \div b \in Int
         /\ x = (x \div b) * b + (x % b)
OBVIOUS

(* Products of sums, and of products. *)
LEMMA Distributes ==
  ASSUME NEW a \in Int, NEW b \in Int, NEW c \in Int
  PROVE  /\ a * c \in Int
         /\ (a + b) * c = a * c + b * c
         /\ a * (b * c) = (a * b) * c
OBVIOUS

(* Adding to a sum. *)
LEMMA Associates ==
  ASSUME NEW x \in Int, NEW y \in Int, NEW z \in Int, NEW r \in Int, x = y + z
  PROVE  x + r = y + (z + r) /\ x + r \in Int
OBVIOUS

(* Multiplication keeps the order. *)
LEMMA Monotone ==
  ASSUME NEW a \in Int, NEW b \in Int, NEW c \in Nat, a <= b
  PROVE  a * c <= b * c
OBVIOUS

(* A remainder of the sum of two that are smaller than w. *)
LEMMA WrapsOnce ==
  ASSUME NEW w \in Nat \ {0}, NEW a \in 0 .. w - 1, NEW k \in 0 .. w - 1
  PROVE  (a + k) % w = IF a + k < w THEN a + k ELSE a + k - w
OBVIOUS

(* A remainder of the difference of two that are smaller than w. *)
LEMMA WrapsBack ==
  ASSUME NEW w \in Nat \ {0}, NEW a \in 0 .. w - 1, NEW k \in 0 .. w - 1
  PROVE  (a - k) % w = IF a >= k THEN a - k ELSE a - k + w
OBVIOUS

(* The remainder by a multiple keeps the remainder by the factor. *)
LEMMA WrapsWhole ==
  ASSUME NEW t \in Nat \ {0}, NEW d \in Nat \ {0}, NEW q \in Int,
         NEW r \in 0 .. t - 1
  PROVE  (q * t + r) % (d * t) = (q % d) * t + r
<1> DEFINE m == q % d
           n == q \div d
           w == d * t
<1>1. m \in 0 .. d - 1 /\ n \in Int /\ q = n * d + m
  BY Remainder
<1>2. n * d \in Int /\ m \in Int /\ d \in Int /\ t \in Int
  BY <1>1
<1> HIDE DEF m, n
<1>3. q * t = (n * d) * t + m * t
  BY <1>1, <1>2, Distributes
<1>4. (n * d) * t = n * w
  BY <1>1, <1>2, Distributes
<1>5. m * t <= (d - 1) * t /\ (d - 1) * t = d * t + (-1) * t /\ 0 * t <= m * t
  BY <1>1, Monotone, Distributes
<1>6. w \in Nat \ {0} /\ m * t \in Int /\ n * w \in Int
  BY <1>1
<1> HIDE DEF w
<1>7. m * t + r \in 0 .. w - 1
  BY <1>5, <1>6 DEF w
<1>8. q * t \in Int /\ q * t = n * w + m * t
  BY <1>2, <1>3, <1>4, Distributes
<1>9. r \in Int
  OBVIOUS
<1>10. q * t + r = n * w + (m * t + r) /\ q * t + r \in Int
  BY <1>6, <1>8, <1>9, Associates
<1>11. (q * t + r) % w = m * t + r
  <2> DEFINE x == q * t + r
             y == m * t + r
  <2>1. x \in Int /\ y \in 0 .. w - 1 /\ x = n * w + y
    BY <1>7, <1>10
  <2> HIDE DEF x, y
  <2>2. x % w = y
    BY <1>1, <1>6, <2>1, Division
  <2> QED
    BY <2>2 DEF x, y
<1> QED
  BY <1>11 DEF w, m

(* A set of numbers has a least. *)
LEMMA Least ==
  ASSUME NEW T, T \subseteq Nat, T # {}
  PROVE  \E x \in T : \A y \in T : x <= y
<1>1. IsWellFoundedOn(OpToRel(<, Nat), Nat)
  BY NatLessThanWellFounded
<1>2. PICK x \in T : \A y \in T : ~ (<<y, x>> \in OpToRel(<, Nat))
  BY <1>1, WFMin
<1>3. \A y \in T : ~(y < x)
  BY <1>2 DEF OpToRel
<1> QED
  BY <1>3

-----------------------------------------------------------------------------
(* The moments of a week *)

(* What the assumption says of the constants. *)
LEMMA CalendarNumbers ==
  /\ TicksPerMinute \in Nat \ {0} /\ MinutesPerDay \in Nat \ {0}
  /\ DaysPerWeek \in Nat \ {0}
  /\ TicksPerDay \in Nat \ {0} /\ Week \in Nat \ {0}
  /\ TicksPerDay = MinutesPerDay * TicksPerMinute
  /\ Week = DaysPerWeek * TicksPerDay
  /\ TicksPerDay <= Week
<1>1. TicksPerDay \in Nat \ {0}
  BY CalendarAssumption DEF TicksPerDay
<1> QED
  BY <1>1, CalendarAssumption, Monotone DEF TicksPerDay, Week

(* A moment is a day and a tick of that day. *)
LEMMA DayAndTick ==
  ASSUME NEW t \in Times
  PROVE  /\ DayOf(t) \in Weekdays /\ TickOfDay(t) \in 0 .. TicksPerDay - 1
         /\ t = DayOf(t) * TicksPerDay + TickOfDay(t)
<1>1. t \in Int /\ 0 <= t /\ t < Week
  BY CalendarNumbers DEF Times
<1>2. /\ DayOf(t) \in Int /\ TickOfDay(t) \in 0 .. TicksPerDay - 1
      /\ t = DayOf(t) * TicksPerDay + TickOfDay(t)
  BY <1>1, CalendarNumbers, Remainder DEF DayOf, TickOfDay
<1>3. ASSUME DayOf(t) < 0 PROVE FALSE
  <2>1. DayOf(t) * TicksPerDay <= (-1) * TicksPerDay
    BY <1>2, <1>3, CalendarNumbers, Monotone
  <2> QED
    BY <1>1, <1>2, <2>1, CalendarNumbers
<1>4. ASSUME DayOf(t) >= DaysPerWeek PROVE FALSE
  <2>1. DaysPerWeek * TicksPerDay <= DayOf(t) * TicksPerDay
    BY <1>2, <1>4, CalendarNumbers, Monotone
  <2>2. DayOf(t) * TicksPerDay \in Int
    BY <1>2, CalendarNumbers, Distributes
  <2> QED
    BY <1>1, <1>2, <2>1, <2>2, CalendarNumbers
<1> QED
  BY <1>2, <1>3, <1>4, CalendarNumbers DEF Weekdays

(* A day and a tick of it, counted in any week, make a moment. *)
LEMMA MomentOf ==
  ASSUME NEW q \in Int, NEW r \in 0 .. TicksPerDay - 1
  PROVE  LET t == (q * TicksPerDay + r) % Week
         IN  /\ t \in Times
             /\ DayOf(t) = q % DaysPerWeek /\ TickOfDay(t) = r
<1> DEFINE t == (q * TicksPerDay + r) % Week
           e == q % DaysPerWeek
<1>1. r \in Int /\ q * TicksPerDay \in Int
  BY CalendarNumbers, Distributes
<1>2. t \in 0 .. Week - 1
  <2> DEFINE x == q * TicksPerDay + r
  <2>1. x \in Int
    BY <1>1
  <2> HIDE DEF x
  <2>2. x % Week \in 0 .. Week - 1
    BY <2>1, CalendarNumbers, Remainder
  <2> QED
    BY <2>2 DEF x
<1>3. t = e * TicksPerDay + r
  BY CalendarNumbers, WrapsWhole
<1>4. e \in Int
  BY CalendarNumbers, Remainder
<1> HIDE DEF t, e
<1>5. t % TicksPerDay = r /\ t \div TicksPerDay = e
  BY <1>2, <1>3, <1>4, CalendarNumbers, Division
<1> QED
  BY <1>2, <1>5 DEF Times, DayOf, TickOfDay, t, e

(* The start of a minute in its day. *)
LEMMA MinuteStart ==
  ASSUME NEW m \in Minutes
  PROVE  m * TicksPerMinute \in 0 .. TicksPerDay - 1
<1>1. m \in Int /\ 0 <= m /\ m <= MinutesPerDay - 1 /\ MinutesPerDay - 1 \in Int
  BY CalendarNumbers DEF Minutes
<1>2. /\ 0 * TicksPerMinute <= m * TicksPerMinute
      /\ m * TicksPerMinute <= (MinutesPerDay - 1) * TicksPerMinute
  BY <1>1, CalendarNumbers, Monotone
<1>3. (MinutesPerDay - 1) * TicksPerMinute = TicksPerDay - TicksPerMinute
  BY CalendarNumbers
<1>4. m * TicksPerMinute \in Int
  BY <1>1, CalendarNumbers, Distributes
<1> QED
  BY <1>2, <1>3, <1>4, CalendarNumbers

(* The minutes of a day do not matter to the ticks within a minute. *)
LEMMA TickOfMinute ==
  ASSUME NEW t \in Times
  PROVE  t % TicksPerMinute = TickOfDay(t) % TicksPerMinute
<1> DEFINE q == DayOf(t)
           r == TickOfDay(t)
           n == r \div TicksPerMinute
           p == r % TicksPerMinute
<1>1. q \in Int /\ r \in Int /\ t = q * TicksPerDay + r
  BY DayAndTick, CalendarNumbers DEF Weekdays
<1> HIDE DEF q, r
<1>2. n \in Int /\ p \in 0 .. TicksPerMinute - 1 /\ r = n * TicksPerMinute + p
  BY <1>1, CalendarNumbers, Remainder
<1> HIDE DEF n, p
<1>3. q * TicksPerDay = (q * MinutesPerDay) * TicksPerMinute
  BY <1>1, CalendarNumbers, Distributes
<1>4. q * MinutesPerDay \in Int /\ q * MinutesPerDay + n \in Int
  BY <1>1, <1>2, CalendarNumbers, Distributes
<1>5. (q * MinutesPerDay + n) * TicksPerMinute
        = (q * MinutesPerDay) * TicksPerMinute + n * TicksPerMinute
  BY <1>2, <1>4, CalendarNumbers, Distributes
<1>6. p \in Int /\ t \in Int
  BY <1>2, CalendarNumbers DEF Times
<1>7. t = (q * MinutesPerDay + n) * TicksPerMinute + p
  <2>1. /\ (q * MinutesPerDay) * TicksPerMinute \in Int
        /\ n * TicksPerMinute \in Int
    BY <1>2, <1>4, CalendarNumbers, Distributes
  <2> QED
    BY <1>1, <1>2, <1>3, <1>5, <1>6, <2>1
<1>8. t % TicksPerMinute = p
  BY <1>2, <1>4, <1>6, <1>7, CalendarNumbers, Division
<1> QED
  BY <1>8 DEF p, r

(* A number of whole minutes has no remainder. *)
LEMMA WholeMinutes ==
  ASSUME NEW n \in Int
  PROVE  /\ (n * TicksPerMinute) % TicksPerMinute = 0
         /\ (n * TicksPerMinute) \div TicksPerMinute = n
<1> DEFINE x == n * TicksPerMinute
<1>1. x \in Int /\ x = n * TicksPerMinute + 0 /\ 0 \in 0 .. TicksPerMinute - 1
  BY CalendarNumbers, Distributes
<1> HIDE DEF x
<1>2. x % TicksPerMinute = 0 /\ x \div TicksPerMinute = n
  BY <1>1, CalendarNumbers, Division
<1> QED
  BY <1>2 DEF x

(* Going k ticks on, and back. *)
LEMMA LaterAndUntil ==
  ASSUME NEW now \in Times
  PROVE  /\ \A k \in 0 .. Week - 1 : /\ Later(now, k) \in Times
                                    /\ Until(now, Later(now, k)) = k
         /\ \A t \in Times : /\ Until(now, t) \in 0 .. Week - 1
                             /\ Later(now, Until(now, t)) = t
<1> DEFINE w == Week
<1>1. w \in Nat \ {0} /\ now \in 0 .. w - 1
  BY CalendarNumbers DEF Times
<1> HIDE DEF w
<1>2. ASSUME NEW k \in 0 .. w - 1
      PROVE  (now + k) % w \in 0 .. w - 1 /\ (((now + k) % w) - now) % w = k
  <2> DEFINE y == (now + k) % w
  <2>1. y = IF now + k < w THEN now + k ELSE now + k - w
    BY <1>1, WrapsOnce
  <2> HIDE DEF y
  <2>2. y \in 0 .. w - 1
    BY <1>1, <2>1
  <2>3. (y - now) % w = IF y >= now THEN y - now ELSE y - now + w
    BY <1>1, <2>2, WrapsBack
  <2>4. (y - now) % w = k
    BY <1>1, <2>1, <2>2, <2>3
  <2> QED
    BY <2>2, <2>4 DEF y
<1>3. ASSUME NEW t \in 0 .. w - 1
      PROVE  (t - now) % w \in 0 .. w - 1 /\ (now + ((t - now) % w)) % w = t
  <2> DEFINE y == (t - now) % w
  <2>1. y = IF t >= now THEN t - now ELSE t - now + w
    BY <1>1, WrapsBack
  <2> HIDE DEF y
  <2>2. y \in 0 .. w - 1
    BY <1>1, <2>1
  <2>3. (now + y) % w = IF now + y < w THEN now + y ELSE now + y - w
    BY <1>1, <2>2, WrapsOnce
  <2>4. (now + y) % w = t
    BY <1>1, <2>1, <2>2, <2>3
  <2> QED
    BY <2>2, <2>4 DEF y
<1>4. \A k \in 0 .. Week - 1 : Later(now, k) \in Times /\ Until(now, Later(now, k)) = k
  BY <1>2 DEF Times, Later, Until, w
<1>5. \A t \in Times : Until(now, t) \in 0 .. Week - 1 /\ Later(now, Until(now, t)) = t
  <2> SUFFICES ASSUME NEW t \in Times
               PROVE  /\ Until(now, t) \in 0 .. Week - 1
                      /\ Later(now, Until(now, t)) = t
    OBVIOUS
  <2>1. t \in 0 .. w - 1 /\ Until(now, t) = (t - now) % w
    BY DEF Times, Until, w
  <2>2. (t - now) % w \in 0 .. w - 1 /\ (now + ((t - now) % w)) % w = t
    BY <1>3, <2>1
  <2>3. Later(now, Until(now, t)) = (now + Until(now, t)) % w
    BY DEF Later, w
  <2>4. w = Week
    BY DEF w
  <2> QED
    BY <2>1, <2>2, <2>3, <2>4
<1> QED
  BY <1>4, <1>5

-----------------------------------------------------------------------------
(* The days on which a schedule is due *)

(* The minute of a schedule is one of the day, or does not parse.          *)
Readable(table) == \A i \in Ids : table[i].minute \in Minutes \cup {BadMinute}

(* A candidate lies within the week. *)
LEMMA CandidateIsNumber ==
  ASSUME NEW now \in Times, NEW s, s.minute \in Minutes, NEW d \in Weekdays
  PROVE  Candidate(s, now, d) \in Int /\ Candidate(s, now, d) < Week
<1> DEFINE m == s.minute * TicksPerMinute
           r == TickOfDay(now)
           n == d * TicksPerDay
<1>1. m \in 0 .. TicksPerDay - 1 /\ r \in 0 .. TicksPerDay - 1
  BY MinuteStart, DayAndTick
<1>2. d \in Int /\ d <= DaysPerWeek - 1 /\ DaysPerWeek - 1 \in Int
  BY CalendarNumbers DEF Weekdays
<1>3. n \in Int /\ n <= (DaysPerWeek - 1) * TicksPerDay
  BY <1>2, CalendarNumbers, Monotone, Distributes
<1>4. (DaysPerWeek - 1) * TicksPerDay = Week - TicksPerDay
  BY CalendarNumbers
<1>5. Candidate(s, now, d) = n + m - r
  BY DEF Candidate
<1> HIDE DEF m, r, n
<1> QED
  BY <1>1, <1>3, <1>4, <1>5, CalendarNumbers

(* A candidate that is not over is the schedule's minute on its day.       *)
LEMMA CandidateIsMoment ==
  ASSUME NEW now \in Times, NEW s, s.minute \in Minutes, NEW d \in Weekdays,
         Candidate(s, now, d) >= 0
  PROVE  LET t == Later(now, Candidate(s, now, d))
         IN  /\ t \in Times
             /\ DayOf(t) = (DayOf(now) + d) % DaysPerWeek
             /\ MinuteOfDay(t) = s.minute
             /\ t % TicksPerMinute = 0
<1> DEFINE c == Candidate(s, now, d)
           t == Later(now, c)
           m == s.minute * TicksPerMinute
           r == TickOfDay(now)
           q == DayOf(now)
<1>1. m \in 0 .. TicksPerDay - 1 /\ r \in 0 .. TicksPerDay - 1 /\ q \in Int
      /\ now = q * TicksPerDay + r
  BY MinuteStart, DayAndTick DEF Weekdays
<1>2. c = d * TicksPerDay + m - r /\ d \in Int /\ s.minute \in Int
  BY DEF Candidate, Weekdays, Minutes
<1>3. (q + d) * TicksPerDay = q * TicksPerDay + d * TicksPerDay
  BY <1>1, <1>2, CalendarNumbers, Distributes
<1>4. q * TicksPerDay \in Int /\ d * TicksPerDay \in Int /\ m \in Int /\ r \in Int
  BY <1>1, <1>2, CalendarNumbers, Distributes
<1>5. t = (now + c) % Week
  BY DEF Later
<1> HIDE DEF c, t, r, q, m
<1>6. now + c = (q + d) * TicksPerDay + m
  BY <1>1, <1>2, <1>3, <1>4
<1>7. t \in Times /\ DayOf(t) = (q + d) % DaysPerWeek /\ TickOfDay(t) = m
  BY <1>1, <1>2, <1>5, <1>6, MomentOf
<1>9. m % TicksPerMinute = 0 /\ m \div TicksPerMinute = s.minute
  BY <1>2, WholeMinutes DEF m
<1>10. t % TicksPerMinute = 0
  BY <1>7, <1>9, TickOfMinute
<1>11. MinuteOfDay(t) = s.minute
  BY <1>7, <1>9 DEF MinuteOfDay
<1> QED
  BY <1>7, <1>10, <1>11 DEF t, c, q

(* And within less than a day there is no other: a moment at which the     *)
(* schedule is due is the candidate of today or of tomorrow.  (In a week   *)
(* of one day tomorrow is today, which the search does not consider        *)
(* twice.)                                                                 *)
LEMMA MomentIsCandidate ==
  ASSUME DaysPerWeek > 1, NEW now \in Times, NEW k \in 0 .. TicksPerDay - 1,
         NEW s, s.minute \in Minutes \cup {BadMinute}, Occurs(s, Later(now, k))
  PROVE  /\ Considered(s, now) /\ s.minute \in Minutes
         /\ \E d \in DueDays(s, now) : Candidate(s, now, d) = k
<1> DEFINE t == Later(now, k)
           q == DayOf(now)
           r == TickOfDay(now)
           d == IF r + k < TicksPerDay THEN 0 ELSE 1
           u == r + k - d * TicksPerDay
<1>1. q \in Int /\ r \in 0 .. TicksPerDay - 1 /\ now = q * TicksPerDay + r
  BY DayAndTick DEF Weekdays
<1>2. q * TicksPerDay \in Int /\ k \in Int /\ r \in Int
  BY <1>1, CalendarNumbers, Distributes
<1>3. t = (now + k) % Week
  BY DEF Later
<1> HIDE DEF q, r, t
<1>4. d \in Weekdays /\ d \in Int /\ u \in 0 .. TicksPerDay - 1
  BY <1>1, <1>2, CalendarNumbers DEF Weekdays
<1>5. (q + d) * TicksPerDay = q * TicksPerDay + d * TicksPerDay
  BY <1>1, <1>4, CalendarNumbers, Distributes
<1>6. d * TicksPerDay \in Int
  BY <1>4, CalendarNumbers, Distributes
<1>7. r + k = d * TicksPerDay + u /\ u \in Int
  BY <1>2, <1>4, <1>6
<1> HIDE DEF d, u
<1>8. now + k = (q + d) * TicksPerDay + u
  BY <1>1, <1>2, <1>5, <1>6, <1>7
<1>9. t \in Times /\ DayOf(t) = (q + d) % DaysPerWeek /\ TickOfDay(t) = u
  BY <1>1, <1>3, <1>4, <1>8, MomentOf
<1>10. s.enabled /\ s.minute = MinuteOfDay(t) /\ t % TicksPerMinute = 0 /\ DayOf(t) \in s.days
  BY DEF Occurs, t
<1>11. /\ u % TicksPerMinute = 0 /\ s.minute = u \div TicksPerMinute
       /\ s.minute \in Int
  <2>1. u \div TicksPerMinute \in Int
    BY <1>7, CalendarNumbers, Remainder
  <2>2. u % TicksPerMinute = t % TicksPerMinute
    BY <1>9, TickOfMinute
  <2>3. MinuteOfDay(t) = u \div TicksPerMinute
    BY <1>9 DEF MinuteOfDay
  <2> QED
    BY <1>10, <2>1, <2>2, <2>3
<1>12. u = s.minute * TicksPerMinute
  <2>1. u = (u \div TicksPerMinute) * TicksPerMinute + (u % TicksPerMinute)
    BY <1>7, CalendarNumbers, Remainder
  <2>2. s.minute * TicksPerMinute \in Int
    BY <1>11, CalendarNumbers, Distributes
  <2> QED
    BY <1>11, <2>1, <2>2
<1>13. s.minute # BadMinute
  <2>1. ASSUME s.minute = -1 PROVE FALSE
    BY <1>4, <1>12, <2>1, CalendarNumbers
  <2> QED
    BY <2>1 DEF BadMinute
<1>14. Candidate(s, now, d) = k
  <2>1. Candidate(s, now, d) = d * TicksPerDay + u - r
    BY <1>12 DEF Candidate, r
  <2> QED
    BY <1>2, <1>6, <1>7, <2>1
<1>15. d \in DueDays(s, now)
  BY <1>4, <1>9, <1>10, <1>14, <1>2 DEF DueDays, Weekdays, q
<1> QED
  BY <1>10, <1>13, <1>14, <1>15 DEF Considered

(* The search takes the first of the days a schedule is due on.            *)
LEMMA FirstDueIsLeast ==
  ASSUME NEW now \in Times, NEW s, s.minute \in Minutes, DueDays(s, now) # {}
  PROVE  /\ FirstDue(s, now) \in 0 .. Week - 1
         /\ \E d \in DueDays(s, now) : FirstDue(s, now) = Candidate(s, now, d)
         /\ \A e \in DueDays(s, now) : FirstDue(s, now) <= Candidate(s, now, e)
<1> DEFINE D == DueDays(s, now)
           first == CHOOSE d \in D : \A e \in D : d <= e
<1>1. D \subseteq Nat /\ D # {} /\ D \subseteq Weekdays
  BY CalendarNumbers DEF DueDays, Weekdays
<1>2. first \in D /\ \A e \in D : first <= e
  BY <1>1, Least
<1>3. FirstDue(s, now) = Candidate(s, now, first)
  BY DEF FirstDue
<1>4. \A e \in D : e \in Weekdays /\ Candidate(s, now, e) >= 0
  BY <1>1 DEF DueDays
<1> HIDE DEF D, first
<1>5. FirstDue(s, now) \in 0 .. Week - 1
  BY <1>2, <1>3, <1>4, CandidateIsNumber, CalendarNumbers
<1>6. ASSUME NEW e \in D PROVE FirstDue(s, now) <= Candidate(s, now, e)
  <2>1. first \in Int /\ e \in Int /\ first <= e
    BY <1>1, <1>2
  <2>2. first * TicksPerDay <= e * TicksPerDay
    BY <2>1, CalendarNumbers, Monotone
  <2>3. /\ first * TicksPerDay \in Int /\ e * TicksPerDay \in Int
        /\ s.minute * TicksPerMinute \in Int /\ TickOfDay(now) \in Int
    BY <2>1, CalendarNumbers, Distributes, MinuteStart, DayAndTick
  <2> QED
    BY <1>3, <2>2, <2>3 DEF Candidate
<1> QED
  BY <1>2, <1>3, <1>5, <1>6 DEF D

-----------------------------------------------------------------------------
(* The schedule that is due first *)

(* A schedule that is found has a time and a day on which it is due. *)
LEMMA FoundIsReadable ==
  ASSUME NEW table, Readable(table), NEW now, NEW i \in Found(table, now)
  PROVE  i \in Ids /\ i \in Nat /\ table[i].minute \in Minutes /\ DueDays(table[i], now) # {}
BY CalendarAssumption DEF Found, Considered, Readable, Ids

(* The schedule the search ends with is due no later than any other. *)
LEMMA ClosestIsFirst ==
  ASSUME NEW now \in Times, NEW table, Readable(table), Found(table, now) # {}
  PROVE  /\ Closest(table, now) \in Found(table, now)
         /\ \A j \in Found(table, now) :
              FirstDue(table[Closest(table, now)], now) <= FirstDue(table[j], now)
<1> DEFINE F == Found(table, now)
           due(i) == FirstDue(table[i], now)
           Dues == {due(i) : i \in F}
           Prior(i) == \A j \in F : Precedes(table, now, i, j)
<1>1. \A i \in F : due(i) \in Nat /\ i \in Nat
  BY FoundIsReadable, FirstDueIsLeast, CalendarNumbers
<1>2. PICK n \in Dues : \A m \in Dues : n <= m
  <2>1. Dues \subseteq Nat /\ Dues # {}
    BY <1>1
  <2> HIDE DEF Dues
  <2> QED
    BY <2>1, Least
<1> DEFINE L == {i \in F : due(i) = n}
<1>3. PICK i \in L : \A j \in L : i <= j
  <2>1. L \subseteq Nat /\ L # {}
    BY <1>1, <1>2
  <2> HIDE DEF L
  <2> QED
    BY <2>1, Least
<1>4. i \in F /\ Prior(i)
  <2>1. i \in F /\ due(i) = n
    BY <1>3
  <2>2. ASSUME NEW j \in F PROVE Precedes(table, now, i, j)
    <3>1. due(j) \in Dues /\ due(j) \in Nat /\ due(i) \in Nat
      BY <1>1, <2>1
    <3>2. due(i) <= due(j)
      BY <1>2, <2>1, <3>1
    <3>3. due(i) = due(j) => i <= j
      BY <1>3, <2>1
    <3> QED
      BY <3>1, <3>2, <3>3 DEF Precedes
  <2> QED
    BY <2>1, <2>2
<1>5. Closest(table, now) \in F /\ Prior(Closest(table, now))
  BY <1>4 DEF Closest
<1>6. ASSUME NEW j \in F PROVE due(Closest(table, now)) <= due(j)
  <2>1. Precedes(table, now, Closest(table, now), j)
    BY <1>5
  <2>2. due(Closest(table, now)) < due(j) \/ due(Closest(table, now)) = due(j)
    BY <2>1 DEF Precedes
  <2>3. due(Closest(table, now)) \in Nat /\ due(j) \in Nat
    BY <1>1, <1>5
  <2> HIDE DEF due
  <2> QED
    BY <2>2, <2>3
<1> QED
  BY <1>5, <1>6

(* The moment of an alarm is its schedule's. *)
LEMMA AlarmIsMoment ==
  ASSUME NEW now \in Times, NEW table, Readable(table), Found(table, now) # {}
  PROVE  LET i  == Closest(table, now)
             at == AlarmTime(table, now)
         IN  /\ i \in Ids /\ table[i].minute \in Minutes
             /\ at \in Times /\ Until(now, at) = FirstDue(table[i], now)
             /\ MinuteOfDay(at) = table[i].minute /\ at % TicksPerMinute = 0
             /\ Occurs(table[i], at)
<1> DEFINE i  == Closest(table, now)
           at == AlarmTime(table, now)
           s  == table[i]
<1>1. /\ i \in Found(table, now) /\ i \in Ids /\ s.minute \in Minutes
      /\ DueDays(s, now) # {} /\ s.enabled
  BY ClosestIsFirst, FoundIsReadable DEF Found, Considered
<1>2. at = Later(now, FirstDue(s, now))
  BY DEF AlarmTime
<1> HIDE DEF i, at, s
<1>3. FirstDue(s, now) \in 0 .. Week - 1
  BY <1>1, FirstDueIsLeast
<1>4. PICK d \in DueDays(s, now) : FirstDue(s, now) = Candidate(s, now, d)
  BY <1>1, FirstDueIsLeast
<1>5. /\ d \in Weekdays /\ Candidate(s, now, d) >= 0
      /\ (DayOf(now) + d) % DaysPerWeek \in s.days
  BY DEF DueDays, Weekdays
<1>6. /\ at \in Times /\ MinuteOfDay(at) = s.minute /\ at % TicksPerMinute = 0
      /\ DayOf(at) = (DayOf(now) + d) % DaysPerWeek
  BY <1>1, <1>2, <1>4, <1>5, CandidateIsMoment
<1>7. Until(now, at) = FirstDue(s, now)
  BY <1>2, <1>3, LaterAndUntil
<1>8. Occurs(s, at)
  BY <1>1, <1>5, <1>6 DEF Occurs
<1> QED
  BY <1>1, <1>6, <1>7, <1>8 DEF i, at, s

(* Nothing is due before the schedule that was found, nor at all in less   *)
(* than a day if none was.                                                 *)
LEMMA NothingBefore ==
  ASSUME DaysPerWeek > 1, NEW now \in Times, NEW table, Readable(table),
         NEW k \in 0 .. TicksPerDay - 1, SomeOccurs(table, Later(now, k))
  PROVE  Found(table, now) # {} /\ FirstDue(table[Closest(table, now)], now) <= k
<1>1. PICK id \in Ids : Occurs(table[id], Later(now, k))
  BY DEF SomeOccurs
<1>2. table[id].minute \in Minutes \cup {BadMinute}
  BY DEF Readable
<1>3. /\ Considered(table[id], now) /\ table[id].minute \in Minutes
      /\ \E d \in DueDays(table[id], now) : Candidate(table[id], now, d) = k
  BY <1>1, <1>2, MomentIsCandidate
<1>4. id \in Found(table, now)
  BY <1>3 DEF Found
<1>5. FirstDue(table[id], now) <= k /\ FirstDue(table[id], now) \in 0 .. Week - 1
  BY <1>3, FirstDueIsLeast DEF Considered
<1>6. /\ Closest(table, now) \in Found(table, now)
      /\ FirstDue(table[Closest(table, now)], now) <= FirstDue(table[id], now)
  BY <1>4, ClosestIsFirst
<1>7. FirstDue(table[Closest(table, now)], now) \in 0 .. Week - 1
  BY <1>6, FoundIsReadable, FirstDueIsLeast
<1>8. FirstDue(table[Closest(table, now)], now) <= k
  BY <1>5, <1>6, <1>7, CalendarNumbers
<1> QED
  BY <1>4, <1>8

(* app_power_schedule_next_wakeup plans for the first moment at which a    *)
(* schedule is due, for every calendar, table, moment and interval of less *)
(* than a day: the search by id, day and minute misses none, stops at none *)
(* that is later, and takes no alarm for a moment after the interval.      *)
THEOREM SearchFindsEarliest ==
  ASSUME DaysPerWeek > 1, NEW now \in Times, NEW table, Readable(table),
         NEW interval \in 0 .. TicksPerDay - 1
  PROVE  IsEarliest(table, interval, now)
<1> DEFINE first == FirstDue(table[Closest(table, now)], now)
<1>1. interval \in Nat /\ \A k \in 0 .. interval : k \in 0 .. TicksPerDay - 1
  BY CalendarNumbers
<1>2. CASE AlarmFirst(table, interval, now)
  <2>1. Found(table, now) # {} /\ first <= interval
    BY <1>2 DEF AlarmFirst
  <2>2. /\ Until(now, AlarmTime(table, now)) = first
        /\ Occurs(table[Closest(table, now)], AlarmTime(table, now))
    BY <2>1, AlarmIsMoment
  <2>3. first \in Nat
    BY <2>1, ClosestIsFirst, FoundIsReadable, FirstDueIsLeast, CalendarNumbers
  <2> HIDE DEF first
  <2>4. ASSUME NEW k \in 0 .. first - 1, SomeOccurs(table, Later(now, k)) PROVE FALSE
    <3>1. k \in 0 .. interval /\ k \in Int
      BY <1>1, <2>1, <2>3
    <3>2. first <= k
      BY <1>1, <2>4, <3>1, NothingBefore DEF first
    <3> QED
      BY <2>3, <2>4, <3>1, <3>2
  <2> QED
    BY <1>2, <2>1, <2>2, <2>4 DEF IsEarliest
<1>3. CASE ~AlarmFirst(table, interval, now)
  <2>1. ASSUME NEW k \in 0 .. interval, SomeOccurs(table, Later(now, k)) PROVE FALSE
    <3>1. Found(table, now) # {} /\ first <= k
      BY <1>1, <2>1, NothingBefore
    <3>2. first \in Nat
      BY <3>1, ClosestIsFirst, FoundIsReadable, FirstDueIsLeast, CalendarNumbers
    <3> HIDE DEF first
    <3>3. first <= interval
      BY <1>1, <3>1, <3>2
    <3> QED
      BY <1>3, <3>1, <3>3 DEF AlarmFirst, first
  <2> QED
    BY <1>3, <2>1 DEF IsEarliest
<1> QED
  BY <1>2, <1>3

-----------------------------------------------------------------------------
(* The formats *)

(* A number is read by its bits: the four fields of the action word, and   *)
(* what is above them.                                                     *)
LEMMA FieldsOfWord ==
  ASSUME NEW word \in Nat
  PROVE  \E r \in 0 .. 1, a \in 0 .. 15, d \in 0 .. 1, s \in 0 .. 1, x \in Nat :
           word = r + 2 * a + 32 * d + 64 * s + 128 * x
<1>1. PICK r \in 0 .. 1, w1 \in Nat : word = r + 2 * w1
  BY word = (word % 2) + 2 * (word \div 2)
<1>2. PICK a \in 0 .. 15, w2 \in Nat : w1 = a + 16 * w2
  BY w1 = (w1 % 16) + 16 * (w1 \div 16)
<1>3. PICK d \in 0 .. 1, w3 \in Nat : w2 = d + 2 * w3
  BY w2 = (w2 % 2) + 2 * (w2 \div 2)
<1>4. PICK s \in 0 .. 1, x \in Nat : w3 = s + 2 * x
  BY w3 = (w3 % 2) + 2 * (w3 \div 2)
<1>5. word = r + 2 * a + 32 * d + 64 * s + 128 * x
  BY <1>1, <1>2, <1>3, <1>4
<1> QED
  BY <1>5

(* What is put together from fields is read back as them.                  *)
LEMMA WordOfFields ==
  ASSUME NEW r \in 0 .. 1, NEW a \in 0 .. 15, NEW d \in 0 .. 1, NEW s \in 0 .. 1,
         NEW x \in Nat
  PROVE  LET word == r + 2 * a + 32 * d + 64 * s + 128 * x
         IN  /\ Get("reason", word) = r /\ Get("action", word) = a
             /\ Get("download", word) = d /\ Get("rawSend", word) = s
BY DEF Get, Width, Field

(* Every field of every word, whatever value is put into it: the others    *)
(* stay, and the field holds the value's low bits, a flag whether there is *)
(* a value.                                                                *)
LEMMA PutChangesOne ==
  ASSUME NEW f \in DOMAIN Field, NEW word \in Nat, NEW value \in Nat
  PROVE  /\ \A g \in DOMAIN Field \ {f} : Get(g, Put(f, word, value)) = Get(g, word)
         /\ f \in {"reason", "action"} => Get(f, Put(f, word, value)) = value % Width(f)
         /\ f \notin {"reason", "action"} =>
              Get(f, Put(f, word, value)) = IF value = 0 THEN 0 ELSE 1
         /\ word \in Byte => Put(f, word, value) \in Byte
<1>1. PICK r \in 0 .. 1, a \in 0 .. 15, d \in 0 .. 1, s \in 0 .. 1, x \in Nat :
        word = r + 2 * a + 32 * d + 64 * s + 128 * x
  BY FieldsOfWord
<1>2. /\ Get("reason", word) = r /\ Get("action", word) = a
      /\ Get("download", word) = d /\ Get("rawSend", word) = s
  BY <1>1, WordOfFields
<1> DEFINE flag == IF value = 0 THEN 0 ELSE 1
<1>3. /\ value % 2 \in 0 .. 1 /\ value % 16 \in 0 .. 15 /\ flag \in 0 .. 1
      /\ word \in Byte => x \in 0 .. 1
  BY <1>1 DEF Byte
<1>4. DOMAIN Field = {"reason", "action", "download", "rawSend"}
      /\ Width("reason") = 2 /\ Width("action") = 16
  BY DEF Field, Width
<1>5. CASE f = "reason"
  <2>1. Put(f, word, value) = (value % 2) + 2 * a + 32 * d + 64 * s + 128 * x
    BY <1>1, <1>2, <1>3, <1>4, <1>5 DEF Put, Field
  <2> QED
    BY <1>1, <1>2, <1>3, <1>4, <1>5, <2>1, WordOfFields DEF Byte
<1>6. CASE f = "action"
  <2>1. Put(f, word, value) = r + 2 * (value % 16) + 32 * d + 64 * s + 128 * x
    BY <1>1, <1>2, <1>3, <1>4, <1>6 DEF Put, Field
  <2> QED
    BY <1>1, <1>2, <1>3, <1>4, <1>6, <2>1, WordOfFields DEF Byte
<1>7. CASE f = "download"
  <2>1. Put(f, word, value) = word - d * 32 + flag * 32
    BY <1>2, <1>7 DEF Put, Field
  <2>2. Put(f, word, value) = r + 2 * a + 32 * flag + 64 * s + 128 * x
    BY <1>1, <1>3, <2>1
  <2> QED
    BY <1>1, <1>2, <1>3, <1>4, <1>7, <2>2, WordOfFields DEF Byte
<1>8. CASE f = "rawSend"
  <2>1. Put(f, word, value) = word - s * 64 + flag * 64
    BY <1>2, <1>8 DEF Put, Field
  <2>2. Put(f, word, value) = r + 2 * a + 32 * d + 64 * flag + 128 * x
    BY <1>1, <1>3, <2>1
  <2> QED
    BY <1>1, <1>2, <1>3, <1>4, <1>8, <2>2, WordOfFields DEF Byte
<1> QED
  BY <1>4, <1>5, <1>6, <1>7, <1>8

(* The slots and the reserved values of an action are numbers, and a slot  *)
(* fits the four bits of the action word.                                  *)
LEMMA FieldsStayApart ==
  ASSUME NEW f \in DOMAIN Field, NEW word \in Byte, NEW value \in Nat
  PROVE  FieldApart(f, word, value)
<1>1. word \in Nat
  BY DEF Byte
<1>2. Width("action") = 16 /\ IrSlots = 0 .. 12
  BY DEF Width, Field, IrSlots
<1>3. value \in IrSlots => value % 16 = value
  BY <1>2
<1> QED
  BY <1>1, <1>2, <1>3, PutChangesOne DEF FieldApart

(* The decimal digits of a number, in a register with bits for n tens: the *)
(* tens that do not fit are counted from 0 again, whatever is in the bits  *)
(* above.                                                                  *)
LEMMA DigitsWrap ==
  ASSUME NEW v \in Nat, NEW n \in Nat \ {0}, NEW k \in Nat
  PROVE  LET bits == n * 16
             r == (k * bits + (((v \div 10) * 16 + (v % 10)) % bits)) % bits
         IN  (r \div 16) * 10 + (r % 16) = v % (n * 10)
<1> DEFINE t == v \div 10
           u == v % 10
           m == t % n
           bits == n * 16
           low == m * 16 + u
<1>1. t \in Int /\ u \in 0 .. 9 /\ v = t * 10 + u
  BY Remainder
<1>2. m \in 0 .. n - 1 /\ m \in Int
  BY <1>1, Remainder
<1> HIDE DEF t, u, m
<1>3. (t * 16 + u) % bits = low
  <2>1. 16 \in Nat \ {0} /\ u \in 0 .. 16 - 1
    BY <1>1
  <2> QED
    BY <1>1, <2>1, WrapsWhole, Zenon DEF m
<1>4. (t * 10 + u) % (n * 10) = m * 10 + u
  <2>1. 10 \in Nat \ {0} /\ u \in 0 .. 10 - 1
    BY <1>1
  <2> QED
    BY <1>1, <2>1, WrapsWhole, Zenon DEF m
<1>5. low \in 0 .. bits - 1 /\ bits \in Nat \ {0} /\ low \in Int
  <2>1. m * 16 <= (n - 1) * 16 /\ (n - 1) * 16 = n * 16 - 16
    BY <1>2
  <2> QED
    BY <1>1, <1>2, <2>1
<1>6. low \div 16 = m /\ low % 16 = u
  BY <1>1, <1>2, Division
<1> HIDE DEF low, bits
<1>7. k * bits \in Int /\ k * bits + low \in Int
  BY <1>5
<1>8. (k * bits + low) % bits = low
  BY <1>5, <1>7, Division
<1>9. ((v \div 10) * 16 + (v % 10)) % bits = low
  BY <1>3 DEF t, u
<1>10. v % (n * 10) = m * 10 + u
  BY <1>1, <1>4
<1> QED
  BY <1>6, <1>8, <1>9, <1>10 DEF bits

(* In a register of three bits there is room for no more than the unit.    *)
LEMMA UnitWraps ==
  ASSUME NEW v \in Nat, NEW k \in Nat
  PROVE  LET r == (k * 8 + (((v \div 10) * 16 + (v % 10)) % 8)) % 8
         IN  (r \div 16) * 10 + (r % 16) = (v % 10) % 8
<1> DEFINE t == v \div 10
           u == v % 10
<1>1. t \in Int /\ u \in 0 .. 9
  BY Remainder
<1> HIDE DEF t, u
<1>2. u % 8 \in 0 .. 7 /\ u \div 8 \in Int /\ u = (u \div 8) * 8 + (u % 8)
  BY <1>1
<1>3. (t * 16 + u) % 8 = u % 8
  BY <1>1, <1>2, Division
<1>4. (k * 8 + (u % 8)) % 8 = u % 8
  <2> DEFINE w == u % 8
  <2>1. w \in 0 .. 7
    BY <1>2
  <2> HIDE DEF w
  <2>2. (k * 8 + w) % 8 = w
    BY <2>1
  <2> QED
    BY <2>2 DEF w
<1>5. ((u % 8) \div 16) * 10 + ((u % 8) % 16) = u % 8
  BY <1>2
<1> QED
  BY <1>3, <1>4, <1>5 DEF t, u

(* The fields of the clock, and the numbers that are given for them.       *)
LEMMA ClockFields ==
  /\ DOMAIN Bits = {"second", "minute", "hour", "weekday", "day", "month", "year"}
  /\ \A f \in DOMAIN Bits : Given(f) \subseteq Nat /\ Bits[f] \in 1 .. 256
  /\ \A f \in DOMAIN Bits \ {"weekday", "year"} : Bits[f] = Tens[f] * 16
  /\ Bits["weekday"] = 8 /\ Bits["year"] = 16 * 16
<1>1. DOMAIN Bits = {"second", "minute", "hour", "weekday", "day", "month", "year"}
  BY DEF Bits
<1>2. ASSUME NEW f \in DOMAIN Bits
      PROVE  Given(f) \subseteq Nat /\ Bits[f] \in 1 .. 256
  <2>1. Bits[f] \in {8, 32, 64, 128, 256}
    BY <1>1 DEF Bits
  <2>2. CASE f = "year"
    <3>1. Given(f) = 0 .. 65535
      BY <2>2 DEF Given
    <3> QED
      BY <2>1, <3>1
  <2>3. CASE f # "year"
    <3>1. Given(f) = 0 .. 255
      BY <2>3 DEF Given, Byte
    <3> QED
      BY <2>1, <3>1
  <2> QED
    BY <2>2, <2>3
<1>3. ASSUME NEW f \in DOMAIN Bits \ {"weekday", "year"}
      PROVE  Bits[f] = Tens[f] * 16
  BY <1>1 DEF Bits, Tens
<1>4. Bits["weekday"] = 8 /\ Bits["year"] = 16 * 16
  BY DEF Bits
<1> QED
  BY <1>1, <1>2, <1>3, <1>4

(* Whatever number is written, what is read back is its wrapped digits.    *)
LEMMA FieldReadsBack ==
  ASSUME NEW f \in DOMAIN Bits, NEW value \in Nat, NEW k \in Nat
  PROVE  Read(f, k * Bits[f] + Register(f, value)) = Wrapped(f, value)
<1> DEFINE digits(v) == (v \div 10) * 16 + (v % 10)
           raw(v) == (k * Bits[f] + (digits(v) % Bits[f])) % Bits[f]
           number(v) == (raw(v) \div 16) * 10 + (raw(v) % 16)
<1>1. CASE f = "weekday"
  <2>1. Read(f, k * Bits[f] + Register(f, value)) = number(value)
    BY <1>1 DEF Read, Register
  <2>2. number(value) = (value % 10) % 8
    BY <1>1, ClockFields, UnitWraps
  <2> HIDE DEF number
  <2> QED
    BY <1>1, <2>1, <2>2 DEF Wrapped
<1>2. CASE f = "year"
  <2> DEFINE v == value % 100
  <2>1. v \in 0 .. 99 /\ v \in Nat
    BY Remainder
  <2>2. Read(f, k * Bits[f] + Register(f, value)) = 2000 + number(v)
    BY <1>2 DEF Read, Register
  <2> HIDE DEF v
  <2>3. number(v) = v % (16 * 10)
    BY <1>2, <2>1, ClockFields, DigitsWrap
  <2> HIDE DEF number
  <2>4. v % (16 * 10) = v
    BY <2>1
  <2> QED
    BY <1>2, <2>2, <2>3, <2>4 DEF Wrapped, v
<1>3. CASE f \notin {"weekday", "year"}
  <2>1. Read(f, k * Bits[f] + Register(f, value)) = number(value)
    BY <1>3 DEF Read, Register
  <2>2. Tens[f] \in Nat \ {0} /\ Bits[f] = Tens[f] * 16
    BY <1>3, ClockFields DEF Tens
  <2>3. number(value) = value % (Tens[f] * 10)
    BY <2>2, DigitsWrap
  <2>4. Tens[f] * 10 = 10 * Tens[f]
    BY <2>2
  <2> HIDE DEF number
  <2> QED
    BY <1>3, <2>1, <2>3, <2>4 DEF Wrapped
<1> QED
  BY <1>1, <1>2, <1>3

(* The numbers of a calendar have digits that fit.                         *)
LEMMA CalendarFits ==
  ASSUME NEW f \in DOMAIN Bits, NEW value \in Calendar[f]
  PROVE  Wrapped(f, value) = value
<1>1. CASE f = "weekday"
  BY <1>1 DEF Calendar, Wrapped
<1>2. CASE f = "year"
  BY <1>2 DEF Calendar, Wrapped
<1>3. CASE f \in {"second", "minute"}
  BY <1>3 DEF Calendar, Wrapped, Tens
<1>4. CASE f \in {"hour", "day"}
  BY <1>4 DEF Calendar, Wrapped, Tens
<1>5. CASE f = "month"
  BY <1>5 DEF Calendar, Wrapped, Tens
<1> QED
  BY <1>1, <1>2, <1>3, <1>4, <1>5, ClockFields

(* What the RTC gives is a number.                                         *)
LEMMA CurrentIsNumber ==
  ASSUME NEW f \in DOMAIN Bits, NEW current \in Current(f)
  PROVE  current \in Nat
<1>1. ASSUME NEW register \in 0 .. Bits[f] - 1
      PROVE  Read(f, register) \in Nat
  <2> DEFINE r == register % Bits[f]
  <2>1. Bits[f] \in Nat \ {0} /\ register \in Int
    BY ClockFields
  <2>2. r \in 0 .. Bits[f] - 1
    BY <2>1, Remainder
  <2> HIDE DEF r
  <2>3. (r \div 16) * 10 + (r % 16) \in Nat
    BY <2>1, <2>2
  <2> QED
    BY <2>3 DEF Read, r
<1> QED
  BY <1>1 DEF Current

(* CMD 1 writes what it is given, or for a part of the date the clock's    *)
(* own.                                                                    *)
LEMMA SyncedIsGiven ==
  ASSUME NEW f \in DOMAIN Bits, NEW given \in Nat, NEW current \in Nat
  PROVE  /\ Synced(f, given, current) \in Nat
         /\ given \in Calendar[f] => Synced(f, given, current) = given
         /\ given = 0 /\ given \notin Calendar[f] /\ current \in Calendar[f] =>
              Synced(f, given, current) = current
<1>1. CASE f \in {"second", "minute", "hour", "weekday"}
  BY <1>1 DEF Calendar, Synced
<1>2. CASE f \in {"day", "month"}
  BY <1>2 DEF Calendar, Synced
<1>3. CASE f = "year"
  BY <1>3 DEF Calendar, Synced
<1> QED
  BY <1>1, <1>2, <1>3, ClockFields

(* The clock of CMD 1, or of the RTC where CMD 1 has none, is read back.   *)
LEMMA ClockReadsBack ==
  ASSUME NEW f \in DOMAIN Bits, NEW given \in Given(f), NEW current \in Nat
  PROVE  ReadsBack(f, given, current)
<1> DEFINE synced == Synced(f, given, current)
<1>1. given \in Nat
  BY ClockFields
<1>2. /\ synced \in Nat
      /\ given \in Calendar[f] => synced = given
      /\ given = 0 /\ given \notin Calendar[f] /\ current \in Calendar[f] =>
           synced = current
  BY <1>1, SyncedIsGiven
<1>3. synced \in Calendar[f] => Wrapped(f, synced) = synced
  BY CalendarFits
<1>4. ASSUME NEW k \in 0 .. 255 \div Bits[f]
      PROVE  Read(f, k * Bits[f] + Register(f, synced)) = Wrapped(f, synced)
  BY <1>2, FieldReadsBack
<1> HIDE DEF synced
<1> QED
  BY <1>2, <1>3, <1>4 DEF ReadsBack, synced

(* Where an IR slot begins: the sixteen bits of its address hold it.       *)
LEMMA SlotPlace ==
  ASSUME NEW slot \in IrSlots
  PROVE  SlotAddress(slot) = 6144 + slot * 3072 /\ slot \in 0 .. 12
BY DEF SlotAddress, IrSlotSize, IrSlots

(* No record reaches into another or past the end of the FRAM.             *)
LEMMA RegionsApart ==
  ASSUME NEW r \in Regions
  PROVE  Apart(r)
<1> DEFINE Low == {[from |-> 0,   size |-> 32],  [from |-> 32,  size |-> 97],
                   [from |-> 256, size |-> 132], [from |-> 512, size |-> 6],
                   [from |-> 768, size |-> 2808]}
           Slot(s) == [from |-> 6144 + s * 3072, size |-> 1402]
<1>1. Regions = Low \cup {Slot(s) : s \in 0 .. 12}
  <2>1. QueueSize = 2808 /\ IrCommandSize = 1402 /\ 11 * 12 = 132
    BY DEF QueueSize, RecordSize, IrCommandSize
  <2>2. \A s \in IrSlots : SlotAddress(s) = 6144 + s * 3072
    BY SlotPlace
  <2>3. IrSlots = 0 .. 12
    BY DEF IrSlots
  <2> QED
    BY <2>1, <2>2, <2>3 DEF Regions
<1>2. \A q \in Low : q.from \in Nat /\ q.size \in Nat /\ q.from + q.size <= 3576
  OBVIOUS
<1>3. \A s \in 0 .. 12 : Slot(s).from = 6144 + s * 3072 /\ Slot(s).size = 1402
  OBVIOUS
<1>4. \A q \in Low, p \in Low :
        q # p => p.from + p.size <= q.from \/ q.from + q.size <= p.from
  OBVIOUS
<1>5. \A s \in 0 .. 12, t \in 0 .. 12 : Slot(s) # Slot(t) => s < t \/ t < s
  OBVIOUS
<1> HIDE DEF Low, Slot
<1>6. r.from + r.size <= FramSize
  BY <1>1, <1>2, <1>3 DEF FramSize
<1>7. ASSUME NEW q \in Regions, r # q
      PROVE  r.from + r.size <= q.from \/ q.from + q.size <= r.from
  <2>1. CASE r \in Low /\ q \in Low
    BY <1>4, <1>7, <2>1
  <2>2. CASE r \in Low /\ q \notin Low
    BY <1>1, <1>2, <1>3, <2>2
  <2>3. CASE r \notin Low /\ q \in Low
    BY <1>1, <1>2, <1>3, <2>3
  <2>4. CASE r \notin Low /\ q \notin Low
    <3>1. PICK s \in 0 .. 12, t \in 0 .. 12 : r = Slot(s) /\ q = Slot(t)
      BY <1>1, <2>4
    <3>2. s < t \/ t < s
      BY <1>5, <1>7, <3>1
    <3> QED
      BY <1>3, <3>1, <3>2
  <2> QED
    BY <2>1, <2>2, <2>3, <2>4
<1> QED
  BY <1>6, <1>7 DEF Apart

-----------------------------------------------------------------------------
(* The runs of the algorithms *)

(* What every computation is given: a table that can be read and an        *)
(* interval of less than a day, or one of the inputs of the formats.       *)
GivenOK ==
  \/ /\ input.kind = "plan"
     /\ givenTable \in [Ids -> TableSchedule]
     /\ givenInterval \in 0 .. TicksPerDay - 1
     /\ moment \in Times
  \/ input \in Inputs

(* The inputs stay what they are, and the moments are those of a week.     *)
THEOREM GivenStays == AlgorithmsSpec => []GivenOK
<1> DEFINE avars == <<input, givenTable, givenInterval, moment>>
<1>1. AlgorithmsInit => GivenOK
  BY CalendarNumbers DEF AlgorithmsInit, GivenOK, Times, Search
<1>2. GivenOK /\ [AlgorithmsNext]_avars => GivenOK'
  <2> SUFFICES ASSUME GivenOK, [AlgorithmsNext]_avars PROVE GivenOK'
    OBVIOUS
  <2>1. input' = input /\ givenTable' = givenTable /\ givenInterval' = givenInterval
    BY DEF AlgorithmsNext
  <2>2. CASE input \in Inputs
    BY <2>1, <2>2 DEF GivenOK
  <2>3. CASE input.kind = "plan" /\ moment \in Times
    <3>1. moment' \in Times
      <4>1. moment' = Later(moment, 1) \/ moment' = moment
        BY DEF AlgorithmsNext
      <4>2. moment \in Int /\ moment + 1 \in Int /\ Week \in Nat \ {0}
        BY <2>3, CalendarNumbers DEF Times
      <4> QED
        BY <2>3, <4>1, <4>2, Remainder DEF Later, Times
    <3> QED
      BY <2>1, <2>3, <3>1 DEF GivenOK
  <2> QED
    BY <2>2, <2>3 DEF GivenOK
<1> QED
  BY <1>1, <1>2, PTL DEF AlgorithmsSpec

(* The search of every table, at every moment and for every interval of    *)
(* less than a day, in every calendar of more than one day, plans what a   *)
(* look at every moment of the interval would find.                        *)
THEOREM SearchStaysRight ==
  ASSUME DaysPerWeek > 1
  PROVE  AlgorithmsSpec => []SearchIsRight
<1>1. GivenOK => SearchIsRight
  <2> SUFFICES ASSUME GivenOK, input.kind = "plan"
               PROVE  IsEarliest(givenTable, givenInterval, moment)
    BY DEF SearchIsRight
  <2>1. input \notin Inputs
    BY DEF Inputs, Words, Clocks
  <2>2. Readable(givenTable)
    BY <2>1 DEF GivenOK, Readable, TableSchedule
  <2> QED
    BY <2>1, <2>2, SearchFindsEarliest DEF GivenOK
<1> QED
  BY <1>1, GivenStays, PTL

(* The setters of app_ir change one field of the action word each, and an  *)
(* IR slot is read back by the boot that executes it.                      *)
THEOREM WordFieldsStayApart == AlgorithmsSpec => []WordFieldsApart
<1>1. GivenOK => WordFieldsApart
  <2> SUFFICES ASSUME GivenOK, input.kind = "word"
               PROVE  FieldApart(input.field, input.word, input.value)
    BY DEF WordFieldsApart
  <2>1. input \in Words
    BY DEF GivenOK, Inputs, Clocks
  <2>2. /\ input.field \in DOMAIN Field /\ input.word \in Byte
        /\ input.value \in Nat
    BY <2>1 DEF Words, Byte, IrSlots, Special
  <2> QED
    BY <2>2, FieldsStayApart
<1> QED
  BY <1>1, GivenStays, PTL

(* The date and the time of CMD 1 are those the planner reads, if they are *)
(* of a calendar; of every other number json_decode_sync lets through, the *)
(* digits that its register has bits for.                                  *)
THEOREM SyncAlwaysReadsBack == AlgorithmsSpec => []SyncReadsBack
<1>1. GivenOK => SyncReadsBack
  <2> SUFFICES ASSUME GivenOK, input.kind = "clock"
               PROVE  ReadsBack(input.field, input.given, input.current)
    BY DEF SyncReadsBack
  <2>1. input \in Clocks
    BY DEF GivenOK, Inputs, Words
  <2>2. /\ input.field \in DOMAIN Bits
        /\ input.given \in Given(input.field)
        /\ input.current \in Current(input.field)
    <3>1. PICK f \in DOMAIN Bits :
            input \in [kind : {"clock"}, field : {f}, given : Given(f) \ {0},
                       current : {0}]
              \cup [kind : {"clock"}, field : {f}, given : {0}, current : Current(f)]
      BY <2>1 DEF Clocks
    <3>2. 0 \in Given(f) /\ 0 \in Current(f)
      BY DEF Given, Current, Byte
    <3> QED
      BY <3>1, <3>2
  <2> QED
    BY <2>2, CurrentIsNumber, ClockReadsBack
<1> QED
  BY <1>1, GivenStays, PTL

(* The FRAM's records, the thirteen IR slots among them, do not overlap,   *)
(* and fram_write refuses none of them.                                    *)
THEOREM RecordsStayApart == AlgorithmsSpec => []RecordsApart
<1>1. GivenOK => RecordsApart
  <2> SUFFICES ASSUME GivenOK, input.kind = "record" PROVE Apart(input.record)
    BY DEF RecordsApart
  <2>1. input.record \in Regions
    BY DEF GivenOK, Inputs, Words, Clocks
  <2> QED
    BY <2>1, RegionsApart
<1> QED
  BY <1>1, GivenStays, PTL
=============================================================================
