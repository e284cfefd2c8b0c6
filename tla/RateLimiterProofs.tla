------------------------- MODULE RateLimiterProofs -------------------------
(***************************************************************************)
(* What RateLimiter guarantees for every number of requests and addresses, *)
(* every burst and rate, and every length of time: type correctness; that  *)
(* refilling in whole tokens neither loses credit nor gives a token away;  *)
(* and what an address that was not evicted can pass at most.              *)
(***************************************************************************)
EXTENDS RateLimiter, FiniteSetTheorems, TLAPS

-----------------------------------------------------------------------------
(* Arithmetic *)

LEMMA Quotient ==
    ASSUME NEW e \in Nat, NEW n \in Nat \ {0}
    PROVE  e \div n \in Nat /\ (e \div n) * n <= e /\ e < (e \div n) * n + n
OBVIOUS

LEMMA Times ==
    ASSUME NEW i \in Int, NEW j \in Int, NEW n \in Nat
    PROVE  /\ i * n \in Int
           /\ (i + j) * n = i * n + j * n
           /\ (i + 1) * n = i * n + n /\ (i - 1) * n = i * n - n
           /\ i <= j => i * n <= j * n
           /\ i >= 0 => i * n >= 0
<1>1. i * n \in Int /\ (i + j) * n = i * n + j * n
  OBVIOUS
<1>2. (i + 1) * n = i * n + n /\ (i - 1) * n = i * n - n
  OBVIOUS
<1>3. i <= j => i * n <= j * n
  OBVIOUS
<1>4. i >= 0 => i * n >= 0
  OBVIOUS
<1> QED BY <1>1, <1>2, <1>3, <1>4

LEMMA QuotientUnique ==
    ASSUME NEW e \in Nat, NEW n \in Nat \ {0}, NEW q \in Int, q * n <= e, e < q * n + n
    PROVE  e \div n = q
<1>1. PICK d \in Nat : d = e \div n /\ d * n <= e /\ e < d * n + n
  BY Quotient
<1>2. d < q => (d + 1) * n <= q * n
  BY Times
<1>3. d > q => (q + 1) * n <= d * n
  BY Times
<1>4. (d + 1) * n = d * n + n /\ (q + 1) * n = q * n + n /\ d * n \in Int /\ q * n \in Int
  BY Times
<1> QED BY <1>1, <1>2, <1>3, <1>4

-----------------------------------------------------------------------------
(* The level of a bucket as a function of the time since its last refill *)

LevelOf(cap, per, tokens, e) ==
    LET q == e \div per IN
    IF tokens + q <= cap THEN tokens * per + e ELSE cap * per + (e - q * per)

\* A level is never negative, and less than one token above the burst.
LEMMA LevelRange ==
    ASSUME NEW cap \in Nat, NEW per \in Nat \ {0}, NEW tokens \in 0..cap, NEW e \in Nat
    PROVE  /\ LevelOf(cap, per, tokens, e) \in Nat
           /\ LevelOf(cap, per, tokens, e) < cap * per + per
<1> DEFINE q == e \div per
<1>1. q \in Nat /\ q * per <= e /\ e < q * per + per
  BY Quotient
<1>2. (tokens + q) * per = tokens * per + q * per /\ tokens * per >= 0 /\ cap * per >= 0
  BY <1>1, Times
<1>3. tokens + q <= cap => (tokens + q) * per <= cap * per
  BY <1>1, Times
<1>4. tokens * per \in Int /\ q * per \in Int /\ cap * per \in Int
  BY <1>1, Times
<1> HIDE DEF q
<1>5. CASE tokens + q <= cap
  <2>1. tokens * per + e \in Nat /\ tokens * per + e < cap * per + per
    BY <1>1, <1>2, <1>3, <1>4, <1>5
  <2> QED BY <1>5, <2>1 DEF LevelOf, q
<1>6. CASE ~(tokens + q <= cap)
  <2>1. cap * per + (e - q * per) \in Nat /\ cap * per + (e - q * per) < cap * per + per
    BY <1>1, <1>2, <1>4
  <2> QED BY <1>6, <2>1 DEF LevelOf, q
<1> QED BY <1>5, <1>6

\* A tick adds a tick's worth, but for the one that would make a full bucket have
\* a token more.
LEMMA LevelTick ==
    ASSUME NEW cap \in Nat, NEW per \in Nat \ {0}, NEW tokens \in 0..cap, NEW e \in Nat
    PROVE  \/ LevelOf(cap, per, tokens, e + 1) = LevelOf(cap, per, tokens, e) + 1
           \/ /\ LevelOf(cap, per, tokens, e) = cap * per + per - 1
              /\ LevelOf(cap, per, tokens, e + 1) = cap * per
<1>1. PICK q \in Nat : q = e \div per /\ q * per <= e /\ e < q * per + per
  BY Quotient
<1>2. q * per \in Int /\ (q + 1) * per = q * per + per /\ tokens * per \in Int
      /\ cap * per \in Int /\ (tokens + q) * per = tokens * per + q * per
  BY <1>1, Times
<1>3. CASE e + 1 < q * per + per
  <2>0. e + 1 \in Nat /\ q \in Int /\ q * per <= e + 1
    BY <1>1, <1>2
  <2>1. (e + 1) \div per = q
    BY <2>0, <1>3, QuotientUnique
  <2>2. LevelOf(cap, per, tokens, e + 1) =
            IF tokens + q <= cap THEN tokens * per + (e + 1)
                                 ELSE cap * per + ((e + 1) - q * per)
    BY <2>1 DEF LevelOf
  <2>3. LevelOf(cap, per, tokens, e) =
            IF tokens + q <= cap THEN tokens * per + e ELSE cap * per + (e - q * per)
    BY <1>1 DEF LevelOf
  <2> QED BY <1>2, <2>2, <2>3
<1>4. CASE e + 1 = q * per + per
  <2>0. /\ e + 1 \in Nat /\ q + 1 \in Int /\ (q + 1) * per <= e + 1
        /\ e + 1 < (q + 1) * per + per
    BY <1>1, <1>2, <1>4
  <2>1. (e + 1) \div per = q + 1
    BY <2>0, QuotientUnique
  <2>2. LevelOf(cap, per, tokens, e + 1) =
            IF tokens + (q + 1) <= cap THEN tokens * per + (e + 1)
                                       ELSE cap * per + ((e + 1) - (q + 1) * per)
    BY <2>1 DEF LevelOf
  <2>3. LevelOf(cap, per, tokens, e) =
            IF tokens + q <= cap THEN tokens * per + e ELSE cap * per + (e - q * per)
    BY <1>1 DEF LevelOf
  <2>4. CASE tokens + (q + 1) <= cap
    BY <1>1, <1>2, <2>2, <2>3, <2>4
  <2>5. CASE tokens + q = cap
    <3>1. cap * per = tokens * per + q * per
      BY <1>2, <2>5
    <3>2. ~(tokens + (q + 1) <= cap) /\ (e + 1) - (q + 1) * per = 0 /\ tokens + q <= cap
      BY <1>1, <1>2, <1>4, <2>5
    <3>3. LevelOf(cap, per, tokens, e + 1) = cap * per
      BY <1>2, <2>2, <3>2
    <3>4. LevelOf(cap, per, tokens, e) = tokens * per + e
      BY <2>3, <3>2
    <3>5. LevelOf(cap, per, tokens, e) = cap * per + per - 1
      BY <1>2, <1>4, <3>1, <3>4
    <3> QED BY <3>3, <3>5
  <2>6. CASE tokens + q > cap
    BY <1>1, <1>2, <1>4, <2>2, <2>3, <2>6
  <2> QED BY <1>1, <2>4, <2>5, <2>6
<1>5. e + 1 < q * per + per \/ e + 1 = q * per + per
  BY <1>1, <1>2
<1> QED BY <1>3, <1>4, <1>5

\* A refill after e ticks adds q tokens, which makes t of them, and leaves r ticks.
Split(cap, per, tokens, e, q, t, r) ==
    /\ q \in Nat /\ q = e \div per
    /\ t \in 0..cap /\ t = IF tokens + q <= cap THEN tokens + q ELSE cap
    /\ q * per \in Nat
    /\ r \in Nat /\ r = e - q * per /\ r < per /\ r \div per = 0

\* The level is not changed by it; and with the ticks left over no token comes yet.
LEMMA LevelRefilled ==
    ASSUME NEW cap \in Nat, NEW per \in Nat \ {0}, NEW tokens \in 0..cap, NEW e \in Nat
    PROVE  \E q, t, r :
              /\ Split(cap, per, tokens, e, q, t, r)
              /\ LevelOf(cap, per, tokens, e) = t * per + r
              /\ \A n \in 0..cap : LevelOf(cap, per, n, r) = n * per + r
<1>1. PICK q \in Nat : q = e \div per /\ q * per <= e /\ e < q * per + per
  BY Quotient
<1>2. q * per \in Nat /\ tokens * per \in Int /\ cap * per \in Int
      /\ (tokens + q) * per = tokens * per + q * per
  BY <1>1, Times
<1>3. PICK r \in Nat : r = e - q * per /\ r < per
  BY <1>1, <1>2
<1>4. r \div per = 0
  BY <1>3, QuotientUnique
<1>5. ASSUME NEW n \in 0..cap PROVE LevelOf(cap, per, n, r) = n * per + r
  <2>1. n + 0 <= cap
    OBVIOUS
  <2> QED BY <1>4, <2>1 DEF LevelOf
<1>6. CASE tokens + q <= cap
  <2>1. LevelOf(cap, per, tokens, e) = tokens * per + e
    BY <1>1, <1>6 DEF LevelOf
  <2>2. tokens * per + e = (tokens + q) * per + r
    BY <1>2, <1>3
  <2>3. tokens + q \in 0..cap
    BY <1>6
  <2>4. Split(cap, per, tokens, e, q, tokens + q, r)
    BY <1>1, <1>2, <1>3, <1>4, <1>6, <2>3 DEF Split
  <2>5. LevelOf(cap, per, tokens, e) = (tokens + q) * per + r
    BY <2>1, <2>2
  <2> QED BY <1>5, <2>4, <2>5, Zenon
<1>7. CASE ~(tokens + q <= cap)
  <2>1. LevelOf(cap, per, tokens, e) = cap * per + r
    BY <1>1, <1>3, <1>7 DEF LevelOf
  <2>2. Split(cap, per, tokens, e, q, cap, r)
    BY <1>1, <1>2, <1>3, <1>4, <1>7 DEF Split
  <2> QED BY <1>5, <2>1, <2>2, Zenon
<1> QED BY <1>6, <1>7

-----------------------------------------------------------------------------
(* Buckets *)

LevelAt(b, t) == LevelOf(b.cap, b.per, b.tokens, t - b.last)

\* A bucket of the given burst and rate at time t: the ideal one is at most full,
\* and this one is as full, or less than one token fuller.
SoundAt(b, cap, per, t) ==
    /\ b \in Bucket /\ b.cap = cap /\ b.per = per
    /\ b.tokens <= cap /\ b.last <= t
    /\ b.ideal <= cap * per
    /\ b.ideal <= LevelAt(b, t) /\ LevelAt(b, t) < b.ideal + per

LEMMA SoundTypes ==
    ASSUME NEW cap \in Nat \ {0}, NEW per \in Nat \ {0}, NEW t \in Nat, NEW b,
           SoundAt(b, cap, per, t)
    PROVE  /\ b \in Bucket /\ b.cap = cap /\ b.per = per /\ b.tokens \in 0..cap
           /\ b.last \in Nat /\ t - b.last \in Nat /\ b.ideal \in Int
           /\ LevelAt(b, t) \in Nat /\ LevelAt(b, t) < cap * per + per
<1>1. /\ b \in Bucket /\ b.cap = cap /\ b.per = per /\ b.tokens \in 0..cap
      /\ b.last \in Nat /\ t - b.last \in Nat /\ b.ideal \in Int
  BY DEF SoundAt, Bucket
<1>2. LevelAt(b, t) = LevelOf(cap, per, b.tokens, t - b.last)
  BY <1>1 DEF LevelAt
<1> QED BY <1>1, <1>2, LevelRange, ZenonT(40)

\* A refill changes the tokens and their date, and neither the level nor the ideal.
LEMMA RefillIs ==
    ASSUME now \in Nat, NEW cap \in Nat \ {0}, NEW per \in Nat \ {0}, NEW b,
           SoundAt(b, cap, per, now)
    PROVE  LET r == Refill(b) IN
           /\ r \in Bucket /\ r.cap = cap /\ r.per = per /\ r.ideal = b.ideal
           /\ r.tokens \in 0..cap /\ r.last <= now /\ now - r.last < per
           /\ (now - r.last) \div per = 0
           /\ LevelAt(b, now) = r.tokens * per + (now - r.last)
           /\ \A n \in 0..cap : LevelOf(cap, per, n, now - r.last) = n * per + (now - r.last)
<1>1. /\ b \in Bucket /\ b.cap = cap /\ b.per = per /\ b.tokens \in 0..cap
      /\ b.last \in Nat /\ now - b.last \in Nat
  BY SoundTypes
<1>2. PICK e \in Nat : e = now - b.last
  BY <1>1
<1>3. LevelAt(b, now) = LevelOf(cap, per, b.tokens, e)
  BY <1>1, <1>2 DEF LevelAt
<1>b. cap \in Nat /\ per \in Nat \ {0} /\ b.tokens \in 0..cap
  BY <1>1
<1>a. PICK q, t, left :
        /\ Split(cap, per, b.tokens, e, q, t, left)
        /\ LevelOf(cap, per, b.tokens, e) = t * per + left
        /\ \A n \in 0..cap : LevelOf(cap, per, n, left) = n * per + left
  BY <1>b, LevelRefilled, ZenonT(40)
<1>4. /\ q \in Nat /\ q = e \div per
      /\ t \in 0..cap /\ t = IF b.tokens + q <= cap THEN b.tokens + q ELSE cap
      /\ q * per \in Nat
      /\ left \in Nat /\ left = e - q * per /\ left < per /\ left \div per = 0
  BY <1>a DEF Split
<1>5. b.last + q * per \in Nat /\ b.last + q * per <= now /\ now - (b.last + q * per) = left
  BY <1>1, <1>2, <1>4
<1>6. CASE q = 0
  <2>1. q * per = 0
    BY <1>6, Times
  <2>2. left = e /\ t = b.tokens
    BY <1>1, <1>4, <1>6, <2>1
  <2>3. Refill(b) = b
    BY <1>1, <1>2, <1>4, <1>6 DEF Refill
  <2>4. /\ Refill(b).tokens = t /\ now - Refill(b).last = left /\ Refill(b).last <= now
        /\ Refill(b) \in Bucket /\ Refill(b).cap = cap /\ Refill(b).per = per
        /\ Refill(b).ideal = b.ideal
    BY <1>1, <1>2, <2>2, <2>3
  <2> QED BY <1>a, <1>3, <1>4, <2>4, Zenon
<1>7. CASE q # 0
  <2>1. Least(b.cap, b.tokens + q) = t
    BY <1>1, <1>4 DEF Least
  <2>2. (now - b.last) \div b.per = q /\ ~(q <= 0)
    BY <1>1, <1>2, <1>4, <1>7
  <2>3. Refill(b) = [b EXCEPT !.tokens = t, !.last = Credited(b, q)]
    BY <2>1, <2>2 DEF Refill
  <2>4. PICK last \in Nat : last = Credited(b, q) /\ last <= now /\ now - last = left
    BY <1>1, <1>5 DEF Credited
  <2>5. /\ Refill(b) \in Bucket /\ Refill(b).cap = cap /\ Refill(b).per = per
        /\ Refill(b).ideal = b.ideal /\ Refill(b).tokens = t
        /\ Refill(b).last = last
    <3>1. t \in Nat
      BY <1>4
    <3> QED BY <1>1, <2>3, <2>4, <3>1 DEF Bucket
  <2> QED BY <1>a, <1>3, <1>4, <2>4, <2>5, ZenonT(40)
<1> QED BY <1>6, <1>7

LEMMA RefillSound ==
    ASSUME now \in Nat, NEW cap \in Nat \ {0}, NEW per \in Nat \ {0}, NEW b,
           SoundAt(b, cap, per, now)
    PROVE  SoundAt(Refill(b), cap, per, now) /\ LevelAt(Refill(b), now) = LevelAt(b, now)
<1> DEFINE r == Refill(b)
<1>1. /\ r \in Bucket /\ r.cap = cap /\ r.per = per /\ r.ideal = b.ideal
      /\ r.tokens \in 0..cap /\ r.last <= now
      /\ LevelAt(b, now) = r.tokens * per + (now - r.last)
      /\ LevelOf(cap, per, r.tokens, now - r.last) = r.tokens * per + (now - r.last)
  BY RefillIs
<1> HIDE DEF r
<1>2. LevelAt(r, now) = LevelAt(b, now)
  BY <1>1, Zenon DEF LevelAt
<1>3. /\ b.ideal <= cap * per /\ b.ideal <= LevelAt(b, now)
      /\ LevelAt(b, now) < b.ideal + per
  BY DEF SoundAt
<1>4. r.tokens <= cap
  BY <1>1
<1>5. SoundAt(r, cap, per, now)
  BY <1>1, <1>2, <1>3, <1>4, Zenon DEF SoundAt
<1> QED BY <1>2, <1>5 DEF r

LEMMA TakenSound ==
    ASSUME now \in Nat, NEW cap \in Nat \ {0}, NEW per \in Nat \ {0}, NEW b,
           SoundAt(b, cap, per, now)
    PROVE  /\ SoundAt(Taken(b), cap, per, now)
           /\ LevelAt(Taken(b), now) = IF Has(b) THEN LevelAt(b, now) - per
                                                 ELSE LevelAt(b, now)
<1>1. CASE ~Has(b)
  BY <1>1, RefillSound DEF Taken
<1>2. CASE Has(b)
  <2> DEFINE r == Refill(b)
             s == [r EXCEPT !.tokens = @ - 1, !.ideal = @ - b.per]
  <2>1. Taken(b) = s
    BY <1>2 DEF Taken
  <2>2. /\ r \in Bucket /\ r.cap = cap /\ r.per = per /\ r.ideal = b.ideal
        /\ r.tokens \in 0..cap /\ r.last <= now
        /\ LevelAt(b, now) = r.tokens * per + (now - r.last)
        /\ \A n \in 0..cap : LevelOf(cap, per, n, now - r.last) = n * per + (now - r.last)
    BY RefillIs
  <2>3. r.tokens >= 1
    BY <1>2 DEF Has
  <2>4. b.per = per
    BY SoundTypes
  <2> HIDE DEF r
  <2>5. PICK n \in 0..cap : n = r.tokens - 1
    BY <2>2, <2>3
  <2>6. /\ s \in Bucket /\ s.cap = cap /\ s.per = per /\ s.ideal = b.ideal - per
        /\ s.tokens = n /\ s.last = r.last
    <3>1. r.ideal \in Int /\ b.ideal - per \in Int /\ n \in Nat
      BY <2>2 DEF Bucket
    <3> QED BY <2>2, <2>4, <2>5, <3>1 DEF Bucket
  <2> HIDE DEF s
  <2>7. LevelAt(s, now) = LevelOf(cap, per, n, now - r.last)
    BY <2>6, Zenon DEF LevelAt
  <2>8. LevelOf(cap, per, n, now - r.last) = n * per + (now - r.last)
    BY <2>2
  <2>9. n * per = r.tokens * per - per /\ n * per \in Int /\ r.tokens * per \in Int
    <3>1. r.tokens \in Int /\ 1 \in Int /\ per \in Nat /\ n \in Int
      BY <2>2
    <3>2. (r.tokens - 1) * per = r.tokens * per - per
      BY <3>1, Times
    <3>3. n * per \in Int /\ r.tokens * per \in Int
      BY <3>1, Times
    <3> QED BY <2>5, <3>2, <3>3, Zenon
  <2>10. LevelAt(s, now) = LevelAt(b, now) - per
    <3>1. r.last \in Nat
      BY <2>2 DEF Bucket
    <3> QED BY <2>2, <2>7, <2>8, <2>9, <3>1
  <2>11. /\ b.ideal <= cap * per /\ b.ideal <= LevelAt(b, now)
         /\ LevelAt(b, now) < b.ideal + per /\ b.ideal \in Int /\ LevelAt(b, now) \in Nat
    BY SoundTypes DEF SoundAt
  <2>12. cap * per \in Nat
    BY Times
  <2>13. /\ b.ideal - per <= cap * per /\ b.ideal - per <= LevelAt(s, now)
         /\ LevelAt(s, now) < (b.ideal - per) + per /\ n <= cap
    BY <2>10, <2>11, <2>12
  <2>14. SoundAt(s, cap, per, now)
    BY <2>2, <2>6, <2>13, Zenon DEF SoundAt
  <2> QED BY <1>2, <2>1, <2>10, <2>14
<1> QED BY <1>1, <1>2

\* A tick fills a bucket as it fills the ideal one.
LEMMA LaterSound ==
    ASSUME NEW t \in Nat, NEW cap \in Nat \ {0}, NEW per \in Nat \ {0}, NEW b,
           SoundAt(b, cap, per, t)
    PROVE  /\ SoundAt(Later(b), cap, per, t + 1)
           /\ LevelAt(Later(b), t + 1) <= LevelAt(b, t) + 1
<1>1. /\ b \in Bucket /\ b.cap = cap /\ b.per = per /\ b.tokens \in 0..cap
      /\ b.last \in Nat /\ b.last <= t /\ t - b.last \in Nat /\ b.ideal \in Int
      /\ LevelAt(b, t) \in Nat /\ LevelAt(b, t) < cap * per + per
  BY SoundTypes DEF SoundAt
<1>2. PICK full \in Nat : full = cap * per
  BY Times
<1>3. PICK ideal \in Int : ideal = Least(full, b.ideal + 1)
  BY <1>1 DEF Least
<1> DEFINE s == Later(b)
<1>4. /\ s \in Bucket /\ s.cap = cap /\ s.per = per /\ s.tokens = b.tokens
      /\ s.last = b.last /\ s.ideal = ideal
  <2>1. s = [b EXCEPT !.ideal = ideal]
    BY <1>1, <1>2, <1>3 DEF Later
  <2> HIDE DEF s
  <2> QED BY <1>1, <2>1 DEF Bucket
<1> HIDE DEF s
<1>5. PICK e \in Nat : e = t - b.last /\ e + 1 = (t + 1) - b.last
  BY <1>1
<1>6. /\ LevelAt(b, t) = LevelOf(cap, per, b.tokens, e)
      /\ LevelAt(s, t + 1) = LevelOf(cap, per, b.tokens, e + 1)
  BY <1>1, <1>4, <1>5, Zenon DEF LevelAt
<1>7. /\ LevelAt(s, t + 1) \in Nat /\ LevelAt(s, t + 1) < full + per
      /\ \/ LevelAt(s, t + 1) = LevelAt(b, t) + 1
         \/ LevelAt(b, t) = full + per - 1 /\ LevelAt(s, t + 1) = full
  <2>1. cap \in Nat /\ e + 1 \in Nat /\ b.tokens \in 0..cap
    BY <1>1
  <2>2. LevelOf(cap, per, b.tokens, e + 1) \in Nat /\ LevelOf(cap, per, b.tokens, e + 1) < full + per
    BY <1>2, <2>1, LevelRange
  <2>3. \/ LevelOf(cap, per, b.tokens, e + 1) = LevelOf(cap, per, b.tokens, e) + 1
        \/ /\ LevelOf(cap, per, b.tokens, e) = full + per - 1
           /\ LevelOf(cap, per, b.tokens, e + 1) = full
    BY <1>2, <2>1, LevelTick
  <2> QED BY <1>6, <2>2, <2>3, Zenon
<1>8. b.ideal <= full /\ b.ideal <= LevelAt(b, t) /\ LevelAt(b, t) < b.ideal + per
  BY <1>2 DEF SoundAt
<1>9. /\ ideal <= full /\ ideal <= LevelAt(s, t + 1) /\ LevelAt(s, t + 1) < ideal + per
      /\ LevelAt(s, t + 1) <= LevelAt(b, t) + 1
  BY <1>1, <1>3, <1>7, <1>8 DEF Least
<1>10. s.tokens <= cap /\ s.last <= t + 1
  BY <1>1, <1>4
<1> QED BY <1>2, <1>4, <1>9, <1>10, Zenon DEF SoundAt, s

LEMMA NewSound ==
    ASSUME now \in Nat, NEW cap \in Nat \ {0}, NEW per \in Nat \ {0}
    PROVE  /\ SoundAt(NewBucket(cap, per), cap, per, now)
           /\ LevelAt(NewBucket(cap, per), now) = cap * per
<1> DEFINE b == NewBucket(cap, per)
<1>1. PICK full \in Nat : full = cap * per
  BY Times
<1>2. /\ b \in Bucket /\ b.cap = cap /\ b.per = per /\ b.tokens = cap /\ b.last = now
      /\ b.ideal = full
  BY <1>1 DEF NewBucket, Bucket
<1> HIDE DEF b
<1>3. now - b.last = 0 /\ 0 \div per = 0
  BY <1>2, QuotientUnique
<1>4. LevelAt(b, now) = full
  <2>1. LevelAt(b, now) = LevelOf(cap, per, cap, 0)
    BY <1>2, <1>3, Zenon DEF LevelAt
  <2>2. LevelOf(cap, per, cap, 0) = full + 0
    BY <1>1, <1>3 DEF LevelOf
  <2> QED BY <2>1, <2>2
<1>5. full <= full /\ full < full + per /\ cap <= cap /\ now <= now
  OBVIOUS
<1>6. SoundAt(b, cap, per, now)
  BY <1>1, <1>2, <1>4, <1>5, Zenon DEF SoundAt
<1> QED BY <1>1, <1>4, <1>6, Zenon DEF b

-----------------------------------------------------------------------------
(* The inductive invariant *)

BucketsOK ==
    /\ SoundAt(global, GlobalCap, GlobalPer, now)
    /\ 0 \notin DOMAIN buckets
    /\ \A i \in DOMAIN buckets : SoundAt(buckets[i], IPCap, IPPer, now)

TableOK ==
    /\ DOMAIN perIP \subseteq known
    /\ IsFiniteSet(DOMAIN perIP) /\ Cardinality(DOMAIN perIP) <= PerIPMax
    /\ \A a \in DOMAIN perIP : perIP[a].bucket \in DOMAIN buckets
    /\ \A a, c \in DOMAIN perIP : perIP[a].bucket = perIP[c].bucket => a = c

RequestsOK ==
    /\ pc \in [Callers -> {"idle", "fetch", "ask"}]
    /\ ip \in [Callers -> IPs \cup {NoIP}]
    /\ hold \in [Callers -> DOMAIN buckets \cup {0}]
    /\ \A p \in Callers : IF pc[p] = "idle" THEN ip[p] = NoIP ELSE ip[p] \in IPs
    /\ \A p \in Callers : pc[p] = "ask" <=> hold[p] # 0

\* A request holds the bucket that the table has for its address, unless the
\* address has been evicted.
HoldsItsBucket(p) ==
    /\ ip[p] \in DOMAIN perIP
    /\ perIP[ip[p]].bucket = hold[p]

HeldOK == \A p \in Callers : pc[p] = "ask" /\ ip[p] \notin evicted => HoldsItsBucket(p)

\* What an address has passed and what its bucket can still give, in ticks' worth,
\* are together no more than the burst and the time that has gone by.
Allowance == IPCap * IPPer + now
Spent(a) == passed[a] * IPPer + LevelAt(buckets[perIP[a].bucket], now)

BudgetOK ==
    /\ passed \in [IPs -> Nat]
    /\ \A a \in IPs \ evicted :
          IF a \in DOMAIN perIP THEN Spent(a) <= Allowance ELSE passed[a] = 0

KnownOK ==
    /\ IsFiniteSet(known) /\ known \subseteq IPs /\ evicted \subseteq known
    /\ evicted # {} => Cardinality(known) > PerIPMax

IInv ==
    /\ now \in 0..MaxTime
    /\ BucketsOK /\ TableOK /\ RequestsOK /\ HeldOK /\ BudgetOK /\ KnownOK

LEMMA Constants ==
    /\ IPCap \in Nat \ {0} /\ IPPer \in Nat \ {0} /\ IPCap \in Nat /\ IPPer \in Nat
    /\ GlobalCap \in Nat \ {0} /\ GlobalPer \in Nat \ {0}
    /\ PerIPMax \in Nat \ {0} /\ MaxTime \in Nat /\ NoIP \notin IPs
BY LimiterOK

LEMMA InitInv == Init => IInv
<1> SUFFICES ASSUME Init PROVE IInv
  OBVIOUS
<1>1. now \in Nat /\ now \in 0..MaxTime
  BY Constants DEF Init
<1>2. BucketsOK
  BY <1>1, Constants, NewSound DEF Init, BucketsOK
<1>3. TableOK
  BY Constants, FS_EmptySet DEF Init, TableOK
<1>4. RequestsOK /\ HeldOK
  BY DEF Init, RequestsOK, HeldOK
<1>5. BudgetOK
  BY DEF Init, BudgetOK
<1>6. KnownOK
  BY FS_EmptySet DEF Init, KnownOK
<1> QED BY <1>1, <1>2, <1>3, <1>4, <1>5, <1>6 DEF IInv

LEMMA TickInv == IInv /\ Tick => IInv'
<1> SUFFICES ASSUME IInv, Tick PROVE IInv'
  OBVIOUS
<1> USE DEF IInv
<1>1. now \in Nat /\ now' = now + 1 /\ now' \in 0..MaxTime
  BY Constants DEF Tick
<1>2. SoundAt(global, GlobalCap, GlobalPer, now)'
  BY <1>1, Constants, LaterSound DEF Tick, BucketsOK
<1>3. DOMAIN buckets' = DOMAIN buckets
  BY DEF Tick
<1>4. ASSUME NEW i \in DOMAIN buckets
      PROVE  /\ SoundAt(buckets'[i], IPCap, IPPer, now')
             /\ LevelAt(buckets'[i], now') <= LevelAt(buckets[i], now) + 1
             /\ LevelAt(buckets'[i], now') \in Nat /\ LevelAt(buckets[i], now) \in Nat
  <2>1. buckets'[i] = Later(buckets[i])
    BY DEF Tick
  <2>2. SoundAt(buckets[i], IPCap, IPPer, now)
    BY DEF BucketsOK
  <2>3. /\ SoundAt(buckets'[i], IPCap, IPPer, now + 1)
        /\ LevelAt(buckets'[i], now + 1) <= LevelAt(buckets[i], now) + 1
    BY <1>1, <2>1, <2>2, Constants, LaterSound
  <2>4. now + 1 \in Nat
    BY <1>1
  <2>5. LevelAt(buckets'[i], now + 1) \in Nat /\ LevelAt(buckets[i], now) \in Nat
    BY <1>1, <2>2, <2>3, <2>4, Constants, SoundTypes
  <2> QED BY <1>1, <2>3, <2>5
<1>5. BucketsOK'
  BY <1>2, <1>3, <1>4 DEF BucketsOK
<1>6. TableOK'
  BY <1>3 DEF Tick, TableOK, history
<1>7. RequestsOK' /\ HeldOK' /\ KnownOK'
  BY <1>3 DEF Tick, RequestsOK, HeldOK, HoldsItsBucket, KnownOK, requests, history
<1>8. BudgetOK'
  <2> SUFFICES ASSUME NEW a \in IPs \ evicted', a \in DOMAIN perIP'
               PROVE  Spent(a)' <= Allowance'
    BY DEF BudgetOK, Tick, history
  <2>1. a \in DOMAIN perIP /\ a \in IPs \ evicted /\ passed[a] \in Nat
        /\ passed' = passed /\ perIP' = perIP
    BY DEF Tick, history, BudgetOK
  <2>2. passed[a] * IPPer \in Int /\ IPCap * IPPer \in Int
    BY <2>1, Constants, Times
  <2>3. perIP[a].bucket \in DOMAIN buckets
    BY <2>1 DEF TableOK
  <2>4. passed[a] * IPPer + LevelAt(buckets[perIP[a].bucket], now) <= IPCap * IPPer + now
    BY <2>1 DEF BudgetOK, Spent, Allowance
  <2>5. passed[a] * IPPer + LevelAt(buckets'[perIP[a].bucket], now') <= IPCap * IPPer + now'
    BY <1>1, <1>4, <2>2, <2>3, <2>4
  <2> QED BY <2>1, <2>5 DEF Spent, Allowance
<1> QED BY <1>1, <1>5, <1>6, <1>7, <1>8

\* What only the global bucket changes leaves the rest of the invariant alone.
LEMMA GlobalInv ==
    ASSUME IInv, SoundAt(global', GlobalCap, GlobalPer, now), RequestsOK', HeldOK',
           UNCHANGED <<now, buckets, perIP, hold, history>>
    PROVE  IInv'
<1>1. BucketsOK'
  BY DEF IInv, BucketsOK
<1>2. TableOK' /\ BudgetOK' /\ KnownOK'
  BY DEF IInv, TableOK, BudgetOK, Spent, Allowance, KnownOK, history
<1> QED BY <1>1, <1>2 DEF IInv

LEMMA StatsInv == IInv /\ Stats => IInv'
<1> SUFFICES ASSUME IInv, Stats PROVE IInv'
  OBVIOUS
<1>1. now \in Nat /\ SoundAt(global, GlobalCap, GlobalPer, now)
  BY Constants DEF IInv, BucketsOK
<1>2. SoundAt(global', GlobalCap, GlobalPer, now)
  BY <1>1, Constants, RefillSound DEF Stats
<1>3. RequestsOK' /\ HeldOK'
  BY DEF IInv, Stats, RequestsOK, HeldOK, HoldsItsBucket, requests, history
<1> QED BY <1>2, <1>3, GlobalInv DEF Stats, requests

LEMMA AskGlobalInv ==
    ASSUME IInv, NEW p \in Callers, NEW a \in IPs \cup {NoIP}, AskGlobal(p, a)
    PROVE  IInv'
<1>1. now \in Nat /\ SoundAt(global, GlobalCap, GlobalPer, now)
  BY Constants DEF IInv, BucketsOK
<1>2. SoundAt(global', GlobalCap, GlobalPer, now)
  BY <1>1, Constants, TakenSound DEF AskGlobal
<1>3. RequestsOK' /\ HeldOK'
  <2>1. CASE Has(global) /\ a # NoIP
    BY <2>1 DEF IInv, AskGlobal, RequestsOK, HeldOK, HoldsItsBucket, history
  <2>2. CASE ~(Has(global) /\ a # NoIP)
    BY <2>2 DEF IInv, AskGlobal, RequestsOK, HeldOK, HoldsItsBucket, history
  <2> QED BY <2>1, <2>2
<1> QED BY <1>2, <1>3, GlobalInv DEF AskGlobal

LEMMA FetchInv ==
    ASSUME IInv, NEW p \in Callers, Fetch(p)
    PROVE  IInv'
<1> DEFINE a == ip[p]
<1>1. /\ pc[p] = "fetch" /\ a \in DOMAIN perIP
      /\ perIP' = [perIP EXCEPT ![a] = Hit(perIP[a].bucket)]
      /\ hold' = [hold EXCEPT ![p] = perIP[a].bucket]
      /\ pc' = [pc EXCEPT ![p] = "ask"]
      /\ UNCHANGED <<now, global, buckets, ip, passed, known, evicted>>
  BY DEF Fetch, Known, history
<1>2. DOMAIN perIP' = DOMAIN perIP /\ \A c \in DOMAIN perIP : perIP'[c].bucket = perIP[c].bucket
  BY <1>1 DEF Hit
<1>3. BucketsOK' /\ KnownOK'
  BY <1>1 DEF IInv, BucketsOK, KnownOK
<1>4. TableOK'
  BY <1>1, <1>2 DEF IInv, TableOK
<1>5. perIP[a].bucket \in DOMAIN buckets /\ perIP[a].bucket # 0
  BY <1>1 DEF IInv, TableOK, BucketsOK
<1>6. RequestsOK'
  BY <1>1, <1>5 DEF IInv, RequestsOK
<1>7. HeldOK'
  <2> SUFFICES ASSUME NEW q \in Callers, pc'[q] = "ask", ip'[q] \notin evicted'
               PROVE  HoldsItsBucket(q)'
    BY DEF HeldOK
  <2>1. CASE q = p
    BY <1>1, <1>2, <2>1 DEF IInv, RequestsOK, HoldsItsBucket
  <2>2. CASE q # p
    BY <1>1, <1>2, <2>2 DEF IInv, RequestsOK, HeldOK, HoldsItsBucket
  <2> QED BY <2>1, <2>2
<1>8. BudgetOK'
  BY <1>1, <1>2 DEF IInv, BudgetOK, Spent, Allowance
<1> QED BY <1>1, <1>3, <1>4, <1>6, <1>7, <1>8 DEF IInv

\* The buckets that are in use keep their state, and the new one is nobody's.
FetchNewIs(p, gone, i) ==
    /\ i \notin InUse
    /\ IF Full THEN \E v \in Oldest : gone = {v} ELSE gone = {}
    /\ DOMAIN perIP' = (DOMAIN perIP \ gone) \cup {ip[p]}
    /\ perIP'[ip[p]].bucket = i
    /\ \A b \in DOMAIN perIP \ gone : b # ip[p] => perIP'[b] = perIP[b]
    /\ buckets' = [j \in {perIP[b].bucket : b \in DOMAIN perIP \ gone}
                           \cup ({hold[q] : q \in Callers} \ {0}) \cup {i} |->
                      IF j = i THEN NewBucket(IPCap, IPPer) ELSE buckets[j]]
    /\ hold' = [hold EXCEPT ![p] = i]
    /\ evicted' = evicted \cup gone
    /\ known' = known \cup {ip[p]}
    /\ pc' = [pc EXCEPT ![p] = "ask"]
    /\ UNCHANGED <<now, global, ip, passed>>

LEMMA FetchNewInv ==
    ASSUME IInv, NEW p \in Callers, FetchNew(p)
    PROVE  IInv'
<1> DEFINE a == ip[p]
<1>1. PICK gone, i : FetchNewIs(p, gone, i)
  <2>1. PICK gone \in IF Full THEN {{v} : v \in Oldest} ELSE {{}}, i \in Ids :
        /\ i \notin InUse
        /\ perIP' = [b \in (DOMAIN perIP \ gone) \cup {a} |-> IF b = a THEN Hit(i) ELSE perIP[b]]
        /\ buckets' = [j \in {perIP[b].bucket : b \in DOMAIN perIP \ gone}
                               \cup ({hold[q] : q \in Callers} \ {0}) \cup {i} |->
                          IF j = i THEN NewBucket(IPCap, IPPer) ELSE buckets[j]]
        /\ hold' = [hold EXCEPT ![p] = i]
        /\ evicted' = evicted \cup gone
    BY DEF FetchNew
  <2>2. IF Full THEN \E v \in Oldest : gone = {v} ELSE gone = {}
    BY <2>1
  <2>3. perIP'[a].bucket = i
    BY <2>1 DEF Hit
  <2> QED BY <2>1, <2>2, <2>3 DEF FetchNew, FetchNewIs
<1>2. /\ pc[p] = "fetch" /\ a \notin DOMAIN perIP /\ a \in IPs /\ hold[p] = 0
  BY DEF FetchNew, Known, IInv, RequestsOK
<1>3. /\ i # 0 /\ \A c \in DOMAIN perIP : perIP[c].bucket # i
      /\ \A q \in Callers : hold[q] # i
  BY <1>1, <1>2 DEF FetchNewIs, InUse
<1>4. gone \subseteq DOMAIN perIP
  BY <1>1 DEF FetchNewIs, Oldest
<1>5. now \in Nat /\ UNCHANGED <<now, global, ip, passed>>
  BY <1>1, Constants DEF IInv, FetchNewIs
<1>6. /\ \A c \in DOMAIN perIP \ gone :
            perIP[c].bucket \in DOMAIN buckets' /\ perIP[c].bucket \in DOMAIN buckets
      /\ \A q \in Callers : hold[q] # 0 => hold[q] \in DOMAIN buckets' /\ hold[q] \in DOMAIN buckets
      /\ i \in DOMAIN buckets'
      /\ \A j \in DOMAIN buckets' : j # i => j \in DOMAIN buckets /\ buckets'[j] = buckets[j]
      /\ buckets'[i] = NewBucket(IPCap, IPPer)
      /\ 0 \notin DOMAIN buckets'
  <2>1. \A c \in DOMAIN perIP : perIP[c].bucket \in DOMAIN buckets
    BY DEF IInv, TableOK
  <2>2. \A q \in Callers : hold[q] # 0 => hold[q] \in DOMAIN buckets
    BY DEF IInv, RequestsOK
  <2>3. 0 \notin DOMAIN buckets
    BY DEF IInv, BucketsOK
  <2> QED BY <1>1, <1>3, <2>1, <2>2, <2>3 DEF FetchNewIs
<1>7. BucketsOK'
  <2>1. SoundAt(NewBucket(IPCap, IPPer), IPCap, IPPer, now)
    BY <1>5, Constants, NewSound
  <2>2. \A j \in DOMAIN buckets' : SoundAt(buckets'[j], IPCap, IPPer, now)
    BY <1>6, <2>1 DEF IInv, BucketsOK
  <2> QED BY <1>5, <1>6, <2>2 DEF IInv, BucketsOK
<1>8. /\ IsFiniteSet(DOMAIN perIP') /\ Cardinality(DOMAIN perIP') <= PerIPMax
      /\ gone # {} => Cardinality(DOMAIN perIP) >= PerIPMax
  <2>1. IsFiniteSet(DOMAIN perIP) /\ Cardinality(DOMAIN perIP) <= PerIPMax
        /\ Cardinality(DOMAIN perIP) \in Nat
    BY FS_CardinalityType DEF IInv, TableOK
  <2>2. DOMAIN perIP' = (DOMAIN perIP \ gone) \cup {a}
    BY <1>1 DEF FetchNewIs
  <2>3. CASE Full
    <3>1. PICK v \in DOMAIN perIP : gone = {v}
      BY <1>1, <2>3 DEF FetchNewIs, Oldest
    <3>2. /\ IsFiniteSet(DOMAIN perIP \ {v})
          /\ Cardinality(DOMAIN perIP \ {v}) = Cardinality(DOMAIN perIP) - 1
      BY <2>1, <3>1, FS_RemoveElement
    <3>3. /\ IsFiniteSet((DOMAIN perIP \ {v}) \cup {a})
          /\ Cardinality((DOMAIN perIP \ {v}) \cup {a}) = Cardinality(DOMAIN perIP)
      <4>1. a \notin DOMAIN perIP \ {v}
        BY <1>2
      <4>2. /\ IsFiniteSet((DOMAIN perIP \ {v}) \cup {a})
            /\ Cardinality((DOMAIN perIP \ {v}) \cup {a}) = Cardinality(DOMAIN perIP \ {v}) + 1
        BY <3>2, <4>1, FS_AddElement
      <4> QED BY <2>1, <3>2, <4>2
    <3> QED BY <2>1, <2>2, <2>3, <3>1, <3>3 DEF Full
  <2>4. CASE ~Full
    <3>1. gone = {} /\ DOMAIN perIP' = DOMAIN perIP \cup {a}
      BY <1>1, <2>2, <2>4 DEF FetchNewIs
    <3>2. IsFiniteSet(DOMAIN perIP') /\ Cardinality(DOMAIN perIP') = Cardinality(DOMAIN perIP) + 1
      BY <1>2, <2>1, <3>1, FS_AddElement
    <3> QED BY <2>1, <2>4, <3>1, <3>2, Constants DEF Full
  <2> QED BY <2>3, <2>4
<1>9. /\ DOMAIN perIP' = (DOMAIN perIP \ gone) \cup {a}
      /\ perIP'[a].bucket = i
      /\ \A c \in DOMAIN perIP \ gone : perIP'[c].bucket = perIP[c].bucket
  BY <1>1, <1>2 DEF FetchNewIs
<1>10. TableOK'
  <2>1. DOMAIN perIP' \subseteq known'
    BY <1>1, <1>9 DEF IInv, TableOK, FetchNewIs
  <2>2. \A c \in DOMAIN perIP' : perIP'[c].bucket \in DOMAIN buckets'
    BY <1>6, <1>9
  <2>3. \A c, d \in DOMAIN perIP' : perIP'[c].bucket = perIP'[d].bucket => c = d
    <3>1. \A c, d \in DOMAIN perIP : perIP[c].bucket = perIP[d].bucket => c = d
      BY DEF IInv, TableOK
    <3> QED BY <1>3, <1>9, <3>1
  <2> QED BY <1>8, <2>1, <2>2, <2>3 DEF TableOK
<1>11. RequestsOK'
  <2>1. hold' \in [Callers -> DOMAIN buckets' \cup {0}]
    BY <1>1, <1>6 DEF IInv, RequestsOK, FetchNewIs
  <2>2. pc' \in [Callers -> {"idle", "fetch", "ask"}]
    BY <1>1 DEF IInv, RequestsOK, FetchNewIs
  <2>3. \A q \in Callers : IF pc'[q] = "idle" THEN ip'[q] = NoIP ELSE ip'[q] \in IPs
    BY <1>1, <1>2 DEF IInv, RequestsOK, FetchNewIs
  <2>4. \A q \in Callers : pc'[q] = "ask" <=> hold'[q] # 0
    BY <1>1, <1>3 DEF IInv, RequestsOK, FetchNewIs
  <2> QED BY <1>5, <2>1, <2>2, <2>3, <2>4 DEF IInv, RequestsOK
<1>12. HeldOK'
  <2> SUFFICES ASSUME NEW q \in Callers, pc'[q] = "ask", ip'[q] \notin evicted'
               PROVE  HoldsItsBucket(q)'
    BY DEF HeldOK
  <2>1. evicted' = evicted \cup gone /\ hold' = [hold EXCEPT ![p] = i]
        /\ pc' = [pc EXCEPT ![p] = "ask"]
    BY <1>1 DEF FetchNewIs
  <2>2. CASE q = p
    BY <1>5, <1>9, <2>1, <2>2 DEF IInv, RequestsOK, HoldsItsBucket
  <2>3. CASE q # p
    <3>1. HoldsItsBucket(q) /\ ip[q] \notin gone /\ hold'[q] = hold[q]
      BY <1>5, <2>1, <2>3 DEF IInv, RequestsOK, HeldOK
    <3>2. ip[q] # a
      BY <1>2, <3>1 DEF HoldsItsBucket
    <3> QED BY <1>5, <1>9, <3>1, <3>2 DEF HoldsItsBucket
  <2> QED BY <2>2, <2>3
<1>13. BudgetOK'
  <2> SUFFICES ASSUME NEW c \in IPs \ evicted'
               PROVE  IF c \in DOMAIN perIP' THEN Spent(c)' <= Allowance' ELSE passed'[c] = 0
    BY <1>5 DEF IInv, BudgetOK
  <2>1. c \notin evicted /\ c \notin gone
    BY <1>1 DEF FetchNewIs
  <2>2. CASE c = a
    <3>1. passed'[c] = 0
      BY <1>2, <1>5, <2>1, <2>2 DEF IInv, BudgetOK
    <3>2. LevelAt(buckets'[perIP'[c].bucket], now') = IPCap * IPPer
      BY <1>5, <1>6, <1>9, <2>2, Constants, NewSound
    <3>3. IPCap * IPPer \in Int /\ 0 * IPPer = 0
      BY Constants, Times
    <3>4. Spent(c)' <= Allowance'
      BY <1>5, <3>1, <3>2, <3>3 DEF Spent, Allowance
    <3> QED BY <1>9, <2>2, <3>4
  <2>3. CASE c # a /\ c \in DOMAIN perIP
    <3>1. Spent(c)' = Spent(c) /\ Allowance' = Allowance
      BY <1>3, <1>5, <1>6, <1>9, <2>1, <2>3 DEF Spent, Allowance
    <3> QED BY <1>9, <2>1, <2>3, <3>1 DEF IInv, BudgetOK
  <2>4. CASE c # a /\ c \notin DOMAIN perIP
    BY <1>5, <1>9, <2>1, <2>4 DEF IInv, BudgetOK
  <2> QED BY <2>2, <2>3, <2>4
<1>14. KnownOK'
  <2>1. /\ IsFiniteSet(known) /\ known \subseteq IPs /\ evicted \subseteq known
        /\ evicted # {} => Cardinality(known) > PerIPMax
    BY DEF IInv, KnownOK
  <2>2. known' = known \cup {a} /\ evicted' = evicted \cup gone
    BY <1>1 DEF FetchNewIs
  <2>3. /\ IsFiniteSet(known') /\ Cardinality(known) <= Cardinality(known')
        /\ Cardinality(known) \in Nat /\ Cardinality(known') \in Nat
    <3>1. IsFiniteSet(known')
      BY <2>1, <2>2, FS_AddElement
    <3> QED BY <2>2, <2>1, <3>1, FS_Subset, FS_CardinalityType
  <2>4. DOMAIN perIP \subseteq known /\ IsFiniteSet(DOMAIN perIP)
    BY DEF IInv, TableOK
  <2>5. CASE gone # {}
    <3>1. /\ IsFiniteSet(DOMAIN perIP \cup {a})
          /\ Cardinality(DOMAIN perIP \cup {a}) = Cardinality(DOMAIN perIP) + 1
          /\ Cardinality(DOMAIN perIP) \in Nat
      BY <1>2, <2>4, FS_AddElement, FS_CardinalityType
    <3>2. Cardinality(DOMAIN perIP \cup {a}) <= Cardinality(known')
      BY <2>2, <2>3, <2>4, FS_Subset
    <3>3. Cardinality(known') > PerIPMax
      BY <1>8, <2>3, <2>5, <3>1, <3>2, Constants
    <3>4. known' \subseteq IPs /\ evicted' \subseteq known'
      BY <1>2, <1>4, <2>1, <2>2, <2>4
    <3> QED BY <2>3, <3>3, <3>4 DEF KnownOK
  <2>6. CASE gone = {}
    <3>1. known' \subseteq IPs /\ evicted' \subseteq known' /\ evicted' = evicted
      BY <1>2, <2>1, <2>2, <2>6
    <3>2. evicted' # {} => Cardinality(known') > PerIPMax
      BY <2>1, <2>3, <3>1, Constants
    <3> QED BY <2>3, <3>1, <3>2 DEF KnownOK
  <2> QED BY <2>5, <2>6
<1> QED BY <1>5, <1>7, <1>10, <1>11, <1>12, <1>13, <1>14 DEF IInv

LEMMA AskInv ==
    ASSUME IInv, NEW p \in Callers, Ask(p)
    PROVE  IInv'
<1> DEFINE h == hold[p]
<1>1. /\ pc[p] = "ask"
      /\ buckets' = [buckets EXCEPT ![h] = Taken(buckets[h])]
      /\ passed' = IF Has(buckets[h]) THEN [passed EXCEPT ![ip[p]] = @ + 1] ELSE passed
      /\ pc' = [pc EXCEPT ![p] = "idle"]
      /\ ip' = [ip EXCEPT ![p] = NoIP] /\ hold' = [hold EXCEPT ![p] = 0]
      /\ UNCHANGED <<now, global, perIP, known, evicted>>
  BY DEF Ask
<1>2. h \in DOMAIN buckets /\ ip[p] \in IPs
  BY <1>1 DEF IInv, RequestsOK
<1>3. now \in Nat
  BY Constants DEF IInv
<1>4. \A i \in DOMAIN buckets : SoundAt(buckets[i], IPCap, IPPer, now) /\ LevelAt(buckets[i], now) \in Nat
  BY <1>3, Constants, SoundTypes DEF IInv, BucketsOK
<1>5. /\ SoundAt(buckets'[h], IPCap, IPPer, now)
      /\ LevelAt(buckets'[h], now) = IF Has(buckets[h]) THEN LevelAt(buckets[h], now) - IPPer
                                                         ELSE LevelAt(buckets[h], now)
  <2>1. buckets'[h] = Taken(buckets[h])
    BY <1>1, <1>2
  <2> QED BY <1>2, <1>3, <1>4, <2>1, Constants, TakenSound
<1>6. DOMAIN buckets' = DOMAIN buckets
      /\ \A i \in DOMAIN buckets : i # h => buckets'[i] = buckets[i]
  BY <1>1
<1>7. BucketsOK'
  BY <1>1, <1>4, <1>5, <1>6 DEF IInv, BucketsOK
<1>8. TableOK' /\ KnownOK'
  BY <1>1, <1>6 DEF IInv, TableOK, KnownOK
<1>9. RequestsOK'
  BY <1>1, <1>6 DEF IInv, RequestsOK
<1>10. HeldOK'
  BY <1>1 DEF IInv, RequestsOK, HeldOK, HoldsItsBucket
<1>11. BudgetOK'
  <2>1. passed \in [IPs -> Nat] /\ passed' \in [IPs -> Nat]
    <3>1. passed \in [IPs -> Nat]
      BY DEF IInv, BudgetOK
    <3>2. [passed EXCEPT ![ip[p]] = @ + 1] \in [IPs -> Nat]
      BY <1>2, <3>1
    <3> QED BY <1>1, <3>1, <3>2
  <2> SUFFICES ASSUME NEW c \in IPs \ evicted'
               PROVE  IF c \in DOMAIN perIP' THEN Spent(c)' <= Allowance' ELSE passed'[c] = 0
    BY <2>1 DEF BudgetOK
  <2>2. c \in IPs \ evicted /\ perIP' = perIP /\ now' = now /\ passed[c] \in Nat
    BY <1>1, <2>1
  <2>3. ip[p] \notin evicted => ip[p] \in DOMAIN perIP /\ perIP[ip[p]].bucket = h
    BY <1>1 DEF IInv, HeldOK, HoldsItsBucket
  <2>4. CASE c \notin DOMAIN perIP
    BY <1>1, <2>2, <2>3, <2>4 DEF IInv, BudgetOK
  <2>5. CASE c \in DOMAIN perIP
    <3> DEFINE i == perIP[c].bucket
    <3>1. i \in DOMAIN buckets
      BY <2>5 DEF IInv, TableOK
    <3>2. passed[c] * IPPer + LevelAt(buckets[i], now) <= Allowance
      BY <2>2, <2>5 DEF IInv, BudgetOK, Spent
    <3> HIDE DEF i
    <3>3. /\ passed[c] * IPPer \in Int /\ (passed[c] + 1) * IPPer = passed[c] * IPPer + IPPer
          /\ Allowance \in Int /\ LevelAt(buckets[i], now) \in Nat
      BY <1>3, <1>4, <2>2, <3>1, Constants, Times DEF Allowance
    <3>4. CASE c = ip[p] /\ Has(buckets[h])
      <4>1. i = h /\ passed'[c] = passed[c] + 1
        BY <1>1, <2>1, <2>2, <2>3, <3>4 DEF i
      <4>2. LevelAt(buckets'[i], now) = LevelAt(buckets[i], now) - IPPer
        BY <1>5, <3>4, <4>1
      <4>3. (passed[c] + 1) * IPPer + LevelAt(buckets'[i], now) <= Allowance
        BY <3>2, <3>3, <4>2, Constants
      <4>4. passed'[c] * IPPer + LevelAt(buckets'[i], now) <= Allowance
        BY <4>1, <4>3
      <4> QED BY <2>2, <2>5, <4>4 DEF Spent, Allowance, i
    <3>5. CASE ~(c = ip[p] /\ Has(buckets[h]))
      <4>1. passed'[c] = passed[c]
        BY <1>1, <3>5
      <4>2. LevelAt(buckets'[i], now) \in Int /\ LevelAt(buckets'[i], now) <= LevelAt(buckets[i], now)
        BY <1>5, <1>6, <3>1, <3>3, Constants
      <4>3. passed'[c] * IPPer + LevelAt(buckets'[i], now) <= Allowance
        BY <3>2, <3>3, <4>1, <4>2
      <4> QED BY <2>2, <2>5, <4>3 DEF Spent, Allowance, i
    <3> QED BY <3>4, <3>5
  <2> QED BY <2>4, <2>5
<1>12. now' \in 0..MaxTime
  BY <1>1 DEF IInv
<1> QED BY <1>7, <1>8, <1>9, <1>10, <1>11, <1>12 DEF IInv

THEOREM Inductive == Spec => []IInv
<1>1. Init => IInv
  BY InitInv
<1>2. IInv /\ [Next]_vars => IInv'
  <2> SUFFICES ASSUME IInv, [Next]_vars PROVE IInv'
    OBVIOUS
  <2>1. CASE Tick
    BY <2>1, TickInv
  <2>2. CASE Stats
    BY <2>2, StatsInv
  <2>3. ASSUME NEW p \in Callers, NEW a \in IPs \cup {NoIP}, AskGlobal(p, a) PROVE IInv'
    BY <2>3, AskGlobalInv
  <2>4. ASSUME NEW p \in Callers, Fetch(p) PROVE IInv'
    BY <2>4, FetchInv
  <2>5. ASSUME NEW p \in Callers, FetchNew(p) PROVE IInv'
    BY <2>5, FetchNewInv
  <2>6. ASSUME NEW p \in Callers, Ask(p) PROVE IInv'
    BY <2>6, AskInv
  <2>7. CASE UNCHANGED vars
    BY <2>7 DEF vars, IInv, BucketsOK, TableOK, RequestsOK, HeldOK, HoldsItsBucket,
                BudgetOK, Spent, Allowance, KnownOK
  <2> QED BY <2>1, <2>2, <2>3, <2>4, <2>5, <2>6, <2>7 DEF Next
<1> QED BY <1>1, <1>2, PTL DEF Spec

-----------------------------------------------------------------------------
(* What the limiter guarantees *)

\* Every variable of the limiter has a value of its kind: the table never remembers
\* more than PerIPMax addresses, each has a bucket of its own, and no bucket holds
\* more than its burst or a date ahead of the clock (acquireIPBucket, refillLocked).
THEOREM LimiterTyped == Spec => []TypeOK
<1>1. IInv => TypeOK
  <2> SUFFICES ASSUME IInv PROVE TypeOK
    OBVIOUS
  <2>1. /\ global \in Bucket /\ global.tokens <= global.cap /\ global.last <= now
        /\ \A i \in DOMAIN buckets :
              /\ buckets[i] \in Bucket /\ buckets[i].tokens <= buckets[i].cap
              /\ buckets[i].last <= now
    BY DEF IInv, BucketsOK, SoundAt
  <2>2. /\ global \in Bucket /\ Range(buckets) \subseteq Bucket
        /\ \A b \in {global} \cup Range(buckets) : b.tokens <= b.cap /\ b.last <= now
    BY <2>1 DEF Range
  <2>3. /\ DOMAIN perIP \subseteq IPs /\ Cardinality(DOMAIN perIP) <= PerIPMax
        /\ \A a \in DOMAIN perIP : perIP[a].bucket \in DOMAIN buckets
        /\ \A a, c \in DOMAIN perIP : perIP[a].bucket = perIP[c].bucket => a = c
    BY DEF IInv, TableOK, KnownOK
  <2> QED BY <2>2, <2>3 DEF IInv, TypeOK, RequestsOK, BudgetOK, KnownOK
<1> QED BY <1>1, Inductive, PTL

\* However requests, refusals and reads are spaced, a bucket that is refilled in whole
\* tokens (refillLocked) can give what the one filled without rounding could, and less
\* than one token more.
THEOREM RoundingNearIdeal == Spec => []NearIdeal
<1>1. ASSUME NEW cap \in Nat \ {0}, NEW per \in Nat \ {0}, NEW b, now \in Nat,
             SoundAt(b, cap, per, now)
      PROVE  b.ideal <= Level(b) /\ Level(b) < b.ideal + b.per
  <2>1. LevelAt(b, now) = Refill(b).tokens * per + (now - Refill(b).last)
    BY <1>1, RefillIs
  <2>2. b.per = per /\ b.ideal <= LevelAt(b, now) /\ LevelAt(b, now) < b.ideal + per
    BY <1>1 DEF SoundAt
  <2>3. Level(b) = LevelAt(b, now)
    BY <2>1, <2>2 DEF Level
  <2> QED BY <2>2, <2>3
<1>2. IInv => NearIdeal
  <2> SUFFICES ASSUME IInv, NEW b \in {global} \cup Range(buckets)
               PROVE  b.ideal <= Level(b) /\ Level(b) < b.ideal + b.per
    BY DEF NearIdeal
  <2>1. now \in Nat
    BY Constants DEF IInv
  <2>2. CASE b = global
    BY <1>1, <2>1, <2>2, Constants DEF IInv, BucketsOK
  <2>3. CASE b \in Range(buckets)
    BY <1>1, <2>1, <2>3, Constants DEF IInv, BucketsOK, Range
  <2> QED BY <2>2, <2>3
<1> QED BY <1>2, Inductive, PTL

\* An address that was not evicted passes no more requests than its burst and its rate
\* allow, whoever races for its bucket between the fetch and the question (Allow); and
\* none is evicted before more addresses have come than the table holds.
THEOREM BudgetHolds == Spec => []PerIPBudget
<1>1. IInv => PerIPBudget
  <2> SUFFICES ASSUME IInv PROVE PerIPBudget
    OBVIOUS
  <2>1. now \in Nat
    BY Constants DEF IInv
  <2>2. PICK d \in Nat : d = now \div IPPer /\ now < d * IPPer + IPPer
    BY <2>1, Constants, Quotient
  <2>3. ASSUME NEW a \in IPs \ evicted PROVE passed[a] <= IPCap + d
    <3>1. passed[a] \in Nat
      BY DEF IInv, BudgetOK
    <3>2. CASE a \notin DOMAIN perIP
      BY <3>2, <2>2, Constants DEF IInv, BudgetOK
    <3>3. CASE a \in DOMAIN perIP
      <4>1. perIP[a].bucket \in DOMAIN buckets
        BY <3>3 DEF IInv, TableOK
      <4>2. LevelAt(buckets[perIP[a].bucket], now) \in Nat
        BY <2>1, <4>1, Constants, SoundTypes DEF IInv, BucketsOK
      <4>3. passed[a] * IPPer + LevelAt(buckets[perIP[a].bucket], now) <= IPCap * IPPer + now
        BY <3>3 DEF IInv, BudgetOK, Spent, Allowance
      <4>4. /\ passed[a] * IPPer \in Int /\ IPCap * IPPer \in Int /\ d * IPPer \in Int
            /\ (IPCap + (d + 1)) * IPPer = IPCap * IPPer + (d * IPPer + IPPer)
        <5>1. (IPCap + (d + 1)) * IPPer = IPCap * IPPer + (d + 1) * IPPer
          BY Constants, Times
        <5>2. (d + 1) * IPPer = d * IPPer + IPPer
          BY Constants, Times
        <5>3. passed[a] * IPPer \in Int /\ IPCap * IPPer \in Int /\ d * IPPer \in Int
          BY <3>1, Constants, Times
        <5> QED BY <5>1, <5>2, <5>3
      <4>5. passed[a] >= IPCap + (d + 1) => (IPCap + (d + 1)) * IPPer <= passed[a] * IPPer
        BY <3>1, Constants, Times
      <4>6. ~(passed[a] >= IPCap + (d + 1))
        BY <2>1, <2>2, <4>2, <4>3, <4>4, <4>5, Constants
      <4> QED BY <3>1, <4>6, Constants
    <3> QED BY <3>2, <3>3
  <2> QED BY <2>2, <2>3 DEF PerIPBudget, IInv, KnownOK
<1> QED BY <1>1, Inductive, PTL
=============================================================================
